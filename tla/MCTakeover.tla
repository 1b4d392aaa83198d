---- MODULE MCTakeover ----
\* Two managers, two hints, one waiting sentence and one failure.
EXTENDS Takeover
====
