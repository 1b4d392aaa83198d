---- MODULE MCMediaRegistry ----
\* Two calls, one of a campaign and one manual without a campaign, and one failure.
EXTENDS MediaRegistry
====
