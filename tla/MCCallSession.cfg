CONSTANTS
  TranscriptCap <- MCTranscriptCap
  SentenceCap <- MCSentenceCap
  TimerCap <- MCTimerCap
SPECIFICATION FairCallSpec
INVARIANTS
  CallTypeOK
  StrandedOnlyByInterruption
  BargeInExpires
PROPERTIES
  LimitedCallEnds
CHECK_DEADLOCK FALSE
