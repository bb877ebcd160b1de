\* One run and two changes of the text, before, during or after it.  The
\* bounds on runs and edits end the session, so the page may come to rest.
CONSTANTS
  Sources = {1, 2}
  MaxRuns = 1
  MaxEvents = 2
  MaxEdits = 2
  MaxFaults = 0
SPECIFICATION FairSpec
CHECK_DEADLOCK FALSE
PROPERTIES
  RunEnds
  PreviewArrives
