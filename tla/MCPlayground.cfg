\* Two runs of up to two events, two texts, one change of the text, one fault
\* of a worker.  The bounds on runs, edits and faults end the session, so the
\* page may come to rest.
CONSTANTS
  Sources = {1, 2}
  MaxRuns = 2
  MaxEvents = 2
  MaxEdits = 1
  MaxFaults = 1
SPECIFICATION Spec
CHECK_DEADLOCK FALSE
INVARIANTS
  RunAndFlowAgree
  EventsAreOwn
  FreshMeansCurrent
PROPERTY
  DisplayStandsStill
