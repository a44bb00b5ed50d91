CONSTANTS
  p1 = p1
  s1 = s1
  Gone = Gone
  Top = {p1}
  Sub = {s1}
  BusyRelease = FALSE
  MaxRef = 2
  MaxQueue = 1
  MaxVersion = 1
SPECIFICATION Spec
INVARIANTS TypeOK NothingSwallowed AgentsInOrder
PROPERTIES ReleaseCompletes EventsAreShown
