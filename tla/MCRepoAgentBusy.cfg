CONSTANTS
  p1 = p1
  s1 = s1
  Gone = Gone
  Top = {p1}
  Sub = {s1}
  BusyRelease = TRUE
  MaxRef = 1
  MaxQueue = 1
  MaxVersion = 0
SPECIFICATION Spec
PROPERTIES ReleaseCompletes
