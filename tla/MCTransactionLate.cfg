CONSTANTS
  d1 = d1
  d2 = d2
  bm = bm
  Data = {d1}
  Changelog = Changelog
  Gen = {bm}
  Fncache = Fncache
  Dirstate = Dirstate
  Tmp = Tmp
  NoFile = NoFile
  MayDie = {}
  MayFail = {}
  LateErrors = TRUE
  Careless = FALSE
  MaxTr = 2
  MaxCount = 2
SPECIFICATION Spec
PROPERTY Atomic
