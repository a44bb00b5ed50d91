CONSTANTS
  d1 = d1
  d2 = d2
  bm = bm
  Data = {d1}
  Changelog = Changelog
  Gen = {bm}
  Fncache = Fncache
  Dirstate = Dirstate
  Tmp = Tmp
  NoFile = NoFile
  MayDie = {"begin", "transaction", "close", "undo", "after", "abort", "recover", "rollback"}
  MayFail = {Fncache, Dirstate}
  LateErrors = FALSE
  Careless = FALSE
  MaxTr = 2
  MaxCount = 2
SPECIFICATION Spec
INVARIANTS TypeOK VisibleComplete NestedWhole DirstateKnown
PROPERTIES RollbackExact Atomic
