SPECIFICATION Spec
CONSTANT MaxNode = 4
INVARIANTS TypeOK CacheFresh BoundariesExact
PROPERTY PromiseKept
