SPECIFICATION Spec
CONSTANTS
  Context = {c1}
  Unit = {"x", "y", "z"}
  Snap <- Two
  ObjectUnits = 2
  ChunkUnits = 2
  Publisher = {p1}
  Reader = {r1}
  None = None
  Broken = Broken
  MaxHits = 1
INVARIANTS TypeOK RejectsOnlyForCause
PROPERTY ImplementsAtomicStore
