SPECIFICATION Spec
CONSTANTS
  Context = {c1, c2}
  Unit = {"x", "y", "z"}
  Snap <- Two
  ObjectUnits = 2
  ChunkUnits = 2
  Publisher = {p1, p2}
  Reader = {}
  None = None
  Broken = Broken
  MaxHits = 1
SYMMETRY Symmetry
INVARIANTS ManifestBacked CommitDurable
