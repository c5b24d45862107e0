SPECIFICATION Spec
CONSTANTS
  d1 = d1
  d2 = d2
  d3 = d3
  d4 = d4
  Draft = {d1, d2, d3, d4}
  Tag <- SharedTag
  Empty = {d3}
  Unknown = {d4}
  Publication = {p1, p2, p3}
  Rollback = {b1}
  NoWriter = NoWriter
  MaxFaults = 1
CHECK_DEADLOCK FALSE
SYMMETRY PublicationSymmetry
INVARIANT SoloWriterIsServed
INVARIANT AckedDraftIsStored
