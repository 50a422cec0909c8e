SPECIFICATION Spec
CONSTANTS
  None = None
  Worker = {w1, w2}
  p1 = p1
  p2 = p2
  p3 = p3
  p4 = p4
  Path <- Paths
SYMMETRY Symmetry
INVARIANTS
  TypeOK
  NoStrayFiles
  FilesWhileUsed
