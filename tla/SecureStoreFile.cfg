CONSTANTS
  Callers = {c1, c2, c3}
  NoCaller = NoCaller
  Names = {n1, n2}
  NoName = NoName
  MaxId = 3
  Faults = {"io", "crash", "power"}
SPECIFICATION Spec
SYMMETRY Symmetry
INVARIANTS
  FilesAreIntact
  AckedSurvives
PROPERTY ImplementsAtomicFile
