SPECIFICATION FairSpec
CONSTANTS
  c1 = c1  c2 = c2
  Conns = {c1, c2}
  Scripts <- MCScripts
  FilePieces = 2
  Room = 2
  MaxUpdates = 1
INVARIANTS
  AnswersIntact CarriedOut
PROPERTIES
  Served
