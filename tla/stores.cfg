SPECIFICATION Spec
CONSTANTS
  a = a
  b = b
  blankB = blankB
  p = p
  p2 = p2
  q = q
  None = None
  Writers = {w1, w2}
  Names = {a, b, blankB}
  Props = {p, p2, q}
  Field <- FieldOf
  Stripped <- Without
  Labels = {"k", "l"}
  Jobs <- AllJobs
  IdText <- IdsAsText
  MaxIds = 8
  MaxJobs = 3
SYMMETRY Symmetric
INVARIANTS
  RowsAreSound
  OnlyUnseenIsLost
  EdgesJoinWhatTheyMean
  ReimportChangesNothing
CHECK_DEADLOCK FALSE
