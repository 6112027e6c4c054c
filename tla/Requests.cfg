CONSTANTS
  Users = {u1, u2}
  None = None
  MaxOdd = 2
SYMMETRY Alike
SPECIFICATION Spec
INVARIANTS
  TypeOK
  DocumentedAnswers
  WrongFieldsReported
  ValidAfterTrim
  NobodyImpersonates
  ConflictNeedsRace
