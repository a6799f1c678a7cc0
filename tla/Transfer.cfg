SPECIFICATION TransferFairSpec

CONSTANTS
  FieldWidth = 2
  JpegSizes = {1, 3}
  Ids = 2
  KernelBytes = 2
  RecvPeriod = 1
  Deadline = 2

INVARIANTS
  TransferTypeOK
  BytesAligned
  ReadBounded

PROPERTIES
  WholeBlocks
  AnswerLeaves
