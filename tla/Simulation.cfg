SPECIFICATION SimSpec
CONSTANTS
  Alice = Alice
  Bob = Bob
  Cloud = Cloud
  Clients = {Alice, Bob}
  Modulus = 23
  FieldBits = 5
  Length = 2
  Height = 2
  Degree = 5
  RawDataBits = 2
  SizeBits = 4
  Secret <- MCSecret
  Keys = {9, 12}
  Fillers = {17, 22}
  Inputs <- MCInputs
  N = 2
  Buckets <- MCBuckets
  Prf <- MCPrf
  Plus <- MCPlus
  Minus <- MCMinus
  Times <- MCTimes
  EvalRoots <- MCEvalRoots
  Eval <- MCEval
  RootsOf <- MCRootsOf
INVARIANTS
  TypeOK
  IndexOnce
  MasksCancel
  CommonFound
  VerdictRight
CHECK_DEADLOCK FALSE
