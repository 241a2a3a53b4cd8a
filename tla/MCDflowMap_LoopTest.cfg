SPECIFICATION MapFairSpec
CONSTANTS
  ca = ca
  cb = cb
  cc = cc
  cd = cd
  ce = ce
  cf = cf
  cg = cg
  Null = Null
  Chan <- MCChan
  BoolChan = {}
  Programs <- MCLoopTest
  Value = {0, 1}
  InitValue = 0
  ConstValue = 1
  Eval <- MCEval
  Pipelined = FALSE
  MaxPut = 2
INVARIANT NoStall
CHECK_DEADLOCK FALSE
