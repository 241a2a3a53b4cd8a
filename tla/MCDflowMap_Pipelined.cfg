SPECIFICATION MapFairSpec
CONSTANTS
  ca = ca
  cb = cb
  cc = cc
  cd = cd
  ce = ce
  cf = cf
  cg = cg
  Null = Null
  Chan <- MCChan
  BoolChan = {}
  Programs <- MCPipelined
  Value = {0, 1, 2}
  InitValue = 0
  ConstValue = 1
  Eval <- MCEval
  Pipelined = TRUE
  MaxPut = 2
INVARIANT NoStall
PROPERTY ImplementsBlock
CHECK_DEADLOCK FALSE
