SPECIFICATION Spec
CONSTANTS
  ca = ca
  cb = cb
  cc = cc
  cd = cd
  Null = Null
  MaxLen = 2
  Chan <- MCChan
  BoolChan = {cb}
  Programs <- MCPrograms
INVARIANT SinkIsOnlyReader
