SPECIFICATION Spec
CONSTANTS
  ca = ca
  cb = cb
  cc = cc
  cd = cd
  Null = Null
  MaxLen = 3
  Chan <- MCChan
  BoolChan = {cb}
  Programs <- MCPrograms
INVARIANTS
  TypeOK
  CountsSuffice
  CopiesMatchUses
  PointToPoint
  WellScoped
  NetClosed
  NetIsGraph
  BoolsConverted
  SlackAsWritten
