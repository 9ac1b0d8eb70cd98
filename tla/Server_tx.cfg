CONSTANTS
  Items = {c1, c2, c3}
  Null = Null
  Kinds = {"tx"}
  TxClients = 2
  EndsEarly = FALSE
SPECIFICATION ServerSpec
PROPERTIES ServerEnds
CHECK_DEADLOCK FALSE
