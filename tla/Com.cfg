SPECIFICATION FairSpec
CONSTANTS
  Amounts = {8, 12}
  Prompts = {TRUE, FALSE}
INVARIANTS
  TypeOK
  BufferOwned
  ReadyMeansComplete
  NobodyForgotten
PROPERTIES
  ReadCompletes
  StopCompletes
