SPECIFICATION Spec
CONSTANTS
  Apexes <- McApexes
  Chars <- McChars
  Names <- McNames
  Types <- McTypes
  Views <- McViews
  DefaultView = "all"
  Clients <- McClients
  DynUpdates <- McDynUpdates
  Rows <- McRows
  MaxRows = 4
  MaxDepth = 2
INVARIANT SplitHorizon
INVARIANT AnswerChain
INVARIANT TransferFaithful
INVARIANT DynDnsServed
PROPERTY SerialFollows
