CONSTANTS
  Nodes <- Shipped
  Name <- Names
  Start <- Starts
  Binding <- Bindings
  EmptyBs <- NoBinding
  NoBs = NoBs
  Message <- Messages
  NoMessage = NoMessage
  Source <- Sources
  Pattern <- Patterns
  None = None
  Emission <- Emissions
  Undefined = Undefined
  NullReply = NullReply
  MaxSteps = 4
  MaxCount = 6
  Eval <- Runs
  Match <- MatchMessage
  MatchBs <- MatchNothing
  WithError <- Same
SPECIFICATION Spec
INVARIANTS RestIsFinal
  TurnstileIsHonest LadderAnnouncesMoves LatchSpeaksOnce DoubleCounts
