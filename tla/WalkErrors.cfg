CONSTANTS
  Nodes <- Gadget
  Name <- Names
  Start <- Starts
  Binding <- Bindings
  EmptyBs <- NoBinding
  NoBs = NoBs
  Message <- Messages
  NoMessage = NoMessage
  Source <- Sources
  Pattern <- Patterns
  None = None
  Emission = {"x", "y"}
  Undefined = Undefined
  NullReply = NullReply
  MaxSteps = 3
  Eval <- GadgetEval
  Match <- MatchMessage
  MatchBs <- MatchBindings
  WithError <- SetError
SPECIFICATION Spec
INVARIANT BranchesDealWithErrors
