CONSTANTS
  Arrays <- Invalid
  NotArray = notArray
  Data = {body}
  NoData = noData
  Stdin = stdin
  x = x
  nul = nul
  Byte = {x, nul}
  Nul = nul
  Chunks <- Pieces
  NoBlock = noBlock
  MaxAnswer = 3
  MaxLost = 1
SPECIFICATION Spec
INVARIANT RejectsInvalidArrays
