CONSTANTS
  ctx1 = ctx1
  ctx2 = ctx2
  libc = libc
  libcurl = libcurl
  Text <- Sizes
  Length <- strlen
  Blank = "empty"
  Unset = unset
  Torn = torn
  Context = {ctx1, ctx2}
  NoContext = noContext
  Library = {libc, libcurl}
  Registering = {libc, libcurl}
  NoHandle = noHandle
  Limit = 2
  MaxEntries = 1
  MaxReferences = 2
SYMMETRY Alike
SPECIFICATION Spec
INVARIANTS TypeOK FunctionsAreLoaded StackCountsFailures
PROPERTIES SadIsCleanOrSame DestinationIsWhole
