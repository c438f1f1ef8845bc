CONSTANTS
  lib = lib
  mid = mid
  app = app
  unsafe = unsafe
  f1 = f1
  f2 = f2
  g = g
  h = h
  Make = Make
  Other = Other
  None = None
  Package = {lib, mid, app, unsafe}
  Source = {lib, mid, app}
  Func = {f1, f2, g, h}
  Deps <- MCDeps
  PkgOf <- MCPkgOf
  Bodies <- MCBodies
  LoopCalls <- MCLoopCalls
  HasInto = {f1, g}
  Requests <- MCRequests
SPECIFICATION Spec
INVARIANTS
  FactsSound
  FindingsExact
PROPERTIES
  Ends
CHECK_DEADLOCK FALSE
