SPECIFICATION Spec
CONSTANTS
  W = W
  R = R
  Root = Root
  RootTest = RootTest
  Nested = Nested
  Loose = Loose
  NoName = NoName
  NoModule = NoModule
  Anchor <- MCAnchor
  Proc = {W, R}
  Site <- MCSite
  Package = {Root, RootTest, Nested, Loose}
  ModuleOf <- MCModuleOf
  Option <- MCOption
  Sources <- MCSources
  Legacy <- MCLegacy
  MaxEdits = 1
SYMMETRY Runs
INVARIANTS OnlyAcceptedSuppressed GateHolds QuietWhenAccepted
