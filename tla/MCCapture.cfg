CONSTANTS
  Link = Link
  Tool = Tool
  Model = Model
  Desktop = Desktop
  None = None
  Resolutions <- Layouts
  Path = {Link, Tool, Model, Desktop}
  Declared <- Executable
  Protected = {Desktop}
  ToolFiles = 3
  Member = 2
  Tables = 2
  Marked = {0, 1}
  MaxChanges = 2
SPECIFICATION Spec
INVARIANTS
  OneTrace
  OwnTarget
  BuiltAsRecorded
  ReadsAsCleared
  ResultHonest
CHECK_DEADLOCK FALSE
