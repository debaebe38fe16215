SPECIFICATION EndpointSpec
CONSTANTS
  Refused = Refused
  Unset = Unset
  XdgDir = XdgDir
  TmpDir = TmpDir
INVARIANTS
  SidesMeet
PROPERTIES
  NothingElseTouched
CHECK_DEADLOCK FALSE
