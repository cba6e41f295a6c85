SPECIFICATION Spec
CONSTANTS
  Ids = {a}
  Dev = dev
  Settings = {s0,s1}
  Defaults = s0
  WebActs = {"release", "save", "patch", "reset"}
  ReaderFails = TRUE
  FlashFails = TRUE
  None = none
SYMMETRY IdSymmetry
INVARIANTS
  AcceptedIsKept
  OrphanIsReleased
  SavedSettingsKept
