\* Two settings between any of the writes, from files written by hand.
SPECIFICATION SessionSpec
CONSTANTS
  Kind <- SessionKinds
  ValueOf <- Val
  Exprs <- SessionExprs
  Depth = 4
  Rounds = 4
  Strings = {"", "path"}
  Menu <- SessionMenu
  Lines <- SessionLines
  Files <- SessionFiles
  MaxSettings = 2
INVARIANTS
  QuitLosesNothing
  MinimalIsEnough
  NothingAskedAgain
  SettingHolds
  RoundTrip
  OneArchitecture
