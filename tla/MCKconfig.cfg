\* A part of Kconfig with a switch, a path and a validation symbol, and the
\* same menu before the switch was added.
SPECIFICATION Spec
CONSTANTS
  Unset = Unset
  Missing = Missing
  Kind <- MenuKinds
  ValueOf <- Val
  Exprs <- NestedExprs
  Depth = 6
  Rounds = 6
  Deps <- MenuDeps
  Parents <- MenuParents
  Strings = {"", "path"}
  Symbols <- MenuSymbols
  Values = {"y", "", "path", Unset}
  Contents <- MenuContents
  Empty = "none"
  Trees <- MenuTrees
  Outcomes <- MenuOutcomes
  Value <- MenuValue
  Objects <- MenuObjects
  Uses <- MenuUses
  MaxEdits = 2
  MaxStops = 1
INVARIANTS
  FreshAgrees
  CurrentObjectsAgree
  MeaningKept
  ListedIsReached
PROPERTIES
  Converges
CHECK_DEADLOCK FALSE
