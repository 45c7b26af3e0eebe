\* It ends in efi_main, in the firmware or nowhere.
SPECIFICATION Spec
CONSTANTS
  MaxRelas = 3
INVARIANTS
  EnteredRelocated
PROPERTIES
  ComesToAnEnd
CHECK_DEADLOCK FALSE
