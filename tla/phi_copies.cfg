SPECIFICATION Spec
CONSTANTS
  Programs <- MCCrossed
  Banks <- MCBanks
  Core = "pic18"
  WindowLo = 1
  WindowHi = 0
  BankBytes = 256
INVARIANTS NoCopyClobbers
CHECK_DEADLOCK FALSE
