SPECIFICATION Spec
CONSTANTS
  Programs <- MCPrograms
  Banks <- MCBanks
  Core = "pic18"
  WindowLo = 1
  WindowHi = 0
  BankBytes = 256
INVARIANTS TypeOK LocalsHold ResultsHold ArgsHold RefusedForSwap
CHECK_DEADLOCK FALSE
