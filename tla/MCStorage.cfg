CONSTANTS
  Kai = Kai
  Orc = Orc
  Elf = Elf
  slash = slash
  kick = kick
  Name <- MCName
  Verb <- MCVerb
  First = 1
  Half = 1
  Large = 2
  MaxLines = 3
SPECIFICATION Spec
CHECK_DEADLOCK FALSE
SYMMETRY Alike
INVARIANTS OwnedOnce ReadBack
