SPECIFICATION Spec
CONSTANTS
  MixedSize = 2
  EscapeSize = 0
  Texts <- FewTexts
  Targets <- MCTargets
  LogWidth = 2
  Slots = 2
  OffsetBits = 4
  PackedBits = 3
INVARIANTS KernelsAgree
