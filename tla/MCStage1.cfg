SPECIFICATION Spec
CONSTANTS
  MixedSize = 5
  EscapeSize = 9
  Texts <- MCTexts
  Targets <- MCTargets
  LogWidth = 2
  Slots = 2
  OffsetBits = 4
  PackedBits = 3
INVARIANTS IndexesTokenStarts CarriesMatchText StoresStayReserved SkipMatchesIndex
