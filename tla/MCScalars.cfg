SPECIFICATION Spec
CONSTANTS
  AllSize = 2
  EscapeSize = 4
  RawSize = 3
  ScalarSize = 4
  Strings <- MCStrings
  Hosts = {"neon", "sse2", "avx2", "scalar"}
  VectorWidth = 8
  WordWidth = 4
  Spares = {0, 20}
  Trailers <- MCTrailers
  RawTexts <- MCRaw
  ScalarTexts <- MCScalarTexts
  ScanChunk = 4
  WORD = 128
  MaxDigits = 2
  MinPower <- MCMinPower
  MaxPower = 3
  Integers64 <- MCIntegers
  Doubles <- MCDoubles
  I64_MAX_LEN = 20
  DTOA_MAX = 32
INVARIANTS EscapesByReference EscapeStoresReserved DecodesByReference ScratchStoresReserved ReadsBack ScalarByReference WritesNumber
