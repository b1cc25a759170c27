SPECIFICATION Spec
CONSTANTS
  Keys <- MCKeys
  Values <- MCValues
  KeyLen <- MCKeyLen
  ValueLen <- MCValueLen
  NoKey = NoKey
  NoValue = NoValue
  MaxLen = 30
  DefaultSize = 16
INVARIANTS TypeOK Tiled
PROPERTIES IsPropertyMap
