SPECIFICATION HashSpec
CONSTANTS
  Variants = {256, 512}
  ReadSize = 9
  Salts <- MCSalts
  Texts <- MCTexts
INVARIANTS
  HashTypeOK
  Absorbed
  DigestsRight
