SPECIFICATION Spec
CONSTANTS
  HexDigits = 3
  Words <- MCWords
  Texts <- MCTexts
  Behind <- MCBehind
  MaxPieces = 3
  Colors = {"grey", "green"}
  DefaultColor = "grey"
PROPERTY PrintsFormat
