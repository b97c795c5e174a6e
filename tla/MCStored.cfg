SPECIFICATION SessionSpec
CONSTANTS
  Texts <- MCTexts
  MaxChars = 3
  MaxMessages = 2
  MaxSaves = 1
  Recent = 1
  Around = 1
CONSTRAINT Turns
INVARIANTS SavedComesBack TextsComeThrough
