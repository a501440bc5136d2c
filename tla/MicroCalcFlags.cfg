SPECIFICATION Spec
CONSTANTS
  PARSERSTACKSIZE = 5
  TypedCells <- MCTypedCells
  MaxTokens = 1
  MAXCOLS = 5
  MAXROWS = 5
  ScreenWidth = 8
  SCREENROWS = 2
  LEFTMARGIN = 1
  ColWidths = {2, 3, 7}
  DEFAULTWIDTH = 3
  NamedCols = {0, 1, 2, 3, 4, 5}
  MaxCol = 4
  MaxRow = 0
  Letters = 5
  Tens = 2
  MAXINPUT = 3
  Memory = 38
  Typed <- MCTexts
  Widths = {3}
  DefaultWidth = 1
  Files = {}
  Careless = FALSE
  Splitting = TRUE
INVARIANT FlagsBelong
