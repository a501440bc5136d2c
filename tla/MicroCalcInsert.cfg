SPECIFICATION Spec
CONSTANTS
  PARSERSTACKSIZE = 5
  TypedCells <- MCTypedCells
  MaxTokens = 1
  MAXCOLS = 5
  MAXROWS = 5
  ScreenWidth = 8
  SCREENROWS = 2
  LEFTMARGIN = 1
  ColWidths = {2, 3, 7}
  DEFAULTWIDTH = 3
  NamedCols = {0, 1, 2, 3, 4, 5}
  MaxCol = 2
  MaxRow = 1
  Letters = 2
  Tens = 2
  MAXINPUT = 3
  Memory = 38
  Typed <- MCTyped
  Widths = {3}
  DefaultWidth = 1
  Files <- MCFiles
  Careless = FALSE
  Splitting = FALSE
PROPERTY InsertKeeps
