SPECIFICATION Spec
CONSTANTS
  Columns <- MCColumns
  Rows <- MCRows
  WordSize <- MCWordSize
  ByteSize = 4
  Letters <- MCLetters
  Controls = {"newline", "tab"}
  Keys = {"release", "shift", "up", "down", "left", "right", "enter", "backspace", "tabulator", "letter", "unmapped"}
  PanicText <- MCPanicText
  Behind <- MCBehind
  MaxKeys = 2
INVARIANTS StatusBarKept CursorAtRest ScreenShowsText PanicShown
CHECK_DEADLOCK FALSE
