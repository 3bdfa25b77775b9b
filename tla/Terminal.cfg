CONSTANTS
  Widths = {28, 37, 46}
  Height = 39
  BufferSize = 3
  Keys = {"echo"}
SPECIFICATION Spec
INVARIANT LineIsShown
PROPERTIES BackspaceTakesItsOwn TypingKeepsText RefinesLineEditor
