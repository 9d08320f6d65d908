CONSTANTS
  Code <- MCCode
  Handler <- MCHandler
  Spans <- MCSpans
  LineStarts <- MCLineStarts
  Length <- MCLength
  Toplevel = 1
  Main = 2
  Arities = {1}
  max_depth = 3
  MaxArmed = 2
  MaxContinue = 1
  Entry = 1
  MARGIN = 1
  VIEWPORT = 3
SPECIFICATION ClientSpec
PROPERTIES RunSpec
CHECK_DEADLOCK FALSE
