SPECIFICATION LocalSpec
CONSTANTS
  Size = 2
  Versions = 2
  Capacity = 1
PROPERTY CloseIsPrompt
CHECK_DEADLOCK FALSE
