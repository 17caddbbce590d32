CONSTANTS
  Cols = 3
  Rows = 4
  PromptCols = 2
  MaxLine = 4
  Chars = {"a", "b"}
  Clips <- MCClips
  Commands = {"clear", "about", "sysinfo", "ls", "read", "alloc", "free", "diskread", "write", "unknown"}
  Repeats = 2
  FieldCols = 2
  DumpCols = 1
SPECIFICATION Spec
INVARIANTS CursorOnScreen LineIsVisible
