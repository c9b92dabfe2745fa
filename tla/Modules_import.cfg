SPECIFICATION Spec
CONSTANTS
  Worlds <- MCWorlds
  ModuleNames = {"a", "b", "c", "d", "e", "sys"}
  Main = "main"
  Blank = "blank"
  Separator = "semicolon"
INVARIANTS TypeOK ModuleOnce
PROPERTIES ImportComplete ProgramEnds
