SPECIFICATION Spec
CONSTANTS
  Texts <- TextSet
  Numeral <- NumeralTexts
  LevelName <- Names
  LogDirs = {"runs"}
  Worlds <- RuntimeWorlds
  NgenExports <- RuntimeExports
  ProgramExports <- RuntimeProgram
  Setups <- RuntimeSetups
  SetLevels = {40}
  LogLevels = {15, 60}
  Tinkered = {"app"}
  MaxLoggers = 2
INVARIANT TypeOK
INVARIANT WrittenOnce
INVARIANT ServedByCurrent
INVARIANT LevelsAligned
INVARIANT ThresholdDecides
PROPERTY OverridesPrevail
