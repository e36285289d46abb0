SPECIFICATION Spec
CONSTANTS
  Texts <- TextSet
  Numeral <- NumeralTexts
  LevelName <- Names
  LogDirs = {"runs"}
  Worlds <- StaleWorlds
  NgenExports <- StaleExports
  ProgramExports = {}
  Setups = {}
  SetLevels = {40}
  LogLevels = {15, 60}
  Tinkered = {}
  MaxLoggers = 2
PROPERTY AdoptsNgenLevel
