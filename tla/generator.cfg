SPECIFICATION Spec
CONSTANTS
  Specifications <- AllSpecs
  FirstSpecification <- Original
  UpperCaseIds <- UpperIds
  IdentFromKey <- Idents
  UpperCase <- Upper
  FirstSixteen <- Sixteen
  MaxRuns = 3
CHECK_DEADLOCK FALSE
INVARIANT TypeOK
INVARIANT DoneMeansCurrent
INVARIANT TablesAgree
INVARIANT LevelNamesAgree
