SPECIFICATION ProfilesSpec
CONSTANTS
  Names = {"a", "cut", "long", "quoted"}
  Cut <- MCCut
  OddQuotes = {"quoted", "long"}
  Behind <- MCBehind
  Modules <- MCModules
  Size <- MCSize
  Chances = {"drop"}
  TiesUp <- MCTiesUp
  ParamValues = {6, 10}
  MaxParams = 3
  MaxProfiles = 2
  FirstFiles <- MCFirstFiles
  MaxFailures = 1
  MaxSets = 2
  MaxSaves = 2
INVARIANTS
  ProfilesConsistent
  SavedIsRestored
PROPERTIES
  Kept
