SPECIFICATION WiringSpec
CONSTANTS
  Designs <- AllDesigns
  SpecName <- SpecNames
  RepairName <- RepairNames
  PropertyName <- PropertyNames
  Connectors <- Jacks
  Rules <- RuleTable
  Boards <- BoardTable
  Models <- Anchors
  RoleName <- RoleNames
  MaxRepairs = 2
  MaxTrouble = 1
INVARIANTS TwoEndsAreWired
CHECK_DEADLOCK FALSE
