SPECIFICATION Spec
CONSTANTS
  MaxIterations = 3
  MaxSteps = 3
  MaxChunks = 2
  Designs <- AllDesigns
  SpecName <- SpecNames
  RepairName <- RepairNames
  PropertyName <- PropertyNames
  Connectors <- Jacks
  Rules <- RuleTable
  Boards <- BoardTable
  Models <- Anchors
  RoleName <- RoleNames
  MaxRepairs = 2
  MaxTrouble = 1
  Contexts <- AllContexts
  TraceDepth = 3
  BlockDepth = 1
  MaxNets = 3
INVARIANTS CallsAnswered FinalHasEvidence StepsAreTold NoShort ChecksTellLoss PowerIsFed LostNothing PathsAreTrue
PROPERTIES StopHolds Terminates
CHECK_DEADLOCK FALSE
