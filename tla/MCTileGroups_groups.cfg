\* Calls may fail, groups may be too large, tiles print while they run.
SPECIFICATION FairSpec
CONSTANTS
  MeshOrigin <- Origin02
  MeshDim <- Mesh2x2
  Launches <- MixedKernels
  MaxGroups = 3
  MaxFaults = 1
  MaxPrints = 1
INVARIANTS TypeOK ExclusiveTiles FinishIdentifiesGroup RunsForItsGroup WaitIsForSomeone
PROPERTIES SymbolsStable ImplementsGridExecution ExecuteFinishesAll
\* The host waits for ever once a group cannot be placed or a launch has failed.
CHECK_DEADLOCK FALSE
