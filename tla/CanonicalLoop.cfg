CONSTANTS
  Lower <- LowerMC
  Wildcards = {"*"}
  Covers <- CoversMC
  LowerCase <- LowerCaseMC
  DeployPath <- DeployPathMC
  Nothing = none
  Nodes = {n1}
  Versions = {"v1", "v2"}
  Options = {"o1", "o2"}
  Order <- OrderMC
  Specs <- SpecsMC
  Updates <- UpdatesMC
  CliUpdates <- CliUpdatesMC
  MaxDuration = 2
  MaxChanges = 2
  MaxFaults = 3
  Hosts = {"a", "w", "z"}
  Paths <- PathsMC
SPECIFICATION Spec
INVARIANT OneHop
CHECK_DEADLOCK FALSE
