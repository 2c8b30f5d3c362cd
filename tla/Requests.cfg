CONSTANTS
  Lower <- LowerMC
  Wildcards = {"*"}
  Covers <- CoversMC
  LowerCase <- LowerCaseMC
  DeployPath <- DeployPathMC
  Nothing = none
  Nodes = {n1}
  Versions = {"v1", "v2"}
  Options = {"o1", "o2"}
  Order <- OrderMC
  Specs <- SpecsMC
  Updates <- UpdatesMC
  CliUpdates <- CliUpdatesMC
  MaxDuration = 2
  MaxChanges = 2
  MaxFaults = 2
  Hosts = {"a", "w", "z"}
  Paths <- PathsMC
  n1 = n1
  n2 = n2
  s1 = s1
  s2 = s2
  t1 = t1
  c1 = c1
  k1 = k1
SPECIFICATION PartsFairSpec
INVARIANTS RequestsServed SettingsSound GenerationTells CheckedImagesRun StatusTells CompleteWhenOk KeysKept
PROPERTIES SettingsReach ClientsAnswered TokenRules
CHECK_DEADLOCK FALSE
