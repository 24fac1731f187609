SPECIFICATION FairCheckSpec
CONSTANTS
  Walk <- Files
  EntryCandidates <- Candidates
  SubAppFile = {"app"}
  At <- Places
  Package = "app"
  Factory = {"create_app", "create_users_app"}
  Helper = {"configure", "spare", "wire"}
  DefinedIn <- Homes
  Services <- SomeServices
  Repaired <- Repairs
  ThreeTier = {TRUE, FALSE}
  Pyprojects <- SomePyprojects
INVARIANTS OkMeansWired NoFalseAlarm MisuseFound LayersKept
PROPERTY ChangesEnd
CHECK_DEADLOCK FALSE
