CONSTANTS
    File <- SomeFiles
    Dir <- SomeDirs
    Above <- Parents
    Plan <- SomePlans
    Rank <- SomeRank
    Others <- SomeOthers
    BaseTemplate <- SmallBase
    SubAppTemplate <- SmallSubApp
    Bundled = {"billing"}
    Package = {"app"}
    Service <- SomeServices

SPECIFICATION ScaffoldSpec

INVARIANT AllOrNothing
INVARIANT UnforcedKeepsFiles
INVARIANT AddLeavesProject
PROPERTY RemovesOnlyItsOwn
