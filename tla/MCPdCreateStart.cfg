CONSTANTS
    PdTargets = 3
    ChildTargets = 1
    PerPd <- MCPerPd
    PdId = {0, 1, 2, 5}
    ChannelId = {0, 1, 4}
    SharedIdx = {0, 1, 2}
    FanOut = 4
    Page = {0, 1, 2, 3, 4, 8, 9}
    Programs <- OnlyNoRights
    RootImage <- MCRoot
    StaticImage <- MCPong
    RootId = 0
    StaticId = 2
    RootMcp = 253
    TempPage = 3
    RootTables <- MCRootTables
    RegionOf <- MCRegionOf
SPECIFICATION Spec
INVARIANT StartedCanRun
\* The system stops when no PD receives input any more: after a crash, or when
\* the interrupt was handed to a PD that was not started.
CHECK_DEADLOCK FALSE
