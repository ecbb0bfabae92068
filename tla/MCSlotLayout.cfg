CONSTANTS
    PdTargets = 5
    ChildTargets = 2
    PerPd <- MCPerPd
    PdId = {0, 1, 62, 63}
    ChannelId = {0, 1, 62, 63}
    SharedIdx = {0, 1, 2, 3}
    FanOut = 512
    Page = {0}
    PD_CAP_BITS = 11
SPECIFICATION Spec
INVARIANTS SlotsDistinct SlotsFit
