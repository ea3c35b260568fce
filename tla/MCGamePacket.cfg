CONSTANTS
    Words = {0, 9, 84}
    PacketFlag = 9
    FakeBilbos = 1
    MaxIndex = 1
    Pattern <- NPCPattern
    RegionSize = 4
    MaxRegions = 2
SPECIFICATION Spec
INVARIANTS
    RoundTrip
    OnlyNPCsAndItemsMisread
    SearchFindsNPCs
CHECK_DEADLOCK FALSE
