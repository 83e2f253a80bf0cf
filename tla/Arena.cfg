SPECIFICATION Spec
CONSTANTS
    Vars = {"g"}
    Width = 2
    Nil = Nil
    ObjSize = 2
    FrameBytes = 4
    RegionBytes = 6
    MaxDepth = 2
    MaxMade = 2
    MaxStored = 1
    HarmCap = 1
INVARIANTS
    KeptUnlessHarmed
    FramesInPlace
