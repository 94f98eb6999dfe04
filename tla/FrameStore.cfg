SPECIFICATION FramesSpec
CONSTANTS
    w1 = w1
    w2 = w2
    r1 = r1
    r2 = r2
    pixels = pixels
    Writers <- TwoCameras
    Readers <- TwoReaders
    PixelParts <- OnePart
    MaxStores = 2
    MaxFrames = 2
    Depths = {1}
    MaxSkew = 1
    MaxAge = 2
    Spacing = 1
    MaxTime = 3
INVARIANTS StoreIsSafe DepthMatches
PROPERTIES RegisterSpec PairsAdvance
CHECK_DEADLOCK FALSE
SYMMETRY Symmetry
