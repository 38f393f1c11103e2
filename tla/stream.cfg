CONSTANTS
    Shapes <- MCShapes
    UserBuffers <- MCBuffers
    MaxMessages = 2
    gMaxBlockSize = 2
    WireMax = 2
    Nil = Nil
SPECIFICATION FairSpec
CHECK_DEADLOCK FALSE
INVARIANTS VectorsExact BoundariesKept Intact SettledOnce
PROPERTY BrokenRequestSettles
