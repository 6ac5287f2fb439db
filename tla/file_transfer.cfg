SPECIFICATION Spec
CONSTANTS
    Sender = {p1, p2}
    FileSize = {0, 3}
    MaxFiles = 1
    ChunkSize = 2
    HeaderSize = 1
    Thread = {t1, t2}
    MaxInflightChunks = 1
    MaxInflightBytes = 3
    MaxPackets = 1
    MaxBytes = 4
    BurstAllowance = 1
    MayFail = TRUE
    AbortsAlone = TRUE
    None = None
INVARIANTS StreamInv OutputWhole AssembleAgrees SentParses 
PROPERTIES SendReturns CompleteIsFinalised
