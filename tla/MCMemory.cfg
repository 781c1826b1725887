\* Thirteen frames for two processes; a heap of ten units that grows by three.
SPECIFICATION MemorySpec
CONSTANTS
    Procs = {p1, p2}
    InitProc = p1
    Frames = {1, 2, 3, 4, 5, 6, 7, 8, 9, 10, 11, 12, 13}
    NoFrame = noframe
    NoMemory = nomemory
    MaxPages = 3
    PerTable = 2
    TextPages = 1
    Deltas <- MCDeltas
    MaxCalls = 2
    Pick <- MCPick
    Data = {written}
    Zero = zero
    Junk = junk
    Image = image
    Lost = lost
    HeapTop = 10
    Chunk = 3
    HeaderSize = 8
    Requests = {0, 9, 30}
    Grabs = {1}
INVARIANTS
    FramesUsedOnce
    HeapSound
PROPERTIES
    MemoryKept
CHECK_DEADLOCK FALSE
