\* Callbacks edit the rings anywhere, pass a "next" that is free or of another queue and
\* enable and disable any slot. A wild walk stops the model, so deadlock is off.
SPECIFICATION Spec
CONSTANTS
    NHandlers = 2
    sbus = sbus
    vblank = vblank
    dma = dma
    IntcQueue <- MCIntcQueue
    DmacQueue <- MCDmacQueue
    Redirected <- MCRedirected
    SBUS = sbus
    VBLANK_S = vblank
    POOL = POOL
    LEAKED = LEAKED
    VSyncArgs <- AnyPointers
    UnsafeEdits = "free"
    Lapses <- MildLapses
INVARIANTS
    EditsHarmless
PROPERTIES
    DispatchEnds
CHECK_DEADLOCK FALSE
