\* Callbacks edit the ring ahead of the walk, or abort: the walk stays exact, and the
\* rings with the walk refine the sequences of HandlerRegistry.
SPECIFICATION Spec
CONSTANTS
    NHandlers = 3
    sbus = sbus
    vblank = vblank
    dma = dma
    IntcQueue <- MCIntcQueue
    DmacQueue <- MCDmacQueue
    Redirected <- MCRedirected
    SBUS = sbus
    VBLANK_S = vblank
    POOL = POOL
    LEAKED = LEAKED
    VSyncArgs <- NoVSync
    UnsafeEdits = "then_abort"
    Lapses <- NoLapses
INVARIANTS
    ListsSound
    CountersExact
    WalkInStep
    NeverWild
PROPERTIES
    OnlyDueHandlersRun
    NoneMissed
    ImplementsRegistry
