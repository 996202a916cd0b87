\* A bad "next" loses a slot.
SPECIFICATION Spec
CONSTANTS
    NHandlers = 3
    sbus = sbus
    vblank = vblank
    dma = dma
    IntcQueue <- MCIntcQueue
    DmacQueue <- MCDmacQueue
    Redirected <- MCRedirected
    SBUS = sbus
    VBLANK_S = vblank
    POOL = POOL
    LEAKED = LEAKED
    VSyncArgs <- NoVSync
    UnsafeEdits = "never"
    Lapses <- BadNextOnly
INVARIANT UsedIsSumOfEntries
