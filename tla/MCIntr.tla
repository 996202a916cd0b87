------------------------------- MODULE MCIntr -------------------------------
(* Small instances of Intr for TLC.                                        *)
EXTENDS IntrRings

CONSTANTS sbus, vblank, dma

MCIntcQueue  == {sbus, vblank}
MCDmacQueue  == {dma}
MCRedirected == {sbus}
NoVSync      == {}
AnyPointers  == SUBSET {"flag", "csr"}
NoLapses     == {}
BadNextOnly  == {"bad_next"}
\* Every lapse that leaves the lists whole.
MildLapses   == {"bad_next", "foreign_next", "stale_id"}
=============================================================================
