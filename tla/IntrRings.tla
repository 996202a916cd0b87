----------------------------- MODULE IntrRings -----------------------------
(***************************************************************************)
(* The rings of Intr read as a program reads them, from the head along     *)
(* next, and the refinement of HandlerRegistry.                            *)
(***************************************************************************)
EXTENDS Intr, SequencesExt

\* The slots from head to the tail, in the order a walk meets them.
Ring(head) ==
    LET at[n \in Nat] == IF n = 0 THEN head ELSE links.next[at[n - 1]]
        len == CHOOSE n \in 0..NHandlers :
                  at[n + 1] = head /\ \A m \in 1..n : at[m] # head
    IN  [k \in 1..len |-> at[k]]

\* The visit HandlerRegistry sees: the walk's counter is a position, and a walk
\* behind which a callback made an edit is torn.
RingVisit == [pc   |-> IF walk.pc = "call" /\ walk.dirty THEN "torn" ELSE walk.pc,
              q    |-> walk.q,
              pos  |-> walk.i + 1,
              user |-> walk.user]

Registry == INSTANCE HandlerRegistry
                WITH queue <- [q \in Queue |-> Ring(q)],
                     mode  <- state,
                     visit <- RingVisit

\* The linked implementation shows nothing but what the sequences allow: order
\* of calls, effect of edits made by callbacks, abandoned interrupts.
ImplementsRegistry == Registry!RSpec

\* src/kernel/intr.c:25 says what D_8001B400 is: "number of used int handlers".
\* The handlers in use are those on the queues, so it is the sum of entries.
UsedIsSumOfEntries == used = FoldFunction(+, 0, entries)
=============================================================================
