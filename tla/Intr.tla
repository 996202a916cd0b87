-------------------------------- MODULE Intr --------------------------------
(***************************************************************************)
(* Interrupt handler registration and dispatch (src/kernel/intr.c).        *)
(*                                                                         *)
(* The kernel keeps a pool of handler slots, one ring of handlers per INTC *)
(* cause and one per DMAC channel.  The two families run the same code on  *)
(* different queue arrays, so a queue here is a member of IntcQueue or of  *)
(* DmacQueue and every operation takes the queue as its argument.          *)
(*                                                                         *)
(* Syscalls and interrupts run with interrupts off (vec.s), so an          *)
(* operation is one step; a callback runs in the middle of a dispatch, and *)
(* the calls it makes interleave with the walk of its own ring.            *)
(*                                                                         *)
(* Early returns that change nothing are stuttering steps.                 *)
(***************************************************************************)
EXTENDS Integers, FiniteSets, HandlerList

CONSTANTS
    NHandlers,      \* number of slots (128 in the code)
    IntcQueue,      \* the heads of intc_queue[]
    DmacQueue,      \* the heads of dmac_queue[]
    SBUS,           \* INTC_SBUS, a member of IntcQueue
    VBLANK_S,       \* INTC_VBLANK_S, a member of IntcQueue
    Redirected,     \* causes whose vector is not the ring walk (SBUS, TIM3)
    POOL,           \* the head of the pool, D_8001B410
    LEAKED,         \* owner of a slot that no list holds any more
    VSyncArgs,      \* pointer sets that SetVSyncFlag is given
    UnsafeEdits,    \* what callbacks do: "never", "then_abort" or "free"
    Lapses          \* mistakes of callers that the model lets happen (below)

Queue == IntcQueue \cup DmacQueue
Hid   == 1..NHandlers
Cell  == Hid \cup Queue \cup {POOL}

\* The values of IntHandler.state.
Kernel   == 0
Disabled == 1
User     == 2
Free     == 3

ASSUME SlotsAssumption == NHandlers \in Nat
ASSUME HeadsAssumption ==
    /\ SBUS \in IntcQueue /\ VBLANK_S \in IntcQueue
    /\ SBUS \in Redirected /\ Redirected \subseteq IntcQueue
    /\ Queue \cap Hid = {}
    /\ POOL \notin Queue \cup Hid
    /\ LEAKED \notin Queue \cup {POOL}
ASSUME CallersAssumption ==
    /\ VSyncArgs \subseteq SUBSET {"flag", "csr"}
    /\ UnsafeEdits \in {"never", "then_abort", "free"}
    /\ Lapses \subseteq {"bad_next", "foreign_next", "stale_next", "reused_next",
                       "stale_id", "stray_remove", "sbus_reset"}

VARIABLES
    links,      \* the list_head of every slot, of every queue and of the pool
    entries,    \* IntQueue.entries
    used,       \* D_8001B400
    state,      \* IntHandler.state
    owner,      \* ghost: the queue a slot was registered for
    walk,       \* the locals of the running irq handler, and its history
    vsync       \* which of the pointers D_8001B404, D_8001B408 are set

vars == <<links, entries, used, state, owner, walk, vsync>>
lists == <<links, entries, used, state, owner>>

-----------------------------------------------------------------------------
(* The dispatch in progress.                                               *)
(*   q, i, hnd  the locals inum, i and hnd                                 *)
(*   seen       ghost: the slots the walk has left behind                  *)
(*   called     ghost: those of them that were called                      *)
(*   due        ghost: on the ring and enabled since the interrupt began   *)
(*   dirty      ghost: a callback edited the part the walk had passed      *)
(*   user       the handler being called is a user one: its result counts  *)
NoWalk == [pc |-> "idle", q |-> SBUS, i |-> 0, hnd |-> SBUS, user |-> FALSE,
           seen |-> {}, called |-> {}, due |-> {}, dirty |-> FALSE]

Members(q) == {h \in Hid : owner[h] = q}
Registered == {h \in Hid : owner[h] \in Queue}
Enabled(h) == state[h] \in {Kernel, User}
Passed     == walk.seen \cup {walk.hnd}

\* Operations run as syscalls or thread code between interrupts, or from the
\* callback of a dispatch.  Edits of the ring ahead of the walk are safe;
\* others are made as UnsafeEdits says, by user callbacks if they then abort.
MayCall(safe) ==
    \/ walk.pc = "idle"
    \/ /\ walk.pc = "call"
       /\ \/ safe
          \/ UnsafeEdits = "then_abort" /\ walk.user
          \/ UnsafeEdits = "free"

Noting(safe, gone) ==
    walk' = [walk EXCEPT !.dirty = @ \/ (walk.pc = "call" /\ ~safe),
                         !.due = @ \ gone]

-----------------------------------------------------------------------------
(* Registration.                                                           *)

\* The loops that set up the lists: the queues Q emptied, the pool refilled.
Refill(l, Q) ==
    LET chain(c) == Chain(NHandlers, POOL, c)
    IN  [next |-> [c \in Cell |-> IF c \in Q THEN c
                                 ELSE IF c \in Queue THEN l.next[c] ELSE chain(c).next],
         prev |-> [c \in Cell |-> IF c \in Q THEN c
                                 ELSE IF c \in Queue THEN l.prev[c] ELSE chain(c).prev]]

\* func_80002090: every queue empty, the pool refilled in slot order.
Init ==
    /\ links = Refill(Isolated(Queue), Queue)
    /\ entries = [q \in Queue |-> 0]
    /\ used = 0
    /\ state = [h \in Hid |-> Free]
    /\ owner = [h \in Hid |-> POOL]
    /\ walk = NoWalk
    /\ vsync = {}

\* The test of "next" in the default branch, after the new slot's state is set.
BadNext(nxt, st) == nxt \in Hid => st[nxt] = Free

\* The cell a new handler goes in front of, in the lists l.
Place(l, q, nxt) == CASE nxt = -1 -> q
                      [] nxt = 0  -> l.next[q]
                      [] OTHER    -> nxt

\* The code checks little of what it is given.  What callers may get wrong is
\* named by Lapses, each a set of arguments that is empty without the lapse.
Lapse(name, args) == IF name \in Lapses THEN args ELSE {}

\* "next": tail, head or a handler of the same queue; with a lapse an id that is
\* free by now or out of range (bad_next), a handler of another queue
\* (foreign_next), a slot that is on no queue but does not look free
\* (stale_next), or the id that this very call will hand out (reused_next).
NextArg(q) ==
    {-1, 0} \cup Members(q)
            \cup Lapse("bad_next", {h \in Hid \ {links.next[POOL]} : state[h] = Free}
                                      \cup {NHandlers + 1})
            \cup Lapse("foreign_next", Registered \ Members(q))
            \cup Lapse("stale_next", {h \in Hid \ Registered : state[h] # Free})
            \cup Lapse("reused_next", {links.next[POOL]})

\* The queue that a caller names when it removes hid: the one it registered it
\* for, with a lapse any, and any slot at all.
RemovesFrom(hid) == (Queue \cap {owner[hid]}) \cup Lapse("stray_remove", Queue)

\* The ids that callers enable and disable: registered ones, with a lapse any.
Toggled == Registered \cup Lapse("stale_id", Hid)

\* func_800018F0, func_80001B50.  The slot is popped and marked before "next"
\* is looked at; a bad one returns -1 with the slot on no list.
AddHandler(q, nxt, unk) ==
    /\ ~(unk # Kernel /\ q = SBUS)
    /\ ~EmptyList(links, POOL)
    /\ LET hnd    == links.next[POOL]
           popped == Unlink(links, hnd)
           st     == [state EXCEPT ![hnd] = unk]
           pos    == Place(popped, q, nxt)
           bad    == nxt \notin {-1, 0} /\ BadNext(nxt, st)
           safe   == bad \/ pos \notin Passed
       IN  /\ MayCall(safe)
           /\ Noting(safe, {})
           /\ used' = used + 1
           /\ state' = st
           /\ IF bad
              THEN /\ links' = popped
                   /\ owner' = [owner EXCEPT ![hnd] = LEAKED]
                   /\ UNCHANGED entries
              ELSE /\ links' = InsertBefore(popped, pos, hnd)
                   /\ owner' = [owner EXCEPT ![hnd] = q]
                   /\ entries' = [entries EXCEPT ![q] = @ + 1]
    /\ UNCHANGED vsync

\* func_80001AB0, func_80001CF8.  Which queue hid is on is not checked.
RemoveHandler(q, hid) ==
    /\ state[hid] # Free
    /\ LET safe == hid \notin Passed
       IN  MayCall(safe) /\ Noting(safe, {hid})
    /\ state' = [state EXCEPT ![hid] = Free]
    /\ links' = InsertBefore(Unlink(links, hid), POOL, hid)
    /\ owner' = [owner EXCEPT ![hid] = POOL]
    /\ used' = used - 1
    /\ entries' = [entries EXCEPT ![q] = @ - 1]
    /\ UNCHANGED vsync

\* func_80001FE0, func_80002030: even a kernel handler becomes a user one, and a
\* slot in the pool an enabled one.
EnableHandler(hid) ==
    /\ MayCall(TRUE)
    /\ state' = [state EXCEPT ![hid] = User]
    /\ UNCHANGED <<links, entries, used, owner, walk, vsync>>

\* func_80002008, func_80002058.
DisableHandler(hid) ==
    /\ MayCall(TRUE)
    /\ state' = [state EXCEPT ![hid] = Disabled]
    /\ Noting(TRUE, {hid})
    /\ UNCHANGED <<links, entries, used, owner, vsync>>

\* Nothing is registered for SBUS, and nothing is on its list.
SbusQuiet == entries[SBUS] = 0 /\ EmptyList(links, SBUS)

\* Reset that forgets the count of used handlers.
ResetKeepingUsed ==
    /\ walk.pc = "idle"
    /\ SbusQuiet
    /\ links' = Refill(links, Queue \ {SBUS})
    /\ entries' = [q \in Queue |-> IF q = SBUS THEN entries[q] ELSE 0]
    /\ state' = [h \in Hid |-> Free]
    /\ owner' = [h \in Hid |-> POOL]
    /\ UNCHANGED <<used, walk, vsync>>

\* func_800021F0: as Init, but the SBUS queue is passed over.  It comes between
\* interrupts.
Reset ==
    /\ walk.pc = "idle"
    /\ SbusQuiet \/ "sbus_reset" \in Lapses
    /\ links' = Refill(links, Queue \ {SBUS})
    /\ entries' = [q \in Queue |-> IF q = SBUS THEN entries[q] ELSE 0]
    /\ used' = 0
    /\ state' = [h \in Hid |-> Free]
    /\ owner' = [h \in Hid |-> POOL]
    /\ UNCHANGED <<walk, vsync>>

\* SetVSyncFlag, external: sets the two pointers, either of which may be null.
ArmVSync ==
    /\ vsync' \in VSyncArgs
    /\ UNCHANGED <<lists, walk>>

-----------------------------------------------------------------------------
(* Dispatch: func_80001670 (INTC) and func_800017D8 (DMAC).                *)

\* An interrupt is taken; vertical blank answers the pointers once.
IrqEnter(q) ==
    /\ walk.pc = "idle"
    /\ q \notin Redirected
    /\ walk' = [NoWalk EXCEPT !.pc = "loop", !.q = q, !.hnd = links.next[q],
                              !.due = {h \in Members(q) : Enabled(h)}]
    /\ vsync' = IF q = VBLANK_S /\ "flag" \in vsync THEN {} ELSE vsync
    /\ UNCHANGED lists

\* The loop with one turn too many or too few.
InLoopOneMore == walk.pc = "loop" /\ walk.i <= entries[walk.q]
InLoopOneLess == walk.pc = "loop" /\ walk.i < entries[walk.q] - 1

\* The loop's test.
InLoop == walk.pc = "loop" /\ walk.i < entries[walk.q]

\* Onward without the increment, and without the step.
OnwardUncounted == [walk EXCEPT !.pc = "loop", !.user = FALSE,
                                !.hnd = links.next[walk.hnd],
                                !.seen = @ \cup {walk.hnd}]
OnwardInPlace   == [walk EXCEPT !.pc = "loop", !.user = FALSE, !.i = @ + 1,
                                !.seen = @ \cup {walk.hnd}]

\* The loop's increment and the step to the next node.
Onward == [walk EXCEPT !.pc = "loop", !.user = FALSE, !.i = @ + 1,
                       !.hnd = links.next[walk.hnd],
                       !.seen = @ \cup {walk.hnd}]

\* A disabled handler is passed over (and so is a free slot, met on a stale link).
LoopSkip ==
    /\ InLoop /\ walk.hnd \in Hid /\ ~Enabled(walk.hnd)
    /\ walk' = Onward
    /\ UNCHANGED <<lists, vsync>>

\* Where the handler's function leads. A slot of the pool has none: one that a stale id
\* has enabled, met on a stale link, is called through a null pointer.
Called == IF owner[walk.hnd] = POOL THEN "wild" ELSE "call"

LoopCall ==
    /\ InLoop /\ walk.hnd \in Hid /\ Enabled(walk.hnd)
    /\ walk' = [walk EXCEPT !.pc = Called, !.user = (state[walk.hnd] = User),
                            !.called = @ \cup {walk.hnd}]
    /\ UNCHANGED <<lists, vsync>>

\* A queue head read as an IntHandler: its "state" is a field of whatever lies
\* behind it, so the walk passes over it or jumps through a wild pointer.
LoopHead ==
    /\ InLoop /\ walk.hnd \notin Hid
    /\ walk' \in {Onward, [walk EXCEPT !.pc = "wild"]}
    /\ UNCHANGED <<lists, vsync>>

\* The callback returns and the walk follows the handler's link as it is now.
CallReturn ==
    /\ walk.pc = "call"
    /\ UnsafeEdits = "then_abort" => ~walk.dirty
    /\ walk' = Onward
    /\ UNCHANGED <<lists, vsync>>

\* A kernel callback's negative result is heeded too.
CallAbortAny ==
    /\ walk.pc = "call"
    /\ walk' = NoWalk
    /\ UNCHANGED <<lists, vsync>>
\* A user callback returns a negative result: the handler returns at once.
CallAbort ==
    /\ walk.pc = "call" /\ walk.user
    /\ walk' = NoWalk
    /\ UNCHANGED <<lists, vsync>>

\* The loop ends.  With i = 0 the code reports a missing handler.
LoopEnd ==
    /\ walk.pc = "loop" /\ ~InLoop
    /\ walk' = NoWalk
    /\ UNCHANGED <<lists, vsync>>

Edit ==
    \/ \E q \in Queue : \E nxt \in NextArg(q), unk \in {Kernel, User} :
          AddHandler(q, nxt, unk)
    \/ \E hid \in Hid : \E q \in RemovesFrom(hid) : RemoveHandler(q, hid)
Dispatch == LoopSkip \/ LoopCall \/ LoopHead \/ LoopEnd

Next ==
    \/ Edit
    \/ \E hid \in Toggled : EnableHandler(hid) \/ DisableHandler(hid)
    \/ Reset
    \/ ArmVSync
    \/ \E q \in Queue : IrqEnter(q)
    \/ Dispatch
    \/ CallReturn
    \/ CallAbort

\* The processor runs the walk, and callbacks return.
Fairness == WF_vars(Dispatch) /\ WF_vars(CallReturn \/ CallAbort)

Spec == Init /\ [][Next]_vars /\ Fairness

-----------------------------------------------------------------------------
(* Properties.                                                             *)

TypeOK ==
    /\ links \in [next : [Cell -> Cell], prev : [Cell -> Cell]]
    /\ entries \in [Queue -> Int]
    /\ used \in Int
    /\ state \in [Hid -> {Kernel, Disabled, User, Free}]
    /\ owner \in [Hid -> Queue \cup {POOL, LEAKED}]
    /\ walk \in [pc : {"idle", "loop", "call", "wild"}, q : Queue, i : Nat,
                 hnd : Cell, user : BOOLEAN, seen : SUBSET Cell,
                 called : SUBSET Hid, due : SUBSET Hid, dirty : BOOLEAN]
    /\ vsync \in SUBSET {"flag", "csr"}

\* The cells that are on a list, and which: a head is on its own list.
Linked == {h \in Hid : owner[h] # LEAKED} \cup Queue \cup {POOL}
on     == [c \in Cell |-> IF c \in Hid THEN owner[c] ELSE c]

\* The rings stay doubly linked: over the cells that are on a list, next and
\* prev are each other's inverse and never lead to another list.
WellLinked == Threaded(links, Linked, on)

\* No part of a ring comes loose: following next from any slot of a list ends at
\* that list's head.
NothingCutOff == \A q \in Queue \cup {POOL} : NoLoop(links, Members(q))

\* A slot is in the pool exactly when its state says free; a slot that was
\* leaked looks registered, and callers enable and disable registered ids only.
FreeMeansPooled == \A h \in Hid : state[h] = Free <=> owner[h] = POOL

\* The counters count what they stand for: entries the handlers registered for a queue,
\* D_8001B400 the slots out of the pool ("number of used int handlers").
CountersExact ==
    /\ \A q \in Queue : entries[q] = Cardinality(Members(q))
    /\ used = Cardinality({h \in Hid : owner[h] # POOL})

\* While no callback edits what the walk has passed, the walk is where its
\* counter says: i handlers of its own queue lie behind it, and the next node
\* follows the last of them; what is enabled and behind it has been called.
WalkInStep ==
    (walk.pc # "idle" /\ ~walk.dirty) =>
        /\ walk.pc # "wild"
        /\ walk.seen \subseteq Members(walk.q)
        /\ Cardinality(walk.seen) = walk.i
        /\ on[walk.hnd] = walk.q /\ walk.hnd \notin walk.seen
        /\ \A c \in walk.seen \cup {walk.hnd} : links.prev[c] \in walk.seen \cup {walk.q}
        /\ walk.called \ {walk.hnd} \subseteq walk.seen
        /\ walk.pc = "call" <=> walk.hnd \in walk.called
        /\ walk.due \subseteq Members(walk.q)
        /\ walk.due \cap walk.seen \subseteq walk.called
        /\ \A h \in walk.due : Enabled(h)

\* func_80001670, func_800017D8 dereference only handlers: the walk never reads
\* a queue head as an IntHandler and never jumps through one.
NeverWild == walk.pc # "wild" /\ (InLoop => walk.hnd \in Hid)

\* Handlers run only for the cause they were registered for and at most once per
\* interrupt.
OnlyDueHandlersRun ==
    [][(walk.pc = "loop" /\ walk'.pc = "call")
         => owner[walk.hnd] = walk.q /\ walk.hnd \notin walk.called]_vars

\* When the loop runs to its end, every handler that stayed registered and
\* enabled since the interrupt began has been called.
NoneMissed ==
    [][(walk.pc = "loop" /\ walk'.pc = "idle") => walk.due \subseteq walk.called]_vars

\* The walk is bounded by the number of slots whatever the callbacks do.
WalkBounded == walk.i <= NHandlers

\* The walk is finished whatever the callbacks do to the rings under it, unless
\* it has left memory that holds handlers (NeverWild says when it does not).
DispatchEnds == walk.pc # "idle" ~> walk.pc \in {"idle", "wild"}

\* The lists are sound together: doubly linked, whole, and the pool exactly the free
\* slots. None of the three survives a step without the others.
ListsSound == TypeOK /\ WellLinked /\ NothingCutOff /\ FreeMeansPooled

\* With a "next" of another queue a slot sits on a ring it is not registered for, but
\* all rings together stay whole: doubly linked, the pool's slots on a list of their
\* own, and every other slot on some ring that passes through a head.
pooled == [c \in Cell |-> on[c] = POOL]
RingsWhole == Threaded(links, Linked, pooled) /\ NoLoop(links, Linked \cap Hid)

\* No slot that is in use looks free, whatever ids are enabled and disabled.
FreePooled == \A h \in Hid : state[h] = Free => owner[h] = POOL

\* Callbacks that edit any ring at any point of a walk, name a "next" that is free or
\* of another queue, or enable and disable slots that are not theirs, neither lose a
\* slot from the lists nor hand one out twice; the counters keep counting what is
\* registered, and no walk takes more turns than there are slots.
EditsHarmless == TypeOK /\ RingsWhole /\ FreePooled /\ CountersExact /\ WalkBounded
=============================================================================
