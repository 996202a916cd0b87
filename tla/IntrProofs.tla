----------------------------- MODULE IntrProofs -----------------------------
(***************************************************************************)
(* Proofs about Intr for any number of slots and queues: registration      *)
(* first, then dispatch.                                                   *)
(***************************************************************************)
EXTENDS Intr, CountProofs, FiniteSetTheorems, TLAPS

-----------------------------------------------------------------------------
(* What the list operations preserve, for every heap of cells.             *)

Heap(l, C) == l \in [next : [C -> C], prev : [C -> C]]

\* The operations map heaps to heaps.
LEMMA UnlinkType ==
    ASSUME NEW C, NEW l, Heap(l, C), NEW n \in C
    PROVE  Heap(Unlink(l, n), C)
BY DEF Heap, Unlink

LEMMA InsertType ==
    ASSUME NEW C, NEW l, Heap(l, C), NEW n \in C, NEW pos \in C
    PROVE  Heap(InsertBefore(l, pos, n), C)
BY DEF Heap, InsertBefore

\* func_800064B0: what is left without n is still doubly linked, list by list.
LEMMA UnlinkThreaded ==
    ASSUME NEW C, NEW l, Heap(l, C), NEW S \in SUBSET C, NEW of, NEW n \in S,
           Threaded(l, S, of)
    PROVE  Threaded(Unlink(l, n), S \ {n}, of)
<1> DEFINE m == Unlink(l, n)
<1> SUFFICES ASSUME NEW c \in S \ {n}
             PROVE  /\ m.next[c] \in S \ {n} /\ m.prev[c] \in S \ {n}
                    /\ m.prev[m.next[c]] = c
                    /\ m.next[m.prev[c]] = c
                    /\ of[m.next[c]] = of[c]
                    /\ of[m.prev[c]] = of[c]
  BY DEF Threaded
<1>1. \A d \in C : m.next[d] = IF d = l.prev[n] THEN l.next[n] ELSE l.next[d]
  BY DEF Heap, Unlink
<1>2. \A d \in C : m.prev[d] = IF d = l.next[n] THEN l.prev[n] ELSE l.prev[d]
  BY DEF Heap, Unlink
<1>3. /\ \A d \in S : l.next[d] \in S /\ l.prev[d] \in S /\ d \in C
      /\ \A d \in S : l.prev[l.next[d]] = d /\ l.next[l.prev[d]] = d
      /\ \A d \in S : of[l.next[d]] = of[d] /\ of[l.prev[d]] = of[d]
  BY DEF Threaded
<1> HIDE DEF m
<1>4. m.next[c] \in S \ {n} /\ of[m.next[c]] = of[c]
  BY <1>1, <1>3
<1>5. m.prev[c] \in S \ {n} /\ of[m.prev[c]] = of[c]
  BY <1>2, <1>3
<1>6. m.prev[m.next[c]] = c
  BY <1>1, <1>2, <1>3
<1>7. m.next[m.prev[c]] = c
  BY <1>1, <1>2, <1>3
<1> QED
  BY <1>4, <1>5, <1>6, <1>7

\* func_800064D0: n joins the list of pos, and the lists stay doubly linked.
LEMMA InsertThreaded ==
    ASSUME NEW C, NEW l, Heap(l, C), NEW S \in SUBSET C, NEW of, NEW ofNew,
           NEW n \in C \ S, NEW pos \in S, Threaded(l, S, of),
           ofNew[n] = of[pos], \A c \in S : ofNew[c] = of[c]
    PROVE  Threaded(InsertBefore(l, pos, n), S \cup {n}, ofNew)
<1> DEFINE m == InsertBefore(l, pos, n)
<1> SUFFICES ASSUME NEW c \in S \cup {n}
             PROVE  /\ m.next[c] \in S \cup {n} /\ m.prev[c] \in S \cup {n}
                    /\ m.prev[m.next[c]] = c
                    /\ m.next[m.prev[c]] = c
                    /\ ofNew[m.next[c]] = ofNew[c]
                    /\ ofNew[m.prev[c]] = ofNew[c]
  BY DEF Threaded
<1>1. \A d \in C : m.next[d] = IF d = l.prev[pos] THEN n
                               ELSE IF d = n THEN pos ELSE l.next[d]
  BY DEF Heap, InsertBefore
<1>2. \A d \in C : m.prev[d] = IF d = pos THEN n
                               ELSE IF d = n THEN l.prev[pos] ELSE l.prev[d]
  BY DEF Heap, InsertBefore
<1>3. /\ \A d \in S : l.next[d] \in S /\ l.prev[d] \in S /\ d \in C
      /\ \A d \in S : l.prev[l.next[d]] = d /\ l.next[l.prev[d]] = d
      /\ \A d \in S : of[l.next[d]] = of[d] /\ of[l.prev[d]] = of[d]
  BY DEF Threaded
<1> HIDE DEF m
<1>4. m.next[c] \in S \cup {n} /\ ofNew[m.next[c]] = ofNew[c]
  BY <1>1, <1>3
<1>5. m.prev[c] \in S \cup {n} /\ ofNew[m.prev[c]] = ofNew[c]
  BY <1>2, <1>3
<1>6. m.prev[m.next[c]] = c
  BY <1>1, <1>2, <1>3
<1>7. m.next[m.prev[c]] = c
  BY <1>1, <1>2, <1>3
<1> QED
  BY <1>4, <1>5, <1>6, <1>7

\* Taking n out cuts nothing off the list M it was on.
LEMMA UnlinkNoLoop ==
    ASSUME NEW C, NEW l, Heap(l, C), NEW M \in SUBSET C, NEW n \in C,
           l.next[l.prev[n]] = n, NoLoop(l, M), n \in M
    PROVE  NoLoop(Unlink(l, n), M \ {n})
<1> DEFINE m == Unlink(l, n)
<1>1. \A d \in C : m.next[d] = IF d = l.prev[n] THEN l.next[n] ELSE l.next[d]
  BY DEF Heap, Unlink
<1> SUFFICES ASSUME NEW S \in SUBSET (M \ {n}), \A c \in S : m.next[c] \in S
             PROVE  S = {}
  BY DEF NoLoop
<1> HIDE DEF m
<1>2. CASE l.prev[n] \in S
  <2>1. \A c \in S \cup {n} : l.next[c] \in S \cup {n}
    BY <1>1, <1>2
  <2> QED
    BY <2>1 DEF NoLoop
<1>3. CASE l.prev[n] \notin S
  <2>1. \A c \in S : l.next[c] \in S
    BY <1>1, <1>3
  <2> QED
    BY <2>1 DEF NoLoop
<1> QED
  BY <1>2, <1>3

\* Taking n out of a list changes no other.
LEMMA UnlinkElsewhere ==
    ASSUME NEW C, NEW l, Heap(l, C), NEW M \in SUBSET C, NEW n \in C,
           l.prev[n] \notin M, NoLoop(l, M)
    PROVE  NoLoop(Unlink(l, n), M)
BY DEF Heap, Unlink, NoLoop

\* Putting n in front of pos cuts nothing off the list that n joins ...
LEMMA InsertNoLoop ==
    ASSUME NEW C, NEW l, Heap(l, C), NEW M \in SUBSET C, NEW n \in C \ M,
           NEW pos \in C \ {n}, l.prev[pos] # n,
           l.next[l.prev[pos]] = pos, \A c \in M : l.next[c] # n, NoLoop(l, M)
    PROVE  NoLoop(InsertBefore(l, pos, n), M \cup {n})
<1> DEFINE m == InsertBefore(l, pos, n)
<1>1. \A d \in C : m.next[d] = IF d = l.prev[pos] THEN n
                               ELSE IF d = n THEN pos ELSE l.next[d]
  BY DEF Heap, InsertBefore
<1> SUFFICES ASSUME NEW S \in SUBSET (M \cup {n}), \A c \in S : m.next[c] \in S
             PROVE  S = {}
  BY DEF NoLoop
<1> HIDE DEF m
<1>2. \A c \in S \ {n} : l.next[c] \in S \ {n}
  BY <1>1 DEF Heap
<1>3. S \ {n} = {}
  BY <1>2 DEF NoLoop
<1> QED
  BY <1>1, <1>3

\* ... nor off any other.
LEMMA InsertElsewhere ==
    ASSUME NEW C, NEW l, Heap(l, C), NEW M \in SUBSET C, NEW n \in C \ M,
           NEW pos \in C, l.prev[pos] \notin M, NoLoop(l, M)
    PROVE  NoLoop(InsertBefore(l, pos, n), M)
BY DEF Heap, InsertBefore, NoLoop

-----------------------------------------------------------------------------
(* Registration.                                                           *)

Heads == Queue \cup {POOL}

\* The state of the lists is sound: the inductive invariant of registration.
ListsOK == WellLinked /\ NothingCutOff /\ FreeMeansPooled /\ CountersExact

LEMMA HeadsApart ==
    /\ POOL \notin Hid /\ POOL \notin Queue /\ POOL \in Cell /\ LEAKED \notin Heads
    /\ \A q \in Queue : q \notin Hid /\ q \in Cell /\ q # POOL
    /\ SBUS \in Queue /\ SBUS \in Cell
    /\ \A h \in Hid : h \in Cell
BY HeadsAssumption DEF Cell, Queue, Heads

LEMMA HidFinite == IsFiniteSet(Hid) /\ Cardinality(Hid) = NHandlers
BY SlotsAssumption, FS_Interval DEF Hid

LEMMA HeapOfType == TypeOK => Heap(links, Cell)
BY DEF TypeOK, Heap

-----------------------------------------------------------------------------
(* Type correctness.                                                       *)

\* What a fill of the lists looks like, cell by cell.
LEMMA RefillLinks ==
    ASSUME NEW l, NEW Q \in SUBSET Queue,
           \A q \in Queue \ Q : l.next[q] \in Cell /\ l.prev[q] \in Cell
    PROVE  Heap(Refill(l, Q), Cell)
<1> DEFINE chain(c) == Chain(NHandlers, POOL, c)
<1>1. \A c \in Hid \cup {POOL} : chain(c).next \in Cell /\ chain(c).prev \in Cell
  BY HeadsApart, SlotsAssumption DEF Chain, Hid, Cell
<1> HIDE DEF chain
<1>2. Refill(l, Q) =
        [next |-> [c \in Cell |-> IF c \in Q THEN c
                                  ELSE IF c \in Queue THEN l.next[c] ELSE chain(c).next],
         prev |-> [c \in Cell |-> IF c \in Q THEN c
                                  ELSE IF c \in Queue THEN l.prev[c] ELSE chain(c).prev]]
  BY DEF Refill, chain
<1> QED
  BY <1>1, <1>2 DEF Heap, Cell

\* "next" names a place among the cells unless it is bad.
LEMMA PlaceType ==
    ASSUME NEW l, Heap(l, Cell), NEW q \in Queue, NEW nxt, NEW st,
           ~(nxt \notin {-1, 0} /\ BadNext(nxt, st))
    PROVE  Place(l, q, nxt) \in Cell
BY HeadsApart DEF Place, BadNext, Heap

LEMMA InitType == Init => TypeOK
<1> SUFFICES ASSUME Init PROVE TypeOK
  OBVIOUS
<1>1. links \in [next : [Cell -> Cell], prev : [Cell -> Cell]]
  BY RefillLinks DEF Init, Heap
<1>2. walk \in [pc : {"idle", "loop", "call", "wild"}, q : Queue, i : Nat,
                hnd : Cell, user : BOOLEAN, seen : SUBSET Cell,
                called : SUBSET Hid, due : SUBSET Hid, dirty : BOOLEAN]
  BY HeadsApart DEF Init, NoWalk
<1> QED
  BY <1>1, <1>2 DEF Init, TypeOK

WalkType == [pc : {"idle", "loop", "call", "wild"}, q : Queue, i : Nat,
             hnd : Cell, user : BOOLEAN, seen : SUBSET Cell,
             called : SUBSET Hid, due : SUBSET Hid, dirty : BOOLEAN]

LEMMA NotingType ==
    ASSUME TypeOK, NEW safe \in BOOLEAN, NEW gone, Noting(safe, gone)
    PROVE  walk' \in WalkType
BY DEF TypeOK, Noting, WalkType

LEMMA OnwardType ==
    ASSUME TypeOK PROVE Onward \in WalkType
<1>1. walk \in WalkType /\ links.next \in [Cell -> Cell]
  BY DEF TypeOK, WalkType
<1>2. links.next[walk.hnd] \in Cell /\ walk.i + 1 \in Nat
      /\ walk.seen \cup {walk.hnd} \in SUBSET Cell
  BY <1>1 DEF WalkType
<1> QED
  BY <1>1, <1>2 DEF Onward, WalkType

LEMMA AddType ==
    ASSUME TypeOK, NEW q \in Queue, NEW nxt, NEW unk \in {Kernel, User},
           AddHandler(q, nxt, unk)
    PROVE  TypeOK'
<1> DEFINE hnd    == links.next[POOL]
           popped == Unlink(links, hnd)
           st     == [state EXCEPT ![hnd] = unk]
           pos    == Place(popped, q, nxt)
           bad    == nxt \notin {-1, 0} /\ BadNext(nxt, st)
           safe   == bad \/ pos \notin Passed
<1>1. hnd \in Cell
  BY HeadsApart DEF TypeOK
<1>2. Heap(popped, Cell)
  BY <1>1, HeapOfType, UnlinkType
<1>3. links' \in [next : [Cell -> Cell], prev : [Cell -> Cell]]
  <2>1. CASE bad
    BY <2>1, <1>2 DEF AddHandler, Heap
  <2>2. CASE ~bad
    <3>1. links' = InsertBefore(popped, pos, hnd)
      BY <2>2 DEF AddHandler
    <3>2. pos \in Cell
      BY <2>2, <1>2, PlaceType
    <3>3. Heap(InsertBefore(popped, pos, hnd), Cell)
      BY <1>1, <1>2, <3>2, InsertType
    <3> QED
      BY <3>1, <3>3 DEF Heap
  <2> QED
    BY <2>1, <2>2
<1>4. walk' \in WalkType
  <2>1. Noting(safe, {})
    BY DEF AddHandler
  <2> QED
    BY <2>1, NotingType
<1>5. entries' \in [Queue -> Int] /\ used' \in Int
  BY DEF AddHandler, TypeOK
<1>6. state' \in [Hid -> {Kernel, Disabled, User, Free}]
  BY DEF AddHandler, TypeOK
<1>7. owner' \in [Hid -> Queue \cup {POOL, LEAKED}]
  BY DEF AddHandler, TypeOK
<1> QED
  BY <1>3, <1>4, <1>5, <1>6, <1>7 DEF TypeOK, WalkType, AddHandler

LEMMA RemoveType ==
    ASSUME TypeOK, NEW hid \in Hid, NEW q \in Queue, RemoveHandler(q, hid)
    PROVE  TypeOK'
<1>1. links' \in [next : [Cell -> Cell], prev : [Cell -> Cell]]
  BY HeadsApart, HeapOfType, UnlinkType, InsertType DEF RemoveHandler, Heap
<1>2. walk' \in WalkType
  BY NotingType DEF RemoveHandler
<1>3. entries' \in [Queue -> Int] /\ used' \in Int
  BY DEF RemoveHandler, TypeOK
<1>4. state' \in [Hid -> {Kernel, Disabled, User, Free}]
  BY DEF RemoveHandler, TypeOK
<1>5. owner' \in [Hid -> Queue \cup {POOL, LEAKED}]
  BY DEF RemoveHandler, TypeOK
<1> QED
  BY <1>1, <1>2, <1>3, <1>4, <1>5 DEF TypeOK, WalkType, RemoveHandler

LEMMA ResetType == ASSUME TypeOK, Reset PROVE TypeOK'
<1>1. \A q \in Queue : links.next[q] \in Cell /\ links.prev[q] \in Cell
  BY HeadsApart DEF TypeOK
<1>2. links' \in [next : [Cell -> Cell], prev : [Cell -> Cell]]
  BY <1>1, RefillLinks DEF Reset, Heap
<1>3. entries' \in [Queue -> Int] /\ used' \in Int
  BY DEF Reset, TypeOK
<1>4. state' \in [Hid -> {Kernel, Disabled, User, Free}]
  BY DEF Reset
<1>5. owner' \in [Hid -> Queue \cup {POOL, LEAKED}]
  BY DEF Reset
<1> QED
  BY <1>2, <1>3, <1>4, <1>5 DEF TypeOK, Reset

LEMMA WalkStepType ==
    ASSUME TypeOK, (\E q \in Queue : IrqEnter(q)) \/ Dispatch \/ CallReturn \/ CallAbort
    PROVE  TypeOK'
<1>1. walk' \in WalkType
  <2>1. NoWalk \in WalkType
    BY HeadsApart, SMTT(60) DEF NoWalk, WalkType
  <2>2. ASSUME NEW q \in Queue, IrqEnter(q) PROVE walk' \in WalkType
    BY <2>2, HeadsApart DEF IrqEnter, NoWalk, Members, TypeOK, WalkType
  <2>3. CASE LoopSkip \/ CallReturn
    BY <2>3, OnwardType DEF LoopSkip, CallReturn
  <2>4. CASE LoopCall
    BY <2>4 DEF LoopCall, Called, TypeOK, WalkType
  <2>5. CASE LoopHead
    BY <2>5, OnwardType DEF LoopHead, TypeOK, WalkType
  <2>6. CASE LoopEnd \/ CallAbort
    BY <2>1, <2>6 DEF LoopEnd, CallAbort
  <2> QED
    BY <2>2, <2>3, <2>4, <2>5, <2>6 DEF Dispatch
<1>2. UNCHANGED lists
  BY DEF IrqEnter, Dispatch, LoopSkip, LoopCall, LoopHead, LoopEnd, CallReturn, CallAbort
<1>3. vsync' \in SUBSET {"flag", "csr"}
  BY DEF IrqEnter, Dispatch, LoopSkip, LoopCall, LoopHead, LoopEnd, CallReturn,
         CallAbort, TypeOK
<1> QED
  BY <1>1, <1>2, <1>3 DEF TypeOK, WalkType, lists

LEMMA ToggleType ==
    ASSUME TypeOK, NEW hid \in Hid, EnableHandler(hid) \/ DisableHandler(hid)
    PROVE  TypeOK'
<1>1. CASE EnableHandler(hid)
  BY <1>1 DEF EnableHandler, TypeOK
<1>2. CASE DisableHandler(hid)
  <2>1. walk' \in WalkType
    BY <1>2, NotingType DEF DisableHandler
  <2>2. state' \in [Hid -> {Kernel, Disabled, User, Free}]
    BY <1>2 DEF DisableHandler, TypeOK
  <2> QED
    BY <2>1, <2>2, <1>2 DEF DisableHandler, TypeOK, WalkType
<1> QED
  BY <1>1, <1>2

LEMMA NextType == TypeOK /\ [Next]_vars => TypeOK'
<1> SUFFICES ASSUME TypeOK, [Next]_vars PROVE TypeOK'
  OBVIOUS
<1>1. ASSUME NEW q \in Queue, NEW nxt \in NextArg(q), NEW unk \in {Kernel, User},
             AddHandler(q, nxt, unk)
      PROVE  TypeOK'
  BY <1>1, AddType
<1>2. ASSUME NEW hid \in Hid, NEW q \in RemovesFrom(hid), RemoveHandler(q, hid)
      PROVE  TypeOK'
  BY <1>2, RemoveType DEF RemovesFrom, Lapse
<1>3. ASSUME NEW hid \in Toggled, EnableHandler(hid) \/ DisableHandler(hid)
      PROVE  TypeOK'
  BY <1>3, ToggleType DEF Toggled, Registered, Lapse
<1>4. CASE Reset
  BY <1>4, ResetType
<1>5. CASE ArmVSync
  BY <1>5, CallersAssumption DEF ArmVSync, TypeOK, lists
<1>6. CASE (\E q \in Queue : IrqEnter(q)) \/ Dispatch \/ CallReturn \/ CallAbort
  BY <1>6, WalkStepType
<1>7. CASE UNCHANGED vars
  BY <1>7 DEF vars, TypeOK
<1> QED
  BY <1>1, <1>2, <1>3, <1>4, <1>5, <1>6, <1>7 DEF Next, Edit

\* Every variable keeps its type, whatever callers and callbacks do.
THEOREM TypeCorrect == Spec => []TypeOK
<1> QED
  BY InitType, NextType, PTL DEF Spec

-----------------------------------------------------------------------------
(* The lists stay sound.                                                   *)

LEMMA OnValues ==
    ASSUME TypeOK
    PROVE  /\ \A h \in Hid : on[h] = owner[h]
           /\ \A q \in Heads : q \in Cell /\ q \notin Hid /\ q \in Linked /\ on[q] = q
           /\ Linked \subseteq Cell
           /\ \A h \in Hid : h \in Linked <=> owner[h] # LEAKED
BY HeadsApart DEF on, Linked, Heads, Cell

\* Whatever is on the list of a head is that head or one of its members.
LEMMA OnMembers ==
    ASSUME TypeOK, NEW q \in Heads, NEW c \in Linked, on[c] = q
    PROVE  c = q \/ (c \in Hid /\ c \in Members(q))
BY OnValues, HeadsApart DEF Members, Linked, Heads

\* Who is a member of what after slot n is given to b.
LEMMA Rehomed ==
    ASSUME TypeOK, NEW n \in Hid, NEW a, a = owner[n], NEW b, b # a,
           owner' = [owner EXCEPT ![n] = b]
    PROVE  /\ Members(a)' = Members(a) \ {n} /\ n \in Members(a)
           /\ Members(b)' = Members(b) \cup {n} /\ n \notin Members(b)
           /\ \A x : x \notin {a, b} => Members(x)' = Members(x) /\ n \notin Members(x)
<1>1. \A h \in Hid : owner'[h] = IF h = n THEN b ELSE owner[h]
  BY DEF TypeOK
<1>2. Members(a)' = Members(a) \ {n} /\ n \in Members(a)
  BY <1>1 DEF Members
<1>3. Members(b)' = Members(b) \cup {n} /\ n \notin Members(b)
  BY <1>1 DEF Members
<1>4. ASSUME NEW x, x \notin {a, b}
      PROVE  Members(x)' = Members(x) /\ n \notin Members(x)
  <2>1. \A h \in Hid : owner'[h] = x <=> owner[h] = x
    BY <1>1, <1>4
  <2> QED
    BY <2>1, <1>4 DEF Members
<1> QED
  BY <1>2, <1>3, <1>4

\* A slot leaves one list for another: the heart of every operation.
LEMMA MoveSound ==
    ASSUME TypeOK, TypeOK', WellLinked, NothingCutOff,
           NEW n \in Hid, NEW a \in Heads, owner[n] = a,
           NEW b \in Heads, b # a,
           NEW pos \in Linked \ {n}, on[pos] = b,
           owner' = [owner EXCEPT ![n] = b],
           links' = InsertBefore(Unlink(links, n), pos, n)
    PROVE  WellLinked' /\ NothingCutOff'
<1> DEFINE popped == Unlink(links, n)
<1>1. n \in Linked /\ on[n] = a /\ n \in Cell /\ pos \in Cell /\ Linked \subseteq Cell
  BY OnValues, HeadsApart DEF Heads
<1>2. Heap(links, Cell) /\ Heap(popped, Cell)
  BY <1>1, HeapOfType, UnlinkType
<1>3. Threaded(links, Linked, on) /\ Threaded(popped, Linked \ {n}, on)
  BY <1>1, <1>2, UnlinkThreaded DEF WellLinked
<1>4. Linked' = Linked /\ Linked = (Linked \ {n}) \cup {n}
  BY <1>1, HeadsApart DEF Linked, TypeOK, Heads
<1>5. on'[n] = on[pos] /\ \A c \in Linked \ {n} : on'[c] = on[c]
  BY <1>1 DEF on, TypeOK
<1>6. WellLinked'
  <2>1. Threaded(links', (Linked \ {n}) \cup {n}, on')
    BY <1>1, <1>2, <1>3, <1>5, InsertThreaded
  <2> QED
    BY <2>1, <1>4 DEF WellLinked
<1>7. /\ Members(a)' = Members(a) \ {n} /\ n \in Members(a)
      /\ Members(b)' = Members(b) \cup {n} /\ n \notin Members(b)
      /\ \A x \in Heads \ {a, b} : Members(x)' = Members(x) /\ n \notin Members(x)
  BY Rehomed, ZenonT(60)
<1>8. /\ links.prev[n] \in Linked /\ on[links.prev[n]] = a
      /\ links.next[links.prev[n]] = n
  BY <1>1, <1>3 DEF Threaded
<1>9. /\ popped.prev[pos] \in Linked \ {n} /\ on[popped.prev[pos]] = b
      /\ popped.next[popped.prev[pos]] = pos
  BY <1>3 DEF Threaded
<1>10. \A x \in Heads : \A h \in Members(x) : h \in Hid /\ h \in Cell /\ h \in Linked /\ on[h] = x
  BY HeadsApart, OnValues DEF Members, Heads
<1>11. \A x \in Heads : Members(x) \in SUBSET Cell /\ NoLoop(links, Members(x))
  BY <1>10 DEF NothingCutOff, Heads
<1>12. \A x \in Heads : NoLoop(popped, Members(x) \ {n})
  <2> TAKE x \in Heads
  <2>1. CASE x = a
    BY <2>1, <1>1, <1>2, <1>7, <1>8, <1>11, UnlinkNoLoop
  <2>2. CASE x # a
    <3>1. links.prev[n] \notin Members(x)
      BY <2>2, <1>8, <1>10
    <3>2. Members(x) \ {n} = Members(x)
      BY <2>2, <1>7 DEF Members
    <3> QED
      BY <3>1, <3>2, <1>1, <1>2, <1>11, UnlinkElsewhere
  <2> QED
    BY <2>1, <2>2
<1> HIDE DEF popped
<1>13. ASSUME NEW x \in Heads PROVE NoLoop(links', Members(x)')
  <2>1. CASE x = b
    <3>1. \A c \in Members(b) : popped.next[c] # n
      BY <1>3, <1>7, <1>10 DEF Threaded
    <3>2. Members(b) \ {n} = Members(b) /\ n \in Cell \ Members(b)
      BY <1>1, <1>7
    <3>3. NoLoop(popped, Members(b))
      BY <1>12, <3>2
    <3>4. NoLoop(InsertBefore(popped, pos, n), Members(b) \cup {n})
      BY <3>1, <3>2, <3>3, <1>1, <1>2, <1>9, <1>11, InsertNoLoop
    <3> QED
      BY <3>4, <2>1, <1>7 DEF popped
  <2>2. CASE x # b
    <3>1. Members(x)' = Members(x) \ {n} /\ n \in Cell \ (Members(x) \ {n})
          /\ Members(x) \ {n} \in SUBSET Cell
      BY <2>2, <1>1, <1>7, <1>11
    <3>2. popped.prev[pos] \notin Members(x) \ {n}
      BY <2>2, <1>9, <1>10
    <3>3. NoLoop(InsertBefore(popped, pos, n), Members(x) \ {n})
      BY <3>1, <3>2, <1>1, <1>2, <1>12, InsertElsewhere
    <3> QED
      BY <3>1, <3>3 DEF popped
  <2> QED
    BY <2>1, <2>2
<1> QED
  BY <1>6, <1>13 DEF NothingCutOff, Heads

\* A slot that is popped and then forgotten leaves the other lists whole.
LEMMA LeakSound ==
    ASSUME TypeOK, TypeOK', WellLinked, NothingCutOff,
           NEW n \in Hid, NEW a \in Heads, owner[n] = a,
           owner' = [owner EXCEPT ![n] = LEAKED],
           links' = Unlink(links, n)
    PROVE  WellLinked' /\ NothingCutOff'
<1>1. n \in Linked /\ on[n] = a /\ n \in Cell /\ Linked \subseteq Cell
  BY OnValues, HeadsApart DEF Heads
<1>2. Heap(links, Cell)
  BY HeapOfType
<1>3. Threaded(links, Linked, on) /\ Threaded(links', Linked \ {n}, on)
  BY <1>1, <1>2, UnlinkThreaded DEF WellLinked
<1>4. Linked' = Linked \ {n}
  BY <1>1, HeadsApart DEF Linked, TypeOK, Heads
<1>5. \A c \in Linked \ {n} : on'[c] = on[c]
  BY <1>1 DEF on, TypeOK
<1>6. WellLinked'
  BY <1>3, <1>4, <1>5 DEF WellLinked, Threaded
<1>7. /\ Members(a)' = Members(a) \ {n} /\ n \in Members(a)
      /\ \A x \in Heads \ {a} : Members(x)' = Members(x)
  <2>1. LEAKED # a /\ \A x \in Heads : x # LEAKED
    BY HeadsApart
  <2>2. /\ Members(a)' = Members(a) \ {n} /\ n \in Members(a)
        /\ \A x : x \notin {a, LEAKED} => Members(x)' = Members(x)
    BY <2>1, Rehomed
  <2> QED
    BY <2>1, <2>2
<1>8. /\ links.prev[n] \in Linked /\ on[links.prev[n]] = a
      /\ links.next[links.prev[n]] = n
  BY <1>1, <1>3 DEF Threaded
<1>9. \A x \in Heads : \A h \in Members(x) : h \in Cell /\ on[h] = x
  BY HeadsApart, OnValues DEF Members
<1>10. \A x \in Heads : Members(x) \in SUBSET Cell /\ NoLoop(links, Members(x))
  BY <1>9 DEF NothingCutOff, Heads
<1>11. ASSUME NEW x \in Heads PROVE NoLoop(links', Members(x)')
  <2>1. CASE x = a
    BY <2>1, <1>1, <1>2, <1>7, <1>8, <1>10, UnlinkNoLoop
  <2>2. CASE x # a
    <3>1. links.prev[n] \notin Members(x)
      BY <2>2, <1>8, <1>9
    <3> QED
      BY <3>1, <2>2, <1>1, <1>2, <1>7, <1>10, UnlinkElsewhere
  <2> QED
    BY <2>1, <2>2
<1> QED
  BY <1>6, <1>11 DEF NothingCutOff, Heads

\* Cardinalities of the sets the counters stand for.
InUse == {h \in Hid : owner[h] # POOL}

LEMMA MembersFinite ==
    /\ \A x : IsFiniteSet(Members(x)) /\ Cardinality(Members(x)) \in Nat
    /\ IsFiniteSet(InUse) /\ Cardinality(InUse) \in Nat
<1>1. \A S \in SUBSET Hid : IsFiniteSet(S) /\ Cardinality(S) \in Nat
  BY HidFinite, FS_Subset, FS_CardinalityType
<1> QED
  BY <1>1 DEF Members, InUse

LEMMA AddCounts ==
    ASSUME TypeOK, CountersExact, NEW n \in Hid, owner[n] = POOL,
           NEW b \in Queue \cup {LEAKED},
           owner' = [owner EXCEPT ![n] = b], used' = used + 1,
           entries' = IF b = LEAKED THEN entries ELSE [entries EXCEPT ![b] = @ + 1]
    PROVE  CountersExact'
<1>1. b # POOL
  BY HeadsApart, HeadsAssumption
<1>2. /\ Members(b)' = Members(b) \cup {n} /\ n \notin Members(b)
      /\ \A x : x \notin {POOL, b} => Members(x)' = Members(x)
  BY <1>1, Rehomed, ZenonT(60)
<1>3. InUse' = InUse \cup {n} /\ n \notin InUse
  BY <1>1 DEF InUse, TypeOK
<1>4. Cardinality(InUse \cup {n}) = Cardinality(InUse) + 1
  BY <1>3, MembersFinite, FS_AddElement
<1>5. Cardinality(Members(b) \cup {n}) = Cardinality(Members(b)) + 1
  BY <1>2, MembersFinite, FS_AddElement
<1>6. used' = Cardinality(InUse')
  BY <1>3, <1>4 DEF CountersExact, InUse
<1>7. ASSUME NEW q \in Queue PROVE entries'[q] = Cardinality(Members(q)')
  <2>1. q # POOL /\ q # LEAKED
    BY HeadsApart DEF Heads
  <2>2. CASE q = b
    BY <2>1, <2>2, <1>2, <1>5 DEF CountersExact, TypeOK
  <2>3. CASE q # b
    BY <2>1, <2>3, <1>2 DEF CountersExact, TypeOK
  <2> QED
    BY <2>2, <2>3
<1> QED
  BY <1>6, <1>7 DEF CountersExact, InUse

LEMMA RemoveCounts ==
    ASSUME TypeOK, CountersExact, NEW n \in Hid, NEW a \in Queue, owner[n] = a,
           owner' = [owner EXCEPT ![n] = POOL], used' = used - 1,
           entries' = [entries EXCEPT ![a] = @ - 1]
    PROVE  CountersExact'
<1>1. a # POOL
  BY HeadsApart
<1>2. /\ Members(a)' = Members(a) \ {n} /\ n \in Members(a)
      /\ \A x : x \notin {POOL, a} => Members(x)' = Members(x)
  BY <1>1, Rehomed, ZenonT(60)
<1>3. InUse' = InUse \ {n} /\ n \in InUse
  BY <1>1 DEF InUse, TypeOK
<1>4. Cardinality(InUse \ {n}) = Cardinality(InUse) - 1
  BY <1>3, MembersFinite, FS_RemoveElement
<1>5. Cardinality(Members(a) \ {n}) = Cardinality(Members(a)) - 1
  BY <1>2, MembersFinite, FS_RemoveElement
<1>6. used' = Cardinality(InUse')
  BY <1>3, <1>4 DEF CountersExact, InUse
<1>7. ASSUME NEW q \in Queue PROVE entries'[q] = Cardinality(Members(q)')
  <2>1. q # POOL
    BY HeadsApart
  <2>2. CASE q = a
    BY <2>1, <2>2, <1>2, <1>5 DEF CountersExact, TypeOK
  <2>3. CASE q # a
    BY <2>1, <2>3, <1>2 DEF CountersExact, TypeOK
  <2> QED
    BY <2>2, <2>3
<1> QED
  BY <1>6, <1>7 DEF CountersExact, InUse

\* The initialisation loops leave one chain of all slots and empty queues.
LEMMA RefillSound ==
    ASSUME NEW l, NEW Q \in SUBSET Queue,
           \A q \in Queue \ Q : l.next[q] = q /\ l.prev[q] = q,
           NEW o, \A c \in Hid \cup {POOL} : o[c] = POOL
    PROVE  /\ Threaded(Refill(l, Q), Cell, o)
           /\ NoLoop(Refill(l, Q), Hid)
<1> DEFINE m == Refill(l, Q)
           chain(c) == Chain(NHandlers, POOL, c)
<1>1. m = [next |-> [c \in Cell |-> IF c \in Q THEN c
                                    ELSE IF c \in Queue THEN l.next[c] ELSE chain(c).next],
           prev |-> [c \in Cell |-> IF c \in Q THEN c
                                    ELSE IF c \in Queue THEN l.prev[c] ELSE chain(c).prev]]
  BY DEF Refill
<1> HIDE DEF m, chain
<1>2. \A q \in Queue : q \in Cell /\ m.next[q] = q /\ m.prev[q] = q
  BY <1>1, HeadsApart
<1>3. \A c \in Hid \cup {POOL} : m.next[c] = chain(c).next /\ m.prev[c] = chain(c).prev
  BY <1>1, HeadsApart
<1>4. \A c \in Hid \cup {POOL} :
        /\ m.next[c] = IF c = POOL THEN IF NHandlers = 0 THEN POOL ELSE 1
                       ELSE IF c = NHandlers THEN POOL ELSE c + 1
        /\ m.prev[c] = IF c = POOL THEN IF NHandlers = 0 THEN POOL ELSE NHandlers
                       ELSE IF c = 1 THEN POOL ELSE c - 1
  BY <1>3 DEF chain, Chain
<1>5. \A c \in Hid \cup {POOL} :
        /\ m.next[c] \in Hid \cup {POOL} /\ m.prev[c] \in Hid \cup {POOL}
        /\ m.prev[m.next[c]] = c /\ m.next[m.prev[c]] = c
  <2> TAKE c \in Hid \cup {POOL}
  <2>1. CASE c = POOL
    <3>1. NHandlers # 0 => 1 \in Hid /\ NHandlers \in Hid
      BY SlotsAssumption DEF Hid
    <3> QED
      BY <2>1, <3>1, <1>4, HeadsApart
  <2>2. CASE c \in Hid
    <3>1. c # POOL /\ NHandlers # 0 /\ c \in Int
      BY <2>2, HeadsApart, SlotsAssumption DEF Hid
    <3>2. CASE c = NHandlers
      <4>1. c # 1 => c - 1 \in Hid /\ c - 1 # NHandlers /\ (c - 1) + 1 = c
        BY <2>2, <3>2, SlotsAssumption DEF Hid
      <4> QED
        BY <2>2, <3>1, <3>2, <4>1, <1>4, HeadsApart
    <3>3. CASE c # NHandlers
      <4>1. /\ c + 1 \in Hid /\ c + 1 # 1 /\ (c + 1) - 1 = c
            /\ c # 1 => c - 1 \in Hid /\ c - 1 # NHandlers /\ (c - 1) + 1 = c
        BY <2>2, <3>3, SlotsAssumption DEF Hid
      <4> QED
        BY <2>2, <3>1, <3>3, <4>1, <1>4, HeadsApart, ZenonT(60)
    <3> QED
      BY <3>2, <3>3
  <2> QED
    BY <2>1, <2>2
<1>6. Threaded(m, Cell, o)
  BY <1>2, <1>5 DEF Threaded, Cell
<1>7. NoLoop(m, Hid)
  <2> SUFFICES ASSUME NEW S \in SUBSET Hid, \A c \in S : m.next[c] \in S, S # {}
               PROVE  FALSE
    BY DEF NoLoop
  <2> DEFINE T == {NHandlers - c : c \in S}
  <2>1. T \in SUBSET Nat /\ T # {}
    BY SlotsAssumption DEF Hid
  <2>2. PICK x \in T : \A y \in T : x <= y
    <3> HIDE DEF T
    <3> QED
      BY <2>1, LeastNatural
  <2>3. PICK c \in S : x = NHandlers - c
    BY <2>2
  <2>4. c \in Hid /\ c # POOL /\ m.next[c] \in S /\ POOL \notin S
    BY HeadsApart
  <2>5. c + 1 \in S
    BY <2>4, <1>4
  <2>6. NHandlers - (c + 1) \in T
    BY <2>5
  <2>7. x <= NHandlers - (c + 1)
    BY <2>2, <2>6
  <2> QED
    BY <2>3, <2>4, <2>7, SlotsAssumption DEF Hid
<1> QED
  BY <1>6, <1>7 DEF m

LEMMA InitLists == Init => ListsOK
<1> SUFFICES ASSUME Init PROVE ListsOK
  OBVIOUS
<1>1. TypeOK
  BY InitType
<1>2. \A c \in Hid \cup {POOL} : on[c] = POOL
  BY HeadsApart DEF Init, on
<1>3. Threaded(links, Cell, on) /\ NoLoop(links, Hid)
  BY <1>2, RefillSound DEF Init
<1>4. Linked = Cell
  BY HeadsApart DEF Linked, Init, Cell, Heads
<1>5. \A q \in Queue : Members(q) = {}
  BY HeadsApart DEF Members, Init
<1>6. NothingCutOff
  <2>1. Members(POOL) = Hid
    BY DEF Members, Init
  <2> QED
    BY <2>1, <1>3, <1>5 DEF NothingCutOff, NoLoop
<1>7. CountersExact
  <2>1. {h \in Hid : owner[h] # POOL} = {}
    BY DEF Init
  <2> QED
    BY <2>1, <1>5, FS_EmptySet DEF CountersExact, Init
<1> QED
  BY <1>3, <1>4, <1>6, <1>7 DEF ListsOK, WellLinked, FreeMeansPooled, Init

LEMMA ResetLists ==
    ASSUME TypeOK, TypeOK', ListsOK, Reset, entries[SBUS] = 0
    PROVE  ListsOK'
<1>1. Members(SBUS) = {}
  BY HeadsApart, MembersFinite, FS_EmptySet DEF ListsOK, CountersExact
<1>2. links.next[SBUS] = SBUS /\ links.prev[SBUS] = SBUS
  <2>1. SBUS \in Heads /\ SBUS \in Linked /\ on[SBUS] = SBUS
    BY HeadsApart, OnValues DEF Heads
  <2>2. /\ links.next[SBUS] \in Linked /\ on[links.next[SBUS]] = SBUS
        /\ links.prev[SBUS] \in Linked /\ on[links.prev[SBUS]] = SBUS
    BY <2>1 DEF ListsOK, WellLinked, Threaded
  <2> QED
    BY <1>1, <2>1, <2>2, OnMembers
<1>3. \A q \in Queue \ (Queue \ {SBUS}) : links.next[q] = q /\ links.prev[q] = q
  BY <1>2
<1>4. \A c \in Hid \cup {POOL} : on'[c] = POOL
  BY HeadsApart DEF Reset, on
<1>5. Threaded(links', Cell, on') /\ NoLoop(links', Hid)
  BY <1>3, <1>4, RefillSound DEF Reset
<1>6. Linked' = Cell
  BY HeadsApart DEF Linked, Reset, Cell, Heads
<1>7. \A q \in Queue : Members(q)' = {}
  BY HeadsApart DEF Members, Reset
<1>8. NothingCutOff'
  <2>1. Members(POOL)' = Hid
    BY DEF Members, Reset
  <2> QED
    BY <2>1, <1>5, <1>7 DEF NothingCutOff, NoLoop
<1>9. CountersExact'
  <2>1. {h \in Hid : owner'[h] # POOL} = {}
    BY DEF Reset
  <2>2. \A q \in Queue : entries'[q] = 0
    BY DEF Reset
  <2> QED
    BY <2>1, <2>2, <1>7, FS_EmptySet DEF CountersExact, Reset
<1> QED
  BY <1>5, <1>6, <1>8, <1>9 DEF ListsOK, WellLinked, FreeMeansPooled, Reset

LEMMA RemoveLists ==
    ASSUME TypeOK, TypeOK', ListsOK, NEW hid \in Hid, owner[hid] \in Queue,
           RemoveHandler(owner[hid], hid)
    PROVE  ListsOK'
<1> PICK a \in Queue : a = owner[hid]
  OBVIOUS
<1>1. /\ POOL \in Heads /\ a \in Heads /\ POOL # a /\ POOL # hid
      /\ POOL \in Linked \ {hid} /\ on[POOL] = POOL
  BY HeadsApart, OnValues DEF Heads
<1>2. /\ links' = InsertBefore(Unlink(links, hid), POOL, hid)
      /\ owner' = [owner EXCEPT ![hid] = POOL]
      /\ used' = used - 1 /\ entries' = [entries EXCEPT ![a] = @ - 1]
      /\ state' = [state EXCEPT ![hid] = Free]
  BY DEF RemoveHandler
<1>3. WellLinked' /\ NothingCutOff'
  BY <1>1, <1>2, MoveSound DEF ListsOK
<1>4. CountersExact'
  BY <1>2, RemoveCounts DEF ListsOK
<1>5. FreeMeansPooled'
  BY <1>2 DEF ListsOK, FreeMeansPooled, TypeOK
<1> QED
  BY <1>3, <1>4, <1>5 DEF ListsOK

\* The slot on top of the pool.
LEMMA PoolTop ==
    ASSUME TypeOK, ListsOK, ~EmptyList(links, POOL)
    PROVE  links.next[POOL] \in Hid /\ owner[links.next[POOL]] = POOL
<1>1. POOL \in Heads /\ POOL \in Linked /\ on[POOL] = POOL
  BY HeadsApart, OnValues DEF Heads
<1>2. links.next[POOL] \in Linked /\ on[links.next[POOL]] = POOL
  BY <1>1 DEF ListsOK, WellLinked, Threaded
<1>3. links.next[POOL] # POOL
  BY DEF EmptyList
<1> QED
  BY <1>1, <1>2, <1>3, OnMembers DEF Members

LEMMA AddLists ==
    ASSUME TypeOK, TypeOK', ListsOK, Lapses \subseteq {"bad_next"},
           NEW q \in Queue, NEW nxt \in NextArg(q), NEW unk \in {Kernel, User},
           AddHandler(q, nxt, unk)
    PROVE  ListsOK'
<1> PICK hnd \in Hid : hnd = links.next[POOL] /\ owner[hnd] = POOL
  BY PoolTop DEF AddHandler
<1> DEFINE popped == Unlink(links, hnd)
           st     == [state EXCEPT ![hnd] = unk]
           pos    == Place(popped, q, nxt)
           bad    == nxt \notin {-1, 0} /\ BadNext(nxt, st)
<1>1. used' = used + 1 /\ state' = st
  BY DEF AddHandler
<1>2. FreeMeansPooled'
  <2>1. owner'[hnd] # POOL /\ \A h \in Hid \ {hnd} : owner'[h] = owner[h]
    BY HeadsApart, HeadsAssumption DEF AddHandler, TypeOK
  <2>2. \A h \in Hid : state'[h] = IF h = hnd THEN unk ELSE state[h]
    BY <1>1 DEF TypeOK
  <2>3. \A h \in Hid : state[h] = Free <=> owner[h] = POOL
    BY DEF ListsOK, FreeMeansPooled
  <2>4. unk # Free
    BY DEF Kernel, User, Free
  <2> QED
    BY <2>1, <2>2, <2>3, <2>4 DEF FreeMeansPooled
<1>3. CASE bad
  <2>1. links' = popped /\ owner' = [owner EXCEPT ![hnd] = LEAKED] /\ entries' = entries
    BY <1>3 DEF AddHandler
  <2>2. WellLinked' /\ NothingCutOff'
    BY <2>1, HeadsApart, LeakSound DEF ListsOK, Heads
  <2>3. CountersExact'
    BY <2>1, <1>1, AddCounts DEF ListsOK
  <2> QED
    BY <2>2, <2>3, <1>2 DEF ListsOK
<1>4. CASE ~bad
  <2>1. /\ links' = InsertBefore(popped, pos, hnd)
        /\ owner' = [owner EXCEPT ![hnd] = q]
        /\ entries' = [entries EXCEPT ![q] = @ + 1]
    BY <1>4 DEF AddHandler
  <2>2. Threaded(popped, Linked \ {hnd}, on) /\ q \in Linked \ {hnd} /\ on[q] = q
    <3>1. hnd \in Linked /\ q \in Linked /\ q # hnd /\ on[q] = q /\ Linked \in SUBSET Cell
      BY HeadsApart, OnValues DEF Heads
    <3> QED
      BY <3>1, HeapOfType, UnlinkThreaded DEF ListsOK, WellLinked
  <2>3. pos \in Linked \ {hnd} /\ on[pos] = q
    <3>1. CASE nxt = -1
      BY <3>1, <2>2 DEF Place
    <3>2. CASE nxt = 0
      BY <3>2, <2>2 DEF Place, Threaded
    <3>3. CASE nxt \notin {-1, 0}
      <4>1. nxt \in Hid /\ st[nxt] # Free /\ pos = nxt
        BY <3>3, <1>4 DEF BadNext, Place
      <4>2. nxt # NHandlers + 1
        BY <4>1, SlotsAssumption DEF Hid
      <4>3. nxt \notin {h \in Hid \ {hnd} : state[h] = Free}
        BY <4>1 DEF TypeOK
      <4>4. nxt \in Members(q)
        BY <4>2, <4>3, <3>3 DEF NextArg, Lapse
      <4> QED
        BY <4>1, <4>4, HeadsApart, OnValues DEF Members, Heads
    <3> QED
      BY <3>1, <3>2, <3>3
  <2>4. WellLinked' /\ NothingCutOff'
    <3> HIDE DEF pos
    <3>1. POOL \in Heads /\ q \in Heads /\ q # POOL
      BY HeadsApart DEF Heads
    <3> QED
      BY <3>1, <2>1, <2>3, MoveSound DEF ListsOK
  <2>5. CountersExact'
    <3>1. q # LEAKED
      BY HeadsApart DEF Heads
    <3> QED
      BY <3>1, <2>1, <1>1, AddCounts DEF ListsOK
  <2> QED
    BY <2>4, <2>5, <1>2 DEF ListsOK
<1> QED
  BY <1>3, <1>4

LEMMA WalkStepLists ==
    ASSUME ListsOK, UNCHANGED lists PROVE ListsOK'
BY DEF ListsOK, lists, WellLinked, Threaded, Linked, on, NothingCutOff, NoLoop,
       Members, FreeMeansPooled, CountersExact

LEMMA ToggleLists ==
    ASSUME TypeOK, ListsOK, NEW hid \in Registered,
           EnableHandler(hid) \/ DisableHandler(hid)
    PROVE  ListsOK'
<1>1. UNCHANGED <<links, entries, used, owner>>
  BY DEF EnableHandler, DisableHandler
<1>2. WellLinked' /\ NothingCutOff' /\ CountersExact'
  BY <1>1 DEF ListsOK, WellLinked, Threaded, Linked, on, NothingCutOff, NoLoop, Members,
              CountersExact
<1>3. hid \in Hid /\ owner[hid] # POOL
  BY HeadsApart DEF Registered
<1>4. \A h \in Hid : state'[h] = Free <=> state[h] = Free
  <2>1. PICK v \in {User, Disabled} : state' = [state EXCEPT ![hid] = v]
    BY DEF EnableHandler, DisableHandler
  <2>2. v # Free /\ state[hid] # Free
    BY <1>3 DEF ListsOK, FreeMeansPooled, Free, User, Disabled
  <2> QED
    BY <2>1, <2>2, <1>3 DEF TypeOK
<1> QED
  BY <1>1, <1>2, <1>4 DEF ListsOK, FreeMeansPooled

\* Callers with no other lapse than a bad "next" name what they registered.
LEMMA Careful ==
    ASSUME Lapses \subseteq {"bad_next"}
    PROVE  /\ \A hid \in Hid : \A q \in RemovesFrom(hid) : q \in Queue /\ q = owner[hid]
           /\ Toggled = Registered
BY DEF RemovesFrom, Toggled, Lapse

LEMMA NextLists ==
    ASSUME Lapses \subseteq {"bad_next"}, TypeOK, TypeOK', ListsOK, [Next]_vars
    PROVE  ListsOK'
<1>1. "sbus_reset" \notin Lapses /\ Toggled = Registered
  BY Careful
<1>2. ASSUME NEW q \in Queue, NEW nxt \in NextArg(q), NEW unk \in {Kernel, User},
             AddHandler(q, nxt, unk)
      PROVE  ListsOK'
  BY <1>1, <1>2, AddLists
<1>3. ASSUME NEW hid \in Hid, NEW q \in RemovesFrom(hid), RemoveHandler(q, hid)
      PROVE  ListsOK'
  BY <1>3, Careful, RemoveLists
<1>4. ASSUME NEW hid \in Registered, EnableHandler(hid) \/ DisableHandler(hid)
      PROVE  ListsOK'
  BY <1>4, ToggleLists
<1>5. CASE Reset
  BY <1>1, <1>5, ResetLists DEF Reset, SbusQuiet
<1>6. CASE ArmVSync \/ (\E q \in Queue : IrqEnter(q)) \/ Dispatch \/ CallReturn
           \/ CallAbort \/ UNCHANGED vars
  <2>1. UNCHANGED lists
    BY <1>6 DEF ArmVSync, IrqEnter, Dispatch, LoopSkip, LoopCall, LoopHead, LoopEnd,
                CallReturn, CallAbort, vars, lists
  <2> QED
    BY <2>1, WalkStepLists
<1> QED
  BY <1>1, <1>2, <1>3, <1>4, <1>5, <1>6 DEF Next, Edit

\* The lists are sound in every reachable state, for callers and callbacks that edit any
\* ring at any time but name only what they registered, or at worst a "next" that is
\* free: the rings stay doubly linked and whole, and the counters exact.
THEOREM RegistrySound ==
    ASSUME Lapses \subseteq {"bad_next"}
    PROVE  Spec => [](WellLinked /\ NothingCutOff /\ FreeMeansPooled /\ CountersExact)
<1> DEFINE I == TypeOK /\ ListsOK
<1>1. Init => I
  BY InitType, InitLists
<1>2. I /\ [Next]_vars => I'
  BY NextType, NextLists
<1>3. I => WellLinked /\ NothingCutOff /\ FreeMeansPooled /\ CountersExact
  BY DEF ListsOK
<1> QED
  BY <1>1, <1>2, <1>3, PTL DEF Spec

\* The same for the property as the runs check it, the types included; the callers are
\* those of RegistrySound.
THEOREM ListsAreSound ==
    ASSUME Lapses \subseteq {"bad_next"} PROVE Spec => []ListsSound
<1>1. TypeOK /\ WellLinked /\ NothingCutOff /\ FreeMeansPooled => ListsSound
  BY DEF ListsSound
<1> QED
  BY <1>1, TypeCorrect, RegistrySound, PTL

\* Whatever callbacks do, a walk takes at most one turn per slot.
Turns == walk.i <= NHandlers /\ (walk.pc = "call" => walk.i < NHandlers)

LEMMA EntriesBounded ==
    ASSUME TypeOK, CountersExact, NEW q \in Queue PROVE entries[q] <= NHandlers
<1>1. Members(q) \subseteq Hid
  BY DEF Members
<1>2. Cardinality(Members(q)) <= Cardinality(Hid)
  BY <1>1, HidFinite, FS_Subset
<1> QED
  BY <1>2, HidFinite DEF CountersExact

LEMMA NextTurns ==
    ASSUME TypeOK, CountersExact, Turns, [Next]_vars PROVE Turns'
<1>1. InLoop => walk.i < NHandlers /\ walk.i + 1 <= NHandlers
  <2>1. walk.q \in Queue /\ walk.i \in Nat /\ entries[walk.q] \in Int
    BY DEF TypeOK
  <2> QED
    BY <2>1, EntriesBounded, SlotsAssumption DEF InLoop
<1>2. walk \in WalkType
  BY DEF TypeOK, WalkType
<1>3. CASE \E safe, gone : Noting(safe, gone)
  BY <1>2, <1>3 DEF Noting, Turns, WalkType
<1>4. ASSUME NEW q, IrqEnter(q) PROVE Turns'
  BY <1>4, SlotsAssumption DEF IrqEnter, NoWalk, Turns
<1>5. Onward.pc = "loop" /\ Onward.i = walk.i + 1
  BY <1>2 DEF Onward, WalkType
<1>6. CASE LoopSkip \/ CallReturn
  BY <1>1, <1>2, <1>5, <1>6, SlotsAssumption DEF LoopSkip, CallReturn, Turns, WalkType
<1>7. CASE LoopCall
  BY <1>1, <1>2, <1>7, SlotsAssumption DEF LoopCall, Called, Turns, WalkType
<1>8. CASE LoopHead
  BY <1>1, <1>2, <1>5, <1>8, SlotsAssumption DEF LoopHead, Turns, WalkType
<1>9. CASE LoopEnd \/ CallAbort
  BY <1>9, SlotsAssumption DEF LoopEnd, CallAbort, NoWalk, Turns
<1>10. CASE UNCHANGED walk
  BY <1>10 DEF Turns
<1>11. ASSUME NEW q, NEW nxt, NEW unk, AddHandler(q, nxt, unk) PROVE Turns'
  BY <1>3, <1>11 DEF AddHandler
<1>12. ASSUME NEW q, NEW hid, RemoveHandler(q, hid) PROVE Turns'
  BY <1>3, <1>12 DEF RemoveHandler
<1>13. ASSUME NEW hid, EnableHandler(hid) \/ DisableHandler(hid) PROVE Turns'
  BY <1>3, <1>10, <1>13 DEF EnableHandler, DisableHandler
<1>14. CASE Reset \/ ArmVSync \/ UNCHANGED vars
  BY <1>10, <1>14 DEF Reset, ArmVSync, vars
<1> QED
  BY <1>4, <1>6, <1>7, <1>8, <1>9, <1>11, <1>12, <1>13, <1>14 DEF Next, Edit, Dispatch

-----------------------------------------------------------------------------
(* What stays whole when callers name other queues and stale ids.          *)

Mild == {"bad_next", "foreign_next", "stale_id"}

\* The state of all rings together: the inductive invariant of mild lapses.
RingsOK == RingsWhole /\ FreePooled /\ CountersExact

LEMMA PooledValues ==
    ASSUME TypeOK
    PROVE  /\ \A h \in Hid : pooled[h] = (owner[h] = POOL)
           /\ pooled[POOL] = TRUE /\ \A q \in Queue : pooled[q] = FALSE
           /\ \A c \in Linked : pooled[c] = TRUE => c = POOL \/ c \in Members(POOL)
BY HeadsApart, OnValues DEF pooled, Linked, Members, Heads

\* A linked slot moves to in front of another cell, and to the pool exactly when
\* that cell is on the pool's list.
LEMMA MoveWhole ==
    ASSUME TypeOK, TypeOK', RingsWhole, NEW n \in Hid, n \in Linked,
           NEW b \in Heads, NEW pos \in Linked \ {n}, pooled[pos] = (b = POOL),
           owner' = [owner EXCEPT ![n] = b],
           links' = InsertBefore(Unlink(links, n), pos, n)
    PROVE  RingsWhole'
<1> DEFINE popped == Unlink(links, n)
           M == Linked \cap Hid
<1>1. n \in Cell /\ pos \in Cell /\ Linked \subseteq Cell /\ b # LEAKED
  BY OnValues, HeadsApart
<1>2. Heap(links, Cell) /\ Heap(popped, Cell)
  BY <1>1, HeapOfType, UnlinkType
<1>3. Threaded(links, Linked, pooled) /\ Threaded(popped, Linked \ {n}, pooled)
  BY <1>1, <1>2, UnlinkThreaded DEF RingsWhole
<1>4. Linked' = Linked /\ Linked = (Linked \ {n}) \cup {n}
  BY <1>1, HeadsApart DEF Linked, TypeOK, Heads
<1>5. pooled'[n] = pooled[pos] /\ \A c \in Linked \ {n} : pooled'[c] = pooled[c]
  BY <1>1 DEF pooled, on, TypeOK
<1>6. Threaded(links', Linked', pooled')
  <2>1. Threaded(links', (Linked \ {n}) \cup {n}, pooled')
    BY <1>1, <1>2, <1>3, <1>5, InsertThreaded
  <2> QED
    BY <2>1, <1>4
<1>7. NoLoop(links, M) /\ n \in M /\ M \in SUBSET Cell
  BY <1>1 DEF RingsWhole
<1>8. NoLoop(popped, M \ {n})
  <2>1. links.next[links.prev[n]] = n
    BY <1>3 DEF Threaded
  <2> HIDE DEF M, popped
  <2> QED
    BY <2>1, <1>1, <1>2, <1>7, UnlinkNoLoop DEF popped
<1>9. /\ popped.prev[pos] # n /\ popped.next[popped.prev[pos]] = pos
      /\ \A c \in M \ {n} : popped.next[c] # n
  BY <1>3 DEF Threaded
<1> HIDE DEF M, popped
<1>10. NoLoop(InsertBefore(popped, pos, n), (M \ {n}) \cup {n})
  BY <1>1, <1>2, <1>7, <1>8, <1>9, InsertNoLoop
<1>11. (M \ {n}) \cup {n} = (Linked \cap Hid)'
  BY <1>4, <1>7 DEF M
<1> QED
  BY <1>6, <1>10, <1>11 DEF RingsWhole, popped

\* A slot is popped and forgotten.
LEMMA LeakWhole ==
    ASSUME TypeOK, TypeOK', RingsWhole, NEW n \in Hid, n \in Linked,
           owner' = [owner EXCEPT ![n] = LEAKED], links' = Unlink(links, n)
    PROVE  RingsWhole'
<1> DEFINE M == Linked \cap Hid
<1>1. n \in Cell /\ Linked \subseteq Cell /\ Heap(links, Cell)
  BY OnValues, HeadsApart, HeapOfType
<1>2. Threaded(links, Linked, pooled) /\ Threaded(links', Linked \ {n}, pooled)
  BY <1>1, UnlinkThreaded DEF RingsWhole
<1>3. Linked' = Linked \ {n} /\ \A c \in Linked \ {n} : pooled'[c] = pooled[c]
  BY <1>1, HeadsApart DEF Linked, TypeOK, Heads, pooled, on
<1>4. Threaded(links', Linked', pooled')
  BY <1>2, <1>3 DEF Threaded
<1>5. NoLoop(links, M) /\ n \in M /\ M \in SUBSET Cell /\ links.next[links.prev[n]] = n
  BY <1>1, <1>2 DEF RingsWhole, Threaded
<1> HIDE DEF M
<1>6. NoLoop(links', M \ {n})
  BY <1>1, <1>5, UnlinkNoLoop
<1>7. M \ {n} = (Linked \cap Hid)'
  BY <1>3 DEF M
<1> QED
  BY <1>4, <1>6, <1>7 DEF RingsWhole

LEMMA InitRings == Init => RingsOK
<1> SUFFICES ASSUME Init PROVE RingsOK
  OBVIOUS
<1>1. TypeOK /\ ListsOK
  BY InitType, InitLists
<1>2. Linked = Cell /\ Linked \cap Hid = Members(POOL)
  BY HeadsApart DEF Linked, Init, Cell, Heads, Members
<1>3. Threaded(links, Linked, on)
  BY <1>1 DEF ListsOK, WellLinked
<1>4. Threaded(links, Linked, pooled)
  BY <1>2, <1>3 DEF Threaded, pooled
<1>5. NoLoop(links, Linked \cap Hid)
  BY <1>1, <1>2 DEF ListsOK, NothingCutOff
<1> QED
  BY <1>1, <1>4, <1>5 DEF RingsOK, RingsWhole, FreePooled, ListsOK, FreeMeansPooled

LEMMA ResetRings ==
    ASSUME TypeOK, TypeOK', RingsOK, Reset, SbusQuiet PROVE RingsOK'
<1>1. links.next[SBUS] = SBUS /\ links.prev[SBUS] = SBUS
  <2>1. SBUS \in Linked
    BY HeadsApart, OnValues DEF Heads
  <2> QED
    BY <2>1 DEF RingsOK, RingsWhole, Threaded, SbusQuiet, EmptyList
<1>2. \A c \in Hid \cup {POOL} : on'[c] = POOL
  BY HeadsApart DEF Reset, on
<1>3. Threaded(links', Cell, on') /\ NoLoop(links', Hid)
  BY <1>1, <1>2, RefillSound DEF Reset
<1>4. Linked' = Cell /\ (Linked \cap Hid)' = Hid
  BY HeadsApart DEF Linked, Reset, Cell, Heads
<1>5. Threaded(links', Linked', pooled')
  BY <1>3, <1>4 DEF Threaded, pooled
<1>6. CountersExact'
  <2>1. {h \in Hid : owner'[h] # POOL} = {} /\ \A q \in Queue : Members(q)' = {}
    BY HeadsApart DEF Reset, Members
  <2>2. \A q \in Queue : entries'[q] = 0
    BY DEF Reset, SbusQuiet
  <2> QED
    BY <2>1, <2>2, FS_EmptySet DEF CountersExact, Reset
<1> QED
  BY <1>3, <1>4, <1>5, <1>6 DEF RingsOK, RingsWhole, FreePooled, Reset

LEMMA RemoveRings ==
    ASSUME TypeOK, TypeOK', RingsOK, NEW hid \in Hid, NEW a \in Queue, a = owner[hid],
           RemoveHandler(a, hid)
    PROVE  RingsOK'
<1>1. /\ POOL \in Heads /\ POOL # hid /\ POOL \in Linked \ {hid} /\ pooled[POOL] = TRUE
      /\ hid \in Linked
  BY HeadsApart, OnValues, PooledValues DEF Heads
<1>2. /\ links' = InsertBefore(Unlink(links, hid), POOL, hid)
      /\ owner' = [owner EXCEPT ![hid] = POOL]
      /\ used' = used - 1 /\ entries' = [entries EXCEPT ![a] = @ - 1]
      /\ state' = [state EXCEPT ![hid] = Free]
  BY DEF RemoveHandler
<1>3. RingsWhole'
  BY <1>1, <1>2, MoveWhole DEF RingsOK
<1>4. CountersExact'
  BY <1>2, RemoveCounts DEF RingsOK
<1>5. FreePooled'
  BY <1>2 DEF RingsOK, FreePooled, TypeOK
<1> QED
  BY <1>3, <1>4, <1>5 DEF RingsOK

LEMMA AddRings ==
    ASSUME TypeOK, TypeOK', RingsOK, Lapses \subseteq Mild,
           NEW q \in Queue, NEW nxt \in NextArg(q), NEW unk \in {Kernel, User},
           AddHandler(q, nxt, unk)
    PROVE  RingsOK'
<1>1. PICK hnd \in Hid : hnd = links.next[POOL] /\ owner[hnd] = POOL
  <2>1. POOL \in Linked /\ pooled[POOL] = TRUE
    BY HeadsApart, OnValues, PooledValues DEF Heads
  <2>2. links.next[POOL] \in Linked /\ pooled[links.next[POOL]] = TRUE /\ links.next[POOL] # POOL
    BY <2>1 DEF RingsOK, RingsWhole, Threaded, AddHandler, EmptyList
  <2> QED
    BY <2>2, PooledValues DEF Members
<1> DEFINE popped == Unlink(links, hnd)
           st     == [state EXCEPT ![hnd] = unk]
           pos    == Place(popped, q, nxt)
           bad    == nxt \notin {-1, 0} /\ BadNext(nxt, st)
<1>2. used' = used + 1 /\ state' = st
  BY <1>1 DEF AddHandler
<1>3. hnd \in Linked /\ Linked \in SUBSET Cell
  BY <1>1, HeadsApart, OnValues DEF Heads
<1>4. FreePooled'
  <2>1. \A h \in Hid \ {hnd} : owner'[h] = owner[h]
    BY <1>1 DEF AddHandler, TypeOK
  <2>2. \A h \in Hid : state'[h] = IF h = hnd THEN unk ELSE state[h]
    BY <1>2 DEF TypeOK
  <2>3. unk # Free
    BY DEF Kernel, User, Free
  <2> QED
    BY <2>1, <2>2, <2>3 DEF FreePooled, RingsOK
<1>5. CASE bad
  <2>1. links' = popped /\ owner' = [owner EXCEPT ![hnd] = LEAKED] /\ entries' = entries
    BY <1>1, <1>5 DEF AddHandler
  <2>2. RingsWhole'
    BY <2>1, <1>3, LeakWhole DEF RingsOK
  <2>3. CountersExact'
    BY <2>1, <1>1, <1>2, AddCounts DEF RingsOK
  <2> QED
    BY <2>2, <2>3, <1>4 DEF RingsOK
<1>6. CASE ~bad
  <2>1. /\ links' = InsertBefore(popped, pos, hnd)
        /\ owner' = [owner EXCEPT ![hnd] = q]
        /\ entries' = [entries EXCEPT ![q] = @ + 1]
    BY <1>1, <1>6 DEF AddHandler
  <2>2. Threaded(popped, Linked \ {hnd}, pooled) /\ q \in Linked \ {hnd} /\ pooled[q] = FALSE
    <3>1. q \in Linked /\ q # hnd /\ pooled[q] = FALSE
      BY HeadsApart, OnValues, PooledValues DEF Heads
    <3> QED
      BY <3>1, <1>3, HeapOfType, UnlinkThreaded DEF RingsOK, RingsWhole
  <2>3. pos \in Linked \ {hnd} /\ pooled[pos] = FALSE
    <3>1. CASE nxt = -1
      BY <3>1, <2>2 DEF Place
    <3>2. CASE nxt = 0
      BY <3>2, <2>2 DEF Place, Threaded
    <3>3. CASE nxt \notin {-1, 0}
      <4>1. nxt \in Hid /\ st[nxt] # Free /\ pos = nxt
        BY <3>3, <1>6 DEF BadNext, Place
      <4>2. nxt # NHandlers + 1
        BY <4>1, SlotsAssumption DEF Hid
      <4>3. nxt \notin {h \in Hid \ {hnd} : state[h] = Free}
        BY <4>1, <1>1 DEF TypeOK
      <4>4. "stale_next" \notin Lapses /\ "reused_next" \notin Lapses
        BY DEF Mild
      <4>5. nxt \in Members(q) \cup Registered
        BY <4>2, <4>3, <4>4, <3>3, <1>1 DEF NextArg, Lapse
      <4>6. owner[nxt] \in Queue
        BY <4>5 DEF Members, Registered
      <4> QED
        BY <4>1, <4>6, <1>1, HeadsApart, OnValues, PooledValues DEF Heads
    <3> QED
      BY <3>1, <3>2, <3>3
  <2>4. RingsWhole'
    <3> HIDE DEF pos
    <3>1. q \in Heads /\ q # POOL
      BY HeadsApart DEF Heads
    <3> QED
      BY <3>1, <2>1, <2>3, <1>3, MoveWhole DEF RingsOK
  <2>5. CountersExact'
    <3>1. q # LEAKED
      BY HeadsApart DEF Heads
    <3> QED
      BY <3>1, <2>1, <1>1, <1>2, AddCounts DEF RingsOK
  <2> QED
    BY <2>4, <2>5, <1>4 DEF RingsOK
<1> QED
  BY <1>5, <1>6

\* No id that is enabled or disabled, registered or not, looks free for it.
LEMMA ToggleRings ==
    ASSUME TypeOK, RingsOK, NEW hid \in Hid, EnableHandler(hid) \/ DisableHandler(hid)
    PROVE  RingsOK'
<1>1. UNCHANGED <<links, entries, used, owner>>
  BY DEF EnableHandler, DisableHandler
<1>2. RingsWhole' /\ CountersExact'
  BY <1>1 DEF RingsOK, RingsWhole, Threaded, Linked, pooled, on, NoLoop, CountersExact, Members
<1>3. \A h \in Hid : state'[h] = Free => state[h] = Free
  <2>1. PICK v \in {User, Disabled} : state' = [state EXCEPT ![hid] = v]
    BY DEF EnableHandler, DisableHandler
  <2>2. v # Free
    BY DEF Free, User, Disabled
  <2> QED
    BY <2>1, <2>2 DEF TypeOK
<1> QED
  BY <1>1, <1>2, <1>3 DEF RingsOK, FreePooled

LEMMA NextRings ==
    ASSUME Lapses \subseteq Mild, TypeOK, TypeOK', RingsOK, [Next]_vars
    PROVE  RingsOK'
<1>1. "sbus_reset" \notin Lapses /\ "stray_remove" \notin Lapses
  BY DEF Mild
<1>2. ASSUME NEW q \in Queue, NEW nxt \in NextArg(q), NEW unk \in {Kernel, User},
             AddHandler(q, nxt, unk)
      PROVE  RingsOK'
  BY <1>2, AddRings
<1>3. ASSUME NEW hid \in Hid, NEW q \in RemovesFrom(hid), RemoveHandler(q, hid)
      PROVE  RingsOK'
  <2>1. q \in Queue /\ q = owner[hid]
    BY <1>1 DEF RemovesFrom, Lapse
  <2> QED
    BY <1>3, <2>1, RemoveRings
<1>4. ASSUME NEW hid \in Toggled, EnableHandler(hid) \/ DisableHandler(hid)
      PROVE  RingsOK'
  BY <1>4, ToggleRings DEF Toggled, Registered, Lapse
<1>5. CASE Reset
  BY <1>1, <1>5, ResetRings DEF Reset
<1>6. CASE ArmVSync \/ (\E q \in Queue : IrqEnter(q)) \/ Dispatch \/ CallReturn
           \/ CallAbort \/ UNCHANGED vars
  <2>1. UNCHANGED lists
    BY <1>6 DEF ArmVSync, IrqEnter, Dispatch, LoopSkip, LoopCall, LoopHead, LoopEnd,
                CallReturn, CallAbort, vars, lists
  <2> QED
    BY <2>1 DEF lists, RingsOK, RingsWhole, Threaded, Linked, pooled, on, NoLoop, CountersExact,
                Members, FreePooled
<1> QED
  BY <1>2, <1>3, <1>4, <1>5, <1>6 DEF Next, Edit

\* Edits under a walk harm neither the lists nor the counters, and never lengthen the
\* walk beyond the number of slots, for every number of slots and queues: any ring, at
\* any point of the walk, by callers that name a "next" which is free, out of range or
\* of another queue, and enable and disable any slot. What is left out is in Lapses: a
\* "next" on no queue, a removal under another queue or of a slot that is on none, and
\* a reset over an SBUS handler; each of them does break the lists or the counters.
THEOREM EditsAreHarmless ==
    ASSUME Lapses \subseteq {"bad_next", "foreign_next", "stale_id"}
    PROVE  Spec => []EditsHarmless
<1> DEFINE I == TypeOK /\ RingsOK /\ Turns
<1>1. Init => I
  <2>1. Init => Turns
    BY SlotsAssumption DEF Init, NoWalk, Turns
  <2> QED
    BY <2>1, InitType, InitRings
<1>2. I /\ [Next]_vars => I'
  <2> SUFFICES ASSUME I, [Next]_vars PROVE I'
    OBVIOUS
  <2>1. TypeOK'
    BY NextType
  <2>2. RingsOK'
    BY <2>1, NextRings DEF Mild
  <2>3. Turns'
    BY NextTurns DEF RingsOK
  <2> QED
    BY <2>1, <2>2, <2>3
<1>3. I => EditsHarmless
  BY DEF Turns, WalkBounded, RingsOK, EditsHarmless
<1> QED
  BY <1>1, <1>2, <1>3, PTL DEF Spec

-----------------------------------------------------------------------------
(* Dispatch: the walk of a ring that callbacks edit.                       *)

\* The obligation on callbacks under which the walk is exact, and what keeps it:
\* an edit behind the walk is made only by a callback that then aborts.
TornOnlyInCall ==
    walk.dirty => walk.pc = "call" /\ UnsafeEdits = "then_abort"

WalkInv == WalkInStep /\ TornOnlyInCall

\* The walk's counter has reached the end exactly when all members lie behind it.
LEMMA AllSeen ==
    ASSUME TypeOK, ListsOK, WalkInStep, walk.pc # "idle", ~walk.dirty,
           entries[walk.q] <= walk.i
    PROVE  walk.seen = Members(walk.q)
<1>1. walk.q \in Queue /\ walk.seen \subseteq Members(walk.q) /\ Cardinality(walk.seen) = walk.i
  BY DEF TypeOK, WalkInStep
<1>2. entries[walk.q] = Cardinality(Members(walk.q))
  BY <1>1 DEF ListsOK, CountersExact
<1>3. /\ IsFiniteSet(Members(walk.q)) /\ Cardinality(Members(walk.q)) \in Nat
      /\ IsFiniteSet(walk.seen) /\ Cardinality(walk.seen) \in Nat
      /\ Cardinality(walk.seen) <= Cardinality(Members(walk.q))
  BY <1>1, MembersFinite, FS_Subset, FS_CardinalityType
<1>4. Cardinality(walk.seen) = Cardinality(Members(walk.q))
  BY <1>1, <1>2, <1>3
<1> QED
  BY <1>1, <1>3, <1>4, FS_Subset

\* Until then the next node is a handler of the queue, never a head.
LEMMA NextNode ==
    ASSUME TypeOK, ListsOK, WalkInStep, walk.pc # "idle", ~walk.dirty
    PROVE  /\ walk.hnd \in Linked /\ (walk.hnd = walk.q \/ walk.hnd \in Members(walk.q))
           /\ walk.i < entries[walk.q] => walk.hnd \in Hid
<1>1. /\ walk.q \in Queue /\ walk.q \in Heads /\ walk.hnd \in Cell /\ on[walk.hnd] = walk.q
      /\ walk.seen \subseteq Members(walk.q) /\ Cardinality(walk.seen) = walk.i
      /\ \A c \in walk.seen \cup {walk.hnd} : links.prev[c] \in walk.seen \cup {walk.q}
  BY DEF TypeOK, WalkInStep, Heads
<1>2. walk.hnd \in Linked
  BY <1>1, HeadsApart, OnValues DEF Cell, Heads
<1>3. walk.hnd = walk.q \/ walk.hnd \in Members(walk.q)
  BY <1>1, <1>2, OnMembers
<1>4. ASSUME walk.hnd = walk.q, walk.i < entries[walk.q] PROVE FALSE
  <2> DEFINE rest == Members(walk.q) \ walk.seen
  <2>1. \A c \in rest : links.next[c] \in rest
    <3> TAKE c \in rest
    <3>1. c \in Linked /\ on[c] = walk.q /\ c # walk.q
      BY <1>1, OnValues, HeadsApart DEF Members
    <3>2. /\ links.next[c] \in Linked /\ on[links.next[c]] = walk.q
          /\ links.prev[links.next[c]] = c
      BY <3>1 DEF ListsOK, WellLinked, Threaded
    <3>3. links.next[c] \notin walk.seen \cup {walk.hnd}
      BY <1>1, <3>1, <3>2
    <3> QED
      BY <1>1, <1>4, <3>2, <3>3, OnMembers
  <2>2. rest = {}
    <3>1. NoLoop(links, Members(walk.q)) /\ rest \subseteq Members(walk.q)
      BY <1>1 DEF ListsOK, NothingCutOff
    <3> HIDE DEF rest
    <3> QED
      BY <2>1, <3>1 DEF NoLoop
  <2>3. Cardinality(Members(walk.q)) = walk.i
    <3>1. walk.seen = Members(walk.q)
      BY <1>1, <2>2
    <3> QED
      BY <1>1, <3>1
  <2> QED
    BY <1>1, <1>4, <2>3, MembersFinite DEF ListsOK, CountersExact, TypeOK
<1> QED
  BY <1>2, <1>3, <1>4 DEF Members

\* The node that is passed joins those behind the walk.
LEMMA OnwardInStep ==
    ASSUME TypeOK, TypeOK', ListsOK, WalkInStep,
           walk.pc \in {"loop", "call"},
           ~walk.dirty, walk.hnd \in Hid,
           Enabled(walk.hnd) => walk.hnd \in walk.called,
           walk' = Onward, UNCHANGED lists
    PROVE  WalkInStep' /\ ~walk'.dirty
<1> DEFINE h == walk.hnd
           q == walk.q
<1>1. /\ q \in Queue /\ q \in Heads /\ h \in Cell /\ on[h] = q /\ h \notin walk.seen
      /\ walk.seen \subseteq Members(q) /\ Cardinality(walk.seen) = walk.i
      /\ \A c \in walk.seen \cup {h} : links.prev[c] \in walk.seen \cup {q}
  BY DEF TypeOK, WalkInStep, Heads
<1>2. /\ walk'.pc = "loop" /\ walk'.q = q /\ walk'.i = walk.i + 1
      /\ walk'.hnd = links.next[h] /\ walk'.seen = walk.seen \cup {h}
      /\ walk'.called = walk.called /\ walk'.due = walk.due /\ walk'.dirty = walk.dirty
  <2>1. walk \in WalkType
    BY DEF TypeOK, WalkType
  <2> QED
    BY <2>1 DEF Onward, WalkType
<1>3. h \in Members(q) /\ h \in Linked /\ h # q
  BY <1>1, OnValues, HeadsApart, NextNode DEF Members
<1>4. /\ links.next[h] \in Linked /\ on[links.next[h]] = q
      /\ links.prev[links.next[h]] = h
  BY <1>1, <1>3 DEF ListsOK, WellLinked, Threaded
<1>5. links.next[h] \notin walk.seen \cup {h}
  BY <1>1, <1>3, <1>4
<1>6. Cardinality(walk.seen \cup {h}) = walk.i + 1
  <2>1. IsFiniteSet(walk.seen)
    BY <1>1, MembersFinite, FS_Subset
  <2> QED
    BY <2>1, <1>1, FS_AddElement, ZenonT(60)
<1>7. /\ walk.called \subseteq walk.seen \cup {h}
      /\ walk.due \subseteq Members(q) /\ walk.due \cap walk.seen \subseteq walk.called
      /\ \A d \in walk.due : Enabled(d)
  BY DEF WalkInStep
<1>8. walk.due \cap (walk.seen \cup {h}) \subseteq walk.called
  BY <1>7
<1>9. UNCHANGED <<links, entries, used, state, owner>>
  BY DEF lists
<1>10. Members(q)' = Members(q) /\ on' = on /\ \A d \in Hid : Enabled(d)' = Enabled(d)
  BY <1>2, <1>9 DEF Members, on, Enabled
<1> QED
  BY <1>1, <1>2, <1>3, <1>4, <1>5, <1>6, <1>7, <1>8, <1>9, <1>10
     DEF WalkInStep, Members, on, Enabled

\* Edits made while a callback of the walk runs, ahead of the walk.
LEMMA AddInStep ==
    ASSUME TypeOK, TypeOK', ListsOK, WalkInStep, walk.pc = "call", ~walk.dirty,
           NEW q \in Queue, NEW nxt \in NextArg(q), NEW unk \in {Kernel, User},
           AddHandler(q, nxt, unk), ~walk'.dirty
    PROVE  WalkInStep'
<1> PICK new \in Hid : new = links.next[POOL] /\ owner[new] = POOL
  BY PoolTop DEF AddHandler
<1> DEFINE popped == Unlink(links, new)
           st     == [state EXCEPT ![new] = unk]
           pos    == Place(popped, q, nxt)
           bad    == nxt \notin {-1, 0} /\ BadNext(nxt, st)
           safe   == bad \/ pos \notin Passed
<1>1. walk \in WalkType
  BY DEF TypeOK, WalkType
<1>2. Noting(safe, {}) /\ safe /\ walk' = walk
  <2>1. Noting(safe, {})
    BY DEF AddHandler
  <2> HIDE DEF safe
  <2>2. walk'.dirty = (walk.dirty \/ (walk.pc = "call" /\ ~safe))
        /\ walk' = [walk EXCEPT !.dirty = walk'.dirty, !.due = @]
    BY <1>1, <2>1 DEF Noting, WalkType
  <2>3. safe
    BY <2>2
  <2>4. walk' = walk
    BY <1>1, <2>2, ZenonT(60) DEF WalkType
  <2> QED
    BY <2>1, <2>3, <2>4
<1>3. /\ walk.q \in Queue /\ walk.seen \cup {walk.hnd} \subseteq Members(walk.q)
      /\ walk.q # POOL /\ walk.hnd \in Hid
      /\ \A c \in walk.seen \cup {walk.hnd} : links.prev[c] \in walk.seen \cup {walk.q}
  <2>1. walk.hnd \in Hid
    BY <1>1 DEF WalkInStep, WalkType
  <2> QED
    BY <1>1, <2>1, OnValues, HeadsApart DEF WalkInStep, WalkType, Members
<1>4. \A h \in Hid : h # new => owner'[h] = owner[h]
  BY DEF AddHandler, TypeOK
<1>5. /\ \A h \in Members(walk.q) : h \in Members(walk.q)'
      /\ \A h \in Members(walk.q) : h # new /\ h \in Cell
  BY <1>2, <1>3, <1>4, HeadsApart DEF Members
<1>6. on'[walk.hnd] = walk.q
  BY <1>2, <1>3, <1>5, OnValues, HeadsApart DEF on, Members
<1>7. \A h \in walk.due : Enabled(h)'
  <2>1. walk.due \subseteq Members(walk.q) /\ \A h \in walk.due : Enabled(h)
    BY DEF WalkInStep
  <2>2. \A h \in Hid : h # new => state'[h] = state[h]
    BY DEF AddHandler, TypeOK
  <2> QED
    BY <2>1, <2>2, <1>5 DEF Enabled, Members
<1>8. \A c \in walk.seen \cup {walk.hnd} : links'.prev[c] = links.prev[c]
  <2> TAKE c \in walk.seen \cup {walk.hnd}
  <2>1. c \in Cell /\ c # new /\ c # links.next[new] /\ new \in Cell
    <3>1. new \in Linked /\ on[new] = POOL
      BY OnValues, HeadsApart DEF Heads
    <3>2. on[links.next[new]] = POOL
      BY <3>1 DEF ListsOK, WellLinked, Threaded
    <3>3. on[c] = walk.q
      BY <1>3, OnValues DEF Members
    <3> QED
      BY <3>2, <3>3, <1>3, <1>5, HeadsApart
  <2>2. popped.prev[c] = links.prev[c] /\ popped.prev \in [Cell -> Cell]
    BY <2>1 DEF Unlink, TypeOK
  <2>3. CASE bad
    BY <2>2, <2>3 DEF AddHandler
  <2>4. CASE ~bad
    <3>1. pos # c
      BY <2>4, <1>2 DEF Passed
    <3>2. links' = InsertBefore(popped, pos, new)
      BY <2>4 DEF AddHandler
    <3> HIDE DEF popped, pos
    <3> QED
      BY <3>1, <3>2, <2>1, <2>2 DEF InsertBefore
  <2> QED
    BY <2>3, <2>4
<1>9. walk.seen \subseteq Members(walk.q)' /\ walk.due \subseteq Members(walk.q)'
  BY <1>3, <1>5 DEF WalkInStep
<1> QED
  BY <1>2, <1>6, <1>7, <1>8, <1>9 DEF WalkInStep

LEMMA RemoveInStep ==
    ASSUME TypeOK, TypeOK', ListsOK, WalkInStep, walk.pc = "call", ~walk.dirty,
           NEW hid \in Hid, owner[hid] \in Queue,
           RemoveHandler(owner[hid], hid), ~walk'.dirty
    PROVE  WalkInStep'
<1> DEFINE safe == hid \notin Passed
<1>1. walk \in WalkType
  BY DEF TypeOK, WalkType
<1>2. safe /\ walk' = [walk EXCEPT !.due = @ \ {hid}]
  <2>1. Noting(safe, {hid})
    BY DEF RemoveHandler
  <2> HIDE DEF safe
  <2>2. walk'.dirty = (walk.dirty \/ (walk.pc = "call" /\ ~safe))
        /\ walk' = [walk EXCEPT !.dirty = walk'.dirty, !.due = @ \ {hid}]
    BY <1>1, <2>1 DEF Noting, WalkType
  <2>3. safe
    BY <2>2
  <2>4. walk' = [walk EXCEPT !.due = @ \ {hid}]
    BY <1>1, <2>2 DEF WalkType
  <2> QED
    BY <2>3, <2>4
<1>3. /\ walk'.pc = walk.pc /\ walk'.q = walk.q /\ walk'.i = walk.i /\ walk'.hnd = walk.hnd
      /\ walk'.seen = walk.seen /\ walk'.called = walk.called
      /\ walk'.due = walk.due \ {hid}
  BY <1>1, <1>2 DEF WalkType
<1>4. /\ walk.q \in Queue /\ walk.seen \cup {walk.hnd} \subseteq Members(walk.q)
      /\ walk.q # POOL /\ walk.hnd \in Hid /\ hid \notin walk.seen \cup {walk.hnd}
      /\ \A c \in walk.seen \cup {walk.hnd} : links.prev[c] \in walk.seen \cup {walk.q}
  <2>1. walk.hnd \in Hid
    BY <1>1 DEF WalkInStep, WalkType
  <2> QED
    BY <1>1, <1>2, <2>1, OnValues, HeadsApart DEF WalkInStep, WalkType, Members, Passed
<1>5. /\ \A h \in Hid : h # hid => owner'[h] = owner[h] /\ state'[h] = state[h]
      /\ links' = InsertBefore(Unlink(links, hid), POOL, hid)
  BY DEF RemoveHandler, TypeOK
<1>6. \A h \in Members(walk.q) \ {hid} : h \in Members(walk.q)' /\ h \in Hid /\ h \in Cell
  BY <1>3, <1>5, HeadsApart DEF Members
<1>7. on'[walk.hnd] = walk.q
  BY <1>4, <1>5, <1>6, HeadsApart DEF on, Members
<1>8. \A h \in walk.due \ {hid} : Enabled(h)'
  BY <1>5, <1>6 DEF WalkInStep, Enabled, Members
<1>9. \A c \in walk.seen \cup {walk.hnd} : links'.prev[c] = links.prev[c]
  <2> TAKE c \in walk.seen \cup {walk.hnd}
  <2>1. c \in Cell /\ c # hid /\ c # POOL /\ hid \in Cell /\ POOL \in Cell
    BY <1>4, <1>6, HeadsApart
  <2>2. c # links.next[hid]
    <3>1. hid \in Linked /\ hid \notin Queue
      BY OnValues, HeadsApart DEF Heads
    <3>2. links.prev[links.next[hid]] = hid
      BY <3>1 DEF ListsOK, WellLinked, Threaded
    <3> QED
      BY <3>1, <3>2, <1>4
  <2>3. Unlink(links, hid).prev[c] = links.prev[c]
        /\ Unlink(links, hid).prev \in [Cell -> Cell]
    BY <2>1, <2>2 DEF Unlink, TypeOK
  <2> QED
    BY <2>1, <2>3, <1>5 DEF InsertBefore
<1>10. walk.seen \subseteq Members(walk.q)' /\ walk.due \ {hid} \subseteq Members(walk.q)'
  BY <1>4, <1>6 DEF WalkInStep
<1>11. (walk.due \ {hid}) \cap walk.seen \subseteq walk.called
  BY DEF WalkInStep
<1> QED
  BY <1>3, <1>4, <1>7, <1>8, <1>9, <1>10, <1>11 DEF WalkInStep

LEMMA ToggleInStep ==
    ASSUME TypeOK, WalkInStep, NEW hid \in Hid,
           EnableHandler(hid) \/ DisableHandler(hid)
    PROVE  WalkInStep' /\ walk'.dirty = walk.dirty /\ walk'.pc = walk.pc
<1>1. walk \in WalkType /\ state \in [Hid -> {Kernel, Disabled, User, Free}]
  BY DEF TypeOK, WalkType
<1>2. UNCHANGED <<links, owner>>
  BY DEF EnableHandler, DisableHandler
<1>3. CASE EnableHandler(hid)
  <2>1. walk' = walk /\ \A h \in Hid : Enabled(h) => Enabled(h)'
    BY <1>1, <1>3 DEF EnableHandler, Enabled
  <2>2. walk.due \subseteq Hid
    BY <1>1 DEF WalkType
  <2> QED
    BY <2>1, <2>2, <1>2 DEF WalkInStep, Members, on
<1>4. CASE DisableHandler(hid)
  <2>1. Noting(TRUE, {hid})
    BY <1>4 DEF DisableHandler
  <2>2. /\ walk'.pc = walk.pc /\ walk'.q = walk.q /\ walk'.i = walk.i
        /\ walk'.hnd = walk.hnd /\ walk'.seen = walk.seen /\ walk'.called = walk.called
        /\ walk'.due = walk.due \ {hid} /\ walk'.dirty = walk.dirty
    BY <1>1, <2>1 DEF Noting, WalkType
  <2>3. \A h \in Hid \ {hid} : Enabled(h)' = Enabled(h)
    BY <1>1, <1>4 DEF DisableHandler, Enabled
  <2>4. walk.due \subseteq Hid
    BY <1>1 DEF WalkType
  <2> QED
    BY <2>2, <2>3, <2>4, <1>2 DEF WalkInStep, Members, on
<1> QED
  BY <1>3, <1>4

\* Calls of the registration code touch only "dirty" and "due" of the walk, and
\* only a callback that will abort dirties it.
LEMMA NotingTorn ==
    ASSUME TypeOK, TornOnlyInCall, UnsafeEdits # "free",
           NEW safe \in BOOLEAN, NEW gone, Noting(safe, gone), MayCall(safe)
    PROVE  /\ TornOnlyInCall' /\ walk'.pc = walk.pc /\ walk.pc \in {"idle", "call"}
           /\ walk.dirty => walk'.dirty
<1>1. walk \in WalkType
  BY DEF TypeOK, WalkType
<1>2. /\ walk'.pc = walk.pc
      /\ walk'.dirty = (walk.dirty \/ (walk.pc = "call" /\ ~safe))
  BY <1>1 DEF Noting, WalkType
<1> QED
  BY <1>1, <1>2 DEF TornOnlyInCall, MayCall, WalkType

LEMMA EditWalk ==
    ASSUME UnsafeEdits # "free", Lapses \subseteq {"bad_next"},
           TypeOK, TypeOK', ListsOK, WalkInv, Edit
    PROVE  WalkInv'
<1>1. ASSUME NEW q \in Queue, NEW nxt \in NextArg(q), NEW unk \in {Kernel, User},
             AddHandler(q, nxt, unk)
      PROVE  WalkInv'
  <2>1. PICK safe \in BOOLEAN : Noting(safe, {}) /\ MayCall(safe)
    BY <1>1 DEF AddHandler
  <2>2. /\ TornOnlyInCall' /\ walk'.pc = walk.pc /\ walk.pc \in {"idle", "call"}
        /\ walk.dirty => walk'.dirty
    BY <2>1, NotingTorn DEF WalkInv
  <2>3. CASE walk.pc = "idle" \/ walk'.dirty
    BY <2>2, <2>3 DEF WalkInv, WalkInStep
  <2>4. CASE walk.pc = "call" /\ ~walk'.dirty
    <3>1. ~walk.dirty
      BY <2>2, <2>4
    <3> QED
      BY <1>1, <2>2, <2>4, <3>1, AddInStep DEF WalkInv
  <2> QED
    BY <2>2, <2>3, <2>4
<1>2. ASSUME NEW hid \in Hid, NEW q \in RemovesFrom(hid), RemoveHandler(q, hid)
      PROVE  WalkInv'
  <2>1. PICK safe \in BOOLEAN : Noting(safe, {hid}) /\ MayCall(safe)
    BY <1>2 DEF RemoveHandler
  <2>2. /\ TornOnlyInCall' /\ walk'.pc = walk.pc /\ walk.pc \in {"idle", "call"}
        /\ walk.dirty => walk'.dirty
    BY <2>1, NotingTorn DEF WalkInv
  <2>3. CASE walk.pc = "idle" \/ walk'.dirty
    BY <2>2, <2>3 DEF WalkInv, WalkInStep
  <2>4. CASE walk.pc = "call" /\ ~walk'.dirty
    <3>1. ~walk.dirty /\ owner[hid] \in Queue /\ q = owner[hid]
      BY <2>2, <2>4, Careful
    <3> QED
      BY <1>2, <2>2, <2>4, <3>1, RemoveInStep DEF WalkInv
  <2> QED
    BY <2>2, <2>3, <2>4
<1> QED
  BY <1>1, <1>2 DEF Edit

LEMMA EnterInStep ==
    ASSUME TypeOK, TypeOK', ListsOK, NEW q \in Queue, IrqEnter(q)
    PROVE  WalkInv'
<1>1. /\ walk'.pc = "loop" /\ walk'.q = q /\ walk'.i = 0 /\ walk'.hnd = links.next[q]
      /\ walk'.seen = {} /\ walk'.called = {} /\ walk'.dirty = FALSE
      /\ walk'.due = {h \in Members(q) : Enabled(h)}
  BY DEF IrqEnter, NoWalk
<1>2. UNCHANGED <<links, entries, used, state, owner>>
  BY DEF IrqEnter, lists
<1>3. /\ on[links.next[q]] = q /\ links.prev[links.next[q]] = q
  <2>1. q \in Linked /\ on[q] = q
    BY OnValues DEF Heads
  <2> QED
    BY <2>1 DEF ListsOK, WellLinked, Threaded
<1>4. Cardinality({}) = 0
  BY FS_EmptySet
<1> QED
  BY <1>1, <1>2, <1>3, <1>4 DEF WalkInv, WalkInStep, TornOnlyInCall, Members, on, Enabled

LEMMA DispatchWalk ==
    ASSUME UnsafeEdits # "free", TypeOK, TypeOK', ListsOK, WalkInv,
           Dispatch \/ CallReturn \/ CallAbort
    PROVE  WalkInv'
<1>1. walk \in WalkType
  BY DEF TypeOK, WalkType
<1>2. CASE LoopSkip
  <2>1. WalkInStep' /\ ~walk'.dirty
    BY <1>2, OnwardInStep DEF LoopSkip, InLoop, WalkInv, TornOnlyInCall
  <2> QED
    BY <2>1 DEF WalkInv, TornOnlyInCall
<1>3. CASE LoopCall
  <2>0. owner[walk.hnd] # POOL
    BY <1>3 DEF LoopCall, ListsOK, FreeMeansPooled, Enabled, Kernel, User, Free
  <2>1. /\ walk'.pc = "call" /\ walk'.q = walk.q /\ walk'.i = walk.i
        /\ walk'.hnd = walk.hnd /\ walk'.seen = walk.seen
        /\ walk'.called = walk.called \cup {walk.hnd}
        /\ walk'.due = walk.due /\ walk'.dirty = walk.dirty
    BY <1>1, <1>3, <2>0 DEF LoopCall, Called, WalkType
  <2>2. walk.pc = "loop" /\ ~walk.dirty
    BY <1>3 DEF LoopCall, InLoop, WalkInv, TornOnlyInCall
  <2>3. UNCHANGED <<links, entries, used, state, owner>>
    BY <1>3 DEF LoopCall, lists
  <2> QED
    BY <2>1, <2>2, <2>3 DEF WalkInv, WalkInStep, TornOnlyInCall, Members, on, Enabled
<1>7. CASE LoopHead
  <2>1. walk.pc = "loop" /\ ~walk.dirty /\ walk.i < entries[walk.q] /\ walk.hnd \notin Hid
    BY <1>7 DEF LoopHead, InLoop, WalkInv, TornOnlyInCall
  <2> QED
    BY <2>1, NextNode DEF WalkInv
<1>5. CASE LoopEnd \/ CallAbort
  BY <1>5 DEF LoopEnd, CallAbort, NoWalk, WalkInv, WalkInStep, TornOnlyInCall
<1>6. CASE CallReturn
  <2>1. walk.pc = "call" /\ ~walk.dirty
    BY <1>6 DEF CallReturn, WalkInv, TornOnlyInCall
  <2>2. walk.hnd \in walk.called /\ walk.hnd \in Hid
    BY <1>1, <2>1 DEF WalkInv, WalkInStep, WalkType
  <2>3. WalkInStep' /\ ~walk'.dirty
    BY <1>6, <2>1, <2>2, OnwardInStep DEF CallReturn, WalkInv
  <2> QED
    BY <2>3 DEF WalkInv, TornOnlyInCall
<1> QED
  BY <1>2, <1>3, <1>5, <1>6, <1>7 DEF Dispatch

LEMMA NextWalk ==
    ASSUME UnsafeEdits # "free", Lapses \subseteq {"bad_next"},
           TypeOK, TypeOK', ListsOK, WalkInv, [Next]_vars
    PROVE  WalkInv'
<1>1. ASSUME NEW hid \in Toggled, EnableHandler(hid) \/ DisableHandler(hid)
      PROVE  WalkInv'
  <2>1. WalkInStep' /\ walk'.dirty = walk.dirty /\ walk'.pc = walk.pc
    BY <1>1, Careful, ToggleInStep DEF WalkInv, Registered
  <2> QED
    BY <2>1 DEF WalkInv, TornOnlyInCall
<1>2. CASE Reset
  BY <1>2 DEF Reset, WalkInv, WalkInStep, TornOnlyInCall
<1>3. CASE ArmVSync \/ UNCHANGED vars
  BY <1>3 DEF ArmVSync, vars, lists, WalkInv, WalkInStep, TornOnlyInCall, Members, on, Enabled
<1> QED
  BY <1>1, <1>2, <1>3, EditWalk, EnterInStep, DispatchWalk DEF Next

Inv == TypeOK /\ ListsOK /\ WalkInv

LEMMA Invariance ==
    ASSUME Lapses \subseteq {"bad_next"}, UnsafeEdits # "free"
    PROVE  Spec => []Inv
<1>1. Init => Inv
  <2>1. Init => WalkInv
    BY DEF Init, NoWalk, WalkInv, WalkInStep, TornOnlyInCall
  <2> QED
    BY <2>1, InitType, InitLists DEF Inv
<1>2. Inv /\ [Next]_vars => Inv'
  BY NextType, NextLists, NextWalk DEF Inv
<1> QED
  BY <1>1, <1>2, PTL DEF Spec

\* A walk keeps in step with its ring: i handlers of its queue lie behind it.
THEOREM WalkStaysInStep ==
    ASSUME Lapses \subseteq {"bad_next"}, UnsafeEdits # "free"
    PROVE  Spec => []WalkInStep
<1>1. Inv => WalkInStep
  BY DEF Inv, WalkInv
<1> QED
  BY <1>1, Invariance, PTL

\* The irq handlers dereference nothing but handlers, provided a callback that
\* edits the ring behind the walk aborts the interrupt.
THEOREM WalkIsNeverWild ==
    ASSUME Lapses \subseteq {"bad_next"}, UnsafeEdits # "free"
    PROVE  Spec => []NeverWild
<1>1. Inv => NeverWild
  BY NextNode DEF Inv, WalkInv, WalkInStep, TornOnlyInCall, NeverWild, InLoop
<1> QED
  BY <1>1, Invariance, PTL

\* Every handler that is enabled throughout the interrupt is called in it.
THEOREM NoHandlerIsMissed ==
    ASSUME Lapses \subseteq {"bad_next"}, UnsafeEdits # "free"
    PROVE  Spec => NoneMissed
<1>1. Inv /\ [Next]_vars
        => [(walk.pc = "loop" /\ walk'.pc = "idle") => walk.due \subseteq walk.called]_vars
  <2> SUFFICES ASSUME Inv, [Next]_vars, walk.pc = "loop", walk'.pc = "idle"
               PROVE  walk.due \subseteq walk.called
    OBVIOUS
  <2>1. ~InLoop
    <3>1. walk \in WalkType
      BY DEF Inv, TypeOK, WalkType
    <3>2. CASE \E safe, gone : Noting(safe, gone)
      BY <3>1, <3>2 DEF Noting, WalkType
    <3>3. CASE UNCHANGED walk
      BY <3>3
    <3>4. CASE LoopSkip \/ LoopCall \/ LoopHead
      BY <3>1, <3>4 DEF LoopSkip, LoopCall, Called, LoopHead, Onward, WalkType
    <3>5. CASE LoopEnd
      BY <3>5 DEF LoopEnd
    <3>6. CASE CallReturn \/ CallAbort \/ \E q \in Queue : IrqEnter(q)
      BY <3>6 DEF CallReturn, CallAbort, IrqEnter
    <3>7. CASE Reset \/ ArmVSync \/ UNCHANGED vars
      BY <3>3, <3>7 DEF Reset, ArmVSync, vars
    <3>8. CASE Edit
      BY <3>2, <3>8 DEF Edit, AddHandler, RemoveHandler
    <3>9. CASE \E hid \in Toggled : EnableHandler(hid) \/ DisableHandler(hid)
      BY <3>2, <3>3, <3>9 DEF EnableHandler, DisableHandler
    <3> QED
      BY <3>4, <3>5, <3>6, <3>7, <3>8, <3>9 DEF Next, Dispatch
  <2>2. ~walk.dirty /\ WalkInStep
    BY DEF Inv, WalkInv, TornOnlyInCall
  <2>3. entries[walk.q] <= walk.i
    BY <2>1 DEF InLoop, Inv, TypeOK
  <2>4. walk.seen = Members(walk.q)
    BY <2>2, <2>3, AllSeen DEF Inv
  <2> QED
    BY <2>2, <2>4 DEF WalkInStep
<1> QED
  BY <1>1, Invariance, PTL DEF Spec, NoneMissed

\* A handler runs only for its own queue and at most once in an interrupt.
THEOREM HandlersRunOnce ==
    ASSUME Lapses \subseteq {"bad_next"}, UnsafeEdits # "free"
    PROVE  Spec => OnlyDueHandlersRun
<1>1. Inv /\ [Next]_vars
        => [(walk.pc = "loop" /\ walk'.pc = "call")
              => owner[walk.hnd] = walk.q /\ walk.hnd \notin walk.called]_vars
  <2> SUFFICES ASSUME Inv, [Next]_vars, walk.pc = "loop", walk'.pc = "call"
               PROVE  owner[walk.hnd] = walk.q /\ walk.hnd \notin walk.called
    OBVIOUS
  <2>1. walk.hnd \in Hid
    <3>1. walk \in WalkType
      BY DEF Inv, TypeOK, WalkType
    <3>2. CASE \E safe, gone : Noting(safe, gone)
      BY <3>1, <3>2 DEF Noting, WalkType
    <3>3. CASE UNCHANGED walk
      BY <3>3
    <3>4. CASE LoopSkip \/ LoopHead
      BY <3>1, <3>4 DEF LoopSkip, LoopHead, Onward, WalkType
    <3>5. CASE LoopCall
      BY <3>5 DEF LoopCall
    <3>6. CASE LoopEnd \/ CallReturn \/ CallAbort \/ \E q \in Queue : IrqEnter(q)
      BY <3>6 DEF LoopEnd, NoWalk, CallReturn, CallAbort, IrqEnter
    <3>7. CASE Reset \/ ArmVSync \/ UNCHANGED vars
      BY <3>3, <3>7 DEF Reset, ArmVSync, vars
    <3>8. CASE Edit
      BY <3>2, <3>8 DEF Edit, AddHandler, RemoveHandler
    <3>9. CASE \E hid \in Toggled : EnableHandler(hid) \/ DisableHandler(hid)
      BY <3>2, <3>3, <3>9 DEF EnableHandler, DisableHandler
    <3> QED
      BY <3>4, <3>5, <3>6, <3>7, <3>8, <3>9 DEF Next, Dispatch
  <2>2. on[walk.hnd] = walk.q /\ walk.hnd \notin walk.called
    BY DEF Inv, WalkInv, WalkInStep, TornOnlyInCall
  <2> QED
    BY <2>1, <2>2, OnValues DEF Inv
<1> QED
  BY <1>1, Invariance, PTL DEF Spec, OnlyDueHandlersRun
=============================================================================
