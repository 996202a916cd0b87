---------------------------- MODULE ServerProofs ----------------------------
(***************************************************************************)
(* The safety of a permuter@home server, for any permuters, workers and    *)
(* amount of work: the evaluator first, then the server and its            *)
(* controller.                                                             *)
(***************************************************************************)
EXTENDS MCServer, CountProofs

-----------------------------------------------------------------------------
(* The evaluator: what travels, and the parts of the invariant.            *)

Ids == 1..MaxWork
Orders == [type : {"add", "remove"}, h : Handles] \cup [type : {"work"}, h : Handles, id : Ids]
DonesOf(h) == [type : {"done"}, h : {h}, id : Ids]
Tasks == Orders \cup [type : {"done"}, h : Handles, id : Ids]
Items == [h : Handles, id : Ids, ts : Nat]
ItemsOf(h) == [h : {h}, id : Ids, ts : Nat]
Updates == [type : {"add", "remove"}, h : Handles, ts : Nat]
WorkerStates ==
    [pc : {"get", "catch_up", "evaluate"}, ts : Nat, perms : SUBSET Handles,
     job : {<<>>} \cup (Handles \X Ids), need : Nat]

EvalShape ==
    /\ asked \in [Handles -> {"new", "added", "ready", "removed"}] /\ nextId \in 1..MaxWork + 1
    /\ pipe \in Seq(Orders) /\ tq \in Seq(Tasks) /\ wq \in Seq(Items)
    /\ lq \in [Threads -> Seq(Updates)] /\ thread \in [Threads -> WorkerStates]
    /\ ts \in Nat /\ remaining \in [Handles -> Nat]
    /\ toRemove \subseteq perms /\ perms \subseteq Handles

\* An added permuter's messages: no order follows its removal, and none precedes its
\* coming.
Follows(m, n) == m.h = n.h /\ "done" \notin {m.type, n.type} => m.type # "remove" /\ n.type # "add"
InOrder(q) == \A i, j \in 1..Len(q) : i < j => Follows(q[i], q[j])
OrdersInOrder ==
    /\ InOrder(tq) /\ InOrder(pipe)
    /\ \A i \in 1..Len(tq), j \in 1..Len(pipe) : Follows(tq[i], pipe[j])

\* The orders about h that are still to be carried out.
Within(q, h, type) == \E i \in 1..Len(q) : q[i].type = type /\ q[i].h = h
Pending(h, type) == Within(tq, h, type) \/ Within(pipe, h, type)

\* What the server has asked for, what is on its way and what the evaluator has.
Built(h) == <<"init", h, TRUE>> \in sent
Refused(h) == <<"init", h, FALSE>> \in sent
HeldFor(h) ==
    /\ asked[h] = "new" =>
          \A type \in {"add", "work", "remove"} : ~ Pending(h, type)
    /\ asked[h] = "new" \/ Pending(h, "add") => h \notin perms /\ ~ Built(h) /\ ~ Refused(h)
    /\ asked[h] \in {"added", "ready"} => ~ Pending(h, "remove") /\ h \notin toRemove
    /\ asked[h] = "ready" => Built(h)
    /\ asked[h] \in {"added", "ready"} /\ Built(h) => h \in perms
    /\ Pending(h, "work") => h \in perms /\ h \notin toRemove
OrdersFit == \A h \in Handles : HeldFor(h)

\* The main loop's history: what it held after each of its updates. The updates under
\* way tell of its steps, a worker has what the main loop held at the worker's time,
\* and the permuter of work has been held ever since the work was put in the queue.
Records(past, now, m) ==
    /\ m.ts \in 1..now
    /\ m.type = "add" => m.h \notin past[m.ts - 1] /\ past[m.ts] = past[m.ts - 1] \cup {m.h}
    /\ m.type = "remove" => m.h \in past[m.ts - 1] /\ past[m.ts] = past[m.ts - 1] \ {m.h}
HeldSince(past, now, h, n) == n \in 0..now /\ \A k \in n..now : h \in past[k]
WorkerAgrees(past, t) ==
    /\ thread[t].ts \in 0..ts /\ thread[t].perms = past[thread[t].ts]
    /\ Len(lq[t]) = ts - thread[t].ts
    /\ \A i \in 1..Len(lq[t]) : lq[t][i].ts = thread[t].ts + i /\ Records(past, ts, lq[t][i])
    /\ thread[t].need \in 0..ts
    /\ thread[t].job = <<>> <=> thread[t].pc = "get"
    /\ thread[t].job # <<>> => HeldSince(past, ts, thread[t].job[1], thread[t].need)
    /\ thread[t].pc = "evaluate" => thread[t].ts >= thread[t].need
Agrees(past) ==
    /\ past[ts] = perms
    /\ \A t \in Threads : WorkerAgrees(past, t)
    /\ \A i \in 1..Len(wq) : HeldSince(past, ts, wq[i].h, wq[i].ts)
HistoryAgrees == \E past \in [0..ts -> SUBSET Handles] : Agrees(past)

\* The inductive invariant of the evaluator.
EvalInv ==
    /\ EvalShape /\ OrdersInOrder /\ OrdersFit /\ HistoryAgrees
    /\ E!NothingFails /\ E!WorkCounted /\ E!RemovedInTime

-----------------------------------------------------------------------------
(* Queues: one element more at the end, one less at the front.             *)

LEMMA AppendFacts ==
    ASSUME NEW V, NEW q \in Seq(V), NEW m \in V
    PROVE  /\ Append(q, m) \in Seq(V) /\ Len(q) \in Nat /\ Len(Append(q, m)) = Len(q) + 1
           /\ \A i \in 1..Len(q) : Append(q, m)[i] = q[i]
           /\ Append(q, m)[Len(q) + 1] = m
           /\ \A i \in 1..Len(q) : q[i] \in V
BY AppendProperties

LEMMA TailFacts ==
    ASSUME NEW V, NEW q \in Seq(V), q # <<>>
    PROVE  /\ Tail(q) \in Seq(V) /\ Len(q) \in Nat \ {0} /\ Len(Tail(q)) = Len(q) - 1
           /\ Head(q) = q[1] /\ Head(q) \in V
           /\ \A i \in 1..Len(Tail(q)) : Tail(q)[i] = q[i + 1] /\ i + 1 \in 1..Len(q)
           /\ \A i \in 1..Len(q) : q[i] \in V
BY HeadTailProperties

LEMMA WithinAppend ==
    ASSUME NEW V, NEW q \in Seq(V), NEW m \in V
    PROVE  \A h, type : Within(Append(q, m), h, type) <=> Within(q, h, type) \/ (m.h = h /\ m.type = type)
<1>1. /\ Len(q) \in Nat /\ Len(Append(q, m)) = Len(q) + 1
      /\ \A i \in 1..Len(q) : Append(q, m)[i] = q[i]
      /\ Append(q, m)[Len(q) + 1] = m
  BY AppendFacts
<1>2. \A i : i \in 1..Len(q) + 1 <=> i \in 1..Len(q) \/ i = Len(q) + 1
  BY <1>1
<1> QED
  BY <1>1, <1>2 DEF Within

LEMMA WithinTail ==
    ASSUME NEW V, NEW q \in Seq(V), q # <<>>
    PROVE  /\ \A h, type : Within(q, h, type) <=>
                              Within(Tail(q), h, type) \/ (Head(q).h = h /\ Head(q).type = type)
<1>1. /\ Len(q) \in Nat \ {0} /\ Len(Tail(q)) = Len(q) - 1 /\ Head(q) = q[1]
      /\ \A i \in 1..Len(Tail(q)) : Tail(q)[i] = q[i + 1] /\ i + 1 \in 1..Len(q)
  BY TailFacts
<1>2. \A i \in 1..Len(q) : i = 1 \/ (i - 1 \in 1..Len(Tail(q)) /\ q[i] = Tail(q)[i - 1])
  BY <1>1
<1>3. 1 \in 1..Len(q)
  BY <1>1
<1> QED
  BY <1>1, <1>2, <1>3, SMTT(60) DEF Within

LEMMA InOrderAppend ==
    ASSUME NEW V, NEW q \in Seq(V), NEW m \in V, InOrder(q), \A i \in 1..Len(q) : Follows(q[i], m)
    PROVE  InOrder(Append(q, m))
<1>1. /\ Len(q) \in Nat /\ Len(Append(q, m)) = Len(q) + 1
      /\ \A i \in 1..Len(q) : Append(q, m)[i] = q[i]
      /\ Append(q, m)[Len(q) + 1] = m
  BY AppendFacts
<1> SUFFICES ASSUME NEW i \in 1..Len(q) + 1, NEW j \in 1..Len(q) + 1, i < j
             PROVE  Follows(Append(q, m)[i], Append(q, m)[j])
  BY <1>1 DEF InOrder
<1>2. i \in 1..Len(q) /\ (j \in 1..Len(q) \/ j = Len(q) + 1)
  BY <1>1
<1> QED
  BY <1>1, <1>2 DEF InOrder

LEMMA InOrderTail ==
    ASSUME NEW V, NEW q \in Seq(V), q # <<>>, InOrder(q)
    PROVE  InOrder(Tail(q)) /\ \A i \in 1..Len(Tail(q)) : Follows(Head(q), Tail(q)[i])
<1>1. /\ Len(q) \in Nat \ {0} /\ Len(Tail(q)) = Len(q) - 1 /\ Head(q) = q[1]
      /\ \A i \in 1..Len(Tail(q)) : Tail(q)[i] = q[i + 1] /\ i + 1 \in 1..Len(q)
  BY TailFacts
<1>2. InOrder(Tail(q))
  <2> SUFFICES ASSUME NEW i \in 1..Len(Tail(q)), NEW j \in 1..Len(Tail(q)), i < j
               PROVE  Follows(Tail(q)[i], Tail(q)[j])
    BY DEF InOrder
  <2>1. i + 1 < j + 1
    OBVIOUS
  <2> QED
    BY <1>1, <2>1 DEF InOrder
<1>3. \A i \in 1..Len(Tail(q)) : 1 < i + 1 /\ 1 \in 1..Len(q)
  BY <1>1
<1> QED
  BY <1>1, <1>2, <1>3 DEF InOrder

-----------------------------------------------------------------------------
(* The evaluator: types.                                                   *)

\* What a worker's step makes of its state.
LEMMA WorkerParts ==
    ASSUME NEW t \in Threads, thread \in [Threads -> WorkerStates]
    PROVE  /\ thread[t] \in WorkerStates /\ thread[t].pc \in {"get", "catch_up", "evaluate"}
           /\ thread[t].ts \in Nat /\ thread[t].need \in Nat /\ thread[t].perms \subseteq Handles
           /\ thread[t].job # <<>> => thread[t].job[1] \in Handles /\ thread[t].job[2] \in Ids
BY DEF WorkerStates

LEMMA GetState ==
    ASSUME NEW t \in Threads, thread \in [Threads -> WorkerStates], wq \in Seq(Items), E!WorkerGet(t)
    PROVE  /\ thread' \in [Threads -> WorkerStates]
           /\ thread'[t].pc = "catch_up" /\ thread'[t].ts = thread[t].ts /\ thread'[t].perms = thread[t].perms
           /\ thread'[t].job = <<Head(wq).h, Head(wq).id>> /\ thread'[t].need = Head(wq).ts
           /\ \A u \in Threads : u # t => thread'[u] = thread[u]
<1>1. Head(wq) \in Items
  BY TailFacts DEF E!WorkerGet
<1>2. Head(wq).h \in Handles /\ Head(wq).id \in Ids /\ Head(wq).ts \in Nat
  BY <1>1 DEF Items
<1> QED
  BY <1>2, ZenonT(60) DEF E!WorkerGet, WorkerStates

LEMMA LearnState ==
    ASSUME NEW t \in Threads, thread \in [Threads -> WorkerStates], lq \in [Threads -> Seq(Updates)],
           E!WorkerLearn(t)
    PROVE  /\ thread' \in [Threads -> WorkerStates] /\ Head(lq[t]) \in Updates
           /\ thread'[t].pc = "catch_up" /\ thread[t].pc = "catch_up" /\ thread'[t].ts = Head(lq[t]).ts
           /\ thread'[t].perms = IF Head(lq[t]).type = "add" THEN thread[t].perms \cup {Head(lq[t]).h}
                                 ELSE thread[t].perms \ {Head(lq[t]).h}
           /\ thread'[t].job = thread[t].job /\ thread'[t].need = thread[t].need
           /\ \A u \in Threads : u # t => thread'[u] = thread[u]
<1>1. Head(lq[t]) \in Updates
  BY TailFacts DEF E!WorkerLearn
<1>2. Head(lq[t]).type \in {"add", "remove"} /\ Head(lq[t]).h \in Handles /\ Head(lq[t]).ts \in Nat
  BY <1>1 DEF Updates
<1> DEFINE known == IF Head(lq[t]).type = "add" THEN thread[t].perms \cup {Head(lq[t]).h}
                    ELSE thread[t].perms \ {Head(lq[t]).h}
<1>3. thread' = [thread EXCEPT ![t].ts = Head(lq[t]).ts, ![t].perms = known]
  BY DEF E!WorkerLearn
<1>4. known \subseteq Handles
  BY <1>2 DEF WorkerStates
<1>5. thread[t].pc = "catch_up"
  BY DEF E!WorkerLearn
<1> HIDE DEF known
<1>6. /\ thread' \in [Threads -> WorkerStates]
      /\ thread'[t].pc = "catch_up" /\ thread'[t].ts = Head(lq[t]).ts /\ thread'[t].perms = known
      /\ thread'[t].job = thread[t].job /\ thread'[t].need = thread[t].need
      /\ \A u \in Threads : u # t => thread'[u] = thread[u]
  BY <1>2, <1>3, <1>4, <1>5, ZenonT(60) DEF WorkerStates
<1> QED
  BY <1>1, <1>5, <1>6 DEF known

LEMMA EmptyState ==
    ASSUME NEW t \in Threads, thread \in [Threads -> WorkerStates], E!WorkerEmpty(t)
    PROVE  /\ thread' \in [Threads -> WorkerStates]
           /\ thread'[t].pc = "evaluate" /\ thread'[t].ts = thread[t].ts
           /\ thread'[t].perms = thread[t].perms /\ thread'[t].job = thread[t].job
           /\ thread'[t].need = thread[t].need
           /\ \A u \in Threads : u # t => thread'[u] = thread[u]
BY ZenonT(60) DEF E!WorkerEmpty, WorkerStates

LEMMA DoneState ==
    ASSUME NEW t \in Threads, thread \in [Threads -> WorkerStates], E!WorkerDone(t),
           thread[t].job # <<>>, thread[t].job[1] \in thread[t].perms
    PROVE  /\ thread' \in [Threads -> WorkerStates]
           /\ thread'[t].pc = "get" /\ thread'[t].ts = thread[t].ts
           /\ thread'[t].perms = thread[t].perms /\ thread'[t].job = <<>>
           /\ thread'[t].need = thread[t].need
           /\ \A u \in Threads : u # t => thread'[u] = thread[u]
BY DEF E!WorkerDone, WorkerStates

-----------------------------------------------------------------------------
(* The evaluator: work that is out.                                        *)

Queued(h) == HowMany(wq, ItemsOf(h))
Busy(h) == {t \in Threads : thread[t].job # <<>> /\ thread[t].job[1] = h}
InHand(h) == Cardinality(Busy(h))
Back(h) == HowMany(tq, DonesOf(h))

LEMMA EvalCardinality == \A A : E!Cardinality(A) = Cardinality(A)
BY DEF E!Cardinality, Cardinality

LEMMA PartsCounted ==
    ASSUME NEW q \in Seq(Items), NEW w \in [Threads -> WorkerStates], NEW k \in Seq(Tasks), NEW h \in Handles
    PROVE  /\ Cardinality({i \in 1..Len(q) : q[i].h = h}) = HowMany(q, ItemsOf(h))
           /\ Cardinality({i \in 1..Len(k) : k[i].type = "done" /\ k[i].h = h}) = HowMany(k, DonesOf(h))
           /\ HowMany(q, ItemsOf(h)) \in Nat /\ HowMany(k, DonesOf(h)) \in Nat
           /\ IsFiniteSet({t \in Threads : w[t].job # <<>> /\ w[t].job[1] = h})
           /\ Cardinality({t \in Threads : w[t].job # <<>> /\ w[t].job[1] = h}) \in Nat
<1>1. {i \in 1..Len(q) : q[i].h = h} = PlacesOf(q, ItemsOf(h))
  <2>1. \A i \in 1..Len(q) : q[i] \in Items
    BY ElementOfSeq
  <2> QED
    BY <2>1 DEF PlacesOf, Items, ItemsOf
<1>2. {i \in 1..Len(k) : k[i].type = "done" /\ k[i].h = h} = PlacesOf(k, DonesOf(h))
  <2>1. \A i \in 1..Len(k) : k[i] \in Tasks
    BY ElementOfSeq
  <2>2. \A m \in Tasks : (m.type = "done" /\ m.h = h) <=> m \in DonesOf(h)
    BY DEF Tasks, Orders, DonesOf
  <2> QED
    BY <2>1, <2>2 DEF PlacesOf
<1> DEFINE B == {t \in Threads : w[t].job # <<>> /\ w[t].job[1] = h}
<1>3. IsFiniteSet(B)
  <2>1. B \subseteq Threads /\ IsFiniteSet(Threads)
    BY ServerAssumption
  <2> QED
    BY <2>1, FS_Subset
<1>4. Cardinality(B) \in Nat
  BY <1>3, FS_CardinalityType
<1> QED
  BY <1>1, <1>2, <1>3, <1>4, PlacesFinite DEF HowMany

LEMMA OutParts ==
    ASSUME EvalShape, NEW h \in Handles
    PROVE  /\ E!Out(h) = Queued(h) + InHand(h) + Back(h)
           /\ Queued(h) \in Nat /\ InHand(h) \in Nat /\ Back(h) \in Nat /\ IsFiniteSet(Busy(h))
BY PartsCounted, EvalCardinality, ZenonT(60) DEF E!Out, EvalShape, Queued, InHand, Back, Busy

LEMMA OutPartsAfter ==
    ASSUME EvalShape', NEW h \in Handles
    PROVE  E!Out(h)' = Queued(h)' + InHand(h)' + Back(h)'
BY PartsCounted, EvalCardinality DEF E!Out, EvalShape, Queued, InHand, Back, Busy

\* Work comes into the queue, ...
LEMMA QueuedAppend ==
    ASSUME EvalShape, NEW m \in Items, wq' = Append(wq, m), NEW h \in Handles
    PROVE  Queued(h)' = Queued(h) + (IF m.h = h THEN 1 ELSE 0)
<1>1. m \in ItemsOf(h) <=> m.h = h
  BY DEF Items, ItemsOf
<1>2. HowMany(Append(wq, m), ItemsOf(h)) = HowMany(wq, ItemsOf(h)) + (IF m \in ItemsOf(h) THEN 1 ELSE 0)
  BY HowManyAppend DEF EvalShape
<1> QED
  BY <1>1, <1>2 DEF Queued

\* ... is taken from it, ...
LEMMA QueuedTail ==
    ASSUME EvalShape, wq # <<>>, wq' = Tail(wq), NEW h \in Handles
    PROVE  Queued(h)' = Queued(h) - (IF Head(wq).h = h THEN 1 ELSE 0)
<1>1. Head(wq) \in Items
  BY TailFacts DEF EvalShape
<1>2. Head(wq) \in ItemsOf(h) <=> Head(wq).h = h
  BY <1>1 DEF Items, ItemsOf
<1>3. HowMany(Tail(wq), ItemsOf(h)) = HowMany(wq, ItemsOf(h)) - (IF Head(wq) \in ItemsOf(h) THEN 1 ELSE 0)
  BY HowManyTail DEF EvalShape
<1> QED
  BY <1>2, <1>3 DEF Queued

\* ... is put into a worker's hands and leaves them, ...
LEMMA HandsChange ==
    ASSUME EvalShape, thread' \in [Threads -> WorkerStates], NEW t \in Threads, NEW h \in Handles,
           \A u \in Threads : u # t => thread'[u] = thread[u]
    PROVE  /\ thread[t].job = <<>> /\ thread'[t].job # <<>> =>
                 InHand(h)' = InHand(h) + (IF thread'[t].job[1] = h THEN 1 ELSE 0)
           /\ thread[t].job # <<>> /\ thread'[t].job = <<>> =>
                 InHand(h)' = InHand(h) - (IF thread[t].job[1] = h THEN 1 ELSE 0)
           /\ thread'[t].job = thread[t].job => InHand(h)' = InHand(h)
<1>1. IsFiniteSet(Busy(h)) /\ InHand(h) \in Nat /\ InHand(h) = Cardinality(Busy(h)) /\ InHand(h)' = Cardinality(Busy(h)')
  BY OutParts DEF InHand
<1>2. ASSUME thread[t].job = <<>>, thread'[t].job # <<>>
      PROVE  InHand(h)' = InHand(h) + (IF thread'[t].job[1] = h THEN 1 ELSE 0)
  <2>1. Busy(h)' = IF thread'[t].job[1] = h THEN Busy(h) \cup {t} ELSE Busy(h)
    BY <1>2 DEF Busy
  <2>2. t \notin Busy(h)
    BY <1>2 DEF Busy
  <2>3. Cardinality(Busy(h) \cup {t}) = Cardinality(Busy(h)) + 1
    BY <1>1, <2>2, FS_AddElement
  <2> QED
    BY <1>1, <2>1, <2>3
<1>3. ASSUME thread[t].job # <<>>, thread'[t].job = <<>>
      PROVE  InHand(h)' = InHand(h) - (IF thread[t].job[1] = h THEN 1 ELSE 0)
  <2>1. Busy(h)' = IF thread[t].job[1] = h THEN Busy(h) \ {t} ELSE Busy(h)
    BY <1>3 DEF Busy
  <2>2. t \in Busy(h) <=> thread[t].job[1] = h
    BY <1>3 DEF Busy
  <2>3. t \in Busy(h) => Cardinality(Busy(h) \ {t}) = Cardinality(Busy(h)) - 1
    BY <1>1, FS_RemoveElement
  <2> QED
    BY <1>1, <2>1, <2>2, <2>3
<1>4. ASSUME thread'[t].job = thread[t].job PROVE InHand(h)' = InHand(h)
  <2>1. Busy(h)' = Busy(h)
    BY <1>4 DEF Busy
  <2> QED
    BY <1>1, <2>1
<1> QED
  BY <1>2, <1>3, <1>4

\* ... and comes back.
LEMMA BackAppend ==
    ASSUME EvalShape, NEW m \in Tasks, tq' = Append(tq, m), NEW h \in Handles
    PROVE  Back(h)' = Back(h) + (IF m.type = "done" /\ m.h = h THEN 1 ELSE 0)
<1>1. m \in DonesOf(h) <=> m.type = "done" /\ m.h = h
  BY DEF Tasks, Orders, DonesOf
<1>2. HowMany(Append(tq, m), DonesOf(h)) = HowMany(tq, DonesOf(h)) + (IF m \in DonesOf(h) THEN 1 ELSE 0)
  BY HowManyAppend DEF EvalShape
<1> QED
  BY <1>1, <1>2 DEF Back

LEMMA BackTail ==
    ASSUME EvalShape, tq # <<>>, tq' = Tail(tq), NEW h \in Handles
    PROVE  Back(h)' = Back(h) - (IF Head(tq).type = "done" /\ Head(tq).h = h THEN 1 ELSE 0)
<1>1. Head(tq) \in Tasks
  BY TailFacts DEF EvalShape
<1>2. Head(tq) \in DonesOf(h) <=> Head(tq).type = "done" /\ Head(tq).h = h
  BY <1>1 DEF Tasks, Orders, DonesOf
<1>3. HowMany(Tail(tq), DonesOf(h)) = HowMany(tq, DonesOf(h)) - (IF Head(tq) \in DonesOf(h) THEN 1 ELSE 0)
  BY HowManyTail DEF EvalShape
<1> QED
  BY <1>2, <1>3 DEF Back

LEMMA BackIsOut ==
    ASSUME EvalShape, E!WorkCounted, tq # <<>>, Head(tq).type = "done"
    PROVE  Head(tq).h \in Handles /\ Head(tq).id \in Ids /\ remaining[Head(tq).h] \in Nat \ {0}
<1>1. Head(tq) \in Tasks
  BY TailFacts DEF EvalShape
<1>2. Head(tq).h \in Handles /\ Head(tq).id \in Ids
  BY <1>1 DEF Tasks, Orders
<1> DEFINE h == Head(tq).h
<1>3. HowMany(Tail(tq), DonesOf(h)) = Back(h) - 1 /\ HowMany(Tail(tq), DonesOf(h)) \in Nat
  <2>1. Head(tq) \in DonesOf(h)
    BY <1>1 DEF Tasks, Orders, DonesOf
  <2>2. Tail(tq) \in Seq(Tasks)
    BY TailFacts DEF EvalShape
  <2> HIDE DEF h
  <2>3. HowMany(Tail(tq), DonesOf(h)) = HowMany(tq, DonesOf(h)) - (IF Head(tq) \in DonesOf(h) THEN 1 ELSE 0)
    BY HowManyTail DEF EvalShape
  <2> QED
    BY <2>1, <2>2, <2>3, PlacesFinite DEF Back
<1>4. remaining[h] = Queued(h) + InHand(h) + Back(h) /\ Queued(h) \in Nat /\ InHand(h) \in Nat /\ Back(h) \in Nat
  BY <1>2, OutParts DEF E!WorkCounted
<1> HIDE DEF h
<1>5. remaining[h] \in Nat \ {0}
  BY <1>3, <1>4
<1> QED
  BY <1>2, <1>5 DEF h

\* The main loop's answer to the removal of h, or to its last result.
LEMMA TryRemoveShape ==
    ASSUME EvalShape, NEW h \in Handles, NEW rest \in [Handles -> Nat], NEW rem \in SUBSET perms,
           E!TryRemove(h, rest, rem)
    PROVE  /\ remaining' = rest
           /\ \/ h \notin rem \/ rest[h] # 0
              \/ /\ h \in rem /\ rest[h] = 0
                 /\ toRemove' = rem \ {h} /\ perms' = perms \ {h} /\ ts' = ts + 1
                 /\ lq' = [t \in Threads |-> Append(lq[t], [type |-> "remove", h |-> h, ts |-> ts + 1])]
           /\ h \notin rem \/ rest[h] # 0 =>
                 toRemove' = rem /\ perms' = perms /\ ts' = ts /\ lq' = lq
           /\ ts' \in Nat /\ toRemove' \subseteq perms' /\ perms' \subseteq Handles
           /\ lq' \in [Threads -> Seq(Updates)]
<1>1. CASE h \notin rem \/ rest[h] # 0
  BY <1>1 DEF E!TryRemove, EvalShape
<1>2. CASE h \in rem /\ rest[h] = 0
  <2> DEFINE m == [type |-> "remove", h |-> h, ts |-> ts + 1]
  <2>1. m \in Updates
    BY DEF EvalShape, Updates
  <2>2. /\ remaining' = [rest EXCEPT ![h] = 0] /\ toRemove' = rem \ {h} /\ ts' = ts + 1
        /\ lq' = [t \in Threads |-> Append(lq[t], m)] /\ perms' = perms \ {h}
    BY <1>2 DEF E!TryRemove, E!Tell
  <2>3. [rest EXCEPT ![h] = 0] = rest
    BY <1>2
  <2>4. \A t \in Threads : Append(lq[t], m) \in Seq(Updates)
    BY <2>1, AppendFacts DEF EvalShape
  <2> QED
    BY <1>2, <2>2, <2>3, <2>4 DEF EvalShape
<1> QED
  BY <1>1, <1>2

LEMMA EvalShapeKept ==
    ASSUME EvalShape, E!WorkCounted, E!Next, HistoryAgrees
    PROVE  EvalShape'
<1> USE DEF EvalShape
<1>1. ASSUME NEW h \in Handles, E!SendAdd(h) PROVE EvalShape'
  <2>1. [type |-> "add", h |-> h] \in Orders
    BY DEF Orders
  <2> QED
    BY <1>1, <2>1, AppendFacts DEF E!SendAdd, E!main
<1>2. ASSUME NEW h \in Handles, E!InitAnswer(h) PROVE EvalShape'
  BY <1>2 DEF E!InitAnswer, E!main
<1>3. ASSUME NEW h \in Handles, E!SendWork(h) PROVE EvalShape'
  <2>1. nextId \in Ids /\ nextId + 1 \in 1..MaxWork + 1
    BY <1>3, ServerAssumption DEF E!SendWork, Ids
  <2>2. [type |-> "work", h |-> h, id |-> nextId] \in Orders
    BY <2>1 DEF Orders
  <2> QED
    BY <1>3, <2>1, <2>2, AppendFacts DEF E!SendWork, E!main
<1>4. ASSUME NEW h \in Handles, E!SendRemove(h) PROVE EvalShape'
  <2>1. [type |-> "remove", h |-> h] \in Orders
    BY DEF Orders
  <2> QED
    BY <1>4, <2>1, AppendFacts DEF E!SendRemove, E!main
<1>5. ASSUME E!ReadLoop PROVE EvalShape'
  <2>1. Head(pipe) \in Orders /\ Tail(pipe) \in Seq(Orders)
    BY <1>5, TailFacts DEF E!ReadLoop
  <2>2. Head(pipe) \in Tasks
    BY <2>1 DEF Tasks
  <2> QED
    BY <1>5, <2>1, <2>2, AppendFacts DEF E!ReadLoop, E!main
<1>6. ASSUME NEW type, E!Task(type) PROVE tq # <<>> /\ tq' \in Seq(Tasks) /\ Head(tq) \in Tasks /\ Head(tq).h \in Handles
  <2>1. tq # <<>> /\ tq' \in Seq(Tasks) /\ Head(tq) \in Tasks
    BY <1>6, TailFacts DEF E!Task
  <2> QED
    BY <2>1 DEF Tasks, Orders
<1>7. ASSUME E!MainAdd PROVE EvalShape'
  <2> DEFINE m == [type |-> "add", h |-> Head(tq).h, ts |-> ts + 1]
  <2>1. tq' \in Seq(Tasks) /\ Head(tq).h \in Handles
    BY <1>6, <1>7 DEF E!MainAdd
  <2>2. m \in Updates
    BY <2>1 DEF Updates
  <2>3. \A t \in Threads : Append(lq[t], m) \in Seq(Updates)
    BY <2>2, AppendFacts
  <2>4. /\ \/ perms' = perms \cup {Head(tq).h} /\ ts' = ts + 1 /\ lq' = [t \in Threads |-> Append(lq[t], m)]
           \/ perms' = perms /\ ts' = ts /\ lq' = lq
        /\ UNCHANGED <<asked, nextId, pipe, remaining, toRemove, wq, thread>>
    BY <1>7 DEF E!MainAdd, E!server, E!Tell
  <2>5. lq' \in [Threads -> Seq(Updates)]
    <3> HIDE DEF m
    <3> QED
      BY <2>3, <2>4
  <2>6. ts' \in Nat /\ perms \subseteq perms' /\ perms' \subseteq Handles
    BY <2>1, <2>4
  <2> QED
    BY <2>1, <2>4, <2>5, <2>6
<1>8. ASSUME E!MainRemove PROVE EvalShape'
  <2> DEFINE h == Head(tq).h
  <2>1. tq' \in Seq(Tasks) /\ h \in Handles
    BY <1>6, <1>8 DEF E!MainRemove
  <2>2. UNCHANGED <<asked, nextId, pipe, wq, thread>>
    BY <1>8 DEF E!MainRemove, E!server
  <2>3. CASE h \in perms
    <3>0. remaining \in [Handles -> Nat]
      OBVIOUS
    <3>1. E!TryRemove(h, remaining, toRemove \cup {h}) /\ toRemove \cup {h} \in SUBSET perms
      BY <1>8, <2>3 DEF E!MainRemove
    <3>2. /\ remaining' = remaining /\ ts' \in Nat /\ toRemove' \subseteq perms' /\ perms' \subseteq Handles
          /\ lq' \in [Threads -> Seq(Updates)]
      <4> HIDE DEF EvalShape, h
      <4> QED
        BY <2>1, <3>0, <3>1, TryRemoveShape
    <3> QED
      BY <2>1, <2>2, <3>2
  <2>4. CASE h \notin perms
    BY <1>8, <2>1, <2>2, <2>4 DEF E!MainRemove
  <2> QED
    BY <2>3, <2>4
<1>9. ASSUME E!MainWorkDone PROVE EvalShape'
  <2> DEFINE h == Head(tq).h
  <2>1. tq' \in Seq(Tasks) /\ h \in Handles
    BY <1>6, <1>9 DEF E!MainWorkDone
  <2>2. UNCHANGED <<asked, nextId, pipe, wq, thread>>
    BY <1>9 DEF E!MainWorkDone, E!server
  <2>3. remaining[h] \in Nat \ {0}
    BY <1>6, <1>9, BackIsOut DEF E!MainWorkDone, E!Task
  <2> DEFINE rest == [remaining EXCEPT ![h] = @ - 1]
  <2>4. rest \in [Handles -> Nat]
    BY <2>1, <2>3
  <2>5. E!TryRemove(h, rest, toRemove)
    BY <1>9 DEF E!MainWorkDone
  <2> HIDE DEF h, rest
  <2>6. /\ remaining' \in [Handles -> Nat] /\ ts' \in Nat /\ toRemove' \subseteq perms' /\ perms' \subseteq Handles
        /\ lq' \in [Threads -> Seq(Updates)]
    <3>1. toRemove \in SUBSET perms
      OBVIOUS
    <3> HIDE DEF EvalShape
    <3>2. PICK r \in [Handles -> Nat] : r = rest
      BY <2>4
    <3>3. PICK g \in Handles : g = h
      BY <2>1
    <3>4. E!TryRemove(g, r, toRemove)
      BY <2>5, <3>2, <3>3
    <3>5. /\ remaining' = r /\ ts' \in Nat /\ toRemove' \subseteq perms' /\ perms' \subseteq Handles
          /\ lq' \in [Threads -> Seq(Updates)]
      BY <3>1, <3>4, TryRemoveShape
    <3> QED
      BY <3>5
  <2> QED
    BY <2>1, <2>2, <2>6
<1>10. ASSUME E!MainWork PROVE EvalShape'
  <2> DEFINE m == [h |-> Head(tq).h, id |-> Head(tq).id, ts |-> ts]
  <2>1. tq' \in Seq(Tasks) /\ Head(tq) \in Tasks /\ Head(tq).h \in Handles /\ Head(tq).type = "work"
    BY <1>6, <1>10 DEF E!MainWork, E!Task
  <2>2. m \in Items
    BY <2>1 DEF Tasks, Orders, Items
  <2>3. Append(wq, m) \in Seq(Items)
    BY <2>2, AppendFacts
  <2>4. /\ wq' = Append(wq, m) /\ remaining' = [remaining EXCEPT ![Head(tq).h] = @ + 1]
        /\ UNCHANGED <<asked, nextId, pipe, ts, toRemove, perms, lq, thread>>
    BY <1>10 DEF E!MainWork, E!server
  <2>5. remaining' \in [Handles -> Nat]
    BY <2>1, <2>4, SMTT(60)
  <2> HIDE DEF m
  <2> QED
    BY <2>1, <2>3, <2>4, <2>5
<1>11. ASSUME NEW t \in Threads, E!WorkerGet(t) PROVE EvalShape'
  BY <1>11, GetState, TailFacts DEF E!WorkerGet, E!server, E!main
<1>12. ASSUME NEW t \in Threads, E!WorkerLearn(t) PROVE EvalShape'
  <2>1. Tail(lq[t]) \in Seq(Updates)
    BY <1>12, TailFacts DEF E!WorkerLearn
  <2>2. lq' = [lq EXCEPT ![t] = Tail(@)] /\ UNCHANGED <<asked, nextId, pipe, tq, wq, ts, remaining, toRemove, perms>>
    BY <1>12 DEF E!WorkerLearn, E!server, E!main
  <2> QED
    BY <1>12, <2>1, <2>2, LearnState
<1>13. ASSUME NEW t \in Threads, E!WorkerEmpty(t) PROVE EvalShape'
  BY <1>13, EmptyState DEF E!WorkerEmpty, E!server, E!main
<1>14. ASSUME NEW t \in Threads, E!WorkerDone(t) PROVE EvalShape'
  <2>1. UNCHANGED <<asked, nextId, pipe, wq, ts, remaining, toRemove, perms, lq>>
    BY <1>14 DEF E!WorkerDone, E!server, E!main
  <2>2. CASE thread[t].job[1] \notin thread[t].perms
    BY <1>14, <2>1, <2>2 DEF E!WorkerDone
  <2>3. CASE thread[t].job[1] \in thread[t].perms
    <3>1. thread[t].job # <<>>
      BY <1>14 DEF HistoryAgrees, Agrees, WorkerAgrees, E!WorkerDone
    <3>2. [type |-> "done", h |-> thread[t].job[1], id |-> thread[t].job[2]] \in Tasks
      BY <3>1, WorkerParts DEF Tasks
    <3>3. tq' = Append(tq, [type |-> "done", h |-> thread[t].job[1], id |-> thread[t].job[2]])
      BY <1>14, <2>3 DEF E!WorkerDone
    <3> QED
      BY <1>14, <2>1, <2>3, <3>1, <3>2, <3>3, AppendFacts, DoneState
  <2> QED
    BY <2>2, <2>3
<1> QED
  BY <1>1, <1>2, <1>3, <1>4, <1>5, <1>7, <1>8, <1>9, <1>10, <1>11, <1>12, <1>13, <1>14
  DEF E!Next, E!Main, E!Worker

-----------------------------------------------------------------------------
(* The evaluator: orders are carried out in the order they are given.      *)

\* Where the evaluator's queue of tasks and the pipe change.
LEMMA OrdersMove ==
    ASSUME EvalShape, E!Next, HistoryAgrees
    PROVE  \/ \E h \in Handles : E!SendAdd(h) \/ E!SendWork(h) \/ E!SendRemove(h)
           \/ E!ReadLoop
           \/ E!Main
           \/ pipe' = pipe /\ \E m \in Tasks : m.type = "done" /\ tq' = Append(tq, m)
           \/ pipe' = pipe /\ tq' = tq
<1>1. ASSUME NEW t \in Threads, E!Worker(t)
      PROVE  \/ pipe' = pipe /\ \E m \in Tasks : m.type = "done" /\ tq' = Append(tq, m)
             \/ pipe' = pipe /\ tq' = tq
  <2>1. CASE E!WorkerGet(t)
    BY <2>1 DEF E!WorkerGet, E!server
  <2>2. CASE E!WorkerLearn(t)
    BY <2>2 DEF E!WorkerLearn, E!server
  <2>3. CASE E!WorkerEmpty(t)
    BY <2>3 DEF E!WorkerEmpty, E!server
  <2>4. CASE E!WorkerDone(t)
    <3>1. pipe' = pipe
      BY <2>4 DEF E!WorkerDone, E!server
    <3>2. thread[t].job # <<>>
      BY <2>4 DEF HistoryAgrees, Agrees, WorkerAgrees, E!WorkerDone
    <3>3. [type |-> "done", h |-> thread[t].job[1], id |-> thread[t].job[2]] \in Tasks
      BY <3>2, WorkerParts DEF Tasks, EvalShape
    <3> QED
      BY <2>4, <3>1, <3>3 DEF E!WorkerDone
  <2> QED
    BY <1>1, <2>1, <2>2, <2>3, <2>4 DEF E!Worker
<1>2. ASSUME NEW h \in Handles, E!InitAnswer(h) PROVE pipe' = pipe /\ tq' = tq
  BY <1>2 DEF E!InitAnswer
<1> QED
  BY <1>1, <1>2 DEF E!Next

LEMMA OrdersInOrderKept ==
    ASSUME EvalShape, OrdersInOrder, OrdersFit, HistoryAgrees, E!Next
    PROVE  OrdersInOrder'
<1> USE DEF EvalShape
\* A message is sent.
<1>1. ASSUME NEW m \in Orders, pipe' = Append(pipe, m), tq' = tq,
             \A i \in 1..Len(tq) : Follows(tq[i], m), \A i \in 1..Len(pipe) : Follows(pipe[i], m)
      PROVE  OrdersInOrder'
  <2>1. InOrder(Append(pipe, m))
    BY <1>1, InOrderAppend DEF OrdersInOrder
  <2>2. /\ Len(pipe) \in Nat /\ Len(Append(pipe, m)) = Len(pipe) + 1 /\ Append(pipe, m)[Len(pipe) + 1] = m
        /\ \A i \in 1..Len(pipe) : Append(pipe, m)[i] = pipe[i]
    BY AppendFacts
  <2>3. \A i \in 1..Len(tq), j \in 1..Len(Append(pipe, m)) : Follows(tq[i], Append(pipe, m)[j])
    <3> TAKE i \in 1..Len(tq), j \in 1..Len(Append(pipe, m))
    <3>1. j \in 1..Len(pipe) \/ j = Len(pipe) + 1
      BY <2>2
    <3> QED
      BY <1>1, <2>2, <3>1 DEF OrdersInOrder
  <2> QED
    BY <1>1, <2>1, <2>3 DEF OrdersInOrder
<1>2. ASSUME NEW h \in Handles, E!SendAdd(h) PROVE OrdersInOrder'
  <2> DEFINE m == [type |-> "add", h |-> h]
  <2>1. m \in Orders /\ pipe' = Append(pipe, m) /\ tq' = tq
    BY <1>2 DEF E!SendAdd, Orders
  <2>2. \A type \in {"add", "work", "remove"} : ~ Within(tq, h, type) /\ ~ Within(pipe, h, type)
    BY <1>2 DEF OrdersFit, HeldFor, Pending, E!SendAdd
  <2>3. \A i \in 1..Len(tq) : tq[i] \in Tasks
    BY AppendFacts
  <2>4. \A i \in 1..Len(pipe) : pipe[i] \in Tasks
    BY AppendFacts DEF Tasks
  <2>5. \A n \in Tasks : n.type \in {"add", "work", "remove", "done"}
    BY DEF Tasks, Orders
  <2>6. \A i \in 1..Len(tq) : Follows(tq[i], m)
    BY <2>2, <2>3, <2>5 DEF Within, Follows
  <2>7. \A i \in 1..Len(pipe) : Follows(pipe[i], m)
    BY <2>2, <2>4, <2>5 DEF Within, Follows
  <2> HIDE DEF m
  <2> QED
    BY <1>1, <2>1, <2>6, <2>7
\* What is told later only follows no removal.
<1>3. ASSUME NEW h \in Handles, NEW m \in Orders, m.h = h, m.type # "add", ~ Pending(h, "remove")
      PROVE  /\ \A i \in 1..Len(tq) : Follows(tq[i], m)
             /\ \A i \in 1..Len(pipe) : Follows(pipe[i], m)
  BY <1>3 DEF Pending, Within, Follows
<1>4. ASSUME NEW h \in Handles, E!SendWork(h) PROVE OrdersInOrder'
  <2> DEFINE m == [type |-> "work", h |-> h, id |-> nextId]
  <2>1. nextId \in Ids
    BY <1>4, ServerAssumption DEF E!SendWork, Ids
  <2>2. m \in Orders /\ pipe' = Append(pipe, m) /\ tq' = tq /\ m.h = h /\ m.type # "add"
    BY <1>4, <2>1 DEF E!SendWork, E!main, Orders
  <2>3. ~ Pending(h, "remove")
    BY <1>4 DEF OrdersFit, HeldFor, E!SendWork
  <2> HIDE DEF m
  <2> QED
    BY <1>1, <1>3, <2>2, <2>3
<1>5. ASSUME NEW h \in Handles, E!SendRemove(h) PROVE OrdersInOrder'
  <2> DEFINE m == [type |-> "remove", h |-> h]
  <2>1. m \in Orders /\ pipe' = Append(pipe, m) /\ tq' = tq /\ m.h = h /\ m.type # "add"
    BY <1>5 DEF E!SendRemove, E!main, Orders
  <2>2. ~ Pending(h, "remove")
    BY <1>5 DEF OrdersFit, HeldFor, E!SendRemove
  <2> HIDE DEF m
  <2> QED
    BY <1>1, <1>3, <2>1, <2>2
<1>6. ASSUME E!ReadLoop PROVE OrdersInOrder'
  <2>1. pipe # <<>> /\ pipe' = Tail(pipe) /\ tq' = Append(tq, Head(pipe))
    BY <1>6 DEF E!ReadLoop
  <2>2. /\ Head(pipe) \in Orders /\ Len(pipe) \in Nat \ {0} /\ Head(pipe) = pipe[1] /\ 1 \in 1..Len(pipe)
        /\ Len(Tail(pipe)) = Len(pipe) - 1
        /\ \A i \in 1..Len(Tail(pipe)) : Tail(pipe)[i] = pipe[i + 1] /\ i + 1 \in 1..Len(pipe)
    BY <2>1, TailFacts
  <2>3. Head(pipe) \in Tasks
    BY <2>2 DEF Tasks
  <2>4. InOrder(Tail(pipe)) /\ \A i \in 1..Len(Tail(pipe)) : Follows(Head(pipe), Tail(pipe)[i])
    BY <2>1, InOrderTail DEF OrdersInOrder
  <2>5. \A i \in 1..Len(tq) : Follows(tq[i], Head(pipe))
    BY <2>2 DEF OrdersInOrder
  <2>6. InOrder(Append(tq, Head(pipe)))
    BY <2>3, <2>5, InOrderAppend DEF OrdersInOrder
  <2>7. /\ Len(tq) \in Nat /\ Len(Append(tq, Head(pipe))) = Len(tq) + 1
        /\ Append(tq, Head(pipe))[Len(tq) + 1] = Head(pipe)
        /\ \A i \in 1..Len(tq) : Append(tq, Head(pipe))[i] = tq[i]
    BY <2>3, AppendFacts
  <2>8. \A i \in 1..Len(Append(tq, Head(pipe))), j \in 1..Len(Tail(pipe)) :
            Follows(Append(tq, Head(pipe))[i], Tail(pipe)[j])
    <3> TAKE i \in 1..Len(Append(tq, Head(pipe))), j \in 1..Len(Tail(pipe))
    <3>1. i \in 1..Len(tq) \/ i = Len(tq) + 1
      BY <2>7
    <3>2. CASE i \in 1..Len(tq)
      BY <2>2, <2>7, <3>2 DEF OrdersInOrder
    <3>3. CASE i = Len(tq) + 1
      BY <2>4, <2>7, <3>3
    <3> QED
      BY <3>1, <3>2, <3>3
  <2> QED
    BY <2>1, <2>4, <2>6, <2>8 DEF OrdersInOrder
<1>7. ASSUME E!Main PROVE OrdersInOrder'
  <2>1. pipe' = pipe /\ tq # <<>> /\ tq' = Tail(tq)
    BY <1>7 DEF E!Main, E!MainAdd, E!MainRemove, E!MainWorkDone, E!MainWork, E!Task, E!server
  <2>2. InOrder(Tail(tq))
    BY <2>1, InOrderTail DEF OrdersInOrder
  <2>3. \A i \in 1..Len(Tail(tq)) : Tail(tq)[i] = tq[i + 1] /\ i + 1 \in 1..Len(tq)
    BY <2>1, TailFacts
  <2> QED
    BY <2>1, <2>2, <2>3 DEF OrdersInOrder
<1>8. ASSUME pipe' = pipe, NEW m \in Tasks, m.type = "done", tq' = Append(tq, m) PROVE OrdersInOrder'
  <2>1. \A n : Follows(n, m) /\ Follows(m, n)
    BY <1>8 DEF Follows
  <2>2. InOrder(Append(tq, m))
    BY <2>1, InOrderAppend DEF OrdersInOrder
  <2>3. /\ Len(tq) \in Nat /\ Len(Append(tq, m)) = Len(tq) + 1 /\ Append(tq, m)[Len(tq) + 1] = m
        /\ \A i \in 1..Len(tq) : Append(tq, m)[i] = tq[i]
    BY AppendFacts
  <2>4. \A i \in 1..Len(Append(tq, m)), j \in 1..Len(pipe) : Follows(Append(tq, m)[i], pipe[j])
    <3> TAKE i \in 1..Len(Append(tq, m)), j \in 1..Len(pipe)
    <3>1. i \in 1..Len(tq) \/ i = Len(tq) + 1
      BY <2>3
    <3> QED
      BY <2>1, <2>3, <3>1 DEF OrdersInOrder
  <2> QED
    BY <1>8, <2>2, <2>4 DEF OrdersInOrder
<1>9. ASSUME pipe' = pipe, tq' = tq PROVE OrdersInOrder'
  BY <1>9 DEF OrdersInOrder
<1> QED
  BY <1>2, <1>4, <1>5, <1>6, <1>7, <1>8, <1>9, OrdersMove

-----------------------------------------------------------------------------
(* The evaluator: orders fit what it has.                                  *)

\* A step of the main loop takes one order: fewer are pending, and of a permuter that
\* comes or goes there is no second order of that kind.
LEMMA TaskTaken ==
    ASSUME EvalShape, OrdersInOrder, NEW type, E!Task(type), pipe' = pipe
    PROVE  /\ \A h, k : Pending(h, k)' => Pending(h, k)
           /\ Head(tq) \in Tasks /\ Head(tq).h \in Handles /\ Head(tq).type = type /\ Pending(Head(tq).h, type)
           /\ \A h \in Handles : h = Head(tq).h =>
                 /\ type = "add" => ~ Pending(h, "add")'
                 /\ type = "remove" => ~ Pending(h, "work")'
<1> USE DEF EvalShape
<1>1. tq # <<>> /\ tq' = Tail(tq) /\ Head(tq).type = type
  BY DEF E!Task
<1>2. Head(tq) \in Tasks
  BY <1>1, TailFacts
<1>3. \A h, k : Within(tq, h, k) <=> Within(Tail(tq), h, k) \/ (Head(tq).h = h /\ Head(tq).type = k)
  BY <1>1, WithinTail
<1>4. \A i \in 1..Len(Tail(tq)) : Follows(Head(tq), Tail(tq)[i])
  BY <1>1, InOrderTail DEF OrdersInOrder
<1>5. \A i \in 1..Len(pipe) : Follows(Head(tq), pipe[i])
  <2>1. Head(tq) = tq[1] /\ Len(tq) \in Nat \ {0}
    BY <1>1, TailFacts
  <2>2. 1 \in 1..Len(tq)
    BY <2>1
  <2> QED
    BY <2>1, <2>2 DEF OrdersInOrder
<1>6. ASSUME NEW k \in {"add", "work"}, type = "remove" \/ (type = "add" /\ k = "add")
      PROVE  ~ Within(Tail(tq), Head(tq).h, k) /\ ~ Within(pipe, Head(tq).h, k)
  BY <1>1, <1>4, <1>5, <1>6 DEF Within, Follows
<1>7. Head(tq).h \in Handles
  BY <1>2 DEF Tasks, Orders
<1>8. \A h, k : Pending(h, k)' => Pending(h, k)
  BY <1>1, <1>3 DEF Pending
<1>9. Pending(Head(tq).h, type)
  BY <1>1, <1>3 DEF Pending
<1>10. ASSUME NEW h \in Handles, h = Head(tq).h
       PROVE  /\ type = "add" => ~ Pending(h, "add")'
              /\ type = "remove" => ~ Pending(h, "work")'
  <2>1. \A k : Pending(h, k)' <=> Within(Tail(tq), h, k) \/ Within(pipe, h, k)
    BY <1>1 DEF Pending
  <2> QED
    BY <1>6, <1>10, <2>1
<1> QED
  BY <1>1, <1>2, <1>7, <1>8, <1>9, <1>10

LEMMA OrdersFitKept ==
    ASSUME EvalShape, OrdersInOrder, OrdersFit, HistoryAgrees, E!WorkCounted, E!Next
    PROVE  OrdersFit'
<1> USE DEF EvalShape
<1>1. ASSUME NEW m \in Orders, pipe' = Append(pipe, m), tq' = tq
      PROVE  \A h, k : Pending(h, k)' <=> Pending(h, k) \/ (m.h = h /\ m.type = k)
  BY <1>1, WithinAppend DEF Pending
<1>2. ASSUME NEW g \in Handles, E!SendAdd(g) PROVE OrdersFit'
  <2> DEFINE m == [type |-> "add", h |-> g]
  <2>1. m \in Orders /\ m.h = g /\ m.type = "add"
    BY DEF Orders
  <2>2. \A h, k : Pending(h, k)' <=> Pending(h, k) \/ (g = h /\ k = "add")
    BY <1>1, <1>2, <2>1 DEF E!SendAdd
  <2>3. /\ asked' = [asked EXCEPT ![g] = "added"] /\ UNCHANGED <<sent, perms, toRemove>> /\ asked[g] = "new"
    BY <1>2 DEF E!SendAdd, E!main
  <2> QED
    BY <2>2, <2>3 DEF OrdersFit, HeldFor, Built, Refused
<1>3. ASSUME NEW g \in Handles, E!InitAnswer(g) PROVE OrdersFit'
  <2>1. UNCHANGED <<tq, pipe, sent, perms, toRemove>>
    BY <1>3 DEF E!InitAnswer, E!main
  <2>2. \A h, k : Pending(h, k)' <=> Pending(h, k)
    BY <2>1 DEF Pending
  <2>3. /\ asked[g] = "added"
        /\ \/ Built(g) /\ asked' = [asked EXCEPT ![g] = "ready"]
           \/ asked' = [asked EXCEPT ![g] = "removed"] /\ Refused(g)
    BY <1>3 DEF E!InitAnswer, Built, Refused
  <2> QED
    BY <2>1, <2>2, <2>3, ZenonT(60) DEF OrdersFit, HeldFor, Built, Refused
<1>4. ASSUME NEW g \in Handles, E!SendWork(g) PROVE OrdersFit'
  <2> DEFINE m == [type |-> "work", h |-> g, id |-> nextId]
  <2>1. m \in Orders /\ m.h = g /\ m.type = "work"
    BY <1>4, ServerAssumption DEF E!SendWork, Ids, Orders
  <2>2. \A h, k : Pending(h, k)' <=> Pending(h, k) \/ (g = h /\ k = "work")
    BY <1>1, <1>4, <2>1 DEF E!SendWork
  <2>3. UNCHANGED <<asked, sent, perms, toRemove>> /\ asked[g] = "ready"
    BY <1>4 DEF E!SendWork, E!main
  <2> QED
    BY <2>2, <2>3 DEF OrdersFit, HeldFor, Built, Refused
<1>5. ASSUME NEW g \in Handles, E!SendRemove(g) PROVE OrdersFit'
  <2> DEFINE m == [type |-> "remove", h |-> g]
  <2>1. m \in Orders /\ m.h = g /\ m.type = "remove"
    BY DEF Orders
  <2>2. \A h, k : Pending(h, k)' <=> Pending(h, k) \/ (g = h /\ k = "remove")
    BY <1>1, <1>5, <2>1 DEF E!SendRemove
  <2>3. /\ UNCHANGED <<sent, perms, toRemove>> /\ asked[g] \in {"added", "ready"}
        /\ asked' = [asked EXCEPT ![g] = "removed"]
    BY <1>5 DEF E!SendRemove, E!main
  <2> QED
    BY <2>2, <2>3 DEF OrdersFit, HeldFor, Built, Refused
<1>6. ASSUME E!ReadLoop PROVE OrdersFit'
  <2>1. pipe # <<>> /\ pipe' = Tail(pipe) /\ tq' = Append(tq, Head(pipe)) /\ UNCHANGED <<asked, sent, perms, toRemove>>
    BY <1>6 DEF E!ReadLoop, E!main
  <2>2. Head(pipe) \in Tasks
    BY <2>1, TailFacts DEF Tasks
  <2>3. \A h, k : Within(Append(tq, Head(pipe)), h, k) <=> Within(tq, h, k) \/ (Head(pipe).h = h /\ Head(pipe).type = k)
    BY <2>2, WithinAppend
  <2>4. \A h, k : Within(pipe, h, k) <=> Within(Tail(pipe), h, k) \/ (Head(pipe).h = h /\ Head(pipe).type = k)
    BY <2>1, WithinTail
  <2>5. \A h, k : Pending(h, k)' <=> Pending(h, k)
    BY <2>1, <2>3, <2>4 DEF Pending
  <2> QED
    BY <2>1, <2>5 DEF OrdersFit, HeldFor, Built, Refused
<1>7. ASSUME E!MainAdd PROVE OrdersFit'
  <2>1. E!Task("add") /\ UNCHANGED <<asked, pipe, toRemove>>
    BY <1>7 DEF E!MainAdd, E!server
  <2>0. PICK g \in Handles : g = Head(tq).h
    BY <2>1, TaskTaken
  <2>2. PICK ok \in BOOLEAN : sent' = sent \cup {<<"init", g, ok>>} /\ perms' = IF ok THEN perms \cup {g} ELSE perms
    BY <1>7, <2>0 DEF E!MainAdd
  <2>3. /\ \A h, k : Pending(h, k)' => Pending(h, k)
        /\ Pending(g, "add") /\ ~ Pending(g, "add")'
    BY <2>0, <2>1, TaskTaken
  <2>4. /\ \A h \in Handles : h # g => (Built(h)' <=> Built(h)) /\ (Refused(h)' <=> Refused(h))
        /\ Built(g)' => Built(g) \/ g \in perms'
        /\ Built(g) => Built(g)'
    <3>1. CASE ok
      BY <2>2, <3>1 DEF Built, Refused
    <3>2. CASE ~ ok
      BY <2>2, <3>2 DEF Built, Refused
    <3> QED
      BY <3>1, <3>2
  <2>5. perms \subseteq perms' /\ \A h \in Handles : h \in perms' => h \in perms \/ h = g
    BY <2>2
  <2>6. asked[g] # "new" /\ ~ Built(g) /\ ~ Refused(g)
    BY <2>3 DEF OrdersFit, HeldFor
  <2>7. HeldFor(g)'
    BY <2>1, <2>3, <2>4, <2>5, <2>6 DEF OrdersFit, HeldFor
  <2>8. ASSUME NEW h \in Handles, h # g PROVE HeldFor(h)'
    BY <2>1, <2>3, <2>4, <2>5, <2>8 DEF OrdersFit, HeldFor
  <2> QED
    BY <2>7, <2>8 DEF OrdersFit
<1>8. ASSUME NEW g \in Handles, NEW k \in {"remove", "done"}, \A h, kk : Pending(h, kk)' => Pending(h, kk),
             k = "remove" => Pending(g, "remove") /\ ~ Pending(g, "work")',
             UNCHANGED asked, \A h \in Handles : (Built(h)' <=> Built(h)) /\ (Refused(h)' <=> Refused(h)),
             \/ toRemove' = toRemove /\ perms' = perms
             \/ toRemove' = toRemove \cup {g} /\ perms' = perms /\ k = "remove"
             \/ toRemove' \subseteq toRemove \cup {g} /\ perms' = perms \ {g} /\ (k = "remove" \/ g \in toRemove)
      PROVE  OrdersFit'
  BY <1>8 DEF OrdersFit, HeldFor
<1>9. ASSUME E!MainRemove PROVE OrdersFit'
  <2>1. E!Task("remove") /\ UNCHANGED <<asked, pipe, sent>>
    BY <1>9 DEF E!MainRemove, E!server
  <2>0. PICK g \in Handles : g = Head(tq).h
    BY <2>1, TaskTaken
  <2>2. /\ \A h, kk : Pending(h, kk)' => Pending(h, kk)
        /\ Pending(g, "remove") /\ ~ Pending(g, "work")'
    BY <2>0, <2>1, TaskTaken
  <2>3. CASE g \notin perms
    <3>1. toRemove' = toRemove /\ perms' = perms
      BY <1>9, <2>0, <2>3 DEF E!MainRemove
    <3> QED
      BY <1>8, <2>1, <2>2, <3>1 DEF Built, Refused
  <2>4. CASE g \in perms
    <3>1. E!TryRemove(g, remaining, toRemove \cup {g}) /\ toRemove \cup {g} \in SUBSET perms
      BY <1>9, <2>0, <2>4 DEF E!MainRemove
    <3>0. remaining \in [Handles -> Nat]
      OBVIOUS
    <3> HIDE DEF EvalShape
    <3>2. \/ toRemove' = toRemove \cup {g} /\ perms' = perms
          \/ toRemove' = (toRemove \cup {g}) \ {g} /\ perms' = perms \ {g}
      BY <3>0, <3>1, TryRemoveShape, ZenonT(60)
    <3>3. \/ toRemove' = toRemove \cup {g} /\ perms' = perms
          \/ toRemove' \subseteq toRemove \cup {g} /\ perms' = perms \ {g}
      BY <3>2
    <3> QED
      BY <1>8, <2>1, <2>2, <3>3 DEF Built, Refused
  <2> QED
    BY <2>3, <2>4
<1>10. ASSUME E!MainWorkDone PROVE OrdersFit'
  <2>1. E!Task("done") /\ UNCHANGED <<asked, pipe>> /\ sent' = sent \cup {<<"result", Head(tq).h, Head(tq).id>>}
    BY <1>10 DEF E!MainWorkDone, E!server
  <2>0. PICK g \in Handles : g = Head(tq).h
    BY <2>1, TaskTaken
  <2> DEFINE rest == [remaining EXCEPT ![g] = @ - 1]
  <2>2. \A h, kk : Pending(h, kk)' => Pending(h, kk)
    BY <2>1, TaskTaken
  <2>3. \A h \in Handles : (Built(h)' <=> Built(h)) /\ (Refused(h)' <=> Refused(h))
    BY <2>1 DEF Built, Refused
  <2>4. rest \in [Handles -> Nat]
    BY <2>0, <2>1, BackIsOut, SMTT(60) DEF E!Task
  <2>5. E!TryRemove(g, rest, toRemove)
    BY <1>10, <2>0 DEF E!MainWorkDone
  <2>6. toRemove \in SUBSET perms
    OBVIOUS
  <2> HIDE DEF EvalShape, rest
  <2>7. PICK r \in [Handles -> Nat] : r = rest
    BY <2>4
  <2>8. E!TryRemove(g, r, toRemove)
    BY <2>5, <2>7
  <2>9. \/ toRemove' = toRemove /\ perms' = perms
        \/ toRemove' = toRemove \ {g} /\ perms' = perms \ {g} /\ g \in toRemove
    BY <2>6, <2>8, TryRemoveShape, ZenonT(60)
  <2>10. toRemove \ {g} \subseteq toRemove \cup {g}
    OBVIOUS
  <2> QED
    BY <1>8, <2>1, <2>2, <2>3, <2>9, <2>10
<1>11. ASSUME E!MainWork PROVE OrdersFit'
  <2>1. E!Task("work") /\ UNCHANGED <<asked, pipe, sent, perms, toRemove>>
    BY <1>11 DEF E!MainWork, E!server
  <2>2. (\A h, kk : Pending(h, kk)' => Pending(h, kk)) /\ Head(tq).h \in Handles
    BY <2>1, TaskTaken
  <2> QED
    BY <1>8, <2>1, <2>2 DEF Built, Refused
<1>12. ASSUME NEW t \in Threads, E!Worker(t) PROVE OrdersFit'
  <2>1. UNCHANGED <<asked, sent, perms, toRemove>>
    BY <1>12 DEF E!Worker, E!WorkerGet, E!WorkerLearn, E!WorkerEmpty, E!WorkerDone, E!server, E!main
  <2>2. \/ pipe' = pipe /\ tq' = tq
        \/ pipe' = pipe /\ \E m \in Tasks : m.type = "done" /\ tq' = Append(tq, m)
    <3>1. CASE E!WorkerDone(t)
      <4>1. thread[t].job # <<>>
        BY <3>1 DEF HistoryAgrees, Agrees, WorkerAgrees, E!WorkerDone
      <4>2. [type |-> "done", h |-> thread[t].job[1], id |-> thread[t].job[2]] \in Tasks
        BY <4>1, WorkerParts DEF Tasks
      <4> QED
        BY <3>1, <4>2 DEF E!WorkerDone, E!server
    <3> QED
      BY <1>12, <3>1 DEF E!Worker, E!WorkerGet, E!WorkerLearn, E!WorkerEmpty, E!server
  <2>3. \A h : \A k \in {"add", "work", "remove"} : Pending(h, k)' <=> Pending(h, k)
    <3>1. CASE pipe' = pipe /\ tq' = tq
      BY <3>1 DEF Pending
    <3>2. ASSUME pipe' = pipe, NEW m \in Tasks, m.type = "done", tq' = Append(tq, m)
          PROVE  \A h : \A k \in {"add", "work", "remove"} : Pending(h, k)' <=> Pending(h, k)
      <4>1. \A h, k : Within(Append(tq, m), h, k) <=> Within(tq, h, k) \/ (m.h = h /\ m.type = k)
        BY WithinAppend, SMTT(60)
      <4> QED
        BY <3>2, <4>1 DEF Pending
    <3> QED
      BY <2>2, <3>1, <3>2
  <2> QED
    BY <2>1, <2>3 DEF OrdersFit, HeldFor, Built, Refused
<1> QED
  BY <1>2, <1>3, <1>4, <1>5, <1>6, <1>7, <1>9, <1>10, <1>11, <1>12 DEF E!Next, E!Main

-----------------------------------------------------------------------------
(* The evaluator: the workers follow the main loop's history.              *)

LEMMA WorkerUnmoved ==
    ASSUME NEW past, NEW t \in Threads, WorkerAgrees(past, t),
           ts' = ts, thread'[t] = thread[t], lq'[t] = lq[t]
    PROVE  WorkerAgrees(past, t)'
BY DEF WorkerAgrees, Records, HeldSince

\* The main loop tells the workers of a permuter that has come or gone, and with which
\* no work is out.
LEMMA HistoryGrows ==
    ASSUME EvalShape, NEW past \in [0..ts -> SUBSET Handles], Agrees(past),
           NEW h \in Handles, NEW type \in {"add", "remove"},
           thread' = thread, wq' = wq, ts' = ts + 1,
           lq' = [t \in Threads |-> Append(lq[t], [type |-> type, h |-> h, ts |-> ts + 1])],
           type = "add" => h \notin perms /\ perms' = perms \cup {h},
           type = "remove" => h \in perms /\ perms' = perms \ {h},
           \A i \in 1..Len(wq) : wq[i].h # h,
           \A t \in Threads : thread[t].job # <<>> => thread[t].job[1] # h
    PROVE  HistoryAgrees'
<1> DEFINE m == [type |-> type, h |-> h, ts |-> ts + 1]
<1>1. m \in Updates /\ ts \in Nat /\ m.type = type /\ m.h = h /\ m.ts = ts + 1
  BY DEF EvalShape, Updates
<1>2. perms' \subseteq Handles
  BY DEF EvalShape
<1>3. PICK new \in [0..ts + 1 -> SUBSET Handles] : new = [i \in 0..ts + 1 |-> IF i = ts + 1 THEN perms' ELSE past[i]]
  <2>1. \A i \in 0..ts + 1 : i # ts + 1 => i \in 0..ts
    BY <1>1
  <2> QED
    BY <1>2, <2>1
<1>4. new[ts + 1] = perms' /\ \A i \in 0..ts : new[i] = past[i]
  BY <1>1, <1>3
<1>5. past[ts] = perms
  BY DEF Agrees
<1>6. Records(new, ts + 1, m)
  <2>1. ts + 1 \in 1..ts + 1 /\ m.ts - 1 = ts /\ new[ts] = perms
    BY <1>1, <1>4, <1>5
  <2> QED
    BY <1>1, <1>4, <2>1 DEF Records
<1>7. ASSUME NEW n, Records(past, ts, n) PROVE Records(new, ts + 1, n)
  <2>1. n.ts \in 1..ts + 1 /\ n.ts \in 0..ts /\ n.ts - 1 \in 0..ts
    BY <1>1, <1>7 DEF Records
  <2> QED
    BY <1>4, <1>7, <2>1 DEF Records
<1>8. ASSUME NEW g, g # h, NEW n, HeldSince(past, ts, g, n) PROVE HeldSince(new, ts + 1, g, n)
  <2>1. n \in 0..ts + 1 /\ n \in 0..ts /\ ts \in n..ts
    BY <1>1, <1>8 DEF HeldSince
  <2>2. g \in perms'
    BY <1>5, <1>8, <2>1 DEF HeldSince
  <2>3. ASSUME NEW k \in n..ts + 1 PROVE k = ts + 1 \/ (k \in n..ts /\ k \in 0..ts)
    BY <1>1, <2>1
  <2> QED
    BY <1>4, <1>8, <2>1, <2>2, <2>3 DEF HeldSince
<1>9. ASSUME NEW t \in Threads PROVE WorkerAgrees(new, t)'
  <2>1. WorkerAgrees(past, t)
    BY DEF Agrees
  <2>2. lq[t] \in Seq(Updates) /\ lq'[t] = Append(lq[t], m)
    BY DEF EvalShape
  <2> HIDE DEF m
  <2>3. /\ Len(lq[t]) \in Nat /\ Len(lq'[t]) = Len(lq[t]) + 1
        /\ \A i \in 1..Len(lq[t]) : lq'[t][i] = lq[t][i]
        /\ lq'[t][Len(lq[t]) + 1] = m
    BY <1>1, <2>2, AppendFacts
  <2>4. thread'[t] = thread[t] /\ thread[t].ts \in 0..ts /\ thread[t].need \in 0..ts' /\ thread[t].ts \in 0..ts'
    BY <1>1, <2>1 DEF WorkerAgrees
  <2>5. thread[t].perms = new[thread[t].ts]
    BY <1>4, <2>1, <2>4 DEF WorkerAgrees
  <2>6. Len(lq'[t]) = ts' - thread[t].ts /\ Len(lq[t]) = ts - thread[t].ts
    BY <1>1, <2>1, <2>3, <2>4, SMTT(60) DEF WorkerAgrees
  <2>7. \A i \in 1..Len(lq'[t]) : lq'[t][i].ts = thread[t].ts + i /\ Records(new, ts + 1, lq'[t][i])
    <3>1. \A i \in 1..Len(lq[t]) : lq[t][i].ts = thread[t].ts + i /\ Records(past, ts, lq[t][i])
      BY <2>1 DEF WorkerAgrees
    <3>2. \A i \in 1..Len(lq'[t]) : i \in 1..Len(lq[t]) \/ i = Len(lq[t]) + 1
      BY <2>3
    <3>3. m.ts = thread[t].ts + (Len(lq[t]) + 1)
      BY <1>1, <2>4, <2>6
    <3> QED
      BY <1>6, <1>7, <2>3, <3>1, <3>2, <3>3
  <2>8. thread[t].job # <<>> => HeldSince(new, ts + 1, thread[t].job[1], thread[t].need)
    BY <1>8, <2>1 DEF WorkerAgrees
  <2> QED
    BY <2>1, <2>4, <2>5, <2>6, <2>7, <2>8 DEF WorkerAgrees
<1>10. \A i \in 1..Len(wq) : HeldSince(new, ts + 1, wq[i].h, wq[i].ts)
  BY <1>8 DEF Agrees
<1>11. Agrees(new)'
  BY <1>4, <1>9, <1>10 DEF Agrees
<1> QED
  BY <1>3, <1>11 DEF HistoryAgrees

LEMMA IdleFacts ==
    ASSUME EvalShape, NEW h \in Handles, Queued(h) = 0, InHand(h) = 0
    PROVE  /\ \A i \in 1..Len(wq) : wq[i].h # h
           /\ \A t \in Threads : thread[t].job # <<>> => thread[t].job[1] # h
<1>1. ASSUME NEW i \in 1..Len(wq) PROVE wq[i].h # h
  <2>1. wq[i] \notin ItemsOf(h)
    BY HowManyNone DEF Queued, EvalShape
  <2>2. wq[i] \in Items
    BY AppendFacts DEF EvalShape
  <2> QED
    BY <2>1, <2>2 DEF Items, ItemsOf
<1>2. Busy(h) = {}
  BY OutParts, FS_EmptySet DEF InHand
<1> QED
  BY <1>1, <1>2 DEF Busy

LEMMA BackCounted ==
    ASSUME EvalShape, tq # <<>>, Head(tq).type = "done", NEW h \in Handles, h = Head(tq).h
    PROVE  Back(h) \in Nat \ {0}
<1>1. Head(tq) \in Tasks /\ Head(tq) = tq[1] /\ Len(tq) \in Nat \ {0}
  BY TailFacts DEF EvalShape
<1>2. Head(tq) \in DonesOf(h) /\ 1 \in 1..Len(tq)
  BY <1>1 DEF Tasks, Orders, DonesOf
<1>3. Back(h) # 0
  BY <1>1, <1>2, HowManyNone DEF Back, EvalShape
<1> QED
  BY <1>3, OutParts

\* A permuter is dropped when no work of it is out.
LEMMA RemoveGrows ==
    ASSUME EvalShape, HistoryAgrees, E!WorkCounted,
           NEW h \in Handles, NEW rest \in [Handles -> Nat], NEW rem \in SUBSET perms,
           E!TryRemove(h, rest, rem), thread' = thread, wq' = wq,
           rest[h] = 0 => Queued(h) = 0 /\ InHand(h) = 0
    PROVE  HistoryAgrees'
<1>1. CASE h \notin rem \/ rest[h] # 0
  <2>1. perms' = perms /\ ts' = ts /\ lq' = lq
    BY <1>1, TryRemoveShape
  <2> QED
    BY <2>1, ZenonT(60) DEF HistoryAgrees, Agrees, WorkerAgrees
<1>2. CASE h \in rem /\ rest[h] = 0
  <2>1. /\ perms' = perms \ {h} /\ ts' = ts + 1
        /\ lq' = [t \in Threads |-> Append(lq[t], [type |-> "remove", h |-> h, ts |-> ts + 1])]
    BY <1>2, TryRemoveShape
  <2>2. /\ \A i \in 1..Len(wq) : wq[i].h # h
        /\ \A t \in Threads : thread[t].job # <<>> => thread[t].job[1] # h
    BY <1>2, IdleFacts
  <2>3. PICK past \in [0..ts -> SUBSET Handles] : Agrees(past)
    BY DEF HistoryAgrees
  <2>4. PICK type \in {"add", "remove"} : type = "remove"
    OBVIOUS
  <2>5. lq' = [t \in Threads |-> Append(lq[t], [type |-> type, h |-> h, ts |-> ts + 1])] /\ h \in perms
    BY <1>2, <2>1, <2>4
  <2>6. (type = "add" => h \notin perms /\ perms' = perms \cup {h}) /\ (type = "remove" => h \in perms /\ perms' = perms \ {h})
    BY <2>1, <2>4, <2>5
  <2> QED
    BY <2>1, <2>2, <2>3, <2>5, <2>6, HistoryGrows
<1> QED
  BY <1>1, <1>2

LEMMA HistoryAgreesKept ==
    ASSUME EvalShape, OrdersInOrder, OrdersFit, HistoryAgrees, E!WorkCounted, E!NothingFails, E!Next
    PROVE  HistoryAgrees'
<1> PICK past \in [0..ts -> SUBSET Handles] : Agrees(past)
  BY DEF HistoryAgrees
<1>0. ASSUME NEW g, NEW n, HeldSince(past, ts, g, n) PROVE g \in perms
  <2>1. ts \in n..ts
    BY <1>0 DEF HeldSince, EvalShape
  <2> QED
    BY <1>0, <2>1 DEF HeldSince, Agrees
<1>1. ASSUME UNCHANGED <<ts, perms, thread, lq, wq>> PROVE HistoryAgrees'
  BY <1>1, ZenonT(60) DEF HistoryAgrees, Agrees, WorkerAgrees
<1>2. ASSUME NEW h \in Handles, E!SendAdd(h) \/ E!InitAnswer(h) \/ E!SendWork(h) \/ E!SendRemove(h)
      PROVE  HistoryAgrees'
  <2>1. UNCHANGED <<ts, perms, thread, lq, wq>>
    BY <1>2 DEF E!SendAdd, E!InitAnswer, E!SendWork, E!SendRemove, E!main
  <2> QED
    BY <1>1, <2>1
<1>3. ASSUME E!ReadLoop PROVE HistoryAgrees'
  <2>1. UNCHANGED <<ts, perms, thread, lq, wq>>
    BY <1>3 DEF E!ReadLoop, E!main
  <2> QED
    BY <1>1, <2>1
<1>4. ASSUME E!MainAdd PROVE HistoryAgrees'
  <2>1. E!Task("add") /\ UNCHANGED <<wq, thread>> /\ pipe' = pipe
    BY <1>4 DEF E!MainAdd, E!server
  <2>2. PICK h \in Handles : h = Head(tq).h
    BY <2>1, TaskTaken
  <2>3. h \notin perms
    BY <2>1, <2>2, TaskTaken DEF OrdersFit, HeldFor
  <2>4. CASE UNCHANGED <<perms, ts, lq>>
    BY <1>1, <2>1, <2>4
  <2>5. CASE /\ perms' = perms \cup {h} /\ ts' = ts + 1
             /\ lq' = [t \in Threads |-> Append(lq[t], [type |-> "add", h |-> h, ts |-> ts + 1])]
    <3>1. \A i \in 1..Len(wq) : wq[i].h # h
      BY <1>0, <2>3 DEF Agrees
    <3>2. \A t \in Threads : thread[t].job # <<>> => thread[t].job[1] # h
      BY <1>0, <2>3 DEF Agrees, WorkerAgrees
    <3>3. PICK type \in {"add", "remove"} : type = "add"
      OBVIOUS
    <3>4. lq' = [t \in Threads |-> Append(lq[t], [type |-> type, h |-> h, ts |-> ts + 1])]
      BY <2>5, <3>3
    <3>5. (type = "add" => h \notin perms /\ perms' = perms \cup {h}) /\ (type = "remove" => h \in perms /\ perms' = perms \ {h})
      BY <2>3, <2>5, <3>3
    <3> QED
      BY <2>1, <2>5, <3>1, <3>2, <3>4, <3>5, HistoryGrows
  <2> QED
    BY <1>4, <2>2, <2>4, <2>5 DEF E!MainAdd, E!Tell
<1>5. ASSUME E!MainRemove PROVE HistoryAgrees'
  <2>1. E!Task("remove") /\ UNCHANGED <<wq, thread>> /\ pipe' = pipe
    BY <1>5 DEF E!MainRemove, E!server
  <2>2. PICK h \in Handles : h = Head(tq).h
    BY <2>1, TaskTaken
  <2>3. CASE h \notin perms
    BY <1>1, <1>5, <2>1, <2>2, <2>3 DEF E!MainRemove
  <2>4. CASE h \in perms
    <3>1. E!TryRemove(h, remaining, toRemove \cup {h})
      BY <1>5, <2>2, <2>4 DEF E!MainRemove
    <3>2. remaining \in [Handles -> Nat] /\ toRemove \cup {h} \in SUBSET perms
      BY <2>4 DEF EvalShape
    <3>3. remaining[h] = 0 => Queued(h) = 0 /\ InHand(h) = 0
      BY OutParts DEF E!WorkCounted
    <3> QED
      BY <2>1, <3>1, <3>2, <3>3, RemoveGrows
  <2> QED
    BY <2>3, <2>4
<1>6. ASSUME E!MainWorkDone PROVE HistoryAgrees'
  <2>1. E!Task("done") /\ UNCHANGED <<wq, thread>> /\ pipe' = pipe
    BY <1>6 DEF E!MainWorkDone, E!server
  <2>2. PICK h \in Handles : h = Head(tq).h
    BY <2>1, TaskTaken
  <2>3. remaining[h] \in Nat \ {0} /\ Back(h) \in Nat \ {0}
    BY <2>1, <2>2, BackIsOut, BackCounted DEF E!Task
  <2>4. PICK rest \in [Handles -> Nat] : rest = [remaining EXCEPT ![h] = @ - 1]
    <3>1. remaining[h] - 1 \in Nat
      BY <2>3
    <3> QED
      BY <3>1 DEF EvalShape
  <2>5. E!TryRemove(h, rest, toRemove) /\ toRemove \in SUBSET perms
    BY <1>6, <2>2, <2>4 DEF E!MainWorkDone, EvalShape
  <2>6. rest[h] = remaining[h] - 1
    BY <2>4 DEF EvalShape
  <2>7. remaining[h] = Queued(h) + InHand(h) + Back(h) /\ Queued(h) \in Nat /\ InHand(h) \in Nat
    BY OutParts DEF E!WorkCounted
  <2>8. rest[h] = 0 => Queued(h) = 0 /\ InHand(h) = 0
    BY <2>3, <2>6, <2>7
  <2> QED
    BY <2>1, <2>5, <2>8, RemoveGrows
<1>7. ASSUME E!MainWork PROVE HistoryAgrees'
  <2>1. E!Task("work") /\ UNCHANGED <<ts, perms, thread, lq>> /\ pipe' = pipe
    BY <1>7 DEF E!MainWork, E!server
  <2> DEFINE m == [h |-> Head(tq).h, id |-> Head(tq).id, ts |-> ts]
  <2>2. Head(tq) \in Tasks /\ Head(tq).h \in Handles /\ Head(tq).type = "work" /\ Head(tq).h \in perms
    BY <2>1, TaskTaken DEF OrdersFit, HeldFor
  <2>3. m \in Items /\ m.h \in perms /\ m.ts = ts /\ wq' = Append(wq, m)
    BY <1>7, <2>2 DEF E!MainWork, Tasks, Orders, Items, EvalShape
  <2> HIDE DEF m
  <2>4. /\ Len(wq) \in Nat /\ Len(wq') = Len(wq) + 1 /\ wq'[Len(wq) + 1] = m
        /\ \A i \in 1..Len(wq) : wq'[i] = wq[i]
    BY <2>3, AppendFacts DEF EvalShape
  <2>5. HeldSince(past, ts, m.h, m.ts)
    BY <2>3 DEF HeldSince, Agrees, EvalShape
  <2>6. \A i \in 1..Len(wq') : HeldSince(past, ts, wq'[i].h, wq'[i].ts)
    <3> TAKE i \in 1..Len(wq')
    <3>1. i \in 1..Len(wq) \/ i = Len(wq) + 1
      BY <2>4
    <3> QED
      BY <2>4, <2>5, <3>1 DEF Agrees
  <2>7. \A t \in Threads : WorkerAgrees(past, t)'
    BY <2>1, WorkerUnmoved DEF Agrees
  <2>8. Agrees(past)'
    BY <2>1, <2>6, <2>7 DEF Agrees
  <2> QED
    BY <2>1, <2>8 DEF HistoryAgrees
\* A worker's step is its own.
<1>8. ASSUME UNCHANGED <<ts, perms>>, NEW t \in Threads, WorkerAgrees(past, t)',
             \A u \in Threads : u # t => thread'[u] = thread[u] /\ lq'[u] = lq[u],
             \A i \in 1..Len(wq') : HeldSince(past, ts, wq'[i].h, wq'[i].ts)
      PROVE  HistoryAgrees'
  <2>1. \A u \in Threads : WorkerAgrees(past, u)'
    BY <1>8, WorkerUnmoved DEF Agrees
  <2>2. Agrees(past)'
    BY <1>8, <2>1 DEF Agrees
  <2> QED
    BY <1>8, <2>2 DEF HistoryAgrees
<1>9. ASSUME NEW t \in Threads, E!WorkerGet(t) PROVE HistoryAgrees'
  <2>1. wq # <<>> /\ wq' = Tail(wq) /\ UNCHANGED <<ts, perms, lq>> /\ thread[t].pc = "get"
    BY <1>9 DEF E!WorkerGet, E!main
  <2>2. /\ Head(wq) = wq[1] /\ 1 \in 1..Len(wq)
        /\ \A i \in 1..Len(Tail(wq)) : Tail(wq)[i] = wq[i + 1] /\ i + 1 \in 1..Len(wq)
    BY <2>1, TailFacts DEF EvalShape
  <2>3. \A i \in 1..Len(wq') : HeldSince(past, ts, wq'[i].h, wq'[i].ts)
    BY <2>1, <2>2 DEF Agrees
  <2>4. /\ thread'[t].pc = "catch_up" /\ thread'[t].ts = thread[t].ts /\ thread'[t].perms = thread[t].perms
        /\ thread'[t].job = <<Head(wq).h, Head(wq).id>> /\ thread'[t].need = Head(wq).ts
        /\ \A u \in Threads : u # t => thread'[u] = thread[u]
    BY <1>9, GetState DEF EvalShape
  <2>5. HeldSince(past, ts, Head(wq).h, Head(wq).ts) /\ Head(wq).ts \in 0..ts
    BY <2>2 DEF Agrees, HeldSince
  <2>6. thread'[t].job # <<>> /\ thread'[t].job[1] = Head(wq).h
    BY <2>4
  <2>7. WorkerAgrees(past, t)'
    <3>1. WorkerAgrees(past, t)
      BY DEF Agrees
    <3> QED
      BY <2>1, <2>4, <2>5, <2>6, <3>1 DEF WorkerAgrees
  <2> QED
    BY <1>8, <2>1, <2>3, <2>4, <2>7
<1>10. ASSUME NEW t \in Threads, E!WorkerLearn(t) PROVE HistoryAgrees'
  <2>1. lq[t] # <<>> /\ lq' = [lq EXCEPT ![t] = Tail(@)] /\ UNCHANGED <<ts, perms, wq>>
    BY <1>10 DEF E!WorkerLearn, E!main
  <2>2. lq'[t] = Tail(lq[t]) /\ \A u \in Threads : u # t => lq'[u] = lq[u]
    BY <2>1 DEF EvalShape
  <2>3. /\ Head(lq[t]) = lq[t][1] /\ 1 \in 1..Len(lq[t]) /\ Len(lq[t]) \in Nat \ {0} /\ Len(lq'[t]) = Len(lq[t]) - 1
        /\ \A i \in 1..Len(lq'[t]) : lq'[t][i] = lq[t][i + 1] /\ i + 1 \in 1..Len(lq[t])
    BY <2>1, <2>2, TailFacts DEF EvalShape
  <2>4. /\ Head(lq[t]) \in Updates
        /\ thread'[t].pc = "catch_up" /\ thread[t].pc = "catch_up" /\ thread'[t].ts = Head(lq[t]).ts
        /\ thread'[t].perms = IF Head(lq[t]).type = "add" THEN thread[t].perms \cup {Head(lq[t]).h}
                              ELSE thread[t].perms \ {Head(lq[t]).h}
        /\ thread'[t].job = thread[t].job /\ thread'[t].need = thread[t].need
        /\ \A u \in Threads : u # t => thread'[u] = thread[u]
    BY <1>10, LearnState DEF EvalShape
  <2>5. WorkerAgrees(past, t)
    BY DEF Agrees
  <2>6. Head(lq[t]).ts = thread[t].ts + 1 /\ Records(past, ts, Head(lq[t])) /\ thread[t].ts \in 0..ts
    BY <2>3, <2>5, SMTT(60) DEF WorkerAgrees
  <2>7. thread'[t].ts \in 0..ts /\ thread'[t].ts = thread[t].ts + 1
    BY <2>4, <2>6 DEF Records
  <2>8. thread'[t].perms = past[thread'[t].ts]
    <3>1. Head(lq[t]).type \in {"add", "remove"}
      BY <2>4 DEF Updates
    <3>2. past[Head(lq[t]).ts - 1] = thread[t].perms
      <4>1. Head(lq[t]).ts - 1 = thread[t].ts
        BY <2>6
      <4> QED
        BY <2>5, <4>1 DEF WorkerAgrees
    <3> QED
      BY <2>4, <2>6, <3>1, <3>2 DEF Records
  <2>9. Len(lq'[t]) = ts - thread'[t].ts
    BY <2>3, <2>5, <2>6, <2>7 DEF WorkerAgrees, EvalShape
  <2>10. \A i \in 1..Len(lq'[t]) : lq'[t][i].ts = thread'[t].ts + i /\ Records(past, ts, lq'[t][i])
    <3> TAKE i \in 1..Len(lq'[t])
    <3>1. lq[t][i + 1].ts = thread[t].ts + (i + 1) /\ Records(past, ts, lq[t][i + 1])
      BY <2>3, <2>5 DEF WorkerAgrees
    <3>2. thread'[t].ts + i = thread[t].ts + (i + 1)
      BY <2>6, <2>7
    <3>3. lq'[t][i] = lq[t][i + 1]
      BY <2>3
    <3> QED
      BY <3>1, <3>2, <3>3
  <2>11. WorkerAgrees(past, t)'
    BY <2>1, <2>4, <2>5, <2>7, <2>8, <2>9, <2>10 DEF WorkerAgrees
  <2>12. \A i \in 1..Len(wq') : HeldSince(past, ts, wq'[i].h, wq'[i].ts)
    BY <2>1 DEF Agrees
  <2> QED
    BY <1>8, <2>1, <2>2, <2>4, <2>11, <2>12
<1>11. ASSUME NEW t \in Threads, E!WorkerEmpty(t) PROVE HistoryAgrees'
  <2>1. UNCHANGED <<ts, perms, lq, wq>> /\ thread[t].pc = "catch_up" /\ thread[t].ts >= thread[t].need
    BY <1>11 DEF E!WorkerEmpty, E!main
  <2>2. /\ thread'[t].pc = "evaluate" /\ thread'[t].ts = thread[t].ts
        /\ thread'[t].perms = thread[t].perms /\ thread'[t].job = thread[t].job
        /\ thread'[t].need = thread[t].need
        /\ \A u \in Threads : u # t => thread'[u] = thread[u]
    BY <1>11, EmptyState DEF EvalShape
  <2>3. WorkerAgrees(past, t) /\ \A i \in 1..Len(wq') : HeldSince(past, ts, wq'[i].h, wq'[i].ts)
    BY <2>1 DEF Agrees
  <2>4. WorkerAgrees(past, t)'
    BY <2>1, <2>2, <2>3 DEF WorkerAgrees
  <2> QED
    BY <1>8, <2>1, <2>2, <2>3, <2>4
<1>12. ASSUME NEW t \in Threads, E!WorkerDone(t) PROVE HistoryAgrees'
  <2>1. UNCHANGED <<ts, perms, lq, wq>> /\ thread[t].pc = "evaluate"
    BY <1>12 DEF E!WorkerDone, E!main
  <2>2. WorkerAgrees(past, t) /\ \A i \in 1..Len(wq') : HeldSince(past, ts, wq'[i].h, wq'[i].ts)
    BY <2>1 DEF Agrees
  <2>3. thread[t].job # <<>>
    BY <2>1, <2>2 DEF WorkerAgrees
  <2>4. CASE thread[t].job[1] \notin thread[t].perms
    BY <1>1, <1>12, <2>1, <2>4 DEF E!WorkerDone
  <2>5. CASE thread[t].job[1] \in thread[t].perms
    <3>1. /\ thread'[t].pc = "get" /\ thread'[t].ts = thread[t].ts
          /\ thread'[t].perms = thread[t].perms /\ thread'[t].job = <<>>
          /\ thread'[t].need = thread[t].need
          /\ \A u \in Threads : u # t => thread'[u] = thread[u]
      BY <1>12, <2>3, <2>5, DoneState DEF EvalShape
    <3>2. WorkerAgrees(past, t)'
      BY <2>1, <2>2, <3>1 DEF WorkerAgrees
    <3> QED
      BY <1>8, <2>1, <2>2, <3>1, <3>2
  <2> QED
    BY <2>4, <2>5
<1> QED
  BY <1>2, <1>3, <1>4, <1>5, <1>6, <1>7, <1>9, <1>10, <1>11, <1>12 DEF E!Next, E!Main, E!Worker

-----------------------------------------------------------------------------
(* The evaluator: no assertion fails.                                      *)

LEMMA NothingFailsKept ==
    ASSUME EvalShape, OrdersInOrder, OrdersFit, HistoryAgrees, E!WorkCounted, E!RemovedInTime, E!NothingFails,
           E!Next
    PROVE  E!NothingFails'
<1> PICK past \in [0..ts -> SUBSET Handles] : Agrees(past)
  BY DEF HistoryAgrees
<1> USE DEF E!NothingFails
<1>1. ASSUME NEW h \in Handles, E!SendAdd(h) \/ E!InitAnswer(h) \/ E!SendWork(h) \/ E!SendRemove(h)
      PROVE  ~ failure'
  BY <1>1 DEF E!SendAdd, E!InitAnswer, E!SendWork, E!SendRemove
<1>2. ASSUME E!ReadLoop PROVE ~ failure'
  BY <1>2 DEF E!ReadLoop
<1>3. ASSUME E!MainAdd PROVE ~ failure'
  <2>1. E!Task("add") /\ pipe' = pipe
    BY <1>3 DEF E!MainAdd, E!server
  <2>2. Head(tq).h \notin perms
    BY <2>1, TaskTaken DEF OrdersFit, HeldFor
  <2> QED
    BY <1>3, <2>2 DEF E!MainAdd
<1>4. ASSUME E!MainRemove \/ E!MainWork PROVE ~ failure'
  BY <1>4 DEF E!MainRemove, E!MainWork
<1>5. ASSUME E!MainWorkDone PROVE ~ failure'
  <2>1. E!Task("done") /\ pipe' = pipe
    BY <1>5 DEF E!MainWorkDone, E!server
  <2>2. PICK h \in Handles : h = Head(tq).h
    BY <2>1, TaskTaken
  <2>3. remaining[h] \in Nat \ {0}
    BY <2>1, <2>2, BackIsOut DEF E!Task
  <2>4. h \in perms
    BY <2>3 DEF E!WorkCounted, E!RemovedInTime
  <2> QED
    BY <1>5, <2>2, <2>4 DEF E!MainWorkDone
<1>6. ASSUME NEW t \in Threads, E!WorkerGet(t) \/ E!WorkerEmpty(t) PROVE ~ failure'
  BY <1>6 DEF E!WorkerGet, E!WorkerEmpty
<1>7. ASSUME NEW t \in Threads, E!WorkerLearn(t) PROVE ~ failure'
  <2>1. lq[t] # <<>> /\ failure' = (failure \/ (Head(lq[t]).type = "remove" /\ Head(lq[t]).h \notin thread[t].perms))
    BY <1>7 DEF E!WorkerLearn
  <2>2. Head(lq[t]) = lq[t][1] /\ 1 \in 1..Len(lq[t])
    BY <2>1, TailFacts DEF EvalShape
  <2>3. Head(lq[t]).ts = thread[t].ts + 1 /\ Records(past, ts, Head(lq[t])) /\ thread[t].ts \in Nat
    BY <2>2, WorkerParts DEF Agrees, WorkerAgrees, EvalShape
  <2>4. Head(lq[t]).ts - 1 = thread[t].ts /\ thread[t].perms = past[thread[t].ts]
    BY <2>3 DEF Agrees, WorkerAgrees
  <2>5. Head(lq[t]).type = "remove" => Head(lq[t]).h \in thread[t].perms
    BY <2>3, <2>4 DEF Records
  <2> QED
    BY <2>1, <2>5
<1>8. ASSUME NEW t \in Threads, E!WorkerDone(t) PROVE ~ failure'
  <2>1. thread[t].pc = "evaluate" /\ WorkerAgrees(past, t)
    BY <1>8 DEF E!WorkerDone, Agrees
  <2>2. /\ HeldSince(past, ts, thread[t].job[1], thread[t].need) /\ thread[t].ts >= thread[t].need
        /\ thread[t].ts \in 0..ts /\ thread[t].need \in 0..ts
    BY <2>1 DEF WorkerAgrees
  <2>3. thread[t].ts \in thread[t].need..ts
    BY <2>2 DEF EvalShape
  <2>4. thread[t].job[1] \in thread[t].perms
    BY <2>1, <2>2, <2>3 DEF HeldSince, WorkerAgrees
  <2> QED
    BY <1>8, <2>4 DEF E!WorkerDone
<1> QED
  BY <1>1, <1>2, <1>3, <1>4, <1>5, <1>6, <1>7, <1>8 DEF E!Next, E!Main, E!Worker

-----------------------------------------------------------------------------
(* The evaluator: work is counted.                                         *)

LEMMA WorkCountedKept ==
    ASSUME EvalShape, EvalShape', OrdersInOrder, HistoryAgrees, E!WorkCounted, E!NothingFails', E!Next
    PROVE  E!WorkCounted'
<1> PICK past \in [0..ts -> SUBSET Handles] : Agrees(past)
  BY DEF HistoryAgrees
<1>1. ASSUME UNCHANGED <<tq, wq, thread, remaining>> PROVE E!WorkCounted'
  <2>1. \A h \in Handles : E!Out(h)' = E!Out(h)
    BY <1>1 DEF E!Out
  <2> QED
    BY <1>1, <2>1 DEF E!WorkCounted
<1>2. ASSUME \A h \in Handles :
                 remaining'[h] - remaining[h] =
                     (Queued(h)' - Queued(h)) + (InHand(h)' - InHand(h)) + (Back(h)' - Back(h)),
             \A h \in Handles : Queued(h)' \in Int /\ InHand(h)' \in Int /\ Back(h)' \in Int
      PROVE  E!WorkCounted'
  <2> SUFFICES ASSUME NEW h \in Handles PROVE remaining'[h] = E!Out(h)'
    BY DEF E!WorkCounted
  <2>1. remaining[h] = Queued(h) + InHand(h) + Back(h) /\ Queued(h) \in Nat /\ InHand(h) \in Nat /\ Back(h) \in Nat
    BY OutParts DEF E!WorkCounted
  <2>2. E!Out(h)' = Queued(h)' + InHand(h)' + Back(h)'
    BY OutPartsAfter
  <2>3. remaining'[h] \in Int
    BY DEF EvalShape
  <2> QED
    BY <1>2, <2>1, <2>2, <2>3, SMTT(60)
<1>3. \A h \in Handles : remaining[h] \in Nat /\ Queued(h) \in Nat /\ InHand(h) \in Nat /\ Back(h) \in Nat
  BY OutParts DEF EvalShape
<1>4. wq' = wq => \A h \in Handles : Queued(h)' = Queued(h)
  BY DEF Queued
<1>5. thread' = thread => \A h \in Handles : InHand(h)' = InHand(h)
  BY DEF InHand, Busy
<1>6. tq' = tq => \A h \in Handles : Back(h)' = Back(h)
  BY DEF Back
<1>7. ASSUME NEW h \in Handles, E!SendAdd(h) \/ E!InitAnswer(h) \/ E!SendWork(h) \/ E!SendRemove(h)
      PROVE  E!WorkCounted'
  BY <1>1, <1>7 DEF E!SendAdd, E!InitAnswer, E!SendWork, E!SendRemove, E!main
<1>8. ASSUME E!ReadLoop PROVE E!WorkCounted'
  <2>1. UNCHANGED <<wq, thread, remaining>> /\ pipe # <<>> /\ tq' = Append(tq, Head(pipe))
    BY <1>8 DEF E!ReadLoop, E!main
  <2>2. Head(pipe) \in Tasks /\ Head(pipe).type # "done"
    <3>1. Head(pipe) \in Orders
      BY <2>1, TailFacts DEF EvalShape
    <3> QED
      BY <3>1 DEF Orders, Tasks
  <2>3. \A h \in Handles : Back(h)' = Back(h)
    BY <1>3, <2>1, <2>2, BackAppend
  <2> QED
    BY <1>2, <1>3, <1>4, <1>5, <2>1, <2>3
<1>9. ASSUME NEW type, type # "done", E!Task(type) PROVE \A h \in Handles : Back(h)' = Back(h)
  BY <1>3, <1>9, BackTail DEF E!Task
<1>10. ASSUME E!MainAdd PROVE E!WorkCounted'
  <2>1. UNCHANGED <<wq, thread, remaining>> /\ E!Task("add")
    BY <1>10 DEF E!MainAdd
  <2> QED
    BY <1>2, <1>3, <1>4, <1>5, <1>9, <2>1
<1>11. ASSUME E!MainRemove PROVE E!WorkCounted'
  <2>1. UNCHANGED <<wq, thread>> /\ E!Task("remove") /\ pipe' = pipe
    BY <1>11 DEF E!MainRemove, E!server
  <2>2. remaining' = remaining
    <3>1. PICK h \in Handles : h = Head(tq).h
      BY <2>1, TaskTaken
    <3>2. CASE h \notin perms
      BY <1>11, <3>1, <3>2 DEF E!MainRemove
    <3>3. CASE h \in perms
      <4>1. E!TryRemove(h, remaining, toRemove \cup {h})
        BY <1>11, <3>1, <3>3 DEF E!MainRemove
      <4>2. remaining \in [Handles -> Nat] /\ toRemove \cup {h} \in SUBSET perms
        BY <3>3 DEF EvalShape
      <4> QED
        BY <4>1, <4>2, TryRemoveShape
    <3> QED
      BY <3>2, <3>3
  <2> QED
    BY <1>2, <1>3, <1>4, <1>5, <1>9, <2>1, <2>2
<1>12. ASSUME E!MainWorkDone PROVE E!WorkCounted'
  <2>1. UNCHANGED <<wq, thread>> /\ E!Task("done") /\ pipe' = pipe
    BY <1>12 DEF E!MainWorkDone, E!server
  <2>2. PICK g \in Handles : g = Head(tq).h
    BY <2>1, TaskTaken
  <2>3. remaining[g] - 1 \in Nat
    BY <2>1, <2>2, BackIsOut DEF E!Task
  <2>4. PICK rest \in [Handles -> Nat] : rest = [remaining EXCEPT ![g] = @ - 1]
    BY <2>3 DEF EvalShape
  <2>5. E!TryRemove(g, rest, toRemove) /\ toRemove \in SUBSET perms
    BY <1>12, <2>2, <2>4 DEF E!MainWorkDone, EvalShape
  <2>6. remaining' = rest
    BY <2>5, TryRemoveShape
  <2>7. \A h \in Handles : remaining'[h] = remaining[h] - (IF g = h THEN 1 ELSE 0)
    <3>1. \A h \in Handles : rest[h] = IF h = g THEN remaining[g] - 1 ELSE remaining[h]
      BY <2>4 DEF EvalShape
    <3>2. \A h \in Handles : remaining[h] - 0 = remaining[h]
      BY DEF EvalShape
    <3> QED
      BY <2>6, <3>1, <3>2
  <2>8. \A h \in Handles : Back(h)' = Back(h) - (IF g = h THEN 1 ELSE 0)
    BY <2>1, <2>2, BackTail DEF E!Task
  <2> QED
    BY <1>2, <1>3, <1>4, <1>5, <2>1, <2>7, <2>8, SMTT(60)
<1>13. ASSUME E!MainWork PROVE E!WorkCounted'
  <2>1. UNCHANGED <<thread>> /\ E!Task("work") /\ pipe' = pipe
    BY <1>13 DEF E!MainWork, E!server
  <2>2. PICK g \in Handles : g = Head(tq).h
    BY <2>1, TaskTaken
  <2>3. remaining' = [remaining EXCEPT ![g] = @ + 1]
    BY <1>13, <2>2 DEF E!MainWork
  <2>4. PICK m \in Items : m.h = g /\ wq' = Append(wq, m)
    <3>1. Head(tq) \in Tasks /\ Head(tq).type = "work"
      BY <2>1, TaskTaken
    <3>2. [h |-> g, id |-> Head(tq).id, ts |-> ts] \in Items
      BY <3>1 DEF Tasks, Orders, Items, EvalShape
    <3> QED
      BY <1>13, <2>2, <3>2 DEF E!MainWork
  <2>5. \A h \in Handles : remaining'[h] = remaining[h] + (IF g = h THEN 1 ELSE 0)
    BY <1>3, <2>3, SMTT(60) DEF EvalShape
  <2>6. \A h \in Handles : Queued(h)' = Queued(h) + (IF g = h THEN 1 ELSE 0)
    BY <2>4, QueuedAppend
  <2> QED
    BY <1>2, <1>3, <1>5, <1>9, <2>1, <2>5, <2>6, SMTT(60)
<1>14. ASSUME NEW t \in Threads, E!WorkerGet(t) PROVE E!WorkCounted'
  <2>1. wq # <<>> /\ wq' = Tail(wq) /\ UNCHANGED <<tq, remaining>> /\ thread[t].pc = "get"
    BY <1>14 DEF E!WorkerGet, E!main
  <2>2. /\ thread' \in [Threads -> WorkerStates] /\ thread'[t].job = <<Head(wq).h, Head(wq).id>>
        /\ \A u \in Threads : u # t => thread'[u] = thread[u]
    BY <1>14, GetState DEF EvalShape
  <2>3. thread[t].job = <<>>
    BY <2>1 DEF Agrees, WorkerAgrees
  <2>4. thread'[t].job # <<>> /\ thread'[t].job[1] = Head(wq).h
    BY <2>2
  <2>5. \A h \in Handles : InHand(h)' = InHand(h) + (IF Head(wq).h = h THEN 1 ELSE 0)
    BY <2>2, <2>3, <2>4, HandsChange, ZenonT(60)
  <2>6. \A h \in Handles : Queued(h)' = Queued(h) - (IF Head(wq).h = h THEN 1 ELSE 0)
    BY <2>1, QueuedTail
  <2> QED
    BY <1>2, <1>3, <1>6, <2>1, <2>5, <2>6
<1>15. ASSUME NEW t \in Threads, E!WorkerLearn(t) PROVE E!WorkCounted'
  <2>1. UNCHANGED <<tq, wq, remaining>>
    BY <1>15 DEF E!WorkerLearn, E!main
  <2>2. /\ thread' \in [Threads -> WorkerStates] /\ thread'[t].job = thread[t].job
        /\ \A u \in Threads : u # t => thread'[u] = thread[u]
    BY <1>15, LearnState DEF EvalShape
  <2>3. \A h \in Handles : InHand(h)' = InHand(h)
    BY <2>2, HandsChange
  <2> QED
    BY <1>2, <1>3, <1>4, <1>6, <2>1, <2>3
<1>16. ASSUME NEW t \in Threads, E!WorkerEmpty(t) PROVE E!WorkCounted'
  <2>1. UNCHANGED <<tq, wq, remaining>>
    BY <1>16 DEF E!WorkerEmpty, E!main
  <2>2. /\ thread' \in [Threads -> WorkerStates] /\ thread'[t].job = thread[t].job
        /\ \A u \in Threads : u # t => thread'[u] = thread[u]
    BY <1>16, EmptyState DEF EvalShape
  <2>3. \A h \in Handles : InHand(h)' = InHand(h)
    BY <2>2, HandsChange
  <2> QED
    BY <1>2, <1>3, <1>4, <1>6, <2>1, <2>3
<1>17. ASSUME NEW t \in Threads, E!WorkerDone(t) PROVE E!WorkCounted'
  <2>1. UNCHANGED <<wq, remaining>> /\ thread[t].pc = "evaluate" /\ thread[t].job[1] \in thread[t].perms
    BY <1>17 DEF E!WorkerDone, E!main, E!NothingFails
  <2>2. thread[t].job # <<>>
    BY <2>1 DEF Agrees, WorkerAgrees
  <2>3. /\ thread' \in [Threads -> WorkerStates] /\ thread'[t].job = <<>>
        /\ \A u \in Threads : u # t => thread'[u] = thread[u]
    BY <1>17, <2>1, <2>2, DoneState DEF EvalShape
  <2>4. \A h \in Handles : InHand(h)' = InHand(h) - (IF thread[t].job[1] = h THEN 1 ELSE 0)
    BY <2>2, <2>3, HandsChange
  <2>5. PICK m \in Tasks : m.type = "done" /\ m.h = thread[t].job[1] /\ tq' = Append(tq, m)
    <3>1. [type |-> "done", h |-> thread[t].job[1], id |-> thread[t].job[2]] \in Tasks
      BY <2>2, WorkerParts DEF Tasks, EvalShape
    <3> QED
      BY <1>17, <2>1, <3>1 DEF E!WorkerDone
  <2>6. \A h \in Handles : Back(h)' = Back(h) + (IF thread[t].job[1] = h THEN 1 ELSE 0)
    BY <2>5, BackAppend
  <2> QED
    BY <1>2, <1>3, <1>4, <2>1, <2>4, <2>6
<1> QED
  BY <1>7, <1>8, <1>10, <1>11, <1>12, <1>13, <1>14, <1>15, <1>16, <1>17 DEF E!Next, E!Main, E!Worker

\* Permuters come before their work and go with its last result: only the main loop
\* changes which it has, which it is to remove, and what it counts.
LEMMA RemovedInTimeKept ==
    ASSUME EvalShape, OrdersInOrder, OrdersFit, E!WorkCounted, E!WorkCounted', E!RemovedInTime, E!Next
    PROVE  E!RemovedInTime'
<1> DEFINE Timely == /\ \A h \in toRemove : remaining[h] > 0
                     /\ \A h \in Handles : remaining[h] > 0 => h \in perms
<1>1. Timely /\ toRemove \subseteq Handles
  BY DEF E!RemovedInTime, E!WorkCounted, EvalShape
<1>2. toRemove' \subseteq Handles /\ Timely' => E!RemovedInTime'
  BY DEF E!RemovedInTime, E!WorkCounted
<1>3. ASSUME UNCHANGED <<toRemove, remaining, perms>> PROVE E!RemovedInTime'
  BY <1>1, <1>2, <1>3
\* How the main loop's try_remove leaves things.
<1>4. ASSUME NEW g \in Handles, NEW rest \in [Handles -> Nat], NEW rem \in SUBSET perms, E!TryRemove(g, rest, rem),
             \A h \in rem : h # g => rest[h] > 0, \A h \in Handles : rest[h] > 0 => h \in perms
      PROVE  E!RemovedInTime'
  <2>1. remaining' = rest
    BY <1>4, TryRemoveShape
  <2>2. \/ g \notin rem /\ toRemove' = rem /\ perms' = perms
        \/ rest[g] # 0 /\ toRemove' = rem /\ perms' = perms
        \/ rest[g] = 0 /\ toRemove' = rem \ {g} /\ perms' = perms \ {g}
    BY <1>4, TryRemoveShape
  <2>3. rem \subseteq Handles /\ rest[g] \in Nat
    BY DEF EvalShape
  <2>4. Timely' /\ toRemove' \subseteq Handles
    BY <1>4, <2>1, <2>2, <2>3
  <2> QED
    BY <1>2, <2>4
<1> HIDE DEF Timely
<1>5. ASSUME NEW h \in Handles, E!SendAdd(h) \/ E!InitAnswer(h) \/ E!SendWork(h) \/ E!SendRemove(h)
      PROVE  E!RemovedInTime'
  BY <1>3, <1>5 DEF E!SendAdd, E!InitAnswer, E!SendWork, E!SendRemove, E!main
<1>6. ASSUME E!ReadLoop PROVE E!RemovedInTime'
  BY <1>3, <1>6 DEF E!ReadLoop, E!main
<1>7. ASSUME E!MainAdd PROVE E!RemovedInTime'
  <2>1. UNCHANGED <<toRemove, remaining>> /\ perms \subseteq perms'
    BY <1>7 DEF E!MainAdd
  <2>2. Timely' /\ toRemove' \subseteq Handles
    BY <1>1, <2>1 DEF Timely
  <2> QED
    BY <1>2, <2>2
<1>8. ASSUME E!MainRemove PROVE E!RemovedInTime'
  <2>1. E!Task("remove") /\ pipe' = pipe
    BY <1>8 DEF E!MainRemove, E!server
  <2>2. PICK h \in Handles : h = Head(tq).h
    BY <2>1, TaskTaken
  <2>3. CASE h \notin perms
    BY <1>3, <1>8, <2>2, <2>3 DEF E!MainRemove
  <2>4. CASE h \in perms
    <3>1. E!TryRemove(h, remaining, toRemove \cup {h})
      BY <1>8, <2>2, <2>4 DEF E!MainRemove
    <3>2. remaining \in [Handles -> Nat] /\ toRemove \cup {h} \in SUBSET perms
      BY <2>4 DEF EvalShape
    <3> QED
      BY <1>1, <1>4, <3>1, <3>2 DEF Timely
  <2> QED
    BY <2>3, <2>4
<1>9. ASSUME E!MainWorkDone PROVE E!RemovedInTime'
  <2>1. E!Task("done") /\ pipe' = pipe
    BY <1>9 DEF E!MainWorkDone, E!server
  <2>2. PICK g \in Handles : g = Head(tq).h
    BY <2>1, TaskTaken
  <2>3. remaining[g] \in Nat \ {0}
    BY <2>1, <2>2, BackIsOut DEF E!Task
  <2>4. PICK rest \in [Handles -> Nat] : rest = [remaining EXCEPT ![g] = @ - 1]
    <3>1. remaining[g] - 1 \in Nat
      BY <2>3
    <3> QED
      BY <3>1 DEF EvalShape
  <2>5. E!TryRemove(g, rest, toRemove) /\ toRemove \in SUBSET perms
    BY <1>9, <2>2, <2>4 DEF E!MainWorkDone, EvalShape
  <2>6. \A h \in Handles : h # g => rest[h] = remaining[h]
    BY <2>4 DEF EvalShape
  <2>7. g \in perms
    BY <1>1, <2>3 DEF Timely
  <2>8. (\A h \in toRemove : h # g => rest[h] > 0) /\ \A h \in Handles : rest[h] > 0 => h \in perms
    BY <1>1, <2>6, <2>7 DEF Timely
  <2> QED
    BY <1>4, <2>5, <2>8
<1>10. ASSUME E!MainWork PROVE E!RemovedInTime'
  <2>1. E!Task("work") /\ pipe' = pipe /\ UNCHANGED <<toRemove, perms>>
    BY <1>10 DEF E!MainWork, E!server
  <2>2. PICK g \in Handles : g = Head(tq).h
    BY <2>1, TaskTaken
  <2>3. g \in perms
    BY <2>1, <2>2, TaskTaken DEF OrdersFit, HeldFor
  <2>4. \A h \in Handles : /\ h # g => remaining'[h] = remaining[h]
                           /\ remaining[h] > 0 => remaining'[h] > 0
    BY <1>10, <2>2 DEF E!MainWork, EvalShape
  <2>5. Timely' /\ toRemove' \subseteq Handles
    BY <1>1, <2>1, <2>3, <2>4 DEF Timely
  <2> QED
    BY <1>2, <2>5
<1>11. ASSUME NEW t \in Threads, E!Worker(t) PROVE E!RemovedInTime'
  BY <1>3, <1>11 DEF E!Worker, E!WorkerGet, E!WorkerLearn, E!WorkerEmpty, E!WorkerDone, E!main
<1> QED
  BY <1>5, <1>6, <1>7, <1>8, <1>9, <1>10, <1>11 DEF E!Next, E!Main

-----------------------------------------------------------------------------
(* The evaluator: its invariant.                                           *)

LEMMA EvalInvStarts == E!Init => EvalInv
<1> SUFFICES ASSUME E!Init PROVE EvalInv
  OBVIOUS
<1> USE DEF E!Init
<1>1. EvalShape
  <2>1. \A V : <<>> \in Seq(V)
    OBVIOUS
  <2>2. 1 \in 1..MaxWork + 1
    BY ServerAssumption
  <2>3. [pc |-> "get", ts |-> 0, perms |-> {}, job |-> <<>>, need |-> 0] \in WorkerStates
    BY DEF WorkerStates
  <2> QED
    BY <2>1, <2>2, <2>3 DEF EvalShape
<1>2. OrdersInOrder
  <2>1. 1..Len(<<>>) = {}
    OBVIOUS
  <2> QED
    BY <2>1 DEF OrdersInOrder, InOrder
<1>3. \A h, k : ~ Pending(h, k)
  BY DEF Pending, Within
<1>4. OrdersFit
  BY <1>3 DEF OrdersFit, HeldFor, Built, Refused
<1>5. HistoryAgrees
  <2>1. PICK past \in [0..0 -> SUBSET Handles] : past = [i \in 0..0 |-> {}]
    OBVIOUS
  <2>2. past[0] = {}
    BY <2>1
  <2>3. ASSUME NEW t \in Threads PROVE WorkerAgrees(past, t)
    <3>1. lq[t] = <<>>
      OBVIOUS
    <3>3. Len(lq[t]) = 0 /\ 1..Len(lq[t]) = {} /\ 0 - 0 = 0
      BY <3>1
    <3>2. /\ thread[t].pc = "get" /\ thread[t].ts = 0 /\ thread[t].perms = {}
          /\ thread[t].job = <<>> /\ thread[t].need = 0 /\ ts = 0 /\ 0 \in 0..0
      OBVIOUS
    <3> HIDE DEF E!Init
    <3> QED
      BY <2>2, <3>2, <3>3 DEF WorkerAgrees
  <2>4. 1..Len(<<>>) = {}
    OBVIOUS
  <2> QED
    BY <2>2, <2>3, <2>4 DEF HistoryAgrees, Agrees
<1>6. ASSUME NEW h \in Handles PROVE E!Out(h) = 0
  <2>1. Queued(h) = 0 /\ Back(h) = 0
    BY HowManyEmpty DEF Queued, Back
  <2>2. Busy(h) = {}
    BY DEF Busy
  <2>3. InHand(h) = 0
    BY <2>2, FS_EmptySet DEF InHand
  <2> QED
    BY <1>1, <2>1, <2>3, OutParts
<1>7. E!WorkCounted
  BY <1>6 DEF E!WorkCounted
<1>8. E!RemovedInTime
  BY <1>6 DEF E!RemovedInTime
<1> QED
  BY <1>1, <1>2, <1>4, <1>5, <1>7, <1>8 DEF EvalInv, E!NothingFails

LEMMA EvalInvKept == EvalInv /\ E!Next => EvalInv'
<1> SUFFICES ASSUME EvalInv, E!Next PROVE EvalInv'
  OBVIOUS
<1> USE DEF EvalInv
<1>1. EvalShape'
  BY EvalShapeKept
<1>2. OrdersInOrder'
  BY OrdersInOrderKept
<1>3. OrdersFit'
  BY OrdersFitKept
<1>4. HistoryAgrees'
  BY HistoryAgreesKept
<1>5. E!NothingFails'
  BY NothingFailsKept
<1>6. E!WorkCounted'
  BY <1>1, <1>5, WorkCountedKept
<1>7. E!RemovedInTime'
  BY <1>6, RemovedInTimeKept
<1> QED
  BY <1>1, <1>2, <1>3, <1>4, <1>5, <1>6, <1>7

LEMMA EvalInvUnmoved == EvalInv /\ UNCHANGED evalVars => EvalInv'
<1> SUFFICES ASSUME EvalInv, UNCHANGED evalVars PROVE EvalInv'
  OBVIOUS
<1> USE DEF evalVars
<1>1. EvalShape'
  BY DEF EvalInv, EvalShape
<1>2. OrdersInOrder'
  BY DEF EvalInv, OrdersInOrder
<1>3. OrdersFit'
  <2>1. \A h, k : Pending(h, k)' <=> Pending(h, k)
    BY DEF Pending
  <2> QED
    BY <2>1 DEF EvalInv, OrdersFit, HeldFor, Built, Refused
<1>4. HistoryAgrees'
  BY ZenonT(60) DEF EvalInv, HistoryAgrees, Agrees, WorkerAgrees
<1>5. E!NothingFails'
  BY DEF EvalInv, E!NothingFails
<1>6. \A h \in Handles : E!Out(h)' = E!Out(h)
  BY DEF E!Out
<1>7. E!WorkCounted'
  BY <1>6 DEF EvalInv, E!WorkCounted
<1>8. E!RemovedInTime'
  <2>1. toRemove \subseteq Handles
    BY DEF EvalInv, EvalShape
  <2> QED
    BY <1>6, <2>1 DEF EvalInv, E!RemovedInTime
<1> QED
  BY <1>1, <1>2, <1>3, <1>4, <1>5, <1>7, <1>8 DEF EvalInv

LEMMA EvalInvSuffices == EvalInv => EvaluatorSound
<1> SUFFICES ASSUME EvalInv PROVE EvaluatorSound
  OBVIOUS
<1> PICK past \in [0..ts -> SUBSET Handles] : Agrees(past)
  BY DEF EvalInv, HistoryAgrees
<1>1. E!TypeOK
  BY WorkerParts DEF EvalInv, EvalShape, E!TypeOK, Agrees, WorkerAgrees
<1>2. E!WorkersInStep
  <2> SUFFICES ASSUME NEW t \in Threads, lq[t] = <<>> PROVE thread[t].perms = perms /\ thread[t].ts = ts
    BY DEF E!WorkersInStep
  <2>1. 0 = ts - thread[t].ts /\ thread[t].ts \in 0..ts
    BY DEF Agrees, WorkerAgrees
  <2>2. thread[t].ts = ts
    BY <2>1 DEF EvalInv, EvalShape
  <2> QED
    BY <2>2 DEF Agrees, WorkerAgrees
<1> QED
  BY <1>1, <1>2 DEF EvalInv, EvaluatorSound

\* The evaluator, for any permuters, workers and pieces of work: in whatever order messages
\* come no assertion of net/evaluator.py fails and no worker looks up a permuter that
\* it does not have, remaining_work is exact, a removed permuter goes with its last
\* result, and the workers follow the main loop.
THEOREM EvaluatorSafe == Spec => []EvaluatorSound
<1>1. Init => EvalInv
  BY EvalInvStarts DEF Init
<1>2. EvalInv /\ [Next]_vars => EvalInv'
  <2> SUFFICES ASSUME EvalInv, [Next]_vars PROVE EvalInv'
    OBVIOUS
  <2>1. E!Next \/ UNCHANGED evalVars
    BY DEF Next, EStep, NStep, SStep, vars
  <2> QED
    BY <2>1, EvalInvKept, EvalInvUnmoved
<1> QED
  BY <1>1, <1>2, EvalInvSuffices, PTL DEF Spec

-----------------------------------------------------------------------------
(* The server and its controller: what travels, and the parts of the invariant. *)

Msgs ==
    [type : {"need", "net_down", "shutdown"}]
    \cup [type : {"add", "remove", "immediate", "kick", "disconnect", "result"}, h : Handles]
    \cup [type : {"work", "done"}, h : Handles, id : Ids]
    \cup [type : {"init"}, h : Handles, ok : BOOLEAN]
Carries(q, types) == \A i \in 1..Len(q) : q[i].type \in types
ToMain == {"add", "immediate", "remove", "kick", "work", "init", "done", "net_down", "shutdown"}

NetShape ==
    /\ clients \in [Handles -> {"new", "here", "gone"}]
    /\ job \in [Handles -> {"none", "loading", "loaded", "failed"}]
    /\ active_work \in [Handles -> Nat] /\ total_work \in Nat
    /\ acc \in 0..1 /\ credits \in Nat /\ chooser \in {"choose", "wait"}
    /\ down \in Seq(Msgs) /\ Carries(down, {"add", "remove", "work"})
    /\ mq \in Seq(Msgs) /\ Carries(mq, ToMain)
    /\ up \in Seq(Msgs) /\ Carries(up, {"need", "init", "disconnect", "result"})
    /\ next_work_id \in 1..MaxWork + 1
    /\ active \subseteq shown /\ shown \subseteq Handles /\ kicked \subseteq shown
    /\ time_starts \subseteq Ids /\ server \in {"up", "stopping", "down"}
    /\ ev \in [Handles -> {"none", "here", "failed", "removed"}]
    /\ evInit \subseteq Handles /\ evWork \subseteq Handles \X Ids

\* A permuter's coming, and a piece of its work, are one message or one task of the
\* evaluator at a time, wherever they are between the controller's choice and the
\* answer it hears.
StartsOf(h) == {m \in Msgs : m.type \in {"add", "immediate", "init"} /\ m.h = h}
WorksOf(h) == {m \in Msgs : m.type \in {"work", "done", "result"} /\ m.h = h}
UsesOf(id) == {m \in Msgs : m.type \in {"work", "done"} /\ m.id = id}
EvalOf(h) == {w \in evWork : w[1] = h}
EvalOn(id) == {w \in evWork : w[2] = id}
Travelling(V) == HowMany(down, V) + HowMany(mq, V) + HowMany(up, V)
Starting(h) == Travelling(StartsOf(h)) + (IF h \in evInit THEN 1 ELSE 0)
Working(h) == Travelling(WorksOf(h)) + Cardinality(EvalOf(h))
Using(id) == Travelling(UsesOf(id)) + Cardinality(EvalOn(id))

\* The state of a job tells what may be under way.
JobFits(h) ==
    /\ Starting(h) <= 1
    /\ Starting(h) = 1 => Working(h) = 0 /\ job[h] \in {"none", "loading"}
    /\ clients[h] = "new" => job[h] = "none"
    /\ job[h] = "none" /\ clients[h] # "gone" => Starting(h) = 0 /\ Working(h) = 0
    /\ job[h] = "loading" \/ (job[h] = "failed" /\ h \notin kicked) => Working(h) = 0
    /\ job[h] # "loaded" => active_work[h] = 0
    /\ job[h] = "loaded" => Working(h) <= active_work[h]
JobsFit == \A h \in Handles : JobFits(h)

\* What can be told from a message on its way, and of permuters nobody has heard of.
Tells(m) ==
    /\ m.type = "remove" => clients[m.h] = "gone" /\ job[m.h] = "none"
    /\ m.type \in {"add", "immediate"} => ev[m.h] = "none" /\ m.h \notin shown
    /\ m.type \in {"kick", "disconnect"} => m.h \in kicked
MessagesTell ==
    /\ \A i \in 1..Len(down) : Tells(down[i])
    /\ \A i \in 1..Len(mq) : Tells(mq[i])
    /\ \A i \in 1..Len(up) : Tells(up[i])
    /\ \A h \in Handles : job[h] = "none" /\ clients[h] # "gone" => ev[h] = "none" /\ h \notin shown

\* An id is used once, and its start time is kept meanwhile.
IdsOnce ==
    /\ \A id \in Ids : Using(id) <= 1 /\ (id >= next_work_id => Using(id) = 0)
    /\ time_starts = {w[2] : w \in evWork} \cup {mq[i].id : i \in {j \in 1..Len(mq) : mq[j].type = "done"}}

\* A permuter the controller takes for loaded is active, unless the user has thrown it
\* out, and then the controller will hear.
BuiltOnWay(h) == \E i \in 1..Len(up) : up[i] = [type |-> "init", h |-> h, ok |-> TRUE]
StillActive ==
    \A h \in Handles :
        N!Connected /\ N!Here(h) /\ (job[h] = "loaded" \/ BuiltOnWay(h)) => h \in active \/ Within(up, h, "disconnect")

\* Work that was dropped is accounted for: the controller will hear that the permuter
\* was thrown out, and before that of the work; or the permuter is gone, and something
\* comes for which there is a credit.
HeardAfter(q, h) ==
    \E i, j \in 1..Len(q) : i < j /\ q[i].type = "disconnect" /\ q[i].h = h /\ q[j].type = "need"
Sure ==
    credits > 0 \/ (\E h \in Handles : Starting(h) > 0) \/ (\E i \in 1..Len(up) : up[i].type = "need")
DroppedIsHeard ==
    \A h \in Handles :
        N!Connected /\ active_work[h] > Working(h) =>
            /\ N!Here(h) => HeardAfter(up, h)
            /\ clients[h] = "gone" /\ chooser = "wait" => Sure
CreditComes == N!Connected /\ chooser = "wait" => Sure \/ \E h \in Handles : Working(h) > 0

Bounded == total_work < next_work_id /\ \A h \in Handles : active_work[h] < next_work_id

\* The inductive invariant of the server and its controller.
NetInv ==
    /\ NetShape /\ JobsFit /\ MessagesTell /\ IdsOnce /\ N!ActiveIsReal /\ StillActive
    /\ DroppedIsHeard /\ CreditComes /\ Bounded /\ N!TotalIsSum /\ N!MessagesFit

-----------------------------------------------------------------------------
(* Counting what is under way.                                             *)

Is(m, V) == IF m \in V THEN 1 ELSE 0

LEMMA TravelsInNat ==
    ASSUME NetShape, NEW V
    PROVE  /\ HowMany(down, V) \in Nat /\ HowMany(mq, V) \in Nat /\ HowMany(up, V) \in Nat
           /\ Travelling(V) \in Nat
<1>1. HowMany(down, V) \in Nat /\ HowMany(mq, V) \in Nat /\ HowMany(up, V) \in Nat
  BY PlacesFinite DEF NetShape
<1> QED
  BY <1>1 DEF Travelling

LEMMA TravelSame ==
    ASSUME UNCHANGED <<down, mq, up>>, NEW V
    PROVE  Travelling(V)' = Travelling(V)
BY DEF Travelling

LEMMA TravelSaid ==
    ASSUME NetShape, NEW m \in Msgs, down' = Append(down, m), UNCHANGED <<mq, up>>, NEW V
    PROVE  Travelling(V)' = Travelling(V) + Is(m, V)
<1>1. HowMany(Append(down, m), V) = HowMany(down, V) + (IF m \in V THEN 1 ELSE 0)
  BY HowManyAppend DEF NetShape
<1> QED
  BY <1>1, TravelsInNat DEF Travelling, Is

LEMMA TravelRead ==
    ASSUME NetShape, NEW m \in Msgs, down # <<>>, down' = Tail(down), mq' = Append(mq, m), up' = up, NEW V
    PROVE  Travelling(V)' = Travelling(V) - Is(Head(down), V) + Is(m, V)
<1>1. HowMany(Append(mq, m), V) = HowMany(mq, V) + (IF m \in V THEN 1 ELSE 0)
  BY HowManyAppend DEF NetShape
<1>2. HowMany(Tail(down), V) = HowMany(down, V) - (IF Head(down) \in V THEN 1 ELSE 0)
  BY HowManyTail DEF NetShape
<1> QED
  BY <1>1, <1>2, TravelsInNat, SMTT(60) DEF Travelling, Is

LEMMA TravelQueued ==
    ASSUME NetShape, NEW m \in Msgs, mq' = Append(mq, m), UNCHANGED <<down, up>>, NEW V
    PROVE  Travelling(V)' = Travelling(V) + Is(m, V)
<1>1. HowMany(Append(mq, m), V) = HowMany(mq, V) + (IF m \in V THEN 1 ELSE 0)
  BY HowManyAppend DEF NetShape
<1> QED
  BY <1>1, TravelsInNat DEF Travelling, Is

LEMMA TravelTaken ==
    ASSUME NetShape, mq # <<>>, mq' = Tail(mq), UNCHANGED <<down, up>>, NEW V
    PROVE  Travelling(V)' = Travelling(V) - Is(Head(mq), V)
<1>1. HowMany(Tail(mq), V) = HowMany(mq, V) - (IF Head(mq) \in V THEN 1 ELSE 0)
  BY HowManyTail DEF NetShape
<1> QED
  BY <1>1, TravelsInNat DEF Travelling, Is

LEMMA TravelAnswered ==
    ASSUME NetShape, NEW m \in Msgs, mq # <<>>, mq' = Tail(mq), up' = Append(up, m), down' = down, NEW V
    PROVE  Travelling(V)' = Travelling(V) - Is(Head(mq), V) + Is(m, V)
<1>1. HowMany(Append(up, m), V) = HowMany(up, V) + (IF m \in V THEN 1 ELSE 0)
  BY HowManyAppend DEF NetShape
<1>2. HowMany(Tail(mq), V) = HowMany(mq, V) - (IF Head(mq) \in V THEN 1 ELSE 0)
  BY HowManyTail DEF NetShape
<1> QED
  BY <1>1, <1>2, TravelsInNat, SMTT(60) DEF Travelling, Is

LEMMA TravelHeard ==
    ASSUME NetShape, up # <<>>, up' = Tail(up), UNCHANGED <<down, mq>>, NEW V
    PROVE  Travelling(V)' = Travelling(V) - Is(Head(up), V)
<1>1. HowMany(Tail(up), V) = HowMany(up, V) - (IF Head(up) \in V THEN 1 ELSE 0)
  BY HowManyTail DEF NetShape
<1> QED
  BY <1>1, TravelsInNat DEF Travelling, Is

\* Which messages are counted.
Plain == {"need", "net_down", "shutdown", "remove", "kick", "disconnect"}
LEMMA MsgFacts ==
    ASSUME NEW m \in Msgs
    PROVE  /\ \A h : Is(m, StartsOf(h)) = (IF m.type \in {"add", "immediate", "init"} /\ m.h = h THEN 1 ELSE 0)
           /\ \A h : Is(m, WorksOf(h)) = (IF m.type \in {"work", "done", "result"} /\ m.h = h THEN 1 ELSE 0)
           /\ \A id : Is(m, UsesOf(id)) = (IF m.type \in {"work", "done"} /\ m.id = id THEN 1 ELSE 0)
           /\ m.type \notin {"need", "net_down", "shutdown"} => m.h \in Handles
           /\ m.type \in {"work", "done"} => m.id \in Ids
           /\ m.type = "init" => m.ok \in BOOLEAN /\ m = [type |-> "init", h |-> m.h, ok |-> m.ok]
           /\ m.type \in ToMain \cup {"need", "disconnect", "result"}
<1>1. /\ m.type \notin {"need", "net_down", "shutdown"} => m.h \in Handles
      /\ m.type \in {"work", "done"} => m.id \in Ids
      /\ m.type = "init" => m.ok \in BOOLEAN /\ m = [type |-> "init", h |-> m.h, ok |-> m.ok]
      /\ m.type \in ToMain \cup {"need", "disconnect", "result"}
  BY DEF Msgs, ToMain
<1> QED
  BY <1>1 DEF Is, StartsOf, WorksOf, UsesOf

LEMMA MsgsExist ==
    /\ \A type \in {"need", "net_down", "shutdown"} : [type |-> type] \in Msgs
    /\ \A type \in {"add", "remove", "immediate", "kick", "disconnect", "result"}, h \in Handles :
          [type |-> type, h |-> h] \in Msgs
    /\ \A type \in {"work", "done"}, h \in Handles, id \in Ids : [type |-> type, h |-> h, id |-> id] \in Msgs
    /\ \A h \in Handles, ok \in BOOLEAN : [type |-> "init", h |-> h, ok |-> ok] \in Msgs
BY DEF Msgs


\* The evaluator's share.
LEMMA EvalFinite ==
    ASSUME NetShape
    PROVE  /\ \A h : IsFiniteSet(EvalOf(h)) /\ Cardinality(EvalOf(h)) \in Nat
           /\ \A id : IsFiniteSet(EvalOn(id)) /\ Cardinality(EvalOn(id)) \in Nat
           /\ IsFiniteSet(evWork) /\ IsFiniteSet(evInit)
<1>1. IsFiniteSet(Handles) /\ IsFiniteSet(Ids)
  <2>1. IsFiniteSet(Handles) /\ MaxWork \in Int
    BY ServerAssumption
  <2>2. IsFiniteSet(1..MaxWork)
    BY <2>1, FS_Interval
  <2> QED
    BY <2>1, <2>2 DEF Ids
<1>2. IsFiniteSet(Handles \X Ids)
  BY <1>1, FS_Product
<1>3. IsFiniteSet(evWork) /\ IsFiniteSet(evInit)
  BY <1>1, <1>2, FS_Subset DEF NetShape
<1>4. (\A h : EvalOf(h) \subseteq evWork) /\ (\A id : EvalOn(id) \subseteq evWork)
  BY DEF EvalOf, EvalOn
<1>5. (\A h : IsFiniteSet(EvalOf(h))) /\ (\A id : IsFiniteSet(EvalOn(id)))
  BY <1>3, <1>4, FS_Subset
<1> QED
  BY <1>3, <1>5, FS_CardinalityType

LEMMA EvalGains ==
    ASSUME NetShape, NEW g \in Handles, NEW i \in Ids, <<g, i>> \notin evWork, evWork' = evWork \cup {<<g, i>>}
    PROVE  /\ \A h : Cardinality(EvalOf(h))' = Cardinality(EvalOf(h)) + (IF g = h THEN 1 ELSE 0)
           /\ \A id : Cardinality(EvalOn(id))' = Cardinality(EvalOn(id)) + (IF i = id THEN 1 ELSE 0)
<1>1. ASSUME NEW h PROVE Cardinality(EvalOf(h))' = Cardinality(EvalOf(h)) + (IF g = h THEN 1 ELSE 0)
  <2>1. EvalOf(h)' = IF g = h THEN EvalOf(h) \cup {<<g, i>>} ELSE EvalOf(h)
    BY DEF EvalOf
  <2>2. <<g, i>> \notin EvalOf(h) /\ IsFiniteSet(EvalOf(h)) /\ Cardinality(EvalOf(h)) \in Nat
    BY EvalFinite DEF EvalOf
  <2>3. Cardinality(EvalOf(h) \cup {<<g, i>>}) = Cardinality(EvalOf(h)) + 1
    BY <2>2, FS_AddElement
  <2> QED
    BY <2>1, <2>2, <2>3
<1>2. ASSUME NEW id PROVE Cardinality(EvalOn(id))' = Cardinality(EvalOn(id)) + (IF i = id THEN 1 ELSE 0)
  <2>1. EvalOn(id)' = IF i = id THEN EvalOn(id) \cup {<<g, i>>} ELSE EvalOn(id)
    BY DEF EvalOn
  <2>2. <<g, i>> \notin EvalOn(id) /\ IsFiniteSet(EvalOn(id)) /\ Cardinality(EvalOn(id)) \in Nat
    BY EvalFinite DEF EvalOn
  <2>3. Cardinality(EvalOn(id) \cup {<<g, i>>}) = Cardinality(EvalOn(id)) + 1
    BY <2>2, FS_AddElement
  <2> QED
    BY <2>1, <2>2, <2>3
<1> QED
  BY <1>1, <1>2

LEMMA EvalLoses ==
    ASSUME NetShape, NEW v \in evWork, evWork' = evWork \ {v}
    PROVE  /\ \A h : Cardinality(EvalOf(h))' = Cardinality(EvalOf(h)) - (IF v[1] = h THEN 1 ELSE 0)
           /\ \A id : Cardinality(EvalOn(id))' = Cardinality(EvalOn(id)) - (IF v[2] = id THEN 1 ELSE 0)
<1>1. ASSUME NEW h PROVE Cardinality(EvalOf(h))' = Cardinality(EvalOf(h)) - (IF v[1] = h THEN 1 ELSE 0)
  <2>1. EvalOf(h)' = IF v[1] = h THEN EvalOf(h) \ {v} ELSE EvalOf(h)
    BY DEF EvalOf
  <2>2. (v \in EvalOf(h) <=> v[1] = h) /\ IsFiniteSet(EvalOf(h)) /\ Cardinality(EvalOf(h)) \in Nat
    BY EvalFinite DEF EvalOf
  <2>3. v \in EvalOf(h) => Cardinality(EvalOf(h) \ {v}) = Cardinality(EvalOf(h)) - 1
    BY <2>2, FS_RemoveElement
  <2> QED
    BY <2>1, <2>2, <2>3
<1>2. ASSUME NEW id PROVE Cardinality(EvalOn(id))' = Cardinality(EvalOn(id)) - (IF v[2] = id THEN 1 ELSE 0)
  <2>1. EvalOn(id)' = IF v[2] = id THEN EvalOn(id) \ {v} ELSE EvalOn(id)
    BY DEF EvalOn
  <2>2. (v \in EvalOn(id) <=> v[2] = id) /\ IsFiniteSet(EvalOn(id)) /\ Cardinality(EvalOn(id)) \in Nat
    BY EvalFinite DEF EvalOn
  <2>3. v \in EvalOn(id) => Cardinality(EvalOn(id) \ {v}) = Cardinality(EvalOn(id)) - 1
    BY <2>2, FS_RemoveElement
  <2> QED
    BY <2>1, <2>2, <2>3
<1> QED
  BY <1>1, <1>2

LEMMA EvalSame ==
    ASSUME evWork' = evWork
    PROVE  /\ \A h : Cardinality(EvalOf(h))' = Cardinality(EvalOf(h))
           /\ \A id : Cardinality(EvalOn(id))' = Cardinality(EvalOn(id))
BY DEF EvalOf, EvalOn

\* A message in a queue is counted.
LEMMA TravelsThere ==
    ASSUME NetShape, NEW V
    PROVE  Travelling(V) = 0 <=> /\ \A i \in 1..Len(down) : down[i] \notin V
                                 /\ \A i \in 1..Len(mq) : mq[i] \notin V
                                 /\ \A i \in 1..Len(up) : up[i] \notin V
<1>1. /\ HowMany(down, V) = 0 <=> \A i \in 1..Len(down) : down[i] \notin V
      /\ HowMany(mq, V) = 0 <=> \A i \in 1..Len(mq) : mq[i] \notin V
      /\ HowMany(up, V) = 0 <=> \A i \in 1..Len(up) : up[i] \notin V
  BY HowManyNone DEF NetShape
<1>2. Travelling(V) = 0 <=> HowMany(down, V) = 0 /\ HowMany(mq, V) = 0 /\ HowMany(up, V) = 0
  BY TravelsInNat DEF Travelling
<1> QED
  BY <1>1, <1>2

-----------------------------------------------------------------------------
(* What each step does to the counts.                                      *)

SameTallies ==
    /\ \A h \in Handles : Starting(h)' = Starting(h) /\ Working(h)' = Working(h)
    /\ \A id \in Ids : Using(id)' = Using(id)

LEMMA Got ==
    ASSUME NetShape, NEW type, N!Get(type)
    PROVE  /\ mq # <<>> /\ mq' = Tail(mq) /\ Head(mq) \in Msgs /\ Head(mq).type = type
           /\ Head(mq) = mq[1] /\ 1 \in 1..Len(mq) /\ server # "down"
           /\ \A i \in 1..Len(Tail(mq)) : Tail(mq)[i] = mq[i + 1] /\ i + 1 \in 1..Len(mq)
<1>1. mq # <<>> /\ mq' = Tail(mq) /\ Head(mq).type = type /\ server # "down"
  BY DEF N!Get
<1>2. /\ Head(mq) \in Msgs /\ Head(mq) = mq[1] /\ Len(mq) \in Nat \ {0}
      /\ \A i \in 1..Len(Tail(mq)) : Tail(mq)[i] = mq[i + 1] /\ i + 1 \in 1..Len(mq)
  BY <1>1, TailFacts DEF NetShape
<1> QED
  BY <1>1, <1>2

LEMMA Heard ==
    ASSUME NetShape, up # <<>>
    PROVE  /\ Head(up) \in Msgs /\ Head(up) = up[1] /\ 1 \in 1..Len(up)
           /\ Head(up).type \in {"need", "init", "disconnect", "result"}
           /\ Head(up).type # "need" => Head(up).h \in Handles
           /\ \A i \in 1..Len(Tail(up)) : Tail(up)[i] = up[i + 1] /\ i + 1 \in 1..Len(up)
<1>1. /\ Head(up) \in Msgs /\ Head(up) = up[1] /\ Len(up) \in Nat \ {0}
      /\ \A i \in 1..Len(Tail(up)) : Tail(up)[i] = up[i + 1] /\ i + 1 \in 1..Len(up)
  BY TailFacts DEF NetShape
<1>2. 1 \in 1..Len(up)
  BY <1>1
<1>3. Head(up).type \in {"need", "init", "disconnect", "result"}
  BY <1>1, <1>2 DEF NetShape, Carries
<1> QED
  BY <1>1, <1>2, <1>3, MsgFacts

\* Nothing that is counted moves.
LEMMA QuietMove ==
    ASSUME NetShape, UNCHANGED <<evInit, evWork>>,
           \/ UNCHANGED <<down, mq, up>>
           \/ \E m \in Msgs : m.type \in Plain /\ down' = Append(down, m) /\ UNCHANGED <<mq, up>>
           \/ \E m \in Msgs : m.type \in Plain /\ mq' = Append(mq, m) /\ UNCHANGED <<down, up>>
           \/ mq # <<>> /\ mq' = Tail(mq) /\ Head(mq).type \in Plain /\ UNCHANGED <<down, up>>
           \/ /\ mq # <<>> /\ mq' = Tail(mq) /\ Head(mq).type \in Plain /\ down' = down
              /\ \E m \in Msgs : m.type \in Plain /\ up' = Append(up, m)
           \/ up # <<>> /\ up' = Tail(up) /\ Head(up).type \in Plain /\ UNCHANGED <<down, mq>>
    PROVE  SameTallies
<1>1. ASSUME NEW m \in Msgs, m.type \in Plain
      PROVE  /\ \A h : Is(m, StartsOf(h)) = 0 /\ Is(m, WorksOf(h)) = 0
             /\ \A id : Is(m, UsesOf(id)) = 0
  BY <1>1, MsgFacts DEF Plain
<1> DEFINE Still(V) == Travelling(V)' = Travelling(V)
<1>2. ASSUME NEW V, \A m \in Msgs : m.type \in Plain => Is(m, V) = 0 PROVE Still(V)
  <2>1. Travelling(V) \in Nat
    BY TravelsInNat
  <2>2. CASE UNCHANGED <<down, mq, up>>
    BY <2>2, TravelSame
  <2>3. ASSUME NEW m \in Msgs, m.type \in Plain, down' = Append(down, m), UNCHANGED <<mq, up>> PROVE Still(V)
    BY <1>2, <2>1, <2>3, TravelSaid
  <2>4. ASSUME NEW m \in Msgs, m.type \in Plain, mq' = Append(mq, m), UNCHANGED <<down, up>> PROVE Still(V)
    BY <1>2, <2>1, <2>4, TravelQueued
  <2>5. mq # <<>> => Head(mq) \in Msgs
    BY TailFacts DEF NetShape
  <2>6. CASE mq # <<>> /\ mq' = Tail(mq) /\ Head(mq).type \in Plain /\ UNCHANGED <<down, up>>
    BY <1>2, <2>1, <2>5, <2>6, TravelTaken
  <2>7. ASSUME mq # <<>>, mq' = Tail(mq), Head(mq).type \in Plain, down' = down,
               NEW m \in Msgs, m.type \in Plain, up' = Append(up, m)
        PROVE  Still(V)
    <3>1. Is(m, V) = 0 /\ Is(Head(mq), V) = 0
      BY <1>2, <2>5, <2>7
    <3>2. Travelling(V)' = Travelling(V) - Is(Head(mq), V) + Is(m, V)
      BY <2>7, TravelAnswered
    <3> QED
      BY <2>1, <3>1, <3>2
  <2>8. CASE up # <<>> /\ up' = Tail(up) /\ Head(up).type \in Plain /\ UNCHANGED <<down, mq>>
    <3>1. Is(Head(up), V) = 0
      BY <1>2, <2>8, Heard
    <3>2. Travelling(V)' = Travelling(V) - Is(Head(up), V)
      BY <2>8, TravelHeard
    <3> QED
      BY <2>1, <3>1, <3>2
  <2> QED
    BY <2>2, <2>3, <2>4, <2>6, <2>7, <2>8
<1>3. (\A h : Still(StartsOf(h)) /\ Still(WorksOf(h))) /\ (\A id : Still(UsesOf(id)))
  BY <1>1, <1>2
<1>4. (\A h : StartsOf(h)' = StartsOf(h) /\ WorksOf(h)' = WorksOf(h)) /\ (\A id : UsesOf(id)' = UsesOf(id))
  BY DEF StartsOf, WorksOf, UsesOf
<1> QED
  BY <1>3, <1>4, EvalSame DEF SameTallies, Starting, Working, Using

QuietStep ==
    \/ \E h \in Handles : N!ClientComes(h) \/ N!ClientGoes(h) \/ N!Kick(h) \/ N!ChooseRemove(h)
    \/ N!TakeCredit \/ N!HearNeed \/ N!HearDisconnect \/ N!NetThreadDisconnected \/ N!NetFails \/ N!WriteFails \/ N!Stop
    \/ N!HandleShutdown \/ N!HandleNetDown \/ N!HandleRemove \/ N!HandleKick

LEMMA QuietTallies ==
    ASSUME NetShape, QuietStep
    PROVE  SameTallies
<1>1. ASSUME NEW h \in Handles, N!ClientComes(h) \/ N!ClientGoes(h) PROVE SameTallies
  BY <1>1, QuietMove DEF N!ClientComes, N!ClientGoes
<1>2. ASSUME NEW h \in Handles, N!Kick(h) PROVE SameTallies
  <2>1. [type |-> "kick", h |-> h] \in Msgs /\ [type |-> "kick", h |-> h].type \in Plain
    BY MsgsExist DEF Plain
  <2> QED
    BY <1>2, <2>1, QuietMove DEF N!Kick, N!ctl
<1>3. ASSUME NEW h \in Handles, N!ChooseRemove(h) PROVE SameTallies
  <2>1. [type |-> "remove", h |-> h] \in Msgs /\ [type |-> "remove", h |-> h].type \in Plain
    BY MsgsExist DEF Plain
  <2> QED
    BY <1>3, <2>1, QuietMove DEF N!ChooseRemove, N!Say
<1>4. ASSUME N!TakeCredit \/ N!NetFails \/ N!WriteFails PROVE SameTallies
  BY <1>4, QuietMove DEF N!TakeCredit, N!NetFails, N!WriteFails
<1>5. ASSUME N!HearNeed \/ N!HearDisconnect PROVE SameTallies
  <2>1. up # <<>> /\ up' = Tail(up) /\ Head(up).type \in Plain /\ UNCHANGED <<down, mq, evInit, evWork>>
    BY <1>5 DEF N!HearNeed, N!HearDisconnect, N!Hear, N!CtlRest, Plain
  <2> QED
    BY <2>1, QuietMove
<1>6. ASSUME N!NetThreadDisconnected \/ N!Stop PROVE SameTallies
  <2>1. /\ [type |-> "net_down"] \in Msgs /\ [type |-> "net_down"].type \in Plain
        /\ [type |-> "shutdown"] \in Msgs /\ [type |-> "shutdown"].type \in Plain
    BY MsgsExist DEF Plain
  <2> QED
    BY <1>6, <2>1, QuietMove DEF N!NetThreadDisconnected, N!Stop
<1>7. ASSUME N!HandleShutdown \/ N!HandleNetDown \/ N!HandleRemove PROVE SameTallies
  <2>1. PICK type \in Plain : N!Get(type)
    BY <1>7 DEF N!HandleShutdown, N!HandleNetDown, N!HandleRemove, Plain
  <2>2. UNCHANGED <<down, up, evInit, evWork>>
    BY <1>7 DEF N!HandleShutdown, N!HandleNetDown, N!HandleRemove, N!MainRest
  <2> QED
    BY <2>1, <2>2, Got, QuietMove
<1>8. ASSUME N!HandleKick PROVE SameTallies
  <2>1. N!Get("kick") /\ UNCHANGED <<down, evInit, evWork>>
    BY <1>8 DEF N!HandleKick, N!MainRest
  <2>2. Head(mq).h \in Handles /\ mq # <<>> /\ mq' = Tail(mq) /\ Head(mq).type \in Plain
    BY <2>1, Got, MsgFacts DEF Plain
  <2>3. [type |-> "disconnect", h |-> Head(mq).h] \in Msgs /\ [type |-> "disconnect", h |-> Head(mq).h].type \in Plain
    BY <2>2, MsgsExist DEF Plain
  <2>4. up' = up \/ up' = Append(up, [type |-> "disconnect", h |-> Head(mq).h])
    BY <1>8 DEF N!HandleKick, N!Send
  <2> QED
    BY <2>1, <2>2, <2>3, <2>4, QuietMove
<1> QED
  BY <1>1, <1>2, <1>3, <1>4, <1>5, <1>6, <1>7, <1>8 DEF QuietStep

\* Something that is counted goes on.
LEMMA ReadTallies ==
    ASSUME NetShape, N!ReadLoop
    PROVE  SameTallies
<1>1. down # <<>> /\ down' = Tail(down) /\ UNCHANGED <<up, evInit, evWork>>
  BY DEF N!ReadLoop
<1>2. Head(down) \in Msgs
  BY <1>1, TailFacts DEF NetShape
<1>3. PICK m \in Msgs : /\ mq' = Append(mq, m)
                        /\ m = Head(down) \/ (m.type = "immediate" /\ Head(down).type = "add" /\ m.h = Head(down).h)
  <2>1. CASE mq' = Append(mq, Head(down))
    BY <1>2, <2>1
  <2>2. CASE Head(down).type = "add" /\ mq' = Append(mq, [type |-> "immediate", h |-> Head(down).h])
    <3>1. [type |-> "immediate", h |-> Head(down).h] \in Msgs
      BY <1>2, <2>2, MsgFacts, MsgsExist
    <3> QED
      BY <2>2, <3>1
  <2> QED
    BY <2>1, <2>2 DEF N!ReadLoop
<1>4. ASSUME NEW V, Is(m, V) = Is(Head(down), V) PROVE Travelling(V)' = Travelling(V)
  <2>1. Travelling(V)' = Travelling(V) - Is(Head(down), V) + Is(m, V)
    BY <1>1, <1>3, TravelRead
  <2>2. Is(m, V) \in Int /\ Travelling(V) \in Int
    BY TravelsInNat DEF Is
  <2> QED
    BY <1>4, <2>1, <2>2
<1>5. /\ \A h : Is(m, StartsOf(h)) = Is(Head(down), StartsOf(h)) /\ Is(m, WorksOf(h)) = Is(Head(down), WorksOf(h))
      /\ \A id : Is(m, UsesOf(id)) = Is(Head(down), UsesOf(id))
  <2>1. CASE m = Head(down)
    BY <2>1
  <2>2. CASE m.type = "immediate" /\ Head(down).type = "add" /\ m.h = Head(down).h
    BY <1>2, <2>2, MsgFacts
  <2> QED
    BY <1>3, <2>1, <2>2
<1>6. (\A h : Travelling(StartsOf(h))' = Travelling(StartsOf(h)) /\ Travelling(WorksOf(h))' = Travelling(WorksOf(h)))
      /\ (\A id : Travelling(UsesOf(id))' = Travelling(UsesOf(id)))
  <2>1. (\A h : StartsOf(h)' = StartsOf(h) /\ WorksOf(h)' = WorksOf(h)) /\ (\A id : UsesOf(id)' = UsesOf(id))
    BY DEF StartsOf, WorksOf, UsesOf
  <2> QED
    BY <1>4, <1>5
<1> QED
  BY <1>1, <1>6, EvalSame DEF SameTallies, Starting, Working, Using

LEMMA AddTallies ==
    ASSUME NetShape, N!HandleAdd, Head(mq).h \notin active, Head(mq).h \notin evInit
    PROVE  SameTallies
<1>1. N!Get("add") /\ UNCHANGED <<down, up, evWork>> /\ evInit' = evInit \cup {Head(mq).h}
  BY DEF N!HandleAdd, N!MainRest
<1>2. Head(mq) \in Msgs /\ Head(mq).type = "add" /\ mq # <<>> /\ mq' = Tail(mq)
  BY <1>1, Got
<1>3. \A V : Travelling(V)' = Travelling(V) - Is(Head(mq), V) /\ Travelling(V) \in Nat
  BY <1>1, <1>2, TravelTaken, TravelsInNat
<1>4. /\ \A h : Is(Head(mq), StartsOf(h)) = (IF Head(mq).h = h THEN 1 ELSE 0) /\ Is(Head(mq), WorksOf(h)) = 0
      /\ \A id : Is(Head(mq), UsesOf(id)) = 0
  BY <1>2, MsgFacts
<1>5. ASSUME NEW h \in Handles PROVE Starting(h)' = Starting(h)
  <2>1. Travelling(StartsOf(h))' = Travelling(StartsOf(h)) - (IF Head(mq).h = h THEN 1 ELSE 0)
    BY <1>3, <1>4
  <2>2. (h \in evInit') <=> (h \in evInit \/ Head(mq).h = h)
    BY <1>1
  <2>3. Starting(h)' = Travelling(StartsOf(h))' + (IF h \in evInit' THEN 1 ELSE 0)
    BY DEF Starting, StartsOf
  <2> QED
    BY <1>3, <2>1, <2>2, <2>3 DEF Starting
<1>6. ASSUME NEW h \in Handles PROVE Working(h)' = Working(h)
  <2>1. Travelling(WorksOf(h))' = Travelling(WorksOf(h))
    BY <1>3, <1>4
  <2> QED
    BY <1>1, <2>1, EvalSame DEF Working
<1>7. ASSUME NEW id \in Ids PROVE Using(id)' = Using(id)
  <2>1. Travelling(UsesOf(id))' = Travelling(UsesOf(id))
    BY <1>3, <1>4
  <2> QED
    BY <1>1, <2>1, EvalSame DEF Using
<1> QED
  BY <1>5, <1>6, <1>7 DEF SameTallies

LEMMA ImmediateTallies ==
    ASSUME NetShape, N!HandleImmediate
    PROVE  SameTallies
<1> DEFINE n == [type |-> "init", h |-> Head(mq).h, ok |-> FALSE]
<1>1. N!Get("immediate") /\ UNCHANGED <<down, evInit, evWork>> /\ up' = Append(up, n)
  BY DEF N!HandleImmediate, N!MainRest, N!Send
<1>2. Head(mq) \in Msgs /\ Head(mq).type = "immediate" /\ mq # <<>> /\ mq' = Tail(mq)
  BY <1>1, Got
<1>3. n \in Msgs /\ n.type = "init" /\ n.h = Head(mq).h
  BY <1>2, MsgFacts, MsgsExist
<1> HIDE DEF n
<1>4. ASSUME NEW V, Is(n, V) = Is(Head(mq), V) PROVE Travelling(V)' = Travelling(V)
  <2>1. Travelling(V)' = Travelling(V) - Is(Head(mq), V) + Is(n, V)
    BY <1>1, <1>2, <1>3, TravelAnswered
  <2>2. Is(n, V) \in Int /\ Travelling(V) \in Int
    BY TravelsInNat DEF Is
  <2> QED
    BY <1>4, <2>1, <2>2
<1>5. /\ \A h : Is(n, StartsOf(h)) = Is(Head(mq), StartsOf(h)) /\ Is(n, WorksOf(h)) = Is(Head(mq), WorksOf(h))
      /\ \A id : Is(n, UsesOf(id)) = Is(Head(mq), UsesOf(id))
  BY <1>2, <1>3, MsgFacts
<1> QED
  BY <1>1, <1>4, <1>5, EvalSame DEF SameTallies, Starting, Working, Using

LEMMA EvalInitTallies ==
    ASSUME NetShape, NEW g \in Handles, N!EvalInit(g)
    PROVE  SameTallies
<1>1. g \in evInit /\ evInit' = evInit \ {g} /\ UNCHANGED <<down, up, evWork>>
  BY DEF N!EvalInit
<1>2. PICK m \in Msgs : m.type = "init" /\ m.h = g /\ mq' = Append(mq, m)
  <2>1. \A ok \in BOOLEAN : [type |-> "init", h |-> g, ok |-> ok] \in Msgs
    BY MsgsExist
  <2> QED
    BY <2>1 DEF N!EvalInit
<1>3. \A V : Travelling(V)' = Travelling(V) + Is(m, V) /\ Travelling(V) \in Nat
  BY <1>1, <1>2, TravelQueued, TravelsInNat
<1>4. /\ \A h : Is(m, StartsOf(h)) = (IF g = h THEN 1 ELSE 0) /\ Is(m, WorksOf(h)) = 0
      /\ \A id : Is(m, UsesOf(id)) = 0
  BY <1>2, MsgFacts
<1>5. ASSUME NEW h \in Handles PROVE Starting(h)' = Starting(h)
  <2>1. Travelling(StartsOf(h))' = Travelling(StartsOf(h)) + (IF g = h THEN 1 ELSE 0)
    BY <1>3, <1>4
  <2>2. (h \in evInit') <=> (h \in evInit /\ g # h)
    BY <1>1
  <2>3. Starting(h)' = Travelling(StartsOf(h))' + (IF h \in evInit' THEN 1 ELSE 0)
    BY DEF Starting, StartsOf
  <2> QED
    BY <1>1, <1>3, <2>1, <2>2, <2>3 DEF Starting
<1>6. ASSUME NEW h \in Handles PROVE Working(h)' = Working(h)
  <2>1. Travelling(WorksOf(h))' = Travelling(WorksOf(h))
    BY <1>3, <1>4
  <2> QED
    BY <1>1, <2>1, EvalSame DEF Working
<1>7. ASSUME NEW id \in Ids PROVE Using(id)' = Using(id)
  <2>1. Travelling(UsesOf(id))' = Travelling(UsesOf(id))
    BY <1>3, <1>4
  <2> QED
    BY <1>1, <2>1, EvalSame DEF Using
<1> QED
  BY <1>5, <1>6, <1>7 DEF SameTallies

LEMMA EvalResultTallies ==
    ASSUME NetShape, NEW w \in evWork, N!EvalResult(w)
    PROVE  SameTallies
<1>1. evWork' = evWork \ {w} /\ UNCHANGED <<down, up, evInit>> /\ w[1] \in Handles /\ w[2] \in Ids
  BY DEF N!EvalResult, NetShape
<1>2. PICK m \in Msgs : m.type = "done" /\ m.h = w[1] /\ m.id = w[2] /\ mq' = Append(mq, m)
  <2>1. [type |-> "done", h |-> w[1], id |-> w[2]] \in Msgs
    BY <1>1, MsgsExist
  <2> QED
    BY <2>1 DEF N!EvalResult
<1>3. \A V : Travelling(V)' = Travelling(V) + Is(m, V) /\ Travelling(V) \in Nat
  BY <1>1, <1>2, TravelQueued, TravelsInNat
<1>4. /\ \A h : Is(m, WorksOf(h)) = (IF w[1] = h THEN 1 ELSE 0) /\ Is(m, StartsOf(h)) = 0
      /\ \A id : Is(m, UsesOf(id)) = (IF w[2] = id THEN 1 ELSE 0)
  BY <1>2, MsgFacts
<1>5. /\ \A h : Cardinality(EvalOf(h))' = Cardinality(EvalOf(h)) - (IF w[1] = h THEN 1 ELSE 0)
      /\ \A id : Cardinality(EvalOn(id))' = Cardinality(EvalOn(id)) - (IF w[2] = id THEN 1 ELSE 0)
  BY <1>1, EvalLoses
<1>6. ASSUME NEW h \in Handles PROVE Starting(h)' = Starting(h) /\ Working(h)' = Working(h)
  <2>1. /\ Travelling(StartsOf(h))' = Travelling(StartsOf(h))
        /\ Travelling(WorksOf(h))' = Travelling(WorksOf(h)) + (IF w[1] = h THEN 1 ELSE 0)
    BY <1>3, <1>4
  <2>2. Travelling(WorksOf(h)) \in Nat /\ Cardinality(EvalOf(h)) \in Nat
    BY <1>3, EvalFinite
  <2>3. Working(h)' = Working(h)
    BY <1>5, <2>1, <2>2 DEF Working
  <2> QED
    BY <1>1, <2>1, <2>3 DEF Starting
<1>7. ASSUME NEW id \in Ids PROVE Using(id)' = Using(id)
  <2>1. Travelling(UsesOf(id))' = Travelling(UsesOf(id)) + (IF w[2] = id THEN 1 ELSE 0)
    BY <1>3, <1>4
  <2>2. Travelling(UsesOf(id)) \in Nat /\ Cardinality(EvalOn(id)) \in Nat
    BY <1>3, EvalFinite
  <2> QED
    BY <1>5, <2>1, <2>2 DEF Using
<1> QED
  BY <1>6, <1>7 DEF SameTallies

\* Something is chosen, ...
LEMMA ChooseTallies ==
    ASSUME NetShape, NEW g \in Handles, N!ChooseAdd(g) \/ N!ChooseWork(g)
    PROVE  /\ N!ChooseAdd(g) =>
                 /\ \A h \in Handles : /\ Starting(h)' = Starting(h) + (IF g = h THEN 1 ELSE 0)
                                       /\ Working(h)' = Working(h)
                 /\ \A id \in Ids : Using(id)' = Using(id)
           /\ N!ChooseWork(g) =>
                 /\ \A h \in Handles : /\ Starting(h)' = Starting(h)
                                       /\ Working(h)' = Working(h) + (IF g = h THEN 1 ELSE 0)
                 /\ \A id \in Ids : Using(id)' = Using(id) + (IF id = next_work_id THEN 1 ELSE 0)
<1>1. UNCHANGED <<mq, up, evInit, evWork>>
  BY DEF N!ChooseAdd, N!ChooseWork
<1>2. ASSUME N!ChooseAdd(g)
      PROVE  /\ \A h \in Handles : /\ Starting(h)' = Starting(h) + (IF g = h THEN 1 ELSE 0)
                                   /\ Working(h)' = Working(h)
             /\ \A id \in Ids : Using(id)' = Using(id)
  <2>1. PICK m \in Msgs : m.type = "add" /\ m.h = g /\ down' = Append(down, m)
    <3>1. [type |-> "add", h |-> g] \in Msgs
      BY MsgsExist
    <3> QED
      BY <1>2, <3>1 DEF N!ChooseAdd, N!Say
  <2>2. \A V : Travelling(V)' = Travelling(V) + Is(m, V) /\ Travelling(V) \in Nat
    BY <1>1, <2>1, TravelSaid, TravelsInNat
  <2>3. /\ \A h : Is(m, StartsOf(h)) = (IF g = h THEN 1 ELSE 0) /\ Is(m, WorksOf(h)) = 0
        /\ \A id : Is(m, UsesOf(id)) = 0
    BY <2>1, MsgFacts
  <2>4. /\ \A h : /\ Travelling(StartsOf(h))' = Travelling(StartsOf(h)) + (IF g = h THEN 1 ELSE 0)
                  /\ Travelling(WorksOf(h))' = Travelling(WorksOf(h))
        /\ \A id : Travelling(UsesOf(id))' = Travelling(UsesOf(id))
    BY <2>2, <2>3
  <2>5. \A h \in Handles : Starting(h)' = Starting(h) + (IF g = h THEN 1 ELSE 0)
    BY <1>1, <2>2, <2>4 DEF Starting
  <2> QED
    BY <1>1, <2>4, <2>5, EvalSame DEF Working, Using
<1>3. ASSUME N!ChooseWork(g)
      PROVE  /\ \A h \in Handles : /\ Starting(h)' = Starting(h)
                                   /\ Working(h)' = Working(h) + (IF g = h THEN 1 ELSE 0)
             /\ \A id \in Ids : Using(id)' = Using(id) + (IF id = next_work_id THEN 1 ELSE 0)
  <2>0. next_work_id \in Ids
    BY <1>3, ServerAssumption DEF N!ChooseWork, NetShape, Ids
  <2>1. PICK m \in Msgs : m.type = "work" /\ m.h = g /\ m.id = next_work_id /\ down' = Append(down, m)
    <3>1. [type |-> "work", h |-> g, id |-> next_work_id] \in Msgs
      BY <2>0, MsgsExist
    <3> QED
      BY <1>3, <3>1 DEF N!ChooseWork, N!Say
  <2>2. \A V : Travelling(V)' = Travelling(V) + Is(m, V) /\ Travelling(V) \in Nat
    BY <1>1, <2>1, TravelSaid, TravelsInNat
  <2>3. /\ \A h : Is(m, WorksOf(h)) = (IF g = h THEN 1 ELSE 0) /\ Is(m, StartsOf(h)) = 0
        /\ \A id : Is(m, UsesOf(id)) = (IF id = next_work_id THEN 1 ELSE 0)
    BY <2>1, MsgFacts
  <2>4. /\ \A h : /\ Travelling(StartsOf(h))' = Travelling(StartsOf(h))
                  /\ Travelling(WorksOf(h))' = Travelling(WorksOf(h)) + (IF g = h THEN 1 ELSE 0)
        /\ \A id : Travelling(UsesOf(id))' = Travelling(UsesOf(id)) + (IF id = next_work_id THEN 1 ELSE 0)
    BY <2>2, <2>3
  <2>5. \A h \in Handles : Working(h)' = Working(h) + (IF g = h THEN 1 ELSE 0)
    BY <1>1, <2>2, <2>4, EvalSame, EvalFinite DEF Working
  <2>6. \A id \in Ids : Using(id)' = Using(id) + (IF id = next_work_id THEN 1 ELSE 0)
    BY <1>1, <2>2, <2>4, EvalSame, EvalFinite DEF Using
  <2> QED
    BY <1>1, <2>4, <2>5, <2>6 DEF Starting
<1> QED
  BY <1>2, <1>3

\* ... is heard by the controller, ...
LEMMA HearTallies ==
    ASSUME NetShape, up # <<>>, up' = Tail(up), UNCHANGED <<down, mq, evInit, evWork>>
    PROVE  /\ \A h \in Handles :
                 /\ Starting(h)' = Starting(h) - (IF Head(up).type = "init" /\ Head(up).h = h THEN 1 ELSE 0)
                 /\ Working(h)' = Working(h) - (IF Head(up).type = "result" /\ Head(up).h = h THEN 1 ELSE 0)
           /\ \A id \in Ids : Using(id)' = Using(id)
<1>1. Head(up) \in Msgs /\ Head(up).type \in {"need", "init", "disconnect", "result"}
  BY Heard
<1>2. \A V : Travelling(V)' = Travelling(V) - Is(Head(up), V) /\ Travelling(V) \in Nat
  BY TravelHeard, TravelsInNat
<1>3. /\ \A h : /\ Is(Head(up), StartsOf(h)) = (IF Head(up).type = "init" /\ Head(up).h = h THEN 1 ELSE 0)
                /\ Is(Head(up), WorksOf(h)) = (IF Head(up).type = "result" /\ Head(up).h = h THEN 1 ELSE 0)
      /\ \A id : Is(Head(up), UsesOf(id)) = 0
  BY <1>1, MsgFacts
<1>4. /\ \A h : /\ Travelling(StartsOf(h))' = Travelling(StartsOf(h)) - (IF Head(up).type = "init" /\ Head(up).h = h THEN 1 ELSE 0)
                /\ Travelling(WorksOf(h))' = Travelling(WorksOf(h)) - (IF Head(up).type = "result" /\ Head(up).h = h THEN 1 ELSE 0)
      /\ \A id : Travelling(UsesOf(id))' = Travelling(UsesOf(id))
  BY <1>2, <1>3
<1>5. \A h \in Handles : Starting(h)' = Starting(h) - (IF Head(up).type = "init" /\ Head(up).h = h THEN 1 ELSE 0)
  BY <1>2, <1>4 DEF Starting
<1>6. \A h \in Handles : Working(h)' = Working(h) - (IF Head(up).type = "result" /\ Head(up).h = h THEN 1 ELSE 0)
  BY <1>2, <1>4, EvalSame, EvalFinite DEF Working
<1> QED
  BY <1>4, <1>5, <1>6, EvalSame DEF Using

\* ... or is answered by the main loop.
LEMMA WorkTallies ==
    ASSUME NetShape, N!HandleWork, Head(mq).h \in active => <<Head(mq).h, Head(mq).id>> \notin evWork
    PROVE  /\ Head(mq).h \in active => SameTallies
           /\ Head(mq).h \notin active =>
                 /\ \A h \in Handles : /\ Starting(h)' = Starting(h)
                                       /\ Working(h)' = Working(h) - (IF Head(mq).h = h THEN 1 ELSE 0)
                 /\ \A id \in Ids : Using(id)' = Using(id) - (IF Head(mq).id = id THEN 1 ELSE 0)
<1>1. N!Get("work") /\ UNCHANGED <<down, evInit>>
  BY DEF N!HandleWork, N!MainRest
<1>2. Head(mq) \in Msgs /\ Head(mq).type = "work" /\ mq # <<>> /\ mq' = Tail(mq)
  BY <1>1, Got
<1>3. /\ \A h : Is(Head(mq), WorksOf(h)) = (IF Head(mq).h = h THEN 1 ELSE 0) /\ Is(Head(mq), StartsOf(h)) = 0
      /\ \A id : Is(Head(mq), UsesOf(id)) = (IF Head(mq).id = id THEN 1 ELSE 0)
      /\ Head(mq).h \in Handles /\ Head(mq).id \in Ids
  BY <1>2, MsgFacts
<1>4. ASSUME Head(mq).h \in active PROVE SameTallies
  <2>1. up' = up /\ evWork' = evWork \cup {<<Head(mq).h, Head(mq).id>>}
    BY <1>4 DEF N!HandleWork
  <2>2. \A V : Travelling(V)' = Travelling(V) - Is(Head(mq), V) /\ Travelling(V) \in Nat
    BY <1>1, <1>2, <2>1, TravelTaken, TravelsInNat
  <2>3. /\ \A h : Cardinality(EvalOf(h))' = Cardinality(EvalOf(h)) + (IF Head(mq).h = h THEN 1 ELSE 0)
        /\ \A id : Cardinality(EvalOn(id))' = Cardinality(EvalOn(id)) + (IF Head(mq).id = id THEN 1 ELSE 0)
    BY <1>3, <1>4, <2>1, EvalGains
  <2>4. /\ \A h : /\ Travelling(StartsOf(h))' = Travelling(StartsOf(h))
                  /\ Travelling(WorksOf(h))' = Travelling(WorksOf(h)) - (IF Head(mq).h = h THEN 1 ELSE 0)
        /\ \A id : Travelling(UsesOf(id))' = Travelling(UsesOf(id)) - (IF Head(mq).id = id THEN 1 ELSE 0)
    BY <1>3, <2>2
  <2>5. \A h \in Handles : Working(h)' = Working(h)
    BY <2>2, <2>3, <2>4, EvalFinite DEF Working
  <2>6. \A id \in Ids : Using(id)' = Using(id)
    BY <2>2, <2>3, <2>4, EvalFinite DEF Using
  <2> QED
    BY <1>1, <2>4, <2>5, <2>6 DEF SameTallies, Starting
<1>5. ASSUME Head(mq).h \notin active
      PROVE  /\ \A h \in Handles : /\ Starting(h)' = Starting(h)
                                   /\ Working(h)' = Working(h) - (IF Head(mq).h = h THEN 1 ELSE 0)
             /\ \A id \in Ids : Using(id)' = Using(id) - (IF Head(mq).id = id THEN 1 ELSE 0)
  <2>1. PICK n \in Msgs : n.type = "need" /\ up' = Append(up, n)
    <3>1. [type |-> "need"] \in Msgs
      BY MsgsExist
    <3> QED
      BY <1>5, <3>1 DEF N!HandleWork, N!need_work, N!Send
  <2>2. \A V : Travelling(V)' = Travelling(V) - Is(Head(mq), V) + Is(n, V) /\ Travelling(V) \in Nat
    BY <1>1, <1>2, <2>1, TravelAnswered, TravelsInNat
  <2>3. (\A h : Is(n, WorksOf(h)) = 0 /\ Is(n, StartsOf(h)) = 0) /\ (\A id : Is(n, UsesOf(id)) = 0)
    BY <2>1, MsgFacts
  <2>4. /\ \A h : /\ Travelling(StartsOf(h))' = Travelling(StartsOf(h))
                  /\ Travelling(WorksOf(h))' = Travelling(WorksOf(h)) - (IF Head(mq).h = h THEN 1 ELSE 0)
        /\ \A id : Travelling(UsesOf(id))' = Travelling(UsesOf(id)) - (IF Head(mq).id = id THEN 1 ELSE 0)
    BY <1>3, <2>2, <2>3
  <2>5. evWork' = evWork
    BY <1>5 DEF N!HandleWork
  <2>6. \A h \in Handles : Working(h)' = Working(h) - (IF Head(mq).h = h THEN 1 ELSE 0)
    BY <2>2, <2>4, <2>5, EvalSame, EvalFinite DEF Working
  <2>7. \A id \in Ids : Using(id)' = Using(id) - (IF Head(mq).id = id THEN 1 ELSE 0)
    BY <2>2, <2>4, <2>5, EvalSame, EvalFinite DEF Using
  <2> QED
    BY <1>1, <2>4, <2>6, <2>7 DEF Starting
<1> QED
  BY <1>4, <1>5

LEMMA InitTallies ==
    ASSUME NetShape, N!HandleInit
    PROVE  /\ \A h \in Handles :
                 /\ Starting(h)' = Starting(h) - (IF Head(mq).h = h /\ h \notin active THEN 1 ELSE 0)
                 /\ Working(h)' = Working(h)
           /\ \A id \in Ids : Using(id)' = Using(id)
<1>1. N!Get("init") /\ UNCHANGED <<down, evInit, evWork>>
  BY DEF N!HandleInit, N!MainRest
<1>2. Head(mq) \in Msgs /\ Head(mq).type = "init" /\ mq # <<>> /\ mq' = Tail(mq)
  BY <1>1, Got
<1>3. /\ \A h : Is(Head(mq), StartsOf(h)) = (IF Head(mq).h = h THEN 1 ELSE 0) /\ Is(Head(mq), WorksOf(h)) = 0
      /\ \A id : Is(Head(mq), UsesOf(id)) = 0
  BY <1>2, MsgFacts
<1>4. PICK n \in Msgs : /\ up' = Append(up, n)
                        /\ n.type \in {"need", "init"}
                        /\ Head(mq).h \in active <=> n.type = "init"
                        /\ Head(mq).h \in active => n.h = Head(mq).h
  <2>1. /\ [type |-> "need"] \in Msgs
        /\ [type |-> "init", h |-> Head(mq).h, ok |-> Head(mq).ok] \in Msgs
    BY <1>2, MsgFacts, MsgsExist
  <2> QED
    BY <2>1 DEF N!HandleInit, N!need_work, N!Send
<1>5. /\ \A h : Is(n, StartsOf(h)) = (IF Head(mq).h = h /\ Head(mq).h \in active THEN 1 ELSE 0) /\ Is(n, WorksOf(h)) = 0
      /\ \A id : Is(n, UsesOf(id)) = 0
  BY <1>4, MsgFacts
<1>6. \A V : Travelling(V)' = Travelling(V) - Is(Head(mq), V) + Is(n, V) /\ Travelling(V) \in Nat
  BY <1>1, <1>2, <1>4, TravelAnswered, TravelsInNat
<1>7. /\ \A h : /\ Travelling(StartsOf(h))' = Travelling(StartsOf(h)) - (IF Head(mq).h = h /\ h \notin active THEN 1 ELSE 0)
                /\ Travelling(WorksOf(h))' = Travelling(WorksOf(h))
      /\ \A id : Travelling(UsesOf(id))' = Travelling(UsesOf(id))
  BY <1>3, <1>5, <1>6
<1>8. \A h \in Handles : Starting(h)' = Starting(h) - (IF Head(mq).h = h /\ h \notin active THEN 1 ELSE 0)
  BY <1>1, <1>6, <1>7 DEF Starting
<1> QED
  BY <1>1, <1>7, <1>8, EvalSame DEF Working, Using

LEMMA DoneTallies ==
    ASSUME NetShape, N!HandleWorkDone, Head(mq).id \in time_starts
    PROVE  /\ \A h \in Handles :
                 /\ Starting(h)' = Starting(h)
                 /\ Working(h)' = Working(h) - (IF Head(mq).h = h /\ h \notin active THEN 1 ELSE 0)
           /\ \A id \in Ids : Using(id)' = Using(id) - (IF Head(mq).id = id THEN 1 ELSE 0)
<1>1. N!Get("done") /\ UNCHANGED <<down, evInit, evWork>>
  BY DEF N!HandleWorkDone, N!MainRest
<1>2. Head(mq) \in Msgs /\ Head(mq).type = "done" /\ mq # <<>> /\ mq' = Tail(mq)
  BY <1>1, Got
<1>3. /\ \A h : Is(Head(mq), WorksOf(h)) = (IF Head(mq).h = h THEN 1 ELSE 0) /\ Is(Head(mq), StartsOf(h)) = 0
      /\ \A id : Is(Head(mq), UsesOf(id)) = (IF Head(mq).id = id THEN 1 ELSE 0)
  BY <1>2, MsgFacts
<1>4. PICK n \in Msgs : /\ up' = Append(up, n)
                        /\ n.type \in {"need", "result"}
                        /\ Head(mq).h \in active <=> n.type = "result"
                        /\ Head(mq).h \in active => n.h = Head(mq).h
  <2>1. /\ [type |-> "need"] \in Msgs
        /\ [type |-> "result", h |-> Head(mq).h] \in Msgs
    BY <1>2, MsgFacts, MsgsExist
  <2> QED
    BY <2>1 DEF N!HandleWorkDone, N!need_work, N!Send
<1>5. /\ \A h : Is(n, WorksOf(h)) = (IF Head(mq).h = h /\ Head(mq).h \in active THEN 1 ELSE 0) /\ Is(n, StartsOf(h)) = 0
      /\ \A id : Is(n, UsesOf(id)) = 0
  BY <1>4, MsgFacts
<1>6. \A V : Travelling(V)' = Travelling(V) - Is(Head(mq), V) + Is(n, V) /\ Travelling(V) \in Nat
  BY <1>1, <1>2, <1>4, TravelAnswered, TravelsInNat
<1>7. /\ \A h : /\ Travelling(WorksOf(h))' = Travelling(WorksOf(h)) - (IF Head(mq).h = h /\ h \notin active THEN 1 ELSE 0)
                /\ Travelling(StartsOf(h))' = Travelling(StartsOf(h))
      /\ \A id : Travelling(UsesOf(id))' = Travelling(UsesOf(id)) - (IF Head(mq).id = id THEN 1 ELSE 0)
  BY <1>3, <1>5, <1>6
<1>8. \A h \in Handles : Working(h)' = Working(h) - (IF Head(mq).h = h /\ h \notin active THEN 1 ELSE 0)
  BY <1>1, <1>6, <1>7, EvalSame, EvalFinite DEF Working
<1>9. \A id \in Ids : Using(id)' = Using(id) - (IF Head(mq).id = id THEN 1 ELSE 0)
  BY <1>1, <1>6, <1>7, EvalSame, EvalFinite DEF Using
<1> QED
  BY <1>1, <1>7, <1>8, <1>9 DEF Starting

-----------------------------------------------------------------------------
(* What the invariant tells the main loop of the message it takes.         *)

LEMMA HeadIsCounted ==
    ASSUME NetShape, NEW type, N!Get(type), NEW V, Head(mq) \in V
    PROVE  Travelling(V) \in Nat \ {0}
<1>1. \E i \in 1..Len(mq) : mq[i] \in V
  BY Got
<1>2. Travelling(V) # 0
  BY <1>1, TravelsThere
<1> QED
  BY <1>2, TravelsInNat

LEMMA AddIsNews ==
    ASSUME NetShape, JobsFit, MessagesTell, N!Get("add") \/ N!Get("immediate")
    PROVE  /\ Head(mq).h \in Handles /\ Head(mq).h \notin active /\ Head(mq).h \notin shown
           /\ Head(mq).h \notin evInit /\ ev[Head(mq).h] = "none" /\ Starting(Head(mq).h) = 1
<1>1. PICK type \in {"add", "immediate"} : N!Get(type)
  OBVIOUS
<1>2. Head(mq) \in Msgs /\ Head(mq).type = type /\ Head(mq) = mq[1] /\ 1 \in 1..Len(mq)
  BY <1>1, Got
<1>3. PICK h \in Handles : h = Head(mq).h
  BY <1>2, MsgFacts
<1>4. Tells(Head(mq))
  BY <1>2 DEF MessagesTell
<1>5. ev[h] = "none" /\ h \notin shown /\ h \notin active
  BY <1>2, <1>3, <1>4 DEF Tells, NetShape
<1>6. Travelling(StartsOf(h)) \in Nat \ {0}
  <2>1. Head(mq) \in StartsOf(h)
    BY <1>2, <1>3 DEF StartsOf
  <2> QED
    BY <1>1, <2>1, HeadIsCounted
<1>7. Starting(h) <= 1
  BY DEF JobsFit, JobFits
<1>8. h \notin evInit /\ Starting(h) = 1
  BY <1>6, <1>7 DEF Starting
<1> QED
  BY <1>3, <1>5, <1>8

LEMMA WorkIsNews ==
    ASSUME NetShape, IdsOnce, N!Get("work")
    PROVE  /\ Head(mq).h \in Handles /\ Head(mq).id \in Ids
           /\ <<Head(mq).h, Head(mq).id>> \notin evWork
<1>1. Head(mq) \in Msgs /\ Head(mq).type = "work"
  BY Got
<1>2. Head(mq).h \in Handles
  BY <1>1, MsgFacts
<1>3. PICK id \in Ids : id = Head(mq).id
  BY <1>1, MsgFacts
<1>4. Travelling(UsesOf(id)) \in Nat \ {0}
  <2>1. Head(mq) \in UsesOf(id)
    BY <1>1, <1>3 DEF UsesOf
  <2> QED
    BY <2>1, HeadIsCounted
<1>5. Using(id) <= 1 /\ Cardinality(EvalOn(id)) \in Nat
  BY EvalFinite DEF IdsOnce
<1>6. Cardinality(EvalOn(id)) = 0
  BY <1>4, <1>5 DEF Using
<1>7. EvalOn(id) = {}
  BY <1>6, EvalFinite, FS_EmptySet
<1> QED
  BY <1>2, <1>3, <1>7 DEF EvalOn

LEMMA DoneIsTimed ==
    ASSUME NetShape, IdsOnce, N!Get("done")
    PROVE  /\ Head(mq).h \in Handles /\ Head(mq).id \in Ids /\ Head(mq).id \in time_starts
<1>1. Head(mq) \in Msgs /\ Head(mq).type = "done" /\ Head(mq) = mq[1] /\ 1 \in 1..Len(mq)
  BY Got
<1>2. Head(mq).h \in Handles /\ Head(mq).id \in Ids
  BY <1>1, MsgFacts
<1>3. Head(mq).id \in {mq[i].id : i \in {j \in 1..Len(mq) : mq[j].type = "done"}}
  BY <1>1
<1> QED
  BY <1>2, <1>3 DEF IdsOnce

-----------------------------------------------------------------------------
(* The controller's count is a sum.                                        *)

Pairs(f) == UNION {{h} \X (1..f[h]) : h \in Handles}

LEMMA PairsFinite ==
    ASSUME NEW f \in [Handles -> Nat], NEW n \in Nat, \A h \in Handles : f[h] <= n
    PROVE  IsFiniteSet(Pairs(f)) /\ Cardinality(Pairs(f)) \in Nat
<1>1. Pairs(f) \subseteq Handles \X (1..n)
  <2>1. \A h \in Handles : 1..f[h] \subseteq 1..n
    OBVIOUS
  <2> QED
    BY <2>1 DEF Pairs
<1>2. IsFiniteSet(Handles) /\ IsFiniteSet(1..n)
  BY ServerAssumption, FS_Interval
<1>3. IsFiniteSet(Handles \X (1..n))
  BY <1>2, FS_Product
<1>4. IsFiniteSet(Pairs(f))
  BY <1>1, <1>3, FS_Subset
<1> QED
  BY <1>4, FS_CardinalityType

LEMMA PairsMore ==
    ASSUME NEW f \in [Handles -> Nat], NEW n \in Nat, \A h \in Handles : f[h] <= n, NEW g \in Handles
    PROVE  Cardinality(Pairs([f EXCEPT ![g] = @ + 1])) = Cardinality(Pairs(f)) + 1
<1>0. f[g] + 1 \in Nat
  OBVIOUS
<1>1. PICK k \in [Handles -> Nat] : k = [f EXCEPT ![g] = @ + 1]
  BY <1>0
<1>2. k[g] = f[g] + 1 /\ \A h \in Handles : h # g => k[h] = f[h]
  BY <1>1
<1>3. 1..k[g] = (1..f[g]) \cup {f[g] + 1}
  BY <1>2
<1>4. Pairs(k) = Pairs(f) \cup {<<g, f[g] + 1>>}
  BY <1>2, <1>3 DEF Pairs
<1>5. <<g, f[g] + 1>> \notin Pairs(f)
  <2>1. f[g] + 1 \notin 1..f[g]
    OBVIOUS
  <2> QED
    BY <2>1 DEF Pairs
<1>6. IsFiniteSet(Pairs(f))
  BY PairsFinite
<1>7. Cardinality(Pairs(f) \cup {<<g, f[g] + 1>>}) = Cardinality(Pairs(f)) + 1
  BY <1>5, <1>6, FS_AddElement
<1> QED
  BY <1>1, <1>4, <1>7

LEMMA PairsLess ==
    ASSUME NEW f \in [Handles -> Nat], NEW n \in Nat, \A h \in Handles : f[h] <= n, NEW g \in Handles, f[g] > 0
    PROVE  Cardinality(Pairs([f EXCEPT ![g] = @ - 1])) = Cardinality(Pairs(f)) - 1
<1>0. f[g] - 1 \in Nat
  OBVIOUS
<1>1. PICK k \in [Handles -> Nat] : k = [f EXCEPT ![g] = @ - 1]
  BY <1>0
<1>2. k[g] = f[g] - 1 /\ \A h \in Handles : h # g => k[h] = f[h]
  BY <1>1
<1>3. f = [k EXCEPT ![g] = @ + 1]
  <2>1. k[g] + 1 = f[g]
    BY <1>2
  <2> QED
    BY <1>1, <2>1
<1>4. \A h \in Handles : k[h] <= n
  BY <1>2
<1>5. Cardinality(Pairs([k EXCEPT ![g] = @ + 1])) = Cardinality(Pairs(k)) + 1
  BY <1>4, PairsMore
<1>6. Cardinality(Pairs(k)) \in Nat
  BY <1>4, PairsFinite
<1> QED
  BY <1>1, <1>3, <1>5, <1>6

LEMMA PairsNone ==
    ASSUME NEW f \in [Handles -> Nat], NEW n \in Nat, \A h \in Handles : f[h] <= n, NEW g \in Handles
    PROVE  Cardinality(Pairs([f EXCEPT ![g] = 0])) = Cardinality(Pairs(f)) - f[g]
<1>1. PICK k \in [Handles -> Nat] : k = [f EXCEPT ![g] = 0]
  OBVIOUS
<1>2. k[g] = 0 /\ \A h \in Handles : h # g => k[h] = f[h]
  BY <1>1
<1> DEFINE G == {g} \X (1..f[g])
<1>3. Pairs(f) = Pairs(k) \cup G /\ Pairs(k) \cap G = {}
  BY <1>2 DEF Pairs
<1>4. \A h \in Handles : k[h] <= n
  BY <1>2
<1>5. IsFiniteSet(Pairs(k)) /\ Cardinality(Pairs(k)) \in Nat
  BY <1>4, PairsFinite
<1>6. IsFiniteSet(G) /\ Cardinality(G) = f[g]
  <2>1. IsFiniteSet({g}) /\ Cardinality({g}) = 1
    BY FS_Singleton
  <2>2. IsFiniteSet(1..f[g]) /\ Cardinality(1..f[g]) = f[g]
    BY FS_Interval
  <2>3. IsFiniteSet(G) /\ Cardinality(G) = Cardinality({g}) * Cardinality(1..f[g])
    BY <2>1, <2>2, FS_Product
  <2> QED
    BY <2>1, <2>2, <2>3
<1> HIDE DEF G
<1>7. Cardinality(Pairs(k) \cup G) = Cardinality(Pairs(k)) + Cardinality(G) - Cardinality(Pairs(k) \cap G)
  BY <1>5, <1>6, FS_Union
<1>8. Cardinality(Pairs(k) \cap G) = 0
  BY <1>3, FS_EmptySet
<1> QED
  BY <1>1, <1>3, <1>5, <1>6, <1>7, <1>8

LEMMA NetCardinality == \A A : N!Cardinality(A) = Cardinality(A)
BY DEF N!Cardinality, Cardinality

\* What the controller hears.
LEMMA HearFacts ==
    ASSUME NetShape, NEW type \in {"need", "init", "disconnect", "result"}, N!Hear(type)
    PROVE  /\ up # <<>> /\ up' = Tail(up) /\ Head(up) \in Msgs /\ Head(up).type = type
           /\ type # "need" => Head(up).h \in Handles
           /\ type = "init" /\ N!Known(Head(up).h) => job[Head(up).h] = "loading"
           /\ type \in {"disconnect", "result"} /\ N!Known(Head(up).h) => job[Head(up).h] = "loaded"
<1>1. up # <<>> /\ Head(up).type = type /\ ~ N!Misfit(Head(up)) /\ up' = Tail(up)
  BY DEF N!Hear
<1> QED
  BY <1>1, Heard DEF N!Misfit, N!Expected

LEMMA ResultIsCounted ==
    ASSUME NetShape, JobsFit, N!HearResult, N!Known(Head(up).h)
    PROVE  /\ Head(up).h \in Handles /\ job[Head(up).h] = "loaded" /\ active_work[Head(up).h] \in Nat \ {0}
<1>1. N!Hear("result")
  BY DEF N!HearResult
<1>2. Head(up) \in Msgs /\ Head(up).type = "result" /\ up # <<>> /\ job[Head(up).h] = "loaded"
  BY <1>1, HearFacts
<1>3. PICK h \in Handles : h = Head(up).h
  BY <1>1, HearFacts
<1>4. Travelling(WorksOf(h)) \in Nat \ {0}
  <2>1. Head(up) \in WorksOf(h) /\ Head(up) = up[1] /\ 1 \in 1..Len(up)
    BY <1>2, <1>3, Heard DEF WorksOf
  <2> QED
    BY <2>1, TravelsThere, TravelsInNat
<1>5. Working(h) \in Nat \ {0}
  BY <1>4, EvalFinite DEF Working
<1>6. Working(h) <= active_work[h] /\ active_work[h] \in Nat
  BY <1>2, <1>3 DEF JobsFit, JobFits, NetShape
<1> QED
  BY <1>2, <1>3, <1>5, <1>6

\* The steps that leave the controller's counts alone.
LEMMA CountsUnmoved ==
    ASSUME N!Next, ~ N!HearResult, ~ N!HearDisconnect, \A h \in Handles : ~ N!ChooseWork(h) /\ ~ N!ChooseRemove(h)
    PROVE  UNCHANGED <<active_work, total_work, next_work_id>>
<1>1. ASSUME NEW h \in Handles, N!ClientComes(h) \/ N!ClientGoes(h) \/ N!Kick(h) \/ N!ChooseAdd(h) \/ N!EvalInit(h)
      PROVE  UNCHANGED <<active_work, total_work, next_work_id>>
  BY <1>1 DEF N!ClientComes, N!ClientGoes, N!Kick, N!ChooseAdd, N!EvalInit, N!ctl
<1>2. ASSUME NEW w \in evWork, N!EvalResult(w) PROVE UNCHANGED <<active_work, total_work, next_work_id>>
  BY <1>2 DEF N!EvalResult, N!ctl
<1>3. ASSUME N!TakeCredit \/ N!HearMisfit \/ N!HearNeed \/ N!HearInit
      PROVE  UNCHANGED <<active_work, total_work, next_work_id>>
  BY <1>3 DEF N!TakeCredit, N!HearMisfit, N!HearNeed, N!HearInit, N!CtlRest
<1>4. ASSUME N!ReadLoop \/ N!NetThreadDisconnected \/ N!NetFails \/ N!WriteFails \/ N!Stop
      PROVE  UNCHANGED <<active_work, total_work, next_work_id>>
  BY <1>4 DEF N!ReadLoop, N!NetThreadDisconnected, N!NetFails, N!WriteFails, N!Stop, N!ctl
<1>5. ASSUME N!HandleMessage PROVE UNCHANGED <<active_work, total_work, next_work_id>>
  <2>1. N!MainRest
    BY <1>5 DEF N!HandleMessage, N!HandleShutdown, N!HandleNetDown, N!HandleWork, N!HandleAdd, N!HandleRemove,
                N!HandleKick, N!HandleImmediate, N!HandleInit, N!HandleWorkDone
  <2> QED
    BY <2>1 DEF N!MainRest, N!ctl
<1> QED
  BY <1>1, <1>2, <1>3, <1>4, <1>5 DEF N!Next, N!Chooses, N!Hears, N!Evaluates

LEMMA CountsKept ==
    ASSUME NetShape, JobsFit, Bounded, N!TotalIsSum, N!Next
    PROVE  /\ active_work' \in [Handles -> Nat] /\ total_work' \in Nat
           /\ Bounded' /\ N!TotalIsSum'
<1>0. /\ active_work \in [Handles -> Nat] /\ total_work \in Nat /\ next_work_id \in Nat /\ MaxWork \in Nat
      /\ \A h \in Handles : active_work[h] <= MaxWork
  BY ServerAssumption DEF NetShape, Bounded
<1>1. total_work = Cardinality(Pairs(active_work))
  BY NetCardinality DEF N!TotalIsSum, Pairs
<1>2. ASSUME NEW f \in [Handles -> Nat], active_work' = f, total_work' = Cardinality(Pairs(f)) PROVE N!TotalIsSum'
  BY <1>2, NetCardinality DEF N!TotalIsSum, Pairs
<1>3. ASSUME NEW g \in Handles, active_work' = [active_work EXCEPT ![g] = 0], total_work' = total_work - active_work[g],
             next_work_id' = next_work_id
      PROVE  active_work' \in [Handles -> Nat] /\ total_work' \in Nat /\ Bounded' /\ N!TotalIsSum'
  <2>1. PICK f \in [Handles -> Nat] : f = [active_work EXCEPT ![g] = 0]
    BY <1>0
  <2>2. Cardinality(Pairs(f)) = total_work - active_work[g]
    BY <1>0, <1>1, <2>1, PairsNone
  <2>3. \A h \in Handles : f[h] = 0 \/ f[h] = active_work[h]
    BY <1>0, <2>1
  <2>4. \A h \in Handles : f[h] <= MaxWork
    BY <1>0, <2>3
  <2>5. Cardinality(Pairs(f)) \in Nat
    BY <1>0, <2>4, PairsFinite
  <2>6. N!TotalIsSum'
    BY <1>2, <1>3, <2>1, <2>2
  <2>7. total_work < next_work_id /\ \A h \in Handles : active_work[h] < next_work_id
    BY DEF Bounded
  <2>8. \A h \in Handles : f[h] < next_work_id
    BY <1>0, <2>3, <2>7
  <2>9. total_work - active_work[g] < next_work_id
    BY <1>0, <2>7
  <2>10. Bounded'
    BY <1>3, <2>1, <2>8, <2>9 DEF Bounded
  <2> QED
    BY <1>3, <2>1, <2>2, <2>5, <2>6, <2>10
<1>4. ASSUME UNCHANGED <<active_work, total_work, next_work_id>>
      PROVE  active_work' \in [Handles -> Nat] /\ total_work' \in Nat /\ Bounded' /\ N!TotalIsSum'
  BY <1>0, <1>4 DEF Bounded, N!TotalIsSum
<1>5. ASSUME NEW g \in Handles, N!ChooseRemove(g)
      PROVE  active_work' \in [Handles -> Nat] /\ total_work' \in Nat /\ Bounded' /\ N!TotalIsSum'
  BY <1>3, <1>5 DEF N!ChooseRemove
<1>6. ASSUME NEW g \in Handles, N!ChooseWork(g)
      PROVE  active_work' \in [Handles -> Nat] /\ total_work' \in Nat /\ Bounded' /\ N!TotalIsSum'
  <2>1. /\ active_work' = [active_work EXCEPT ![g] = @ + 1] /\ total_work' = total_work + 1
        /\ next_work_id' = next_work_id + 1
    BY <1>6 DEF N!ChooseWork
  <2>2. active_work[g] + 1 \in Nat
    BY <1>0
  <2>3. PICK f \in [Handles -> Nat] : f = [active_work EXCEPT ![g] = @ + 1]
    BY <1>0, <2>2
  <2>4. Cardinality(Pairs(f)) = total_work + 1
    BY <1>0, <1>1, <2>3, PairsMore
  <2>5. N!TotalIsSum'
    BY <1>2, <2>1, <2>3, <2>4
  <2>6. \A h \in Handles : f[h] = active_work[h] + 1 \/ f[h] = active_work[h]
    BY <1>0, <2>3
  <2>7. total_work < next_work_id /\ \A h \in Handles : active_work[h] < next_work_id
    BY DEF Bounded
  <2>8. \A h \in Handles : f[h] < next_work_id + 1
    BY <1>0, <2>6, <2>7
  <2>9. total_work + 1 < next_work_id + 1
    BY <1>0, <2>7
  <2>10. Bounded'
    BY <2>1, <2>3, <2>8, <2>9 DEF Bounded
  <2> QED
    BY <1>0, <2>1, <2>3, <2>5, <2>10
<1>7. ASSUME N!HearDisconnect
      PROVE  active_work' \in [Handles -> Nat] /\ total_work' \in Nat /\ Bounded' /\ N!TotalIsSum'
  <2>1. N!Hear("disconnect") /\ next_work_id' = next_work_id
    BY <1>7 DEF N!HearDisconnect, N!CtlRest
  <2>2. PICK g \in Handles : g = Head(up).h
    BY <2>1, HearFacts
  <2>3. CASE N!Known(g)
    BY <1>3, <1>7, <2>1, <2>2, <2>3 DEF N!HearDisconnect
  <2>4. CASE ~ N!Known(g)
    BY <1>4, <1>7, <2>1, <2>2, <2>4 DEF N!HearDisconnect
  <2> QED
    BY <2>3, <2>4
<1>8. ASSUME N!HearResult
      PROVE  active_work' \in [Handles -> Nat] /\ total_work' \in Nat /\ Bounded' /\ N!TotalIsSum'
  <2>1. N!Hear("result") /\ next_work_id' = next_work_id
    BY <1>8 DEF N!HearResult, N!CtlRest
  <2>2. PICK g \in Handles : g = Head(up).h
    BY <2>1, HearFacts
  <2>3. CASE ~ N!Known(g)
    BY <1>4, <1>8, <2>1, <2>2, <2>3 DEF N!HearResult
  <2>4. CASE N!Known(g)
    <3>1. active_work' = [active_work EXCEPT ![g] = @ - 1] /\ total_work' = total_work - 1
      BY <1>8, <2>2, <2>4 DEF N!HearResult
    <3>2. active_work[g] \in Nat \ {0}
      BY <1>8, <2>2, <2>4, ResultIsCounted
    <3>3. active_work[g] - 1 \in Nat /\ active_work[g] > 0
      BY <3>2
    <3>4. PICK f \in [Handles -> Nat] : f = [active_work EXCEPT ![g] = @ - 1]
      BY <1>0, <3>3
    <3>5. Cardinality(Pairs(f)) = total_work - 1
      BY <1>0, <1>1, <3>3, <3>4, PairsLess
    <3>6. \A h \in Handles : f[h] = active_work[h] - 1 \/ f[h] = active_work[h]
      BY <1>0, <3>4
    <3>7. \A h \in Handles : f[h] <= MaxWork
      BY <1>0, <3>6
    <3>8. Cardinality(Pairs(f)) \in Nat
      BY <1>0, <3>7, PairsFinite
    <3>9. N!TotalIsSum'
      BY <1>2, <3>1, <3>4, <3>5
    <3>10. total_work < next_work_id /\ \A h \in Handles : active_work[h] < next_work_id
      BY DEF Bounded
    <3>11. \A h \in Handles : f[h] < next_work_id
      BY <1>0, <3>6, <3>10
    <3>12. total_work - 1 < next_work_id
      BY <1>0, <3>10
    <3>13. Bounded'
      BY <2>1, <3>1, <3>4, <3>11, <3>12 DEF Bounded
    <3> QED
      BY <3>1, <3>4, <3>5, <3>8, <3>9, <3>13
  <2> QED
    BY <2>3, <2>4
<1> QED
  BY <1>4, <1>5, <1>6, <1>7, <1>8, CountsUnmoved

-----------------------------------------------------------------------------
(* Whose step it is.                                                       *)

ControllerStep ==
    \/ \E h \in Handles : N!ClientComes(h) \/ N!ClientGoes(h)
    \/ N!Chooses \/ N!Hears
ServerStep ==
    \/ \E h \in Handles : N!Kick(h)
    \/ N!ReadLoop \/ N!NetThreadDisconnected \/ N!NetFails \/ N!WriteFails \/ N!Stop \/ N!HandleMessage \/ N!Evaluates

LEMMA EachStep == N!Next <=> ControllerStep \/ ServerStep
BY DEF N!Next, ControllerStep, ServerStep

LEMMA ControllerFrame ==
    ASSUME ControllerStep
    PROVE  UNCHANGED <<mq, active, time_starts, shown, server, kicked, ev, evInit, evWork>>
<1>1. ASSUME NEW h \in Handles, N!ClientComes(h) \/ N!ClientGoes(h) \/ N!ChooseAdd(h) \/ N!ChooseRemove(h) \/ N!ChooseWork(h)
      PROVE  UNCHANGED <<mq, active, time_starts, shown, server, kicked, ev, evInit, evWork>>
  BY <1>1 DEF N!ClientComes, N!ClientGoes, N!ChooseAdd, N!ChooseRemove, N!ChooseWork, N!main
<1>2. ASSUME N!TakeCredit \/ N!Hears
      PROVE  UNCHANGED <<mq, active, time_starts, shown, server, kicked, ev, evInit, evWork>>
  BY <1>2 DEF N!TakeCredit, N!Hears, N!HearMisfit, N!HearNeed, N!HearInit, N!HearDisconnect, N!HearResult,
              N!CtlRest, N!main
<1> QED
  BY <1>1, <1>2 DEF ControllerStep, N!Chooses

LEMMA ServerFrame ==
    ASSUME ServerStep
    PROVE  /\ UNCHANGED <<clients, job, active_work, total_work, acc, credits, chooser, next_work_id>>
           /\ N!Connected' => N!Connected
<1>1. ASSUME NEW h \in Handles, N!Kick(h) \/ N!EvalInit(h)
      PROVE  UNCHANGED <<clients, job, active_work, total_work, acc, credits, chooser, next_work_id, error>>
  BY <1>1 DEF N!Kick, N!EvalInit, N!ctl
<1>2. ASSUME NEW w \in evWork, N!EvalResult(w)
      PROVE  UNCHANGED <<clients, job, active_work, total_work, acc, credits, chooser, next_work_id, error>>
  BY <1>2 DEF N!EvalResult, N!ctl
<1>3. ASSUME N!ReadLoop \/ N!NetThreadDisconnected
      PROVE  UNCHANGED <<clients, job, active_work, total_work, acc, credits, chooser, next_work_id, error>>
  BY <1>3 DEF N!ReadLoop, N!NetThreadDisconnected, N!ctl
<1>4. ASSUME N!NetFails \/ N!WriteFails \/ N!Stop
      PROVE  /\ UNCHANGED <<clients, job, active_work, total_work, acc, credits, chooser, next_work_id>>
             /\ error' \in {"net", "stopped", error} /\ (error # "none" => error' # "none")
  BY <1>4 DEF N!NetFails, N!WriteFails, N!Stop, N!Connected, N!ctl
<1>5. ASSUME N!HandleMessage
      PROVE  UNCHANGED <<clients, job, active_work, total_work, acc, credits, chooser, next_work_id, error>>
  <2>1. N!MainRest
    BY <1>5 DEF N!HandleMessage, N!HandleShutdown, N!HandleNetDown, N!HandleWork, N!HandleAdd, N!HandleRemove,
                N!HandleKick, N!HandleImmediate, N!HandleInit, N!HandleWorkDone
  <2> QED
    BY <2>1 DEF N!MainRest, N!ctl
<1> QED
  BY <1>1, <1>2, <1>3, <1>4, <1>5 DEF ServerStep, N!Evaluates, N!Connected

\* An answer worth so much earns at least so many credits, and never nothing when no
\* work is out.
LEMMA EarnFacts ==
    ASSUME acc \in 0..1, credits \in Nat, NEW halves \in 0..3, NEW total, N!Earn(halves, total)
    PROVE  /\ acc' \in 0..1 /\ credits' \in Nat /\ credits' >= credits
           /\ halves >= 2 => credits' > 0
           /\ total = 0 => credits' > 0
<1>1. (acc + halves) \div 2 \in 0..2 /\ (acc + halves) % 2 \in 0..1 /\ (halves >= 2 => (acc + halves) \div 2 >= 1)
  BY SMT
<1>2. PICK request \in 0..2 : /\ request = (acc + halves) \div 2 /\ (halves >= 2 => request >= 1)
                              /\ credits' = credits + (IF request = 0 /\ total = 0 /\ credits = 0 THEN 1 ELSE request)
  BY <1>1 DEF N!Earn
<1>3. acc' \in 0..1
  BY <1>1 DEF N!Earn
<1> QED
  BY <1>2, <1>3

LEMMA HearEarns ==
    ASSUME NetShape, JobsFit, N!TotalIsSum, Bounded, N!Hears, ~ N!HearMisfit
    PROVE  /\ acc' \in 0..1 /\ credits' \in Nat /\ credits' >= credits
           /\ N!HearNeed \/ N!HearInit => credits' > 0
           /\ (N!HearDisconnect \/ N!HearResult) /\ ~ N!Known(Head(up).h) => credits' > 0
           /\ total_work' = 0 => credits' > 0
<1>1. acc \in 0..1 /\ credits \in Nat
  BY DEF NetShape
<1>2. ASSUME N!HearNeed \/ N!HearInit PROVE acc' \in 0..1 /\ credits' \in Nat /\ credits' >= credits /\ credits' > 0
  <2>1. N!Earn(2, total_work)
    BY <1>2 DEF N!HearNeed, N!HearInit
  <2> QED
    BY <1>1, <2>1, EarnFacts
<1>3. ASSUME N!HearDisconnect
      PROVE  /\ acc' \in 0..1 /\ credits' \in Nat /\ credits' >= credits
             /\ ~ N!Known(Head(up).h) => credits' > 0
             /\ total_work' = 0 => credits' > 0
  <2>1. CASE N!Known(Head(up).h)
    <3>1. N!Earn(0, total_work')
      BY <1>3, <2>1 DEF N!HearDisconnect
    <3> QED
      BY <1>1, <2>1, <3>1, EarnFacts
  <2>2. CASE ~ N!Known(Head(up).h)
    <3>1. N!Earn(2, total_work)
      BY <1>3, <2>2 DEF N!HearDisconnect
    <3> QED
      BY <1>1, <3>1, EarnFacts
  <2> QED
    BY <2>1, <2>2
<1>4. ASSUME N!HearResult
      PROVE  /\ acc' \in 0..1 /\ credits' \in Nat /\ credits' >= credits
             /\ ~ N!Known(Head(up).h) => credits' > 0
             /\ total_work' = 0 => credits' > 0
  <2>1. CASE N!Known(Head(up).h)
    <3>1. PICK halves \in 1..3 : N!Earn(halves, total_work')
      BY <1>4, <2>1 DEF N!HearResult
    <3>2. halves \in 0..3
      OBVIOUS
    <3> QED
      BY <1>1, <2>1, <3>1, <3>2, EarnFacts
  <2>2. CASE ~ N!Known(Head(up).h)
    <3>1. N!Earn(2, total_work)
      BY <1>4, <2>2 DEF N!HearResult
    <3> QED
      BY <1>1, <3>1, EarnFacts
  <2> QED
    BY <2>1, <2>2
<1> QED
  BY <1>2, <1>3, <1>4 DEF N!Hears

-----------------------------------------------------------------------------
(* What comes into the queues.                                             *)

In(x, q) == \E i \in 1..Len(q) : q[i] = x

LEMMA InAppend ==
    ASSUME NEW V, NEW q \in Seq(V), NEW m \in V
    PROVE  \A x : In(x, Append(q, m)) <=> (In(x, q) \/ x = m)
<1>1. /\ Len(q) \in Nat /\ Len(Append(q, m)) = Len(q) + 1
      /\ \A i \in 1..Len(q) : Append(q, m)[i] = q[i]
      /\ Append(q, m)[Len(q) + 1] = m
  BY AppendFacts
<1>2. \A i : i \in 1..Len(q) + 1 <=> i \in 1..Len(q) \/ i = Len(q) + 1
  BY <1>1
<1> QED
  BY <1>1, <1>2 DEF In

LEMMA InTail ==
    ASSUME NEW V, NEW q \in Seq(V), q # <<>>
    PROVE  \A x : In(x, q) <=> (In(x, Tail(q)) \/ x = Head(q))
<1>1. /\ Len(q) \in Nat \ {0} /\ Len(Tail(q)) = Len(q) - 1 /\ Head(q) = q[1]
      /\ \A i \in 1..Len(Tail(q)) : Tail(q)[i] = q[i + 1] /\ i + 1 \in 1..Len(q)
  BY TailFacts
<1>2. \A i \in 1..Len(q) : i = 1 \/ (i - 1 \in 1..Len(Tail(q)) /\ q[i] = Tail(q)[i - 1])
  BY <1>1
<1>3. 1 \in 1..Len(q)
  BY <1>1
<1> QED
  BY <1>1, <1>2, <1>3 DEF In

LEMMA CarriesKept ==
    ASSUME NEW q \in Seq(Msgs), NEW types, Carries(q, types), NEW r,
           r = q \/ (q # <<>> /\ r = Tail(q)) \/ \E m \in Msgs : m.type \in types /\ r = Append(q, m)
    PROVE  r \in Seq(Msgs) /\ Carries(r, types)
<1>1. \A x : In(x, q) => x.type \in types
  BY DEF Carries, In
<1>2. ASSUME r \in Seq(Msgs), \A x : In(x, r) => x.type \in types PROVE r \in Seq(Msgs) /\ Carries(r, types)
  BY <1>2 DEF Carries, In
<1>3. CASE q # <<>> /\ r = Tail(q)
  BY <1>1, <1>2, <1>3, InTail, TailFacts
<1>4. ASSUME NEW m \in Msgs, m.type \in types, r = Append(q, m) PROVE r \in Seq(Msgs) /\ Carries(r, types)
  BY <1>1, <1>2, <1>4, InAppend, AppendFacts
<1> QED
  BY <1>3, <1>4

\* Each queue keeps its messages, loses its first or gains one.
LEMMA DownMoves ==
    ASSUME NetShape, N!Next
    PROVE  \/ down' = down
           \/ N!ReadLoop /\ down # <<>> /\ down' = Tail(down)
           \/ \E m \in Msgs : /\ down' = Append(down, m)
                              /\ \/ \E h \in Handles : N!ChooseAdd(h) /\ m = [type |-> "add", h |-> h]
                                 \/ \E h \in Handles : N!ChooseRemove(h) /\ m = [type |-> "remove", h |-> h]
                                 \/ \E h \in Handles : N!ChooseWork(h) /\ m = [type |-> "work", h |-> h, id |-> next_work_id]
<1>1. ASSUME NEW h \in Handles, N!ClientComes(h) \/ N!ClientGoes(h) \/ N!Kick(h) \/ N!EvalInit(h) PROVE down' = down
  BY <1>1 DEF N!ClientComes, N!ClientGoes, N!Kick, N!EvalInit
<1>2. ASSUME N!TakeCredit \/ N!Hears \/ N!NetThreadDisconnected \/ N!NetFails \/ N!WriteFails \/ N!Stop PROVE down' = down
  BY <1>2 DEF N!TakeCredit, N!Hears, N!HearMisfit, N!HearNeed, N!HearInit, N!HearDisconnect, N!HearResult,
              N!CtlRest, N!NetThreadDisconnected, N!NetFails, N!WriteFails, N!Stop
<1>3. ASSUME N!HandleMessage PROVE down' = down
  <2>1. N!MainRest
    BY <1>3 DEF N!HandleMessage, N!HandleShutdown, N!HandleNetDown, N!HandleWork, N!HandleAdd, N!HandleRemove,
                N!HandleKick, N!HandleImmediate, N!HandleInit, N!HandleWorkDone
  <2> QED
    BY <2>1 DEF N!MainRest
<1>4. ASSUME NEW w \in evWork, N!EvalResult(w) PROVE down' = down
  BY <1>4 DEF N!EvalResult
<1>5. ASSUME N!ReadLoop PROVE down # <<>> /\ down' = Tail(down)
  BY <1>5 DEF N!ReadLoop
<1>6. ASSUME NEW h \in Handles, N!ChooseAdd(h)
      PROVE  \E m \in Msgs : down' = Append(down, m) /\ m = [type |-> "add", h |-> h]
  BY <1>6, MsgsExist DEF N!ChooseAdd, N!Say
<1>7. ASSUME NEW h \in Handles, N!ChooseRemove(h)
      PROVE  \E m \in Msgs : down' = Append(down, m) /\ m = [type |-> "remove", h |-> h]
  BY <1>7, MsgsExist DEF N!ChooseRemove, N!Say
<1>8. ASSUME NEW h \in Handles, N!ChooseWork(h)
      PROVE  \E m \in Msgs : down' = Append(down, m) /\ m = [type |-> "work", h |-> h, id |-> next_work_id]
  <2>1. next_work_id \in Ids
    BY <1>8, ServerAssumption DEF N!ChooseWork, NetShape, Ids
  <2> QED
    BY <1>8, <2>1, MsgsExist DEF N!ChooseWork, N!Say
<1> QED
  BY <1>1, <1>2, <1>3, <1>4, <1>5, <1>6, <1>7, <1>8, EachStep
     DEF ControllerStep, ServerStep, N!Chooses, N!Evaluates

LEMMA MqMoves ==
    ASSUME NetShape, N!Next
    PROVE  \/ mq' = mq
           \/ N!HandleMessage /\ mq # <<>> /\ mq' = Tail(mq)
           \/ \E m \in Msgs : /\ mq' = Append(mq, m)
                              /\ \/ N!ReadLoop /\ m = Head(down)
                                 \/ N!ReadLoop /\ Head(down).type = "add" /\ m = [type |-> "immediate", h |-> Head(down).h]
                                 \/ m = [type |-> "net_down"] \/ m = [type |-> "shutdown"]
                                 \/ \E h \in Handles : N!Kick(h) /\ m = [type |-> "kick", h |-> h]
                                 \/ \E h \in Handles, ok \in BOOLEAN :
                                       N!EvalInit(h) /\ m = [type |-> "init", h |-> h, ok |-> ok]
                                 \/ \E w \in evWork : N!EvalResult(w) /\ m = [type |-> "done", h |-> w[1], id |-> w[2]]
<1>1. ASSUME ControllerStep PROVE mq' = mq
  BY <1>1, ControllerFrame
<1>2. ASSUME N!HandleMessage PROVE mq # <<>> /\ mq' = Tail(mq)
  BY <1>2 DEF N!Get, N!HandleMessage, N!HandleShutdown, N!HandleNetDown, N!HandleWork, N!HandleAdd, N!HandleRemove,
              N!HandleKick, N!HandleImmediate, N!HandleInit, N!HandleWorkDone
<1>3. ASSUME NEW h \in Handles, N!Kick(h)
      PROVE  \E m \in Msgs : mq' = Append(mq, m) /\ m = [type |-> "kick", h |-> h]
  BY <1>3, MsgsExist DEF N!Kick
<1>4. ASSUME NEW h \in Handles, N!EvalInit(h)
      PROVE  \E m \in Msgs : mq' = Append(mq, m) /\ \E ok \in BOOLEAN : m = [type |-> "init", h |-> h, ok |-> ok]
  BY <1>4, MsgsExist DEF N!EvalInit
<1>5. ASSUME NEW w \in evWork, N!EvalResult(w)
      PROVE  \E m \in Msgs : mq' = Append(mq, m) /\ m = [type |-> "done", h |-> w[1], id |-> w[2]]
  <2>1. w[1] \in Handles /\ w[2] \in Ids
    BY DEF NetShape
  <2> QED
    BY <1>5, <2>1, MsgsExist DEF N!EvalResult
<1>6. ASSUME N!NetFails \/ N!WriteFails PROVE mq' = mq
  BY <1>6 DEF N!NetFails, N!WriteFails
<1>7. ASSUME N!NetThreadDisconnected
      PROVE  \E m \in Msgs : mq' = Append(mq, m) /\ m = [type |-> "net_down"]
  BY <1>7, MsgsExist DEF N!NetThreadDisconnected
<1>8. ASSUME N!Stop
      PROVE  \E m \in Msgs : mq' = Append(mq, m) /\ m = [type |-> "shutdown"]
  BY <1>8, MsgsExist DEF N!Stop
<1>9. ASSUME N!ReadLoop
      PROVE  \E m \in Msgs : /\ mq' = Append(mq, m)
                             /\ \/ m = Head(down)
                                \/ Head(down).type = "add" /\ m = [type |-> "immediate", h |-> Head(down).h]
  <2>1. down # <<>> /\ Head(down) \in Msgs
    BY <1>9, TailFacts DEF N!ReadLoop, NetShape
  <2>2. Head(down).type = "add" => [type |-> "immediate", h |-> Head(down).h] \in Msgs
    BY <2>1, MsgFacts, MsgsExist
  <2> QED
    BY <1>9, <2>1, <2>2 DEF N!ReadLoop
<1> QED
  BY <1>1, <1>2, <1>3, <1>4, <1>5, <1>6, <1>7, <1>8, <1>9, EachStep DEF ServerStep, N!Evaluates

LEMMA UpMoves ==
    ASSUME NetShape, N!Next
    PROVE  \/ up' = up
           \/ N!Hears /\ up # <<>> /\ up' = Tail(up)
           \/ \E m \in Msgs : /\ up' = Append(up, m) /\ N!HandleMessage
                              /\ \/ m = [type |-> "need"]
                                 \/ /\ N!HandleKick /\ Head(mq).h \in active
                                    /\ m = [type |-> "disconnect", h |-> Head(mq).h]
                                 \/ N!HandleImmediate /\ m = [type |-> "init", h |-> Head(mq).h, ok |-> FALSE]
                                 \/ /\ N!HandleInit /\ Head(mq).h \in active
                                    /\ m = [type |-> "init", h |-> Head(mq).h, ok |-> Head(mq).ok]
                                 \/ /\ N!HandleWorkDone /\ Head(mq).h \in active /\ Head(mq).id \in time_starts
                                    /\ m = [type |-> "result", h |-> Head(mq).h]
<1>1. ASSUME NEW h \in Handles,
             \/ N!ClientComes(h) \/ N!ClientGoes(h) \/ N!Kick(h) \/ N!EvalInit(h)
             \/ N!ChooseAdd(h) \/ N!ChooseRemove(h) \/ N!ChooseWork(h)
      PROVE  up' = up
  BY <1>1 DEF N!ClientComes, N!ClientGoes, N!Kick, N!EvalInit, N!ChooseAdd, N!ChooseRemove, N!ChooseWork
<1>2. ASSUME N!TakeCredit \/ N!ReadLoop \/ N!NetThreadDisconnected \/ N!NetFails \/ N!WriteFails \/ N!Stop PROVE up' = up
  BY <1>2 DEF N!TakeCredit, N!ReadLoop, N!NetThreadDisconnected, N!NetFails, N!WriteFails, N!Stop
<1>3. ASSUME N!Hears PROVE up # <<>> /\ up' = Tail(up)
  BY <1>3 DEF N!Hears, N!Hear, N!HearMisfit, N!HearNeed, N!HearInit, N!HearDisconnect, N!HearResult
<1>4. ASSUME NEW w \in evWork, N!EvalResult(w) PROVE up' = up
  BY <1>4 DEF N!EvalResult
<1>5. ASSUME N!HandleShutdown \/ N!HandleNetDown \/ N!HandleAdd \/ N!HandleRemove PROVE up' = up
  BY <1>5 DEF N!HandleShutdown, N!HandleNetDown, N!HandleAdd, N!HandleRemove
<1>6. ASSUME NEW type, N!Get(type), type \notin {"need", "net_down", "shutdown"}
      PROVE  /\ Head(mq).h \in Handles
             /\ [type |-> "disconnect", h |-> Head(mq).h] \in Msgs
             /\ [type |-> "init", h |-> Head(mq).h, ok |-> FALSE] \in Msgs
             /\ [type |-> "result", h |-> Head(mq).h] \in Msgs
             /\ type = "init" => [type |-> "init", h |-> Head(mq).h, ok |-> Head(mq).ok] \in Msgs
  <2>1. Head(mq) \in Msgs /\ Head(mq).type = type
    BY <1>6, Got
  <2>2. Head(mq).h \in Handles /\ (type = "init" => Head(mq).ok \in BOOLEAN)
    BY <1>6, <2>1, MsgFacts
  <2> QED
    BY <2>2, MsgsExist
<1>7. [type |-> "need"] \in Msgs
  BY MsgsExist
<1>8. ASSUME N!HandleWork PROVE up' = up \/ up' = Append(up, [type |-> "need"])
  BY <1>8 DEF N!HandleWork, N!need_work, N!Send
<1>9. ASSUME N!HandleKick
      PROVE  \/ up' = up
             \/ \E m \in Msgs : /\ up' = Append(up, m) /\ Head(mq).h \in active
                                /\ m = [type |-> "disconnect", h |-> Head(mq).h]
  <2>1. [type |-> "disconnect", h |-> Head(mq).h] \in Msgs
    BY <1>6, <1>9 DEF N!HandleKick
  <2> QED
    BY <1>9, <2>1 DEF N!HandleKick, N!Send
<1>10. ASSUME N!HandleImmediate
       PROVE  \E m \in Msgs : up' = Append(up, m) /\ m = [type |-> "init", h |-> Head(mq).h, ok |-> FALSE]
  <2>1. [type |-> "init", h |-> Head(mq).h, ok |-> FALSE] \in Msgs
    BY <1>6, <1>10 DEF N!HandleImmediate
  <2> QED
    BY <1>10, <2>1 DEF N!HandleImmediate, N!Send
<1>11. ASSUME N!HandleInit
       PROVE  \E m \in Msgs : /\ up' = Append(up, m)
                              /\ \/ m = [type |-> "need"]
                                 \/ Head(mq).h \in active /\ m = [type |-> "init", h |-> Head(mq).h, ok |-> Head(mq).ok]
  <2>1. [type |-> "init", h |-> Head(mq).h, ok |-> Head(mq).ok] \in Msgs
    BY <1>6, <1>11 DEF N!HandleInit
  <2> QED
    BY <1>7, <1>11, <2>1 DEF N!HandleInit, N!Send, N!need_work
<1>12. ASSUME N!HandleWorkDone
       PROVE  \/ up' = up
              \/ \E m \in Msgs : /\ up' = Append(up, m)
                                 /\ \/ m = [type |-> "need"]
                                    \/ /\ Head(mq).h \in active /\ Head(mq).id \in time_starts
                                       /\ m = [type |-> "result", h |-> Head(mq).h]
  <2>1. [type |-> "result", h |-> Head(mq).h] \in Msgs
    BY <1>6, <1>12 DEF N!HandleWorkDone
  <2> QED
    BY <1>7, <1>12, <2>1 DEF N!HandleWorkDone, N!Send, N!need_work
<1>13. ASSUME N!HandleMessage
       PROVE  \/ N!HandleShutdown \/ N!HandleNetDown \/ N!HandleWork \/ N!HandleAdd \/ N!HandleRemove
              \/ N!HandleKick \/ N!HandleImmediate \/ N!HandleInit \/ N!HandleWorkDone
  BY <1>13 DEF N!HandleMessage
<1>14. N!HandleWork \/ N!HandleKick \/ N!HandleImmediate \/ N!HandleInit \/ N!HandleWorkDone => N!HandleMessage
  BY DEF N!HandleMessage
<1>15. CASE N!HandleMessage
  BY <1>5, <1>7, <1>8, <1>9, <1>10, <1>11, <1>12, <1>13, <1>14, <1>15
<1> QED
  BY <1>1, <1>2, <1>3, <1>4, <1>15, EachStep DEF ControllerStep, ServerStep, N!Chooses, N!Evaluates

LEMMA QueuesKept ==
    ASSUME NetShape, N!Next
    PROVE  /\ down' \in Seq(Msgs) /\ Carries(down, {"add", "remove", "work"})'
           /\ mq' \in Seq(Msgs) /\ Carries(mq, ToMain)'
           /\ up' \in Seq(Msgs) /\ Carries(up, {"need", "init", "disconnect", "result"})'
<1>1. down' \in Seq(Msgs) /\ Carries(down', {"add", "remove", "work"})
  <2>1. \/ down' = down \/ (down # <<>> /\ down' = Tail(down))
        \/ \E m \in Msgs : m.type \in {"add", "remove", "work"} /\ down' = Append(down, m)
    BY DownMoves
  <2> QED
    BY <2>1, CarriesKept DEF NetShape
<1>2. mq' \in Seq(Msgs) /\ Carries(mq', ToMain)
  <2>1. N!ReadLoop => Head(down).type \in {"add", "remove", "work"}
    <3>1. N!ReadLoop => down # <<>>
      BY DEF N!ReadLoop
    <3>2. down # <<>> => In(Head(down), down)
      BY InTail DEF NetShape
    <3> QED
      BY <3>1, <3>2 DEF NetShape, Carries, In
  <2>2. \/ mq' = mq \/ (mq # <<>> /\ mq' = Tail(mq))
        \/ \E m \in Msgs : m.type \in ToMain /\ mq' = Append(mq, m)
    BY <2>1, MqMoves DEF ToMain
  <2> QED
    BY <2>2, CarriesKept DEF NetShape
<1>3. up' \in Seq(Msgs) /\ Carries(up', {"need", "init", "disconnect", "result"})
  <2>1. \/ up' = up \/ (up # <<>> /\ up' = Tail(up))
        \/ \E m \in Msgs : m.type \in {"need", "init", "disconnect", "result"} /\ up' = Append(up, m)
    BY UpMoves
  <2> QED
    BY <2>1, CarriesKept DEF NetShape
<1> QED
  BY <1>1, <1>2, <1>3 DEF Carries

LEMMA ControllerShapeKept ==
    ASSUME NetShape, JobsFit, Bounded, N!TotalIsSum, N!Next
    PROVE  /\ clients' \in [Handles -> {"new", "here", "gone"}]
           /\ job' \in [Handles -> {"none", "loading", "loaded", "failed"}]
           /\ acc' \in 0..1 /\ credits' \in Nat /\ chooser' \in {"choose", "wait"}
           /\ next_work_id' \in 1..MaxWork + 1
<1> DEFINE Typed == /\ clients' \in [Handles -> {"new", "here", "gone"}]
                    /\ job' \in [Handles -> {"none", "loading", "loaded", "failed"}]
                    /\ acc' \in 0..1 /\ credits' \in Nat /\ chooser' \in {"choose", "wait"}
                    /\ next_work_id' \in 1..MaxWork + 1
<1>1. CASE ServerStep
  BY <1>1, ServerFrame DEF NetShape
<1>2. ASSUME NEW h \in Handles, N!ClientComes(h) \/ N!ClientGoes(h) PROVE Typed
  BY <1>2 DEF NetShape, N!ClientComes, N!ClientGoes
<1>3. ASSUME NEW h \in Handles, N!ChooseAdd(h) \/ N!ChooseRemove(h) PROVE Typed
  BY <1>3 DEF NetShape, N!ChooseAdd, N!ChooseRemove
<1>4. ASSUME NEW h \in Handles, N!ChooseWork(h) PROVE Typed
  BY <1>4, ServerAssumption DEF NetShape, N!ChooseWork
<1>5. ASSUME N!TakeCredit PROVE Typed
  <2>1. credits - 1 \in Nat
    BY <1>5 DEF NetShape, N!TakeCredit
  <2> QED
    BY <1>5, <2>1 DEF NetShape, N!TakeCredit
<1>6. ASSUME N!HearMisfit PROVE Typed
  BY <1>6 DEF NetShape, N!HearMisfit
<1>7. ASSUME N!Hears, ~ N!HearMisfit PROVE Typed
  <2>1. UNCHANGED <<clients, chooser, next_work_id>>
    BY <1>7 DEF N!Hears, N!HearNeed, N!HearInit, N!HearDisconnect, N!HearResult, N!CtlRest
  <2>2. job' = job \/ (\E h : job' = [job EXCEPT ![h] = "loaded"]) \/ (\E h : job' = [job EXCEPT ![h] = "failed"])
    BY <1>7 DEF N!Hears, N!HearNeed, N!HearInit, N!HearDisconnect, N!HearResult
  <2>3. job' \in [Handles -> {"none", "loading", "loaded", "failed"}]
    BY <2>2 DEF NetShape
  <2> QED
    BY <1>7, <2>1, <2>3, HearEarns DEF NetShape
<1> QED
  BY <1>1, <1>2, <1>3, <1>4, <1>5, <1>6, <1>7, EachStep DEF ControllerStep, N!Chooses

LEMMA ServerShapeKept ==
    ASSUME NetShape, JobsFit, MessagesTell, IdsOnce, N!Next
    PROVE  /\ active' \subseteq shown' /\ shown' \subseteq Handles /\ kicked' \subseteq shown'
           /\ time_starts' \subseteq Ids /\ server' \in {"up", "stopping", "down"}
           /\ ev' \in [Handles -> {"none", "here", "failed", "removed"}]
           /\ evInit' \subseteq Handles /\ evWork' \subseteq Handles \X Ids
<1> DEFINE Typed == /\ active' \subseteq shown' /\ shown' \subseteq Handles /\ kicked' \subseteq shown'
                    /\ time_starts' \subseteq Ids /\ server' \in {"up", "stopping", "down"}
                    /\ ev' \in [Handles -> {"none", "here", "failed", "removed"}]
                    /\ evInit' \subseteq Handles /\ evWork' \subseteq Handles \X Ids
<1>1. ASSUME ControllerStep PROVE Typed
  BY <1>1, ControllerFrame DEF NetShape
<1>2. ASSUME NEW h \in Handles, N!Kick(h) PROVE Typed
  BY <1>2 DEF NetShape, N!Kick, N!main
<1>3. ASSUME NEW h \in Handles, N!EvalInit(h) PROVE Typed
  <2>1. \E s \in {"here", "failed", ev[h]} : ev' = [ev EXCEPT ![h] = s]
    BY <1>3 DEF N!EvalInit
  <2>2. ev' \in [Handles -> {"none", "here", "failed", "removed"}]
    BY <2>1 DEF NetShape
  <2> QED
    BY <1>3, <2>2 DEF NetShape, N!EvalInit, N!main
<1>4. ASSUME NEW w \in evWork, N!EvalResult(w) PROVE Typed
  BY <1>4 DEF NetShape, N!EvalResult, N!main
<1>5. ASSUME N!ReadLoop \/ N!NetThreadDisconnected \/ N!NetFails PROVE Typed
  BY <1>5 DEF NetShape, N!ReadLoop, N!NetThreadDisconnected, N!NetFails, N!main
<1>6. ASSUME N!WriteFails \/ N!Stop PROVE Typed
  BY <1>6 DEF NetShape, N!WriteFails, N!Stop
<1>7. ASSUME N!HandleShutdown \/ N!HandleNetDown PROVE Typed
  BY <1>7 DEF NetShape, N!HandleShutdown, N!HandleNetDown, N!MainRest, N!main
<1>8. ASSUME N!HandleWork PROVE Typed
  <2>1. N!Get("work")
    BY <1>8 DEF N!HandleWork
  <2>2. Head(mq).h \in Handles /\ Head(mq).id \in Ids
    BY <2>1, WorkIsNews
  <2> QED
    BY <1>8, <2>2 DEF NetShape, N!HandleWork, N!MainRest
<1>9. ASSUME N!HandleAdd PROVE Typed
  <2>1. N!Get("add")
    BY <1>9 DEF N!HandleAdd
  <2>2. Head(mq).h \in Handles /\ Head(mq).h \notin active
    BY <2>1, AddIsNews
  <2> QED
    BY <1>9, <2>2, ZenonT(60) DEF NetShape, N!HandleAdd, N!MainRest
<1>10. ASSUME N!HandleRemove \/ N!HandleKick PROVE Typed
  BY <1>10 DEF NetShape, N!HandleRemove, N!HandleKick, N!MainRest, N!Remove
<1>11. ASSUME N!HandleImmediate PROVE Typed
  <2>1. N!Get("immediate")
    BY <1>11 DEF N!HandleImmediate
  <2>2. Head(mq).h \notin active
    BY <2>1, AddIsNews
  <2> QED
    BY <1>11, <2>2 DEF NetShape, N!HandleImmediate, N!MainRest
<1>12. ASSUME N!HandleInit PROVE Typed
  BY <1>12 DEF NetShape, N!HandleInit, N!MainRest
<1>13. ASSUME N!HandleWorkDone PROVE Typed
  <2>1. N!Get("done")
    BY <1>13 DEF N!HandleWorkDone
  <2>2. Head(mq).id \in time_starts
    BY <2>1, DoneIsTimed
  <2> QED
    BY <1>13, <2>2 DEF NetShape, N!HandleWorkDone, N!MainRest
<1> QED
  BY <1>1, <1>2, <1>3, <1>4, <1>5, <1>6, <1>7, <1>8, <1>9, <1>10, <1>11, <1>12, <1>13, EachStep
     DEF ServerStep, N!HandleMessage, N!Evaluates

LEMMA NetShapeKept ==
    ASSUME NetShape, JobsFit, MessagesTell, IdsOnce, Bounded, N!TotalIsSum, N!Next
    PROVE  NetShape'
BY QueuesKept, ControllerShapeKept, ServerShapeKept, CountsKept DEF NetShape

-----------------------------------------------------------------------------
(* What the counts tell of the queues, before and after a step.            *)

Has(q, V) == \E x \in V : In(x, q)
StartsAt(h) == <<Has(down, StartsOf(h)), Has(mq, StartsOf(h)), Has(up, StartsOf(h)), \E g \in evInit : g = h>>
UsedAt(id) == <<Has(down, UsesOf(id)), Has(mq, UsesOf(id)), Has(up, UsesOf(id)), \E w \in evWork : w[2] = id>>
WorksAt(h) == <<Has(down, WorksOf(h)), Has(mq, WorksOf(h)), Has(up, WorksOf(h)), \E w \in evWork : w[1] = h>>
OneOf(at) == \A i, j \in 1..4 : i # j => ~ (at[i] /\ at[j])

LEMMA HasCounted ==
    ASSUME NetShape, NEW V
    PROVE  /\ HowMany(down, V) \in Nat /\ (HowMany(down, V) > 0 <=> Has(down, V))
           /\ HowMany(mq, V) \in Nat /\ (HowMany(mq, V) > 0 <=> Has(mq, V))
           /\ HowMany(up, V) \in Nat /\ (HowMany(up, V) > 0 <=> Has(up, V))
<1>1. /\ HowMany(down, V) = 0 <=> \A i \in 1..Len(down) : down[i] \notin V
      /\ HowMany(mq, V) = 0 <=> \A i \in 1..Len(mq) : mq[i] \notin V
      /\ HowMany(up, V) = 0 <=> \A i \in 1..Len(up) : up[i] \notin V
  BY HowManyNone DEF NetShape
<1>2. \A q : Has(q, V) <=> ~ \A i \in 1..Len(q) : q[i] \notin V
  BY DEF Has, In
<1>3. HowMany(down, V) \in Nat /\ HowMany(mq, V) \in Nat /\ HowMany(up, V) \in Nat
  BY TravelsInNat
<1> QED
  BY <1>1, <1>2, <1>3, SMTT(60)

LEMMA Spots ==
    NetShape =>
        /\ \A h \in Handles :
              /\ Starting(h) \in Nat /\ Working(h) \in Nat
              /\ Starting(h) > 0 <=> \E i \in 1..4 : StartsAt(h)[i]
              /\ Working(h) > 0 <=> \E i \in 1..4 : WorksAt(h)[i]
              /\ Starting(h) <= 1 => OneOf(StartsAt(h))
        /\ \A id \in Ids :
              /\ Using(id) \in Nat
              /\ Using(id) > 0 <=> \E i \in 1..4 : UsedAt(id)[i]
              /\ Using(id) <= 1 => OneOf(UsedAt(id))
<1> SUFFICES ASSUME NetShape
             PROVE  /\ \A h \in Handles :
                          /\ Starting(h) \in Nat /\ Working(h) \in Nat
                          /\ Starting(h) > 0 <=> \E i \in 1..4 : StartsAt(h)[i]
                          /\ Working(h) > 0 <=> \E i \in 1..4 : WorksAt(h)[i]
                          /\ Starting(h) <= 1 => OneOf(StartsAt(h))
                    /\ \A id \in Ids :
                          /\ Using(id) \in Nat
                          /\ Using(id) > 0 <=> \E i \in 1..4 : UsedAt(id)[i]
                          /\ Using(id) <= 1 => OneOf(UsedAt(id))
  OBVIOUS
<1>1. ASSUME NEW d \in Nat, NEW m \in Nat, NEW u \in Nat, NEW e \in Nat, NEW at,
             DOMAIN at = 1..4, at[1] <=> d > 0, at[2] <=> m > 0, at[3] <=> u > 0, at[4] <=> e > 0
      PROVE  /\ d + m + u + e \in Nat
             /\ d + m + u + e > 0 <=> \E i \in 1..4 : at[i]
             /\ d + m + u + e <= 1 => OneOf(at)
  BY <1>1 DEF OneOf
<1>2. ASSUME NEW h \in Handles
      PROVE  /\ Starting(h) \in Nat /\ (Starting(h) > 0 <=> \E i \in 1..4 : StartsAt(h)[i])
             /\ Starting(h) <= 1 => OneOf(StartsAt(h))
  <2>1. PICK d \in Nat, m \in Nat, u \in Nat, e \in Nat :
             /\ Starting(h) = d + m + u + e
             /\ d > 0 <=> Has(down, StartsOf(h))
             /\ m > 0 <=> Has(mq, StartsOf(h))
             /\ u > 0 <=> Has(up, StartsOf(h))
             /\ e > 0 <=> \E g \in evInit : g = h
    <3>1. PICK e \in Nat : e = (IF h \in evInit THEN 1 ELSE 0)
      OBVIOUS
    <3>2. Starting(h) = HowMany(down, StartsOf(h)) + HowMany(mq, StartsOf(h)) + HowMany(up, StartsOf(h)) + e
      BY <3>1 DEF Starting, Travelling
    <3>3. e > 0 <=> \E g \in evInit : g = h
      BY <3>1
    <3> QED
      BY <3>2, <3>3, HasCounted
  <2>2. /\ DOMAIN StartsAt(h) = 1..4 /\ (StartsAt(h)[1] <=> d > 0) /\ (StartsAt(h)[2] <=> m > 0)
        /\ (StartsAt(h)[3] <=> u > 0) /\ (StartsAt(h)[4] <=> e > 0)
    BY <2>1 DEF StartsAt
  <2> QED
    BY <1>1, <2>1, <2>2
<1>3. ASSUME NEW h \in Handles
      PROVE  Working(h) \in Nat /\ (Working(h) > 0 <=> \E i \in 1..4 : WorksAt(h)[i])
  <2>1. IsFiniteSet(EvalOf(h)) /\ Cardinality(EvalOf(h)) \in Nat /\ (Cardinality(EvalOf(h)) = 0 <=> EvalOf(h) = {})
    BY EvalFinite, FS_EmptySet
  <2>2. Cardinality(EvalOf(h)) > 0 <=> \E w \in evWork : w[1] = h
    BY <2>1 DEF EvalOf
  <2>3. PICK d \in Nat, m \in Nat, u \in Nat, e \in Nat :
             /\ Working(h) = d + m + u + e
             /\ d > 0 <=> Has(down, WorksOf(h))
             /\ m > 0 <=> Has(mq, WorksOf(h))
             /\ u > 0 <=> Has(up, WorksOf(h))
             /\ e > 0 <=> \E w \in evWork : w[1] = h
    BY <2>1, <2>2, HasCounted DEF Working, Travelling
  <2>4. /\ DOMAIN WorksAt(h) = 1..4 /\ (WorksAt(h)[1] <=> d > 0) /\ (WorksAt(h)[2] <=> m > 0)
        /\ (WorksAt(h)[3] <=> u > 0) /\ (WorksAt(h)[4] <=> e > 0)
    BY <2>3 DEF WorksAt
  <2> QED
    BY <1>1, <2>3, <2>4
<1>4. ASSUME NEW id \in Ids
      PROVE  /\ Using(id) \in Nat /\ (Using(id) > 0 <=> \E i \in 1..4 : UsedAt(id)[i])
             /\ Using(id) <= 1 => OneOf(UsedAt(id))
  <2>1. IsFiniteSet(EvalOn(id)) /\ Cardinality(EvalOn(id)) \in Nat /\ (Cardinality(EvalOn(id)) = 0 <=> EvalOn(id) = {})
    BY EvalFinite, FS_EmptySet
  <2>2. Cardinality(EvalOn(id)) > 0 <=> \E w \in evWork : w[2] = id
    BY <2>1 DEF EvalOn
  <2>3. PICK d \in Nat, m \in Nat, u \in Nat, e \in Nat :
             /\ Using(id) = d + m + u + e
             /\ d > 0 <=> Has(down, UsesOf(id))
             /\ m > 0 <=> Has(mq, UsesOf(id))
             /\ u > 0 <=> Has(up, UsesOf(id))
             /\ e > 0 <=> \E w \in evWork : w[2] = id
    BY <2>1, <2>2, HasCounted DEF Using, Travelling
  <2>4. /\ DOMAIN UsedAt(id) = 1..4 /\ (UsedAt(id)[1] <=> d > 0) /\ (UsedAt(id)[2] <=> m > 0)
        /\ (UsedAt(id)[3] <=> u > 0) /\ (UsedAt(id)[4] <=> e > 0)
    BY <2>3 DEF UsedAt
  <2> QED
    BY <1>1, <2>3, <2>4, SMTT(60)
<1> QED
  BY <1>2, <1>3, <1>4

LEMMA SpotsAfter ==
    NetShape' =>
        (/\ \A h \in Handles :
              /\ Starting(h) \in Nat /\ Working(h) \in Nat
              /\ Starting(h) > 0 <=> \E i \in 1..4 : StartsAt(h)[i]
              /\ Working(h) > 0 <=> \E i \in 1..4 : WorksAt(h)[i]
              /\ Starting(h) <= 1 => OneOf(StartsAt(h))
         /\ \A id \in Ids :
              /\ Using(id) \in Nat
              /\ Using(id) > 0 <=> \E i \in 1..4 : UsedAt(id)[i]
              /\ Using(id) <= 1 => OneOf(UsedAt(id)))'
BY Spots, PTL

LEMMA Nowhere ==
    NetShape =>
        /\ \A h \in Handles :
              /\ Starting(h) = 0 <=> /\ ~ Has(down, StartsOf(h)) /\ ~ Has(mq, StartsOf(h))
                                     /\ ~ Has(up, StartsOf(h)) /\ h \notin evInit
              /\ Working(h) = 0 <=> /\ ~ Has(down, WorksOf(h)) /\ ~ Has(mq, WorksOf(h))
                                    /\ ~ Has(up, WorksOf(h)) /\ \A w \in evWork : w[1] # h
        /\ \A id \in Ids :
              Using(id) = 0 <=> /\ ~ Has(down, UsesOf(id)) /\ ~ Has(mq, UsesOf(id))
                                /\ ~ Has(up, UsesOf(id)) /\ \A w \in evWork : w[2] # id
<1> SUFFICES ASSUME NetShape
             PROVE  /\ \A h \in Handles :
                          /\ Starting(h) = 0 <=> /\ ~ Has(down, StartsOf(h)) /\ ~ Has(mq, StartsOf(h))
                                                 /\ ~ Has(up, StartsOf(h)) /\ h \notin evInit
                          /\ Working(h) = 0 <=> /\ ~ Has(down, WorksOf(h)) /\ ~ Has(mq, WorksOf(h))
                                                /\ ~ Has(up, WorksOf(h)) /\ \A w \in evWork : w[1] # h
                    /\ \A id \in Ids :
                          Using(id) = 0 <=> /\ ~ Has(down, UsesOf(id)) /\ ~ Has(mq, UsesOf(id))
                                            /\ ~ Has(up, UsesOf(id)) /\ \A w \in evWork : w[2] # id
  OBVIOUS
<1>1. \A at : DOMAIN at = 1..4 => ((\E i \in 1..4 : at[i]) <=> (at[1] \/ at[2] \/ at[3] \/ at[4]))
  OBVIOUS
<1>2. ASSUME NEW h \in Handles
      PROVE  /\ Starting(h) > 0 <=> (StartsAt(h)[1] \/ StartsAt(h)[2] \/ StartsAt(h)[3] \/ StartsAt(h)[4])
             /\ Working(h) > 0 <=> (WorksAt(h)[1] \/ WorksAt(h)[2] \/ WorksAt(h)[3] \/ WorksAt(h)[4])
  <2>1. DOMAIN StartsAt(h) = 1..4 /\ DOMAIN WorksAt(h) = 1..4
    BY DEF StartsAt, WorksAt
  <2> QED
    BY <1>1, <2>1, Spots
<1>3. ASSUME NEW id \in Ids PROVE Using(id) > 0 <=> (UsedAt(id)[1] \/ UsedAt(id)[2] \/ UsedAt(id)[3] \/ UsedAt(id)[4])
  <2>1. DOMAIN UsedAt(id) = 1..4
    BY DEF UsedAt
  <2> QED
    BY <1>1, <2>1, Spots
<1>4. ASSUME NEW h \in Handles
      PROVE  Starting(h) > 0 <=> (Has(down, StartsOf(h)) \/ Has(mq, StartsOf(h)) \/ Has(up, StartsOf(h)) \/ h \in evInit)
  BY <1>2, Zenon DEF StartsAt
<1>5. ASSUME NEW h \in Handles
      PROVE  Working(h) > 0 <=> \/ Has(down, WorksOf(h)) \/ Has(mq, WorksOf(h)) \/ Has(up, WorksOf(h))
                                \/ \E w \in evWork : w[1] = h
  BY <1>2 DEF WorksAt
<1>6. ASSUME NEW id \in Ids
      PROVE  Using(id) > 0 <=> \/ Has(down, UsesOf(id)) \/ Has(mq, UsesOf(id)) \/ Has(up, UsesOf(id))
                               \/ \E w \in evWork : w[2] = id
  BY <1>3 DEF UsedAt
<1>7. /\ \A h \in Handles : (Starting(h) = 0 <=> ~ (Starting(h) > 0)) /\ (Working(h) = 0 <=> ~ (Working(h) > 0))
      /\ \A id \in Ids : Using(id) = 0 <=> ~ (Using(id) > 0)
  BY Spots
<1> QED
  BY <1>4, <1>5, <1>6, <1>7

LEMMA NowhereAfter ==
    NetShape' =>
        (/\ \A h \in Handles :
              /\ Starting(h) = 0 <=> /\ ~ Has(down, StartsOf(h)) /\ ~ Has(mq, StartsOf(h))
                                     /\ ~ Has(up, StartsOf(h)) /\ h \notin evInit
              /\ Working(h) = 0 <=> /\ ~ Has(down, WorksOf(h)) /\ ~ Has(mq, WorksOf(h))
                                    /\ ~ Has(up, WorksOf(h)) /\ \A w \in evWork : w[1] # h
         /\ \A id \in Ids :
              Using(id) = 0 <=> /\ ~ Has(down, UsesOf(id)) /\ ~ Has(mq, UsesOf(id))
                                /\ ~ Has(up, UsesOf(id)) /\ \A w \in evWork : w[2] # id)'
BY Nowhere, PTL

\* A permuter comes once.
ComesOnce(h) ==
    /\ Has(down, StartsOf(h)) => ~ Has(mq, StartsOf(h)) /\ ~ Has(up, StartsOf(h)) /\ h \notin evInit
    /\ Has(mq, StartsOf(h)) => ~ Has(up, StartsOf(h)) /\ h \notin evInit
    /\ Has(up, StartsOf(h)) => h \notin evInit
LEMMA StartsApart == NetShape /\ JobsFit => \A h \in Handles : ComesOnce(h)
<1> SUFFICES ASSUME NetShape, JobsFit, NEW h \in Handles PROVE ComesOnce(h)
  OBVIOUS
<1>1. OneOf(StartsAt(h))
  BY Spots DEF JobsFit, JobFits
<1>2. \A at : OneOf(at) => ~ (at[1] /\ at[2]) /\ ~ (at[1] /\ at[3]) /\ ~ (at[1] /\ at[4])
                           /\ ~ (at[2] /\ at[3]) /\ ~ (at[2] /\ at[4]) /\ ~ (at[3] /\ at[4])
  BY DEF OneOf
<1>3. ~ (StartsAt(h)[1] /\ StartsAt(h)[2]) /\ ~ (StartsAt(h)[1] /\ StartsAt(h)[3]) /\ ~ (StartsAt(h)[1] /\ StartsAt(h)[4])
      /\ ~ (StartsAt(h)[2] /\ StartsAt(h)[3]) /\ ~ (StartsAt(h)[2] /\ StartsAt(h)[4]) /\ ~ (StartsAt(h)[3] /\ StartsAt(h)[4])
  BY <1>1, <1>2
<1> QED
  BY <1>3, Zenon DEF StartsAt, ComesOnce

LEMMA StartsApartAfter == NetShape' /\ JobsFit' => (\A h \in Handles : ComesOnce(h))'
BY StartsApart, PTL

-----------------------------------------------------------------------------
(* Jobs.                                                                   *)

\* Nothing but the controller's choice adds to what is under way.
LEMMA OnlyChoiceAdds ==
    ASSUME NetShape, JobsFit, MessagesTell, IdsOnce, N!Next
    PROVE  /\ \A h \in Handles : /\ ~ N!ChooseAdd(h) => Starting(h)' <= Starting(h)
                                 /\ ~ N!ChooseWork(h) => Working(h)' <= Working(h)
           /\ \A id \in Ids : (\A h \in Handles : ~ N!ChooseWork(h)) => Using(id)' <= Using(id)
<1> DEFINE Fewer == /\ \A h \in Handles : Starting(h)' <= Starting(h) /\ Working(h)' <= Working(h)
                    /\ \A id \in Ids : Using(id)' <= Using(id)
<1>0. /\ \A h \in Handles : Starting(h) \in Nat /\ Working(h) \in Nat
      /\ \A id \in Ids : Using(id) \in Nat
  BY Spots
<1>1. SameTallies => Fewer
  BY <1>0 DEF SameTallies
<1>2. QuietStep => Fewer
  BY <1>1, QuietTallies
<1>3. ASSUME N!HearInit \/ N!HearResult \/ N!HearMisfit PROVE Fewer
  <2>1. up # <<>> /\ up' = Tail(up) /\ UNCHANGED <<down, mq, evInit, evWork>>
    BY <1>3 DEF N!HearInit, N!HearResult, N!HearMisfit, N!Hear, N!CtlRest
  <2> QED
    BY <1>0, <2>1, HearTallies
<1>4. N!ReadLoop => Fewer
  BY <1>1, ReadTallies
<1>5. ASSUME N!HandleAdd PROVE Fewer
  <2>1. N!Get("add")
    BY <1>5 DEF N!HandleAdd
  <2>2. Head(mq).h \notin active /\ Head(mq).h \notin evInit
    BY <2>1, AddIsNews
  <2> QED
    BY <1>1, <1>5, <2>2, AddTallies
<1>6. N!HandleImmediate => Fewer
  BY <1>1, ImmediateTallies
<1>7. ASSUME N!HandleWork PROVE Fewer
  <2>1. N!Get("work")
    BY <1>7 DEF N!HandleWork
  <2>2. <<Head(mq).h, Head(mq).id>> \notin evWork
    BY <2>1, WorkIsNews
  <2> QED
    BY <1>0, <1>1, <1>7, <2>2, WorkTallies
<1>8. N!HandleInit => Fewer
  BY <1>0, InitTallies
<1>9. ASSUME N!HandleWorkDone PROVE Fewer
  <2>1. N!Get("done")
    BY <1>9 DEF N!HandleWorkDone
  <2>2. Head(mq).id \in time_starts
    BY <2>1, DoneIsTimed
  <2> QED
    BY <1>0, <1>9, <2>2, DoneTallies
<1>10. \A h \in Handles : N!EvalInit(h) => Fewer
  BY <1>1, EvalInitTallies
<1>11. \A w \in evWork : N!EvalResult(w) => Fewer
  BY <1>1, EvalResultTallies
<1>12. ASSUME NEW g \in Handles, N!ChooseAdd(g)
       PROVE  /\ \A h \in Handles : (h # g => Starting(h)' <= Starting(h)) /\ Working(h)' <= Working(h)
              /\ \A id \in Ids : Using(id)' <= Using(id)
  BY <1>0, <1>12, ChooseTallies
<1>13. ASSUME NEW g \in Handles, N!ChooseWork(g)
       PROVE  \A h \in Handles : (h # g => Working(h)' <= Working(h)) /\ Starting(h)' <= Starting(h)
  BY <1>0, <1>13, ChooseTallies
<1>14. ASSUME N!Next, ~ Fewer PROVE \E g \in Handles : N!ChooseAdd(g) \/ N!ChooseWork(g)
  <2> HIDE DEF Fewer
  <2>1. ~ (N!HearInit \/ N!HearResult \/ N!HearMisfit \/ N!ReadLoop \/ N!HandleAdd \/ N!HandleImmediate
           \/ N!HandleWork \/ N!HandleInit \/ N!HandleWorkDone)
    BY <1>3, <1>4, <1>5, <1>6, <1>7, <1>8, <1>9, <1>14
  <2>2. ~ N!Evaluates
    BY <1>10, <1>11, <1>14 DEF N!Evaluates
  <2>3. ~ QuietStep
    BY <1>2, <1>14
  <2> QED
    BY <1>14, <2>1, <2>2, <2>3 DEF N!Next, N!Chooses, N!Hears, N!HandleMessage, QuietStep
<1> QED
  BY <1>12, <1>13, <1>14

LEMMA JobFitsFewer ==
    ASSUME NetShape, NetShape', NEW h \in Handles, JobFits(h), Starting(h)' <= Starting(h), Working(h)' <= Working(h),
           job'[h] = job[h], active_work'[h] = active_work[h], h \in kicked => h \in kicked',
           \/ clients'[h] = clients[h]
           \/ clients'[h] = "gone"
           \/ clients[h] = "new" /\ clients'[h] = "here"
    PROVE  JobFits(h)'
<1>1. Starting(h) \in Nat /\ Working(h) \in Nat /\ active_work[h] \in Nat
  BY Spots DEF NetShape
<1>2. Starting(h)' \in Nat /\ Working(h)' \in Nat
  BY SpotsAfter
<1>3. PICK p \in Nat, q \in Nat : p = Starting(h)' /\ q = Working(h)'
  BY <1>2
<1>4. /\ Starting(h) <= 1
      /\ Starting(h) = 1 => Working(h) = 0 /\ job[h] \in {"none", "loading"}
      /\ clients[h] = "new" => job[h] = "none"
      /\ job[h] = "none" /\ clients[h] # "gone" => Starting(h) = 0 /\ Working(h) = 0
      /\ job[h] = "loading" \/ (job[h] = "failed" /\ h \notin kicked) => Working(h) = 0
      /\ job[h] # "loaded" => active_work[h] = 0
      /\ job[h] = "loaded" => Working(h) <= active_work[h]
  BY DEF JobFits
<1>5. /\ p <= 1
      /\ p = 1 => q = 0 /\ job[h] \in {"none", "loading"}
      /\ clients'[h] = "new" => job'[h] = "none"
      /\ job[h] = "none" /\ clients'[h] # "gone" => p = 0 /\ q = 0
      /\ job[h] = "loading" \/ (job[h] = "failed" /\ h \notin kicked') => q = 0
      /\ job[h] # "loaded" => active_work[h] = 0
      /\ job[h] = "loaded" => q <= active_work[h]
  BY <1>1, <1>3, <1>4
<1> QED
  BY <1>3, <1>5 DEF JobFits

\* The steps that leave the controller's jobs alone.
LEMMA JobsUnmoved ==
    ASSUME NetShape, N!Next, ~ N!HearResult, ~ N!HearDisconnect, ~ N!HearInit,
           \A h \in Handles : ~ N!ChooseWork(h) /\ ~ N!ChooseRemove(h) /\ ~ N!ChooseAdd(h)
    PROVE  /\ UNCHANGED <<job, active_work>>
           /\ \/ clients' = clients
              \/ \E h \in Handles : clients[h] = "new" /\ clients' = [clients EXCEPT ![h] = "here"]
              \/ \E h \in Handles : clients[h] = "here" /\ clients' = [clients EXCEPT ![h] = "gone"]
           /\ kicked \subseteq kicked'
<1>1. CASE ControllerStep
  <2>1. kicked' = kicked
    BY <1>1, ControllerFrame
  <2>2. ASSUME NEW h \in Handles, N!ClientComes(h) \/ N!ClientGoes(h)
        PROVE  /\ UNCHANGED <<job, active_work>>
               /\ \/ clients[h] = "new" /\ clients' = [clients EXCEPT ![h] = "here"]
                  \/ clients[h] = "here" /\ clients' = [clients EXCEPT ![h] = "gone"]
    BY <2>2 DEF N!ClientComes, N!ClientGoes
  <2>3. ASSUME N!TakeCredit \/ N!HearMisfit \/ N!HearNeed PROVE UNCHANGED <<job, active_work, clients>>
    BY <2>3 DEF N!TakeCredit, N!HearMisfit, N!HearNeed, N!CtlRest
  <2> QED
    BY <1>1, <2>1, <2>2, <2>3 DEF ControllerStep, N!Chooses, N!Hears
<1>2. CASE ServerStep
  <2>1. UNCHANGED <<job, active_work, clients>>
    BY <1>2, ServerFrame
  <2>2. ASSUME NEW h \in Handles, N!Kick(h) \/ N!EvalInit(h) PROVE kicked \subseteq kicked'
    BY <2>2 DEF N!Kick, N!EvalInit
  <2>3. ASSUME NEW w \in evWork, N!EvalResult(w) PROVE kicked' = kicked
    BY <2>3 DEF N!EvalResult
  <2>4. ASSUME N!ReadLoop \/ N!NetThreadDisconnected \/ N!NetFails \/ N!WriteFails \/ N!Stop PROVE kicked' = kicked
    BY <2>4 DEF N!ReadLoop, N!NetThreadDisconnected, N!NetFails, N!WriteFails, N!Stop
  <2>5. ASSUME N!HandleMessage PROVE kicked' = kicked
    <3>1. N!MainRest
      BY <2>5 DEF N!HandleMessage, N!HandleShutdown, N!HandleNetDown, N!HandleWork, N!HandleAdd, N!HandleRemove,
                  N!HandleKick, N!HandleImmediate, N!HandleInit, N!HandleWorkDone
    <3> QED
      BY <3>1 DEF N!MainRest
  <2> QED
    BY <1>2, <2>1, <2>2, <2>3, <2>4, <2>5 DEF ServerStep, N!Evaluates
<1> QED
  BY <1>1, <1>2, EachStep

\* The answer to a permuter's coming is the only one, and its job waits for it.
LEMMA InitIsAwaited ==
    ASSUME NetShape, JobsFit, NEW h \in Handles, Has(up, StartsOf(h)) \/ Has(mq, StartsOf(h)) \/ Has(down, StartsOf(h)) \/ h \in evInit
    PROVE  Starting(h) = 1 /\ Working(h) = 0 /\ job[h] \in {"none", "loading"}
<1>1. Starting(h) # 0 /\ Starting(h) \in Nat
  BY Nowhere, Spots
<1>2. Starting(h) = 1
  BY <1>1 DEF JobsFit, JobFits
<1> QED
  BY <1>2 DEF JobsFit, JobFits

LEMMA HeadOfUp ==
    ASSUME NetShape, NEW type \in {"init", "disconnect", "result"}, N!Hear(type)
    PROVE  /\ Head(up).h \in Handles /\ In(Head(up), up)
           /\ type = "init" => Has(up, StartsOf(Head(up).h))
           /\ type = "result" => Has(up, WorksOf(Head(up).h))
<1>1. up # <<>> /\ Head(up) \in Msgs /\ Head(up).type = type /\ Head(up).h \in Handles
  BY HearFacts
<1>2. In(Head(up), up)
  BY <1>1, InTail DEF NetShape
<1> QED
  BY <1>1, <1>2 DEF Has, StartsOf, WorksOf

LEMMA JobsFitKept ==
    ASSUME NetShape, NetShape', JobsFit, MessagesTell, IdsOnce, N!Next
    PROVE  JobsFit'
<1>1. \A h \in Handles : /\ Starting(h) \in Nat /\ Working(h) \in Nat /\ active_work[h] \in Nat
                         /\ Starting(h)' \in Nat /\ Working(h)' \in Nat
  BY Spots, SpotsAfter DEF NetShape
<1>2. \A h \in Handles : JobFits(h)
  BY DEF JobsFit
<1>3. CASE ~ N!HearResult /\ ~ N!HearDisconnect /\ ~ N!HearInit
           /\ \A h \in Handles : ~ N!ChooseWork(h) /\ ~ N!ChooseRemove(h) /\ ~ N!ChooseAdd(h)
  <2>1. /\ UNCHANGED <<job, active_work>> /\ kicked \subseteq kicked'
        /\ \A h \in Handles : \/ clients'[h] = clients[h] \/ clients'[h] = "gone"
                              \/ clients[h] = "new" /\ clients'[h] = "here"
    BY <1>3, JobsUnmoved, ZenonT(60) DEF NetShape
  <2>2. \A h \in Handles : Starting(h)' <= Starting(h) /\ Working(h)' <= Working(h)
    BY <1>3, OnlyChoiceAdds
  <2>3. ASSUME NEW h \in Handles PROVE JobFits(h)'
    BY <1>2, <2>1, <2>2, JobFitsFewer
  <2> QED
    BY <2>3 DEF JobsFit
<1>4. ASSUME NEW g \in Handles, ControllerStep, UNCHANGED clients,
             \A h \in Handles \ {g} : /\ job'[h] = job[h] /\ active_work'[h] = active_work[h]
                                      /\ Starting(h)' <= Starting(h) /\ Working(h)' <= Working(h),
             JobFits(g)'
      PROVE  JobsFit'
  <2>1. ASSUME NEW h \in Handles \ {g} PROVE JobFits(h)'
    <3>1. kicked' = kicked /\ clients'[h] = clients[h]
      BY <1>4, ControllerFrame
    <3>2. JobFits(h)
      BY <1>2
    <3> QED
      BY <1>4, <3>1, <3>2, JobFitsFewer
  <2> QED
    BY <1>4, <2>1 DEF JobsFit
<1>5. ASSUME NEW g \in Handles, N!ChooseAdd(g) PROVE JobsFit'
  <2>1. /\ job[g] = "none" /\ clients[g] = "here" /\ UNCHANGED <<clients, active_work>>
        /\ job' = [job EXCEPT ![g] = "loading"] /\ ControllerStep
    BY <1>5 DEF N!ChooseAdd, N!ToAdd, N!Here, ControllerStep, N!Chooses
  <2>2. Starting(g) = 0 /\ Working(g) = 0 /\ active_work[g] = 0
    BY <1>2, <2>1 DEF JobFits
  <2>3. Starting(g)' = 1 /\ Working(g)' = 0
    BY <1>5, <2>2, ChooseTallies
  <2>4. job'[g] = "loading" /\ active_work'[g] = 0 /\ clients'[g] = "here"
    BY <2>1, <2>2 DEF NetShape
  <2>5. JobFits(g)'
    BY <2>3, <2>4 DEF JobFits
  <2>6. \A h \in Handles \ {g} : Starting(h)' <= Starting(h) /\ Working(h)' <= Working(h)
    BY <1>1, <1>5, ChooseTallies
  <2>7. \A h \in Handles \ {g} : job'[h] = job[h] /\ active_work'[h] = active_work[h]
    BY <2>1 DEF NetShape
  <2> QED
    BY <1>4, <2>1, <2>5, <2>6, <2>7
<1>6. ASSUME NEW g \in Handles, N!ChooseRemove(g) PROVE JobsFit'
  <2>1. /\ clients[g] = "gone" /\ UNCHANGED clients /\ active_work' = [active_work EXCEPT ![g] = 0]
        /\ job' = [job EXCEPT ![g] = "none"] /\ ControllerStep /\ QuietStep
    BY <1>6 DEF N!ChooseRemove, N!ToRemove, ControllerStep, N!Chooses, QuietStep
  <2>2. SameTallies
    BY <2>1, QuietTallies
  <2>3. Starting(g)' = Starting(g) /\ Working(g)' = Working(g)
    BY <2>2 DEF SameTallies
  <2>4. Starting(g) <= 1 /\ (Starting(g) = 1 => Working(g) = 0)
    BY <1>2 DEF JobFits
  <2>5. job'[g] = "none" /\ active_work'[g] = 0 /\ clients'[g] = "gone"
    BY <2>1 DEF NetShape
  <2>6. JobFits(g)'
    BY <2>3, <2>4, <2>5 DEF JobFits
  <2>7. \A h \in Handles \ {g} : Starting(h)' <= Starting(h) /\ Working(h)' <= Working(h)
    BY <1>1, <2>2 DEF SameTallies
  <2>8. \A h \in Handles \ {g} : job'[h] = job[h] /\ active_work'[h] = active_work[h]
    BY <2>1 DEF NetShape
  <2> QED
    BY <1>4, <2>1, <2>6, <2>7, <2>8
<1>7. ASSUME NEW g \in Handles, N!ChooseWork(g) PROVE JobsFit'
  <2>1. /\ job[g] = "loaded" /\ UNCHANGED <<clients, job>> /\ active_work' = [active_work EXCEPT ![g] = @ + 1]
        /\ ControllerStep
    BY <1>7 DEF N!ChooseWork, ControllerStep, N!Chooses
  <2>2. Starting(g) = 0 /\ Working(g) <= active_work[g] /\ clients[g] # "new"
    BY <1>1, <1>2, <2>1 DEF JobFits
  <2>3. Starting(g)' = 0 /\ Working(g)' = Working(g) + 1
    BY <1>7, <2>2, ChooseTallies
  <2>4. active_work'[g] = active_work[g] + 1
    BY <1>1, <2>1 DEF NetShape
  <2>5. Working(g) + 1 <= active_work[g] + 1
    BY <1>1, <2>2
  <2>6. JobFits(g)'
    BY <2>1, <2>2, <2>3, <2>4, <2>5 DEF JobFits
  <2>7. \A h \in Handles \ {g} : Starting(h)' <= Starting(h) /\ Working(h)' <= Working(h)
    BY <1>1, <1>7, ChooseTallies
  <2>8. \A h \in Handles \ {g} : job'[h] = job[h] /\ active_work'[h] = active_work[h]
    BY <2>1 DEF NetShape
  <2> QED
    BY <1>4, <2>1, <2>6, <2>7, <2>8
<1>8. ASSUME NEW type \in {"init", "disconnect", "result"}, N!Hear(type), N!Next,
             \/ type = "init" /\ N!HearInit
             \/ type = "disconnect" /\ N!HearDisconnect
             \/ type = "result" /\ N!HearResult
      PROVE  JobsFit'
  <2>1. PICK g \in Handles : g = Head(up).h
    BY <1>8, HeadOfUp
  <2>2. /\ Head(up).type = type /\ Head(up) \in Msgs /\ ControllerStep /\ UNCHANGED clients /\ Tells(Head(up))
        /\ (N!Known(g) /\ type = "init" => job[g] = "loading")
        /\ (N!Known(g) /\ type # "init" => job[g] = "loaded")
    <3>1. In(Head(up), up) /\ Head(up).type = type /\ Head(up) \in Msgs
      BY <1>8, HeadOfUp, HearFacts
    <3>2. Tells(Head(up))
      BY <3>1 DEF MessagesTell, In
    <3>3. ControllerStep /\ UNCHANGED clients
      BY <1>8 DEF ControllerStep, N!Hears, N!CtlRest, N!HearInit, N!HearDisconnect, N!HearResult
    <3> QED
      BY <1>8, <2>1, <3>1, <3>2, <3>3, HearFacts
  <2>3. \A h \in Handles : Starting(h)' <= Starting(h) /\ Working(h)' <= Working(h)
    <3>1. \A h \in Handles : ~ N!ChooseAdd(h) /\ ~ N!ChooseWork(h)
      <4>1. \A h \in Handles : N!ChooseAdd(h) \/ N!ChooseWork(h) => up' = up
        BY DEF N!ChooseAdd, N!ChooseWork
      <4>2. up # <<>> /\ up' = Tail(up)
        BY <1>8 DEF N!Hear
      <4>3. Len(Tail(up)) # Len(up)
        BY <4>2, TailFacts DEF NetShape
      <4> QED
        BY <4>1, <4>2, <4>3
    <3> QED
      BY <3>1, OnlyChoiceAdds
  <2>4. CASE ~ N!Known(g)
    <3>1. UNCHANGED <<job, active_work>>
      BY <1>8, <2>1, <2>4 DEF N!HearInit, N!HearDisconnect, N!HearResult
    <3>2. kicked' = kicked
      BY <2>2, ControllerFrame
    <3>3. JobFits(g)'
      BY <1>2, <2>2, <2>3, <3>1, <3>2, JobFitsFewer
    <3> QED
      BY <1>4, <2>2, <2>3, <3>1, <3>3
  <2>5. CASE N!Known(g) /\ type = "init"
    <3>1. Starting(g) = 1 /\ Working(g) = 0
      BY <1>8, <2>1, <2>5, HeadOfUp, InitIsAwaited
    <3>2. /\ up # <<>> /\ up' = Tail(up) /\ UNCHANGED <<down, mq, evInit, evWork, active_work>>
          /\ \E s \in {"loaded", "failed"} : job' = [job EXCEPT ![g] = s]
      BY <1>8, <2>1, <2>5 DEF N!HearInit, N!Hear, N!CtlRest
    <3>3. Starting(g)' = 0 /\ Working(g)' = 0
      BY <2>1, <2>2, <2>5, <3>1, <3>2, HearTallies
    <3>4. active_work'[g] = 0 /\ job'[g] \in {"loaded", "failed"} /\ clients'[g] = "here"
      BY <1>2, <2>2, <2>5, <3>2 DEF JobFits, N!Known, N!Here, NetShape
    <3>5. JobFits(g)'
      BY <3>3, <3>4 DEF JobFits
    <3>6. \A h \in Handles \ {g} : job'[h] = job[h] /\ active_work'[h] = active_work[h]
      BY <3>2 DEF NetShape
    <3> QED
      BY <1>4, <2>2, <2>3, <3>5, <3>6
  <2>6. CASE N!Known(g) /\ type = "disconnect"
    <3>1. job' = [job EXCEPT ![g] = "failed"] /\ active_work' = [active_work EXCEPT ![g] = 0]
      BY <1>8, <2>1, <2>6 DEF N!HearDisconnect
    <3>2. Starting(g) = 0
      BY <1>1, <1>2, <2>2, <2>6 DEF JobFits
    <3>3. Starting(g)' = 0
      BY <1>1, <2>3, <3>2
    <3>4. g \in kicked'
      BY <2>1, <2>2, <2>6, ControllerFrame DEF Tells
    <3>5. active_work'[g] = 0 /\ job'[g] = "failed" /\ clients'[g] = "here"
      BY <2>2, <2>6, <3>1 DEF N!Known, N!Here, NetShape
    <3>6. JobFits(g)'
      BY <3>3, <3>4, <3>5 DEF JobFits
    <3>7. \A h \in Handles \ {g} : job'[h] = job[h] /\ active_work'[h] = active_work[h]
      BY <3>1 DEF NetShape
    <3> QED
      BY <1>4, <2>2, <2>3, <3>6, <3>7
  <2>7. CASE N!Known(g) /\ type = "result"
    <3>1. job' = job /\ active_work' = [active_work EXCEPT ![g] = @ - 1] /\ up # <<>> /\ up' = Tail(up)
          /\ UNCHANGED <<down, mq, evInit, evWork>>
      BY <1>8, <2>1, <2>7 DEF N!HearResult, N!Hear, N!CtlRest
    <3>2. Starting(g) = 0 /\ Working(g) <= active_work[g]
      BY <1>1, <1>2, <2>2, <2>7 DEF JobFits
    <3>3. Starting(g)' = 0 /\ Working(g)' = Working(g) - 1
      BY <1>1, <2>1, <2>2, <2>7, <3>1, <3>2, HearTallies
    <3>4. active_work'[g] = active_work[g] - 1
      BY <1>1, <3>1 DEF NetShape
    <3>5. Working(g) - 1 <= active_work[g] - 1
      BY <1>1, <3>2
    <3>6. job'[g] = "loaded" /\ clients'[g] = "here"
      BY <2>2, <2>7, <3>1 DEF N!Known, N!Here
    <3>7. JobFits(g)'
      BY <3>3, <3>4, <3>5, <3>6 DEF JobFits
    <3>8. \A h \in Handles \ {g} : job'[h] = job[h] /\ active_work'[h] = active_work[h]
      BY <3>1 DEF NetShape
    <3> QED
      BY <1>4, <2>2, <2>3, <3>7, <3>8
  <2> QED
    BY <2>4, <2>5, <2>6, <2>7
<1>9. N!HearInit => N!Hear("init")
  BY DEF N!HearInit
<1>10. N!HearDisconnect => N!Hear("disconnect")
  BY DEF N!HearDisconnect
<1>11. N!HearResult => N!Hear("result")
  BY DEF N!HearResult
<1> QED
  BY <1>3, <1>5, <1>6, <1>7, <1>8, <1>9, <1>10, <1>11

-----------------------------------------------------------------------------
(* What messages tell.                                                     *)

\* Who changes a job, and who the evaluator's view of a permuter.
LEMMA JobMoves ==
    ASSUME NetShape, N!Next, NEW h \in Handles
    PROVE  /\ clients[h] = "gone" => clients'[h] = "gone"
           /\ clients'[h] = "new" => clients[h] = "new"
           /\ clients'[h] = "gone" /\ clients[h] # "gone" => N!ClientGoes(h) /\ clients[h] = "here"
           /\ \/ job'[h] = job[h]
              \/ N!ChooseAdd(h) /\ job[h] = "none" /\ clients[h] = "here" /\ job'[h] = "loading"
              \/ N!ChooseRemove(h) /\ clients[h] = "gone" /\ job'[h] = "none"
              \/ N!HearInit /\ Head(up).h = h /\ N!Known(h) /\ job'[h] = IF Head(up).ok THEN "loaded" ELSE "failed"
              \/ N!HearDisconnect /\ Head(up).h = h /\ N!Known(h) /\ job'[h] = "failed"
<1>0. job \in [Handles -> {"none", "loading", "loaded", "failed"}] /\ clients \in [Handles -> {"new", "here", "gone"}]
  BY DEF NetShape
<1>1. CASE ~ N!HearResult /\ ~ N!HearDisconnect /\ ~ N!HearInit
           /\ \A g \in Handles : ~ N!ChooseWork(g) /\ ~ N!ChooseRemove(g) /\ ~ N!ChooseAdd(g)
  <2>1. job' = job
    BY <1>1, JobsUnmoved
  <2>2. CASE clients' = clients
    BY <2>1, <2>2
  <2>3. ASSUME NEW g \in Handles, N!ClientComes(g) \/ N!ClientGoes(g)
        PROVE  /\ clients[h] = "gone" => clients'[h] = "gone"
               /\ clients'[h] = "new" => clients[h] = "new"
               /\ clients'[h] = "gone" /\ clients[h] # "gone" => N!ClientGoes(h) /\ clients[h] = "here"
    BY <1>0, <2>3 DEF N!ClientComes, N!ClientGoes
  <2>4. (\A g \in Handles : ~ N!ClientComes(g) /\ ~ N!ClientGoes(g)) => clients' = clients
    <3>1. ServerStep => clients' = clients
      BY ServerFrame
    <3>2. N!TakeCredit \/ N!HearMisfit \/ N!HearNeed => clients' = clients
      BY DEF N!TakeCredit, N!HearMisfit, N!HearNeed, N!CtlRest
    <3> QED
      BY <1>1, <3>1, <3>2, EachStep DEF ControllerStep, N!Chooses, N!Hears
  <2> QED
    BY <2>1, <2>2, <2>3, <2>4
<1>2. ASSUME NEW g \in Handles, N!ChooseWork(g) PROVE UNCHANGED <<job, clients>>
  BY <1>2 DEF N!ChooseWork
<1>3. ASSUME NEW g \in Handles, N!ChooseRemove(g)
      PROVE  clients' = clients /\ clients[g] = "gone" /\ job' = [job EXCEPT ![g] = "none"]
  BY <1>3 DEF N!ChooseRemove, N!ToRemove
<1>4. ASSUME NEW g \in Handles, N!ChooseAdd(g)
      PROVE  clients' = clients /\ clients[g] = "here" /\ job[g] = "none" /\ job' = [job EXCEPT ![g] = "loading"]
  BY <1>4 DEF N!ChooseAdd, N!ToAdd, N!Here
<1>5. ASSUME N!HearResult PROVE UNCHANGED <<job, clients>>
  BY <1>5 DEF N!HearResult, N!CtlRest
<1>6. ASSUME N!HearInit
      PROVE  /\ clients' = clients
             /\ \/ job' = job
                \/ /\ N!Known(Head(up).h)
                   /\ job' = [job EXCEPT ![Head(up).h] = IF Head(up).ok THEN "loaded" ELSE "failed"]
  BY <1>6 DEF N!HearInit, N!CtlRest
<1>7. ASSUME N!HearDisconnect
      PROVE  /\ clients' = clients
             /\ job' = job \/ (N!Known(Head(up).h) /\ job' = [job EXCEPT ![Head(up).h] = "failed"])
  BY <1>7 DEF N!HearDisconnect, N!CtlRest
<1>8. ASSUME NEW s, NEW g, job' = [job EXCEPT ![g] = s] PROVE job'[h] = job[h] \/ (g = h /\ job'[h] = s)
  BY <1>0, <1>8
<1>9. CASE \E g \in Handles : N!ChooseRemove(g)
  BY <1>3, <1>8, <1>9
<1>10. CASE \E g \in Handles : N!ChooseAdd(g)
  BY <1>4, <1>8, <1>10
<1>11. CASE N!HearInit
  BY <1>6, <1>8, <1>11
<1>12. CASE N!HearDisconnect
  BY <1>7, <1>8, <1>12
<1>13. CASE N!HearResult \/ \E g \in Handles : N!ChooseWork(g)
  BY <1>2, <1>5, <1>13
<1> QED
  BY <1>1, <1>9, <1>10, <1>11, <1>12, <1>13

LEMMA EvMoves ==
    ASSUME NetShape, JobsFit, MessagesTell, N!Next, NEW h \in Handles
    PROVE  /\ \/ ev'[h] = ev[h]
              \/ /\ N!HandleAdd /\ Head(mq).h = h /\ ev'[h] = "here" /\ h \in evInit' /\ h \in active'
                 /\ h \notin active /\ h \notin evInit /\ ev[h] = "none"
              \/ (N!HandleRemove \/ N!HandleKick) /\ Head(mq).h = h /\ h \in active /\ h \notin active' /\ ev'[h] = "removed"
              \/ N!EvalInit(h) /\ ev[h] = "here" /\ ev'[h] = "failed" /\ In([type |-> "init", h |-> h, ok |-> FALSE], mq')
           /\ h \in shown' \ shown => N!HandleAdd /\ Head(mq).h = h /\ h \in evInit'
           /\ h \in active' \ active => N!HandleAdd /\ Head(mq).h = h /\ h \in evInit' /\ ev'[h] = "here"
           /\ h \in active \ active' =>
                 /\ N!HandleRemove \/ N!HandleKick \/ (N!HandleInit /\ ~ Head(mq).ok)
                 /\ Head(mq).h = h
           /\ h \in evInit' \ evInit => N!HandleAdd /\ Head(mq).h = h
<1> DEFINE Goal == /\ \/ ev'[h] = ev[h]
                      \/ /\ N!HandleAdd /\ Head(mq).h = h /\ ev'[h] = "here" /\ h \in evInit' /\ h \in active'
                         /\ h \notin active /\ h \notin evInit /\ ev[h] = "none"
                      \/ (N!HandleRemove \/ N!HandleKick) /\ Head(mq).h = h /\ h \in active /\ h \notin active' /\ ev'[h] = "removed"
                      \/ N!EvalInit(h) /\ ev[h] = "here" /\ ev'[h] = "failed" /\ In([type |-> "init", h |-> h, ok |-> FALSE], mq')
                   /\ h \in shown' \ shown => N!HandleAdd /\ Head(mq).h = h /\ h \in evInit'
                   /\ h \in active' \ active => N!HandleAdd /\ Head(mq).h = h /\ h \in evInit' /\ ev'[h] = "here"
                   /\ h \in active \ active' =>
                         /\ N!HandleRemove \/ N!HandleKick \/ (N!HandleInit /\ ~ Head(mq).ok)
                         /\ Head(mq).h = h
                   /\ h \in evInit' \ evInit => N!HandleAdd /\ Head(mq).h = h
<1>0. ev \in [Handles -> {"none", "here", "failed", "removed"}]
  BY DEF NetShape
<1>1. UNCHANGED <<ev, shown, active, evInit>> => Goal
  OBVIOUS
<1>2. ASSUME ControllerStep PROVE Goal
  BY <1>1, <1>2, ControllerFrame
<1>3. ASSUME NEW g \in Handles, N!Kick(g) PROVE Goal
  BY <1>3, <1>1 DEF N!Kick, N!main
<1>4. ASSUME NEW w \in evWork, N!EvalResult(w) PROVE Goal
  BY <1>4, <1>1 DEF N!EvalResult, N!main
<1>5. ASSUME N!ReadLoop \/ N!NetThreadDisconnected \/ N!NetFails \/ N!WriteFails \/ N!Stop PROVE Goal
  BY <1>5, <1>1 DEF N!ReadLoop, N!NetThreadDisconnected, N!NetFails, N!WriteFails, N!Stop, N!main
<1>6. ASSUME NEW g \in Handles, N!EvalInit(g) PROVE Goal
  <2>1. UNCHANGED <<shown, active>> /\ evInit' = evInit \ {g}
    BY <1>6 DEF N!EvalInit, N!main
  <2>2. PICK ok \in BOOLEAN :
            /\ ev' = [ev EXCEPT ![g] = IF @ = "here" /\ ~ ok THEN "failed" ELSE @]
            /\ mq' = Append(mq, [type |-> "init", h |-> g, ok |-> ok])
    BY <1>6 DEF N!EvalInit
  <2>3. CASE ok \/ g # h \/ ev[g] # "here"
    <3>1. ev'[h] = ev[h]
      BY <1>0, <2>2, <2>3
    <3> QED
      BY <2>1, <3>1
  <2>4. CASE ~ ok /\ g = h /\ ev[g] = "here"
    <3>1. ev'[h] = "failed"
      BY <1>0, <2>2, <2>4
    <3>2. [type |-> "init", h |-> g, ok |-> ok] = [type |-> "init", h |-> h, ok |-> FALSE]
      BY <2>4
    <3>3. In([type |-> "init", h |-> g, ok |-> ok], mq')
      <4>1. [type |-> "init", h |-> g, ok |-> ok] \in Msgs
        BY MsgsExist
      <4> QED
        BY <2>2, <4>1, InAppend DEF NetShape
    <3> QED
      BY <1>6, <2>1, <2>4, <3>1, <3>2, <3>3
  <2> QED
    BY <2>3, <2>4
<1>7. ASSUME \/ N!HandleShutdown \/ N!HandleNetDown \/ N!HandleWork \/ N!HandleImmediate \/ N!HandleWorkDone
      PROVE  Goal
  BY <1>7, <1>1 DEF N!HandleShutdown, N!HandleNetDown, N!HandleWork, N!HandleImmediate, N!HandleWorkDone, N!main
<1>8. ASSUME N!HandleAdd PROVE Goal
  <2>1. N!Get("add")
    BY <1>8 DEF N!HandleAdd
  <2>2. PICK g \in Handles : g = Head(mq).h
    BY <2>1, AddIsNews
  <2>3. g \notin active /\ g \notin evInit /\ ev[g] = "none"
    BY <2>1, <2>2, AddIsNews
  <2>4. active' = active \cup {g} /\ shown' = shown \cup {g} /\ ev' = [ev EXCEPT ![g] = "here"] /\ evInit' = evInit \cup {g}
    BY <1>8, <2>2, <2>3 DEF N!HandleAdd
  <2>5. ev'[g] = "here" /\ (g # h => ev'[h] = ev[h])
    BY <1>0, <2>4
  <2> QED
    BY <1>8, <2>2, <2>3, <2>4, <2>5
<1>9. ASSUME N!HandleRemove \/ N!HandleKick PROVE Goal
  <2>1. UNCHANGED <<shown, evInit>>
    BY <1>9 DEF N!HandleRemove, N!HandleKick
  <2>2. \/ UNCHANGED <<active, ev>>
        \/ Head(mq).h \in active /\ ev' = [ev EXCEPT ![Head(mq).h] = "removed"] /\ active' = active \ {Head(mq).h}
    BY <1>9 DEF N!HandleRemove, N!HandleKick, N!Remove
  <2>3. CASE UNCHANGED <<active, ev>>
    BY <1>1, <2>1, <2>3
  <2>4. CASE Head(mq).h \in active /\ ev' = [ev EXCEPT ![Head(mq).h] = "removed"] /\ active' = active \ {Head(mq).h}
    <3>1. PICK g \in Handles : g = Head(mq).h
      BY <2>4 DEF NetShape
    <3>2. ev'[g] = "removed" /\ (g # h => ev'[h] = ev[h])
      BY <1>0, <2>4, <3>1
    <3> QED
      BY <1>9, <2>1, <2>4, <3>1, <3>2
  <2> QED
    BY <2>2, <2>3, <2>4
<1>10. ASSUME N!HandleInit PROVE Goal
  <2>1. UNCHANGED <<ev, shown, evInit>>
    BY <1>10 DEF N!HandleInit
  <2>2. active' = active \/ (~ Head(mq).ok /\ active' = active \ {Head(mq).h})
    BY <1>10 DEF N!HandleInit
  <2> QED
    BY <1>10, <2>1, <2>2
<1> HIDE DEF Goal
<1>11. Goal
  BY <1>2, <1>3, <1>4, <1>5, <1>6, <1>7, <1>8, <1>9, <1>10, EachStep DEF ServerStep, N!HandleMessage, N!Evaluates
<1> QED
  BY <1>11 DEF Goal

Mail(x) == In(x, down) \/ In(x, mq) \/ In(x, up)

\* A new message, and the step that sends it.
LEMMA NewMail ==
    ASSUME NetShape, N!Next, NEW x, Mail(x)'
    PROVE  \/ Mail(x)
           \/ \E h \in Handles : N!ChooseAdd(h) /\ x = [type |-> "add", h |-> h]
           \/ \E h \in Handles : N!ChooseRemove(h) /\ x = [type |-> "remove", h |-> h]
           \/ \E h \in Handles : N!Kick(h) /\ x = [type |-> "kick", h |-> h]
           \/ N!ReadLoop /\ In([type |-> "add", h |-> x.h], down) /\ x.type = "immediate" /\ x.h \in Handles
           \/ N!HandleKick /\ x = [type |-> "disconnect", h |-> Head(mq).h]
           \/ x.type \notin {"remove", "add", "immediate", "kick", "disconnect"}
<1>1. In(x, down') \/ In(x, mq') \/ In(x, up')
  BY DEF Mail, In
<1>2. CASE In(x, down')
  <2>1. \/ In(x, down)
        \/ \E h \in Handles : N!ChooseAdd(h) /\ x = [type |-> "add", h |-> h]
        \/ \E h \in Handles : N!ChooseRemove(h) /\ x = [type |-> "remove", h |-> h]
        \/ \E h \in Handles : N!ChooseWork(h) /\ x = [type |-> "work", h |-> h, id |-> next_work_id]
    <3>1. CASE down' = down
      BY <1>2, <3>1
    <3>2. CASE down # <<>> /\ down' = Tail(down)
      BY <1>2, <3>2, InTail DEF NetShape
    <3>3. ASSUME NEW m \in Msgs, down' = Append(down, m) PROVE In(x, down) \/ x = m
      BY <1>2, <3>3, InAppend DEF NetShape
    <3> QED
      BY <3>1, <3>2, <3>3, DownMoves
  <2> QED
    BY <2>1 DEF Mail
<1>3. CASE In(x, mq')
  <2>1. N!ReadLoop => down # <<>>
    BY DEF N!ReadLoop
  <2>2. down # <<>> => In(Head(down), down) /\ Head(down) \in Msgs
    BY InTail, TailFacts DEF NetShape
  <2>3. \A m \in Msgs : m.type = "add" => m.h \in Handles /\ m = [type |-> "add", h |-> m.h]
    BY DEF Msgs
  <2>4. CASE mq' = mq
    BY <1>3, <2>4 DEF Mail
  <2>5. CASE mq # <<>> /\ mq' = Tail(mq)
    BY <1>3, <2>5, InTail DEF NetShape, Mail
  <2>6. ASSUME NEW m \in Msgs, mq' = Append(mq, m) PROVE In(x, mq) \/ x = m
    BY <1>3, <2>6, InAppend DEF NetShape
  <2>7. ASSUME NEW m \in Msgs, x = m,
               \/ N!ReadLoop /\ m = Head(down)
               \/ N!ReadLoop /\ Head(down).type = "add" /\ m = [type |-> "immediate", h |-> Head(down).h]
               \/ m = [type |-> "net_down"] \/ m = [type |-> "shutdown"]
               \/ \E h \in Handles : N!Kick(h) /\ m = [type |-> "kick", h |-> h]
               \/ \E h \in Handles, ok \in BOOLEAN : N!EvalInit(h) /\ m = [type |-> "init", h |-> h, ok |-> ok]
               \/ \E w \in evWork : N!EvalResult(w) /\ m = [type |-> "done", h |-> w[1], id |-> w[2]]
        PROVE  \/ Mail(x)
               \/ \E h \in Handles : N!Kick(h) /\ x = [type |-> "kick", h |-> h]
               \/ N!ReadLoop /\ In([type |-> "add", h |-> x.h], down) /\ x.type = "immediate" /\ x.h \in Handles
               \/ x.type \notin {"remove", "add", "immediate", "kick", "disconnect"}
    <3>1. CASE N!ReadLoop /\ m = Head(down)
      BY <2>1, <2>2, <2>7, <3>1 DEF Mail
    <3>2. CASE N!ReadLoop /\ Head(down).type = "add" /\ m = [type |-> "immediate", h |-> Head(down).h]
      <4>1. Head(down) = [type |-> "add", h |-> Head(down).h] /\ Head(down).h \in Handles /\ In(Head(down), down)
        BY <2>1, <2>2, <2>3, <3>2
      <4>2. x.h = Head(down).h /\ x.type = "immediate"
        BY <2>7, <3>2
      <4> QED
        BY <3>2, <4>1, <4>2
    <3>3. CASE m = [type |-> "net_down"] \/ m = [type |-> "shutdown"]
      BY <2>7, <3>3
    <3>4. CASE \E h \in Handles : N!Kick(h) /\ m = [type |-> "kick", h |-> h]
      BY <2>7, <3>4
    <3>5. CASE \E h \in Handles, ok \in BOOLEAN : N!EvalInit(h) /\ m = [type |-> "init", h |-> h, ok |-> ok]
      BY <2>7, <3>5
    <3>6. CASE \E w \in evWork : N!EvalResult(w) /\ m = [type |-> "done", h |-> w[1], id |-> w[2]]
      BY <2>7, <3>6
    <3> QED
      BY <2>7, <3>1, <3>2, <3>3, <3>4, <3>5, <3>6
  <2>8. In(x, mq) => Mail(x)
    BY DEF Mail
  <2> QED
    BY <2>4, <2>5, <2>6, <2>7, <2>8, MqMoves
<1>4. CASE In(x, up')
  <2>1. CASE up' = up
    BY <1>4, <2>1 DEF Mail
  <2>2. CASE up # <<>> /\ up' = Tail(up)
    BY <1>4, <2>2, InTail DEF NetShape, Mail
  <2>3. ASSUME NEW m \in Msgs, up' = Append(up, m) PROVE In(x, up) \/ x = m
    BY <1>4, <2>3, InAppend DEF NetShape
  <2>4. ASSUME NEW m \in Msgs, x = m,
               \/ m = [type |-> "need"]
               \/ N!HandleKick /\ Head(mq).h \in active /\ m = [type |-> "disconnect", h |-> Head(mq).h]
               \/ N!HandleImmediate /\ m = [type |-> "init", h |-> Head(mq).h, ok |-> FALSE]
               \/ N!HandleInit /\ Head(mq).h \in active /\ m = [type |-> "init", h |-> Head(mq).h, ok |-> Head(mq).ok]
               \/ m = [type |-> "result", h |-> Head(mq).h]
        PROVE  \/ N!HandleKick /\ x = [type |-> "disconnect", h |-> Head(mq).h]
               \/ x.type \notin {"remove", "add", "immediate", "kick", "disconnect"}
    BY <2>4
  <2>5. In(x, up) => Mail(x)
    BY DEF Mail
  <2> QED
    BY <2>1, <2>2, <2>3, <2>4, <2>5, UpMoves
<1> QED
  BY <1>1, <1>2, <1>3, <1>4

LEMMA MessagesTellKept ==
    ASSUME NetShape, NetShape', JobsFit, JobsFit', MessagesTell, IdsOnce, N!Next
    PROVE  MessagesTell'
<1>1. \A x : Mail(x) => Tells(x)
  BY DEF MessagesTell, Mail, In
<1>2. \A h \in Handles : job[h] = "none" /\ clients[h] # "gone" => ev[h] = "none" /\ h \notin shown
  BY DEF MessagesTell
<1>3. kicked \subseteq kicked'
  <2>1. ControllerStep => kicked' = kicked
    BY ControllerFrame
  <2>2. \/ ControllerStep
        \/ /\ ~ N!HearResult /\ ~ N!HearDisconnect /\ ~ N!HearInit
           /\ \A h \in Handles : ~ N!ChooseWork(h) /\ ~ N!ChooseRemove(h) /\ ~ N!ChooseAdd(h)
    BY DEF ControllerStep, N!Chooses, N!Hears
  <2> QED
    BY <2>1, <2>2, JobsUnmoved, EachStep
<1>4. ASSUME NEW h \in Handles, ev[h] = "none", h \notin shown, ~ (ev'[h] = "none" /\ h \notin shown')
      PROVE  N!HandleAdd /\ Head(mq).h = h /\ h \in evInit'
  <2>1. h \notin active
    BY <1>4 DEF NetShape
  <2> QED
    BY <1>4, <2>1, EvMoves
<1>5. ASSUME NEW h \in Handles, job'[h] = "none", clients'[h] # "gone" PROVE ev'[h] = "none" /\ h \notin shown'
  <2>1. job[h] = "none" /\ clients[h] # "gone"
    BY <1>5, JobMoves
  <2>2. Starting(h) = 0
    BY <2>1 DEF JobsFit, JobFits
  <2>3. ~ (N!HandleAdd /\ Head(mq).h = h)
    <3>1. N!HandleAdd => N!Get("add")
      BY DEF N!HandleAdd
    <3> QED
      BY <2>2, <3>1, AddIsNews
  <2> QED
    BY <1>2, <1>4, <2>1, <2>3
<1>6. ASSUME NEW x, Mail(x)' PROVE Tells(x)'
  <2>0. x \in Msgs
    BY <1>6, SMTT(60) DEF NetShape, Mail, In
  <2>1. x.type \notin {"need", "net_down", "shutdown"} => x.h \in Handles
    BY <2>0, MsgFacts
  <2>2. ASSUME x.type \in {"add", "immediate"} PROVE ev'[x.h] = "none" /\ x.h \notin shown'
    <3>1. PICK h \in Handles : h = x.h
      BY <2>1, <2>2
    <3>2. ev[h] = "none" /\ h \notin shown
      <4>1. CASE Mail(x)
        BY <1>1, <2>2, <3>1, <4>1 DEF Tells
      <4>2. CASE N!ReadLoop /\ In([type |-> "add", h |-> x.h], down)
        <5>1. Tells([type |-> "add", h |-> h])
          BY <1>1, <3>1, <4>2 DEF Mail
        <5> QED
          BY <5>1 DEF Tells
      <4>3. ASSUME NEW g \in Handles, N!ChooseAdd(g), x = [type |-> "add", h |-> g] PROVE ev[h] = "none" /\ h \notin shown
        <5>1. job[g] = "none" /\ clients[g] = "here"
          BY <4>3 DEF N!ChooseAdd, N!ToAdd, N!Here
        <5> QED
          BY <1>2, <3>1, <4>3, <5>1
      <4> QED
        BY <1>6, <2>2, <4>1, <4>2, <4>3, NewMail
    <3>3. h \notin evInit'
      <4>1. Has(down', StartsOf(h)) \/ Has(mq', StartsOf(h)) \/ Has(up', StartsOf(h))
        BY <1>6, <2>0, <2>2, <3>1 DEF Mail, Has, In, StartsOf
      <4>2. ComesOnce(h)'
        BY StartsApartAfter
      <4> QED
        BY <4>1, <4>2 DEF ComesOnce, Has, In, StartsOf
    <3> QED
      BY <1>4, <3>1, <3>2, <3>3
  <2>3. ASSUME x.type = "remove" PROVE clients'[x.h] = "gone" /\ job'[x.h] = "none"
    <3>1. PICK h \in Handles : h = x.h
      BY <2>1, <2>3
    <3>2. CASE Mail(x)
      <4>1. clients[h] = "gone" /\ job[h] = "none"
        BY <1>1, <2>3, <3>1, <3>2 DEF Tells
      <4> QED
        BY <3>1, <4>1, JobMoves DEF N!Known
    <3>3. ASSUME NEW g \in Handles, N!ChooseRemove(g), x = [type |-> "remove", h |-> g]
          PROVE  clients'[x.h] = "gone" /\ job'[x.h] = "none"
      BY <3>3 DEF N!ChooseRemove, N!ToRemove, NetShape
    <3>4. \A g : /\ x # [type |-> "add", h |-> g] /\ x # [type |-> "kick", h |-> g]
                 /\ x # [type |-> "disconnect", h |-> g]
      BY <2>3
    <3> QED
      BY <1>6, <2>3, <3>2, <3>3, <3>4, NewMail
  <2>4. ASSUME x.type \in {"kick", "disconnect"} PROVE x.h \in kicked'
    <3>1. CASE Mail(x)
      BY <1>1, <1>3, <2>4, <3>1 DEF Tells
    <3>2. ASSUME NEW g \in Handles, N!Kick(g), x = [type |-> "kick", h |-> g] PROVE x.h \in kicked'
      BY <3>2 DEF N!Kick
    <3>3. ASSUME N!HandleKick, x = [type |-> "disconnect", h |-> Head(mq).h] PROVE x.h \in kicked'
      <4>1. N!Get("kick")
        BY <3>3 DEF N!HandleKick
      <4>2. Head(mq).type = "kick" /\ In(Head(mq), mq)
        BY <4>1, Got DEF In
      <4>3. Tells(Head(mq))
        BY <1>1, <4>2 DEF Mail
      <4> QED
        BY <1>3, <3>3, <4>2, <4>3 DEF Tells
    <3>4. \A g : x # [type |-> "add", h |-> g] /\ x # [type |-> "remove", h |-> g]
      BY <2>4
    <3>5. x.type # "immediate" /\ x.type \in {"remove", "add", "immediate", "kick", "disconnect"}
      BY <2>4
    <3>6. \/ Mail(x)
          \/ \E h \in Handles : N!Kick(h) /\ x = [type |-> "kick", h |-> h]
          \/ N!HandleKick /\ x = [type |-> "disconnect", h |-> Head(mq).h]
      BY <1>6, <3>4, <3>5, NewMail
    <3> QED
      BY <3>1, <3>2, <3>3, <3>6
  <2> QED
    BY <2>2, <2>3, <2>4 DEF Tells
<1>7. \A x : (In(x, down') \/ In(x, mq') \/ In(x, up')) => Tells(x)'
  BY <1>6 DEF Mail, In
<1> QED
  BY <1>5, <1>7 DEF MessagesTell, Tells, In

-----------------------------------------------------------------------------
(* Ids, and the permuters the evaluator has.                               *)

TimedBy(id) == (\E w \in evWork : w[2] = id) \/ \E x : In(x, mq) /\ x.type = "done" /\ x.id = id

LEMMA TimedIsTimed ==
    time_starts = {w[2] : w \in evWork} \cup {mq[i].id : i \in {j \in 1..Len(mq) : mq[j].type = "done"}}
        <=> \A id : id \in time_starts <=> TimedBy(id)
BY DEF TimedBy, In

LEMMA TimedIsTimedAfter ==
    (time_starts = {w[2] : w \in evWork} \cup {mq[i].id : i \in {j \in 1..Len(mq) : mq[j].type = "done"}})'
        <=> (\A id : id \in time_starts <=> TimedBy(id))'
BY TimedIsTimed, PTL

LEMMA IdsMove ==
    ASSUME N!Next
    PROVE  next_work_id' = next_work_id \/ \E h \in Handles : N!ChooseWork(h)
<1>1. N!HearResult \/ N!HearDisconnect => next_work_id' = next_work_id
  BY DEF N!HearResult, N!HearDisconnect, N!CtlRest
<1>2. ASSUME NEW h \in Handles, N!ChooseRemove(h) PROVE next_work_id' = next_work_id
  BY <1>2 DEF N!ChooseRemove
<1> QED
  BY <1>1, <1>2, CountsUnmoved

LEMMA TimesKept ==
    ASSUME NetShape, NetShape', JobsFit, MessagesTell, IdsOnce, N!Next
    PROVE  \A id : id \in time_starts' <=> TimedBy(id)'
<1>0. \A id : id \in time_starts <=> TimedBy(id)
  BY TimedIsTimed DEF IdsOnce
<1>1. ASSUME UNCHANGED <<time_starts, evWork>>, \A x : x.type = "done" => (In(x, mq') <=> In(x, mq))
      PROVE  \A id : id \in time_starts' <=> TimedBy(id)'
  BY <1>0, <1>1 DEF TimedBy, In
<1>2. ASSUME UNCHANGED <<time_starts, evWork>>,
             \/ mq' = mq
             \/ mq # <<>> /\ mq' = Tail(mq) /\ Head(mq).type # "done"
             \/ \E m \in Msgs : mq' = Append(mq, m) /\ m.type # "done"
      PROVE  \A id : id \in time_starts' <=> TimedBy(id)'
  <2>1. mq \in Seq(Msgs)
    BY DEF NetShape
  <2>2. CASE mq' = mq
    BY <1>1, <1>2, <2>2
  <2>3. CASE mq # <<>> /\ mq' = Tail(mq) /\ Head(mq).type # "done"
    <3>1. \A x : In(x, mq) <=> (In(x, mq') \/ x = Head(mq))
      BY <2>1, <2>3, InTail
    <3> QED
      BY <1>1, <1>2, <2>3, <3>1
  <2>4. ASSUME NEW m \in Msgs, mq' = Append(mq, m), m.type # "done"
        PROVE  \A id : id \in time_starts' <=> TimedBy(id)'
    <3>1. \A x : In(x, mq') <=> (In(x, mq) \/ x = m)
      BY <2>1, <2>4, InAppend
    <3> QED
      BY <1>1, <1>2, <2>4, <3>1
  <2> QED
    BY <1>2, <2>2, <2>3, <2>4
<1>3. ASSUME ControllerStep \/ N!NetFails \/ N!WriteFails PROVE \A id : id \in time_starts' <=> TimedBy(id)'
  <2>1. UNCHANGED <<time_starts, evWork, mq>>
    BY <1>3, ControllerFrame DEF N!NetFails, N!WriteFails, N!main
  <2> QED
    BY <1>2, <2>1
<1>4. ASSUME NEW type, N!Get(type), type # "done", UNCHANGED <<time_starts, evWork>>
      PROVE  \A id : id \in time_starts' <=> TimedBy(id)'
  BY <1>2, <1>4, Got
<1>5. ASSUME \/ N!HandleShutdown \/ N!HandleNetDown \/ N!HandleAdd \/ N!HandleRemove \/ N!HandleKick
             \/ N!HandleImmediate \/ N!HandleInit
      PROVE  \A id : id \in time_starts' <=> TimedBy(id)'
  <2>1. UNCHANGED <<time_starts, evWork>>
    BY <1>5 DEF N!HandleShutdown, N!HandleNetDown, N!HandleAdd, N!HandleRemove, N!HandleKick, N!HandleImmediate,
                N!HandleInit, N!main
  <2>2. \E type : type # "done" /\ N!Get(type)
    BY <1>5 DEF N!HandleShutdown, N!HandleNetDown, N!HandleAdd, N!HandleRemove, N!HandleKick, N!HandleImmediate,
                N!HandleInit
  <2> QED
    BY <1>4, <2>1, <2>2
<1>6. ASSUME N!ReadLoop \/ N!NetThreadDisconnected \/ N!Stop \/ (\E h \in Handles : N!Kick(h) \/ N!EvalInit(h))
      PROVE  \A id : id \in time_starts' <=> TimedBy(id)'
  <2>1. UNCHANGED <<time_starts, evWork>>
    BY <1>6 DEF N!ReadLoop, N!NetThreadDisconnected, N!Stop, N!Kick, N!EvalInit, N!main
  <2>2. N!ReadLoop => Head(down).type # "done"
    <3>1. N!ReadLoop => down # <<>>
      BY DEF N!ReadLoop
    <3>2. down # <<>> => In(Head(down), down)
      BY InTail DEF NetShape
    <3> QED
      BY <3>1, <3>2 DEF NetShape, Carries, In
  <2>3. ASSUME N!ReadLoop PROVE \E m \in Msgs : mq' = Append(mq, m) /\ m.type # "done"
    <3>1. down # <<>> /\ Head(down) \in Msgs
      BY <2>3, TailFacts DEF N!ReadLoop, NetShape
    <3>2. Head(down).type = "add" => [type |-> "immediate", h |-> Head(down).h] \in Msgs
      BY <3>1, MsgFacts, MsgsExist
    <3> QED
      BY <2>2, <2>3, <3>1, <3>2 DEF N!ReadLoop
  <2>4. ASSUME NEW h \in Handles, N!Kick(h) PROVE \E m \in Msgs : mq' = Append(mq, m) /\ m.type # "done"
    BY <2>4, MsgsExist DEF N!Kick
  <2>5. ASSUME NEW h \in Handles, N!EvalInit(h) PROVE \E m \in Msgs : mq' = Append(mq, m) /\ m.type # "done"
    BY <2>5, MsgsExist DEF N!EvalInit
  <2>6. ASSUME N!NetThreadDisconnected \/ N!Stop PROVE \E m \in Msgs : mq' = Append(mq, m) /\ m.type # "done"
    BY <2>6, MsgsExist DEF N!NetThreadDisconnected, N!Stop
  <2>7. \E m \in Msgs : mq' = Append(mq, m) /\ m.type # "done"
    BY <1>6, <2>3, <2>4, <2>5, <2>6
  <2> QED
    BY <1>2, <2>1, <2>7
<1>7. ASSUME NEW w \in evWork, N!EvalResult(w) PROVE \A id : id \in time_starts' <=> TimedBy(id)'
  <2>1. evWork' = evWork \ {w} /\ time_starts' = time_starts
    BY <1>7 DEF N!EvalResult, N!main
  <2>2. PICK m \in Msgs : m = [type |-> "done", h |-> w[1], id |-> w[2]] /\ mq' = Append(mq, m)
    <3>1. w[1] \in Handles /\ w[2] \in Ids
      BY DEF NetShape
    <3> QED
      BY <1>7, <3>1, MsgsExist DEF N!EvalResult
  <2>3. \A x : In(x, mq') <=> (In(x, mq) \/ x = m)
    BY <2>2, InAppend, SMTT(60) DEF NetShape
  <2>4. m.type = "done" /\ m.id = w[2]
    BY <2>2
  <2>5. ASSUME NEW id PROVE TimedBy(id)' <=> TimedBy(id)
    <3>1. CASE id = w[2]
      <4>1. TimedBy(id)
        BY <3>1 DEF TimedBy
      <4>2. In(m, mq')
        BY <2>3
      <4>3. TimedBy(id)'
        BY <2>4, <3>1, <4>2 DEF TimedBy, In
      <4> QED
        BY <4>1, <4>3
    <3>2. CASE id # w[2]
      <4>1. (\E v \in evWork' : v[2] = id) <=> (\E v \in evWork : v[2] = id)
        BY <2>1, <3>2
      <4>2. (\E x : In(x, mq') /\ x.type = "done" /\ x.id = id) <=> (\E x : In(x, mq) /\ x.type = "done" /\ x.id = id)
        BY <2>3, <2>4, <3>2
      <4> QED
        BY <4>1, <4>2 DEF TimedBy, In
    <3> QED
      BY <3>1, <3>2
  <2> QED
    BY <1>0, <2>1, <2>5
<1>8. ASSUME N!HandleWork PROVE \A id : id \in time_starts' <=> TimedBy(id)'
  <2>1. N!Get("work")
    BY <1>8 DEF N!HandleWork
  <2>2. PICK g \in Handles, k \in Ids : g = Head(mq).h /\ k = Head(mq).id
    BY <2>1, WorkIsNews
  <2>3. mq # <<>> /\ mq' = Tail(mq) /\ Head(mq).type = "work"
    BY <2>1, Got
  <2>4. CASE g \notin active
    <3>1. UNCHANGED <<time_starts, evWork>>
      BY <1>8, <2>2, <2>4 DEF N!HandleWork
    <3> QED
      BY <1>2, <2>3, <3>1
  <2>5. CASE g \in active
    <3>1. time_starts' = time_starts \cup {k} /\ evWork' = evWork \cup {<<g, k>>}
      BY <1>8, <2>2, <2>5 DEF N!HandleWork
    <3>2. \A x : In(x, mq) <=> (In(x, mq') \/ x = Head(mq))
      BY <2>3, InTail DEF NetShape
    <3>3. ASSUME NEW id PROVE TimedBy(id)' <=> (TimedBy(id) \/ id = k)
      <4>0. <<g, k>>[2] = k
        OBVIOUS
      <4>1. (\E v \in evWork' : v[2] = id) <=> ((\E v \in evWork : v[2] = id) \/ id = k)
        <5>1. \A v : v \in evWork' <=> (v \in evWork \/ v = <<g, k>>)
          BY <3>1
        <5> QED
          BY <4>0, <5>1
      <4>2. (\E x : In(x, mq') /\ x.type = "done" /\ x.id = id) <=> (\E x : In(x, mq) /\ x.type = "done" /\ x.id = id)
        BY <2>3, <3>2
      <4> QED
        BY <4>1, <4>2 DEF TimedBy, In
    <3> QED
      BY <1>0, <3>1, <3>3
  <2> QED
    BY <2>4, <2>5
<1>9. ASSUME N!HandleWorkDone PROVE \A id : id \in time_starts' <=> TimedBy(id)'
  <2>1. N!Get("done")
    BY <1>9 DEF N!HandleWorkDone
  <2>2. PICK k \in Ids : k = Head(mq).id /\ k \in time_starts
    BY <2>1, DoneIsTimed
  <2>3. mq # <<>> /\ mq' = Tail(mq) /\ Head(mq).type = "done" /\ Head(mq) \in Msgs
    BY <2>1, Got
  <2>4. time_starts' = time_starts \ {k} /\ evWork' = evWork
    BY <1>9, <2>2 DEF N!HandleWorkDone
  <2>5. \A x : In(x, mq) <=> (In(x, mq') \/ x = Head(mq))
    BY <2>3, InTail DEF NetShape
  <2>6. Using(k)' = 0
    <3>1. Has(mq, UsesOf(k))
      BY <2>2, <2>3, <2>5 DEF Has, UsesOf
    <3>2. Using(k) = 1
      BY <3>1, Nowhere, Spots DEF IdsOnce
    <3> QED
      BY <1>9, <2>2, <3>2, DoneTallies
  <2>7. ~ TimedBy(k)'
    <3>1. ~ Has(mq, UsesOf(k))' /\ \A w \in evWork' : w[2] # k
      BY <2>6, NowhereAfter
    <3>2. ASSUME NEW x, In(x, mq'), x.type = "done", x.id = k PROVE FALSE
      <4>1. x \in Msgs
        BY <3>2 DEF NetShape, In
      <4> QED
        BY <3>1, <3>2, <4>1 DEF Has, In, UsesOf
    <3> QED
      BY <3>1, <3>2 DEF TimedBy, In
  <2>8. ASSUME NEW id, id # k PROVE TimedBy(id)' <=> TimedBy(id)
    <3>1. (\E x : In(x, mq') /\ x.type = "done" /\ x.id = id) <=> (\E x : In(x, mq) /\ x.type = "done" /\ x.id = id)
      BY <2>2, <2>5, <2>8
    <3> QED
      BY <2>4, <3>1 DEF TimedBy, In
  <2> QED
    BY <1>0, <2>4, <2>7, <2>8
<1> QED
  BY <1>3, <1>5, <1>6, <1>7, <1>8, <1>9, EachStep DEF ServerStep, N!HandleMessage, N!Evaluates

LEMMA IdsOnceKept ==
    ASSUME NetShape, NetShape', JobsFit, MessagesTell, IdsOnce, N!Next
    PROVE  IdsOnce'
<1>1. (time_starts = {w[2] : w \in evWork} \cup {mq[i].id : i \in {j \in 1..Len(mq) : mq[j].type = "done"}})'
  BY TimesKept, TimedIsTimedAfter
<1>2. ASSUME NEW id \in Ids PROVE Using(id)' <= 1 /\ (id >= next_work_id' => Using(id)' = 0)
  <2>1. Using(id) \in Nat /\ Using(id)' \in Nat /\ Using(id) <= 1 /\ (id >= next_work_id => Using(id) = 0)
    BY Spots, SpotsAfter DEF IdsOnce
  <2>2. CASE \A h \in Handles : ~ N!ChooseWork(h)
    <3>1. Using(id)' <= Using(id) /\ next_work_id' = next_work_id
      BY <2>2, OnlyChoiceAdds, IdsMove
    <3> QED
      BY <2>1, <3>1
  <2>3. ASSUME NEW g \in Handles, N!ChooseWork(g) PROVE Using(id)' <= 1 /\ (id >= next_work_id' => Using(id)' = 0)
    <3>1. Using(id)' = Using(id) + (IF id = next_work_id THEN 1 ELSE 0)
      BY <2>3, ChooseTallies
    <3>2. next_work_id' = next_work_id + 1 /\ next_work_id \in Nat /\ id \in Nat
      BY <2>3 DEF N!ChooseWork, NetShape, Ids
    <3>3. CASE id = next_work_id
      BY <2>1, <3>1, <3>2, <3>3
    <3>4. CASE id # next_work_id
      BY <2>1, <3>1, <3>2, <3>4
    <3> QED
      BY <3>3, <3>4
  <2> QED
    BY <2>2, <2>3
<1> QED
  BY <1>1, <1>2 DEF IdsOnce

LEMMA ActiveIsRealAs ==
    N!ActiveIsReal <=> \A h \in active : ev[h] = "here" \/ (ev[h] = "failed" /\ In([type |-> "init", h |-> h, ok |-> FALSE], mq))
BY DEF N!ActiveIsReal, In

LEMMA ActiveIsRealAfter ==
    N!ActiveIsReal' <=> (\A h \in active : ev[h] = "here" \/ (ev[h] = "failed" /\ In([type |-> "init", h |-> h, ok |-> FALSE], mq)))'
BY ActiveIsRealAs, PTL

LEMMA ActiveIsRealKept ==
    ASSUME NetShape, JobsFit, MessagesTell, N!ActiveIsReal, N!Next
    PROVE  N!ActiveIsReal'
<1>1. ASSUME NEW h \in active' PROVE ev'[h] = "here" \/ (ev'[h] = "failed" /\ In([type |-> "init", h |-> h, ok |-> FALSE], mq'))
  <2>0. h \in Handles
    <3>1. h \in active \/ h \in active' \ active
      BY <1>1
    <3>2. CASE h \in active
      BY <3>2 DEF NetShape
    <3>3. CASE h \in active' \ active
      <4>1. N!HandleAdd => N!Get("add")
        BY DEF N!HandleAdd
      <4>2. N!HandleAdd
        <5>1. ~ N!HandleAdd => active' \subseteq active
          <6>1. ControllerStep => active' = active
            BY ControllerFrame, SMTT(60)
          <6>2. ServerStep /\ ~ N!HandleAdd => active' \subseteq active
            BY DEF ServerStep, N!HandleMessage, N!HandleShutdown, N!HandleNetDown, N!HandleWork, N!HandleRemove,
                   N!HandleKick, N!HandleImmediate, N!HandleInit, N!HandleWorkDone, N!Remove, N!main, N!Kick,
                   N!ReadLoop, N!NetThreadDisconnected, N!NetFails, N!WriteFails, N!Stop, N!Evaluates, N!EvalInit, N!EvalResult
          <6> QED
            BY <6>1, <6>2, EachStep
        <5> QED
          BY <3>3, <5>1
      <4>3. Head(mq).h \in Handles /\ active' \subseteq active \cup {Head(mq).h}
        BY <4>1, <4>2, AddIsNews DEF N!HandleAdd
      <4> QED
        BY <3>3, <4>3
    <3> QED
      BY <3>1, <3>2, <3>3
  <2>1. CASE h \notin active
    BY <1>1, <2>0, <2>1, EvMoves
  <2>2. CASE h \in active /\ ev[h] = "here"
    BY <1>1, <2>0, <2>2, EvMoves
  <2>3. CASE h \in active /\ ev[h] = "failed" /\ In([type |-> "init", h |-> h, ok |-> FALSE], mq)
    <3>1. ev'[h] = "failed"
      BY <1>1, <2>0, <2>3, EvMoves
    <3> DEFINE m == [type |-> "init", h |-> h, ok |-> FALSE]
    <3>2. m.type = "init" /\ m.h = h /\ ~ m.ok
      OBVIOUS
    <3> HIDE DEF m
    <3>3. In(m, mq')
      <4>1. CASE mq' = mq
        BY <2>3, <4>1 DEF m
      <4>2. ASSUME NEW n \in Msgs, mq' = Append(mq, n) PROVE In(m, mq')
        BY <2>3, <4>2, InAppend DEF NetShape, m
      <4>3. CASE N!HandleMessage /\ mq # <<>> /\ mq' = Tail(mq)
        <5>1. In(m, mq') \/ m = Head(mq)
          BY <2>3, <4>3, InTail DEF NetShape, m
        <5>2. ASSUME m = Head(mq) PROVE FALSE
          <6>1. N!HandleInit
            BY <3>2, <4>3, <5>2 DEF N!HandleMessage, N!Get, N!HandleShutdown, N!HandleNetDown, N!HandleWork, N!HandleAdd,
               N!HandleRemove, N!HandleKick, N!HandleImmediate, N!HandleWorkDone
          <6>2. active' = active \ {h}
            BY <2>3, <3>2, <5>2, <6>1 DEF N!HandleInit
          <6> QED
            BY <1>1, <6>2
        <5> QED
          BY <5>1, <5>2
      <4> QED
        BY <4>1, <4>2, <4>3, MqMoves
    <3> QED
      BY <3>1, <3>3 DEF m
  <2> QED
    BY <2>1, <2>2, <2>3, ActiveIsRealAs
<1>2. (\A h \in active : ev[h] = "here" \/ (ev[h] = "failed" /\ In([type |-> "init", h |-> h, ok |-> FALSE], mq)))'
  BY <1>1 DEF In
<1> QED
  BY <1>2, ActiveIsRealAfter

-----------------------------------------------------------------------------
(* Loaded permuters are active, or the controller will hear.               *)

BuiltMsg(h) == [type |-> "init", h |-> h, ok |-> TRUE]
GoneMsg(h) == [type |-> "disconnect", h |-> h]
NeedMsg == [type |-> "need"]

LEMMA StillActiveAs ==
    NetShape =>
        (StillActive <=> \A h \in Handles :
            N!Connected /\ N!Here(h) /\ (job[h] = "loaded" \/ In(BuiltMsg(h), up)) => h \in active \/ In(GoneMsg(h), up))
<1> SUFFICES ASSUME NetShape
             PROVE  \A h \in Handles : (BuiltOnWay(h) <=> In(BuiltMsg(h), up))
                                       /\ (Within(up, h, "disconnect") <=> In(GoneMsg(h), up))
  BY DEF StillActive
<1> TAKE h \in Handles
<1>1. BuiltOnWay(h) <=> In(BuiltMsg(h), up)
  BY DEF BuiltOnWay, In, BuiltMsg
<1>2. \A m \in Msgs : (m.type = "disconnect" /\ m.h = h) <=> m = GoneMsg(h)
  BY DEF Msgs, GoneMsg
<1>3. \A i \in 1..Len(up) : up[i] \in Msgs
  BY DEF NetShape
<1> QED
  BY <1>1, <1>2, <1>3 DEF Within, In

LEMMA StillActiveAfter ==
    NetShape' =>
        (StillActive <=> \A h \in Handles :
            N!Connected /\ N!Here(h) /\ (job[h] = "loaded" \/ In(BuiltMsg(h), up)) => h \in active \/ In(GoneMsg(h), up))'
BY StillActiveAs, PTL

\* The controller's side ends once.
LEMMA EndsOnce ==
    ASSUME N!Next, N!Connected'
    PROVE  N!Connected /\ ~ N!HearMisfit
<1>1. N!HearMisfit => ~ N!Connected'
  BY DEF N!HearMisfit, N!Connected
<1>2. ASSUME NEW h \in Handles, N!ClientComes(h) \/ N!ClientGoes(h) \/ N!ChooseAdd(h) \/ N!ChooseRemove(h) \/ N!ChooseWork(h)
      PROVE  error' = error
  BY <1>2 DEF N!ClientComes, N!ClientGoes, N!ChooseAdd, N!ChooseRemove, N!ChooseWork
<1>3. N!TakeCredit \/ N!Hears => N!Connected
  BY DEF N!TakeCredit, N!Hears, N!HearMisfit, N!HearNeed, N!HearInit, N!HearDisconnect, N!HearResult, N!Hear
<1> QED
  BY <1>1, <1>2, <1>3, ServerFrame, EachStep DEF ControllerStep, N!Chooses, N!Connected

LEMMA UpGains ==
    ASSUME NetShape, N!Next, NEW x, In(x, up'), ~ In(x, up)
    PROVE  /\ N!HandleMessage
           /\ \/ x = NeedMsg
              \/ N!HandleKick /\ Head(mq).h \in active /\ x = [type |-> "disconnect", h |-> Head(mq).h]
              \/ N!HandleImmediate /\ x = [type |-> "init", h |-> Head(mq).h, ok |-> FALSE]
              \/ N!HandleInit /\ Head(mq).h \in active /\ x = [type |-> "init", h |-> Head(mq).h, ok |-> Head(mq).ok]
              \/ N!HandleWorkDone /\ x = [type |-> "result", h |-> Head(mq).h]
<1>1. up' # up
  OBVIOUS
<1>2. ~ (up # <<>> /\ up' = Tail(up))
  BY InTail DEF NetShape
<1>3. \A m \in Msgs : up' = Append(up, m) => x = m
  BY InAppend DEF NetShape
<1> QED
  BY <1>1, <1>2, <1>3, UpMoves DEF NeedMsg

LEMMA UpLoses ==
    ASSUME NetShape, N!Next, NEW x, In(x, up), ~ In(x, up')
    PROVE  N!Hears /\ up # <<>> /\ up' = Tail(up) /\ x = Head(up)
<1>1. up' # up
  OBVIOUS
<1>2. ASSUME NEW m \in Msgs, up' = Append(up, m) PROVE FALSE
  <2>1. In(x, Append(up, m))
    BY InAppend DEF NetShape
  <2> QED
    BY <1>2, <2>1
<1>3. up # <<>> /\ up' = Tail(up) => x = Head(up)
  BY InTail DEF NetShape
<1> QED
  BY <1>1, <1>2, <1>3, UpMoves

LEMMA StillActiveKept ==
    ASSUME NetShape, NetShape', JobsFit, MessagesTell, StillActive, N!Next
    PROVE  StillActive'
<1>1. \A h \in Handles :
          N!Connected /\ clients[h] = "here" /\ (job[h] = "loaded" \/ In(BuiltMsg(h), up)) => h \in active \/ In(GoneMsg(h), up)
  BY StillActiveAs DEF N!Here
<1>2. \A h \in Handles : /\ BuiltMsg(h) \in Msgs /\ BuiltMsg(h) \in StartsOf(h)
                         /\ BuiltMsg(h).type = "init" /\ BuiltMsg(h).h = h /\ BuiltMsg(h).ok = TRUE
                         /\ GoneMsg(h).type = "disconnect" /\ GoneMsg(h).h = h
  BY MsgsExist DEF BuiltMsg, GoneMsg, StartsOf
<1>3. ASSUME NEW h \in Handles, In(BuiltMsg(h), up)
      PROVE  job[h] \in {"none", "loading"} /\ Starting(h) = 1 /\ ~ Has(mq, StartsOf(h))
  <2>1. Has(up, StartsOf(h))
    BY <1>2, <1>3 DEF Has
  <2>2. ComesOnce(h)
    BY StartsApart
  <2> QED
    BY <2>1, <2>2, InitIsAwaited DEF ComesOnce
<1>4. ASSUME NEW h \in Handles, N!Connected', clients'[h] = "here", job'[h] = "loaded" \/ In(BuiltMsg(h), up')
      PROVE  h \in active' \/ In(GoneMsg(h), up')
  <2>1. N!Connected /\ ~ N!HearMisfit
    BY <1>4, EndsOnce
  <2>2. CASE ~ In(BuiltMsg(h), up) /\ In(BuiltMsg(h), up')
    <3>1. \A g : /\ BuiltMsg(h) # NeedMsg /\ BuiltMsg(h) # [type |-> "disconnect", h |-> g]
                 /\ BuiltMsg(h) # [type |-> "init", h |-> g, ok |-> FALSE]
                 /\ BuiltMsg(h) # [type |-> "result", h |-> g]
      BY DEF BuiltMsg, NeedMsg
    <3>2. N!HandleInit /\ Head(mq).h \in active /\ BuiltMsg(h) = [type |-> "init", h |-> Head(mq).h, ok |-> Head(mq).ok]
      BY <2>2, <3>1, UpGains
    <3>3. Head(mq).h = h /\ Head(mq).ok = TRUE
      BY <3>2 DEF BuiltMsg
    <3>4. active' = active
      BY <3>2, <3>3 DEF N!HandleInit
    <3> QED
      BY <3>2, <3>3, <3>4
  <2>3. CASE In(BuiltMsg(h), up) \/ ~ In(BuiltMsg(h), up')
    <3>1. job[h] = "loaded" \/ In(BuiltMsg(h), up)
      <4>1. CASE In(BuiltMsg(h), up)
        BY <4>1
      <4>2. CASE job'[h] = "loaded"
        <5>1. CASE job'[h] = job[h]
          BY <4>2, <5>1
        <5>2. CASE N!HearInit /\ Head(up).h = h /\ Head(up).ok
          <6>1. N!Hear("init")
            BY <5>2 DEF N!HearInit
          <6>2. In(Head(up), up) /\ Head(up) \in Msgs /\ Head(up).type = "init"
            BY <6>1, HeadOfUp, HearFacts
          <6>3. Head(up) = BuiltMsg(h)
            BY <5>2, <6>2, MsgFacts DEF BuiltMsg
          <6> QED
            BY <6>2, <6>3
        <5> QED
          BY <4>2, <5>1, <5>2, JobMoves
      <4> QED
        BY <1>4, <2>3, <4>1, <4>2
    <3>2. clients[h] = "here"
      <4>1. ASSUME clients[h] = "new" PROVE FALSE
        <5>1. job[h] = "none" /\ Starting(h) = 0
          BY <4>1 DEF JobsFit, JobFits
        <5> QED
          BY <1>3, <3>1, <5>1
      <4>2. clients[h] # "gone"
        BY <1>4, JobMoves
      <4> QED
        BY <4>1, <4>2 DEF NetShape
    <3>3. CASE h \in active /\ h \notin active'
      <4>1. (N!HandleRemove \/ N!HandleKick \/ (N!HandleInit /\ ~ Head(mq).ok)) /\ Head(mq).h = h
        BY <3>3, EvMoves
      <4>2. CASE N!HandleRemove
        <5>1. N!Get("remove")
          BY <4>2 DEF N!HandleRemove
        <5>2. Tells(Head(mq)) /\ Head(mq).type = "remove"
          BY <5>1, Got DEF MessagesTell
        <5> QED
          BY <3>2, <4>1, <5>2 DEF Tells
      <4>3. CASE N!HandleKick
        <5>1. up' = Append(up, GoneMsg(h))
          BY <3>3, <4>1, <4>3 DEF N!HandleKick, N!Send, GoneMsg
        <5>2. GoneMsg(h) \in Msgs
          BY MsgsExist DEF GoneMsg
        <5> QED
          BY <5>1, <5>2, InAppend DEF NetShape
      <4>4. CASE N!HandleInit
        <5>1. N!Get("init")
          BY <4>4 DEF N!HandleInit
        <5>2. Head(mq) \in StartsOf(h) /\ In(Head(mq), mq)
          BY <4>1, <5>1, Got DEF StartsOf, In
        <5>3. Has(mq, StartsOf(h))
          BY <5>2 DEF Has
        <5>4. job[h] # "loaded"
          BY <5>3, InitIsAwaited
        <5> QED
          BY <1>3, <3>1, <5>3, <5>4
      <4> QED
        BY <4>1, <4>2, <4>3, <4>4
    <3>4. CASE In(GoneMsg(h), up) /\ ~ In(GoneMsg(h), up')
      <4>1. N!Hears /\ up # <<>> /\ up' = Tail(up) /\ Head(up) = GoneMsg(h)
        BY <3>4, UpLoses
      <4>2. N!HearDisconnect /\ N!Hear("disconnect") /\ Head(up).h = h
        BY <1>2, <2>1, <4>1 DEF N!Hears, N!HearNeed, N!HearInit, N!HearDisconnect, N!HearResult, N!Hear
      <4>3. In(BuiltMsg(h), up') => In(BuiltMsg(h), up)
        BY <2>3
      <4>4. CASE N!Known(h)
        <5>1. job[h] = "loaded"
          BY <4>2, <4>4, HearFacts
        <5>2. ~ In(BuiltMsg(h), up)
          BY <1>3, <5>1
        <5>3. job' = [job EXCEPT ![h] = "failed"]
          BY <4>2, <4>4 DEF N!HearDisconnect
        <5>4. job'[h] = "failed"
          BY <5>3 DEF NetShape
        <5> QED
          BY <1>4, <4>3, <5>2, <5>4
      <4>5. CASE ~ N!Known(h)
        <5>1. job[h] = "none" /\ job' = job
          BY <3>2, <4>2, <4>5 DEF N!HearDisconnect, N!Known, N!Here
        <5>2. Starting(h) = 0
          BY <3>2, <5>1 DEF JobsFit, JobFits
        <5> QED
          BY <1>3, <1>4, <4>3, <5>1, <5>2
      <4> QED
        BY <4>4, <4>5
    <3> QED
      BY <1>1, <2>1, <3>1, <3>2, <3>3, <3>4
  <2> QED
    BY <2>2, <2>3
<1>5. (\A h \in Handles :
          N!Connected /\ N!Here(h) /\ (job[h] = "loaded" \/ In(BuiltMsg(h), up)) => h \in active \/ In(GoneMsg(h), up))'
  BY <1>4 DEF N!Here, In, BuiltMsg, GoneMsg
<1> QED
  BY <1>5, StillActiveAfter

-----------------------------------------------------------------------------
(* The controller is never left waiting.                                   *)

\* What is under way ends with an answer.
LEMMA OnlyAnswersTake ==
    ASSUME NetShape, JobsFit, MessagesTell, IdsOnce, N!Next, N!Connected', NEW h \in Handles
    PROVE  /\ \/ Starting(h)' >= Starting(h)
              \/ N!HearInit
              \/ N!HandleInit /\ In(NeedMsg, up')
           /\ \/ Working(h)' >= Working(h)
              \/ N!HearResult /\ Head(up).h = h /\ Working(h)' = Working(h) - 1
              \/ (N!HandleWork \/ N!HandleWorkDone) /\ Head(mq).h = h /\ h \notin active /\ up' = Append(up, NeedMsg)
<1> DEFINE Kept == Starting(h)' >= Starting(h) /\ Working(h)' >= Working(h)
<1>0. Starting(h) \in Nat /\ Working(h) \in Nat
  BY Spots
<1>1. SameTallies => Kept
  BY <1>0 DEF SameTallies
<1>2. QuietStep => Kept
  BY <1>1, QuietTallies
<1>3. ASSUME NEW g \in Handles, N!ChooseAdd(g) \/ N!ChooseWork(g) PROVE Kept
  BY <1>0, <1>3, ChooseTallies
<1>4. N!ReadLoop => Kept
  BY <1>1, ReadTallies
<1>5. ASSUME N!HandleAdd PROVE Kept
  <2>1. N!Get("add")
    BY <1>5 DEF N!HandleAdd
  <2>2. Head(mq).h \notin active /\ Head(mq).h \notin evInit
    BY <2>1, AddIsNews
  <2> QED
    BY <1>1, <1>5, <2>2, AddTallies
<1>6. N!HandleImmediate => Kept
  BY <1>1, ImmediateTallies
<1>7. \A g \in Handles : N!EvalInit(g) => Kept
  BY <1>1, EvalInitTallies
<1>8. \A w \in evWork : N!EvalResult(w) => Kept
  BY <1>1, EvalResultTallies
<1>9. ASSUME N!HandleWork
      PROVE  /\ Starting(h)' >= Starting(h)
             /\ \/ Working(h)' >= Working(h)
                \/ Head(mq).h = h /\ h \notin active /\ up' = Append(up, NeedMsg)
  <2>1. N!Get("work")
    BY <1>9 DEF N!HandleWork
  <2>2. <<Head(mq).h, Head(mq).id>> \notin evWork
    BY <2>1, WorkIsNews
  <2>3. Head(mq).h \notin active => up' = Append(up, NeedMsg)
    BY <1>9 DEF N!HandleWork, N!need_work, N!Send, NeedMsg
  <2> QED
    BY <1>0, <1>1, <1>9, <2>2, <2>3, WorkTallies
<1>10. ASSUME N!HandleWorkDone
       PROVE  /\ Starting(h)' >= Starting(h)
              /\ \/ Working(h)' >= Working(h)
                 \/ Head(mq).h = h /\ h \notin active /\ up' = Append(up, NeedMsg)
  <2>1. N!Get("done")
    BY <1>10 DEF N!HandleWorkDone
  <2>2. Head(mq).id \in time_starts
    BY <2>1, DoneIsTimed
  <2>3. Head(mq).h \notin active => up' = Append(up, NeedMsg)
    BY <1>10, <2>2 DEF N!HandleWorkDone, N!need_work, N!Send, NeedMsg
  <2> QED
    BY <1>0, <1>10, <2>2, <2>3, DoneTallies
<1>11. ASSUME N!HandleInit
       PROVE  Working(h)' >= Working(h) /\ (Starting(h)' >= Starting(h) \/ In(NeedMsg, up'))
  <2>1. NeedMsg \in Msgs
    BY MsgsExist DEF NeedMsg
  <2>2. Head(mq).h \notin active => In(NeedMsg, up')
    <3>1. Head(mq).h \notin active => up' = Append(up, NeedMsg)
      BY <1>11 DEF N!HandleInit, N!need_work, N!Send, NeedMsg
    <3>2. In(NeedMsg, Append(up, NeedMsg))
      BY <2>1, InAppend DEF NetShape
    <3> QED
      BY <3>1, <3>2
  <2> QED
    BY <1>0, <1>11, <2>2, InitTallies
<1>12. ASSUME N!HearInit \/ N!HearResult
       PROVE  /\ N!HearInit => Working(h)' >= Working(h)
              /\ N!HearResult =>
                    /\ Starting(h)' >= Starting(h)
                    /\ Working(h)' >= Working(h) \/ (Head(up).h = h /\ Working(h)' = Working(h) - 1)
  <2>1. /\ up # <<>> /\ up' = Tail(up) /\ UNCHANGED <<down, mq, evInit, evWork>>
        /\ N!HearInit => Head(up).type = "init"
        /\ N!HearResult => Head(up).type = "result"
    BY <1>12 DEF N!HearInit, N!HearResult, N!Hear, N!CtlRest
  <2>2. /\ Starting(h)' = Starting(h) - (IF Head(up).type = "init" /\ Head(up).h = h THEN 1 ELSE 0)
        /\ Working(h)' = Working(h) - (IF Head(up).type = "result" /\ Head(up).h = h THEN 1 ELSE 0)
    BY <2>1, HearTallies
  <2> QED
    BY <1>0, <2>1, <2>2
<1>13. ~ N!HearMisfit
  BY EndsOnce
<1>14. \/ Kept
       \/ N!HearInit \/ N!HearResult \/ N!HandleWork \/ N!HandleInit \/ N!HandleWorkDone
  <2> HIDE DEF Kept
  <2> QED
    BY <1>2, <1>3, <1>4, <1>5, <1>6, <1>7, <1>8, <1>13
       DEF N!Next, N!Chooses, N!Hears, N!HandleMessage, N!Evaluates, QuietStep
<1> QED
  BY <1>9, <1>10, <1>11, <1>12, <1>14

LEMMA SureAs ==
    NetShape => (Sure <=> credits > 0 \/ (\E h \in Handles : Starting(h) > 0) \/ In(NeedMsg, up))
<1>1. \A m \in Msgs : m.type = "need" <=> m = NeedMsg
  BY DEF Msgs, NeedMsg
<1>2. NetShape => \A i \in 1..Len(up) : up[i] \in Msgs
  BY DEF NetShape
<1>3. NetShape => (In(NeedMsg, up) <=> \E i \in 1..Len(up) : up[i].type = "need")
  BY <1>1, <1>2 DEF In
<1> QED
  BY <1>3 DEF Sure

LEMMA SureAfter ==
    NetShape' => (Sure <=> credits > 0 \/ (\E h \in Handles : Starting(h) > 0) \/ In(NeedMsg, up))'
BY SureAs, PTL

LEMMA SureKept ==
    ASSUME NetShape, NetShape', JobsFit, MessagesTell, IdsOnce, Bounded, N!TotalIsSum, N!Next,
           N!Connected', Sure, ~ N!TakeCredit
    PROVE  Sure'
<1>1. credits > 0 \/ (\E h \in Handles : Starting(h) > 0) \/ In(NeedMsg, up)
  BY SureAs
<1>2. N!Connected /\ ~ N!HearMisfit /\ credits \in Nat
  BY EndsOnce DEF NetShape
<1>3. ASSUME credits' > 0 \/ (\E h \in Handles : Starting(h)' > 0) \/ In(NeedMsg, up') PROVE Sure'
  <2>1. (credits > 0 \/ (\E h \in Handles : Starting(h) > 0) \/ In(NeedMsg, up))'
    BY <1>3 DEF In, NeedMsg
  <2> QED
    BY <2>1, SureAfter
<1>4. N!HearNeed \/ N!HearInit => credits' > 0
  BY <1>2, HearEarns DEF N!Hears
<1>5. CASE credits > 0
  <2>1. credits' >= credits
    <3>1. CASE N!Hears
      BY <1>2, <3>1, HearEarns
    <3>2. CASE ServerStep
      BY <1>2, <3>2, ServerFrame
    <3>3. ASSUME NEW h \in Handles, N!ClientComes(h) \/ N!ClientGoes(h) \/ N!ChooseAdd(h) \/ N!ChooseRemove(h) \/ N!ChooseWork(h)
          PROVE  credits' = credits
      BY <3>3 DEF N!ClientComes, N!ClientGoes, N!ChooseAdd, N!ChooseRemove, N!ChooseWork
    <3> QED
      BY <1>2, <3>1, <3>2, <3>3, EachStep DEF ControllerStep, N!Chooses
  <2>2. credits' > 0
    <3>1. credits' \in Nat
      BY DEF NetShape
    <3> QED
      BY <1>2, <1>5, <2>1, <3>1
  <2> QED
    BY <1>3, <2>2
<1>6. ASSUME NEW h \in Handles, Starting(h) > 0 PROVE Sure'
  <2>1. Starting(h) \in Nat /\ Starting(h)' \in Nat
    BY Spots, SpotsAfter
  <2>2. Starting(h)' >= Starting(h) \/ N!HearInit \/ In(NeedMsg, up')
    BY OnlyAnswersTake
  <2>3. Starting(h)' > 0 \/ N!HearInit \/ In(NeedMsg, up')
    BY <1>6, <2>1, <2>2
  <2> QED
    BY <1>3, <1>4, <2>3
<1>7. CASE In(NeedMsg, up)
  <2>1. CASE In(NeedMsg, up')
    BY <1>3, <2>1
  <2>2. CASE ~ In(NeedMsg, up')
    <3>1. N!Hears /\ Head(up) = NeedMsg
      BY <1>7, <2>2, UpLoses
    <3>2. Head(up).type = "need"
      BY <3>1 DEF NeedMsg
    <3>3. N!HearNeed
      BY <1>2, <3>1, <3>2 DEF N!Hears, N!Hear, N!HearInit, N!HearDisconnect, N!HearResult
    <3> QED
      BY <1>3, <1>4, <3>3
  <2> QED
    BY <2>1, <2>2
<1> QED
  BY <1>1, <1>5, <1>6, <1>7

LEMMA HeardAfterFacts ==
    ASSUME NetShape, NEW h \in Handles
    PROVE  /\ HeardAfter(up, h) => In(GoneMsg(h), up) /\ In(NeedMsg, up)
           /\ In(GoneMsg(h), up) /\ up' = Append(up, NeedMsg) => HeardAfter(up', h)
           /\ \A m \in Msgs : HeardAfter(up, h) /\ up' = Append(up, m) => HeardAfter(up', h)
           /\ HeardAfter(up, h) /\ up # <<>> /\ up' = Tail(up) => HeardAfter(up', h) \/ Head(up) = GoneMsg(h)
<1>1. \A m \in Msgs : (m.type = "need" => m = NeedMsg) /\ (m.type = "disconnect" /\ m.h = h => m = GoneMsg(h))
  BY DEF Msgs, NeedMsg, GoneMsg
<1>2. up \in Seq(Msgs) /\ Len(up) \in Nat /\ \A i \in 1..Len(up) : up[i] \in Msgs
  BY DEF NetShape
<1>3. HeardAfter(up, h) => In(GoneMsg(h), up) /\ In(NeedMsg, up)
  BY <1>1, <1>2 DEF HeardAfter, In
<1>4. NeedMsg \in Msgs /\ NeedMsg.type = "need" /\ GoneMsg(h).type = "disconnect" /\ GoneMsg(h).h = h
  BY MsgsExist DEF NeedMsg, GoneMsg
<1>5. ASSUME In(GoneMsg(h), up), up' = Append(up, NeedMsg) PROVE HeardAfter(up', h)
  <2>1. PICK i \in 1..Len(up) : up[i] = GoneMsg(h)
    BY <1>5 DEF In
  <2>2. /\ Len(up') = Len(up) + 1 /\ up'[Len(up) + 1] = NeedMsg /\ up'[i] = up[i]
    BY <1>2, <1>4, <1>5, AppendFacts
  <2>3. i \in 1..Len(up') /\ Len(up) + 1 \in 1..Len(up') /\ i < Len(up) + 1
    BY <1>2, <2>2
  <2> QED
    BY <1>4, <2>1, <2>2, <2>3 DEF HeardAfter
<1>6. ASSUME NEW m \in Msgs, HeardAfter(up, h), up' = Append(up, m) PROVE HeardAfter(up', h)
  <2>1. PICK i \in 1..Len(up), j \in 1..Len(up) : i < j /\ up[i].type = "disconnect" /\ up[i].h = h /\ up[j].type = "need"
    BY <1>6 DEF HeardAfter
  <2>2. Len(up') = Len(up) + 1 /\ up'[i] = up[i] /\ up'[j] = up[j]
    BY <1>2, <1>6, AppendFacts
  <2>3. i \in 1..Len(up') /\ j \in 1..Len(up')
    BY <1>2, <2>2
  <2> QED
    BY <2>1, <2>2, <2>3 DEF HeardAfter
<1>7. ASSUME HeardAfter(up, h), up # <<>>, up' = Tail(up) PROVE HeardAfter(up', h) \/ Head(up) = GoneMsg(h)
  <2>1. PICK i \in 1..Len(up), j \in 1..Len(up) : i < j /\ up[i].type = "disconnect" /\ up[i].h = h /\ up[j].type = "need"
    BY <1>7 DEF HeardAfter
  <2>2. /\ Len(up) \in Nat \ {0} /\ Len(up') = Len(up) - 1 /\ Head(up) = up[1]
        /\ \A k \in 1..Len(up') : up'[k] = up[k + 1]
    BY <1>2, <1>7, TailFacts
  <2>3. CASE i = 1
    BY <1>1, <1>2, <2>1, <2>2, <2>3
  <2>4. CASE i # 1
    <3>1. i - 1 \in 1..Len(up') /\ j - 1 \in 1..Len(up') /\ i - 1 < j - 1
      BY <1>2, <2>1, <2>2, <2>4
    <3>2. up'[i - 1] = up[i] /\ up'[j - 1] = up[j]
      BY <2>2, <3>1
    <3> QED
      BY <2>1, <3>1, <3>2 DEF HeardAfter
  <2> QED
    BY <2>3, <2>4
<1> QED
  BY <1>3, <1>5, <1>6, <1>7

LEMMA CountMoves ==
    ASSUME NetShape, JobsFit, N!Next, NEW h \in Handles
    PROVE  /\ \/ active_work'[h] = active_work[h]
              \/ active_work'[h] = 0
              \/ N!ChooseWork(h) /\ active_work'[h] = active_work[h] + 1
              \/ N!HearResult /\ Head(up).h = h /\ N!Known(h) /\ active_work'[h] = active_work[h] - 1
           /\ N!HearDisconnect /\ Head(up).h = h /\ N!Known(h) => active_work'[h] = 0
           /\ N!HearResult /\ Head(up).h = h /\ N!Known(h) =>
                 active_work[h] \in Nat \ {0} /\ active_work'[h] = active_work[h] - 1
<1>0. active_work \in [Handles -> Nat]
  BY DEF NetShape
<1>1. CASE ~ N!HearResult /\ ~ N!HearDisconnect /\ \A g \in Handles : ~ N!ChooseWork(g) /\ ~ N!ChooseRemove(g)
  BY <1>1, CountsUnmoved
<1>2. ASSUME NEW g \in Handles, N!ChooseWork(g)
      PROVE  active_work'[h] = active_work[h] \/ (g = h /\ active_work'[h] = active_work[h] + 1)
  BY <1>0, <1>2 DEF N!ChooseWork
<1>3. ASSUME NEW g \in Handles, N!ChooseRemove(g) PROVE active_work'[h] = active_work[h] \/ active_work'[h] = 0
  BY <1>0, <1>3 DEF N!ChooseRemove
<1>4. ASSUME N!HearDisconnect
      PROVE  /\ active_work'[h] = active_work[h] \/ active_work'[h] = 0
             /\ Head(up).h = h /\ N!Known(h) => active_work'[h] = 0
  BY <1>0, <1>4 DEF N!HearDisconnect
<1>5. ASSUME N!HearResult
      PROVE  /\ \/ active_work'[h] = active_work[h]
                \/ Head(up).h = h /\ N!Known(h) /\ active_work'[h] = active_work[h] - 1
             /\ Head(up).h = h /\ N!Known(h) =>
                   active_work[h] \in Nat \ {0} /\ active_work'[h] = active_work[h] - 1
  <2>1. Head(up).h = h /\ N!Known(h) => active_work[h] \in Nat \ {0}
    BY <1>5, ResultIsCounted
  <2>2. CASE N!Known(Head(up).h)
    <3>1. active_work' = [active_work EXCEPT ![Head(up).h] = @ - 1]
      BY <1>5, <2>2 DEF N!HearResult
    <3> QED
      BY <1>0, <2>1, <2>2, <3>1
  <2>3. CASE ~ N!Known(Head(up).h)
    BY <1>5, <2>3 DEF N!HearResult
  <2> QED
    BY <2>1, <2>2, <2>3
<1>6. ~ (N!HearDisconnect /\ N!HearResult)
  BY DEF N!HearDisconnect, N!HearResult, N!Hear
<1>7. \A g \in Handles : N!ChooseWork(g) \/ N!ChooseRemove(g) => ~ N!HearDisconnect /\ ~ N!HearResult
  <2>1. ASSUME NEW g \in Handles, N!ChooseWork(g) \/ N!ChooseRemove(g) PROVE ~ N!HearDisconnect /\ ~ N!HearResult
    <3>1. up' = up
      BY <2>1 DEF N!ChooseWork, N!ChooseRemove
    <3>2. N!HearDisconnect \/ N!HearResult => up # <<>> /\ up' = Tail(up)
      BY DEF N!HearDisconnect, N!HearResult, N!Hear
    <3>3. up # <<>> => Len(Tail(up)) # Len(up)
      BY TailFacts DEF NetShape
    <3> QED
      BY <3>1, <3>2, <3>3
  <2> QED
    BY <2>1
<1>8. CASE N!HearDisconnect
  BY <1>4, <1>6, <1>8
<1>9. CASE N!HearResult
  BY <1>5, <1>6, <1>9
<1>10. CASE \E g \in Handles : N!ChooseWork(g) \/ N!ChooseRemove(g)
  BY <1>2, <1>3, <1>7, <1>10
<1> QED
  BY <1>1, <1>8, <1>9, <1>10

LEMMA ChooserMoves ==
    ASSUME N!Next, chooser' = "wait", NetShape
    PROVE  /\ ~ N!TakeCredit
           /\ chooser = "wait" \/ \E g \in Handles : N!ChooseAdd(g) \/ N!ChooseWork(g)
<1>1. N!TakeCredit => chooser' = "choose"
  BY DEF N!TakeCredit
<1>2. N!Hears => chooser' = chooser
  BY DEF N!Hears, N!HearMisfit, N!HearNeed, N!HearInit, N!HearDisconnect, N!HearResult, N!CtlRest
<1>3. ASSUME NEW g \in Handles, N!ClientComes(g) \/ N!ClientGoes(g) \/ N!ChooseRemove(g) PROVE chooser' = chooser
  BY <1>3 DEF N!ClientComes, N!ClientGoes, N!ChooseRemove
<1> QED
  BY <1>1, <1>2, <1>3, ServerFrame, EachStep DEF ControllerStep, N!Chooses

LEMMA DroppedIsHeardKept ==
    ASSUME NetShape, NetShape', JobsFit, JobsFit', MessagesTell, IdsOnce, StillActive, DroppedIsHeard, Bounded,
           N!TotalIsSum, N!Next
    PROVE  DroppedIsHeard'
<1> SUFFICES ASSUME NEW h \in Handles, N!Connected', active_work'[h] > Working(h)'
             PROVE  /\ clients'[h] = "here" => HeardAfter(up', h)
                    /\ clients'[h] = "gone" /\ chooser' = "wait" => Sure'
  BY DEF DroppedIsHeard, N!Here, HeardAfter
<1>0. /\ Working(h) \in Nat /\ Working(h)' \in Nat /\ active_work[h] \in Nat /\ active_work'[h] \in Nat
      /\ clients[h] \in {"new", "here", "gone"} /\ chooser \in {"choose", "wait"}
  BY Spots, SpotsAfter DEF NetShape
<1>1. N!Connected /\ ~ N!HearMisfit
  BY EndsOnce
<1>2. active_work'[h] # 0 /\ job'[h] = "loaded"
  <2>1. active_work'[h] # 0
    BY <1>0
  <2> QED
    BY <2>1 DEF JobsFit, JobFits
<1>3. ASSUME credits' > 0 \/ (\E g \in Handles : Starting(g)' > 0) \/ In(NeedMsg, up') PROVE Sure'
  <2>1. (credits > 0 \/ (\E g \in Handles : Starting(g) > 0) \/ In(NeedMsg, up))'
    BY <1>3 DEF In, NeedMsg
  <2> QED
    BY <2>1, SureAfter
<1>4. NeedMsg \in Msgs
  BY MsgsExist DEF NeedMsg
<1>5. \/ active_work[h] > Working(h)
      \/ (N!HandleWork \/ N!HandleWorkDone) /\ h \notin active /\ up' = Append(up, NeedMsg)
      \/ N!HearResult /\ Head(up).h = h /\ ~ N!Known(h)
  <2>1. CASE N!ChooseWork(h) /\ active_work'[h] = active_work[h] + 1
    <3>1. Working(h)' = Working(h) + 1
      BY <2>1, ChooseTallies
    <3> QED
      BY <1>0, <2>1, <3>1
  <2>2. CASE N!HearResult /\ Head(up).h = h /\ N!Known(h)
    <3>1. active_work'[h] = active_work[h] - 1
      BY <2>2, CountMoves
    <3>2. up # <<>> /\ up' = Tail(up) /\ UNCHANGED <<down, mq, evInit, evWork>>
      BY <2>2 DEF N!HearResult, N!Hear, N!CtlRest
    <3>3. Working(h)' >= Working(h) - 1
      BY <1>0, <3>2, HearTallies
    <3> QED
      BY <1>0, <3>1, <3>3
  <2>3. CASE active_work'[h] = active_work[h] /\ ~ (N!HearResult /\ Head(up).h = h /\ N!Known(h))
    <3>1. \/ Working(h)' >= Working(h)
          \/ N!HearResult /\ Head(up).h = h /\ Working(h)' = Working(h) - 1
          \/ (N!HandleWork \/ N!HandleWorkDone) /\ Head(mq).h = h /\ h \notin active /\ up' = Append(up, NeedMsg)
      BY OnlyAnswersTake
    <3> QED
      BY <1>0, <2>3, <3>1
  <2> QED
    BY <1>2, <2>1, <2>2, <2>3, CountMoves
<1>6. CASE (N!HandleWork \/ N!HandleWorkDone) /\ h \notin active /\ up' = Append(up, NeedMsg)
  <2>1. UNCHANGED <<clients, job>>
    BY <1>6, ServerFrame DEF ServerStep, N!HandleMessage
  <2>2. In(NeedMsg, up')
    BY <1>4, <1>6, InAppend DEF NetShape
  <2>3. ASSUME clients[h] = "here" PROVE HeardAfter(up', h)
    <3>1. In(GoneMsg(h), up)
      BY <1>1, <1>2, <1>6, <2>1, <2>3, StillActiveAs DEF N!Here
    <3> QED
      BY <1>6, <3>1, HeardAfterFacts
  <2> QED
    BY <1>3, <2>1, <2>2, <2>3
<1>7. CASE N!HearResult /\ Head(up).h = h /\ ~ N!Known(h)
  <2>1. UNCHANGED <<clients, job>> /\ N!Hears
    BY <1>7 DEF N!HearResult, N!CtlRest, N!Hears
  <2>2. clients[h] # "here"
    BY <1>2, <1>7, <2>1 DEF N!Known, N!Here
  <2>3. credits' > 0
    BY <1>1, <1>7, <2>1, HearEarns
  <2> QED
    BY <1>3, <2>1, <2>2, <2>3
<1>8. CASE active_work[h] > Working(h)
  <2>1. job[h] = "loaded" /\ clients[h] # "new"
    <3>1. active_work[h] # 0
      BY <1>0, <1>8
    <3> QED
      BY <3>1 DEF JobsFit, JobFits
  <2>2. /\ clients[h] = "here" => HeardAfter(up, h)
        /\ clients[h] = "gone" /\ chooser = "wait" => Sure
    BY <1>1, <1>8 DEF DroppedIsHeard, N!Here
  <2>3. ASSUME clients'[h] = "here" PROVE HeardAfter(up', h)
    <3>1. clients[h] = "here" /\ HeardAfter(up, h) /\ N!Known(h)
      BY <1>0, <2>1, <2>2, <2>3, JobMoves DEF N!Known, N!Here
    <3>2. CASE up' = up
      BY <3>1, <3>2
    <3>3. CASE \E m \in Msgs : up' = Append(up, m)
      BY <3>1, <3>3, HeardAfterFacts
    <3>4. CASE N!Hears /\ up # <<>> /\ up' = Tail(up)
      <4>1. ASSUME Head(up) = GoneMsg(h) PROVE FALSE
        <5>1. Head(up).type = "disconnect" /\ Head(up).h = h
          BY <4>1 DEF GoneMsg
        <5>2. N!HearDisconnect
          BY <1>1, <3>4, <5>1 DEF N!Hears, N!Hear, N!HearNeed, N!HearInit, N!HearResult
        <5> QED
          BY <1>2, <3>1, <5>1, <5>2, CountMoves
      <4> QED
        BY <3>1, <3>4, <4>1, HeardAfterFacts
    <3> QED
      BY <3>2, <3>3, <3>4, UpMoves
  <2>4. ASSUME clients'[h] = "gone", chooser' = "wait" PROVE Sure'
    <3>1. CASE clients[h] = "here"
      <4>1. In(NeedMsg, up)
        BY <2>2, <3>1, HeardAfterFacts
      <4>2. Sure
        BY <4>1, SureAs
      <4> QED
        BY <2>4, <4>2, SureKept, ChooserMoves
    <3>2. CASE clients[h] = "gone" /\ chooser = "wait"
      BY <2>2, <2>4, <3>2, SureKept, ChooserMoves
    <3>3. CASE clients[h] = "gone" /\ chooser = "choose"
      <4>1. PICK g \in Handles : N!ChooseAdd(g) \/ N!ChooseWork(g)
        BY <2>4, <3>3, ChooserMoves
      <4>2. ~ N!ChooseWork(g)
        BY <2>1, <3>3 DEF N!ChooseWork, N!ToRemove
      <4>3. Starting(g)' = Starting(g) + 1 /\ Starting(g) \in Nat
        BY <4>1, <4>2, ChooseTallies, Spots
      <4>4. Starting(g)' > 0
        BY <4>3
      <4> QED
        BY <1>3, <4>4
    <3> QED
      BY <1>0, <2>1, <3>1, <3>2, <3>3
  <2> QED
    BY <2>3, <2>4
<1> QED
  BY <1>5, <1>6, <1>7, <1>8

LEMMA CreditComesKept ==
    ASSUME NetShape, NetShape', JobsFit, JobsFit', MessagesTell, IdsOnce, DroppedIsHeard', CreditComes, Bounded,
           N!TotalIsSum, N!TotalIsSum', N!Next
    PROVE  CreditComes'
<1> SUFFICES ASSUME N!Connected', chooser' = "wait"
             PROVE  Sure' \/ \E h \in Handles : Working(h)' > 0
  BY DEF CreditComes
<1>1. N!Connected /\ ~ N!HearMisfit /\ chooser \in {"choose", "wait"}
  BY EndsOnce DEF NetShape
<1>2. \A h \in Handles : /\ Working(h) \in Nat /\ Working(h)' \in Nat /\ Starting(h) \in Nat
                         /\ active_work'[h] \in Nat /\ clients'[h] \in {"new", "here", "gone"}
  BY Spots, SpotsAfter DEF NetShape
<1>3. ASSUME credits' > 0 \/ (\E g \in Handles : Starting(g)' > 0) \/ In(NeedMsg, up') PROVE Sure'
  <2>1. (credits > 0 \/ (\E h \in Handles : Starting(h) > 0) \/ In(NeedMsg, up))'
    BY <1>3 DEF In, NeedMsg
  <2> QED
    BY <2>1, SureAfter
<1>4. NeedMsg \in Msgs
  BY MsgsExist DEF NeedMsg
<1>5. ASSUME NEW g \in Handles, N!ChooseAdd(g) PROVE Sure'
  <2>1. Starting(g)' = Starting(g) + 1
    BY <1>5, ChooseTallies
  <2>2. Starting(g)' > 0
    BY <1>2, <2>1
  <2> QED
    BY <1>3, <2>2
<1>6. ASSUME NEW g \in Handles, N!ChooseWork(g) PROVE Working(g)' > 0
  <2>1. Working(g)' = Working(g) + 1
    BY <1>6, ChooseTallies
  <2> QED
    BY <1>2, <2>1
<1>7. CASE chooser = "wait"
  <2>1. CASE Sure
    BY <2>1, SureKept, ChooserMoves
  <2>2. ASSUME NEW h \in Handles, Working(h) > 0 PROVE Sure' \/ \E g \in Handles : Working(g)' > 0
    <3>1. CASE Working(h)' >= Working(h)
      <4>1. Working(h)' > 0
        BY <1>2, <2>2, <3>1
      <4> QED
        BY <4>1
    <3>2. CASE up' = Append(up, NeedMsg)
      <4>1. In(NeedMsg, up')
        BY <1>4, <3>2, InAppend DEF NetShape
      <4> QED
        BY <1>3, <4>1
    <3>3. CASE N!HearResult
      <4>1. CASE total_work' = 0
        <5>1. credits' > 0
          BY <1>1, <3>3, <4>1, HearEarns DEF N!Hears
        <5> QED
          BY <1>3, <5>1
      <4>2. CASE total_work' # 0
        <5>1. PICK g \in Handles : active_work'[g] > 0
          <6>1. active_work' \in [Handles -> Nat]
            BY DEF NetShape
          <6>2. total_work' = Cardinality(Pairs(active_work'))
            BY NetCardinality DEF N!TotalIsSum, Pairs
          <6>3. Pairs(active_work') # {}
            BY <4>2, <6>2, FS_EmptySet
          <6>4. \E g \in Handles : 1..active_work'[g] # {}
            BY <6>3 DEF Pairs
          <6> QED
            BY <6>1, <6>4
        <5>2. CASE Working(g)' > 0
          BY <5>2
        <5>3. CASE Working(g)' = 0
          <6>1. clients'[g] # "new"
            <7>1. active_work'[g] # 0
              BY <1>2, <5>1
            <7> QED
              BY <7>1 DEF JobsFit, JobFits
          <6>2. active_work'[g] > Working(g)'
            BY <5>1, <5>3
          <6>3. /\ clients'[g] = "here" => HeardAfter(up', g)
                /\ clients'[g] = "gone" => Sure'
            BY <6>2 DEF DroppedIsHeard, N!Here, HeardAfter
          <6>4. HeardAfter(up', g) => In(NeedMsg, up')
            <7>1. \A m \in Msgs : m.type = "need" => m = NeedMsg
              BY DEF Msgs, NeedMsg
            <7>2. \A i \in 1..Len(up') : up'[i] \in Msgs
              BY SMTT(60) DEF NetShape
            <7> QED
              BY <7>1, <7>2 DEF HeardAfter, In
          <6> QED
            BY <1>2, <1>3, <6>1, <6>3, <6>4
        <5> QED
          BY <1>2, <5>2, <5>3
      <4> QED
        BY <4>1, <4>2
    <3> QED
      BY <3>1, <3>2, <3>3, OnlyAnswersTake
  <2> QED
    BY <1>1, <1>7, <2>1, <2>2 DEF CreditComes
<1> QED
  BY <1>1, <1>5, <1>6, <1>7, ChooserMoves

-----------------------------------------------------------------------------
(* What fits without the user.                                             *)

LEMMA MessagesFitKept ==
    ASSUME NetShape, JobsFit, MessagesTell, N!MessagesFit, N!Next
    PROVE  N!MessagesFit'
<1> SUFFICES ASSUME kicked' = {} PROVE error' # "misfit"
  BY DEF N!MessagesFit
<1>1. N!HearMisfit \/ error' # "misfit" \/ error' = error
  <2>1. ASSUME NEW h \in Handles,
               \/ N!ClientComes(h) \/ N!ClientGoes(h) \/ N!Kick(h) \/ N!EvalInit(h)
               \/ N!ChooseAdd(h) \/ N!ChooseRemove(h) \/ N!ChooseWork(h)
        PROVE  error' = error
    BY <2>1 DEF N!ClientComes, N!ClientGoes, N!Kick, N!EvalInit, N!ChooseAdd, N!ChooseRemove, N!ChooseWork, N!ctl
  <2>2. ASSUME N!TakeCredit \/ N!ReadLoop \/ N!NetThreadDisconnected PROVE error' = error
    BY <2>2 DEF N!TakeCredit, N!ReadLoop, N!NetThreadDisconnected, N!ctl
  <2>3. ASSUME N!NetFails \/ N!WriteFails \/ N!Stop PROVE error' # "misfit" \/ error' = error
    BY <2>3 DEF N!NetFails, N!WriteFails, N!Stop, N!ctl
  <2>4. ASSUME N!Hears, ~ N!HearMisfit PROVE error' = error
    BY <2>4 DEF N!Hears, N!HearNeed, N!HearInit, N!HearDisconnect, N!HearResult, N!CtlRest
  <2>5. ASSUME N!HandleMessage PROVE error' = error
    <3>1. N!MainRest
      BY <2>5 DEF N!HandleMessage, N!HandleShutdown, N!HandleNetDown, N!HandleWork, N!HandleAdd, N!HandleRemove,
                  N!HandleKick, N!HandleImmediate, N!HandleInit, N!HandleWorkDone
    <3> QED
      BY <3>1 DEF N!MainRest, N!ctl
  <2>6. ASSUME NEW w \in evWork, N!EvalResult(w) PROVE error' = error
    BY <2>6 DEF N!EvalResult, N!ctl
  <2> QED
    BY <2>1, <2>2, <2>3, <2>4, <2>5, <2>6, EachStep DEF ControllerStep, ServerStep, N!Chooses, N!Evaluates
<1>2. kicked = {}
  <2>1. ControllerStep => kicked' = kicked
    BY ControllerFrame
  <2>2. \/ ControllerStep
        \/ /\ ~ N!HearResult /\ ~ N!HearDisconnect /\ ~ N!HearInit
           /\ \A h \in Handles : ~ N!ChooseWork(h) /\ ~ N!ChooseRemove(h) /\ ~ N!ChooseAdd(h)
    BY DEF ControllerStep, N!Chooses, N!Hears
  <2> QED
    BY <2>1, <2>2, JobsUnmoved
<1>3. ASSUME N!HearMisfit PROVE FALSE
  <2>1. up # <<>> /\ N!Misfit(Head(up))
    BY <1>3 DEF N!HearMisfit
  <2>2. Head(up) \in Msgs /\ Head(up).type \in {"init", "disconnect", "result"} /\ In(Head(up), up)
    BY <2>1, Heard, InTail DEF N!Misfit, NetShape
  <2>3. PICK h \in Handles : h = Head(up).h
    BY <2>1, Heard DEF N!Misfit
  <2>4. N!Known(h) /\ job[h] # N!Expected[Head(up).type] /\ job[h] # "none"
    BY <2>1, <2>3 DEF N!Misfit, N!Known
  <2>5. CASE Head(up).type = "init"
    <3>1. Has(up, StartsOf(h))
      BY <2>2, <2>3, <2>5 DEF Has, StartsOf
    <3>2. job[h] = "loading"
      BY <2>4, <3>1, InitIsAwaited
    <3> QED
      BY <2>4, <2>5, <3>2 DEF N!Expected
  <2>6. CASE Head(up).type = "disconnect"
    <3>1. Tells(Head(up))
      BY <2>2 DEF MessagesTell, In
    <3> QED
      BY <1>2, <2>6, <3>1 DEF Tells
  <2>7. CASE Head(up).type = "result"
    <3>1. Has(up, WorksOf(h))
      BY <2>2, <2>3, <2>7 DEF Has, WorksOf
    <3>2. Working(h) # 0
      BY <3>1, Nowhere
    <3>3. job[h] = "loaded"
      BY <1>2, <2>4, <3>2 DEF JobsFit, JobFits, NetShape
    <3> QED
      BY <2>4, <2>7, <3>3 DEF N!Expected
  <2> QED
    BY <2>2, <2>5, <2>6, <2>7
<1> QED
  BY <1>1, <1>2, <1>3 DEF N!MessagesFit

-----------------------------------------------------------------------------
(* The server and its controller: the invariant.                           *)

LEMMA NetInvStarts == N!Init => NetInv
<1> SUFFICES ASSUME N!Init PROVE NetInv
  OBVIOUS
<1>1. NetShape
  <2>1. \A V : <<>> \in Seq(V)
    OBVIOUS
  <2>2. \A types : Carries(<<>>, types)
    BY DEF Carries
  <2>3. 1 \in 1..MaxWork + 1
    BY ServerAssumption
  <2> QED
    BY <2>1, <2>2, <2>3 DEF NetShape, N!Init
<1>2. down = <<>> /\ mq = <<>> /\ up = <<>> /\ evInit = {} /\ evWork = {} /\ \A x : ~ In(x, <<>>)
  BY DEF N!Init, In
<1>3. /\ \A h \in Handles : Starting(h) = 0 /\ Working(h) = 0
      /\ \A id \in Ids : Using(id) = 0
  BY <1>1, <1>2, Nowhere DEF Has
<1>4. \A h \in Handles : /\ clients[h] = "new" /\ job[h] = "none" /\ active_work[h] = 0 /\ ev[h] = "none"
                         /\ h \notin shown /\ h \notin active
  BY DEF N!Init
<1>5. JobsFit
  BY <1>3, <1>4 DEF JobsFit, JobFits
<1>6. MessagesTell
  <2>1. 1..Len(<<>>) = {}
    OBVIOUS
  <2> QED
    BY <1>2, <1>4, <2>1 DEF MessagesTell
<1>7. IdsOnce
  <2>1. \A id : ~ TimedBy(id) /\ id \notin time_starts
    BY <1>2 DEF TimedBy, N!Init
  <2>2. time_starts = {w[2] : w \in evWork} \cup {mq[i].id : i \in {j \in 1..Len(mq) : mq[j].type = "done"}}
    BY <2>1, TimedIsTimed
  <2> QED
    BY <1>3, <2>2 DEF IdsOnce
<1>8. N!ActiveIsReal /\ N!MessagesFit
  BY DEF N!ActiveIsReal, N!MessagesFit, N!Init
<1>9. StillActive /\ DroppedIsHeard /\ CreditComes /\ Bounded
  BY <1>3, <1>4 DEF StillActive, DroppedIsHeard, CreditComes, Bounded, N!Here, N!Init
<1>10. N!TotalIsSum
  <2>1. Pairs(active_work) = {}
    <3>1. \A h \in Handles : 1..active_work[h] = {}
      BY <1>4
    <3> QED
      BY <3>1 DEF Pairs
  <2>2. total_work = 0
    BY DEF N!Init
  <2> QED
    BY <2>1, <2>2, FS_EmptySet, NetCardinality DEF N!TotalIsSum, Pairs
<1> QED
  BY <1>1, <1>5, <1>6, <1>7, <1>8, <1>9, <1>10 DEF NetInv

LEMMA NetInvKept == NetInv /\ N!Next => NetInv'
<1> SUFFICES ASSUME NetInv, N!Next PROVE NetInv'
  OBVIOUS
<1> USE DEF NetInv
<1>1. Bounded' /\ N!TotalIsSum'
  BY CountsKept
<1>2. NetShape'
  BY NetShapeKept
<1>3. JobsFit'
  BY <1>2, JobsFitKept
<1>4. MessagesTell'
  BY <1>2, <1>3, MessagesTellKept
<1>5. IdsOnce'
  BY <1>2, IdsOnceKept
<1>6. N!ActiveIsReal'
  BY ActiveIsRealKept
<1>7. StillActive'
  BY <1>2, StillActiveKept
<1>8. DroppedIsHeard'
  BY <1>2, <1>3, DroppedIsHeardKept
<1>9. CreditComes'
  BY <1>1, <1>2, <1>3, <1>8, CreditComesKept
<1>10. N!MessagesFit'
  BY MessagesFitKept
<1> QED
  BY <1>1, <1>2, <1>3, <1>4, <1>5, <1>6, <1>7, <1>8, <1>9, <1>10

LEMMA NetInvUnmoved == NetInv /\ UNCHANGED netVars => NetInv'
<1> SUFFICES ASSUME NetInv, UNCHANGED netVars PROVE NetInv'
  OBVIOUS
<1> USE DEF netVars
<1>1. \A V : Travelling(V)' = Travelling(V)
  BY DEF Travelling
<1>2. \A h : Starting(h)' = Starting(h) /\ Working(h)' = Working(h)
  BY <1>1, EvalSame DEF Starting, Working, StartsOf, WorksOf
<1>3. \A id : Using(id)' = Using(id)
  BY <1>1, EvalSame DEF Using, UsesOf
<1>4. NetShape'
  BY DEF NetInv, NetShape, Carries
<1>5. JobsFit'
  BY <1>2 DEF NetInv, JobsFit, JobFits
<1>6. MessagesTell'
  BY DEF NetInv, MessagesTell, Tells
<1>7. IdsOnce'
  BY <1>3 DEF NetInv, IdsOnce
<1>8. N!ActiveIsReal' /\ N!TotalIsSum' /\ N!MessagesFit' /\ Bounded'
  BY DEF NetInv, N!ActiveIsReal, N!TotalIsSum, N!MessagesFit, Bounded
<1>9. StillActive'
  BY DEF NetInv, StillActive, N!Connected, N!Here, BuiltOnWay, Within
<1>10. Sure' <=> Sure
  BY <1>2 DEF Sure
<1>11. DroppedIsHeard' /\ CreditComes'
  BY <1>2, <1>10 DEF NetInv, DroppedIsHeard, CreditComes, N!Connected, N!Here, HeardAfter
<1> QED
  BY <1>4, <1>5, <1>6, <1>7, <1>8, <1>9, <1>11 DEF NetInv

LEMMA CountThere ==
    ASSUME NEW q \in Seq(Msgs), NEW types
    PROVE  /\ N!Count(q, types) \in Nat
           /\ \A x : In(x, q) /\ x.type \in types => N!Count(q, types) > 0
<1> DEFINE P == {i \in 1..Len(q) : q[i].type \in types}
<1>1. IsFiniteSet(1..Len(q)) /\ P \subseteq 1..Len(q)
  BY FS_Interval
<1>2. IsFiniteSet(P)
  BY <1>1, FS_Subset
<1>3. N!Count(q, types) = Cardinality(P)
  BY NetCardinality DEF N!Count
<1>4. \A x : In(x, q) /\ x.type \in types => P # {}
  BY DEF In
<1> HIDE DEF P
<1>5. Cardinality(P) \in Nat /\ (Cardinality(P) = 0 <=> P = {})
  BY <1>2, FS_CardinalityType, FS_EmptySet
<1> QED
  BY <1>3, <1>4, <1>5

\* Whatever is under way will be answered.
LEMMA OwedIsOwed ==
    ASSUME NetShape
    PROVE  /\ N!Owed \in Nat
           /\ In(NeedMsg, up) => N!Owed > 0
           /\ \A h \in Handles : Starting(h) > 0 \/ Working(h) > 0 => N!Owed > 0
<1> DEFINE d == N!Count(down, {"add", "work"})
           m == N!Count(mq, {"add", "immediate", "work", "init", "done"})
           u == N!Count(up, {"init", "result", "need"})
           i == N!Cardinality(evInit)
           w == N!Cardinality(evWork)
<1>1. down \in Seq(Msgs) /\ mq \in Seq(Msgs) /\ up \in Seq(Msgs)
  BY DEF NetShape
<1>2. d \in Nat /\ m \in Nat /\ u \in Nat
  BY <1>1, CountThere
<1>3. /\ i \in Nat /\ (evInit # {} => i > 0)
      /\ w \in Nat /\ (evWork # {} => w > 0)
  <2>1. IsFiniteSet(evInit) /\ IsFiniteSet(evWork) /\ i = Cardinality(evInit) /\ w = Cardinality(evWork)
    BY EvalFinite, NetCardinality
  <2> QED
    BY <2>1, FS_CardinalityType, FS_EmptySet
<1>4. /\ \A x : In(x, down) /\ x.type \in {"add", "work"} => d > 0
      /\ \A x : In(x, mq) /\ x.type \in {"add", "immediate", "work", "init", "done"} => m > 0
      /\ \A x : In(x, up) /\ x.type \in {"init", "result", "need"} => u > 0
  BY <1>1, CountThere
<1>5. N!Owed = d + m + i + w + u
  BY DEF N!Owed
<1> HIDE DEF d, m, u, i, w
<1>6. N!Owed \in Nat /\ (d > 0 \/ m > 0 \/ i > 0 \/ w > 0 \/ u > 0 => N!Owed > 0)
  BY <1>2, <1>3, <1>5
<1>7. In(NeedMsg, up) => u > 0
  <2>1. NeedMsg.type = "need"
    BY DEF NeedMsg
  <2> QED
    BY <1>4, <2>1
<1>8. /\ \A x : In(x, down) => x.type \in {"add", "remove", "work"}
      /\ \A x : In(x, mq) => x.type \in ToMain
      /\ \A x : In(x, up) => x.type \in {"need", "init", "disconnect", "result"}
  BY DEF NetShape, Carries, In
<1>9. ASSUME NEW h \in Handles, Starting(h) > 0 PROVE d > 0 \/ m > 0 \/ i > 0 \/ u > 0
  <2>1. Has(down, StartsOf(h)) \/ Has(mq, StartsOf(h)) \/ Has(up, StartsOf(h)) \/ h \in evInit
    <3>1. Starting(h) # 0
      BY <1>9
    <3> QED
      BY <3>1, Nowhere
  <2>2. Has(down, StartsOf(h)) => d > 0
    BY <1>4, <1>8 DEF Has, StartsOf
  <2>3. Has(mq, StartsOf(h)) => m > 0
    BY <1>4 DEF Has, StartsOf
  <2>4. Has(up, StartsOf(h)) => u > 0
    BY <1>4, <1>8 DEF Has, StartsOf
  <2> QED
    BY <1>3, <2>1, <2>2, <2>3, <2>4
<1>10. ASSUME NEW h \in Handles, Working(h) > 0 PROVE d > 0 \/ m > 0 \/ w > 0 \/ u > 0
  <2>1. Has(down, WorksOf(h)) \/ Has(mq, WorksOf(h)) \/ Has(up, WorksOf(h)) \/ evWork # {}
    <3>1. Working(h) # 0
      BY <1>10
    <3> QED
      BY <3>1, Nowhere
  <2>2. Has(down, WorksOf(h)) => d > 0
    BY <1>4, <1>8 DEF Has, WorksOf
  <2>3. Has(mq, WorksOf(h)) => m > 0
    BY <1>4, <1>8 DEF Has, WorksOf, ToMain
  <2>4. Has(up, WorksOf(h)) => u > 0
    BY <1>4, <1>8 DEF Has, WorksOf
  <2> QED
    BY <1>3, <2>1, <2>2, <2>3, <2>4
<1> QED
  BY <1>6, <1>7, <1>9, <1>10

LEMMA NetInvSuffices == NetInv => NetworkSound /\ CreditKept
<1> SUFFICES ASSUME NetInv PROVE NetworkSound /\ CreditKept
  OBVIOUS
<1> USE DEF NetInv
<1>1. N!TypeOK
  <2>1. next_work_id \in 1..MaxWork + 1 /\ MaxWork \in Nat /\ total_work \in Nat /\ active_work \in [Handles -> Nat]
    BY ServerAssumption DEF NetShape
  <2>2. total_work \in 0..MaxWork /\ \A h \in Handles : active_work[h] \in 0..MaxWork
    BY <2>1 DEF Bounded
  <2>3. active_work \in [Handles -> 0..MaxWork]
    BY <2>1, <2>2
  <2> QED
    BY <2>2, <2>3 DEF NetShape, Ids, N!TypeOK
<1>2. N!NothingRaises
  BY DEF NetShape, N!NothingRaises
<1>3. N!TimeStartsExact
  BY DEF IdsOnce, N!TimeStartsExact
<1>4. NetworkSound
  BY <1>1, <1>2, <1>3 DEF NetworkSound
<1>5. N!CreditKept
  <2> SUFFICES ASSUME N!Connected, chooser = "wait" PROVE credits + N!Owed > 0
    BY DEF N!CreditKept
  <2>1. credits \in Nat /\ N!Owed \in Nat
    BY OwedIsOwed DEF NetShape
  <2>2. Sure \/ \E h \in Handles : Working(h) > 0
    BY DEF CreditComes
  <2>3. credits > 0 \/ In(NeedMsg, up) \/ \E h \in Handles : Starting(h) > 0 \/ Working(h) > 0
    BY <2>2, SureAs
  <2>4. credits > 0 \/ N!Owed > 0
    BY <2>3, OwedIsOwed
  <2> QED
    BY <2>1, <2>4
<1> QED
  BY <1>4, <1>5 DEF CreditKept

LEMMA NetInvAlways == Spec => []NetInv
<1>1. Init => NetInv
  BY NetInvStarts DEF Init
<1>2. NetInv /\ [Next]_vars => NetInv'
  <2> SUFFICES ASSUME NetInv, [Next]_vars PROVE NetInv'
    OBVIOUS
  <2>1. N!Next \/ UNCHANGED netVars
    BY DEF Next, EStep, NStep, SStep, vars
  <2> QED
    BY <2>1, NetInvKept, NetInvUnmoved
<1> QED
  BY <1>1, <1>2, PTL DEF Spec

\* The server and its controller, for any permuters, pieces of work and kicks, through
\* every order of messages and a connection that ends: the main loop of net/server.py
\* raises nothing and has a start time for exactly the work that is out, what it takes
\* for active the evaluator has or has just failed to build, and controller/src/server.rs
\* counts its work exactly and hears only what fits, as long as nobody is thrown out.
THEOREM NetworkSafe == Spec => []NetworkSound
BY NetInvAlways, NetInvSuffices, PTL

\* A controller that waits for a credit has one, or an answer that earns one is under
\* way, however many slow answers earned it half a credit and whatever work it dropped.
THEOREM CreditIsKept == Spec => []CreditKept
BY NetInvAlways, NetInvSuffices, PTL

\* What the evaluator is given, and when.
LEMMA EvaluatorWellUsed ==
    ASSUME NetInv, N!Next
    PROVE  /\ \A w \in evWork' \ evWork : ev[w[1]] = "here" /\ w[1] \notin evInit
           /\ \A h \in Handles : (ev'[h] = "removed" /\ ev[h] # "removed") => ev[h] \in {"here", "failed"}
           /\ \A h \in evInit' \ evInit : ev[h] = "none"
<1> USE DEF NetInv
<1>1. ASSUME NEW w \in evWork' \ evWork PROVE ev[w[1]] = "here" /\ w[1] \notin evInit
  <2>1. N!HandleWork
    <3>1. ControllerStep => evWork' = evWork
      BY ControllerFrame, SMTT(60)
    <3>2. ServerStep /\ ~ N!HandleWork => evWork' \subseteq evWork
      BY DEF ServerStep, N!HandleMessage, N!HandleShutdown, N!HandleNetDown, N!HandleAdd, N!HandleRemove,
             N!HandleKick, N!HandleImmediate, N!HandleInit, N!HandleWorkDone, N!Kick,
             N!ReadLoop, N!NetThreadDisconnected, N!NetFails, N!WriteFails, N!Stop, N!Evaluates, N!EvalInit, N!EvalResult
    <3> QED
      BY <1>1, <3>1, <3>2, EachStep
  <2>2. N!Get("work") /\ Head(mq).h \in active /\ w = <<Head(mq).h, Head(mq).id>>
    BY <1>1, <2>1 DEF N!HandleWork
  <2>3. PICK h \in Handles : h = Head(mq).h /\ h \in active /\ w[1] = h
    BY <2>2 DEF NetShape
  <2>4. Has(mq, WorksOf(h))
    <3>1. Head(mq) \in Msgs /\ Head(mq).type = "work" /\ Head(mq) = mq[1] /\ 1 \in 1..Len(mq)
      BY <2>2, Got
    <3>2. Head(mq) \in WorksOf(h) /\ In(Head(mq), mq)
      BY <2>3, <3>1 DEF WorksOf, In
    <3> QED
      BY <3>2 DEF Has
  <2>5. Working(h) # 0
    BY <2>4, Nowhere
  <2>6. Starting(h) = 0
    <3>1. Starting(h) \in Nat /\ Starting(h) <= 1 /\ Starting(h) # 1
      BY <2>5, Spots DEF JobsFit, JobFits
    <3> QED
      BY <3>1
  <2>7. h \notin evInit /\ ~ Has(mq, StartsOf(h))
    BY <2>6, Nowhere
  <2>8. ~ In([type |-> "init", h |-> h, ok |-> FALSE], mq)
    <3>1. [type |-> "init", h |-> h, ok |-> FALSE] \in StartsOf(h)
      BY MsgsExist DEF StartsOf
    <3> QED
      BY <2>7, <3>1 DEF Has
  <2> QED
    BY <2>3, <2>7, <2>8, ActiveIsRealAs
<1>2. ASSUME NEW h \in Handles, ev'[h] = "removed", ev[h] # "removed" PROVE ev[h] \in {"here", "failed"}
  <2>1. h \in active
    BY <1>2, EvMoves
  <2> QED
    BY <2>1, ActiveIsRealAs
<1>3. ASSUME NEW h \in evInit' \ evInit PROVE ev[h] = "none"
  <2>1. N!HandleAdd
    <3>1. ControllerStep => evInit' = evInit
      BY ControllerFrame, SMTT(60)
    <3>2. ServerStep /\ ~ N!HandleAdd => evInit' \subseteq evInit
      BY DEF ServerStep, N!HandleMessage, N!HandleShutdown, N!HandleNetDown, N!HandleWork, N!HandleRemove,
             N!HandleKick, N!HandleImmediate, N!HandleInit, N!HandleWorkDone, N!Kick,
             N!ReadLoop, N!NetThreadDisconnected, N!NetFails, N!WriteFails, N!Stop, N!Evaluates, N!EvalInit, N!EvalResult
    <3> QED
      BY <1>3, <3>1, <3>2, EachStep
  <2>2. N!Get("add") /\ evInit' \subseteq evInit \cup {Head(mq).h}
    BY <2>1 DEF N!HandleAdd
  <2> QED
    BY <1>3, <2>2, AddIsNews
<1> QED
  BY <1>1, <1>2, <1>3

\* The server asks of its evaluator only what net/evaluator.py assumes: it queues work
\* of a permuter that is built and not dropped, and builds and drops each once.
THEOREM EvaluatorIsUsedWell == Spec => EvaluatorUsedWell
<1>1. NetInv /\ [Next]_vars =>
          [/\ \A w \in evWork' \ evWork : ev[w[1]] = "here" /\ w[1] \notin evInit
           /\ \A h \in Handles : (ev'[h] = "removed" /\ ev[h] # "removed") => ev[h] \in {"here", "failed"}
           /\ \A h \in evInit' \ evInit : ev[h] = "none"]_(N!vars)
  <2> SUFFICES ASSUME NetInv, [Next]_vars, ~ UNCHANGED N!vars
               PROVE  /\ \A w \in evWork' \ evWork : ev[w[1]] = "here" /\ w[1] \notin evInit
                      /\ \A h \in Handles : (ev'[h] = "removed" /\ ev[h] # "removed") => ev[h] \in {"here", "failed"}
                      /\ \A h \in evInit' \ evInit : ev[h] = "none"
    OBVIOUS
  <2>1. N!Next
    BY DEF Next, EStep, NStep, SStep, vars, netVars, N!vars, N!ctl, N!main
  <2> QED
    BY <2>1, EvaluatorWellUsed
<1> QED
  BY <1>1, NetInvAlways, PTL DEF Spec, EvaluatorUsedWell, N!EvaluatorUsedWell

-----------------------------------------------------------------------------
(* The server process and its menu: what its queue holds.                  *)

HandleTypes == {"connect", "disconnect", "immediate", "work_done"}
IoMsgs ==
    [token : {0}, type : {"shutdown", "reconnect"}]
    \cup [token : {0}, type : {"remove"}, h : S!IoHandles \cup {None}]
    \cup [token : 1..S!MaxStarts, type : {"failed"}, graceful : BOOLEAN]
    \cup {m \in [token : 1..S!MaxStarts, type : HandleTypes, h : S!IoHandles] : m.h[2] = m.token}
IoShape ==
    /\ setup \in Setups /\ starts \in 1..S!MaxStarts /\ conn_server \in {0, starts}
    /\ ioq \in Seq(IoMsgs) /\ \A i \in 1..Len(ioq) : ioq[i].token <= starts
    /\ inner \in [S!Ids -> {"new", "active", "gone"}]
    /\ status \in {"connected", "connecting", "reconnecting", "failed"}
    /\ timer \in Nat /\ clicked \in 0..S!Slots /\ loop \in {"runs", "ended", "SystemExit", "TypeError"}

\* The permuters, each once, and the slots.
MenuFits(order, at, use) ==
    /\ order \in Seq(S!IoHandles) /\ \A i, j \in 1..Len(order) : order[i] = order[j] => i = j
    /\ at \in [{order[i] : i \in 1..Len(order)} -> 0..S!Slots]
    /\ use \in [1..S!Slots -> S!IoHandles \cup {None}]
    /\ \A h \in DOMAIN at : at[h] # 0 => use[at[h]] = h
    /\ \A i \in 1..S!Slots : use[i] # None => use[i] \in DOMAIN at /\ at[use[i]] = i
NoneWaits(at, use) == (\E h \in DOMAIN at : at[h] = 0) => S!InUse(use)

\* What a server that runs has said of a permuter, and what of it is still unread: its
\* connection comes first and its end last, and nothing between without them.
Says(m, type, h) == m.type = type /\ m.h = h
About(m, h) == m.type \in HandleTypes /\ m.h = h
ToldInOrder(q, state, known, h) ==
    /\ state = "new" => h \notin known /\ \A i \in 1..Len(q) : ~ About(q[i], h)
    /\ state = "active" => /\ h \in known \/ \E i \in 1..Len(q) : Says(q[i], "connect", h)
                           /\ \A i \in 1..Len(q) : ~ Says(q[i], "disconnect", h)
    /\ \A i, j \in 1..Len(q) :
          /\ Says(q[i], "connect", h) => h \notin known /\ (j < i => ~ About(q[j], h))
          /\ Says(q[i], "disconnect", h) /\ i < j => ~ About(q[j], h)
    /\ \A i \in 1..Len(q) :
          Says(q[i], "disconnect", h) \/ Says(q[i], "work_done", h) =>
              h \in known \/ \E j \in 1..Len(q) : j < i /\ Says(q[j], "connect", h)
AllToldInOrder ==
    conn_server # 0 =>
        \A id \in S!Ids : ToldInOrder(ioq, inner[id], DOMAIN slot, <<id, conn_server>>)

\* The inductive invariant of the server process.
IoInv ==
    /\ IoShape /\ MenuFits(permuters, slot, slots) /\ NoneWaits(slot, slots)
    /\ AllToldInOrder /\ S!ShownIsCurrent /\ S!OneAtATime

\* The slots the menu fills.
LEMMA FreeSlotIsFree ==
    ASSUME S!Slots \in Nat, NEW use, ~ S!InUse(use)
    PROVE  S!FreeSlot(use) \in 1..S!Slots /\ use[S!FreeSlot(use)] = None
<1> DEFINE free == {i \in 1..S!Slots : use[i] = None}
           run == {i \in free : \A k \in i..S!Slots : (\E j \in free : j >= k) => k \in free}
<1>1. free # {}
  BY DEF S!InUse
<1>2. PICK g \in free : \A j \in free : j <= g
  <2> PICK n \in Nat : n = S!Slots + 1
    OBVIOUS
  <2>1. free \in SUBSET (0..(n - 1))
    OBVIOUS
  <2> HIDE DEF free
  <2> QED
    BY <1>1, <2>1, GreatestBelow
<1>3. g \in run
  <2>1. ASSUME NEW k \in g..S!Slots, NEW j \in free, j >= k PROVE k \in free
    <3>1. j <= g
      BY <1>2
    <3>2. k = g
      BY <2>1, <3>1
    <3> QED
      BY <3>2
  <2> QED
    BY <2>1
<1>4. run \in SUBSET Nat
  OBVIOUS
<1>5. PICK i \in run : \A j \in run : i <= j
  <2> HIDE DEF run
  <2> QED
    BY <1>3, <1>4, LeastNatural
<1>6. S!FreeSlot(use) = CHOOSE x \in run : \A j \in run : x <= j
  BY DEF S!FreeSlot
<1>7. S!FreeSlot(use) \in run
  <2> HIDE DEF run
  <2> QED
    BY <1>5, <1>6, SMTT(60)
<1> QED
  BY <1>7

LEMMA GiveFits ==
    ASSUME S!Slots \in Nat, None \notin S!IoHandles,
           NEW order, NEW at, NEW use, MenuFits(order, at, use), NEW h \in DOMAIN at,
           NEW now, now = S!Give([at |-> at, use |-> use], h)
    PROVE  /\ now = [at |-> now.at, use |-> now.use]
           /\ MenuFits(order, now.at, now.use) /\ DOMAIN now.at = DOMAIN at
           /\ now.at[h] # 0 \/ S!InUse(now.use)
           /\ \A k \in DOMAIN at : at[k] # 0 => now.at[k] # 0
           /\ S!InUse(use) => S!InUse(now.use)
<1>1. CASE at[h] # 0 \/ S!InUse(use)
  <2>1. now = [at |-> at, use |-> use]
    BY <1>1 DEF S!Give
  <2> QED
    BY <1>1, <2>1
<1>2. CASE at[h] = 0 /\ ~ S!InUse(use)
  <2> PICK i \in 1..S!Slots : i = S!FreeSlot(use) /\ use[i] = None
    BY <1>2, FreeSlotIsFree
  <2>1. now = [at |-> [at EXCEPT ![h] = i], use |-> [use EXCEPT ![i] = h]]
    BY <1>2 DEF S!Give
  <2>2. at \in [DOMAIN at -> 0..S!Slots] /\ DOMAIN at \subseteq S!IoHandles /\ use \in [1..S!Slots -> S!IoHandles \cup {None}]
    <3>1. /\ order \in Seq(S!IoHandles) /\ at \in [{order[j] : j \in 1..Len(order)} -> 0..S!Slots]
          /\ use \in [1..S!Slots -> S!IoHandles \cup {None}]
      BY DEF MenuFits
    <3>2. \A j \in 1..Len(order) : order[j] \in S!IoHandles
      BY <3>1
    <3>3. DOMAIN at = {order[j] : j \in 1..Len(order)}
      <4> DEFINE D == {order[j] : j \in 1..Len(order)}
      <4>1. at \in [D -> 0..S!Slots]
        BY <3>1
      <4> HIDE DEF D
      <4>2. DOMAIN at = D
        BY <4>1
      <4> QED
        BY <4>2 DEF D
    <3>4. DOMAIN at \subseteq S!IoHandles
      BY <3>2, <3>3
    <3>5. at \in [DOMAIN at -> 0..S!Slots]
      BY <3>1, <3>3
    <3> QED
      BY <3>1, <3>4, <3>5
  <2>3. /\ now.at \in [DOMAIN at -> 0..S!Slots] /\ now.at[h] = i /\ \A k \in DOMAIN at : k # h => now.at[k] = at[k]
        /\ now.use \in [1..S!Slots -> S!IoHandles \cup {None}] /\ now.use[i] = h
        /\ \A k \in 1..S!Slots : k # i => now.use[k] = use[k]
    <3>1. now.at = [at EXCEPT ![h] = i] /\ now.use = [use EXCEPT ![i] = h]
      <4> DEFINE at1 == [at EXCEPT ![h] = i]
                 use1 == [use EXCEPT ![i] = h]
      <4>1. now = [at |-> at1, use |-> use1]
        BY <2>1
      <4> HIDE DEF at1, use1
      <4>2. now.at = at1 /\ now.use = use1
        BY <4>1
      <4> QED
        BY <4>2 DEF at1, use1
    <3>2. i \in 0..S!Slots /\ h \in S!IoHandles
      BY <2>2
    <3>3. now.at \in [DOMAIN at -> 0..S!Slots] /\ now.at[h] = i /\ \A k \in DOMAIN at : k # h => now.at[k] = at[k]
      <4>1. DOMAIN now.at = DOMAIN at
        BY <2>2, <3>1
      <4>2. now.at[h] = i /\ \A k \in DOMAIN at : k # h => now.at[k] = at[k]
        BY <2>2, <3>1
      <4>3. \A k \in DOMAIN at : now.at[k] \in 0..S!Slots
        BY <2>2, <3>2, <4>2
      <4>4. now.at = [k \in DOMAIN at |-> now.at[k]]
        BY <3>1, <4>1
      <4> QED
        BY <4>2, <4>3, <4>4
    <3>4. /\ now.use \in [1..S!Slots -> S!IoHandles \cup {None}] /\ now.use[i] = h
          /\ \A k \in 1..S!Slots : k # i => now.use[k] = use[k]
      BY <2>2, <3>1, <3>2, ZenonT(60)
    <3> QED
      BY <3>3, <3>4
  <2>4. \A k \in DOMAIN at : now.at[k] # 0 => now.use[now.at[k]] = k
    <3> SUFFICES ASSUME NEW k \in DOMAIN at, k # h, at[k] # 0 PROVE now.use[at[k]] = k
      BY <2>3
    <3>1. use[at[k]] = k /\ at[k] \in 1..S!Slots /\ k # None
      BY <2>2 DEF MenuFits
    <3> QED
      BY <2>3, <3>1
  <2>5. \A k \in 1..S!Slots : now.use[k] # None => now.use[k] \in DOMAIN at /\ now.at[now.use[k]] = k
    <3> SUFFICES ASSUME NEW k \in 1..S!Slots, k # i, use[k] # None PROVE use[k] \in DOMAIN at /\ now.at[use[k]] = k
      BY <2>3, SMTT(60)
    <3>1. use[k] \in DOMAIN at /\ at[use[k]] = k
      BY DEF MenuFits
    <3>2. use[k] # h
      BY <1>2, <3>1, SMTT(60)
    <3> QED
      BY <2>3, <3>1, <3>2
  <2>6. MenuFits(order, now.at, now.use) /\ DOMAIN now.at = DOMAIN at
    <3>1. DOMAIN at = {order[j] : j \in 1..Len(order)}
      BY DEF MenuFits
    <3>2. now.at \in [{order[j] : j \in 1..Len(order)} -> 0..S!Slots] /\ DOMAIN now.at = DOMAIN at
      BY <2>3, <3>1
    <3> QED
      BY <2>3, <2>4, <2>5, <3>2 DEF MenuFits
  <2> QED
    BY <1>2, <2>1, <2>3, <2>6
<1> QED
  BY <1>1, <1>2

Filled(f, order, base, n) == f = [k \in 0..n |-> IF k = 0 THEN base ELSE S!Give(f[k - 1], order[k])]
LEMMA FillingExists ==
    ASSUME NEW order, NEW base, NEW n \in Nat
    PROVE  \E f : Filled(f, order, base, n)
<1> DEFINE T == {m \in Nat : \E f : Filled(f, order, base, m)}
<1>1. 0 \in T
  <2>1. Filled([k \in 0..0 |-> base], order, base, 0)
    BY DEF Filled
  <2> QED
    BY <2>1
<1>2. ASSUME NEW m \in Nat, m \in T PROVE m + 1 \in T
  <2>1. PICK f : Filled(f, order, base, m)
    BY <1>2
  <2> DEFINE g == [k \in 0..m + 1 |-> IF k <= m THEN f[k] ELSE S!Give(f[m], order[m + 1])]
  <2>2. \A k \in 0..m : g[k] = f[k]
    OBVIOUS
  <2>3. g[m + 1] = S!Give(f[m], order[m + 1])
    OBVIOUS
  <2>4. ASSUME NEW k \in 0..m + 1 PROVE g[k] = IF k = 0 THEN base ELSE S!Give(g[k - 1], order[k])
    <3> HIDE DEF g
    <3>1. CASE k = 0
      BY <2>1, <2>2, <3>1 DEF Filled
    <3>2. CASE k \in 1..m
      <4>1. g[k] = f[k] /\ g[k - 1] = f[k - 1]
        BY <2>2, <3>2
      <4>2. f[k] = S!Give(f[k - 1], order[k])
        BY <2>1, <3>2 DEF Filled
      <4> QED
        BY <3>2, <4>1, <4>2
    <3>3. CASE k = m + 1
      <4>1. g[k - 1] = f[m] /\ k # 0
        BY <2>2, <3>3
      <4> QED
        BY <2>3, <3>3, <4>1
    <3> QED
      BY <3>1, <3>2, <3>3
  <2>5. Filled(g, order, base, m + 1)
    <3>1. g = [k \in 0..m + 1 |-> g[k]]
      OBVIOUS
    <3> HIDE DEF g
    <3> QED
      BY <2>4, <3>1 DEF Filled
  <2> HIDE DEF g
  <2> QED
    BY <2>5
<1>3. n \in T
  <2> HIDE DEF T
  <2> QED
    BY <1>1, <1>2, AllNaturals
<1> QED
  BY <1>3

\* Filling them leaves nobody waiting while a slot is free.
LEMMA FillFits ==
    ASSUME S!Slots \in Nat, None \notin S!IoHandles,
           NEW order, NEW at, NEW use, MenuFits(order, at, use), S!FillSlots(order, at, use)
    PROVE  MenuFits(permuters', slot', slots') /\ NoneWaits(slot', slots') /\ DOMAIN slot' = DOMAIN at
<1> DEFINE base == [at |-> at, use |-> use]
           L == Len(order)
           f == CHOOSE g : Filled(g, order, base, L)
<1>1. permuters' = order /\ slot' = f[L].at /\ slots' = f[L].use
  BY DEF S!FillSlots, Filled
<1>2. L \in Nat /\ DOMAIN at = {order[i] : i \in 1..L}
  BY DEF MenuFits
<1>3. \A k \in 0..L : f[k] = IF k = 0 THEN base ELSE S!Give(f[k - 1], order[k])
  <2>1. \E g : Filled(g, order, base, L)
    <3> HIDE DEF base, L, f
    <3> QED
      BY <1>2, FillingExists
  <2>2. Filled(f, order, base, L)
    <3> HIDE DEF base, L
    <3> QED
      BY <2>1
  <2> HIDE DEF f, base, L
  <2> QED
    BY <2>2 DEF Filled
<1> HIDE DEF f, L
<1> DEFINE Done(n) ==
               /\ f[n] = [at |-> f[n].at, use |-> f[n].use]
               /\ MenuFits(order, f[n].at, f[n].use) /\ DOMAIN f[n].at = DOMAIN at
               /\ \A i \in 1..n : f[n].at[order[i]] # 0 \/ S!InUse(f[n].use)
           T == {n \in Nat : n <= L => Done(n)}
<1>4. 0 \in T
  <2>1. f[0] = base
    BY <1>2, <1>3
  <2> QED
    BY <2>1
<1>5. ASSUME NEW n \in Nat, n \in T PROVE n + 1 \in T
  <2> SUFFICES ASSUME n + 1 <= L PROVE Done(n + 1)
    OBVIOUS
  <2>1. Done(n)
    BY <1>2, <1>5
  <2>2. f[n + 1] = S!Give(f[n], order[n + 1]) /\ order[n + 1] \in DOMAIN at
    <3>1. n + 1 \in 0..L /\ n + 1 # 0 /\ n + 1 \in 1..L /\ n + 1 - 1 = n
      BY <1>2
    <3>2. f[n + 1] = S!Give(f[n + 1 - 1], order[n + 1])
      BY <1>3, <3>1
    <3> QED
      BY <1>2, <3>1, <3>2
  <2> PICK now : now = f[n] /\ now = [at |-> now.at, use |-> now.use]
    BY <2>1
  <2> PICK next : next = f[n + 1]
    OBVIOUS
  <2>3. MenuFits(order, now.at, now.use) /\ order[n + 1] \in DOMAIN now.at
    BY <2>1, <2>2
  <2>4. next = S!Give([at |-> now.at, use |-> now.use], order[n + 1])
    BY <2>2
  <2>5. /\ next = [at |-> next.at, use |-> next.use]
        /\ MenuFits(order, next.at, next.use) /\ DOMAIN next.at = DOMAIN now.at
        /\ next.at[order[n + 1]] # 0 \/ S!InUse(next.use)
        /\ \A k \in DOMAIN now.at : now.at[k] # 0 => next.at[k] # 0
        /\ S!InUse(now.use) => S!InUse(next.use)
    BY <2>3, <2>4, GiveFits
  <2>6. ASSUME NEW i \in 1..n + 1 PROVE next.at[order[i]] # 0 \/ S!InUse(next.use)
    <3>1. CASE i = n + 1
      BY <2>5, <3>1
    <3>2. CASE i \in 1..n
      <4>1. now.at[order[i]] # 0 \/ S!InUse(now.use)
        BY <2>1, <3>2
      <4>2. order[i] \in DOMAIN now.at
        BY <1>2, <2>1, <3>2
      <4> QED
        BY <2>5, <4>1, <4>2
    <3> QED
      BY <3>1, <3>2
  <2> QED
    BY <2>1, <2>5, <2>6
<1>6. L \in T
  <2> HIDE DEF T
  <2> QED
    BY <1>2, <1>4, <1>5, AllNaturals
<1>7. Done(L)
  BY <1>2, <1>6
<1>8. NoneWaits(slot', slots')
  <2> SUFFICES ASSUME NEW h \in DOMAIN slot', slot'[h] = 0 PROVE S!InUse(slots')
    BY DEF NoneWaits
  <2>1. PICK i \in 1..L : h = order[i]
    BY <1>1, <1>2, <1>7
  <2> QED
    BY <1>1, <1>7, <2>1
<1> QED
  BY <1>1, <1>7, <1>8

LEMMA SetupFacts ==
    ASSUME setup \in Setups
    PROVE  S!Slots \in Nat /\ S!MaxStarts \in Nat \ {0} /\ None \notin S!IoHandles
BY ServerAssumption DEF S!Slots, S!MaxStarts, S!IoHandles, S!Ids

\* A permuter comes into the menu, and goes.
LEMMA ConnectFits ==
    ASSUME IoShape, MenuFits(permuters, slot, slots), NEW h \in S!IoHandles, h \notin DOMAIN slot, S!Connect(h)
    PROVE  /\ MenuFits(permuters', slot', slots') /\ NoneWaits(slot', slots')
           /\ DOMAIN slot' = DOMAIN slot \cup {h}
<1> DEFINE order == Append(permuters, h)
           at == [k \in DOMAIN slot \cup {h} |-> IF k = h THEN 0 ELSE slot[k]]
<1>1. S!Slots \in Nat /\ None \notin S!IoHandles
  BY SetupFacts DEF IoShape
<1>2. /\ permuters \in Seq(S!IoHandles) /\ \A i, j \in 1..Len(permuters) : permuters[i] = permuters[j] => i = j
      /\ slots \in [1..S!Slots -> S!IoHandles \cup {None}]
      /\ \A k \in DOMAIN slot : slot[k] # 0 => slots[slot[k]] = k
      /\ \A i \in 1..S!Slots : slots[i] # None => slots[i] \in DOMAIN slot /\ slot[slots[i]] = i
  BY DEF MenuFits
<1>3. DOMAIN slot = {permuters[i] : i \in 1..Len(permuters)} /\ slot \in [DOMAIN slot -> 0..S!Slots]
  <2> DEFINE D == {permuters[i] : i \in 1..Len(permuters)}
  <2>1. slot \in [D -> 0..S!Slots]
    BY DEF MenuFits
  <2> HIDE DEF D
  <2>2. DOMAIN slot = D /\ slot \in [DOMAIN slot -> 0..S!Slots]
    BY <2>1
  <2> QED
    BY <2>2 DEF D
<1>4. /\ order \in Seq(S!IoHandles) /\ Len(order) = Len(permuters) + 1 /\ order[Len(permuters) + 1] = h
      /\ \A i \in 1..Len(permuters) : order[i] = permuters[i]
      /\ Len(permuters) \in Nat
  BY <1>2, AppendFacts
<1>5. DOMAIN at = DOMAIN slot \cup {h} /\ at[h] = 0 /\ \A k \in DOMAIN slot : at[k] = slot[k]
  OBVIOUS
<1> HIDE DEF order, at
<1>6. {order[i] : i \in 1..Len(order)} = DOMAIN at
  <2>1. \A i \in 1..Len(order) : i \in 1..Len(permuters) \/ i = Len(permuters) + 1
    BY <1>4
  <2>2. \A i \in 1..Len(order) : order[i] \in DOMAIN at
    BY <1>3, <1>4, <1>5, <2>1
  <2>3. \A k \in DOMAIN at : \E i \in 1..Len(order) : order[i] = k
    <3>1. Len(permuters) + 1 \in 1..Len(order) /\ \A i \in 1..Len(permuters) : i \in 1..Len(order)
      BY <1>4
    <3> QED
      BY <1>3, <1>4, <1>5, <3>1
  <2> QED
    BY <2>2, <2>3
<1>7. at \in [DOMAIN at -> 0..S!Slots]
  <2>1. \A k \in DOMAIN at : at[k] \in 0..S!Slots
    BY <1>1, <1>3, <1>5
  <2>2. at = [k \in DOMAIN at |-> at[k]]
    BY DEF at
  <2> QED
    BY <2>1, <2>2
<1>8. \A i, j \in 1..Len(order) : order[i] = order[j] => i = j
  <2>1. \A i \in 1..Len(order) : i \in 1..Len(permuters) \/ i = Len(permuters) + 1
    BY <1>4
  <2>2. \A i \in 1..Len(permuters) : permuters[i] # h
    BY <1>3
  <2> QED
    BY <1>2, <1>4, <2>1, <2>2
<1>9. MenuFits(order, at, slots)
  <2>1. \A k \in DOMAIN at : at[k] # 0 => slots[at[k]] = k
    BY <1>2, <1>5
  <2>2. \A i \in 1..S!Slots : slots[i] # None => slots[i] \in DOMAIN at /\ at[slots[i]] = i
    BY <1>2, <1>5
  <2>3. at \in [{order[i] : i \in 1..Len(order)} -> 0..S!Slots]
    BY <1>6, <1>7
  <2> QED
    BY <1>2, <1>4, <1>8, <2>1, <2>2, <2>3 DEF MenuFits
<1>10. S!FillSlots(order, at, slots)
  BY DEF S!Connect, order, at
<1> QED
  BY <1>1, <1>5, <1>9, <1>10, FillFits

LEMMA RemoveAtFacts ==
    ASSUME NEW T, NEW s \in Seq(T), NEW k \in 1..Len(s)
    PROVE  /\ S!RemoveAt(s, k) \in Seq(T) /\ Len(S!RemoveAt(s, k)) = Len(s) - 1
           /\ \A i \in 1..Len(s) - 1 : S!RemoveAt(s, k)[i] = IF i < k THEN s[i] ELSE s[i + 1]
BY OneTakenOut, ZenonT(60) DEF S!RemoveAt, TakenOut

LEMMA DisconnectFits ==
    ASSUME IoShape, MenuFits(permuters, slot, slots), NEW h \in DOMAIN slot, S!Disconnect(h)
    PROVE  /\ MenuFits(permuters', slot', slots') /\ NoneWaits(slot', slots')
           /\ DOMAIN slot' = DOMAIN slot \ {h}
<1> DEFINE index == CHOOSE i \in DOMAIN permuters : permuters[i] = h
           order == S!RemoveAt(permuters, index)
           at == [k \in DOMAIN slot \ {h} |-> slot[k]]
           use == IF slot[h] = 0 THEN slots ELSE [slots EXCEPT ![slot[h]] = None]
<1>1. S!Slots \in Nat /\ None \notin S!IoHandles
  BY SetupFacts DEF IoShape
<1>2. /\ permuters \in Seq(S!IoHandles) /\ \A i, j \in 1..Len(permuters) : permuters[i] = permuters[j] => i = j
      /\ slots \in [1..S!Slots -> S!IoHandles \cup {None}]
      /\ \A k \in DOMAIN slot : slot[k] # 0 => slots[slot[k]] = k
      /\ \A i \in 1..S!Slots : slots[i] # None => slots[i] \in DOMAIN slot /\ slot[slots[i]] = i
  BY DEF MenuFits
<1>3. DOMAIN slot = {permuters[i] : i \in 1..Len(permuters)} /\ slot \in [DOMAIN slot -> 0..S!Slots]
  <2> DEFINE D == {permuters[i] : i \in 1..Len(permuters)}
  <2>1. slot \in [D -> 0..S!Slots]
    BY DEF MenuFits
  <2> HIDE DEF D
  <2>2. DOMAIN slot = D /\ slot \in [DOMAIN slot -> 0..S!Slots]
    BY <2>1
  <2> QED
    BY <2>2 DEF D
<1>4. index \in 1..Len(permuters) /\ permuters[index] = h
  <2>1. \E i \in 1..Len(permuters) : permuters[i] = h
    BY <1>3
  <2>2. DOMAIN permuters = 1..Len(permuters)
    BY <1>2
  <2> QED
    BY <2>1, <2>2
<1> HIDE DEF index
<1>5. /\ order \in Seq(S!IoHandles) /\ Len(order) = Len(permuters) - 1 /\ Len(permuters) \in Nat
      /\ \A i \in 1..Len(permuters) - 1 : order[i] = IF i < index THEN permuters[i] ELSE permuters[i + 1]
  BY <1>2, <1>4, RemoveAtFacts, SMTT(60)
<1>6. DOMAIN at = DOMAIN slot \ {h} /\ \A k \in DOMAIN at : at[k] = slot[k]
  OBVIOUS
<1>7. at \in [DOMAIN at -> 0..S!Slots]
  BY <1>3
<1>8. /\ use \in [1..S!Slots -> S!IoHandles \cup {None}]
      /\ \A i \in 1..S!Slots : use[i] = IF i = slot[h] THEN None ELSE slots[i]
  <2>1. CASE slot[h] = 0
    BY <1>1, <1>2, <2>1
  <2>2. CASE slot[h] # 0
    BY <1>2, <2>2
  <2> QED
    BY <2>1, <2>2
<1> HIDE DEF order, at, use
<1> DEFINE old(i) == IF i < index THEN i ELSE i + 1
<1>9. \A i \in 1..Len(order) : old(i) \in 1..Len(permuters) /\ old(i) # index /\ order[i] = permuters[old(i)]
  BY <1>4, <1>5
<1>10. \A i, j \in 1..Len(order) : old(i) = old(j) => i = j
  BY <1>4, <1>5
<1>11. \A j \in 1..Len(permuters) : j # index => \E i \in 1..Len(order) : old(i) = j
  <2> SUFFICES ASSUME NEW j \in 1..Len(permuters), j # index PROVE \E i \in 1..Len(order) : old(i) = j
    OBVIOUS
  <2>1. CASE j < index
    BY <1>4, <1>5, <2>1
  <2>2. CASE j > index
    <3>1. j - 1 \in 1..Len(order) /\ old(j - 1) = j
      BY <1>4, <1>5, <2>2
    <3> QED
      BY <3>1
  <2> QED
    BY <1>4, <2>1, <2>2
<1> HIDE DEF old
<1>12. {order[i] : i \in 1..Len(order)} = DOMAIN at
  <2>1. \A i \in 1..Len(order) : order[i] \in DOMAIN at
    BY <1>2, <1>3, <1>4, <1>6, <1>9
  <2>2. \A k \in DOMAIN at : \E i \in 1..Len(order) : order[i] = k
    BY <1>3, <1>4, <1>6, <1>9, <1>11
  <2> QED
    BY <2>1, <2>2
<1>13. MenuFits(order, at, use)
  <2>1. \A k \in DOMAIN at : at[k] # 0 => use[at[k]] = k
    <3> SUFFICES ASSUME NEW k \in DOMAIN slot, k # h, slot[k] # 0 PROVE use[slot[k]] = k
      BY <1>6
    <3>1. slot[k] \in 1..S!Slots /\ slots[slot[k]] = k
      BY <1>1, <1>2, <1>3
    <3>2. slot[k] # slot[h]
      BY <1>2, <3>1
    <3> QED
      BY <1>8, <3>1, <3>2
  <2>2. \A i \in 1..S!Slots : use[i] # None => use[i] \in DOMAIN at /\ at[use[i]] = i
    <3> SUFFICES ASSUME NEW i \in 1..S!Slots, i # slot[h], slots[i] # None
                 PROVE  slots[i] \in DOMAIN at /\ at[slots[i]] = i
      BY <1>8
    <3> QED
      BY <1>2, <1>6
  <2>3. at \in [{order[i] : i \in 1..Len(order)} -> 0..S!Slots]
    BY <1>7, <1>12
  <2>4. \A i, j \in 1..Len(order) : order[i] = order[j] => i = j
    BY <1>2, <1>9, <1>10, SMTT(60)
  <2> QED
    BY <1>5, <1>8, <2>1, <2>2, <2>3, <2>4 DEF MenuFits
<1>14. S!FillSlots(order, at, use)
  BY DEF S!Disconnect, order, at, use, index
<1> QED
  BY <1>1, <1>6, <1>13, <1>14, FillFits

-----------------------------------------------------------------------------
(* The order of what is told, as the queue grows and is read.              *)

LEMMA ToldAppend ==
    ASSUME NEW T, NEW q \in Seq(T), NEW m \in T, NEW state, NEW known, NEW h, ToldInOrder(q, state, known, h)
    PROVE  /\ ~ About(m, h) => ToldInOrder(Append(q, m), state, known, h)
           /\ state = "new" /\ Says(m, "connect", h) => ToldInOrder(Append(q, m), "active", known, h)
           /\ state = "new" /\ Says(m, "immediate", h) => ToldInOrder(Append(q, m), "gone", known, h)
           /\ state = "active" /\ Says(m, "disconnect", h) => ToldInOrder(Append(q, m), "gone", known, h)
           /\ state = "active" /\ Says(m, "work_done", h) => ToldInOrder(Append(q, m), "active", known, h)
<1> PICK n \in Nat : n = Len(q)
  OBVIOUS
<1> PICK r : r = Append(q, m)
  OBVIOUS
<1>1. Len(r) = n + 1 /\ r[n + 1] = m /\ \A i \in 1..n : r[i] = q[i]
  BY AppendFacts
<1>2. \A i \in 1..Len(r) : i \in 1..n \/ i = n + 1
  BY <1>1
<1>3. n + 1 \in 1..Len(r) /\ \A i \in 1..n : i \in 1..Len(r) /\ i < n + 1 /\ ~ (n + 1 < i)
  BY <1>1
<1>4. \A k, type : Says(k, type, h) /\ type \in HandleTypes => About(k, h)
  BY DEF Says, About
<1>5. {"connect", "disconnect", "immediate", "work_done"} = HandleTypes
  BY DEF HandleTypes
<1>6. CASE ~ About(m, h)
  <2>1. \A i, j \in 1..Len(r) : /\ Says(r[i], "connect", h) => h \notin known /\ (j < i => ~ About(r[j], h))
                                /\ Says(r[i], "disconnect", h) /\ i < j => ~ About(r[j], h)
    BY <1>1, <1>2, <1>4, <1>5, <1>6 DEF ToldInOrder
  <2>2. \A i \in 1..Len(r) :
            Says(r[i], "disconnect", h) \/ Says(r[i], "work_done", h) =>
                h \in known \/ \E j \in 1..Len(r) : j < i /\ Says(r[j], "connect", h)
    BY <1>1, <1>2, <1>3, <1>4, <1>5, <1>6 DEF ToldInOrder
  <2>3. state = "new" => h \notin known /\ \A i \in 1..Len(r) : ~ About(r[i], h)
    BY <1>1, <1>2, <1>6 DEF ToldInOrder
  <2>4. state = "active" => /\ h \in known \/ \E i \in 1..Len(r) : Says(r[i], "connect", h)
                            /\ \A i \in 1..Len(r) : ~ Says(r[i], "disconnect", h)
    BY <1>1, <1>2, <1>3, <1>4, <1>5, <1>6 DEF ToldInOrder
  <2>5. ToldInOrder(r, state, known, h)
    BY <2>1, <2>2, <2>3, <2>4 DEF ToldInOrder
  <2>6. \A type \in HandleTypes : ~ Says(m, type, h)
    BY <1>4, <1>6
  <2> QED
    BY <1>5, <2>5, <2>6
<1>7. ASSUME state = "new", Says(m, "connect", h) \/ Says(m, "immediate", h)
      PROVE  /\ Says(m, "connect", h) => ToldInOrder(r, "active", known, h)
             /\ Says(m, "immediate", h) => ToldInOrder(r, "gone", known, h)
  <2>1. h \notin known /\ \A i \in 1..n : ~ About(r[i], h)
    BY <1>1, <1>7 DEF ToldInOrder
  <2>2. ~ Says(m, "disconnect", h) /\ ~ Says(m, "work_done", h)
    BY <1>7 DEF Says
  <2>3. \A i, j \in 1..Len(r) : /\ Says(r[i], "connect", h) => h \notin known /\ (j < i => ~ About(r[j], h))
                                /\ Says(r[i], "disconnect", h) /\ i < j => ~ About(r[j], h)
    BY <1>1, <1>2, <1>3, <1>4, <1>5, <2>1, <2>2
  <2>4. \A i \in 1..Len(r) : ~ Says(r[i], "disconnect", h) /\ ~ Says(r[i], "work_done", h)
    BY <1>1, <1>2, <1>4, <1>5, <2>1, <2>2
  <2>5. Says(m, "connect", h) => \E i \in 1..Len(r) : Says(r[i], "connect", h)
    BY <1>1, <1>3
  <2> QED
    BY <2>3, <2>4, <2>5 DEF ToldInOrder
<1>8. ASSUME state = "active", Says(m, "disconnect", h) \/ Says(m, "work_done", h)
      PROVE  /\ Says(m, "disconnect", h) => ToldInOrder(r, "gone", known, h)
             /\ Says(m, "work_done", h) => ToldInOrder(r, "active", known, h)
  <2>1. h \in known \/ \E i \in 1..Len(r) : i < n + 1 /\ Says(r[i], "connect", h)
    <3>1. h \in known \/ \E i \in 1..n : Says(q[i], "connect", h)
      BY <1>8 DEF ToldInOrder
    <3> QED
      BY <1>1, <1>3, <3>1
  <2>2. \A i \in 1..n : ~ Says(r[i], "disconnect", h)
    BY <1>1, <1>8 DEF ToldInOrder
  <2>3. ~ Says(m, "connect", h) /\ ~ (Says(m, "disconnect", h) /\ Says(m, "work_done", h))
    BY <1>8 DEF Says
  <2>4. \A i, j \in 1..Len(r) : /\ Says(r[i], "connect", h) => h \notin known /\ (j < i => ~ About(r[j], h))
                                /\ Says(r[i], "disconnect", h) /\ i < j => ~ About(r[j], h)
    <3> SUFFICES ASSUME NEW i \in 1..Len(r), NEW j \in 1..Len(r)
                 PROVE  /\ Says(r[i], "connect", h) => h \notin known /\ (j < i => ~ About(r[j], h))
                        /\ Says(r[i], "disconnect", h) /\ i < j => ~ About(r[j], h)
      OBVIOUS
    <3>1. ASSUME Says(r[i], "connect", h) PROVE h \notin known /\ (j < i => ~ About(r[j], h))
      <4>1. i \in 1..n
        BY <1>1, <1>2, <2>3, <3>1
      <4>2. j < i => j \in 1..n
        BY <4>1
      <4> QED
        BY <1>1, <3>1, <4>1, <4>2 DEF ToldInOrder
    <3>2. ASSUME Says(r[i], "disconnect", h), i < j PROVE FALSE
      <4>1. i = n + 1
        BY <1>2, <2>2, <3>2
      <4> QED
        BY <1>1, <3>2, <4>1
    <3> QED
      BY <3>1, <3>2
  <2>5. \A i \in 1..Len(r) :
            Says(r[i], "disconnect", h) \/ Says(r[i], "work_done", h) =>
                h \in known \/ \E j \in 1..Len(r) : j < i /\ Says(r[j], "connect", h)
    <3> SUFFICES ASSUME NEW i \in 1..Len(r), Says(r[i], "disconnect", h) \/ Says(r[i], "work_done", h), h \notin known
                 PROVE  \E j \in 1..Len(r) : j < i /\ Says(r[j], "connect", h)
      OBVIOUS
    <3>1. CASE i = n + 1
      BY <2>1, <3>1
    <3>2. CASE i \in 1..n
      <4>1. PICK j \in 1..n : j < i /\ Says(q[j], "connect", h)
        BY <1>1, <3>2 DEF ToldInOrder
      <4> QED
        BY <1>1, <1>3, <4>1
    <3> QED
      BY <1>2, <3>1, <3>2
  <2>6. Says(m, "work_done", h) => \A i \in 1..Len(r) : ~ Says(r[i], "disconnect", h)
    BY <1>1, <1>2, <2>2, <2>3
  <2>7. h \in known \/ \E i \in 1..Len(r) : Says(r[i], "connect", h)
    BY <2>1
  <2> QED
    BY <2>4, <2>5, <2>6, <2>7 DEF ToldInOrder
<1> QED
  BY <1>6, <1>7, <1>8

LEMMA ToldTail ==
    ASSUME NEW T, NEW q \in Seq(T), q # <<>>, NEW state, NEW known, NEW h, ToldInOrder(q, state, known, h)
    PROVE  /\ ~ Says(Head(q), "connect", h) /\ ~ Says(Head(q), "disconnect", h) =>
                  ToldInOrder(Tail(q), state, known, h)
           /\ Says(Head(q), "connect", h) =>
                  \A now : h \in now => ToldInOrder(Tail(q), state, now, h)
           /\ Says(Head(q), "connect", h) => h \notin known
           /\ Says(Head(q), "disconnect", h) \/ Says(Head(q), "work_done", h) => h \in known
           /\ Says(Head(q), "disconnect", h) =>
                  \A now : h \notin now => ToldInOrder(Tail(q), state, now, h)
<1> PICK r : r = Tail(q)
  OBVIOUS
<1> PICK n \in Nat : n = Len(r)
  <2>1. Len(Tail(q)) \in Nat
    BY TailFacts
  <2> QED
    BY <2>1
<1>1. Len(q) = n + 1 /\ Head(q) = q[1] /\ \A i \in 1..n : r[i] = q[i + 1] /\ i + 1 \in 1..Len(q)
  BY TailFacts
<1>2. 1 \in 1..Len(q) /\ \A i \in 1..n : i \in Int /\ ~ (i < i) /\ 1 < i + 1
  BY <1>1
<1>3. \A i \in 1..Len(q) : i = 1 \/ \E j \in 1..n : i = j + 1
  <2> SUFFICES ASSUME NEW i \in 1..Len(q), i # 1 PROVE \E j \in 1..n : i = j + 1
    OBVIOUS
  <2>1. i - 1 \in 1..n /\ i = i - 1 + 1
    BY <1>1
  <2> QED
    BY <2>1
<1>4. \A i, j \in 1..n : i < j <=> i + 1 < j + 1
  OBVIOUS
<1>5. /\ Says(q[1], "disconnect", h) \/ Says(q[1], "work_done", h) => h \in known
      /\ Says(q[1], "connect", h) => h \notin known
  <2>1. \A j \in 1..Len(q) : ~ (j < 1)
    BY <1>1
  <2> QED
    BY <1>2, <2>1 DEF ToldInOrder
<1>6. /\ \A i, j \in 1..n : /\ Says(r[i], "connect", h) => h \notin known /\ (j < i => ~ About(r[j], h)) /\ ~ About(q[1], h)
                            /\ Says(r[i], "disconnect", h) /\ i < j => ~ About(r[j], h)
      /\ \A i \in 1..n : Says(q[1], "disconnect", h) => ~ About(r[i], h)
  BY <1>1, <1>2, <1>4 DEF ToldInOrder
<1>7. \A i \in 1..n : Says(r[i], "disconnect", h) \/ Says(r[i], "work_done", h) =>
          \/ h \in known \/ Says(q[1], "connect", h)
          \/ \E j \in 1..n : j < i /\ Says(r[j], "connect", h)
  <2> SUFFICES ASSUME NEW i \in 1..n, Says(r[i], "disconnect", h) \/ Says(r[i], "work_done", h), h \notin known
               PROVE  Says(q[1], "connect", h) \/ \E j \in 1..n : j < i /\ Says(r[j], "connect", h)
    OBVIOUS
  <2>1. PICK k \in 1..Len(q) : k < i + 1 /\ Says(q[k], "connect", h)
    BY <1>1 DEF ToldInOrder
  <2> QED
    BY <1>1, <1>3, <1>4, <2>1
<1>8. \A k, type : Says(k, type, h) /\ type \in HandleTypes => About(k, h)
  BY DEF Says, About
<1>9. {"connect", "disconnect", "immediate", "work_done"} = HandleTypes
  BY DEF HandleTypes
<1>10. state = "new" => h \notin known /\ ~ About(q[1], h) /\ \A i \in 1..n : ~ About(r[i], h)
  BY <1>1, <1>2 DEF ToldInOrder
<1>11. state = "active" =>
          /\ h \in known \/ Says(q[1], "connect", h) \/ \E i \in 1..n : Says(r[i], "connect", h)
          /\ ~ Says(q[1], "disconnect", h) /\ \A i \in 1..n : ~ Says(r[i], "disconnect", h)
  <2>1. (\E i \in 1..Len(q) : Says(q[i], "connect", h)) => Says(q[1], "connect", h) \/ \E i \in 1..n : Says(r[i], "connect", h)
    BY <1>1, <1>3
  <2> QED
    BY <1>1, <1>2, <2>1 DEF ToldInOrder
<1>12. ~ Says(q[1], "connect", h) /\ ~ Says(q[1], "disconnect", h) => ToldInOrder(r, state, known, h)
  BY <1>6, <1>7, <1>10, <1>11 DEF ToldInOrder
<1>13. ASSUME Says(q[1], "connect", h), NEW now, h \in now PROVE ToldInOrder(r, state, now, h)
  <2>1. \A i \in 1..n : ~ Says(r[i], "connect", h)
    BY <1>6, <1>8, <1>9, <1>13
  <2>2. state # "new"
    BY <1>8, <1>9, <1>10, <1>13
  <2> QED
    BY <1>6, <1>11, <1>13, <2>1, <2>2 DEF ToldInOrder
<1>14. ASSUME Says(q[1], "disconnect", h), NEW now, h \notin now PROVE ToldInOrder(r, state, now, h)
  <2>1. \A i \in 1..n : ~ About(r[i], h)
    BY <1>6, <1>14
  <2>2. state # "active"
    BY <1>11, <1>14
  <2>3. \A i \in 1..n : \A type \in HandleTypes : ~ Says(r[i], type, h)
    BY <1>8, <2>1
  <2> QED
    BY <1>9, <1>14, <2>1, <2>2, <2>3 DEF ToldInOrder
<1> QED
  BY <1>1, <1>5, <1>12, <1>13, <1>14

LEMMA ToldSame ==
    ASSUME NEW q, NEW state, NEW known, NEW now, NEW h, ToldInOrder(q, state, known, h), h \in known <=> h \in now
    PROVE  ToldInOrder(q, state, now, h)
BY DEF ToldInOrder

LEMMA ToldNothing ==
    ASSUME NEW q, NEW known, NEW h, h \notin known, \A i \in 1..Len(q) : ~ About(q[i], h)
    PROVE  ToldInOrder(q, "new", known, h)
<1>1. \A k, type : Says(k, type, h) /\ type \in HandleTypes => About(k, h)
  BY DEF Says, About
<1>2. {"connect", "disconnect", "immediate", "work_done"} = HandleTypes
  BY DEF HandleTypes
<1> QED
  BY <1>1, <1>2 DEF ToldInOrder

-----------------------------------------------------------------------------
(* The steps of the server process.                                        *)

ReconnectMsg == [token |-> 0, type |-> "reconnect"]
LEMMA IoMsgFacts ==
    ASSUME NEW m \in IoMsgs
    PROVE  /\ m.type \in {"shutdown", "reconnect", "remove", "failed"} \cup HandleTypes
           /\ m.type \in {"shutdown", "reconnect", "remove"} => m.token = 0
           /\ m.type = "reconnect" <=> m = ReconnectMsg
           /\ m.type \in {"failed"} \cup HandleTypes => m.token \in 1..S!MaxStarts
           /\ m.type \in HandleTypes => m.h \in S!IoHandles /\ m.h[2] = m.token
BY DEF IoMsgs, HandleTypes, ReconnectMsg

LEMMA IoMsgsExist ==
    ASSUME setup \in Setups
    PROVE  /\ [token |-> 0, type |-> "shutdown"] \in IoMsgs /\ ReconnectMsg \in IoMsgs
           /\ \A h \in S!IoHandles \cup {None} : [token |-> 0, type |-> "remove", h |-> h] \in IoMsgs
           /\ \A t \in 1..S!MaxStarts, graceful \in BOOLEAN :
                 [token |-> t, type |-> "failed", graceful |-> graceful] \in IoMsgs
           /\ \A type \in HandleTypes, id \in S!Ids, t \in 1..S!MaxStarts :
                 <<id, t>> \in S!IoHandles /\ [token |-> t, type |-> type, h |-> <<id, t>>] \in IoMsgs
<1>1. \A id \in S!Ids, t \in 1..S!MaxStarts : <<id, t>> \in S!IoHandles
  BY DEF S!IoHandles
<1>2. ASSUME NEW type \in HandleTypes, NEW id \in S!Ids, NEW t \in 1..S!MaxStarts
      PROVE  [token |-> t, type |-> type, h |-> <<id, t>>] \in IoMsgs
  <2> PICK h \in S!IoHandles : h = <<id, t>> /\ h[2] = t
    BY <1>1
  <2>1. [token |-> t, type |-> type, h |-> h] \in IoMsgs
    BY DEF IoMsgs
  <2> QED
    BY <2>1
<1> QED
  BY <1>1, <1>2 DEF IoMsgs, ReconnectMsg

\* What a thread of the server that runs puts in.
LEMMA SenderFacts ==
    ASSUME IoInv, NEW id \in S!Ids, NEW type \in HandleTypes, conn_server # 0,
           S!Put([token |-> conn_server, type |-> type, h |-> S!Of(id)])
    PROVE  \E m \in IoMsgs :
              /\ ioq' = Append(ioq, m) /\ m.token = conn_server /\ m.token <= starts
              /\ m.type = type /\ m.h = <<id, conn_server>> /\ m # ReconnectMsg
<1>1. conn_server = starts /\ starts \in 1..S!MaxStarts /\ setup \in Setups
  BY DEF IoInv, IoShape
<1>2. [token |-> conn_server, type |-> type, h |-> <<id, conn_server>>] \in IoMsgs
  BY <1>1, IoMsgsExist
<1>3. ioq' = Append(ioq, [token |-> conn_server, type |-> type, h |-> <<id, conn_server>>])
  BY DEF S!Put, S!Of
<1> PICK m \in IoMsgs : m = [token |-> conn_server, type |-> type, h |-> <<id, conn_server>>]
  BY <1>2
<1>4. m.token = conn_server /\ m.token <= starts /\ m.type = type /\ m.h = <<id, conn_server>>
  BY <1>1
<1>5. type # "reconnect"
  BY DEF HandleTypes
<1>6. m # ReconnectMsg
  BY <1>4, <1>5 DEF ReconnectMsg
<1> QED
  BY <1>3, <1>4, <1>6

\* The step of a server's thread, as the rest of the process sees it.
Sends(id, m) ==
    /\ conn_server # 0 /\ m \in IoMsgs /\ ioq' = Append(ioq, m) /\ m.token = conn_server
    /\ m # ReconnectMsg /\ m.h = <<id, conn_server>>
    /\ \/ S!SendConnect(id) /\ m.type = "connect" /\ inner[id] = "new" /\ inner' = [inner EXCEPT ![id] = "active"]
       \/ S!SendDisconnect(id) /\ m.type = "disconnect" /\ inner[id] = "active" /\ inner' = [inner EXCEPT ![id] = "gone"]
       \/ S!SendImmediate(id) /\ m.type = "immediate" /\ inner[id] = "new" /\ inner' = [inner EXCEPT ![id] = "gone"]
       \/ S!SendWorkDone(id) /\ m.type = "work_done" /\ inner[id] = "active" /\ inner' = inner
    /\ UNCHANGED <<conn_server, starts, permuters, slot, slots, status, timer, clicked, loop>>
LEMMA SendsFacts ==
    ASSUME IoInv, NEW id \in S!Ids,
           S!SendConnect(id) \/ S!SendDisconnect(id) \/ S!SendImmediate(id) \/ S!SendWorkDone(id)
    PROVE  \E m \in IoMsgs : Sends(id, m)
<1> USE DEF S!menu, S!conn
<1>0. {"connect", "disconnect", "immediate", "work_done"} = HandleTypes
  BY DEF HandleTypes
<1>1. CASE S!SendConnect(id)
  <2>1. PICK m \in IoMsgs : /\ ioq' = Append(ioq, m) /\ m.token = conn_server
                            /\ m.type = "connect" /\ m.h = <<id, conn_server>> /\ m # ReconnectMsg
    BY <1>0, <1>1, SenderFacts DEF S!SendConnect
  <2>2. Sends(id, m)
    BY <1>1, <2>1 DEF Sends, S!SendConnect
  <2> QED
    BY <2>2
<1>2. CASE S!SendDisconnect(id)
  <2>1. PICK m \in IoMsgs : /\ ioq' = Append(ioq, m) /\ m.token = conn_server
                            /\ m.type = "disconnect" /\ m.h = <<id, conn_server>> /\ m # ReconnectMsg
    BY <1>0, <1>2, SenderFacts DEF S!SendDisconnect
  <2>2. Sends(id, m)
    BY <1>2, <2>1 DEF Sends, S!SendDisconnect
  <2> QED
    BY <2>2
<1>3. CASE S!SendImmediate(id)
  <2>1. PICK m \in IoMsgs : /\ ioq' = Append(ioq, m) /\ m.token = conn_server
                            /\ m.type = "immediate" /\ m.h = <<id, conn_server>> /\ m # ReconnectMsg
    BY <1>0, <1>3, SenderFacts DEF S!SendImmediate
  <2>2. Sends(id, m)
    BY <1>3, <2>1 DEF Sends, S!SendImmediate
  <2> QED
    BY <2>2
<1>4. CASE S!SendWorkDone(id)
  <2>1. PICK m \in IoMsgs : /\ ioq' = Append(ioq, m) /\ m.token = conn_server
                            /\ m.type = "work_done" /\ m.h = <<id, conn_server>> /\ m # ReconnectMsg
    BY <1>0, <1>4, SenderFacts DEF S!SendWorkDone
  <2>2. Sends(id, m)
    BY <1>4, <2>1 DEF Sends, S!SendWorkDone
  <2> QED
    BY <2>2
<1> QED
  BY <1>1, <1>2, <1>3, <1>4

\* The other messages that come.
Posts(m) ==
    /\ m \in IoMsgs /\ m.type \notin HandleTypes /\ m.token <= starts /\ ioq' = Append(ioq, m)
    /\ UNCHANGED <<conn_server, starts, inner, permuters, slot, slots, status, loop>>
    /\ \/ S!TimerFires /\ m = ReconnectMsg /\ timer > 0 /\ timer' = timer - 1 /\ clicked' = clicked
       \/ m # ReconnectMsg /\ timer' = timer /\ clicked' \in {clicked, 0}
LEMMA PostsFacts ==
    ASSUME IoInv, S!SendFailed \/ S!TimerFires \/ S!Quit \/ S!SendRemove
    PROVE  \E m \in IoMsgs : Posts(m)
<1> USE DEF S!menu, S!conn
<1>0. setup \in Setups /\ starts \in 1..S!MaxStarts /\ (conn_server # 0 => conn_server = starts) /\ 0 <= starts
  BY SetupFacts DEF IoInv, IoShape
<1>1. CASE S!SendFailed
  <2>1. PICK graceful \in BOOLEAN : S!Put([token |-> conn_server, type |-> "failed", graceful |-> graceful])
    BY <1>1 DEF S!SendFailed
  <2> PICK m \in IoMsgs : m = [token |-> conn_server, type |-> "failed", graceful |-> graceful]
    BY <1>0, <1>1, IoMsgsExist DEF S!SendFailed
  <2>2. m.type = "failed" /\ m.token = conn_server /\ m # ReconnectMsg /\ m.type \notin HandleTypes
    BY DEF ReconnectMsg, HandleTypes
  <2>3. Posts(m)
    BY <1>0, <1>1, <2>1, <2>2 DEF Posts, S!SendFailed, S!Put
  <2> QED
    BY <2>3
<1>2. CASE S!TimerFires
  <2>1. ReconnectMsg.type \notin HandleTypes /\ ReconnectMsg.token = 0
    BY DEF ReconnectMsg, HandleTypes
  <2>2. ReconnectMsg \in IoMsgs /\ ioq' = Append(ioq, ReconnectMsg)
    BY <1>0, <1>2, IoMsgsExist DEF S!TimerFires, S!Put, ReconnectMsg
  <2>3. Posts(ReconnectMsg)
    BY <1>0, <1>2, <2>1, <2>2 DEF Posts, S!TimerFires
  <2> QED
    BY <2>2, <2>3
<1>3. CASE S!Quit
  <2> PICK m \in IoMsgs : m = [token |-> 0, type |-> "shutdown"]
    BY <1>0, IoMsgsExist
  <2>1. m.type = "shutdown" /\ m.token = 0 /\ m # ReconnectMsg /\ m.type \notin HandleTypes
    BY DEF ReconnectMsg, HandleTypes
  <2>2. Posts(m)
    BY <1>0, <1>3, <2>1 DEF Posts, S!Quit, S!Put
  <2> QED
    BY <2>2
<1>4. CASE S!SendRemove
  <2>1. slots[clicked] \in S!IoHandles \cup {None}
    BY <1>4 DEF IoInv, IoShape, MenuFits, S!SendRemove
  <2> PICK m \in IoMsgs : m = [token |-> 0, type |-> "remove", h |-> slots[clicked]]
    BY <1>0, <2>1, IoMsgsExist
  <2>2. m.type = "remove" /\ m.token = 0 /\ m # ReconnectMsg /\ m.type \notin HandleTypes
    BY DEF ReconnectMsg, HandleTypes
  <2>3. Posts(m)
    BY <1>0, <1>4, <2>2 DEF Posts, S!SendRemove, S!Put
  <2> QED
    BY <2>3
<1> QED
  BY <1>1, <1>2, <1>3, <1>4

\* What the main loop takes.
LEMMA TakeFacts ==
    ASSUME IoInv, NEW type, S!Take(type)
    PROVE  /\ loop = "runs" /\ ioq # <<>> /\ ioq' = Tail(ioq) /\ Head(ioq) \in IoMsgs
           /\ Head(ioq).type = type /\ Head(ioq).token \in {0, conn_server}
           /\ Head(ioq) = ioq[1] /\ 1 \in 1..Len(ioq)
<1>1. /\ loop = "runs" /\ ioq # <<>> /\ ioq' = Tail(ioq) /\ Head(ioq).type = type
      /\ Head(ioq).token \in {0, conn_server}
  BY DEF S!Take, S!Cancelled
<1>2. Head(ioq) \in IoMsgs /\ Head(ioq) = ioq[1] /\ Len(ioq) \in Nat \ {0}
  BY <1>1, TailFacts DEF IoInv, IoShape
<1> QED
  BY <1>1, <1>2

LEMMA HeadIsCurrent ==
    ASSUME IoInv, NEW type \in HandleTypes, S!Take(type)
    PROVE  /\ conn_server # 0 /\ Head(ioq).token = conn_server
           /\ \E id \in S!Ids :
                 /\ Head(ioq).h = <<id, conn_server>> /\ Says(Head(ioq), type, <<id, conn_server>>)
                 /\ ToldInOrder(ioq, inner[id], DOMAIN slot, <<id, conn_server>>)
<1>1. Head(ioq) \in IoMsgs /\ Head(ioq).type = type /\ Head(ioq).token \in {0, conn_server}
  BY TakeFacts
<1>2. Head(ioq).token \in 1..S!MaxStarts /\ Head(ioq).h \in S!IoHandles /\ Head(ioq).h[2] = Head(ioq).token
  BY <1>1, IoMsgFacts
<1>3. conn_server # 0 /\ Head(ioq).token = conn_server
  BY <1>1, <1>2
<1>4. PICK id \in S!Ids : Head(ioq).h = <<id, conn_server>>
  BY <1>2, <1>3 DEF S!IoHandles
<1> QED
  BY <1>1, <1>3, <1>4 DEF Says, IoInv, AllToldInOrder

LEMMA ToldOfHead ==
    ASSUME IoInv, NEW type \in {"connect", "disconnect", "work_done"}, S!Take(type)
    PROVE  /\ Head(ioq).h \in S!IoHandles
           /\ type = "connect" => Head(ioq).h \notin DOMAIN slot
           /\ type # "connect" => Head(ioq).h \in DOMAIN slot
<1>1. type \in HandleTypes
  BY DEF HandleTypes
<1>2. PICK id \in S!Ids : /\ Head(ioq).h = <<id, conn_server>> /\ Says(Head(ioq), type, <<id, conn_server>>)
                          /\ ToldInOrder(ioq, inner[id], DOMAIN slot, <<id, conn_server>>)
  BY <1>1, HeadIsCurrent
<1> PICK h : h = <<id, conn_server>>
  OBVIOUS
<1>3. ioq \in Seq(IoMsgs) /\ ioq # <<>>
  BY TakeFacts DEF IoInv, IoShape
<1>4. /\ Says(Head(ioq), "connect", h) => h \notin DOMAIN slot
      /\ Says(Head(ioq), "disconnect", h) \/ Says(Head(ioq), "work_done", h) => h \in DOMAIN slot
  BY <1>2, <1>3, ToldTail
<1>5. Head(ioq).h \in S!IoHandles
  BY <1>1, IoMsgFacts, TakeFacts
<1> QED
  BY <1>2, <1>4, <1>5

Emptied == permuters' = <<>> /\ slot' = [h \in {} |-> 0] /\ slots' = [i \in 1..S!Slots |-> None]
LEMMA MenuMoves ==
    ASSUME IoInv, S!Next
    PROVE  \/ UNCHANGED <<permuters, slot, slots>>
           \/ Emptied /\ (S!TakeFailed \/ (S!TakeReconnect /\ UNCHANGED <<conn_server, starts, inner>>))
           \/ S!TakeConnect /\ S!Connect(Head(ioq).h)
           \/ S!TakeDisconnect /\ S!Disconnect(Head(ioq).h)
<1>1. ASSUME NEW id \in S!Ids,
             S!SendConnect(id) \/ S!SendDisconnect(id) \/ S!SendImmediate(id) \/ S!SendWorkDone(id)
      PROVE  UNCHANGED <<permuters, slot, slots>>
  BY <1>1, SendsFacts DEF Sends
<1>2. S!SendFailed \/ S!TimerFires \/ S!Quit \/ S!SendRemove => UNCHANGED <<permuters, slot, slots>>
  BY PostsFacts DEF Posts
<1>3. ASSUME S!Skip \/ S!TakeShutdown \/ S!TakeImmediate \/ S!TakeWorkDone \/ S!TakeRemove
      PROVE  UNCHANGED <<permuters, slot, slots>>
  BY <1>3 DEF S!Skip, S!TakeShutdown, S!TakeImmediate, S!TakeWorkDone, S!TakeRemove, S!menu
<1>4. S!TakeFailed => Emptied
  BY DEF S!TakeFailed, S!Failed, Emptied
<1>5. S!TakeReconnect => UNCHANGED <<permuters, slot, slots>> \/ (Emptied /\ UNCHANGED <<conn_server, starts, inner>>)
  BY DEF S!TakeReconnect, S!Failed, S!conn, Emptied
<1>6. S!TakeConnect => S!Connect(Head(ioq).h)
  BY DEF S!TakeConnect
<1>7. S!TakeDisconnect => S!Disconnect(Head(ioq).h) \/ UNCHANGED <<permuters, slot, slots>>
  BY DEF S!TakeDisconnect
<1>8. ASSUME NEW i \in 1..S!Slots, S!ClickStop(i) PROVE UNCHANGED <<permuters, slot, slots>>
  BY <1>8 DEF S!ClickStop, S!menu
<1> QED
  BY <1>1, <1>2, <1>3, <1>4, <1>5, <1>6, <1>7, <1>8 DEF S!Next, S!MainLoop

LEMMA MenuIsKept ==
    ASSUME IoInv, S!Next
    PROVE  /\ MenuFits(permuters', slot', slots') /\ NoneWaits(slot', slots')
           /\ S!TakeConnect => DOMAIN slot' = DOMAIN slot \cup {Head(ioq).h}
           /\ S!TakeDisconnect => DOMAIN slot' = DOMAIN slot \ {Head(ioq).h}
           /\ \/ DOMAIN slot' = DOMAIN slot \/ S!TakeConnect \/ S!TakeDisconnect
              \/ DOMAIN slot' = {} /\ (S!TakeFailed \/ (S!TakeReconnect /\ UNCHANGED <<conn_server, starts, inner>>))
<1> USE DEF IoInv
<1>1. ASSUME S!TakeConnect
      PROVE  /\ MenuFits(permuters', slot', slots') /\ NoneWaits(slot', slots')
             /\ DOMAIN slot' = DOMAIN slot \cup {Head(ioq).h}
  <2>1. S!Take("connect") /\ S!Connect(Head(ioq).h)
    BY <1>1 DEF S!TakeConnect
  <2> PICK h \in S!IoHandles : h = Head(ioq).h /\ h \notin DOMAIN slot
    BY <2>1, ToldOfHead
  <2> QED
    BY <2>1, ConnectFits
<1>2. ASSUME S!TakeDisconnect
      PROVE  /\ MenuFits(permuters', slot', slots') /\ NoneWaits(slot', slots')
             /\ DOMAIN slot' = DOMAIN slot \ {Head(ioq).h}
  <2>1. S!Take("disconnect")
    BY <1>2 DEF S!TakeDisconnect
  <2> PICK h \in DOMAIN slot : h = Head(ioq).h
    BY <2>1, ToldOfHead
  <2>2. S!Disconnect(h)
    BY <1>2 DEF S!TakeDisconnect, S!Known
  <2> QED
    BY <2>2, DisconnectFits
<1>3. ASSUME Emptied PROVE MenuFits(permuters', slot', slots') /\ NoneWaits(slot', slots') /\ DOMAIN slot' = {}
  <2>1. Len(<<>>) = 0 /\ 1..0 = {} /\ <<>> \in Seq(S!IoHandles)
    OBVIOUS
  <2>2. permuters' = <<>> /\ DOMAIN slot' = {} /\ slot' = [h \in {} |-> 0] /\ slots' = [i \in 1..S!Slots |-> None]
    BY <1>3 DEF Emptied
  <2>3. {permuters'[i] : i \in 1..Len(permuters')} = {}
    BY <2>1, <2>2
  <2>4. slot' \in [{} -> 0..S!Slots] /\ slots' \in [1..S!Slots -> S!IoHandles \cup {None}]
    BY <2>2
  <2> QED
    BY <2>1, <2>2, <2>3, <2>4 DEF MenuFits, NoneWaits
<1>4. CASE UNCHANGED <<permuters, slot, slots>>
  <2>1. MenuFits(permuters', slot', slots') /\ NoneWaits(slot', slots') /\ DOMAIN slot' = DOMAIN slot
    BY <1>4
  <2> QED
    BY <1>1, <1>2, <2>1
<1> QED
  BY <1>1, <1>2, <1>3, <1>4, MenuMoves

LEMMA ReconnectingAs == IoShape => S!Reconnecting = timer + HowMany(ioq, {ReconnectMsg})
<1> SUFFICES ASSUME IoShape PROVE S!Reconnecting = timer + HowMany(ioq, {ReconnectMsg})
  OBVIOUS
<1>1. \A i \in 1..Len(ioq) : ioq[i] \in IoMsgs
  BY DEF IoShape
<1>2. \A i \in 1..Len(ioq) : ioq[i].type = "reconnect" <=> ioq[i] \in {ReconnectMsg}
  BY <1>1, IoMsgFacts
<1>3. {i \in 1..Len(ioq) : ioq[i].type = "reconnect"} = PlacesOf(ioq, {ReconnectMsg})
  BY <1>2 DEF PlacesOf
<1>4. \A A : S!Cardinality(A) = Cardinality(A)
  BY DEF S!Cardinality, Cardinality
<1> QED
  BY <1>3, <1>4 DEF S!Reconnecting, HowMany

LEMMA ReconnectingAfter == IoShape' => (S!Reconnecting = timer + HowMany(ioq, {ReconnectMsg}))'
BY ReconnectingAs, PTL

\* A message to reconnect is the only attempt under way, and nothing runs.
LEMMA ReconnectsAlone ==
    ASSUME IoInv
    PROVE  /\ HowMany(ioq, {ReconnectMsg}) \in Nat /\ timer \in Nat
           /\ timer + HowMany(ioq, {ReconnectMsg}) <= 1
           /\ conn_server # 0 => timer + HowMany(ioq, {ReconnectMsg}) = 0
           /\ S!Take("reconnect") => conn_server = 0 /\ HowMany(ioq, {ReconnectMsg}) = 1 /\ timer = 0
<1>1. ioq \in Seq(IoMsgs) /\ timer \in Nat
  BY DEF IoInv, IoShape
<1>2. HowMany(ioq, {ReconnectMsg}) \in Nat
  BY <1>1, PlacesFinite
<1>3. /\ timer + HowMany(ioq, {ReconnectMsg}) <= 1
      /\ conn_server # 0 => timer + HowMany(ioq, {ReconnectMsg}) = 0
  BY ReconnectingAs DEF IoInv, S!OneAtATime
<1>4. ASSUME S!Take("reconnect") PROVE HowMany(ioq, {ReconnectMsg}) # 0
  <2>1. ioq[1] = ReconnectMsg /\ 1 \in 1..Len(ioq)
    BY <1>4, TakeFacts, IoMsgFacts
  <2> QED
    BY <1>1, <2>1, HowManyNone
<1> QED
  BY <1>1, <1>2, <1>3, <1>4

\* Every step: what becomes of the queue.
LEMMA IoMoves ==
    ASSUME IoInv, S!Next
    PROVE  \/ \E id \in S!Ids : \E m \in IoMsgs : Sends(id, m)
           \/ \E m \in IoMsgs : Posts(m)
           \/ (\E i \in 1..S!Slots : S!ClickStop(i)) /\ ioq' = ioq
           \/ S!MainLoop /\ ioq # <<>> /\ ioq' = Tail(ioq)
<1>1. S!MainLoop => ioq # <<>> /\ ioq' = Tail(ioq)
  BY DEF S!MainLoop, S!Skip, S!TakeShutdown, S!TakeFailed, S!TakeReconnect, S!TakeConnect, S!TakeDisconnect,
         S!TakeImmediate, S!TakeWorkDone, S!TakeRemove, S!Take
<1>2. \A i \in 1..S!Slots : S!ClickStop(i) => ioq' = ioq
  BY DEF S!ClickStop
<1> QED
  BY <1>1, <1>2, SendsFacts, PostsFacts DEF S!Next

LEMMA IoShapeKept ==
    ASSUME IoInv, S!Next, setup' = setup
    PROVE  IoShape'
<1>0. /\ setup \in Setups /\ starts \in 1..S!MaxStarts /\ conn_server \in {0, starts}
      /\ ioq \in Seq(IoMsgs) /\ \A i \in 1..Len(ioq) : ioq[i].token <= starts
      /\ inner \in [S!Ids -> {"new", "active", "gone"}]
      /\ status \in {"connected", "connecting", "reconnecting", "failed"}
      /\ timer \in Nat /\ clicked \in 0..S!Slots /\ loop \in {"runs", "ended", "SystemExit", "TypeError"}
  BY DEF IoInv, IoShape
<1>1. S!Slots \in Nat /\ S!MaxStarts \in Nat
  BY <1>0, SetupFacts
<1> DEFINE Control ==
          /\ starts' \in 1..S!MaxStarts /\ conn_server' \in {0, starts'} /\ starts <= starts'
          /\ inner' \in [S!Ids -> {"new", "active", "gone"}]
          /\ status' \in {"connected", "connecting", "reconnecting", "failed"}
          /\ timer' \in Nat /\ clicked' \in 0..S!Slots /\ loop' \in {"runs", "ended", "SystemExit", "TypeError"}
<1>2. ASSUME NEW id \in S!Ids, NEW m \in IoMsgs, Sends(id, m) PROVE Control
  BY <1>0, <1>1, <1>2 DEF Sends
<1>3. ASSUME NEW m \in IoMsgs, Posts(m) PROVE Control
  BY <1>0, <1>1, <1>3 DEF Posts
<1>4. ASSUME NEW i \in 1..S!Slots, S!ClickStop(i) PROVE Control
  BY <1>0, <1>1, <1>4 DEF S!ClickStop, S!menu, S!conn
<1>5. ASSUME S!Skip \/ S!TakeImmediate PROVE Control
  BY <1>0, <1>1, <1>5 DEF S!Skip, S!TakeImmediate, S!menu, S!conn
<1>6. ASSUME S!TakeShutdown \/ S!TakeFailed PROVE Control
  BY <1>0, <1>1, <1>6 DEF S!TakeShutdown, S!TakeFailed, S!StopServer, S!Failed, S!Reconnect, S!menu
<1>7. ASSUME S!TakeReconnect PROVE Control
  <2>1. clicked' = clicked /\ loop' \in {loop, "SystemExit"}
    BY <1>7 DEF S!TakeReconnect
  <2>2. CASE /\ starts < S!MaxStarts /\ conn_server' = starts + 1 /\ starts' = starts + 1
             /\ inner' = S!Fresh /\ status' = "connected" /\ timer' = timer
    <3>1. starts' \in 1..S!MaxStarts /\ starts <= starts'
      BY <1>0, <1>1, <2>2
    <3>2. inner' \in [S!Ids -> {"new", "active", "gone"}]
      BY <2>2 DEF S!Fresh
    <3> QED
      BY <1>0, <2>1, <2>2, <3>1, <3>2
  <2>3. CASE UNCHANGED <<conn_server, starts, inner>> /\ status' \in {"connecting", "reconnecting", "failed"} /\ timer' \in {timer, timer + 1}
    BY <1>0, <1>1, <2>1, <2>3
  <2> QED
    BY <1>7, <2>2, <2>3 DEF S!TakeReconnect, S!Failed, S!Reconnect, S!conn
<1>8. ASSUME S!TakeConnect \/ S!TakeRemove PROVE Control
  BY <1>0, <1>1, <1>8 DEF S!TakeConnect, S!TakeRemove, S!menu, S!conn
<1>9. ASSUME S!TakeDisconnect PROVE Control
  <2>1. S!Known(Head(ioq).h)
    BY <1>9, ToldOfHead DEF S!TakeDisconnect, S!Known
  <2> QED
    BY <1>0, <1>1, <1>9, <2>1 DEF S!TakeDisconnect, S!conn
<1>10. ASSUME S!TakeWorkDone PROVE Control
  <2>1. S!Known(Head(ioq).h)
    BY <1>10, ToldOfHead DEF S!TakeWorkDone, S!Known
  <2> QED
    BY <1>0, <1>1, <1>10, <2>1 DEF S!TakeWorkDone, S!menu, S!conn
<1> HIDE DEF Control
<1>11. Control
  BY <1>2, <1>3, <1>4, <1>5, <1>6, <1>7, <1>8, <1>9, <1>10, IoMoves DEF S!MainLoop
<1>12. ioq' \in Seq(IoMsgs) /\ \A i \in 1..Len(ioq') : ioq'[i].token <= starts
  <2>1. ASSUME NEW m \in IoMsgs, ioq' = Append(ioq, m), m.token <= starts
        PROVE  ioq' \in Seq(IoMsgs) /\ \A i \in 1..Len(ioq') : ioq'[i].token <= starts
    <3>1. /\ ioq' \in Seq(IoMsgs) /\ Len(ioq) \in Nat /\ Len(ioq') = Len(ioq) + 1 /\ ioq'[Len(ioq) + 1] = m
          /\ \A i \in 1..Len(ioq) : ioq'[i] = ioq[i]
      BY <1>0, <2>1, AppendFacts
    <3>2. \A i \in 1..Len(ioq') : i \in 1..Len(ioq) \/ i = Len(ioq) + 1
      BY <3>1
    <3> QED
      BY <1>0, <2>1, <3>1, <3>2
  <2>2. CASE ioq # <<>> /\ ioq' = Tail(ioq)
    BY <1>0, <2>2, TailFacts
  <2>3. CASE ioq' = ioq
    BY <1>0, <2>3
  <2>4. ASSUME NEW id \in S!Ids, NEW m \in IoMsgs, Sends(id, m)
        PROVE  ioq' = Append(ioq, m) /\ m.token <= starts
    BY <1>0, <1>1, <2>4 DEF Sends
  <2>5. ASSUME NEW m \in IoMsgs, Posts(m) PROVE ioq' = Append(ioq, m) /\ m.token <= starts
    BY <2>5 DEF Posts
  <2> QED
    BY <2>1, <2>2, <2>3, <2>4, <2>5, IoMoves
<1>13. \A i \in 1..Len(ioq') : ioq'[i].token <= starts'
  <2>1. \A i \in 1..Len(ioq') : ioq'[i].token \in Int
    <3>1. \A i \in 1..Len(ioq') : ioq'[i] \in IoMsgs
      BY <1>12
    <3>2. \A m \in IoMsgs : m.token \in Int
      BY DEF IoMsgs
    <3> QED
      BY <3>1, <3>2
  <2>2. starts \in Int /\ starts' \in Int /\ starts <= starts'
    BY <1>0, <1>1, <1>11 DEF Control
  <2> QED
    BY <1>12, <2>1, <2>2
<1>14. IoMsgs' = IoMsgs /\ S!Ids' = S!Ids /\ S!Slots' = S!Slots /\ S!MaxStarts' = S!MaxStarts
  BY DEF IoMsgs, S!IoHandles, S!Ids, S!Slots, S!MaxStarts
<1> QED
  BY <1>0, <1>11, <1>12, <1>13, <1>14 DEF IoShape, Control

\* Whatever happens, what is unread of the running server's permuters comes in order.
LEMMA ToldKept ==
    ASSUME IoInv, S!Next, conn_server' # 0, NEW id \in S!Ids, NEW h, h = <<id, conn_server'>>
    PROVE  ToldInOrder(ioq', inner'[id], DOMAIN slot', h)
<1> DEFINE Goal == ToldInOrder(ioq', inner'[id], DOMAIN slot', h)
<1>0. /\ ioq \in Seq(IoMsgs) /\ \A i \in 1..Len(ioq) : ioq[i] \in IoMsgs /\ ioq[i].token <= starts
      /\ inner \in [S!Ids -> {"new", "active", "gone"}] /\ starts \in Nat
  BY SetupFacts DEF IoInv, IoShape
<1>1. ASSUME conn_server' = conn_server PROVE ToldInOrder(ioq, inner[id], DOMAIN slot, h)
  BY <1>1 DEF IoInv, AllToldInOrder
<1>2. ASSUME NEW k \in S!Ids, NEW m \in IoMsgs, Sends(k, m) PROVE Goal
  <2>1. /\ ioq' = Append(ioq, m) /\ m.h = <<k, conn_server>> /\ conn_server' = conn_server /\ slot' = slot
    BY <1>2 DEF Sends
  <2>2. ToldInOrder(ioq, inner[id], DOMAIN slot, h)
    BY <1>1, <2>1
  <2>3. CASE k # id
    <3>1. ~ About(m, h) /\ inner'[id] = inner[id]
      BY <1>0, <1>2, <2>1, <2>3 DEF About, Sends
    <3> QED
      BY <1>0, <2>1, <2>2, <3>1, ToldAppend
  <2>4. CASE k = id
    <3>1. m.h = h
      BY <2>1, <2>4
    <3>2. \/ Says(m, "connect", h) /\ inner[id] = "new" /\ inner'[id] = "active"
          \/ Says(m, "disconnect", h) /\ inner[id] = "active" /\ inner'[id] = "gone"
          \/ Says(m, "immediate", h) /\ inner[id] = "new" /\ inner'[id] = "gone"
          \/ Says(m, "work_done", h) /\ inner[id] = "active" /\ inner'[id] = "active"
      BY <1>0, <1>2, <2>4, <3>1 DEF Says, Sends
    <3> QED
      BY <1>0, <2>1, <2>2, <3>2, ToldAppend
  <2> QED
    BY <2>3, <2>4
<1>3. ASSUME NEW m \in IoMsgs, Posts(m) PROVE Goal
  <2>1. ioq' = Append(ioq, m) /\ conn_server' = conn_server /\ slot' = slot /\ inner' = inner /\ ~ About(m, h)
    BY <1>3 DEF Posts, About
  <2> QED
    BY <1>0, <1>1, <2>1, ToldAppend
<1>4. ASSUME NEW i \in 1..S!Slots, S!ClickStop(i) PROVE Goal
  BY <1>1, <1>4 DEF S!ClickStop, S!menu, S!conn
<1>5. ASSUME S!Skip PROVE Goal
  <2>1. ioq # <<>> /\ ioq' = Tail(ioq) /\ conn_server' = conn_server /\ slot' = slot /\ inner' = inner
    BY <1>5 DEF S!Skip, S!conn, S!menu
  <2>2. Head(ioq) \in IoMsgs /\ Head(ioq).token # conn_server
    BY <1>0, <1>5 DEF S!Skip, S!Cancelled
  <2>3. ~ About(Head(ioq), h)
    BY <2>1, <2>2, IoMsgFacts DEF About
  <2>4. ~ Says(Head(ioq), "connect", h) /\ ~ Says(Head(ioq), "disconnect", h)
    BY <2>3 DEF About, Says, HandleTypes
  <2> QED
    BY <1>0, <1>1, <2>1, <2>4, ToldTail
<1>6. ~ S!TakeShutdown /\ ~ S!TakeFailed
  BY DEF S!TakeShutdown, S!TakeFailed, S!StopServer
<1>7. ASSUME S!TakeReconnect PROVE Goal
  <2>1. S!Take("reconnect")
    BY <1>7 DEF S!TakeReconnect
  <2>2. conn_server = 0 /\ loop = "runs" /\ ioq # <<>> /\ ioq' = Tail(ioq)
    BY <2>1, ReconnectsAlone, TakeFacts
  <2>3. conn_server' = starts + 1 /\ inner' = S!Fresh /\ slot' = slot
    BY <1>7, <2>2 DEF S!TakeReconnect, S!conn
  <2>4. DOMAIN slot = {}
    BY <2>2 DEF IoInv, S!ShownIsCurrent, S!Current
  <2>5. \A i \in 1..Len(ioq) : ~ About(ioq[i], h)
    <3> SUFFICES ASSUME NEW i \in 1..Len(ioq), About(ioq[i], h) PROVE FALSE
      OBVIOUS
    <3>1. ioq[i].token = starts + 1
      BY <1>0, <2>3, IoMsgFacts DEF About
    <3> QED
      BY <1>0, <3>1
  <2>6. \A i \in 1..Len(ioq') : ~ About(ioq'[i], h)
    BY <1>0, <2>2, <2>5, TailFacts, SMTT(60)
  <2>7. inner'[id] = "new"
    BY <2>3 DEF S!Fresh
  <2> QED
    BY <2>3, <2>4, <2>6, <2>7, ToldNothing
<1>8. ASSUME NEW type \in {"connect", "disconnect"}, S!Take(type), UNCHANGED <<conn_server, inner>>,
             type = "connect" => DOMAIN slot' = DOMAIN slot \cup {Head(ioq).h},
             type = "disconnect" => DOMAIN slot' = DOMAIN slot \ {Head(ioq).h}
      PROVE  Goal
  <2>1. ioq # <<>> /\ ioq' = Tail(ioq) /\ Head(ioq).type = type
    BY <1>8, TakeFacts
  <2>2. ToldInOrder(ioq, inner[id], DOMAIN slot, h)
    BY <1>1, <1>8
  <2> PICK known : known = DOMAIN slot'
    OBVIOUS
  <2>3. CASE Head(ioq).h = h
    <3>1. Says(Head(ioq), type, h)
      BY <2>1, <2>3 DEF Says
    <3>2. type = "connect" => h \in known
      BY <1>8, <2>3
    <3>3. type = "disconnect" => h \notin known
      BY <1>8, <2>3
    <3>4. ToldInOrder(Tail(ioq), inner[id], known, h)
      BY <1>0, <2>1, <2>2, <3>1, <3>2, <3>3, ToldTail
    <3> QED
      BY <1>8, <2>1, <3>4
  <2>4. CASE Head(ioq).h # h
    <3>1. ~ Says(Head(ioq), "connect", h) /\ ~ Says(Head(ioq), "disconnect", h)
      BY <2>4 DEF Says
    <3>2. ToldInOrder(Tail(ioq), inner[id], DOMAIN slot, h)
      BY <1>0, <2>1, <2>2, <3>1, ToldTail
    <3>3. h \in DOMAIN slot <=> h \in known
      BY <1>8, <2>4
    <3>4. ToldInOrder(Tail(ioq), inner[id], known, h)
      BY <3>2, <3>3, ToldSame
    <3> QED
      BY <1>8, <2>1, <3>4
  <2> QED
    BY <2>3, <2>4
<1>9. S!TakeConnect \/ S!TakeDisconnect => Goal
  BY <1>8, MenuIsKept DEF S!TakeConnect, S!TakeDisconnect, S!conn
<1>10. ASSUME NEW type \in {"immediate", "work_done", "remove"}, S!Take(type), UNCHANGED <<conn_server, inner, slot>>
       PROVE  Goal
  <2>1. ioq # <<>> /\ ioq' = Tail(ioq) /\ Head(ioq).type = type
    BY <1>10, TakeFacts
  <2>2. ~ Says(Head(ioq), "connect", h) /\ ~ Says(Head(ioq), "disconnect", h)
    BY <1>10, <2>1 DEF Says
  <2> QED
    BY <1>0, <1>1, <1>10, <2>1, <2>2, ToldTail
<1>11. S!TakeImmediate \/ S!TakeWorkDone \/ S!TakeRemove => Goal
  BY <1>10 DEF S!TakeImmediate, S!TakeWorkDone, S!TakeRemove, S!conn, S!menu
<1> HIDE DEF Goal
<1>12. Goal
  BY <1>2, <1>3, <1>4, <1>5, <1>6, <1>7, <1>9, <1>11, SendsFacts, PostsFacts DEF S!Next, S!MainLoop
<1> QED
  BY <1>12 DEF Goal

\* The menu stays that of the running server.
LEMMA ShownKept ==
    ASSUME IoInv, S!Next, loop' = "runs", NEW h \in DOMAIN slot'
    PROVE  conn_server' # 0 /\ h[2] = conn_server'
<1>1. ASSUME loop = "runs", NEW k \in DOMAIN slot PROVE conn_server # 0 /\ k[2] = conn_server
  BY <1>1 DEF IoInv, S!ShownIsCurrent, S!Current
<1>2. CASE S!TakeConnect \/ S!TakeDisconnect
  <2>1. loop = "runs" /\ conn_server' = conn_server
    BY <1>2 DEF S!TakeConnect, S!TakeDisconnect, S!Take, S!conn
  <2>2. CASE h \in DOMAIN slot
    BY <1>1, <2>1, <2>2
  <2>3. CASE h \notin DOMAIN slot
    <3>1. S!TakeConnect /\ h = Head(ioq).h
      BY <1>2, <2>3, MenuIsKept
    <3>2. S!Take("connect") /\ "connect" \in HandleTypes
      BY <3>1 DEF S!TakeConnect, HandleTypes
    <3>3. PICK id \in S!Ids : conn_server # 0 /\ Head(ioq).h = <<id, conn_server>>
      BY <3>2, HeadIsCurrent
    <3> QED
      BY <2>1, <3>1, <3>3
  <2> QED
    BY <2>2, <2>3
<1>3. CASE S!TakeReconnect /\ DOMAIN slot' = DOMAIN slot
  <2>1. S!Take("reconnect")
    BY <1>3 DEF S!TakeReconnect
  <2>2. conn_server = 0 /\ loop = "runs"
    BY <2>1, ReconnectsAlone, TakeFacts
  <2> QED
    BY <1>1, <1>3, <2>2
<1>4. ~ S!TakeShutdown
  BY DEF S!TakeShutdown
<1>5. S!TakeFailed => DOMAIN slot' = {}
  BY DEF S!TakeFailed, S!Failed
<1>6. ASSUME NEW i \in 1..S!Slots, S!ClickStop(i) PROVE UNCHANGED <<conn_server, loop>>
  BY <1>6 DEF S!ClickStop, S!conn
<1>7. ASSUME S!Skip \/ S!TakeImmediate \/ S!TakeWorkDone \/ S!TakeRemove PROVE conn_server' = conn_server /\ loop = "runs"
  BY <1>7 DEF S!Skip, S!TakeImmediate, S!TakeWorkDone, S!TakeRemove, S!conn, S!Take
<1>8. ASSUME NEW id \in S!Ids, NEW m \in IoMsgs, Sends(id, m) PROVE UNCHANGED <<conn_server, loop>>
  BY <1>8 DEF Sends
<1>9. ASSUME NEW m \in IoMsgs, Posts(m) PROVE UNCHANGED <<conn_server, loop>>
  BY <1>9 DEF Posts
<1>10. \/ conn_server' = conn_server /\ loop = "runs"
       \/ S!TakeConnect \/ S!TakeDisconnect \/ S!TakeReconnect \/ S!TakeFailed
  BY <1>4, <1>6, <1>7, <1>8, <1>9, IoMoves DEF S!MainLoop
<1>11. CASE DOMAIN slot' = DOMAIN slot
  BY <1>1, <1>2, <1>3, <1>5, <1>10, <1>11
<1> QED
  BY <1>2, <1>11, MenuIsKept

\* One attempt to reconnect, and none beside a server.
LEMMA OneAtATimeKept ==
    ASSUME IoInv, S!Next, IoShape'
    PROVE  /\ timer' + HowMany(ioq', {ReconnectMsg}) <= 1
           /\ conn_server' # 0 => timer' + HowMany(ioq', {ReconnectMsg}) = 0
<1> DEFINE Count(q) == HowMany(q, {ReconnectMsg})
           Goal == timer' + Count(ioq') <= 1 /\ (conn_server' # 0 => timer' + Count(ioq') = 0)
<1>0. ioq \in Seq(IoMsgs) /\ ioq' \in Seq(IoMsgs')
  BY DEF IoInv, IoShape
<1>1. /\ Count(ioq) \in Nat /\ timer \in Nat /\ timer + Count(ioq) <= 1
      /\ conn_server # 0 => timer + Count(ioq) = 0
  BY ReconnectsAlone
<1>2. timer' \in Nat
  BY DEF IoShape
<1>3. ASSUME NEW m \in IoMsgs, ioq' = Append(ioq, m), m # ReconnectMsg PROVE Count(ioq') = Count(ioq)
  <2>1. Count(Append(ioq, m)) = Count(ioq) + 0
    BY <1>0, <1>3, HowManyAppend
  <2> QED
    BY <1>1, <1>3, <2>1
<1>4. ASSUME NEW id \in S!Ids, NEW m \in IoMsgs, Sends(id, m) PROVE Goal
  <2>1. ioq' = Append(ioq, m) /\ m # ReconnectMsg /\ timer' = timer /\ conn_server' = conn_server
    BY <1>4 DEF Sends
  <2>2. Count(ioq') = Count(ioq)
    BY <1>3, <2>1
  <2> HIDE DEF Count
  <2> QED
    BY <1>1, <2>1, <2>2
<1>5. ASSUME NEW m \in IoMsgs, Posts(m) PROVE Goal
  <2>1. CASE m # ReconnectMsg
    <3>1. Count(ioq') = Count(ioq) /\ timer' = timer /\ conn_server' = conn_server
      BY <1>3, <1>5, <2>1 DEF Posts
    <3> HIDE DEF Count
    <3> QED
      BY <1>1, <3>1
  <2>2. CASE m = ReconnectMsg
    <3>1. ioq' = Append(ioq, m) /\ timer > 0 /\ timer' = timer - 1 /\ conn_server' = conn_server
      BY <1>5, <2>2 DEF Posts
    <3>2. Count(Append(ioq, m)) = Count(ioq) + 1
      BY <1>0, <2>2, HowManyAppend
    <3>3. Count(ioq') = Count(ioq) + 1
      BY <3>1, <3>2
    <3> HIDE DEF Count
    <3> QED
      BY <1>1, <3>1, <3>3
  <2> QED
    BY <2>1, <2>2
<1>6. ASSUME NEW i \in 1..S!Slots, S!ClickStop(i) PROVE Goal
  <2>1. ioq' = ioq /\ timer' = timer /\ conn_server' = conn_server
    BY <1>6 DEF S!ClickStop, S!conn
  <2> QED
    BY <1>1, <2>1
<1>7. ASSUME ioq # <<>>, ioq' = Tail(ioq)
      PROVE  /\ Count(ioq') \in Nat /\ Count(ioq') <= Count(ioq)
             /\ Head(ioq) = ReconnectMsg => Count(ioq') = Count(ioq) - 1
  <2>1. Count(Tail(ioq)) = Count(ioq) - (IF Head(ioq) \in {ReconnectMsg} THEN 1 ELSE 0)
    BY <1>0, <1>7, HowManyTail
  <2>2. Count(ioq') \in Nat
    <3>1. Tail(ioq) \in Seq(IoMsgs)
      BY <1>0, <1>7, TailFacts
    <3> QED
      BY <1>7, <3>1, PlacesFinite
  <2> QED
    BY <1>1, <1>7, <2>1, <2>2
<1>8. ASSUME S!TakeReconnect PROVE Goal
  <2>1. S!Take("reconnect")
    BY <1>8 DEF S!TakeReconnect
  <2>2. /\ conn_server = 0 /\ Count(ioq) = 1 /\ timer = 0
        /\ ioq # <<>> /\ ioq' = Tail(ioq) /\ Head(ioq) = ReconnectMsg
    BY <2>1, ReconnectsAlone, TakeFacts, IoMsgFacts
  <2>3. Count(ioq') = 0
    <3>1. Count(ioq') = Count(ioq) - 1
      BY <1>7, <2>2
    <3> QED
      BY <2>2, <3>1
  <2>4. timer' = 0 \/ (timer' = 1 /\ conn_server' = 0)
    <3>1. timer = 0 /\ conn_server = 0 /\ 0 + 1 = 1
      BY <2>2
    <3>2. timer' = timer \/ (timer' = timer + 1 /\ conn_server' = conn_server)
      BY <1>8 DEF S!TakeReconnect, S!Reconnect, S!conn
    <3>3. timer' = 0 \/ (timer' = 0 + 1 /\ conn_server' = 0)
      BY <3>1, <3>2
    <3> QED
      BY <3>1, <3>3
  <2> HIDE DEF Count
  <2> QED
    BY <2>3, <2>4
<1>9. ASSUME S!TakeFailed PROVE Goal
  <2>1. S!Take("failed") /\ conn_server' = 0 /\ timer' \in {timer, timer + 1}
    BY <1>9 DEF S!TakeFailed, S!StopServer, S!Reconnect
  <2>2. Head(ioq).token \in 1..S!MaxStarts /\ Head(ioq).token \in {0, conn_server} /\ ioq # <<>> /\ ioq' = Tail(ioq)
    BY <2>1, TakeFacts, IoMsgFacts
  <2>3. conn_server # 0
    BY <2>2
  <2>4. timer = 0 /\ Count(ioq') = 0
    <3>1. Count(ioq') \in Nat /\ Count(ioq') <= Count(ioq)
      BY <1>7, <2>2
    <3> HIDE DEF Count
    <3> QED
      BY <1>1, <2>3, <3>1
  <2> HIDE DEF Count
  <2>5. timer' = 0 \/ timer' = 1
    BY <2>1, <2>4
  <2>6. timer' + Count(ioq') <= 1
    BY <2>4, <2>5
  <2>7. conn_server' = 0
    BY <2>1
  <2> QED
    BY <2>6, <2>7
<1>10. ASSUME ioq # <<>>, ioq' = Tail(ioq), timer' = timer, conn_server' \in {0, conn_server} PROVE Goal
  <2>1. Count(ioq') \in Nat /\ Count(ioq') <= Count(ioq)
    BY <1>7, <1>10
  <2> HIDE DEF Count
  <2> QED
    BY <1>1, <1>10, <2>1
<1>11. ASSUME S!Skip \/ S!TakeShutdown \/ S!TakeConnect \/ S!TakeDisconnect \/ S!TakeImmediate
              \/ S!TakeWorkDone \/ S!TakeRemove
       PROVE  timer' = timer /\ conn_server' \in {0, conn_server} /\ ioq # <<>> /\ ioq' = Tail(ioq)
  BY <1>11 DEF S!Skip, S!TakeShutdown, S!TakeConnect, S!TakeDisconnect, S!TakeImmediate, S!TakeWorkDone,
               S!TakeRemove, S!StopServer, S!conn, S!Take
<1> HIDE DEF Goal
<1>12. Goal
  BY <1>4, <1>5, <1>6, <1>8, <1>9, <1>10, <1>11, IoMoves DEF S!MainLoop
<1> QED
  BY <1>12 DEF Goal

-----------------------------------------------------------------------------
(* The menu's invariant is inductive.                                      *)

LEMMA IoInvStarts == Init => IoInv
<1> SUFFICES ASSUME Init PROVE IoInv
  OBVIOUS
<1> USE DEF S!Init
<1>1. setup \in Setups /\ S!Init
  BY DEF Init
<1>2. S!Slots \in Nat /\ S!MaxStarts \in Nat \ {0}
  BY <1>1, SetupFacts
<1>3. Len(<<>>) = 0 /\ 1..0 = {} /\ <<>> \in Seq(S!IoHandles) /\ <<>> \in Seq(IoMsgs)
  OBVIOUS
<1>4. IoShape
  <2>1. inner \in [S!Ids -> {"new", "active", "gone"}]
    BY <1>1 DEF S!Fresh
  <2> QED
    BY <1>1, <1>2, <1>3, <2>1 DEF IoShape
<1>5. slot = [h \in {} |-> 0] /\ DOMAIN slot = {} /\ permuters = <<>> /\ slots = [i \in 1..S!Slots |-> None]
  BY <1>1
<1>6. MenuFits(permuters, slot, slots) /\ NoneWaits(slot, slots)
  <2>1. {permuters[i] : i \in 1..Len(permuters)} = {}
    BY <1>3, <1>5
  <2>2. slot \in [{} -> 0..S!Slots] /\ slots \in [1..S!Slots -> S!IoHandles \cup {None}]
    BY <1>5
  <2> QED
    BY <1>3, <1>5, <2>1, <2>2 DEF MenuFits, NoneWaits
<1>7. AllToldInOrder
  <2> SUFFICES ASSUME NEW id \in S!Ids, NEW h, h = <<id, conn_server>>
               PROVE  ToldInOrder(ioq, inner[id], DOMAIN slot, h)
    BY DEF AllToldInOrder
  <2>1. inner[id] = "new" /\ h \notin DOMAIN slot /\ \A i \in 1..Len(ioq) : ~ About(ioq[i], h)
    BY <1>1, <1>3, <1>5 DEF S!Fresh
  <2> QED
    BY <2>1, ToldNothing
<1>8. S!ShownIsCurrent
  BY <1>5 DEF S!ShownIsCurrent
<1>9. S!OneAtATime
  <2>1. S!Reconnecting = timer + HowMany(ioq, {ReconnectMsg})
    BY <1>4, ReconnectingAs
  <2>2. HowMany(ioq, {ReconnectMsg}) = 0 /\ timer = 0
    BY <1>1, HowManyEmpty
  <2>3. S!Reconnecting = 0
    BY <2>1, <2>2
  <2> QED
    BY <2>3 DEF S!OneAtATime
<1> QED
  BY <1>4, <1>6, <1>7, <1>8, <1>9 DEF IoInv

LEMMA IoInvKept ==
    ASSUME IoInv, S!Next, setup' = setup
    PROVE  IoInv'
<1>1. IoShape'
  BY IoShapeKept
<1>2. S!Ids' = S!Ids /\ S!Slots' = S!Slots /\ S!MaxStarts' = S!MaxStarts /\ S!IoHandles' = S!IoHandles
  BY DEF S!IoHandles, S!Ids, S!Slots, S!MaxStarts
<1>3. MenuFits(permuters, slot, slots)' /\ NoneWaits(slot, slots)'
  <2>1. MenuFits(permuters', slot', slots') /\ NoneWaits(slot', slots')
    BY MenuIsKept
  <2> QED
    BY <1>2, <2>1 DEF MenuFits, NoneWaits, S!InUse
<1>4. AllToldInOrder'
  <2>1. ASSUME conn_server' # 0, NEW id \in S!Ids
        PROVE  ToldInOrder(ioq', inner'[id], DOMAIN slot', <<id, conn_server'>>)
    BY <2>1, ToldKept
  <2> QED
    BY <1>2, <2>1 DEF AllToldInOrder
<1>5. S!ShownIsCurrent'
  BY ShownKept DEF S!ShownIsCurrent, S!Current
<1>6. S!OneAtATime'
  <2>1. S!Reconnecting' = timer' + HowMany(ioq', {ReconnectMsg})
    BY <1>1, ReconnectingAfter
  <2>2. /\ timer' + HowMany(ioq', {ReconnectMsg}) <= 1
        /\ conn_server' # 0 => timer' + HowMany(ioq', {ReconnectMsg}) = 0
    BY <1>1, OneAtATimeKept
  <2> QED
    BY <2>1, <2>2 DEF S!OneAtATime
<1> QED
  BY <1>1, <1>3, <1>4, <1>5, <1>6 DEF IoInv

LEMMA IoInvUnmoved == IoInv /\ UNCHANGED <<setup, ioVars>> => IoInv'
<1> SUFFICES ASSUME IoInv, UNCHANGED <<setup, ioVars>> PROVE IoInv'
  OBVIOUS
<1> USE DEF ioVars
<1>1. S!Ids' = S!Ids /\ S!Slots' = S!Slots /\ S!MaxStarts' = S!MaxStarts /\ S!IoHandles' = S!IoHandles /\ IoMsgs' = IoMsgs
  BY DEF IoMsgs, S!IoHandles, S!Ids, S!Slots, S!MaxStarts
<1>2. IoShape'
  BY <1>1 DEF IoInv, IoShape
<1>3. MenuFits(permuters, slot, slots)' /\ NoneWaits(slot, slots)'
  BY <1>1 DEF IoInv, MenuFits, NoneWaits, S!InUse
<1>4. AllToldInOrder'
  <2>1. ASSUME conn_server' # 0, NEW id \in S!Ids
        PROVE  ToldInOrder(ioq', inner'[id], DOMAIN slot', <<id, conn_server'>>)
    BY <2>1 DEF IoInv, AllToldInOrder
  <2> QED
    BY <1>1, <2>1 DEF AllToldInOrder
<1>5. S!ShownIsCurrent'
  BY DEF IoInv, S!ShownIsCurrent, S!Current
<1>6. S!OneAtATime'
  <2>1. S!Reconnecting' = S!Reconnecting
    BY DEF S!Reconnecting
  <2> QED
    BY <2>1 DEF IoInv, S!OneAtATime
<1> QED
  BY <1>2, <1>3, <1>4, <1>5, <1>6 DEF IoInv

LEMMA IoInvSuffices == IoInv => MenuSound
<1> SUFFICES ASSUME IoInv PROVE MenuSound
  OBVIOUS
<1> USE DEF IoInv
<1>1. S!Slots \in Nat /\ S!MaxStarts \in Nat \ {0}
  BY SetupFacts DEF IoShape
<1>2. S!TypeOK
  <2>1. permuters \in Seq(S!IoHandles) /\ DOMAIN permuters = 1..Len(permuters)
    BY DEF MenuFits
  <2>2. S!Range(permuters) = {permuters[i] : i \in 1..Len(permuters)}
    BY <2>1 DEF S!Range
  <2>3. S!Range(permuters) \subseteq S!IoHandles
    BY <2>1, <2>2
  <2>4. DOMAIN slot = S!Range(permuters) /\ slot \in [DOMAIN slot -> 0..S!Slots]
    BY <2>2 DEF MenuFits
  <2>5. slots \in [1..S!Slots -> S!IoHandles \cup {None}]
    BY DEF MenuFits
  <2>6. conn_server \in 0..starts /\ starts \in 1..S!MaxStarts
    BY <1>1 DEF IoShape
  <2> QED
    BY <2>3, <2>4, <2>5, <2>6 DEF S!TypeOK, IoShape
<1>3. S!NeverUnknown
  BY DEF S!NeverUnknown, IoShape
<1>4. S!SlotsMatch
  BY DEF S!SlotsMatch, MenuFits, NoneWaits
<1> QED
  BY <1>2, <1>3, <1>4 DEF MenuSound

\* The server process of run_server.py and the menu of its tray icon, for every choice
\* of ids, slots and connections, whatever its server, its user and its timers do: the
\* main loop never looks up a permuter that it does not have; slots and permuters point
\* at each other and nobody waits for a slot that is free; the menu shows permuters of
\* the running server only; and never are two reconnects under way, nor one beside a
\* server that runs.
THEOREM MenuIsSound == Spec => []MenuSound
<1>1. IoInv /\ [Next]_vars => IoInv'
  <2> SUFFICES ASSUME IoInv, [Next]_vars PROVE IoInv'
    OBVIOUS
  <2>1. CASE EStep(E!Next) \/ NStep(N!Next) \/ UNCHANGED vars
    <3>1. UNCHANGED <<setup, ioVars>>
      BY <2>1 DEF EStep, NStep, vars
    <3> QED
      BY <3>1, IoInvUnmoved
  <2>2. CASE SStep(S!Next)
    <3>1. S!Next /\ setup' = setup
      BY <2>2 DEF SStep, S!Next, S!MainLoop
    <3> QED
      BY <3>1, IoInvKept
  <2> QED
    BY <2>1, <2>2 DEF Next
<1> QED
  BY <1>1, IoInvStarts, IoInvSuffices, PTL DEF Spec

=============================================================================
