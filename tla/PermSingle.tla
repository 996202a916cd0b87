----------------------------- MODULE PermSingle -----------------------------
(* main.py with one thread: cycle_seeds hands out the seeds of all permuters   *)
(* in turn, each is evaluated and its score posted.                            *)
EXTENDS Permuter, Sequences, FiniteSetsExt

CONSTANT
    MaxRounds       \* bound: a random permuter never runs out of seeds

VARIABLES
    order, at,      \* cycle_seeds: its list of iterators and its index i (from 0)
    left,           \* [Perms -> the seeds its iterator still holds]
    obj,            \* [Perms -> Permuter object]
    context,        \* EvalContext: iteration, errors, internal_errors
    found, pc,
    seen,           \* [Perms -> sources that were scored]
    outputs,        \* results written, in order
    keptZero        \* some candidate was randomized again after it scored 0

counts == <<context, found, seen, outputs, keptZero>>
loopVars == <<order, at, left, obj, pc, counts>>

LoopTypeOK ==
    /\ order \in Seq(Perms) /\ at \in Int
    /\ \A p \in Perms : /\ left[p] \subseteq Seeds[p]
                        /\ obj[p].best \in Nat /\ obj[p].cand \in Seeds[p] \cup {None}
                        /\ obj[p].cache \subseteq Sources /\ Cardinality(obj[p].cache) <= CacheMax
    /\ context \in [iteration : Nat, errors : Nat, internal : Nat]
    /\ pc \in {"run", "end", "exit"}

LoopInit ==
    /\ order = [k \in 1..Cardinality(Perms) |-> k] /\ at = 0
    /\ left = Seeds
    /\ obj = [p \in Perms |-> Fresh]
    /\ pc = "run"
    /\ context = [iteration |-> 0, errors |-> 0, internal |-> 0]
    /\ found = FALSE /\ keptZero = FALSE
    /\ seen = [p \in Perms |-> {}] /\ outputs = <<>>

-----------------------------------------------------------------------------
Slot == (at % Len(order)) + 1
Turn == order[Slot]

\* A permuter out of seeds leaves the list and the index steps back, so that the
\* one before it, at index 0 the last one, has its turn again.
CycleExhausted ==
    /\ pc = "run" /\ order # <<>> /\ Turn \notin Random /\ left[Turn] = {}
    /\ order' = [k \in 1..Len(order) - 1 |-> IF k < Slot THEN order[k] ELSE order[k + 1]]
    /\ at' = Slot - 2
    /\ UNCHANGED <<left, obj, pc, counts>>

\* post_score without its printing, and what the loop makes of its answer.
PostScore(p, o, r) ==
    /\ context' = IF r.kind = "error" THEN [context EXCEPT !.internal = @ + 1]
                  ELSE [context EXCEPT !.iteration = @ + 1,
                                       !.errors = IF r.score = Inf THEN @ + 1 ELSE @]
    /\ LET out == r.kind = "candidate" /\ ShouldOutput(o, r) IN
         /\ obj' = [obj EXCEPT ![p] = IF out THEN RecordResult(o, r) ELSE o]
         /\ outputs' = IF out THEN Append(outputs, <<p, r>>) ELSE outputs
    /\ LET zero == r.kind = "candidate" /\ r.score = 0 IN
         /\ found' = (found \/ zero)
         /\ pc' = IF r.kind = "error" /\ AbortExceptions THEN "exit"
                  ELSE IF zero /\ StopOnZero THEN "end" ELSE pc

\* A random permuter starts over when its seeds run out.
SeedsNow(p) == IF left[p] = {} /\ p \in Random THEN Seeds[p] ELSE left[p]

Round ==
    /\ pc = "run" /\ order # <<>> /\ context.iteration + context.internal < MaxRounds
    /\ LET p == Turn IN
       \E s \in SeedsNow(p) : \E e \in Evaluations(p, obj[p], s) :
            /\ left' = [left EXCEPT ![p] = SeedsNow(p) \ {s}]
            /\ at' = Slot
            /\ PostScore(p, e.obj, e.res)
            /\ seen' = IF e.res.kind = "error" THEN seen ELSE [seen EXCEPT ![p] = @ \cup {e.res.of}]
            /\ keptZero' = (keptZero \/ (e.kept /\ obj[p].shown = 0))
    /\ UNCHANGED order

Finish ==
    /\ pc = "run" /\ order = <<>>
    /\ pc' = "end"
    /\ UNCHANGED <<order, at, left, obj, counts>>

LoopNext == CycleExhausted \/ Round \/ Finish

-----------------------------------------------------------------------------
(* Properties *)

Total(S) == Cardinality(UNION {{p} \X S[p] : p \in Perms})

\* Without PERM_RANDOMIZE the loop gives every seed of every permuter its turn,
\* one time: each is counted as an iteration or as an internal failure, and none
\* is left when the loop ends by itself (cycle_seeds, "Return all possible pairs").
EverySeedOnce ==
    /\ Random = {} => context.iteration + context.internal = Total(Seeds) - Total(left)
    /\ pc = "end" /\ ~ (StopOnZero /\ found) => Total(left) = 0

\* best_score, which run returns, is the least score of all that was compiled and
\* of the base, whichever results were cached, stripped or left unwritten.
BestIsLeast ==
    Threshold = None =>
        \A p \in Perms : obj[p].best = Min({BaseScore} \cup {Score[src] : src \in seen[p]})

\* One object code is written out once, however many sources compile to it; only
\* perfect matches are written for each source, once each while the cache has room.
NoOutputTwice ==
    \A i, j \in 1..Len(outputs) :
        i < j /\ outputs[i][1] = outputs[j][1] =>
            \/ outputs[i][2].hash # outputs[j][2].hash
            \/ /\ outputs[i][2].score = 0
               /\ \/ outputs[i][2].of # outputs[j][2].of
                  \/ Cardinality(obj[outputs[i][1]].cache) = CacheMax

\* A candidate that scored 0 is not randomized any further (permuter.py:170), unless
\* --seed says so or the one that was to follow it could not be built.
ZeroNotKept == ~ ForceRng /\ Broken = {} => ~ keptZero

\* The loop comes to an end when every permuter has a finite number of seeds.
LoopEnds == OneThread /\ Random = {} => <>(pc # "run")
=============================================================================
