-------------------------- MODULE PermSingleProofs --------------------------
(***************************************************************************)
(* A Permuter object, and the loop of a single process, for any            *)
(* invocation: any directories, seeds, sources, scores and options.        *)
(***************************************************************************)
EXTENDS PermSingle, CountProofs, FiniteSetTheorems, TLAPS

-----------------------------------------------------------------------------
(* What objects and results are.                                           *)

Hashes == {BaseHash} \cup {Hash[src] : src \in Sources}

Objects(p) ==
    [best : Nat, hashes : SUBSET Hashes, last : Nat \cup {None}, cand : Seeds[p] \cup {None},
     cache : {S \in SUBSET Sources : IsFiniteSet(S) /\ Cardinality(S) <= CacheMax},
     served : BOOLEAN, shown : Nat \cup {None}]

Candidates ==
    {r \in [kind : {"candidate"}, score : Nat, hash : Hashes \cup {None}, sent : BOOLEAN, of : Sources] :
        r.score = Score[r.of] /\ r.hash \in {None, Hash[r.of]}}

\* The result for src of an object that knows what is in its cache.
Found(o, src) == Candidate(src, IF src \in o.cache THEN None ELSE Hash[src])

\* What an evaluation that scored a source leaves behind.
Scoring(o, e) ==
    LET src == e.res.of IN
    /\ e.res \in Candidates
    /\ e.res = Stripped(o, Found(o, src))
    /\ e.obj.cache = o.cache \/ e.obj.cache = o.cache \cup {src}
    /\ src \in e.obj.cache \/ Cardinality(e.obj.cache) = CacheMax
    /\ e.obj.last = Score[src] /\ e.obj.shown = Score[src]

-----------------------------------------------------------------------------
(* Lemmas about the operators.                                             *)

LEMMA PlanFacts ==
    ASSUME plan \in Plans
    PROVE  /\ Perms = 1..Cardinality(Perms) /\ Cardinality(Perms) \in Nat \ {0}
           /\ DOMAIN Seeds = Perms /\ Score \in [Sources -> Nat] /\ CacheMax \in Nat
           /\ BaseScore \in Nat /\ None \notin Nat
           /\ \A src \in Sources : Score[src] \in Nat /\ Hash[src] # None /\ Hash[src] \in Hashes
           /\ \A p \in Perms : IsFiniteSet(Seeds[p])
           /\ \A p \in Perms : \A s \in Seeds[p] : Yields[p][s] \subseteq Sources
BY PermuterAssumption DEF Perms, Seeds, Score, Sources, Hash, Yields, CacheMax, Hashes

\* Sources of one object code score the same, as the base's does.
LEMMA SameCode ==
    ASSUME plan \in Plans, NEW src \in Sources
    PROVE  /\ Hash[src] = BaseHash => Score[src] = BaseScore
           /\ \A other \in Sources : Hash[src] = Hash[other] => Score[src] = Score[other]
BY PermuterAssumption DEF Score, Sources, Hash

\* should_output reads the best score, the hashes and the options.
LEMMA ShouldOutputReads ==
    ASSUME NEW o, NEW o2, NEW r, o.best = o2.best, o.hashes = o2.hashes, o.served = o2.served
    PROVE  ShouldOutput(o, r) <=> ShouldOutput(o2, r)
BY DEF ShouldOutput, Wanted

LEMMA FreshIsObject ==
    ASSUME plan \in Plans, NEW p \in Perms
    PROVE  Fresh \in Objects(p) /\ Served \in Objects(p)
<1>1. IsFiniteSet({}) /\ Cardinality({}) = 0
  BY FS_EmptySet
<1>2. CacheMax \in Nat /\ BaseScore \in Nat
  BY PlanFacts
<1>3. {} \in {S \in SUBSET Sources : IsFiniteSet(S) /\ Cardinality(S) <= CacheMax}
  BY <1>1, <1>2
<1> QED
  BY <1>2, <1>3 DEF Fresh, Served, Objects, Hashes

\* A source goes through the cache, the compiler and the scorer.
LEMMA ScoredIsScoring ==
    ASSUME plan \in Plans, NEW p \in Perms, NEW o \in Objects(p), NEW src \in Sources
    PROVE  /\ Scored(o, src).obj \in Objects(p)
           /\ Scored(o, src).obj.best = o.best /\ Scored(o, src).obj.hashes = o.hashes
           /\ Scored(o, src).obj.cand = o.cand /\ Scored(o, src).obj.served = o.served
           /\ Scored(o, src).res.of = src
           /\ Scoring(o, Scored(o, src))
<1> DEFINE r == Found(o, src)
           c == IF src \notin o.cache /\ Cardinality(o.cache) < CacheMax
                THEN o.cache \cup {src} ELSE o.cache
           n == Scored(o, src)
<1>1. n.res = Stripped(o, r)
  BY DEF Scored, Found
<1>2. n.obj = [o EXCEPT !.last = r.score, !.shown = r.score, !.cache = c]
  BY DEF Scored, Found
<1>3. r = [kind |-> "candidate", score |-> Score[src],
           hash |-> IF src \in o.cache THEN None ELSE Hash[src], sent |-> TRUE, of |-> src]
  BY DEF Found, Candidate
<1>4. r.score = Score[src] /\ Score[src] \in Nat /\ Hash[src] \in Hashes /\ CacheMax \in Nat
  BY <1>3, PlanFacts
<1>5. o.cache \subseteq Sources /\ IsFiniteSet(o.cache) /\ Cardinality(o.cache) \in Nat
      /\ Cardinality(o.cache) <= CacheMax
  BY FS_CardinalityType DEF Objects
<1>6. c \in {S \in SUBSET Sources : IsFiniteSet(S) /\ Cardinality(S) <= CacheMax}
  <2>1. CASE src \notin o.cache /\ Cardinality(o.cache) < CacheMax
    <3>1. IsFiniteSet(o.cache \cup {src}) /\ Cardinality(o.cache \cup {src}) = Cardinality(o.cache) + 1
      BY <1>5, <2>1, FS_AddElement
    <3> QED
      BY <1>4, <1>5, <2>1, <3>1
  <2>2. CASE ~ (src \notin o.cache /\ Cardinality(o.cache) < CacheMax)
    BY <1>5, <2>2
  <2> QED
    BY <2>1, <2>2
<1>7. src \in c \/ Cardinality(c) = CacheMax
  BY <1>4, <1>5
<1> HIDE DEF c, r, n
<1>8. /\ n.obj \in Objects(p) /\ n.obj.best = o.best /\ n.obj.hashes = o.hashes
      /\ n.obj.cand = o.cand /\ n.obj.cache = c /\ n.obj.served = o.served
      /\ n.obj.last = Score[src] /\ n.obj.shown = Score[src]
  BY <1>2, <1>4, <1>6 DEF Objects
<1>9. n.res \in Candidates /\ n.res.of = src
  <2>1. CASE n.res = r
    BY <2>1, <1>3, <1>4 DEF Candidates
  <2>2. CASE n.res = [r EXCEPT !.sent = FALSE, !.hash = None]
    BY <2>2, <1>3, <1>4 DEF Candidates
  <2> QED
    BY <1>1, <2>1, <2>2 DEF Stripped
<1>10. c = o.cache \/ c = o.cache \cup {src}
  BY DEF c
<1> QED
  BY <1>1, <1>7, <1>8, <1>9, <1>10 DEF Scoring, n, r

\* Every outcome of try_eval_candidate is an error or a scored source.
LEMMA EvaluationResult ==
    ASSUME plan \in Plans, NEW p \in Perms, NEW o \in Objects(p), NEW s \in Seeds[p],
           NEW e \in Evaluations(p, o, s)
    PROVE  /\ e.obj \in Objects(p) /\ e.obj.best = o.best /\ e.obj.hashes = o.hashes
           /\ e.obj.served = o.served
           /\ \/ /\ e.res = PermError /\ e.obj.cache = o.cache
                 /\ e.obj.shown = None \/ <<p, s>> \in Broken
              \/ Scoring(o, e)
           /\ e.kept => TRUE \in KeepChoices(p, o)
           /\ e.kept \/ e.res = PermError \/ e.res.of \in Yields[p][s]
           /\ \/ e.kept \/ e.res # PermError \/ <<p, s>> \in Broken
              \/ \E src \in Yields[p][s] : src \in Raising
<1>1. PICK k \in KeepChoices(p, o) :
        e \in LET keep == k /\ o.cand # None
                  base == IF keep THEN o.cand ELSE s
                  o1   == [o EXCEPT !.last = None]
                  o2   == [o1 EXCEPT !.cand = base, !.shown = None]
              IN IF ~ keep /\ <<p, s>> \in Broken
                 THEN {[res |-> PermError, obj |-> o1, kept |-> FALSE]}
                 ELSE { IF src \in Raising
                        THEN [res |-> PermError, obj |-> o2, kept |-> keep]
                        ELSE [res |-> Scored(o2, src).res, obj |-> Scored(o2, src).obj, kept |-> keep]
                        : src \in Yields[p][base] }
  BY DEF Evaluations
<1> DEFINE keep == k /\ o.cand # None
           base == IF keep THEN o.cand ELSE s
           o1   == [o EXCEPT !.last = None]
           o2   == [o1 EXCEPT !.cand = base, !.shown = None]
<1>2. base \in Seeds[p] /\ (~ keep => base = s)
  BY DEF Objects
<1>3. k \in BOOLEAN /\ (keep => k = TRUE)
  BY DEF KeepChoices
<1>4. /\ o1 \in Objects(p) /\ o1.best = o.best /\ o1.hashes = o.hashes /\ o1.cache = o.cache
      /\ o1.served = o.served
  BY DEF Objects
<1>5. /\ o2 \in Objects(p) /\ o2.best = o.best /\ o2.hashes = o.hashes /\ o2.cache = o.cache
      /\ o2.shown = None /\ o2.served = o.served
  BY <1>2 DEF Objects
<1>6. Yields[p][base] \subseteq Sources
  BY <1>2, PlanFacts
<1>7. e \in IF ~ keep /\ <<p, s>> \in Broken
            THEN {[res |-> PermError, obj |-> o1, kept |-> FALSE]}
            ELSE { IF src \in Raising
                   THEN [res |-> PermError, obj |-> o2, kept |-> keep]
                   ELSE [res |-> Scored(o2, src).res, obj |-> Scored(o2, src).obj, kept |-> keep]
                   : src \in Yields[p][base] }
  BY <1>1
<1>8. keep \in BOOLEAN
  BY <1>3
<1> HIDE DEF keep, base, o1, o2
<1>9. CASE ~ keep /\ <<p, s>> \in Broken
  <2>1. e = [res |-> PermError, obj |-> o1, kept |-> FALSE]
    BY <1>7, <1>9
  <2> QED
    BY <2>1, <1>4, <1>9
<1>10. CASE ~ (~ keep /\ <<p, s>> \in Broken)
  <2>1. PICK src \in Yields[p][base] :
          e = IF src \in Raising
              THEN [res |-> PermError, obj |-> o2, kept |-> keep]
              ELSE [res |-> Scored(o2, src).res, obj |-> Scored(o2, src).obj, kept |-> keep]
    BY <1>7, <1>10
  <2>2. e.kept = keep
    BY <2>1
  <2>3. e.kept => TRUE \in KeepChoices(p, o)
    BY <2>2, <1>3
  <2>4. ~ e.kept => src \in Yields[p][s]
    BY <2>1, <2>2, <1>2
  <2>5. CASE src \in Raising
    <3>1. e.res = PermError /\ e.obj = o2
      BY <2>1, <2>5
    <3> QED
      BY <3>1, <2>3, <2>4, <2>5, <1>5
  <2>6. CASE src \notin Raising
    <3>1. e.res = Scored(o2, src).res /\ e.obj = Scored(o2, src).obj
      BY <2>1, <2>6
    <3>2. /\ e.obj \in Objects(p) /\ e.obj.best = o.best /\ e.obj.hashes = o.hashes
          /\ e.obj.served = o.served /\ e.res.of = src /\ Scoring(o2, Scored(o2, src))
      BY <3>1, <1>5, <1>6, ScoredIsScoring
    <3>3. Stripped(o2, Found(o2, src)) = Stripped(o, Found(o, src))
      <4>1. Found(o2, src) = Found(o, src)
        BY <1>5 DEF Found
      <4>2. ShouldOutput(o2, Found(o, src)) <=> ShouldOutput(o, Found(o, src))
        BY <1>5, ShouldOutputReads
      <4> QED
        BY <1>5, <4>1, <4>2 DEF Stripped
    <3>4. Scoring(o, e)
      BY <3>1, <3>2, <3>3, <1>5 DEF Scoring
    <3>5. e.res # PermError
      BY <3>4 DEF Scoring, Candidates, PermError
    <3>6. e.kept \/ e.res.of \in Yields[p][s]
      BY <3>2, <2>4
    <3>7. /\ e.obj \in Objects(p) /\ e.obj.best = o.best /\ e.obj.hashes = o.hashes
          /\ e.obj.served = o.served
      BY <3>2
    <3> QED
      BY <3>4, <3>5, <3>6, <3>7, <2>3
  <2> QED
    BY <2>5, <2>6
<1> QED
  BY <1>9, <1>10

\* A result worth an output is recorded.
LEMMA RecordedResult ==
    ASSUME plan \in Plans, NEW p \in Perms, NEW o \in Objects(p), NEW r \in Candidates,
           ShouldOutput(o, r)
    PROVE  /\ RecordResult(o, r) \in Objects(p)
           /\ RecordResult(o, r).best = IF r.score < o.best THEN r.score ELSE o.best
           /\ RecordResult(o, r).hashes = IF r.score # 0 THEN o.hashes \cup {r.hash} ELSE o.hashes
           /\ RecordResult(o, r).cache = o.cache
           /\ RecordResult(o, r).last = o.last /\ RecordResult(o, r).shown = o.shown
           /\ RecordResult(o, r).served = o.served
           /\ r.hash = Hash[r.of] /\ r.hash \notin o.hashes
<1>1. r.hash # None /\ r.hash \notin o.hashes
  BY DEF ShouldOutput
<1>2. r.hash \in Hashes /\ r.score \in Nat /\ r.hash = Hash[r.of]
  BY <1>1 DEF Candidates
<1> QED
  BY <1>1, <1>2 DEF RecordResult, Objects

\* The parts of an invocation do not change when it does not.
LEMMA PlanStays ==
    ASSUME UNCHANGED plan
    PROVE  /\ Perms' = Perms /\ Seeds' = Seeds /\ Random' = Random /\ Sources' = Sources
           /\ Broken' = Broken /\ Score' = Score /\ Hash' = Hash /\ CacheMax' = CacheMax
           /\ ForceRng' = ForceRng /\ Threshold' = Threshold /\ StopOnZero' = StopOnZero
           /\ Hashes' = Hashes /\ Candidates' = Candidates
<1>1. /\ Perms' = Perms /\ Seeds' = Seeds /\ Random' = Random /\ Sources' = Sources
      /\ Broken' = Broken /\ Score' = Score /\ Hash' = Hash /\ CacheMax' = CacheMax
      /\ ForceRng' = ForceRng /\ Threshold' = Threshold /\ StopOnZero' = StopOnZero
  BY DEF Perms, Seeds, Random, Sources, Broken, Score, Hash, CacheMax, ForceRng, Threshold, StopOnZero
<1>2. Hashes' = Hashes
  BY <1>1 DEF Hashes
<1>3. Candidates' = Candidates
  BY <1>1, <1>2 DEF Candidates
<1> QED
  BY <1>1, <1>2, <1>3

LEMMA ObjectsStay ==
    ASSUME UNCHANGED plan
    PROVE  \A p : Objects(p)' = Objects(p)
BY PlanStays DEF Objects

\* Min names the least of a set that has one.
LEMMA MinIs ==
    ASSUME NEW S \in SUBSET Nat, NEW m \in S, \A x \in S : m <= x
    PROVE  Min(S) = m
<1>a. \E x \in S : \A y \in S : x <= y
  OBVIOUS
<1>1. Min(S) \in S /\ \A x \in S : Min(S) <= x
  BY <1>a DEF Min
<1>2. Min(S) <= m /\ m <= Min(S)
  BY <1>1
<1>3. Min(S) \in Nat /\ m \in Nat
  BY <1>1
<1> HIDE DEF Min
<1> QED
  BY <1>2, <1>3

LEMMA MinOf ==
    ASSUME NEW S \in SUBSET Nat, S # {}
    PROVE  Min(S) \in S /\ \A x \in S : Min(S) <= x
<1>1. PICK m \in S : \A x \in S : m <= x
  BY LeastNatural
<1> QED
  BY <1>1, MinIs

LEMMA MinGrows ==
    ASSUME NEW S \in SUBSET Nat, S # {}, NEW n \in Nat
    PROVE  Min(S \cup {n}) = IF n < Min(S) THEN n ELSE Min(S)
<1> DEFINE m == IF n < Min(S) THEN n ELSE Min(S)
<1>1. Min(S) \in S /\ \A x \in S : Min(S) <= x
  BY MinOf
<1>2. Min(S) \in Nat
  BY <1>1
<1>3. m \in S \cup {n} /\ \A x \in S : m <= x
  BY <1>1, <1>2
<1>4. m <= n
  BY <1>2
<1> QED
  BY <1>3, <1>4, MinIs

LEMMA RemainderInRange ==
    ASSUME NEW a \in Int, NEW n \in Nat \ {0}
    PROVE  a % n \in 0..(n - 1)
OBVIOUS

-----------------------------------------------------------------------------
(* The inductive invariant of the loop.                                    *)

\* What is left of the seeds, one by one.
LeftTasks == UNION {{p} \X left[p] : p \in Perms}

LoopShape ==
    /\ DOMAIN obj = Perms /\ DOMAIN left = Perms /\ DOMAIN seen = Perms
    /\ \A p \in Perms : obj[p] \in Objects(p) /\ seen[p] \subseteq Sources
    /\ outputs \in Seq(Perms \X Candidates)

\* A permuter leaves the list only when its seeds are used up, and the loop ends
\* by itself only when the list is empty.
StillInTurn ==
    /\ \A p \in Perms : left[p] # {} => \E i \in 1..Len(order) : order[i] = p
    /\ pc = "end" => order = <<>> \/ (StopOnZero /\ found)

\* What an object remembers comes from the sources it scored.
FromSeen ==
    \A p \in Perms :
        /\ obj[p].cache \subseteq seen[p]
        /\ \A h \in obj[p].hashes : h = BaseHash \/ \E src \in seen[p] : Hash[src] = h

\* What was written is in the hashes, or it is a match and in the cache.
Written ==
    \A i \in 1..Len(outputs) :
        LET o == obj[outputs[i][1]]
            r == outputs[i][2]
        IN /\ r.hash = Hash[r.of]
           /\ \/ r.score # 0 /\ r.hash \in o.hashes
              \/ r.score = 0 /\ (r.of \in o.cache \/ Cardinality(o.cache) = CacheMax)

\* A candidate that scored 0 is known to have done so.
ZeroKnown == Broken = {} => \A p \in Perms : obj[p].shown = 0 => obj[p].last = 0

LoopInv ==
    /\ LoopTypeOK /\ LoopShape /\ EverySeedOnce /\ StillInTurn
    /\ FromSeen /\ BestIsLeast /\ Written /\ NoOutputTwice /\ ZeroKnown /\ ZeroNotKept

-----------------------------------------------------------------------------
(* Every step preserves it.                                                *)

\* The seeds that are left can be counted.
LEMMA LeftCounts ==
    ASSUME plan \in Plans, NEW S, \A p \in Perms : S[p] \subseteq Seeds[p]
    PROVE  IsFiniteSet(UNION {{p} \X S[p] : p \in Perms}) /\ Total(S) \in Nat
<1> DEFINE Part(p) == {p} \X S[p]
           Parts == {Part(p) : p \in Perms}
<1>1. IsFiniteSet(Perms)
  <2>1. Perms = 1..Cardinality(Perms) /\ Cardinality(Perms) \in Nat
    BY PlanFacts
  <2>2. IsFiniteSet(1..Cardinality(Perms))
    BY <2>1, FS_Interval
  <2> QED
    BY <2>1, <2>2
<1>2. IsFiniteSet(Parts)
  <2> DEFINE f == [p \in Perms |-> Part(p)]
  <2>1. f \in Surjection(Perms, Parts)
    BY DEF Surjection
  <2> QED
    BY <1>1, <2>1, FS_Surjection
<1>3. \A T \in Parts : IsFiniteSet(T)
  <2> SUFFICES ASSUME NEW p \in Perms PROVE IsFiniteSet(Part(p))
    OBVIOUS
  <2>1. IsFiniteSet(S[p])
    BY PlanFacts, FS_Subset
  <2>2. IsFiniteSet({p})
    BY FS_Singleton
  <2> QED
    BY <2>1, <2>2, FS_Product
<1>4. IsFiniteSet(UNION Parts)
  BY <1>2, <1>3, FS_UNION
<1> QED
  BY <1>4, FS_CardinalityType DEF Total

LEMMA LoopInitInv ==
    ASSUME plan \in Plans, LoopInit
    PROVE  LoopInv
<1>1. /\ Perms = 1..Cardinality(Perms) /\ Cardinality(Perms) \in Nat \ {0}
      /\ DOMAIN Seeds = Perms /\ BaseScore \in Nat /\ None \notin Nat
  BY PlanFacts
<1>2. order = [k \in 1..Cardinality(Perms) |-> k] /\ Len(order) = Cardinality(Perms)
      /\ order \in Seq(Perms)
  BY <1>1 DEF LoopInit
<1>3. \A p \in Perms : obj[p] = Fresh /\ obj[p] \in Objects(p) /\ seen[p] = {} /\ left[p] = Seeds[p]
  BY FreshIsObject DEF LoopInit
<1>4. LoopTypeOK
  <2>1. context \in [iteration : Nat, errors : Nat, internal : Nat]
    BY DEF LoopInit
  <2>2. \A p \in Perms : /\ left[p] \subseteq Seeds[p]
                          /\ obj[p].best \in Nat /\ obj[p].cand \in Seeds[p] \cup {None}
                          /\ obj[p].cache \subseteq Sources /\ Cardinality(obj[p].cache) <= CacheMax
    BY <1>3 DEF Objects
  <2> QED
    BY <1>2, <2>1, <2>2 DEF LoopTypeOK, LoopInit
<1>5. LoopShape
  BY <1>1, <1>3 DEF LoopShape, LoopInit
<1>6. EverySeedOnce
  <2>1. Total(left) = Total(Seeds) /\ Total(Seeds) \in Nat
    BY LeftCounts DEF LoopInit
  <2> QED
    BY <2>1 DEF EverySeedOnce, LoopInit
<1>7. StillInTurn
  BY <1>1, <1>2 DEF StillInTurn, LoopInit
<1>8. FromSeen /\ ZeroKnown /\ ZeroNotKept /\ Written /\ NoOutputTwice
  BY <1>1, <1>3 DEF FromSeen, ZeroKnown, ZeroNotKept, Written, NoOutputTwice, LoopInit, Fresh
<1>9. BestIsLeast
  <2> SUFFICES ASSUME NEW p \in Perms
               PROVE  obj[p].best = Min({BaseScore} \cup {Score[src] : src \in seen[p]})
    BY DEF BestIsLeast
  <2>1. {BaseScore} \cup {Score[src] : src \in seen[p]} = {BaseScore} /\ obj[p].best = BaseScore
    BY <1>3 DEF Fresh
  <2>2. Min({BaseScore}) = BaseScore
    BY <1>1, MinIs
  <2> QED
    BY <2>1, <2>2
<1> QED
  BY <1>4, <1>5, <1>6, <1>7, <1>8, <1>9 DEF LoopInv

LEMMA TurnInList ==
    ASSUME plan \in Plans, LoopInv, order # <<>>
    PROVE  /\ Len(order) \in Nat \ {0} /\ Slot \in 1..Len(order)
           /\ Turn \in Perms /\ order \in Seq(Perms)
<1>1. order \in Seq(Perms) /\ at \in Int
  BY DEF LoopInv, LoopTypeOK
<1>2. Len(order) \in Nat \ {0}
  BY <1>1
<1>3. at % Len(order) \in 0..(Len(order) - 1)
  BY <1>1, <1>2, RemainderInRange
<1> QED
  BY <1>1, <1>2, <1>3 DEF Slot, Turn

\* Only a permuter without seeds loses its turn.
LEMMA CycleExhaustedInv ==
    ASSUME plan \in Plans, UNCHANGED plan, LoopInv, CycleExhausted
    PROVE  LoopInv'
<1>c. /\ Perms' = Perms /\ Seeds' = Seeds /\ Random' = Random /\ Sources' = Sources
      /\ Broken' = Broken /\ Score' = Score /\ Hash' = Hash /\ CacheMax' = CacheMax
      /\ ForceRng' = ForceRng /\ Threshold' = Threshold /\ StopOnZero' = StopOnZero
      /\ Candidates' = Candidates /\ \A p : Objects(p)' = Objects(p)
  BY PlanStays, ObjectsStay
<1>1. /\ pc = "run" /\ order # <<>> /\ left[Turn] = {}
      /\ order' = [k \in 1..Len(order) - 1 |-> IF k < Slot THEN order[k] ELSE order[k + 1]]
      /\ at' = Slot - 2
      /\ UNCHANGED <<left, obj, pc, context, found, seen, outputs, keptZero>>
  BY DEF CycleExhausted, counts
<1>2. /\ Len(order) \in Nat \ {0} /\ Slot \in 1..Len(order)
      /\ Turn \in Perms /\ order \in Seq(Perms)
  BY <1>1, TurnInList
<1>3. order' \in Seq(Perms) /\ Len(order') = Len(order) - 1
  BY <1>1, <1>2
<1>4. LoopTypeOK'
  BY <1>1, <1>2, <1>3, <1>c DEF LoopInv, LoopTypeOK
<1>5. LoopShape'
  BY <1>1, <1>c DEF LoopInv, LoopShape
<1>6. EverySeedOnce'
  BY <1>1, <1>c DEF LoopInv, EverySeedOnce, Total
<1>7. StillInTurn'
  <2> SUFFICES ASSUME NEW p \in Perms, left[p] # {}
               PROVE  \E i \in 1..Len(order') : order'[i] = p
    BY <1>1, <1>c DEF StillInTurn
  <2>1. PICK i \in 1..Len(order) : order[i] = p
    BY DEF LoopInv, StillInTurn
  <2>2. i # Slot
    BY <2>1, <1>1 DEF Turn
  <2>3. CASE i < Slot
    BY <2>1, <2>3, <1>1, <1>2, <1>3, SMTT(60)
  <2>4. CASE i > Slot
    <3>1. i - 1 \in 1..Len(order') /\ ~ (i - 1 < Slot) /\ (i - 1) + 1 = i
      BY <2>4, <1>2, <1>3
    <3>2. order'[i - 1] = order[i]
      BY <3>1, <1>1, <1>3
    <3> QED
      BY <2>1, <3>1, <3>2
  <2> QED
    BY <2>2, <2>3, <2>4, <1>2
<1>8. FromSeen' /\ BestIsLeast'
  BY <1>1, <1>c DEF LoopInv, FromSeen, BestIsLeast
<1>9. Written' /\ NoOutputTwice'
  BY <1>1, <1>c DEF LoopInv, Written, NoOutputTwice
<1>10. ZeroKnown' /\ ZeroNotKept'
  BY <1>1, <1>c DEF LoopInv, ZeroKnown, ZeroNotKept
<1> QED
  BY <1>4, <1>5, <1>6, <1>7, <1>8, <1>9, <1>10 DEF LoopInv

\* The loop is over when no permuter has a turn.
LEMMA FinishInv ==
    ASSUME plan \in Plans, UNCHANGED plan, LoopInv, Finish
    PROVE  LoopInv'
<1>c. /\ Perms' = Perms /\ Seeds' = Seeds /\ Random' = Random /\ Sources' = Sources
      /\ Broken' = Broken /\ Score' = Score /\ Hash' = Hash /\ CacheMax' = CacheMax
      /\ ForceRng' = ForceRng /\ Threshold' = Threshold /\ StopOnZero' = StopOnZero
      /\ Candidates' = Candidates /\ \A p : Objects(p)' = Objects(p)
  BY PlanStays, ObjectsStay
<1>1. /\ pc = "run" /\ order = <<>> /\ pc' = "end"
      /\ UNCHANGED <<order, at, left, obj, context, found, seen, outputs, keptZero>>
  BY DEF Finish, counts
<1>4. LoopTypeOK' /\ LoopShape'
  BY <1>1, <1>c DEF LoopInv, LoopTypeOK, LoopShape
<1>6. EverySeedOnce'
  <2>1. \A p \in Perms : left[p] = {}
    BY <1>1 DEF LoopInv, StillInTurn
  <2>2. UNION {{p} \X left[p] : p \in Perms} = {}
    BY <2>1
  <2>3. Total(left) = 0
    BY <2>2, FS_EmptySet DEF Total
  <2> QED
    BY <2>3, <1>1, <1>c DEF LoopInv, EverySeedOnce, Total
<1>7. StillInTurn'
  BY <1>1, <1>c DEF LoopInv, StillInTurn
<1>8. FromSeen' /\ BestIsLeast'
  BY <1>1, <1>c DEF LoopInv, FromSeen, BestIsLeast
<1>9. Written' /\ NoOutputTwice'
  BY <1>1, <1>c DEF LoopInv, Written, NoOutputTwice
<1>10. ZeroKnown' /\ ZeroNotKept'
  BY <1>1, <1>c DEF LoopInv, ZeroKnown, ZeroNotKept
<1> QED
  BY <1>4, <1>6, <1>7, <1>8, <1>9, <1>10 DEF LoopInv

\* A candidate that no output was made of is no better than what is known.
LEMMA NotBetter ==
    ASSUME plan \in Plans, LoopInv, Threshold = None, NEW p \in Perms, NEW src \in Sources,
           NEW r, r = Stripped(obj[p], Found(obj[p], src)), ~ ShouldOutput(obj[p], r)
    PROVE  obj[p].best <= Score[src]
<1> DEFINE o == obj[p]
           f == Found(o, src)
           S == {BaseScore} \cup {Score[x] : x \in seen[p]}
<1>1. SUFFICES ASSUME Score[src] < o.best PROVE FALSE
  BY PlanFacts DEF LoopInv, LoopShape, Objects
<1>2. o.best \in Nat /\ Score[src] \in Nat /\ BaseScore \in Nat /\ Hash[src] # None
  BY PlanFacts DEF LoopInv, LoopShape, Objects
<1>3. o.best <= BaseScore /\ \A x \in seen[p] : o.best <= Score[x]
  <2>1. S \in SUBSET Nat /\ S # {} /\ o.best = Min(S)
    BY <1>2, PlanFacts DEF LoopInv, LoopShape, BestIsLeast
  <2> HIDE DEF S
  <2>2. \A x \in S : o.best <= x
    BY <2>1, MinOf
  <2> QED
    BY <2>2 DEF S
<1>4. src \notin seen[p] /\ src \notin o.cache
  BY <1>1, <1>2, <1>3 DEF LoopInv, FromSeen
<1>5. f = [kind |-> "candidate", score |-> Score[src], hash |-> Hash[src], sent |-> TRUE, of |-> src]
  BY <1>4 DEF Found, Candidate
<1>6. Hash[src] \notin o.hashes
  <2>1. SUFFICES ASSUME Hash[src] \in o.hashes PROVE FALSE
    OBVIOUS
  <2>2. Hash[src] = BaseHash \/ \E x \in seen[p] : Hash[x] = Hash[src]
    BY <2>1 DEF LoopInv, FromSeen
  <2>3. Score[src] = BaseScore \/ \E x \in seen[p] : Score[x] = Score[src]
    BY <2>2, SameCode DEF LoopInv, LoopShape
  <2> QED
    BY <2>3, <1>1, <1>2, <1>3
<1>7. ShouldOutput(o, f)
  <2>1. f.score = Score[src] /\ f.hash = Hash[src] /\ f.sent
    BY <1>5
  <2>2. f.score <= BaseScore /\ ~ (f.score > o.best) /\ f.score # BaseScore
    BY <2>1, <1>1, <1>2, <1>3
  <2> HIDE DEF f, o
  <2> QED
    BY <2>1, <2>2, <1>2, <1>6 DEF ShouldOutput, Wanted
<1>8. r = f
  BY <1>7 DEF Stripped
<1> QED
  BY <1>7, <1>8

LEMMA RoundInv ==
    ASSUME plan \in Plans, UNCHANGED plan, LoopInv, Round
    PROVE  LoopInv'
<1>c. /\ Perms' = Perms /\ Seeds' = Seeds /\ Random' = Random /\ Sources' = Sources
      /\ Broken' = Broken /\ Score' = Score /\ Hash' = Hash /\ CacheMax' = CacheMax
      /\ ForceRng' = ForceRng /\ Threshold' = Threshold /\ StopOnZero' = StopOnZero
      /\ Candidates' = Candidates /\ \A q : Objects(q)' = Objects(q)
  BY PlanStays, ObjectsStay
<1> DEFINE p == Turn
           o == obj[p]
<1>0. PICK s \in SeedsNow(p) : \E e \in Evaluations(p, o, s) :
        /\ left' = [left EXCEPT ![p] = SeedsNow(p) \ {s}]
        /\ at' = Slot
        /\ PostScore(p, e.obj, e.res)
        /\ seen' = IF e.res.kind = "error" THEN seen ELSE [seen EXCEPT ![p] = @ \cup {e.res.of}]
        /\ keptZero' = (keptZero \/ (e.kept /\ o.shown = 0))
  BY DEF Round
<1>1. PICK e \in Evaluations(p, o, s) :
        /\ left' = [left EXCEPT ![p] = SeedsNow(p) \ {s}]
        /\ at' = Slot
        /\ PostScore(p, e.obj, e.res)
        /\ seen' = IF e.res.kind = "error" THEN seen ELSE [seen EXCEPT ![p] = @ \cup {e.res.of}]
        /\ keptZero' = (keptZero \/ (e.kept /\ o.shown = 0))
  BY <1>0
<1>2. pc = "run" /\ order # <<>> /\ UNCHANGED order
  BY DEF Round
<1>3. p \in Perms /\ Slot \in Int
  BY <1>2, TurnInList
<1>4. o \in Objects(p) /\ seen[p] \subseteq Sources /\ left[p] \subseteq Seeds[p]
  BY <1>3 DEF LoopInv, LoopShape, LoopTypeOK
<1>5. SeedsNow(p) \subseteq Seeds[p] /\ s \in Seeds[p]
  BY <1>4 DEF SeedsNow
<1> HIDE DEF o, p
<1> DEFINE n == e.obj
           r == e.res
           b == obj'[p]
<1>6. /\ n \in Objects(p) /\ n.best = o.best /\ n.hashes = o.hashes /\ n.served = o.served
      /\ \/ /\ r = PermError /\ n.cache = o.cache
            /\ n.shown = None \/ <<p, s>> \in Broken
         \/ Scoring(o, e)
      /\ e.kept => TRUE \in KeepChoices(p, o)
  BY <1>3, <1>4, <1>5, EvaluationResult, ZenonT(60)
<1> DEFINE out == r.kind = "candidate" /\ ShouldOutput(n, r)
<1>7. /\ context' = IF r.kind = "error" THEN [context EXCEPT !.internal = @ + 1]
                    ELSE [context EXCEPT !.iteration = @ + 1,
                                         !.errors = IF r.score = Inf THEN @ + 1 ELSE @]
      /\ obj' = [obj EXCEPT ![p] = IF out THEN RecordResult(n, r) ELSE n]
      /\ outputs' = IF out THEN Append(outputs, <<p, r>>) ELSE outputs
  BY <1>1 DEF PostScore
<1>8. /\ found' <=> found \/ (r.kind = "candidate" /\ r.score = 0)
      /\ pc' = IF r.kind = "error" /\ AbortExceptions THEN "exit"
               ELSE IF (r.kind = "candidate" /\ r.score = 0) /\ StopOnZero THEN "end" ELSE pc
  BY <1>1 DEF PostScore
<1>9. /\ r = PermError => r.kind = "error" /\ ~ out
      /\ Scoring(o, e) => r \in Candidates /\ r.kind = "candidate" /\ r.score = Score[r.of]
      /\ out => Scoring(o, e)
  BY <1>6 DEF PermError, Scoring, Candidates
<1>10. /\ b \in Objects(p) /\ b.cache = n.cache /\ b.last = n.last /\ b.shown = n.shown
       /\ b.best = IF out /\ r.score < o.best THEN r.score ELSE o.best
       /\ b.hashes = IF out /\ r.score # 0 THEN o.hashes \cup {r.hash} ELSE o.hashes
       /\ out => r.hash = Hash[r.of] /\ r.hash \notin o.hashes /\ r.hash # None
       /\ DOMAIN obj' = Perms /\ \A q \in Perms : q # p => obj'[q] = obj[q]
  <2>1. b = (IF out THEN RecordResult(n, r) ELSE n) /\ DOMAIN obj' = Perms
        /\ \A q \in Perms : q # p => obj'[q] = obj[q]
    BY <1>3, <1>7 DEF LoopInv, LoopShape
  <2>2. CASE out
    <3>1. r \in Candidates /\ ShouldOutput(n, r) /\ r.hash # None
      BY <1>9, <2>2 DEF ShouldOutput
    <3>2. b = RecordResult(n, r)
      BY <2>1, <2>2
    <3> HIDE DEF n, r, b
    <3>3. /\ b \in Objects(p)
          /\ b.best = IF r.score < n.best THEN r.score ELSE n.best
          /\ b.hashes = IF r.score # 0 THEN n.hashes \cup {r.hash} ELSE n.hashes
          /\ b.cache = n.cache /\ b.last = n.last /\ b.shown = n.shown
          /\ r.hash = Hash[r.of] /\ r.hash \notin n.hashes
      BY <3>1, <3>2, <1>3, <1>6, RecordedResult
    <3> QED
      BY <2>1, <2>2, <3>1, <3>3, <1>6
  <2>3. CASE ~ out
    BY <2>1, <2>3, <1>6
  <2> QED
    BY <2>2, <2>3
<1> HIDE DEF out, b, n, r
<1>11. DOMAIN left' = Perms /\ left'[p] = SeedsNow(p) \ {s} /\ \A q \in Perms : q # p => left'[q] = left[q]
  BY <1>1, <1>3 DEF LoopInv, LoopShape
<1>12. /\ DOMAIN seen' = Perms
       /\ seen'[p] = IF r.kind = "error" THEN seen[p] ELSE seen[p] \cup {r.of}
       /\ \A q \in Perms : q # p => seen'[q] = seen[q]
  BY <1>1, <1>3 DEF LoopInv, LoopShape, r
<1>13. LoopTypeOK'
  <2>1. order' \in Seq(Perms) /\ at' \in Int
    BY <1>1, <1>2, <1>3 DEF LoopInv, LoopTypeOK
  <2>2. context' \in [iteration : Nat, errors : Nat, internal : Nat]
    <3>1. context \in [iteration : Nat, errors : Nat, internal : Nat]
      BY DEF LoopInv, LoopTypeOK
    <3>2. CASE r.kind = "error"
      <4>1. context' = [context EXCEPT !.internal = @ + 1]
        BY <3>2, <1>7
      <4>2. context' = [iteration |-> context.iteration, errors |-> context.errors,
                        internal |-> context.internal + 1]
        BY <4>1, <3>1
      <4>3. context.iteration \in Nat /\ context.errors \in Nat /\ context.internal + 1 \in Nat
        BY <3>1
      <4> QED
        BY <4>2, <4>3
    <3>3. CASE r.kind # "error"
      <4>1. context' = [context EXCEPT !.iteration = @ + 1,
                                       !.errors = IF r.score = Inf THEN @ + 1 ELSE @]
        BY <3>3, <1>7
      <4> DEFINE m == IF r.score = Inf THEN context.errors + 1 ELSE context.errors
      <4>2. context' = [iteration |-> context.iteration + 1, errors |-> m, internal |-> context.internal]
        BY <4>1, <3>1
      <4>3. context.iteration + 1 \in Nat /\ m \in Nat /\ context.internal \in Nat
        BY <3>1
      <4> HIDE DEF m
      <4> QED
        BY <4>2, <4>3
    <3> QED
      BY <3>2, <3>3
  <2>3. pc' \in {"run", "end", "exit"}
    BY <1>8, <1>2
  <2>4. \A q \in Perms : obj'[q] \in Objects(q)
    BY <1>10 DEF LoopInv, LoopShape, b
  <2>5. \A q \in Perms : left'[q] \subseteq Seeds[q]
    BY <1>11, <1>5 DEF LoopInv, LoopTypeOK
  <2>6. \A q \in Perms : /\ obj'[q].best \in Nat /\ obj'[q].cand \in Seeds[q] \cup {None}
                          /\ obj'[q].cache \subseteq Sources /\ Cardinality(obj'[q].cache) <= CacheMax
    BY <2>4 DEF Objects
  <2> QED
    BY <2>1, <2>2, <2>3, <2>5, <2>6, <1>c DEF LoopTypeOK
<1>14. LoopShape'
  <2>1. \A q \in Perms : obj'[q] \in Objects(q)
    BY <1>10 DEF LoopInv, LoopShape, b
  <2>2. \A q \in Perms : seen'[q] \subseteq Sources
    <3>1. r.kind = "error" \/ r.of \in Sources
      BY <1>6, <1>9 DEF Candidates
    <3> QED
      BY <3>1, <1>12 DEF LoopInv, LoopShape
  <2>3. outputs' \in Seq(Perms \X Candidates)
    <3>1. out => <<p, r>> \in Perms \X Candidates
      BY <1>3, <1>9
    <3> QED
      BY <3>1, <1>7 DEF LoopInv, LoopShape
  <2> QED
    BY <2>1, <2>2, <2>3, <1>10, <1>11, <1>12, <1>c DEF LoopShape
<1>15. EverySeedOnce'
  <2>1. ASSUME Random = {}
        PROVE  context'.iteration + context'.internal = Total(Seeds) - Total(left')
    <3> DEFINE L == UNION {{q} \X left[q] : q \in Perms}
               M == UNION {{q} \X left'[q] : q \in Perms}
    <3>1. SeedsNow(p) = left[p]
      BY <2>1 DEF SeedsNow
    <3>2. \A q \in Perms : \A x : <<q, x>> \in M <=> <<q, x>> \in L /\ <<q, x>> # <<p, s>>
      BY <3>1, <1>3, <1>11
    <3>3. M = L \ {<<p, s>>} /\ <<p, s>> \in L
      BY <3>1, <3>2, <1>3
    <3>4. IsFiniteSet(L) /\ Total(left) = Cardinality(L) /\ Cardinality(L) \in Nat /\ Total(Seeds) \in Nat
      BY LeftCounts DEF LoopInv, LoopTypeOK, Total
    <3>5. Total(left') = Total(left) - 1
      <4>1. Cardinality(L \ {<<p, s>>}) = Cardinality(L) - 1
        BY <3>3, <3>4, FS_RemoveElement
      <4> QED
        BY <4>1, <3>3, <3>4 DEF Total
    <3>6. context'.iteration + context'.internal = context.iteration + context.internal + 1
      BY <1>7 DEF LoopInv, LoopTypeOK
    <3>7. context.iteration + context.internal = Total(Seeds) - Total(left)
      BY <2>1 DEF LoopInv, EverySeedOnce
    <3> QED
      BY <3>4, <3>5, <3>6, <3>7
  <2>2. pc' = "end" => StopOnZero /\ found'
    BY <1>2, <1>8
  <2> QED
    BY <2>1, <2>2, <1>c DEF EverySeedOnce, Total
<1>16. StillInTurn'
  <2>1. \A q \in Perms : left'[q] # {} => \E i \in 1..Len(order) : order[i] = q
    <3>1. order[Slot] = p /\ Slot \in 1..Len(order)
      BY <1>2, TurnInList DEF Turn, p
    <3> QED
      BY <3>1, <1>11 DEF LoopInv, StillInTurn
  <2>2. pc' = "end" => StopOnZero /\ found'
    BY <1>2, <1>8
  <2> QED
    BY <2>1, <2>2, <1>2, <1>c DEF StillInTurn
<1>17. r.kind # "error" => /\ Scoring(o, e) /\ r \in Candidates /\ r.of \in Sources /\ r.score = Score[r.of]
                          /\ r = Stripped(o, Found(o, r.of))
  BY <1>6, <1>9 DEF Scoring, Candidates, r
<1>18. r.kind = "error" => n.cache = o.cache /\ ~ out
  BY <1>6, <1>9 DEF Scoring, Candidates, r
<1>19. o.cache \subseteq n.cache /\ (r.kind # "error" => n.cache \subseteq o.cache \cup {r.of})
  BY <1>17, <1>18 DEF Scoring, n, r
<1>20. FromSeen'
  <2> SUFFICES ASSUME NEW q \in Perms
               PROVE  /\ obj'[q].cache \subseteq seen'[q]
                      /\ \A h \in obj'[q].hashes : h = BaseHash \/ \E src \in seen'[q] : Hash[src] = h
    BY <1>c DEF FromSeen
  <2>1. /\ obj[q].cache \subseteq seen[q]
        /\ \A h \in obj[q].hashes : h = BaseHash \/ \E src \in seen[q] : Hash[src] = h
    BY DEF LoopInv, FromSeen
  <2>2. CASE q # p
    BY <2>1, <2>2, <1>10, <1>12 DEF b
  <2>3. CASE q = p
    <3>1. /\ o.cache \subseteq seen[p]
          /\ \A h \in o.hashes : h = BaseHash \/ \E src \in seen[p] : Hash[src] = h
      BY <2>1, <2>3 DEF o
    <3>2. b.cache \subseteq seen'[p]
      BY <3>1, <1>10, <1>12, <1>18, <1>19
    <3>3. \A h \in b.hashes : h \in o.hashes \/ (h = Hash[r.of] /\ r.of \in seen'[p])
      BY <1>10, <1>12, <1>18
    <3>4. seen[p] \subseteq seen'[p]
      BY <1>12
    <3> QED
      BY <3>1, <3>2, <3>3, <3>4, <2>3 DEF b
  <2> QED
    BY <2>2, <2>3
<1>21. BestIsLeast'
  <2> SUFFICES ASSUME Threshold = None, NEW q \in Perms
               PROVE  obj'[q].best = Min({BaseScore} \cup {Score[src] : src \in seen'[q]})
    BY <1>c DEF BestIsLeast
  <2>1. obj[q].best = Min({BaseScore} \cup {Score[src] : src \in seen[q]})
    BY DEF LoopInv, BestIsLeast
  <2>2. CASE q # p
    BY <2>1, <2>2, <1>10, <1>12 DEF b
  <2>3. CASE q = p
    <3> DEFINE S == {BaseScore} \cup {Score[src] : src \in seen[p]}
    <3>1. o.best = Min(S) /\ S \in SUBSET Nat /\ S # {}
      BY <2>1, <2>3, <1>4, PlanFacts DEF o
    <3>2. CASE r.kind = "error"
      BY <3>1, <3>2, <2>3, <1>10, <1>12, <1>18 DEF b
    <3>3. CASE r.kind # "error"
      <4>1. {BaseScore} \cup {Score[src] : src \in seen'[p]} = S \cup {r.score}
        BY <3>3, <1>12, <1>17
      <4>2. r.score \in Nat /\ o.best \in Nat
        BY <3>3, <1>17, <1>4, PlanFacts DEF Objects
      <4> HIDE DEF S
      <4>3. Min(S \cup {r.score}) = IF r.score < o.best THEN r.score ELSE o.best
        BY <3>1, <4>2, MinGrows
      <4>4. b.best = IF r.score < o.best THEN r.score ELSE o.best
        <5>1. CASE out
          BY <5>1, <1>10
        <5>2. CASE ~ out
          <6>1. ~ ShouldOutput(o, r)
            <7>1. ~ ShouldOutput(n, r)
              BY <5>2, <3>3, <1>17 DEF out, Candidates
            <7> QED
              BY <7>1, <1>6, ShouldOutputReads DEF n
          <6>2. o.best <= r.score
            BY <6>1, <3>3, <1>3, <1>17, NotBetter DEF o
          <6> QED
            BY <6>2, <5>2, <4>2, <1>10
        <5> QED
          BY <5>1, <5>2
      <4> QED
        BY <4>1, <4>3, <4>4, <2>3 DEF b
    <3> QED
      BY <3>2, <3>3
  <2> QED
    BY <2>2, <2>3
\* The caches and hashes of an object grow, and a full cache stays full.
<1>22. \A q \in Perms :
         /\ obj[q].hashes \subseteq obj'[q].hashes /\ obj[q].cache \subseteq obj'[q].cache
         /\ Cardinality(obj[q].cache) = CacheMax => Cardinality(obj'[q].cache) = CacheMax
  <2> SUFFICES ASSUME NEW q \in Perms
               PROVE  /\ obj[q].hashes \subseteq obj'[q].hashes /\ obj[q].cache \subseteq obj'[q].cache
                      /\ Cardinality(obj[q].cache) = CacheMax => Cardinality(obj'[q].cache) = CacheMax
    OBVIOUS
  <2>1. obj[q].hashes \subseteq obj'[q].hashes /\ obj[q].cache \subseteq obj'[q].cache
    BY <1>10, <1>19 DEF b, o
  <2>2. obj'[q] \in Objects(q)
    BY <1>10 DEF LoopInv, LoopShape, b
  <2>3. IsFiniteSet(obj'[q].cache) /\ Cardinality(obj'[q].cache) <= CacheMax
    BY <2>2 DEF Objects
  <2>4. Cardinality(obj[q].cache) <= Cardinality(obj'[q].cache)
    BY <2>1, <2>3, FS_Subset
  <2>5. Cardinality(obj'[q].cache) \in Nat /\ CacheMax \in Nat
    BY <2>3, FS_CardinalityType, PlanFacts
  <2> QED
    BY <2>1, <2>3, <2>4, <2>5
\* What is written now is worth it.
<1>23. out => /\ r.hash = Hash[r.of] /\ r.hash \notin o.hashes /\ r.of \notin o.cache
              /\ r.score # 0 => r.hash \in b.hashes
              /\ r.of \in b.cache \/ Cardinality(b.cache) = CacheMax
  <2> SUFFICES ASSUME out
               PROVE  /\ r.hash = Hash[r.of] /\ r.hash \notin o.hashes /\ r.of \notin o.cache
                      /\ r.score # 0 => r.hash \in b.hashes
                      /\ r.of \in b.cache \/ Cardinality(b.cache) = CacheMax
    OBVIOUS
  <2>1. r.hash = Hash[r.of] /\ r.hash \notin o.hashes /\ r.hash # None
        /\ (r.score # 0 => r.hash \in b.hashes)
    BY <1>10
  <2>2. r.kind # "error" /\ Scoring(o, e)
    BY <1>9, <1>18
  <2>3. r.of \in b.cache \/ Cardinality(b.cache) = CacheMax
    BY <2>2, <1>10 DEF Scoring, n, r
  <2>4. r.of \notin o.cache
    <3>1. SUFFICES ASSUME r.of \in o.cache PROVE FALSE
      OBVIOUS
    <3> DEFINE f == Found(o, r.of)
    <3>2. f = [kind |-> "candidate", score |-> Score[r.of], hash |-> None, sent |-> TRUE, of |-> r.of]
      BY <3>1 DEF Found, Candidate
    <3>3. r = f \/ r = [f EXCEPT !.sent = FALSE, !.hash = None]
      BY <2>2, <1>17 DEF Stripped
    <3> HIDE DEF f
    <3>4. f.hash = None /\ [f EXCEPT !.sent = FALSE, !.hash = None].hash = None
      BY <3>2
    <3>5. r.hash = None
      BY <3>3, <3>4
    <3> QED
      BY <3>5, <2>1
  <2> QED
    BY <2>1, <2>3, <2>4
<1>24. outputs \in Seq(Perms \X Candidates)
  BY DEF LoopInv, LoopShape
<1>25. \A i \in 1..Len(outputs) : outputs[i][1] \in Perms /\ outputs[i][2] \in Candidates
  BY <1>24
<1>26. /\ out => /\ Len(outputs') = Len(outputs) + 1
                 /\ outputs'[Len(outputs) + 1] = <<p, r>>
                 /\ \A i \in 1..Len(outputs) : outputs'[i] = outputs[i]
       /\ ~ out => outputs' = outputs
  BY <1>7, <1>24
<1>27. Written'
  <2>1. \A i \in 1..Len(outputs) :
           /\ outputs[i][2].hash = Hash[outputs[i][2].of]
           /\ \/ outputs[i][2].score # 0 /\ outputs[i][2].hash \in obj'[outputs[i][1]].hashes
              \/ /\ outputs[i][2].score = 0
                 /\ \/ outputs[i][2].of \in obj'[outputs[i][1]].cache
                    \/ Cardinality(obj'[outputs[i][1]].cache) = CacheMax
    BY <1>22, <1>25 DEF LoopInv, Written
  <2>2. CASE out
    <3>1. /\ r.hash = Hash[r.of]
          /\ \/ r.score # 0 /\ r.hash \in obj'[p].hashes
             \/ r.score = 0 /\ (r.of \in obj'[p].cache \/ Cardinality(obj'[p].cache) = CacheMax)
      BY <2>2, <1>23 DEF b
    <3> QED
      BY <2>1, <2>2, <3>1, <1>24, <1>26, <1>c DEF Written
  <2>3. CASE ~ out
    BY <2>1, <2>3, <1>26, <1>c DEF Written
  <2> QED
    BY <2>2, <2>3
<1>28. NoOutputTwice'
  <2>1. \A i, j \in 1..Len(outputs) :
           i < j /\ outputs[i][1] = outputs[j][1] =>
              \/ outputs[i][2].hash # outputs[j][2].hash
              \/ /\ outputs[i][2].score = 0
                 /\ \/ outputs[i][2].of # outputs[j][2].of
                    \/ Cardinality(obj'[outputs[i][1]].cache) = CacheMax
    BY <1>22, <1>25 DEF LoopInv, NoOutputTwice
  <2>2. CASE out
    <3>1. ASSUME NEW i \in 1..Len(outputs), outputs[i][1] = p, outputs[i][2].hash = r.hash
          PROVE  /\ outputs[i][2].score = 0
                 /\ outputs[i][2].of # r.of \/ Cardinality(obj'[p].cache) = CacheMax
      <4>1. /\ \/ outputs[i][2].score # 0 /\ outputs[i][2].hash \in o.hashes
               \/ /\ outputs[i][2].score = 0
                  /\ outputs[i][2].of \in o.cache \/ Cardinality(o.cache) = CacheMax
        BY <3>1 DEF LoopInv, Written, o
      <4>2. r.hash \notin o.hashes /\ r.of \notin o.cache
        BY <2>2, <1>23
      <4>3. Cardinality(o.cache) = CacheMax => Cardinality(obj'[p].cache) = CacheMax
        BY <1>22, <1>3 DEF o
      <4> QED
        BY <4>1, <4>2, <4>3, <3>1
    <3> SUFFICES ASSUME NEW i \in 1..Len(outputs'), NEW j \in 1..Len(outputs'),
                        i < j, outputs'[i][1] = outputs'[j][1]
                 PROVE  \/ outputs'[i][2].hash # outputs'[j][2].hash
                        \/ /\ outputs'[i][2].score = 0
                           /\ \/ outputs'[i][2].of # outputs'[j][2].of
                              \/ Cardinality(obj'[outputs'[i][1]].cache) = CacheMax
      BY <1>c DEF NoOutputTwice
    <3>2. i \in 1..Len(outputs) /\ outputs'[i] = outputs[i]
      BY <2>2, <1>24, <1>26
    <3>3. CASE j \in 1..Len(outputs)
      BY <3>2, <3>3, <2>1, <2>2, <1>26
    <3>4. CASE j \notin 1..Len(outputs)
      <4>1. outputs'[j] = <<p, r>>
        BY <3>4, <2>2, <1>24, <1>26
      <4>2. outputs'[j][1] = p /\ outputs'[j][2] = r
        BY <4>1
      <4> QED
        BY <3>1, <3>2, <4>2
    <3> QED
      BY <3>3, <3>4
  <2>3. CASE ~ out
    BY <2>1, <2>3, <1>26, <1>c DEF NoOutputTwice
  <2> QED
    BY <2>2, <2>3
<1>29. Broken = {} => (b.shown = 0 => b.last = 0)
  <2> SUFFICES ASSUME Broken = {}, b.shown = 0 PROVE b.last = 0
    OBVIOUS
  <2>1. n.shown = 0
    BY <1>10
  <2>2. None # 0
    BY PlanFacts
  <2>3. Scoring(o, e)
    BY <2>1, <2>2, <1>6
  <2> QED
    BY <2>1, <2>3, <1>10 DEF Scoring, n
<1>30. ZeroKnown'
  BY <1>29, <1>10, <1>c DEF LoopInv, ZeroKnown, b
<1>31. ZeroNotKept'
  <2> SUFFICES ASSUME ~ ForceRng, Broken = {}, keptZero' PROVE FALSE
    BY <1>c DEF ZeroNotKept
  <2>1. ~ keptZero
    BY DEF LoopInv, ZeroNotKept
  <2>2. e.kept /\ o.shown = 0
    BY <2>1, <1>1
  <2>3. o.last = 0
    BY <2>2, <1>3 DEF LoopInv, ZeroKnown, o
  <2>4. TRUE \in KeepChoices(p, o)
    BY <2>2, <1>6
  <2> QED
    BY <2>3, <2>4 DEF KeepChoices
<1> QED
  BY <1>13, <1>14, <1>15, <1>16, <1>20, <1>21, <1>27, <1>28, <1>30, <1>31 DEF LoopInv

-----------------------------------------------------------------------------
(* The loop.                                                               *)

LEMMA LoopNextInv ==
    ASSUME plan \in Plans, UNCHANGED plan, LoopInv, LoopNext
    PROVE  LoopInv'
BY CycleExhaustedInv, RoundInv, FinishInv DEF LoopNext

\* Nor does it matter to the loop what happens elsewhere.
LEMMA LoopStutterInv ==
    ASSUME UNCHANGED <<plan, loopVars>>, LoopInv
    PROVE  LoopInv'
<1>c. /\ Perms' = Perms /\ Seeds' = Seeds /\ Random' = Random /\ Sources' = Sources
      /\ Broken' = Broken /\ Score' = Score /\ Hash' = Hash /\ CacheMax' = CacheMax
      /\ ForceRng' = ForceRng /\ Threshold' = Threshold /\ StopOnZero' = StopOnZero
      /\ Candidates' = Candidates /\ \A p : Objects(p)' = Objects(p)
  BY PlanStays, ObjectsStay
<1>1. UNCHANGED <<order, at, left, obj, pc, context, found, seen, outputs, keptZero>>
  BY DEF loopVars, counts
<1>2. LoopTypeOK' /\ LoopShape'
  BY <1>1, <1>c DEF LoopInv, LoopTypeOK, LoopShape
<1>3. EverySeedOnce' /\ StillInTurn'
  BY <1>1, <1>c DEF LoopInv, EverySeedOnce, StillInTurn, Total
<1>4. FromSeen' /\ BestIsLeast'
  BY <1>1, <1>c DEF LoopInv, FromSeen, BestIsLeast
<1>5. Written' /\ NoOutputTwice'
  BY <1>1, <1>c DEF LoopInv, Written, NoOutputTwice
<1>6. ZeroKnown' /\ ZeroNotKept'
  BY <1>1, <1>c DEF LoopInv, ZeroKnown, ZeroNotKept
<1> QED
  BY <1>2, <1>3, <1>4, <1>5, <1>6 DEF LoopInv

=============================================================================
