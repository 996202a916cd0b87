--------------------------- MODULE PermRunProofs ---------------------------
(***************************************************************************)
(* The search of the permuter, in one process or with workers and          *)
(* connections, for any invocation: any directories, seeds, sources,       *)
(* scores, options, numbers of workers, connections and windows.           *)
(***************************************************************************)
EXTENDS PermMain, PermSingleProofs

-----------------------------------------------------------------------------
(* The parts of the invariant.                                             *)

\* What travels: results with their tasks, requests and messages.
Own(p) == {p} \X Seeds[p]
Results == {PermError} \cup Candidates
Senders == {Local} \cup Conns
Items ==
    [kind : {"ask", "message", "finished"}, src : Senders]
      \cup [kind : {"done"}, src : Senders, task : Tasks, res : Results]
Messages(p) ==
    [kind : {"init_done", "need_work", "disconnect", "eof"}]
      \cup [kind : {"result"}, task : Own(p), res : Results]
Connections(p) ==
    [pc : {"receive", "ask", "take", "closed"}, finished : BOOLEAN, queue : Seq(Own(p) \cup {Fin})]
Ends(p) ==
    [inbox : Seq(Messages(p)), away : SUBSET Own(p), asks : Nat, objs : [Cores -> Objects(p)], open : BOOLEAN]

MainShape ==
    /\ phase \in {"feeding", "signal", "finishing", "done", "exit", "stopped"}
    /\ DOMAIN seed_iterators = Perms /\ \A p \in Perms : seed_iterators[p] \subseteq Seeds[p]
    /\ ended \subseteq Perms /\ nextIt \in 0..Cardinality(Perms) - 1 /\ active \in Int
    /\ DOMAIN parent = Perms /\ \A p \in Perms : parent[p] \in Objects(p)
    /\ found_zero \in BOOLEAN /\ missed \in BOOLEAN /\ posted \subseteq Tasks
    /\ tasks \in Seq(Tasks \cup {Fin}) /\ feedback \in Seq(Items)
WorkShape ==
    /\ wpc \in [Workers -> {"poll", "wait", "work", "ask", "ended"}]
    /\ hand \in [Workers -> Tasks \cup {None}]
    /\ \A w \in Workers : hand[w] # None <=> wpc[w] = "work"
    /\ DOMAIN child = Workers
    /\ \A w \in Workers : DOMAIN child[w] = Perms /\ \A p \in Perms : child[w][p] \in Objects(p)
NetShape ==
    /\ DOMAIN conn = Conns /\ \A p \in Conns : conn[p] \in Connections(p)
    /\ DOMAIN net = Conns /\ \A p \in Conns : net[p] \in Ends(p)
RunShape == MainShape /\ WorkShape /\ NetShape

\* A perfect match may end the search early.
Searching == ~ (StopOnZero /\ found_zero)

\* The workers that are counted as active have not said yet that they ended.
Running == {w \in Workers : wpc[w] # "ended"}
ActiveCount == active = Cardinality(Running) + HowMany(feedback, {Gone(Local)})
NoMoreThanStarted == active <= Cardinality(Workers)

\* Every worker that runs is told so once.
TellsEach ==
    /\ phase \in {"feeding", "signal"} =>
         HowMany(tasks, {Fin}) = 0 /\ Running = Workers /\ HowMany(feedback, {Gone(Local)}) = 0
    /\ phase \in {"finishing", "done"} => HowMany(tasks, {Fin}) = Cardinality(Running)
    /\ phase \in {"finishing", "done"} /\ Workers # {} /\ tasks # <<>> => tasks[Len(tasks)] = Fin
    /\ phase = "done" => active = 0 /\ Conns = {} /\ Running = {}

\* What a worker has to say it says before it ends.
SaysBefore ==
    \A i \in 1..Len(feedback) :
        feedback[i].src = Local =>
            \/ feedback[i].kind = "finished"
            \/ Running # {}
            \/ \E j \in i + 1..Len(feedback) : feedback[j] = Gone(Local)
MessagesOnNet == \A i \in 1..Len(feedback) : feedback[i].kind = "message" => feedback[i].src \in Conns

\* The feeding goes on until the iterators are used up.
FeedsAll ==
    /\ \A p \in ended : seed_iterators[p] = {}
    /\ phase = "feeding" => Searching
    /\ phase \in {"signal", "finishing", "done"} /\ Searching => ended = Perms

\* The copies of an object: what they know is no worse than what they have scored.
Sound(o) ==
    /\ o.best <= BaseScore
    /\ \A h \in o.hashes : h = BaseHash \/ \E src \in Sources : Hash[src] = h /\ o.best <= Score[src]
    /\ Threshold = None => \A src \in o.cache : o.best <= Score[src]
Copies ==
    /\ \A p \in Perms : Sound(parent[p]) /\ ~ parent[p].served
    /\ \A w \in Workers : \A p \in Perms : Sound(child[w][p])
    /\ \A p \in Conns : \A c \in Cores : Sound(net[p].objs[c])

\* A source that an object makes no output of, and a result after which none of src is due.
Refuses(o, src) == ~ ShouldOutput(o, Candidate(src, Hash[src]))
Covers(r, src) ==
    /\ r.kind = "candidate" /\ r.sent /\ r.hash = Hash[r.of]
    /\ \/ Hash[r.of] = Hash[src] /\ (r.of = src \/ Score[src] # 0)
       \/ BestOnly /\ Score[r.of] < Score[src]
Settles(x, p, src) == x.kind \in {"done", "result"} /\ x.task[1] = p /\ Covers(x.res, src)
Settled(p, src, k) ==
    \/ Refuses(parent[p], src)
    \/ <<p, src>> \in written
    \/ \E i \in 1..k : Settles(feedback[i], p, src)
SettledNet(p, src, k) ==
    \/ Settled(p, src, Len(feedback))
    \/ \E i \in 1..k : Settles(net[p].inbox[i], p, src)

\* What an object leaves out is settled by what was sent earlier.
LeavesOut(o, src) == src \in o.cache \/ Refuses(o, src)
Unsent(x) == x.kind \in {"done", "result"} /\ x.res.kind = "candidate" /\ ~ x.res.sent
LeftOutSettled ==
    Searching =>
        /\ \A w \in Workers : \A p \in Perms : \A src \in Sources :
              LeavesOut(child[w][p], src) => Settled(p, src, Len(feedback))
        /\ \A p \in Conns : \A c \in Cores : \A src \in Sources :
              LeavesOut(net[p].objs[c], src) => SettledNet(p, src, Len(net[p].inbox))
        /\ \A j \in 1..Len(feedback) :
              Unsent(feedback[j]) => Settled(feedback[j].task[1], feedback[j].res.of, j - 1)
        /\ \A p \in Conns : \A j \in 1..Len(net[p].inbox) :
              Unsent(net[p].inbox[j]) => SettledNet(p, net[p].inbox[j].res.of, j - 1)

\* The main process knows of a score as good as n, or will when it reads on.
Plain == Conns = {} /\ OneSourceEach /\ Threshold = None /\ Searching
Offers(x, p, n) ==
    /\ x.kind = "done" /\ x.task[1] = p /\ x.res.kind = "candidate"
    /\ x.res.sent /\ x.res.hash # None /\ x.res.score <= n
Promised(p, n) == parent[p].best <= n \/ \E i \in 1..Len(feedback) : Offers(feedback[i], p, n)
Counted(t) == t \notin Broken /\ SourceOf(t) \notin Raising
ScoresPromised ==
    Plain =>
        /\ \A w \in Workers : \A p \in Perms : Promised(p, child[w][p].best)
        /\ \A t \in posted : Counted(t) => Promised(t[1], Score[SourceOf(t)])
        /\ \A i \in 1..Len(feedback) :
              feedback[i].kind = "done" /\ Counted(feedback[i].task) =>
                  Promised(feedback[i].task[1], Score[SourceOf(feedback[i].task)])

-----------------------------------------------------------------------------
(* The invocation stays, and what depends on it alone.                     *)

LEMMA RunPlanFacts ==
    ASSUME plan \in Plans
    PROVE  /\ IsFiniteSet(Workers) /\ Conns \subseteq Perms /\ (Workers # {} \/ Conns # {})
           /\ Cardinality(Workers) \in Nat
           /\ Threshold \in Int \cup {None}
           /\ Perms \subseteq Nat \ {0} /\ Local \notin Conns
           /\ Fin \notin Tasks /\ None \notin Tasks
           /\ \A p \in Perms : Own(p) \subseteq Tasks
           /\ \A t \in Tasks : t = <<t[1], t[2]>> /\ t[1] \in Perms /\ t[2] \in Seeds[t[1]]
<1>1. /\ IsFiniteSet(Workers) /\ Conns \subseteq Perms /\ (Workers # {} \/ Conns # {})
      /\ Threshold \in Int \cup {None}
      /\ \A p \in Perms : \A s \in Seeds[p] : <<p, s>> # None
  BY PermuterAssumption DEF Workers, Conns, Perms, Threshold, Seeds
<1>2. Perms \subseteq Nat \ {0}
  BY PlanFacts
<1>3. Local \notin Conns
  BY <1>1, <1>2 DEF Local
<1>4. \A t \in Tasks : t = <<t[1], t[2]>> /\ t[1] \in Perms /\ t[2] \in Seeds[t[1]]
  BY DEF Tasks
<1>5. Fin \notin Tasks /\ None \notin Tasks
  BY <1>1, <1>4 DEF Fin
<1>6. \A p \in Perms : Own(p) \subseteq Tasks
  BY DEF Own, Tasks
<1> QED
  BY <1>1, <1>2, <1>3, <1>4, <1>5, <1>6, FS_CardinalityType

LEMMA RunPlanStays ==
    ASSUME UNCHANGED plan
    PROVE  /\ Perms' = Perms /\ Seeds' = Seeds /\ Random' = Random /\ Sources' = Sources
           /\ Broken' = Broken /\ Raising' = Raising /\ Yields' = Yields
           /\ Score' = Score /\ Hash' = Hash /\ CacheMax' = CacheMax
           /\ BestOnly' = BestOnly /\ BetterOnly' = BetterOnly /\ Cores' = Cores
           /\ ForceRng' = ForceRng /\ Threshold' = Threshold /\ StopOnZero' = StopOnZero
           /\ Workers' = Workers /\ Conns' = Conns
           /\ Tasks' = Tasks /\ Results' = Results /\ Senders' = Senders /\ Items' = Items
<1>1. /\ Perms' = Perms /\ Seeds' = Seeds /\ Random' = Random /\ Sources' = Sources
      /\ Broken' = Broken /\ Raising' = Raising /\ Yields' = Yields
      /\ Score' = Score /\ Hash' = Hash /\ CacheMax' = CacheMax
      /\ BestOnly' = BestOnly /\ BetterOnly' = BetterOnly /\ Cores' = Cores
      /\ ForceRng' = ForceRng /\ Threshold' = Threshold /\ StopOnZero' = StopOnZero
      /\ Workers' = Workers /\ Conns' = Conns
  BY DEF Perms, Seeds, Random, Sources, Broken, Raising, Yields, Score, Hash, CacheMax, BestOnly,
         BetterOnly, ForceRng, Threshold, StopOnZero, Workers, Conns, Cores
<1>2. Tasks' = Tasks /\ Senders' = Senders
  BY <1>1 DEF Tasks, Senders
<1>3. Results' = Results
  BY PlanStays DEF Results
<1>4. Items' = Items
  BY <1>2, <1>3 DEF Items
<1> QED
  BY <1>1, <1>2, <1>3, <1>4

LEMMA PlacesStay ==
    ASSUME UNCHANGED plan
    PROVE  \A p : /\ Objects(p)' = Objects(p) /\ Own(p)' = Own(p) /\ Messages(p)' = Messages(p)
                  /\ Connections(p)' = Connections(p) /\ Ends(p)' = Ends(p)
<1> SUFFICES ASSUME NEW p
             PROVE  /\ Objects(p)' = Objects(p) /\ Own(p)' = Own(p) /\ Messages(p)' = Messages(p)
                    /\ Connections(p)' = Connections(p) /\ Ends(p)' = Ends(p)
  OBVIOUS
<1>1. Objects(p)' = Objects(p) /\ Own(p)' = Own(p)
  BY ObjectsStay, RunPlanStays DEF Own
<1>2. Messages(p)' = Messages(p)
  BY <1>1, RunPlanStays DEF Messages
<1> QED
  BY <1>1, <1>2, RunPlanStays DEF Connections, Ends

\* What is known of the objects and results depends on the invocation alone.
LEMMA KnowledgeStays ==
    ASSUME UNCHANGED plan
    PROVE  /\ \A o : Sound(o)' <=> Sound(o)
           /\ \A o, src : (Refuses(o, src)' <=> Refuses(o, src)) /\ (LeavesOut(o, src)' <=> LeavesOut(o, src))
           /\ \A r, src : Covers(r, src)' <=> Covers(r, src)
           /\ \A x, p, src : Settles(x, p, src)' <=> Settles(x, p, src)
<1>1. \A o : Sound(o)' <=> Sound(o)
  BY RunPlanStays DEF Sound
<1>2. \A o, src : Refuses(o, src)' <=> Refuses(o, src)
  BY RunPlanStays DEF Refuses, ShouldOutput, Wanted, Candidate
<1>3. \A o, src : LeavesOut(o, src)' <=> LeavesOut(o, src)
  BY <1>2 DEF LeavesOut
<1>4. \A r, src : Covers(r, src)' <=> Covers(r, src)
  BY RunPlanStays DEF Covers
<1>5. \A x, p, src : Settles(x, p, src)' <=> Settles(x, p, src)
  BY <1>4 DEF Settles
<1> QED
  BY <1>1, <1>2, <1>3, <1>4, <1>5

-----------------------------------------------------------------------------
(* What evaluating and posting make of an object.                          *)

LEMMA RefusesIs ==
    ASSUME plan \in Plans, NEW p \in Perms, NEW o \in Objects(p), NEW src \in Sources
    PROVE  Refuses(o, src) <=>
             \/ Score[src] > BaseScore
             \/ /\ ~ o.served
                /\ \/ BestOnly /\ Score[src] > o.best
                   \/ BetterOnly /\ Score[src] = BaseScore
                   \/ Threshold # None /\ ~ (Score[src] < Threshold)
             \/ Hash[src] \in o.hashes
<1> DEFINE r == Candidate(src, Hash[src])
<1>1. r.score = Score[src] /\ r.hash = Hash[src] /\ r.sent = TRUE
  BY DEF Candidate
<1>2. Hash[src] # None /\ Score[src] \in Nat /\ BaseScore \in Nat
  BY PlanFacts
<1> HIDE DEF r
<1> QED
  BY <1>1, <1>2 DEF Refuses, ShouldOutput, Wanted, r

\* Two sources that should_output cannot tell apart, or of which it favours the first.
LEMMA RefusalCarries ==
    ASSUME plan \in Plans, NEW p \in Perms, NEW o \in Objects(p), Sound(o), ~ o.served,
           NEW src \in Sources, NEW other \in Sources, Refuses(o, src),
           Hash[src] = Hash[other] \/ (BestOnly /\ Score[src] < Score[other])
    PROVE  Refuses(o, other)
<1>1. Score[src] \in Nat /\ Score[other] \in Nat /\ BaseScore \in Nat /\ o.best \in Nat
      /\ Threshold \in Int \cup {None}
  BY PlanFacts, RunPlanFacts DEF Objects
<1>2. CASE Hash[src] = Hash[other]
  <2>1. Score[src] = Score[other]
    BY <1>2, SameCode
  <2> QED
    BY <2>1, <1>2, RefusesIs
<1>3. CASE BestOnly /\ Score[src] < Score[other]
  <2>1. CASE Hash[src] \in o.hashes
    <3>1. Hash[src] = BaseHash \/ \E x \in Sources : Hash[x] = Hash[src] /\ o.best <= Score[x]
      BY <2>1 DEF Sound
    <3>2. Score[src] = BaseScore \/ o.best <= Score[src]
      BY <3>1, SameCode
    <3>3. Score[other] > BaseScore \/ Score[other] > o.best
      BY <3>2, <1>1, <1>3
    <3> QED
      BY <3>3, <1>3, RefusesIs
  <2>2. CASE Hash[src] \notin o.hashes
    <3>1. \/ Score[src] > BaseScore
          \/ BestOnly /\ Score[src] > o.best
          \/ BetterOnly /\ Score[src] = BaseScore
          \/ Threshold # None /\ ~ (Score[src] < Threshold)
      BY <2>2, RefusesIs
    <3>2. \/ Score[other] > BaseScore
          \/ BestOnly /\ Score[other] > o.best
          \/ Threshold # None /\ ~ (Score[other] < Threshold)
      BY <3>1, <1>1, <1>3
    <3> QED
      BY <3>2, RefusesIs
  <2> QED
    BY <2>1, <2>2
<1> QED
  BY <1>2, <1>3

\* An object after a result was recorded or passed over.
Told(o, r) == IF ShouldOutput(o, r) THEN RecordResult(o, r) ELSE o

LEMMA AfterTelling ==
    ASSUME plan \in Plans, NEW p \in Perms, NEW o \in Objects(p), NEW r \in Candidates
    PROVE  /\ Told(o, r) \in Objects(p)
           /\ Told(o, r).best <= o.best /\ o.hashes \subseteq Told(o, r).hashes
           /\ Told(o, r).cache = o.cache /\ Told(o, r).served = o.served
           /\ \A src \in Sources : Refuses(o, src) => Refuses(Told(o, r), src)
           /\ Told(o, r).best = o.best \/ (r.sent /\ r.hash # None /\ Told(o, r).best = r.score)
<1> DEFINE n == Told(o, r)
<1>1. o.best \in Nat /\ r.score \in Nat
  BY DEF Objects, Candidates
<1>2. CASE ShouldOutput(o, r)
  <2>1. n = RecordResult(o, r)
    BY <1>2 DEF Told
  <2> HIDE DEF n
  <2>2. /\ n \in Objects(p) /\ n.cache = o.cache /\ n.served = o.served
        /\ n.best = IF r.score < o.best THEN r.score ELSE o.best
        /\ n.hashes = IF r.score # 0 THEN o.hashes \cup {r.hash} ELSE o.hashes
    BY <2>1, <1>2, RecordedResult
  <2>3. n.best <= o.best /\ o.hashes \subseteq n.hashes
    BY <2>2, <1>1
  <2>4. r.sent /\ r.hash # None
    BY <1>2 DEF ShouldOutput
  <2>5. \A src \in Sources : Refuses(o, src) => Refuses(n, src)
    <3> SUFFICES ASSUME NEW src \in Sources, Refuses(o, src) PROVE Refuses(n, src)
      OBVIOUS
    <3>1. Score[src] \in Nat /\ n.best \in Nat
      BY <2>2, PlanFacts DEF Objects
    <3>2. Score[src] > o.best => Score[src] > n.best
      BY <3>1, <2>3, <1>1
    <3> QED
      BY <3>2, <2>2, <2>3, RefusesIs
  <2> QED
    BY <2>2, <2>3, <2>4, <2>5 DEF n
<1>3. CASE ~ ShouldOutput(o, r)
  BY <1>1, <1>3 DEF Told
<1> QED
  BY <1>2, <1>3

\* It stays sound when its cache is: what is recorded is the score of a source.
LEMMA TellingIsSound ==
    ASSUME plan \in Plans, NEW p \in Perms, NEW o \in Objects(p), NEW r \in Candidates,
           o.best <= BaseScore,
           \A h \in o.hashes : h = BaseHash \/ \E src \in Sources : Hash[src] = h /\ o.best <= Score[src]
    PROVE  /\ Told(o, r).best <= BaseScore
           /\ \A h \in Told(o, r).hashes :
                 h = BaseHash \/ \E src \in Sources : Hash[src] = h /\ Told(o, r).best <= Score[src]
<1> DEFINE n == Told(o, r)
<1>1. /\ o.best \in Nat /\ r.score \in Nat /\ BaseScore \in Nat /\ r.of \in Sources /\ r.score = Score[r.of]
      /\ \A src \in Sources : Score[src] \in Nat
  BY PlanFacts DEF Objects, Candidates
<1>2. CASE ShouldOutput(o, r)
  <2>1. n = RecordResult(o, r)
    BY <1>2 DEF Told
  <2> HIDE DEF n
  <2>2. /\ n.best = IF r.score < o.best THEN r.score ELSE o.best
        /\ n.hashes = IF r.score # 0 THEN o.hashes \cup {r.hash} ELSE o.hashes
        /\ r.hash = Hash[r.of]
    BY <2>1, <1>2, RecordedResult
  <2>3. n.best <= o.best /\ n.best <= r.score /\ n.best \in Nat
    BY <2>2, <1>1
  <2>4. ASSUME NEW h \in n.hashes, h # BaseHash
        PROVE  \E src \in Sources : Hash[src] = h /\ n.best <= Score[src]
    <3>1. CASE h \in o.hashes
      <4>1. PICK src \in Sources : Hash[src] = h /\ o.best <= Score[src]
        BY <3>1, <2>4
      <4> QED
        BY <4>1, <2>3, <1>1
    <3>2. CASE h = r.hash
      BY <3>2, <2>2, <2>3, <1>1
    <3> QED
      BY <3>1, <3>2, <2>2
  <2>5. n.best <= BaseScore
    BY <2>3, <1>1
  <2> QED
    BY <2>4, <2>5 DEF n
<1>3. CASE ~ ShouldOutput(o, r)
  BY <1>3 DEF Told
<1> QED
  BY <1>2, <1>3

\* Posting a result settles whatever it covers.
LEMMA TellingSettles ==
    ASSUME plan \in Plans, NEW p \in Perms, NEW o \in Objects(p), Sound(o), ~ o.served,
           NEW r \in Candidates
    PROVE  /\ \A src \in Sources :
                Covers(r, src) => Refuses(Told(o, r), src) \/ (ShouldOutput(o, r) /\ r.of = src)
           /\ Threshold = None /\ r.sent /\ r.hash # None => Told(o, r).best <= r.score
<1> DEFINE n == Told(o, r)
<1>1. /\ o.best \in Nat /\ r.score \in Nat /\ BaseScore \in Nat /\ r.of \in Sources /\ r.score = Score[r.of]
      /\ r.hash \in {None, Hash[r.of]} /\ \A src \in Sources : Score[src] \in Nat
  BY PlanFacts DEF Objects, Candidates
<1>2. CASE ShouldOutput(o, r)
  <2>1. n = RecordResult(o, r)
    BY <1>2 DEF Told
  <2> HIDE DEF n
  <2>2. /\ n \in Objects(p) /\ n.served = o.served
        /\ n.best = IF r.score < o.best THEN r.score ELSE o.best
        /\ n.hashes = IF r.score # 0 THEN o.hashes \cup {r.hash} ELSE o.hashes
        /\ r.hash = Hash[r.of]
    BY <2>1, <1>2, RecordedResult
  <2>3. n.best <= r.score /\ n.best \in Nat
    BY <2>2, <1>1
  <2>4. ASSUME NEW src \in Sources, Covers(r, src), r.of # src
        PROVE  Refuses(n, src)
    <3>1. CASE Hash[r.of] = Hash[src] /\ Score[src] # 0
      <4>1. r.score # 0
        BY <3>1, <1>1, SameCode
      <4>2. Hash[src] \in n.hashes
        BY <4>1, <3>1, <2>2
      <4> QED
        BY <4>2, <2>2, RefusesIs
    <3>2. CASE BestOnly /\ Score[r.of] < Score[src]
      <4>1. Score[src] > n.best
        BY <3>2, <2>3, <1>1
      <4> QED
        BY <4>1, <3>2, <2>2, RefusesIs
    <3> QED
      BY <3>1, <3>2, <2>4 DEF Covers
  <2> QED
    BY <2>3, <2>4, <1>2 DEF n
<1>3. CASE ~ ShouldOutput(o, r)
  <2>1. n = o
    BY <1>3 DEF Told
  <2>2. r.sent /\ r.hash # None => Refuses(o, r.of)
    <3> SUFFICES ASSUME r.sent, r.hash # None PROVE Refuses(o, r.of)
      OBVIOUS
    <3>1. r.hash = Hash[r.of]
      BY <1>1
    <3> DEFINE c == Candidate(r.of, Hash[r.of])
    <3>2. c.score = r.score /\ c.hash = r.hash /\ c.sent
      BY <3>1, <1>1 DEF Candidate
    <3> HIDE DEF c
    <3>3. ~ ShouldOutput(o, c)
      BY <3>2, <1>3 DEF ShouldOutput, Wanted
    <3> QED
      BY <3>3 DEF Refuses, c
  <2>3. ASSUME NEW src \in Sources, Covers(r, src)
        PROVE  Refuses(o, src)
    <3>1. r.sent /\ r.hash # None
      BY <2>3, <1>1, PlanFacts DEF Covers
    <3>2. Refuses(o, r.of)
      BY <3>1, <2>2
    <3>3. Hash[r.of] = Hash[src] \/ (BestOnly /\ Score[r.of] < Score[src])
      BY <2>3 DEF Covers
    <3> QED
      BY <3>2, <3>3, <1>1, RefusalCarries
  <2>4. ASSUME Threshold = None, r.sent, r.hash # None
        PROVE  o.best <= r.score
    <3>1. Refuses(o, r.of)
      BY <2>4, <2>2
    <3>2. \/ Score[r.of] > BaseScore
          \/ BestOnly /\ Score[r.of] > o.best
          \/ BetterOnly /\ Score[r.of] = BaseScore
          \/ Hash[r.of] \in o.hashes
      BY <3>1, <2>4, <1>1, RefusesIs
    <3>3. Hash[r.of] \in o.hashes => Score[r.of] = BaseScore \/ o.best <= Score[r.of]
      <4> SUFFICES ASSUME Hash[r.of] \in o.hashes PROVE Score[r.of] = BaseScore \/ o.best <= Score[r.of]
        OBVIOUS
      <4>1. Hash[r.of] = BaseHash \/ \E x \in Sources : Hash[x] = Hash[r.of] /\ o.best <= Score[x]
        BY DEF Sound
      <4> QED
        BY <4>1, <1>1, SameCode
    <3>4. o.best <= BaseScore
      BY DEF Sound
    <3> QED
      BY <3>2, <3>3, <3>4, <1>1
  <2> QED
    BY <2>1, <2>3, <2>4
<1> QED
  BY <1>2, <1>3

\* An object after an evaluation whose result it records.
After(e) ==
    IF e.res.kind = "candidate" /\ ShouldOutput(e.obj, e.res) THEN RecordResult(e.obj, e.res) ELSE e.obj

\* Whatever the object leaves out from now on it did before, or its result covers it.
LEMMA AfterEvaluation ==
    ASSUME plan \in Plans, NEW p \in Perms, NEW o \in Objects(p), Sound(o), NEW s \in Seeds[p],
           NEW e \in Evaluations(p, o, s)
    PROVE  /\ After(e) \in Objects(p) /\ e.res \in Results /\ Sound(After(e))
           /\ \A src \in Sources : LeavesOut(After(e), src) => LeavesOut(o, src) \/ Covers(e.res, src)
           /\ e.res.kind = "candidate" /\ ~ e.res.sent => LeavesOut(o, e.res.of)
           /\ \/ After(e).best = o.best
              \/ /\ e.res.kind = "candidate" /\ e.res.sent /\ e.res.hash # None
                 /\ After(e).best = e.res.score
           /\ e.res.kind = "candidate" /\ Threshold = None =>
                (e.res.sent /\ e.res.hash # None) \/ o.best <= e.res.score
<1> DEFINE b == e.obj
           r == e.res
           n == After(e)
<1>1. /\ b \in Objects(p) /\ b.best = o.best /\ b.hashes = o.hashes /\ b.served = o.served
      /\ (r = PermError /\ b.cache = o.cache) \/ Scoring(o, e)
  BY EvaluationResult
<1>2. /\ o.best <= BaseScore
      /\ \A h \in o.hashes : h = BaseHash \/ \E src \in Sources : Hash[src] = h /\ o.best <= Score[src]
  BY DEF Sound
<1>3. CASE r = PermError /\ b.cache = o.cache
  <2>1. r.kind = "error" /\ n = b /\ r \in Results
    BY <1>3 DEF PermError, After, Results
  <2> HIDE DEF n, b, r
  <2>2. \A src \in Sources : Refuses(b, src) <=> Refuses(o, src)
    BY <1>1, ShouldOutputReads DEF Refuses
  <2>3. Sound(b)
    BY <1>1, <1>3 DEF Sound
  <2>4. \A src \in Sources : LeavesOut(n, src) => LeavesOut(o, src)
    BY <2>1, <2>2, <1>3 DEF LeavesOut
  <2>5. n \in Objects(p) /\ n.best = o.best /\ Sound(n)
    BY <2>1, <2>3, <1>1
  <2>6. r.kind # "candidate"
    BY <2>1
  <2> QED
    BY <2>1, <2>4, <2>5, <2>6 DEF n, r
<1>4. CASE Scoring(o, e)
  <2> DEFINE x == r.of
             f == Found(o, x)
  <2>1. /\ r \in Candidates /\ r.kind = "candidate" /\ r \in Results /\ x \in Sources /\ r.score = Score[x]
        /\ r.hash \in {None, Hash[x]}
    BY <1>4 DEF Scoring, Candidates, Results
  <2>2. /\ r = Stripped(o, f)
        /\ b.cache = o.cache \/ b.cache = o.cache \cup {x}
    BY <1>4 DEF Scoring
  <2>3. n = Told(b, r)
    BY <2>1 DEF Told, After
  <2>4. Hash[x] # None /\ Score[x] \in Nat /\ o.best \in Nat
    BY <2>1, PlanFacts DEF Objects
  <2> HIDE DEF n, b
  <2>5. /\ f.kind = "candidate" /\ f.score = Score[x] /\ f.sent = TRUE /\ f.of = x
        /\ f.hash = IF x \in o.cache THEN None ELSE Hash[x]
    BY DEF Found, Candidate
  <2>6. ShouldOutput(o, f) <=> x \notin o.cache /\ ~ Refuses(o, x)
    <3> DEFINE c == Candidate(x, Hash[x])
    <3>1. /\ c.score = f.score /\ c.sent = TRUE /\ c.hash = Hash[x]
          /\ Refuses(o, x) <=> ~ ShouldOutput(o, c)
      BY <2>5 DEF Candidate, Refuses
    <3> HIDE DEF c, f
    <3>2. CASE x \in o.cache
      BY <3>2, <2>5 DEF ShouldOutput
    <3>3. CASE x \notin o.cache
      <4>1. f.hash = c.hash /\ f.sent = c.sent
        BY <3>1, <3>3, <2>5
      <4>2. ShouldOutput(o, f) <=> ShouldOutput(o, c)
        BY <4>1, <3>1 DEF ShouldOutput, Wanted
      <4> QED
        BY <4>2, <3>1, <3>3
    <3> QED
      BY <3>2, <3>3
  <2>7. r = f \/ (~ ShouldOutput(o, f) /\ r = [f EXCEPT !.sent = FALSE, !.hash = None])
    BY <2>2 DEF Stripped
  <2>8. (r.sent = TRUE /\ r.hash = f.hash) \/ (r.sent = FALSE /\ r.hash = None /\ ~ ShouldOutput(o, f))
    <3>1. [f EXCEPT !.sent = FALSE, !.hash = None].sent = FALSE
          /\ [f EXCEPT !.sent = FALSE, !.hash = None].hash = None
      BY DEF Found, Candidate
    <3> HIDE DEF f, r
    <3> QED
      BY <3>1, <2>5, <2>7
  <2> HIDE DEF r, f
  <2>9. ~ LeavesOut(o, x) => r.sent /\ r.hash = Hash[x] /\ ShouldOutput(b, r)
    <3> SUFFICES ASSUME ~ LeavesOut(o, x) PROVE r.sent /\ r.hash = Hash[x] /\ ShouldOutput(b, r)
      OBVIOUS
    <3>1. x \notin o.cache /\ ShouldOutput(o, f)
      BY <2>6 DEF LeavesOut
    <3>2. r.sent /\ r.hash = Hash[x]
      BY <3>1, <2>5, <2>8
    <3>3. r.hash = f.hash /\ r.sent = TRUE /\ r.score = f.score
      BY <3>1, <2>1, <2>5, <2>8
    <3>4. ShouldOutput(o, r)
      BY <3>1, <3>3 DEF ShouldOutput, Wanted
    <3> QED
      BY <3>2, <3>4, <1>1, ShouldOutputReads
  <2>10. /\ n \in Objects(p) /\ n.cache = b.cache /\ n.best <= b.best /\ n.served = o.served
         /\ n.best = o.best \/ (r.sent /\ r.hash # None /\ n.best = r.score)
    BY <2>1, <2>3, <1>1, AfterTelling
  <2>11. Threshold = None /\ LeavesOut(o, x) => o.best <= r.score
    <3> SUFFICES ASSUME Threshold = None, LeavesOut(o, x) PROVE o.best <= r.score
      OBVIOUS
    <3>1. CASE x \in o.cache
      BY <3>1, <2>1 DEF Sound
    <3>2. CASE Refuses(o, x)
      <4>1. \/ Score[x] > BaseScore
            \/ BestOnly /\ Score[x] > o.best
            \/ BetterOnly /\ Score[x] = BaseScore
            \/ Hash[x] \in o.hashes
        BY <3>2, <2>1, RefusesIs
      <4>2. Hash[x] \in o.hashes => Score[x] = BaseScore \/ o.best <= Score[x]
        <5> SUFFICES ASSUME Hash[x] \in o.hashes PROVE Score[x] = BaseScore \/ o.best <= Score[x]
          OBVIOUS
        <5>1. Hash[x] = BaseHash \/ \E y \in Sources : Hash[y] = Hash[x] /\ o.best <= Score[y]
          BY <1>2
        <5> QED
          BY <5>1, <2>1, SameCode
      <4> QED
        BY <4>1, <4>2, <2>1, <2>4, <1>2, PlanFacts
    <3> QED
      BY <3>1, <3>2 DEF LeavesOut
  <2>12. n.best <= BaseScore
         /\ \A h \in n.hashes : h = BaseHash \/ \E src \in Sources : Hash[src] = h /\ n.best <= Score[src]
    BY <1>1, <1>2, <2>1, <2>3, TellingIsSound
  <2>13. Sound(n)
    <3> SUFFICES ASSUME Threshold = None, NEW src \in b.cache PROVE n.best <= Score[src]
      BY <2>10, <2>12 DEF Sound
    <3>1. n.best <= o.best /\ n.best \in Nat
      <4>1. n.best <= b.best
        BY <2>1, <2>3, <1>1, AfterTelling
      <4> QED
        BY <4>1, <1>1, <2>10 DEF Objects
    <3>2. CASE src \in o.cache
      <4>1. o.best <= Score[src] /\ Score[src] \in Nat
        BY <3>2, PlanFacts DEF Sound, Objects
      <4> QED
        BY <4>1, <3>1, <2>4
    <3>3. CASE src = x
      <4>1. CASE LeavesOut(o, x)
        BY <4>1, <3>1, <3>3, <2>1, <2>4, <2>11
      <4>2. CASE ~ LeavesOut(o, x)
        <5>1. ShouldOutput(b, r)
          BY <4>2, <2>9
        <5>2. n.best = IF r.score < b.best THEN r.score ELSE b.best
          BY <5>1, <1>1, <2>1, <2>3, RecordedResult DEF Told
        <5> QED
          BY <5>2, <3>3, <2>1, <2>4, <1>1
      <4> QED
        BY <4>1, <4>2
    <3> QED
      BY <3>2, <3>3, <2>2
  <2>14. ASSUME NEW src \in Sources, LeavesOut(n, src), ~ LeavesOut(o, src)
         PROVE  Covers(r, src)
    <3>1. CASE src \in n.cache
      <4>1. src = x
        BY <3>1, <2>2, <2>10, <2>14 DEF LeavesOut
      <4> QED
        BY <4>1, <2>1, <2>9, <2>14 DEF Covers, r
    <3>2. CASE Refuses(n, src)
      <4>1. ShouldOutput(b, r)
        <5>1. SUFFICES ASSUME ~ ShouldOutput(b, r) PROVE FALSE
          OBVIOUS
        <5>2. n = b
          BY <5>1, <2>3 DEF Told
        <5>3. Refuses(o, src)
          BY <5>2, <3>2, <1>1, ShouldOutputReads DEF Refuses
        <5> QED
          BY <5>3, <2>14 DEF LeavesOut
      <4>2. /\ n.hashes = IF r.score # 0 THEN b.hashes \cup {r.hash} ELSE b.hashes
            /\ r.hash = Hash[x]
        BY <4>1, <1>1, <2>1, <2>3, RecordedResult DEF Told, r
      <4>3. r.sent
        BY <4>1 DEF ShouldOutput
      <4>4. ~ Refuses(o, src)
        BY <2>14 DEF LeavesOut
      <4>5. Score[src] \in Nat
        BY PlanFacts
      <4>6. (BestOnly /\ Score[src] > n.best /\ ~ (Score[src] > o.best))
            \/ (Hash[src] \in n.hashes /\ Hash[src] \notin o.hashes)
        BY <3>2, <4>4, <2>10, RefusesIs
      <4>7. CASE BestOnly /\ Score[src] > n.best /\ ~ (Score[src] > o.best)
        <5>1. n.best = Score[x]
          BY <4>7, <2>1, <2>10
        <5> QED
          BY <5>1, <4>2, <4>3, <4>5, <4>7, <2>1, <2>4 DEF Covers, r
      <4>8. CASE Hash[src] \in n.hashes /\ Hash[src] \notin o.hashes
        <5>1. Hash[src] = Hash[x] /\ Score[x] # 0
          BY <4>2, <4>8, <1>1, <2>1
        <5>2. Score[src] # 0
          BY <5>1, <2>1, SameCode
        <5> QED
          BY <5>1, <5>2, <4>2, <4>3, <2>1 DEF Covers, r
      <4> QED
        BY <4>6, <4>7, <4>8
    <3> QED
      BY <3>1, <3>2, <2>14 DEF LeavesOut
  <2>15. ~ r.sent => LeavesOut(o, x)
    BY <2>9
  <2>16. Threshold = None => (r.sent /\ r.hash # None) \/ o.best <= r.score
    BY <2>4, <2>9, <2>11
  <2> QED
    BY <2>1, <2>10, <2>13, <2>14, <2>15, <2>16 DEF n, r
<1> QED
  BY <1>1, <1>3, <1>4

\* In a search with one source for each seed a task that can be counted ends with
\* the score of its source.
LEMMA CountedIsScored ==
    ASSUME plan \in Plans, NEW p \in Perms, NEW o \in Objects(p), NEW s \in Seeds[p],
           NEW e \in Evaluations(p, o, s), OneSourceEach, Counted(<<p, s>>)
    PROVE  /\ e.res.kind = "candidate" /\ e.res \in Candidates
           /\ e.res.score = Score[SourceOf(<<p, s>>)]
<1>1. PICK src \in Sources : Yields[p][s] = {src}
  BY PermuterAssumption DEF OneSourceEach, Perms, Seeds, Random, Yields, Sources
<1>2. SourceOf(<<p, s>>) = src
  BY <1>1 DEF SourceOf
<1>3. ~ e.kept
  BY EvaluationResult DEF OneSourceEach, KeepChoices
<1>4. e.res # PermError
  BY <1>1, <1>2, <1>3, EvaluationResult DEF Counted
<1>5. e.res.of = src /\ Scoring(o, e)
  BY <1>1, <1>3, <1>4, EvaluationResult, ZenonT(60)
<1> QED
  BY <1>2, <1>5 DEF Scoring, Candidates

-----------------------------------------------------------------------------
(* The shape of the state.                                                 *)

LEMMA RunInitShape ==
    ASSUME plan \in Plans, RunInit
    PROVE  RunShape
<1>1. /\ DOMAIN Seeds = Perms /\ Cardinality(Perms) \in Nat \ {0} /\ Cardinality(Workers) \in Nat
      /\ Conns \subseteq Perms /\ \A p \in Perms : Fresh \in Objects(p) /\ Served \in Objects(p)
  BY PlanFacts, RunPlanFacts, FreshIsObject
<1>2. MainShape
  <2>1. /\ phase \in {"feeding", "signal", "finishing", "done", "exit", "stopped"}
        /\ DOMAIN seed_iterators = Perms /\ \A p \in Perms : seed_iterators[p] \subseteq Seeds[p]
    BY <1>1 DEF RunInit
  <2>2. ended \subseteq Perms /\ nextIt \in 0..Cardinality(Perms) - 1 /\ active \in Int
    BY <1>1 DEF RunInit
  <2>3. DOMAIN parent = Perms /\ \A p \in Perms : parent[p] \in Objects(p)
    BY <1>1 DEF RunInit
  <2>4. /\ found_zero \in BOOLEAN /\ missed \in BOOLEAN /\ posted \subseteq Tasks
        /\ tasks \in Seq(Tasks \cup {Fin}) /\ feedback \in Seq(Items)
    BY EmptySeq DEF RunInit
  <2> QED
    BY <2>1, <2>2, <2>3, <2>4 DEF MainShape
<1>3. WorkShape
  BY <1>1 DEF RunInit, WorkShape
<1>4. \A p \in Conns : conn[p] \in Connections(p) /\ net[p] \in Ends(p)
  BY <1>1 DEF RunInit, Connections, Ends
<1>5. NetShape
  BY <1>4 DEF RunInit, NetShape
<1> QED
  BY <1>2, <1>3, <1>5 DEF RunShape

LEMMA WorkShapeStays ==
    ASSUME UNCHANGED plan, UNCHANGED workVars, WorkShape
    PROVE  WorkShape'
BY RunPlanStays, PlacesStay DEF workVars, WorkShape

LEMMA NetShapeStays ==
    ASSUME UNCHANGED plan, UNCHANGED netVars, NetShape
    PROVE  NetShape'
BY RunPlanStays, PlacesStay DEF netVars, NetShape

\* The main process's variables but for its queues.
LEMMA MainShapeStays ==
    ASSUME UNCHANGED plan, UNCHANGED mainVars, MainShape,
           tasks' \in Seq(Tasks \cup {Fin}), feedback' \in Seq(Items)
    PROVE  MainShape'
BY RunPlanStays, PlacesStay DEF mainVars, wroteVars, MainShape

\* What can be put on the feedback queue.
LEMMA ItemsAre ==
    /\ \A s \in Senders : Ask(s) \in Items /\ Text(s) \in Items /\ Gone(s) \in Items
    /\ \A s \in Senders, t \in Tasks, r \in Results : Done(s, t, r) \in Items
    /\ Local \in Senders /\ Conns \subseteq Senders
<1>1. ASSUME NEW s \in Senders PROVE Ask(s) \in Items /\ Text(s) \in Items /\ Gone(s) \in Items
  <2>1. Ask(s) \in [kind : {"ask", "message", "finished"}, src : Senders]
    BY DEF Ask
  <2>2. Text(s) \in [kind : {"ask", "message", "finished"}, src : Senders]
    BY DEF Text
  <2>3. Gone(s) \in [kind : {"ask", "message", "finished"}, src : Senders]
    BY DEF Gone
  <2> QED
    BY <2>1, <2>2, <2>3 DEF Items
<1>2. ASSUME NEW s \in Senders, NEW t \in Tasks, NEW r \in Results PROVE Done(s, t, r) \in Items
  BY DEF Done, Items
<1> QED
  BY <1>1, <1>2 DEF Senders

\* What is on it, by its kind.
LEMMA ItemKinds ==
    ASSUME NEW x \in Items
    PROVE  /\ x.kind \in {"ask", "message", "finished", "done"} /\ x.src \in Senders
           /\ x.kind = "done" => x.task \in Tasks /\ x.res \in Results
           /\ x.kind = "finished" => x = Gone(x.src)
BY DEF Items, Gone

LEMMA ResultKinds ==
    ASSUME NEW r \in Results
    PROVE  /\ r.kind \in {"candidate", "error"} /\ (r.kind = "error" => r = PermError)
           /\ r.kind = "candidate" => r \in Candidates /\ r.of \in Sources /\ r.score = Score[r.of]
BY DEF Results, PermError, Candidates

LEMMA MessageKinds ==
    ASSUME NEW p, NEW x \in Messages(p)
    PROVE  /\ x.kind \in {"init_done", "need_work", "disconnect", "eof", "result"}
           /\ x.kind = "result" => x.task \in Own(p) /\ x.res \in Results
BY DEF Messages

\* Post, in one piece: what becomes of the permuter that the result belongs to.
LEMMA PostTells ==
    ASSUME plan \in Plans, MainShape, NEW f \in Items, f.kind = "done", Post(f)
    PROVE  LET p == f.task[1]
               r == f.res
           IN /\ p \in Perms /\ DOMAIN parent' = Perms
              /\ \A q \in Perms : parent'[q] = IF r.kind = "candidate" /\ q = p THEN Told(parent[q], r) ELSE parent[q]
              /\ \A q \in Perms : parent'[q] \in Objects(q) /\ parent'[q].best <= parent[q].best
              /\ \A q \in Perms : \A src \in Sources : Refuses(parent[q], src) => Refuses(parent'[q], src)
              /\ written \subseteq written'
              /\ r.kind = "candidate" /\ ShouldOutput(parent[p], r) => <<p, r.of>> \in written'
              /\ missed' \in BOOLEAN
              /\ missed' => \/ missed
                            \/ /\ r.kind = "candidate" /\ ~ r.sent /\ <<p, r.of>> \notin written
                               /\ ~ Refuses(parent[p], r.of)
<1> DEFINE p == f.task[1]
           r == f.res
<1>1. f.task \in Tasks /\ r \in Results /\ p \in Perms
  BY ItemKinds, RunPlanFacts
<1>2. DOMAIN parent = Perms /\ (\A q \in Perms : parent[q] \in Objects(q)) /\ missed \in BOOLEAN
  BY DEF MainShape
<1>3. \A q \in Perms : parent[q].best \in Nat
  BY <1>2 DEF Objects
<1>4. CASE r.kind = "error"
  <2>1. parent' = parent /\ written' = written /\ missed' = missed
    BY <1>4 DEF Post, wroteVars
  <2>2. \A q \in Perms : parent[q].best <= parent[q].best
    BY <1>3
  <2> HIDE DEF p, r
  <2> QED
    BY <2>1, <2>2, <1>1, <1>2, <1>4 DEF p, r
<1>5. CASE r.kind # "error"
  <2>1. r \in Candidates /\ r.kind = "candidate"
    BY <1>1, <1>5, ResultKinds
  <2>2. /\ parent' = IF ShouldOutput(parent[p], r) THEN [parent EXCEPT ![p] = RecordResult(parent[p], r)] ELSE parent
        /\ written' = IF ShouldOutput(parent[p], r) THEN written \cup {<<p, r.of>>} ELSE written
        /\ missed' = (missed \/ (/\ ~ r.sent /\ <<p, r.of>> \notin written
                                 /\ ShouldOutput(parent[p], Candidate(r.of, Hash[r.of]))))
    BY <1>5 DEF Post
  <2> HIDE DEF p, r
  <2>3. DOMAIN parent' = Perms
        /\ \A q \in Perms : parent'[q] = IF q = p THEN Told(parent[q], r) ELSE parent[q]
    BY <2>2, <1>1, <1>2 DEF Told
  <2>4. \A q \in Perms : /\ parent'[q] \in Objects(q) /\ parent'[q].best <= parent[q].best
                         /\ \A src \in Sources : Refuses(parent[q], src) => Refuses(parent'[q], src)
    BY <2>1, <2>3, <1>2, <1>3, AfterTelling
  <2>5. missed' \in BOOLEAN
        /\ (missed' => missed \/ (~ r.sent /\ <<p, r.of>> \notin written /\ ~ Refuses(parent[p], r.of)))
    BY <2>2, <1>2 DEF Refuses
  <2> QED
    BY <2>1, <2>2, <2>3, <2>4, <2>5, <1>1 DEF p, r
<1> QED
  BY <1>4, <1>5

\* How a task is taken from the iterators, whoever asks.
LEMMA TaskTaken ==
    ASSUME plan \in Plans, MainShape, NEW src \in Senders, NEW t \in Tasks \cup {None},
           IF src = Local THEN GetTaskAny(t) ELSE GetTaskOf(src, t)
    PROVE  /\ DOMAIN seed_iterators' = Perms /\ ended \subseteq ended' /\ ended' \subseteq Perms
           /\ nextIt' \in 0..Cardinality(Perms) - 1
           /\ \A p \in ended' : p \in ended \/ seed_iterators[p] = {}
           /\ t = None => seed_iterators' = seed_iterators
           /\ t # None => /\ t \in Tasks /\ t[2] \in seed_iterators[t[1]]
                          /\ seed_iterators' = [seed_iterators EXCEPT ![t[1]] = @ \ {t[2]}]
                          /\ t[1] \notin ended'
           /\ t # None /\ src # Local => t \in Own(src)
<1>1. /\ DOMAIN seed_iterators = Perms /\ \A p \in Perms : seed_iterators[p] \subseteq Seeds[p]
      /\ ended \subseteq Perms /\ nextIt \in 0..Cardinality(Perms) - 1
  BY DEF MainShape
<1>2. Perms = 1..Cardinality(Perms) /\ Cardinality(Perms) \in Nat \ {0}
  BY PlanFacts
<1>3. None \notin Tasks /\ Conns \subseteq Perms
  BY RunPlanFacts
<1>4. CASE src = Local /\ \A p \in Perms : Empty(p)
  <2>1. t = None /\ ended' = Perms /\ seed_iterators' = seed_iterators /\ nextIt' = nextIt
    BY <1>4 DEF GetTaskAny
  <2> QED
    BY <2>1, <1>1, <1>4 DEF Empty
<1>5. CASE src = Local /\ ~ \A p \in Perms : Empty(p)
  <2> DEFINE K(k) == k \in 0..Cardinality(Perms) - 1 /\ ~ Empty(Nth(k)) /\ \A j \in 0..k - 1 : Empty(Nth(j))
             k0 == CHOOSE k \in 0..Cardinality(Perms) - 1 : ~ Empty(Nth(k)) /\ \A j \in 0..k - 1 : Empty(Nth(j))
  <2>1. \A k \in Nat : Nth(k) \in Perms
    <3> SUFFICES ASSUME NEW k \in Nat PROVE Nth(k) \in Perms
      OBVIOUS
    <3>1. (nextIt + k) % Cardinality(Perms) \in 0..(Cardinality(Perms) - 1)
      BY <1>1, <1>2, RemainderInRange
    <3> QED
      BY <3>1, <1>2 DEF Nth
  <2>2. \E k \in 0..Cardinality(Perms) - 1 : ~ Empty(Nth(k)) /\ \A j \in 0..k - 1 : Empty(Nth(j))
    <3> DEFINE C == {k \in 0..Cardinality(Perms) - 1 : ~ Empty(Nth(k))}
    <3>1. C # {}
      <4>1. PICK p \in Perms : ~ Empty(p)
        BY <1>5
      <4> DEFINE n == Cardinality(Perms)
                 d == p - 1 - nextIt
                 k == IF d >= 0 THEN d ELSE d + n
      <4>2. n \in Nat \ {0} /\ p \in 1..n /\ nextIt \in 0..n - 1
        BY <4>1, <1>1, <1>2
      <4> HIDE DEF n
      <4>3. k \in 0..n - 1 /\ (nextIt + k = p - 1 \/ nextIt + k = p - 1 + n)
        BY <4>2
      <4>4. (nextIt + k) % n = p - 1
        BY <4>2, <4>3
      <4>5. Nth(k) = p
        BY <4>2, <4>4 DEF Nth, n
      <4> QED
        BY <4>1, <4>3, <4>5 DEF n
    <3>2. PICK k \in C : \A j \in C : k <= j
      <4>1. C \in SUBSET Nat
        BY <1>2
      <4> HIDE DEF C
      <4> QED
        BY <3>1, <4>1, LeastNatural
    <3>3. \A j \in 0..k - 1 : Empty(Nth(j))
      BY <3>2, <1>2
    <3> QED
      BY <3>2, <3>3
  <2>3. k0 \in 0..Cardinality(Perms) - 1 /\ ~ Empty(Nth(k0)) /\ \A j \in 0..k0 - 1 : Empty(Nth(j))
    BY <2>2
  <2>4. \E s \in seed_iterators[Nth(k0)] :
          /\ t = <<Nth(k0), s>>
          /\ seed_iterators' = [seed_iterators EXCEPT ![Nth(k0)] = @ \ {s}]
          /\ ended' = ended \cup {Nth(j) : j \in 0..k0 - 1}
          /\ nextIt' = (nextIt + k0 + 1) % Cardinality(Perms)
    BY <1>5 DEF GetTaskAny
  <2> HIDE DEF k0
  <2>5. PICK s \in seed_iterators[Nth(k0)] :
          /\ t = <<Nth(k0), s>>
          /\ seed_iterators' = [seed_iterators EXCEPT ![Nth(k0)] = @ \ {s}]
          /\ ended' = ended \cup {Nth(j) : j \in 0..k0 - 1}
          /\ nextIt' = (nextIt + k0 + 1) % Cardinality(Perms)
    BY <2>4
  <2>6. Nth(k0) \in Perms /\ (\A j \in 0..k0 - 1 : Nth(j) \in Perms) /\ k0 \in Nat
    BY <2>1, <2>3, <1>2
  <2>7. nextIt' \in 0..Cardinality(Perms) - 1
    <3>1. nextIt + k0 + 1 \in Int
      BY <2>6, <1>1, <1>2
    <3>2. (nextIt + k0 + 1) % Cardinality(Perms) \in 0..(Cardinality(Perms) - 1)
      BY <3>1, <1>2, RemainderInRange
    <3> QED
      BY <3>2, <2>5
  <2>8. t \in Tasks /\ t[1] = Nth(k0) /\ t[2] = s
    BY <2>5, <2>6, <1>1 DEF Tasks
  <2>9. \A p \in ended' : Empty(p) /\ p \in Perms
    BY <2>3, <2>5, <2>6, <1>1 DEF Empty
  <2>10. Nth(k0) \notin ended'
    BY <2>3, <2>9
  <2>11. \A p \in ended' : p \in ended \/ seed_iterators[p] = {}
    BY <2>9 DEF Empty
  <2> QED
    BY <2>5, <2>7, <2>8, <2>9, <2>10, <2>11, <1>1, <1>3, <1>5
<1>6. CASE src # Local /\ Empty(src)
  <2>1. t = None /\ ended' = ended \cup {src} /\ seed_iterators' = seed_iterators /\ nextIt' = nextIt
    BY <1>6 DEF GetTaskOf
  <2> QED
    BY <2>1, <1>1, <1>3, <1>6 DEF Empty, Senders
<1>7. CASE src # Local /\ ~ Empty(src)
  <2>1. PICK s \in seed_iterators[src] :
          /\ t = <<src, s>>
          /\ seed_iterators' = [seed_iterators EXCEPT ![src] = @ \ {s}]
          /\ ended' = ended /\ nextIt' = nextIt
    BY <1>7 DEF GetTaskOf
  <2>2. src \in Perms /\ s \in Seeds[src]
    BY <1>1, <1>3, <1>7 DEF Senders
  <2>3. t \in Tasks /\ t \in Own(src) /\ t[1] = src /\ t[2] = s
    BY <2>1, <2>2 DEF Tasks, Own
  <2> QED
    BY <2>1, <2>2, <2>3, <1>1, <1>3, <1>7 DEF Empty
<1> QED
  BY <1>4, <1>5, <1>6, <1>7

LEMMA SeqSteps ==
    ASSUME NEW S, NEW s \in Seq(S)
    PROVE  /\ \A x \in S : Append(s, x) \in Seq(S)
           /\ s # <<>> => Head(s) \in S /\ Tail(s) \in Seq(S)
BY AppendProperties, HeadTailProperties

\* A connection and its other end, one field at a time.
LEMMA EndFields ==
    ASSUME NetShape, NEW p \in Conns
    PROVE  /\ conn[p].pc \in {"receive", "ask", "take", "closed"} /\ conn[p].finished \in BOOLEAN
           /\ conn[p].queue \in Seq(Own(p) \cup {Fin})
           /\ net[p].inbox \in Seq(Messages(p)) /\ net[p].away \subseteq Own(p) /\ net[p].asks \in Nat
           /\ net[p].objs \in [Cores -> Objects(p)] /\ net[p].open \in BOOLEAN
BY DEF NetShape, Connections, Ends

\* The main process's steps keep the shape.
LEMMA MainKeepsShape ==
    ASSUME plan \in Plans, UNCHANGED plan, RunShape, Main
    PROVE  RunShape'
<1>0. MainShape /\ WorkShape /\ NetShape
  BY DEF RunShape
<1>1. feedback \in Seq(Items) /\ tasks \in Seq(Tasks \cup {Fin}) /\ active \in Int
  BY <1>0 DEF MainShape
<1>2. CASE MainFinished
  <2>1. feedback' \in Seq(Items) /\ active' \in Int
    BY <1>1, <1>2, SeqSteps DEF MainFinished
  <2>2. MainShape'
    BY <2>1, <1>0, <1>2, RunPlanStays, PlacesStay DEF MainFinished, MainShape, wroteVars
  <2> QED
    BY <2>2, <1>0, <1>2, WorkShapeStays, NetShapeStays DEF MainFinished, RunShape
<1>3. CASE MainWorkDone
  <2> DEFINE f == Head(feedback)
             skip == phase = "finishing" /\ StopOnZero /\ found_zero
  <2>1. /\ phase \in {"feeding", "finishing"} /\ feedback # <<>> /\ f.kind = "done" /\ feedback' = Tail(feedback)
        /\ UNCHANGED <<seed_iterators, ended, nextIt, active, tasks>>
        /\ UNCHANGED workVars /\ UNCHANGED netVars
    BY <1>3 DEF MainWorkDone
  <2>2. f \in Items /\ feedback' \in Seq(Items)
    BY <1>1, <2>1, SeqSteps
  <2>3. CASE skip
    <3>1. UNCHANGED <<wroteVars, posted, found_zero, phase>>
      BY <1>3, <2>3 DEF MainWorkDone
    <3> QED
      BY <3>1, <2>1, <2>2, <1>0, WorkShapeStays, NetShapeStays, RunPlanStays, PlacesStay
         DEF MainShape, RunShape, wroteVars
  <2>4. CASE ~ skip
    <3>1. /\ Post(f) /\ posted' = posted \cup {f.task}
          /\ found_zero' = (found_zero \/ IsZero(f))
          /\ phase' = IF Aborts(f) THEN "exit"
                      ELSE IF phase = "feeding" /\ IsZero(f) /\ StopOnZero THEN "signal" ELSE phase
      BY <1>3, <2>4 DEF MainWorkDone
    <3>2. posted' \subseteq Tasks
      BY <3>1, <2>1, <2>2, <1>0, ItemKinds DEF MainShape
    <3>3. DOMAIN parent' = Perms /\ (\A q \in Perms : parent'[q] \in Objects(q)) /\ missed' \in BOOLEAN
      BY <3>1, <2>1, <2>2, <1>0, PostTells
    <3>4. phase' \in {"feeding", "signal", "finishing", "done", "exit", "stopped"} /\ found_zero' \in BOOLEAN
      BY <3>1, <2>1, <1>0 DEF MainShape
    <3>5. MainShape'
      BY <3>2, <3>3, <3>4, <2>1, <2>2, <1>0, RunPlanStays, PlacesStay DEF MainShape
    <3> QED
      BY <3>5, <2>1, <1>0, WorkShapeStays, NetShapeStays DEF RunShape
  <2> QED
    BY <2>3, <2>4
<1>4. CASE MainNeedWork
  <2> DEFINE src == Head(feedback).src
  <2>1. /\ phase = "feeding" /\ feedback # <<>> /\ feedback' = Tail(feedback)
        /\ phase' = IF ended' = Perms THEN "signal" ELSE phase
        /\ UNCHANGED <<active, found_zero, posted, parent, written, missed, net>> /\ UNCHANGED workVars
    BY <1>4 DEF MainNeedWork, wroteVars
  <2>2. src \in Senders /\ feedback' \in Seq(Items)
    BY <1>1, <2>1, SeqSteps, ItemKinds
  <2>3. PICK t \in Tasks \cup {None} :
          /\ IF src = Local THEN GetTaskAny(t) ELSE GetTaskOf(src, t)
          /\ tasks' = IF t # None /\ src = Local THEN Append(tasks, t) ELSE tasks
          /\ conn' = IF t # None /\ src # Local
                     THEN [conn EXCEPT ![src].queue = Append(@, t)] ELSE conn
    BY <1>4 DEF MainNeedWork
  <2> HIDE DEF src
  <2>4. /\ DOMAIN seed_iterators' = Perms /\ ended' \subseteq Perms
        /\ nextIt' \in 0..Cardinality(Perms) - 1
        /\ t = None => seed_iterators' = seed_iterators
        /\ t # None => /\ t \in Tasks /\ seed_iterators' = [seed_iterators EXCEPT ![t[1]] = @ \ {t[2]}]
        /\ t # None /\ src # Local => t \in Own(src)
    BY <2>2, <2>3, <1>0, TaskTaken
  <2>5. \A p \in Perms : seed_iterators'[p] \subseteq Seeds[p]
    BY <2>4, <1>0 DEF MainShape
  <2>6. tasks' \in Seq(Tasks \cup {Fin})
    BY <2>3, <2>4, <1>1, SeqSteps
  <2>7. MainShape'
    BY <2>1, <2>2, <2>4, <2>5, <2>6, <1>0, RunPlanStays, PlacesStay DEF MainShape
  <2>8. NetShape'
    <3>1. CASE t # None /\ src # Local
      <4>1. src \in Conns /\ t \in Own(src)
        BY <3>1, <2>2, <2>4 DEF Senders
      <4>2. conn' = [conn EXCEPT ![src].queue = Append(@, t)]
        BY <3>1, <2>3
      <4>3. Append(conn[src].queue, t) \in Seq(Own(src) \cup {Fin})
        BY <4>1, <1>0, EndFields, SeqSteps
      <4>4. DOMAIN conn' = Conns /\ \A p \in Conns : conn'[p] \in Connections(p)
        BY <4>1, <4>2, <4>3, <1>0 DEF NetShape, Connections
      <4> QED
        BY <4>4, <2>1, <1>0, RunPlanStays, PlacesStay DEF NetShape
    <3>2. CASE ~ (t # None /\ src # Local)
      BY <3>2, <2>1, <2>3, <1>0, NetShapeStays DEF netVars
    <3> QED
      BY <3>1, <3>2
  <2> QED
    BY <2>1, <2>7, <2>8, <1>0, WorkShapeStays DEF RunShape
<1>5. CASE MainRefuse
  <2>1. feedback' \in Seq(Items)
    BY <1>1, <1>5, SeqSteps DEF MainRefuse
  <2> QED
    BY <2>1, <1>0, <1>1, <1>5, RunPlanStays, MainShapeStays, WorkShapeStays, NetShapeStays DEF MainRefuse, RunShape
<1>6. CASE MainSignal
  <2>1. /\ phase' = "finishing" /\ tasks' = tasks \o [i \in 1..active |-> Fin]
        /\ conn' = [p \in Conns |-> [conn[p] EXCEPT !.queue = Append(@, Fin)]]
        /\ UNCHANGED <<seed_iterators, ended, nextIt, active, found_zero, posted, parent, written, missed, net, feedback>>
        /\ UNCHANGED workVars
    BY <1>6 DEF MainSignal, wroteVars
  <2>2. tasks' \in Seq(Tasks \cup {Fin})
    <3>1. [i \in 1..active |-> Fin] \in Seq(Tasks \cup {Fin})
      <4>1. CASE active \in Nat
        BY <4>1
      <4>2. CASE active \notin Nat
        <5>1. 1..active = {}
          BY <4>2, <1>1
        <5>2. [i \in 1..active |-> Fin] = <<>>
          BY <5>1
        <5> QED
          BY <5>2, EmptySeq
      <4> QED
        BY <4>1, <4>2
    <3> QED
      BY <3>1, <2>1, <1>1, ConcatProperties
  <2>3. MainShape'
    BY <2>1, <2>2, <1>0, RunPlanStays, PlacesStay DEF MainShape
  <2>4. \A p \in Conns : conn'[p] \in Connections(p)
    <3> SUFFICES ASSUME NEW p \in Conns PROVE conn'[p] \in Connections(p)
      OBVIOUS
    <3>1. Append(conn[p].queue, Fin) \in Seq(Own(p) \cup {Fin})
      BY <1>0, EndFields, SeqSteps
    <3> QED
      BY <3>1, <2>1, <1>0 DEF NetShape, Connections
  <2>5. NetShape'
    BY <2>1, <2>4, <1>0, RunPlanStays, PlacesStay DEF NetShape
  <2> QED
    BY <2>1, <2>3, <2>5, <1>0, WorkShapeStays DEF RunShape
<1>7. CASE MainJoin
  <2>1. MainShape'
    BY <1>0, <1>7, RunPlanStays, PlacesStay DEF MainJoin, MainShape, wroteVars
  <2> QED
    BY <2>1, <1>0, <1>7, WorkShapeStays, NetShapeStays DEF MainJoin, RunShape
<1> QED
  BY <1>2, <1>3, <1>4, <1>5, <1>6, <1>7 DEF Main

\* So do the workers',
LEMMA WorkerKeepsShape ==
    ASSUME plan \in Plans, UNCHANGED plan, RunShape, Copies, NEW w \in Workers, Worker(w)
    PROVE  RunShape'
<1>0. MainShape /\ WorkShape /\ NetShape
  BY DEF RunShape
<1>1. feedback \in Seq(Items) /\ tasks \in Seq(Tasks \cup {Fin})
  BY <1>0 DEF MainShape
<1>2. Ask(Local) \in Items /\ Gone(Local) \in Items /\ Local \in Senders
  BY ItemsAre
<1>3. CASE WorkerMiss(w) \/ WorkerAsk(w)
  <2>1. /\ feedback' = Append(feedback, Ask(Local)) /\ wpc[w] # "work"
        /\ wpc' = [wpc EXCEPT ![w] = "wait"] \/ wpc' = [wpc EXCEPT ![w] = "poll"]
        /\ UNCHANGED <<child, hand, tasks>> /\ UNCHANGED mainVars /\ UNCHANGED netVars
    BY <1>3 DEF WorkerMiss, WorkerAsk
  <2>2. feedback' \in Seq(Items)
    BY <2>1, <1>1, <1>2, SeqSteps
  <2>3. WorkShape'
    BY <2>1, <1>0, RunPlanStays, PlacesStay DEF WorkShape
  <2> QED
    BY <2>1, <2>2, <2>3, <1>0, <1>1, RunPlanStays, MainShapeStays, NetShapeStays DEF RunShape
<1>4. CASE WorkerGet(w)
  <2>1. /\ wpc[w] \in {"poll", "wait"} /\ tasks # <<>> /\ tasks' = Tail(tasks)
        /\ UNCHANGED child /\ UNCHANGED mainVars /\ UNCHANGED netVars
    BY <1>4 DEF WorkerGet
  <2>2. Head(tasks) \in Tasks \cup {Fin} /\ tasks' \in Seq(Tasks \cup {Fin})
    BY <2>1, <1>1, SeqSteps
  <2>3. CASE Head(tasks) = Fin
    <3>1. wpc' = [wpc EXCEPT ![w] = "ended"] /\ feedback' = Append(feedback, Gone(Local)) /\ UNCHANGED hand
      BY <2>3, <1>4 DEF WorkerGet
    <3>2. feedback' \in Seq(Items)
      BY <3>1, <1>1, <1>2, SeqSteps
    <3>3. WorkShape'
      BY <3>1, <2>1, <1>0, RunPlanStays, PlacesStay DEF WorkShape
    <3> QED
      BY <3>2, <3>3, <2>1, <2>2, <1>0, RunPlanStays, MainShapeStays, NetShapeStays DEF RunShape
  <2>4. CASE Head(tasks) # Fin
    <3>1. wpc' = [wpc EXCEPT ![w] = "work"] /\ hand' = [hand EXCEPT ![w] = Head(tasks)] /\ UNCHANGED feedback
      BY <2>4, <1>4 DEF WorkerGet
    <3>2. Head(tasks) \in Tasks /\ Head(tasks) # None
      BY <2>2, <2>4, RunPlanFacts
    <3>3. WorkShape'
      BY <3>1, <3>2, <2>1, <1>0, RunPlanStays, PlacesStay DEF WorkShape
    <3> QED
      BY <3>1, <3>3, <2>1, <2>2, <1>0, <1>1, RunPlanStays, MainShapeStays, NetShapeStays DEF RunShape
  <2> QED
    BY <2>3, <2>4
<1>5. CASE WorkerDone(w)
  <2> DEFINE p == hand[w][1]
             o == child[w][p]
  <2>1. /\ wpc[w] = "work" /\ wpc' = [wpc EXCEPT ![w] = "ask"] /\ hand' = [hand EXCEPT ![w] = None]
        /\ UNCHANGED tasks /\ UNCHANGED mainVars /\ UNCHANGED netVars
    BY <1>5 DEF WorkerDone
  <2>2. PICK e \in Evaluations(p, o, hand[w][2]) :
          /\ child' = [child EXCEPT ![w][p] = After(e)]
          /\ feedback' = Append(feedback, Done(Local, hand[w], e.res))
    BY <1>5 DEF WorkerDone, After
  <2>3. hand[w] \in Tasks
    BY <2>1, <1>0 DEF WorkShape
  <2>4. p \in Perms /\ hand[w][2] \in Seeds[p] /\ o \in Objects(p) /\ Sound(o)
    BY <2>3, <1>0, RunPlanFacts DEF WorkShape, Copies
  <2> HIDE DEF p, o
  <2>5. After(e) \in Objects(p) /\ e.res \in Results
    BY <2>2, <2>4, AfterEvaluation
  <2>6. feedback' \in Seq(Items)
    BY <2>2, <2>3, <2>5, <1>1, <1>2, ItemsAre, SeqSteps
  <2>7. DOMAIN child' = Workers /\ \A v \in Workers : DOMAIN child'[v] = Perms
                                   /\ \A q \in Perms : child'[v][q] \in Objects(q)
    BY <2>2, <2>4, <2>5, <1>0 DEF WorkShape
  <2>8. WorkShape'
    BY <2>1, <2>7, <1>0, RunPlanStays, PlacesStay DEF WorkShape
  <2> QED
    BY <2>1, <2>6, <2>8, <1>0, <1>1, RunPlanStays, MainShapeStays, NetShapeStays DEF RunShape
<1> QED
  BY <1>3, <1>4, <1>5 DEF Worker

\* and those of the network.
LEMMA NetKeepsShape ==
    ASSUME plan \in Plans, UNCHANGED plan, RunShape, Copies, NEW p \in Conns, Connection(p) \/ Server(p)
    PROVE  RunShape'
<1>0. MainShape /\ WorkShape /\ NetShape
  BY DEF RunShape
<1>1. feedback \in Seq(Items) /\ tasks \in Seq(Tasks \cup {Fin})
  BY <1>0 DEF MainShape
<1>2. Ask(p) \in Items /\ Gone(p) \in Items /\ Text(p) \in Items /\ p \in Senders /\ p \in Perms
      /\ Own(p) \subseteq Tasks
  BY ItemsAre, RunPlanFacts
<1>3. /\ conn[p].pc \in {"receive", "ask", "take", "closed"} /\ conn[p].finished \in BOOLEAN
      /\ conn[p].queue \in Seq(Own(p) \cup {Fin})
      /\ net[p].inbox \in Seq(Messages(p)) /\ net[p].away \subseteq Own(p) /\ net[p].asks \in Nat
      /\ net[p].objs \in [Cores -> Objects(p)] /\ net[p].open \in BOOLEAN
  BY <1>0, EndFields
<1>n. ASSUME DOMAIN net' = Conns, DOMAIN conn' = Conns,
             \A q \in Conns : conn'[q] \in Connections(q) /\ net'[q] \in Ends(q)
      PROVE  NetShape'
  BY <1>n, RunPlanStays, PlacesStay DEF NetShape
<1>4. CASE ConnReceive(p)
  <2> DEFINE msg == Head(net[p].inbox)
             pc1 == CASE msg.kind = "eof" -> "closed" [] msg.kind = "disconnect" -> "receive" [] OTHER -> "ask"
             f1 == CASE msg.kind = "need_work" -> feedback
                     [] msg.kind \in {"init_done", "disconnect"} -> Append(feedback, Text(p))
                     [] msg.kind = "result" -> Append(feedback, Done(p, msg.task, msg.res))
                     [] msg.kind = "eof" -> Append(feedback, Gone(p))
  <2>1. /\ net[p].inbox # <<>>
        /\ conn' = [conn EXCEPT ![p].pc = pc1]
        /\ net' = [net EXCEPT ![p].inbox = Tail(@)]
        /\ UNCHANGED tasks /\ UNCHANGED mainVars /\ UNCHANGED workVars
    BY <1>4 DEF ConnReceive
  <2>2. feedback' = f1
    BY <1>4 DEF ConnReceive
  <2>3. msg \in Messages(p) /\ Tail(net[p].inbox) \in Seq(Messages(p))
    BY <2>1, <1>3, SeqSteps
  <2> HIDE DEF msg
  <2>4. msg.kind \in {"init_done", "need_work", "disconnect", "eof", "result"}
        /\ (msg.kind = "result" => msg.task \in Own(p) /\ msg.res \in Results)
    BY <2>3, MessageKinds
  <2>5. pc1 \in {"receive", "ask", "take", "closed"}
    BY <2>4
  <2>6. feedback' \in Seq(Items)
    <3>1. CASE msg.kind = "need_work"
      BY <3>1, <2>2, <1>1
    <3>2. CASE msg.kind \in {"init_done", "disconnect"}
      BY <3>2, <2>2, <1>1, <1>2, SeqSteps
    <3>3. CASE msg.kind = "result"
      <4>1. Done(p, msg.task, msg.res) \in Items
        BY <3>3, <2>4, <1>2, ItemsAre
      <4> QED
        BY <3>3, <4>1, <2>2, <1>1, SeqSteps
    <3>4. CASE msg.kind = "eof"
      BY <3>4, <2>2, <1>1, <1>2, SeqSteps
    <3> QED
      BY <3>1, <3>2, <3>3, <3>4, <2>4
  <2> HIDE DEF pc1, f1
  <2>7. \A q \in Conns : conn'[q] \in Connections(q) /\ net'[q] \in Ends(q)
    BY <2>1, <2>3, <2>5, <1>0, <1>3, ZenonT(60) DEF NetShape, Connections, Ends
  <2>8. NetShape'
    BY <2>1, <2>7, <1>n, <1>0 DEF NetShape
  <2> QED
    BY <2>1, <2>6, <2>8, <1>0, <1>1, RunPlanStays, MainShapeStays, WorkShapeStays DEF RunShape
<1>5. CASE ConnAsk(p)
  <2> DEFINE pc1 == IF conn[p].finished THEN "receive" ELSE "take"
  <2>1. /\ feedback' = Append(feedback, Ask(p)) /\ conn' = [conn EXCEPT ![p].pc = pc1]
        /\ UNCHANGED net /\ UNCHANGED tasks /\ UNCHANGED mainVars /\ UNCHANGED workVars
    BY <1>5 DEF ConnAsk
  <2>2. feedback' \in Seq(Items) /\ pc1 \in {"receive", "ask", "take", "closed"}
    BY <2>1, <1>1, <1>2, SeqSteps
  <2> HIDE DEF pc1
  <2>3. \A q \in Conns : conn'[q] \in Connections(q) /\ net'[q] \in Ends(q)
    BY <2>1, <2>2, <1>0 DEF NetShape, Connections
  <2>4. NetShape'
    BY <2>1, <2>3, <1>n, <1>0 DEF NetShape
  <2> QED
    BY <2>1, <2>2, <2>4, <1>0, <1>1, RunPlanStays, MainShapeStays, WorkShapeStays DEF RunShape
<1>6. CASE ConnTake(p)
  <2> DEFINE t == Head(conn[p].queue)
             lost == t # Fin /\ ~ net[p].open
             pc1 == IF lost THEN "closed" ELSE "receive"
             done == t = Fin
  <2>1. /\ conn[p].queue # <<>>
        /\ conn' = [conn EXCEPT ![p].queue = Tail(@), ![p].finished = done, ![p].pc = pc1]
        /\ net' = IF t = Fin \/ lost THEN net ELSE [net EXCEPT ![p].away = @ \cup {t}]
        /\ feedback' = IF lost THEN Append(feedback, Gone(p)) ELSE feedback
        /\ UNCHANGED tasks /\ UNCHANGED mainVars /\ UNCHANGED workVars
    BY <1>6 DEF ConnTake
  <2>2. t \in Own(p) \cup {Fin} /\ Tail(conn[p].queue) \in Seq(Own(p) \cup {Fin})
        /\ pc1 \in {"receive", "ask", "take", "closed"} /\ done \in BOOLEAN
    BY <2>1, <1>3, SeqSteps
  <2>3. feedback' \in Seq(Items)
    BY <2>1, <1>1, <1>2, SeqSteps
  <2> HIDE DEF lost, pc1, done, t
  <2>4. \A q \in Conns : conn'[q] \in Connections(q)
    BY <2>1, <2>2, <1>0 DEF NetShape, Connections
  <2>5. DOMAIN net' = Conns /\ \A q \in Conns : net'[q] \in Ends(q)
    <3>1. CASE t = Fin \/ lost
      BY <3>1, <2>1, <1>0 DEF NetShape
    <3>2. CASE ~ (t = Fin \/ lost)
      <4>1. net' = [net EXCEPT ![p].away = @ \cup {t}] /\ t \in Own(p)
        BY <3>2, <2>1, <2>2
      <4> QED
        BY <4>1, <1>0, <1>3 DEF NetShape, Ends
    <3> QED
      BY <3>1, <3>2
  <2>6. NetShape'
    BY <2>1, <2>4, <2>5, <1>n, <1>0 DEF NetShape
  <2> QED
    BY <2>1, <2>3, <2>6, <1>0, <1>1, RunPlanStays, MainShapeStays, WorkShapeStays DEF RunShape
<1>7. CASE Server(p)
  <2>1. UNCHANGED <<conn, tasks, feedback>> /\ UNCHANGED mainVars /\ UNCHANGED workVars
    BY <1>7 DEF Server, ServerAsk, ServerResult, ServerGone, ServerClose
  <2>2. ASSUME NEW x \in Ends(p), net' = [net EXCEPT ![p] = x]
        PROVE  RunShape'
    <3>1. NetShape'
      BY <2>1, <2>2, <1>n, <1>0 DEF NetShape
    <3> QED
      BY <3>1, <2>1, <1>0, <1>1, RunPlanStays, MainShapeStays, WorkShapeStays DEF RunShape
  <2>3. net[p] \in Ends(p)
    BY <1>0 DEF NetShape
  <2>4. \A m \in Messages(p) : Append(net[p].inbox, m) \in Seq(Messages(p)) /\ Send(p, m) \in Ends(p)
                               /\ Send(p, m).away = net[p].away /\ Send(p, m).asks = net[p].asks
    BY <2>3, <1>3, SeqSteps DEF Send, Ends
  <2>5. CASE ServerAsk(p)
    <3>1. PICK k \in {"init_done", "need_work"} :
            net' = [net EXCEPT ![p] = [Send(p, [kind |-> k]) EXCEPT !.asks = @ + 1]]
      BY <2>5 DEF ServerAsk
    <3>2. [kind |-> k] \in Messages(p)
      BY DEF Messages
    <3>2a. Send(p, [kind |-> k]) \in Ends(p) /\ Send(p, [kind |-> k]).asks \in Nat
      BY <3>2, <2>4, <1>3
    <3>3. [Send(p, [kind |-> k]) EXCEPT !.asks = @ + 1] \in Ends(p)
      BY <3>2a DEF Ends
    <3> QED
      BY <3>1, <3>3, <2>2
  <2>6. CASE ServerResult(p)
    <3>1. PICK t \in net[p].away : \E c \in Cores : \E e \in Evaluations(p, net[p].objs[c], t[2]) :
            net' = [net EXCEPT ![p] = [Send(p, [kind |-> "result", task |-> t, res |-> e.res])
                                         EXCEPT !.away = @ \ {t}, !.objs[c] = After(e)]]
      BY <2>6 DEF ServerResult, After
    <3>2. PICK c \in Cores : \E e \in Evaluations(p, net[p].objs[c], t[2]) :
            net' = [net EXCEPT ![p] = [Send(p, [kind |-> "result", task |-> t, res |-> e.res])
                                         EXCEPT !.away = @ \ {t}, !.objs[c] = After(e)]]
      BY <3>1
    <3>2a. PICK e \in Evaluations(p, net[p].objs[c], t[2]) :
            net' = [net EXCEPT ![p] = [Send(p, [kind |-> "result", task |-> t, res |-> e.res])
                                         EXCEPT !.away = @ \ {t}, !.objs[c] = After(e)]]
      BY <3>2
    <3>3. t \in Own(p) /\ t[2] \in Seeds[p] /\ Sound(net[p].objs[c]) /\ net[p].objs[c] \in Objects(p)
      BY <1>2, <1>3 DEF Own, Copies
    <3>4. After(e) \in Objects(p) /\ e.res \in Results
      BY <3>3, <1>2, <1>3, AfterEvaluation
    <3> DEFINE m == [kind |-> "result", task |-> t, res |-> e.res]
    <3>5. m \in Messages(p)
      BY <3>3, <3>4 DEF Messages
    <3> HIDE DEF m
    <3>6. [Send(p, m) EXCEPT !.away = @ \ {t}, !.objs[c] = After(e)] \in Ends(p)
      BY <3>4, <3>5, <2>4, <1>3 DEF Ends
    <3> QED
      BY <3>2a, <3>6, <2>2 DEF m
  <2>7. CASE ServerGone(p)
    <3>1. net' = [net EXCEPT ![p] = [Send(p, [kind |-> "disconnect"]) EXCEPT !.away = {}]]
      BY <2>7 DEF ServerGone
    <3>2. [kind |-> "disconnect"] \in Messages(p)
      BY DEF Messages
    <3>3. [Send(p, [kind |-> "disconnect"]) EXCEPT !.away = {}] \in Ends(p)
      BY <3>2, <2>4 DEF Ends
    <3> QED
      BY <3>1, <3>3, <2>2
  <2>8. CASE ServerClose(p)
    <3>1. net' = [net EXCEPT ![p] = [Send(p, [kind |-> "eof"]) EXCEPT !.open = FALSE]]
      BY <2>8 DEF ServerClose
    <3>2. [kind |-> "eof"] \in Messages(p)
      BY DEF Messages
    <3>3. [Send(p, [kind |-> "eof"]) EXCEPT !.open = FALSE] \in Ends(p)
      BY <3>2, <2>4 DEF Ends
    <3> QED
      BY <3>1, <3>3, <2>2
  <2> QED
    BY <2>5, <2>6, <2>7, <2>8, <1>7 DEF Server
<1> QED
  BY <1>4, <1>5, <1>6, <1>7 DEF Connection

-----------------------------------------------------------------------------
(* Who runs and who has been told to stop.                                 *)

StopsInOrder == ActiveCount /\ TellsEach /\ SaysBefore /\ MessagesOnNet /\ FeedsAll

LEMMA ItemsApart ==
    /\ \A x : x.kind # "finished" => x # Gone(Local)
    /\ \A s \in Senders : s # Local => Gone(s) # Gone(Local)
    /\ \A s : /\ Ask(s).kind = "ask" /\ Ask(s).src = s /\ Text(s).kind = "message" /\ Text(s).src = s
              /\ Gone(s).kind = "finished" /\ Gone(s).src = s
    /\ \A s, t, r : /\ Done(s, t, r).kind = "done" /\ Done(s, t, r).src = s
                    /\ Done(s, t, r).task = t /\ Done(s, t, r).res = r
BY DEF Ask, Text, Gone, Done

LEMMA RunningFinite ==
    ASSUME plan \in Plans
    PROVE  /\ IsFiniteSet(Running) /\ Cardinality(Running) \in Nat /\ Running \subseteq Workers
           /\ Cardinality(Running) = 0 <=> Running = {}
<1>1. Running \subseteq Workers
  BY DEF Running
<1>2. IsFiniteSet(Running)
  BY <1>1, RunPlanFacts, FS_Subset
<1> QED
  BY <1>1, <1>2, FS_CardinalityType, FS_EmptySet

\* Something is said by one that still runs, or by one that just ended.
LEMMA SaidLast ==
    ASSUME feedback \in Seq(Items), SaysBefore, NEW x \in Items, feedback' = Append(feedback, x),
           x = Gone(Local) \/ (Running' = Running /\ (x.src = Local => Running # {}))
    PROVE  SaysBefore'
<1>1. /\ Len(feedback) \in Nat /\ Len(feedback') = Len(feedback) + 1 /\ feedback'[Len(feedback) + 1] = x
      /\ \A i \in 1..Len(feedback) : feedback'[i] = feedback[i]
  BY AppendProperties
<1> SUFFICES ASSUME NEW i \in 1..Len(feedback'), feedback'[i].src = Local, feedback'[i].kind # "finished",
                    Running' = {}
             PROVE  \E j \in i + 1..Len(feedback') : feedback'[j] = Gone(Local)
  BY DEF SaysBefore
<1>2. CASE x = Gone(Local)
  <2>1. i # Len(feedback) + 1
    BY <1>1, <1>2, ItemsApart
  <2> QED
    BY <2>1, <1>1, <1>2
<1>3. CASE x # Gone(Local)
  <2>1. Running = {} /\ i \in 1..Len(feedback)
    BY <1>1, <1>3
  <2>2. PICK j \in i + 1..Len(feedback) : feedback[j] = Gone(Local)
    BY <2>1, <1>1 DEF SaysBefore
  <2> QED
    BY <2>1, <2>2, <1>1
<1> QED
  BY <1>2, <1>3

LEMMA ReadFirst ==
    ASSUME feedback \in Seq(Items), SaysBefore, feedback # <<>>, feedback' = Tail(feedback),
           Running' = Running
    PROVE  SaysBefore'
<1>1. /\ Len(feedback) \in Nat \ {0} /\ Len(feedback') = Len(feedback) - 1
      /\ \A i \in 1..Len(feedback') : feedback'[i] = feedback[i + 1]
  BY HeadTailProperties
<1> SUFFICES ASSUME NEW i \in 1..Len(feedback'), feedback'[i].src = Local, feedback'[i].kind # "finished",
                    Running = {}
             PROVE  \E j \in i + 1..Len(feedback') : feedback'[j] = Gone(Local)
  BY DEF SaysBefore
<1>2. i + 1 \in 1..Len(feedback) /\ feedback[i + 1] = feedback'[i]
  BY <1>1
<1>3. PICK j \in (i + 1) + 1..Len(feedback) : feedback[j] = Gone(Local)
  BY <1>2 DEF SaysBefore
<1>4. j - 1 \in i + 1..Len(feedback') /\ feedback'[j - 1] = feedback[j]
  BY <1>1, <1>3
<1> QED
  BY <1>3, <1>4

LEMMA MessagesLast ==
    ASSUME feedback \in Seq(Items), MessagesOnNet, UNCHANGED plan,
           \/ feedback' = feedback
           \/ feedback # <<>> /\ feedback' = Tail(feedback)
           \/ \E x \in Items : feedback' = Append(feedback, x) /\ (x.kind = "message" => x.src \in Conns)
    PROVE  MessagesOnNet'
<1>c. Conns' = Conns
  BY RunPlanStays
<1>1. CASE feedback' = feedback
  BY <1>c, <1>1 DEF MessagesOnNet
<1>2. CASE feedback # <<>> /\ feedback' = Tail(feedback)
  BY <1>c, <1>2, HeadTailProperties DEF MessagesOnNet
<1>3. ASSUME NEW x \in Items, feedback' = Append(feedback, x), x.kind = "message" => x.src \in Conns
      PROVE  MessagesOnNet'
  BY <1>c, <1>3, AppendProperties DEF MessagesOnNet
<1> QED
  BY <1>1, <1>2, <1>3

LEMMA RunInitTold ==
    ASSUME plan \in Plans, RunInit
    PROVE  StopsInOrder
<1>1. Running = Workers /\ Cardinality(Workers) \in Nat
  BY RunPlanFacts DEF RunInit, Running
<1>2. HowMany(feedback, {Gone(Local)}) = 0 /\ HowMany(tasks, {Fin}) = 0
  BY HowManyEmpty DEF RunInit
<1>3. ActiveCount /\ TellsEach
  BY <1>1, <1>2 DEF RunInit, ActiveCount, TellsEach
<1>4. SaysBefore /\ MessagesOnNet /\ FeedsAll
  BY DEF RunInit, SaysBefore, MessagesOnNet, FeedsAll, Searching
<1> QED
  BY <1>3, <1>4 DEF StopsInOrder

LEMMA MainKeepsTold ==
    ASSUME plan \in Plans, UNCHANGED plan, RunShape, StopsInOrder, Main
    PROVE  StopsInOrder'
<1>0. /\ feedback \in Seq(Items) /\ tasks \in Seq(Tasks \cup {Fin}) /\ active \in Int
      /\ ActiveCount /\ TellsEach /\ SaysBefore /\ MessagesOnNet /\ FeedsAll /\ MainShape
  BY DEF RunShape, MainShape, StopsInOrder
<1> DEFINE G == HowMany(feedback, {Gone(Local)})
           F == HowMany(tasks, {Fin})
<1>1. G \in Nat /\ F \in Nat
  BY <1>0, PlacesFinite, SMTT(60)
<1>2. Running' = Running
  BY RunPlanStays
     DEF Main, MainFinished, MainWorkDone, MainNeedWork, MainRefuse, MainSignal, MainJoin, workVars, Running
<1>3. /\ Cardinality(Running) \in Nat /\ Workers' = Workers /\ Conns' = Conns /\ Perms' = Perms
      /\ StopOnZero' = StopOnZero
  BY RunningFinite, RunPlanStays
<1>4. ASSUME feedback # <<>>, feedback' = Tail(feedback)
      PROVE  /\ SaysBefore' /\ MessagesOnNet' /\ Head(feedback) \in Items
             /\ G' = IF Head(feedback) = Gone(Local) THEN G - 1 ELSE G
  BY <1>0, <1>1, <1>2, <1>4, ReadFirst, MessagesLast, HowManyTail, SeqSteps
<1> HIDE DEF G, F
<1>5. CASE MainFinished
  <2>1. /\ phase \in {"feeding", "finishing"} /\ feedback # <<>> /\ feedback' = Tail(feedback)
        /\ active' = IF Head(feedback) = Gone(Local) THEN active - 1 ELSE active
        /\ UNCHANGED <<phase, seed_iterators, ended, found_zero, tasks>>
    BY <1>5 DEF MainFinished
  <2>2. /\ SaysBefore' /\ MessagesOnNet'
        /\ G' = IF Head(feedback) = Gone(Local) THEN G - 1 ELSE G
    BY <2>1, <1>4
  <2>3. ActiveCount'
    BY <2>1, <2>2, <1>0, <1>1, <1>2, <1>3 DEF ActiveCount, G
  <2>4. phase = "feeding" => G' = 0
    <3> SUFFICES ASSUME phase = "feeding" PROVE G' = 0
      OBVIOUS
    <3>1. G = 0
      BY <1>0 DEF TellsEach, G
    <3>2. Head(feedback) # Gone(Local)
      <4>1. 1 \in 1..Len(feedback) /\ feedback[1] = Head(feedback)
        BY <2>1, <1>0
      <4> QED
        BY <4>1, <3>1, <1>0, HowManyNone DEF G
    <3> QED
      BY <3>1, <3>2, <2>2
  <2>5. TellsEach'
    BY <2>1, <2>4, <1>0, <1>2, <1>3 DEF TellsEach, F, G
  <2>6. FeedsAll'
    BY <2>1, <1>0, <1>3 DEF FeedsAll, Searching
  <2> QED
    BY <2>2, <2>3, <2>5, <2>6 DEF StopsInOrder
<1>6. CASE MainWorkDone
  <2> DEFINE f == Head(feedback)
  <2>1. /\ phase \in {"feeding", "finishing"} /\ feedback # <<>> /\ f.kind = "done" /\ feedback' = Tail(feedback)
        /\ UNCHANGED <<seed_iterators, ended, active, tasks>>
    BY <1>6 DEF MainWorkDone
  <2>2. \/ UNCHANGED <<found_zero, phase>>
        \/ /\ found_zero' <=> found_zero \/ IsZero(f)
           /\ phase' = IF Aborts(f) THEN "exit"
                       ELSE IF phase = "feeding" /\ IsZero(f) /\ StopOnZero THEN "signal" ELSE phase
    BY <1>6 DEF MainWorkDone
  <2>3. SaysBefore' /\ MessagesOnNet' /\ G' = G
    BY <2>1, <1>4, ItemsApart
  <2> HIDE DEF f
  <2>4. ActiveCount'
    BY <2>1, <2>3, <1>0, <1>2 DEF ActiveCount, G
  <2>5. phase' \in {phase, "exit"} \/ (phase = "feeding" /\ phase' = "signal")
    BY <2>2
  <2>6. TellsEach'
    BY <2>1, <2>3, <2>5, <1>0, <1>2, <1>3 DEF TellsEach, F, G
  <2>7. FeedsAll'
    BY <2>1, <2>2, <1>0, <1>3 DEF FeedsAll, Searching
  <2> QED
    BY <2>3, <2>4, <2>6, <2>7 DEF StopsInOrder
<1>7. CASE MainNeedWork
  <2> DEFINE src == Head(feedback).src
  <2>1. /\ phase = "feeding" /\ feedback # <<>> /\ Head(feedback).kind = "ask" /\ feedback' = Tail(feedback)
        /\ phase' = IF ended' = Perms THEN "signal" ELSE phase
        /\ UNCHANGED <<active, found_zero>>
    BY <1>7 DEF MainNeedWork
  <2>2. src \in Senders
    BY <2>1, <1>4, ItemKinds
  <2>3. PICK t \in Tasks \cup {None} :
          /\ IF src = Local THEN GetTaskAny(t) ELSE GetTaskOf(src, t)
          /\ tasks' = IF t # None /\ src = Local THEN Append(tasks, t) ELSE tasks
    BY <1>7 DEF MainNeedWork
  <2> HIDE DEF src
  <2>4. /\ \A p \in ended' : p \in ended \/ seed_iterators[p] = {}
        /\ ended' \subseteq Perms /\ DOMAIN seed_iterators = Perms
        /\ t = None => seed_iterators' = seed_iterators
        /\ t # None => /\ t \in Tasks /\ seed_iterators' = [seed_iterators EXCEPT ![t[1]] = @ \ {t[2]}]
                       /\ t[1] \notin ended'
    BY <2>2, <2>3, <1>0, TaskTaken DEF MainShape
  <2>5. SaysBefore' /\ MessagesOnNet' /\ G' = G
    BY <2>1, <1>4, ItemsApart
  <2>6. ActiveCount'
    BY <2>1, <2>5, <1>0, <1>2 DEF ActiveCount, G
  <2>7. F' = F
    <3>1. CASE t # None /\ src = Local
      <4>1. t \in Tasks /\ t # Fin
        BY <3>1, <2>4, RunPlanFacts
      <4>2. HowMany(Append(tasks, t), {Fin}) = HowMany(tasks, {Fin}) + 0
        BY <4>1, <1>0, HowManyAppend
      <4> QED
        BY <3>1, <4>2, <2>3, <1>1 DEF F
    <3>2. CASE ~ (t # None /\ src = Local)
      BY <3>2, <2>3 DEF F
    <3> QED
      BY <3>1, <3>2
  <2>8. TellsEach'
    BY <2>1, <2>5, <2>7, <1>0, <1>2, <1>3 DEF TellsEach, F, G
  <2>9. \A p \in ended' : seed_iterators'[p] = {}
    BY <2>4, <1>0 DEF FeedsAll
  <2>10. FeedsAll'
    BY <2>1, <2>9, <1>0, <1>3 DEF FeedsAll, Searching
  <2> QED
    BY <2>5, <2>6, <2>8, <2>10 DEF StopsInOrder
<1>8. CASE MainRefuse
  <2>1. /\ feedback # <<>> /\ Head(feedback).kind = "ask" /\ feedback' = Tail(feedback)
        /\ UNCHANGED <<phase, seed_iterators, ended, found_zero, active, tasks>>
    BY <1>8 DEF MainRefuse, mainVars
  <2>2. SaysBefore' /\ MessagesOnNet' /\ G' = G
    BY <2>1, <1>4, ItemsApart
  <2>3. ActiveCount' /\ TellsEach' /\ FeedsAll'
    BY <2>1, <2>2, <1>0, <1>2, <1>3 DEF ActiveCount, TellsEach, FeedsAll, Searching, F, G
  <2> QED
    BY <2>2, <2>3 DEF StopsInOrder
<1>9. CASE MainSignal
  <2>1. /\ phase = "signal" /\ phase' = "finishing" /\ tasks' = tasks \o [i \in 1..active |-> Fin]
        /\ UNCHANGED <<seed_iterators, ended, found_zero, active, feedback>>
    BY <1>9 DEF MainSignal
  <2>2. active = Cardinality(Running) /\ F = 0 /\ Running = Workers
    <3>1. HowMany(tasks, {Fin}) = 0 /\ Running = Workers /\ HowMany(feedback, {Gone(Local)}) = 0
      BY <2>1, <1>0 DEF TellsEach
    <3>2. active = Cardinality(Running) + HowMany(feedback, {Gone(Local)})
      BY <1>0 DEF ActiveCount
    <3> QED
      BY <3>1, <3>2, <1>3 DEF F
  <2>3. /\ tasks' \in Seq(Tasks \cup {Fin}) /\ Len(tasks') = Len(tasks) + active /\ Len(tasks) \in Nat
        /\ \A i \in 1..Len(tasks') : tasks'[i] = IF i <= Len(tasks) THEN tasks[i] ELSE Fin
        /\ F' = F + active
    <3>1. active \in Nat
      BY <2>2, <1>3
    <3>2. Fin \in Tasks \cup {Fin} /\ Fin' = Fin /\ Len(tasks) \in Nat
      BY <1>0 DEF Fin
    <3> DEFINE t == tasks \o [k \in 1..active |-> Fin]
               S == Tasks \cup {Fin}
    <3>3. tasks' = t
      BY <2>1
    <3>4. /\ t \in Seq(S) /\ Len(t) = Len(tasks) + active
          /\ \A i \in 1..Len(tasks) + active : t[i] = IF i <= Len(tasks) THEN tasks[i] ELSE Fin
      <4> HIDE DEF S
      <4>1. Fin \in S /\ tasks \in Seq(S)
        BY <1>0 DEF S
      <4> QED
        BY <3>1, <4>1, MoreOfOne, SMTT(60)
    <3> HIDE DEF t
    <3>5. \A i \in 1..Len(t) : t[i] = IF i <= Len(tasks) THEN tasks[i] ELSE Fin
      BY <3>4
    <3>6. HowMany(t, {Fin}) = HowMany(tasks, {Fin}) + active
      <4>1. Fin \in S /\ tasks \in Seq(S)
        BY <1>0
      <4> HIDE DEF S
      <4>2. t \in Seq(S) /\ Len(tasks) <= Len(t) /\ Len(t) - Len(tasks) = active
        BY <3>1, <3>2, <3>4
      <4>3. HowMany(t, {Fin}) = HowMany(tasks, {Fin}) + (IF Fin \in {Fin} THEN Len(t) - Len(tasks) ELSE 0)
        BY <3>5, <4>1, <4>2, HowManyMore
      <4> QED
        BY <4>2, <4>3
    <3> QED
      BY <3>2, <3>3, <3>4, <3>5, <3>6 DEF F
  <2>4. Workers # {} => tasks'[Len(tasks')] = Fin
    <3> SUFFICES ASSUME Workers # {} PROVE tasks'[Len(tasks')] = Fin
      OBVIOUS
    <3>1. active \in Nat \ {0}
      BY <2>2, <1>3, RunningFinite
    <3> QED
      BY <3>1, <2>3
  <2>5. TellsEach'
    BY <2>1, <2>2, <2>3, <2>4, <1>2, <1>3 DEF TellsEach, F
  <2>6. ActiveCount' /\ SaysBefore' /\ MessagesOnNet' /\ FeedsAll'
    BY <2>1, <1>0, <1>2, <1>3 DEF ActiveCount, SaysBefore, MessagesOnNet, FeedsAll, Searching
  <2> QED
    BY <2>5, <2>6 DEF StopsInOrder
<1>10. CASE MainJoin
  <2>1. /\ phase = "exit" \/ (phase = "finishing" /\ active = 0 /\ Conns = {})
        /\ \A w \in Workers : wpc[w] = "ended"
        /\ phase' = IF phase = "exit" THEN "stopped" ELSE "done"
        /\ UNCHANGED <<seed_iterators, ended, found_zero, active, tasks, feedback>>
    BY <1>10 DEF MainJoin
  <2>2. Running = {}
    BY <2>1 DEF Running
  <2>3. TellsEach'
    BY <2>1, <2>2, <1>0, <1>2, <1>3 DEF TellsEach
  <2>4. ActiveCount' /\ SaysBefore' /\ MessagesOnNet' /\ FeedsAll'
    BY <2>1, <1>0, <1>2, <1>3 DEF ActiveCount, SaysBefore, MessagesOnNet, FeedsAll, Searching
  <2> QED
    BY <2>3, <2>4 DEF StopsInOrder
<1> QED
  BY <1>5, <1>6, <1>7, <1>8, <1>9, <1>10 DEF Main

\* A step outside the main process that stops nobody.
LEMMA SayingKeepsTold ==
    ASSUME plan \in Plans, UNCHANGED plan, RunShape, StopsInOrder, UNCHANGED mainVars, UNCHANGED tasks,
           Running' = Running,
           \/ feedback' = feedback
           \/ \E x \in Items : /\ feedback' = Append(feedback, x) /\ x # Gone(Local)
                               /\ x.src = Local => Running # {}
                               /\ x.kind = "message" => x.src \in Conns
    PROVE  StopsInOrder'
<1>0. /\ feedback \in Seq(Items) /\ ActiveCount /\ TellsEach /\ SaysBefore /\ MessagesOnNet /\ FeedsAll
      /\ UNCHANGED <<phase, seed_iterators, ended, active, found_zero, tasks>>
  BY DEF RunShape, MainShape, StopsInOrder, mainVars
<1> DEFINE G == HowMany(feedback, {Gone(Local)})
<1>1. SaysBefore' /\ MessagesOnNet' /\ G' = G
  <2>1. CASE feedback' = feedback
    BY <2>1, <1>0, RunPlanStays DEF SaysBefore, MessagesOnNet
  <2>2. ASSUME NEW x \in Items, feedback' = Append(feedback, x), x # Gone(Local),
               x.src = Local => Running # {}, x.kind = "message" => x.src \in Conns
        PROVE  SaysBefore' /\ MessagesOnNet' /\ G' = G
    <3>1. SaysBefore'
      BY <2>2, <1>0, SaidLast
    <3>2. MessagesOnNet'
      BY <2>2, <1>0, MessagesLast
    <3>3. HowMany(Append(feedback, x), {Gone(Local)}) = HowMany(feedback, {Gone(Local)}) + 0
      BY <2>2, <1>0, HowManyAppend
    <3>4. HowMany(feedback, {Gone(Local)}) \in Nat
      BY <1>0, PlacesFinite
    <3> QED
      BY <3>1, <3>2, <3>3, <3>4, <2>2
  <2> QED
    BY <2>1, <2>2
<1> HIDE DEF G
<1>2. ActiveCount' /\ TellsEach' /\ FeedsAll'
  BY <1>0, <1>1, RunPlanStays DEF ActiveCount, TellsEach, FeedsAll, Searching, G
<1> QED
  BY <1>1, <1>2 DEF StopsInOrder

LEMMA WorkerKeepsTold ==
    ASSUME plan \in Plans, UNCHANGED plan, RunShape, Copies, StopsInOrder, NEW w \in Workers, Worker(w)
    PROVE  StopsInOrder'
<1>0. /\ feedback \in Seq(Items) /\ tasks \in Seq(Tasks \cup {Fin}) /\ active \in Int /\ WorkShape
      /\ ActiveCount /\ TellsEach /\ SaysBefore /\ MessagesOnNet /\ FeedsAll
  BY DEF RunShape, MainShape, StopsInOrder
<1>1. Workers' = Workers /\ Conns' = Conns /\ Local \notin Conns
  BY RunPlanStays, RunPlanFacts
<1>2. ASSUME NEW c \in {"poll", "wait", "work", "ask"}, wpc[w] # "ended", wpc' = [wpc EXCEPT ![w] = c]
      PROVE  Running' = Running /\ Running # {}
  BY <1>0, <1>1, <1>2 DEF Running, WorkShape
<1>3. CASE WorkerMiss(w) \/ WorkerAsk(w)
  <2>1. /\ wpc[w] # "ended" /\ \E c \in {"poll", "wait", "work", "ask"} : wpc' = [wpc EXCEPT ![w] = c]
        /\ feedback' = Append(feedback, Ask(Local)) /\ UNCHANGED mainVars /\ UNCHANGED tasks
    BY <1>3 DEF WorkerMiss, WorkerAsk
  <2>2. Running' = Running /\ Running # {}
    BY <2>1, <1>2
  <2>3. Ask(Local) \in Items /\ Ask(Local).kind = "ask" /\ Ask(Local) # Gone(Local)
    BY ItemsAre, ItemsApart
  <2> QED
    BY <2>1, <2>2, <2>3, SayingKeepsTold
<1>4. CASE WorkerDone(w)
  <2> DEFINE p == hand[w][1]
             o == child[w][p]
  <2>1. /\ wpc[w] = "work" /\ wpc' = [wpc EXCEPT ![w] = "ask"] /\ UNCHANGED tasks /\ UNCHANGED mainVars
    BY <1>4 DEF WorkerDone
  <2>2. PICK e \in Evaluations(p, o, hand[w][2]) : feedback' = Append(feedback, Done(Local, hand[w], e.res))
    BY <1>4 DEF WorkerDone
  <2>3. hand[w] \in Tasks
    BY <2>1, <1>0 DEF WorkShape
  <2>4. p \in Perms /\ hand[w][2] \in Seeds[p] /\ o \in Objects(p) /\ Sound(o)
    BY <2>3, <1>0, RunPlanFacts DEF WorkShape, Copies
  <2> HIDE DEF p, o
  <2>5. e.res \in Results
    BY <2>2, <2>4, AfterEvaluation
  <2>6. Running' = Running /\ Running # {}
    BY <2>1, <1>2
  <2> DEFINE x == Done(Local, hand[w], e.res)
  <2>7. x \in Items /\ x # Gone(Local) /\ x.kind = "done"
    BY <2>3, <2>5, ItemsAre, ItemsApart
  <2> HIDE DEF x
  <2>8. feedback' = Append(feedback, x)
    BY <2>2 DEF x
  <2> QED
    BY <2>1, <2>6, <2>7, <2>8, SayingKeepsTold
<1>5. CASE WorkerGet(w)
  <2>1. /\ wpc[w] \in {"poll", "wait"} /\ tasks # <<>> /\ tasks' = Tail(tasks) /\ UNCHANGED mainVars
        /\ UNCHANGED <<phase, seed_iterators, ended, active, found_zero>>
    BY <1>5 DEF WorkerGet, mainVars
  <2>2. w \in Running
    BY <2>1 DEF Running
  <2>3. /\ Len(tasks) \in Nat \ {0} /\ Len(tasks') = Len(tasks) - 1
        /\ \A i \in 1..Len(tasks') : tasks'[i] = tasks[i + 1]
    BY <2>1, <1>0, HeadTailProperties
  <2>4. tasks' # <<>> => tasks'[Len(tasks')] = tasks[Len(tasks)]
    <3> SUFFICES ASSUME tasks' # <<>> PROVE tasks'[Len(tasks')] = tasks[Len(tasks)]
      OBVIOUS
    <3>1. Len(tasks') # 0
      BY <2>1, <1>0, EmptySeq, HeadTailProperties
    <3> QED
      BY <3>1, <2>3
  <2>5. HowMany(tasks', {Fin}) = HowMany(tasks, {Fin}) - (IF Head(tasks) = Fin THEN 1 ELSE 0)
    BY <2>1, <1>0, HowManyTail
  <2>6. HowMany(tasks, {Fin}) \in Nat /\ HowMany(tasks', {Fin}) \in Nat /\ HowMany(feedback, {Gone(Local)}) \in Nat
    BY <2>1, <1>0, PlacesFinite, SeqSteps
  <2>7. FeedsAll'
    BY <2>1, <1>0, RunPlanStays DEF FeedsAll, Searching
  <2>8. phase # "done"
    BY <2>2, <1>0 DEF TellsEach
  <2>9. CASE Head(tasks) = Fin
    <3>1. wpc' = [wpc EXCEPT ![w] = "ended"] /\ feedback' = Append(feedback, Gone(Local))
      BY <2>9, <1>5 DEF WorkerGet
    <3>2. Running' = Running \ {w}
      BY <3>1, <1>0, <1>1 DEF Running, WorkShape
    <3>3. Cardinality(Running') = Cardinality(Running) - 1 /\ Cardinality(Running) \in Nat
      BY <3>2, <2>2, RunningFinite, FS_RemoveElement
    <3>4. Gone(Local) \in Items /\ Gone(Local).kind = "finished"
      BY ItemsAre, ItemsApart
    <3>5. HowMany(feedback', {Gone(Local)}) = HowMany(feedback, {Gone(Local)}) + 1
      <4>1. HowMany(Append(feedback, Gone(Local)), {Gone(Local)}) = HowMany(feedback, {Gone(Local)}) + 1
        BY <3>4, <1>0, HowManyAppend
      <4> QED
        BY <4>1, <3>1
    <3>6. SaysBefore'
      BY <3>1, <3>4, <1>0, SaidLast
    <3>7. MessagesOnNet'
      BY <3>1, <3>4, <1>0, MessagesLast
    <3>8. ActiveCount'
      BY <3>3, <3>5, <2>1, <2>6, <1>0 DEF ActiveCount
    <3>9. phase \notin {"feeding", "signal"}
      BY <2>5, <2>6, <2>9, <1>0 DEF TellsEach
    <3>10. TellsEach'
      BY <3>3, <3>9, <2>1, <2>4, <2>5, <2>6, <2>8, <2>9, <1>0, <1>1 DEF TellsEach
    <3> QED
      BY <3>6, <3>7, <3>8, <3>10, <2>7 DEF StopsInOrder
  <2>10. CASE Head(tasks) # Fin
    <3>1. wpc' = [wpc EXCEPT ![w] = "work"] /\ feedback' = feedback
      BY <2>10, <1>5 DEF WorkerGet
    <3>2. Running' = Running
      BY <3>1, <2>1, <1>2
    <3>3. ActiveCount' /\ SaysBefore' /\ MessagesOnNet'
      BY <3>1, <3>2, <2>1, <1>0, <1>1 DEF ActiveCount, SaysBefore, MessagesOnNet
    <3>4. HowMany(tasks', {Fin}) = HowMany(tasks, {Fin})
      BY <2>5, <2>6, <2>10
    <3>5. TellsEach'
      BY <3>1, <3>2, <3>4, <2>1, <2>4, <2>8, <1>0, <1>1 DEF TellsEach
    <3> QED
      BY <3>3, <3>5, <2>7 DEF StopsInOrder
  <2> QED
    BY <2>9, <2>10
<1> QED
  BY <1>3, <1>4, <1>5 DEF Worker

LEMMA NetKeepsTold ==
    ASSUME plan \in Plans, UNCHANGED plan, RunShape, StopsInOrder, NEW p \in Conns,
           Connection(p) \/ Server(p)
    PROVE  StopsInOrder'
<1>0. /\ feedback \in Seq(Items) /\ net[p].inbox \in Seq(Messages(p)) /\ p # Local /\ Own(p) \subseteq Tasks
      /\ p \in Senders
  BY EndFields, RunPlanFacts DEF RunShape, MainShape, Senders
<1>1. UNCHANGED mainVars /\ UNCHANGED workVars /\ UNCHANGED tasks
  BY DEF Connection, Server, ConnReceive, ConnAsk, ConnTake, ServerAsk, ServerResult, ServerGone, ServerClose
<1>2. Running' = Running
  BY <1>1, RunPlanStays DEF workVars, Running
<1>3. feedback' = feedback \/ \E x \in Items : feedback' = Append(feedback, x) /\ x.src = p /\ x # Gone(Local)
  <2>1. Ask(p) \in Items /\ Gone(p) \in Items /\ Text(p) \in Items
    BY <1>0, ItemsAre
  <2>2. /\ Ask(p).src = p /\ Gone(p).src = p /\ Text(p).src = p
        /\ Ask(p) # Gone(Local) /\ Gone(p) # Gone(Local) /\ Text(p) # Gone(Local)
    BY <1>0, ItemsApart
  <2>3. CASE ConnReceive(p)
    <3> DEFINE msg == Head(net[p].inbox)
    <3>1. net[p].inbox # <<>>
          /\ feedback' = CASE msg.kind = "need_work" -> feedback
                          [] msg.kind \in {"init_done", "disconnect"} -> Append(feedback, Text(p))
                          [] msg.kind = "result" -> Append(feedback, Done(p, msg.task, msg.res))
                          [] msg.kind = "eof" -> Append(feedback, Gone(p))
      BY <2>3 DEF ConnReceive
    <3>2. msg \in Messages(p)
      BY <3>1, <1>0, SeqSteps
    <3>3. msg.kind \in {"init_done", "need_work", "disconnect", "eof", "result"}
      BY <3>2, MessageKinds
    <3>4. CASE msg.kind = "result"
      <4> DEFINE x == Done(p, msg.task, msg.res)
      <4>1. msg.task \in Tasks /\ msg.res \in Results
        BY <3>2, <3>4, <1>0, MessageKinds
      <4> HIDE DEF msg
      <4>2. x \in Items /\ x.src = p /\ x.kind = "done"
        BY <4>1, <1>0, ItemsAre, ItemsApart
      <4>3. feedback' = Append(feedback, x)
        BY <3>1, <3>4
      <4> HIDE DEF x
      <4>4. x # Gone(Local)
        BY <4>2, ItemsApart
      <4> QED
        BY <4>2, <4>3, <4>4
    <3>5. CASE msg.kind # "result"
      BY <3>1, <3>3, <3>5, <2>1, <2>2
    <3> QED
      BY <3>4, <3>5
  <2>4. CASE ConnAsk(p)
    BY <2>1, <2>2, <2>4 DEF ConnAsk
  <2>5. CASE ConnTake(p)
    BY <2>1, <2>2, <2>5, SMTT(60) DEF ConnTake
  <2>6. CASE Server(p)
    BY <2>6 DEF Server, ServerAsk, ServerResult, ServerGone, ServerClose
  <2> QED
    BY <2>3, <2>4, <2>5, <2>6 DEF Connection
<1> QED
  BY <1>0, <1>1, <1>2, <1>3, SayingKeepsTold

-----------------------------------------------------------------------------
(* Where a task is.                                                        *)

DoneOf(t) == {x \in Items : x.kind = "done" /\ x.task = t}
ResultOf(t) == {x \in Messages(t[1]) : x.kind = "result" /\ x.task = t}
InTasks(t) == HowMany(tasks, {t})
InHand(t) == Cardinality({w \in Workers : hand[w] = t})
InFeedback(t) == HowMany(feedback, DoneOf(t))
InQueue(t) == IF t[1] \in Conns THEN HowMany(conn[t[1]].queue, {t}) ELSE 0
Sent(t) == IF t[1] \in Conns /\ t \in net[t[1]].away THEN 1 ELSE 0
InInbox(t) == IF t[1] \in Conns THEN HowMany(net[t[1]].inbox, ResultOf(t)) ELSE 0
OnNet(t) == InQueue(t) + Sent(t) + InInbox(t)
Posted(t) == IF t \in posted THEN 1 ELSE 0
ToGive(t) == IF t[2] \in seed_iterators[t[1]] THEN 1 ELSE 0
Here(t) == InTasks(t) + InHand(t) + InFeedback(t) + OnNet(t) + Posted(t) + ToGive(t)

Once == \A t \in Tasks : Here(t) <= 1 /\ (Conns = {} /\ Searching => Here(t) = 1)

LEMMA AddendsAre ==
    ASSUME plan \in Plans, RunShape, NEW t \in Tasks
    PROVE  /\ InTasks(t) \in Nat /\ InHand(t) \in Nat /\ InFeedback(t) \in Nat
           /\ InQueue(t) \in Nat /\ Sent(t) \in Nat /\ InInbox(t) \in Nat /\ OnNet(t) \in Nat
           /\ Posted(t) \in Nat /\ ToGive(t) \in Nat /\ Here(t) \in Nat
           /\ IsFiniteSet({w \in Workers : hand[w] = t})
<1>1. tasks \in Seq(Tasks \cup {Fin}) /\ feedback \in Seq(Items)
  BY DEF RunShape, MainShape
<1>2. InTasks(t) \in Nat
  BY <1>1, PlacesFinite DEF InTasks
<1>3. InFeedback(t) \in Nat
  BY <1>1, PlacesFinite DEF InFeedback
<1>4. IsFiniteSet({w \in Workers : hand[w] = t}) /\ InHand(t) \in Nat
  <2>1. {w \in Workers : hand[w] = t} \subseteq Workers
    OBVIOUS
  <2>2. IsFiniteSet({w \in Workers : hand[w] = t})
    BY <2>1, RunPlanFacts, FS_Subset
  <2> QED
    BY <2>2, FS_CardinalityType DEF InHand
<1>5. InQueue(t) \in Nat /\ InInbox(t) \in Nat
  <2>1. CASE t[1] \in Conns
    <3>1. conn[t[1]].queue \in Seq(Own(t[1]) \cup {Fin}) /\ net[t[1]].inbox \in Seq(Messages(t[1]))
      BY <2>1, EndFields DEF RunShape
    <3> QED
      BY <2>1, <3>1, PlacesFinite DEF InQueue, InInbox
  <2>2. CASE t[1] \notin Conns
    BY <2>2 DEF InQueue, InInbox
  <2> QED
    BY <2>1, <2>2
<1>6. Sent(t) \in Nat /\ Posted(t) \in Nat /\ ToGive(t) \in Nat
  BY DEF Sent, Posted, ToGive
<1> QED
  BY <1>2, <1>3, <1>4, <1>5, <1>6 DEF OnNet, Here

LEMMA OneOrNone ==
    ASSUME NEW t, NEW S
    PROVE  Cardinality({t} \cap S) = IF t \in S THEN 1 ELSE 0
<1>1. CASE t \in S
  <2>1. {t} \cap S = {t}
    BY <1>1
  <2> QED
    BY <2>1, <1>1, FS_Singleton
<1>2. CASE t \notin S
  <2>1. {t} \cap S = {}
    BY <1>2
  <2> QED
    BY <2>1, <1>2, FS_EmptySet
<1> QED
  BY <1>1, <1>2

\* A task is in one place, said of the numbers that EachTaskOnce counts.
LEMMA OnceIsEachTaskOnce ==
    ASSUME plan \in Plans, RunShape, Once
    PROVE  EachTaskOnce
<1> SUFFICES ASSUME NEW t \in Tasks
             PROVE  InFlight(t) + Cardinality({t} \cap posted) + Cardinality({t[2]} \cap seed_iterators[t[1]])
                      = Here(t)
  BY DEF EachTaskOnce, Once, Searching
<1>1. tasks \in Seq(Tasks \cup {Fin}) /\ feedback \in Seq(Items)
  BY DEF RunShape, MainShape
<1>2. Cardinality({i \in 1..Len(tasks) : tasks[i] = t}) = InTasks(t)
  <2>1. {i \in 1..Len(tasks) : tasks[i] = t} = PlacesOf(tasks, {t})
    BY DEF PlacesOf
  <2> QED
    BY <2>1 DEF InTasks, HowMany
<1>3. Cardinality({i \in 1..Len(feedback) : feedback[i].kind = "done" /\ feedback[i].task = t}) = InFeedback(t)
  <2>1. \A i \in 1..Len(feedback) : feedback[i] \in Items
    BY <1>1, ElementOfSeq
  <2>2. {i \in 1..Len(feedback) : feedback[i].kind = "done" /\ feedback[i].task = t} = PlacesOf(feedback, DoneOf(t))
    BY <2>1 DEF PlacesOf, DoneOf
  <2> QED
    BY <2>2 DEF InFeedback, HowMany
<1>4. (IF t[1] \notin Conns THEN 0
       ELSE Cardinality({i \in 1..Len(conn[t[1]].queue) : conn[t[1]].queue[i] = t})
          + Cardinality({t} \cap net[t[1]].away)
          + Cardinality({i \in 1..Len(net[t[1]].inbox) :
                            net[t[1]].inbox[i].kind = "result" /\ net[t[1]].inbox[i].task = t})) = OnNet(t)
  <2>1. CASE t[1] \in Conns
    <3>1. net[t[1]].inbox \in Seq(Messages(t[1]))
      BY <2>1, EndFields DEF RunShape
    <3>2. {i \in 1..Len(conn[t[1]].queue) : conn[t[1]].queue[i] = t} = PlacesOf(conn[t[1]].queue, {t})
      BY DEF PlacesOf
    <3>3. \A i \in 1..Len(net[t[1]].inbox) : net[t[1]].inbox[i] \in Messages(t[1])
      BY <3>1, ElementOfSeq
    <3>4. {i \in 1..Len(net[t[1]].inbox) :
              net[t[1]].inbox[i].kind = "result" /\ net[t[1]].inbox[i].task = t}
            = PlacesOf(net[t[1]].inbox, ResultOf(t))
      BY <3>3 DEF PlacesOf, ResultOf
    <3>5. Cardinality({t} \cap net[t[1]].away) = Sent(t)
      BY <2>1, OneOrNone DEF Sent
    <3> QED
      BY <2>1, <3>2, <3>4, <3>5 DEF InQueue, InInbox, OnNet, HowMany
  <2>2. CASE t[1] \notin Conns
    BY <2>2 DEF InQueue, InInbox, Sent, OnNet
  <2> QED
    BY <2>1, <2>2
<1>5. Cardinality({t} \cap posted) = Posted(t) /\ Cardinality({t[2]} \cap seed_iterators[t[1]]) = ToGive(t)
  BY OneOrNone DEF Posted, ToGive
<1>6. InFlight(t) = InTasks(t) + InHand(t) + InFeedback(t) + OnNet(t)
  BY <1>2, <1>3, <1>4 DEF InFlight, InHand
<1> QED
  BY <1>5, <1>6 DEF Here

LEMMA InFeedbackSteps ==
    ASSUME UNCHANGED plan, feedback \in Seq(Items), NEW t
    PROVE  /\ feedback' = feedback => InFeedback(t)' = InFeedback(t)
           /\ feedback # <<>> /\ feedback' = Tail(feedback) =>
                InFeedback(t)' = InFeedback(t)
                                  - (IF Head(feedback).kind = "done" /\ Head(feedback).task = t THEN 1 ELSE 0)
           /\ \A x \in Items : feedback' = Append(feedback, x) =>
                InFeedback(t)' = InFeedback(t) + (IF x.kind = "done" /\ x.task = t THEN 1 ELSE 0)
           /\ (\E x \in Items : feedback' = Append(feedback, x) /\ x.kind # "done") =>
                InFeedback(t)' = InFeedback(t)
<1>1. DoneOf(t)' = DoneOf(t)
  BY RunPlanStays DEF DoneOf
<1>2. ASSUME feedback # <<>>, feedback' = Tail(feedback)
      PROVE  InFeedback(t)' = InFeedback(t)
                              - (IF Head(feedback).kind = "done" /\ Head(feedback).task = t THEN 1 ELSE 0)
  <2>1. Head(feedback) \in Items
    BY <1>2, SeqSteps
  <2>2. Head(feedback) \in DoneOf(t) <=> Head(feedback).kind = "done" /\ Head(feedback).task = t
    BY <2>1 DEF DoneOf
  <2>3. HowMany(Tail(feedback), DoneOf(t)) = HowMany(feedback, DoneOf(t)) - (IF Head(feedback) \in DoneOf(t) THEN 1 ELSE 0)
    BY <1>2, HowManyTail
  <2> QED
    BY <2>2, <2>3, <1>1, <1>2 DEF InFeedback
<1>3. ASSUME NEW x \in Items, feedback' = Append(feedback, x)
      PROVE  InFeedback(t)' = InFeedback(t) + (IF x.kind = "done" /\ x.task = t THEN 1 ELSE 0)
  <2>1. x \in DoneOf(t) <=> x.kind = "done" /\ x.task = t
    BY <1>3 DEF DoneOf
  <2>2. HowMany(Append(feedback, x), DoneOf(t)) = HowMany(feedback, DoneOf(t)) + (IF x \in DoneOf(t) THEN 1 ELSE 0)
    BY <1>3, HowManyAppend
  <2> QED
    BY <2>1, <2>2, <1>1, <1>3 DEF InFeedback
<1>4. feedback' = feedback => InFeedback(t)' = InFeedback(t)
  BY <1>1 DEF InFeedback
<1>5. ASSUME NEW x \in Items, feedback' = Append(feedback, x), x.kind # "done"
      PROVE  InFeedback(t)' = InFeedback(t)
  <2>1. InFeedback(t)' = InFeedback(t) + 0
    BY <1>3, <1>5
  <2>2. InFeedback(t) \in Nat
    BY PlacesFinite DEF InFeedback
  <2> QED
    BY <2>1, <2>2
<1> QED
  BY <1>2, <1>3, <1>4, <1>5

LEMMA InInboxSteps ==
    ASSUME UNCHANGED plan, RunShape, NEW t \in Tasks, t[1] \in Conns
    PROVE  /\ net[t[1]].inbox # <<>> /\ net'[t[1]].inbox = Tail(net[t[1]].inbox) =>
                InInbox(t)' = InInbox(t)
                               - (IF Head(net[t[1]].inbox).kind = "result" /\ Head(net[t[1]].inbox).task = t
                                  THEN 1 ELSE 0)
           /\ \A x \in Messages(t[1]) : net'[t[1]].inbox = Append(net[t[1]].inbox, x) =>
                InInbox(t)' = InInbox(t) + (IF x.kind = "result" /\ x.task = t THEN 1 ELSE 0)
<1> DEFINE s == net[t[1]].inbox
           s1 == net'[t[1]].inbox
           R == ResultOf(t)
<1>1. ResultOf(t)' = R
  BY PlacesStay DEF ResultOf
<1>2. s \in Seq(Messages(t[1])) /\ Conns' = Conns
  BY EndFields, RunPlanStays DEF RunShape
<1>3. InInbox(t) = HowMany(s, R) /\ InInbox(t)' = HowMany(s1, R)
  BY <1>1, <1>2 DEF InInbox
<1>4. \A x \in Messages(t[1]) : x \in R <=> x.kind = "result" /\ x.task = t
  BY DEF ResultOf
<1> HIDE DEF s, s1, R
<1>5. ASSUME s # <<>>, s1 = Tail(s)
      PROVE  InInbox(t)' = InInbox(t) - (IF Head(s).kind = "result" /\ Head(s).task = t THEN 1 ELSE 0)
  <2>1. Head(s) \in Messages(t[1])
    BY <1>2, <1>5, SeqSteps
  <2>2. HowMany(Tail(s), R) = HowMany(s, R) - (IF Head(s) \in R THEN 1 ELSE 0)
    BY <1>2, <1>5, HowManyTail
  <2> QED
    BY <2>1, <2>2, <1>3, <1>4, <1>5
<1>6. ASSUME NEW x \in Messages(t[1]), s1 = Append(s, x)
      PROVE  InInbox(t)' = InInbox(t) + (IF x.kind = "result" /\ x.task = t THEN 1 ELSE 0)
  <2>1. HowMany(Append(s, x), R) = HowMany(s, R) + (IF x \in R THEN 1 ELSE 0)
    BY <1>2, <1>6, HowManyAppend
  <2> QED
    BY <2>1, <1>3, <1>4, <1>6
<1> QED
  BY <1>5, <1>6 DEF s, s1

LEMMA PlacesKept ==
    ASSUME UNCHANGED plan, NEW t
    PROVE  /\ UNCHANGED tasks => InTasks(t)' = InTasks(t)
           /\ UNCHANGED hand => InHand(t)' = InHand(t)
           /\ UNCHANGED netVars => InQueue(t)' = InQueue(t) /\ OnNet(t)' = OnNet(t)
           /\ UNCHANGED net => Sent(t)' = Sent(t) /\ InInbox(t)' = InInbox(t)
           /\ UNCHANGED conn => InQueue(t)' = InQueue(t)
           /\ UNCHANGED posted => Posted(t)' = Posted(t)
           /\ UNCHANGED seed_iterators => ToGive(t)' = ToGive(t)
<1>1. ResultOf(t)' = ResultOf(t) /\ Conns' = Conns /\ Workers' = Workers
  BY PlacesStay, RunPlanStays DEF ResultOf
<1>2. UNCHANGED net => Sent(t)' = Sent(t) /\ InInbox(t)' = InInbox(t)
  BY <1>1 DEF Sent, InInbox
<1>3. UNCHANGED conn => InQueue(t)' = InQueue(t)
  BY <1>1 DEF InQueue
<1> QED
  BY <1>1, <1>2, <1>3 DEF InTasks, InHand, Posted, ToGive, OnNet, netVars

LEMMA RunInitOnce ==
    ASSUME plan \in Plans, RunInit
    PROVE  Once
<1> SUFFICES ASSUME NEW t \in Tasks PROVE Here(t) = 1
  BY DEF Once
<1>1. t # None /\ t[1] \in Perms /\ t[2] \in Seeds[t[1]]
  BY RunPlanFacts
<1>2. InTasks(t) = 0 /\ InFeedback(t) = 0
  BY HowManyEmpty DEF RunInit, InTasks, InFeedback
<1>3. InHand(t) = 0
  <2>1. {w \in Workers : hand[w] = t} = {}
    BY <1>1 DEF RunInit
  <2> QED
    BY <2>1, FS_EmptySet DEF InHand
<1>4. OnNet(t) = 0
  <2>1. InQueue(t) = 0 /\ InInbox(t) = 0
    BY HowManyEmpty DEF RunInit, InQueue, InInbox
  <2>2. Sent(t) = 0
    BY DEF RunInit, Sent
  <2> QED
    BY <2>1, <2>2 DEF OnNet
<1>5. Posted(t) = 0 /\ ToGive(t) = 1
  BY <1>1 DEF RunInit, Posted, ToGive
<1> QED
  BY <1>2, <1>3, <1>4, <1>5 DEF Here

LEMMA MainKeepsOnce ==
    ASSUME plan \in Plans, UNCHANGED plan, RunShape, ActiveCount, Once, Main
    PROVE  Once'
<1> SUFFICES ASSUME NEW t \in Tasks
             PROVE  Here(t)' <= 1 /\ (Conns = {} /\ Searching' => Here(t)' = 1)
  BY RunPlanStays DEF Once
<1>0. feedback \in Seq(Items) /\ tasks \in Seq(Tasks \cup {Fin}) /\ MainShape /\ NetShape /\ active \in Int
  BY DEF RunShape, MainShape
<1>1. /\ InTasks(t) \in Nat /\ InHand(t) \in Nat /\ InFeedback(t) \in Nat /\ OnNet(t) \in Nat
      /\ InQueue(t) \in Nat /\ Sent(t) \in Nat /\ InInbox(t) \in Nat
      /\ Posted(t) \in Nat /\ ToGive(t) \in Nat
      /\ Here(t) = InTasks(t) + InHand(t) + InFeedback(t) + OnNet(t) + Posted(t) + ToGive(t)
      /\ Here(t) <= 1 /\ (Conns = {} /\ Searching => Here(t) = 1)
      /\ StopOnZero' = StopOnZero
  BY AddendsAre, RunPlanStays DEF Here, Once
<1>2. Here(t)' = InTasks(t)' + InHand(t)' + InFeedback(t)' + OnNet(t)' + Posted(t)' + ToGive(t)'
  BY DEF Here
<1>3. t # Fin /\ t # None /\ t = <<t[1], t[2]>> /\ t[1] \in Perms
  BY RunPlanFacts
<1>4. CASE MainFinished \/ MainRefuse
  <2>1. /\ feedback # <<>> /\ Head(feedback).kind # "done" /\ feedback' = Tail(feedback)
        /\ UNCHANGED <<tasks, hand, posted, seed_iterators, found_zero>> /\ UNCHANGED netVars
    BY <1>4 DEF MainFinished, MainRefuse, workVars, mainVars
  <2>2. InFeedback(t)' = InFeedback(t)
    BY <2>1, <1>0, <1>1, InFeedbackSteps
  <2>3. /\ InTasks(t)' = InTasks(t) /\ InHand(t)' = InHand(t) /\ OnNet(t)' = OnNet(t)
        /\ Posted(t)' = Posted(t) /\ ToGive(t)' = ToGive(t)
    BY <2>1, PlacesKept
  <2> QED
    BY <2>1, <2>2, <2>3, <1>1, <1>2 DEF Searching
<1>5. CASE MainWorkDone
  <2> DEFINE f == Head(feedback)
             skip == phase = "finishing" /\ StopOnZero /\ found_zero
  <2>1. /\ feedback # <<>> /\ f.kind = "done" /\ feedback' = Tail(feedback)
        /\ UNCHANGED <<tasks, hand, seed_iterators>> /\ UNCHANGED netVars
        /\ skip => UNCHANGED <<posted, found_zero>>
        /\ ~ skip => posted' = posted \cup {f.task} /\ (found_zero' <=> (found_zero \/ IsZero(f)))
    BY <1>5 DEF MainWorkDone, workVars
  <2>2. InFeedback(t)' = InFeedback(t) - (IF f.task = t THEN 1 ELSE 0) /\ InFeedback(t)' \in Nat
    <3>1. InFeedback(t)' = InFeedback(t) - (IF f.task = t THEN 1 ELSE 0)
      BY <2>1, <1>0, InFeedbackSteps
    <3>2. HowMany(Tail(feedback), DoneOf(t)) \in Nat
      BY <2>1, <1>0, PlacesFinite, SeqSteps
    <3>3. DoneOf(t)' = DoneOf(t)
      BY RunPlanStays DEF DoneOf
    <3> QED
      BY <3>1, <3>2, <3>3, <2>1 DEF InFeedback
  <2>3. /\ InTasks(t)' = InTasks(t) /\ InHand(t)' = InHand(t) /\ OnNet(t)' = OnNet(t)
        /\ ToGive(t)' = ToGive(t)
    BY <2>1, PlacesKept
  <2>4. CASE skip
    <3>1. Posted(t)' = Posted(t) /\ ~ Searching'
      BY <2>1, <2>4, <1>1, PlacesKept DEF Searching
    <3> QED
      BY <3>1, <2>2, <2>3, <1>1, <1>2
  <2>5. CASE ~ skip
    <3>1. Posted(t)' = IF f.task = t THEN 1 ELSE Posted(t)
      BY <2>1, <2>5 DEF Posted
    <3>2. Searching' => Searching
      BY <2>1, <2>5, <1>1 DEF Searching
    <3>3. f.task = t => Posted(t) = 0
      BY <2>2, <1>1
    <3>4. Here(t)' = Here(t)
      BY <3>1, <3>3, <2>2, <2>3, <1>1, <1>2
    <3> QED
      BY <3>2, <3>4, <1>1
  <2> QED
    BY <2>4, <2>5
<1>6. CASE MainNeedWork
  <2> DEFINE src == Head(feedback).src
  <2>1. /\ feedback # <<>> /\ Head(feedback).kind # "done" /\ feedback' = Tail(feedback)
        /\ UNCHANGED <<hand, posted, found_zero, net>>
    BY <1>6 DEF MainNeedWork, workVars
  <2>2. src \in Senders
    BY <2>1, <1>0, SeqSteps, ItemKinds
  <2>3. PICK u \in Tasks \cup {None} :
          /\ IF src = Local THEN GetTaskAny(u) ELSE GetTaskOf(src, u)
          /\ tasks' = IF u # None /\ src = Local THEN Append(tasks, u) ELSE tasks
          /\ conn' = IF u # None /\ src # Local THEN [conn EXCEPT ![src].queue = Append(@, u)] ELSE conn
    BY <1>6 DEF MainNeedWork
  <2> HIDE DEF src
  <2>4. /\ u = None => seed_iterators' = seed_iterators
        /\ u # None => /\ u \in Tasks /\ u[2] \in seed_iterators[u[1]]
                       /\ seed_iterators' = [seed_iterators EXCEPT ![u[1]] = @ \ {u[2]}]
        /\ u # None /\ src # Local => u \in Own(src)
    BY <2>2, <2>3, <1>0, TaskTaken
  <2>5. /\ InFeedback(t)' = InFeedback(t) /\ InHand(t)' = InHand(t) /\ Posted(t)' = Posted(t)
        /\ Sent(t)' = Sent(t) /\ InInbox(t)' = InInbox(t)
    BY <2>1, <1>0, <1>1, InFeedbackSteps, PlacesKept
  <2>6. ToGive(t)' = ToGive(t) - (IF u = t THEN 1 ELSE 0)
    <3>1. CASE u = None
      BY <3>1, <2>4, <1>1, <1>3 DEF ToGive
    <3>2. CASE u # None
      <4>1. /\ u \in Tasks /\ u[2] \in seed_iterators[u[1]] /\ u = <<u[1], u[2]>>
            /\ seed_iterators' = [seed_iterators EXCEPT ![u[1]] = @ \ {u[2]}]
            /\ DOMAIN seed_iterators = Perms
        BY <3>2, <2>4, <1>0, RunPlanFacts DEF MainShape
      <4>2. seed_iterators'[t[1]] = IF u[1] = t[1] THEN seed_iterators[t[1]] \ {u[2]} ELSE seed_iterators[t[1]]
        BY <4>1, <1>3
      <4>3. u = t <=> u[1] = t[1] /\ u[2] = t[2]
        BY <4>1, <1>3
      <4> QED
        BY <4>1, <4>2, <4>3 DEF ToGive
    <3> QED
      BY <3>1, <3>2
  <2>7. /\ InTasks(t)' = InTasks(t) + (IF src = Local /\ u = t THEN 1 ELSE 0)
        /\ InQueue(t)' = InQueue(t) + (IF src # Local /\ u = t THEN 1 ELSE 0)
    <3>1. CASE u = None
      <4>1. tasks' = tasks /\ conn' = conn
        BY <3>1, <2>3
      <4> QED
        BY <4>1, <3>1, <1>1, <1>3, PlacesKept
    <3>2. CASE u # None /\ src = Local
      <4>1. tasks' = Append(tasks, u) /\ conn' = conn /\ u \in Tasks
        BY <3>2, <2>3, <2>4
      <4>2. HowMany(Append(tasks, u), {t}) = HowMany(tasks, {t}) + (IF u \in {t} THEN 1 ELSE 0)
        BY <4>1, <1>0, HowManyAppend
      <4>3. InQueue(t)' = InQueue(t)
        BY <4>1, PlacesKept
      <4> QED
        BY <4>1, <4>2, <4>3, <3>2, <1>1 DEF InTasks
    <3>3. CASE u # None /\ src # Local
      <4>1. /\ conn' = [conn EXCEPT ![src].queue = Append(@, u)] /\ tasks' = tasks
            /\ u \in Own(src) /\ src \in Conns /\ u[1] = src
        BY <3>3, <2>2, <2>3, <2>4 DEF Senders, Own
      <4>2. InTasks(t)' = InTasks(t)
        BY <4>1, PlacesKept
      <4>3. CASE t[1] = src
        <5>1. conn'[src].queue = Append(conn[src].queue, u)
          BY <4>1, <1>0 DEF NetShape
        <5>2. conn[src].queue \in Seq(Own(src) \cup {Fin}) /\ u \in Own(src) \cup {Fin}
          BY <4>1, <1>0, EndFields
        <5>3. HowMany(Append(conn[src].queue, u), {t})
                = HowMany(conn[src].queue, {t}) + (IF u \in {t} THEN 1 ELSE 0)
          BY <5>2, HowManyAppend
        <5> QED
          BY <5>1, <5>3, <4>1, <4>2, <4>3, <3>3, <1>1, RunPlanStays, SMTT(60) DEF InQueue
      <4>4. CASE t[1] # src
        <5>1. t[1] \in Conns => conn'[t[1]] = conn[t[1]]
          BY <4>1, <4>4, <1>0 DEF NetShape
        <5> QED
          BY <5>1, <4>1, <4>2, <4>4, <3>3, <1>1, RunPlanStays DEF InQueue
      <4> QED
        BY <4>3, <4>4
    <3> QED
      BY <3>1, <3>2, <3>3
  <2>8. OnNet(t)' = InQueue(t)' + Sent(t)' + InInbox(t)' /\ OnNet(t) = InQueue(t) + Sent(t) + InInbox(t)
    BY DEF OnNet
  <2>9. Here(t)' = Here(t)
    BY <2>5, <2>6, <2>7, <2>8, <1>1, <1>2
  <2> QED
    BY <2>1, <2>9, <1>1 DEF Searching
<1>7. CASE MainSignal
  <2>1. /\ tasks' = tasks \o [i \in 1..active |-> Fin]
        /\ conn' = [p \in Conns |-> [conn[p] EXCEPT !.queue = Append(@, Fin)]]
        /\ UNCHANGED <<hand, posted, seed_iterators, found_zero, net, feedback>>
    BY <1>7 DEF MainSignal, workVars
  <2>2. InTasks(t)' = InTasks(t)
    <3> DEFINE s == tasks \o [i \in 1..active |-> Fin]
               S == Tasks \cup {Fin}
    <3>1. active \in Nat
      <4>1. Cardinality(Running) \in Nat /\ HowMany(feedback, {Gone(Local)}) \in Nat
        BY <1>0, RunningFinite, PlacesFinite
      <4> QED
        BY <4>1 DEF ActiveCount
    <3>2. tasks \in Seq(S) /\ Fin \in S
      BY <1>0
    <3> HIDE DEF S
    <3>3. /\ s \in Seq(S) /\ Len(s) = Len(tasks) + active
          /\ \A i \in 1..Len(tasks) + active : s[i] = IF i <= Len(tasks) THEN tasks[i] ELSE Fin
      BY <3>1, <3>2, MoreOfOne
    <3> HIDE DEF s
    <3>4. Len(tasks) <= Len(s) /\ \A i \in 1..Len(s) : s[i] = IF i <= Len(tasks) THEN tasks[i] ELSE Fin
      BY <3>1, <3>2, <3>3
    <3>5. HowMany(s, {t}) = HowMany(tasks, {t}) + (IF Fin \in {t} THEN Len(s) - Len(tasks) ELSE 0)
      BY <3>2, <3>3, <3>4, HowManyMore
    <3>6. HowMany(s, {t}) = HowMany(tasks, {t})
      BY <3>5, <1>1, <1>3 DEF InTasks
    <3> QED
      BY <3>6, <2>1 DEF InTasks, s
  <2>3. InQueue(t)' = InQueue(t)
    <3>1. CASE t[1] \in Conns
      <4>1. conn[t[1]] \in Connections(t[1]) /\ conn[t[1]].queue \in Seq(Own(t[1]) \cup {Fin})
        BY <3>1, <1>0, EndFields DEF NetShape
      <4>2. conn'[t[1]].queue = Append(conn[t[1]].queue, Fin)
        BY <4>1, <3>1, <2>1 DEF Connections
      <4>3. HowMany(Append(conn[t[1]].queue, Fin), {t})
              = HowMany(conn[t[1]].queue, {t}) + (IF Fin \in {t} THEN 1 ELSE 0)
        <5>1. Fin \in Own(t[1]) \cup {Fin}
          OBVIOUS
        <5> QED
          BY <5>1, <4>1, HowManyAppend
      <4> QED
        BY <4>2, <4>3, <3>1, <1>1, <1>3, RunPlanStays DEF InQueue
    <3>2. CASE t[1] \notin Conns
      BY <3>2, RunPlanStays DEF InQueue
    <3> QED
      BY <3>1, <3>2
  <2>4. /\ InFeedback(t)' = InFeedback(t) /\ InHand(t)' = InHand(t) /\ Posted(t)' = Posted(t)
        /\ Sent(t)' = Sent(t) /\ InInbox(t)' = InInbox(t) /\ ToGive(t)' = ToGive(t)
    BY <2>1, <1>0, InFeedbackSteps, PlacesKept
  <2>5. OnNet(t)' = InQueue(t)' + Sent(t)' + InInbox(t)' /\ OnNet(t) = InQueue(t) + Sent(t) + InInbox(t)
    BY DEF OnNet
  <2>6. Here(t)' = Here(t)
    BY <2>2, <2>3, <2>4, <2>5, <1>1, <1>2
  <2> QED
    BY <2>1, <2>6, <1>1 DEF Searching
<1>8. CASE MainJoin
  <2>1. UNCHANGED <<tasks, hand, posted, seed_iterators, found_zero, feedback>> /\ UNCHANGED netVars
    BY <1>8 DEF MainJoin, workVars
  <2>2. Here(t)' = Here(t)
    BY <2>1, <1>0, <1>1, <1>2, InFeedbackSteps, PlacesKept
  <2> QED
    BY <2>1, <2>2, <1>1 DEF Searching
<1> QED
  BY <1>4, <1>5, <1>6, <1>7, <1>8 DEF Main

LEMMA InHandSteps ==
    ASSUME plan \in Plans, UNCHANGED plan, RunShape, NEW t \in Tasks, NEW w \in Workers,
           NEW u \in Tasks \cup {None}, hand' = [hand EXCEPT ![w] = u], hand[w] = None \/ u = None
    PROVE  InHand(t)' = InHand(t) + (IF u = t THEN 1 ELSE 0) - (IF hand[w] = t THEN 1 ELSE 0)
<1> DEFINE H == {v \in Workers : hand[v] = t}
<1>1. IsFiniteSet(H) /\ Cardinality(H) \in Nat /\ Cardinality(H) = InHand(t)
  BY AddendsAre DEF InHand
<1>2. t # None /\ Workers' = Workers /\ DOMAIN hand = Workers
  BY RunPlanFacts, RunPlanStays DEF RunShape, WorkShape
<1>3. InHand(t)' = Cardinality({v \in Workers : hand'[v] = t})
  BY <1>2 DEF InHand
<1>4. CASE u = t
  <2>1. {v \in Workers : hand'[v] = t} = H \cup {w} /\ w \notin H
    BY <1>2, <1>4
  <2>2. hand[w] # t
    BY <2>1
  <2> HIDE DEF H
  <2>3. Cardinality(H \cup {w}) = Cardinality(H) + 1
    BY <2>1, <1>1, FS_AddElement
  <2>4. InHand(t)' = InHand(t) + 1
    BY <2>1, <2>3, <1>1, <1>3
  <2> QED
    BY <2>2, <2>4, <1>1, <1>4
<1>5. CASE hand[w] = t
  <2>1. {v \in Workers : hand'[v] = t} = H \ {w} /\ w \in H /\ u # t
    BY <1>2, <1>5
  <2> HIDE DEF H
  <2>2. Cardinality(H \ {w}) = Cardinality(H) - 1
    BY <2>1, <1>1, FS_RemoveElement
  <2> QED
    BY <2>1, <2>2, <1>1, <1>3, <1>5
<1>6. CASE u # t /\ hand[w] # t
  <2>1. {v \in Workers : hand'[v] = t} = H
    BY <1>2, <1>6
  <2> QED
    BY <2>1, <1>1, <1>3, <1>6
<1> QED
  BY <1>4, <1>5, <1>6

LEMMA WorkerKeepsOnce ==
    ASSUME plan \in Plans, UNCHANGED plan, RunShape, Copies, Once, NEW w \in Workers, Worker(w)
    PROVE  Once'
<1> SUFFICES ASSUME NEW t \in Tasks
             PROVE  Here(t)' <= 1 /\ (Conns = {} /\ Searching' => Here(t)' = 1)
  BY RunPlanStays DEF Once
<1>0. feedback \in Seq(Items) /\ tasks \in Seq(Tasks \cup {Fin}) /\ WorkShape
  BY DEF RunShape, MainShape
<1>1. /\ InTasks(t) \in Nat /\ InHand(t) \in Nat /\ InFeedback(t) \in Nat /\ OnNet(t) \in Nat
      /\ Posted(t) \in Nat /\ ToGive(t) \in Nat
      /\ Here(t) = InTasks(t) + InHand(t) + InFeedback(t) + OnNet(t) + Posted(t) + ToGive(t)
      /\ Here(t) <= 1 /\ (Conns = {} /\ Searching => Here(t) = 1)
  BY AddendsAre DEF Here, Once
<1>2. t # Fin /\ t # None
  BY RunPlanFacts
<1>3. /\ UNCHANGED <<posted, seed_iterators, found_zero>> /\ UNCHANGED netVars
  BY DEF Worker, WorkerMiss, WorkerGet, WorkerDone, WorkerAsk, mainVars
<1>4. OnNet(t)' = OnNet(t) /\ Posted(t)' = Posted(t) /\ ToGive(t)' = ToGive(t) /\ (Searching' <=> Searching)
  BY <1>3, PlacesKept, RunPlanStays DEF Searching
<1>5. SUFFICES InTasks(t)' + InHand(t)' + InFeedback(t)' = InTasks(t) + InHand(t) + InFeedback(t)
                /\ InTasks(t)' \in Int /\ InHand(t)' \in Int /\ InFeedback(t)' \in Int
  BY <1>1, <1>4 DEF Here
<1>6. CASE WorkerMiss(w) \/ WorkerAsk(w)
  <2>1. feedback' = Append(feedback, Ask(Local)) /\ UNCHANGED <<hand, tasks>>
    BY <1>6 DEF WorkerMiss, WorkerAsk
  <2>2. Ask(Local) \in Items /\ Ask(Local).kind # "done"
    BY ItemsAre, ItemsApart
  <2>3. InFeedback(t)' = InFeedback(t)
    BY <2>1, <2>2, <1>0, InFeedbackSteps
  <2> QED
    BY <2>1, <2>3, <1>1, PlacesKept
<1>7. CASE WorkerGet(w)
  <2>1. wpc[w] \in {"poll", "wait"} /\ tasks # <<>> /\ tasks' = Tail(tasks)
    BY <1>7 DEF WorkerGet
  <2>2. HowMany(Tail(tasks), {t}) = HowMany(tasks, {t}) - (IF Head(tasks) \in {t} THEN 1 ELSE 0)
    BY <2>1, <1>0, HowManyTail
  <2>3. InTasks(t)' = InTasks(t) - (IF Head(tasks) = t THEN 1 ELSE 0)
    BY <2>1, <2>2 DEF InTasks
  <2>4. CASE Head(tasks) = Fin
    <3>1. feedback' = Append(feedback, Gone(Local)) /\ UNCHANGED hand
      BY <2>4, <1>7 DEF WorkerGet
    <3>2. Gone(Local) \in Items /\ Gone(Local).kind # "done"
      BY ItemsAre, ItemsApart
    <3>3. InFeedback(t)' = InFeedback(t)
      BY <3>1, <3>2, <1>0, <1>1, InFeedbackSteps
    <3> QED
      BY <3>1, <3>3, <2>3, <2>4, <1>1, <1>2, PlacesKept
  <2>5. CASE Head(tasks) # Fin
    <3>1. hand' = [hand EXCEPT ![w] = Head(tasks)] /\ UNCHANGED feedback
      BY <2>5, <1>7 DEF WorkerGet
    <3>2. Head(tasks) \in Tasks /\ hand[w] = None
      BY <2>1, <2>5, <1>0, SeqSteps DEF WorkShape
    <3>3. InHand(t)' = InHand(t) + (IF Head(tasks) = t THEN 1 ELSE 0) - 0
      BY <3>1, <3>2, <1>2, InHandSteps
    <3>4. InFeedback(t)' = InFeedback(t)
      BY <3>1, <1>0, InFeedbackSteps
    <3> QED
      BY <3>3, <3>4, <2>3, <1>1
  <2> QED
    BY <2>4, <2>5
<1>8. CASE WorkerDone(w)
  <2> DEFINE p == hand[w][1]
             o == child[w][p]
  <2>1. wpc[w] = "work" /\ hand' = [hand EXCEPT ![w] = None] /\ UNCHANGED tasks
    BY <1>8 DEF WorkerDone
  <2>2. PICK e \in Evaluations(p, o, hand[w][2]) : feedback' = Append(feedback, Done(Local, hand[w], e.res))
    BY <1>8 DEF WorkerDone
  <2>3. hand[w] \in Tasks
    BY <2>1, <1>0 DEF WorkShape
  <2>4. p \in Perms /\ hand[w][2] \in Seeds[p] /\ o \in Objects(p) /\ Sound(o)
    BY <2>3, <1>0, RunPlanFacts DEF WorkShape, Copies
  <2> HIDE DEF p, o
  <2>5. e.res \in Results
    BY <2>2, <2>4, AfterEvaluation
  <2> DEFINE x == Done(Local, hand[w], e.res)
  <2>6. x \in Items /\ x.kind = "done" /\ x.task = hand[w]
    BY <2>3, <2>5, ItemsAre, ItemsApart
  <2> HIDE DEF x
  <2>7. feedback' = Append(feedback, x)
    BY <2>2 DEF x
  <2>8. InFeedback(t)' = InFeedback(t) + (IF hand[w] = t THEN 1 ELSE 0)
    BY <2>6, <2>7, <1>0, InFeedbackSteps
  <2>9. InHand(t)' = InHand(t) + 0 - (IF hand[w] = t THEN 1 ELSE 0)
    BY <2>1, <1>2, InHandSteps
  <2>10. InTasks(t)' = InTasks(t)
    BY <2>1, PlacesKept
  <2> QED
    BY <2>8, <2>9, <2>10, <1>1
<1> QED
  BY <1>6, <1>7, <1>8 DEF Worker

LEMMA NetKeepsOnce ==
    ASSUME plan \in Plans, UNCHANGED plan, RunShape, Copies, Once, NEW p \in Conns, Connection(p) \/ Server(p)
    PROVE  Once'
<1> SUFFICES ASSUME NEW t \in Tasks
             PROVE  Here(t)' <= 1
  BY RunPlanStays DEF Once
<1>0. feedback \in Seq(Items) /\ NetShape /\ p \in Perms /\ Own(p) \subseteq Tasks /\ p \in Senders
  BY RunPlanFacts DEF RunShape, MainShape, Senders
<1>1. /\ InTasks(t) \in Nat /\ InHand(t) \in Nat /\ InFeedback(t) \in Nat
      /\ InQueue(t) \in Nat /\ Sent(t) \in Nat /\ InInbox(t) \in Nat
      /\ Posted(t) \in Nat /\ ToGive(t) \in Nat /\ Conns' = Conns
      /\ InTasks(t) + InHand(t) + InFeedback(t) + (InQueue(t) + Sent(t) + InInbox(t)) + Posted(t) + ToGive(t) <= 1
  BY AddendsAre, RunPlanStays DEF Here, OnNet, Once
<1>2. t # Fin /\ Ask(p) \in Items /\ Text(p) \in Items /\ Gone(p) \in Items
      /\ Ask(p).kind # "done" /\ Text(p).kind # "done" /\ Gone(p).kind # "done"
  BY <1>0, RunPlanFacts, ItemsAre, ItemsApart
<1>3. UNCHANGED <<posted, seed_iterators, tasks, hand>>
  BY DEF Connection, Server, ConnReceive, ConnAsk, ConnTake, ServerAsk, ServerResult, ServerGone, ServerClose,
         mainVars, workVars
<1>4. /\ InTasks(t)' = InTasks(t) /\ InHand(t)' = InHand(t) /\ Posted(t)' = Posted(t) /\ ToGive(t)' = ToGive(t)
      /\ UNCHANGED conn => InQueue(t)' = InQueue(t)
      /\ UNCHANGED net => Sent(t)' = Sent(t) /\ InInbox(t)' = InInbox(t)
      /\ UNCHANGED feedback => InFeedback(t)' = InFeedback(t)
  BY <1>0, <1>3, PlacesKept, InFeedbackSteps
<1>5. SUFFICES InFeedback(t)' + InQueue(t)' + Sent(t)' + InInbox(t)'
                  <= InFeedback(t) + InQueue(t) + Sent(t) + InInbox(t)
               /\ InFeedback(t)' \in Int /\ InQueue(t)' \in Int /\ Sent(t)' \in Int /\ InInbox(t)' \in Int
  BY <1>1, <1>4 DEF Here, OnNet
<1>6. /\ conn[p].queue \in Seq(Own(p) \cup {Fin}) /\ net[p].inbox \in Seq(Messages(p)) /\ net[p].away \subseteq Own(p)
      /\ conn[p] \in Connections(p) /\ net[p] \in Ends(p) /\ DOMAIN conn = Conns /\ DOMAIN net = Conns
  BY <1>0, EndFields DEF NetShape
<1>7. \A u \in Own(p) : u[1] = p
  BY DEF Own
<1>8. ASSUME NEW n1, net' = [net EXCEPT ![p] = n1], t[1] # p
      PROVE  Sent(t)' = Sent(t) /\ InInbox(t)' = InInbox(t)
  <2>1. t[1] \in Conns => net'[t[1]] = net[t[1]]
    BY <1>6, <1>8
  <2>2. ResultOf(t)' = ResultOf(t)
    BY PlacesStay DEF ResultOf
  <2> QED
    BY <2>1, <2>2, <1>1 DEF Sent, InInbox
<1>9. ASSUME NEW c1, conn' = [conn EXCEPT ![p] = c1], t[1] # p \/ c1.queue = conn[p].queue
      PROVE  InQueue(t)' = InQueue(t)
  <2>1. t[1] \in Conns => conn'[t[1]].queue = conn[t[1]].queue
    BY <1>6, <1>9
  <2> QED
    BY <2>1, <1>1 DEF InQueue
<1>10. ASSUME NEW n1, net' = [net EXCEPT ![p] = n1], NEW x \in Messages(p), n1.inbox = Append(net[p].inbox, x), t[1] = p
       PROVE  InInbox(t)' = InInbox(t) + (IF x.kind = "result" /\ x.task = t THEN 1 ELSE 0)
  <2>1. net'[p].inbox = Append(net[p].inbox, x)
    BY <1>6, <1>10
  <2> QED
    BY <2>1, <1>10, InInboxSteps
<1>11. CASE ConnReceive(p)
  <2> DEFINE msg == Head(net[p].inbox)
             pc1 == CASE msg.kind = "eof" -> "closed" [] msg.kind = "disconnect" -> "receive" [] OTHER -> "ask"
             n1 == [net[p] EXCEPT !.inbox = Tail(@)]
             c1 == [conn[p] EXCEPT !.pc = pc1]
  <2>1. /\ net[p].inbox # <<>>
        /\ conn' = [conn EXCEPT ![p].pc = pc1]
        /\ net' = [net EXCEPT ![p].inbox = Tail(@)]
        /\ feedback' = CASE msg.kind = "need_work" -> feedback
                        [] msg.kind \in {"init_done", "disconnect"} -> Append(feedback, Text(p))
                        [] msg.kind = "result" -> Append(feedback, Done(p, msg.task, msg.res))
                        [] msg.kind = "eof" -> Append(feedback, Gone(p))
    BY <1>11 DEF ConnReceive
  <2>2. msg \in Messages(p)
    BY <2>1, <1>6, SeqSteps
  <2>3. /\ msg.kind \in {"init_done", "need_work", "disconnect", "eof", "result"}
        /\ msg.kind = "result" => msg.task \in Own(p) /\ msg.res \in Results
    BY <2>2, MessageKinds
  <2> HIDE DEF pc1, msg
  <2>4. conn' = [conn EXCEPT ![p] = c1] /\ c1.queue = conn[p].queue
    BY <2>1, <1>6 DEF Connections
  <2>5. /\ net' = [net EXCEPT ![p] = n1]
        /\ net'[p].inbox = Tail(net[p].inbox) /\ net'[p].away = net[p].away
    BY <2>1, <1>6 DEF Ends
  <2> HIDE DEF n1, c1
  <2>6. InQueue(t)' = InQueue(t)
    BY <2>4, <1>9
  <2>7. Sent(t)' = Sent(t)
    BY <2>5, <1>1, <1>8 DEF Sent
  <2>8. InInbox(t)' = InInbox(t) - (IF msg.kind = "result" /\ msg.task = t THEN 1 ELSE 0)
    <3>1. CASE t[1] = p
      BY <3>1, <2>1, <2>5, InInboxSteps DEF msg
    <3>2. CASE t[1] # p
      <4>1. InInbox(t)' = InInbox(t)
        BY <3>2, <2>5, <1>8
      <4>2. ~ (msg.kind = "result" /\ msg.task = t)
        BY <3>2, <2>3, <1>7
      <4> QED
        BY <4>1, <4>2, <1>1
    <3> QED
      BY <3>1, <3>2
  <2>9. InFeedback(t)' = InFeedback(t) + (IF msg.kind = "result" /\ msg.task = t THEN 1 ELSE 0)
    <3>1. CASE msg.kind = "result"
      <4> DEFINE x == Done(p, msg.task, msg.res)
      <4>1. x \in Items /\ x.kind = "done" /\ x.task = msg.task
        BY <3>1, <2>3, <1>0, ItemsAre, ItemsApart
      <4> HIDE DEF x
      <4>2. feedback' = Append(feedback, x)
        BY <3>1, <2>1 DEF x
      <4> QED
        BY <4>1, <4>2, <3>1, <1>0, InFeedbackSteps
    <3>2. CASE msg.kind # "result"
      <4>1. \/ feedback' = feedback
            \/ \E x \in Items : feedback' = Append(feedback, x) /\ x.kind # "done"
        BY <3>2, <2>1, <2>3, <1>2
      <4> QED
        BY <4>1, <3>2, <1>0, <1>1, InFeedbackSteps
    <3> QED
      BY <3>1, <3>2
  <2> QED
    BY <2>6, <2>7, <2>8, <2>9, <1>1
<1>12. CASE ConnAsk(p)
  <2> DEFINE pc1 == IF conn[p].finished THEN "receive" ELSE "take"
             c1 == [conn[p] EXCEPT !.pc = pc1]
  <2>1. feedback' = Append(feedback, Ask(p)) /\ conn' = [conn EXCEPT ![p].pc = pc1] /\ UNCHANGED net
    BY <1>12 DEF ConnAsk
  <2> HIDE DEF pc1
  <2>2. conn' = [conn EXCEPT ![p] = c1] /\ c1.queue = conn[p].queue
    BY <2>1, <1>6 DEF Connections
  <2> HIDE DEF c1
  <2>3. InQueue(t)' = InQueue(t)
    BY <2>2, <1>9
  <2>4. InFeedback(t)' = InFeedback(t)
    BY <2>1, <1>0, <1>2, InFeedbackSteps
  <2> QED
    BY <2>1, <2>3, <2>4, <1>1, <1>4
<1>13. CASE ConnTake(p)
  <2> DEFINE u == Head(conn[p].queue)
             lost == u # Fin /\ ~ net[p].open
             pc1 == IF lost THEN "closed" ELSE "receive"
             c1 == [conn[p] EXCEPT !.queue = Tail(@), !.finished = (u = Fin), !.pc = pc1]
             n1 == [net[p] EXCEPT !.away = @ \cup {u}]
  <2>1. /\ conn[p].queue # <<>>
        /\ conn' = [conn EXCEPT ![p].queue = Tail(@), ![p].finished = (u = Fin), ![p].pc = pc1]
        /\ net' = IF u = Fin \/ lost THEN net ELSE [net EXCEPT ![p].away = @ \cup {u}]
        /\ feedback' = IF lost THEN Append(feedback, Gone(p)) ELSE feedback
    BY <1>13 DEF ConnTake
  <2>2. u \in Own(p) \cup {Fin}
    BY <2>1, <1>6, SeqSteps
  <2>3. InFeedback(t)' = InFeedback(t)
    <3> HIDE DEF lost
    <3>1. CASE lost
      BY <3>1, <2>1, <1>0, <1>2, InFeedbackSteps
    <3>2. CASE ~ lost
      BY <3>2, <2>1, <1>4
    <3> QED
      BY <3>1, <3>2
  <2> HIDE DEF pc1, u
  <2>4. conn' = [conn EXCEPT ![p] = c1] /\ c1.queue = Tail(conn[p].queue)
    BY <2>1, <1>6 DEF Connections
  <2> HIDE DEF c1
  <2>5. InQueue(t)' = InQueue(t) - (IF u = t THEN 1 ELSE 0)
    <3>1. CASE t[1] = p
      <4>1. HowMany(Tail(conn[p].queue), {t}) = HowMany(conn[p].queue, {t}) - (IF u \in {t} THEN 1 ELSE 0)
        BY <2>1, <1>6, HowManyTail DEF u
      <4>2. conn'[p].queue = Tail(conn[p].queue)
        BY <2>4, <1>6
      <4> QED
        BY <4>1, <4>2, <3>1, <1>1 DEF InQueue
    <3>2. CASE t[1] # p
      <4>1. InQueue(t)' = InQueue(t)
        BY <3>2, <2>4, <1>9
      <4>2. u # t
        BY <3>2, <2>2, <1>2, <1>7
      <4> QED
        BY <4>1, <4>2, <1>1
    <3> QED
      BY <3>1, <3>2
  <2>6. InInbox(t)' = InInbox(t) /\ Sent(t)' \in Nat /\ Sent(t)' <= Sent(t) + (IF u = t THEN 1 ELSE 0)
    <3>1. CASE u = Fin \/ lost
      BY <3>1, <2>1, <1>1, <1>4, SMTT(60)
    <3>2. CASE ~ (u = Fin \/ lost)
      <4>1. net' = [net EXCEPT ![p] = n1] /\ n1.inbox = net[p].inbox /\ n1.away = net[p].away \cup {u}
        BY <3>2, <2>1, <1>6 DEF Ends
      <4> HIDE DEF n1, lost
      <4>2. CASE t[1] = p
        <5>1. net'[p].inbox = net[p].inbox /\ net'[p].away = net[p].away \cup {u}
          BY <4>1, <1>6
        <5>2. ResultOf(t)' = ResultOf(t)
          BY PlacesStay DEF ResultOf
        <5>3. InInbox(t)' = InInbox(t)
          BY <5>1, <5>2, <4>2, <1>1 DEF InInbox
        <5>4. Sent(t)' \in Nat /\ Sent(t)' <= Sent(t) + (IF u = t THEN 1 ELSE 0)
          BY <5>1, <4>2, <1>1 DEF Sent
        <5> QED
          BY <5>3, <5>4
      <4>3. CASE t[1] # p
        <5>1. Sent(t)' = Sent(t) /\ InInbox(t)' = InInbox(t)
          BY <4>1, <4>3, <1>8
        <5> QED
          BY <5>1, <1>1
      <4> QED
        BY <4>2, <4>3
    <3> QED
      BY <3>1, <3>2
  <2> QED
    BY <2>3, <2>5, <2>6, <1>1
<1>14. CASE Server(p)
  <2>1. UNCHANGED <<conn, feedback>>
    BY <1>14 DEF Server, ServerAsk, ServerResult, ServerGone, ServerClose
  <2>2. InQueue(t)' = InQueue(t) /\ InFeedback(t)' = InFeedback(t)
    BY <2>1, <1>4
  <2>3. SUFFICES Sent(t)' + InInbox(t)' <= Sent(t) + InInbox(t) /\ Sent(t)' \in Int /\ InInbox(t)' \in Int
    BY <2>2, <1>1
  <2>4. ASSUME NEW n1, net' = [net EXCEPT ![p] = n1], NEW x \in Messages(p), n1.inbox = Append(net[p].inbox, x),
               \/ x.kind # "result" /\ n1.away \subseteq net[p].away
               \/ x.kind = "result" /\ x.task \in net[p].away /\ n1.away = net[p].away \ {x.task}
        PROVE  Sent(t)' + InInbox(t)' <= Sent(t) + InInbox(t) /\ Sent(t)' \in Int /\ InInbox(t)' \in Int
    <3>1. CASE t[1] # p
      <4>1. Sent(t)' = Sent(t) /\ InInbox(t)' = InInbox(t)
        BY <3>1, <2>4, <1>8
      <4> QED
        BY <4>1, <1>1
    <3>2. CASE t[1] = p
      <4>1. InInbox(t)' = InInbox(t) + (IF x.kind = "result" /\ x.task = t THEN 1 ELSE 0)
        BY <3>2, <2>4, <1>10
      <4>2. net'[p].away = n1.away
        BY <2>4, <1>6
      <4>3. Sent(t) = IF t \in net[p].away THEN 1 ELSE 0
        BY <3>2 DEF Sent
      <4>4. Sent(t)' = IF t \in n1.away THEN 1 ELSE 0
        BY <3>2, <4>2, <1>1 DEF Sent
      <4>5. Sent(t)' <= Sent(t) - (IF x.kind = "result" /\ x.task = t THEN 1 ELSE 0) /\ Sent(t)' \in Nat
        BY <4>3, <4>4, <2>4
      <4> QED
        BY <4>1, <4>5, <1>1
    <3> QED
      BY <3>1, <3>2
  <2>5. CASE ServerAsk(p)
    <3>1. PICK k \in {"init_done", "need_work"} :
            net' = [net EXCEPT ![p] = [Send(p, [kind |-> k]) EXCEPT !.asks = @ + 1]]
      BY <2>5 DEF ServerAsk
    <3> DEFINE x == [kind |-> k]
               n1 == [Send(p, x) EXCEPT !.asks = @ + 1]
    <3>2. x \in Messages(p) /\ x.kind # "result"
      BY DEF Messages
    <3> HIDE DEF x
    <3>3. n1.inbox = Append(net[p].inbox, x) /\ n1.away = net[p].away
      BY <1>6 DEF Send, Ends
    <3>4. net' = [net EXCEPT ![p] = n1]
      BY <3>1 DEF x
    <3> HIDE DEF n1
    <3> QED
      BY <3>2, <3>3, <3>4, <2>4
  <2>6. CASE ServerResult(p)
    <3>1. PICK u \in net[p].away : \E c \in Cores : \E e \in Evaluations(p, net[p].objs[c], u[2]) :
            net' = [net EXCEPT ![p] = [Send(p, [kind |-> "result", task |-> u, res |-> e.res])
                                         EXCEPT !.away = @ \ {u}, !.objs[c] = After(e)]]
      BY <2>6 DEF ServerResult, After
    <3>2. PICK c \in Cores : \E e \in Evaluations(p, net[p].objs[c], u[2]) :
            net' = [net EXCEPT ![p] = [Send(p, [kind |-> "result", task |-> u, res |-> e.res])
                                         EXCEPT !.away = @ \ {u}, !.objs[c] = After(e)]]
      BY <3>1
    <3>2a. PICK e \in Evaluations(p, net[p].objs[c], u[2]) :
            net' = [net EXCEPT ![p] = [Send(p, [kind |-> "result", task |-> u, res |-> e.res])
                                         EXCEPT !.away = @ \ {u}, !.objs[c] = After(e)]]
      BY <3>2
    <3>3. u \in Own(p) /\ u[2] \in Seeds[p] /\ Sound(net[p].objs[c]) /\ net[p].objs[c] \in Objects(p)
      BY <1>0, <1>6, EndFields DEF Own, Copies
    <3>4. e.res \in Results
      BY <3>3, <1>0, AfterEvaluation
    <3> DEFINE x == [kind |-> "result", task |-> u, res |-> e.res]
               n1 == [Send(p, x) EXCEPT !.away = @ \ {u}, !.objs[c] = After(e)]
    <3>5. x \in Messages(p) /\ x.kind = "result" /\ x.task = u
      BY <3>3, <3>4 DEF Messages
    <3> HIDE DEF x
    <3>6. n1.inbox = Append(net[p].inbox, x) /\ n1.away = net[p].away \ {u}
      BY <1>6 DEF Send, Ends
    <3>7. net' = [net EXCEPT ![p] = n1]
      BY <3>2a DEF x
    <3> HIDE DEF n1
    <3> QED
      BY <3>1, <3>5, <3>6, <3>7, <2>4
  <2>7. CASE ServerGone(p)
    <3> DEFINE x == [kind |-> "disconnect"]
               n1 == [Send(p, x) EXCEPT !.away = {}]
    <3>1. net' = [net EXCEPT ![p] = n1]
      BY <2>7 DEF ServerGone
    <3>2. x \in Messages(p) /\ x.kind # "result"
      BY DEF Messages
    <3> HIDE DEF x
    <3>3. n1.inbox = Append(net[p].inbox, x) /\ n1.away = {}
      BY <1>6 DEF Send, Ends
    <3> HIDE DEF n1
    <3> QED
      BY <3>1, <3>2, <3>3, <2>4
  <2>8. CASE ServerClose(p)
    <3> DEFINE x == [kind |-> "eof"]
               n1 == [Send(p, x) EXCEPT !.open = FALSE]
    <3>1. net' = [net EXCEPT ![p] = n1]
      BY <2>8 DEF ServerClose
    <3>2. x \in Messages(p) /\ x.kind # "result"
      BY DEF Messages
    <3> HIDE DEF x
    <3>3. n1.inbox = Append(net[p].inbox, x) /\ n1.away = net[p].away
      BY <1>6 DEF Send, Ends
    <3> HIDE DEF n1
    <3> QED
      BY <3>1, <3>2, <3>3, <2>4
  <2> QED
    BY <2>5, <2>6, <2>7, <2>8, <1>14 DEF Server
<1> QED
  BY <1>11, <1>12, <1>13, <1>14 DEF Connection

-----------------------------------------------------------------------------
(* What the copies of an object know.                                      *)

LEMMA CopiesNext ==
    ASSUME UNCHANGED plan, \A q \in Perms : Sound(parent'[q]) /\ ~ parent'[q].served,
           \A v \in Workers : \A q \in Perms : Sound(child'[v][q]),
           \A q \in Conns : \A c \in Cores : Sound(net'[q].objs[c])
    PROVE  Copies'
BY KnowledgeStays, RunPlanStays DEF Copies

LEMMA RunInitCopies ==
    ASSUME plan \in Plans, RunInit
    PROVE  Copies
<1>1. Fresh.best = BaseScore /\ Fresh.hashes = {BaseHash} /\ Fresh.cache = {} /\ BaseScore \in Nat
  BY PlanFacts DEF Fresh
<1>2. Sound(Fresh) /\ ~ Fresh.served
  BY <1>1 DEF Sound, Fresh
<1>3. Served.best = BaseScore /\ Served.hashes = {BaseHash} /\ Served.cache = {}
  BY DEF Served, Fresh
<1>4. Sound(Served)
  BY <1>1, <1>3 DEF Sound
<1> QED
  BY <1>2, <1>4, RunPlanFacts DEF RunInit, Copies

\* What the main process posts it posts of a sound object.
LEMMA PostIsSound ==
    ASSUME plan \in Plans, MainShape, NEW f \in Items, f.kind = "done", Post(f),
           \A q \in Perms : Sound(parent[q]) /\ ~ parent[q].served
    PROVE  \A q \in Perms : Sound(parent'[q]) /\ ~ parent'[q].served
<1> SUFFICES ASSUME NEW q \in Perms PROVE Sound(parent'[q]) /\ ~ parent'[q].served
  OBVIOUS
<1> DEFINE p == f.task[1]
           r == f.res
           o == parent[q]
<1>1. parent'[q] = IF r.kind = "candidate" /\ q = p THEN Told(o, r) ELSE o
  BY PostTells
<1>2. r \in Results
  BY ItemKinds
<1>3. o \in Objects(q) /\ Sound(o) /\ ~ o.served
  BY DEF MainShape
<1> HIDE DEF o, r, p
<1>4. CASE r.kind = "candidate" /\ q = p
  <2>1. r \in Candidates
    BY <1>2, <1>4, ResultKinds
  <2> DEFINE n == Told(o, r)
  <2>2. n \in Objects(q) /\ n.best <= o.best /\ n.cache = o.cache /\ ~ n.served
    BY <2>1, <1>3, AfterTelling
  <2>3. /\ n.best <= BaseScore
        /\ \A h \in n.hashes : h = BaseHash \/ \E src \in Sources : Hash[src] = h /\ n.best <= Score[src]
    BY <2>1, <1>3, TellingIsSound DEF Sound
  <2> HIDE DEF n
  <2>4. ASSUME Threshold = None, NEW src \in n.cache PROVE n.best <= Score[src]
    <3>1. o.best <= Score[src] /\ src \in Sources
      BY <2>2, <2>4, <1>3 DEF Sound, Objects
    <3>2. n.best \in Nat /\ o.best \in Nat /\ Score[src] \in Nat
      BY <3>1, <2>2, <1>3, PlanFacts DEF Objects
    <3> QED
      BY <3>1, <3>2, <2>2
  <2>5. Sound(n)
    BY <2>3, <2>4 DEF Sound
  <2> QED
    BY <2>2, <2>5, <1>1, <1>4 DEF n
<1>5. CASE ~ (r.kind = "candidate" /\ q = p)
  BY <1>1, <1>3, <1>5
<1> QED
  BY <1>4, <1>5

LEMMA MainKeepsCopies ==
    ASSUME plan \in Plans, UNCHANGED plan, RunShape, Copies, Main
    PROVE  Copies'
<1>0. MainShape /\ feedback \in Seq(Items)
  BY DEF RunShape, MainShape
<1>1. UNCHANGED <<child, net>>
  BY DEF Main, MainFinished, MainWorkDone, MainNeedWork, MainRefuse, MainSignal, MainJoin, workVars, netVars
<1>2. CASE parent' = parent
  BY <1>1, <1>2, CopiesNext DEF Copies
<1>3. CASE parent' # parent
  <2>1. MainWorkDone /\ Post(Head(feedback))
    BY <1>3 DEF Main, MainFinished, MainWorkDone, MainNeedWork, MainRefuse, MainSignal, MainJoin, wroteVars, mainVars
  <2>2. Head(feedback) \in Items /\ Head(feedback).kind = "done"
    BY <2>1, <1>0, SeqSteps DEF MainWorkDone
  <2>3. \A q \in Perms : Sound(parent'[q]) /\ ~ parent'[q].served
    BY <2>1, <2>2, <1>0, PostIsSound DEF Copies
  <2> QED
    BY <2>3, <1>1, CopiesNext DEF Copies
<1> QED
  BY <1>2, <1>3

LEMMA WorkerKeepsCopies ==
    ASSUME plan \in Plans, UNCHANGED plan, RunShape, Copies, NEW w \in Workers, Worker(w)
    PROVE  Copies'
<1>0. WorkShape
  BY DEF RunShape
<1>1. UNCHANGED <<parent, net>>
  BY DEF Worker, WorkerMiss, WorkerGet, WorkerDone, WorkerAsk, mainVars, wroteVars, netVars
<1>2. CASE child' = child
  BY <1>1, <1>2, CopiesNext DEF Copies
<1>3. CASE child' # child
  <2> DEFINE p == hand[w][1]
             o == child[w][p]
  <2>1. WorkerDone(w) /\ wpc[w] = "work"
    BY <1>3 DEF Worker, WorkerMiss, WorkerGet, WorkerDone, WorkerAsk
  <2>2. PICK e \in Evaluations(p, o, hand[w][2]) : child' = [child EXCEPT ![w][p] = After(e)]
    BY <2>1 DEF WorkerDone, After
  <2>3. p \in Perms /\ hand[w][2] \in Seeds[p] /\ o \in Objects(p) /\ Sound(o)
    BY <2>1, <1>0, RunPlanFacts DEF WorkShape, Copies
  <2> HIDE DEF p, o
  <2>4. Sound(After(e))
    BY <2>2, <2>3, AfterEvaluation
  <2>5. \A v \in Workers : \A q \in Perms : Sound(child'[v][q])
    BY <2>2, <2>3, <2>4, <1>0 DEF Copies, WorkShape
  <2> QED
    BY <2>5, <1>1, CopiesNext DEF Copies
<1> QED
  BY <1>2, <1>3

LEMMA NetKeepsCopies ==
    ASSUME plan \in Plans, UNCHANGED plan, RunShape, Copies, NEW p \in Conns, Connection(p) \/ Server(p)
    PROVE  Copies'
<1>0. /\ NetShape /\ p \in Perms /\ DOMAIN net = Conns /\ net[p] \in Ends(p)
      /\ net[p].away \subseteq Own(p)
      /\ net[p].objs \in [Cores -> Objects(p)] /\ \A c \in Cores : Sound(net[p].objs[c])
  BY EndFields, RunPlanFacts DEF RunShape, NetShape, Copies
<1>1. UNCHANGED <<parent, child>>
  BY DEF Connection, Server, ConnReceive, ConnAsk, ConnTake, ServerAsk, ServerResult, ServerGone, ServerClose,
         mainVars, wroteVars, workVars
<1>2. SUFFICES \A q \in Conns : \A c \in Cores : Sound(net'[q].objs[c])
  BY <1>1, <1>2, CopiesNext DEF Copies
<1>n. ASSUME NEW n1, net' = [net EXCEPT ![p] = n1], \A c \in Cores : Sound(n1.objs[c])
      PROVE  \A q \in Conns : \A c \in Cores : Sound(net'[q].objs[c])
  BY <1>0, <1>n DEF Copies
<1>3. CASE ServerResult(p)
  <2>1. PICK t \in net[p].away : \E c \in Cores : \E e \in Evaluations(p, net[p].objs[c], t[2]) :
          net' = [net EXCEPT ![p] = [Send(p, [kind |-> "result", task |-> t, res |-> e.res])
                                       EXCEPT !.away = @ \ {t}, !.objs[c] = After(e)]]
    BY <1>3 DEF ServerResult, After
  <2>2. PICK c \in Cores : \E e \in Evaluations(p, net[p].objs[c], t[2]) :
          net' = [net EXCEPT ![p] = [Send(p, [kind |-> "result", task |-> t, res |-> e.res])
                                       EXCEPT !.away = @ \ {t}, !.objs[c] = After(e)]]
    BY <2>1
  <2>2a. PICK e \in Evaluations(p, net[p].objs[c], t[2]) :
          net' = [net EXCEPT ![p] = [Send(p, [kind |-> "result", task |-> t, res |-> e.res])
                                       EXCEPT !.away = @ \ {t}, !.objs[c] = After(e)]]
    BY <2>2
  <2>3. t[2] \in Seeds[p] /\ net[p].objs[c] \in Objects(p)
    BY <1>0 DEF Own
  <2>4. Sound(After(e))
    BY <2>3, <1>0, AfterEvaluation
  <2> DEFINE n1 == [Send(p, [kind |-> "result", task |-> t, res |-> e.res])
                      EXCEPT !.away = @ \ {t}, !.objs[c] = After(e)]
  <2>5. n1.objs = [net[p].objs EXCEPT ![c] = After(e)]
    BY <1>0 DEF Send, Ends
  <2> HIDE DEF n1
  <2>5a. \A d \in Cores : Sound(n1.objs[d])
    BY <2>4, <2>5, <1>0
  <2>6. net' = [net EXCEPT ![p] = n1]
    BY <2>2a DEF n1
  <2> QED
    BY <2>5a, <2>6, <1>n
<1>4. CASE ~ ServerResult(p)
  <2>1. ASSUME NEW n1, net' = [net EXCEPT ![p] = n1], n1.objs = net[p].objs
        PROVE  \A q \in Conns : \A c \in Cores : Sound(net'[q].objs[c])
    BY <2>1, <1>0, <1>n
  <2>2. CASE UNCHANGED net
    BY <2>2 DEF Copies
  <2>3. CASE ConnReceive(p)
    <3> DEFINE n1 == [net[p] EXCEPT !.inbox = Tail(@)]
    <3>1. net' = [net EXCEPT ![p] = n1]
      BY <2>3 DEF ConnReceive
    <3>2. n1.objs = net[p].objs
      BY <1>0 DEF Ends
    <3> HIDE DEF n1
    <3> QED
      BY <3>1, <3>2, <2>1
  <2>4. CASE ConnTake(p)
    <3> DEFINE u == Head(conn[p].queue)
               n1 == [net[p] EXCEPT !.away = @ \cup {u}]
    <3>1. UNCHANGED net \/ net' = [net EXCEPT ![p] = n1]
      BY <2>4 DEF ConnTake
    <3> HIDE DEF u
    <3>2. n1.objs = net[p].objs
      BY <1>0 DEF Ends
    <3> HIDE DEF n1
    <3> QED
      BY <3>1, <3>2, <2>1, <2>2
  <2>5. CASE ServerAsk(p)
    <3>1. PICK k : net' = [net EXCEPT ![p] = [Send(p, [kind |-> k]) EXCEPT !.asks = @ + 1]]
      BY <2>5 DEF ServerAsk
    <3> DEFINE n1 == [Send(p, [kind |-> k]) EXCEPT !.asks = @ + 1]
    <3>2. n1.objs = net[p].objs
      BY <1>0 DEF Send, Ends
    <3> HIDE DEF n1
    <3>3. net' = [net EXCEPT ![p] = n1]
      BY <3>1 DEF n1
    <3> QED
      BY <3>2, <3>3, <2>1
  <2>6. CASE ServerGone(p)
    <3> DEFINE n1 == [Send(p, [kind |-> "disconnect"]) EXCEPT !.away = {}]
    <3>1. net' = [net EXCEPT ![p] = n1]
      BY <2>6 DEF ServerGone
    <3>2. n1.objs = net[p].objs
      BY <1>0 DEF Send, Ends
    <3> HIDE DEF n1
    <3> QED
      BY <3>1, <3>2, <2>1
  <2>7. CASE ServerClose(p)
    <3> DEFINE n1 == [Send(p, [kind |-> "eof"]) EXCEPT !.open = FALSE]
    <3>1. net' = [net EXCEPT ![p] = n1]
      BY <2>7 DEF ServerClose
    <3>2. n1.objs = net[p].objs
      BY <1>0 DEF Send, Ends
    <3> HIDE DEF n1
    <3> QED
      BY <3>1, <3>2, <2>1
  <2>8. CASE ConnAsk(p)
    BY <2>2, <2>8 DEF ConnAsk
  <2> QED
    BY <2>3, <2>4, <2>5, <2>6, <2>7, <2>8, <1>4 DEF Connection, Server
<1> QED
  BY <1>3, <1>4

-----------------------------------------------------------------------------
(* What was left out is settled.                                           *)

\* Settled and SettledNet in the next state, of a source named in this one.
SettledNow(p, src, k) ==
    \/ Refuses(parent'[p], src)
    \/ <<p, src>> \in written'
    \/ \E i \in 1..k : Settles(feedback'[i], p, src)
SettledNetNow(p, src, k) ==
    \/ SettledNow(p, src, Len(feedback'))
    \/ \E i \in 1..k : Settles(net'[p].inbox[i], p, src)

\* The first d items are gone and have been settled; what was added is settled before it.
Moved(d) ==
    /\ \A i \in 1..Len(feedback) : i > d => i - d \in 1..Len(feedback') /\ feedback'[i - d] = feedback[i]
    /\ \A i \in 1..Len(feedback) : i <= d =>
          \A p \in Perms : \A src \in Sources : Settles(feedback[i], p, src) => SettledNow(p, src, 0)
    /\ \A j \in 1..Len(feedback') :
          \/ ~ Unsent(feedback'[j])
          \/ j + d \in 1..Len(feedback) /\ feedback'[j] = feedback[j + d]
          \/ SettledNow(feedback'[j].task[1], feedback'[j].res.of, j - 1)
InboxMoved(p, d) ==
    /\ \A i \in 1..Len(net[p].inbox) :
          i > d => i - d \in 1..Len(net'[p].inbox) /\ net'[p].inbox[i - d] = net[p].inbox[i]
    /\ \A i \in 1..Len(net[p].inbox) : i <= d =>
          \A src \in Sources : Settles(net[p].inbox[i], p, src) => SettledNow(p, src, Len(feedback'))
    /\ \A j \in 1..Len(net'[p].inbox) :
          \/ ~ Unsent(net'[p].inbox[j])
          \/ j + d \in 1..Len(net[p].inbox) /\ net'[p].inbox[j] = net[p].inbox[j + d]
          \/ SettledNetNow(p, net'[p].inbox[j].res.of, j - 1)

\* What the main process knows it does not forget.
Learns ==
    /\ \A p \in Perms : \A src \in Sources : Refuses(parent[p], src) => Refuses(parent'[p], src)
    /\ written \subseteq written'

LEMMA SettledCarries ==
    ASSUME feedback \in Seq(Items), Learns, NEW d \in {0, 1}, Moved(d), NEW p \in Perms, NEW src \in Sources,
           NEW k \in 0..Len(feedback), Settled(p, src, k)
    PROVE  SettledNow(p, src, k - d)
<1>1. Len(feedback) \in Nat
  OBVIOUS
<1>2. CASE Refuses(parent[p], src) \/ <<p, src>> \in written
  BY <1>2 DEF Learns, SettledNow
<1>3. ASSUME NEW i \in 1..k, Settles(feedback[i], p, src)
      PROVE  SettledNow(p, src, k - d)
  <2>1. CASE i > d
    <3>1. i - d \in 1..k - d /\ feedback'[i - d] = feedback[i]
      BY <2>1, <1>1 DEF Moved
    <3> QED
      BY <3>1, <1>3 DEF SettledNow
  <2>2. CASE i <= d
    <3>1. SettledNow(p, src, 0)
      BY <2>2, <1>1, <1>3 DEF Moved
    <3>2. ~ \E j \in 1..0 : Settles(feedback'[j], p, src)
      OBVIOUS
    <3> QED
      BY <3>1, <3>2 DEF SettledNow
  <2> QED
    BY <2>1, <2>2, <1>1
<1> QED
  BY <1>2, <1>3 DEF Settled

LEMMA SettledMore ==
    ASSUME NEW k \in Int, NEW m \in Int, k <= m, NEW p, NEW src, SettledNow(p, src, k)
    PROVE  SettledNow(p, src, m)
BY DEF SettledNow

LEMMA SettledNetCarries ==
    ASSUME plan \in Plans, RunShape, RunShape', Learns, NEW d \in {0, 1}, Moved(d), NEW e \in {0, 1},
           NEW p \in Conns, InboxMoved(p, e), NEW src \in Sources,
           NEW k \in 0..Len(net[p].inbox), SettledNet(p, src, k)
    PROVE  SettledNetNow(p, src, k - e)
<1>1. feedback \in Seq(Items) /\ feedback' \in Seq(Items') /\ net[p].inbox \in Seq(Messages(p)) /\ p \in Perms
  BY EndFields, RunPlanFacts DEF RunShape, MainShape
<1>2. Len(feedback) \in Nat /\ Len(feedback') \in Nat /\ Len(net[p].inbox) \in Nat
  BY <1>1
<1>3. CASE Settled(p, src, Len(feedback))
  <2>1. SettledNow(p, src, Len(feedback) - d)
    BY <1>1, <1>2, <1>3, SettledCarries
  <2>2. Len(feedback) - d <= Len(feedback')
    <3>1. CASE Len(feedback) > d
      <4>1. Len(feedback) - d \in 1..Len(feedback')
        BY <3>1, <1>2 DEF Moved
      <4> QED
        BY <4>1, <1>2
    <3>2. CASE Len(feedback) <= d
      BY <3>2, <1>2
    <3> QED
      BY <3>1, <3>2, <1>2
  <2>3. SettledNow(p, src, Len(feedback'))
    BY <2>1, <2>2, <1>2, SettledMore
  <2> QED
    BY <2>3 DEF SettledNetNow
<1>4. ASSUME NEW i \in 1..k, Settles(net[p].inbox[i], p, src)
      PROVE  SettledNetNow(p, src, k - e)
  <2>1. CASE i > e
    <3>1. i - e \in 1..k - e /\ net'[p].inbox[i - e] = net[p].inbox[i]
      BY <2>1, <1>2, SMTT(60) DEF InboxMoved
    <3> QED
      BY <3>1, <1>4 DEF SettledNetNow
  <2>2. CASE i <= e
    BY <2>2, <1>2, <1>4 DEF InboxMoved, SettledNetNow
  <2> QED
    BY <2>1, <2>2, <1>2
<1> QED
  BY <1>3, <1>4 DEF SettledNet

\* LeftOutSettled in the next state.
LEMMA LeftOutNext ==
    ASSUME UNCHANGED plan,
           \A w \in Workers : \A p \in Perms : \A src \in Sources :
              LeavesOut(child'[w][p], src) => SettledNow(p, src, Len(feedback')),
           \A p \in Conns : \A c \in Cores : \A src \in Sources :
              LeavesOut(net'[p].objs[c], src) => SettledNetNow(p, src, Len(net'[p].inbox)),
           \A j \in 1..Len(feedback') :
              Unsent(feedback'[j]) => SettledNow(feedback'[j].task[1], feedback'[j].res.of, j - 1),
           \A p \in Conns : \A j \in 1..Len(net'[p].inbox) :
              Unsent(net'[p].inbox[j]) => SettledNetNow(p, net'[p].inbox[j].res.of, j - 1)
    PROVE  LeftOutSettled'
BY KnowledgeStays, RunPlanStays
   DEF LeftOutSettled, Settled, SettledNet, SettledNow, SettledNetNow, Unsent

\* Settling carries over whatever an object left out already.
LEMMA LeftOutStays ==
    ASSUME plan \in Plans, UNCHANGED plan, RunShape, RunShape', LeftOutSettled, Searching, Learns,
           NEW d \in {0, 1}, Moved(d), \A p \in Conns : InboxMoved(p, 0) \/ InboxMoved(p, 1),
           \A w \in Workers : \A p \in Perms : \A src \in Sources :
              LeavesOut(child'[w][p], src) =>
                LeavesOut(child[w][p], src) \/ SettledNow(p, src, Len(feedback')),
           \A p \in Conns : \A c \in Cores : \A src \in Sources :
              LeavesOut(net'[p].objs[c], src) =>
                LeavesOut(net[p].objs[c], src) \/ SettledNetNow(p, src, Len(net'[p].inbox))
    PROVE  LeftOutSettled'
<1>1. feedback \in Seq(Items) /\ feedback' \in Seq(Items') /\ Len(feedback) \in Nat /\ Len(feedback') \in Nat
  BY DEF RunShape, MainShape
<1>2. \A p \in Conns : /\ net[p].inbox \in Seq(Messages(p)) /\ Len(net[p].inbox) \in Nat /\ p \in Perms
                       /\ net'[p].inbox \in Seq(Messages(p)') /\ Len(net'[p].inbox) \in Nat
  <2> SUFFICES ASSUME NEW p \in Conns
               PROVE  /\ net[p].inbox \in Seq(Messages(p)) /\ Len(net[p].inbox) \in Nat /\ p \in Perms
                      /\ net'[p].inbox \in Seq(Messages(p)') /\ Len(net'[p].inbox) \in Nat
    OBVIOUS
  <2>1. net[p].inbox \in Seq(Messages(p)) /\ p \in Perms
    BY EndFields, RunPlanFacts DEF RunShape
  <2>2. net'[p].inbox \in Seq(Messages(p)')
    BY RunPlanStays DEF RunShape, NetShape, Ends
  <2> QED
    BY <2>1, <2>2
<1>3. ASSUME NEW w \in Workers, NEW p \in Perms, NEW src \in Sources, LeavesOut(child'[w][p], src)
      PROVE  SettledNow(p, src, Len(feedback'))
  <2>1. SUFFICES ASSUME LeavesOut(child[w][p], src) PROVE SettledNow(p, src, Len(feedback'))
    BY <1>3
  <2>2. Settled(p, src, Len(feedback))
    BY <2>1 DEF LeftOutSettled
  <2>3. SettledNow(p, src, Len(feedback) - d)
    BY <2>2, <1>1, SettledCarries
  <2>4. Len(feedback) - d <= Len(feedback')
    <3>1. CASE Len(feedback) > d
      <4>1. Len(feedback) - d \in 1..Len(feedback')
        BY <3>1, <1>1 DEF Moved
      <4> QED
        BY <4>1, <1>1
    <3>2. CASE Len(feedback) <= d
      BY <3>2, <1>1
    <3> QED
      BY <3>1, <3>2, <1>1
  <2> QED
    BY <2>3, <2>4, <1>1 DEF SettledNow
<1>4. ASSUME NEW p \in Conns, NEW c \in Cores, NEW src \in Sources, LeavesOut(net'[p].objs[c], src)
      PROVE  SettledNetNow(p, src, Len(net'[p].inbox))
  <2>1. SUFFICES ASSUME LeavesOut(net[p].objs[c], src) PROVE SettledNetNow(p, src, Len(net'[p].inbox))
    BY <1>4
  <2>2. SettledNet(p, src, Len(net[p].inbox))
    BY <2>1 DEF LeftOutSettled
  <2>3. PICK e \in {0, 1} : InboxMoved(p, e)
    OBVIOUS
  <2>4. SettledNetNow(p, src, Len(net[p].inbox) - e)
    BY <2>2, <2>3, <1>2, SettledNetCarries
  <2>5. Len(net[p].inbox) - e <= Len(net'[p].inbox)
    <3>1. CASE Len(net[p].inbox) > e
      <4> DEFINE n == Len(net[p].inbox)
      <4>1. n \in Nat /\ n \in 1..n /\ n > e
        BY <3>1, <2>3, <1>2
      <4> HIDE DEF n
      <4>2. \A i \in 1..n : i > e => i - e \in 1..Len(net'[p].inbox)
        BY <2>3 DEF InboxMoved, n
      <4>3. n - e \in 1..Len(net'[p].inbox)
        BY <4>1, <4>2
      <4> QED
        BY <4>1, <4>3, <1>2 DEF n
    <3>2. CASE Len(net[p].inbox) <= e
      BY <3>2, <2>3, <1>2
    <3> QED
      BY <3>1, <3>2, <2>3, <1>2
  <2> QED
    BY <2>3, <2>4, <2>5, <1>2, SMTT(60) DEF SettledNetNow
<1>5. ASSUME NEW j \in 1..Len(feedback'), Unsent(feedback'[j])
      PROVE  SettledNow(feedback'[j].task[1], feedback'[j].res.of, j - 1)
  <2>1. SUFFICES ASSUME j + d \in 1..Len(feedback), feedback'[j] = feedback[j + d]
                 PROVE  SettledNow(feedback'[j].task[1], feedback'[j].res.of, j - 1)
    BY <1>5 DEF Moved
  <2> DEFINE x == feedback[j + d]
             p == x.task[1]
             src == x.res.of
             k == (j + d) - 1
  <2>2. x \in Items /\ Unsent(x)
    BY <2>1, <1>1, <1>5, ElementOfSeq
  <2>3. Settled(p, src, k)
    BY <2>1, <2>2 DEF LeftOutSettled
  <2> HIDE DEF x
  <2>4. x.kind = "done" /\ x.task \in Tasks /\ x.res \in Results /\ x.res.kind = "candidate"
    BY <2>2, ItemKinds DEF Unsent
  <2>5. p \in Perms /\ src \in Sources
    BY <2>4, RunPlanFacts, ResultKinds
  <2>6. k \in 0..Len(feedback) /\ k - d = j - 1
    BY <2>1, <1>1
  <2> HIDE DEF p, src, k
  <2>7. SettledNow(p, src, k - d)
    BY <2>3, <2>5, <2>6, <1>1, SettledCarries
  <2> QED
    BY <2>1, <2>6, <2>7 DEF x, p, src
<1>6. ASSUME NEW p \in Conns, NEW j \in 1..Len(net'[p].inbox), Unsent(net'[p].inbox[j])
      PROVE  SettledNetNow(p, net'[p].inbox[j].res.of, j - 1)
  <2>1. PICK e \in {0, 1} : InboxMoved(p, e)
    OBVIOUS
  <2>2. SUFFICES ASSUME j + e \in 1..Len(net[p].inbox), net'[p].inbox[j] = net[p].inbox[j + e]
                 PROVE  SettledNetNow(p, net'[p].inbox[j].res.of, j - 1)
    BY <2>1, <1>6 DEF InboxMoved
  <2> DEFINE x == net[p].inbox[j + e]
             src == x.res.of
             k == (j + e) - 1
  <2>3. x \in Messages(p) /\ Unsent(x)
    BY <2>2, <1>2, <1>6, ElementOfSeq
  <2>4. SettledNet(p, src, k)
    BY <2>2, <2>3 DEF LeftOutSettled
  <2> HIDE DEF x
  <2>5. src \in Sources
    <3>1. x.kind = "result" /\ x.res.kind = "candidate"
      BY <2>3, MessageKinds DEF Unsent
    <3> QED
      BY <3>1, <2>3, MessageKinds, ResultKinds
  <2>6. k \in 0..Len(net[p].inbox) /\ k - e = j - 1
    BY <2>1, <2>2, <1>2
  <2> HIDE DEF src, k
  <2>7. SettledNetNow(p, src, k - e)
    BY <2>1, <2>4, <2>5, <2>6, SettledNetCarries
  <2> QED
    BY <2>2, <2>6, <2>7 DEF x, src
<1> QED
  BY <1>3, <1>4, <1>5, <1>6, LeftOutNext

\* The ways in which a queue moves on.
LEMMA SameMoves ==
    /\ feedback' = feedback => Moved(0)
    /\ \A p : net'[p].inbox = net[p].inbox => InboxMoved(p, 0)
<1>1. ASSUME feedback' = feedback PROVE Moved(0)
  <2>1. \A i \in 1..Len(feedback) : ~ (i <= 0) /\ i - 0 = i /\ i + 0 = i
    OBVIOUS
  <2> QED
    BY <2>1, <1>1 DEF Moved
<1>2. ASSUME NEW p, net'[p].inbox = net[p].inbox PROVE InboxMoved(p, 0)
  <2>1. \A i \in 1..Len(net[p].inbox) : ~ (i <= 0) /\ i - 0 = i /\ i + 0 = i
    OBVIOUS
  <2> QED
    BY <2>1, <1>2 DEF InboxMoved
<1> QED
  BY <1>1, <1>2

LEMMA AppendMoves ==
    ASSUME feedback \in Seq(Items), NEW x \in Items, feedback' = Append(feedback, x),
           ~ Unsent(x) \/ SettledNow(x.task[1], x.res.of, Len(feedback))
    PROVE  Moved(0)
<1>1. /\ Len(feedback) \in Nat /\ Len(feedback') = Len(feedback) + 1 /\ feedback'[Len(feedback) + 1] = x
      /\ \A i \in 1..Len(feedback) : feedback'[i] = feedback[i]
  BY AppendProperties
<1>2. \A i \in 1..Len(feedback) : ~ (i <= 0) /\ i - 0 = i /\ i + 0 = i /\ i \in 1..Len(feedback')
  BY <1>1
<1>3. ASSUME NEW j \in 1..Len(feedback')
      PROVE  \/ ~ Unsent(feedback'[j])
             \/ j + 0 \in 1..Len(feedback) /\ feedback'[j] = feedback[j + 0]
             \/ SettledNow(feedback'[j].task[1], feedback'[j].res.of, j - 1)
  <2>1. CASE j \in 1..Len(feedback)
    BY <2>1, <1>1, <1>2
  <2>2. CASE j \notin 1..Len(feedback)
    <3>1. j = Len(feedback) + 1 /\ j - 1 = Len(feedback)
      BY <2>2, <1>1
    <3> QED
      BY <3>1, <1>1
  <2> QED
    BY <2>1, <2>2
<1> QED
  BY <1>1, <1>2, <1>3 DEF Moved

LEMMA TailMoves ==
    ASSUME feedback \in Seq(Items), feedback # <<>>, feedback' = Tail(feedback),
           \A p \in Perms : \A src \in Sources : Settles(Head(feedback), p, src) => SettledNow(p, src, 0)
    PROVE  Moved(1)
<1>1. /\ Len(feedback) \in Nat \ {0} /\ Len(feedback') = Len(feedback) - 1 /\ Head(feedback) = feedback[1]
      /\ \A i \in 1..Len(feedback') : feedback'[i] = feedback[i + 1]
  BY HeadTailProperties
<1>2. ASSUME NEW i \in 1..Len(feedback)
      PROVE  /\ i > 1 => i - 1 \in 1..Len(feedback') /\ feedback'[i - 1] = feedback[i]
             /\ i <= 1 => feedback[i] = Head(feedback)
  BY <1>1
<1>3. \A j \in 1..Len(feedback') : j + 1 \in 1..Len(feedback)
  BY <1>1
<1> QED
  BY <1>1, <1>2, <1>3 DEF Moved

LEMMA InboxAppends ==
    ASSUME NEW p, net[p].inbox \in Seq(Messages(p)), NEW x \in Messages(p),
           net'[p].inbox = Append(net[p].inbox, x),
           ~ Unsent(x) \/ SettledNetNow(p, x.res.of, Len(net[p].inbox))
    PROVE  InboxMoved(p, 0)
<1> DEFINE s == net[p].inbox
           s1 == net'[p].inbox
<1>1. /\ Len(s) \in Nat /\ Len(s1) = Len(s) + 1 /\ s1[Len(s) + 1] = x
      /\ \A i \in 1..Len(s) : s1[i] = s[i]
  BY AppendProperties
<1> HIDE DEF s, s1
<1>2. \A i \in 1..Len(s) : ~ (i <= 0) /\ i - 0 = i /\ i + 0 = i /\ i \in 1..Len(s1)
  BY <1>1
<1>3. ASSUME NEW j \in 1..Len(s1)
      PROVE  \/ ~ Unsent(s1[j])
             \/ j + 0 \in 1..Len(s) /\ s1[j] = s[j + 0]
             \/ SettledNetNow(p, s1[j].res.of, j - 1)
  <2>1. CASE j \in 1..Len(s)
    BY <2>1, <1>1, <1>2
  <2>2. CASE j \notin 1..Len(s)
    <3>1. j = Len(s) + 1 /\ j - 1 = Len(s)
      BY <2>2, <1>1
    <3> QED
      BY <3>1, <1>1 DEF s
  <2> QED
    BY <2>1, <2>2
<1> QED
  BY <1>1, <1>2, <1>3 DEF InboxMoved, s, s1

LEMMA InboxTails ==
    ASSUME NEW p, net[p].inbox \in Seq(Messages(p)), net[p].inbox # <<>>, net'[p].inbox = Tail(net[p].inbox),
           \A src \in Sources : Settles(Head(net[p].inbox), p, src) => SettledNow(p, src, Len(feedback'))
    PROVE  InboxMoved(p, 1)
<1> DEFINE s == net[p].inbox
           s1 == net'[p].inbox
<1>1. /\ Len(s) \in Nat \ {0} /\ Len(s1) = Len(s) - 1 /\ Head(s) = s[1]
      /\ \A i \in 1..Len(s1) : s1[i] = s[i + 1]
  BY HeadTailProperties
<1> HIDE DEF s, s1
<1>2. ASSUME NEW i \in 1..Len(s)
      PROVE  /\ i > 1 => i - 1 \in 1..Len(s1) /\ s1[i - 1] = s[i]
             /\ i <= 1 => s[i] = Head(s)
  BY <1>1
<1>3. \A j \in 1..Len(s1) : j + 1 \in 1..Len(s)
  BY <1>1
<1> QED
  BY <1>1, <1>2, <1>3 DEF InboxMoved, s, s1

LEMMA NothingForgotten ==
    ASSUME UNCHANGED wroteVars
    PROVE  Learns
BY DEF Learns, wroteVars

LEMMA RunInitSettled ==
    ASSUME plan \in Plans, RunInit
    PROVE  LeftOutSettled /\ NoSourceMissing
<1>1. Fresh.cache = {} /\ \A src \in Sources : LeavesOut(Fresh, src) => Refuses(Fresh, src)
  BY DEF Fresh, LeavesOut
\* What a server refuses at first everyone does.
<1>1a. ASSUME NEW p \in Perms, NEW src \in Sources, LeavesOut(Served, src) PROVE LeavesOut(Fresh, src)
  <2>1. Served \in Objects(p) /\ Fresh \in Objects(p)
    BY FreshIsObject
  <2>2. Served.cache = {} /\ Served.served /\ Served.hashes = Fresh.hashes
    BY DEF Served, Fresh
  <2>3. Refuses(Served, src)
    BY <2>2, <1>1a DEF LeavesOut
  <2>4. Score[src] > BaseScore \/ Hash[src] \in Fresh.hashes
    BY <2>1, <2>2, <2>3, RefusesIs
  <2>5. Refuses(Fresh, src)
    BY <2>1, <2>4, RefusesIs
  <2> QED
    BY <2>5 DEF LeavesOut
<1>2. ASSUME NEW p \in Perms, NEW src \in Sources, LeavesOut(Fresh, src) PROVE Settled(p, src, Len(feedback))
  <2>1. parent[p] = Fresh
    BY DEF RunInit
  <2> QED
    BY <2>1, <1>1, <1>2 DEF Settled
<1>3. \A w \in Workers : \A p \in Perms : child[w][p] = Fresh
  BY DEF RunInit
<1>4. \A p \in Conns : (\A c \in Cores : net[p].objs[c] = Served) /\ net[p].inbox = <<>> /\ p \in Perms
  BY RunPlanFacts DEF RunInit
<1>5. feedback = <<>> /\ missed = FALSE
  BY DEF RunInit
<1> QED
  BY <1>1a, <1>2, <1>3, <1>4, <1>5 DEF LeftOutSettled, SettledNet, NoSourceMissing

LEMMA MainKeepsSettled ==
    ASSUME plan \in Plans, UNCHANGED plan, RunShape, RunShape', Copies, FeedsAll, LeftOutSettled, NoSourceMissing, Main
    PROVE  LeftOutSettled' /\ NoSourceMissing'
<1>0. MainShape /\ feedback \in Seq(Items) /\ UNCHANGED <<child, net>> /\ StopOnZero' = StopOnZero
  BY RunPlanStays
     DEF RunShape, MainShape, Main, MainFinished, MainWorkDone, MainNeedWork, MainRefuse, MainSignal, MainJoin,
         workVars, netVars
<1>1. \A p \in Conns : InboxMoved(p, 0)
  BY <1>0, SameMoves
<1>2. CASE MainWorkDone
  <2> DEFINE f == Head(feedback)
             skip == phase = "finishing" /\ StopOnZero /\ found_zero
             p == f.task[1]
             r == f.res
  <2>1. /\ phase \in {"feeding", "finishing"} /\ feedback # <<>> /\ f.kind = "done" /\ feedback' = Tail(feedback)
        /\ skip => UNCHANGED <<missed, found_zero>>
        /\ ~ skip => Post(f)
    BY <1>2 DEF MainWorkDone, wroteVars
  <2>2. f \in Items
    BY <2>1, <1>0, SeqSteps
  <2>3. f.task \in Tasks /\ r \in Results /\ p \in Perms
    BY <2>1, <2>2, ItemKinds, RunPlanFacts
  <2>4. CASE skip
    <3>1. ~ Searching' /\ missed' = missed
      BY <2>1, <2>4, <1>0 DEF Searching
    <3> QED
      BY <3>1 DEF LeftOutSettled, NoSourceMissing
  <2>5. CASE ~ skip
    <3>1. Searching
      BY <2>1, <2>5 DEF FeedsAll, Searching
    <3>2. /\ \A q \in Perms : \A src \in Sources : Refuses(parent[q], src) => Refuses(parent'[q], src)
          /\ written \subseteq written'
          /\ parent'[p] = IF r.kind = "candidate" THEN Told(parent[p], r) ELSE parent[p]
          /\ r.kind = "candidate" /\ ShouldOutput(parent[p], r) => <<p, r.of>> \in written'
          /\ missed' => \/ missed
                        \/ /\ r.kind = "candidate" /\ ~ r.sent /\ <<p, r.of>> \notin written
                           /\ ~ Refuses(parent[p], r.of)
      BY <2>1, <2>2, <2>3, <2>5, <1>0, PostTells
    <3>3. parent[p] \in Objects(p) /\ Sound(parent[p]) /\ ~ parent[p].served
      BY <2>3, <1>0 DEF MainShape, Copies
    <3>4. feedback[1] = f /\ 1 \in 1..Len(feedback)
      BY <2>1, <1>0
    <3> HIDE DEF f, p, r
    <3>5. ASSUME NEW q \in Perms, NEW src \in Sources, Settles(f, q, src)
          PROVE  SettledNow(q, src, 0)
      <4>1. q = p /\ Covers(r, src)
        BY <3>5 DEF Settles, p, r
      <4>2. r \in Candidates /\ r.kind = "candidate"
        BY <4>1, <2>3, ResultKinds DEF Covers
      <4>3. Refuses(Told(parent[p], r), src) \/ (ShouldOutput(parent[p], r) /\ r.of = src)
        BY <4>1, <4>2, <3>3, <2>3, TellingSettles
      <4> QED
        BY <4>1, <4>2, <4>3, <3>2 DEF SettledNow
    <3>6. Moved(1)
      BY <3>5, <2>1, <1>0, TailMoves DEF f
    <3>7. Learns
      BY <3>2 DEF Learns
    <3>8. LeftOutSettled'
      BY <3>1, <3>6, <3>7, <1>0, <1>1, LeftOutStays
    <3>9. r.kind = "candidate" /\ ~ r.sent => Refuses(parent[p], r.of) \/ <<p, r.of>> \in written
      <4> SUFFICES ASSUME r.kind = "candidate", ~ r.sent PROVE Refuses(parent[p], r.of) \/ <<p, r.of>> \in written
        OBVIOUS
      <4>1. Unsent(f)
        BY <2>1 DEF Unsent, r
      <4>2. Settled(p, r.of, 1 - 1)
        BY <4>1, <3>1, <3>4 DEF LeftOutSettled, p, r
      <4> QED
        BY <4>2 DEF Settled
    <3>10. NoSourceMissing'
      BY <3>2, <3>9 DEF NoSourceMissing
    <3> QED
      BY <3>8, <3>10
  <2> QED
    BY <2>4, <2>5
<1>3. CASE ~ MainWorkDone
  <2>1. UNCHANGED wroteVars /\ UNCHANGED <<missed, found_zero>>
    BY <1>3 DEF Main, MainFinished, MainNeedWork, MainRefuse, MainSignal, MainJoin, mainVars, wroteVars
  <2>2. \/ feedback' = feedback
        \/ feedback # <<>> /\ Head(feedback).kind \notin {"done", "result"} /\ feedback' = Tail(feedback)
    BY <1>3 DEF Main, MainFinished, MainNeedWork, MainRefuse, MainSignal, MainJoin
  <2>3. CASE ~ Searching
    BY <2>1, <2>3, <1>0 DEF LeftOutSettled, NoSourceMissing, Searching
  <2>4. CASE Searching
    <3>1. Learns
      BY <2>1, NothingForgotten
    <3>2. Moved(0) \/ Moved(1)
      <4>1. CASE feedback' = feedback
        BY <4>1, SameMoves
      <4>2. CASE feedback' # feedback
        <5>1. \A p \in Perms : \A src \in Sources : ~ Settles(Head(feedback), p, src)
          BY <4>2, <2>2 DEF Settles
        <5> QED
          BY <5>1, <4>2, <2>2, <1>0, TailMoves
      <4> QED
        BY <4>1, <4>2
    <3>3. LeftOutSettled'
      BY <3>1, <3>2, <2>4, <1>0, <1>1, LeftOutStays
    <3> QED
      BY <3>3, <2>1 DEF NoSourceMissing
  <2> QED
    BY <2>3, <2>4
<1> QED
  BY <1>2, <1>3, SMTT(60)

LEMMA SettledKept ==
    ASSUME Learns, NEW p \in Perms, NEW src \in Sources, NEW k,
           \A i \in 1..k : feedback'[i] = feedback[i], Settled(p, src, k)
    PROVE  SettledNow(p, src, k)
BY DEF Learns, Settled, SettledNow

LEMMA WorkerKeepsSettled ==
    ASSUME plan \in Plans, UNCHANGED plan, RunShape, RunShape', Copies, LeftOutSettled, NEW w \in Workers, Worker(w)
    PROVE  LeftOutSettled'
<1>0. feedback \in Seq(Items) /\ WorkShape
  BY DEF RunShape, MainShape
<1>1. UNCHANGED wroteVars /\ UNCHANGED <<found_zero, net>> /\ StopOnZero' = StopOnZero
  BY RunPlanStays DEF Worker, WorkerMiss, WorkerGet, WorkerDone, WorkerAsk, mainVars, netVars
<1>2. Learns /\ (\A p \in Conns : InboxMoved(p, 0)) /\ (Searching' <=> Searching)
  BY <1>1, NothingForgotten, SameMoves DEF Searching
<1>3. CASE ~ Searching
  BY <1>2, <1>3 DEF LeftOutSettled
<1>4. CASE Searching /\ ~ WorkerDone(w)
  <2>1. UNCHANGED child
    BY <1>4 DEF Worker, WorkerMiss, WorkerGet, WorkerAsk
  <2>2. feedback' = feedback \/ feedback' = Append(feedback, Ask(Local)) \/ feedback' = Append(feedback, Gone(Local))
    BY <1>4 DEF Worker, WorkerMiss, WorkerGet, WorkerAsk
  <2>3. /\ Ask(Local) \in Items /\ Gone(Local) \in Items
        /\ ~ Unsent(Ask(Local)) /\ ~ Unsent(Gone(Local))
    BY ItemsAre, ItemsApart DEF Unsent
  <2>4. Moved(0)
    BY <2>2, <2>3, <1>0, SameMoves, AppendMoves
  <2> QED
    BY <2>1, <2>4, <1>1, <1>2, <1>4, LeftOutStays
<1>5. CASE Searching /\ WorkerDone(w)
  <2> DEFINE p == hand[w][1]
             o == child[w][p]
  <2>1. wpc[w] = "work"
    BY <1>5 DEF WorkerDone
  <2>2. PICK e \in Evaluations(p, o, hand[w][2]) :
          /\ child' = [child EXCEPT ![w][p] = After(e)]
          /\ feedback' = Append(feedback, Done(Local, hand[w], e.res))
    BY <1>5 DEF WorkerDone, After
  <2>3. hand[w] \in Tasks
    BY <2>1, <1>0 DEF WorkShape
  <2>4. p \in Perms /\ hand[w][2] \in Seeds[p] /\ o \in Objects(p) /\ Sound(o)
    BY <2>3, <1>0, RunPlanFacts DEF WorkShape, Copies
  <2>5. \A src \in Sources : LeavesOut(o, src) => Settled(p, src, Len(feedback))
    BY <2>4, <1>5 DEF LeftOutSettled
  <2> DEFINE x == Done(Local, hand[w], e.res)
  <2>6. x.kind = "done" /\ x.task = hand[w] /\ x.res = e.res /\ hand[w][1] = p
    BY ItemsApart
  <2>7. DOMAIN child = Workers /\ DOMAIN child[w] = Perms
    BY <1>0 DEF WorkShape
  <2>8. child'[w][p] = After(e) /\ \A v \in Workers : \A q \in Perms : v # w \/ q # p => child'[v][q] = child[v][q]
    <3> HIDE DEF p, o
    <3> QED
      BY <2>2, <2>4, <2>7, <1>0 DEF WorkShape
  <2> HIDE DEF p, o
  <2>9. /\ e.res \in Results
        /\ \A src \in Sources : LeavesOut(After(e), src) => LeavesOut(o, src) \/ Covers(e.res, src)
        /\ e.res.kind = "candidate" /\ ~ e.res.sent => LeavesOut(o, e.res.of)
    BY <2>2, <2>4, AfterEvaluation
  <2>10. x \in Items
    BY <2>3, <2>9, ItemsAre
  <2> HIDE DEF x
  <2>11. feedback' = Append(feedback, x)
    BY <2>2 DEF x
  <2>12. /\ Len(feedback) \in Nat /\ Len(feedback') = Len(feedback) + 1 /\ feedback'[Len(feedback')] = x
         /\ \A i \in 1..Len(feedback) : feedback'[i] = feedback[i]
    BY <2>10, <2>11, <1>0, AppendProperties
  <2>13. ~ Unsent(x) \/ SettledNow(x.task[1], x.res.of, Len(feedback))
    <3> SUFFICES ASSUME Unsent(x) PROVE SettledNow(p, x.res.of, Len(feedback))
      BY <2>6
    <3>1. e.res.kind = "candidate" /\ ~ e.res.sent
      BY <2>6 DEF Unsent
    <3>2. e.res.of \in Sources
      BY <3>1, <2>9, ResultKinds
    <3>3. Settled(p, e.res.of, Len(feedback))
      BY <3>1, <3>2, <2>5, <2>9
    <3> QED
      BY <3>2, <3>3, <2>4, <2>6, <2>12, <1>2, SettledKept
  <2>14. Moved(0)
    BY <2>10, <2>11, <2>13, <1>0, AppendMoves
  <2>15. ASSUME NEW src \in Sources, Covers(e.res, src)
         PROVE  SettledNow(p, src, Len(feedback'))
    <3>1. Settles(x, p, src)
      BY <2>6, <2>15 DEF Settles
    <3>2. Len(feedback') \in 1..Len(feedback')
      BY <2>12
    <3> QED
      BY <3>1, <3>2, <2>12 DEF SettledNow
  <2>16. ASSUME NEW v \in Workers, NEW q \in Perms, NEW src \in Sources, LeavesOut(child'[v][q], src)
         PROVE  LeavesOut(child[v][q], src) \/ SettledNow(q, src, Len(feedback'))
    <3>1. CASE v = w /\ q = p
      BY <3>1, <2>8, <2>9, <2>15, <2>16 DEF o
    <3>2. CASE v # w \/ q # p
      BY <3>2, <2>8, <2>16
    <3> QED
      BY <3>1, <3>2
  <2> QED
    BY <2>14, <2>16, <1>1, <1>2, <1>5, LeftOutStays
<1> QED
  BY <1>3, <1>4, <1>5

\* What a server's step does at its end of the connection.
LEMMA ServerSteps ==
    ASSUME plan \in Plans, NetShape, NEW p \in Conns, Server(p), \A c \in Cores : Sound(net[p].objs[c])
    PROVE  /\ UNCHANGED <<conn, feedback>>
           /\ \A q \in Conns : q # p => net'[q] = net[q]
           /\ \E x \in Messages(p) :
                /\ net'[p].inbox = Append(net[p].inbox, x)
                /\ \/ x.kind # "result" /\ net'[p].objs = net[p].objs
                   \/ \E t \in Own(p) : \E c \in Cores : \E e \in Evaluations(p, net[p].objs[c], t[2]) :
                        /\ x.kind = "result" /\ x.task = t /\ x.res = e.res
                        /\ net'[p].objs = [net[p].objs EXCEPT ![c] = After(e)]
<1>0. /\ DOMAIN net = Conns /\ net[p] \in Ends(p) /\ net[p].away \subseteq Own(p) /\ p \in Perms
      /\ net[p].objs \in [Cores -> Objects(p)]
  BY EndFields, RunPlanFacts DEF NetShape
<1>1. UNCHANGED <<conn, feedback>>
  BY DEF Server, ServerAsk, ServerResult, ServerGone, ServerClose
<1>2. ASSUME NEW n1, net' = [net EXCEPT ![p] = n1]
      PROVE  net'[p] = n1 /\ \A q \in Conns : q # p => net'[q] = net[q]
  BY <1>0, <1>2
<1>3. CASE ServerResult(p)
  <2>1. PICK t \in net[p].away : \E c \in Cores : \E e \in Evaluations(p, net[p].objs[c], t[2]) :
          net' = [net EXCEPT ![p] = [Send(p, [kind |-> "result", task |-> t, res |-> e.res])
                                       EXCEPT !.away = @ \ {t}, !.objs[c] = After(e)]]
    BY <1>3 DEF ServerResult, After
  <2>2. PICK c \in Cores : \E e \in Evaluations(p, net[p].objs[c], t[2]) :
          net' = [net EXCEPT ![p] = [Send(p, [kind |-> "result", task |-> t, res |-> e.res])
                                       EXCEPT !.away = @ \ {t}, !.objs[c] = After(e)]]
    BY <2>1
  <2>2a. PICK e \in Evaluations(p, net[p].objs[c], t[2]) :
          net' = [net EXCEPT ![p] = [Send(p, [kind |-> "result", task |-> t, res |-> e.res])
                                       EXCEPT !.away = @ \ {t}, !.objs[c] = After(e)]]
    BY <2>2
  <2>3. t \in Own(p) /\ t[2] \in Seeds[p] /\ net[p].objs[c] \in Objects(p)
    BY <1>0 DEF Own
  <2>4. e.res \in Results
    BY <2>3, <1>0, AfterEvaluation
  <2> DEFINE x == [kind |-> "result", task |-> t, res |-> e.res]
             n1 == [Send(p, x) EXCEPT !.away = @ \ {t}, !.objs[c] = After(e)]
  <2>5. x \in Messages(p) /\ x.kind = "result" /\ x.task = t /\ x.res = e.res
    BY <2>3, <2>4 DEF Messages
  <2> HIDE DEF x
  <2>6. n1.inbox = Append(net[p].inbox, x) /\ n1.objs = [net[p].objs EXCEPT ![c] = After(e)]
    BY <1>0 DEF Send, Ends
  <2>7. net' = [net EXCEPT ![p] = n1]
    BY <2>2a DEF x
  <2> HIDE DEF n1
  <2>8. net'[p] = n1 /\ \A q \in Conns : q # p => net'[q] = net[q]
    BY <2>7, <1>2
  <2>9. net'[p].inbox = Append(net[p].inbox, x) /\ net'[p].objs = [net[p].objs EXCEPT ![c] = After(e)]
    BY <2>6, <2>8
  <2> DEFINE Made(d, b, f) == /\ x.kind = "result" /\ x.task = d /\ x.res = f.res
                              /\ net'[p].objs = [net[p].objs EXCEPT ![b] = After(f)]
  <2>10. Made(t, c, e)
    BY <2>5, <2>9
  <2> HIDE DEF Made
  <2>11. \E d \in Own(p) : \E b \in Cores : \E f \in Evaluations(p, net[p].objs[b], d[2]) : Made(d, b, f)
    BY <2>3, <2>10
  <2> USE DEF Made
  <2> QED
    BY <2>5, <2>8, <2>9, <2>11, <1>1, Zenon
<1>4. ASSUME NEW x \in Messages(p), x.kind # "result", NEW n1, net' = [net EXCEPT ![p] = n1],
             n1.inbox = Append(net[p].inbox, x), n1.objs = net[p].objs
      PROVE  /\ \A q \in Conns : q # p => net'[q] = net[q]
             /\ \E y \in Messages(p) : /\ net'[p].inbox = Append(net[p].inbox, y)
                                       /\ y.kind # "result" /\ net'[p].objs = net[p].objs
  <2>1. net'[p] = n1 /\ \A q \in Conns : q # p => net'[q] = net[q]
    BY <1>4, <1>2
  <2> QED
    BY <2>1, <1>4
<1>5. CASE ServerAsk(p)
  <2>1. PICK k \in {"init_done", "need_work"} :
          net' = [net EXCEPT ![p] = [Send(p, [kind |-> k]) EXCEPT !.asks = @ + 1]]
    BY <1>5 DEF ServerAsk
  <2> DEFINE x == [kind |-> k]
             n1 == [Send(p, x) EXCEPT !.asks = @ + 1]
  <2>2. x \in Messages(p) /\ x.kind # "result"
    BY DEF Messages
  <2> HIDE DEF x
  <2>3. n1.inbox = Append(net[p].inbox, x) /\ n1.objs = net[p].objs
    BY <1>0 DEF Send, Ends
  <2>4. net' = [net EXCEPT ![p] = n1]
    BY <2>1 DEF x
  <2> HIDE DEF n1
  <2> QED
    BY <2>2, <2>3, <2>4, <1>1, <1>4
<1>6. CASE ServerGone(p)
  <2> DEFINE x == [kind |-> "disconnect"]
             n1 == [Send(p, x) EXCEPT !.away = {}]
  <2>1. x \in Messages(p) /\ x.kind # "result"
    BY DEF Messages
  <2>2. net' = [net EXCEPT ![p] = n1]
    BY <1>6 DEF ServerGone
  <2> HIDE DEF x
  <2>3. n1.inbox = Append(net[p].inbox, x) /\ n1.objs = net[p].objs
    BY <1>0 DEF Send, Ends
  <2> HIDE DEF n1
  <2> QED
    BY <2>1, <2>2, <2>3, <1>1, <1>4
<1>7. CASE ServerClose(p)
  <2> DEFINE x == [kind |-> "eof"]
             n1 == [Send(p, x) EXCEPT !.open = FALSE]
  <2>1. x \in Messages(p) /\ x.kind # "result"
    BY DEF Messages
  <2>2. net' = [net EXCEPT ![p] = n1]
    BY <1>7 DEF ServerClose
  <2> HIDE DEF x
  <2>3. n1.inbox = Append(net[p].inbox, x) /\ n1.objs = net[p].objs
    BY <1>0 DEF Send, Ends
  <2> HIDE DEF n1
  <2> QED
    BY <2>1, <2>2, <2>3, <1>1, <1>4
<1> QED
  BY <1>3, <1>5, <1>6, <1>7 DEF Server

LEMMA NetKeepsSettled ==
    ASSUME plan \in Plans, UNCHANGED plan, RunShape, RunShape', Copies, LeftOutSettled, NEW p \in Conns,
           Connection(p) \/ Server(p)
    PROVE  LeftOutSettled'
<1>0. /\ feedback \in Seq(Items) /\ NetShape /\ p \in Perms /\ p \in Senders /\ Own(p) \subseteq Tasks
      /\ net[p].inbox \in Seq(Messages(p))
      /\ net[p].objs \in [Cores -> Objects(p)] /\ \A c \in Cores : Sound(net[p].objs[c])
      /\ DOMAIN net = Conns /\ net[p] \in Ends(p)
  BY EndFields, RunPlanFacts DEF RunShape, MainShape, NetShape, Senders, Copies
<1>1. UNCHANGED wroteVars /\ UNCHANGED <<found_zero, child>> /\ StopOnZero' = StopOnZero
  BY RunPlanStays DEF Connection, Server, ConnReceive, ConnAsk, ConnTake, ServerAsk, ServerResult, ServerGone,
     ServerClose, mainVars, workVars
<1>2. Learns /\ (Searching' <=> Searching)
  BY <1>1, NothingForgotten DEF Searching
<1>3. CASE ~ Searching
  BY <1>2, <1>3 DEF LeftOutSettled
<1>4. CASE Searching /\ ConnReceive(p)
  <2> DEFINE msg == Head(net[p].inbox)
             n1 == [net[p] EXCEPT !.inbox = Tail(@)]
  <2>1. /\ net[p].inbox # <<>> /\ net' = [net EXCEPT ![p] = n1]
        /\ feedback' = CASE msg.kind = "need_work" -> feedback
                        [] msg.kind \in {"init_done", "disconnect"} -> Append(feedback, Text(p))
                        [] msg.kind = "result" -> Append(feedback, Done(p, msg.task, msg.res))
                        [] msg.kind = "eof" -> Append(feedback, Gone(p))
    BY <1>4 DEF ConnReceive
  <2>2. n1.inbox = Tail(net[p].inbox) /\ n1.objs = net[p].objs
    BY <1>0 DEF Ends
  <2> HIDE DEF n1
  <2>3. /\ net'[p].inbox = Tail(net[p].inbox) /\ (\A q \in Conns : net'[q].objs = net[q].objs)
        /\ \A q \in Conns : q # p => net'[q].inbox = net[q].inbox
    BY <2>1, <2>2, <1>0
  <2>4. msg \in Messages(p) /\ net[p].inbox[1] = msg /\ 1 \in 1..Len(net[p].inbox)
    BY <2>1, <1>0, SeqSteps
  <2>5. \A q \in Conns : q # p => InboxMoved(q, 0)
    BY <2>3, SameMoves
  <2> HIDE DEF msg
  <2>6. /\ msg.kind \in {"init_done", "need_work", "disconnect", "eof", "result"}
        /\ msg.kind = "result" => msg.task \in Own(p) /\ msg.res \in Results
    BY <2>4, MessageKinds
  <2>7. CASE msg.kind = "result"
    <3> DEFINE x == Done(p, msg.task, msg.res)
    <3>1. x \in Items /\ x.kind = "done" /\ x.task = msg.task /\ x.res = msg.res /\ msg.task[1] = p
      BY <2>6, <2>7, <1>0, ItemsAre, ItemsApart DEF Own
    <3>2. feedback' = Append(feedback, x)
      BY <2>1, <2>7
    <3> HIDE DEF x
    <3>3. /\ Len(feedback) \in Nat /\ Len(feedback') = Len(feedback) + 1 /\ feedback'[Len(feedback')] = x
          /\ \A i \in 1..Len(feedback) : feedback'[i] = feedback[i]
      BY <3>1, <3>2, <1>0, AppendProperties
    <3>4. ~ Unsent(x) \/ SettledNow(x.task[1], x.res.of, Len(feedback))
      <4> SUFFICES ASSUME Unsent(x) PROVE SettledNow(p, msg.res.of, Len(feedback))
        BY <3>1
      <4>1. Unsent(msg) /\ msg.res.kind = "candidate"
        BY <3>1, <2>7 DEF Unsent
      <4>2. msg.res.of \in Sources
        BY <4>1, <2>6, <2>7, ResultKinds
      <4>3. SettledNet(p, msg.res.of, 1 - 1)
        BY <4>1, <2>4, <1>4 DEF LeftOutSettled
      <4>4. Settled(p, msg.res.of, Len(feedback))
        BY <4>3 DEF SettledNet
      <4> QED
        BY <4>2, <4>4, <3>3, <1>0, <1>2, SettledKept
    <3>5. Moved(0)
      BY <3>1, <3>2, <3>4, <1>0, AppendMoves
    <3>6. ASSUME NEW src \in Sources, Settles(msg, p, src)
          PROVE  SettledNow(p, src, Len(feedback'))
      <4>1. Settles(x, p, src)
        BY <3>1, <3>6 DEF Settles
      <4>2. Len(feedback') \in 1..Len(feedback')
        BY <3>3
      <4> QED
        BY <4>1, <4>2, <3>3 DEF SettledNow
    <3>7. InboxMoved(p, 1)
      BY <3>6, <2>1, <2>3, <1>0, InboxTails DEF msg
    <3> QED
      BY <3>5, <3>7, <2>3, <2>5, <1>1, <1>2, <1>4, LeftOutStays
  <2>8. CASE msg.kind # "result"
    <3>1. /\ Text(p) \in Items /\ Gone(p) \in Items
          /\ ~ Unsent(Text(p)) /\ ~ Unsent(Gone(p))
      BY <1>0, ItemsAre, ItemsApart DEF Unsent
    <3>2. feedback' = feedback \/ feedback' = Append(feedback, Text(p)) \/ feedback' = Append(feedback, Gone(p))
      BY <2>1, <2>6, <2>8
    <3>3. Moved(0)
      BY <3>1, <3>2, <1>0, SameMoves, AppendMoves
    <3>4. \A src \in Sources : ~ Settles(msg, p, src)
      BY <2>6, <2>8 DEF Settles
    <3>5. InboxMoved(p, 1)
      BY <3>4, <2>1, <2>3, <1>0, InboxTails DEF msg
    <3> QED
      BY <3>3, <3>5, <2>3, <2>5, <1>1, <1>2, <1>4, LeftOutStays
  <2> QED
    BY <2>7, <2>8
<1>5. CASE Searching /\ (ConnAsk(p) \/ ConnTake(p))
  <2>1. \A q \in Conns : net'[q].inbox = net[q].inbox /\ net'[q].objs = net[q].objs
    <3> DEFINE u == Head(conn[p].queue)
               n1 == [net[p] EXCEPT !.away = @ \cup {u}]
    <3>1. UNCHANGED net \/ net' = [net EXCEPT ![p] = n1]
      BY <1>5 DEF ConnAsk, ConnTake
    <3> HIDE DEF u
    <3>2. n1.inbox = net[p].inbox /\ n1.objs = net[p].objs
      BY <1>0 DEF Ends
    <3> HIDE DEF n1
    <3> QED
      BY <3>1, <3>2, <1>0
  <2>2. feedback' = feedback \/ feedback' = Append(feedback, Ask(p)) \/ feedback' = Append(feedback, Gone(p))
    BY <1>5 DEF ConnAsk, ConnTake
  <2>3. Ask(p) \in Items /\ Gone(p) \in Items /\ ~ Unsent(Ask(p)) /\ ~ Unsent(Gone(p))
    BY <1>0, ItemsAre, ItemsApart DEF Unsent
  <2>4. Moved(0)
    BY <2>2, <2>3, <1>0, SameMoves, AppendMoves
  <2>5. \A q \in Conns : InboxMoved(q, 0)
    BY <2>1, SameMoves
  <2> QED
    BY <2>1, <2>4, <2>5, <1>1, <1>2, <1>5, LeftOutStays
<1>6. CASE Searching /\ Server(p)
  <2>1. feedback' = feedback /\ \A q \in Conns : q # p => net'[q] = net[q]
    BY <1>0, <1>6, ServerSteps
  <2>2. PICK x \in Messages(p) :
          /\ net'[p].inbox = Append(net[p].inbox, x)
          /\ \/ x.kind # "result" /\ net'[p].objs = net[p].objs
             \/ \E t \in Own(p) : \E c \in Cores : \E e \in Evaluations(p, net[p].objs[c], t[2]) :
                  /\ x.kind = "result" /\ x.task = t /\ x.res = e.res
                  /\ net'[p].objs = [net[p].objs EXCEPT ![c] = After(e)]
    BY <1>0, <1>6, ServerSteps
  <2>3. Moved(0) /\ \A q \in Conns : q # p => InboxMoved(q, 0)
    BY <2>1, SameMoves
  <2>4. /\ Len(net[p].inbox) \in Nat /\ Len(net'[p].inbox) = Len(net[p].inbox) + 1
        /\ net'[p].inbox[Len(net'[p].inbox)] = x
        /\ \A i \in 1..Len(net[p].inbox) : net'[p].inbox[i] = net[p].inbox[i]
    BY <2>2, <1>0, AppendProperties
  <2>5. SUFFICES /\ ~ Unsent(x) \/ SettledNetNow(p, x.res.of, Len(net[p].inbox))
                 /\ \A c \in Cores : \A src \in Sources : LeavesOut(net'[p].objs[c], src) =>
                      LeavesOut(net[p].objs[c], src) \/ SettledNetNow(p, src, Len(net'[p].inbox))
    <3>1. InboxMoved(p, 0)
      BY <2>2, <2>5, <1>0, InboxAppends
    <3>2. \A q \in Conns : \A c \in Cores : \A src \in Sources : LeavesOut(net'[q].objs[c], src) =>
                      LeavesOut(net[q].objs[c], src) \/ SettledNetNow(q, src, Len(net'[q].inbox))
      BY <2>1, <2>5
    <3> QED
      BY <3>1, <3>2, <2>3, <1>1, <1>2, <1>6, LeftOutStays
  <2>6. CASE x.kind # "result" /\ net'[p].objs = net[p].objs
    <3>1. ~ Unsent(x)
      BY <2>6, MessageKinds DEF Unsent
    <3> QED
      BY <3>1, <2>6
  <2>7. ASSUME NEW t \in Own(p), NEW c \in Cores, NEW e \in Evaluations(p, net[p].objs[c], t[2]),
               x.kind = "result", x.task = t, x.res = e.res,
               net'[p].objs = [net[p].objs EXCEPT ![c] = After(e)]
        PROVE  /\ ~ Unsent(x) \/ SettledNetNow(p, x.res.of, Len(net[p].inbox))
               /\ \A d \in Cores : \A src \in Sources : LeavesOut(net'[p].objs[d], src) =>
                    LeavesOut(net[p].objs[d], src) \/ SettledNetNow(p, src, Len(net'[p].inbox))
    <3>1. t[2] \in Seeds[p] /\ t[1] = p /\ net[p].objs[c] \in Objects(p) /\ Sound(net[p].objs[c])
      BY <1>0 DEF Own
    <3>2. /\ e.res \in Results
          /\ \A src \in Sources : LeavesOut(After(e), src) => LeavesOut(net[p].objs[c], src) \/ Covers(e.res, src)
          /\ e.res.kind = "candidate" /\ ~ e.res.sent => LeavesOut(net[p].objs[c], e.res.of)
      BY <3>1, <1>0, AfterEvaluation
    <3>3. ASSUME Unsent(x) PROVE SettledNetNow(p, x.res.of, Len(net[p].inbox))
      <4>1. e.res.kind = "candidate" /\ ~ e.res.sent
        BY <3>3, <2>7 DEF Unsent
      <4> DEFINE src == e.res.of
      <4>2. src \in Sources /\ LeavesOut(net[p].objs[c], src)
        BY <4>1, <3>2, ResultKinds
      <4>3. SettledNet(p, src, Len(net[p].inbox))
        BY <4>2, <1>6 DEF LeftOutSettled
      <4> HIDE DEF src
      <4>4. CASE Settled(p, src, Len(feedback))
        <5>1. \A i \in 1..Len(feedback) : feedback'[i] = feedback[i]
          BY <2>1
        <5>2. SettledNow(p, src, Len(feedback))
          BY <5>1, <4>2, <4>4, <1>0, <1>2, SettledKept
        <5> QED
          BY <5>2, <2>1, <2>7 DEF SettledNetNow, src
      <4>5. CASE \E i \in 1..Len(net[p].inbox) : Settles(net[p].inbox[i], p, src)
        BY <4>5, <2>4, <2>7 DEF SettledNetNow, src
      <4> QED
        BY <4>3, <4>4, <4>5 DEF SettledNet
    <3>4. ASSUME NEW src \in Sources, Covers(e.res, src) PROVE SettledNetNow(p, src, Len(net'[p].inbox))
      <4>1. Settles(x, p, src)
        BY <3>1, <3>4, <2>7 DEF Settles
      <4>2. Len(net'[p].inbox) \in 1..Len(net'[p].inbox)
        BY <2>4
      <4> QED
        BY <4>1, <4>2, <2>4 DEF SettledNetNow
    <3>5. /\ net'[p].objs[c] = After(e)
          /\ \A d \in Cores : d # c => net'[p].objs[d] = net[p].objs[d]
      BY <2>7, <1>0
    <3>6. ASSUME NEW d \in Cores, NEW src \in Sources, LeavesOut(net'[p].objs[d], src)
          PROVE  LeavesOut(net[p].objs[d], src) \/ SettledNetNow(p, src, Len(net'[p].inbox))
      BY <3>2, <3>4, <3>5, <3>6
    <3> QED
      BY <3>3, <3>6
  <2> QED
    BY <2>2, <2>6, <2>7
<1> QED
  BY <1>3, <1>4, <1>5, <1>6 DEF Connection

-----------------------------------------------------------------------------
(* What was scored reaches the main process.                               *)

PromisedNow(p, n) == parent'[p].best <= n \/ \E i \in 1..Len(feedback') : Offers(feedback'[i], p, n)

LEMMA SourceOfTask ==
    ASSUME plan \in Plans, NEW t \in Tasks
    PROVE  SourceOf(t) \in Sources /\ Score[SourceOf(t)] \in Nat
<1>1. t[1] \in Perms /\ t[2] \in Seeds[t[1]]
  BY RunPlanFacts
<1>2. Yields[t[1]][t[2]] # {} /\ Yields[t[1]][t[2]] \subseteq Sources
  BY <1>1, PermuterAssumption DEF Perms, Seeds, Yields, Sources
<1>3. SourceOf(t) \in Sources
  BY <1>2 DEF SourceOf
<1> QED
  BY <1>3, PlanFacts

\* ScoresPromised in the next state.
LEMMA PromisedNext ==
    ASSUME UNCHANGED plan,
           \A w \in Workers : \A p \in Perms : PromisedNow(p, child'[w][p].best),
           \A t \in posted' : Counted(t) => PromisedNow(t[1], Score[SourceOf(t)]),
           \A i \in 1..Len(feedback') :
              feedback'[i].kind = "done" /\ Counted(feedback'[i].task) =>
                PromisedNow(feedback'[i].task[1], Score[SourceOf(feedback'[i].task)])
    PROVE  ScoresPromised'
<1>1. \A t : SourceOf(t)' = SourceOf(t) /\ (Counted(t)' <=> Counted(t))
  BY RunPlanStays DEF SourceOf, Counted
<1> QED
  BY <1>1, RunPlanStays DEF ScoresPromised, Promised, PromisedNow, Offers

\* Offers stay on the queue until the main process has taken them up.
LEMMA PromisesStay ==
    ASSUME plan \in Plans, UNCHANGED plan, RunShape, RunShape', ScoresPromised, Plain,
           \A p \in Perms : parent'[p].best <= parent[p].best,
           \A i \in 1..Len(feedback) :
              \/ \E j \in 1..Len(feedback') : feedback'[j] = feedback[i]
              \/ \A p \in Perms : \A n \in Nat : Offers(feedback[i], p, n) => parent'[p].best <= n,
           \A w \in Workers : \A p \in Perms :
              child'[w][p].best = child[w][p].best \/ PromisedNow(p, child'[w][p].best),
           \A t \in posted' : t \in posted \/ \E i \in 1..Len(feedback) : feedback[i].kind = "done" /\ feedback[i].task = t,
           \A j \in 1..Len(feedback') :
              \/ \E i \in 1..Len(feedback) : feedback'[j] = feedback[i]
              \/ feedback'[j].kind = "done" /\ Counted(feedback'[j].task) =>
                    PromisedNow(feedback'[j].task[1], Score[SourceOf(feedback'[j].task)])
    PROVE  ScoresPromised'
<1>1. \A p \in Perms : parent[p].best \in Nat /\ parent'[p].best \in Nat
  BY RunPlanStays, PlacesStay DEF RunShape, MainShape, Objects
<1>2. \A w \in Workers : \A p \in Perms : child[w][p].best \in Nat
  BY DEF RunShape, WorkShape, Objects
<1>3. ASSUME NEW p \in Perms, NEW n \in Nat, Promised(p, n)
      PROVE  PromisedNow(p, n)
  <2>1. CASE parent[p].best <= n
    BY <2>1, <1>1 DEF PromisedNow
  <2>2. ASSUME NEW i \in 1..Len(feedback), Offers(feedback[i], p, n)
        PROVE  PromisedNow(p, n)
    BY <2>2 DEF PromisedNow
  <2> QED
    BY <2>1, <2>2, <1>3 DEF Promised
<1>4. ASSUME NEW w \in Workers, NEW p \in Perms
      PROVE  PromisedNow(p, child'[w][p].best)
  BY <1>2, <1>3 DEF ScoresPromised
<1>5. ASSUME NEW i \in 1..Len(feedback), feedback[i].kind = "done", Counted(feedback[i].task)
      PROVE  PromisedNow(feedback[i].task[1], Score[SourceOf(feedback[i].task)])
  <2>1. feedback[i] \in Items
    BY DEF RunShape, MainShape
  <2>2. feedback[i].task \in Tasks
    BY <2>1, <1>5, ItemKinds
  <2>3. feedback[i].task[1] \in Perms /\ Score[SourceOf(feedback[i].task)] \in Nat
    BY <2>2, RunPlanFacts, SourceOfTask
  <2> QED
    BY <2>3, <1>3, <1>5 DEF ScoresPromised
<1>6. ASSUME NEW t \in posted', Counted(t)
      PROVE  PromisedNow(t[1], Score[SourceOf(t)])
  <2>1. CASE t \in posted
    <3>1. t \in Tasks
      BY <2>1 DEF RunShape, MainShape
    <3>2. t[1] \in Perms /\ Score[SourceOf(t)] \in Nat
      BY <3>1, RunPlanFacts, SourceOfTask
    <3> QED
      BY <2>1, <3>2, <1>3, <1>6 DEF ScoresPromised
  <2>2. CASE t \notin posted
    BY <2>2, <1>5, <1>6
  <2> QED
    BY <2>1, <2>2
<1>7. ASSUME NEW j \in 1..Len(feedback'), feedback'[j].kind = "done", Counted(feedback'[j].task)
      PROVE  PromisedNow(feedback'[j].task[1], Score[SourceOf(feedback'[j].task)])
  BY <1>5, <1>7
<1> QED
  BY <1>4, <1>6, <1>7, PromisedNext

LEMMA RunInitPromised ==
    ASSUME plan \in Plans, RunInit
    PROVE  ScoresPromised
<1>1. Fresh.best = BaseScore /\ BaseScore \in Nat
  BY PlanFacts DEF Fresh
<1>2. \A w \in Workers : \A p \in Perms : Promised(p, child[w][p].best)
  BY <1>1 DEF RunInit, Promised
<1>3. posted = {} /\ feedback = <<>>
  BY DEF RunInit
<1> QED
  BY <1>2, <1>3 DEF ScoresPromised

\* Every item is still there but for the head.
LEMMA TailKeeps ==
    ASSUME feedback \in Seq(Items), feedback # <<>>, feedback' = Tail(feedback)
    PROVE  /\ \A i \in 1..Len(feedback) : feedback[i] = Head(feedback) \/ \E j \in 1..Len(feedback') : feedback'[j] = feedback[i]
           /\ \A j \in 1..Len(feedback') : \E i \in 1..Len(feedback) : feedback'[j] = feedback[i]
           /\ 1 \in 1..Len(feedback) /\ feedback[1] = Head(feedback)
<1>1. /\ Len(feedback) \in Nat \ {0} /\ Len(feedback') = Len(feedback) - 1 /\ Head(feedback) = feedback[1]
      /\ \A i \in 1..Len(feedback') : feedback'[i] = feedback[i + 1]
  BY HeadTailProperties
<1>2. ASSUME NEW i \in 1..Len(feedback), i # 1
      PROVE  \E j \in 1..Len(feedback') : feedback'[j] = feedback[i]
  <2>1. i - 1 \in 1..Len(feedback') /\ feedback'[i - 1] = feedback[i]
    BY <1>1, <1>2
  <2> QED
    BY <2>1
<1>3. ASSUME NEW j \in 1..Len(feedback')
      PROVE  \E i \in 1..Len(feedback) : feedback'[j] = feedback[i]
  <2>1. j + 1 \in 1..Len(feedback)
    BY <1>1
  <2> QED
    BY <2>1, <1>1
<1> QED
  BY <1>1, <1>2, <1>3

LEMMA AppendKeeps ==
    ASSUME feedback \in Seq(Items), NEW x \in Items, feedback' = Append(feedback, x)
    PROVE  /\ \A i \in 1..Len(feedback) : i \in 1..Len(feedback') /\ feedback'[i] = feedback[i]
           /\ \A j \in 1..Len(feedback') : feedback'[j] = x \/ \E i \in 1..Len(feedback) : feedback'[j] = feedback[i]
           /\ \E j \in 1..Len(feedback') : feedback'[j] = x
<1>1. /\ Len(feedback) \in Nat /\ Len(feedback') = Len(feedback) + 1 /\ feedback'[Len(feedback) + 1] = x
      /\ \A i \in 1..Len(feedback) : feedback'[i] = feedback[i]
  BY AppendProperties
<1>2. \A j \in 1..Len(feedback') : j \in 1..Len(feedback) \/ j = Len(feedback) + 1
  BY <1>1
<1>3. Len(feedback) + 1 \in 1..Len(feedback')
  BY <1>1
<1> QED
  BY <1>1, <1>2, <1>3

LEMMA MainKeepsPromised ==
    ASSUME plan \in Plans, UNCHANGED plan, RunShape, RunShape', Copies, ScoresPromised, Main
    PROVE  ScoresPromised'
<1>0. /\ MainShape /\ feedback \in Seq(Items) /\ UNCHANGED child
      /\ \A p \in Perms : parent[p].best \in Nat
  BY DEF RunShape, MainShape, Objects, Main, MainFinished, MainWorkDone, MainNeedWork, MainRefuse, MainSignal,
         MainJoin, workVars
<1>1. SUFFICES ASSUME Plain' PROVE ScoresPromised'
  BY DEF ScoresPromised
<1>2. CASE MainWorkDone
  <2> DEFINE f == Head(feedback)
             skip == phase = "finishing" /\ StopOnZero /\ found_zero
             p == f.task[1]
             r == f.res
  <2>1. /\ feedback # <<>> /\ f.kind = "done" /\ feedback' = Tail(feedback)
        /\ skip => UNCHANGED found_zero
        /\ ~ skip => Post(f) /\ posted' = posted \cup {f.task} /\ (found_zero' <=> (found_zero \/ IsZero(f)))
    BY <1>2 DEF MainWorkDone
  <2>2. ~ skip
    BY <2>1, <1>1, RunPlanStays DEF Plain, Searching
  <2>3. Plain
    BY <2>1, <2>2, <1>1, RunPlanStays DEF Plain, Searching, OneSourceEach
  <2>4. f \in Items
    BY <2>1, <1>0, SeqSteps
  <2>5. f.task \in Tasks /\ r \in Results /\ p \in Perms
    BY <2>1, <2>4, ItemKinds, RunPlanFacts
  <2>6. /\ \A q \in Perms : parent'[q].best <= parent[q].best
        /\ parent'[p] = IF r.kind = "candidate" THEN Told(parent[p], r) ELSE parent[p]
    BY <2>1, <2>2, <2>4, <2>5, <1>0, PostTells
  <2>7. parent[p] \in Objects(p) /\ Sound(parent[p]) /\ ~ parent[p].served
    BY <2>5, <1>0 DEF MainShape, Copies
  <2>8. /\ \A i \in 1..Len(feedback) : feedback[i] = f \/ \E j \in 1..Len(feedback') : feedback'[j] = feedback[i]
        /\ \A j \in 1..Len(feedback') : \E i \in 1..Len(feedback) : feedback'[j] = feedback[i]
        /\ 1 \in 1..Len(feedback) /\ feedback[1] = f
    BY <2>1, <1>0, TailKeeps
  <2>9. posted' = posted \cup {f.task}
    BY <2>1, <2>2
  <2> HIDE DEF f, p, r
  <2>10. ASSUME NEW q \in Perms, NEW n \in Nat, Offers(f, q, n)
         PROVE  parent'[q].best <= n
    <3>1. /\ q = p /\ r.kind = "candidate" /\ r.sent /\ r.hash # None /\ r.score <= n
      BY <2>10 DEF Offers, p, r
    <3>2. r \in Candidates
      BY <3>1, <2>5, ResultKinds
    <3>3. Told(parent[p], r).best <= r.score
      BY <3>1, <3>2, <2>3, <2>5, <2>7, TellingSettles DEF Plain
    <3>4. Told(parent[p], r) \in Objects(p)
      BY <3>2, <2>5, <2>7, AfterTelling
    <3>5. Told(parent[p], r).best \in Nat /\ r.score \in Nat
      BY <3>2, <3>4 DEF Objects, Candidates
    <3>6. Told(parent[p], r).best <= n
      BY <3>1, <3>3, <3>5
    <3> QED
      BY <3>1, <3>6, <2>6
  <2>11. \A t \in posted' : t \in posted \/ \E i \in 1..Len(feedback) : feedback[i].kind = "done" /\ feedback[i].task = t
    BY <2>1, <2>8, <2>9 DEF f
  <2> QED
    BY <2>3, <2>6, <2>8, <2>10, <2>11, <1>0, PromisesStay
<1>3. CASE ~ MainWorkDone
  <2>1. UNCHANGED <<found_zero, posted, parent>>
    BY <1>3 DEF Main, MainFinished, MainNeedWork, MainRefuse, MainSignal, MainJoin, mainVars, wroteVars
  <2>2. Plain
    BY <2>1, <1>1, RunPlanStays DEF Plain, Searching, OneSourceEach
  <2>3. \A p \in Perms : parent'[p].best <= parent[p].best
    BY <2>1, <1>0, SMTT(60)
  <2>4. \/ feedback' = feedback
        \/ feedback # <<>> /\ Head(feedback).kind # "done" /\ feedback' = Tail(feedback)
    BY <1>3 DEF Main, MainFinished, MainNeedWork, MainRefuse, MainSignal, MainJoin
  <2>5. CASE feedback' = feedback
    BY <2>1, <2>2, <2>3, <2>5, <1>0, PromisesStay
  <2>6. CASE feedback # <<>> /\ Head(feedback).kind # "done" /\ feedback' = Tail(feedback)
    <3>1. /\ \A i \in 1..Len(feedback) :
               feedback[i] = Head(feedback) \/ \E j \in 1..Len(feedback') : feedback'[j] = feedback[i]
          /\ \A j \in 1..Len(feedback') : \E i \in 1..Len(feedback) : feedback'[j] = feedback[i]
      BY <2>6, <1>0, TailKeeps
    <3>2. \A p \in Perms : \A n \in Nat : ~ Offers(Head(feedback), p, n)
      BY <2>6 DEF Offers
    <3> QED
      BY <3>1, <3>2, <2>1, <2>2, <2>3, <1>0, PromisesStay
  <2> QED
    BY <2>4, <2>5, <2>6, SMTT(60)
<1> QED
  BY <1>2, <1>3, SMTT(60)

LEMMA WorkerKeepsPromised ==
    ASSUME plan \in Plans, UNCHANGED plan, RunShape, RunShape', Copies, ScoresPromised,
           NEW w \in Workers, Worker(w)
    PROVE  ScoresPromised'
<1>0. /\ WorkShape /\ feedback \in Seq(Items) /\ UNCHANGED <<parent, posted, found_zero>>
      /\ \A p \in Perms : parent'[p].best <= parent[p].best
  <2>1. UNCHANGED <<parent, posted, found_zero>>
    BY DEF Worker, WorkerMiss, WorkerGet, WorkerDone, WorkerAsk, mainVars, wroteVars
  <2>2. \A p \in Perms : parent[p].best \in Nat
    BY DEF RunShape, MainShape, Objects
  <2> QED
    BY <2>1, <2>2 DEF RunShape, MainShape
<1>1. SUFFICES ASSUME Plain PROVE ScoresPromised'
  BY <1>0, RunPlanStays DEF ScoresPromised, Plain, Searching, OneSourceEach
<1>2. CASE ~ WorkerDone(w)
  <2>1. UNCHANGED child
    BY <1>2 DEF Worker, WorkerMiss, WorkerGet, WorkerAsk
  <2>2. feedback' = feedback \/ feedback' = Append(feedback, Ask(Local)) \/ feedback' = Append(feedback, Gone(Local))
    BY <1>2 DEF Worker, WorkerMiss, WorkerGet, WorkerAsk
  <2>3. /\ Ask(Local) \in Items /\ Gone(Local) \in Items
        /\ Ask(Local).kind # "done" /\ Gone(Local).kind # "done"
    BY ItemsAre, ItemsApart
  <2>4. CASE feedback' = feedback
    BY <2>1, <2>4, <1>0, <1>1, PromisesStay
  <2>5. ASSUME NEW x \in Items, x.kind # "done", feedback' = Append(feedback, x)
        PROVE  ScoresPromised'
    <3>1. /\ \A i \in 1..Len(feedback) : i \in 1..Len(feedback') /\ feedback'[i] = feedback[i]
          /\ \A j \in 1..Len(feedback') : feedback'[j] = x \/ \E i \in 1..Len(feedback) : feedback'[j] = feedback[i]
      BY <2>5, <1>0, AppendKeeps
    <3> QED
      BY <3>1, <2>1, <2>5, <1>0, <1>1, PromisesStay
  <2> QED
    BY <2>2, <2>3, <2>4, <2>5
<1>3. CASE WorkerDone(w)
  <2> DEFINE p == hand[w][1]
             s == hand[w][2]
             o == child[w][p]
  <2>1. wpc[w] = "work"
    BY <1>3 DEF WorkerDone
  <2>2. PICK e \in Evaluations(p, o, s) :
          /\ child' = [child EXCEPT ![w][p] = After(e)]
          /\ feedback' = Append(feedback, Done(Local, hand[w], e.res))
    BY <1>3 DEF WorkerDone, After
  <2>3. hand[w] \in Tasks
    BY <2>1, <1>0 DEF WorkShape
  <2>4. p \in Perms /\ s \in Seeds[p] /\ o \in Objects(p) /\ Sound(o) /\ hand[w] = <<p, s>> /\ hand[w][1] = p
    BY <2>3, <1>0, RunPlanFacts DEF WorkShape, Copies
  <2>5. Promised(p, o.best)
    BY <2>4, <1>1 DEF ScoresPromised
  <2>6. DOMAIN child = Workers /\ DOMAIN child[w] = Perms
    BY <1>0 DEF WorkShape
  <2> HIDE DEF p, s
  <2>7. child'[w][p] = After(e) /\ \A v \in Workers : \A q \in Perms : v # w \/ q # p => child'[v][q] = child[v][q]
    BY <2>2, <2>4, <2>6, <1>0 DEF WorkShape
  <2> HIDE DEF o
  <2>8. /\ After(e) \in Objects(p) /\ e.res \in Results
        /\ \/ After(e).best = o.best
           \/ /\ e.res.kind = "candidate" /\ e.res.sent /\ e.res.hash # None
              /\ After(e).best = e.res.score
        /\ e.res.kind = "candidate" /\ Threshold = None =>
             (e.res.sent /\ e.res.hash # None) \/ o.best <= e.res.score
    BY <2>2, <2>4, AfterEvaluation
  <2> DEFINE x == Done(Local, hand[w], e.res)
  <2>9. x \in Items /\ x.kind = "done" /\ x.task = hand[w] /\ x.res = e.res
    BY <2>3, <2>8, ItemsAre, ItemsApart
  <2> HIDE DEF x
  <2>10. feedback' = Append(feedback, x)
    BY <2>2 DEF x
  <2>11. /\ \A i \in 1..Len(feedback) : i \in 1..Len(feedback') /\ feedback'[i] = feedback[i]
         /\ \A j \in 1..Len(feedback') : feedback'[j] = x \/ \E i \in 1..Len(feedback) : feedback'[j] = feedback[i]
         /\ \E j \in 1..Len(feedback') : feedback'[j] = x
    BY <2>9, <2>10, <1>0, AppendKeeps
  <2>12. PromisedNow(p, o.best)
    <3>1. o.best \in Nat /\ parent' = parent
      BY <2>4, <1>0 DEF Objects
    <3> QED
      BY <3>1, <2>5, <2>11 DEF Promised, PromisedNow
  <2>13. e.res.kind = "candidate" /\ e.res.sent /\ e.res.hash # None => PromisedNow(p, e.res.score)
    <3> SUFFICES ASSUME e.res.kind = "candidate", e.res.sent, e.res.hash # None PROVE PromisedNow(p, e.res.score)
      OBVIOUS
    <3>1. e.res.score \in Nat
      BY <2>8, ResultKinds DEF Candidates
    <3>2. Offers(x, p, e.res.score)
      BY <3>1, <2>4, <2>9 DEF Offers
    <3> QED
      BY <3>2, <2>11 DEF PromisedNow
  <2>14. ASSUME NEW v \in Workers, NEW q \in Perms
         PROVE  child'[v][q].best = child[v][q].best \/ PromisedNow(q, child'[v][q].best)
    <3>1. CASE v = w /\ q = p
      BY <3>1, <2>7, <2>8, <2>12, <2>13
    <3>2. CASE v # w \/ q # p
      BY <3>2, <2>7
    <3> QED
      BY <3>1, <3>2
  <2>15. Counted(x.task) => PromisedNow(x.task[1], Score[SourceOf(x.task)])
    <3> SUFFICES ASSUME Counted(<<p, s>>) PROVE PromisedNow(p, Score[SourceOf(<<p, s>>)])
      BY <2>4, <2>9
    <3>1. e.res.kind = "candidate" /\ e.res \in Candidates /\ e.res.score = Score[SourceOf(<<p, s>>)]
      BY <2>2, <2>4, <1>1, CountedIsScored DEF Plain
    <3>2. CASE e.res.sent /\ e.res.hash # None
      BY <3>1, <3>2, <2>13
    <3>3. CASE o.best <= e.res.score
      <4>1. o.best \in Nat /\ e.res.score \in Nat /\ parent'[p].best \in Nat
        BY <3>1, <2>4, RunPlanStays, PlacesStay DEF Objects, Candidates, RunShape, MainShape
      <4>2. \A i \in 1..Len(feedback') : Offers(feedback'[i], p, o.best) => Offers(feedback'[i], p, e.res.score)
        <5> SUFFICES ASSUME NEW i \in 1..Len(feedback'), Offers(feedback'[i], p, o.best)
                     PROVE  Offers(feedback'[i], p, e.res.score)
          OBVIOUS
        <5>1. feedback'[i] \in Items
          BY RunPlanStays DEF RunShape, MainShape
        <5> DEFINE y == feedback'[i]
        <5>2. y.kind = "done" /\ y.res.kind = "candidate" /\ y.res.score <= o.best
          BY DEF Offers
        <5>3. y.res.score \in Nat
          BY <5>1, <5>2, ItemKinds, ResultKinds DEF Candidates
        <5>4. y.res.score <= e.res.score
          BY <5>2, <5>3, <4>1, <3>3
        <5> QED
          BY <5>4 DEF Offers
      <4> QED
        BY <4>1, <4>2, <3>1, <3>3, <2>12 DEF PromisedNow
    <3> QED
      BY <3>1, <3>2, <3>3, <2>8, <1>1 DEF Plain
  <2> QED
    BY <2>11, <2>14, <2>15, <1>0, <1>1, PromisesStay
<1> QED
  BY <1>2, <1>3

LEMMA NetKeepsPromised ==
    ASSUME UNCHANGED plan, NEW p \in Conns
    PROVE  ScoresPromised'
BY RunPlanStays DEF ScoresPromised, Plain

-----------------------------------------------------------------------------
(* The whole of it, and every step of the search.                          *)

RunInv ==
    /\ RunShape /\ Once /\ StopsInOrder /\ NoMoreThanStarted
    /\ Copies /\ NoSourceMissing /\ LeftOutSettled /\ ScoresPromised

LEMMA RunInitInv ==
    ASSUME plan \in Plans, RunInit
    PROVE  RunInv
<1>1. NoMoreThanStarted
  BY RunPlanFacts DEF NoMoreThanStarted, RunInit
<1> QED
  BY <1>1, RunInitShape, RunInitOnce, RunInitTold, RunInitCopies, RunInitSettled, RunInitPromised DEF RunInv

LEMMA RunNextInv ==
    ASSUME plan \in Plans, UNCHANGED plan, RunInv, RunNext
    PROVE  RunInv'
<1>0. /\ RunShape /\ Once /\ StopsInOrder /\ Copies /\ NoSourceMissing /\ LeftOutSettled /\ ScoresPromised
      /\ NoMoreThanStarted /\ ActiveCount /\ FeedsAll /\ active \in Int
  BY DEF RunInv, StopsInOrder, RunShape, MainShape
<1>1. Workers' = Workers /\ Cardinality(Workers) \in Nat
  BY RunPlanStays, RunPlanFacts
<1>2. CASE Main
  <2>1. RunShape'
    BY <1>0, <1>2, MainKeepsShape
  <2>2. Once' /\ StopsInOrder' /\ Copies'
    BY <1>0, <1>2, MainKeepsOnce, MainKeepsTold, MainKeepsCopies
  <2>3. LeftOutSettled' /\ NoSourceMissing'
    BY <1>0, <1>2, <2>1, MainKeepsSettled
  <2>4. ScoresPromised'
    BY <1>0, <1>2, <2>1, MainKeepsPromised
  <2>5. NoMoreThanStarted'
    <3>1. active' = active \/ active' = active - 1
      BY <1>2 DEF Main, MainFinished, MainWorkDone, MainNeedWork, MainRefuse, MainSignal, MainJoin, mainVars
    <3> QED
      BY <3>1, <1>0, <1>1 DEF NoMoreThanStarted
  <2> QED
    BY <2>1, <2>2, <2>3, <2>4, <2>5 DEF RunInv
<1>3. CASE \E w \in Workers : Worker(w)
  <2>0. PICK w \in Workers : Worker(w)
    BY <1>3
  <2>1. RunShape'
    BY <1>0, <2>0, WorkerKeepsShape
  <2>2. Once' /\ StopsInOrder' /\ Copies'
    BY <1>0, <2>0, WorkerKeepsOnce, WorkerKeepsTold, WorkerKeepsCopies
  <2>3. LeftOutSettled'
    BY <1>0, <2>0, <2>1, WorkerKeepsSettled
  <2>4. ScoresPromised'
    BY <1>0, <2>0, <2>1, WorkerKeepsPromised
  <2>5. UNCHANGED <<missed, active>>
    BY <2>0 DEF Worker, WorkerMiss, WorkerGet, WorkerDone, WorkerAsk, mainVars, wroteVars
  <2>6. NoSourceMissing' /\ NoMoreThanStarted'
    BY <2>5, <1>0, <1>1 DEF NoSourceMissing, NoMoreThanStarted
  <2> QED
    BY <2>1, <2>2, <2>3, <2>4, <2>6 DEF RunInv
<1>4. CASE \E p \in Conns : Connection(p) \/ Server(p)
  <2>0. PICK p \in Conns : Connection(p) \/ Server(p)
    BY <1>4
  <2>1. RunShape'
    BY <1>0, <2>0, NetKeepsShape
  <2>2. Once' /\ StopsInOrder' /\ Copies'
    BY <1>0, <2>0, NetKeepsOnce, NetKeepsTold, NetKeepsCopies
  <2>3. LeftOutSettled'
    BY <1>0, <2>0, <2>1, NetKeepsSettled
  <2>4. ScoresPromised'
    BY NetKeepsPromised, SMTT(60)
  <2>5. UNCHANGED <<missed, active>>
    BY <2>0
       DEF Connection, ConnReceive, ConnAsk, ConnTake, Server, ServerAsk, ServerResult, ServerGone, ServerClose,
           mainVars, wroteVars
  <2>6. NoSourceMissing' /\ NoMoreThanStarted'
    BY <2>5, <1>0, <1>1 DEF NoSourceMissing, NoMoreThanStarted
  <2> QED
    BY <2>1, <2>2, <2>3, <2>4, <2>6 DEF RunInv
<1> QED
  BY <1>2, <1>3, <1>4 DEF RunNext

\* Nothing of RunInv reads more than the invocation and the variables of the run.
LEMMA RunStutterInv ==
    ASSUME UNCHANGED <<plan, runVars>>, RunInv
    PROVE  RunInv'
<1>1. UNCHANGED plan /\ UNCHANGED <<mainVars, workVars, netVars, tasks, feedback>>
  BY DEF runVars
<1>2. /\ UNCHANGED <<phase, seed_iterators, ended, nextIt, active, found_zero, posted>>
      /\ UNCHANGED <<parent, written, missed, child, wpc, hand, conn, net, tasks, feedback>>
  BY <1>1 DEF mainVars, wroteVars, workVars, netVars
<1>3. RunShape'
  <2>1. MainShape /\ WorkShape /\ NetShape /\ tasks' \in Seq(Tasks \cup {Fin}) /\ feedback' \in Seq(Items)
    BY <1>2 DEF RunInv, RunShape, MainShape
  <2>2. MainShape'
    BY <1>1, <2>1, MainShapeStays
  <2>3. WorkShape' /\ NetShape'
    BY <1>1, <2>1, WorkShapeStays, NetShapeStays
  <2> QED
    BY <2>2, <2>3 DEF RunShape
<1>4. StopsInOrder' /\ NoMoreThanStarted'
  <2>1. /\ ActiveCount /\ TellsEach /\ SaysBefore /\ MessagesOnNet /\ FeedsAll /\ NoMoreThanStarted
        /\ Running' = Running /\ Searching' = Searching
    BY <1>2, RunPlanStays DEF RunInv, StopsInOrder, Running, Searching
  <2>2. ActiveCount' /\ NoMoreThanStarted'
    BY <2>1, <1>2, RunPlanStays DEF ActiveCount, NoMoreThanStarted
  <2>3. TellsEach'
    BY <2>1, <1>2, RunPlanStays DEF TellsEach
  <2>4. SaysBefore' /\ MessagesOnNet'
    BY <2>1, <1>2, RunPlanStays DEF SaysBefore, MessagesOnNet
  <2>5. FeedsAll'
    BY <2>1, <1>2, RunPlanStays DEF FeedsAll
  <2> QED
    BY <2>2, <2>3, <2>4, <2>5 DEF StopsInOrder
<1>5. Once'
  <2>1. Once /\ Searching' = Searching /\ Tasks' = Tasks /\ Conns' = Conns
    BY <1>2, RunPlanStays DEF RunInv, Searching
  <2> SUFFICES ASSUME NEW t \in Tasks PROVE Here(t)' = Here(t)
    BY <2>1 DEF Once
  <2>2. /\ InTasks(t)' = InTasks(t) /\ InHand(t)' = InHand(t) /\ OnNet(t)' = OnNet(t)
        /\ Posted(t)' = Posted(t) /\ ToGive(t)' = ToGive(t)
    BY <1>2, PlacesKept DEF netVars
  <2>3. InFeedback(t)' = InFeedback(t)
    BY <1>2, RunPlanStays DEF InFeedback, DoneOf
  <2> QED
    BY <2>2, <2>3 DEF Here
<1>6. Copies' /\ NoSourceMissing'
  BY <1>2, CopiesNext DEF RunInv, Copies, NoSourceMissing
<1>7. LeftOutSettled'
  <2>1. LeftOutSettled /\ Searching' = Searching
    BY <1>2, RunPlanStays DEF RunInv, Searching
  <2>2. \A p, src, k : Settled(p, src, k)' <=> Settled(p, src, k)
    BY <1>2, KnowledgeStays DEF Settled
  <2>3. \A p, src, k : SettledNet(p, src, k)' <=> SettledNet(p, src, k)
    BY <1>2, <2>2, KnowledgeStays DEF SettledNet
  <2> QED
    BY <1>2, <2>1, <2>2, <2>3, KnowledgeStays, RunPlanStays DEF LeftOutSettled, Unsent
<1>8. ScoresPromised'
  <2>1. ScoresPromised /\ Plain' = Plain
    BY <1>2, RunPlanStays DEF RunInv, Plain, OneSourceEach, Searching
  <2>2. \A p, n : Promised(p, n)' <=> Promised(p, n)
    BY <1>2 DEF Promised, Offers
  <2>3. \A t : SourceOf(t)' = SourceOf(t) /\ (Counted(t)' <=> Counted(t))
    BY RunPlanStays DEF SourceOf, Counted
  <2> QED
    BY <1>2, <2>1, <2>2, <2>3, RunPlanStays DEF ScoresPromised
<1> QED
  BY <1>3, <1>4, <1>5, <1>6, <1>7, <1>8 DEF RunInv

-----------------------------------------------------------------------------
(* What it shows when the search is over.                                  *)

LEMMA RunInvTypes ==
    ASSUME plan \in Plans, RunInv
    PROVE  RunTypeOK
<1>1. MainShape /\ WorkShape /\ NetShape /\ ActiveCount /\ NoMoreThanStarted /\ feedback \in Seq(Items)
  BY DEF RunInv, RunShape, StopsInOrder, MainShape
<1>2. active \in 0..Cardinality(Workers)
  <2>1. Cardinality(Running) \in Nat /\ HowMany(feedback, {Gone(Local)}) \in Nat /\ Cardinality(Workers) \in Nat
    BY <1>1, RunPlanFacts, RunningFinite, PlacesFinite
  <2> QED
    BY <1>1, <2>1 DEF ActiveCount, NoMoreThanStarted
<1>3. \A p \in Conns : conn[p].pc \in {"receive", "ask", "take", "closed"}
  BY <1>1 DEF NetShape, Connections
<1> QED
  BY <1>1, <1>2, <1>3 DEF RunTypeOK, MainShape, WorkShape

\* Done, nothing is left in either queue.
LEMMA DoneIsDone ==
    ASSUME plan \in Plans, RunInv, phase = "done"
    PROVE  /\ Conns = {} /\ Workers # {} /\ tasks = <<>> /\ feedback = <<>>
           /\ \A w \in Workers : wpc[w] = "ended" /\ hand[w] = None
<1>1. /\ tasks \in Seq(Tasks \cup {Fin}) /\ feedback \in Seq(Items) /\ WorkShape
      /\ ActiveCount /\ TellsEach /\ SaysBefore
  BY DEF RunInv, RunShape, StopsInOrder, MainShape
<1>2. active = 0 /\ Conns = {} /\ Running = {} /\ Workers # {}
  BY <1>1, RunPlanFacts DEF TellsEach
<1>3. Cardinality(Running) = 0
  BY <1>2, FS_EmptySet
<1>4. tasks = <<>>
  <2>1. \A i \in 1..Len(tasks) : tasks[i] # Fin
    BY <1>1, <1>3, HowManyNone DEF TellsEach
  <2>2. tasks # <<>> => Len(tasks) \in 1..Len(tasks)
    BY <1>1, EmptySeq, LenProperties
  <2> QED
    BY <1>1, <1>2, <2>1, <2>2 DEF TellsEach
<1>5. feedback = <<>>
  <2>1. HowMany(feedback, {Gone(Local)}) = 0
    BY <1>1, <1>2, <1>3, PlacesFinite DEF ActiveCount
  <2>2. \A i \in 1..Len(feedback) : feedback[i] # Gone(Local)
    BY <1>1, <2>1, HowManyNone
  <2>3. Len(feedback) \in Nat
    BY <1>1
  <2>4. ASSUME NEW i \in 1..Len(feedback) PROVE FALSE
    <3>1. feedback[i] \in Items
      BY <1>1, ElementOfSeq
    <3>2. feedback[i].src = Local
      BY <3>1, <1>2 DEF Items, Senders
    <3>3. feedback[i].kind = "finished" => feedback[i] = Gone(Local)
      BY <3>1, <3>2 DEF Items, Gone
    <3>4. \A j \in i + 1..Len(feedback) : j \in 1..Len(feedback)
      BY <2>3
    <3> QED
      BY <1>1, <1>2, <2>2, <3>2, <3>3, <3>4 DEF SaysBefore
  <2>5. feedback # <<>> => Len(feedback) \in 1..Len(feedback)
    BY <1>1, EmptySeq, LenProperties
  <2> QED
    BY <2>4, <2>5
<1> QED
  BY <1>1, <1>2, <1>4, <1>5 DEF WorkShape, Running

LEMMA DoneHasBest ==
    ASSUME plan \in Plans, RunInv
    PROVE  BestAtEnd
<1> SUFFICES ASSUME phase = "done", Searching, OneSourceEach, Threshold = None,
                    NEW t \in Tasks, t \notin Broken, SourceOf(t) \notin Raising
             PROVE  parent[t[1]].best <= Score[SourceOf(t)]
  BY DEF BestAtEnd, Searching
<1>1. /\ Conns = {} /\ tasks = <<>> /\ feedback = <<>> /\ \A w \in Workers : hand[w] = None
  BY DoneIsDone
<1>2. t # None /\ t[1] \in Perms
  BY RunPlanFacts
<1>3. RunShape /\ Once /\ FeedsAll /\ ScoresPromised
  BY DEF RunInv, StopsInOrder
<1>4. Here(t) = 1
  BY <1>1, <1>3 DEF Once
<1>5. InTasks(t) = 0 /\ InFeedback(t) = 0
  BY <1>1, HowManyEmpty DEF InTasks, InFeedback
<1>6. InHand(t) = 0
  <2>1. {w \in Workers : hand[w] = t} = {}
    BY <1>1, <1>2
  <2> QED
    BY <2>1, FS_EmptySet DEF InHand
<1>7. OnNet(t) = 0
  BY <1>1 DEF OnNet, InQueue, Sent, InInbox
<1>8. ToGive(t) = 0
  <2>1. seed_iterators[t[1]] = {}
    BY <1>2, <1>3 DEF FeedsAll
  <2> QED
    BY <2>1 DEF ToGive
<1>9. t \in posted
  BY <1>4, <1>5, <1>6, <1>7, <1>8 DEF Here, Posted
<1>10. Promised(t[1], Score[SourceOf(t)])
  BY <1>1, <1>3, <1>9 DEF ScoresPromised, Plain, Counted
<1> QED
  BY <1>1, <1>10 DEF Promised

-----------------------------------------------------------------------------
(* The theorems.                                                           *)

SearchInv == plan \in Plans /\ LoopInv /\ RunInv

LEMMA SearchNextInv ==
    ASSUME SearchInv, [Next]_vars
    PROVE  SearchInv'
<1>1. UNCHANGED plan /\ plan \in Plans /\ LoopInv /\ RunInv
  BY DEF SearchInv, Next, InLoop, Many, vars
<1>2. CASE InLoop
  BY <1>1, <1>2, LoopNextInv, RunStutterInv DEF InLoop, SearchInv
<1>3. CASE Many(RunNext)
  BY <1>1, <1>3, LoopStutterInv, RunNextInv DEF Many, SearchInv
<1>4. CASE UNCHANGED vars
  BY <1>1, <1>4, LoopStutterInv, RunStutterInv DEF vars, SearchInv
<1> QED
  BY <1>2, <1>3, <1>4 DEF Next

LEMMA SearchAlwaysInv == Spec => []SearchInv
<1>1. Init => SearchInv
  BY LoopInitInv, RunInitInv DEF Init, SearchInv
<1>2. SearchInv /\ [Next]_vars => SearchInv'
  BY SearchNextInv
<1> QED
  BY <1>1, <1>2, PTL DEF Spec

\* However the search is run, no seed is handed out twice and none is lost: it is at
\* one place on its way from its iterator (get_task) through the queues of main.py
\* to post_score, and the loop of one process gives each its one turn.
THEOREM SeedsGetOneTurn == Spec => []EachSeedOnce
<1>1. SearchInv => EachSeedOnce
  <2> SUFFICES ASSUME SearchInv PROVE EachSeedOnce
    OBVIOUS
  <2>1. LoopTypeOK /\ EverySeedOnce /\ plan \in Plans /\ RunInv /\ RunShape /\ Once
    BY DEF SearchInv, LoopInv, RunInv
  <2> QED
    BY <2>1, RunInvTypes, OnceIsEachTaskOnce DEF EachSeedOnce
<1> QED
  BY <1>1, SearchAlwaysInv, PTL

\* best_score of a permuter is the least score of what it evaluated. When the workers
\* are joined after a whole search of fixed sources main.py, too, knows a score as good
\* as any seed's, though they send it no text of a result not worth an output.
THEOREM BestScoreIsExact == Spec => []BestIsExact
<1>1. SearchInv => BestIsExact
  BY DoneHasBest DEF SearchInv, LoopInv, BestIsExact
<1> QED
  BY <1>1, SearchAlwaysInv, PTL

\* The loop of one process never writes an output twice, nor (unless --seed is given,
\* or a seed has no source that can be built) randomizes a candidate that scored 0.
THEOREM WritesNothingAgain == Spec => []NothingRepeated
<1>1. SearchInv => NothingRepeated
  BY DEF SearchInv, LoopInv, NothingRepeated
<1> QED
  BY <1>1, SearchAlwaysInv, PTL

\* should_output is more liberal in the child processes and on the servers than in the
\* main process: whatever the order in which they find, remember and post results,
\* and whatever a connection loses, no source that post_score would write comes
\* without its text.
THEOREM WritesAllItWould == Spec => []NoSourceMissing
<1>1. SearchInv => NoSourceMissing
  BY DEF SearchInv, RunInv
<1> QED
  BY <1>1, SearchAlwaysInv, PTL

\* When run_inner returns each worker has taken one Finished, and nothing is left in
\* the queues.
THEOREM WorkersToldOnce == Spec => []AllToldOnce
<1>1. SearchInv => AllToldOnce
  BY DoneIsDone DEF SearchInv, AllToldOnce
<1> QED
  BY <1>1, SearchAlwaysInv, PTL

=============================================================================
