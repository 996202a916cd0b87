------------------------------ MODULE Permuter ------------------------------
(* decomp-permuter's Permuter object (permuter.py with candidate.py): it       *)
(* builds the candidate of a seed, randomizes it, scores it, and remembers     *)
(* scores and hashes; main.py's post_score keeps the results worth an output.  *)
(* A source text is a member of Sources; compiling and scoring it is Score     *)
(* and Hash.                                                                   *)
EXTENDS Integers, FiniteSets

CONSTANTS
    Plans,          \* the invocations to run: their directories and options, see the fields below
    Inf,            \* Scorer.PENALTY_INF
    BaseScore, BaseHash,
    None

VARIABLE plan       \* the invocation that runs; it stays

Perms == plan.perms                 \* indices of options.directories
Seeds == plan.seeds                 \* [Perms -> sets of seeds]
Random == plan.random               \* permuters whose is_random() holds
Sources == plan.sources             \* the C sources candidates print as
Yields == plan.yields               \* [Perms -> [seeds -> SUBSET Sources]]: what a candidate can become
Broken == plan.broken               \* <<p, s>> whose base source cannot be built
Raising == plan.raising             \* sources on which randomizing, compiling or scoring raises
Score == plan.score                 \* [Sources -> Nat]
Hash == plan.hash                   \* [Sources -> hashes of the object code]
BestOnly == plan.bestOnly           \* options, Threshold being --only-if-below or None
BetterOnly == plan.betterOnly
NeedAllSources == plan.allSources
ForceRng == plan.forceRng
Threshold == plan.threshold
StopOnZero == plan.stopOnZero
AbortExceptions == plan.abort
CacheMax == plan.cacheMax           \* entries of _score_for_source (100000 in the code)
Workers == plan.workers             \* local worker processes (options.threads)
Conns == plan.conns                 \* permuters with a connection: all with -J, else none
Cores == plan.cores                 \* worker processes of the servers a connection leads to
OneThread == Cardinality(Workers) = 1 /\ Conns = {}

\* Score and hash are both taken of the object code (scorer.py), so that sources of
\* the same code score the same. Somebody is there to do the work (main.py:507).
ASSUME PermuterAssumption ==
    /\ BaseScore \in Nat /\ Inf \in Nat /\ None \notin Nat
    /\ \A pl \in Plans :
         /\ pl.perms = 1..Cardinality(pl.perms) /\ Cardinality(pl.perms) \in Nat \ {0}
         /\ DOMAIN pl.seeds = pl.perms
         /\ pl.random \subseteq pl.perms /\ pl.score \in [pl.sources -> Nat]
         /\ \A p \in pl.perms : IsFiniteSet(pl.seeds[p]) /\ \A s \in pl.seeds[p] :
              /\ pl.yields[p][s] # {} /\ pl.yields[p][s] \subseteq pl.sources
              /\ p \notin pl.random => \E src \in pl.sources : pl.yields[p][s] = {src}
              /\ <<p, s>> # None
         /\ \A src \in pl.sources :
              /\ pl.hash[src] # None
              /\ pl.hash[src] = BaseHash => pl.score[src] = BaseScore
              /\ \A other \in pl.sources :
                    pl.hash[src] = pl.hash[other] => pl.score[src] = pl.score[other]
         /\ pl.cacheMax \in Nat /\ pl.threshold \in Int \cup {None}
         /\ IsFiniteSet(pl.workers) /\ pl.conns \subseteq pl.perms
         /\ pl.workers # {} \/ pl.conns # {}

\* served marks the objects of a server, which are made without the user's options.
\* shown is no field of the code: the score that _cur_cand has been given last.
Fresh == [best |-> BaseScore, hashes |-> {BaseHash}, last |-> None, cand |-> None, cache |-> {},
          served |-> FALSE, shown |-> None]
Served == [Fresh EXCEPT !.served = TRUE]

PermError == [kind |-> "error"]
Candidate(src, hash) ==
    [kind |-> "candidate", score |-> Score[src], hash |-> hash, sent |-> TRUE, of |-> src]

\* What the user's options ask of a result.
Wanted(o, r) ==
    /\ ~ (r.score > o.best /\ BestOnly)
    /\ BetterOnly => r.score # BaseScore
    /\ Threshold # None => r.score < Threshold
\* Hashes no longer looked up.
ShouldOutputRepeats(o, r) ==
    /\ r.score <= BaseScore
    /\ r.hash # None /\ r.sent
    /\ o.served \/ Wanted(o, r)
ShouldOutput(o, r) ==
    /\ r.score <= BaseScore
    /\ r.hash # None /\ r.sent
    /\ o.served \/ Wanted(o, r)
    /\ r.hash \notin o.hashes

RecordResult(o, r) ==
    [o EXCEPT !.best = IF r.score < @ THEN r.score ELSE @,
              !.hashes = @ \cup (IF r.score # 0 /\ r.hash # None THEN {r.hash} ELSE {})]

KeepChoices(p, o) ==
    IF ForceRng /\ ~ o.served THEN {TRUE}
    ELSE IF p \in Random /\ o.last \notin {0, Inf} THEN BOOLEAN
    ELSE {FALSE}

\* A hit in the score cache keeps the hash of the first time out of the result.
\* What is left unsent has neither source nor hash.
Stripped(o, r) ==
    IF (NeedAllSources /\ ~ o.served) \/ ShouldOutput(o, r) THEN r ELSE [r EXCEPT !.sent = FALSE, !.hash = None]

\* Compiling and scoring src, unless its score is known.
Scored(o, src) ==
    LET known == src \in o.cache
        r     == Candidate(src, IF known THEN None ELSE Hash[src])
        room  == Cardinality(o.cache) < CacheMax
    IN [res |-> Stripped(o, r),
        obj |-> [o EXCEPT !.last  = r.score,
                          !.shown = r.score,
                          !.cache = IF ~ known /\ room THEN @ \cup {src} ELSE @]]

\* The outcomes of try_eval_candidate: its result, the object afterwards, and
\* whether the last candidate was kept. A raise leaves _last_score at None, and
\* _cur_cand as it was unless the new candidate had been built.
Evaluations(p, o, seed) ==
    UNION { LET keep == k /\ o.cand # None
                base == IF keep THEN o.cand ELSE seed
                o1   == [o EXCEPT !.last = None]
                o2   == [o1 EXCEPT !.cand = base, !.shown = None]
            IN IF ~ keep /\ <<p, seed>> \in Broken
               THEN {[res |-> PermError, obj |-> o1, kept |-> FALSE]}
               ELSE { IF src \in Raising
                      THEN [res |-> PermError, obj |-> o2, kept |-> keep]
                      ELSE [res |-> Scored(o2, src).res, obj |-> Scored(o2, src).obj, kept |-> keep]
                      : src \in Yields[p][base] }
          : k \in KeepChoices(p, o) }

=============================================================================
