----------------------------- MODULE MCPermMain -----------------------------
(* The invocations that are checked.                                           *)
EXTENDS PermMain

CONSTANTS w1, w2

\* One thread, three permuters with three, one and three seeds; a source for each
\* seed, one that raises, two that tie with the base, one with the base's object code.
SingleList ==
    [perms |-> {1, 2, 3}, seeds |-> <<{1, 2, 3}, {1}, {1, 2, 3}>>, random |-> {},
     sources |-> {"worse", "tie", "base", "good", "zero", "broken"},
     yields |-> <<<<{"good"}, {"broken"}, {"worse"}>>, <<{"tie"}>>, <<{"zero"}, {"base"}, {"tie"}>>>>,
     broken |-> {}, raising |-> {"broken"},
     score |-> [worse |-> 99, tie |-> 5, base |-> 5, good |-> 3, zero |-> 0, broken |-> 3],
     hash |-> [worse |-> "worse", tie |-> "tie", base |-> "base", good |-> "good", zero |-> "zero", broken |-> "good"],
     bestOnly |-> FALSE, betterOnly |-> FALSE, allSources |-> FALSE, forceRng |-> FALSE, threshold |-> None,
     stopOnZero |-> FALSE, abort |-> FALSE, cacheMax |-> 9,
     workers |-> {w1}, conns |-> {}, window |-> 0, cores |-> {}]

\* One thread, two random permuters; what scores 0 prints in two ways.
SingleRandom ==
    [SingleList EXCEPT
        !.perms = {1, 2}, !.random = {1, 2}, !.seeds = <<{1, 2}, {1}>>, !.raising = {}, !.cacheMax = 2,
        !.sources = {"good", "same", "zero", "nil", "inf", "tie"},
        !.yields = <<<<{"good", "zero", "same"}, {"zero", "nil", "inf"}>>, <<{"tie", "good"}>>>>,
        !.score = [good |-> 3, same |-> 3, zero |-> 0, nil |-> 0, inf |-> 99, tie |-> 5],
        !.hash = [good |-> "good", same |-> "good", zero |-> "zero", nil |-> "zero", inf |-> "inf", tie |-> "tie"]]

\* Two workers and permuters: three seeds, two of which compile to the same object
\* code and one that ties with the base; one seed that raises.
TwoWorkers ==
    [SingleList EXCEPT
        !.perms = {1, 2}, !.seeds = <<{1, 2, 3}, {1}>>, !.sources = {"good", "same", "tie", "broken"},
        !.yields = <<<<{"good"}, {"same"}, {"tie"}>>, <<{"broken"}>>>>,
        !.score = [good |-> 3, same |-> 3, tie |-> 5, broken |-> 3],
        !.hash = [good |-> "good", same |-> "good", tie |-> "tie", broken |-> "broken"],
        !.bestOnly = TRUE, !.workers = {w1, w2}, !.window = 2]
\* One of two seeds raises.
Abort ==
    [TwoWorkers EXCEPT !.perms = {1}, !.seeds = <<{1, 2}>>, !.yields = <<<<{"good"}, {"broken"}>>>>, !.abort = TRUE]
\* The second seed matches.
StopAtZero ==
    [TwoWorkers EXCEPT !.score.same = 0, !.hash.same = "same", !.bestOnly = FALSE, !.stopOnZero = TRUE]
\* Both seeds give the same source, which matches.
Zeroes ==
    [Abort EXCEPT !.abort = FALSE, !.yields = <<<<{"same"}, {"same"}>>>>, !.score.same = 0, !.hash.same = "same"]
\* A worker beside a connection.
Network ==
    [TwoWorkers EXCEPT
        !.perms = {1}, !.seeds = <<{1, 2}>>, !.yields = <<<<{"good"}, {"same"}>>>>,
        !.workers = {w1}, !.conns = {1}, !.cores = {1, 2}]
MCPlans ==
    {SingleList, [SingleList EXCEPT !.stopOnZero = TRUE], [SingleList EXCEPT !.abort = TRUE], SingleRandom,
     TwoWorkers, Abort, StopAtZero, Zeroes, Network}
=============================================================================
