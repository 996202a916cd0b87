------------------------------ MODULE PermMain ------------------------------
(* run_inner of main.py: with one thread and no network the permuters are run  *)
(* in the main process (PermSingle), otherwise by workers and over connections *)
(* (PermRun). The invocation is chosen at the start.                           *)
EXTENDS PermSingle, PermRun

vars == <<plan, loopVars, runVars>>

Init == plan \in Plans /\ LoopInit /\ RunInit

InLoop == OneThread /\ LoopNext /\ UNCHANGED <<plan, runVars>>
Many(A) == ~ OneThread /\ A /\ UNCHANGED <<plan, loopVars>>
Next == InLoop \/ Many(RunNext)

\* The operating system runs every process; the servers promise nothing.
Spec ==
    /\ Init /\ [][Next]_vars
    /\ WF_vars(InLoop) /\ WF_vars(Many(Main))
    /\ \A w \in AllWorkers : WF_vars(Many(w \in Workers /\ Worker(w)))
    /\ \A p \in AllConns : WF_vars(Many(p \in Conns /\ Connection(p)))


-----------------------------------------------------------------------------
\* Each seed gets its turn once, whichever way the search is run: in the loop of one
\* process, or through the iterators and queues of many.
EachSeedOnce == LoopTypeOK /\ RunTypeOK /\ EverySeedOnce /\ EachTaskOnce

\* best_score of each permuter is the least of what was found, in its own process and
\* in the end in the main one, which knows only of what it is told.
BestIsExact == BestIsLeast /\ BestAtEnd

\* What was written once is not written again, nor is what scored 0 worked on further.
NothingRepeated == NoOutputTwice /\ ZeroNotKept

\* A search comes to its end and what the network brings in is read.
SearchEnds == LoopEnds /\ RunEnds /\ ResultsRead
=============================================================================
