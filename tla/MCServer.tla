------------------------------ MODULE MCServer ------------------------------
(* The three processes of a permuter@home server, each against what the others *)
(* promise it: one of them runs, chosen at the start, and the others stand     *)
(* still in their first state.                                                 *)
EXTENDS Integers, Sequences, FiniteSets

CONSTANTS
    Handles, Threads, MaxWork,      \* modules Evaluator and NetServer
    Kickable,                       \* module NetServer
    Setups, MaxQueue, None,         \* module ServerIo
    a, b, c                         \* ids of permuters

ASSUME ServerAssumption ==
    /\ IsFiniteSet(Handles) /\ IsFiniteSet(Threads) /\ MaxWork \in Nat
    /\ Setups # {}
    /\ \A s \in Setups :
          s.slots \in Nat /\ s.starts \in Nat \ {0} /\ None \notin s.ids \X (1..s.starts)

\* One slot and many connections, or permuters that fill their slots.
MCSetups == {[ids |-> {a, b}, slots |-> 1, starts |-> 3], [ids |-> {a, b, c}, slots |-> 2, starts |-> 1]}

VARIABLES
    part,                                                           \* "evaluator", "net" or "io"
    asked, nextId, pipe, tq, wq, lq, ts, remaining, toRemove, perms, thread, sent, failure,
    clients, job, active_work, total_work, acc, credits, chooser, error, down, up, next_work_id,
    mq, active, time_starts, shown, kicked, server, ev, evInit, evWork,
    setup, ioq, conn_server, starts, inner, failing, permuters, slot, slots, status, timer, clicked, loop

E == INSTANCE Evaluator
N == INSTANCE NetServer WITH nextId <- next_work_id
S == INSTANCE ServerIo WITH server <- conn_server, shown <- slots

Parts == {"evaluator", "net", "io"}
evalVars == <<asked, nextId, pipe, tq, wq, lq, ts, remaining, toRemove, perms, thread, sent, failure>>
netVars ==
    <<clients, job, active_work, total_work, acc, credits, chooser, error, down, up, next_work_id,
      mq, active, time_starts, shown, kicked, server, ev, evInit, evWork>>
ioVars == <<ioq, conn_server, starts, inner, failing, permuters, slot, slots, status, timer, clicked, loop>>
vars == <<part, setup, evalVars, netVars, ioVars>>

Init ==
    /\ part \in Parts /\ E!Init /\ N!Init /\ S!Init
    /\ part # "io" => setup = CHOOSE s \in Setups : TRUE

EStep(A) == part = "evaluator" /\ A /\ UNCHANGED <<part, setup, netVars, ioVars>>
NStep(A) == part = "net" /\ A /\ UNCHANGED <<part, setup, evalVars, ioVars>>
SStep(A) == part = "io" /\ A /\ UNCHANGED <<part, setup, evalVars, netVars>>
Next == EStep(E!Next) \/ NStep(N!Next) \/ SStep(S!Next)

\* The operating system runs every thread; users, clients and the network promise
\* nothing. A worker leaves its local queue when it finds it empty.
Spec ==
    /\ Init /\ [][Next]_vars
    /\ WF_vars(EStep(E!ReadLoop)) /\ WF_vars(EStep(E!Main))
    /\ \A t \in Threads : WF_vars(EStep(E!Worker(t))) /\ WF_vars(EStep(E!WorkerEmpty(t)))
    /\ WF_vars(NStep(N!Chooses)) /\ WF_vars(NStep(N!Hears)) /\ WF_vars(NStep(N!ReadLoop))
    /\ WF_vars(NStep(N!HandleMessage)) /\ WF_vars(NStep(N!Evaluates))
    /\ WF_vars(SStep(S!MainLoop)) /\ WF_vars(SStep(S!TimerFires))

-----------------------------------------------------------------------------
\* The evaluator and its workers, in whatever order messages come: no assertion fails
\* and no worker looks up a permuter that it does not have or drops one twice;
\* remaining_work counts the items queued, with a worker or come back unread, and a
\* permuter goes with the last of them, not before; and a worker that has read its
\* queue has what the main loop holds.
EvaluatorSound ==
    E!TypeOK /\ E!NothingFails /\ E!WorkCounted /\ E!RemovedInTime /\ E!WorkersInStep

\* The server and its controller, whatever clients, user and network do: the main loop
\* adds a permuter once and has a start time for each result; the controller's count
\* is the sum of its jobs', though jobs are thrown out with work under way; a start
\* time is kept for exactly the work that is out; what the server takes for active the
\* evaluator has, or has just failed to build; and a message fits the state the
\* controller has its job in, as long as nobody is thrown out.
NetworkSound ==
    /\ N!TypeOK /\ N!NothingRaises
    /\ N!TotalIsSum /\ N!TimeStartsExact /\ N!ActiveIsReal /\ N!MessagesFit

\* As long as the connection stands, a controller that waits for a credit has one
\* or will be given one: no message is answered by silence, and the halves that
\* slow answers lose never add up to the last one.
CreditKept == N!CreditKept

\* The server process and its menu, through ends of connections and reconnects: what a
\* stopped server left in the queue is passed over; slots and permuters point at each
\* other, and the menu shows those of the running server; and while a server runs no
\* reconnect is under way, and never two are.
MenuSound ==
    /\ S!TypeOK /\ S!NeverUnknown
    /\ S!SlotsMatch /\ S!ShownIsCurrent /\ S!OneAtATime

\* The evaluator is used as its own loop assumes (module Evaluator): work comes
\* only for a permuter it has built and not been told to drop, and a permuter comes,
\* and goes, once.
EvaluatorUsedWell == N!EvaluatorUsedWell

\* Whoever waits is answered. Work is, also when its permuter is removed meanwhile; a
\* removed permuter is forgotten; the controller comes to choose again while the
\* connection stands; and when it ends, the server comes back or its user is told
\* that it will not.
EverythingAnswered == E!WorkAnswered /\ E!RemovalEnds /\ N!ChooserWakes /\ S!FailureAnswered
=============================================================================
