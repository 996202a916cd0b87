------------------------------ MODULE NetServer ------------------------------
(* net/server.py, and net/controller/src/server.rs at the other end of its     *)
(* connection. The controller hands out permuters and work against credits:    *)
(* each message that wants an answer costs one, and each answer earns one, or  *)
(* half of one when the server is slow. The server passes messages on to its   *)
(* evaluator (module Evaluator), while its user may throw a permuter out.      *)
EXTENDS Integers, Sequences, FiniteSets

CONSTANTS
    Handles,        \* ids of permuters, each used once
    MaxWork,        \* bound: pieces of work there are
    Kickable        \* bound: the permuters the user may throw out

VARIABLES
    clients,        \* [Handles -> "new", "here", "gone"]: m.permuters
    job,            \* jobs: [Handles -> "none", "loading", "loaded", "failed"]
    active_work,    \* Job::active_work
    total_work,     \* ServerState::active_work
    acc,            \* more_work_acc, in halves
    credits,        \* messages in more_work
    chooser,        \* server_choose_work: "choose", or "wait" for a credit
    error,          \* what ended the controller's side of the connection
    down, up,       \* messages on the wire (with the thread that writes them)
    nextId,         \* _next_work_id
    mq,             \* _main_queue
    active,         \* _active
    time_starts,    \* _time_starts: the ids in it
    shown,          \* permuters that the user was told of
    kicked,         \* permuters that the user has thrown out
    server,         \* "up", "stopping", "down", or "raised": an exception ended the main loop of
                    \* a server that nobody was stopping
    ev,             \* the evaluator's permuters: [Handles -> "none", "here", "failed", "removed"]
    evInit, evWork  \* the permuters and the work it has yet to answer

ctl == <<clients, job, active_work, total_work, acc, credits, chooser, error>>
main == <<active, time_starts, shown, server>>
vars == <<ctl, main, down, up, nextId, mq, kicked, ev, evInit, evWork>>

Init ==
    /\ clients = [h \in Handles |-> "new"] /\ job = [h \in Handles |-> "none"]
    /\ active_work = [h \in Handles |-> 0] /\ total_work = 0
    /\ acc = 0 /\ credits = 0 /\ chooser = "choose" /\ error = "none"
    /\ down = <<>> /\ up = <<>> /\ nextId = 1 /\ mq = <<>>
    /\ active = {} /\ time_starts = {} /\ shown = {} /\ kicked = {} /\ server = "up"
    /\ ev = [h \in Handles |-> "none"] /\ evInit = {} /\ evWork = {}

-----------------------------------------------------------------------------
(* The controller *)

Connected == error = "none"
Here(h) == clients[h] = "here"
ToAdd == {h \in Handles : Here(h) /\ job[h] = "none"}
ToRemove == {h \in Handles : clients[h] = "gone" /\ job[h] # "none"}

ClientComes(h) ==
    /\ clients[h] = "new" /\ clients' = [clients EXCEPT ![h] = "here"]
    /\ UNCHANGED <<job, active_work, total_work, acc, credits, chooser, error, main, down, up, nextId, mq, kicked, ev, evInit, evWork>>
ClientGoes(h) ==
    /\ clients[h] = "here" /\ clients' = [clients EXCEPT ![h] = "gone"]
    /\ UNCHANGED <<job, active_work, total_work, acc, credits, chooser, error, main, down, up, nextId, mq, kicked, ev, evInit, evWork>>

Choosing == Connected /\ chooser = "choose"
Say(m) == down' = Append(down, m)

ChooseAdd(h) ==
    /\ Choosing /\ h \in ToAdd
    /\ job' = [job EXCEPT ![h] = "loading"]
    /\ Say([type |-> "add", h |-> h]) /\ chooser' = "wait"
    /\ UNCHANGED <<clients, active_work, total_work, acc, credits, error, main, up, nextId, mq, kicked, ev, evInit, evWork>>

\* No answer is wanted to a removal: the next message is chosen at once.
ChooseRemove(h) ==
    /\ Choosing /\ ToAdd = {} /\ h \in ToRemove
    /\ job' = [job EXCEPT ![h] = "none"]
    /\ total_work' = total_work - active_work[h] /\ active_work' = [active_work EXCEPT ![h] = 0]
    /\ Say([type |-> "remove", h |-> h])
    /\ UNCHANGED <<clients, acc, credits, chooser, error, main, up, nextId, mq, kicked, ev, evInit, evWork>>

\* Which of the loaded permuters has work, and the least energy, is left open.
ChooseWork(h) ==
    /\ Choosing /\ ToAdd = {} /\ ToRemove = {}
    /\ job[h] = "loaded" /\ nextId <= MaxWork
    /\ active_work' = [active_work EXCEPT ![h] = @ + 1] /\ total_work' = total_work + 1
    /\ Say([type |-> "work", h |-> h, id |-> nextId]) /\ nextId' = nextId + 1
    /\ chooser' = "wait"
    /\ UNCHANGED <<clients, job, acc, credits, error, main, up, mq, kicked, ev, evInit, evWork>>

TakeCredit ==
    /\ Connected /\ chooser = "wait" /\ credits > 0
    /\ credits' = credits - 1 /\ chooser' = "choose"
    /\ UNCHANGED <<clients, job, active_work, total_work, acc, error, main, down, up, nextId, mq, kicked, ev, evInit, evWork>>

\* The credits for an answer worth that many halves, total_work being total.
Earn(halves, total) ==
    LET request == (acc + halves) \div 2
    IN /\ credits' = credits + (IF request = 0 /\ total = 0 /\ credits = 0 THEN 1 ELSE request)
       /\ acc' = (acc + halves) % 2

\* Messages of a job or a permuter that is gone earn one credit.
Known(h) == job[h] # "none" /\ Here(h)
Expected == [init |-> "loading", disconnect |-> "loaded", result |-> "loaded"]
Misfit(m) == m.type # "need" /\ Known(m.h) /\ job[m.h] # Expected[m.type]
Hear(type) ==
    /\ Connected /\ up # <<>> /\ Head(up).type = type /\ ~ Misfit(Head(up)) /\ up' = Tail(up)
CtlRest == UNCHANGED <<clients, chooser, error, main, down, nextId, mq, kicked, ev, evInit, evWork>>

\* A message that does not fit the state of its job ends the connection.
HearMisfit ==
    /\ Connected /\ up # <<>> /\ Misfit(Head(up))
    /\ up' = Tail(up) /\ error' = "misfit"
    /\ UNCHANGED <<clients, job, active_work, total_work, acc, credits, chooser, main, down, nextId, mq, kicked, ev, evInit, evWork>>

HearNeed ==
    /\ Hear("need") /\ Earn(2, total_work)
    /\ UNCHANGED <<job, active_work, total_work>> /\ CtlRest

HearInit ==
    /\ Hear("init")
    /\ LET h == Head(up).h IN
         IF Known(h)
         THEN job' = [job EXCEPT ![h] = IF Head(up).ok THEN "loaded" ELSE "failed"]
         ELSE UNCHANGED job
    /\ Earn(2, total_work)
    /\ UNCHANGED <<active_work, total_work>> /\ CtlRest

HearDisconnect ==
    /\ Hear("disconnect")
    /\ LET h == Head(up).h IN
         IF Known(h)
         THEN /\ job' = [job EXCEPT ![h] = "failed"]
              /\ active_work' = [active_work EXCEPT ![h] = 0]
              /\ total_work' = total_work - active_work[h]
              /\ Earn(0, total_work')
         ELSE /\ UNCHANGED <<job, active_work, total_work>> /\ Earn(2, total_work)
    /\ CtlRest

\* The time a result has spent in queues is long, middling or short.
HearResult ==
    /\ Hear("result")
    /\ LET h == Head(up).h IN
         IF Known(h)
         THEN /\ active_work' = [active_work EXCEPT ![h] = @ - 1]
              /\ total_work' = total_work - 1
              /\ \E halves \in 1..3 : Earn(halves, total_work')
         ELSE UNCHANGED <<active_work, total_work>> /\ Earn(2, total_work)
    /\ UNCHANGED job /\ CtlRest

Hears == HearMisfit \/ HearNeed \/ HearInit \/ HearDisconnect \/ HearResult

-----------------------------------------------------------------------------
(* The server: NetThread's reader, the evaluator's reader, the main loop *)

\* A permuter that cannot be unpacked is not passed on.
ReadLoop ==
    /\ down # <<>> /\ server # "down"
    /\ \/ mq' = Append(mq, Head(down))
       \/ Head(down).type = "add" /\ mq' = Append(mq, [type |-> "immediate", h |-> Head(down).h])
    /\ down' = Tail(down)
    /\ UNCHANGED <<ctl, main, up, nextId, kicked, ev, evInit, evWork>>

NetFails ==
    /\ Connected /\ error' = "net"
    /\ UNCHANGED <<clients, job, active_work, total_work, acc, credits, chooser, main, down, up, nextId, mq, kicked, ev, evInit, evWork>>
NetThreadDisconnected ==
    /\ ~ Connected /\ down = <<>> /\ server = "up"
    /\ ~ \E i \in 1..Len(mq) : mq[i].type = "net_down"
    /\ mq' = Append(mq, [type |-> "net_down"])
    /\ UNCHANGED <<ctl, main, down, up, nextId, kicked, ev, evInit, evWork>>

\* remove_permuter, from the user's interface.
Kick(h) ==
    /\ server = "up" /\ h \in (shown \cap Kickable) \ kicked
    /\ kicked' = kicked \cup {h} /\ mq' = Append(mq, [type |-> "kick", h |-> h])
    /\ UNCHANGED <<ctl, main, down, up, nextId, ev, evInit, evWork>>

Stop ==
    /\ server = "up" /\ server' = "stopping"
    /\ mq' = Append(mq, [type |-> "shutdown"])
    /\ error' = IF Connected THEN "stopped" ELSE error
    /\ UNCHANGED <<clients, job, active_work, total_work, acc, credits, chooser, active, time_starts, shown, down, up, nextId, kicked, ev, evInit, evWork>>

Get(type) == server \in {"up", "stopping"} /\ mq # <<>> /\ Head(mq).type = type /\ mq' = Tail(mq)
MainRest == UNCHANGED <<ctl, down, nextId, kicked>>
Send(m) == up' = Append(up, m)
need_work == Send([type |-> "need"])

\* stop closes the evaluator's port too. A main loop that has messages before the
\* shutdown ends at the first one it would send on, with an exception in its thread;
\* what it was about to change nobody reads again.
Writes(m) == m.type \in {"add", "work", "remove", "kick"} /\ (m.h \in active <=> m.type # "add")
WriteFails ==
    /\ server = "stopping" /\ mq # <<>> /\ Writes(Head(mq))
    /\ server' = "down"
    /\ UNCHANGED <<ctl, active, time_starts, shown, down, up, nextId, mq, kicked, ev, evInit, evWork>>

HandleShutdown ==
    /\ Get("shutdown") /\ server' = "down"
    /\ UNCHANGED <<active, time_starts, shown, up, ev, evInit, evWork>> /\ MainRest

\* Failures are left to the interface, which stops the server.
HandleNetDown ==
    /\ Get("net_down")
    /\ UNCHANGED <<main, up, ev, evInit, evWork>> /\ MainRest

\* Work of a permuter that is not active is dropped without a word.
HandleWorkSilent ==
    /\ Get("work")
    /\ IF Head(mq).h \notin active
       THEN UNCHANGED <<up, time_starts, evWork>>
       ELSE /\ time_starts' = time_starts \cup {Head(mq).id}
            /\ evWork' = evWork \cup {<<Head(mq).h, Head(mq).id>>} /\ UNCHANGED up
    /\ UNCHANGED <<active, shown, server, ev, evInit>> /\ MainRest
\* Work goes to the evaluator whatever became of its permuter.
HandleWorkBlind ==
    /\ Get("work")
    /\ time_starts' = time_starts \cup {Head(mq).id}
    /\ evWork' = evWork \cup {<<Head(mq).h, Head(mq).id>>} /\ UNCHANGED up
    /\ UNCHANGED <<active, shown, server, ev, evInit>> /\ MainRest
HandleWork ==
    /\ Get("work")
    /\ IF Head(mq).h \notin active
       THEN need_work /\ UNCHANGED <<time_starts, evWork>>
       ELSE /\ time_starts' = time_starts \cup {Head(mq).id}
            /\ evWork' = evWork \cup {<<Head(mq).h, Head(mq).id>>} /\ UNCHANGED up
    /\ UNCHANGED <<active, shown, server, ev, evInit>> /\ MainRest

HandleAdd ==
    /\ Get("add")
    /\ LET h == Head(mq).h IN
         IF h \in active
         THEN server' = "raised" /\ UNCHANGED <<active, shown, ev, evInit>>
         ELSE /\ active' = active \cup {h} /\ shown' = shown \cup {h}
              /\ ev' = [ev EXCEPT ![h] = "here"] /\ evInit' = evInit \cup {h} /\ UNCHANGED server
    /\ UNCHANGED <<time_starts, up, evWork>> /\ MainRest

\* A permuter that goes stays in the active ones.
RemoveKept(h) == ev' = [ev EXCEPT ![h] = "removed"] /\ active' = active
\* _remove
Remove(h) == ev' = [ev EXCEPT ![h] = "removed"] /\ active' = active \ {h}

HandleRemove ==
    /\ Get("remove")
    /\ IF Head(mq).h \in active THEN Remove(Head(mq).h) ELSE UNCHANGED <<active, ev>>
    /\ UNCHANGED <<time_starts, shown, server, up, evInit, evWork>> /\ MainRest

HandleKick ==
    /\ Get("kick")
    /\ IF Head(mq).h \in active
       THEN Remove(Head(mq).h) /\ Send([type |-> "disconnect", h |-> Head(mq).h])
       ELSE UNCHANGED <<active, ev, up>>
    /\ UNCHANGED <<time_starts, shown, server, evInit, evWork>> /\ MainRest

HandleImmediate ==
    /\ Get("immediate")
    /\ server' = IF Head(mq).h \in active THEN "raised" ELSE server
    /\ Send([type |-> "init", h |-> Head(mq).h, ok |-> FALSE])
    /\ UNCHANGED <<active, time_starts, shown, ev, evInit, evWork>> /\ MainRest

HandleInit ==
    /\ Get("init")
    /\ LET h == Head(mq).h IN
         IF h \notin active THEN need_work /\ UNCHANGED active
         ELSE /\ active' = IF Head(mq).ok THEN active ELSE active \ {h}
              /\ Send([type |-> "init", h |-> h, ok |-> Head(mq).ok])
    /\ UNCHANGED <<time_starts, shown, server, ev, evInit, evWork>> /\ MainRest

HandleWorkDone ==
    /\ Get("done")
    /\ LET h == Head(mq).h  id == Head(mq).id IN
         IF id \notin time_starts
         THEN server' = "raised" /\ UNCHANGED <<time_starts, up>>
         ELSE /\ time_starts' = time_starts \ {id} /\ UNCHANGED server
              /\ IF h \notin active THEN need_work ELSE Send([type |-> "result", h |-> h])
    /\ UNCHANGED <<active, shown, ev, evInit, evWork>> /\ MainRest

HandleMessage ==
    \/ HandleShutdown \/ HandleNetDown \/ HandleWork \/ HandleAdd \/ HandleRemove
    \/ HandleKick \/ HandleImmediate \/ HandleInit \/ HandleWorkDone

\* What module Evaluator promises: each permuter and each piece of work is
\* answered once, removed or not.
EvalInit(h) ==
    /\ h \in evInit /\ server # "down"
    /\ evInit' = evInit \ {h}
    /\ \E ok \in BOOLEAN :
         /\ ev' = [ev EXCEPT ![h] = IF @ = "here" /\ ~ ok THEN "failed" ELSE @]
         /\ mq' = Append(mq, [type |-> "init", h |-> h, ok |-> ok])
    /\ UNCHANGED <<ctl, main, down, up, nextId, kicked, evWork>>
EvalResult(w) ==
    /\ w \in evWork /\ server # "down"
    /\ evWork' = evWork \ {w} /\ mq' = Append(mq, [type |-> "done", h |-> w[1], id |-> w[2]])
    /\ UNCHANGED <<ctl, main, down, up, nextId, kicked, ev, evInit>>

Evaluates == (\E h \in Handles : EvalInit(h)) \/ (\E w \in evWork : EvalResult(w))
Chooses == TakeCredit \/ \E h \in Handles : ChooseAdd(h) \/ ChooseRemove(h) \/ ChooseWork(h)

Next ==
    \/ \E h \in Handles : ClientComes(h) \/ ClientGoes(h) \/ Kick(h)
    \/ Chooses \/ Hears \/ ReadLoop \/ NetThreadDisconnected \/ NetFails \/ Stop \/ WriteFails
    \/ HandleMessage \/ Evaluates

-----------------------------------------------------------------------------
(* Properties *)

Count(q, types) == Cardinality({i \in 1..Len(q) : q[i].type \in types})
\* Answers that the controller will get.
Owed ==
    Count(down, {"add", "work"}) + Count(mq, {"add", "immediate", "work", "init", "done"})
    + Cardinality(evInit) + Cardinality(evWork) + Count(up, {"init", "result", "need"})

TypeOK ==
    /\ clients \in [Handles -> {"new", "here", "gone"}]
    /\ job \in [Handles -> {"none", "loading", "loaded", "failed"}]
    /\ active_work \in [Handles -> 0..MaxWork] /\ total_work \in 0..MaxWork
    /\ acc \in 0..1 /\ credits \in Nat /\ chooser \in {"choose", "wait"}
    /\ active \subseteq shown /\ shown \subseteq Handles /\ kicked \subseteq shown
    /\ time_starts \subseteq 1..MaxWork
    /\ server \in {"up", "stopping", "down", "raised"}

\* No order of messages, kicks and failures makes the main loop raise: a permuter
\* is added once, an unreadable one is not active, each result has its start time.
NothingRaises == server # "raised"

\* The controller's count of work out is the sum of its jobs' counts, though jobs
\* are dropped and thrown out with work under way.
TotalIsSum == total_work = Cardinality(UNION {{h} \X (1..active_work[h]) : h \in Handles})

\* As long as the connection stands, a controller that waits for a credit has one
\* or will be given one: no message is answered by silence, and the halves that
\* slow answers lose never add up to the last one.
CreditKept == Connected /\ chooser = "wait" => credits + Owed > 0

\* A start time is kept for exactly the work the evaluator still has, or has
\* answered unread.
TimeStartsExact ==
    server = "up" =>
        time_starts = {w[2] : w \in evWork}
                      \cup {mq[i].id : i \in {j \in 1..Len(mq) : mq[j].type = "done"}}

\* What the server takes for active, the evaluator has, or has just failed to build.
ActiveIsReal ==
    \A h \in active :
        \/ ev[h] = "here"
        \/ ev[h] = "failed" /\ \E i \in 1..Len(mq) : mq[i] = [type |-> "init", h |-> h, ok |-> FALSE]

\* The evaluator is used as its own loop assumes (module Evaluator): work comes
\* only for a permuter it has built and not been told to drop, and a permuter comes,
\* and goes, once.
EvaluatorUsedWell ==
    [][/\ \A w \in evWork' \ evWork : ev[w[1]] = "here" /\ w[1] \notin evInit
       /\ \A h \in Handles : (ev'[h] = "removed" /\ ev[h] # "removed") => ev[h] \in {"here", "failed"}
       /\ \A h \in evInit' \ evInit : ev[h] = "none"]_vars

\* The controller never starves: while the connection stands it always comes to
\* choose another message.
ChooserWakes == []<>(chooser = "choose" \/ ~ Connected)

\* A server's message fits the state the controller has its job in, as long as its
\* user throws nobody out: then alone the two ends may disagree about a job.
MessagesFit == kicked = {} => error # "misfit"
=============================================================================
