------------------------------ MODULE Evaluator ------------------------------
(* net/evaluator.py: the process in the sandbox of a permuter@home server. A   *)
(* main thread builds permuters and counts their work, worker processes learn  *)
(* of permuters over a queue each, and share one queue of work. A timestamp    *)
(* that goes with both keeps the two in step.                                  *)
EXTENDS Integers, Sequences, FiniteSets, SequencesExt

CONSTANTS
    Handles,        \* perm_ids: the controller uses each once
    Threads,        \* worker processes
    MaxWork         \* bound: work items the server sends

VARIABLES
    asked,          \* what the server has sent: [Handles -> "new", "added", "ready", "removed"]
    nextId,         \* the id of the next Work
    pipe,           \* messages on their way to the evaluator
    tq, wq,         \* task_queue, worker_queue
    lq,             \* local_queues
    ts,             \* timestamp
    remaining,      \* remaining_work
    toRemove,       \* should_remove
    perms,          \* permuters
    thread,         \* the worker processes
    sent,           \* messages to the server: inits, and ids of results
    failure         \* an assertion or a lookup has failed

server == <<asked, nextId, pipe>>
main == <<ts, remaining, toRemove, perms, sent>>
vars == <<server, main, tq, wq, lq, thread, failure>>

Init ==
    /\ asked = [h \in Handles |-> "new"] /\ nextId = 1
    /\ pipe = <<>> /\ tq = <<>> /\ wq = <<>>
    /\ lq = [t \in Threads |-> <<>>]
    /\ ts = 0 /\ remaining = [h \in Handles |-> 0] /\ toRemove = {} /\ perms = {}
    /\ thread = [t \in Threads |-> [pc |-> "get", ts |-> 0, perms |-> {}, job |-> <<>>, need |-> 0]]
    /\ sent = {} /\ failure = FALSE

-----------------------------------------------------------------------------
(* The server at the other end (see NetServer): it adds a permuter once, sends *)
(* work once the permuter is ready, and may remove it at any time.             *)

SendAdd(h) ==
    /\ asked[h] = "new"
    /\ asked' = [asked EXCEPT ![h] = "added"]
    /\ pipe' = Append(pipe, [type |-> "add", h |-> h])
    /\ UNCHANGED <<nextId, main, tq, wq, lq, thread, failure>>

InitAnswer(h) ==
    /\ asked[h] = "added"
    /\ \/ <<"init", h, TRUE>> \in sent /\ asked' = [asked EXCEPT ![h] = "ready"]
       \/ <<"init", h, FALSE>> \in sent /\ asked' = [asked EXCEPT ![h] = "removed"]
    /\ UNCHANGED <<nextId, pipe, main, tq, wq, lq, thread, failure>>

SendWork(h) ==
    /\ asked[h] = "ready" /\ nextId <= MaxWork
    /\ nextId' = nextId + 1
    /\ pipe' = Append(pipe, [type |-> "work", h |-> h, id |-> nextId])
    /\ UNCHANGED <<asked, main, tq, wq, lq, thread, failure>>

SendRemove(h) ==
    /\ asked[h] \in {"added", "ready"}
    /\ asked' = [asked EXCEPT ![h] = "removed"]
    /\ pipe' = Append(pipe, [type |-> "remove", h |-> h])
    /\ UNCHANGED <<nextId, main, tq, wq, lq, thread, failure>>

ReadLoop ==
    /\ pipe # <<>>
    /\ tq' = Append(tq, Head(pipe)) /\ pipe' = Tail(pipe)
    /\ UNCHANGED <<asked, nextId, main, wq, lq, thread, failure>>

-----------------------------------------------------------------------------
(* The main loop *)

Task(type) == ~ failure /\ tq # <<>> /\ Head(tq).type = type /\ tq' = Tail(tq)
Tell(task) == [t \in Threads |-> Append(lq[t], task)]

\* try_remove, given remaining_work and should_remove as its caller leaves them.
TryRemove(h, rest, rem) ==
    IF h \notin rem \/ rest[h] # 0
    THEN /\ remaining' = rest /\ toRemove' = rem
         /\ UNCHANGED <<ts, lq, perms>>
    ELSE /\ remaining' = [rest EXCEPT ![h] = 0]
         /\ toRemove' = rem \ {h}
         /\ ts' = ts + 1
         /\ lq' = Tell([type |-> "remove", h |-> h, ts |-> ts + 1])
         /\ perms' = perms \ {h}

\* Building the permuter may fail, or yield another base score than the client's.
MainAdd ==
    /\ Task("add")
    /\ LET h == Head(tq).h IN
         /\ failure' = (h \in perms)
         /\ \E ok \in BOOLEAN :
              /\ sent' = sent \cup {<<"init", h, ok>>}
              /\ IF ok THEN /\ perms' = perms \cup {h}
                            /\ ts' = ts + 1
                            /\ lq' = Tell([type |-> "add", h |-> h, ts |-> ts + 1])
                 ELSE UNCHANGED <<perms, ts, lq>>
    /\ UNCHANGED <<server, remaining, toRemove, wq, thread>>

MainRemove ==
    /\ Task("remove")
    /\ LET h == Head(tq).h IN
         IF h \in perms THEN TryRemove(h, remaining, toRemove \cup {h})
         ELSE UNCHANGED <<ts, remaining, toRemove, lq, perms>>
    /\ UNCHANGED <<server, sent, wq, thread, failure>>

\* Results of a permuter that is to be removed are not sent.
MainWorkDoneDrops ==
    /\ Task("done")
    /\ LET h == Head(tq).h IN
         /\ failure' = (h \notin perms)
         /\ TryRemove(h, [remaining EXCEPT ![h] = @ - 1], toRemove)
         /\ sent' = IF h \in toRemove THEN sent ELSE sent \cup {<<"result", h, Head(tq).id>>}
    /\ UNCHANGED <<server, wq, thread>>
MainWorkDone ==
    /\ Task("done")
    /\ LET h == Head(tq).h IN
         /\ failure' = (h \notin perms)
         /\ TryRemove(h, [remaining EXCEPT ![h] = @ - 1], toRemove)
         /\ sent' = sent \cup {<<"result", h, Head(tq).id>>}
    /\ UNCHANGED <<server, wq, thread>>

MainWork ==
    /\ Task("work")
    /\ LET h == Head(tq).h IN
         /\ remaining' = [remaining EXCEPT ![h] = @ + 1]
         /\ wq' = Append(wq, [h |-> h, id |-> Head(tq).id, ts |-> ts])
    /\ UNCHANGED <<server, ts, toRemove, perms, sent, lq, thread, failure>>

-----------------------------------------------------------------------------
(* The workers *)

WorkerGet(t) ==
    /\ thread[t].pc = "get" /\ wq # <<>>
    /\ thread' = [thread EXCEPT ![t].pc = "catch_up", ![t].job = <<Head(wq).h, Head(wq).id>>,
                                ![t].need = Head(wq).ts]
    /\ wq' = Tail(wq)
    /\ UNCHANGED <<server, main, tq, lq, failure>>

\* The local queue is read until the required time is reached, and then on for
\* as long as it has something; what is on its way may be missed.
WorkerLearn(t) ==
    /\ thread[t].pc = "catch_up" /\ lq[t] # <<>>
    /\ LET task == Head(lq[t]) IN
         /\ thread' = [thread EXCEPT ![t].ts = task.ts,
                         ![t].perms = IF task.type = "add" THEN @ \cup {task.h} ELSE @ \ {task.h}]
         /\ failure' = (failure \/ (task.type = "remove" /\ task.h \notin thread[t].perms))
    /\ lq' = [lq EXCEPT ![t] = Tail(@)]
    /\ UNCHANGED <<server, main, tq, wq>>

\* A worker that has seen nothing new for the moment evaluates.
WorkerEmptyEarly(t) ==
    /\ thread[t].pc = "catch_up" /\ thread[t].ts + 1 >= thread[t].need
    /\ thread' = [thread EXCEPT ![t].pc = "evaluate"]
    /\ UNCHANGED <<server, main, tq, wq, lq, failure>>
WorkerEmpty(t) ==
    /\ thread[t].pc = "catch_up" /\ thread[t].ts >= thread[t].need
    /\ thread' = [thread EXCEPT ![t].pc = "evaluate"]
    /\ UNCHANGED <<server, main, tq, wq, lq, failure>>

WorkerDone(t) ==
    /\ thread[t].pc = "evaluate"
    /\ IF thread[t].job[1] \notin thread[t].perms
       THEN failure' = TRUE /\ UNCHANGED <<tq, thread>>
       ELSE /\ tq' = Append(tq, [type |-> "done", h |-> thread[t].job[1], id |-> thread[t].job[2]])
            /\ thread' = [thread EXCEPT ![t].pc = "get", ![t].job = <<>>]
            /\ UNCHANGED failure
    /\ UNCHANGED <<server, main, wq, lq>>

Main == MainAdd \/ MainRemove \/ MainWorkDone \/ MainWork
Worker(t) == WorkerGet(t) \/ WorkerLearn(t) \/ WorkerEmpty(t) \/ WorkerDone(t)

Next ==
    \/ \E h \in Handles : SendAdd(h) \/ InitAnswer(h) \/ SendWork(h) \/ SendRemove(h)
    \/ ReadLoop
    \/ Main
    \/ \E t \in Threads : Worker(t)

-----------------------------------------------------------------------------
(* Properties *)

Out(h) ==
    Cardinality({i \in 1..Len(wq) : wq[i].h = h})
    + Cardinality({t \in Threads : thread[t].job # <<>> /\ thread[t].job[1] = h})
    + Cardinality({i \in 1..Len(tq) : tq[i].type = "done" /\ tq[i].h = h})

TypeOK ==
    /\ asked \in [Handles -> {"new", "added", "ready", "removed"}]
    /\ nextId \in 1..MaxWork + 1
    /\ ts \in Nat /\ remaining \in [Handles -> Nat]
    /\ toRemove \subseteq perms /\ perms \subseteq Handles
    /\ \A t \in Threads : /\ thread[t].pc \in {"get", "catch_up", "evaluate"}
                          /\ thread[t].ts \in 0..ts /\ thread[t].need \in 0..ts
                          /\ thread[t].perms \subseteq Handles

\* No order of messages makes an assertion of the main loop fail, a worker look
\* up a permuter that it does not have (yet, or any more), or drop one twice.
NothingFails == ~ failure

\* remaining_work is the number of items queued, with a worker or come back
\* unread, so that the last result of a removed permuter is told from the others.
WorkCounted == \A h \in Handles : remaining[h] = Out(h)

\* A permuter to be removed goes with its last result, and not before.
RemovedInTime ==
    /\ \A h \in toRemove : Out(h) > 0
    /\ \A h \in Handles : Out(h) > 0 => h \in perms

\* What a worker knows, once it has read its queue, is what the main loop holds.
WorkersInStep ==
    \A t \in Threads : lq[t] = <<>> => thread[t].perms = perms /\ thread[t].ts = ts

\* Every piece of work is answered, also when its permuter is removed meanwhile: the
\* evaluator comes back to owing nothing.
WorkAnswered == []<>(\A id \in 1..nextId - 1 : \E h \in Handles : <<"result", h, id>> \in sent)

\* A permuter that was removed is forgotten in the end.
RemovalEnds == <>[](\A h \in Handles : asked[h] = "removed" => h \notin perms)
=============================================================================
