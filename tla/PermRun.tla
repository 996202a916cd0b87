------------------------------- MODULE PermRun -------------------------------
(* main.py with several workers: the main loop hands tasks to worker processes *)
(* and to permuter@home connections (net/client.py) as they ask for them, and  *)
(* posts the results that come back. Every process has its own copy of the     *)
(* Permuter objects.                                                           *)
EXTENDS Permuter, Sequences, SequencesExt

Window == plan.window               \* need_work messages a server sends

AllWorkers == UNION {pl.workers : pl \in Plans}
AllConns == UNION {pl.conns : pl \in Plans}

VARIABLES
    phase,              \* where the main process is
    seed_iterators,     \* the seeds still inside each
    ended,              \* the iterators set to None
    nextIt,             \* next_iterator_index
    tasks, feedback,    \* worker_task_queue, feedback_queue
    active, found_zero, \* active_workers, found_zero
    parent,             \* [Perms -> Permuter object] of the main process
    child,              \* [Workers -> [Perms -> Permuter object]]
    wpc, hand,          \* [Workers -> where], [Workers -> the task in hand]
    conn,               \* [Conns -> Connection]
    net,                \* [Conns -> the other end of its socket]
    posted,             \* tasks whose result went through post_score
    written,            \* <<permuter, source>> that the main process wrote
    missed              \* a source was left out that it would have written first

wroteVars == <<parent, written, missed>>
mainVars == <<phase, seed_iterators, ended, nextIt, active, found_zero, posted, wroteVars>>
workVars == <<child, wpc, hand>>
netVars  == <<conn, net>>
runVars == <<mainVars, workVars, netVars, tasks, feedback>>

Local == -1
Fin == <<>>            \* the Finished item
Ask(src) == [kind |-> "ask", src |-> src]
Text(src) == [kind |-> "message", src |-> src]
Gone(src) == [kind |-> "finished", src |-> src]
Done(src, t, r) == [kind |-> "done", src |-> src, task |-> t, res |-> r]
Tasks == UNION {{p} \X Seeds[p] : p \in Perms}
SourceOf(t) == CHOOSE src \in Yields[t[1]][t[2]] : TRUE

RunInit ==
    /\ phase = "feeding" /\ seed_iterators = Seeds /\ ended = {} /\ nextIt = 0
    /\ tasks = <<>> /\ feedback = <<>>
    /\ active = Cardinality(Workers) /\ found_zero = FALSE
    /\ parent = [p \in Perms |-> Fresh]
    /\ child = [w \in Workers |-> [p \in Perms |-> Fresh]]
    /\ wpc = [w \in Workers |-> "poll"] /\ hand = [w \in Workers |-> None]
    /\ conn = [p \in Conns |-> [pc |-> "receive", finished |-> FALSE, queue |-> <<>>]]
    /\ net = [p \in Conns |-> [inbox |-> <<>>, away |-> {}, asks |-> 0, objs |-> [c \in Cores |-> Served], open |-> TRUE]]
    /\ posted = {} /\ written = {} /\ missed = FALSE

-----------------------------------------------------------------------------
(* The main process *)

Nth(k) == ((nextIt + k) % Cardinality(Perms)) + 1
Empty(p) == p \in ended \/ seed_iterators[p] = {}

\* get_task(-1): the next permuter that has a seed; those passed over are ended.
GetTaskAny(t) ==
    IF \A p \in Perms : Empty(p)
    THEN t = None /\ ended' = Perms /\ UNCHANGED <<seed_iterators, nextIt>>
    ELSE LET k == CHOOSE k \in 0..Cardinality(Perms) - 1 :
                    ~ Empty(Nth(k)) /\ \A j \in 0..k - 1 : Empty(Nth(j))
         IN \E s \in seed_iterators[Nth(k)] :
              /\ t = <<Nth(k), s>>
              /\ seed_iterators' = [seed_iterators EXCEPT ![Nth(k)] = @ \ {s}]
              /\ ended' = ended \cup {Nth(j) : j \in 0..k - 1}
              /\ nextIt' = (nextIt + k + 1) % Cardinality(Perms)

\* get_task of one permuter, for its connection.
GetTaskOf(p, t) ==
    IF Empty(p)
    THEN t = None /\ ended' = ended \cup {p} /\ UNCHANGED <<seed_iterators, nextIt>>
    ELSE \E s \in seed_iterators[p] :
           /\ t = <<p, s>>
           /\ seed_iterators' = [seed_iterators EXCEPT ![p] = @ \ {s}]
           /\ UNCHANGED <<ended, nextIt>>

\* Results are compared with the base's score alone, and the last one counts.
PostTies(f) ==
    LET p == f.task[1]
        r == f.res
    IN IF r.kind = "error" THEN UNCHANGED wroteVars
       ELSE /\ parent' = IF r.sent /\ r.score <= BaseScore THEN [parent EXCEPT ![p].best = r.score] ELSE parent
            /\ UNCHANGED <<written, missed>>
\* What post_score does to the main process's Permuter. A result without a source
\* is missed when the main process would have written it had it been sent along.
Post(f) ==
    LET p == f.task[1]
        r == f.res
        o == parent[p]
    IN IF r.kind = "error" THEN UNCHANGED wroteVars
       ELSE /\ parent' = IF ShouldOutput(o, r) THEN [parent EXCEPT ![p] = RecordResult(o, r)] ELSE parent
            /\ written' = IF ShouldOutput(o, r) THEN written \cup {<<p, r.of>>} ELSE written
            /\ missed' = (missed \/ (/\ ~ r.sent /\ <<p, r.of>> \notin written
                                     /\ ShouldOutput(o, Candidate(r.of, Hash[r.of]))))

IsZero(f) == f.res.kind = "candidate" /\ f.res.score = 0
Aborts(f) == f.res.kind = "error" /\ AbortExceptions

MainFinished ==
    /\ phase \in {"feeding", "finishing"}
    /\ feedback # <<>> /\ Head(feedback).kind \in {"finished", "message"}
    /\ feedback' = Tail(feedback)
    /\ active' = IF Head(feedback) = Gone(Local) THEN active - 1 ELSE active
    /\ UNCHANGED <<phase, seed_iterators, ended, nextIt, found_zero, posted, wroteVars, workVars, netVars, tasks>>

MainWorkDone ==
    /\ phase \in {"feeding", "finishing"}
    /\ feedback # <<>> /\ Head(feedback).kind = "done"
    /\ LET f == Head(feedback)
           skip == phase = "finishing" /\ StopOnZero /\ found_zero
       IN /\ feedback' = Tail(feedback)
          /\ IF skip THEN UNCHANGED <<wroteVars, posted, found_zero, phase>>
             ELSE /\ Post(f)
                  /\ posted' = posted \cup {f.task}
                  /\ found_zero' = (found_zero \/ IsZero(f))
                  /\ phase' = IF Aborts(f) THEN "exit"
                              ELSE IF phase = "feeding" /\ IsZero(f) /\ StopOnZero THEN "signal"
                              ELSE phase
    /\ UNCHANGED <<seed_iterators, ended, nextIt, active, workVars, netVars, tasks>>

MainNeedWork ==
    /\ phase = "feeding" /\ feedback # <<>> /\ Head(feedback).kind = "ask"
    /\ feedback' = Tail(feedback)
    /\ LET src == Head(feedback).src IN
       \E t \in Tasks \cup {None} :
         /\ IF src = Local THEN GetTaskAny(t) ELSE GetTaskOf(src, t)
         /\ tasks' = IF t # None /\ src = Local THEN Append(tasks, t) ELSE tasks
         /\ conn' = IF t # None /\ src # Local
                    THEN [conn EXCEPT ![src].queue = Append(@, t)] ELSE conn
    /\ phase' = IF ended' = Perms THEN "signal" ELSE phase
    /\ UNCHANGED <<active, found_zero, posted, wroteVars, workVars, net>>

\* While the last results are awaited, requests for work are passed over.
MainRefuse ==
    /\ phase = "finishing" /\ feedback # <<>> /\ Head(feedback).kind = "ask"
    /\ feedback' = Tail(feedback)
    /\ UNCHANGED <<mainVars, workVars, netVars, tasks>>

\* One worker too many is told to stop.
MainSignalTwice ==
    /\ phase = "signal"
    /\ phase' = "finishing"
    /\ tasks' = tasks \o [i \in 1..active + 1 |-> Fin]
    /\ conn' = [p \in Conns |-> [conn[p] EXCEPT !.queue = Append(@, Fin)]]
    /\ UNCHANGED <<seed_iterators, ended, nextIt, active, found_zero, posted, wroteVars, workVars, net, feedback>>
MainSignal ==
    /\ phase = "signal"
    /\ phase' = "finishing"
    /\ tasks' = tasks \o [i \in 1..active |-> Fin]
    /\ conn' = [p \in Conns |-> [conn[p] EXCEPT !.queue = Append(@, Fin)]]
    /\ UNCHANGED <<seed_iterators, ended, nextIt, active, found_zero, posted, wroteVars, workVars, net, feedback>>

\* The workers are joined, after the loop or as sys.exit shuts the interpreter
\* down. With connections the loop goes on for ever: nothing takes them out.
MainJoin ==
    /\ phase = "exit" \/ (phase = "finishing" /\ active = 0 /\ Conns = {})
    /\ \A w \in Workers : wpc[w] = "ended"
    /\ phase' = IF phase = "exit" THEN "stopped" ELSE "done"
    /\ UNCHANGED <<seed_iterators, ended, nextIt, active, found_zero, posted, wroteVars, workVars, netVars, tasks, feedback>>
-----------------------------------------------------------------------------
(* multiprocess_worker *)

\* A worker that finds its queue empty waits without a word.
WorkerMissSilent(w) ==
    /\ wpc[w] = "poll"
    /\ wpc' = [wpc EXCEPT ![w] = "wait"]
    /\ UNCHANGED <<mainVars, child, hand, netVars, tasks, feedback>>
\* The non-blocking get may miss a task that is on its way through the pipe.
WorkerMiss(w) ==
    /\ wpc[w] = "poll"
    /\ wpc' = [wpc EXCEPT ![w] = "wait"]
    /\ feedback' = Append(feedback, Ask(Local))
    /\ UNCHANGED <<mainVars, child, hand, netVars, tasks>>
WorkerGet(w) ==
    /\ wpc[w] \in {"poll", "wait"} /\ tasks # <<>>
    /\ tasks' = Tail(tasks)
    /\ IF Head(tasks) = Fin
       THEN /\ wpc' = [wpc EXCEPT ![w] = "ended"]
            /\ feedback' = Append(feedback, Gone(Local))
            /\ UNCHANGED hand
       ELSE /\ wpc' = [wpc EXCEPT ![w] = "work"]
            /\ hand' = [hand EXCEPT ![w] = Head(tasks)]
            /\ UNCHANGED feedback
    /\ UNCHANGED <<mainVars, child, netVars>>

\* The worker records a result before it knows that it is worth an output.
WorkerDoneEager(w) ==
    /\ wpc[w] = "work"
    /\ LET p == hand[w][1] IN
       \E e \in Evaluations(p, child[w][p], hand[w][2]) :
         /\ child' = [child EXCEPT ![w][p] =
                        IF e.res.kind = "candidate" THEN RecordResult(e.obj, Candidate(e.res.of, Hash[e.res.of]))
                        ELSE e.obj]
         /\ feedback' = Append(feedback, Done(Local, hand[w],
                          IF e.res.kind = "candidate" THEN Stripped(child'[w][p], e.res) ELSE e.res))
    /\ wpc' = [wpc EXCEPT ![w] = "ask"]
    /\ hand' = [hand EXCEPT ![w] = None]
    /\ UNCHANGED <<mainVars, netVars, tasks>>
WorkerDone(w) ==
    /\ wpc[w] = "work"
    /\ LET p == hand[w][1] IN
       \E e \in Evaluations(p, child[w][p], hand[w][2]) :
         /\ child' = [child EXCEPT ![w][p] =
                        IF e.res.kind = "candidate" /\ ShouldOutput(e.obj, e.res)
                        THEN RecordResult(e.obj, e.res) ELSE e.obj]
         /\ feedback' = Append(feedback, Done(Local, hand[w], e.res))
    /\ wpc' = [wpc EXCEPT ![w] = "ask"]
    /\ hand' = [hand EXCEPT ![w] = None]
    /\ UNCHANGED <<mainVars, netVars, tasks>>

WorkerAsk(w) ==
    /\ wpc[w] = "ask"
    /\ wpc' = [wpc EXCEPT ![w] = "poll"]
    /\ feedback' = Append(feedback, Ask(Local))
    /\ UNCHANGED <<mainVars, child, hand, netVars, tasks>>

-----------------------------------------------------------------------------
(* Connection.run, one thread per permuter *)

ConnReceive(p) ==
    /\ conn[p].pc = "receive" /\ net[p].inbox # <<>>
    /\ LET msg == Head(net[p].inbox) IN
         /\ feedback' = CASE msg.kind = "need_work" -> feedback
                          [] msg.kind \in {"init_done", "disconnect"} -> Append(feedback, Text(p))
                          [] msg.kind = "result" -> Append(feedback, Done(p, msg.task, msg.res))
                          [] msg.kind = "eof" -> Append(feedback, Gone(p))
         /\ conn' = [conn EXCEPT ![p].pc = CASE msg.kind = "eof" -> "closed"
                                             [] msg.kind = "disconnect" -> "receive"
                                             [] OTHER -> "ask"]
         /\ net' = [net EXCEPT ![p].inbox = Tail(@)]
    /\ UNCHANGED <<mainVars, workVars, tasks>>

ConnAsk(p) ==
    /\ conn[p].pc = "ask"
    /\ feedback' = Append(feedback, Ask(p))
    /\ conn' = [conn EXCEPT ![p].pc = IF conn[p].finished THEN "receive" ELSE "take"]
    /\ UNCHANGED <<mainVars, workVars, net, tasks>>

\* A task stays queued after it was sent.
ConnTakeRetries(p) ==
    /\ conn[p].pc = "take" /\ conn[p].queue # <<>>
    /\ LET t    == Head(conn[p].queue)
           lost == t # Fin /\ ~ net[p].open
       IN /\ conn' = [conn EXCEPT ![p].queue = IF lost THEN @ ELSE Append(Tail(@), t),
                                  ![p].finished = (t = Fin),
                                  ![p].pc = IF lost THEN "closed" ELSE "receive"]
          /\ net' = IF t = Fin \/ lost THEN net ELSE [net EXCEPT ![p].away = @ \cup {t}]
          /\ feedback' = IF lost THEN Append(feedback, Gone(p)) ELSE feedback
    /\ UNCHANGED <<mainVars, workVars, tasks>>

\* The thread blocks on its own queue; meanwhile it does not read its socket.
ConnTake(p) ==
    /\ conn[p].pc = "take" /\ conn[p].queue # <<>>
    /\ LET t    == Head(conn[p].queue)
           lost == t # Fin /\ ~ net[p].open
       IN /\ conn' = [conn EXCEPT ![p].queue = Tail(@),
                                  ![p].finished = (t = Fin),
                                  ![p].pc = IF lost THEN "closed" ELSE "receive"]
          /\ net' = IF t = Fin \/ lost THEN net ELSE [net EXCEPT ![p].away = @ \cup {t}]
          /\ feedback' = IF lost THEN Append(feedback, Gone(p)) ELSE feedback
    /\ UNCHANGED <<mainVars, workVars, tasks>>

-----------------------------------------------------------------------------
(* The other end: a server asks for work, answers or loses it, and goes away. *)

Send(p, msg) == [net[p] EXCEPT !.inbox = Append(@, msg)]

ServerAsk(p) ==
    /\ net[p].open /\ net[p].asks < Window
    /\ \E k \in IF net[p].asks = 0 THEN {"init_done"} ELSE {"need_work"} :
         net' = [net EXCEPT ![p] = [Send(p, [kind |-> k]) EXCEPT !.asks = @ + 1]]
    /\ UNCHANGED <<mainVars, workVars, conn, tasks, feedback>>

\* The work goes to any of the processes, each of which has its own Permuter.
ServerResult(p) ==
    /\ net[p].open
    /\ \E t \in net[p].away : \E c \in Cores : \E e \in Evaluations(p, net[p].objs[c], t[2]) :
         net' = [net EXCEPT ![p] =
                   [Send(p, [kind |-> "result", task |-> t, res |-> e.res])
                      EXCEPT !.away = @ \ {t},
                             !.objs[c] = IF e.res.kind = "candidate" /\ ShouldOutput(e.obj, e.res)
                                         THEN RecordResult(e.obj, e.res) ELSE e.obj]]
    /\ UNCHANGED <<mainVars, workVars, conn, tasks, feedback>>

ServerGone(p) ==
    /\ net[p].open /\ net[p].asks = Window
    /\ net' = [net EXCEPT ![p] = [Send(p, [kind |-> "disconnect"]) EXCEPT !.away = {}]]
    /\ net[p].away # {}
    /\ UNCHANGED <<mainVars, workVars, conn, tasks, feedback>>

ServerClose(p) ==
    /\ net[p].open
    /\ net' = [net EXCEPT ![p] = [Send(p, [kind |-> "eof"]) EXCEPT !.open = FALSE]]
    /\ UNCHANGED <<mainVars, workVars, conn, tasks, feedback>>

Main == MainFinished \/ MainWorkDone \/ MainNeedWork \/ MainRefuse \/ MainSignal \/ MainJoin
Worker(w) == WorkerMiss(w) \/ WorkerGet(w) \/ WorkerDone(w) \/ WorkerAsk(w)
Connection(p) == ConnReceive(p) \/ ConnAsk(p) \/ ConnTake(p)
Server(p) == ServerAsk(p) \/ ServerResult(p) \/ ServerGone(p) \/ ServerClose(p)

RunNext ==
    \/ Main
    \/ \E w \in Workers : Worker(w)
    \/ \E p \in Conns : Connection(p) \/ Server(p)

-----------------------------------------------------------------------------
(* Properties *)

RunTypeOK ==
    /\ phase \in {"feeding", "signal", "finishing", "done", "exit", "stopped"}
    /\ \A p \in Perms : seed_iterators[p] \subseteq Seeds[p]
    /\ ended \subseteq Perms /\ nextIt \in 0..Cardinality(Perms) - 1
    /\ active \in 0..Cardinality(Workers)
    /\ tasks \in Seq(Tasks \cup {Fin})
    /\ wpc \in [Workers -> {"poll", "wait", "work", "ask", "ended"}]
    /\ hand \in [Workers -> Tasks \cup {None}]
    /\ \A p \in Conns : conn[p].pc \in {"receive", "ask", "take", "closed"}

InFlight(t) ==
    Cardinality({i \in 1..Len(tasks) : tasks[i] = t})
    + Cardinality({w \in Workers : hand[w] = t})
    + Cardinality({i \in 1..Len(feedback) : feedback[i].kind = "done" /\ feedback[i].task = t})
    + (IF t[1] \notin Conns THEN 0
       ELSE Cardinality({i \in 1..Len(conn[t[1]].queue) : conn[t[1]].queue[i] = t})
          + Cardinality({t} \cap net[t[1]].away)
          + Cardinality({i \in 1..Len(net[t[1]].inbox) :
                            net[t[1]].inbox[i].kind = "result" /\ net[t[1]].inbox[i].task = t}))

\* A seed is in one place only, on its way from its iterator through the queues
\* to post_score; without connections it never gets lost on the way, unless a
\* perfect match has ended the search.
EachTaskOnce ==
    \A t \in Tasks :
        LET n == InFlight(t) + Cardinality({t} \cap posted)
                 + Cardinality({t[2]} \cap seed_iterators[t[1]])
        IN /\ n <= 1
           /\ Conns = {} /\ ~ (StopOnZero /\ found_zero) => n = 1

\* should_output "must be more liberal in child processes than in parent ones, or
\* else sources will be missing": whatever the order in which processes find and
\* post results, no source that the main process would write was left behind.
NoSourceMissing == ~ missed

\* A search in which each seed stands for one source.
OneSourceEach == Random = {} /\ ~ ForceRng

\* run returns the best score of all seeds, though every process keeps its own.
BestAtEnd ==
    phase = "done" /\ ~ (StopOnZero /\ found_zero) /\ OneSourceEach /\ Threshold = None =>
        \A t \in Tasks :
            t \notin Broken /\ SourceOf(t) \notin Raising => parent[t[1]].best <= Score[SourceOf(t)]

\* When the main process is done every worker has been told so exactly once:
\* none waits for ever and no word to stop is left over.
AllToldOnce ==
    phase = "done" => /\ \A w \in Workers : wpc[w] = "ended"
                      /\ tasks = <<>>
                      /\ \A i \in 1..Len(feedback) : feedback[i].kind = "message"

\* A local run comes to its end, under the fairness of its processes alone, unless
\* --abort-exceptions leaves the main process waiting for its workers.
RunEnds == ~ OneThread /\ Conns = {} /\ ~ AbortExceptions => <>(phase = "done")

\* A result that came in on a connection is read in the end, so long as the
\* connection is one's only one. (With several the thread of one permuter whose
\* seeds are used up waits on its queue until all others are used up too.)
ResultCame(p, t) ==
    Conns = {p} /\ \E i \in 1..Len(net[p].inbox) :
                        net[p].inbox[i].kind = "result" /\ net[p].inbox[i].task = t
ResultsRead ==
    \A p \in AllConns : \A t \in {p} \X UNION {pl.seeds[p] : pl \in Plans} :
        ResultCame(p, t) ~> (t \in posted \/ p \notin Conns \/ conn[p].pc = "closed")
=============================================================================
