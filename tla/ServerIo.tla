------------------------------- MODULE ServerIo -------------------------------
(* net/cmd/run_server.py: the process a permuter@home server's user sees. Its  *)
(* main loop reads one queue, into which the running ServerInner, the reader   *)
(* of the tray icon and the timer for reconnecting put their messages; a token *)
(* with each message tells whether its sender still counts.                    *)
EXTENDS Integers, Sequences, FiniteSets, SequencesExt

CONSTANTS
    Setups,         \* bounds: [ids, slots, starts]
    MaxQueue,       \* bound: messages a server leaves unread
    None

VARIABLES
    setup,          \* the bounds that hold; they stay
    ioq,            \* _io_queue
    server,         \* Server._server: the number of the connection, 0 for None
    starts,         \* connections so far: a handle is <<id, number>>
    inner,          \* the ServerInner: [Ids -> "new", "active", "gone"]
    failing,        \* it has reported its end
    permuters,      \* _permuters, in the order of insertion
    slot,           \* Permuter.slot: [handles in permuters -> 0..Slots]
    shown,          \* ClientSlot.permuter: [1..Slots -> handle or None]
    status,         \* _status
    timer,          \* the timers for reconnecting that run
    clicked,        \* the slot whose Stop the reader has found in use, or 0
    loop            \* the main loop: "runs", "ended", or the exception that ended it

menu == <<permuters, slot, shown, status>>
conn == <<server, starts, inner, failing>>
vars == <<ioq, conn, menu, timer, clicked, loop>>

Ids == setup.ids            \* ids the controller gives to permuters
Slots == setup.slots        \* _CLIENT_SLOTS: slots are 1..Slots
MaxStarts == setup.starts   \* connections made

IoHandles == Ids \X (1..MaxStarts)
Current(handle) == server # 0 /\ handle[2] = server

Fresh == [id \in Ids |-> "new"]
Init ==
    /\ setup \in Setups
    /\ ioq = <<>> /\ server = 1 /\ starts = 1 /\ inner = Fresh /\ failing = FALSE
    /\ permuters = <<>> /\ slot = [h \in {} |-> 0] /\ shown = [i \in 1..Slots |-> None]
    /\ status = "connected" /\ timer = 0 /\ clicked = 0 /\ loop = "runs"

-----------------------------------------------------------------------------
(* What the threads of a running server put into the queue (module NetServer)  *)

Room == Len(ioq) < MaxQueue
Put(m) == ioq' = Append(ioq, m)
Of(id) == <<id, server>>

SendConnect(id) ==
    /\ server # 0 /\ Room /\ inner[id] = "new"
    /\ inner' = [inner EXCEPT ![id] = "active"]
    /\ Put([token |-> server, type |-> "connect", h |-> Of(id)])
    /\ UNCHANGED <<server, starts, failing, menu, timer, clicked, loop>>

\* Removed by the client or the user, or not to be built.
SendDisconnect(id) ==
    /\ server # 0 /\ Room /\ inner[id] = "active"
    /\ inner' = [inner EXCEPT ![id] = "gone"]
    /\ Put([token |-> server, type |-> "disconnect", h |-> Of(id)])
    /\ UNCHANGED <<server, starts, failing, menu, timer, clicked, loop>>

SendImmediate(id) ==
    /\ server # 0 /\ Room /\ inner[id] = "new"
    /\ inner' = [inner EXCEPT ![id] = "gone"]
    /\ Put([token |-> server, type |-> "immediate", h |-> Of(id)])
    /\ UNCHANGED <<server, starts, failing, menu, timer, clicked, loop>>

SendWorkDone(id) ==
    /\ server # 0 /\ Room /\ inner[id] = "active"
    /\ Put([token |-> server, type |-> "work_done", h |-> Of(id)])
    /\ UNCHANGED <<conn, menu, timer, clicked, loop>>

\* The reader, the writer and the heartbeat thread may each report the end.
SendFailed ==
    /\ server # 0 /\ Room
    /\ failing' = TRUE
    /\ \E graceful \in BOOLEAN : Put([token |-> server, type |-> "failed", graceful |-> graceful])
    /\ UNCHANGED <<server, starts, inner, menu, timer, clicked, loop>>

-----------------------------------------------------------------------------
(* The tray icon *)

\* _fill_slots: the slot behind the last one in use, or the next gap before it.
FreeSlot(use) ==
    LET free == {i \in 1..Slots : use[i] = None}
        run == {i \in free : \A k \in i..Slots : (\E j \in free : j >= k) => k \in free}
    IN CHOOSE i \in run : \A j \in run : i <= j
InUse(use) == \A i \in 1..Slots : use[i] # None
\* A permuter without a slot gets one while there is one.
Give(now, h) ==
    IF now.at[h] # 0 \/ InUse(now.use) THEN now
    ELSE [at |-> [now.at EXCEPT ![h] = FreeSlot(now.use)], use |-> [now.use EXCEPT ![FreeSlot(now.use)] = h]]
FillSlots(order, at, use) ==
    LET filled[n \in 0..Len(order)] ==
            IF n = 0 THEN [at |-> at, use |-> use] ELSE Give(filled[n - 1], order[n])
    IN permuters' = order /\ slot' = filled[Len(order)].at /\ shown' = filled[Len(order)].use

\* connect
Connect(h) ==
    FillSlots(Append(permuters, h), [k \in DOMAIN slot \cup {h} |-> IF k = h THEN 0 ELSE slot[k]], shown)

Known(h) == h \in DOMAIN slot
\* The slot of a permuter that goes is still shown.
DisconnectShown(h) ==
    FillSlots(RemoveAt(permuters, CHOOSE i \in DOMAIN permuters : permuters[i] = h),
              [k \in DOMAIN slot \ {h} |-> slot[k]], shown)
\* disconnect
Disconnect(h) ==
    FillSlots(RemoveAt(permuters, CHOOSE i \in DOMAIN permuters : permuters[i] = h),
              [k \in DOMAIN slot \ {h} |-> slot[k]],
              IF slot[h] = 0 THEN shown ELSE [shown EXCEPT ![slot[h]] = None])

\* server_failed
Failed(graceful) ==
    /\ status' = IF graceful THEN "reconnecting" ELSE "failed"
    /\ permuters' = <<>> /\ slot' = [h \in {} |-> 0] /\ shown' = [i \in 1..Slots |-> None]

\* _remove_permuter looks at slot.permuter, and reads it again to send it: the
\* reader runs beside the main loop, which may clear it in between.
ClickStop(i) ==
    /\ clicked = 0 /\ loop = "runs" /\ shown[i] # None /\ clicked' = i
    /\ UNCHANGED <<ioq, conn, menu, timer, loop>>
SendRemove ==
    /\ clicked # 0 /\ Len(ioq) <= MaxQueue
    /\ Put([token |-> 0, type |-> "remove", h |-> shown[clicked]]) /\ clicked' = 0
    /\ UNCHANGED <<conn, menu, timer, loop>>

Quit ==
    /\ loop = "runs" /\ ~ \E i \in 1..Len(ioq) : ioq[i].type = "shutdown"
    /\ Put([token |-> 0, type |-> "shutdown"])
    /\ UNCHANGED <<conn, menu, timer, clicked, loop>>

-----------------------------------------------------------------------------
(* The main loop *)

Cancelled(token) == token # 0 /\ token # server
Take(type) ==
    /\ loop = "runs" /\ ioq # <<>> /\ ~ Cancelled(Head(ioq).token) /\ Head(ioq).type = type
    /\ ioq' = Tail(ioq)

Skip ==
    /\ loop = "runs" /\ ioq # <<>> /\ Cancelled(Head(ioq).token) /\ ioq' = Tail(ioq)
    /\ UNCHANGED <<conn, menu, timer, clicked, loop>>

\* Server.stop, after which the tokens of its messages are cancelled.
StopServer == server' = 0 /\ UNCHANGED <<starts, inner, failing>>

TakeShutdown ==
    /\ Take("shutdown") /\ loop' = "ended" /\ StopServer
    /\ UNCHANGED <<menu, timer, clicked>>

\* reconnect_eventually; how long the timer runs is left open.
Reconnect == timer' = timer + 1
TimerFires ==
    /\ timer > 0 /\ loop = "runs" /\ timer' = timer - 1
    /\ Put([token |-> 0, type |-> "reconnect"])
    /\ UNCHANGED <<conn, menu, clicked, loop>>

TakeFailed ==
    /\ Take("failed") /\ StopServer /\ Failed(Head(ioq).graceful)
    /\ IF Head(ioq).graceful THEN Reconnect ELSE UNCHANGED timer
    /\ UNCHANGED <<clicked, loop>>

\* server.start succeeds, meets the end of its connection, or fails otherwise; where no
\* evaluator can be started it exits, which nothing catches here.
TakeReconnect ==
    /\ Take("reconnect")
    /\ \/ /\ server = 0 /\ starts < MaxStarts
          /\ server' = starts + 1 /\ starts' = starts + 1 /\ inner' = Fresh /\ failing' = FALSE
          /\ status' = "connected" /\ UNCHANGED <<permuters, slot, shown, timer, loop>>
       \/ Failed(TRUE) /\ Reconnect /\ UNCHANGED <<conn, loop>>
       \/ Failed(FALSE) /\ UNCHANGED <<conn, timer, loop>>
       \/ status' = "connecting" /\ loop' = "SystemExit" /\ UNCHANGED <<conn, permuters, slot, shown, timer>>
    /\ UNCHANGED clicked

TakeConnect ==
    /\ Take("connect") /\ Connect(Head(ioq).h)
    /\ UNCHANGED <<conn, status, timer, clicked, loop>>

TakeDisconnect ==
    /\ Take("disconnect")
    /\ IF Known(Head(ioq).h) THEN Disconnect(Head(ioq).h) /\ UNCHANGED loop
       ELSE loop' = "KeyError" /\ UNCHANGED <<permuters, slot, shown>>
    /\ UNCHANGED <<conn, status, timer, clicked>>

TakeImmediate ==
    /\ Take("immediate") /\ UNCHANGED <<conn, menu, timer, clicked, loop>>

TakeWorkDone ==
    /\ Take("work_done")
    /\ loop' = IF Known(Head(ioq).h) THEN loop ELSE "KeyError"
    /\ UNCHANGED <<conn, menu, timer, clicked>>

\* Server.remove_permuter hands a removal to the running server, if the handle is of
\* that one (NetServer's Kick); it cannot look into None.
TakeRemove ==
    /\ Take("remove")
    /\ loop' = IF Head(ioq).h = None /\ server # 0 THEN "TypeError" ELSE loop
    /\ UNCHANGED <<conn, menu, timer, clicked>>

MainLoop ==
    \/ Skip \/ TakeShutdown \/ TakeFailed \/ TakeReconnect \/ TakeConnect
    \/ TakeDisconnect \/ TakeImmediate \/ TakeWorkDone \/ TakeRemove

Next ==
    \/ \E id \in Ids : SendConnect(id) \/ SendDisconnect(id) \/ SendImmediate(id) \/ SendWorkDone(id)
    \/ SendFailed \/ TimerFires \/ Quit \/ SendRemove \/ MainLoop
    \/ \E i \in 1..Slots : ClickStop(i)

-----------------------------------------------------------------------------
(* Properties *)

TypeOK ==
    /\ server \in 0..starts /\ starts \in 1..MaxStarts
    /\ inner \in [Ids -> {"new", "active", "gone"}]
    /\ Range(permuters) \subseteq IoHandles /\ DOMAIN slot = Range(permuters)
    /\ slot \in [DOMAIN slot -> 0..Slots] /\ shown \in [1..Slots -> IoHandles \cup {None}]
    /\ status \in {"connected", "connecting", "reconnecting", "failed"}
    /\ timer \in Nat /\ clicked \in 0..Slots

\* Slots and permuters point at each other, and no permuter waits for a slot while
\* one is free.
SlotsMatch ==
    /\ \A h \in DOMAIN slot : slot[h] # 0 => shown[slot[h]] = h
    /\ \A i \in 1..Slots : shown[i] # None => shown[i] \in DOMAIN slot /\ slot[shown[i]] = i
    /\ (\E h \in DOMAIN slot : slot[h] = 0) => InUse(shown)

\* The main loop never looks up a permuter that it does not have: what a stopped
\* server left in the queue is passed over.
NeverUnknown == loop # "KeyError"

\* The menu shows permuters of the running server only.
ShownIsCurrent == loop = "runs" => \A h \in DOMAIN slot : Current(h)

Reconnecting == timer + Cardinality({i \in 1..Len(ioq) : ioq[i].type = "reconnect"})
\* One thing at a time: while a server runs no attempt to reconnect is under way,
\* and never two are, however often the server's threads report its end.
OneAtATime == Reconnecting <= 1 /\ (server # 0 => Reconnecting = 0)

\* The end of a connection is answered: the server comes back, the user is told that
\* it will not, or it keeps trying.
FailureAnswered == []<>(~ failing \/ status = "failed" \/ loop # "runs" \/ Reconnecting > 0)
=============================================================================
