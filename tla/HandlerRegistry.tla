-------------------------- MODULE HandlerRegistry --------------------------
(***************************************************************************)
(* What src/kernel/intr.c promises, without its links and counters: each   *)
(* queue is a sequence of handlers, and an interrupt visits the sequence   *)
(* of its queue from the first handler to the last.  A callback may edit   *)
(* the part of the sequence that is still to come and sees the edit take   *)
(* effect in the same interrupt; after an edit of the part already visited *)
(* it can only abandon the interrupt.                                      *)
(***************************************************************************)
EXTENDS Integers, SequencesExt

CONSTANTS Hid, Queue, SBUS, Redirected

Kernel   == 0
Disabled == 1
User     == 2
Free     == 3

VARIABLES
    queue,      \* the handlers of each queue, in calling order
    mode,       \* Kernel, Disabled, User or Free
    visit       \* the interrupt in progress: its queue and position

regVars == <<queue, mode, visit>>

Idle == [pc |-> "idle", q |-> SBUS, pos |-> 1, user |-> FALSE]

RInit ==
    /\ queue = [q \in Queue |-> <<>>]
    /\ mode = [h \in Hid |-> Free]
    /\ visit = Idle

\* An edit of position k of queue q, made between interrupts or by a callback.
Editing(q, k) ==
    \/ visit.pc = "idle" /\ UNCHANGED visit
    \/ visit.pc = "torn" /\ UNCHANGED visit
    \/ visit.pc = "call" /\ (q # visit.q \/ k > visit.pos) /\ UNCHANGED visit
    \/ visit.pc = "call" /\ visit.user /\ visit' = [visit EXCEPT !.pc = "torn"]

Register(q, k, h, m) ==
    /\ mode[h] = Free /\ ~(m = User /\ q = SBUS)
    /\ mode' = [mode EXCEPT ![h] = m]
    /\ Editing(q, k)
    /\ queue' = [queue EXCEPT ![q] = InsertAt(@, k, h)]

Unregister(q, k) ==
    /\ mode' = [mode EXCEPT ![queue[q][k]] = Free]
    /\ Editing(q, k)
    /\ queue' = [queue EXCEPT ![q] = RemoveAt(@, k)]

Toggle(h, m) ==
    /\ mode[h] # Free
    /\ visit.pc \in {"idle", "call", "torn"}
    /\ mode' = [mode EXCEPT ![h] = m]
    /\ UNCHANGED <<queue, visit>>

ForgetAll ==
    /\ visit.pc = "idle" /\ queue[SBUS] = <<>>
    /\ queue' = [q \in Queue |-> <<>>]
    /\ mode' = [h \in Hid |-> Free]
    /\ UNCHANGED visit

Interrupt(q) ==
    /\ visit.pc = "idle" /\ q \notin Redirected
    /\ visit' = [Idle EXCEPT !.pc = "loop", !.q = q]
    /\ UNCHANGED <<queue, mode>>

Current == queue[visit.q][visit.pos]

\* Call the handler at the position, or pass over a disabled one.
Visit ==
    /\ visit.pc = "loop" /\ visit.pos <= Len(queue[visit.q])
    /\ visit' = IF mode[Current] \in {Kernel, User}
                THEN [visit EXCEPT !.pc = "call", !.user = (mode[Current] = User)]
                ELSE [visit EXCEPT !.pos = @ + 1]
    /\ UNCHANGED <<queue, mode>>

Return ==
    /\ visit.pc = "call"
    /\ visit' = [visit EXCEPT !.pc = "loop", !.pos = @ + 1, !.user = FALSE]
    /\ UNCHANGED <<queue, mode>>

\* The sequence is exhausted, or the callback abandons the interrupt.
Finish ==
    /\ \/ visit.pc = "loop" /\ visit.pos > Len(queue[visit.q])
       \/ visit.pc \in {"call", "torn"} /\ visit.user
    /\ visit' = Idle
    /\ UNCHANGED <<queue, mode>>

RNext ==
    \/ \E q \in Queue : \E k \in 1..(Len(queue[q]) + 1), h \in Hid, m \in {Kernel, User} :
          Register(q, k, h, m)
    \/ \E q \in Queue : \E k \in 1..Len(queue[q]) : Unregister(q, k)
    \/ \E h \in Hid, m \in {Disabled, User} : Toggle(h, m)
    \/ ForgetAll
    \/ \E q \in Queue : Interrupt(q)
    \/ Visit \/ Return \/ Finish

RFairness == WF_regVars(Visit \/ (Finish /\ visit.pc = "loop"))
             /\ WF_regVars(Return \/ (Finish /\ visit.pc # "loop"))

RSpec == RInit /\ [][RNext]_regVars /\ RFairness
=============================================================================
