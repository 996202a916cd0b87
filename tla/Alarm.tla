-------------------------------- MODULE Alarm --------------------------------
(***************************************************************************)
(* One-shot alarms on timer 3 (src/kernel/alarm.c).                        *)
(*                                                                         *)
(* T3_COUNT counts horizontal syncs modulo 2^16.  The active alarms sit in *)
(* a queue in firing order; T3_COMP holds the time of the next compare     *)
(* interrupt.  The source gives ReleaseAlarm (func_800025B0) as compiled C *)
(* and SetAlarm and the irq handler as drafts of the assembly; the draft   *)
(* of SetAlarm ends before the queue and the timer are updated, and that   *)
(* part is modelled from what the irq handler expects of it.               *)
(***************************************************************************)
EXTENDS Integers, FiniteSets, Sequences

CONSTANTS
    NAlarms,        \* number of alarms (64 in the code)
    Wrap,           \* T3_COUNT is modulo Wrap (2^16 in the code)
    Releases,       \* what callers release: "none" at all, the "only" alarm that
                    \* is set and not due, or "any"
    DistinctTimes   \* callers never let two alarms end on the same tick

Id   == 0..(NAlarms - 1)
Time == 0..(Wrap - 1)

ASSUME AlarmAssumption ==
    /\ NAlarms \in Nat \ {0} /\ Wrap \in Nat \ {0, 1}
    /\ Releases \in {"none", "only", "any"} /\ DistinctTimes \in BOOLEAN

VARIABLES
    active,     \* D_8001C228
    count,      \* D_8001C230
    queue,      \* D_8001C738, as a function on its indices
    set,        \* alarm.time: T3_COUNT when the alarm was set
    target,     \* alarm.target
    now,        \* T3_COUNT
    comp,       \* T3_COMP
    matching,   \* T3_MODE lets the compare interrupt happen
    irq,        \* the timer 3 interrupt is pending
    disp,       \* the locals of func_80002690
    left,       \* ghost: ticks until the alarm should fire; -1 means late
    misfired    \* ghost: an alarm's callback ran before or after its time

timer  == <<now, comp, matching, irq>>
alarms == <<active, count, queue, set, target>>
ghosts == <<left, misfired>>
vars   == <<alarms, timer, disp, ghosts>>

NoDisp == [pc |-> "idle", target |-> 0]

\* The queue's entries that count.
Queued == {queue[i] : i \in 0..(count - 1)}

\* func_80002838.  The words of D_8001C238 start out zero.
Init ==
    /\ active = {} /\ count = 0
    /\ queue = [i \in 0..NAlarms |-> 0]
    /\ set = [a \in Id |-> 0] /\ target = [a \in Id |-> 0]
    /\ now = 0 /\ comp = 0 /\ matching = FALSE /\ irq = FALSE
    /\ disp = NoDisp
    /\ left = [a \in Id |-> 0] /\ misfired = FALSE

-----------------------------------------------------------------------------
\* getAlarm: the lowest free bit of the bitfield.
FreeAlarm == CHOOSE a \in Id \ active : \A b \in Id \ active : a <= b

\* How long until tick t comes round; nothing when it is the current one.
Ahead(t) == (t - now) % Wrap

\* The tick on which an alarm set now ends.
Ends(time) == (now + time) % Wrap

\* Where an alarm ending at t goes: behind those that end no later.
Slot(t) == Cardinality({i \in 0..(count - 1) : Ahead(target[queue[i]]) <= Ahead(t)})

\* The ticks on which alarms end, the one being fired included.
Taken == {target[b] : b \in active} \cup (IF disp.pc = "call" THEN {disp.target} ELSE {})

\* func_80002318, by thread or callback.  A time of 0, which the code takes too, is left
\* out: what it does depends on the assembly that sets the compare register.
SetAlarm(time) ==
    /\ disp.pc \in {"idle", "call"}
    /\ active # Id
    /\ LET a == FreeAlarm
           t == Ends(time)
           k == Slot(t)
       IN  /\ DistinctTimes => t \notin Taken
           /\ active' = active \cup {a}
           /\ set' = [set EXCEPT ![a] = now]
           /\ target' = [target EXCEPT ![a] = t]
           /\ queue' = [i \in 0..NAlarms |->
                           IF i = k THEN a
                           ELSE IF k < i /\ i <= count THEN queue[i - 1] ELSE queue[i]]
           /\ count' = count + 1
           /\ comp' = IF k = 0 THEN t ELSE comp
           /\ matching' = (matching \/ k = 0)
           /\ left' = [left EXCEPT ![a] = time]
    /\ UNCHANGED <<now, irq, disp, misfired>>

\* The loop one turn short.
ShiftedShort(n) == [i \in 0..NAlarms |-> IF i < n - 1 THEN queue[i + 1] ELSE queue[i]]

\* The loop that drops the first entry of the queue, n entries remaining.
Shifted(n) == [i \in 0..NAlarms |-> IF i < n THEN queue[i + 1] ELSE queue[i]]

\* Elapsed without its second branch.
ElapsedUnwrapped(a) == now - set[a]

\* What ReleaseAlarm returns: the ticks since the alarm was set.
Elapsed(a) == IF now >= set[a] THEN now - set[a] ELSE now + (Wrap - set[a])

\* func_800025B0.  The shift drops the first entry whichever alarm is released,
\* and T3_COMP stays as it is.
ReleaseAlarm(a) ==
    /\ disp.pc \in {"idle", "call"}
    /\ a \in active
    /\ Releases # "none" /\ (Releases = "only" => active = {a} /\ ~irq)
    /\ count' = count - 1
    /\ active' = active \ {a}
    /\ matching' = (matching /\ count' # 0)
    /\ queue' = Shifted(count')
    /\ left' = [left EXCEPT ![a] = 0]
    /\ UNCHANGED <<set, target, now, comp, irq, disp, misfired>>

-----------------------------------------------------------------------------
\* External: the counter advances, and raises the interrupt when it meets T3_COMP.
\* The interrupt is taken within a tick and callbacks end before the next alarm is
\* due: the code has no defence when they do not.
Tick ==
    /\ ~irq /\ disp.pc # "fire"
    /\ disp.pc = "call" => \A a \in active : left[a] > 1
    /\ now' = (now + 1) % Wrap
    /\ irq' = (irq \/ (matching /\ now' = comp))
    /\ left' = [a \in Id |-> IF a \notin active THEN 0
                             ELSE IF left[a] <= 0 THEN -1 ELSE left[a] - 1]
    /\ UNCHANGED <<alarms, comp, matching, disp, misfired>>

\* IrqEnter with the compare left off for the last two.
IrqEnterAboveTwo ==
    /\ disp.pc = "idle" /\ irq
    /\ irq' = FALSE
    /\ matching' = (count > 2)
    /\ comp' = IF count > 2 THEN target[queue[1]] ELSE comp
    /\ disp' = [disp EXCEPT !.pc = "fire"]
    /\ UNCHANGED <<alarms, now, ghosts>>

\* func_80002690 is entered: program the compare for the alarm behind the first.
IrqEnter ==
    /\ disp.pc = "idle" /\ irq
    /\ irq' = FALSE
    /\ matching' = (count >= 2)
    /\ comp' = IF count >= 2 THEN target[queue[1]] ELSE comp
    /\ disp' = [disp EXCEPT !.pc = "fire"]
    /\ UNCHANGED <<alarms, now, ghosts>>

\* One turn of the do loop: take the first alarm off and call it.
Fire ==
    /\ disp.pc = "fire"
    /\ LET aidx == queue[0]
       IN  /\ count' = count - 1
           /\ queue' = Shifted(count')
           /\ active' = active \ {aidx}
           /\ disp' = [pc |-> "call", target |-> target[aidx]]
           /\ misfired' = (misfired \/ left[aidx] # 0)
           /\ left' = [left EXCEPT ![aidx] = 0]
    /\ UNCHANGED <<set, target, timer>>

\* The loop that fires whatever is queued.
CallReturnForAll ==
    /\ disp.pc = "call"
    /\ disp' = IF count > 0 THEN [disp EXCEPT !.pc = "fire"] ELSE NoDisp
    /\ UNCHANGED <<alarms, timer, ghosts>>

\* The callback returns; the loop goes on while the next alarm ends on the same tick.
CallReturn ==
    /\ disp.pc = "call"
    /\ disp' = IF count > 0 /\ disp.target = target[queue[0]]
               THEN [disp EXCEPT !.pc = "fire"] ELSE NoDisp
    /\ UNCHANGED <<alarms, timer, ghosts>>

Next ==
    \/ \E time \in 1..(Wrap - 1) : SetAlarm(time)
    \/ \E a \in Id : ReleaseAlarm(a)
    \/ Tick
    \/ IrqEnter
    \/ Fire
    \/ CallReturn

\* Time passes, the interrupt is taken, and callbacks return.
Fairness == SF_vars(Tick) /\ WF_vars(IrqEnter) /\ WF_vars(Fire) /\ WF_vars(CallReturn)

Spec == Init /\ [][Next]_vars /\ Fairness

-----------------------------------------------------------------------------
(* Properties.                                                             *)

TypeOK ==
    /\ active \subseteq Id /\ count \in 0..NAlarms
    /\ queue \in [0..NAlarms -> Id]
    /\ set \in [Id -> Time] /\ target \in [Id -> Time]
    /\ now \in Time /\ comp \in Time /\ matching \in BOOLEAN /\ irq \in BOOLEAN
    /\ disp \in [pc : {"idle", "fire", "call"}, target : Time]
    /\ left \in [Id -> -1..(Wrap - 1)]
    /\ misfired \in BOOLEAN

\* The three words that describe the alarms agree on how many there are.
CountIsActive == count = Cardinality(active)

\* src/kernel/alarm.c:88, "i thought this was a queue of active alarm id's": the
\* queue holds each active alarm once.
QueueIsActive == Queued = active /\ CountIsActive

\* The queue is in firing order.
QueueInOrder ==
    \A i, j \in 0..(count - 1) : i < j => left[queue[i]] <= left[queue[j]]

\* Every callback runs on the tick that was asked for.
FiresOnTime == ~misfired

\* The compare register is set for the first alarm that is still to be fired.
CompareAhead ==
    (disp.pc = "idle" /\ ~irq /\ count > 0) => matching /\ comp = target[queue[0]]

\* ReleaseAlarm's result is the time since SetAlarm, over a wrap of the counter too.
ElapsedExact ==
    \A a \in active : Elapsed(a) = ((target[a] - set[a]) % Wrap) - left[a]

\* Every alarm comes to an end.
AlarmsEnd == \A a \in Id : a \in active ~> a \notin active


\* The words about the alarms, the queue and the compare register tell the same story
\* between any two interrupts, however setting, releasing and firing take turns.
AlarmsInStep == TypeOK /\ QueueIsActive /\ QueueInOrder /\ CompareAhead
=============================================================================
