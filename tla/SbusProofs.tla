----------------------------- MODULE SbusProofs -----------------------------
(***************************************************************************)
(* The safety properties of Sbus for any number of flags.                  *)
(***************************************************************************)
EXTENDS Sbus, CountProofs, TLAPS

\* What the properties need besides themselves: only signals with a handler are
\* owed a call, and the bit being served has left the snapshot.
Support ==
    /\ \A b \in owed : handler[b] # "none"
    /\ disp.pc \in {"acked", "entered"} => disp.bit \notin disp.flags

Inv == TypeOK /\ NoSignalLost /\ SnapshotFresh /\ NoFlagForgotten /\ Support

\* plzcw finds a bit of the word, when there is one.
LEMMA PickedIsRaised ==
    ASSUME TypeOK, disp.flags # {}
    PROVE  Picked \in disp.flags
<1>1. disp.flags \in SUBSET (0..(NBits - 1)) /\ NBits \in Nat
  BY BitsAssumption DEF TypeOK, Bit
<1>2. PICK b \in disp.flags : \A c \in disp.flags : c <= b
  BY <1>1, GreatestBelow
<1> QED
  BY <1>2 DEF Picked, Highest

LEMMA InitInv == Init => Inv
<1> SUFFICES ASSUME Init PROVE Inv
  OBVIOUS
<1>1. 0 \in Bit
  BY BitsAssumption DEF Bit
<1>2. TypeOK
  BY <1>1 DEF Init, TypeOK, NoDisp
<1>3. NoSignalLost /\ SnapshotFresh /\ NoFlagForgotten /\ Support
  BY DEF Init, NoDisp, NoSignalLost, SnapshotFresh, NoFlagForgotten, Support
<1> QED
  BY <1>2, <1>3 DEF Inv

\* The invariant reads nothing but the variables.
LEMMA StutterInv == Inv /\ UNCHANGED vars => Inv'
BY DEF Inv, TypeOK, NoSignalLost, SnapshotFresh, NoFlagForgotten, Support, vars, inVars,
   outVars

\* The handler table changes at points where nothing is half done.
LEMMA TableInv ==
    ASSUME Inv, NEW cause \in Int, NEW who \in {"user", "kernel"},
           SetHandler(cause, who) \/ ClearHandler(cause)
    PROVE  Inv'
<1> USE DEF Inv, TypeOK, NoSignalLost, SnapshotFresh, NoFlagForgotten, Support, outVars,
            InRange, Bit, EEFree
<1>1. CASE SetHandler(cause, who)
  BY <1>1 DEF SetHandler
<1>2. CASE ClearHandler(cause)
  BY <1>2 DEF ClearHandler
<1> QED
  BY <1>1, <1>2

\* The IOP raises a flag at any time.
LEMMA SignalInv ==
    ASSUME Inv, NEW b \in Bit, IopSignal(b)
    PROVE  Inv'
BY DEF Inv, TypeOK, NoSignalLost, SnapshotFresh, NoFlagForgotten, Support, outVars, IopSignal

\* func_80001D98 keeps the invariant at each of its accesses.
LEMMA DispatchInv ==
    ASSUME Inv, Take \/ Dispatch \/ HandlerReturn
    PROVE  Inv'
<1> USE DEF Inv, TypeOK, NoSignalLost, SnapshotFresh, NoFlagForgotten, Support, outVars
<1>p. disp.flags # {} => Picked \in disp.flags
  BY PickedIsRaised
<1>z. 0 \in Bit
  BY BitsAssumption DEF Bit
<1>1. CASE Take
  <2>1. disp' = [pc |-> "loop", flags |-> smflag, bit |-> 0]
    BY <1>1 DEF Take, NoDisp
  <2>t. disp' \in [pc : {"idle", "loop", "acked", "entered", "call"}, flags : SUBSET Bit,
                   bit : Bit]
    BY <1>z, <2>1
  <2>2. TypeOK' /\ SnapshotFresh' /\ NoFlagForgotten' /\ Support'
    BY <1>1, <2>t, <2>1 DEF Take
  <2>3. NoSignalLost'
    BY <1>1, <2>1 DEF Take
  <2> QED
    BY <2>2, <2>3
<1>2. CASE SkipBit
  BY <1>2, <1>p DEF SkipBit
<1>3. CASE AckBit
  BY <1>3, <1>p DEF AckBit
<1>4. CASE CallUser
  BY <1>4 DEF CallUser
<1>5. CASE CallKernel
  BY <1>5, <1>p DEF CallKernel
<1>6. CASE KernelAck
  BY <1>6 DEF KernelAck
<1>7. CASE Done
  BY <1>7, <1>z DEF Done, NoDisp
<1>8. CASE HandlerReturn
  BY <1>8, <1>z DEF HandlerReturn
<1> QED
  BY <1>1, <1>2, <1>3, <1>4, <1>5, <1>6, <1>7, <1>8 DEF Dispatch

\* func_80001F40 and the IOP's answer keep it.
LEMMA SendInv ==
    ASSUME Inv, NEW cause \in Int, SendFlag(cause) \/ SendPulse \/ IopTake
    PROVE  Inv'
<1> USE DEF Inv, TypeOK, NoSignalLost, SnapshotFresh, NoFlagForgotten, Support, inVars,
            EEFree
<1>z. NotSending \notin Bit
  BY DEF NotSending, Bit
<1>1. CASE SendFlag(cause)
  <2>1. cause \in Bit
    BY <1>1, BitsAssumption DEF SendFlag, InRange, Bit
  <2> QED
    BY <1>1, <1>z, <2>1 DEF SendFlag
<1>2. CASE SendPulse
  BY <1>2 DEF SendPulse
<1>3. CASE IopTake
  BY <1>3 DEF IopTake
<1> QED
  BY <1>1, <1>2, <1>3

LEMMA StepInv == Inv /\ [Next]_vars => Inv'
<1> SUFFICES ASSUME Inv, [Next]_vars PROVE Inv'
  OBVIOUS
<1>1. ASSUME NEW cause \in (-1)..NBits,
             \/ SetHandler(cause, "kernel") \/ SetUserHandler(cause)
             \/ ClearHandler(cause) \/ ClearUserHandler(cause)
      PROVE  Inv'
  <2>1. cause \in Int
    BY BitsAssumption
  <2>2. \/ SetHandler(cause, "kernel") \/ SetHandler(cause, "user") \/ ClearHandler(cause)
    BY <1>1 DEF SetUserHandler, ClearUserHandler
  <2> QED
    BY <2>1, <2>2, TableInv
<1>2. ASSUME NEW b \in Bit, IopSignal(b) PROVE Inv'
  BY <1>2, SignalInv
<1>3. CASE Take \/ Dispatch \/ HandlerReturn
  BY <1>3, DispatchInv
<1>4. ASSUME NEW cause \in OutBits \cup {-1, NBits}, SendFlag(cause) \/ SendUserFlag(cause)
      PROVE  Inv'
  <2>1. cause \in Int
    BY BitsAssumption DEF Bit
  <2> QED
    BY <2>1, <1>4, SendInv DEF SendUserFlag
<1>5. CASE SendPulse \/ IopTake
  BY <1>5, SendInv
<1>6. CASE UNCHANGED vars
  BY <1>6, StutterInv
<1> QED
  BY <1>1, <1>2, <1>3, <1>4, <1>5, <1>6 DEF Next

LEMMA AlwaysInv == Spec => []Inv
BY InitInv, StepInv, PTL DEF Spec

\* The registers and the table keep their types, whatever cause callers pass to
\* func_80001E78 to func_80001FB0.
THEOREM SbusTypeCorrect == Spec => []TypeOK
BY AlwaysInv, PTL DEF Inv

\* func_80001D98 loses no signal and serves none twice, however the IOP's writes
\* interleave with its own and whatever its callbacks do to the table.
THEOREM SignalsAreKept == Spec => [](NoSignalLost /\ SnapshotFresh)
BY AlwaysInv, PTL DEF Inv

\* A flag that func_80001F40 raised has an interrupt behind it until it is taken.
THEOREM FlagsAreAnnounced == Spec => []NoFlagForgotten
BY AlwaysInv, PTL DEF Inv
=============================================================================
