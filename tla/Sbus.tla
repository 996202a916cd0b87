-------------------------------- MODULE Sbus --------------------------------
(***************************************************************************)
(* Signals between the EE and the IOP over the SBUS flag registers         *)
(* (src/kernel/intr.c, func_80001D98 to func_80001FB0).                    *)
(*                                                                         *)
(* The IOP raises a bit of SMFLAG and the EE's SBUS interrupt; the EE      *)
(* handler takes one snapshot of the register and calls the handler of     *)
(* each bit in it, the highest first.  The EE raises a bit of MSFLAG and   *)
(* then pulses SBUS_STAT to interrupt the IOP.  The two processors run at  *)
(* the same time: registers may change between any two accesses.  The EE   *)
(* itself does one thing at a time, and callbacks may call back in.        *)
(***************************************************************************)
EXTENDS Integers, FiniteSets

CONSTANTS
    NBits,      \* number of flags (32 in the code)
    NUserBits,  \* flags below this one have user handlers (16 in the code)
    OutBits     \* the flags the EE raises

Bit == 0..(NBits - 1)

ASSUME BitsAssumption ==
    /\ NBits \in Nat \ {0} /\ NUserBits \in 0..NBits
    /\ OutBits \subseteq Bit

VARIABLES
    smflag,     \* SBUS_SMFLAG: bits the IOP raised and nobody acknowledged
    irq,        \* the SBUS interrupt is pending at the EE
    handler,    \* sbus_int_handler: "none", or who installed the handler
    disp,       \* the locals of func_80001D98
    owed,       \* ghost: bits raised while they had a handler, not called since
    msflag,     \* SBUS_MSFLAG
    iopIrq,     \* the interrupt the EE raises through SBUS_STAT
    sending,    \* the flag func_80001F40 has written without interrupting yet
    unseen      \* ghost: flags sent that the IOP has not taken

inVars  == <<smflag, irq, handler, disp, owed>>
outVars == <<msflag, iopIrq, sending, unseen>>
vars    == <<inVars, outVars>>

NoDisp   == [pc |-> "idle", flags |-> {}, bit |-> 0]
NotSending == -1

\* plzcw and the special case of bit 31 pick the highest bit of the word.
Highest(S) == CHOOSE b \in S : \A c \in S : c <= b

\* func_80002090 clears the handler table.
Init ==
    /\ smflag = {} /\ irq = FALSE
    /\ handler = [b \in Bit |-> "none"]
    /\ disp = NoDisp /\ owed = {}
    /\ msflag = {} /\ iopIrq = FALSE /\ sending = NotSending /\ unseen = {}

\* The EE is at a point where code outside the dispatcher runs.
EEFree == disp.pc \in {"idle", "call"} /\ sending = NotSending

-----------------------------------------------------------------------------
(* The handler table.  A cause is a C int: callers may pass any.           *)

\* func_80001E78: "cause >= 32u" compares unsigned, so a negative one fails too.
InRange(cause) == cause >= 0 /\ cause < NBits

SetHandler(cause, who) ==
    /\ EEFree
    /\ InRange(cause)
    /\ handler[cause] = "none"
    /\ handler' = [handler EXCEPT ![cause] = who]
    /\ UNCHANGED <<smflag, irq, disp, owed, outVars>>

\* func_80001EB8: the syscall's own test is signed, "cause >= 16".
SetUserHandler(cause) == cause < NUserBits /\ SetHandler(cause, "user")

\* func_80001EE8.
ClearHandler(cause) ==
    /\ EEFree
    /\ InRange(cause)
    /\ handler' = [handler EXCEPT ![cause] = "none"]
    /\ owed' = owed \ {cause}
    /\ UNCHANGED <<smflag, irq, disp, outVars>>

\* func_80001F10.
ClearUserHandler(cause) == cause < NUserBits /\ ClearHandler(cause)

-----------------------------------------------------------------------------
(* From the IOP to the EE.                                                 *)

\* External: the IOP raises a flag and the interrupt.
IopSignal(b) ==
    /\ smflag' = smflag \cup {b}
    /\ irq' = TRUE
    /\ owed' = IF handler[b] # "none" THEN owed \cup {b} ELSE owed
    /\ UNCHANGED <<handler, disp, outVars>>

\* The interrupt is acknowledged at the controller, then the register is read.
Take ==
    /\ disp.pc = "idle" /\ sending = NotSending
    /\ irq
    /\ irq' = FALSE
    /\ disp' = [NoDisp EXCEPT !.pc = "loop", !.flags = smflag]
    /\ UNCHANGED <<smflag, handler, owed, outVars>>

Picked == Highest(disp.flags)

\* A bit without a handler is dropped from the snapshot; its flag stays raised.
SkipBit ==
    /\ disp.pc = "loop" /\ disp.flags # {}
    /\ handler[Picked] = "none"
    /\ disp' = [disp EXCEPT !.flags = @ \ {Picked}]
    /\ UNCHANGED <<smflag, irq, handler, owed, outVars>>

\* AckBit that writes the whole snapshot to the register.
AckAll ==
    /\ disp.pc = "loop" /\ disp.flags # {}
    /\ handler[Picked] # "none" /\ Picked < NUserBits
    /\ smflag' = smflag \ disp.flags
    /\ disp' = [pc |-> "acked", flags |-> disp.flags \ {Picked}, bit |-> Picked]
    /\ UNCHANGED <<irq, handler, owed, outVars>>

\* The flag of a user bit is acknowledged before its handler is called.
AckBit ==
    /\ disp.pc = "loop" /\ disp.flags # {}
    /\ handler[Picked] # "none" /\ Picked < NUserBits
    /\ smflag' = smflag \ {Picked}
    /\ disp' = [pc |-> "acked", flags |-> disp.flags \ {Picked}, bit |-> Picked]
    /\ UNCHANGED <<irq, handler, owed, outVars>>

CallUser ==
    /\ disp.pc = "acked"
    /\ disp' = [disp EXCEPT !.pc = "call"]
    /\ owed' = owed \ {disp.bit}
    /\ UNCHANGED <<smflag, irq, handler, outVars>>

\* The handler of a kernel bit is called directly, its flag still raised.
CallKernel ==
    /\ disp.pc = "loop" /\ disp.flags # {}
    /\ handler[Picked] # "none" /\ Picked >= NUserBits
    /\ disp' = [pc |-> "entered", flags |-> disp.flags \ {Picked}, bit |-> Picked]
    /\ UNCHANGED <<smflag, irq, handler, owed, outVars>>

\* External: a kernel handler acknowledges its flag before it does its work.
KernelAck ==
    /\ disp.pc = "entered"
    /\ smflag' = smflag \ {disp.bit}
    /\ disp' = [disp EXCEPT !.pc = "call"]
    /\ owed' = owed \ {disp.bit}
    /\ UNCHANGED <<irq, handler, outVars>>

\* The flag acknowledged after the call too, and the register read again after it.
HandlerReturnAcks ==
    /\ disp.pc = "call" /\ sending = NotSending
    /\ smflag' = smflag \ {disp.bit}
    /\ disp' = [disp EXCEPT !.pc = "loop", !.bit = 0]
    /\ UNCHANGED <<irq, handler, owed, outVars>>
HandlerReturnRereads ==
    /\ disp.pc = "call" /\ sending = NotSending
    /\ disp' = [pc |-> "loop", flags |-> smflag, bit |-> 0]
    /\ UNCHANGED <<smflag, irq, handler, owed, outVars>>

\* The callback is over and the loop goes on with its snapshot.
HandlerReturn ==
    /\ disp.pc = "call" /\ sending = NotSending
    /\ disp' = [disp EXCEPT !.pc = "loop", !.bit = 0]
    /\ UNCHANGED <<smflag, irq, handler, owed, outVars>>

Done ==
    /\ disp.pc = "loop" /\ disp.flags = {}
    /\ disp' = NoDisp
    /\ UNCHANGED <<smflag, irq, handler, owed, outVars>>

-----------------------------------------------------------------------------
(* From the EE to the IOP: func_80001F40, with interrupts off.             *)

\* The test of func_80001F40 and its store to SBUS_MSFLAG.
SendFlag(cause) ==
    /\ EEFree
    /\ InRange(cause)
    /\ msflag' = msflag \cup {cause}
    /\ sending' = cause
    /\ unseen' = unseen \cup {cause}
    /\ UNCHANGED <<inVars, iopIrq>>

SendUserFlag(cause) == cause < NUserBits /\ SendFlag(cause)

\* Only the first half of the pulse.
SendPulseLow ==
    /\ sending # NotSending
    /\ sending' = NotSending
    /\ UNCHANGED <<inVars, msflag, iopIrq, unseen>>

\* The pulse of SBUS_STAT, 0x100 and then 0x40100.
SendPulse ==
    /\ sending # NotSending
    /\ iopIrq' = TRUE
    /\ sending' = NotSending
    /\ UNCHANGED <<inVars, msflag, unseen>>

\* External: the IOP acknowledges its interrupt, then takes the flags.
IopTake ==
    /\ iopIrq
    /\ iopIrq' = FALSE
    /\ msflag' = {}
    /\ unseen' = unseen \ msflag
    /\ UNCHANGED <<inVars, sending>>

-----------------------------------------------------------------------------
Dispatch == SkipBit \/ AckBit \/ CallUser \/ CallKernel \/ KernelAck \/ Done

Next ==
    \/ \E cause \in (-1)..NBits :
          \/ SetHandler(cause, "kernel") \/ SetUserHandler(cause)
          \/ ClearHandler(cause) \/ ClearUserHandler(cause)
    \/ \E b \in Bit : IopSignal(b)
    \/ Take
    \/ Dispatch
    \/ HandlerReturn
    \/ \E cause \in OutBits \cup {-1, NBits} : SendFlag(cause) \/ SendUserFlag(cause)
    \/ SendPulse
    \/ IopTake

\* The EE runs its handlers, and takes a pending interrupt sooner or later between
\* syscalls, where interrupts are on; callbacks return, whatever they send first;
\* the IOP services its interrupt.
Fairness ==
    /\ SF_vars(Take) /\ WF_vars(Dispatch) /\ SF_vars(HandlerReturn)
    /\ WF_vars(SendPulse) /\ WF_vars(IopTake)

Spec == Init /\ [][Next]_vars /\ Fairness

-----------------------------------------------------------------------------
(* Properties.                                                             *)

TypeOK ==
    /\ smflag \subseteq Bit /\ irq \in BOOLEAN
    /\ handler \in [Bit -> {"none", "user", "kernel"}]
    /\ disp \in [pc : {"idle", "loop", "acked", "entered", "call"}, flags : SUBSET Bit, bit : Bit]
    /\ owed \subseteq Bit
    /\ msflag \subseteq Bit /\ iopIrq \in BOOLEAN
    /\ sending \in Bit \cup {NotSending} /\ unseen \subseteq Bit

\* A signal that is owed a call is on its way: its flag is raised and either the
\* interrupt is pending or the snapshot still holds the bit, or its call is next.
NoSignalLost ==
    \A b \in owed :
        \/ b \in smflag /\ (irq \/ b \in disp.flags)
        \/ disp.pc \in {"acked", "entered"} /\ disp.bit = b

\* No signal is answered twice: a bit the dispatcher has yet to serve is still
\* raised, however long ago func_80001D98 took its snapshot.
SnapshotFresh == disp.flags \subseteq smflag

\* A flag sent to the IOP has an interrupt behind it until the IOP takes it.
NoFlagForgotten ==
    \A b \in unseen : b \in msflag /\ (iopIrq \/ sending # NotSending)

\* Every signal raised while its bit has a handler leads to a call of it (or the
\* handler is removed): the snapshot keeps high bits from starving low ones.
SignalsAnswered == \A b \in Bit : b \in owed ~> b \notin owed

\* Every flag the EE raises reaches the IOP.
FlagsArrive == \A b \in OutBits : b \in unseen ~> b \notin unseen


\* Every word sent over the SBUS arrives, in both directions at once.
WordsArrive == SignalsAnswered /\ FlagsArrive
=============================================================================
