# A model of the EE kernel and of its permuter

TLA+ specifications of what this repository holds: the PlayStation 2 EE kernel
as far as it is decompiled (interrupt handlers, SBUS signals, alarms), and
decomp-permuter, the program in `tools/` that searches for C code that compiles
to a given function. TLC checks them on small instances. TLAPS proves the handler
registry and its dispatch for any number of slots, causes and channels, and that
its linked rings behave as sequences; the signals for any number of flags, the
alarms for any number of them and any width of the counter; the safety of the
permuter's search, in one process or in many, for every invocation; and that of
its evaluator, its server with the controller, and the server's menu, for any
permuters and work. Paths below are relative to the
repository; `DP` is `tools/decomp-permuter`.

## The kernel

The repository holds the kernel's source as far as it has been decompiled.
Functions keep their addresses as names; the rest of the kernel exists only as
assembly that is split from a binary and is not part of the repository. What is
there:

| Component | Source | State | Operations |
|---|---|---|---|
| Handler registry | `src/kernel/intr.c` 51-71, 154-303, 422-526 | pool `D_8001B410`, slots `int_handler[1..128]`, `intc_queue`, `dmac_queue`, `D_8001B400` | add, remove, enable, disable, count, init, reset |
| Dispatch | `src/kernel/intr.c` 73-152 | locals of the walk, the VSYNC pointers | INTC and DMAC irq handlers |
| SBUS signals | `src/kernel/intr.c` 305-420 | `sbus_int_handler[32]`, `SBUS_SMFLAG`, `SBUS_MSFLAG`, `SBUS_STAT` | set and clear handler, irq handler, send a flag |
| Alarms | `src/kernel/alarm.c` | bitfield, count, 64 alarms, queue, timer 3 | SetAlarm, ReleaseAlarm, timer irq handler, init |
| Vectors | `src/kernel/vec.s` | `user_context`, the kernel stack, the handler tables | exception, interrupt and syscall entry |
| Console | `src/kernel/sio.c` | UART and PIF registers | putc, status handler, puts |
| DECI2 | `src/kernel/deci2.c`, `deci2kprt.c` | 16 sockets | panic, socket test; the protocol is assembly |
| Queue, sprintf | `src/kernel/queue.c`, `sprintf.c` | | assembly only |
| Headers, symbols | `include/`, `config/` | | register addresses, linker symbols |
| Build and tools | `configure.py`, `tools/*.py` | | splitting, ninja rules, context files |

How they interact. An interrupt goes through the vector table to one of three
handlers: the INTC walk, the DMAC walk, or, for the SBUS and timer 3, a handler
that `func_80002090` installs in place of the walk. Each of them calls
callbacks. A user callback runs in user mode (`func_800029C0`) and may make any
syscall from there: the registry, the SBUS table and the alarms are therefore
entered again in the middle of the loop that called it. There is no
preemption inside the kernel: handlers and the interrupt-safe syscalls run with
interrupts off. The hard behaviours follow:

- a ring that changes under the walk that follows it, a counter that changes
  under the loop that is bounded by it;
- slots that are freed and used again while a walk holds a pointer to them;
- error returns half way, and a reset that keeps one queue;
- flags raised by another processor while the dispatcher works through a
  snapshot of them;
- a timer whose compare register must always be ahead of a counter that wraps.

What makes the components correct:

- the rings are doubly linked and whole, counters count what they stand for, the
  pool holds the free slots and no others;
- an interrupt calls each enabled handler of its queue once, no other, ends, and
  never takes a list head for a handler;
- no signal between the processors is lost, and each is answered;
- an alarm ends on the tick it was set for, and the queue, the count and the
  bitfield agree.

## The permuter

decomp-permuter is many programs in one: a search loop over processes and
machines, a macro language, a randomizer of C functions, and a C parser and
printer with the parser generator that makes its tables.

| Component | Source | State | Operations |
|---|---|---|---|
| Permuter objects, loop in one thread | `DP/src/permuter.py`, `candidate.py`, `main.py` 107-240, 418-438 | best score, hashes, score cache, the candidate kept; the list of iterators | evaluate a seed, keep a candidate, post a score, cycle over permuters |
| Work distribution | `DP/src/main.py` 241-280, 440-597, `net/client.py` | two queues, iterators, active workers; each process's own permuters | hand out tasks, workers, connections, the words to stop |
| Evaluator | `DP/src/net/evaluator.py` | permuters, work counts, timestamps, four kinds of queue | add, remove, work, done |
| Server and controller | `DP/src/net/server.py`, `net/controller/src/server.rs` | active permuters, start times; jobs, credits | messages either way, kicks, failures |
| Server process | `DP/src/net/cmd/run_server.py` | tray slots, reconnecting, one queue | the events of its main loop |
| PERM macros | `DP/src/perm/` | the seeds of a pass, the cache of parsed sources | parse, count, evaluate, swap lines |
| Randomizer | `DP/src/randomizer.py`, `ast_util.py` | the function's tree | 33 passes |
| Parser generator and engine | `DP/perm_pycparser/ply/yacc.py` | grammar, automaton, tables; two stacks | add rules, FIRST, FOLLOW, LALR, parse, recover |
| C syntax tree | `DP/perm_pycparser/c_ast.py`, `_ast_gen.py`, `_c_ast.cfg` | | visit |
| C parser and generator | `DP/perm_pycparser/c_parser.py`, `ast_transforms.py`, `c_generator.py` | | parse, print |

How they interact. The PERM macros of a source make a candidate for each seed;
its text is parsed once per text and the tree shared; the randomizer changes a
copy of the tree, the generator prints it, a compiler and a scorer judge it, and
the Permuter object remembers the result. Seeds are handed to worker processes
over a queue, or over a connection to a controller, which hands them to servers,
which hand them to an evaluator with workers of its own. Hard here:

- every process has its own copy of what has been found, and decides with it
  what is worth sending;
- a permuter and its work travel in different queues, and either may be removed,
  thrown out by a user or lost with its connection while the other is on its way;
- counts, credits and words to stop must balance over all these queues;
- trees are shared, numbered and edited by passes that were each written for a
  tree that none of the others had touched;
- grammars, tables, printing and parsing have their corners, and a mistake is a
  candidate that silently is another function.

What makes it correct: each seed is tried once and its result judged as if there
were one process; everything that was begun ends or is answered; the candidates
of a source are exactly the variations its author wrote; the randomizer's
equivalences mean the same, and no pass loses a call or uses a node twice; the
tables accept the grammar's language; what is printed is read back as it was.

## Modules

| Module | What it is |
|---|---|
| `HandlerList` | `struct list_head` rings as values: `Unlink`, `InsertBefore`, and what it means for a heap to be `Threaded` and to have `NoLoop` |
| `Intr` | registry and dispatch; every operation and its interleaving with the walk |
| `HandlerRegistry` | what they promise, with sequences for rings and a position for the walk |
| `IntrRings` | the rings read as sequences, and the refinement mapping from `Intr` to `HandlerRegistry` |
| `MCIntr` | constants of the TLC runs of `Intr` |
| `IntrProofs` | what unlinking and inserting preserve, type correctness, the registry's invariants, and the invariants and action properties of the walk |
| `RingProofs` | every step of the linked rings is a step of `HandlerRegistry` |
| `Sbus`, `MCSbus` | the SBUS signals, both directions |
| `SbusProofs` | the safety of the SBUS signals |
| `CountProofs` | least and greatest elements of sets of numbers, induction as a fact about sets, counting in sequences, an element taken out of one or put in |
| `Alarm` | the alarms |
| `AlarmProofs` | the safety of the alarms |
| `Permuter` | a Permuter object: `Evaluations`, `ShouldOutput`, `RecordResult`; the fields of an invocation (`plan`) |
| `PermSingle` | `cycle_seeds` and `post_score` in one thread |
| `PermRun` | main loop, workers and connections |
| `PermMain`, `MCPermMain` | both under the test of `run_inner`; nine invocations |
| `PermSingleProofs` | the invariant of the loop in one thread |
| `PermRunProofs` | the invariant of the main loop, workers and connections; the theorems about `PermMain` |
| `Evaluator` | the evaluator's main loop, reader and workers |
| `NetServer` | the server's main loop and the controller's end of its connection |
| `ServerIo` | the server process: main loop, tray menu, reconnects |
| `MCServer` | the three, each against what the others promise |
| `ServerProofs` | the invariants of the evaluator, the server with its controller, and the menu; the theorems about `MCServer` |
| `PermTree`, `PermEval`, `PermMacros` | PERM macros as trees; their parser and evaluation; seeds, line swaps and cache |
| `CTree` | the randomizer's trees, their numbering and the helpers that read them |
| `RandExprs`, `RandStmts`, `RandVars` | the passes: expressions, statements, variables |
| `Randomizer` | one random pass after another |
| `CMeaning` | what a function does when it runs: a reference for the passes |
| `MCCandidates` | macros and passes, sources and functions |
| `GrammarRef` | what nullable, FIRST, FOLLOW and productive mean: a reference |
| `Grammar` | class Grammar and its checks in `yacc()` |
| `LRTable` | the LR(0) automaton, lookaheads, tables, conflicts |
| `LRParser` | the engine with error recovery, any lexer, several kinds of `p_error` |
| `MCYacc` | grammars to try |
| `CAst` | the classes of the syntax tree, generated and as checked in, and a visit |
| `CNodes`, `CParse`, `CGenerate` | nodes, the parser by recursive descent, the generator to tokens |
| `RoundTrip` | trees grown by the parser's productions, printed and parsed |
| `MCText` | classes and trees |

Definitions named like `UnlinkNextOnly` or `InLoopOneMore`, longer than the name
they begin with, are slips one could make in the definition that follows them. Nothing
uses them; replacing the definition by one of them makes TLC report the property
that the definition is there for, which shows that the property can tell the
difference.

### Intr

INTC causes and DMAC channels run the same code on two arrays, so a queue is an
element of `IntcQueue \cup DmacQueue` and each action stands for the function of
either family. A slot is its index in `int_handler`; `links` is the `list_head`
of all slots, all queues and the pool. `entries`, `used` and `state` are the
fields and words of the same meaning. `walk` holds the locals of the running
handler, with `pc` = `loop` at the loop's test and `call` inside a callback.
Ghosts: `owner` says which list a slot is on (or `LEAKED`), and four fields of
`walk` keep its history.

| Action | Code |
|---|---|
| `AddHandler` | `func_800018F0`, `func_80001B50`: pop, fill in, test `next`, insert, count |
| `RemoveHandler` | `func_80001AB0`, `func_80001CF8` |
| `EnableHandler`, `DisableHandler` | `func_80001FE0` to `func_80002058` |
| `Reset` | `func_800021F0` |
| `IrqEnter` | entry of `func_80001670`, `func_800017D8` |
| `LoopSkip`, `LoopCall`, `LoopHead` | one turn, for a disabled slot, an enabled one, and a queue head reached by a stale link |
| `CallReturn`, `CallAbort`, `LoopEnd` | a callback's result, the end of the loop |

A head has no `state` field: what the code reads there is whatever lies behind the
head in memory, so `LoopHead` either passes on or jumps wildly (`pc` = `wild`).
`LoopCall` jumps wildly, too, for a slot of the pool that a stale id has enabled,
whose function is null (`Called`). That needs four slots (a walk that stands on a
removed slot, a second pool slot behind it, and two handlers left to keep the loop
turning), more than the runs have: only the proofs cover it.

Two constants say what the environment does. `UnsafeEdits` is what callbacks do to
the part of the ring the walk has already passed, including the handler that is
running: `never`; `then_abort`, edit it and return a negative result, which leaves
the walk at once; or `free`. The code checks little of what it is given, and
`Lapses` names what callers may get wrong. Without a lapse `next`
is -1, 0 or a handler of the same queue, a handler is removed from the queue it
was registered for, ids that are enabled or disabled are registered, and a reset
finds nothing registered for the SBUS.

| Lapse | Callers also | What TLC finds |
|---|---|---|
| `bad_next` | pass a `next` that is free or out of range | the slot is leaked (finding 1); lists and counters stay exact |
| `foreign_next` | pass a handler of another queue | the slot sits on that queue's ring and counts for its own: `WellLinked` fails, `EditsHarmless` holds |
| `stale_id` | enable or disable any slot | a pool slot does not look free: `FreeMeansPooled` fails, `EditsHarmless` holds |
| `stale_next` | pass a slot on no queue that does not look free, which the first or third lapse has left | a new slot on a leaked slot's list or in the pool: `RingsWhole` fails |
| `reused_next` | pass the id that the same call will hand out | a slot linked in front of itself: `RingsWhole` fails |
| `stray_remove` | remove a slot under any queue | another queue is counted down: `CountersExact` fails |
| `sbus_reset` | reset with handlers on the SBUS queue | a slot in the pool and on a ring: `RingsWhole` fails |

The run `free_edits` has the first three, the mild ones. In `dispatch`, and in what
is said of the walk's steps (`NeverWild` and the like), callers have no lapse: with a
`next` of another queue a walk runs through a foreign head, and counts to the wrong
end. The proofs add `bad_next`.

Left out: what a handler, its `gp` and its `arg` are; the value the VSYNC
pointers receive (their presence is `vsync`); the message for an interrupt
without a handler, which sets nothing; early returns, which are stuttering.

### Sbus

The IOP is external: it raises bits of `SMFLAG` with an interrupt, and takes
bits of `MSFLAG` when interrupted. Between any two accesses of the EE it may do
either. The dispatcher is cut at each access: `Take` (the snapshot), `SkipBit`,
`AckBit` and `CallUser` for the low bits, `CallKernel` for the high ones, whose
handlers acknowledge themselves (`KernelAck`), `HandlerReturn`. `SendFlag` and
`SendPulse` are the two halves of `func_80001F40`. A cause is an int and callers
pass values on both sides of the range. `owed` and `unseen` are ghosts: signals
whose call, and flags whose receipt, is still to come.

### Alarm

Time is modulo `Wrap`. `ReleaseAlarm`, `IrqEnter`, `Fire` and `CallReturn`
follow the C of `func_800025B0` and `func_80002690`. The C of SetAlarm
(`func_80002318`) stops before the queue and the timer are written; the rest is
external and modelled from what the irq handler relies on: the queue is in
firing order and `T3_COMP` is the first alarm's time. `left` is a ghost: the
ticks until an alarm should fire. A time is 1 to `Wrap` - 1. The code takes a 0
(`alarm.c:37`), but whether an alarm that ends on the present tick fires at once or
a turn later is decided by the assembly that writes `T3_COMP`, and by when the timer
compares; the repository holds neither. `Tick` assumes what the code assumes, that the
interrupt is taken within a tick and that callbacks are over before the next
alarm is due.

### Permuter, PermSingle, PermRun, PermMain

A source text is a member of a small set, and compiling it is `Score` and `Hash`.
`Evaluations` is `try_eval_candidate` with every raise, and leaves the candidate
kept and the score as the code does, which sets them at different moments.
`PermSingle` is one action for an exhausted iterator and one for a turn. `PermRun`
is cut at each queue operation: `Main*`, `Worker*` and `Conn*` name the side. A
non-blocking `get` may miss what was just put (`WorkerMiss`). The other end of a
socket (`Server*`) asks within a window, answers, drops its work or goes away.
`posted`, `written` and `missed` are ghosts: the tasks whose result was posted,
the sources the main process wrote, and whether a result came without its text
when the main process would have written that source for the first time. A server
works with several processes (`Cores`), each with its own Permuter (`objs`), which
`evaluator.py:93` makes without the user's options: `served` says so, and such an
object keeps and sends what `--best-only`, `--better-only` and a threshold would
not. Left out: printing, writing of files, profiling.

### Evaluator, NetServer, ServerIo

In `Evaluator` the server is the environment, under its own rules (an id comes and
goes once, work only for what was acknowledged); a task is one message, the main
loop and each worker one action per message kind; `failure` is any assertion or
failed look-up. `NetServer` has the server's one main queue with every message in
it, and the controller's `server_read` and `server_choose_work`; energy, which
picks among permuters, is left open, so that any may be picked. Credits are
counted in halves, as `more_work_acc` is in floats that are halves or ones. The
evaluator is what module `Evaluator` promises (`EvalInit`, `EvalResult`), and
`EvaluatorUsedWell` checks what that module assumes of the server. `stop` closes
the evaluator's port while the main loop may still have messages before its
shutdown; the first it would send on ends it with an exception in its thread
(`WriteFails`). `ServerIo` has the token of each message, the slots, the timer
thread and the reader thread with its two reads of one slot; a reconnect that can
start no evaluator ends the process by `SystemExit`, which `run_server.py:548`
does not catch.

### PermTree, PermEval, PermMacros

A source is a sequence of tokens, white space left out but for line ends. The tree
an author means is written out as tokens, parsed by `perm_parse`, and evaluated by
a seed (both in `PermEval`, which `PermMacros` takes as its CONSTANTs), with
escaped commas put back; a source that breaks a macro's rules is `Bad`. `Eval`
returns the text and a state, as the code's does. Line swaps are carried out in
the parsed function, with the cache of parsed functions shared or copied. A pass
over the seeds is `draw`, `collect`, `next_rest`, `pass_ends`, which are the four
ends of the code's loop.

### CTree, RandExprs, RandStmts, RandVars, Randomizer

Nodes have an identity where the code keeps nodes in dictionaries. A pass is the
set of functions it can leave, over all of its random choices; where it is empty
the code raises `RandomizationFailure`. 27 of the 33 passes are there. All
expressions are ints or pointers to int, a pointer plus or minus an int among them.

### Grammar, LRTable, LRParser

`Grammar` adds rules and grows FIRST and FOLLOW in any order, which covers the
order of the code's dictionaries. `LRTable` keeps states as sequences, as the code
knows them by the order of their items; DeRemer and Pennello's relations and their
traversal are in it, and conflicts are resolved at the second item, as the code
does, two reductions by the lines of their rules. The lists of conflicts that are
kept for the log are left out. `LRParser` is `parseopt_notrack`: defaulted states,
the pushed-back lookahead, recovery and rules that raise. Two ghosts say where
such a rule has left something wrong: `blind`, a None among the tokens put back,
and `unpopped`, how far the stack of symbols is ahead of that of states.
`parseopt` and `parsedebug` are the same steps with places or a log.

### CAst, CNodes, CParse, CGenerate, RoundTrip

`CAst` has the configuration's lines and the classes as checked in, and walks
`__iter__`. `CParse` reads each nonterminal by a recursive function with the
conflicts settled as the tables settle them; `CGenerate` prints tokens, glued
where the generator puts no blank. `RoundTrip` grows a tree by one production at
a time, prints it and reads it back by its CONSTANT `Read`, which is `Parse`.

## What TLC checks

| Run | Instance | Shows |
|---|---|---|
| `dispatch` | 3 slots, 2 causes (one redirected), 1 channel, `then_abort` | lists, counters and pool exact while `next` is of the same queue; the walk in step with the ring, never wild, no handler missed, called twice or called for another queue; `Intr` implements `HandlerRegistry`, fairness included |
| `free_edits` | 2 slots, `free`, the mild lapses | wherever callbacks edit, the rings together stay whole and counters exact; the walk is bounded and ends. It may leave its ring: `NeverWild` does not hold here |
| `sbus` | 3 bits, 2 of them user bits, 1 sent | no signal lost or served twice in either direction; each answered |
| `alarm` | 3 alarms, `Wrap` = 4 | alarms fire on their tick in order, also over the wrap; elapsed time right |
| `search` | 9 invocations (`MCPermMain`), one with a server of two processes | every seed once, results judged as if there were one process, all told to stop once; the search ends |
| `server` | 2 ids, 2 workers, 2 pieces of work; 2 ids, 2 pieces; menus of 2 ids and 1 slot, 3 connections, or 3 ids and 2 slots | the evaluator counts exactly and its workers follow it; server and controller raise nothing and agree; credits are kept; slots, permuters and reconnects agree; the evaluator is used as it assumes; everything is answered |
| `yacc` | every grammar of 3 rules over 2 names; some 1400 grammars for tables; some 370 for parsing, inputs of 4 or 5 tokens; rules that raise in states that look at the token or do not, with symbols or none; reductions on any lines | sets, lookaheads and conflicts are what they mean; the engine accepts the language and recovers in order, but where it loses its input or its place as named below |
| `candidates` | over 100 sources with macros in macros, escaped commas, and some that are refused; functions for 27 passes, 256 straight pieces of code, passes two in a row | candidates are the variations meant; meaning, calls and the tree survive the passes |
| `c_text` | every class with up to 2 items in a list; trees of 3 or 4 productions | visits follow the text; what is printed is read back, but for exactly the forms named below |
| `leak` | bad `next` | finding 1 |
| `alarm_release` | any release | finding 2 |
| `alarm_same_tick` | two alarms on one tick | finding 3 |

Most properties in the configurations are conjunctions of named parts. The parts
stand beside the code they are about, each with its own comment, and a conjunction
says what they mean together: `ListsSound` in `Intr`, `AlarmsInStep` in `Alarm`,
`EachSeedOnce` and its neighbours in `PermMain`, and those of `MCServer`,
`MCYacc`, `MCCandidates` and `MCText` in these modules. TLC names the conjunction;
to find the part, give the parts to a configuration one by one.

Several runs hold machines that never meet: `search` chooses one thread or many,
`server` one of three processes, `yacc` the grammar or the parser, `candidates`
macros or passes, `c_text` classes or trees (`part`). The choice is made in the
first state, and the parts not chosen stand still. Where the parts do meet, each
is checked against the environment that the other promises: the evaluator inside
`NetServer` answers as module `Evaluator` does, and `EvaluatorUsedWell`
shows that the server keeps to what `Evaluator` assumes.

### Bounds

The kernel. Three slots make a ring with a first, a middle and a last handler,
leave slots to be in the pool or on another queue, and exhaust the pool; removal
and insertion before, at and behind the walk's place all differ. Two slots are
enough for free edits, where a walk that steps onto another list already has two
lists to step onto; the call of a null function (`Called`) needs four and is left
to the proofs, which remove the bound for the safety properties. One redirected
cause shows the handlers that are registered and never walked. Of SBUS bits two
user bits show the order of service and starvation, one kernel bit the other
branch, and one bit sent is raised again before and after the IOP takes it.
Alarms: three give the queue a middle and leave one alarm behind the two that the
irq handler looks at; four ticks let the counter wrap between any two events.

The search. `SingleList` has permuters with three, one and three seeds, so that an
iterator runs out before, between and behind others; its sources are one of each
kind that the tests of `permuter.py` tell apart (better, worse, a tie, the base's
own object code, a match, one that raises). `SingleRandom` has a cache of two and
two sources for one object code; `MaxRounds` = 8 ends it. Two workers suffice for
one to find what the other has not been told; three seeds for the queue to hold a
task, a worker one and the iterator one. With a connection, `window` limits what a
server asks for ahead, and its two processes find out different things. In
`Zeroes` two seeds print one source that matches, which is never in the hashes.
The proofs remove these bounds, too, for all but `SearchEnds`.

The server. With two ids one can be removed while the other works; two workers
learn of it at different times; two pieces of work per permuter are the first and
the last. `MaxQueue` = 2 in `ServerIo` bounds unread messages, `starts` the
connections; `MCSetups` holds the menus tried. One slot for two permuters makes one
wait; three connections make one be reported late twice. The proofs remove these
bounds, too, for all but `EverythingAnswered`.

Grammars. Three rules over two names, one token and one literal reach empty
rules, recursion on either side, loops, unused and infinite names. For tables,
two rules for each of two names make relations with cycles; named grammars add
what small families lack: `Twice` (lookaheads inside a loop), `Wide` (states with
several kernels), operators of every side and precedence, dangling else, error
rules. Inputs of four or five tokens reach one error, recovery from it, and a
second error within the three tokens that recovery waits. `Unseen`, `Early`, `Later`
and `EmptyUnseen` have rules that raise: at the end of a statement in a state that
does not look, and empty ones at the start, behind a token, and where the state does
not look.

Functions. The starts of a plan are written so that each pass finds something to
do, and something that it must not do; all random choices of a pass are taken.
`MeaningKept` runs functions in three environments (distinct values either way
round, zeros).

Trees. A plan grows a tree from the leaves, by any three of the productions that the
module has (four for statements and for the patched generator), as operand on either
side, condition, body, initializer, dimension, width, alignment, designator or case
where the grammar takes it, which puts any operator or declarator beside any other
and an `else` three ifs deep. The rest of a tree is small and fixed; a tree with two
large sub-nodes is not tried.

### Deadlock and fairness

`dispatch`, `sbus` and `alarm` run with deadlock checked. In `free_edits` a wild
jump is the end of the model; the other programs end.

`Intr`: the processor goes on with a walk it has begun, and callbacks
return; no interrupt is assumed to come and no operation to be called. `Sbus`:
the same, and a pending interrupt is taken, in strong form, because syscalls
with interrupts off come and go; the pulse follows the flag, since interrupts
are off between them; the IOP serves its interrupt. `Alarm`: the counter goes on
(strongly, since the model holds it back while an interrupt waits), the
interrupt is taken and callbacks return. `PermMain`: the operating system runs
every process and thread of the search; a server at the other end of a
connection promises nothing. `MCServer`: it runs every thread; users, clients and
the network promise nothing. A worker's queue is looked at with a timeout, so
weak fairness of `WorkerEmpty` is that timeout. `MCYacc`: loops of one thread; the
user may stop adding rules. `candidates` and `c_text` check no liveness.

## Findings

With a run of their own:

1. `leak`, `intr.c:188`. A bad `next` returns -1 after the slot was popped, counted
   and marked registered. No queue holds it and nothing but a reset frees it; 128 such
   calls use the pool up. `D_8001B400` is commented "number of used int handlers"
   (`intr.c:25`), and counts it.
2. `alarm_release`, `alarm.c:89`. ReleaseAlarm shifts out the first entry of the
   queue whatever id it releases, as the comment above the loop suspects.
3. `alarm_same_tick`, `alarm.c:115`. With two alarms on one tick the irq handler
   leaves the compare interrupt on, fires both and is left with an empty queue;
   65536 ticks later it is called again, fires an alarm that is not set and counts
   down to -1.

Met while modelling. The models have these, as the code does; the properties or
instances leave out the case, and what is in brackets brings it back.

Kernel:

- `intr.c:500`. Reset skips the SBUS queue and gives all slots to the pool: a
  handler on that queue is then free and still linked from it. It takes
  `func_80001A90` with `INTC_SBUS` before a reset; no caller of it is in the
  repository. [the lapse `sbus_reset`]
- `intr.c:187`, `262`, `228`, `424`, `431`. `next` may name a handler of another
  queue, a slot on no list or the slot just popped; an id is removed under any cause,
  and enabled or disabled wherever it is. [the other lapses, in the table of `Intr`]

Search and network (`DP/src`):

- `main.py:234`. After an iterator is dropped the index steps back once too often:
  the permuter before it has two turns in a row. Every seed still has its turn.
- `permuter.py:178`. After an exception the old score stays with the new candidate:
  a candidate that did not score 0 may be dropped and one that did kept.
  So too with `--seed`, where every candidate is kept (`permuter.py:176`), against the
  comment at `permuter.py:170`. [`ZeroNotKept` without its premise]
- `main.py:165`. `--abort-exceptions` calls sys.exit while worker processes wait on
  their queue, and they are joined on the way out: the program hangs. [`Abort` in
  `MCPermMain` stays in phase `exit`; `RunEnds` excludes it]
- `net/server.py:541`. A user throws a permuter out between its first message and
  the evaluator's answer: controller and server then disagree about its job.
  [`MessagesFit` without `kicked = {}`]
- `net/cmd/run_server.py:314`. The reader thread looks at a menu slot and reads it
  again after the main loop may have emptied it: a removal without an id ends the
  process. [`SendRemove`, `TakeRemove`]

Parser generator (`DP/perm_pycparser/ply/yacc.py`):

- 1887: with a start symbol given to `compute_follow`, `$end` goes to the first
  rule's name.
- 2177: a goto set reached in two orders of its items is a state made twice, as
  states are known by the order of their items. `GotosExact` compares them as sets.
- 1125 and 1159: a rule that raises SyntaxError in a defaulted state puts back a
  lookahead that is None. It comes out again as `$end` (1066): the parser ends or
  reports an error there, and the rest of the input is never read. [`EndIsEnd` without
  `blind`]
- 1160: a rule that raises and has an empty right side still takes a state off (as
  the other branch does, where a state stands for the last symbol). The stack of
  symbols is then one ahead for ever, or the stack of states empty and the next line
  an IndexError. [`StacksInStep` without `unpopped`]
- 1264: an error token that comes to a state which reduces an empty rule by default is
  popped with the name of that rule and made again for ever. [`ParseEnds` without
  `SpinsOnError`]
- 1072: a defaulted state reduces without a look at the token, so an error is seen
  later than by a table with lookaheads. `RejectsOnlyWrong` allows for it.

PERM macros and randomizer:

- A `PERM_ONCE` inside a choice that is not taken still counts as the one to be
  expanded, so that none is. [`KeysOnce` for all sources]
- Seeds of a pass repeat where one variation is written twice; a `PERM_VAR` that
  holds a line swap is read twice; line swaps inside line swaps are counted apart.
- A temporary may overwrite a variable, and `perm_expand_expr` remove a write that
  is still read, behind a jump or across a loop. `MeaningKept` is about the
  passes and functions in which neither can happen.

Printer and parser (`RoundTrip` says that a tree comes back different exactly when it
has one of the forms in `Misprinted`):

- the left side of an assignment is printed bare (`c_generator.py:131`): `(a = b) = c`
  and `(a ? b : c) = d` change sides;
- a comma or an assignment in a case, a width, an alignment, a designator or a
  dimension is printed bare, though the grammar takes it there in parentheses only;
- a compound literal that is a statement gets no semicolon (`c_generator.py:445`);
- a statement expression alone as an operand loses its parentheses
  (`c_generator.py:54`);
- a typedef loses its attributes (`c_generator.py:168`), a declaration its second
  `_Alignas` (471), the second declarator of a `for` its pointer or array (148);
- an `else if` printed for a block moves the outer `else` to the inner `if`
  (`ast_util.py:92`), outside the function that is permuted;
- a variable as an index in an initializer is printed as a member
  (`c_generator.py:353`);
- an unnamed `[*]` takes its closing bracket for the dimension
  (`c_parser.py:1596`), `sizeof(int) * x` is read as a cast (1847), and a label
  before a semicolon is two statements (1678);
- sub-nodes that some classes do not yield to a visitor, and pairs it meets out of
  order, as in a do-while (`c_ast.py:549`): named in `CAst` (`Silent`, `Crossing`).

## What is proved

`PROJECT.json` lists every theorem with the property it is about. A property's
run checks it on the instances above; the theorem says it of every value of the
constants that the named assumptions allow.

The proofs about `Intr` hold for every number of slots, every set of causes and
channels and every `VSyncArgs`, under the assumptions in `Intr` (heads, slots and
the pool are different things).

| Theorem | Property | Needs |
|---|---|---|
| `TypeCorrect` | `TypeOK` | nothing: also with every lapse of callers |
| `RegistrySound` | the lists' parts and `CountersExact` | callers' only lapse is a bad `next` |
| `ListsAreSound` | `ListsSound` | the same |
| `EditsAreHarmless` | `EditsHarmless` | callers' lapses are mild: `bad_next`, `foreign_next`, `stale_id` |
| `WalkStaysInStep` | `WalkInStep` | as `ListsAreSound`, and `UnsafeEdits # "free"` |
| `WalkIsNeverWild` | `NeverWild` | the same |
| `NoHandlerIsMissed` | `NoneMissed` | the same |
| `HandlersRunOnce` | `OnlyDueHandlersRun` | the same |
| `RegistryImplemented` | `ImplementsRegistry` but for its fairness | no lapses, and `UnsafeEdits # "free"` |
| `SbusTypeCorrect` | `TypeOK` of `Sbus` | `BitsAssumption` only |
| `SignalsAreKept` | `NoSignalLost`, `SnapshotFresh` | the same |
| `FlagsAreAnnounced` | `NoFlagForgotten` | the same |
| `AlarmsStayInStep` | `AlarmsInStep` | `AlarmAssumption`, `Callers` |
| `AlarmsFireOnTime` | `FiresOnTime` | the same |
| `ElapsedIsExact` | `ElapsedExact` | the same |
| `SeedsGetOneTurn` | `EachSeedOnce` | `PermuterAssumption` only |
| `BestScoreIsExact` | `BestIsExact` | the same |
| `WritesNothingAgain` | `NothingRepeated` | the same |
| `WritesAllItWould` | `NoSourceMissing` | the same |
| `WorkersToldOnce` | `AllToldOnce` | the same |
| `EvaluatorSafe` | `EvaluatorSound` | `ServerAssumption` only |
| `NetworkSafe` | `NetworkSound` | the same |
| `CreditIsKept` | `CreditKept` | the same |
| `EvaluatorIsUsedWell` | `EvaluatorUsedWell` | the same |
| `MenuIsSound` | `MenuSound` | the same |

The lists. `IntrProofs` begins by showing that unlinking a cell of a threaded heap
leaves the others threaded, that inserting a cell that is on no list threads it
in, and that neither closes a loop. A loop is a nonempty set of slots closed
under `next` (`NoLoop`), which says that a list ends at its head without
reachability or recursion: a set that a new link would close is closed
without the new cell, or holds a smaller one that was closed before.

The registry. `TypeOK`, `WellLinked`, `NothingCutOff`, `FreeMeansPooled` and
`CountersExact` are inductive together: insertion needs the popped slot to be on
the pool's list (`FreeMeansPooled` says a registered one is not), and the counters
need `Cardinality` of a list's members to change by one, which needs to know the
slot's list before and after. With a `next` of another queue or an id that is not
registered these are no longer true list by list, and `EditsAreHarmless` has an
inductive invariant of its own (`RingsOK`): all rings together are threaded and
without a loop that avoids the heads, the pool is a list of its own, and a slot that
looks free is in it. The bound on the walk follows from `CountersExact`: a turn is made
only while `i` is below the number of members of a queue.

The walk. `WalkInStep` is inductive on top of these. It says that the slots left
behind are `i` members of the queue, that each of them and the present node
follow, by `prev`, from another of them or from the head, and that everything
due among them was called. Edits ahead of the walk leave these facts alone; edits
behind it set `dirty`, after which `then_abort` lets the walk only leave. That
no head is ever dereferenced is counting: were the next node the head, the set
left behind would be all of the ring, because a proper part closed under `next`
would be a loop, and then `i` would equal `entries`. The same argument at the
loop's end shows that nothing was missed.

The refinement. `RingProofs` adds one invariant, `RingsHold`: `Ring(q)` is a
sequence of different slots that, with the head before and behind it, reads along
`next`, is as long as `entries[q]` and holds the slots of `q`. `Ring` is defined by
a function on all of `Nat` and chooses a length; `RingIsRead` shows that this
function exists and agrees with the sequence place by place, which is induction on
places, done as a fact about sets (`AllNaturals` in `CountProofs`). That such a
sequence exists needs no proof of reachability: the empty one in the beginning, and
each edit gives the next, with `InsertAt` or `RemoveAt` at the edited place
(`PutIsRead`, `TakeIsRead`). What the walk has left behind are then the first `i`
places (`WalkAtPlace`, from `WalkInStep`), so `RingVisit` moves as the visit of
`HandlerRegistry` does, an edit behind it is one that tears the visit, and the
walk's end is the sequence's.

The signals. `NoSignalLost`, `SnapshotFresh` and `NoFlagForgotten` become
inductive with two more facts (`Support` in `SbusProofs`): only a bit with a
handler is owed a call, so `SkipBit` drops nothing, and the bit being served has
left the snapshot, so its acknowledgement takes no flag from a bit that waits.

The alarms. `Callers` (in `AlarmProofs`) keeps out what findings 2 and 3 show to be
wrong: no two active alarms end on one tick, and `ReleaseAlarm` is called only for
an alarm that is alone. Under it no queue order and no wrap of the counter can
hurt. `QueueIsActive`, `QueueInOrder` and `FiresOnTime` are not inductive by
themselves: that the first alarm fires on its tick depends on the compare
register. `LeftIsAhead` ties the ghost `left` to the distance between target and
counter, both modulo `Wrap`; `DueIsServed` says that an alarm without time left is
the first of the queue and has its interrupt; `CompareSet` says what `T3_COMP` and
the compare interrupt are before, in and after the handler. `OnePlaceEach` makes
the queue's prefix a list of different alarms, so that shifting and inserting
change the count by one. Time modulo `Wrap` is unfolded once (`TurnForward`,
`TurnBack`); what is left is linear.

The search in one thread. `LoopInv` (`PermSingleProofs`) is inductive. `EverySeedOnce`
needs `StillInTurn`: an iterator with seeds left is in the list, and the loop ends by
itself only when the list is empty. `BestIsLeast` needs `FromSeen`, that every hash and
every cached score comes from a source that was evaluated: a result may stay
unwritten because of its hash, its score or the cache, and in each case the best
score must be as good already. `NoOutputTwice` needs `Written`: an output's hash is
known, or it is a match and its source is in the cache, unless that is full.
`ZeroNotKept` needs `ZeroKnown`: `_last_score` is 0 when the candidate at hand
scored 0. `MaxRounds` is any number here.

The search in many processes. `RunInv` (`PermRunProofs`) has, beside types,

- `Once`: the places a task can be add up to one. It is `EachTaskOnce` as a sum of
  `Cardinality`s, one per queue, hand and ghost; each step moves one unit. With
  connections, or after a match has ended the search, a task may be in no place.
- `StopsInOrder`: active workers are those that run and those whose farewell is
  unread (`ActiveCount`); each is owed one Finished, behind all tasks (`TellsEach`);
  what a worker says is read before its farewell (`SaysBefore`); feeding stops
  when the iterators are used up (`FeedsAll`). `AllToldOnce` follows when the main
  process is done, and so does that no result lies unread.
- `Copies`: in each copy of a Permuter a hash that is known has a score, and the best
  score is no worse.
- `LeftOutSettled`: whatever a worker or server has reason to leave out (a cached
  score, a known hash, a worse score), the main process has reason to leave out,
  has written, or will be told of, text included, by something earlier in the
  queues. This is the reason that `should_output` may be asked in two processes;
  it holds because queues keep their order and because of what
  `PermuterAssumption` says of scores and hashes: both are taken of the object
  code, so equal hashes mean equal scores.
- `ScoresPromised`: without connections, for every result that was posted or waits
  with a score, the main process knows a score as good, or a result as good waits
  with its text. `BestAtEnd` follows, since in the end nothing waits and `Once` puts
  every task in `posted`.

`PermuterAssumption` says no more of an invocation than the program makes sure of:
permuters are numbered from 1 and have seeds, finitely many; one that is not random
yields one source per seed; somebody is there to do the work.

The evaluator. `EvalInv` (`ServerProofs`) adds three facts to `EvaluatorSound`.
`OrdersInOrder` and `OrdersFit`: what the server orders about a permuter comes in
the order added, work, removed, and tells what the main loop has, so none of its
look-ups fails. `HistoryAgrees`: there is a history of what the main loop held
after each of its updates; a worker has what the main loop held at the worker's own
time, the updates in its queue lead from there to now, and a permuter with work in
the queue has been held ever since that work was put in. So a worker that has
caught up with the time of its work has the permuter, and nothing need be known
of how the workers' queues and the work's are interleaved.

The server and the controller. `NetInv` counts: the coming of a permuter is one
message or task at a time, a piece of its work likewise (`Starting`, `Working`,
sums over three queues and the evaluator), an id is in one place (`IdsOnce`), and
the job's state in the controller tells which of them can be under way
(`JobsFit`). `active_work` may exceed what is under way only by work that the
server dropped, which the controller hears of or is past (`DroppedIsHeard`).
`CreditComes` strengthens `CreditKept`: a controller that waits has a credit,
something on its way that brings one, or work out. The server hands its evaluator
only what module `Evaluator` assumes (`EvaluatorIsUsedWell`). The other half of
their contract, that an evaluator as in `Evaluator` answers as `EvalInit` and
`EvalResult` let it, is not stated as a refinement; it is in the plan.

The menu. `IoInv` ties the three tables together (`MenuFits`); the loop that fills
slots is a recursive function of the permuters (`FillSlots`), and that it leaves
nobody waiting for a free one (`NoneWaits`) is induction, as a fact about sets
again. What the queue holds about one permuter comes in the order connect, work,
disconnect (`ToldInOrder`), so that no handler of the main loop misses a permuter,
and `OneAtATime` counts what may start a server: a running one, a timer and a
message to reconnect exclude each other. `MaxQueue` and `Setups` may be anything
here.

Only model-checked: liveness, which is out of the prover's reach (`DispatchEnds`,
`WordsArrive`, `AlarmsEnd`, `SearchEnds`, `EverythingAnswered`, `LoopsEnd`, and the
fairness that `ImplementsRegistry` asks for); and the modules of `yacc`,
`candidates` and `c_text`, whose operators are recursive as the code is.

## Not modelled

Kernel:

- `vec.s`: what it saves and restores are registers, of which the other models
  have none; `sio.c`: polling loops against devices whose side the repository does
  not describe; `deci2.c`: a panic that spins and a test without state.
- Everything the repository holds as `INCLUDE_ASM`: the code is not there. What
  the modelled functions call of it is external.
- The headers, symbol files, `configure.py` and the scripts in `tools/`: no
  behaviour that lasts beyond one pass over a file.
- Handler ids outside 1..128 in enable and disable, and alarm ids outside
  0..63: the code does not check them, and the damage depends on memory layout.
- An alarm of time 0 (see `Alarm`).

Permuter:

- Random permuters in worker processes and over connections: the single thread
  has them, and the queues carry seeds without a look at them.
- How multiprocessing joins and pickles, and an evaluator process that dies
  unnoticed; at the server's end of a connection, everything but its messages.
- The controller's accounts, database and statistics; encryption, framing and
  configuration of `net/`; icons, titles and the helper of the tray.
- Liveness of the passes over PERM seeds: drawing at random ends with probability
  one only.
- Of the randomizer the three type passes, `perm_float_literal`,
  `perm_struct_ref`, `for` and `switch`, types other than int and pointers to it.
- Of `yacc.py` the reading of rules from a module, the table file, SLR,
  `parseopt` and `parsedebug` (the steps of `parseopt_notrack` with places or a
  log), and the lists of conflicts. States with two shift items of nonassociative
  tokens, and error rules that loop, are in no grammar of the run.
- Of the C parser asm, strings, `offsetof`, `_Alignof`, `_Atomic`,
  `_Static_assert`, places in the source, typedef names and their scopes.
- The lexers (regular expressions), `cpp.py` (runs nowhere), `import.py`,
  `preprocess.py` and the compiler scripts (one pass over files), the scorer and
  `objdump.py` (a pure function of object code, `Score` and `Hash` here), `ast_types.py` (types
  of expressions), printer and profiler (output).

## Plan

What would add most from here:

1. `vec.s`, with registers, composed with `Intr` at the vector table.
2. The scopes of typedef names, with the lexer's state.
3. What `Evaluator` promises to `NetServer` (`EvalInit`, `EvalResult`) as an abstract
   specification that it implements, instead of an environment in each.
