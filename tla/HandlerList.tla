---------------------------- MODULE HandlerList ----------------------------
(***************************************************************************)
(* The doubly linked rings of struct list_head, as values.  A heap of list *)
(* cells is a record of two functions, [next, prev]; each operation maps   *)
(* a heap to the heap after it.  The list routines are hand-written        *)
(* assembly that the repository does not hold; they are modelled from      *)
(* their declarations and uses in src/kernel/intr.c.                       *)
(***************************************************************************)
EXTENDS Integers

\* Every cell of S is a ring of its own (list_init).
Isolated(S) == [next |-> [c \in S |-> c], prev |-> [c \in S |-> c]]

\* Unlinking with one of the two stores forgotten.
UnlinkNextOnly(l, n) == [l EXCEPT !.next[l.prev[n]] = l.next[n]]

\* func_800064B0: take n out.  n keeps its own, now stale, links.
Unlink(l, n) ==
    [next |-> [l.next EXCEPT ![l.prev[n]] = l.next[n]],
     prev |-> [l.prev EXCEPT ![l.next[n]] = l.prev[n]]]

\* func_800064D0(pos, n): link n in just before pos; before a head is the tail.
InsertBefore(l, pos, n) ==
    [next |-> [l.next EXCEPT ![n] = pos, ![l.prev[pos]] = n],
     prev |-> [l.prev EXCEPT ![n] = l.prev[pos], ![pos] = n]]

\* What func_80006420 tests before it pops: a head alone is an empty list.
EmptyList(l, head) == l.next[head] = head

\* A list filled at its tail with 1, 2, ..., n: the links of its cell c.
Chain(n, head, c) ==
    [next |-> IF c = head THEN IF n = 0 THEN head ELSE 1
              ELSE IF c = n THEN head ELSE c + 1,
     prev |-> IF c = head THEN IF n = 0 THEN head ELSE n
              ELSE IF c = 1 THEN head ELSE c - 1]

\* Properties of a heap.  S is the set of cells that are on some list and on[c]
\* names the list: next and prev are inverse there and never change list.
Threaded(l, S, on) ==
    \A c \in S : /\ l.next[c] \in S /\ l.prev[c] \in S
                 /\ l.prev[l.next[c]] = c
                 /\ l.next[l.prev[c]] = c
                 /\ on[l.next[c]] = on[c]
                 /\ on[l.prev[c]] = on[c]

\* Following next from a cell of M leaves M: no subset of M is closed.
NoLoop(l, M) ==
    \A S \in SUBSET M : (\A c \in S : l.next[c] \in S) => S = {}
=============================================================================
