----------------------------- MODULE RingProofs -----------------------------
(***************************************************************************)
(* The linked rings of Intr implement the sequences of HandlerRegistry,    *)
(* step by step, for any number of slots and queues.                       *)
(***************************************************************************)
EXTENDS IntrRings, IntrProofs

-----------------------------------------------------------------------------
(* Rings read as sequences.                                                *)

\* A step round a ring of m places.
LEMMA NextTurn ==
    ASSUME NEW m \in Nat \ {0}, NEW n \in Nat
    PROVE  /\ n % m \in 0..(m - 1)
           /\ (n + 1) % m = IF n % m = m - 1 THEN 0 ELSE (n % m) + 1
<1>1. n % m \in 0..(m - 1) /\ n = m * (n \div m) + (n % m) /\ n \div m \in Int
  OBVIOUS
<1>2. (n + 1) % m \in 0..(m - 1) /\ n + 1 = m * ((n + 1) \div m) + ((n + 1) % m) /\ (n + 1) \div m \in Int
  OBVIOUS
<1> PICK r \in 0..(m - 1), d \in Int : r = n % m /\ d = n \div m
  BY <1>1
<1> PICK s \in 0..(m - 1), e \in Int : s = (n + 1) % m /\ e = (n + 1) \div m
  BY <1>2
<1>4. m * d + r + 1 = m * e + s
  BY <1>1, <1>2
<1>5. s = IF r = m - 1 THEN 0 ELSE r + 1
  <2> PICK f \in Int : f = e - d
    OBVIOUS
  <2>1. m * f = r + 1 - s
    BY <1>4
  <2>2. m * f <= m /\ m * f > -m
    BY <2>1
  <2>3. ~(f >= 2)
    <3> SUFFICES ASSUME f >= 2 PROVE m * f >= m * 2
      BY <2>2
    <3> QED
      OBVIOUS
  <2>4. ~(f <= -1)
    <3> SUFFICES ASSUME f <= -1 PROVE m * f <= -m
      BY <2>2
    <3> QED
      OBVIOUS
  <2>5. f = 0 \/ f = 1
    BY <2>3, <2>4
  <2>6. CASE f = 0
    BY <2>1, <2>6
  <2>7. CASE f = 1
    <3>1. m * 1 = m
      OBVIOUS
    <3>2. s = 0 /\ r = m - 1
      BY <2>1, <2>7, <3>1
    <3> QED
      BY <3>2
  <2> QED
    BY <2>5, <2>6, <2>7
<1>6. n % m = r /\ (n + 1) % m = s
  OBVIOUS
<1> QED
  BY <1>5, <1>6, Zenon

\* The sequence s is what a program reads that starts at head and follows next.
At(s, head, i) == IF i \in 1..Len(s) THEN s[i] ELSE head
Reads(next, head, s) ==
    /\ s \in Seq(Hid) /\ \A i, j \in 1..Len(s) : s[i] = s[j] => i = j
    /\ \A i \in 0..Len(s) : next[At(s, head, i)] = At(s, head, i + 1)

LEMMA RingIsRead ==
    ASSUME NEW head, head \notin Hid, NEW s, Reads(links.next, head, s), Len(s) <= NHandlers
    PROVE  Ring(head) = s
<1> DEFINE L == Len(s)
           Follows(f) == f = [n \in Nat |-> IF n = 0 THEN head ELSE links.next[f[n - 1]]]
           at == CHOOSE f : Follows(f)
           Ends(n) == at[n + 1] = head /\ \A m \in 1..n : at[m] # head
           len == CHOOSE n \in 0..NHandlers : Ends(n)
<1>1. /\ s \in Seq(Hid) /\ L \in Nat /\ L \in 0..NHandlers /\ \A i \in 1..L : s[i] \in Hid /\ s[i] # head
      /\ \A i \in 0..L : links.next[At(s, head, i)] = At(s, head, i + 1)
  BY SlotsAssumption DEF Reads
<1>2. Ring(head) = [k \in 1..len |-> at[k]]
  BY DEF Ring
<1>3. At(s, head, 0) = head /\ At(s, head, L + 1) = head /\ \A i \in 1..L : At(s, head, i) = s[i]
  BY <1>1 DEF At
<1>4. \E f : Follows(f)
  <2> DEFINE round == [n \in Nat |-> At(s, head, n % (L + 1))]
  <2>1. ASSUME NEW n \in Nat PROVE round[n + 1] = links.next[round[n]]
    <3>1. /\ n % (L + 1) \in 0..L
          /\ (n + 1) % (L + 1) = IF n % (L + 1) = L THEN 0 ELSE (n % (L + 1)) + 1
      <4>1. L + 1 \in Nat \ {0} /\ (L + 1) - 1 = L
        BY <1>1
      <4> QED
        BY <4>1, NextTurn
    <3> PICK r \in 0..L : r = n % (L + 1)
      BY <3>1
    <3> PICK u : u = (n + 1) % (L + 1)
      OBVIOUS
    <3>2. round[n] = At(s, head, r) /\ round[n + 1] = At(s, head, u) /\ u = IF r = L THEN 0 ELSE r + 1
      BY <3>1
    <3>3. links.next[At(s, head, r)] = At(s, head, r + 1)
      BY <1>1
    <3> HIDE DEF round
    <3> QED
      BY <1>3, <3>2, <3>3, SMTT(60)
  <2>2. round[0] = head
    <3>1. 0 % (L + 1) = 0
      BY <1>1
    <3> QED
      BY <1>3, <3>1
  <2>3. \A n \in Nat : n # 0 => n - 1 \in Nat /\ (n - 1) + 1 = n
    OBVIOUS
  <2>4. DOMAIN round = Nat /\ round = [n \in Nat |-> round[n]]
    OBVIOUS
  <2> HIDE DEF round
  <2>5. \A n \in Nat : round[n] = IF n = 0 THEN head ELSE links.next[round[n - 1]]
    BY <2>1, <2>2, <2>3
  <2>6. Follows(round)
    BY <2>4, <2>5
  <2> QED
    BY <2>6
<1>5. Follows(at)
  BY <1>4
<1> HIDE DEF at
<1>6. at[0] = head /\ \A n \in Nat : at[n + 1] = links.next[at[n]]
  <2>1. \A n \in Nat : at[n] = IF n = 0 THEN head ELSE links.next[at[n - 1]]
    BY <1>5
  <2>2. \A n \in Nat : n + 1 \in Nat /\ n + 1 # 0 /\ (n + 1) - 1 = n
    OBVIOUS
  <2> QED
    BY <2>1, <2>2
<1>7. \A n \in 0..L + 1 : at[n] = At(s, head, n)
  <2> DEFINE T == {n \in Nat : n <= L + 1 => at[n] = At(s, head, n)}
  <2>1. 0 \in T
    BY <1>3, <1>6
  <2>2. ASSUME NEW n \in Nat, n \in T PROVE n + 1 \in T
    <3>1. CASE n <= L
      <4>1. n \in 0..L /\ at[n] = At(s, head, n)
        BY <1>1, <2>2, <3>1
      <4>2. at[n + 1] = At(s, head, n + 1)
        BY <1>1, <1>6, <4>1
      <4> QED
        BY <4>2
    <3>2. CASE ~ (n <= L)
      BY <1>1, <3>2
    <3> QED
      BY <3>1, <3>2
  <2> HIDE DEF T
  <2>3. Nat \subseteq T
    BY <2>1, <2>2, AllNaturals
  <2> QED
    BY <1>1, <2>3 DEF T
<1>8. Ends(L)
  BY <1>1, <1>3, <1>7
<1>9. ASSUME NEW n \in 0..NHandlers, Ends(n) PROVE n = L
  <2>1. CASE n < L
    <3>1. n + 1 \in 1..L
      BY <1>1, <2>1
    <3> QED
      BY <1>1, <1>3, <1>7, <1>9, <3>1
  <2>2. CASE n > L
    <3>1. L + 1 \in 1..n
      BY <1>1, <2>2
    <3> QED
      BY <1>1, <1>3, <1>7, <1>9, <3>1
  <2> QED
    BY <1>1, <2>1, <2>2
<1>10. len = L
  <2> HIDE DEF Ends
  <2> QED
    BY <1>1, <1>8, <1>9
<1>11. s = [k \in 1..L |-> s[k]]
  BY <1>1
<1> HIDE DEF len
<1> QED
  BY <1>1, <1>2, <1>3, <1>7, <1>10, <1>11

\* What a program reads after e was linked in at place k: e and its neighbour are
\* the only cells whose next changes.
LEMMA PutReads ==
    ASSUME NEW head, head \notin Hid, NEW s, NEW nx, Reads(nx, head, s),
           NEW k \in 1..Len(s) + 1, NEW e \in Hid, \A i \in 1..Len(s) : s[i] # e,
           NEW r \in Seq(Hid), PutIn(r, s, k, e),
           NEW mx, mx[At(s, head, k - 1)] = e, mx[e] = At(s, head, k),
           \A i \in 0..Len(s) : i # k - 1 => mx[At(s, head, i)] = nx[At(s, head, i)]
    PROVE  Reads(mx, head, r)
<1>1. /\ Len(s) \in Nat /\ Len(r) \in Nat /\ Len(r) = Len(s) + 1 /\ k - 1 \in 0..Len(s) /\ k \in Nat
      /\ \A i \in 0..Len(s) : nx[At(s, head, i)] = At(s, head, i + 1)
      /\ \A i, j \in 1..Len(s) : s[i] = s[j] => i = j
      /\ \A i \in 1..Len(s) + 1 : r[i] = IF i < k THEN s[i] ELSE IF i = k THEN e ELSE s[i - 1]
  BY DEF Reads, PutIn
<1>2. \A i \in 0..Len(r) + 1 :
        At(r, head, i) = IF i < k THEN At(s, head, i) ELSE IF i = k THEN e ELSE At(s, head, i - 1)
  <2> TAKE i \in 0..Len(r) + 1
  <2>1. CASE i \in 1..Len(s) + 1
    <3>1. At(r, head, i) = r[i]
      BY <2>1, <1>1 DEF At
    <3>2. i < k => At(s, head, i) = s[i]
      BY <2>1, <1>1 DEF At
    <3>3. i > k => At(s, head, i - 1) = s[i - 1]
      BY <2>1, <1>1 DEF At
    <3> QED
      BY <2>1, <1>1, <3>1, <3>2, <3>3
  <2>2. CASE i \notin 1..Len(s) + 1
    <3>1. (i = 0 /\ i < k) \/ (i = Len(s) + 2 /\ i > k)
      BY <2>2, <1>1
    <3>2. At(r, head, i) = head
      BY <2>2, <1>1 DEF At
    <3>3. i = 0 => At(s, head, i) = head
      BY <1>1 DEF At
    <3>4. i = Len(s) + 2 => At(s, head, i - 1) = head
      BY <1>1 DEF At
    <3> QED
      BY <1>1, <3>1, <3>2, <3>3, <3>4
  <2> QED
    BY <2>1, <2>2
<1>3. \A i, j \in 1..Len(r) : r[i] = r[j] => i = j
  <2> TAKE i, j \in 1..Len(r)
  <2>1. i < k => i \in 1..Len(s)
    BY <1>1
  <2>2. i > k => i - 1 \in 1..Len(s)
    BY <1>1
  <2>3. j < k => j \in 1..Len(s)
    BY <1>1
  <2>4. j > k => j - 1 \in 1..Len(s)
    BY <1>1
  <2>5. r[i] = (IF i < k THEN s[i] ELSE IF i = k THEN e ELSE s[i - 1])
    BY <1>1
  <2>6. r[j] = (IF j < k THEN s[j] ELSE IF j = k THEN e ELSE s[j - 1])
    BY <1>1
  <2>7. SUFFICES ASSUME r[i] = r[j] PROVE i = j
    OBVIOUS
  <2>8. CASE i = k
    <3>1. s[j] # e \/ j >= k
      BY <1>1, <2>3
    <3>2. j > k => s[j - 1] # e
      BY <1>1, <2>4
    <3> QED
      BY <1>1, <2>5, <2>6, <2>7, <2>8, <3>1, <3>2, <2>3
  <2>9. CASE i < k
    <3>1. s[i] # e /\ r[i] = s[i] /\ i \in 1..Len(s)
      BY <1>1, <2>1, <2>5, <2>9
    <3>2. CASE j < k
      BY <1>1, <2>3, <2>6, <2>7, <3>1, <3>2
    <3>3. CASE j = k
      BY <2>6, <2>7, <3>1, <3>3
    <3>4. CASE j > k
      <4>1. r[j] = s[j - 1]
        BY <1>1, <2>6, <3>4
      <4>2. i = j - 1
        BY <1>1, <2>4, <2>7, <3>1, <3>4, <4>1
      <4> QED
        BY <1>1, <2>9, <3>4, <4>2
    <3> QED
      BY <1>1, <3>2, <3>3, <3>4
  <2>10. CASE i > k
    <3>1. i - 1 \in 1..Len(s) /\ s[i - 1] # e /\ r[i] = s[i - 1]
      BY <1>1, <2>2, <2>5, <2>10
    <3>2. CASE j < k
      <4>1. r[j] = s[j]
        BY <2>6, <3>2
      <4>2. j = i - 1
        BY <1>1, <2>3, <2>7, <3>1, <3>2, <4>1
      <4> QED
        BY <1>1, <2>10, <3>2, <4>2
    <3>3. CASE j = k
      BY <1>1, <2>6, <2>7, <3>1, <3>3
    <3>4. CASE j > k
      <4>1. r[j] = s[j - 1]
        BY <1>1, <2>6, <3>4
      <4>2. i - 1 = j - 1
        BY <1>1, <2>4, <2>7, <3>1, <3>4, <4>1
      <4> QED
        BY <1>1, <4>2
    <3> QED
      BY <1>1, <3>2, <3>3, <3>4
  <2> QED
    BY <1>1, <2>8, <2>9, <2>10
<1>4. \A i \in 0..Len(r) : mx[At(r, head, i)] = At(r, head, i + 1)
  <2> TAKE i \in 0..Len(r)
  <2>1. At(r, head, i) = (IF i < k THEN At(s, head, i) ELSE IF i = k THEN e ELSE At(s, head, i - 1))
    BY <1>1, <1>2
  <2>2. i + 1 \in 0..Len(r) + 1 /\ (i + 1) - 1 = i
    BY <1>1
  <2>3. At(r, head, i + 1) = (IF i + 1 < k THEN At(s, head, i + 1) ELSE IF i + 1 = k THEN e ELSE At(s, head, i))
    BY <1>2, <2>2
  <2>4. CASE i + 1 < k
    <3>1. i \in 0..Len(s) /\ i # k - 1 /\ i < k
      BY <1>1, <2>4
    <3> QED
      BY <1>1, <2>1, <2>3, <2>4, <3>1
  <2>5. CASE i + 1 = k
    <3>1. i = k - 1 /\ i < k
      BY <1>1, <2>5
    <3> QED
      BY <2>1, <2>3, <2>5, <3>1
  <2>6. CASE i = k
    <3>1. ~(i + 1 < k) /\ i + 1 # k /\ ~(i < k)
      BY <1>1, <2>6
    <3> QED
      BY <2>1, <2>3, <2>6, <3>1
  <2>7. CASE i > k
    <3>1. ~(i + 1 < k) /\ i + 1 # k /\ ~(i < k) /\ i # k /\ i - 1 \in 0..Len(s) /\ i - 1 # k - 1 /\ (i - 1) + 1 = i
      BY <1>1, <2>7
    <3>2. mx[At(s, head, i - 1)] = nx[At(s, head, i - 1)] /\ nx[At(s, head, i - 1)] = At(s, head, (i - 1) + 1)
      BY <1>1, <3>1
    <3> QED
      BY <2>1, <2>3, <3>1, <3>2
  <2> QED
    BY <1>1, <2>4, <2>5, <2>6, <2>7
<1> QED
  BY <1>3, <1>4 DEF Reads

\* What it reads after the cell at place k was taken out.
LEMMA TakeReads ==
    ASSUME NEW head, head \notin Hid, NEW s, NEW nx, Reads(nx, head, s),
           NEW k \in 1..Len(s),
           NEW r \in Seq(Hid), TakenOut(r, s, k),
           NEW mx, mx[At(s, head, k - 1)] = At(s, head, k + 1),
           \A i \in 0..Len(s) : i \notin {k - 1, k} => mx[At(s, head, i)] = nx[At(s, head, i)]
    PROVE  Reads(mx, head, r)
<1>1. /\ Len(s) \in Nat /\ Len(r) \in Nat /\ Len(r) = Len(s) - 1 /\ k - 1 \in 0..Len(s) /\ k \in Nat
      /\ \A i \in 0..Len(s) : nx[At(s, head, i)] = At(s, head, i + 1)
      /\ \A i, j \in 1..Len(s) : s[i] = s[j] => i = j
      /\ \A i \in 1..Len(s) - 1 : r[i] = IF i < k THEN s[i] ELSE s[i + 1]
  BY DEF Reads, TakenOut
<1>2. \A i \in 0..Len(r) + 1 :
        At(r, head, i) = IF i < k THEN At(s, head, i) ELSE At(s, head, i + 1)
  <2> TAKE i \in 0..Len(r) + 1
  <2>1. CASE i \in 1..Len(s) - 1
    <3>1. At(r, head, i) = r[i]
      BY <2>1, <1>1 DEF At
    <3>2. At(s, head, i) = s[i] /\ At(s, head, i + 1) = s[i + 1]
      BY <2>1, <1>1 DEF At
    <3> QED
      BY <2>1, <1>1, <3>1, <3>2
  <2>2. CASE i \notin 1..Len(s) - 1
    <3>1. (i = 0 /\ i < k) \/ (i = Len(s) /\ ~(i < k))
      BY <2>2, <1>1
    <3>2. At(r, head, i) = head
      BY <2>2, <1>1 DEF At
    <3>3. i = 0 => At(s, head, i) = head
      BY <1>1 DEF At
    <3>4. i = Len(s) => At(s, head, i + 1) = head
      BY <1>1 DEF At
    <3> QED
      BY <1>1, <3>1, <3>2, <3>3, <3>4
  <2> QED
    BY <2>1, <2>2
<1>3. \A i, j \in 1..Len(r) : r[i] = r[j] => i = j
  <2> TAKE i, j \in 1..Len(r)
  <2>1. \A m \in 1..Len(r) : /\ m < k => m \in 1..Len(s) /\ r[m] = s[m]
                             /\ ~(m < k) => m + 1 \in 1..Len(s) /\ r[m] = s[m + 1]
    BY <1>1
  <2>2. CASE i < k /\ j < k
    BY <1>1, <2>1, <2>2
  <2>3. CASE ~(i < k) /\ ~(j < k)
    <3>1. i + 1 \in 1..Len(s) /\ r[i] = s[i + 1] /\ j + 1 \in 1..Len(s) /\ r[j] = s[j + 1]
      BY <2>1, <2>3
    <3>2. \A x, y \in 1..Len(s) : s[x] = s[y] => x = y
      BY <1>1
    <3>3. r[i] = r[j] => i + 1 = j + 1
      BY <3>1, <3>2
    <3> QED
      BY <1>1, <3>3
  <2>4. CASE i < k /\ ~(j < k)
    <3>1. r[i] = r[j] => i = j + 1
      BY <1>1, <2>1, <2>4
    <3> QED
      BY <1>1, <2>4, <3>1
  <2>5. CASE ~(i < k) /\ j < k
    <3>1. r[i] = r[j] => i + 1 = j
      BY <1>1, <2>1, <2>5
    <3> QED
      BY <1>1, <2>5, <3>1
  <2> QED
    BY <2>2, <2>3, <2>4, <2>5
<1>4. \A i \in 0..Len(r) : mx[At(r, head, i)] = At(r, head, i + 1)
  <2> TAKE i \in 0..Len(r)
  <2>1. At(r, head, i) = (IF i < k THEN At(s, head, i) ELSE At(s, head, i + 1))
    BY <1>1, <1>2
  <2>2. i + 1 \in 0..Len(r) + 1 /\ i \in 0..Len(s) /\ i + 1 \in 0..Len(s)
    BY <1>1
  <2>3. At(r, head, i + 1) = (IF i + 1 < k THEN At(s, head, i + 1) ELSE At(s, head, (i + 1) + 1))
    BY <1>2, <2>2
  <2>4. CASE i + 1 < k
    <3>1. i \notin {k - 1, k} /\ i < k
      BY <1>1, <2>4
    <3> QED
      BY <1>1, <2>1, <2>2, <2>3, <2>4, <3>1
  <2>5. CASE i + 1 = k
    <3>1. i = k - 1 /\ i < k /\ (i + 1) + 1 = k + 1 /\ ~(i + 1 < k)
      BY <1>1, <2>5
    <3> QED
      BY <2>1, <2>3, <3>1
  <2>6. CASE i + 1 > k
    <3>1. ~(i + 1 < k) /\ ~(i < k) /\ i + 1 \notin {k - 1, k}
      BY <1>1, <2>6
    <3> QED
      BY <1>1, <2>1, <2>2, <2>3, <3>1
  <2> QED
    BY <1>1, <2>4, <2>5, <2>6
<1> QED
  BY <1>3, <1>4 DEF Reads

\* What an insertion does to next and what is read after it; a removal likewise.
PutsAt(nx, mx, head, s, k, e) ==
    /\ mx[At(s, head, k - 1)] = e /\ mx[e] = At(s, head, k)
    /\ \A i \in 0..Len(s) : i # k - 1 => mx[At(s, head, i)] = nx[At(s, head, i)]
ReadsPut(mx, head, s, k, e) ==
    \E r : /\ r = Registry!InsertAt(s, k, e) /\ Len(r) = Len(s) + 1 /\ Reads(mx, head, r)
           /\ \A h \in Hid : (\E i \in 1..Len(r) : r[i] = h)
                                <=> (h = e \/ \E i \in 1..Len(s) : s[i] = h)
TakesAt(nx, mx, head, s, k) ==
    /\ mx[At(s, head, k - 1)] = At(s, head, k + 1)
    /\ \A i \in 0..Len(s) : i \notin {k - 1, k} => mx[At(s, head, i)] = nx[At(s, head, i)]
ReadsTaken(mx, head, s, k) ==
    \E r : /\ r = Registry!RemoveAt(s, k) /\ Len(r) = Len(s) - 1 /\ Reads(mx, head, r)
           /\ \A h \in Hid : (\E i \in 1..Len(r) : r[i] = h)
                                <=> (h # s[k] /\ \E i \in 1..Len(s) : s[i] = h)

LEMMA PutIsRead ==
    ASSUME NEW head, head \notin Hid, NEW s, NEW nx, Reads(nx, head, s),
           NEW k \in 1..Len(s) + 1, NEW e \in Hid, \A i \in 1..Len(s) : s[i] # e,
           NEW mx, PutsAt(nx, mx, head, s, k, e)
    PROVE  ReadsPut(mx, head, s, k, e)
<1>1. s \in Seq(Hid) /\ Len(s) \in Nat
  BY DEF Reads
<1>2. PICK r \in Seq(Hid) : /\ r = SubSeq(s, 1, k - 1) \o <<e>> \o SubSeq(s, k, Len(s))
                           /\ PutIn(r, s, k, e)
  BY <1>1, OnePutIn
<1> DEFINE whole == SubSeq(s, 1, k - 1) \o <<e>> \o SubSeq(s, k, Len(s))
<1>3. /\ r = whole /\ Len(r) = Len(s) + 1
      /\ \A i \in 1..Len(s) + 1 : r[i] = IF i < k THEN s[i] ELSE IF i = k THEN e ELSE s[i - 1]
  BY <1>2 DEF PutIn
<1> HIDE DEF whole
<1>4. Reads(mx, head, r)
  BY <1>2, PutReads DEF PutsAt
<1>5. r = Registry!InsertAt(s, k, e)
  BY <1>3 DEF Registry!InsertAt, whole
<1>6. ASSUME NEW i \in 1..Len(s) PROVE \E j \in 1..Len(r) : r[j] = s[i]
  <2>1. CASE i < k
    <3>1. i \in 1..Len(r) /\ i \in 1..Len(s) + 1
      BY <1>1, <1>3
    <3> QED
      BY <1>3, <2>1, <3>1
  <2>2. CASE ~(i < k)
    <3>1. i + 1 \in 1..Len(r) /\ i + 1 \in 1..Len(s) + 1 /\ ~(i + 1 < k) /\ i + 1 # k /\ (i + 1) - 1 = i
      BY <1>1, <1>3, <2>2
    <3>2. r[i + 1] = s[i]
      BY <1>3, <3>1
    <3> QED
      BY <3>1, <3>2
  <2> QED
    BY <2>1, <2>2
<1>7. r[k] = e /\ k \in 1..Len(r)
  BY <1>1, <1>3
<1>8. ASSUME NEW j \in 1..Len(r) PROVE r[j] = e \/ \E i \in 1..Len(s) : s[i] = r[j]
  <2>1. CASE j < k
    <3>1. j \in 1..Len(s) /\ j \in 1..Len(s) + 1
      BY <1>1, <1>3, <2>1
    <3> QED
      BY <1>3, <2>1, <3>1
  <2>2. CASE j = k
    BY <1>7, <2>2
  <2>3. CASE j > k
    <3>1. j - 1 \in 1..Len(s) /\ j \in 1..Len(s) + 1 /\ ~(j < k) /\ j # k
      BY <1>1, <1>3, <2>3
    <3> QED
      BY <1>3, <3>1
  <2> QED
    BY <1>1, <1>3, <2>1, <2>2, <2>3
<1>9. \A h \in Hid : (\E i \in 1..Len(r) : r[i] = h) <=> (h = e \/ \E i \in 1..Len(s) : s[i] = h)
  BY <1>6, <1>7, <1>8
<1> QED
  BY <1>3, <1>4, <1>5, <1>9 DEF ReadsPut

LEMMA TakeIsRead ==
    ASSUME NEW head, head \notin Hid, NEW s, NEW nx, Reads(nx, head, s), NEW k \in 1..Len(s),
           NEW mx, TakesAt(nx, mx, head, s, k)
    PROVE  ReadsTaken(mx, head, s, k)
<1>1. s \in Seq(Hid) /\ Len(s) \in Nat /\ \A i, j \in 1..Len(s) : s[i] = s[j] => i = j
  BY DEF Reads
<1>2. PICK r \in Seq(Hid) : /\ r = SubSeq(s, 1, k - 1) \o SubSeq(s, k + 1, Len(s))
                           /\ TakenOut(r, s, k)
  BY <1>1, OneTakenOut
<1> DEFINE whole == SubSeq(s, 1, k - 1) \o SubSeq(s, k + 1, Len(s))
<1>3. /\ r = whole /\ Len(r) = Len(s) - 1
      /\ \A i \in 1..Len(s) - 1 : r[i] = IF i < k THEN s[i] ELSE s[i + 1]
  BY <1>2 DEF TakenOut
<1> HIDE DEF whole
<1>4. Reads(mx, head, r)
  BY <1>2, TakeReads DEF TakesAt
<1>5. r = Registry!RemoveAt(s, k)
  BY <1>3 DEF Registry!RemoveAt, whole
<1>6. ASSUME NEW i \in 1..Len(s), s[i] # s[k] PROVE \E j \in 1..Len(r) : r[j] = s[i]
  <2>1. CASE i < k
    <3>1. i \in 1..Len(r) /\ i \in 1..Len(s) - 1
      BY <1>1, <1>3, <2>1
    <3> QED
      BY <1>3, <2>1, <3>1
  <2>2. CASE ~(i < k)
    <3>1. i # k
      BY <1>6
    <3>2. i - 1 \in 1..Len(r) /\ i - 1 \in 1..Len(s) - 1 /\ ~(i - 1 < k) /\ (i - 1) + 1 = i
      BY <1>1, <1>3, <2>2, <3>1
    <3>3. r[i - 1] = s[i]
      BY <1>3, <3>2
    <3> QED
      BY <3>2, <3>3
  <2> QED
    BY <2>1, <2>2
<1>7. ASSUME NEW j \in 1..Len(r) PROVE \E i \in 1..Len(s) : s[i] = r[j] /\ s[i] # s[k]
  <2>0. j \in 1..Len(s) - 1 /\ j \in 1..Len(s) /\ j + 1 \in 1..Len(s)
    BY <1>1, <1>3
  <2>1. CASE j < k
    <3>1. r[j] = s[j] /\ j # k
      BY <1>3, <2>0, <2>1
    <3> QED
      BY <1>1, <2>0, <3>1
  <2>2. CASE ~(j < k)
    <3>1. r[j] = s[j + 1] /\ j + 1 # k
      BY <1>3, <2>0, <2>2
    <3> QED
      BY <1>1, <2>0, <3>1
  <2> QED
    BY <2>1, <2>2
<1>8. \A h \in Hid : (\E i \in 1..Len(r) : r[i] = h) <=> (h # s[k] /\ \E i \in 1..Len(s) : s[i] = h)
  BY <1>6, <1>7
<1> QED
  BY <1>3, <1>4, <1>5, <1>8 DEF ReadsTaken

\* A queue that an operation leaves alone reads as it did.
LEMMA SameReads ==
    ASSUME NEW head, NEW s, NEW nx, Reads(nx, head, s), NEW mx,
           \A i \in 0..Len(s) : mx[At(s, head, i)] = nx[At(s, head, i)]
    PROVE  Reads(mx, head, s)
BY DEF Reads

-----------------------------------------------------------------------------
(* The rings of a state.                                                   *)

\* The ring of q reads s, and s names the handlers registered on q.
Holds(q, s) ==
    /\ Reads(links.next, q, s) /\ Len(s) = entries[q]
    /\ \A h \in Hid : owner[h] = q <=> \E i \in 1..Len(s) : s[i] = h

\* Every ring reads as a sequence; between turns no callback's kind is kept.
RingsHold == /\ \A q \in Queue : Holds(q, Ring(q))
             /\ walk.pc = "loop" => ~walk.user

\* The sequence a ring reads as is the one that Ring finds.
RingFindsIt == \A q \in Queue : \A s : Holds(q, s) => Ring(q) = s

LEMMA HeldIsRing == TypeOK /\ ListsOK => RingFindsIt
<1> SUFFICES ASSUME TypeOK, ListsOK, NEW q \in Queue, NEW s, Holds(q, s) PROVE Ring(q) = s
  BY DEF RingFindsIt
<1>1. q \notin Hid /\ Reads(links.next, q, s) /\ Len(s) <= NHandlers
  BY HeadsApart, EntriesBounded DEF Holds, ListsOK
<1> QED
  BY <1>1, RingIsRead

LEMMA HeldIsRingAfter ==
    ASSUME TypeOK', ListsOK', NEW q \in Queue, NEW s, Holds(q, s)'
    PROVE  Ring(q)' = s /\ Holds(q, Ring(q))'
<1>1. (TypeOK /\ ListsOK)' => RingFindsIt'
  BY HeldIsRing, PTL
<1>2. (Ring(q) = s)'
  BY <1>1 DEF RingFindsIt
<1> QED
  BY <1>2 DEF Holds

\* What is known of a ring: its places are on its list, and prev leads back.
RingKnown(q, s) ==
    /\ s \in Seq(Hid) /\ Len(s) \in Nat /\ Len(s) = entries[q] /\ q \in Cell /\ q \notin Hid
    /\ \A i \in 1..Len(s) : s[i] \in Hid /\ owner[s[i]] = q /\ At(s, q, i) = s[i]
    /\ \A i, j \in 1..Len(s) : s[i] = s[j] => i = j
    /\ \A h \in Members(q) : \E i \in 1..Len(s) : s[i] = h
    /\ At(s, q, 0) = q /\ At(s, q, Len(s) + 1) = q
    /\ \A i \in 0..Len(s) + 1 : At(s, q, i) \in Linked /\ on[At(s, q, i)] = q
    /\ \A i \in 0..Len(s) : /\ links.next[At(s, q, i)] = At(s, q, i + 1)
                            /\ links.prev[At(s, q, i + 1)] = At(s, q, i)

LEMMA RingFacts ==
    ASSUME TypeOK, ListsOK, NEW q \in Queue, NEW s, Holds(q, s)
    PROVE  RingKnown(q, s)
<1>1. /\ s \in Seq(Hid) /\ Len(s) \in Nat /\ Len(s) = entries[q]
      /\ \A i, j \in 1..Len(s) : s[i] = s[j] => i = j
      /\ \A i \in 0..Len(s) : links.next[At(s, q, i)] = At(s, q, i + 1)
      /\ \A h \in Hid : owner[h] = q <=> \E i \in 1..Len(s) : s[i] = h
  BY DEF Holds, Reads
<1>2. q \in Cell /\ q \notin Hid /\ q \in Linked /\ on[q] = q /\ q # LEAKED
  BY HeadsApart, OnValues DEF Heads
<1>3. \A i \in 1..Len(s) : s[i] \in Hid /\ owner[s[i]] = q /\ At(s, q, i) = s[i]
  BY <1>1 DEF At
<1>4. At(s, q, 0) = q /\ At(s, q, Len(s) + 1) = q
  BY <1>1 DEF At
<1>5. \A i \in 1..Len(s) : s[i] \in Linked /\ on[s[i]] = q
  BY <1>2, <1>3, OnValues
<1>6. \A i \in 0..Len(s) + 1 : At(s, q, i) \in Linked /\ on[At(s, q, i)] = q
  BY <1>1, <1>2, <1>3, <1>4, <1>5
<1>7. \A i \in 0..Len(s) : links.prev[links.next[At(s, q, i)]] = At(s, q, i)
  BY <1>1, <1>6 DEF ListsOK, WellLinked, Threaded
<1>8. \A h \in Members(q) : \E i \in 1..Len(s) : s[i] = h
  BY <1>1 DEF Members
<1> QED
  BY <1>1, <1>2, <1>3, <1>4, <1>6, <1>7, <1>8 DEF RingKnown

\* The walk's counter is its place in the ring.
LEMMA WalkAtPlace ==
    ASSUME TypeOK, ListsOK, WalkInStep, walk.pc # "idle", ~walk.dirty,
           NEW s, Holds(walk.q, s)
    PROVE  /\ walk.i \in 0..Len(s) /\ walk.hnd = At(s, walk.q, walk.i + 1)
           /\ \A j \in 1..Len(s) : s[j] \in walk.seen <=> j <= walk.i
<1> DEFINE q == walk.q
           L == Len(s)
<1>1. /\ q \in Queue /\ walk.i \in Nat /\ walk.seen \subseteq Members(q) /\ Cardinality(walk.seen) = walk.i
      /\ walk.hnd \notin walk.seen
      /\ \A c \in walk.seen \cup {walk.hnd} : links.prev[c] \in walk.seen \cup {q}
      /\ walk.hnd = q \/ walk.hnd \in Members(q)
  BY NextNode DEF TypeOK, WalkInStep
<1>2. /\ L \in Nat /\ q \notin Hid
      /\ \A i \in 1..L : s[i] \in Hid /\ At(s, q, i) = s[i]
      /\ \A i, j \in 1..L : s[i] = s[j] => i = j
      /\ \A h \in Members(q) : \E i \in 1..L : s[i] = h
      /\ At(s, q, 0) = q /\ At(s, q, L + 1) = q
      /\ \A i \in 0..L : links.prev[At(s, q, i + 1)] = At(s, q, i)
  BY <1>1, RingFacts DEF RingKnown
<1> HIDE DEF L
<1>3. PICK m \in 1..L + 1 : walk.hnd = At(s, q, m)
  BY <1>1, <1>2
<1>4. \A i \in 1..L : links.prev[s[i]] = At(s, q, i - 1)
  <2> TAKE i \in 1..L
  <2>1. i - 1 \in 0..L /\ (i - 1) + 1 = i
    BY <1>2
  <2> QED
    BY <1>2, <2>1
<1>5. \A j \in 1..L : j < m => s[j] \in walk.seen
  <2> DEFINE T == {n \in Nat : n < m => At(s, q, m - n) \in walk.seen \cup {walk.hnd}}
  <2>1. 0 \in T
    BY <1>3
  <2>2. ASSUME NEW n \in Nat, n \in T PROVE n + 1 \in T
    <3>1. CASE n + 1 < m
      <4>1. /\ m - n \in 1..L + 1 /\ m - (n + 1) \in 0..L /\ (m - (n + 1)) + 1 = m - n
            /\ m - (n + 1) \in 1..L
        BY <1>2, <3>1
      <4>2. At(s, q, m - n) \in walk.seen \cup {walk.hnd}
        BY <2>2, <3>1
      <4>3. links.prev[At(s, q, m - n)] = At(s, q, m - (n + 1))
        BY <1>2, <4>1
      <4>4. At(s, q, m - (n + 1)) # q
        BY <1>2, <4>1
      <4> QED
        BY <1>1, <4>2, <4>3, <4>4
    <3>2. CASE ~(n + 1 < m)
      BY <3>2
    <3> QED
      BY <3>1, <3>2
  <2> HIDE DEF T
  <2>3. Nat \subseteq T
    BY <2>1, <2>2, AllNaturals
  <2> TAKE j \in 1..L
  <2> SUFFICES ASSUME j < m PROVE s[j] \in walk.seen
    OBVIOUS
  <2>4. m - j \in Nat /\ m - j < m /\ m - (m - j) = j
    BY <1>2
  <2>5. m - j \in T
    BY <2>3, <2>4
  <2>6. At(s, q, j) \in walk.seen \cup {walk.hnd}
    BY <2>4, <2>5 DEF T
  <2>7. s[j] # walk.hnd
    BY <1>2, <1>3
  <2> QED
    BY <1>2, <2>6, <2>7
<1>6. \A j \in 1..L : s[j] \in walk.seen => j < m
  <2> TAKE j \in 1..L
  <2> SUFFICES ASSUME s[j] \in walk.seen, ~(j < m) PROVE FALSE
    OBVIOUS
  <2>1. m \in 1..L /\ m <= j
    BY <1>2
  <2> DEFINE T == {n \in Nat : n <= j - m => s[j - n] \in walk.seen}
  <2>2. 0 \in T
    BY <1>2
  <2>3. ASSUME NEW n \in Nat, n \in T PROVE n + 1 \in T
    <3>1. CASE n + 1 <= j - m
      <4>1. j - n \in 1..L /\ (j - n) - 1 = j - (n + 1) /\ j - (n + 1) \in 1..L
        BY <1>2, <2>1, <3>1
      <4>2. s[j - n] \in walk.seen
        BY <2>1, <2>3, <3>1
      <4>3. links.prev[s[j - n]] = s[j - (n + 1)]
        BY <1>2, <1>4, <4>1
      <4> QED
        BY <1>1, <1>2, <4>1, <4>2, <4>3
    <3>2. CASE ~(n + 1 <= j - m)
      BY <3>2
    <3> QED
      BY <3>1, <3>2
  <2> HIDE DEF T
  <2>4. Nat \subseteq T
    BY <2>2, <2>3, AllNaturals
  <2>5. j - m \in Nat /\ j - (j - m) = m
    BY <2>1
  <2>6. j - m \in T
    BY <2>4, <2>5
  <2>7. s[m] \in walk.seen
    BY <2>5, <2>6 DEF T
  <2> QED
    BY <1>1, <1>2, <1>3, <2>1, <2>7
<1>7. walk.seen = {s[j] : j \in 1..(m - 1)}
  <2>1. \A c \in walk.seen : \E j \in 1..(m - 1) : c = s[j]
    <3> TAKE c \in walk.seen
    <3>1. PICK j \in 1..L : s[j] = c
      BY <1>1, <1>2
    <3> QED
      BY <1>6, <3>1
  <2>2. \A j \in 1..(m - 1) : j \in 1..L /\ j < m
    BY <1>2
  <2> QED
    BY <1>5, <2>1, <2>2
<1>8. \A n \in Nat : n <= L => IsFiniteSet({s[j] : j \in 1..n}) /\ Cardinality({s[j] : j \in 1..n}) = n
  <2> DEFINE P(n) == {s[j] : j \in 1..n}
             T == {n \in Nat : n <= L => IsFiniteSet(P(n)) /\ Cardinality(P(n)) = n}
  <2>1. 0 \in T
    <3>1. 1..0 = {}
      OBVIOUS
    <3>2. P(0) = {}
      BY <3>1
    <3> HIDE DEF P
    <3> QED
      BY <3>2, FS_EmptySet
  <2>2. ASSUME NEW n \in Nat, n \in T PROVE n + 1 \in T
    <3>1. CASE n + 1 <= L
      <4>1. 1..(n + 1) = 1..n \cup {n + 1}
        OBVIOUS
      <4>2. P(n + 1) = P(n) \cup {s[n + 1]}
        BY <4>1
      <4>3. s[n + 1] \notin P(n)
        BY <1>2, <3>1
      <4> HIDE DEF P
      <4>4. IsFiniteSet(P(n)) /\ Cardinality(P(n)) = n
        BY <1>2, <2>2, <3>1
      <4>5. IsFiniteSet(P(n) \cup {s[n + 1]}) /\ Cardinality(P(n) \cup {s[n + 1]}) = n + 1
        BY <4>3, <4>4, FS_AddElement
      <4> QED
        BY <4>2, <4>5
    <3>2. CASE ~(n + 1 <= L)
      BY <3>2
    <3> QED
      BY <3>1, <3>2
  <2> HIDE DEF T
  <2>3. Nat \subseteq T
    BY <2>1, <2>2, AllNaturals
  <2> QED
    BY <2>3 DEF T
<1>9. walk.i = m - 1
  <2>1. m - 1 \in Nat /\ m - 1 <= L
    BY <1>2
  <2>2. Cardinality({s[j] : j \in 1..(m - 1)}) = m - 1
    BY <1>8, <2>1
  <2> QED
    BY <1>1, <1>7, <2>2
<1>10. walk.i \in 0..L /\ m = walk.i + 1 /\ \A j \in 1..L : j < m <=> j <= walk.i
  BY <1>2, <1>9
<1> QED
  BY <1>3, <1>5, <1>6, <1>10 DEF L

\* Visits as values: what the EXCEPTs of HandlerRegistry's steps come to.
VisitOf(p, x, n, u) == [pc |-> p, q |-> x, pos |-> n, user |-> u]

LEMMA VisitFields ==
    ASSUME NEW p, NEW x, NEW n, NEW u
    PROVE  /\ VisitOf(p, x, n, u).pc = p /\ VisitOf(p, x, n, u).q = x
           /\ VisitOf(p, x, n, u).pos = n /\ VisitOf(p, x, n, u).user = u
BY DEF VisitOf

Entered(v, y)  == [v EXCEPT !.pc = "loop", !.q = y]
Calling(v, e)  == [v EXCEPT !.pc = "call", !.user = e]

LEMMA VisitEntered ==
    ASSUME NEW p, NEW x, NEW n, NEW u, NEW v, v = VisitOf(p, x, n, u), NEW y
    PROVE  Entered(v, y) = VisitOf("loop", y, n, u)
<1>1. PICK w : w = [v EXCEPT !.pc = "loop"]
  OBVIOUS
<1>2. w = VisitOf("loop", x, n, u)
  BY <1>1 DEF VisitOf
<1>3. [w EXCEPT !.q = y] = VisitOf("loop", y, n, u)
  BY <1>2 DEF VisitOf
<1> QED
  BY <1>1, <1>3 DEF Entered

LEMMA VisitCalls ==
    ASSUME NEW p, NEW x, NEW n, NEW u, NEW v, v = VisitOf(p, x, n, u), NEW e
    PROVE  Calling(v, e) = VisitOf("call", x, n, e)
<1>1. PICK w : w = [v EXCEPT !.pc = "call"]
  OBVIOUS
<1>2. w = VisitOf("call", x, n, u)
  BY <1>1 DEF VisitOf
<1>3. [w EXCEPT !.user = e] = VisitOf("call", x, n, e)
  BY <1>2 DEF VisitOf
<1> QED
  BY <1>1, <1>3 DEF Calling

LEMMA VisitPasses ==
    ASSUME NEW p, NEW x, NEW n, NEW u, NEW v, v = VisitOf(p, x, n, u)
    PROVE  [v EXCEPT !.pos = @ + 1] = VisitOf(p, x, n + 1, u)
<1>1. v.pos = n
  BY VisitFields
<1>2. [v EXCEPT !.pos = n + 1] = VisitOf(p, x, n + 1, u)
  BY DEF VisitOf
<1> QED
  BY <1>1, <1>2

\* The visit of a state.
LEMMA RingVisitIs ==
    ASSUME TypeOK
    PROVE  /\ RingVisit = VisitOf(IF walk.pc = "call" /\ walk.dirty THEN "torn" ELSE walk.pc,
                                  walk.q, walk.i + 1, walk.user)
           /\ walk.q \in Queue /\ walk.i + 1 \in Nat /\ walk.user \in BOOLEAN
<1>1. walk.q \in Queue /\ walk.i \in Nat /\ walk.user \in BOOLEAN
  BY DEF TypeOK
<1> QED
  BY <1>1 DEF RingVisit, VisitOf

\* An edit made between interrupts or from a callback is one HandlerRegistry knows:
\* one made where the walk has passed tears the visit, any other leaves it alone.
LEMMA EditIsSeen ==
    ASSUME Inv, RingsHold, UnsafeEdits # "free",
           NEW q \in Queue, NEW k \in 1..Len(Ring(q)) + 1,
           NEW safe \in BOOLEAN, safe = (At(Ring(q), q, k) \notin Passed),
           NEW gone, MayCall(safe), Noting(safe, gone)
    PROVE  Registry!Editing(q, k)
<1>1. walk \in WalkType /\ TypeOK /\ ListsOK /\ WalkInStep
  BY DEF Inv, TypeOK, WalkType, WalkInv
<1>2. /\ walk'.pc = walk.pc /\ walk'.q = walk.q /\ walk'.i = walk.i /\ walk'.user = walk.user
      /\ walk'.dirty = (walk.dirty \/ (walk.pc = "call" /\ ~safe))
  BY <1>1 DEF Noting, WalkType
<1> PICK x \in Queue, n \in Nat, u \in BOOLEAN : x = walk.q /\ n = walk.i + 1 /\ u = walk.user
  BY <1>1, RingVisitIs
<1>3. RingVisit = VisitOf(IF walk.pc = "call" /\ walk.dirty THEN "torn" ELSE walk.pc, x, n, u)
  BY <1>1, RingVisitIs
<1>4. RingVisit' = VisitOf(IF walk.pc = "call" /\ (walk.dirty \/ ~safe) THEN "torn" ELSE walk.pc, x, n, u)
  <2>1. RingVisit' = VisitOf(IF walk'.pc = "call" /\ walk'.dirty THEN "torn" ELSE walk'.pc,
                             walk'.q, walk'.i + 1, walk'.user)
    BY DEF RingVisit, VisitOf
  <2>2. (walk'.pc = "call" /\ walk'.dirty) <=> (walk.pc = "call" /\ (walk.dirty \/ ~safe))
    BY <1>2
  <2> QED
    BY <1>2, <2>1, <2>2
<1>5. CASE walk.pc = "idle"
  <2>1. RingVisit' = RingVisit /\ RingVisit.pc = "idle"
    BY <1>3, <1>4, <1>5, VisitFields
  <2> QED
    BY <2>1 DEF Registry!Editing
<1>6. CASE walk.pc = "call" /\ walk.dirty
  <2>1. RingVisit' = RingVisit /\ RingVisit.pc = "torn"
    BY <1>3, <1>4, <1>6, VisitFields
  <2> QED
    BY <2>1 DEF Registry!Editing
<1>7. CASE walk.pc = "call" /\ ~walk.dirty /\ safe
  <2>1. RingVisit' = RingVisit /\ RingVisit.pc = "call" /\ RingVisit.q = walk.q /\ RingVisit.pos = walk.i + 1
    BY <1>3, <1>4, <1>7, VisitFields
  <2>2. ASSUME q = walk.q, ~(k > walk.i + 1) PROVE FALSE
    <3> DEFINE s == Ring(q)
    <3>1. /\ walk.i \in 0..Len(s) /\ walk.hnd = At(s, q, walk.i + 1)
          /\ \A j \in 1..Len(s) : s[j] \in walk.seen <=> j <= walk.i
      BY <1>1, <1>7, <2>2, WalkAtPlace DEF RingsHold
    <3>2. Len(s) \in Nat /\ \A j \in 1..Len(s) : At(s, q, j) = s[j]
      BY <1>1, RingFacts DEF RingsHold, RingKnown
    <3> HIDE DEF s
    <3>3. k \in 1..Len(s) + 1 /\ At(s, q, k) \notin Passed
      BY <1>7 DEF s
    <3>4. CASE k = walk.i + 1
      BY <3>1, <3>3, <3>4 DEF Passed
    <3>5. CASE k <= walk.i
      BY <3>1, <3>2, <3>3, <3>5 DEF Passed
    <3> QED
      BY <2>2, <3>1, <3>3, <3>4, <3>5
  <2> QED
    BY <2>1, <2>2 DEF Registry!Editing
<1>8. CASE walk.pc = "call" /\ ~walk.dirty /\ ~safe
  <2>1. walk.user
    BY <1>8 DEF MayCall
  <2>2. RingVisit = VisitOf("call", x, n, u) /\ RingVisit' = VisitOf("torn", x, n, u)
    BY <1>3, <1>4, <1>8
  <2>3. RingVisit.pc = "call" /\ RingVisit.user
    BY <2>1, <2>2, VisitFields
  <2>4. RingVisit' = [RingVisit EXCEPT !.pc = "torn"]
    BY <2>2 DEF VisitOf
  <2> QED
    BY <2>3, <2>4 DEF Registry!Editing
<1> QED
  BY <1>5, <1>6, <1>7, <1>8 DEF MayCall

\* A queue whose cells keep their next and their owner, and whose count is kept.
LEMMA LeftAlone ==
    ASSUME Inv, TypeOK', ListsOK', NEW q \in Queue, Holds(q, Ring(q)),
           entries'[q] = entries[q], \A h \in Hid : owner'[h] = q <=> owner[h] = q,
           \A c \in Linked : on[c] = q => links'.next[c] = links.next[c]
    PROVE  Holds(q, Ring(q))' /\ Ring(q)' = Ring(q)
<1> DEFINE s == Ring(q)
<1>1. /\ \A i \in 0..Len(s) + 1 : At(s, q, i) \in Linked /\ on[At(s, q, i)] = q
      /\ Reads(links.next, q, s) /\ Len(s) = entries[q] /\ Len(s) \in Nat
      /\ \A h \in Hid : owner[h] = q <=> \E i \in 1..Len(s) : s[i] = h
  BY RingFacts DEF Inv, Holds, RingKnown
<1> PICK t : t = s
  OBVIOUS
<1> HIDE DEF s
<1>2. \A i \in 0..Len(t) : links'.next[At(t, q, i)] = links.next[At(t, q, i)]
  BY <1>1
<1>3. Reads(links'.next, q, t)
  BY <1>1, <1>2, SameReads
<1>4. Len(t) = entries'[q] /\ \A h \in Hid : owner'[h] = q <=> \E i \in 1..Len(t) : t[i] = h
  BY <1>1
<1>5. Holds(q, t)'
  BY <1>3, <1>4 DEF Holds
<1>6. Ring(q)' = t /\ Holds(q, Ring(q))'
  BY <1>5, HeldIsRingAfter
<1> QED
  BY <1>6 DEF s

-----------------------------------------------------------------------------
(* Each step of the rings is a step of the sequences.                      *)

\* How a step of queue q alone shows in the sequences.
LEMMA OneQueueMoves ==
    ASSUME NEW q \in Queue, NEW r, Ring(q)' = r,
           \A x \in Queue : x # q => Ring(x)' = Ring(x)
    PROVE  [x \in Queue |-> Ring(x)]' = [[x \in Queue |-> Ring(x)] EXCEPT ![q] = r]
OBVIOUS

\* func_800018F0, func_80001B50: the new handler comes in front of pos.
LEMMA AddLinks ==
    ASSUME Inv, RingsHold, Lapses = {}, NEW q \in Queue, NEW nxt \in NextArg(q),
           NEW unk \in {Kernel, User}, AddHandler(q, nxt, unk)
    PROVE  \E new \in Hid, k \in 1..Len(Ring(q)) + 1 :
              /\ state[new] = Free /\ owner[new] = POOL
              /\ state' = [state EXCEPT ![new] = unk] /\ owner' = [owner EXCEPT ![new] = q]
              /\ entries' = [entries EXCEPT ![q] = @ + 1]
              /\ \E safe \in BOOLEAN : /\ safe = (At(Ring(q), q, k) \notin Passed)
                                       /\ MayCall(safe) /\ Noting(safe, {})
              /\ links'.next[At(Ring(q), q, k - 1)] = new /\ links'.next[new] = At(Ring(q), q, k)
              /\ \A c \in Linked : c \notin {At(Ring(q), q, k - 1), new, POOL} => links'.next[c] = links.next[c]
<1>1. TypeOK /\ ListsOK /\ Heap(links, Cell) /\ ~EmptyList(links, POOL)
  BY HeapOfType DEF Inv, AddHandler
<1> PICK new \in Hid : new = links.next[POOL] /\ owner[new] = POOL
  BY <1>1, PoolTop
<1> DEFINE popped == Unlink(links, new)
           st     == [state EXCEPT ![new] = unk]
           pos    == Place(popped, q, nxt)
           bad    == nxt \notin {-1, 0} /\ BadNext(nxt, st)
<1>2. /\ q \in Cell /\ q # POOL /\ q \in Linked /\ on[q] = q /\ POOL \in Cell /\ POOL \in Linked
      /\ new \in Cell /\ new \in Linked /\ on[new] = POOL /\ new # POOL /\ Linked \subseteq Cell /\ on[POOL] = POOL
  BY <1>1, HeadsApart, OnValues DEF Heads
<1> PICK s : s = Ring(q)
  OBVIOUS
<1>0. Holds(q, s)
  BY DEF RingsHold
<1>3. /\ s \in Seq(Hid) /\ Len(s) \in Nat /\ Len(s) = entries[q] /\ q \in Cell /\ q \notin Hid
      /\ \A i \in 1..Len(s) : s[i] \in Hid /\ owner[s[i]] = q /\ At(s, q, i) = s[i]
      /\ \A i, j \in 1..Len(s) : s[i] = s[j] => i = j
      /\ \A h \in Members(q) : \E i \in 1..Len(s) : s[i] = h
      /\ At(s, q, 0) = q /\ At(s, q, Len(s) + 1) = q
      /\ \A i \in 0..Len(s) + 1 : At(s, q, i) \in Linked /\ on[At(s, q, i)] = q
      /\ \A i \in 0..Len(s) : /\ links.next[At(s, q, i)] = At(s, q, i + 1)
                              /\ links.prev[At(s, q, i + 1)] = At(s, q, i)
  <2>1. RingKnown(q, s)
    BY <1>0, <1>1, RingFacts
  <2> QED
    BY <2>1 DEF RingKnown
<1>4. nxt \in {-1, 0} \/ (nxt \in Hid /\ nxt \in Members(q) /\ nxt # new /\ nxt \notin {-1, 0})
  <2>1. nxt \in {-1, 0} \cup Members(q)
    BY DEF NextArg, Lapse
  <2>2. nxt \in Members(q) => nxt \in Hid /\ owner[nxt] = q
    BY DEF Members
  <2>3. nxt \in Hid => nxt \notin {-1, 0}
    BY SlotsAssumption DEF Hid
  <2> QED
    BY <1>2, <2>1, <2>2, <2>3
<1>5. ~bad
  <2> SUFFICES ASSUME bad PROVE FALSE
    OBVIOUS
  <2>1. nxt \in Hid /\ nxt # new /\ owner[nxt] = q
    BY <1>4 DEF Members
  <2>2. st[nxt] = state[nxt] /\ state[nxt] # Free
    BY <1>1, <1>2, <2>1 DEF TypeOK, ListsOK, FreeMeansPooled
  <2> QED
    BY <2>1, <2>2 DEF BadNext
<1>6. /\ links.prev[new] = POOL /\ on[links.next[new]] = POOL /\ links.next[new] \in Linked
  BY <1>1, <1>2 DEF ListsOK, WellLinked, Threaded
<1>7. \A c \in Cell : /\ popped.next[c] = IF c = POOL THEN links.next[new] ELSE links.next[c]
                      /\ popped.prev[c] = IF c = links.next[new] THEN POOL ELSE links.prev[c]
  BY <1>1, <1>2, <1>6 DEF Unlink, Heap
<1>8. popped.next \in [Cell -> Cell]
  BY <1>1, <1>2, UnlinkType DEF Heap
<1> HIDE DEF popped
<1>9. PICK k \in 1..Len(s) + 1 : pos = At(s, q, k)
  <2>1. CASE nxt = -1
    BY <1>3, <2>1 DEF Place
  <2>2. CASE nxt = 0
    <3>1. pos = links.next[q]
      BY <1>2, <1>7, <2>2 DEF Place
    <3>2. links.next[q] = At(s, q, 1)
      BY <1>3
    <3> QED
      BY <1>3, <3>1, <3>2
  <2>3. CASE nxt \notin {-1, 0}
    <3>1. pos = nxt
      BY <2>3 DEF Place
    <3>2. PICK i \in 1..Len(s) : s[i] = nxt
      BY <1>3, <1>4, <2>3
    <3> QED
      BY <1>3, <3>1, <3>2
  <2> QED
    BY <2>1, <2>2, <2>3
<1>10. k - 1 \in 0..Len(s) /\ (k - 1) + 1 = k /\ k \in 0..Len(s) + 1 /\ k - 1 \in 0..Len(s) + 1
  BY <1>3
<1>11. /\ pos \in Cell /\ on[pos] = q /\ links.prev[pos] = At(s, q, k - 1)
       /\ At(s, q, k - 1) \in Cell /\ on[At(s, q, k - 1)] = q
  BY <1>2, <1>3, <1>9, <1>10
<1>12. popped.prev[pos] = At(s, q, k - 1)
  BY <1>2, <1>6, <1>7, <1>11
<1>13. links' = InsertBefore(popped, pos, new)
  BY <1>5 DEF AddHandler, popped
<1>14. \A c \in Cell : links'.next[c] = IF c = At(s, q, k - 1) THEN new
                                       ELSE IF c = new THEN pos ELSE popped.next[c]
  <2>1. links'.next = [popped.next EXCEPT ![new] = pos, ![At(s, q, k - 1)] = new]
    BY <1>12, <1>13 DEF InsertBefore
  <2> HIDE DEF pos
  <2> QED
    BY <1>2, <1>8, <1>11, <2>1
<1>15. links'.next[At(s, q, k - 1)] = new /\ links'.next[new] = At(s, q, k)
  <2>1. new # At(s, q, k - 1)
    BY <1>2, <1>11
  <2> QED
    BY <1>2, <1>9, <1>11, <1>14, <2>1
<1>16. \A c \in Linked : c \notin {At(s, q, k - 1), new, POOL} => links'.next[c] = links.next[c]
  BY <1>2, <1>7, <1>14
<1>17. /\ state[new] = Free
       /\ state' = st /\ owner' = [owner EXCEPT ![new] = q] /\ entries' = [entries EXCEPT ![q] = @ + 1]
  <2>1. state[new] = Free
    BY <1>1 DEF ListsOK, FreeMeansPooled
  <2> QED
    BY <2>1, <1>5 DEF AddHandler, popped
<1>18. \E safe \in BOOLEAN : safe = (pos \notin Passed) /\ MayCall(safe) /\ Noting(safe, {})
  <2>1. MayCall(bad \/ pos \notin Passed) /\ Noting(bad \/ pos \notin Passed, {})
    BY DEF AddHandler, popped
  <2>2. (bad \/ pos \notin Passed) = (pos \notin Passed)
    BY <1>5
  <2> QED
    BY <2>1, <2>2
<1> QED
  BY <1>9, <1>15, <1>16, <1>17, <1>18

LEMMA AddStep ==
    ASSUME Inv, TypeOK', ListsOK', RingsHold, Lapses = {}, UnsafeEdits # "free",
           NEW q \in Queue, NEW nxt \in NextArg(q), NEW unk \in {Kernel, User},
           AddHandler(q, nxt, unk)
    PROVE  RingsHold' /\ Registry!RNext
<1> PICK new \in Hid, k \in 1..Len(Ring(q)) + 1 :
        /\ state[new] = Free /\ owner[new] = POOL
        /\ state' = [state EXCEPT ![new] = unk] /\ owner' = [owner EXCEPT ![new] = q]
        /\ entries' = [entries EXCEPT ![q] = @ + 1]
        /\ \E safe \in BOOLEAN : /\ safe = (At(Ring(q), q, k) \notin Passed)
                                 /\ MayCall(safe) /\ Noting(safe, {})
        /\ links'.next[At(Ring(q), q, k - 1)] = new /\ links'.next[new] = At(Ring(q), q, k)
        /\ \A c \in Linked : c \notin {At(Ring(q), q, k - 1), new, POOL} => links'.next[c] = links.next[c]
  BY AddLinks
<1> PICK s : s = Ring(q)
  OBVIOUS
<1>1. Holds(q, s) /\ k \in 1..Len(s) + 1
  BY DEF RingsHold
<1>2. TypeOK
  BY DEF Inv
<1>3. ListsOK
  BY DEF Inv
<1>4. /\ s \in Seq(Hid) /\ Len(s) \in Nat /\ Len(s) = entries[q] /\ q \in Cell /\ q \notin Hid
      /\ \A i \in 1..Len(s) : s[i] \in Hid /\ owner[s[i]] = q /\ At(s, q, i) = s[i]
      /\ \A i, j \in 1..Len(s) : s[i] = s[j] => i = j
      /\ At(s, q, 0) = q /\ At(s, q, Len(s) + 1) = q
      /\ \A i \in 0..Len(s) + 1 : At(s, q, i) \in Linked /\ on[At(s, q, i)] = q
  <2>1. RingKnown(q, s)
    BY <1>1, <1>2, <1>3, RingFacts
  <2> QED
    BY <2>1 DEF RingKnown
<1>5. q # POOL /\ on[new] = POOL /\ on[POOL] = POOL /\ k - 1 \in 0..Len(s) + 1
  BY <1>1, <1>2, <1>4, HeadsApart, OnValues DEF Heads
<1>6. ASSUME NEW x \in Queue, x # q PROVE Holds(x, Ring(x))' /\ Ring(x)' = Ring(x)
  <2>1. entries'[x] = entries[x] /\ \A h \in Hid : owner'[h] = x <=> owner[h] = x
    BY <1>2, <1>5, <1>6, HeadsApart, SMTT(60) DEF TypeOK
  <2>2. \A c \in Linked : on[c] = x => links'.next[c] = links.next[c]
    BY <1>4, <1>5, <1>6, HeadsApart, SMTT(60)
  <2> QED
    BY <2>1, <2>2, LeftAlone DEF RingsHold
<1>7. PICK r : /\ r = Registry!InsertAt(s, k, new) /\ Len(r) = Len(s) + 1 /\ Reads(links'.next, q, r)
               /\ \A h \in Hid : (\E i \in 1..Len(r) : r[i] = h)
                                    <=> (h = new \/ \E i \in 1..Len(s) : s[i] = h)
  <2>1. \A i \in 1..Len(s) : s[i] # new
    BY <1>4, <1>5
  <2>2. \A i \in 0..Len(s) : i # k - 1 => links'.next[At(s, q, i)] = links.next[At(s, q, i)]
    <3> TAKE i \in 0..Len(s)
    <3> SUFFICES ASSUME i # k - 1 PROVE links'.next[At(s, q, i)] = links.next[At(s, q, i)]
      OBVIOUS
    <3>1. i \in 0..Len(s) + 1
      BY <1>4
    <3>2. At(s, q, i) # At(s, q, k - 1)
      <4>1. \A j \in 0..Len(s) : At(s, q, j) = IF j = 0 THEN q ELSE s[j]
        BY <1>4
      <4>2. k - 1 \in 0..Len(s)
        BY <1>1, <1>4
      <4>3. \A j \in 0..Len(s) : j = 0 \/ (j \in 1..Len(s) /\ s[j] # q)
        BY <1>4
      <4> QED
        BY <1>4, <4>1, <4>2, <4>3
    <3>3. At(s, q, i) \notin {new, POOL} /\ At(s, q, i) \in Linked
      BY <1>4, <1>5, <3>1
    <3> QED
      BY <3>2, <3>3
  <2>3. Reads(links.next, q, s)
    BY <1>1 DEF Holds
  <2>4. links'.next[At(s, q, k - 1)] = new /\ links'.next[new] = At(s, q, k)
    OBVIOUS
  <2>5. q \notin Hid /\ k \in 1..Len(s) + 1
    BY <1>1, <1>4
  <2>6. PutsAt(links.next, links'.next, q, s, k, new)
    BY <2>2, <2>4 DEF PutsAt
  <2>7. ReadsPut(links'.next, q, s, k, new)
    BY <2>1, <2>3, <2>5, <2>6, PutIsRead
  <2> QED
    BY <2>7 DEF ReadsPut
<1> PICK w : w = Registry!InsertAt(s, k, new)
  OBVIOUS
<1>8. /\ r = w /\ Len(r) = Len(s) + 1 /\ Reads(links'.next, q, r)
      /\ \A h \in Hid : (\E i \in 1..Len(r) : r[i] = h) <=> (h = new \/ \E i \in 1..Len(s) : s[i] = h)
  BY <1>7
<1>9. Ring(q)' = r /\ Holds(q, Ring(q))'
  <2>1. Len(r) = entries'[q]
    BY <1>2, <1>4, <1>8 DEF TypeOK
  <2>2. \A h \in Hid : owner'[h] = q <=> \E i \in 1..Len(r) : r[i] = h
    <3> TAKE h \in Hid
    <3>1. owner'[h] = q <=> h = new \/ owner[h] = q
      BY <1>2 DEF TypeOK
    <3>2. owner[h] = q <=> \E i \in 1..Len(s) : s[i] = h
      BY <1>1 DEF Holds
    <3> QED
      BY <1>8, <3>1, <3>2
  <2>3. Holds(q, r)'
    BY <1>8, <2>1, <2>2 DEF Holds
  <2> QED
    BY <2>3, HeldIsRingAfter
<1>10. RingsHold'
  <2>1. walk'.pc = walk.pc /\ walk.pc \in {"idle", "call"}
    BY <1>2 DEF Noting, MayCall, TypeOK
  <2>2. walk'.pc # "loop"
    BY <2>1
  <2>3. \A x \in Queue : Holds(x, Ring(x))'
    BY <1>6, <1>9
  <2> QED
    BY <2>2, <2>3 DEF RingsHold
<1>11. Registry!Editing(q, k)
  BY EditIsSeen
<1>12. [x \in Queue |-> Ring(x)]' = [[x \in Queue |-> Ring(x)] EXCEPT ![q] = r]
  BY <1>6, <1>9, OneQueueMoves
<1>13. r = Registry!InsertAt([x \in Queue |-> Ring(x)][q], k, new)
  BY <1>7
<1>14. Registry!Register(q, k, new, unk)
  <2>1. ~(unk = User /\ q = SBUS)
    BY DEF AddHandler, User, Kernel
  <2> QED
    BY <1>11, <1>12, <1>13, <2>1 DEF Registry!Register, Registry!User, Registry!Free, User, Free
<1>15. k \in 1..(Len([x \in Queue |-> Ring(x)][q]) + 1) /\ unk \in {Registry!Kernel, Registry!User}
  BY DEF Registry!Kernel, Registry!User, Kernel, User
<1> QED
  BY <1>10, <1>14, <1>15 DEF Registry!RNext

\* func_80001AB0, func_80001CF8: the handler's place on its ring is closed.
RemovesAt(q, hid, k) ==
    /\ Ring(q)[k] = hid
    /\ state' = [state EXCEPT ![hid] = Free] /\ owner' = [owner EXCEPT ![hid] = POOL]
    /\ entries' = [entries EXCEPT ![q] = @ - 1]
    /\ \E safe \in BOOLEAN : /\ safe = (At(Ring(q), q, k) \notin Passed)
                             /\ MayCall(safe) /\ Noting(safe, {hid})
    /\ links'.next[At(Ring(q), q, k - 1)] = At(Ring(q), q, k + 1)
    /\ \A c \in Linked : on[c] # POOL /\ c \notin {At(Ring(q), q, k - 1), hid}
                           => links'.next[c] = links.next[c]

LEMMA RemoveLinks ==
    ASSUME Inv, RingsHold, NEW q \in Queue, NEW hid \in Hid, owner[hid] = q, RemoveHandler(q, hid)
    PROVE  \E k \in 1..Len(Ring(q)) : RemovesAt(q, hid, k)
<1>1. TypeOK /\ ListsOK /\ Heap(links, Cell)
  BY HeapOfType DEF Inv
<1> DEFINE popped == Unlink(links, hid)
<1>2. /\ hid \in Cell /\ hid \in Linked /\ on[hid] = q /\ hid # POOL /\ q # POOL
      /\ POOL \in Cell /\ POOL \in Linked /\ on[POOL] = POOL /\ Linked \subseteq Cell
  BY <1>1, HeadsApart, OnValues DEF Heads
<1> PICK s : s = Ring(q)
  OBVIOUS
<1>3. Holds(q, s)
  BY DEF RingsHold
<1>4. /\ s \in Seq(Hid) /\ Len(s) \in Nat /\ Len(s) = entries[q] /\ q \in Cell /\ q \notin Hid
      /\ \A i \in 1..Len(s) : s[i] \in Hid /\ owner[s[i]] = q /\ At(s, q, i) = s[i]
      /\ \A i, j \in 1..Len(s) : s[i] = s[j] => i = j
      /\ \A h \in Members(q) : \E i \in 1..Len(s) : s[i] = h
      /\ At(s, q, 0) = q /\ At(s, q, Len(s) + 1) = q
      /\ \A i \in 0..Len(s) + 1 : At(s, q, i) \in Linked /\ on[At(s, q, i)] = q
      /\ \A i \in 0..Len(s) : /\ links.next[At(s, q, i)] = At(s, q, i + 1)
                              /\ links.prev[At(s, q, i + 1)] = At(s, q, i)
  <2>1. RingKnown(q, s)
    BY <1>3, <1>1, RingFacts
  <2> QED
    BY <2>1 DEF RingKnown
<1>5. PICK k \in 1..Len(s) : s[k] = hid
  BY <1>4 DEF Members
<1>6. /\ k - 1 \in 0..Len(s) /\ (k - 1) + 1 = k /\ k \in 0..Len(s)
      /\ k - 1 \in 0..Len(s) + 1 /\ k + 1 \in 0..Len(s) + 1
  BY <1>4
<1>7. /\ At(s, q, k) = hid /\ links.prev[hid] = At(s, q, k - 1) /\ links.next[hid] = At(s, q, k + 1)
      /\ on[At(s, q, k - 1)] = q /\ on[At(s, q, k + 1)] = q
      /\ At(s, q, k - 1) \in Cell /\ At(s, q, k + 1) \in Cell
  BY <1>2, <1>4, <1>5, <1>6
<1>8. At(s, q, k - 1) # hid
  <2>1. CASE k - 1 = 0
    BY <1>4, <2>1
  <2>2. CASE k - 1 # 0
    <3>1. k - 1 \in 1..Len(s) /\ k - 1 # k
      BY <1>4, <2>2
    <3> QED
      BY <1>4, <1>5, <3>1
  <2> QED
    BY <2>1, <2>2
<1>9. /\ \A c \in Cell : /\ popped.next[c] = IF c = At(s, q, k - 1) THEN At(s, q, k + 1) ELSE links.next[c]
                         /\ popped.prev[c] = IF c = At(s, q, k + 1) THEN At(s, q, k - 1) ELSE links.prev[c]
      /\ popped.next \in [Cell -> Cell]
  BY <1>1, <1>2, <1>7 DEF Unlink, Heap
<1> HIDE DEF popped
<1>10. links.prev[POOL] \in Linked /\ on[links.prev[POOL]] = POOL
  BY <1>1, <1>2 DEF ListsOK, WellLinked, Threaded
<1>11. popped.prev[POOL] = links.prev[POOL]
  BY <1>2, <1>7, <1>9
<1>12. links' = InsertBefore(popped, POOL, hid)
  BY DEF RemoveHandler, popped
<1>13. links'.next = [popped.next EXCEPT ![hid] = POOL, ![links.prev[POOL]] = hid]
  BY <1>11, <1>12 DEF InsertBefore
<1>14. \A c \in Cell : c # hid /\ c # links.prev[POOL] => links'.next[c] = popped.next[c]
  BY <1>2, <1>9, <1>10, <1>13
<1>15. links'.next[At(s, q, k - 1)] = At(s, q, k + 1)
  BY <1>2, <1>7, <1>8, <1>9, <1>10, <1>14
<1>16. \A c \in Linked : on[c] # POOL /\ c \notin {At(s, q, k - 1), hid} => links'.next[c] = links.next[c]
  BY <1>2, <1>9, <1>10, <1>14
<1>17. /\ state' = [state EXCEPT ![hid] = Free] /\ owner' = [owner EXCEPT ![hid] = POOL]
       /\ entries' = [entries EXCEPT ![q] = @ - 1]
  BY DEF RemoveHandler
<1>18. \E safe \in BOOLEAN : safe = (At(s, q, k) \notin Passed) /\ MayCall(safe) /\ Noting(safe, {hid})
  BY <1>7 DEF RemoveHandler
<1>19. RemovesAt(q, hid, k)
  BY <1>5, <1>15, <1>16, <1>17, <1>18 DEF RemovesAt
<1> QED
  BY <1>19

LEMMA RemoveStep ==
    ASSUME Inv, TypeOK', ListsOK', RingsHold, UnsafeEdits # "free",
           NEW q \in Queue, NEW hid \in Hid, owner[hid] = q, RemoveHandler(q, hid)
    PROVE  RingsHold' /\ Registry!RNext
<1> PICK k \in 1..Len(Ring(q)) : RemovesAt(q, hid, k)
  BY RemoveLinks
<1>0. /\ Ring(q)[k] = hid
      /\ state' = [state EXCEPT ![hid] = Free] /\ owner' = [owner EXCEPT ![hid] = POOL]
      /\ entries' = [entries EXCEPT ![q] = @ - 1]
      /\ \E safe \in BOOLEAN : /\ safe = (At(Ring(q), q, k) \notin Passed)
                               /\ MayCall(safe) /\ Noting(safe, {hid})
      /\ links'.next[At(Ring(q), q, k - 1)] = At(Ring(q), q, k + 1)
      /\ \A c \in Linked : on[c] # POOL /\ c \notin {At(Ring(q), q, k - 1), hid}
                             => links'.next[c] = links.next[c]
  BY DEF RemovesAt
<1> PICK s : s = Ring(q)
  OBVIOUS
<1>1. Holds(q, s) /\ k \in 1..Len(s) /\ s[k] = hid
  BY <1>0 DEF RingsHold
<1>2. TypeOK
  BY DEF Inv
<1>3. ListsOK
  BY DEF Inv
<1>4. /\ s \in Seq(Hid) /\ Len(s) \in Nat /\ Len(s) = entries[q] /\ q \in Cell /\ q \notin Hid
      /\ \A i \in 1..Len(s) : s[i] \in Hid /\ owner[s[i]] = q /\ At(s, q, i) = s[i]
      /\ \A i, j \in 1..Len(s) : s[i] = s[j] => i = j
      /\ \A h \in Members(q) : \E i \in 1..Len(s) : s[i] = h
      /\ At(s, q, 0) = q /\ At(s, q, Len(s) + 1) = q
      /\ \A i \in 0..Len(s) + 1 : At(s, q, i) \in Linked /\ on[At(s, q, i)] = q
      /\ \A i \in 0..Len(s) : /\ links.next[At(s, q, i)] = At(s, q, i + 1)
                              /\ links.prev[At(s, q, i + 1)] = At(s, q, i)
  <2>1. RingKnown(q, s)
    BY <1>1, <1>2, <1>3, RingFacts
  <2> QED
    BY <2>1 DEF RingKnown
<1>5. q # POOL /\ on[hid] = q /\ k - 1 \in 0..Len(s) + 1 /\ k - 1 \in 0..Len(s)
  BY <1>1, <1>2, <1>4, HeadsApart, OnValues DEF Heads
<1>6. ASSUME NEW x \in Queue, x # q PROVE Holds(x, Ring(x))' /\ Ring(x)' = Ring(x)
  <2>1. x # POOL
    BY HeadsApart
  <2>2. entries'[x] = entries[x] /\ \A h \in Hid : owner'[h] = x <=> owner[h] = x
    BY <1>0, <1>2, <1>6, <2>1 DEF TypeOK
  <2>3. \A c \in Linked : on[c] = x => links'.next[c] = links.next[c]
    BY <1>0, <1>4, <1>5, <1>6, <2>1
  <2> QED
    BY <2>2, <2>3, LeftAlone DEF RingsHold
<1>7. PICK r : /\ r = Registry!RemoveAt(s, k) /\ Len(r) = Len(s) - 1 /\ Reads(links'.next, q, r)
               /\ \A h \in Hid : (\E i \in 1..Len(r) : r[i] = h)
                                    <=> (h # s[k] /\ \E i \in 1..Len(s) : s[i] = h)
  <2>1. \A i \in 0..Len(s) : i \notin {k - 1, k} => links'.next[At(s, q, i)] = links.next[At(s, q, i)]
    <3> TAKE i \in 0..Len(s)
    <3> SUFFICES ASSUME i # k - 1, i # k PROVE links'.next[At(s, q, i)] = links.next[At(s, q, i)]
      OBVIOUS
    <3>1. i \in 0..Len(s) + 1
      BY <1>4
    <3>2. \A j \in 0..Len(s) : At(s, q, j) = IF j = 0 THEN q ELSE s[j]
      BY <1>4
    <3>3. \A j \in 0..Len(s) : j = 0 \/ (j \in 1..Len(s) /\ s[j] # q)
      BY <1>4
    <3>4. At(s, q, i) # At(s, q, k - 1)
      BY <1>4, <1>5, <3>2, <3>3
    <3>5. k \in 0..Len(s) /\ At(s, q, k) = hid
      BY <1>1, <1>4
    <3>6. At(s, q, i) # At(s, q, k)
      BY <1>4, <3>2, <3>3, <3>5
    <3>7. At(s, q, i) \in Linked /\ on[At(s, q, i)] # POOL
      BY <1>4, <1>5, <3>1
    <3> QED
      BY <1>0, <3>4, <3>5, <3>6, <3>7
  <2>2. links'.next[At(s, q, k - 1)] = At(s, q, k + 1)
    BY <1>0
  <2>3. Reads(links.next, q, s)
    BY <1>1 DEF Holds
  <2>4. q \notin Hid /\ k \in 1..Len(s)
    BY <1>1, <1>4
  <2>5. TakesAt(links.next, links'.next, q, s, k)
    BY <2>1, <2>2 DEF TakesAt
  <2>6. ReadsTaken(links'.next, q, s, k)
    BY <2>3, <2>4, <2>5, TakeIsRead
  <2> QED
    BY <2>6 DEF ReadsTaken
<1> PICK w : w = Registry!RemoveAt(s, k)
  OBVIOUS
<1>8. /\ r = w /\ Len(r) = Len(s) - 1 /\ Reads(links'.next, q, r)
      /\ \A h \in Hid : (\E i \in 1..Len(r) : r[i] = h) <=> (h # hid /\ \E i \in 1..Len(s) : s[i] = h)
  BY <1>1, <1>7
<1>9. Ring(q)' = r /\ Holds(q, Ring(q))'
  <2>1. Len(r) = entries'[q]
    BY <1>0, <1>2, <1>4, <1>8 DEF TypeOK
  <2>2. \A h \in Hid : owner'[h] = q <=> \E i \in 1..Len(r) : r[i] = h
    <3> TAKE h \in Hid
    <3>1. owner'[h] = q <=> h # hid /\ owner[h] = q
      BY <1>0, <1>2, <1>5 DEF TypeOK
    <3>2. owner[h] = q <=> \E i \in 1..Len(s) : s[i] = h
      BY <1>1 DEF Holds
    <3> QED
      BY <1>8, <3>1, <3>2
  <2>3. Holds(q, r)'
    BY <1>8, <2>1, <2>2 DEF Holds
  <2> QED
    BY <2>3, HeldIsRingAfter
<1>10. RingsHold'
  <2>1. walk'.pc = walk.pc /\ walk.pc \in {"idle", "call"}
    BY <1>0, <1>2 DEF Noting, MayCall, TypeOK
  <2>2. walk'.pc # "loop"
    BY <2>1
  <2>3. \A x \in Queue : Holds(x, Ring(x))'
    BY <1>6, <1>9
  <2> QED
    BY <2>2, <2>3 DEF RingsHold
<1>11. Registry!Editing(q, k)
  <2>1. k \in 1..Len(Ring(q)) + 1
    BY <1>1, <1>4
  <2> QED
    BY <1>0, <2>1, EditIsSeen
<1>12. [x \in Queue |-> Ring(x)]' = [[x \in Queue |-> Ring(x)] EXCEPT ![q] = r]
  BY <1>6, <1>9, OneQueueMoves
<1>13. r = Registry!RemoveAt([x \in Queue |-> Ring(x)][q], k)
  BY <1>7
<1>14. Registry!Unregister(q, k)
  <2>1. [x \in Queue |-> Ring(x)][q][k] = hid
    BY <1>1
  <2> QED
    BY <1>0, <1>11, <1>12, <1>13, <2>1 DEF Registry!Unregister, Registry!Free, Free
<1>15. k \in 1..Len([x \in Queue |-> Ring(x)][q])
  BY <1>1
<1> QED
  BY <1>10, <1>14, <1>15 DEF Registry!RNext

\* Steps that leave the rings alone.
LEMMA RingsKept ==
    ASSUME Inv, TypeOK', ListsOK', RingsHold, UNCHANGED <<links, entries, owner>>
    PROVE  /\ \A q \in Queue : Holds(q, Ring(q))'
           /\ [x \in Queue |-> Ring(x)]' = [x \in Queue |-> Ring(x)]
<1>1. ASSUME NEW q \in Queue PROVE Holds(q, Ring(q))' /\ Ring(q)' = Ring(q)
  BY LeftAlone DEF RingsHold
<1> QED
  BY <1>1

\* func_80001FE0, func_80002008, func_80002030, func_80002058.
LEMMA ToggleStep ==
    ASSUME Inv, TypeOK', ListsOK', RingsHold, NEW hid \in Registered,
           EnableHandler(hid) \/ DisableHandler(hid)
    PROVE  RingsHold' /\ Registry!RNext
<1>1. TypeOK /\ walk \in WalkType /\ walk.pc \in {"idle", "call"}
  BY DEF Inv, TypeOK, WalkType, EnableHandler, DisableHandler, MayCall
<1>2. /\ walk'.pc = walk.pc /\ walk'.q = walk.q /\ walk'.i = walk.i
      /\ walk'.user = walk.user /\ walk'.dirty = walk.dirty
  BY <1>1 DEF EnableHandler, DisableHandler, Noting, WalkType
<1>3. UNCHANGED <<links, entries, owner>>
  BY DEF EnableHandler, DisableHandler
<1>4. PICK m \in {Disabled, User} : state' = [state EXCEPT ![hid] = m]
  BY DEF EnableHandler, DisableHandler
<1>5. hid \in Hid /\ state[hid] # Free
  BY HeadsApart DEF Registered, Inv, ListsOK, FreeMeansPooled
<1>6. RingVisit' = RingVisit
  BY <1>2 DEF RingVisit
<1>7. RingVisit.pc \in {"idle", "call", "torn"}
  BY <1>1 DEF RingVisit
<1>8. Registry!Toggle(hid, m)
  BY <1>3, <1>4, <1>5, <1>6, <1>7, RingsKept DEF Registry!Toggle, Registry!Free, Free
<1>9. m \in {Registry!Disabled, Registry!User}
  BY DEF Registry!Disabled, Registry!User, Disabled, User
<1>10. RingsHold'
  BY <1>1, <1>2, <1>3, RingsKept DEF RingsHold
<1> QED
  BY <1>5, <1>8, <1>9, <1>10 DEF Registry!RNext

\* A queue without entries reads as the empty sequence.
EmptyRead == \A q \in Queue : entries[q] = 0 => Holds(q, <<>>)

LEMMA EmptyRings == TypeOK /\ ListsOK => EmptyRead
<1> SUFFICES ASSUME TypeOK, ListsOK, NEW q \in Queue, entries[q] = 0 PROVE Holds(q, <<>>)
  BY DEF EmptyRead
<1>1. Members(q) = {}
  BY MembersFinite, FS_EmptySet DEF ListsOK, CountersExact
<1>2. q \in Heads /\ q \in Linked /\ on[q] = q
  BY OnValues DEF Heads
<1>3. links.next[q] = q
  <2>1. links.next[q] \in Linked /\ on[links.next[q]] = q
    BY <1>2 DEF ListsOK, WellLinked, Threaded
  <2> QED
    BY <1>1, <1>2, <2>1, OnMembers
<1>4. Len(<<>>) = 0 /\ <<>> \in Seq(Hid)
  OBVIOUS
<1> PICK e : e = <<>>
  OBVIOUS
<1>5. Len(e) = 0 /\ e \in Seq(Hid)
  BY <1>4
<1>6. \A i \in 0..Len(e) + 1 : At(e, q, i) = q
  BY <1>5 DEF At
<1>7. Reads(links.next, q, e)
  BY <1>3, <1>5, <1>6 DEF Reads
<1>8. \A h \in Hid : owner[h] = q <=> \E i \in 1..Len(e) : e[i] = h
  BY <1>1, <1>5 DEF Members
<1> QED
  BY <1>5, <1>7, <1>8 DEF Holds

LEMMA AllEmptyAfter ==
    ASSUME TypeOK', ListsOK', \A q \in Queue : entries'[q] = 0, walk'.pc # "loop"
    PROVE  RingsHold' /\ [x \in Queue |-> Ring(x)]' = [x \in Queue |-> <<>>]
<1>1. (TypeOK /\ ListsOK)' => EmptyRead'
  BY EmptyRings, PTL
<1>2. ASSUME NEW q \in Queue PROVE Holds(q, <<>>)'
  BY <1>1 DEF EmptyRead
<1>3. ASSUME NEW q \in Queue PROVE Ring(q)' = <<>> /\ Holds(q, Ring(q))'
  BY <1>2, HeldIsRingAfter
<1>4. [x \in Queue |-> Ring(x)]' = [x \in Queue |-> <<>>]
  BY <1>3
<1> QED
  BY <1>3, <1>4 DEF RingsHold

\* func_800021F0.
LEMMA ResetStep ==
    ASSUME Inv, TypeOK', ListsOK', RingsHold, Lapses = {}, Reset
    PROVE  RingsHold' /\ Registry!RNext
<1>1. /\ walk.pc = "idle" /\ entries[SBUS] = 0 /\ walk' = walk /\ state' = [h \in Hid |-> Free]
      /\ \A q \in Queue : entries'[q] = 0
  BY DEF Reset, SbusQuiet
<1>2. RingsHold' /\ [x \in Queue |-> Ring(x)]' = [x \in Queue |-> <<>>]
  BY <1>1, AllEmptyAfter
<1>3. Ring(SBUS) = <<>> /\ SBUS \in Queue
  <2>1. TypeOK /\ ListsOK /\ SBUS \in Queue
    BY HeadsApart DEF Inv
  <2>2. Holds(SBUS, <<>>)
    BY <1>1, <2>1, EmptyRings DEF EmptyRead
  <2> QED
    BY <2>1, <2>2, HeldIsRing DEF RingFindsIt
<1>4. RingVisit' = RingVisit /\ RingVisit.pc = "idle"
  BY <1>1 DEF RingVisit
<1>5. Registry!ForgetAll
  BY <1>1, <1>2, <1>3, <1>4 DEF Registry!ForgetAll, Registry!Free, Free
<1> QED
  BY <1>2, <1>5 DEF Registry!RNext

LEMMA StartMaps == Init => RingsHold /\ Registry!RInit
<1> SUFFICES ASSUME Init PROVE RingsHold /\ Registry!RInit
  OBVIOUS
<1>1. TypeOK /\ ListsOK
  BY InitType, InitLists
<1>2. \A q \in Queue : entries[q] = 0
  BY DEF Init
<1>3. \A q \in Queue : Holds(q, <<>>)
  BY <1>1, <1>2, EmptyRings DEF EmptyRead
<1>4. \A q \in Queue : Ring(q) = <<>>
  BY <1>1, <1>3, HeldIsRing DEF RingFindsIt
<1>5. RingsHold
  BY <1>3, <1>4 DEF RingsHold, Init, NoWalk
<1>6. RingVisit = Registry!Idle
  BY DEF RingVisit, Registry!Idle, Init, NoWalk
<1>7. [x \in Queue |-> Ring(x)] = [x \in Queue |-> <<>>]
  BY <1>4
<1> QED
  BY <1>5, <1>6, <1>7 DEF Registry!RInit, Init, Registry!Free, Free

\* Interrupts.
LEMMA IdleVisit == Registry!Idle = VisitOf("idle", SBUS, 1, FALSE)
BY DEF Registry!Idle, VisitOf

LEMMA EnterStep ==
    ASSUME Inv, TypeOK', ListsOK', RingsHold, NEW q \in Queue, IrqEnter(q)
    PROVE  RingsHold' /\ Registry!RNext
<1>1. /\ walk.pc = "idle" /\ q \notin Redirected /\ UNCHANGED <<links, entries, owner, state>>
      /\ walk'.pc = "loop" /\ walk'.q = q /\ walk'.i = 0 /\ walk'.user = FALSE /\ walk'.dirty = FALSE
  BY DEF IrqEnter, NoWalk, lists
<1>2. RingVisit' = VisitOf("loop", q, 1, FALSE)
  <2>1. RingVisit' = VisitOf(IF walk'.pc = "call" /\ walk'.dirty THEN "torn" ELSE walk'.pc,
                             walk'.q, walk'.i + 1, walk'.user)
    BY DEF RingVisit, VisitOf
  <2>2. walk'.i + 1 = 1 /\ ~(walk'.pc = "call" /\ walk'.dirty)
    BY <1>1
  <2> QED
    BY <1>1, <2>1, <2>2
<1>3. RingVisit' = [Registry!Idle EXCEPT !.pc = "loop", !.q = q]
  <2> PICK v, n, e : v = Registry!Idle /\ n = 1 /\ e = FALSE
    OBVIOUS
  <2>1. v = VisitOf("idle", SBUS, n, e)
    BY IdleVisit
  <2>2. Entered(v, q) = VisitOf("loop", q, n, e)
    BY <2>1, VisitEntered
  <2>3. RingVisit' = Entered(v, q)
    BY <1>2, <2>2
  <2> QED
    BY <2>3 DEF Entered
<1>4. RingVisit.pc = "idle"
  BY <1>1 DEF RingVisit
<1>5. Registry!Interrupt(q)
  BY <1>1, <1>3, <1>4, RingsKept DEF Registry!Interrupt
<1>6. RingsHold'
  BY <1>1, RingsKept DEF RingsHold
<1> QED
  BY <1>5, <1>6 DEF Registry!RNext

\* The handler the walk has come to is the one at the position of the visit.
LEMMA AtTurn ==
    ASSUME Inv, RingsHold, walk.pc \in {"loop", "call"}, ~walk.dirty
    PROVE  /\ walk.q \in Queue /\ Len(Ring(walk.q)) = entries[walk.q] /\ walk.i \in Nat
           /\ Len(Ring(walk.q)) \in Nat
           /\ walk.i < entries[walk.q] => Ring(walk.q)[walk.i + 1] = walk.hnd /\ walk.hnd \in Hid
<1>1. TypeOK /\ ListsOK /\ WalkInStep /\ walk.q \in Queue /\ walk.i \in Nat
  BY DEF Inv, WalkInv, TypeOK
<1> PICK q \in Queue : q = walk.q
  BY <1>1
<1> PICK s : s = Ring(q)
  OBVIOUS
<1>2. Holds(q, s)
  BY DEF RingsHold
<1>3. walk.i \in 0..Len(s) /\ walk.hnd = At(s, q, walk.i + 1)
  BY <1>1, <1>2, WalkAtPlace
<1>4. RingKnown(q, s)
  BY <1>1, <1>2, RingFacts
<1>5. Len(s) \in Nat /\ Len(s) = entries[q] /\ \A i \in 1..Len(s) : s[i] \in Hid /\ At(s, q, i) = s[i]
  BY <1>4 DEF RingKnown
<1>6. ASSUME walk.i < entries[q] PROVE s[walk.i + 1] = walk.hnd /\ walk.hnd \in Hid
  <2>1. walk.i + 1 \in 1..Len(s)
    BY <1>1, <1>5, <1>6
  <2> QED
    BY <1>3, <1>5, <2>1
<1> QED
  BY <1>1, <1>5, <1>6

\* What a step does to the visit, in its fields.
LEMMA VisitAfter ==
    ASSUME NEW p, NEW x, NEW n, NEW u,
           walk'.pc = p, walk'.q = x, walk'.i + 1 = n, walk'.user = u,
           ~(walk'.pc = "call" /\ walk'.dirty)
    PROVE  RingVisit' = VisitOf(p, x, n, u)
<1>1. RingVisit' = VisitOf(IF walk'.pc = "call" /\ walk'.dirty THEN "torn" ELSE walk'.pc,
                           walk'.q, walk'.i + 1, walk'.user)
  BY DEF RingVisit, VisitOf
<1> QED
  BY <1>1

LEMMA VisitNow ==
    ASSUME TypeOK, ~(walk.pc = "call" /\ walk.dirty)
    PROVE  RingVisit = VisitOf(walk.pc, walk.q, walk.i + 1, walk.user)
BY DEF RingVisit, VisitOf

\* The loops of func_80001670 and func_800017D8.
LEMMA LoopStep ==
    ASSUME Inv, TypeOK', ListsOK', RingsHold, Dispatch
    PROVE  RingsHold' /\ Registry!RNext
<1>1. /\ TypeOK /\ walk \in WalkType /\ walk.pc = "loop" /\ ~walk.dirty /\ ~walk.user
      /\ UNCHANGED <<links, entries, owner, state>>
  BY DEF Inv, TypeOK, WalkType, WalkInv, TornOnlyInCall, RingsHold, Dispatch, LoopSkip, LoopCall,
         LoopHead, LoopEnd, InLoop, lists
<1>2. /\ walk.q \in Queue /\ Len(Ring(walk.q)) = entries[walk.q] /\ walk.i \in Nat
      /\ Len(Ring(walk.q)) \in Nat
      /\ walk.i < entries[walk.q] => Ring(walk.q)[walk.i + 1] = walk.hnd /\ walk.hnd \in Hid
  BY <1>1, AtTurn
<1> DEFINE rings == [x \in Queue |-> Ring(x)]
<1>3. (\A q \in Queue : Holds(q, Ring(q))') /\ rings' = rings
  BY <1>1, RingsKept
<1> PICK v : v = RingVisit
  OBVIOUS
<1> PICK u \in BOOLEAN : u = FALSE
  OBVIOUS
<1> PICK x \in Queue, n \in Nat : x = walk.q /\ n = walk.i + 1
  BY <1>2
<1>4. v = VisitOf("loop", x, n, u)
  <2>1. v = VisitOf(walk.pc, walk.q, walk.i + 1, walk.user)
    BY <1>1, VisitNow
  <2>2. walk.user = u
    BY <1>1 DEF WalkType
  <2> QED
    BY <1>1, <2>1, <2>2
<1>5. v.pc = "loop" /\ v.q = x /\ v.pos = n /\ v.user = u
  BY <1>4, VisitFields
<1>6. rings[x] = Ring(x)
  OBVIOUS
<1> HIDE DEF rings
<1>7. CASE LoopSkip \/ LoopCall
  <2>1. walk.i < entries[walk.q] /\ walk.hnd \in Hid
    BY <1>7 DEF LoopSkip, LoopCall, InLoop
  <2>2. rings[v.q][v.pos] = walk.hnd /\ v.pos <= Len(rings[v.q])
    BY <1>2, <1>5, <1>6, <2>1
  <2>3. CASE LoopSkip
    <3>1. /\ walk'.pc = "loop" /\ walk'.q = walk.q /\ walk'.i = walk.i + 1 /\ walk'.user = FALSE
      BY <1>1, <2>3 DEF LoopSkip, Onward, WalkType
    <3>2. walk'.i + 1 = n + 1
      BY <3>1
    <3>3. RingVisit' = VisitOf("loop", x, n + 1, u)
      BY <3>1, <3>2, VisitAfter
    <3>4. RingVisit' = [v EXCEPT !.pos = @ + 1]
      BY <1>4, <3>3, VisitPasses
    <3>5. state[walk.hnd] \notin {Registry!Kernel, Registry!User}
      BY <2>3 DEF LoopSkip, Enabled, Registry!Kernel, Registry!User, Kernel, User
    <3>6. Registry!Visit
      BY <1>1, <1>3, <1>5, <2>2, <3>4, <3>5 DEF Registry!Visit, Registry!Current, rings
    <3> QED
      BY <1>3, <3>1, <3>6 DEF RingsHold, Registry!RNext
  <2>4. CASE LoopCall
    <3>1. PICK e \in BOOLEAN : e = (state[walk.hnd] = User)
      OBVIOUS
    <3>0. owner[walk.hnd] # POOL
      BY <2>4 DEF LoopCall, Inv, ListsOK, FreeMeansPooled, Enabled, Kernel, User, Free
    <3>2. /\ walk'.pc = "call" /\ walk'.q = walk.q /\ walk'.i = walk.i /\ walk'.dirty = walk.dirty
          /\ walk'.user = e
      BY <1>1, <2>4, <3>0, <3>1 DEF LoopCall, Called, WalkType
    <3>3. RingVisit' = VisitOf("call", x, n, e)
      BY <1>1, <3>2, VisitAfter
    <3>4. RingVisit' = [v EXCEPT !.pc = "call", !.user = e]
      <4>1. RingVisit' = Calling(v, e)
        BY <1>4, <3>3, VisitCalls
      <4> QED
        BY <4>1 DEF Calling
    <3>5. state[walk.hnd] \in {Registry!Kernel, Registry!User} /\ e = (state[walk.hnd] = Registry!User)
      BY <2>4, <3>1 DEF LoopCall, Enabled, Registry!Kernel, Registry!User, Kernel, User
    <3>6. Registry!Visit
      BY <1>1, <1>3, <1>5, <2>2, <3>4, <3>5 DEF Registry!Visit, Registry!Current, rings
    <3> QED
      BY <1>3, <3>2, <3>6 DEF RingsHold, Registry!RNext
  <2> QED
    BY <1>7, <2>3, <2>4
<1>8. CASE LoopHead
  BY <1>2, <1>8 DEF LoopHead, InLoop
<1>9. CASE LoopEnd
  <2>1. ~(walk.i < entries[walk.q]) /\ walk' = NoWalk
    BY <1>1, <1>9 DEF LoopEnd, InLoop
  <2>2. v.pos > Len(rings[v.q])
    BY <1>2, <1>5, <1>6, <2>1
  <2>3. RingVisit' = Registry!Idle
    BY <2>1 DEF RingVisit, NoWalk, Registry!Idle
  <2>4. Registry!Finish
    BY <1>1, <1>3, <1>5, <2>2, <2>3 DEF Registry!Finish, rings
  <2> QED
    BY <1>3, <2>1, <2>4 DEF RingsHold, NoWalk, Registry!RNext
<1> QED
  BY <1>7, <1>8, <1>9 DEF Dispatch

\* A visit with a callback under way, back in the loop at the next place.
Returned(v, e) == [v EXCEPT !.pc = "loop", !.pos = @ + 1, !.user = e]

ToLoop(v)     == [v EXCEPT !.pc = "loop"]
ToPlace(v, m) == [v EXCEPT !.pos = m]
ForUser(v, e) == [v EXCEPT !.user = e]

LEMMA FieldByField ==
    ASSUME NEW v, NEW n, NEW m, v.pos = n, m = n + 1, NEW e
    PROVE  Returned(v, e) = ForUser(ToPlace(ToLoop(v), m), e)
BY DEF Returned, ForUser, ToPlace, ToLoop

LEMMA VisitLoops ==
    ASSUME NEW p, NEW x, NEW n, NEW u, NEW v, v = VisitOf(p, x, n, u)
    PROVE  ToLoop(v) = VisitOf("loop", x, n, u)
BY DEF VisitOf, ToLoop

LEMMA VisitMoves ==
    ASSUME NEW p, NEW x, NEW n, NEW u, NEW v, v = VisitOf(p, x, n, u), NEW m
    PROVE  ToPlace(v, m) = VisitOf(p, x, m, u)
BY DEF VisitOf, ToPlace

LEMMA VisitRuns ==
    ASSUME NEW p, NEW x, NEW n, NEW u, NEW v, v = VisitOf(p, x, n, u), NEW e
    PROVE  ForUser(v, e) = VisitOf(p, x, n, e)
BY DEF VisitOf, ForUser

LEMMA VisitReturns ==
    ASSUME NEW v, NEW x, NEW u, NEW e, NEW n \in Nat, NEW m, m = n + 1,
           v = VisitOf("call", x, n, u)
    PROVE  Returned(v, e) = VisitOf("loop", x, m, e)
<1>1. ToLoop(v) = VisitOf("loop", x, n, u)
  BY VisitLoops
<1>2. ToPlace(ToLoop(v), m) = VisitOf("loop", x, m, u)
  BY <1>1, VisitMoves
<1>3. ForUser(ToPlace(ToLoop(v), m), e) = VisitOf("loop", x, m, e)
  BY <1>2, VisitRuns
<1>4. v.pos = n
  BY VisitFields
<1> QED
  BY <1>3, <1>4, FieldByField

\* A callback returns, or has the interrupt abandoned.
LEMMA CallStep ==
    ASSUME Inv, TypeOK', ListsOK', RingsHold, CallReturn \/ CallAbort
    PROVE  RingsHold' /\ Registry!RNext
<1>1. /\ TypeOK /\ walk \in WalkType /\ walk.pc = "call" /\ UNCHANGED <<links, entries, owner, state>>
  BY DEF Inv, TypeOK, WalkType, CallReturn, CallAbort, lists
<1> DEFINE rings == [x \in Queue |-> Ring(x)]
<1>2. (\A q \in Queue : Holds(q, Ring(q))') /\ rings' = rings
  BY <1>1, RingsKept
<1> HIDE DEF rings
<1>3. CASE CallReturn
  <2>1. ~walk.dirty
    BY <1>3 DEF CallReturn, Inv, WalkInv, TornOnlyInCall
  <2>2. walk'.pc = "loop" /\ walk'.q = walk.q /\ walk'.i = walk.i + 1 /\ walk'.user = FALSE
    BY <1>1, <1>3 DEF CallReturn, Onward, WalkType
  <2> PICK v : v = RingVisit
    OBVIOUS
  <2>0. walk.i + 1 \in Nat
    BY <1>1 DEF WalkType
  <2> PICK n \in Nat : n = walk.i + 1
    BY <2>0
  <2> PICK x, u : x = walk.q /\ u = walk.user
    OBVIOUS
  <2>3. v = VisitOf("call", x, n, u)
    <3>1. v = VisitOf(walk.pc, walk.q, walk.i + 1, walk.user)
      BY <1>1, <2>1, VisitNow
    <3> QED
      BY <1>1, <3>1
  <2> PICK m, e : m = n + 1 /\ e = FALSE
    OBVIOUS
  <2>4. RingVisit' = VisitOf("loop", x, m, e)
    BY <2>2, VisitAfter
  <2>5. RingVisit' = [v EXCEPT !.pc = "loop", !.pos = @ + 1, !.user = FALSE]
    <3>1. Returned(v, e) = VisitOf("loop", x, m, e)
      BY <2>3, VisitReturns
    <3> QED
      BY <2>4, <3>1 DEF Returned
  <2>6. v.pc = "call"
    BY <2>3, VisitFields
  <2>7. Registry!Return
    BY <1>1, <1>2, <2>5, <2>6 DEF Registry!Return, rings
  <2> QED
    BY <1>2, <2>2, <2>7 DEF RingsHold, Registry!RNext
<1>4. CASE CallAbort
  <2>1. walk' = NoWalk /\ walk.user
    BY <1>4 DEF CallAbort
  <2>2. RingVisit' = Registry!Idle
    BY <2>1 DEF RingVisit, NoWalk, Registry!Idle
  <2>3. RingVisit.pc \in {"call", "torn"} /\ RingVisit.user
    BY <1>1, <2>1 DEF RingVisit
  <2>4. Registry!Finish
    BY <1>1, <1>2, <2>2, <2>3 DEF Registry!Finish, rings
  <2> QED
    BY <1>2, <2>1, <2>4 DEF RingsHold, NoWalk, Registry!RNext
<1> QED
  BY <1>3, <1>4

LEMMA StepMaps ==
    ASSUME Lapses = {}, UnsafeEdits # "free", Inv, Inv', RingsHold, [Next]_vars
    PROVE  RingsHold' /\ [Registry!RNext]_Registry!regVars
<1>1. TypeOK' /\ ListsOK'
  BY DEF Inv
<1>2. ASSUME NEW q \in Queue, NEW nxt \in NextArg(q), NEW unk \in {Kernel, User},
             AddHandler(q, nxt, unk)
      PROVE  RingsHold' /\ Registry!RNext
  BY <1>1, <1>2, AddStep
<1>3. ASSUME NEW hid \in Hid, NEW q \in RemovesFrom(hid), RemoveHandler(q, hid)
      PROVE  RingsHold' /\ Registry!RNext
  BY <1>1, <1>3, Careful, RemoveStep
<1>4. CASE Edit
  BY <1>2, <1>3, <1>4 DEF Edit
<1>5. ASSUME NEW hid \in Toggled, EnableHandler(hid) \/ DisableHandler(hid)
      PROVE  RingsHold' /\ Registry!RNext
  BY <1>1, <1>5, Careful, ToggleStep
<1>6. CASE Reset
  BY <1>1, <1>6, ResetStep
<1>7. ASSUME NEW q \in Queue, IrqEnter(q) PROVE RingsHold' /\ Registry!RNext
  BY <1>1, <1>7, EnterStep
<1>8. CASE Dispatch
  BY <1>1, <1>8, LoopStep
<1>9. CASE CallReturn \/ CallAbort
  BY <1>1, <1>9, CallStep
<1>10. CASE ArmVSync \/ UNCHANGED vars
  <2>1. UNCHANGED <<links, entries, owner, state, walk>>
    BY <1>10 DEF ArmVSync, lists, vars
  <2>2. RingsHold' /\ [x \in Queue |-> Ring(x)]' = [x \in Queue |-> Ring(x)]
    BY <1>1, <2>1, RingsKept DEF RingsHold
  <2>3. RingVisit' = RingVisit
    BY <2>1 DEF RingVisit
  <2> QED
    BY <2>1, <2>2, <2>3 DEF Registry!regVars
<1> QED
  BY <1>4, <1>5, <1>6, <1>7, <1>8, <1>9, <1>10 DEF Next

\* src/kernel/intr.c keeps what HandlerRegistry promises, step by step, for every number
\* of slots and queues: the order of calls, the effect of edits made by callbacks and
\* abandoned interrupts are those of plain sequences. Callers keep to the rules and a
\* callback that edits what the walk has passed then aborts the interrupt.
THEOREM RegistryImplemented ==
    ASSUME Lapses = {}, UnsafeEdits # "free"
    PROVE  Spec => Registry!RInit /\ [][Registry!RNext]_Registry!regVars
<1>1. Init => RingsHold /\ Registry!RInit
  BY StartMaps
<1>2. RingsHold /\ Inv /\ Inv' /\ [Next]_vars => RingsHold' /\ [Registry!RNext]_Registry!regVars
  BY StepMaps
<1>3. Spec => []Inv
  BY Invariance
<1> QED
  BY <1>1, <1>2, <1>3, PTL DEF Spec

=============================================================================
