-------------------------- MODULE RequestTableProofs ---------------------------
(***************************************************************************)
(* Proofs about the request layer, for every number of requests, every     *)
(* segment size and every order in which slots come back: the freelist     *)
(* through the slots holds each free slot once, no two requests share a    *)
(* slot, and the table implements a map from requests to parameters.       *)
(***************************************************************************)
EXTENDS RequestTable, FiniteSetTheorems, NaturalsInduction, TLAPS

--------------------------------------------------------------------------------
(* Lists linked through the slots *)

(* The members of S are q[1] to q[n], each once, and the list that starts  *)
(* at first and runs along next has them in this order.                    *)
Lists(q, n, first, next, S) ==
  /\ \A s \in S : \E i \in 1..n : q[i] = s
  /\ \A i, j \in 1..n : q[i] = q[j] => i = j
  /\ first = IF n = 0 THEN EndOfList ELSE q[1]
  /\ \A i \in 1..n : next[q[i]] = IF i = n THEN EndOfList ELSE q[i + 1]

(* The list has exactly the members of S, each once, and ends.  It is      *)
(* given as a sequence, so that no proof follows the links one by one.     *)
Linked(first, next, S) ==
  \E n \in Nat : \E q \in [1..n -> S] : Lists(q, n, first, next, S)

(* Only an empty list starts at its end. *)
LEMMA LinkedEnd ==
  ASSUME NEW S \in SUBSET Nat, NEW first, NEW next, Linked(first, next, S)
  PROVE  IF first = EndOfList THEN S = {} ELSE first \in S
<1>1. PICK n \in Nat : \E q \in [1..n -> S] : Lists(q, n, first, next, S)
  BY DEF Linked
<1>2. PICK q \in [1..n -> S] : Lists(q, n, first, next, S)
  BY <1>1
<1> USE <1>2 DEF Lists
<1>3. CASE n = 0
  BY <1>2, <1>3
<1>4. CASE n # 0
  <2>1. 1 \in 1..n
    BY <1>4
  <2>2. first = q[1] /\ q[1] \in S
    BY <1>2, <1>4, <2>1
  <2>3. EndOfList \notin Nat
    BY DEF EndOfList
  <2> QED
    BY <2>2, <2>3
<1> QED
  BY <1>3, <1>4

(* What is left when the first slot is taken. *)
LEMMA LinkedPop ==
  ASSUME NEW S \in SUBSET Nat, NEW first, NEW next, Linked(first, next, S),
         first # EndOfList
  PROVE  Linked(next[first], next, S \ {first})
<1>1. PICK n \in Nat : \E q \in [1..n -> S] : Lists(q, n, first, next, S)
  BY DEF Linked
<1>2. PICK q \in [1..n -> S] : Lists(q, n, first, next, S)
  BY <1>1
<1> USE <1>2 DEF Lists
<1>3. n \in Nat \ {0} /\ first = q[1] /\ 1 \in 1..n
  BY <1>2
<1> DEFINE m == n - 1
           p == [i \in 1..m |-> q[i + 1]]
<1>4. m \in Nat /\ \A i \in 1..m : i + 1 \in 1..n /\ i + 1 # 1 /\ p[i] = q[i + 1]
  BY <1>3
<1>5. p \in [1..m -> S \ {first}]
  <2>1. \A i \in 1..m : p[i] \in S /\ p[i] # q[1]
    BY <1>2, <1>3, <1>4
  <2> QED
    BY <1>3, <2>1
<1>6. ASSUME NEW s \in S \ {first} PROVE \E i \in 1..m : p[i] = s
  <2>1. PICK j \in 1..n : q[j] = s
    BY <1>2
  <2>2. j # 1
    BY <1>3, <2>1
  <2>3. j - 1 \in 1..m /\ (j - 1) + 1 = j
    BY <2>2
  <2>4. p[j - 1] = q[j]
    BY <1>4, <2>3
  <2> QED
    BY <2>1, <2>3, <2>4
<1>7. ASSUME NEW i \in 1..m, NEW j \in 1..m, p[i] = p[j] PROVE i = j
  <2>1. q[i + 1] = q[j + 1] /\ i + 1 \in 1..n /\ j + 1 \in 1..n
    BY <1>4, <1>7
  <2>2. i + 1 = j + 1
    BY <1>2, <2>1
  <2> QED
    BY <2>2
<1>8. next[first] = IF m = 0 THEN EndOfList ELSE p[1]
  <2>1. next[q[1]] = IF 1 = n THEN EndOfList ELSE q[1 + 1]
    BY <1>2, <1>3
  <2>2. m # 0 => p[1] = q[1 + 1]
    BY <1>3, <1>4
  <2>3. m = 0 <=> 1 = n
    BY <1>3
  <2> QED
    BY <1>3, <2>1, <2>2, <2>3
<1>9. ASSUME NEW i \in 1..m PROVE next[p[i]] = IF i = m THEN EndOfList ELSE p[i + 1]
  <2>1. next[q[i + 1]] = IF i + 1 = n THEN EndOfList ELSE q[(i + 1) + 1]
    BY <1>2, <1>4
  <2>2. (i + 1 = n) <=> (i = m)
    BY <1>3
  <2>3. i # m => i + 1 \in 1..m
    BY <1>3
  <2>4. i # m => p[i + 1] = q[(i + 1) + 1]
    BY <1>4, <2>3
  <2> QED
    BY <1>4, <2>1, <2>2, <2>4
<1> HIDE DEF m, p
<1>10. Lists(p, m, next[first], next, S \ {first})
  BY ONLY <1>6, <1>7, <1>8, <1>9 DEF Lists
<1> QED
  BY <1>4, <1>5, <1>10 DEF Linked

(* A slot that is put before the list. *)
LEMMA LinkedPush ==
  ASSUME NEW S \in SUBSET Nat, NEW first, NEW next, Linked(first, next, S),
         S \subseteq DOMAIN next, NEW s, s \in DOMAIN next, s \notin S
  PROVE  Linked(s, [next EXCEPT ![s] = first], S \union {s})
<1>1. PICK n \in Nat : \E q \in [1..n -> S] : Lists(q, n, first, next, S)
  BY DEF Linked
<1>2. PICK q \in [1..n -> S] : Lists(q, n, first, next, S)
  BY <1>1
<1> USE <1>2 DEF Lists
<1> DEFINE m == n + 1
           p == [i \in 1..m |-> IF i = 1 THEN s ELSE q[i - 1]]
           linked == [next EXCEPT ![s] = first]
<1>3. /\ m \in Nat /\ m # 0 /\ 1 \in 1..m /\ p[1] = s
      /\ \A i \in 1..m : i # 1 => i - 1 \in 1..n /\ p[i] = q[i - 1]
  OBVIOUS
<1>4. p \in [1..m -> S \union {s}]
  <2>1. \A i \in 1..m : i # 1 => p[i] \in S
    BY <1>2, <1>3
  <2> QED
    BY <1>3, <2>1
<1>5. ASSUME NEW t \in S \union {s} PROVE \E i \in 1..m : p[i] = t
  <2>1. CASE t = s
    BY <1>3, <2>1
  <2>2. CASE t \in S
    <3>1. PICK j \in 1..n : q[j] = t
      BY <1>2, <2>2
    <3>2. j + 1 \in 1..m /\ j + 1 # 1 /\ (j + 1) - 1 = j
      OBVIOUS
    <3>3. p[j + 1] = t
      BY <1>3, <3>1, <3>2
    <3> QED
      BY <3>2, <3>3
  <2> QED
    BY <2>1, <2>2
<1>6. ASSUME NEW i \in 1..m, NEW j \in 1..m, p[i] = p[j] PROVE i = j
  <2>1. \A k \in 1..m : k # 1 => p[k] # s
    BY <1>2, <1>3
  <2>2. CASE i = 1 \/ j = 1
    BY <1>3, <1>6, <2>1, <2>2
  <2>3. CASE i # 1 /\ j # 1
    <3>1. i - 1 \in 1..n /\ j - 1 \in 1..n /\ q[i - 1] = q[j - 1]
      BY <1>3, <1>6, <2>3
    <3>2. i - 1 = j - 1
      BY <1>2, <3>1
    <3> QED
      BY <3>2
  <2> QED
    BY <2>2, <2>3
<1>7. ASSUME NEW i \in 1..m PROVE linked[p[i]] = IF i = m THEN EndOfList ELSE p[i + 1]
  <2>1. CASE i = 1
    <3>1. linked[p[i]] = first
      BY <1>3, <2>1
    <3>2. i = m <=> n = 0
      BY <2>1
    <3>3. n # 0 => i + 1 \in 1..m /\ i + 1 # 1 /\ (i + 1) - 1 = 1
      BY <2>1
    <3>4. n # 0 => p[i + 1] = q[1]
      BY <1>3, <3>3
    <3> QED
      BY <1>2, <3>1, <3>2, <3>4
  <2>2. CASE i # 1
    <3>1. i - 1 \in 1..n /\ p[i] = q[i - 1] /\ p[i] \in S /\ p[i] # s
      BY <1>2, <1>3, <2>2
    <3>2. linked[p[i]] = next[q[i - 1]]
      BY <3>1
    <3>3. next[q[i - 1]] = IF i - 1 = n THEN EndOfList ELSE q[(i - 1) + 1]
      BY <1>2, <3>1
    <3>4. (i - 1 = n) <=> (i = m)
      BY <3>1
    <3>5. i # m => i + 1 \in 1..m /\ i + 1 # 1 /\ (i + 1) - 1 = (i - 1) + 1
      BY <3>1
    <3>6. i # m => p[i + 1] = q[(i - 1) + 1]
      BY <1>3, <3>5
    <3> QED
      BY <3>2, <3>3, <3>4, <3>6
  <2> QED
    BY <2>1, <2>2
<1>8. s = IF m = 0 THEN EndOfList ELSE p[1]
  BY <1>3
<1> HIDE DEF m, p, linked
<1>9. Lists(p, m, s, linked, S \union {s})
  BY ONLY <1>5, <1>6, <1>7, <1>8 DEF Lists
<1> HIDE DEF Lists
<1>10. Linked(s, linked, S \union {s})
  BY ONLY <1>3, <1>4, <1>9, Zenon DEF Linked
<1> QED
  BY <1>10 DEF linked

(* Consecutive slots linked upwards, as allocate_new_reqtable links them. *)
LEMMA LinkedRange ==
  ASSUME NEW a \in Nat, NEW b \in Int, a <= b + 1, NEW next,
         \A i \in a..b : next[i] = IF i = b THEN EndOfList ELSE i + 1
  PROVE  Linked(IF a = b + 1 THEN EndOfList ELSE a, next, a..b)
<1> DEFINE n == b + 1 - a
           q == [i \in 1..n |-> a + i - 1]
<1>1. n \in Nat /\ \A i \in 1..n : a + i - 1 \in a..b /\ q[i] = a + i - 1
  OBVIOUS
<1>2. q \in [1..n -> a..b]
  BY <1>1
<1>3. ASSUME NEW s \in a..b PROVE \E i \in 1..n : q[i] = s
  <2>1. s - a + 1 \in 1..n /\ a + (s - a + 1) - 1 = s
    OBVIOUS
  <2> QED
    BY <1>1, <2>1
<1>4. ASSUME NEW i \in 1..n, NEW j \in 1..n, q[i] = q[j] PROVE i = j
  BY <1>1, <1>4
<1>5. (IF a = b + 1 THEN EndOfList ELSE a) = IF n = 0 THEN EndOfList ELSE q[1]
  BY <1>1
<1>6. ASSUME NEW i \in 1..n PROVE next[q[i]] = IF i = n THEN EndOfList ELSE q[i + 1]
  <2>1. next[a + i - 1] = IF a + i - 1 = b THEN EndOfList ELSE (a + i - 1) + 1
    BY <1>1
  <2>2. (a + i - 1 = b) <=> (i = n)
    OBVIOUS
  <2>3. i # n => i + 1 \in 1..n /\ a + (i + 1) - 1 = (a + i - 1) + 1
    OBVIOUS
  <2>4. i # n => q[i + 1] = (a + i - 1) + 1
    BY <1>1, <2>3
  <2> QED
    BY <1>1, <2>1, <2>2, <2>4
<1> HIDE DEF n, q
<1>7. Lists(q, n, IF a = b + 1 THEN EndOfList ELSE a, next, a..b)
  BY ONLY <1>3, <1>4, <1>5, <1>6 DEF Lists
<1> QED
  BY <1>1, <1>2, <1>7 DEF Linked

(* A list depends on the links of its members only. *)
LEMMA LinkedSame ==
  ASSUME NEW S, NEW first, NEW next, NEW other, Linked(first, next, S),
         \A s \in S : other[s] = next[s]
  PROVE  Linked(first, other, S)
<1>1. PICK n \in Nat : \E q \in [1..n -> S] : Lists(q, n, first, next, S)
  BY DEF Linked
<1>2. PICK q \in [1..n -> S] : Lists(q, n, first, next, S)
  BY <1>1
<1> USE <1>2 DEF Lists
<1>3. ASSUME NEW i \in 1..n PROVE other[q[i]] = IF i = n THEN EndOfList ELSE q[i + 1]
  <2>1. q[i] \in S
    OBVIOUS
  <2> QED
    BY <1>2, <2>1
<1>4. Lists(q, n, first, other, S)
  BY <1>3
<1> QED
  BY <1>4 DEF Linked
--------------------------------------------------------------------------------
(* The slots that FreeSlot finds are those of the list *)

(* The equation that defines FreeSlot. *)
Follows(f) ==
  f = [n \in 0..size |->
         IF n = 0 THEN freelist
         ELSE IF f[n - 1] = EndOfList THEN EndOfList ELSE next_free[f[n - 1]]]

LEMMA FreeSlotChosen == FreeSlot = CHOOSE f : Follows(f)
  BY DEF FreeSlot, Follows

LEMMA FollowsAt ==
  ASSUME NEW f, Follows(f)
  PROVE  /\ DOMAIN f = 0..size
         /\ \A n \in 0..size :
              f[n] = IF n = 0 THEN freelist
                     ELSE IF f[n - 1] = EndOfList THEN EndOfList ELSE next_free[f[n - 1]]
         /\ f = [n \in 0..size |-> f[n]]
<1> DEFINE e(n) == IF n = 0 THEN freelist
                   ELSE IF f[n - 1] = EndOfList THEN EndOfList ELSE next_free[f[n - 1]]
<1>1. f = [n \in 0..size |-> e(n)]
  BY Zenon DEF Follows
<1> HIDE DEF e
<1>2. DOMAIN f = 0..size /\ \A n \in 0..size : f[n] = e(n)
  BY <1>1, Zenon
<1>3. f = [n \in 0..size |-> f[n]]
  BY <1>1, <1>2
<1> QED
  BY <1>2, <1>3, Zenon DEF e

(* Only one function satisfies it: consider the first place of difference. *)
LEMMA FollowsOnce ==
  ASSUME size \in Nat, NEW f, Follows(f), NEW g, Follows(g)
  PROVE  f = g
<1> DEFINE T == {n \in 0..size : f[n] # g[n]}
<1>1. CASE T # {}
  <2>1. T \subseteq Nat
    OBVIOUS
  <2>2. PICK n \in T : \A m \in T : ~ (<<m, n>> \in OpToRel(<, Nat))
    BY <1>1, <2>1, NatLessThanWellFounded, WFMin
  <2>3. n \in Nat /\ n \in 0..size /\ f[n] # g[n]
    BY <2>1
  <2>4. n # 0
    <3>1. CASE n = 0
      <4>1. f[0] = freelist /\ g[0] = freelist
        BY <2>3, <3>1, FollowsAt
      <4> QED
        BY <2>3, <3>1, <4>1
    <3> QED
      BY <3>1
  <2>5. n - 1 \in 0..size
    BY <2>3, <2>4
  <2>6. f[n - 1] # g[n - 1]
    <3>1. f[n] = IF f[n - 1] = EndOfList THEN EndOfList ELSE next_free[f[n - 1]]
      BY <2>3, <2>4, FollowsAt
    <3>2. g[n] = IF g[n - 1] = EndOfList THEN EndOfList ELSE next_free[g[n - 1]]
      BY <2>3, <2>4, FollowsAt
    <3> QED
      BY <2>3, <3>1, <3>2
  <2>7. n - 1 \in T /\ <<n - 1, n>> \in OpToRel(<, Nat)
    BY <2>3, <2>4, <2>5, <2>6 DEF OpToRel
  <2> QED
    BY <2>2, <2>7
<1>2. CASE T = {}
  <2>1. \A n \in 0..size : f[n] = g[n]
    BY <1>2
  <2>2. f = [n \in 0..size |-> f[n]] /\ g = [n \in 0..size |-> g[n]]
    BY FollowsAt, Zenon
  <2>3. [n \in 0..size |-> f[n]] = [n \in 0..size |-> g[n]]
    BY <2>1
  <2> QED
    BY <2>2, <2>3, Zenon
<1> QED
  BY <1>1, <1>2

LEMMA FreeSlotFollows ==
  ASSUME size \in Nat, NEW f, Follows(f)
  PROVE  FreeSlot = f
<1>1. Follows(CHOOSE g : Follows(g))
  OBVIOUS
<1> QED
  BY <1>1, FreeSlotChosen, FollowsOnce

(* Following the links from the freelist finds the members of the list and *)
(* then its end, in no more steps than there are slots.                    *)
LEMMA FreeSlotList ==
  ASSUME size \in Nat, NEW S \in SUBSET Slots, Linked(freelist, next_free, S)
  PROVE  /\ FreeSlot[size] = EndOfList
         /\ {FreeSlot[n] : n \in 0..size} \ {EndOfList} = S
<1>1. PICK n \in Nat : \E q \in [1..n -> S] : Lists(q, n, freelist, next_free, S)
  BY DEF Linked
<1>2. PICK q \in [1..n -> S] : Lists(q, n, freelist, next_free, S)
  BY <1>1
<1>3. S \subseteq Nat /\ EndOfList \notin S
  BY DEF Slots, EndOfList
<1>4. n <= size
  <2>1. q \in Injection(1..n, Slots)
    BY <1>2 DEF Lists, Injection, IsInjective
  <2>2. /\ IsFiniteSet(0..(size - 1)) /\ Cardinality(1..n) = n
        /\ Cardinality(0..(size - 1)) = size
    <3>1. 1 \in Int /\ n \in Int /\ 0 \in Int /\ size - 1 \in Int
      OBVIOUS
    <3>2. Cardinality(1..n) = IF 1 > n THEN 0 ELSE n - 1 + 1
      BY <3>1, FS_Interval
    <3>3. /\ IsFiniteSet(0..(size - 1))
          /\ Cardinality(0..(size - 1)) = IF 0 > size - 1 THEN 0 ELSE size - 1 - 0 + 1
      BY <3>1, FS_Interval
    <3> QED
      BY <3>2, <3>3
  <2>3. Cardinality(1..n) <= Cardinality(Slots)
    BY <2>1, <2>2, FS_Injection DEF Slots
  <2> QED
    BY <2>2, <2>3 DEF Slots
<1> DEFINE g == [k \in 0..size |-> IF k < n THEN q[k + 1] ELSE EndOfList]
<1>5. \A k \in 0..size : k < n => k + 1 \in 1..n /\ g[k] = q[k + 1] /\ g[k] \in S
  OBVIOUS
<1>6. \A k \in 0..size : ~ (k < n) => g[k] = EndOfList
  OBVIOUS
<1>7. ASSUME NEW k \in 0..size
      PROVE  g[k] = IF k = 0 THEN freelist
                    ELSE IF g[k - 1] = EndOfList THEN EndOfList ELSE next_free[g[k - 1]]
  <2>1. CASE k = 0
    <3>1. freelist = IF n = 0 THEN EndOfList ELSE q[1]
      BY <1>2 DEF Lists
    <3>2. n # 0 => g[0] = q[0 + 1]
      BY <1>5
    <3> QED
      BY <1>6, <2>1, <3>1, <3>2
  <2>2. CASE k # 0 /\ k - 1 < n
    <3>1. k - 1 \in 0..size /\ (k - 1) + 1 = k /\ k \in 1..n
      BY <2>2
    <3>2. g[k - 1] = q[k] /\ g[k - 1] # EndOfList
      BY <1>3, <1>5, <2>2, <3>1
    <3>3. next_free[q[k]] = IF k = n THEN EndOfList ELSE q[k + 1]
      BY <1>2, <3>1 DEF Lists
    <3>4. k # n => g[k] = q[k + 1]
      BY <1>5, <3>1
    <3>5. k = n => g[k] = EndOfList
      BY <1>6
    <3> QED
      BY <2>2, <3>2, <3>3, <3>4, <3>5
  <2>3. CASE k # 0 /\ ~ (k - 1 < n)
    <3>1. k - 1 \in 0..size /\ ~ (k < n)
      BY <2>3
    <3>2. g[k - 1] = EndOfList /\ g[k] = EndOfList
      BY <1>6, <2>3, <3>1
    <3> QED
      BY <2>3, <3>2
  <2> QED
    BY <2>1, <2>2, <2>3
<1>8. Follows(g)
  <2>1. g = [k \in 0..size |-> g[k]]
    OBVIOUS
  <2> HIDE DEF g
  <2> QED
    BY <1>7, <2>1 DEF Follows
<1>9. FreeSlot = g
  BY <1>8, FreeSlotFollows
<1>10. g[size] = EndOfList
  BY <1>4, <1>6
<1>11. ASSUME NEW s \in S PROVE \E k \in 0..size : g[k] = s
  <2>1. PICK i \in 1..n : q[i] = s
    BY <1>2 DEF Lists
  <2>2. i - 1 \in 0..size /\ i - 1 < n /\ (i - 1) + 1 = i
    BY <1>4
  <2>3. g[i - 1] = s
    BY <1>5, <2>1, <2>2
  <2> QED
    BY <2>2, <2>3
<1>12. \A k \in 0..size : g[k] \in S \union {EndOfList}
  BY <1>5, <1>6
<1> HIDE DEF g
<1>13. {g[k] : k \in 0..size} \ {EndOfList} = S
  BY <1>3, <1>11, <1>12
<1> QED
  BY <1>9, <1>10, <1>13
--------------------------------------------------------------------------------
(* The inductive invariant *)

(* The slots of the requests in use, and the slots that are free. *)
Used == {requestmap[h] : h \in InUse}
Unused == Slots \ (Used \union lost)

(* A wrapper's loop looks at each completed request once.  MPI has         *)
(* forgotten those that are not persistent.                                *)
TodoInv ==
  /\ \A i, j \in DOMAIN todo : todo[i] = todo[j] /\ todo[i] # NULL => i = j
  /\ \A i \in DOMAIN todo : todo[i] # NULL => state[todo[i]] \in {"none", "inactive"}

(* Each request in use has a slot of its own, which holds its parameters   *)
(* and knows whether it is persistent.                                     *)
OwnInv ==
  /\ InUse \subseteq DOMAIN requestmap
  /\ \A h, g \in InUse : requestmap[h] = requestmap[g] => h = g
  /\ \A h \in InUse :
       /\ requestmap[h] \notin lost
       /\ reqs[requestmap[h]] \in Params
       /\ reqs[requestmap[h]].inreq = h
       /\ reqs[requestmap[h]].persistent <=> state[h] \in {"inactive", "started"}

(* The freelist has all other slots. *)
FreeInv == Linked(freelist, next_free, Unused)

(* A request that is not persistent is not cancelled. *)
NoneCancelled == \A h \in Handle : state[h] # "cancelled"

TableInv == TodoInv /\ OwnInv /\ FreeInv /\ NoneCancelled

(* The parameters of the requests in use: what RequestMap is about. *)
ParamsOf == [h \in InUse |-> reqs[Slot(h)]]

LEMMA InitTable == Init => TypeOK /\ TableInv
<1> SUFFICES ASSUME Init PROVE TypeOK /\ TableInv
  OBVIOUS
<1>1. InUse = {} /\ Used = {} /\ Unused = 0..(Segment - 1)
  BY DEF Init, InUse, Used, Unused, Slots
<1>2. FreeInv
  <2>1. /\ Segment \in Nat \ {0} /\ 0 \in Nat /\ Segment - 1 \in Int
        /\ 0 <= (Segment - 1) + 1 /\ 0 # (Segment - 1) + 1
    BY TableAssumption
  <2>2. \A i \in 0..(Segment - 1) :
          next_free[i] = IF i = Segment - 1 THEN EndOfList ELSE i + 1
    BY DEF Init
  <2>3. Linked(0, next_free, 0..(Segment - 1))
    BY <2>1, <2>2, LinkedRange
  <2> QED
    BY <1>1, <2>3 DEF FreeInv, Init
<1>3. TypeOK
  <2>1. /\ Segment \in Nat \ {0} /\ size = Segment /\ Slots = 0..(Segment - 1)
        /\ 0 \in Slots
    BY TableAssumption DEF Init, Slots
  <2>2. next_free \in [Slots -> Slots \union {EndOfList}]
    BY <2>1 DEF Init
  <2>3. todo \in Seq(Handle \union {NULL})
    BY DEF Init
  <2> QED
    BY <2>1, <2>2, <2>3 DEF Init, TypeOK
<1>4. TodoInv /\ OwnInv /\ NoneCancelled
  BY <1>1 DEF Init, TodoInv, OwnInv, NoneCancelled
<1> QED
  BY <1>2, <1>3, <1>4 DEF TableInv

(* Facts about types that every step needs. *)
LEMMA SlotTypes ==
  ASSUME TypeOK
  PROVE  /\ size \in Nat \ {0} /\ Slots = 0..(size - 1) /\ 0 \in Slots /\ Slots \subseteq Nat
         /\ EndOfList \notin Nat
         /\ \A h : Slot(h) \in Slots
         /\ \A hs : /\ DOMAIN Touched(hs) = DOMAIN requestmap \union hs
                    /\ \A h \in DOMAIN requestmap : Touched(hs)[h] = requestmap[h]
                    /\ \A h \in DOMAIN requestmap \union hs : Touched(hs)[h] \in Slots
<1>1. size \in Nat \ {0} /\ Slots = 0..(size - 1)
  BY DEF TypeOK, Slots
<1>2. 0 \in Slots /\ Slots \subseteq Nat /\ EndOfList \notin Nat
  BY <1>1 DEF EndOfList
<1>3. \A h : Slot(h) \in Slots
  BY <1>2 DEF TypeOK, Slot
<1> QED
  BY <1>1, <1>2, <1>3 DEF Touched, Slot

(* operator[] of the map enters a handle that it does not know, and leaves *)
(* the others alone.                                                       *)
LEMMA TouchedMap ==
  ASSUME TypeOK, NEW h \in Handle \union {NULL}, requestmap' = Touched({h})
  PROVE  /\ \A g \in DOMAIN requestmap : g \in DOMAIN requestmap' /\ requestmap'[g] = requestmap[g]
         /\ DOMAIN requestmap' \subseteq Handle \union {NULL}
         /\ \A g \in DOMAIN requestmap' : requestmap'[g] \in Slots
<1>1. DOMAIN requestmap' = DOMAIN requestmap \union {h}
  BY SlotTypes
<1>2. DOMAIN requestmap \subseteq Handle \union {NULL}
  BY DEF TypeOK
<1>3. \A g \in DOMAIN requestmap : Touched({h})[g] = requestmap[g]
  BY SlotTypes
<1>4. \A g \in DOMAIN requestmap \union {h} : Touched({h})[g] \in Slots
  BY SlotTypes
<1> QED
  BY <1>1, <1>2, <1>3, <1>4

(* The slots in use and the free ones are slots. *)
LEMMA UsedSlots ==
  ASSUME TypeOK, OwnInv
  PROVE  /\ Used \subseteq Slots /\ lost \subseteq Slots /\ Unused \subseteq Slots
         /\ Unused \in SUBSET Nat
         /\ \A h \in InUse : h \in Handle /\ Slot(h) = requestmap[h] /\ requestmap[h] \in Slots
<1>1. \A h \in InUse : h \in Handle /\ h \in DOMAIN requestmap /\ requestmap[h] \in Slots
  BY DEF OwnInv, TypeOK, InUse
<1> QED
  BY <1>1, SlotTypes DEF Used, Unused, Slot, TypeOK

--------------------------------------------------------------------------------
(* What a step does to the slots *)

(* ASSOCIATE_REQUEST takes a slot that is nobody's, off the freelist or    *)
(* the first of a new segment, and leaves the rest of the list a list.     *)
LEMMA AssociateTakes ==
  ASSUME TypeOK, OwnInv, FreeInv, NEW h \in Handle, NEW p \in Params, Associate(h, p),
         lost' = lost
  PROVE  /\ size' \in Nat \ {0} /\ Slots \subseteq Slots'
         /\ DOMAIN requestmap' = DOMAIN requestmap \union {h}
         /\ \A g \in DOMAIN requestmap : g # h => requestmap'[g] = requestmap[g]
         /\ \A g \in DOMAIN requestmap' : requestmap'[g] \in Slots'
         /\ requestmap'[h] \in Slots' \ (Used \union lost)
         /\ reqs' \in [Slots' -> Params \union {Uninitialised}]
         /\ reqs'[requestmap'[h]] = p
         /\ \A i \in Slots : i # requestmap'[h] => reqs'[i] = reqs[i]
         /\ next_free' \in [Slots' -> Slots' \union {EndOfList}]
         /\ freelist' \in Slots' \union {EndOfList}
         /\ Linked(freelist', next_free', Slots' \ (Used \union lost \union {requestmap'[h]}))
<1> DEFINE s == requestmap'[h]
<1>1. /\ DOMAIN Touched({h}) = DOMAIN requestmap \union {h}
      /\ \A g \in DOMAIN requestmap : Touched({h})[g] = requestmap[g]
      /\ \A g \in DOMAIN requestmap \union {h} : Touched({h})[g] \in Slots
  BY SlotTypes
<1>2. size \in Nat \ {0} /\ Slots = 0..(size - 1) /\ Slots' = 0..(size' - 1)
  BY SlotTypes DEF Slots
<1>3. CASE freelist # EndOfList
  <2>1. /\ requestmap' = [Touched({h}) EXCEPT ![h] = freelist]
        /\ reqs' = [reqs EXCEPT ![freelist] = p]
        /\ freelist' = next_free[freelist]
        /\ UNCHANGED <<size, next_free>>
    BY <1>3 DEF Associate
  <2>2. Slots' = Slots /\ s = freelist /\ freelist \in Slots
    BY <1>1, <1>2, <1>3, <2>1 DEF TypeOK
  <2>3. freelist \in Unused /\ Linked(next_free[freelist], next_free, Unused \ {freelist})
    BY <1>3, UsedSlots, LinkedEnd, LinkedPop DEF FreeInv
  <2>4. Unused \ {freelist} = Slots' \ (Used \union lost \union {s})
    BY <2>2 DEF Unused
  <2>5. Linked(freelist', next_free', Slots' \ (Used \union lost \union {s}))
    BY <2>1, <2>3, <2>4
  <2>6. /\ DOMAIN requestmap' = DOMAIN requestmap \union {h}
        /\ \A g \in DOMAIN requestmap : g # h => requestmap'[g] = requestmap[g]
        /\ \A g \in DOMAIN requestmap' : requestmap'[g] \in Slots'
    BY <1>1, <2>1, <2>2
  <2>7. /\ reqs' \in [Slots' -> Params \union {Uninitialised}]
        /\ reqs'[s] = p /\ \A i \in Slots : i # s => reqs'[i] = reqs[i]
    BY <2>1, <2>2 DEF TypeOK
  <2>8. /\ next_free' \in [Slots' -> Slots' \union {EndOfList}]
        /\ freelist' \in Slots' \union {EndOfList}
    BY <2>1, <2>2 DEF TypeOK
  <2>9. s \in Slots' \ (Used \union lost)
    BY <2>2, <2>3 DEF Unused
  <2>10. size' \in Nat \ {0} /\ Slots \subseteq Slots'
    BY <1>2, <2>1, <2>2
  <2> HIDE DEF s
  <2> QED
    BY <2>5, <2>6, <2>7, <2>8, <2>9, <2>10 DEF s
<1>4. CASE freelist = EndOfList
  <2>1. /\ requestmap' = [Touched({h}) EXCEPT ![h] = size]
        /\ reqs' = [i \in 0..(size + Segment - 1) |->
                      IF i < size THEN reqs[i] ELSE IF i = size THEN p ELSE Uninitialised]
        /\ next_free' = Grown(size, freelist)
        /\ freelist' = next_free'[size]
        /\ size' = size + Segment
    BY <1>4 DEF Associate
  <2>2. /\ Segment \in Nat \ {0} /\ size' \in Nat \ {0}
        /\ Slots' = 0..(size + Segment - 1)
    BY <1>2, <2>1, TableAssumption
  <2>3. Slots \subseteq Slots' /\ size \in Slots' /\ size \notin Slots
    <3>1. /\ size \in 0..(size + Segment - 1) /\ size \notin 0..(size - 1)
          /\ \A i \in 0..(size - 1) : i \in 0..(size + Segment - 1)
      BY <1>2, <2>2
    <3> QED
      BY <1>2, <2>2, <3>1, Zenon
  <2>4. s = size /\ s \notin Used \union lost
    BY <1>1, <2>1, <2>3, UsedSlots
  <2>5. Unused = {} /\ Used \union lost = Slots
    <3>1. Unused = {}
      BY <1>4, UsedSlots, LinkedEnd DEF FreeInv
    <3> QED
      BY <3>1, UsedSlots DEF Unused
  <2>6. \A i \in Slots' : next_free'[i] =
          IF i < size THEN next_free[i]
          ELSE IF i = size + Segment - 1 THEN EndOfList ELSE i + 1
    BY <1>4, <2>1, <2>2 DEF Grown
  <2>7. Linked(freelist', next_free', Slots' \ (Used \union lost \union {s}))
    <3>1. /\ size + 1 \in Nat /\ size + Segment - 1 \in Int
          /\ size + 1 <= (size + Segment - 1) + 1
      BY <1>2, <2>2
    <3>2. \A i \in (size + 1)..(size + Segment - 1) :
            next_free'[i] = IF i = size + Segment - 1 THEN EndOfList ELSE i + 1
      <4>1. \A i \in (size + 1)..(size + Segment - 1) :
              i \in 0..(size + Segment - 1) /\ ~ (i < size)
        BY <1>2, <2>2
      <4> QED
        BY <2>2, <2>6, <4>1
    <3>3. Linked(IF size + 1 = (size + Segment - 1) + 1 THEN EndOfList ELSE size + 1,
                 next_free', (size + 1)..(size + Segment - 1))
      BY <3>1, <3>2, LinkedRange
    <3>4. freelist' = IF size + 1 = (size + Segment - 1) + 1 THEN EndOfList ELSE size + 1
      BY <1>2, <2>1, <2>2, <2>3, <2>6
    <3>5. Slots' \ (Used \union lost \union {s}) = (size + 1)..(size + Segment - 1)
      BY <1>2, <2>2, <2>4, <2>5
    <3> QED
      BY <3>3, <3>4, <3>5
  <2>8. /\ DOMAIN requestmap' = DOMAIN requestmap \union {h}
        /\ \A g \in DOMAIN requestmap : g # h => requestmap'[g] = requestmap[g]
        /\ \A g \in DOMAIN requestmap' : requestmap'[g] \in Slots'
    BY <1>1, <2>1, <2>3
  <2>9. /\ reqs' \in [Slots' -> Params \union {Uninitialised}]
        /\ reqs'[s] = p /\ \A i \in Slots : i # s => reqs'[i] = reqs[i]
    <3>1. \A i \in Slots' : i < size => i \in Slots
      BY <1>2, <2>2
    <3>2. \A i \in Slots : i < size
      BY <1>2
    <3> QED
      BY <1>2, <2>1, <2>2, <2>3, <2>4, <3>1, <3>2 DEF TypeOK
  <2>10. next_free' \in [Slots' -> Slots' \union {EndOfList}]
    <3>1. ASSUME NEW i \in Slots' PROVE next_free'[i] \in Slots' \union {EndOfList}
      <4>1. CASE i < size
        <5>1. i \in Slots
          BY <1>2, <2>2, <4>1
        <5> QED
          BY <2>3, <2>6, <4>1, <5>1 DEF TypeOK
      <4>2. CASE ~ (i < size) /\ i # size + Segment - 1
        <5>1. i \in 0..(size + Segment - 1)
          BY <2>2
        <5>2. i + 1 \in 0..(size + Segment - 1)
          BY <1>2, <2>2, <4>2, <5>1
        <5>3. i + 1 \in Slots'
          BY <2>2, <5>2, Zenon
        <5> QED
          BY <2>6, <4>2, <5>3
      <4>3. CASE ~ (i < size) /\ i = size + Segment - 1
        BY <2>6, <4>3
      <4> QED
        BY <4>1, <4>2, <4>3
    <3> QED
      BY <2>1, <2>2, <3>1 DEF Grown
  <2>11. freelist' \in Slots' \union {EndOfList}
    BY <2>1, <2>3, <2>10
  <2> HIDE DEF s
  <2> QED
    BY <2>2, <2>3, <2>4, <2>7, <2>8, <2>9, <2>10, <2>11 DEF s
<1> QED
  BY <1>3, <1>4

(* A new request gets such a slot; the others keep theirs. *)
LEMMA TakeSlot ==
  ASSUME TypeOK, TableInv, NEW h \in Handle \ InUse,
         NEW p \in Params, p.inreq = h, Associate(h, p),
         NEW v \in {"active", "inactive"}, state' = [state EXCEPT ![h] = v],
         p.persistent <=> v = "inactive",
         todo = <<>>, UNCHANGED <<todo, failed, lost>>
  PROVE  /\ TypeOK' /\ TableInv'
         /\ ParamsOf' = [g \in InUse \union {h} |-> IF g = h THEN p ELSE ParamsOf[g]]
<1> USE DEF TableInv
<1>1. /\ size' \in Nat \ {0} /\ Slots \subseteq Slots'
      /\ DOMAIN requestmap' = DOMAIN requestmap \union {h}
      /\ \A g \in DOMAIN requestmap : g # h => requestmap'[g] = requestmap[g]
      /\ \A g \in DOMAIN requestmap' : requestmap'[g] \in Slots'
      /\ requestmap'[h] \in Slots' \ (Used \union lost)
      /\ reqs' \in [Slots' -> Params \union {Uninitialised}]
      /\ reqs'[requestmap'[h]] = p
      /\ \A i \in Slots : i # requestmap'[h] => reqs'[i] = reqs[i]
      /\ next_free' \in [Slots' -> Slots' \union {EndOfList}]
      /\ freelist' \in Slots' \union {EndOfList}
      /\ Linked(freelist', next_free', Slots' \ (Used \union lost \union {requestmap'[h]}))
  BY AssociateTakes
<1>2. InUse' = InUse \union {h}
  BY DEF TypeOK, InUse
<1>3. /\ \A g \in InUse : g # h /\ g \in DOMAIN requestmap /\ requestmap'[g] = requestmap[g]
      /\ \A g \in InUse : requestmap[g] \in Used /\ requestmap[g] # requestmap'[h]
      /\ \A g \in InUse : reqs'[requestmap'[g]] = reqs[requestmap[g]] /\ state'[g] = state[g]
  <2>1. \A g \in InUse : g # h /\ g \in DOMAIN requestmap /\ requestmap'[g] = requestmap[g]
    BY <1>1 DEF OwnInv
  <2>2. \A g \in InUse : requestmap[g] \in Used /\ requestmap[g] # requestmap'[h]
    BY <1>1 DEF Used
  <2>3. \A g \in InUse : reqs'[requestmap'[g]] = reqs[requestmap[g]] /\ state'[g] = state[g]
    BY <1>1, <2>1, <2>2, UsedSlots DEF TypeOK
  <2> QED
    BY <2>1, <2>2, <2>3
<1>4. TypeOK'
  <2>1. /\ state' \in [Handle -> {"none", "active", "cancelled", "inactive", "started"}]
        /\ DOMAIN requestmap' \subseteq Handle \union {NULL}
        /\ lost' \subseteq Slots'
    BY <1>1 DEF TypeOK
  <2> QED
    BY <1>1, <2>1 DEF TypeOK
<1>5. OwnInv'
  <2>1. InUse' \subseteq DOMAIN requestmap'
    BY <1>1, <1>2, <1>3
  <2>2. \A f, g \in InUse' : requestmap'[f] = requestmap'[g] => f = g
    BY <1>2, <1>3 DEF OwnInv
  <2>3. ASSUME NEW g \in InUse'
        PROVE  /\ requestmap'[g] \notin lost'
               /\ reqs'[requestmap'[g]] \in Params
               /\ reqs'[requestmap'[g]].inreq = g
               /\ reqs'[requestmap'[g]].persistent <=> state'[g] \in {"inactive", "started"}
    <3>1. CASE g = h
      BY <1>1, <3>1 DEF TypeOK
    <3>2. CASE g \in InUse
      BY <1>3, <3>2 DEF OwnInv
    <3> QED
      BY <1>2, <3>1, <3>2
  <2> QED
    BY <2>1, <2>2, <2>3 DEF OwnInv
<1>6. FreeInv'
  <2>1. Used' = Used \union {requestmap'[h]}
    BY <1>2, <1>3 DEF Used
  <2>2. Unused' = Slots' \ (Used \union lost \union {requestmap'[h]})
    BY <2>1 DEF Unused
  <2> QED
    BY <1>1, <2>2 DEF FreeInv
<1>7. TodoInv' /\ NoneCancelled'
  BY DEF TodoInv, NoneCancelled, TypeOK
<1>8. ParamsOf' = [g \in InUse \union {h} |-> IF g = h THEN p ELSE ParamsOf[g]]
  <2>1. ParamsOf' = [g \in InUse \union {h} |-> reqs'[Slot(g)']]
    BY <1>2 DEF ParamsOf
  <2>2. Slot(h)' = requestmap'[h] /\ h \notin InUse
    BY <1>1 DEF Slot
  <2>3. \A g \in InUse : Slot(g)' = requestmap'[g] /\ ParamsOf[g] = reqs[requestmap[g]]
    BY <1>1, <1>3, UsedSlots DEF Slot, ParamsOf
  <2>4. \A g \in InUse \union {h} : reqs'[Slot(g)'] = IF g = h THEN p ELSE ParamsOf[g]
    BY <1>1, <1>3, <2>2, <2>3
  <2> QED
    BY <2>1, <2>4
<1> QED
  BY <1>4, <1>5, <1>6, <1>7, <1>8

(* The invariants when a request is forgotten and the others keep their    *)
(* slots: its slot s has been put on the freelist, or counts as lost.      *)
LEMMA ForgetSlot ==
  ASSUME TypeOK, OwnInv, FreeInv, NEW h \in InUse,
         InUse' = InUse \ {h}, \A g \in InUse' : state'[g] = state[g],
         \A g \in DOMAIN requestmap : g # h => g \in DOMAIN requestmap'
                                               /\ requestmap'[g] = requestmap[g],
         \A i \in Slots : i # Slot(h) => reqs'[i] = reqs[i],
         UNCHANGED size,
         \/ /\ UNCHANGED lost
            /\ next_free' = [next_free EXCEPT ![Slot(h)] = freelist]
            /\ freelist' = Slot(h)
         \/ /\ lost' = lost \union {Slot(h)}
            /\ UNCHANGED <<next_free, freelist>>
  PROVE  /\ OwnInv' /\ FreeInv'
         /\ next_free' \in [Slots' -> Slots' \union {EndOfList}]
         /\ freelist' \in Slots' \union {EndOfList} /\ lost' \subseteq Slots'
         /\ ParamsOf' = [g \in InUse \ {h} |-> ParamsOf[g]]
<1> DEFINE s == Slot(h)
<1>1. s = requestmap[h] /\ s \in Slots /\ s \notin lost /\ Slots' = Slots
  BY UsedSlots DEF OwnInv, Slots
<1>2. \A g \in InUse' : /\ g \in InUse /\ g \in DOMAIN requestmap' /\ g \in DOMAIN requestmap
                        /\ requestmap'[g] = requestmap[g] /\ requestmap[g] \in Slots
                        /\ requestmap[g] # s
                        /\ reqs'[requestmap'[g]] = reqs[requestmap[g]]
  BY <1>1, UsedSlots DEF OwnInv
<1>3. Used' = Used \ {s} /\ s \in Used
  BY <1>1, <1>2 DEF Used
<1>4. OwnInv'
  <2>1. \A f, g \in InUse' : requestmap'[f] = requestmap'[g] => f = g
    BY <1>2 DEF OwnInv
  <2>2. \A g \in InUse' : requestmap'[g] \notin lost'
    BY <1>2 DEF OwnInv
  <2>3. \A g \in InUse' :
          /\ reqs'[requestmap'[g]] \in Params
          /\ reqs'[requestmap'[g]].inreq = g
          /\ reqs'[requestmap'[g]].persistent <=> state'[g] \in {"inactive", "started"}
    BY <1>2 DEF OwnInv
  <2> QED
    BY <1>2, <2>1, <2>2, <2>3 DEF OwnInv
<1>5. ParamsOf' = [g \in InUse \ {h} |-> ParamsOf[g]]
  <2>1. ParamsOf' = [g \in InUse \ {h} |-> reqs'[Slot(g)']]
    BY DEF ParamsOf
  <2>2. \A g \in InUse \ {h} : reqs'[Slot(g)'] = ParamsOf[g]
    BY <1>2 DEF Slot, ParamsOf
  <2> QED
    BY <2>1, <2>2
<1>6. CASE /\ UNCHANGED lost
           /\ next_free' = [next_free EXCEPT ![s] = freelist]
           /\ freelist' = s
  <2>1. DOMAIN next_free = Slots /\ Unused \in SUBSET Nat /\ Unused \subseteq Slots
        /\ s \notin Unused
    BY <1>3, UsedSlots DEF TypeOK, Unused
  <2>2. Linked(s, [next_free EXCEPT ![s] = freelist], Unused \union {s})
    BY <1>1, <2>1, LinkedPush DEF FreeInv
  <2>3. Unused' = Unused \union {s}
    BY <1>1, <1>3, <1>6 DEF Unused
  <2>4. FreeInv'
    BY <1>6, <2>2, <2>3 DEF FreeInv
  <2> QED
    BY <1>1, <1>4, <1>5, <1>6, <2>4 DEF TypeOK
<1>7. CASE /\ lost' = lost \union {s}
           /\ UNCHANGED <<next_free, freelist>>
  <2>1. Unused' = Unused
    BY <1>1, <1>3, <1>7 DEF Unused
  <2>2. FreeInv'
    BY <1>7, <2>1 DEF FreeInv
  <2> QED
    BY <1>1, <1>4, <1>5, <1>7, <2>2 DEF TypeOK
<1> QED
  BY <1>6, <1>7

(* The invariants when all requests keep their slots, and their parameters *)
(* change in nothing but active.                                           *)
LEMMA SameSlots ==
  ASSUME TypeOK, OwnInv, FreeInv, InUse' = InUse,
         \A g \in InUse : (state'[g] \in {"inactive", "started"})
                            <=> (state[g] \in {"inactive", "started"}),
         \A g \in DOMAIN requestmap : g \in DOMAIN requestmap'
                                      /\ requestmap'[g] = requestmap[g],
         \A g \in InUse : LET i == requestmap[g] IN
           /\ reqs'[i] \in Params /\ reqs'[i].inreq = reqs[i].inreq
           /\ reqs'[i].persistent = reqs[i].persistent,
         UNCHANGED <<size, next_free, freelist, lost>>
  PROVE  /\ OwnInv' /\ FreeInv'
         /\ ParamsOf' = [g \in InUse |-> reqs'[requestmap[g]]]
<1>1. Slots' = Slots /\ \A g \in InUse : g \in DOMAIN requestmap' /\ requestmap'[g] = requestmap[g]
  BY UsedSlots DEF OwnInv, Slots
<1>2. Used' = Used /\ Unused' = Unused
  BY <1>1 DEF Used, Unused
<1>3. FreeInv'
  BY <1>2 DEF FreeInv
<1>4. OwnInv'
  BY <1>1 DEF OwnInv
<1>5. ParamsOf' = [g \in InUse |-> reqs'[requestmap[g]]]
  <2>1. ParamsOf' = [g \in InUse |-> reqs'[Slot(g)']]
    BY DEF ParamsOf
  <2>2. \A g \in InUse : Slot(g)' = requestmap[g]
    BY <1>1 DEF Slot
  <2> QED
    BY <2>1, <2>2
<1> QED
  BY <1>3, <1>4, <1>5

--------------------------------------------------------------------------------
(* Steps of the map that the table implements *)

LEMMA MapCreate ==
  ASSUME NEW h \in Handle, h \notin InUse, NEW p \in Params, p.inreq = h,
         ParamsOf' = [g \in InUse \union {h} |-> IF g = h THEN p ELSE ParamsOf[g]]
  PROVE  Abstract!RMNext
<1>1. Abstract!Create(h, p)
  BY DEF Abstract!Create, Abstract!Known, ParamsOf
<1> QED
  BY <1>1 DEF Abstract!RMNext

LEMMA MapForget ==
  ASSUME NEW h \in Handle, h \in InUse, ParamsOf' = [g \in InUse \ {h} |-> ParamsOf[g]]
  PROVE  Abstract!RMNext
<1>1. Abstract!Forget(h)
  BY DEF Abstract!Forget, Abstract!Known, ParamsOf
<1> QED
  BY <1>1 DEF Abstract!RMNext

LEMMA MapSetActive ==
  ASSUME NEW h \in Handle, h \in InUse, ParamsOf[h].persistent, NEW on \in BOOLEAN,
         ParamsOf' = [ParamsOf EXCEPT ![h].active = on]
  PROVE  Abstract!RMNext
<1>1. Abstract!SetActive(h, on)
  BY DEF Abstract!SetActive, Abstract!Known, ParamsOf
<1> QED
  BY <1>1 DEF Abstract!RMNext

LEMMA MapActivateAll ==
  ASSUME NEW hs \in SUBSET Handle, hs \subseteq InUse, \A h \in hs : ParamsOf[h].persistent,
         ParamsOf' = [g \in InUse |-> IF g \in hs THEN [ParamsOf[g] EXCEPT !.active = TRUE]
                                      ELSE ParamsOf[g]]
  PROVE  Abstract!RMNext
<1>1. Abstract!ActivateAll(hs)
  BY DEF Abstract!ActivateAll, Abstract!Known, ParamsOf
<1> QED
  BY <1>1 DEF Abstract!RMNext

(* A step of the table is a step of the map or does not concern it. *)
Maps == Abstract!RMNext \/ ParamsOf' = ParamsOf

--------------------------------------------------------------------------------
(* Every step *)

(* The parameters of a request in use. *)
LEMMA ParamsAt ==
  ASSUME TypeOK, OwnInv, NEW h \in InUse
  PROVE  /\ ParamsOf[h] = reqs[requestmap[h]] /\ Slot(h) = requestmap[h]
         /\ requestmap[h] \in Slots /\ h \in DOMAIN requestmap /\ h \in Handle
         /\ reqs[requestmap[h]] \in Params
  BY UsedSlots DEF ParamsOf, OwnInv

LEMMA CreateTable ==
  ASSUME TypeOK, TableInv, NEW h \in Handle, NEW kind \in Kind,
         MPI_Isend(h, kind) \/ MPI_Send_init(h, kind)
  PROVE  TypeOK' /\ TableInv' /\ Maps
<1>1. h \notin InUse /\ todo = <<>> /\ UNCHANGED <<todo, failed, lost>>
  BY DEF MPI_Isend, MPI_Send_init, Idle, InUse, failVars
<1>2. ASSUME NEW p \in Params, p.inreq = h, Associate(h, p),
             NEW v \in {"active", "inactive"}, state' = [state EXCEPT ![h] = v],
             p.persistent <=> v = "inactive"
      PROVE  TypeOK' /\ TableInv' /\ Maps
  <2>1. /\ TypeOK' /\ TableInv'
        /\ ParamsOf' = [g \in InUse \union {h} |-> IF g = h THEN p ELSE ParamsOf[g]]
    <3>1. h \in Handle \ InUse
      BY <1>1
    <3> QED
      BY <1>1, <1>2, <3>1, TakeSlot, Zenon
  <2> QED
    BY <1>1, <1>2, <2>1, MapCreate DEF Maps
<1>3. CASE MPI_Isend(h, kind)
  <2> DEFINE p == [kind |-> kind, persistent |-> FALSE, active |-> TRUE, inreq |-> h]
  <2>1. p \in Params /\ p.inreq = h /\ p.persistent = FALSE
    BY DEF Params
  <2>2. Associate(h, p) /\ state' = [state EXCEPT ![h] = "active"]
    BY <1>3 DEF MPI_Isend
  <2> HIDE DEF p
  <2> QED
    BY <1>2, <2>1, <2>2
<1>4. CASE MPI_Send_init(h, kind)
  <2> DEFINE p == [kind |-> kind, persistent |-> TRUE, active |-> FALSE, inreq |-> h]
  <2>1. p \in Params /\ p.inreq = h /\ p.persistent = TRUE
    BY DEF Params
  <2>2. Associate(h, p) /\ state' = [state EXCEPT ![h] = "inactive"]
    BY <1>4 DEF MPI_Send_init
  <2> HIDE DEF p
  <2> QED
    BY <1>2, <2>1, <2>2
<1> QED
  BY <1>3, <1>4

LEMMA StartTable ==
  ASSUME TypeOK, TableInv, NEW hs \in SUBSET Handle, MPI_Startall(hs)
  PROVE  TypeOK' /\ TableInv' /\ Maps
<1> USE DEF TableInv
<1>1. /\ todo = <<>> /\ \A h \in hs : state[h] = "inactive"
      /\ state' = [h \in Handle |-> IF h \in hs THEN "started" ELSE state[h]]
      /\ requestmap' = Touched(hs)
      /\ reqs' = [i \in Slots |-> IF \E h \in hs : Slot(h) = i
                                    THEN [reqs[i] EXCEPT !.active = TRUE] ELSE reqs[i]]
      /\ UNCHANGED <<size, next_free, freelist, todo, failed, lost>>
  BY DEF MPI_Startall, Idle, failVars
<1>2. InUse' = InUse /\ hs \subseteq InUse
  BY <1>1 DEF InUse
<1>3. \A g \in InUse : (\E h \in hs : Slot(h) = requestmap[g]) <=> g \in hs
  BY <1>2, ParamsAt DEF OwnInv
<1>4. \A g \in InUse : reqs'[requestmap[g]] =
         IF g \in hs THEN [reqs[requestmap[g]] EXCEPT !.active = TRUE] ELSE reqs[requestmap[g]]
  BY <1>1, <1>3, ParamsAt
<1>5. \A p \in Params : [p EXCEPT !.active = TRUE] \in Params
                        /\ [p EXCEPT !.active = TRUE].inreq = p.inreq
                        /\ [p EXCEPT !.active = TRUE].persistent = p.persistent
  BY DEF Params
<1>6. /\ OwnInv' /\ FreeInv'
      /\ ParamsOf' = [g \in InUse |-> reqs'[requestmap[g]]]
  <2>1. \A g \in InUse : (state'[g] \in {"inactive", "started"})
                            <=> (state[g] \in {"inactive", "started"})
    BY <1>1 DEF InUse
  <2>2. \A g \in DOMAIN requestmap : g \in DOMAIN requestmap'
                                     /\ requestmap'[g] = requestmap[g]
    BY <1>1, SlotTypes
  <2>3. \A g \in InUse : /\ reqs'[requestmap[g]] \in Params
                         /\ reqs'[requestmap[g]].inreq = reqs[requestmap[g]].inreq
                         /\ reqs'[requestmap[g]].persistent = reqs[requestmap[g]].persistent
    BY <1>4, <1>5, ParamsAt
  <2> QED
    BY <1>1, <1>2, <2>1, <2>2, <2>3, SameSlots
<1>7. TypeOK'
  <2>1. reqs' \in [Slots -> Params \union {Uninitialised}]
    <3> SUFFICES ASSUME NEW i \in Slots PROVE reqs'[i] \in Params \union {Uninitialised}
      BY <1>1
    <3>1. CASE \E h \in hs : Slot(h) = i
      BY <1>1, <1>2, <1>5, <3>1, ParamsAt
    <3>2. CASE ~ \E h \in hs : Slot(h) = i
      BY <1>1, <3>2 DEF TypeOK
    <3> QED
      BY <3>1, <3>2
  <2>2. /\ DOMAIN requestmap' \subseteq Handle \union {NULL}
        /\ \A h \in DOMAIN requestmap' : requestmap'[h] \in Slots
    BY <1>1, SlotTypes DEF TypeOK
  <2>3. state' \in [Handle -> {"none", "active", "cancelled", "inactive", "started"}]
    BY <1>1 DEF TypeOK
  <2>4. Slots' = Slots
    BY <1>1 DEF Slots
  <2> QED
    BY <1>1, <2>1, <2>2, <2>3, <2>4 DEF TypeOK
<1>8. TodoInv' /\ NoneCancelled'
  BY <1>1 DEF TodoInv, NoneCancelled
<1>9. Maps
  <2>1. \A h \in hs : ParamsOf[h].persistent
    BY <1>1, <1>2, ParamsAt DEF OwnInv
  <2>2. ParamsOf' = [g \in InUse |-> IF g \in hs THEN [ParamsOf[g] EXCEPT !.active = TRUE]
                                     ELSE ParamsOf[g]]
    BY <1>4, <1>6, ParamsAt
  <2> QED
    BY <1>2, <2>1, <2>2, MapActivateAll DEF Maps
<1> QED
  BY <1>6, <1>7, <1>8, <1>9

(* A step that leaves parameters and slots alone. *)
LEMMA QuietTable ==
  ASSUME TypeOK, TableInv, InUse' = InUse, UNCHANGED <<tableVars, lost>>,
         requestmap' = requestmap \/ \E h \in Handle \union {NULL} : requestmap' = Touched({h}),
         failed' \in BOOLEAN,
         todo' \in Seq(Handle \union {NULL}), TodoInv',
         state' \in [Handle -> {"none", "active", "cancelled", "inactive", "started"}],
         \A h \in Handle : state'[h] = "cancelled" => state[h] = "cancelled",
         \A g \in InUse : (state'[g] \in {"inactive", "started"})
                            <=> (state[g] \in {"inactive", "started"})
  PROVE  TypeOK' /\ TableInv' /\ Maps
<1> USE DEF TableInv
<1>1. /\ \A g \in DOMAIN requestmap : g \in DOMAIN requestmap' /\ requestmap'[g] = requestmap[g]
      /\ DOMAIN requestmap' \subseteq Handle \union {NULL}
      /\ \A h \in DOMAIN requestmap' : requestmap'[h] \in Slots
  <2>1. CASE requestmap' = requestmap
    <3>1. DOMAIN requestmap' = DOMAIN requestmap
      BY <2>1
    <3>2. DOMAIN requestmap \subseteq Handle \union {NULL}
      BY DEF TypeOK
    <3>3. \A h \in DOMAIN requestmap : requestmap[h] \in Slots
      BY DEF TypeOK
    <3> QED
      BY <2>1, <3>1, <3>2, <3>3, Zenon
  <2>2. CASE \E h \in Handle \union {NULL} : requestmap' = Touched({h})
    BY <2>2, TouchedMap
  <2> QED
    BY <2>1, <2>2
<1>2. UNCHANGED <<size, reqs, next_free, freelist>> /\ Slots' = Slots
  BY DEF tableVars, Slots
<1>3. /\ OwnInv' /\ FreeInv'
      /\ ParamsOf' = [g \in InUse |-> reqs'[requestmap[g]]]
  BY <1>1, <1>2, ParamsAt, SameSlots
<1>4. TypeOK'
  BY <1>1, <1>2 DEF TypeOK
<1>5. ParamsOf' = ParamsOf
  <2>1. ParamsOf = [g \in InUse |-> reqs[requestmap[g]]]
    BY UsedSlots DEF ParamsOf
  <2> QED
    BY <1>2, <1>3, <2>1
<1>6. NoneCancelled'
  BY DEF NoneCancelled
<1> QED
  BY <1>3, <1>4, <1>5, <1>6 DEF Maps

LEMMA CompletesTable ==
  ASSUME TypeOK, TableInv, NEW n \in 1..MaxCount, NEW hs \in [1..n -> Completable],
         PMPI_Completes(hs)
  PROVE  TypeOK' /\ TableInv' /\ Maps
<1>1. /\ todo = <<>> /\ todo' = hs /\ failed' \in BOOLEAN
      /\ \A i, j \in DOMAIN hs : hs[i] = hs[j] /\ hs[i] # NULL => i = j
      /\ state' = [h \in Handle |->
                     IF \E i \in DOMAIN hs : hs[i] = h THEN Completed(state[h]) ELSE state[h]]
      /\ UNCHANGED <<tableVars, lost>> /\ requestmap' = requestmap
  BY DEF PMPI_Completes, Idle
<1>2. \A i \in 1..n : hs[i] \in Handle \union {NULL} /\ (hs[i] # NULL => state[hs[i]] # "none")
  <2>1. Completable \subseteq Handle \union {NULL}
    BY DEF Completable
  <2>2. \A h \in Completable : h # NULL => state[h] # "none"
    BY DEF Completable
  <2> QED
    BY <2>1, <2>2
<1>3. NULL \notin Handle
  BY TableAssumption
<1>4. todo' \in Seq(Handle \union {NULL}) /\ DOMAIN todo' = 1..n
  <2>1. n \in Nat
    BY TableAssumption
  <2>2. hs \in [1..n -> Handle \union {NULL}]
    BY <1>2
  <2> QED
    BY <1>1, <2>1, <2>2
<1>5. \A h \in Handle : state[h] \in {"none", "active", "inactive", "started"}
  BY DEF TypeOK, TableInv, NoneCancelled
<1>6. InUse' = InUse
  BY <1>1, <1>2, <1>3, <1>4 DEF InUse
<1>7. TodoInv'
  <2>1. \A i \in DOMAIN todo' : todo'[i] # NULL => state'[todo'[i]] \in {"none", "inactive"}
    BY <1>1, <1>2, <1>4, <1>5 DEF Completed
  <2> QED
    BY <1>1, <2>1 DEF TodoInv
<1>8. /\ state' \in [Handle -> {"none", "active", "cancelled", "inactive", "started"}]
      /\ \A h \in Handle : state'[h] # "cancelled"
      /\ \A g \in Handle : (state'[g] \in {"inactive", "started"})
                             <=> (state[g] \in {"inactive", "started"})
  BY <1>1, <1>5 DEF Completed
<1>9. InUse \subseteq Handle
  BY DEF InUse
<1> QED
  BY <1>1, <1>4, <1>6, <1>7, <1>8, <1>9, QuietTable

(* The first of the completed requests leaves the list; the others stay    *)
(* in use or not as they were.                                             *)
LEMMA PopTodo ==
  ASSUME TypeOK, TodoInv, todo # <<>>, todo' = Tail(todo), UNCHANGED state
  PROVE  /\ Head(todo) \in Handle \union {NULL}
         /\ Head(todo) # NULL => Head(todo) \in InUse
         /\ Head(todo) # NULL => state[Head(todo)] \in {"none", "inactive"}
         /\ todo' \in Seq(Handle \union {NULL}) /\ TodoInv'
         /\ InUse' = IF Head(todo) # NULL /\ state[Head(todo)] = "none"
                       THEN InUse \ {Head(todo)} ELSE InUse
<1>1. /\ todo \in Seq(Handle \union {NULL}) /\ NULL \notin Handle
      /\ 1 \in DOMAIN todo /\ Head(todo) = todo[1] /\ Head(todo) \in Handle \union {NULL}
  <2>1. todo \in Seq(Handle \union {NULL})
    BY DEF TypeOK
  <2> QED
    BY <2>1, TableAssumption
<1>2. /\ todo' \in Seq(Handle \union {NULL})
      /\ \A i \in DOMAIN todo' : i + 1 \in DOMAIN todo /\ todo'[i] = todo[i + 1] /\ i \in Nat
      /\ \A i \in DOMAIN todo : i # 1 => i - 1 \in DOMAIN todo' /\ todo'[i - 1] = todo[i]
  BY <1>1
<1>3. \A i \in DOMAIN todo' : i + 1 # 1
  BY <1>2
<1>4. TodoInv'
  <2>1. ASSUME NEW i \in DOMAIN todo', NEW j \in DOMAIN todo',
               todo'[i] = todo'[j], todo'[i] # NULL
        PROVE  i = j
    <3>1. i + 1 = j + 1
      BY <1>2, <2>1 DEF TodoInv
    <3> QED
      BY <1>2, <3>1
  <2>2. \A i \in DOMAIN todo' : todo'[i] # NULL => state'[todo'[i]] \in {"none", "inactive"}
    BY <1>2 DEF TodoInv
  <2> QED
    BY <2>1, <2>2 DEF TodoInv
<1>5. \A g \in Handle : (\E i \in DOMAIN todo' : todo'[i] = g)
                          <=> g # Head(todo) /\ \E i \in DOMAIN todo : todo[i] = g
  <2> SUFFICES ASSUME NEW g \in Handle
               PROVE  (\E i \in DOMAIN todo' : todo'[i] = g)
                        <=> g # Head(todo) /\ \E i \in DOMAIN todo : todo[i] = g
    OBVIOUS
  <2>1. ASSUME NEW i \in DOMAIN todo', todo'[i] = g
        PROVE  g # Head(todo) /\ \E k \in DOMAIN todo : todo[k] = g
    <3>1. i + 1 \in DOMAIN todo /\ todo[i + 1] = g /\ i + 1 # 1
      BY <1>2, <1>3, <2>1
    <3>2. todo[1] # g
      BY <1>1, <3>1 DEF TodoInv
    <3> QED
      BY <1>1, <3>1, <3>2
  <2>2. ASSUME NEW i \in DOMAIN todo, todo[i] = g, g # Head(todo)
        PROVE  \E k \in DOMAIN todo' : todo'[k] = g
    BY <1>1, <1>2, <2>2
  <2> QED
    BY <2>1, <2>2
<1>6. InUse' = {g \in Handle : state[g] # "none"
                                 \/ (g # Head(todo) /\ \E i \in DOMAIN todo : todo[i] = g)}
  <2>1. InUse' = {g \in Handle : state[g] # "none" \/ \E i \in DOMAIN todo' : todo'[i] = g}
    BY DEF InUse
  <2> QED
    BY <1>5, <2>1
<1>7. Head(todo) # NULL => Head(todo) \in InUse /\ state[Head(todo)] \in {"none", "inactive"}
  BY <1>1 DEF InUse, TodoInv
<1>8. InUse' = IF Head(todo) # NULL /\ state[Head(todo)] = "none"
                 THEN InUse \ {Head(todo)} ELSE InUse
  <2>1. CASE Head(todo) = NULL
    BY <1>1, <1>6, <2>1 DEF InUse
  <2>2. CASE Head(todo) # NULL
    BY <1>1, <1>6, <1>7, <2>2 DEF InUse
  <2> QED
    BY <2>1, <2>2
<1> QED
  BY <1>1, <1>2, <1>4, <1>7, <1>8

(* A request that is not persistent is done with: by FREE_REQUEST, which   *)
(* puts its slot on the freelist, or by a call that failed.                *)
LEMMA ForgetTable ==
  ASSUME TypeOK, TableInv, NEW h \in InUse, InUse' = InUse \ {h},
         \A g \in InUse' : state'[g] = state[g],
         \A g \in Handle : state'[g] = state[g] \/ state'[g] = "none",
         state' \in [Handle -> {"none", "active", "cancelled", "inactive", "started"}],
         \/ /\ requestmap' = [g \in DOMAIN requestmap \ {h} |-> requestmap[g]]
            /\ next_free' = [next_free EXCEPT ![Slot(h)] = freelist]
            /\ freelist' = Slot(h)
            /\ UNCHANGED lost
         \/ /\ requestmap' = Touched({h})
            /\ lost' = lost \union {Slot(h)}
            /\ UNCHANGED <<next_free, freelist>>,
         reqs' = reqs \/ reqs' = [reqs EXCEPT ![Slot(h)].persistent = FALSE],
         todo' \in Seq(Handle \union {NULL}), TodoInv', failed' \in BOOLEAN,
         UNCHANGED size
  PROVE  TypeOK' /\ TableInv' /\ Maps
<1> USE DEF TableInv
<1>1. /\ h \in Handle /\ h \in DOMAIN requestmap /\ Slot(h) \in Slots
      /\ reqs[Slot(h)] \in Params /\ Slots' = Slots
  BY ParamsAt DEF Slots
<1>2. /\ \A g \in DOMAIN requestmap : g # h => g \in DOMAIN requestmap'
                                               /\ requestmap'[g] = requestmap[g]
      /\ DOMAIN requestmap' \subseteq Handle \union {NULL}
      /\ \A g \in DOMAIN requestmap' : requestmap'[g] \in Slots
  <2>1. CASE requestmap' = [g \in DOMAIN requestmap \ {h} |-> requestmap[g]]
    <3>1. DOMAIN requestmap' = DOMAIN requestmap \ {h}
      BY <2>1
    <3>2. DOMAIN requestmap \subseteq Handle \union {NULL}
      BY DEF TypeOK
    <3>3. \A g \in DOMAIN requestmap : requestmap[g] \in Slots
      BY DEF TypeOK
    <3> QED
      BY <2>1, <3>1, <3>2, <3>3
  <2>2. CASE requestmap' = Touched({h})
    BY <1>1, <2>2, TouchedMap
  <2> QED
    BY <2>1, <2>2
<1>3. /\ reqs' \in [Slots -> Params \union {Uninitialised}]
      /\ \A i \in Slots : i # Slot(h) => reqs'[i] = reqs[i]
  <2>1. CASE reqs' = reqs
    BY <2>1 DEF TypeOK
  <2>2. CASE reqs' = [reqs EXCEPT ![Slot(h)].persistent = FALSE]
    <3>1. [reqs[Slot(h)] EXCEPT !.persistent = FALSE] \in Params
      BY <1>1 DEF Params
    <3> QED
      BY <1>1, <2>2, <3>1 DEF TypeOK
  <2> QED
    BY <2>1, <2>2
<1>4. /\ OwnInv' /\ FreeInv'
      /\ next_free' \in [Slots' -> Slots' \union {EndOfList}]
      /\ freelist' \in Slots' \union {EndOfList} /\ lost' \subseteq Slots'
      /\ ParamsOf' = [g \in InUse \ {h} |-> ParamsOf[g]]
  BY <1>2, <1>3, ForgetSlot
<1>5. TypeOK'
  <2>1. size' \in Nat \ {0}
    BY DEF TypeOK
  <2> QED
    BY <1>1, <1>2, <1>3, <1>4, <2>1 DEF TypeOK
<1>6. NoneCancelled'
  BY DEF NoneCancelled
<1> QED
  BY <1>1, <1>4, <1>5, <1>6, MapForget DEF Maps

(* FREE_REQUEST on a persistent request turns it inactive. *)
LEMMA DeactivateTable ==
  ASSUME TypeOK, TableInv, NEW h \in InUse, InUse' = InUse, UNCHANGED state,
         reqs[Slot(h)].persistent,
         reqs' = [reqs EXCEPT ![Slot(h)].active = FALSE],
         requestmap' = Touched({h}),
         UNCHANGED <<size, next_free, freelist, lost>>,
         todo' \in Seq(Handle \union {NULL}), TodoInv', failed' \in BOOLEAN
  PROVE  TypeOK' /\ TableInv' /\ Maps
<1> USE DEF TableInv
<1> DEFINE s == Slot(h)
           q == [reqs[s] EXCEPT !.active = FALSE]
<1>1. /\ s = requestmap[h] /\ s \in Slots /\ reqs[s] \in Params /\ Slots' = Slots
      /\ h \in Handle /\ h \in DOMAIN requestmap
  BY ParamsAt DEF Slots
<1>2. q \in Params /\ q.inreq = reqs[s].inreq /\ q.persistent = reqs[s].persistent
  BY <1>1 DEF Params
<1>3. DOMAIN reqs = Slots /\ reqs' = [reqs EXCEPT ![s] = q]
  BY DEF TypeOK
<1> HIDE DEF q
<1>4. \A g \in InUse : reqs'[requestmap[g]] = IF g = h THEN q ELSE reqs[requestmap[g]]
  <2>1. \A g \in InUse : requestmap[g] = s <=> g = h
    BY <1>1 DEF OwnInv
  <2>2. \A g \in InUse : requestmap[g] \in Slots
    BY ParamsAt
  <2> HIDE DEF s
  <2> QED
    BY <1>3, <2>1, <2>2
<1>5. /\ \A g \in DOMAIN requestmap : g \in DOMAIN requestmap' /\ requestmap'[g] = requestmap[g]
      /\ DOMAIN requestmap' \subseteq Handle \union {NULL}
      /\ \A g \in DOMAIN requestmap' : requestmap'[g] \in Slots
  BY <1>1, TouchedMap
<1>6. /\ OwnInv' /\ FreeInv'
      /\ ParamsOf' = [g \in InUse |-> reqs'[requestmap[g]]]
  <2>1. \A g \in InUse : /\ reqs'[requestmap[g]] \in Params
                         /\ reqs'[requestmap[g]].inreq = reqs[requestmap[g]].inreq
                         /\ reqs'[requestmap[g]].persistent = reqs[requestmap[g]].persistent
    <3>1. \A g \in InUse : reqs[requestmap[g]] \in Params
      BY DEF OwnInv
    <3>2. reqs[s] = reqs[requestmap[h]]
      BY <1>1
    <3> HIDE DEF s
    <3> QED
      BY ONLY <1>2, <1>4, <3>1, <3>2
  <2> QED
    BY <1>5, <2>1, SameSlots
<1>7. TypeOK'
  <2>1. reqs' \in [Slots -> Params \union {Uninitialised}]
    <3>1. reqs \in [Slots -> Params \union {Uninitialised}]
      BY DEF TypeOK
    <3>2. q \in Params \union {Uninitialised}
      BY <1>2
    <3> HIDE DEF s
    <3> QED
      BY <1>3, <3>1, <3>2
  <2> QED
    BY <1>1, <1>5, <2>1 DEF TypeOK
<1>8. Maps
  <2>1. /\ DOMAIN ParamsOf = InUse /\ ParamsOf[h] = reqs[s]
        /\ \A g \in InUse : ParamsOf[g] = reqs[requestmap[g]]
    BY <1>1, UsedSlots DEF ParamsOf
  <2>2. ParamsOf' = [g \in InUse |-> IF g = h THEN q ELSE ParamsOf[g]]
    BY <1>4, <1>6, <2>1
  <2>3. ParamsOf' = [ParamsOf EXCEPT ![h] = q]
    <3>1. ParamsOf = [g \in InUse |-> reqs[Slot(g)]]
      BY DEF ParamsOf
    <3> HIDE DEF s
    <3> QED
      BY <2>1, <2>2, <3>1
  <2>4. ParamsOf' = [ParamsOf EXCEPT ![h].active = FALSE]
    BY <2>1, <2>3 DEF q
  <2> QED
    BY <1>1, <2>1, <2>4, MapSetActive DEF Maps
<1>9. NoneCancelled'
  BY DEF NoneCancelled
<1> QED
  BY <1>6, <1>7, <1>8, <1>9

LEMMA LoopTable ==
  ASSUME TypeOK, TableInv, LoopStep
  PROVE  TypeOK' /\ TableInv' /\ Maps
<1> DEFINE h == Head(todo)
<1>1. /\ todo # <<>> /\ todo' = Tail(todo) /\ UNCHANGED state
      /\ failed' \in BOOLEAN
      /\ IF failed THEN Keep(h) ELSE Free(h) /\ UNCHANGED lost
  BY DEF LoopStep, TypeOK
<1>2. /\ h \in Handle \union {NULL}
      /\ h # NULL => h \in InUse /\ state[h] \in {"none", "inactive"}
      /\ todo' \in Seq(Handle \union {NULL}) /\ TodoInv'
      /\ InUse' = IF h # NULL /\ state[h] = "none" THEN InUse \ {h} ELSE InUse
  BY <1>1, PopTodo DEF TableInv
<1>3. h # NULL => (reqs[Slot(h)].persistent <=> state[h] # "none") /\ Slot(h) = requestmap[h]
  BY <1>2, ParamsAt DEF TableInv, OwnInv
<1>4. /\ state' = state
      /\ state' \in [Handle -> {"none", "active", "cancelled", "inactive", "started"}]
  BY <1>1 DEF TypeOK
<1> HIDE DEF h
<1>5. CASE h = NULL \/ (failed /\ reqs[Slot(h)].persistent)
  <2>1. requestmap' = Touched({h}) /\ UNCHANGED <<tableVars, lost>>
    BY <1>1, <1>5 DEF Keep, Free
  <2>2. InUse' = InUse
    BY <1>2, <1>3, <1>5
  <2> QED
    BY <1>1, <1>2, <1>4, <2>1, <2>2, QuietTable
<1>6. CASE h # NULL /\ ~ failed /\ reqs[Slot(h)].persistent
  <2>1. /\ requestmap' = Touched({h}) /\ reqs' = [reqs EXCEPT ![Slot(h)].active = FALSE]
        /\ UNCHANGED <<size, next_free, freelist, lost>>
    BY <1>1, <1>6 DEF Free
  <2>2. InUse' = InUse /\ h \in InUse
    BY <1>2, <1>3, <1>6
  <2> QED
    BY <1>1, <1>2, <1>6, <2>1, <2>2, DeactivateTable
<1>7. CASE h # NULL /\ ~ reqs[Slot(h)].persistent
  <2>1. /\ \/ /\ requestmap' = [g \in DOMAIN requestmap \ {h} |-> requestmap[g]]
              /\ next_free' = [next_free EXCEPT ![Slot(h)] = freelist]
              /\ freelist' = Slot(h)
              /\ UNCHANGED lost
           \/ /\ requestmap' = Touched({h})
              /\ lost' = lost \union {Slot(h)}
              /\ UNCHANGED <<next_free, freelist>>
        /\ reqs' = reqs /\ UNCHANGED size
    <3>1. CASE failed
      BY <1>1, <1>7, <3>1 DEF Keep, tableVars
    <3>2. CASE ~ failed
      BY <1>1, <1>7, <3>2 DEF Free
    <3> QED
      BY <3>1, <3>2
  <2>2. InUse' = InUse \ {h} /\ h \in InUse
    BY <1>2, <1>3, <1>7
  <2>3. \A g \in InUse' : state'[g] = state[g]
    BY <1>4
  <2>4. \A g \in Handle : state'[g] = state[g] \/ state'[g] = "none"
    BY <1>4
  <2> QED
    BY <1>1, <1>2, <1>4, <2>1, <2>2, <2>3, <2>4, ForgetTable
<1> QED
  BY <1>5, <1>6, <1>7

LEMMA TestFailsTable ==
  ASSUME TypeOK, TableInv, NEW h \in Handle, MPI_TestFails(h)
  PROVE  TypeOK' /\ TableInv' /\ Maps
<1>1. /\ requestmap' = Touched({h}) /\ UNCHANGED <<tableVars, lost>>
      /\ UNCHANGED <<state, todo, failed>>
  BY DEF MPI_TestFails, failVars
<1>2. InUse' = InUse /\ TodoInv' /\ failed' \in BOOLEAN /\ todo' \in Seq(Handle \union {NULL})
  BY <1>1 DEF InUse, TodoInv, TableInv, TypeOK
<1>3. /\ state' = state
      /\ state' \in [Handle -> {"none", "active", "cancelled", "inactive", "started"}]
  BY <1>1 DEF TypeOK
<1> QED
  BY <1>1, <1>2, <1>3, QuietTable

(* Cancelling a started request deactivates it in the table. *)
LEMMA CancelTable ==
  ASSUME TypeOK, TableInv, Cancels \subseteq {"started"}, NEW h \in Handle, MPI_Cancel(h)
  PROVE  TypeOK' /\ TableInv' /\ Maps
<1>1. /\ state[h] = "started" /\ h # NULL /\ h \in InUse
      /\ Free(h) /\ UNCHANGED <<todo, failed, lost>>
  BY TableAssumption DEF MPI_Cancel, failVars, InUse
<1>2. state' = state
  BY <1>1 DEF MPI_Cancel, TypeOK
<1>3. reqs[Slot(h)].persistent
  BY <1>1, ParamsAt DEF TableInv, OwnInv
<1>4. /\ requestmap' = Touched({h}) /\ reqs' = [reqs EXCEPT ![Slot(h)].active = FALSE]
      /\ UNCHANGED <<size, next_free, freelist>>
  BY <1>1, <1>3 DEF Free
<1>5. InUse' = InUse /\ TodoInv' /\ failed' \in BOOLEAN /\ todo' \in Seq(Handle \union {NULL})
  BY <1>1, <1>2 DEF InUse, TodoInv, TableInv, TypeOK
<1> QED
  BY <1>1, <1>2, <1>3, <1>4, <1>5, DeactivateTable

LEMMA RequestFreeTable ==
  ASSUME TypeOK, TableInv, NEW h \in Handle, MPI_Request_free(h)
  PROVE  TypeOK' /\ TableInv' /\ Maps
<1>1. /\ todo = <<>> /\ state[h] # "none" /\ state' = [state EXCEPT ![h] = "none"]
      /\ requestmap' = [g \in DOMAIN requestmap \ {h} |-> requestmap[g]]
      /\ next_free' = [next_free EXCEPT ![Slot(h)] = freelist]
      /\ freelist' = Slot(h)
      /\ reqs' = [reqs EXCEPT ![Slot(h)].persistent = FALSE]
      /\ UNCHANGED <<size, todo, failed, lost>>
  BY DEF MPI_Request_free, Idle, failVars
<1>2. InUse' = InUse \ {h} /\ h \in InUse
  BY <1>1 DEF InUse, TypeOK
<1>3. /\ TodoInv' /\ failed' \in BOOLEAN /\ todo' \in Seq(Handle \union {NULL})
  BY <1>1 DEF TodoInv, TypeOK
<1>4. /\ state' \in [Handle -> {"none", "active", "cancelled", "inactive", "started"}]
      /\ \A g \in Handle : g # h => state'[g] = state[g]
      /\ state'[h] = "none"
  BY <1>1 DEF TypeOK
<1>5. /\ \A g \in InUse' : state'[g] = state[g]
      /\ \A g \in Handle : state'[g] = state[g] \/ state'[g] = "none"
  BY <1>2, <1>4 DEF InUse
<1> QED
  BY <1>1, <1>2, <1>3, <1>4, <1>5, ForgetTable

LEMMA StutterTable ==
  ASSUME TypeOK, TableInv, UNCHANGED vars
  PROVE  TypeOK' /\ TableInv' /\ Maps
<1>1. /\ UNCHANGED <<tableVars, lost>> /\ requestmap' = requestmap
      /\ UNCHANGED <<state, todo, failed>>
  BY DEF vars, failVars
<1>2. InUse' = InUse /\ TodoInv' /\ failed' \in BOOLEAN /\ todo' \in Seq(Handle \union {NULL})
  BY <1>1 DEF InUse, TodoInv, TableInv, TypeOK
<1>3. /\ state' = state
      /\ state' \in [Handle -> {"none", "active", "cancelled", "inactive", "started"}]
  BY <1>1 DEF TypeOK
<1> QED
  BY <1>1, <1>2, <1>3, QuietTable

LEMMA StepTable ==
  ASSUME Cancels \subseteq {"started"}, TypeOK, TableInv, [Next]_vars
  PROVE  TypeOK' /\ TableInv' /\ Maps
<1>1. ASSUME NEW h \in Handle, NEW kind \in Kind, MPI_Isend(h, kind) \/ MPI_Send_init(h, kind)
      PROVE  TypeOK' /\ TableInv' /\ Maps
  BY <1>1, CreateTable
<1>2. ASSUME NEW h \in Handle, MPI_TestFails(h) PROVE TypeOK' /\ TableInv' /\ Maps
  BY <1>2, TestFailsTable
<1>3. ASSUME NEW h \in Handle, MPI_Request_free(h) PROVE TypeOK' /\ TableInv' /\ Maps
  BY <1>3, RequestFreeTable
<1>4. ASSUME NEW h \in Handle, MPI_Cancel(h) PROVE TypeOK' /\ TableInv' /\ Maps
  BY <1>4, CancelTable
<1>5. ASSUME NEW hs \in SUBSET Handle, MPI_Startall(hs) PROVE TypeOK' /\ TableInv' /\ Maps
  BY <1>5, StartTable
<1>6. ASSUME NEW n \in 1..MaxCount, NEW hs \in [1..n -> Completable], PMPI_Completes(hs)
      PROVE  TypeOK' /\ TableInv' /\ Maps
  BY <1>6, CompletesTable
<1>7. CASE LoopStep
  BY <1>7, LoopTable
<1>8. CASE UNCHANGED vars
  BY <1>8, StutterTable
<1> QED
  BY <1>1, <1>2, <1>3, <1>4, <1>5, <1>6, <1>7, <1>8 DEF Next

--------------------------------------------------------------------------------
(* The theorems.  A request that is not persistent must not be cancelled:  *)
(* MPI_Cancel gives its slot back, and its completion gives back slot 0,   *)
(* whoever has it (the assumption on Cancels).                             *)

LEMMA TableAlways ==
  ASSUME Cancels \subseteq {"started"}
  PROVE  Spec => [](TypeOK /\ TableInv)
<1>1. Init => TypeOK /\ TableInv
  BY InitTable
<1>2. TypeOK /\ TableInv /\ [Next]_vars => TypeOK' /\ TableInv'
  BY StepTable
<1> QED
  BY <1>1, <1>2, PTL DEF Spec

(* The links of the table lead to slots or to the end of the list, and the *)
(* map to slots.                                                           *)
THEOREM TableTypeCorrect ==
  ASSUME Cancels \subseteq {"started"}
  PROVE  Spec => []TypeOK
BY TableAlways, PTL

(* ASSOCIATE_REQUEST and FREE_REQUEST: each slot is free, in use by one    *)
(* request, or lost to a failed call, for tables, segments and arrays of   *)
(* requests of any size.                                                   *)
THEOREM SlotsNeverShared ==
  ASSUME Cancels \subseteq {"started"}
  PROVE  Spec => []SlotsExclusive
<1>1. TypeOK /\ TableInv => SlotsExclusive
  <2> SUFFICES ASSUME TypeOK, TableInv PROVE SlotsExclusive
    OBVIOUS
  <2> USE DEF TableInv
  <2>1. /\ FreeSlot[size] = EndOfList
        /\ {FreeSlot[n] : n \in 0..size} \ {EndOfList} = Unused
    BY UsedSlots, SlotTypes, FreeSlotList DEF FreeInv
  <2>2. /\ Used \intersect (lost \union Unused) = {}
        /\ lost \intersect Unused = {}
        /\ Used \union lost \union Unused = Slots
    BY UsedSlots DEF Unused, Used, OwnInv
  <2> QED
    BY <2>1, <2>2 DEF SlotsExclusive, Used, OwnInv
<1> QED
  BY <1>1, TableAlways, PTL

(* COPY_REQUEST: the parameters of a completed request are its own. *)
THEOREM ReportsTheRequestAlways ==
  ASSUME Cancels \subseteq {"started"}
  PROVE  Spec => []ReportsTheRequest
<1>1. TypeOK /\ TableInv => ReportsTheRequest
  <2> SUFFICES ASSUME TypeOK, TableInv, todo # <<>>, Head(todo) # NULL
               PROVE  reqs[Slot(Head(todo))].inreq = Head(todo)
    BY DEF ReportsTheRequest
  <2>1. Head(todo) \in InUse
    <3>1. todo \in Seq(Handle \union {NULL}) /\ 1 \in DOMAIN todo /\ Head(todo) = todo[1]
      BY DEF TypeOK
    <3> QED
      BY <3>1 DEF InUse
  <2> QED
    BY <2>1, ParamsAt DEF TableInv, OwnInv
<1> QED
  BY <1>1, TableAlways, PTL

(* The table implements RequestMap: a call on one request leaves the       *)
(* parameters of the others alone, whatever slots the requests have.       *)
THEOREM TableImplementsMap ==
  ASSUME Cancels \subseteq {"started"}
  PROVE  Spec => ImplementsMap
<1>1. Init => Abstract!RMInit
  <2> SUFFICES ASSUME Init PROVE ParamsOf = [h \in {} |-> CHOOSE p \in Params : TRUE]
    BY DEF Abstract!RMInit, ParamsOf
  <2>1. InUse = {}
    BY DEF Init, InUse
  <2> QED
    BY <2>1 DEF ParamsOf
<1>2. TypeOK /\ TableInv /\ [Next]_vars
        => [Abstract!RMNext]_([h \in InUse |-> reqs[Slot(h)]])
  BY StepTable DEF Maps, ParamsOf
<1> QED
  BY <1>1, <1>2, TableAlways, PTL DEF Spec, ImplementsMap, Abstract!RMSpec
================================================================================
