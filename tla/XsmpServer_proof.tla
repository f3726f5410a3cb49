--------------------------- MODULE XsmpServer_proof ---------------------------
(***************************************************************************)
(* Proofs about XsmpServer: what programs find in the authority file, for  *)
(* any number of sessions, process ids and connections, and any sockets.   *)
(*                                                                         *)
(* The file has one entry at most for each protocol and network id, and so *)
(* it does not matter in which order they stand, and nothing is left of    *)
(* the old contents when the new ones are written over them.               *)
(***************************************************************************)
EXTENDS XsmpServer, FiniteSetTheorems, WellFoundedInduction, TLAPS

-----------------------------------------------------------------------------
(* Induction.                                                              *)

\* What holds of 0, and of i if it holds of i-1, holds of all up to n: there is
\* no least number of which it does not hold.
LEMMA UpTo ==
    ASSUME NEW n \in Nat, NEW T, 0 \in T, \A i \in 1..n : i-1 \in T => i \in T
    PROVE  0..n \subseteq T
<1> DEFINE R == {ss \in Nat \X Nat : ss[1] < ss[2]}
           bad == {i \in 0..n : i \notin T}
<1> SUFFICES ASSUME bad # {} PROVE FALSE
  OBVIOUS
<1>1. IsWellFoundedOn(R, Nat)
  <2>1. OpToRel(<, Nat) = R
    BY Zenon DEF OpToRel
  <2> QED
    BY <2>1, NatLessThanWellFounded, Zenon
<1>2. bad \in SUBSET Nat
  OBVIOUS
<1>3. PICK x \in bad : \A y \in bad : ~(<<y, x>> \in R)
  <2> HIDE DEF R, bad
  <2> QED
    BY <1>1, <1>2, WFMin
<1>4. x \in 1..n /\ x-1 \in 0..n
  OBVIOUS
<1>5. <<x-1, x>> \in Nat \X Nat /\ x-1 < x
  BY <1>4
<1>6. <<x-1, x>> \in R
  BY <1>5
<1>7. x-1 \notin bad
  BY <1>3, <1>6
<1> QED
  BY <1>4, <1>7

-----------------------------------------------------------------------------
(* The local sockets.                                                      *)

Swap(l, i, j) == ReplaceAt(ReplaceAt(l, i, l[j]), j, l[i])
MoveStep(i, r) == IF IsLocal(r.list[i])
                  THEN [list |-> Swap(r.list, i, r.local + 1), local |-> r.local + 1]
                  ELSE r

\* The loop of setup_listener does its steps one after the other.
LEMMA LoopOfLocalFirst ==
    ASSUME NEW sockets, NEW n \in Nat, n = Len(sockets)
    PROVE  \E g : /\ LocalFirst(sockets) = g[n]
                  /\ g[0] = [list |-> sockets, local |-> 0]
                  /\ \A i \in 1..n : g[i] = MoveStep(i, g[i-1])
<1> DEFINE Loop(m, g) == g = [i \in 0..m |-> IF i = 0 THEN [list |-> sockets, local |-> 0]
                                            ELSE MoveStep(i, g[i-1])]
           T == {m \in Nat : \E g : Loop(m, g)}
           after == CHOOSE g : Loop(n, g)
<1>1. LocalFirst(sockets) = after[n]
  BY Zenon DEF LocalFirst, MoveStep, Swap
<1>2. n \in T
  <2>1. 0 \in T
    <3> DEFINE g == [i \in 0..0 |-> [list |-> sockets, local |-> 0]]
    <3>1. Loop(0, g)
      OBVIOUS
    <3> QED
      BY <3>1
  <2>2. ASSUME NEW m \in 1..n, m-1 \in T PROVE m \in T
    <3>1. PICK g : Loop(m-1, g)
      BY <2>2
    <3> DEFINE h == [i \in 0..m |-> IF i = m THEN MoveStep(m, g[m-1]) ELSE g[i]]
    <3>2. \A i \in 0..m : i # m => i \in 0..(m-1) /\ (i # 0 => i-1 \in 0..(m-1) /\ i-1 # m)
      OBVIOUS
    <3>3. m-1 \in 0..m /\ m-1 # m /\ m # 0
      OBVIOUS
    <3>4. \A i \in 0..m : h[i] = IF i = 0 THEN [list |-> sockets, local |-> 0]
                                  ELSE MoveStep(i, h[i-1])
      BY <3>1, <3>2, <3>3
    <3>5. Loop(m, h)
      BY <3>4
    <3>6. \E e : Loop(m, e)
      <4> HIDE DEF Loop, h
      <4> QED
        BY <3>5
    <3> QED
      BY <3>6
  <2> HIDE DEF T
  <2>3. \A i \in 1..n : i-1 \in T => i \in T
    BY <2>2
  <2>4. 0..n \subseteq T
    BY <2>1, <2>3, UpTo
  <2> QED
    BY <2>4
<1>3. Loop(n, after)
  <2> HIDE DEF Loop
  <2> QED
    BY <1>2
<1> HIDE DEF after
<1>4. \A i \in 1..n : i \in 0..n /\ i # 0
  OBVIOUS
<1>5. after[0] = [list |-> sockets, local |-> 0]
      /\ \A i \in 1..n : after[i] = MoveStep(i, after[i-1])
  BY <1>3, <1>4
<1> QED
  BY <1>1, <1>5

\* The loop of update_iceauthority that reads, likewise.
RestStep(old, ids, i, r) ==
    IF \E j \in 1..Len(ids) : old[i].id = ids[j] THEN r ELSE <<old[i]>> \o r

LEMMA LoopOfOthers ==
    ASSUME NEW old, NEW ids, NEW n \in Nat, n = Len(old)
    PROVE  \E g : /\ Others(old, ids) = g[n] /\ g[0] = << >>
                  /\ \A i \in 1..n : g[i] = RestStep(old, ids, i, g[i-1])
<1> DEFINE Loop(m, g) == g = [i \in 0..m |-> IF i = 0 THEN << >> ELSE RestStep(old, ids, i, g[i-1])]
           T == {m \in Nat : \E g : Loop(m, g)}
           read == CHOOSE g : Loop(n, g)
<1>1. Others(old, ids) = read[n]
  BY Zenon DEF Others, RestStep
<1>2. n \in T
  <2>1. 0 \in T
    <3> DEFINE g == [i \in 0..0 |-> << >>]
    <3>1. Loop(0, g)
      OBVIOUS
    <3> QED
      BY <3>1
  <2>2. ASSUME NEW m \in 1..n, m-1 \in T PROVE m \in T
    <3>1. PICK g : Loop(m-1, g)
      BY <2>2
    <3> DEFINE h == [i \in 0..m |-> IF i = m THEN RestStep(old, ids, m, g[m-1]) ELSE g[i]]
    <3>2. \A i \in 0..m : i # m => i \in 0..(m-1) /\ (i # 0 => i-1 \in 0..(m-1) /\ i-1 # m)
      OBVIOUS
    <3>3. m-1 \in 0..m /\ m-1 # m /\ m # 0
      OBVIOUS
    <3>4. \A i \in 0..m : h[i] = IF i = 0 THEN << >> ELSE RestStep(old, ids, i, h[i-1])
      BY <3>1, <3>2, <3>3
    <3>5. Loop(m, h)
      BY <3>4
    <3>6. \E e : Loop(m, e)
      <4> HIDE DEF Loop, h
      <4> QED
        BY <3>5
    <3> QED
      BY <3>6
  <2> HIDE DEF T
  <2>3. \A i \in 1..n : i-1 \in T => i \in T
    BY <2>2
  <2>4. 0..n \subseteq T
    BY <2>1, <2>3, UpTo
  <2> QED
    BY <2>4
<1>3. Loop(n, read)
  <2> HIDE DEF Loop
  <2> QED
    BY <1>2
<1> HIDE DEF read
<1>4. \A i \in 1..n : i \in 0..n /\ i # 0
  OBVIOUS
<1>5. read[0] = << >> /\ \A i \in 1..n : read[i] = RestStep(old, ids, i, read[i-1])
  BY <1>3, <1>4
<1> QED
  BY <1>1, <1>5

-----------------------------------------------------------------------------
(* What the loops compute.                                                 *)

Locals == {"local", "unix"}
Id == Pids \X Locals

\* No address is twice among the local ones of the list.
Distinct(list) == \A i, j \in DOMAIN list : IsLocal(list[i]) /\ list[i] = list[j] => i = j
Moved(n, i, r) ==
    /\ r = [list |-> r.list, local |-> r.local]
    /\ r.list \in [1..n -> Transports] /\ Distinct(r.list)
    /\ r.local \in 0..i /\ \A j \in 1..r.local : IsLocal(r.list[j])

LEMMA MoveKeeps ==
    ASSUME NEW n \in Nat, NEW i \in 1..n, NEW r, Moved(n, i-1, r)
    PROVE  Moved(n, i, MoveStep(i, r))
<1> DEFINE l == r.list
           k == r.local + 1
           new == Swap(l, i, k)
<1>1. l \in [1..n -> Transports] /\ k \in 1..i /\ k \in 1..n /\ r.local \in Nat
  BY DEF Moved
<1>2. CASE ~IsLocal(l[i])
  <2>1. MoveStep(i, r) = r
    BY <1>2 DEF MoveStep
  <2> QED
    BY <2>1 DEF Moved
<1>3. CASE IsLocal(l[i])
  <2>1. MoveStep(i, r) = [list |-> new, local |-> k]
    BY <1>3 DEF MoveStep
  <2>2. /\ new \in [1..n -> Transports] /\ new[k] = l[i] /\ new[i] = l[k]
        /\ \A j \in 1..n : j # i /\ j # k => new[j] = l[j]
    BY <1>1 DEF Swap, ReplaceAt
  <2> HIDE DEF new, k
  <2>3. Distinct(new)
    BY <1>1, <2>2 DEF Moved, Distinct
  <2>4. \A j \in 1..k : IsLocal(new[j])
    <3> TAKE j \in 1..k
    <3>1. CASE j = k
      BY <1>3, <2>2, <3>1
    <3>2. CASE j # k
      <4>1. j \in 1..r.local /\ j # i /\ j \in 1..n
        BY <1>1, <3>2 DEF k
      <4> QED
        BY <2>2, <3>2, <4>1 DEF Moved
    <3> QED
      BY <3>1, <3>2
  <2>5. k \in 0..i
    BY <1>1
  <2> QED
    BY <2>1, <2>2, <2>3, <2>4, <2>5 DEF Moved
<1> QED
  BY <1>2, <1>3

LEMMA LocalFirstFacts ==
    ASSUME NEW l \in SocketLists
    PROVE  Moved(Len(l), Len(l), LocalFirst(l))
<1> DEFINE n == Len(l)
<1>1. n \in Nat /\ l \in [1..n -> Transports] /\ Distinct(l)
  BY XsmpServerAssumption DEF Distinct
<1>2. PICK g : /\ LocalFirst(l) = g[n] /\ g[0] = [list |-> l, local |-> 0]
              /\ \A i \in 1..n : g[i] = MoveStep(i, g[i-1])
  BY <1>1, LoopOfLocalFirst
<1> DEFINE T == {i \in 0..n : Moved(n, i, g[i])}
<1> HIDE DEF n
<1>3. 0 \in T
  BY <1>1, <1>2 DEF Moved
<1>4. \A i \in 1..n : i-1 \in T => i \in T
  BY <1>1, <1>2, MoveKeeps
<1>5. n \in T
  <2> HIDE DEF T
  <2>1. 0..n \subseteq T
    BY <1>1, <1>3, <1>4, UpTo
  <2> QED
    BY <1>1, <2>1
<1> QED
  BY <1>2, <1>5 DEF n

\* The network ids of a server are its own, and no two are the same.
IdsOf(pid, ids) ==
    /\ ids \in Seq(Id) /\ \A i \in 1..Len(ids) : ids[i][1] = pid
    /\ \A i, j \in 1..Len(ids) : ids[i] = ids[j] => i = j

LEMMA NetworkIdsFacts ==
    ASSUME NEW pid \in Pids, NEW l \in SocketLists
    PROVE  IdsOf(pid, NetworkIds(pid, l))
<1> DEFINE r == LocalFirst(l)
           ids == NetworkIds(pid, l)
<1>1. ids = [i \in 1..r.local |-> <<pid, r.list[i]>>]
  BY Zenon DEF NetworkIds
<1>2. Moved(Len(l), Len(l), r) /\ Len(l) \in Nat
  BY XsmpServerAssumption, LocalFirstFacts
<1> HIDE DEF r, ids
<1>3. /\ r.local \in Nat /\ \A i \in 1..r.local : r.list[i] \in Locals /\ IsLocal(r.list[i])
      /\ \A i, j \in 1..r.local : r.list[i] = r.list[j] => i = j
  BY <1>2 DEF Moved, Distinct, IsLocal, Locals
<1>4. Len(ids) = r.local /\ \A i \in 1..r.local : ids[i] = <<pid, r.list[i]>> /\ ids[i] \in Id
  BY <1>1, <1>3 DEF Id
<1>5. ids \in Seq(Id)
  <2>1. ids \in [1..r.local -> Id]
    BY <1>1, <1>4
  <2> QED
    BY <1>3, <2>1
<1>6. IdsOf(pid, ids)
  BY <1>3, <1>4, <1>5 DEF IdsOf
<1> QED
  BY <1>6 DEF ids

-----------------------------------------------------------------------------
(* What is written.                                                        *)

\* One entry at most of a protocol and a network id.
SameKey(e, f) == e.protocol = f.protocol /\ e.id = f.id
Single(f) == \A i, j \in 1..Len(f) : SameKey(f[i], f[j]) => i = j
Has(f, p, id, c) == \E i \in 1..Len(f) : f[i] = [protocol |-> p, id |-> id, cookie |-> c]

Ours(e, ids) == \E j \in 1..Len(ids) : e.id = ids[j]

\* r is what the first i entries of the old file become.
Rest(old, ids, i, r) ==
    /\ r \in Seq(Entry) /\ Single(r)
    /\ \A k \in 1..Len(r) : \E j \in 1..i : r[k] = old[j] /\ ~Ours(old[j], ids)
    /\ \A j \in 1..i : Ours(old[j], ids) \/ \E k \in 1..Len(r) : r[k] = old[j]

LEMMA Prepended ==
    ASSUME NEW S, NEW x \in S, NEW r \in Seq(S), NEW new, new = <<x>> \o r
    PROVE  /\ new \in Seq(S) /\ Len(new) = Len(r) + 1 /\ new[1] = x
           /\ \A k \in 1..Len(r) : new[k+1] = r[k]
           /\ \A k \in 1..Len(new) : k # 1 => k-1 \in 1..Len(r) /\ new[k] = r[k-1]
OBVIOUS

LEMMA RestKeeps ==
    ASSUME NEW old \in Seq(Entry), Single(old), NEW ids, NEW i \in 1..Len(old), NEW r,
           Rest(old, ids, i-1, r)
    PROVE  Rest(old, ids, i, RestStep(old, ids, i, r))
<1>0. r \in Seq(Entry) /\ old[i] \in Entry /\ Len(r) \in Nat
  BY DEF Rest
<1>1. CASE Ours(old[i], ids)
  <2>1. RestStep(old, ids, i, r) = r
    BY <1>1 DEF RestStep, Ours
  <2>2. \A j \in 1..i : j = i \/ j \in 1..(i-1)
    OBVIOUS
  <2> QED
    BY <1>1, <2>1, <2>2 DEF Rest
<1>2. CASE ~Ours(old[i], ids)
  <2> DEFINE e == <<old[i]>>
             new == e \o r
  <2>1. RestStep(old, ids, i, r) = new
    BY <1>2 DEF RestStep, Ours
  <2>2. /\ new \in Seq(Entry) /\ Len(new) = Len(r) + 1 /\ new[1] = old[i]
        /\ \A k \in 1..Len(r) : new[k+1] = r[k]
        /\ \A k \in 1..Len(new) : k # 1 => k-1 \in 1..Len(r) /\ new[k] = r[k-1]
    BY <1>0, Prepended
  <2> HIDE DEF new
  <2>3. \A k \in 1..Len(r) : ~SameKey(r[k], old[i])
    <3> SUFFICES ASSUME NEW k \in 1..Len(r), SameKey(r[k], old[i]) PROVE FALSE
      OBVIOUS
    <3>1. PICK j \in 1..(i-1) : r[k] = old[j]
      BY DEF Rest
    <3>2. j \in 1..Len(old) /\ j # i /\ SameKey(old[j], old[i])
      BY <3>1
    <3> QED
      BY <3>2 DEF Single
  <2>4. Single(new)
    <3> SUFFICES ASSUME NEW k \in 1..Len(new), NEW m \in 1..Len(new), SameKey(new[k], new[m])
                 PROVE  k = m
      BY DEF Single
    <3>1. CASE k = 1 \/ m = 1
      BY <2>2, <2>3, <3>1 DEF SameKey
    <3>2. CASE k # 1 /\ m # 1
      <4>1. k-1 \in 1..Len(r) /\ m-1 \in 1..Len(r) /\ SameKey(r[k-1], r[m-1])
        BY <2>2, <3>2
      <4>2. k-1 = m-1
        BY <4>1 DEF Rest, Single
      <4> QED
        BY <4>2
    <3> QED
      BY <3>1, <3>2
  <2>5. ASSUME NEW k \in 1..Len(new)
        PROVE  \E j \in 1..i : new[k] = old[j] /\ ~Ours(old[j], ids)
    <3>1. CASE k = 1
      <4>1. i \in 1..i /\ new[k] = old[i]
        BY <2>2, <3>1
      <4> QED
        BY <1>2, <4>1
    <3>2. CASE k # 1
      <4>1. k-1 \in 1..Len(r) /\ new[k] = r[k-1]
        BY <2>2, <3>2
      <4>2. PICK j \in 1..(i-1) : r[k-1] = old[j] /\ ~Ours(old[j], ids)
        BY <4>1 DEF Rest
      <4> QED
        BY <4>1, <4>2
    <3> QED
      BY <3>1, <3>2
  <2>6. ASSUME NEW j \in 1..i, ~Ours(old[j], ids) PROVE \E k \in 1..Len(new) : new[k] = old[j]
    <3>1. CASE j = i
      BY <1>0, <2>2, <3>1
    <3>2. CASE j # i
      <4>1. PICK k \in 1..Len(r) : r[k] = old[j]
        BY <2>6, <3>2 DEF Rest
      <4>2. k+1 \in 1..Len(new)
        BY <1>0, <2>2
      <4> QED
        BY <2>2, <4>1, <4>2
    <3> QED
      BY <3>1, <3>2
  <2> QED
    BY <2>1, <2>2, <2>4, <2>5, <2>6 DEF Rest
<1> QED
  BY <1>1, <1>2

LEMMA OthersFacts ==
    ASSUME NEW old \in Seq(Entry), Single(old), NEW ids
    PROVE  Rest(old, ids, Len(old), Others(old, ids))
<1> DEFINE n == Len(old)
<1>1. n \in Nat
  OBVIOUS
<1>2. PICK g : /\ Others(old, ids) = g[n] /\ g[0] = << >>
              /\ \A i \in 1..n : g[i] = RestStep(old, ids, i, g[i-1])
  BY <1>1, LoopOfOthers
<1> DEFINE T == {i \in 0..n : Rest(old, ids, i, g[i])}
<1>3. 0 \in T
  <2>1. Rest(old, ids, 0, << >>)
    BY DEF Rest, Single
  <2> QED
    BY <1>1, <1>2, <2>1
<1>4. \A i \in 1..n : i-1 \in T => i \in T
  BY <1>1, <1>2, RestKeeps
<1> HIDE DEF n
<1>5. n \in T
  <2> HIDE DEF T
  <2>1. 0..n \subseteq T
    BY <1>1, <1>3, <1>4, UpTo
  <2> QED
    BY <1>1, <2>1
<1> QED
  BY <1>2, <1>5 DEF n

\* A list of three parts.
Parts(t, u, v, w) ==
    /\ Len(t) = Len(u) + Len(v) + Len(w)
    /\ \A i \in 1..Len(u) : t[i] = u[i]
    /\ \A i \in 1..Len(v) : t[Len(u) + i] = v[i]
    /\ \A i \in 1..Len(w) : t[Len(u) + Len(v) + i] = w[i]

Joined(t, u, v) ==
    /\ Len(t) = Len(u) + Len(v)
    /\ \A i \in 1..Len(u) : t[i] = u[i]
    /\ \A i \in 1..Len(v) : t[Len(u) + i] = v[i]

LEMMA TwoParts ==
    ASSUME NEW S, NEW u \in Seq(S), NEW v \in Seq(S)
    PROVE  u \o v \in Seq(S) /\ Joined(u \o v, u, v)
BY DEF Joined

LEMMA ThreeParts ==
    ASSUME NEW S, NEW u \in Seq(S), NEW v \in Seq(S), NEW w \in Seq(S)
    PROVE  u \o v \o w \in Seq(S) /\ Parts(u \o v \o w, u, v, w)
<1> DEFINE x == u \o v
           t == x \o w
<1>1. x \in Seq(S) /\ Joined(x, u, v)
  BY TwoParts
<1> HIDE DEF x
<1>2. t \in Seq(S) /\ Joined(t, x, w)
  BY <1>1, TwoParts
<1> HIDE DEF t
<1>3. Len(u) \in Nat /\ Len(v) \in Nat /\ Len(w) \in Nat
  OBVIOUS
<1>4. \A i \in 1..Len(v) : t[Len(u) + i] = v[i]
  <2> TAKE i \in 1..Len(v)
  <2>1. Len(u) + i \in 1..Len(x)
    BY <1>1, <1>3 DEF Joined
  <2> QED
    BY <1>1, <1>2, <2>1 DEF Joined
<1>5. Parts(t, u, v, w)
  BY <1>1, <1>2, <1>3, <1>4 DEF Joined, Parts
<1> QED
  BY <1>2, <1>5 DEF t, x

\* One entry for each address and protocol, in one order or the other.
NewEntries(t, ids, protocol, cookie) ==
    /\ t \in Seq(Entry) /\ Len(t) = Len(ids) /\ Single(t)
    /\ \A i \in 1..Len(t) : t[i].protocol = protocol /\ Ours(t[i], ids)
    /\ \A i \in 1..Len(ids) : Has(t, protocol, ids[i], cookie)

LEMMA NewEntriesFacts ==
    ASSUME NEW pid, NEW ids, IdsOf(pid, ids), NEW protocol \in Protocols, NEW cookie \in Cookies,
           NEW t,
           t = [i \in 1..Len(ids) |-> [protocol |-> protocol, id |-> ids[i], cookie |-> cookie]]
    PROVE  NewEntries(t, ids, protocol, cookie) /\ NewEntries(Reverse(t), ids, protocol, cookie)
<1> DEFINE n == Len(ids)
           entry(i) == [protocol |-> protocol, id |-> ids[i], cookie |-> cookie]
           u == Reverse(t)
<1>1. n \in Nat /\ \A i \in 1..n : ids[i] \in Id
  BY DEF IdsOf
<1>2. \A i \in 1..n : /\ entry(i) \in Entry /\ entry(i).protocol = protocol
                      /\ entry(i).id = ids[i]
  BY <1>1 DEF Entry, Id, Locals
<1>3. t \in Seq(Entry) /\ Len(t) = n /\ \A i \in 1..n : t[i] = entry(i)
  <2>1. t \in [1..n -> Entry]
    BY <1>2
  <2> QED
    BY <1>1, <2>1
<1>4. \A i \in 1..n : (n - i) + 1 \in 1..n /\ (n - ((n - i) + 1)) + 1 = i
  BY <1>1
<1>5. u = [i \in 1..n |-> t[(n - i) + 1]]
  BY <1>3 DEF Reverse
<1> HIDE DEF u, entry
<1>6. u \in Seq(Entry) /\ Len(u) = n /\ \A i \in 1..n : u[i] = entry((n - i) + 1)
  <2>1. u \in [1..n -> Entry]
    BY <1>2, <1>3, <1>4, <1>5
  <2> QED
    BY <1>1, <1>3, <1>4, <1>5, <2>1
<1> HIDE DEF n
<1>7. \A i, j \in 1..n : SameKey(entry(i), entry(j)) => i = j
  BY <1>2 DEF n, IdsOf, SameKey
<1>8. NewEntries(t, ids, protocol, cookie)
  <2>1. \A i \in 1..n : Has(t, protocol, ids[i], cookie)
    BY <1>3 DEF Has, entry
  <2> QED
    BY <1>2, <1>3, <1>7, <2>1 DEF NewEntries, Single, Ours, n
<1>9. NewEntries(u, ids, protocol, cookie)
  <2>1. ASSUME NEW i \in 1..n PROVE Has(u, protocol, ids[i], cookie)
    <3>1. (n - i) + 1 \in 1..Len(u) /\ u[(n - i) + 1] = entry(i)
      BY <1>4, <1>6
    <3> QED
      BY <3>1 DEF Has, entry
  <2>2. Single(u)
    <3> SUFFICES ASSUME NEW i \in 1..n, NEW j \in 1..n, SameKey(u[i], u[j]) PROVE i = j
      BY <1>6 DEF Single
    <3>1. (n - i) + 1 = (n - j) + 1
      BY <1>4, <1>6, <1>7
    <3> QED
      BY <1>1, <3>1 DEF n
  <2>3. \A i \in 1..Len(u) : u[i].protocol = protocol /\ Ours(u[i], ids)
    <3> TAKE i \in 1..Len(u)
    <3>1. (n - i) + 1 \in 1..n /\ u[i] = entry((n - i) + 1)
      BY <1>4, <1>6
    <3> QED
      BY <1>2, <3>1 DEF Ours, n
  <2> QED
    BY <1>6, <2>1, <2>2, <2>3 DEF NewEntries, n
<1> QED
  BY <1>8, <1>9 DEF u

\* What is written has one entry of each address and protocol, those of the
\* server with its cookie, and it keeps the others.
Updated(new, old, ids, cookie) ==
    /\ new \in Seq(Entry) /\ Single(new)
    /\ \A i \in 1..Len(ids), p \in Protocols : Has(new, p, ids[i], cookie)
    /\ \A k \in 1..Len(old) : Ours(old[k], ids) \/ \E m \in 1..Len(new) : new[m] = old[k]

LEMMA UpdateFacts ==
    ASSUME NEW old \in Seq(Entry), Single(old), NEW pid, NEW ids, IdsOf(pid, ids),
           NEW cookie \in Cookies
    PROVE  Updated(update_entries(old, ids, cookie), old, ids, cookie)
<1> DEFINE entries(protocol) == [i \in 1..Len(ids) |->
                                   [protocol |-> protocol, id |-> ids[i], cookie |-> cookie]]
           x == Reverse(entries("XSMP"))
           o == Others(old, ids)
           c == entries("ICE")
           new == update_entries(old, ids, cookie)
<1>1. new = x \o o \o c
  BY Zenon DEF update_entries
<1>2. NewEntries(x, ids, "XSMP", cookie) /\ NewEntries(c, ids, "ICE", cookie)
  <2>1. "XSMP" \in Protocols /\ "ICE" \in Protocols
    BY DEF Protocols
  <2> QED
    BY <2>1, NewEntriesFacts
<1>3. Rest(old, ids, Len(old), o)
  BY OthersFacts
<1> HIDE DEF new, x, o, c
<1>4. x \in Seq(Entry) /\ o \in Seq(Entry) /\ c \in Seq(Entry)
  BY <1>2, <1>3 DEF NewEntries, Rest
<1>5. new \in Seq(Entry) /\ Parts(new, x, o, c)
  BY <1>1, <1>4, ThreeParts
<1>6. Len(x) \in Nat /\ Len(o) \in Nat /\ Len(c) \in Nat
  BY <1>4
<1>7. ASSUME NEW k \in 1..Len(new)
      PROVE  \/ k \in 1..Len(x) /\ new[k] = x[k]
             \/ k - Len(x) \in 1..Len(o) /\ new[k] = o[k - Len(x)]
             \/ k - Len(x) - Len(o) \in 1..Len(c) /\ new[k] = c[k - Len(x) - Len(o)]
  <2>1. Len(new) = Len(x) + Len(o) + Len(c)
    BY <1>5 DEF Parts
  <2>2. CASE k <= Len(x)
    BY <1>5, <1>6, <2>2 DEF Parts
  <2>3. CASE k > Len(x) /\ k <= Len(x) + Len(o)
    <3> DEFINE m == k - Len(x)
    <3>1. m \in 1..Len(o) /\ Len(x) + m = k
      BY <1>6, <2>3
    <3> QED
      BY <1>5, <3>1 DEF Parts
  <2>4. CASE k > Len(x) + Len(o)
    <3> DEFINE m == k - Len(x) - Len(o)
    <3>1. m \in 1..Len(c) /\ Len(x) + Len(o) + m = k
      BY <1>6, <2>1, <2>4
    <3> QED
      BY <1>5, <3>1 DEF Parts
  <2> QED
    BY <1>6, <2>2, <2>3, <2>4
<1>8. /\ \A i \in 1..Len(x) : \E m \in 1..Len(new) : new[m] = x[i]
      /\ \A i \in 1..Len(o) : \E m \in 1..Len(new) : new[m] = o[i]
      /\ \A i \in 1..Len(c) : \E m \in 1..Len(new) : new[m] = c[i]
  <2>1. /\ \A i \in 1..Len(x) : i \in 1..Len(new)
        /\ \A i \in 1..Len(o) : Len(x) + i \in 1..Len(new)
        /\ \A i \in 1..Len(c) : Len(x) + Len(o) + i \in 1..Len(new)
    BY <1>5, <1>6 DEF Parts
  <2> QED
    BY <1>5, <2>1 DEF Parts
<1>9. /\ \A i \in 1..Len(x) : x[i].protocol = "XSMP" /\ Ours(x[i], ids)
      /\ \A i \in 1..Len(c) : c[i].protocol = "ICE" /\ Ours(c[i], ids)
      /\ \A i \in 1..Len(o) : ~Ours(o[i], ids)
      /\ Single(x) /\ Single(o) /\ Single(c)
  BY <1>2, <1>3 DEF NewEntries, Rest
<1>10. Single(new)
  <2> SUFFICES ASSUME NEW k \in 1..Len(new), NEW m \in 1..Len(new), SameKey(new[k], new[m])
               PROVE  k = m
    BY DEF Single
  <2> DEFINE InX(i) == /\ i \in 1..Len(x) /\ new[i] = x[i]
                       /\ new[i].protocol = "XSMP" /\ Ours(new[i], ids)
             InO(i) == i - Len(x) \in 1..Len(o) /\ new[i] = o[i - Len(x)] /\ ~Ours(new[i], ids)
             InC(i) == /\ i - Len(x) - Len(o) \in 1..Len(c) /\ new[i] = c[i - Len(x) - Len(o)]
                       /\ new[i].protocol = "ICE" /\ Ours(new[i], ids)
  <2>1. \A i \in 1..Len(new) : InX(i) \/ InO(i) \/ InC(i)
    BY <1>7, <1>9
  <2>2. new[k].protocol = new[m].protocol /\ (Ours(new[k], ids) <=> Ours(new[m], ids))
    BY DEF SameKey, Ours
  <2>3. \/ InX(k) /\ InX(m)
        \/ InO(k) /\ InO(m)
        \/ InC(k) /\ InC(m)
    BY <2>1, <2>2
  <2>4. CASE InX(k) /\ InX(m)
    BY <1>9, <2>4 DEF Single
  <2>5. CASE InO(k) /\ InO(m)
    <3>1. k - Len(x) = m - Len(x)
      BY <1>9, <2>5 DEF Single
    <3> QED
      BY <1>6, <3>1
  <2>6. CASE InC(k) /\ InC(m)
    <3>1. k - Len(x) - Len(o) = m - Len(x) - Len(o)
      BY <1>9, <2>6 DEF Single
    <3> QED
      BY <1>6, <3>1
  <2> QED
    BY <2>3, <2>4, <2>5, <2>6
<1>11. ASSUME NEW i \in 1..Len(ids), NEW p \in Protocols PROVE Has(new, p, ids[i], cookie)
  <2>1. CASE p = "XSMP"
    BY <1>2, <1>8, <2>1 DEF NewEntries, Has
  <2>2. CASE p = "ICE"
    BY <1>2, <1>8, <2>2 DEF NewEntries, Has
  <2> QED
    BY <2>1, <2>2 DEF Protocols
<1>12. ASSUME NEW k \in 1..Len(old), ~Ours(old[k], ids)
       PROVE  \E m \in 1..Len(new) : new[m] = old[k]
  <2>1. PICK i \in 1..Len(o) : o[i] = old[k]
    BY <1>3, <1>12 DEF Rest
  <2> QED
    BY <1>8, <2>1
<1>13. Updated(new, old, ids, cookie)
  BY <1>5, <1>10, <1>11, <1>12 DEF Updated
<1> QED
  BY <1>13 DEF new

\* A file has as many entries as there are protocols and ids of them.
Key(e) == <<e.protocol, e.id>>
Keys(f) == {Key(f[i]) : i \in 1..Len(f)}

LEMMA KeysAreCounted ==
    ASSUME NEW f \in Seq(Entry), Single(f)
    PROVE  IsFiniteSet(Keys(f)) /\ Cardinality(Keys(f)) = Len(f)
<1> DEFINE map == [i \in 1..Len(f) |-> Key(f[i])]
<1>1. Len(f) \in Nat
  OBVIOUS
<1>2. map \in Bijection(1..Len(f), Keys(f))
  <2>1. \A i, j \in 1..Len(f) : Key(f[i]) = Key(f[j]) => i = j
    BY DEF Key, Single, SameKey
  <2> QED
    BY <2>1 DEF Bijection, Injection, Surjection, IsInjective, Keys
<1>3. ExistsBijection(1..Len(f), Keys(f))
  BY <1>2 DEF ExistsBijection
<1>4. IsFiniteSet(Keys(f))
  BY <1>1, <1>3, FS_NatBijection
<1> QED
  BY <1>1, <1>3, <1>4, FS_CountingElements

LEMMA TwoElements ==
    ASSUME NEW x, NEW y, x # y
    PROVE  IsFiniteSet({x, y}) /\ Cardinality({x, y}) = 2
<1> DEFINE S == {x}
<1>1. IsFiniteSet(S) /\ Cardinality(S) = 1 /\ y \notin S /\ {x, y} = S \cup {y}
  BY FS_Singleton
<1> HIDE DEF S
<1>2. IsFiniteSet(S \cup {y}) /\ Cardinality(S \cup {y}) = Cardinality(S) + 1
  BY <1>1, FS_AddElement
<1> QED
  BY <1>1, <1>2

LEMMA FileIsShort ==
    ASSUME NEW f \in Seq(Entry), Single(f)
    PROVE  Len(f) <= 4 * Cardinality(Pids)
<1>1. IsFiniteSet(Locals) /\ Cardinality(Locals) = 2
  <2>1. Locals = {"local", "unix"} /\ "local" # "unix"
    BY DEF Locals
  <2> QED
    BY <2>1, TwoElements
<1>2. IsFiniteSet(Protocols) /\ Cardinality(Protocols) = 2
  <2>1. Protocols = {"ICE", "XSMP"} /\ "ICE" # "XSMP"
    BY DEF Protocols
  <2> QED
    BY <2>1, TwoElements
<1>3. IsFiniteSet(Pids) /\ Cardinality(Pids) \in Nat
  BY XsmpServerAssumption, FS_CardinalityType
<1>4. IsFiniteSet(Id) /\ Cardinality(Id) = Cardinality(Pids) * 2
  BY <1>1, <1>3, FS_Product DEF Id
<1>5. /\ IsFiniteSet(Protocols \X Id)
      /\ Cardinality(Protocols \X Id) = 2 * (Cardinality(Pids) * 2)
  BY <1>2, <1>4, FS_Product
<1>6. Keys(f) \subseteq Protocols \X Id
  <2>1. \A e \in Entry : e.protocol \in Protocols /\ e.id \in Id
    BY DEF Entry, Id, Locals
  <2>2. \A i \in 1..Len(f) : f[i] \in Entry
    OBVIOUS
  <2> QED
    BY <2>1, <2>2 DEF Keys, Key
<1>7. Cardinality(Keys(f)) <= Cardinality(Protocols \X Id)
  BY <1>5, <1>6, FS_Subset
<1> QED
  BY <1>3, <1>5, <1>7, KeysAreCounted

\* What is written is not shorter than what it is written over.
LEMMA NothingIsLeft ==
    ASSUME NEW old \in Seq(Entry), Single(old), NEW new, NEW ids, NEW cookie,
           Updated(new, old, ids, cookie)
    PROVE  Overwrite(old, new) = new
<1>1. new \in Seq(Entry) /\ Single(new)
  BY DEF Updated
<1>2. Keys(old) \subseteq Keys(new)
  <2> SUFFICES ASSUME NEW k \in 1..Len(old) PROVE \E m \in 1..Len(new) : Key(new[m]) = Key(old[k])
    BY DEF Keys
  <2>1. CASE Ours(old[k], ids)
    <3>1. PICK j \in 1..Len(ids) : old[k].id = ids[j]
      BY <2>1 DEF Ours
    <3>2. old[k].protocol \in Protocols
      <4>1. old[k] \in Entry
        OBVIOUS
      <4> QED
        BY <4>1 DEF Entry
    <3>3. Has(new, old[k].protocol, ids[j], cookie)
      BY <3>2 DEF Updated
    <3>4. PICK m \in 1..Len(new) :
             new[m] = [protocol |-> old[k].protocol, id |-> ids[j], cookie |-> cookie]
      BY <3>3 DEF Has
    <3> QED
      BY <3>1, <3>4 DEF Key
  <2>2. CASE ~Ours(old[k], ids)
    BY <2>2 DEF Updated
  <2> QED
    BY <2>1, <2>2
<1>3. Cardinality(Keys(old)) <= Cardinality(Keys(new))
  BY <1>1, <1>2, KeysAreCounted, FS_Subset
<1>4. Len(old) <= Len(new) /\ Len(old) \in Nat /\ Len(new) \in Nat
  BY <1>1, <1>3, KeysAreCounted
<1>5. SubSeq(old, Len(new) + 1, Len(old)) = << >>
  BY <1>4
<1>6. new \o << >> = new
  BY <1>1
<1> QED
  BY <1>5, <1>6 DEF Overwrite

\* What is found: with one entry of each, the first is the one.
LEMMA LookupFacts ==
    ASSUME NEW f \in Seq(Entry), Single(f), NEW p, NEW id
    PROVE  /\ Lookup(f, p, id) \in Cookies
           /\ \A c : Has(f, p, id, c) => Lookup(f, p, id) = c
<1> DEFINE fits == {i \in DOMAIN f : Matches(f[i], p, id)}
<1>1. Lookup(f, p, id) = IF fits = {} THEN 0 ELSE f[Min(fits)].cookie
  BY Zenon DEF Lookup
<1>2. DOMAIN f = 1..Len(f) /\ Len(f) \in Nat
  OBVIOUS
<1>3. ASSUME NEW k \in fits PROVE Min(fits) = k /\ k \in 1..Len(f)
  <2>1. \A i \in fits : i = k
    BY <1>2 DEF Matches, Single, SameKey
  <2>2. fits = {k} /\ k \in 1..Len(f)
    BY <1>2, <2>1
  <2> HIDE DEF fits
  <2>3. k <= k
    BY <1>2, <2>2
  <2> QED
    BY <2>2, <2>3 DEF Min
<1>4. ASSUME NEW c, Has(f, p, id, c) PROVE Lookup(f, p, id) = c
  <2>1. PICK i \in 1..Len(f) : f[i] = [protocol |-> p, id |-> id, cookie |-> c]
    BY <1>4 DEF Has
  <2>2. i \in fits
    BY <1>2, <2>1 DEF Matches
  <2> HIDE DEF fits
  <2> QED
    BY <1>1, <1>3, <2>1, <2>2
<1>5. Lookup(f, p, id) \in Cookies
  <2> HIDE DEF fits
  <2>1. CASE fits = {}
    BY <1>1, <2>1, XsmpServerAssumption DEF Cookies
  <2>2. CASE fits # {}
    <3>1. PICK k \in fits : TRUE
      BY <2>2
    <3>2. f[k] \in Entry
      BY <1>3, <3>1
    <3> QED
      BY <1>1, <1>3, <2>2, <3>1, <3>2 DEF Entry
  <2> QED
    BY <2>1, <2>2
<1> QED
  BY <1>4, <1>5

-----------------------------------------------------------------------------
(* The inductive invariant.                                                *)

Holds(stage) == stage \in {"reading", "writing", "written"}

\* What is true of a server r of the session s, with this file and this lock.
Sound(r, s, f, l) ==
    /\ r \in Server
    /\ r.stage # "off" => r.pid \in Pids /\ IdsOf(r.pid, r.ids)
    /\ Holds(r.stage) => l = s
    /\ r.stage = "writing" => r.entries = update_entries(f, r.ids, r.cookie)
    /\ r.stage \in {"written", "set up", "started"} =>
         \A i \in 1..Len(r.ids), p \in Protocols : Has(f, p, r.ids[i], r.cookie)

PidsDiffer ==
    \A s, t \in Servers :
        server[s].stage # "off" /\ server[t].stage # "off" /\ server[s].pid = server[t].pid => s = t

IInv ==
    /\ file \in Seq(Entry) /\ Single(file)
    /\ lock \in Servers \cup {Nobody} /\ starts \in 0..MaxStarts
    /\ server = [s \in Servers |-> server[s]]
    /\ \A s \in Servers : Sound(server[s], s, file, lock)
    /\ PidsDiffer
    /\ conn \in [Peers -> Connection]

LEMMA NoServerIsSound ==
    ASSUME NEW s, NEW f, NEW l
    PROVE  Sound(NoServer, s, f, l) /\ NoServer.stage = "off"
<1>1. NoServer \in Server
  BY XsmpServerAssumption DEF NoServer, Server, Stages, Cookies
<1> QED
  BY <1>1 DEF NoServer, Sound, Holds

LEMMA NoConnectionIsOne == NoConnection \in Connection
BY XsmpServerAssumption DEF NoConnection, Connection, Cookies

LEMMA InitHolds == Init => IInv
<1> SUFFICES ASSUME Init PROVE IInv
  OBVIOUS
<1>1. << >> \in Seq(Entry) /\ Single(<< >>)
  BY DEF Single
<1>2. \A s \in Servers : Sound(server[s], s, file, lock) /\ server[s].stage = "off"
  BY NoServerIsSound DEF Init
<1>3. conn \in [Peers -> Connection]
  BY NoConnectionIsOne DEF Init
<1> QED
  BY <1>1, <1>2, <1>3, XsmpServerAssumption DEF Init, IInv, PidsDiffer

\* One server takes a step, which does not change the file; the others keep the
\* lock if they hold it.
LEMMA ServerKeeps ==
    ASSUME IInv, NEW s \in Servers, NEW r, server' = [server EXCEPT ![s] = r], file' = file,
           Sound(r, s, file, lock'), lock' \in Servers \cup {Nobody},
           \A t \in Servers \ {s} : Holds(server[t].stage) => lock' = t,
           r.stage # "off" =>
             \A t \in Servers \ {s} : server[t].stage # "off" => server[t].pid # r.pid,
           starts' \in 0..MaxStarts, conn' \in [Peers -> Connection]
    PROVE  IInv'
<1>1. server'[s] = r /\ \A t \in Servers \ {s} : server'[t] = server[t]
  BY DEF IInv
<1>2. \A t \in Servers : Sound(server'[t], t, file, lock')
  BY <1>1 DEF IInv, Sound
<1>3. PidsDiffer'
  BY <1>1 DEF IInv, PidsDiffer
<1> QED
  BY <1>2, <1>3 DEF IInv

\* A connection takes a step.
LEMMA ConnectionKeeps ==
    ASSUME IInv, NEW c \in Peers, NEW d \in Connection, Connects(c, d)
    PROVE  IInv'
BY DEF IInv, Connects, PidsDiffer

LEMMA StutteringKeeps ==
    ASSUME IInv, UNCHANGED vars
    PROVE  IInv'
BY DEF IInv, vars, PidsDiffer

-----------------------------------------------------------------------------
(* The steps of a server.                                                  *)

\* At most one server holds the lock.
LEMMA HolderFacts ==
    ASSUME IInv, NEW s \in Servers
    PROVE  /\ server[s] \in Server /\ Sound(server[s], s, file, lock) /\ s # Nobody
           /\ \A t \in Servers \ {s} :
                Holds(server[t].stage) => lock = t /\ lock # s /\ lock # Nobody
           /\ server[s].stage # "off" =>
                \A t \in Servers \ {s} : server[t].stage # "off" => server[t].pid # server[s].pid
BY NobodyAssumption DEF IInv, Sound, PidsDiffer

LEMMA NewKeeps ==
    ASSUME IInv, NEW s \in Servers, csm_xsmp_server_new(s)
    PROVE  IInv'
<1>1. PICK pid \in Pids \ {server[t].pid : t \in Servers}, l \in SocketLists :
         server' = [server EXCEPT ![s] =
                      [NoServer EXCEPT !.stage = "locking", !.pid = pid,
                                       !.ids = NetworkIds(pid, l), !.cookie = starts + 1]]
  BY DEF csm_xsmp_server_new
<1> DEFINE r == [NoServer EXCEPT !.stage = "locking", !.pid = pid,
                                 !.ids = NetworkIds(pid, l), !.cookie = starts + 1]
<1>2. IdsOf(pid, NetworkIds(pid, l))
  BY NetworkIdsFacts
<1>3. starts + 1 \in Cookies /\ starts' \in 0..MaxStarts
  BY XsmpServerAssumption DEF IInv, csm_xsmp_server_new, Cookies
<1>4. r.stage = "locking" /\ r.pid = pid /\ r.ids = NetworkIds(pid, l)
  BY DEF NoServer
<1>5. NetworkIds(pid, l) \in Seq(Pids \X {"local", "unix"})
  BY <1>2 DEF IdsOf, Id, Locals
<1>6. r \in Server
  <2>1. NoServer \in Server /\ "locking" \in Stages
    BY NoServerIsSound DEF Sound, Stages
  <2>2. starts + 1 \in Cookies
    BY <1>3
  <2> HIDE DEF NoServer
  <2> QED
    BY <1>5, <2>1, <2>2 DEF Server
<1> HIDE DEF r
<1>7. Sound(r, s, file, lock')
  BY <1>2, <1>4, <1>6 DEF Sound, Holds
<1>8. server' = [server EXCEPT ![s] = r]
  BY <1>1 DEF r
<1>9. \A t \in Servers \ {s} : server[t].pid # r.pid
  BY <1>4
<1>10. /\ file' = file /\ lock' = lock /\ lock \in Servers \cup {Nobody}
       /\ conn' \in [Peers -> Connection]
  BY DEF IInv, csm_xsmp_server_new
<1> QED
  BY <1>3, <1>7, <1>8, <1>9, <1>10, HolderFacts, ServerKeeps

\* A step to another stage, in which the pid and the addresses stay.
LEMMA StageKeeps ==
    ASSUME IInv, NEW s \in Servers, server[s].stage # "off", NEW stage \in Stages \ {"off"},
           server' = [server EXCEPT ![s].stage = stage],
           Sound([server[s] EXCEPT !.stage = stage], s, file, lock'),
           file' = file, starts' = starts, conn' = conn, lock' \in Servers \cup {Nobody},
           \A t \in Servers \ {s} : Holds(server[t].stage) => lock' = t
    PROVE  IInv'
<1> DEFINE r == [server[s] EXCEPT !.stage = stage]
<1>1. server' = [server EXCEPT ![s] = r] /\ Sound(r, s, file, lock')
  OBVIOUS
<1>2. \A t \in Servers \ {s} : server[t].stage # "off" => server[t].pid # r.pid
  <2>1. r.pid = server[s].pid
    BY HolderFacts DEF Server
  <2> QED
    BY <2>1, HolderFacts
<1>3. starts' \in 0..MaxStarts /\ conn' \in [Peers -> Connection]
  BY DEF IInv
<1> HIDE DEF r
<1> QED
  BY <1>1, <1>2, <1>3, ServerKeeps

\* The fields of a server of which one changed.
LEMMA StageFacts ==
    ASSUME NEW r \in Server, NEW stage \in Stages
    PROVE  LET q == [r EXCEPT !.stage = stage]
           IN  /\ q \in Server /\ q.stage = stage /\ q.pid = r.pid /\ q.ids = r.ids
               /\ q.cookie = r.cookie
BY DEF Server

LEMMA LockKeeps ==
    ASSUME IInv, NEW s \in Servers, IceLockAuthFile(s)
    PROVE  IInv'
<1> DEFINE r == [server[s] EXCEPT !.stage = "reading"]
<1>1. "reading" \in Stages \ {"off"}
  BY DEF Stages
<1>2. r \in Server /\ r.stage = "reading" /\ r.pid = server[s].pid /\ r.ids = server[s].ids
  BY <1>1, StageFacts, HolderFacts
<1>3. lock' = s /\ server[s].stage # "off" /\ lock = Nobody
  BY DEF IceLockAuthFile
<1>4. Sound(r, s, file, lock')
  <2> HIDE DEF r
  <2> QED
    BY <1>2, <1>3, HolderFacts DEF Sound, Holds
<1>5. \A t \in Servers \ {s} : ~Holds(server[t].stage)
  BY <1>3, HolderFacts
<1>6. /\ server' = [server EXCEPT ![s].stage = "reading"]
      /\ file' = file /\ starts' = starts /\ conn' = conn /\ lock' \in Servers \cup {Nobody}
  BY DEF IceLockAuthFile
<1> QED
  BY <1>1, <1>3, <1>4, <1>5, <1>6, StageKeeps

\* A server that stops, whoever holds the lock.
LEMMA GoneKeeps ==
    ASSUME IInv, NEW s \in Servers, server' = [server EXCEPT ![s] = NoServer], file' = file,
           starts' = starts, conn' \in [Peers -> Connection], lock' \in Servers \cup {Nobody},
           \A t \in Servers \ {s} : Holds(server[t].stage) => lock' = t
    PROVE  IInv'
<1>1. Sound(NoServer, s, file, lock') /\ NoServer.stage = "off"
  BY NoServerIsSound
<1>2. starts' \in 0..MaxStarts
  BY DEF IInv
<1> QED
  BY <1>1, <1>2, ServerKeeps

LEMMA LockFailsKeeps ==
    ASSUME IInv, NEW s \in Servers, IceLockAuthFileFails(s)
    PROVE  IInv'
<1>1. /\ server' = [server EXCEPT ![s] = NoServer] /\ file' = file /\ starts' = starts
      /\ conn' \in [Peers -> Connection] /\ lock' = lock /\ lock \in Servers \cup {Nobody}
  BY DEF IceLockAuthFileFails, IInv
<1> QED
  BY <1>1, HolderFacts, GoneKeeps

\* Who reads, writes or unlocks is the holder, and the only one.
LEMMA OnlyHolder ==
    ASSUME IInv, NEW s \in Servers, Holds(server[s].stage)
    PROVE  lock = s /\ \A t \in Servers \ {s} : ~Holds(server[t].stage)
BY HolderFacts DEF Sound

LEMMA ReadFailsKeeps ==
    ASSUME IInv, NEW s \in Servers, ReadAuthorityFails(s)
    PROVE  IInv'
<1>1. \A t \in Servers \ {s} : ~Holds(server[t].stage)
  BY OnlyHolder DEF ReadAuthorityFails, Holds
<1>2. /\ server' = [server EXCEPT ![s] = NoServer] /\ file' = file /\ starts' = starts
      /\ conn' \in [Peers -> Connection] /\ lock' \in Servers \cup {Nobody}
  BY DEF ReadAuthorityFails, IInv
<1> QED
  BY <1>1, <1>2, GoneKeeps

LEMMA BreakKeeps ==
    ASSUME IInv, LockIsBroken
    PROVE  IInv'
<1>1. \A s \in Servers : ~Holds(server[s].stage)
  BY DEF LockIsBroken, IInv, Sound, Holds
<1>2. \A s \in Servers : Sound(server[s], s, file, lock')
  BY <1>1 DEF IInv, Sound
<1> QED
  BY <1>2 DEF LockIsBroken, IInv, PidsDiffer

LEMMA ReadKeeps ==
    ASSUME IInv, NEW s \in Servers, ReadAuthority(s)
    PROVE  IInv'
<1> DEFINE e == update_entries(file, server[s].ids, server[s].cookie)
           r == [server[s] EXCEPT !.stage = "writing", !.entries = e]
<1>1. /\ server[s].stage = "reading" /\ server[s].pid \in Pids
      /\ IdsOf(server[s].pid, server[s].ids) /\ server[s].cookie \in Cookies
      /\ server[s] \in Server
  BY HolderFacts DEF ReadAuthority, Sound, Server
<1>2. e \in Seq(Entry)
  <2>1. file \in Seq(Entry) /\ Single(file)
    BY DEF IInv
  <2> QED
    BY <1>1, <2>1, UpdateFacts DEF Updated
<1> HIDE DEF e
<1>3. /\ r \in Server /\ r.stage = "writing" /\ r.pid = server[s].pid /\ r.ids = server[s].ids
      /\ r.cookie = server[s].cookie /\ r.entries = e
  BY <1>1, <1>2 DEF Server, Stages
<1>4. server' = [server EXCEPT ![s] = r]
  BY <1>1 DEF ReadAuthority, Prepared, IInv, Server, e
<1> HIDE DEF r
<1>5. lock' = lock /\ lock = s /\ lock \in Servers \cup {Nobody}
  BY OnlyHolder DEF ReadAuthority, Holds
<1>6. Sound(r, s, file, lock')
  BY <1>1, <1>3, <1>5 DEF Sound, Holds, e
<1>7. \A t \in Servers \ {s} : server[t].stage # "off" => server[t].pid # r.pid
  BY <1>1, <1>3, HolderFacts
<1>8. file' = file /\ starts' \in 0..MaxStarts /\ conn' \in [Peers -> Connection]
  BY DEF ReadAuthority, IInv
<1> QED
  BY <1>4, <1>5, <1>6, <1>7, <1>8, HolderFacts, ServerKeeps

\* The file changes, and only here: what is written has the server's own entries
\* and keeps those of the others, whose network ids have another process id.
LEMMA WriteKeeps ==
    ASSUME IInv, NEW s \in Servers, WriteAuthority(s)
    PROVE  IInv'
<1> DEFINE new == update_entries(file, server[s].ids, server[s].cookie)
           r == [server[s] EXCEPT !.stage = "written", !.entries = << >>]
<1>1. /\ server[s].stage = "writing" /\ server[s].pid \in Pids
      /\ IdsOf(server[s].pid, server[s].ids) /\ server[s].cookie \in Cookies
      /\ server[s] \in Server /\ server[s].entries = new
  BY HolderFacts DEF WriteAuthority, Sound, Server
<1>2. file \in Seq(Entry) /\ Single(file)
  BY DEF IInv
<1>3. Updated(new, file, server[s].ids, server[s].cookie)
  BY <1>1, <1>2, UpdateFacts
<1>4. file' = new
  <2> HIDE DEF new
  <2>1. Overwrite(file, new) = new
    BY <1>2, <1>3, NothingIsLeft
  <2> QED
    BY <1>1, <2>1 DEF WriteAuthority
<1> HIDE DEF new
<1>5. /\ r \in Server /\ r.stage = "written" /\ r.pid = server[s].pid /\ r.ids = server[s].ids
      /\ r.cookie = server[s].cookie
  <2> DEFINE none == << >>
  <2>1. none \in Seq(Entry) /\ "written" \in Stages
    BY DEF Stages
  <2> HIDE DEF none
  <2>2. [server[s] EXCEPT !.stage = "written", !.entries = none] \in Server
    BY <1>1, <2>1 DEF Server
  <2> QED
    BY <1>1, <2>2 DEF none, Server
<1>6. server' = [server EXCEPT ![s] = r]
  BY <1>1 DEF WriteAuthority, IInv, Server
<1> HIDE DEF r
<1>7. /\ lock' = lock /\ lock = s /\ \A t \in Servers \ {s} : ~Holds(server[t].stage)
      /\ starts' = starts /\ conn' = conn
  BY <1>1, OnlyHolder DEF WriteAuthority, Holds
<1>8. Sound(r, s, file', lock')
  BY <1>1, <1>3, <1>4, <1>5, <1>7 DEF Sound, Holds, Updated
<1>9. ASSUME NEW t \in Servers \ {s} PROVE Sound(server[t], t, file', lock')
  <2> DEFINE q == server[t]
  <2>1. Sound(q, t, file, lock) /\ ~Holds(q.stage) /\ q \in Server
    BY <1>7, HolderFacts
  <2>2. ASSUME q.stage \in {"set up", "started"}, NEW i \in 1..Len(q.ids), NEW p \in Protocols
        PROVE  Has(file', p, q.ids[i], q.cookie)
    <3>1. PICK k \in 1..Len(file) :
             file[k] = [protocol |-> p, id |-> q.ids[i], cookie |-> q.cookie]
      BY <2>1, <2>2 DEF Sound, Has
    <3>2. q.pid # server[s].pid /\ q.ids[i][1] = q.pid
      BY <1>1, <2>1, <2>2, HolderFacts DEF Sound, IdsOf
    <3>3. ~Ours(file[k], server[s].ids)
      BY <1>1, <3>1, <3>2 DEF Ours, IdsOf
    <3> QED
      BY <1>3, <1>4, <3>1, <3>3 DEF Updated, Has
  <2> HIDE DEF q
  <2>3. Sound(q, t, file', lock')
    BY <2>1, <2>2 DEF Sound, Holds
  <2> QED
    BY <2>3 DEF q
<1>10. server'[s] = r /\ \A t \in Servers \ {s} : server'[t] = server[t]
  BY <1>6 DEF IInv
<1>11. \A t \in Servers : Sound(server'[t], t, file', lock')
  BY <1>8, <1>9, <1>10
<1>12. PidsDiffer'
  BY <1>1, <1>5, <1>10 DEF IInv, PidsDiffer
<1>13. file' \in Seq(Entry) /\ Single(file')
  BY <1>3, <1>4 DEF Updated
<1> QED
  BY <1>6, <1>7, <1>11, <1>12, <1>13 DEF IInv

LEMMA UnlockKeeps ==
    ASSUME IInv, NEW s \in Servers, IceUnlockAuthFile(s)
    PROVE  IInv'
<1> DEFINE r == [server[s] EXCEPT !.stage = "set up"]
<1>1. "set up" \in Stages \ {"off"} /\ server[s].stage = "written"
  BY DEF Stages, IceUnlockAuthFile
<1>2. /\ r \in Server /\ r.stage = "set up" /\ r.pid = server[s].pid /\ r.ids = server[s].ids
      /\ r.cookie = server[s].cookie
  <2>1. server[s] \in Server
    BY HolderFacts
  <2> QED
    BY <1>1, <2>1, StageFacts
<1>3. Sound(r, s, file, lock')
  <2> HIDE DEF r
  <2> QED
    BY <1>1, <1>2, HolderFacts DEF Sound, Holds
<1>4. \A t \in Servers \ {s} : ~Holds(server[t].stage)
  BY <1>1, OnlyHolder DEF Holds
<1>5. /\ server' = [server EXCEPT ![s].stage = "set up"]
      /\ file' = file /\ starts' = starts /\ conn' = conn /\ lock' \in Servers \cup {Nobody}
  BY DEF IceUnlockAuthFile
<1> QED
  BY <1>1, <1>3, <1>4, <1>5, StageKeeps

LEMMA StartKeeps ==
    ASSUME IInv, NEW s \in Servers, csm_xsmp_server_start(s)
    PROVE  IInv'
<1> DEFINE r == [server[s] EXCEPT !.stage = "started"]
<1>1. "started" \in Stages \ {"off"} /\ server[s].stage = "set up"
  BY DEF Stages, csm_xsmp_server_start
<1>2. /\ r \in Server /\ r.stage = "started" /\ r.pid = server[s].pid /\ r.ids = server[s].ids
      /\ r.cookie = server[s].cookie
  <2>1. server[s] \in Server
    BY HolderFacts
  <2> QED
    BY <1>1, <2>1, StageFacts
<1>3. /\ server' = [server EXCEPT ![s].stage = "started"] /\ lock \in Servers \cup {Nobody}
      /\ file' = file /\ starts' = starts /\ conn' = conn /\ lock' = lock
  BY DEF csm_xsmp_server_start, IInv
<1>4. Sound(r, s, file, lock')
  <2> HIDE DEF r
  <2> QED
    BY <1>1, <1>2, <1>3, HolderFacts DEF Sound, Holds
<1> QED
  BY <1>1, <1>3, <1>4, HolderFacts, StageKeeps

LEMMA AcceptingKeeps ==
    ASSUME IInv, NEW s \in Servers, AcceptingNewClients(s)
    PROVE  IInv'
<1> DEFINE r == [server[s] EXCEPT !.stopping = ~@]
<1>1. server[s] \in Server /\ server[s].stage = "started"
  BY HolderFacts DEF AcceptingNewClients
<1>2. /\ r \in Server /\ r.stage = "started" /\ r.pid = server[s].pid /\ r.ids = server[s].ids
      /\ r.cookie = server[s].cookie
  BY <1>1 DEF Server
<1>3. /\ server' = [server EXCEPT ![s] = r] /\ lock \in Servers \cup {Nobody}
      /\ file' = file /\ starts' \in 0..MaxStarts /\ conn' \in [Peers -> Connection]
      /\ lock' = lock
  BY DEF AcceptingNewClients, IInv
<1> HIDE DEF r
<1>4. Sound(r, s, file, lock')
  BY <1>1, <1>2, <1>3, HolderFacts DEF Sound, Holds
<1>5. \A t \in Servers \ {s} : server[t].stage # "off" => server[t].pid # r.pid
  BY <1>1, <1>2, HolderFacts
<1> QED
  BY <1>3, <1>4, <1>5, HolderFacts, ServerKeeps

LEMMA EndKeeps ==
    ASSUME IInv, NEW s \in Servers, Ends(s)
    PROVE  IInv'
<1>1. conn' \in [Peers -> Connection]
  BY NoConnectionIsOne DEF Ends, IInv
<1>2. /\ server' = [server EXCEPT ![s] = NoServer] /\ file' = file /\ starts' = starts
      /\ lock' = lock /\ lock \in Servers \cup {Nobody}
  BY DEF Ends, IInv
<1> QED
  BY <1>1, <1>2, HolderFacts, GoneKeeps

-----------------------------------------------------------------------------
(* The steps of a connection.                                              *)

LEMMA DialKeeps ==
    ASSUME IInv, NEW c \in Peers, Dial(c)
    PROVE  IInv'
<1>0. PICK s \in Servers : \E i \in 1..Len(server[s].ids) :
         Connects(c, [NoConnection EXCEPT
                        !.state = "queued", !.server = s, !.peer = TRUE,
                        !.ice = Lookup(file, "ICE", server[s].ids[i]),
                        !.xsmp = Lookup(file, "XSMP", server[s].ids[i])])
  BY Zenon DEF Dial
<1>1. PICK i \in 1..Len(server[s].ids) :
         Connects(c, [NoConnection EXCEPT
                        !.state = "queued", !.server = s, !.peer = TRUE,
                        !.ice = Lookup(file, "ICE", server[s].ids[i]),
                        !.xsmp = Lookup(file, "XSMP", server[s].ids[i])])
  BY <1>0
<1> DEFINE x == Lookup(file, "ICE", server[s].ids[i])
           y == Lookup(file, "XSMP", server[s].ids[i])
<1>2. x \in Cookies /\ y \in Cookies
  BY LookupFacts DEF IInv
<1> HIDE DEF x, y
<1> DEFINE d == [NoConnection EXCEPT !.state = "queued", !.server = s, !.peer = TRUE,
                                     !.ice = x, !.xsmp = y]
<1>3. d \in Connection
  BY <1>2 DEF NoConnection, Connection
<1>4. Connects(c, d)
  BY <1>1 DEF x, y
<1> HIDE DEF d
<1> QED
  BY <1>3, <1>4, ConnectionKeeps

LEMMA AcceptKeeps ==
    ASSUME IInv, NEW c \in Peers, accept_ice_connection(c)
    PROVE  IInv'
<1>1. conn[c] \in Connection
  BY DEF IInv
<1>2. auth_ice_connection(conn[c]) \in Connection
  BY <1>1 DEF auth_ice_connection, Connection
<1>3. Connects(c, auth_ice_connection(conn[c])) \/ Connects(c, NoConnection)
  BY DEF accept_ice_connection
<1> QED
  BY <1>2, <1>3, NoConnectionIsOne, ConnectionKeeps

LEMMA MessageKeeps ==
    ASSUME IInv, NEW c \in Peers, IceProcessMessagesSuccess(c)
    PROVE  IInv'
<1> DEFINE d1 == [conn[c] EXCEPT !.state =
                    IF conn[c].ice = Owner(c).cookie THEN "ready" ELSE "rejected"]
           d2 == accept_xsmp_connection(conn[c], Owner(c).stopping)
<1>1. conn[c] \in Connection
  BY DEF IInv
<1>2. d1 \in Connection
  BY <1>1 DEF Connection
<1>3. d2 \in Connection
  <2>1. [free_ice_connection_watch(conn[c]) EXCEPT !.state = "client"] \in Connection
    BY <1>1 DEF free_ice_connection_watch, Connection
  <2> QED
    BY <1>1, <2>1 DEF accept_xsmp_connection
<1>4. Connects(c, d1) \/ Connects(c, d2)
  BY DEF IceProcessMessagesSuccess
<1> HIDE DEF d1, d2
<1> QED
  BY <1>2, <1>3, <1>4, ConnectionKeeps

LEMMA HangUpKeeps ==
    ASSUME IInv, NEW c \in Peers, HangUp(c)
    PROVE  IInv'
<1> DEFINE d == [conn[c] EXCEPT !.peer = FALSE]
<1>1. d \in Connection
  BY DEF IInv, Connection
<1>2. Connects(c, d)
  BY DEF HangUp
<1> QED
  BY <1>1, <1>2, ConnectionKeeps

LEMMA ClosedKeeps ==
    ASSUME IInv, NEW c \in Peers, ClientConnectionClosed(c)
    PROVE  IInv'
<1> DEFINE d == [conn[c] EXCEPT !.state = "ghost"]
<1>1. d \in Connection
  BY DEF IInv, Connection
<1>2. Connects(c, d)
  BY DEF ClientConnectionClosed
<1> QED
  BY <1>1, <1>2, ConnectionKeeps

\* The timer fires, the peer hangs up, the connection breaks: it is closed.
LEMMA CloseKeeps ==
    ASSUME IInv, NEW c \in Peers,
           ice_protocol_timeout(c) \/ IceProcessMessagesEnds(c) \/ ClientIOError(c)
    PROVE  IInv'
<1>1. Connects(c, NoConnection)
  BY DEF ice_protocol_timeout, IceProcessMessagesEnds, ClientIOError
<1> QED
  BY <1>1, NoConnectionIsOne, ConnectionKeeps

-----------------------------------------------------------------------------
(* The theorems.                                                           *)

LEMMA NextHolds == IInv /\ [Next]_vars => IInv'
<1> SUFFICES ASSUME IInv, [Next]_vars PROVE IInv'
  OBVIOUS
<1>1. CASE UNCHANGED vars
  BY <1>1, StutteringKeeps
<1>2. CASE LockIsBroken
  BY <1>2, BreakKeeps
<1>3. CASE \E s \in Servers :
             \/ csm_xsmp_server_new(s) \/ IceLockAuthFile(s) \/ IceLockAuthFileFails(s)
             \/ ReadAuthority(s) \/ ReadAuthorityFails(s) \/ WriteAuthority(s)
             \/ IceUnlockAuthFile(s) \/ csm_xsmp_server_start(s)
             \/ AcceptingNewClients(s) \/ Ends(s)
  BY <1>3, NewKeeps, LockKeeps, LockFailsKeeps, ReadKeeps, ReadFailsKeeps, WriteKeeps,
     UnlockKeeps, StartKeeps, AcceptingKeeps, EndKeeps
<1>4. CASE \E c \in Peers :
             \/ Dial(c) \/ accept_ice_connection(c) \/ ice_protocol_timeout(c)
             \/ IceProcessMessagesSuccess(c) \/ IceProcessMessagesEnds(c)
             \/ HangUp(c) \/ ClientIOError(c) \/ ClientConnectionClosed(c)
  BY <1>4, DialKeeps, AcceptKeeps, CloseKeeps, MessageKeeps, HangUpKeeps, ClosedKeeps
<1> QED
  BY <1>1, <1>2, <1>3, <1>4 DEF Next

\* The inductive invariant: who works on the file holds its lock, nobody else has
\* its process id, the file has one entry of each protocol and network id, and
\* what a server has written for itself is still there.
THEOREM InvHolds == Spec => []IInv
<1>1. Init => IInv
  BY InitHolds
<1>2. IInv /\ [Next]_vars => IInv'
  BY NextHolds
<1> QED
  BY <1>1, <1>2, PTL DEF Spec

\* The variables have their types, and the file does not grow beyond four entries
\* for each process id, although sessions that end leave theirs behind.
THEOREM TypeCorrect == Spec => []TypeOK
<1>1. IInv => TypeOK
  <2> SUFFICES ASSUME IInv PROVE TypeOK
    OBVIOUS
  <2>1. Len(file) <= 4 * Cardinality(Pids)
    BY FileIsShort DEF IInv
  <2>2. \A s \in Servers : server[s] \in Server
    BY HolderFacts
  <2>3. server \in [Servers -> Server]
    BY <2>2 DEF IInv
  <2> QED
    BY <2>1, <2>3 DEF IInv, TypeOK
<1> QED
  BY <1>1, InvHolds, PTL

\* As long as a session runs, a program that looks up one of its addresses in the
\* file finds the cookie that the server checks: none of the sessions that start,
\* end or crash meanwhile, at whatever step of update_iceauthority, takes it away
\* or puts another one in front of it.
THEOREM LookupIsAlwaysAccepted == Spec => []LookupIsAccepted
<1>1. IInv => LookupIsAccepted
  <2> SUFFICES ASSUME IInv, NEW s \in Servers, Publishes(s),
                      NEW i \in 1..Len(server[s].ids), NEW p \in Protocols
               PROVE  Lookup(file, p, server[s].ids[i]) = server[s].cookie
    BY DEF LookupIsAccepted
  <2>1. Has(file, p, server[s].ids[i], server[s].cookie)
    BY HolderFacts DEF Sound, Publishes
  <2>2. file \in Seq(Entry) /\ Single(file)
    BY DEF IInv
  <2> QED
    BY <2>1, <2>2, LookupFacts
<1> QED
  BY <1>1, InvHolds, PTL

=============================================================================
