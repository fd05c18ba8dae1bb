-------------------------- MODULE OrderLocksProof --------------------------
(***************************************************************************)
(* The per-order claims for any number of orders, deliveries and lock      *)
(* objects: the inductive invariant, what the reference counts and the     *)
(* lines in front of a lock do, the steps that take, give up and release a *)
(* claim, and the theorems.                                                *)
(***************************************************************************)
EXTENDS OrderLocks, FiniteSetTheorems, TLAPS

-----------------------------------------------------------------------------
(* The inductive invariant.                                                *)

\* The places at which a delivery has a reference to the lock of want.
Claiming == {"send", "queued", "drop", "unref"}

\* Pointers lead to the entry, entries are counted, and there is no other.
Counted == \A l \in Locks : refs[l] = Cardinality({p \in Pairs : ptr[p] = l})

Listed == \A o \in Orders : table[o] # None => refs[table[o]] > 0

Apart == \A o, q \in Orders : table[o] # None /\ table[o] = table[q] => o = q

TableInv == HeldIsTabled /\ Counted /\ Listed /\ Apart

\* A delivery points at the locks it holds and at the one it is taking.
ClaimInv(d) ==
    /\ pc[d] \in Claiming => want[d] \in Orders \ Held(d) /\ Lock(d) # None
    /\ pc[d] = "idle" => scope[d] = <<>>
    /\ pc[d] = "work" => scope[d] # <<>>
    /\ IsInjective(scope[d])
    /\ \A o \in Held(d) : ptr[<<d, o>>] # None /\ holder[ptr[<<d, o>>]] = d
    /\ \A o \in Orders :
         ptr[<<d, o>>] # None =>
           o \in Held(d) \/ (pc[d] \in Claiming /\ want[d] = o)

\* Whoever is in line is waiting for this lock and has not been given it.
LineInv ==
    \A l \in Locks :
      /\ IsInjective(queue[l])
      /\ \A e \in Range(queue[l]) :
           pc[e] = "queued" /\ Lock(e) = l /\ holder[l] # e

\* A second claim is that of a child.
NestInv(d) ==
    /\ Len(scope[d]) <= MaxClaimDepth
    /\ Len(scope[d]) = MaxClaimDepth => Children[Last(scope[d])] = {}
    /\ pc[d] \in {"send", "queued"} /\ scope[d] # <<>> =>
         Len(scope[d]) = 1 /\ Children[want[d]] = {}

LInv ==
    /\ TypeOK
    /\ TableInv
    /\ \A d \in Deliveries : ClaimInv(d) /\ NestInv(d)
    /\ LineInv
    /\ NoOrphan
    /\ NoLostWakeup

-----------------------------------------------------------------------------
(* The sequences of the model, by their elements.                          *)

\* The elements of a sequence and its range.
LEMMA Elements ==
    ASSUME NEW S, NEW s \in Seq(S)
    PROVE  /\ DOMAIN s = 1 .. Len(s) /\ Len(s) \in Nat
           /\ \A i \in 1 .. Len(s) : s[i] \in S
           /\ Range(s) \subseteq S
           /\ s # <<>> <=> Len(s) > 0
           /\ s = <<>> => Range(s) = {}
BY DEF Range

\* A sequence is its front and its last element (a nested claim released by
\* claimscope.go).
LEMMA FrontLast ==
    ASSUME NEW S, NEW s \in Seq(S), s # <<>>
    PROVE  /\ Last(s) \in S
           /\ Front(s) \in Seq(S)
           /\ Len(Front(s)) = Len(s) - 1
           /\ Range(s) = Range(Front(s)) \cup {Last(s)}
           /\ IsInjective(s) => IsInjective(Front(s)) /\ Last(s) \notin Range(Front(s))
<1> DEFINE n == Len(s)
<1>1. n \in Nat /\ n > 0 /\ DOMAIN s = 1 .. n /\ \A i \in 1 .. n : s[i] \in S
  BY Zenon, Elements
<1>2. /\ Front(s) \in Seq(S) /\ Len(Front(s)) = n - 1
      /\ \A i \in 1 .. n - 1 : Front(s)[i] = s[i]
  BY <1>1 DEF Front
<1>3. DOMAIN Front(s) = 1 .. n - 1 BY Zenon, <1>2, Elements
<1> HIDE DEF n
<1>4. Last(s) = s[n] BY Zenon DEF Last, n
<1>5. Range(s) = Range(Front(s)) \cup {Last(s)}
  BY <1>1, <1>2, <1>3, <1>4 DEF Range
<1>6. IsInjective(s) => IsInjective(Front(s)) /\ Last(s) \notin Range(Front(s))
  BY <1>1, <1>2, <1>3, <1>4 DEF IsInjective, Range
<1> QED BY <1>1, <1>2, <1>4, <1>5, <1>6 DEF n

\* A sequence with one element more (a delivery joins a line, a scope grows).
LEMMA AppendLast ==
    ASSUME NEW S, NEW s \in Seq(S), NEW e \in S
    PROVE  /\ Append(s, e) \in Seq(S)
           /\ Len(Append(s, e)) = Len(s) + 1
           /\ Last(Append(s, e)) = e
           /\ Range(Append(s, e)) = Range(s) \cup {e}
           /\ IsInjective(s) /\ e \notin Range(s) => IsInjective(Append(s, e))
<1> DEFINE n == Len(s)
           a == Append(s, e)
<1>1. n \in Nat /\ DOMAIN s = 1 .. n BY Zenon, Elements
<1>2. /\ a \in Seq(S) /\ Len(a) = n + 1 /\ a[n + 1] = e
      /\ \A i \in 1 .. n : a[i] = s[i]
  OBVIOUS
<1>3. DOMAIN a = 1 .. n + 1 BY Zenon, <1>2, Elements
<1> HIDE DEF n, a
<1>4. Range(a) = Range(s) \cup {e} BY <1>1, <1>2, <1>3 DEF Range
<1>5. IsInjective(s) /\ e \notin Range(s) => IsInjective(a)
  BY <1>1, <1>2, <1>3 DEF IsInjective, Range
<1>6. Last(a) = e BY Zenon, <1>2 DEF Last
<1> QED BY Zenon, <1>2, <1>4, <1>5, <1>6 DEF n, a

\* A sequence is its head and its tail (the delivery a release wakes).
LEMMA HeadTail ==
    ASSUME NEW S, NEW s \in Seq(S), s # <<>>
    PROVE  /\ Head(s) \in S
           /\ Tail(s) \in Seq(S)
           /\ Head(s) \in Range(s)
           /\ Range(Tail(s)) \subseteq Range(s)
           /\ IsInjective(s) => IsInjective(Tail(s)) /\ Head(s) \notin Range(Tail(s))
<1> DEFINE n == Len(s)
           t == Tail(s)
<1>1. n \in Nat /\ n > 0 /\ DOMAIN s = 1 .. n BY Zenon, Elements
<1>2. /\ t \in Seq(S) /\ Len(t) = n - 1 /\ Head(s) \in S
      /\ \A i \in 1 .. n - 1 : t[i] = s[i + 1]
  OBVIOUS
<1>3. DOMAIN t = 1 .. n - 1 BY Zenon, <1>2, Elements
<1>4. Head(s) = s[1] OBVIOUS
<1> HIDE DEF n, t
<1>5. Head(s) \in Range(s) BY <1>1, <1>4 DEF Range
<1>6. Range(t) \subseteq Range(s) BY <1>1, <1>2, <1>3 DEF Range
<1>7. ASSUME IsInjective(s) PROVE IsInjective(t) /\ Head(s) \notin Range(t)
  <2>1. \A j, k \in 1 .. n : s[j] = s[k] => j = k BY Zenon, <1>1, <1>7 DEF IsInjective
  <2>2. \A j \in 1 .. n - 1 : t[j] = s[j + 1] /\ j + 1 \in 1 .. n /\ j + 1 # 1
    BY <1>1, <1>2
  <2>3. \A j, k \in 1 .. n - 1 : t[j] = t[k] => j = k
    <3> TAKE j, k \in 1 .. n - 1
    <3>1. s[j + 1] = s[k + 1] => j + 1 = k + 1 BY Zenon, <2>1, <2>2
    <3> QED BY <3>1, <2>2
  <2>4. \A j \in 1 .. n - 1 : t[j] # s[1] BY <1>1, <2>1, <2>2
  <2> QED BY Zenon, <1>3, <1>4, <2>3, <2>4 DEF IsInjective, Range
<1> QED BY Zenon, <1>2, <1>5, <1>6, <1>7 DEF t

\* A sequence with one element less (a waiter whose context ends leaves the
\* line).
LEMMA Without ==
    ASSUME NEW S, NEW s \in Seq(S), NEW i \in DOMAIN s
    PROVE  /\ RemoveAt(s, i) \in Seq(S)
           /\ Range(RemoveAt(s, i)) \subseteq Range(s)
           /\ IsInjective(s) => /\ IsInjective(RemoveAt(s, i))
                                /\ s[i] \notin Range(RemoveAt(s, i))
<1> DEFINE n == Len(s)
           f == SubSeq(s, 1, i - 1)
           g == SubSeq(s, i + 1, n)
           r == RemoveAt(s, i)
<1>1. /\ n \in Nat /\ DOMAIN s = 1 .. n /\ i \in 1 .. n
      /\ \A j \in 1 .. n : s[j] \in S
  BY Zenon, Elements
<1>2. /\ f \in Seq(S) /\ Len(f) = i - 1
      /\ \A j \in 1 .. i - 1 : f[j] = s[j]
  <2>1. 1 \in Int /\ i - 1 \in Int /\ \A j \in 1 .. i - 1 : s[j] \in S BY <1>1
  <2> QED BY <1>1, <2>1
<1>3. /\ g \in Seq(S) /\ Len(g) = n - i
      /\ \A j \in 1 .. n - i : g[j] = s[i + j]
  <2>1. i + 1 \in Int /\ n \in Int /\ \A j \in i + 1 .. n : s[j] \in S BY <1>1
  <2>2. /\ g \in Seq(S) /\ Len(g) = IF i + 1 <= n THEN n - (i + 1) + 1 ELSE 0
        /\ \A j \in 1 .. n - (i + 1) + 1 : g[j] = s[i + 1 + j - 1]
    BY <2>1
  <2> HIDE DEF g, n
  <2>3. /\ n - (i + 1) + 1 = n - i
        /\ (IF i + 1 <= n THEN n - (i + 1) + 1 ELSE 0) = n - i
        /\ \A j \in 1 .. n - i : i + 1 + j - 1 = i + j
    BY <1>1
  <2> QED BY Zenon, <2>2, <2>3
<1>4. r = f \o g BY Zenon DEF RemoveAt
<1> HIDE DEF n, f, g, r
<1>5. /\ r \in Seq(S) /\ Len(r) = n - 1
      /\ \A j \in 1 .. n - 1 : r[j] = IF j <= i - 1 THEN f[j] ELSE g[j - (i - 1)]
  <2>1. Len(f) + Len(g) = n - 1 BY <1>1, <1>2, <1>3
  <2>2. /\ r \in Seq(S) /\ Len(r) = Len(f) + Len(g)
        /\ \A j \in 1 .. Len(f) + Len(g) :
             r[j] = IF j <= Len(f) THEN f[j] ELSE g[j - Len(f)]
    BY <1>2, <1>3, <1>4
  <2> QED BY Zenon, <2>1, <2>2, <1>2
<1>6. DOMAIN r = 1 .. n - 1 BY Zenon, <1>5, Elements
<1>7. \A j \in 1 .. n - 1 : r[j] = IF j < i THEN s[j] ELSE s[j + 1]
  <2> TAKE j \in 1 .. n - 1
  <2>1. CASE j < i BY <2>1, <1>1, <1>2, <1>5
  <2>2. CASE ~(j < i)
    <3>1. j - (i - 1) \in 1 .. n - i /\ i + (j - (i - 1)) = j + 1 BY <2>2, <1>1
    <3>2. ~(j <= i - 1) BY <2>2, <1>1
    <3>3. r[j] = g[j - (i - 1)] BY Zenon, <3>2, <1>5
    <3>4. g[j - (i - 1)] = s[i + (j - (i - 1))] BY Zenon, <3>1, <1>3
    <3> QED BY Zenon, <2>2, <3>1, <3>3, <3>4
  <2> QED BY Zenon, <2>1, <2>2
<1>8. Range(r) \subseteq Range(s)
  <2>1. \A j \in 1 .. n - 1 : j \in 1 .. n /\ j + 1 \in 1 .. n BY <1>1
  <2>2. \A j \in 1 .. n - 1 : \E k \in 1 .. n : r[j] = s[k] BY Zenon, <1>7, <2>1
  <2> QED BY Zenon, <1>1, <1>6, <2>2 DEF Range
<1>9. ASSUME IsInjective(s) PROVE IsInjective(r) /\ s[i] \notin Range(r)
  <2>1. \A j, k \in 1 .. n : s[j] = s[k] => j = k BY Zenon, <1>1, <1>9 DEF IsInjective
  <2>2. IsInjective(r) BY <2>1, <1>1, <1>6, <1>7 DEF IsInjective
  <2>3. s[i] \notin Range(r) BY <2>1, <1>1, <1>6, <1>7 DEF Range
  <2> QED BY Zenon, <2>2, <2>3
<1> QED BY Zenon, <1>5, <1>8, <1>9 DEF r

-----------------------------------------------------------------------------
(* The table.                                                              *)

\* Deliveries and orders make finitely many pairs.
LEMMA PairsFinite == IsFiniteSet(Pairs)
BY Zenon, LocksAssumption, FS_Product DEF Pairs

\* References to a lock, before and after one pointer is set or cleared.
Refs(l) == {p \in Pairs : ptr[p] = l}

\* A lock has finitely many references, so they can be counted.
LEMMA RefsFinite == \A l : IsFiniteSet(Refs(l))
BY Zenon, PairsFinite, FS_Subset DEF Refs

(***************************************************************************)
(* ref keeps the table: its critical section finds or makes the entry and  *)
(* counts the caller.                                                      *)
(***************************************************************************)
LEMMA RefTable ==
    ASSUME TypeOK, TableInv, NEW d \in Deliveries, NEW o \in Orders,
           ptr[<<d, o>>] = None, Ref(d, o)
    PROVE  /\ TableInv'
           /\ table' \in [Orders -> Locks \cup {None}]
           /\ refs' \in [Locks -> Nat]
           /\ ptr' \in [Pairs -> Locks \cup {None}]
           /\ ptr'[<<d, o>>] \in Locks
           /\ \A p \in Pairs \ {<<d, o>>} : ptr'[p] = ptr[p]
<1> DEFINE x == <<d, o>>
<1>1. x \in Pairs BY Zenon DEF Pairs
<1>2. \A m \in Locks : m # None BY Zenon, LocksAssumption
<1>3. PICK l \in Locks :
         /\ ptr' = [ptr EXCEPT ![x] = l]
         /\ table' = [table EXCEPT ![o] = l]
         /\ table[o] # None => table[o] = l
         /\ table[o] = None => Garbage(l)
         /\ refs' = [refs EXCEPT ![l] = IF table[o] = None THEN 1 ELSE @ + 1]
  <2>1. CASE RefOld(d, o)
    <3>1. table[o] \in Locks BY Zenon, <2>1 DEF RefOld, TypeOK
    <3>2. table' = [table EXCEPT ![o] = table[o]] BY Zenon, <2>1 DEF RefOld, TypeOK
    <3> QED BY Zenon, <2>1, <3>1, <3>2 DEF RefOld
  <2>2. CASE RefNew(d, o) BY Zenon, <2>2 DEF RefNew
  <2> QED BY Zenon, <2>1, <2>2 DEF Ref
<1> HIDE DEF x
<1>4. /\ table' \in [Orders -> Locks \cup {None}]
      /\ ptr' \in [Pairs -> Locks \cup {None}]
      /\ refs' \in [Locks -> Nat]
  <2>1. table' \in [Orders -> Locks \cup {None}] BY Zenon, <1>3 DEF TypeOK
  <2>2. ptr' \in [Pairs -> Locks \cup {None}] BY Zenon, <1>3 DEF TypeOK
  <2>3. refs' \in [Locks -> Nat] BY <1>3 DEF TypeOK
  <2> QED BY Zenon, <2>1, <2>2, <2>3
<1>5. \A p \in Pairs \ {x} : ptr'[p] = ptr[p] BY Zenon, <1>3 DEF TypeOK
<1>6. ptr'[x] = l /\ ptr[x] = None BY Zenon, <1>1, <1>3 DEF TypeOK, x
<1>7. table'[o] = l /\ \A q \in Orders \ {o} : table'[q] = table[q]
  BY Zenon, <1>3 DEF TypeOK
<1>8. \A q \in Orders \ {o} : table[q] # l
  BY Zenon, <1>3 DEF TableInv, Apart, Garbage
<1>9. HeldIsTabled'
  <2> SUFFICES ASSUME NEW e \in Deliveries, NEW q \in Orders, ptr'[<<e, q>>] # None
               PROVE  table'[q] = ptr'[<<e, q>>]
    BY Zenon DEF HeldIsTabled
  <2>1. CASE <<e, q>> = x
    <3>1. q = o BY Zenon, <2>1 DEF x
    <3> QED BY Zenon, <2>1, <3>1, <1>6, <1>7
  <2>2. CASE <<e, q>> # x
    <3>1. ptr'[<<e, q>>] = ptr[<<e, q>>] BY Zenon, <2>2, <1>5 DEF Pairs
    <3>2. table[q] = ptr'[<<e, q>>] BY Zenon, <3>1 DEF TableInv, HeldIsTabled
    <3>3. q = o => table[o] = l BY Zenon, <3>2, <1>3
    <3> QED BY Zenon, <3>2, <3>3, <1>7
  <2> QED BY Zenon, <2>1, <2>2
<1>10. Apart' BY Zenon, <1>7, <1>8 DEF TableInv, Apart
<1>11. Refs(l)' = Refs(l) \cup {x} /\ x \notin Refs(l)
  BY Zenon, <1>1, <1>2, <1>5, <1>6 DEF Refs
<1>12. \A m \in Locks \ {l} : Refs(m)' = Refs(m)
  BY Zenon, <1>1, <1>2, <1>5, <1>6 DEF Refs
<1>13. Cardinality(Refs(l)') = Cardinality(Refs(l)) + 1
  BY Zenon, <1>11, RefsFinite, FS_AddElement
<1>14. refs'[l] = Cardinality(Refs(l)) + 1
  <2>1. CASE table[o] = None
    <3>1. Refs(l) = {} BY Zenon, <2>1, <1>3 DEF Garbage, Refs
    <3> QED BY <2>1, <3>1, <1>3, FS_EmptySet DEF TypeOK
  <2>2. CASE table[o] # None
    BY Zenon, <2>2, <1>3 DEF TypeOK, TableInv, Counted, Refs
  <2> QED BY Zenon, <2>1, <2>2
<1>15. Counted'
  <2>1. \A m \in Locks : refs'[m] = Cardinality(Refs(m)')
    <3> TAKE m \in Locks
    <3>1. CASE m = l BY Zenon, <3>1, <1>13, <1>14
    <3>2. CASE m # l
      <4>1. refs'[m] = refs[m] BY Zenon, <3>2, <1>3 DEF TypeOK
      <4> QED BY Zenon, <3>2, <4>1, <1>12 DEF TableInv, Counted, Refs
    <3> QED BY Zenon, <3>1, <3>2
  <2> QED BY Zenon, <2>1 DEF Counted, Refs
<1>16. Listed'
  <2>1. refs'[l] > 0 BY <1>3 DEF TypeOK
  <2> QED BY Zenon, <2>1, <1>3, <1>7, <1>8 DEF TableInv, Listed, TypeOK
<1> QED BY Zenon, <1>4, <1>5, <1>6, <1>9, <1>10, <1>15, <1>16 DEF TableInv, x

(***************************************************************************)
(* ref leaves the locks somebody points at as they are; it may reset one   *)
(* that nobody does.                                                       *)
(***************************************************************************)
LEMMA RefLocks ==
    ASSUME TypeOK, NEW d \in Deliveries, NEW o \in Orders, Ref(d, o)
    PROVE  /\ holder' \in [Locks -> Deliveries \cup {None}]
           /\ queue' \in [Locks -> Seq(Deliveries)]
           /\ \A m \in Locks :
                \/ holder'[m] = holder[m] /\ queue'[m] = queue[m]
                \/ /\ holder'[m] = None /\ queue'[m] = <<>>
                   /\ \A p \in Pairs : ptr[p] # m
<1>1. CASE RefOld(d, o) BY Zenon, <1>1 DEF RefOld, TypeOK
<1>2. CASE RefNew(d, o)
  <2>1. PICK l \in Locks :
          /\ \A p \in Pairs : ptr[p] # l
          /\ holder' = [holder EXCEPT ![l] = None]
          /\ queue' = [queue EXCEPT ![l] = <<>>]
    BY Zenon, <1>2 DEF RefNew, Garbage
  <2>2. holder' \in [Locks -> Deliveries \cup {None}] BY Zenon, <2>1 DEF TypeOK
  <2>3. <<>> \in Seq(Deliveries) OBVIOUS
  <2>4. queue' \in [Locks -> Seq(Deliveries)] BY Zenon, <2>1, <2>3 DEF TypeOK
  <2> QED BY Zenon, <2>1, <2>2, <2>4 DEF TypeOK
<1> QED BY Zenon, <1>1, <1>2 DEF Ref

(***************************************************************************)
(* unref keeps the table: the entry goes exactly when nobody points at its *)
(* lock any more.                                                          *)
(***************************************************************************)
LEMMA UnrefTable ==
    ASSUME TypeOK, TableInv, NEW d \in Deliveries, NEW o \in Orders,
           NEW l \in Locks, ptr[<<d, o>>] = l,
           table' = Unlisted(o, l),
           refs' = [refs EXCEPT ![l] = @ - 1],
           ptr' = [ptr EXCEPT ![<<d, o>>] = None]
    PROVE  /\ TableInv'
           /\ table' \in [Orders -> Locks \cup {None}]
           /\ refs' \in [Locks -> Nat]
           /\ ptr' \in [Pairs -> Locks \cup {None}]
           /\ ptr'[<<d, o>>] = None
           /\ \A p \in Pairs \ {<<d, o>>} : ptr'[p] = ptr[p]
<1> DEFINE x == <<d, o>>
<1>1. x \in Pairs BY Zenon DEF Pairs
<1>2. \A m \in Locks : m # None BY Zenon, LocksAssumption
<1>3. /\ ptr' = [ptr EXCEPT ![x] = None] /\ ptr[x] = l
      /\ ptr' \in [Pairs -> Locks \cup {None}]
  BY Zenon DEF TypeOK
<1>4. table[o] = l BY Zenon, <1>2 DEF TableInv, HeldIsTabled
<1> HIDE DEF x
<1>5. ptr'[x] = None /\ \A p \in Pairs \ {x} : ptr'[p] = ptr[p]
  BY Zenon, <1>1, <1>3 DEF TypeOK
<1>6. refs[l] \in Nat /\ refs[l] > 0
  BY Zenon, <1>2, <1>4 DEF TypeOK, TableInv, Listed
<1>7. /\ refs' \in [Locks -> Nat] /\ refs'[l] = refs[l] - 1
      /\ \A m \in Locks \ {l} : refs'[m] = refs[m]
  BY <1>6 DEF TypeOK
<1>8. /\ table' \in [Orders -> Locks \cup {None}]
      /\ \A q \in Orders \ {o} : table'[q] = table[q]
      /\ table'[o] = IF refs[l] = 1 THEN None ELSE l
  BY Zenon, <1>4 DEF TypeOK, Unlisted
<1>9. Refs(l)' = Refs(l) \ {x} /\ x \in Refs(l)
  BY Zenon, <1>1, <1>2, <1>3, <1>5 DEF Refs
<1>10. \A m \in Locks \ {l} : Refs(m)' = Refs(m)
  BY Zenon, <1>1, <1>2, <1>3, <1>5 DEF Refs
<1>11. refs[l] = Cardinality(Refs(l)) BY Zenon DEF TableInv, Counted, Refs
<1>12. Cardinality(Refs(l)') = refs[l] - 1 /\ IsFiniteSet(Refs(l)')
  BY <1>9, <1>11, RefsFinite, FS_RemoveElement
<1>13. refs[l] = 1 => Refs(l)' = {}
  <2>1. refs[l] = 1 => Cardinality(Refs(l)') = 0 BY <1>12
  <2> QED BY Zenon, <2>1, <1>12, FS_EmptySet
<1>14. HeldIsTabled'
  <2> SUFFICES ASSUME NEW e \in Deliveries, NEW q \in Orders, ptr'[<<e, q>>] # None
               PROVE  table'[q] = ptr'[<<e, q>>]
    BY Zenon DEF HeldIsTabled
  <2>1. <<e, q>> \in Pairs BY Zenon DEF Pairs
  <2>2. <<e, q>> # x BY Zenon, <1>5
  <2>3. ptr'[<<e, q>>] = ptr[<<e, q>>] BY Zenon, <2>1, <2>2, <1>5
  <2>4. table[q] = ptr'[<<e, q>>] BY Zenon, <2>3 DEF TableInv, HeldIsTabled
  <2>5. CASE q = o
    <3>1. <<e, q>> \in Refs(l)' BY Zenon, <2>1, <2>4, <2>5, <1>4 DEF Refs
    <3>2. refs[l] # 1 BY Zenon, <3>1, <1>13
    <3>3. table'[o] = l BY Zenon, <3>2, <1>8
    <3>4. table[o] = ptr'[<<e, q>>] BY Zenon, <2>4, <2>5
    <3> QED BY Zenon, <3>3, <3>4, <2>5, <1>4
  <2>6. CASE q # o BY Zenon, <2>4, <2>6, <1>8
  <2> QED BY Zenon, <2>5, <2>6
<1>15. Counted'
  <2>1. \A m \in Locks : refs'[m] = Cardinality(Refs(m)')
    <3> TAKE m \in Locks
    <3>1. CASE m = l BY Zenon, <3>1, <1>7, <1>12
    <3>2. CASE m # l BY Zenon, <3>2, <1>7, <1>10 DEF TableInv, Counted, Refs
    <3> QED BY Zenon, <3>1, <3>2
  <2> QED BY Zenon, <2>1 DEF Counted, Refs
<1>16. \A q \in Orders \ {o} : table[q] # l
  BY Zenon, <1>2, <1>4 DEF TableInv, Apart
<1>17. Listed'
  <2> SUFFICES ASSUME NEW q \in Orders, table'[q] # None
               PROVE  refs'[table'[q]] > 0
    BY Zenon DEF Listed
  <2>1. CASE q = o
    <3>1. table'[o] # None BY Zenon, <2>1
    <3>2. refs[l] # 1 /\ table'[o] = l BY Zenon, <3>1, <1>8
    <3>3. refs'[l] > 0 BY <3>2, <1>6, <1>7
    <3> QED BY Zenon, <2>1, <3>2, <3>3
  <2>2. CASE q # o
    <3>1. table'[q] = table[q] /\ table[q] \in Locks \ {l}
      BY Zenon, <2>2, <1>8, <1>16 DEF TypeOK
    <3> QED BY Zenon, <3>1, <1>7 DEF TableInv, Listed
  <2> QED BY Zenon, <2>1, <2>2
<1>18. Apart' BY <1>4, <1>8, <1>16 DEF TableInv, Apart
<1> QED BY Zenon, <1>3, <1>5, <1>7, <1>8, <1>14, <1>15, <1>17, <1>18 DEF TableInv, x

-----------------------------------------------------------------------------
(* A step of one delivery and the others.                                  *)

\* Only d moves ...
Alone(d) ==
    \A e \in Deliveries \ {d} :
      /\ pc'[e] = pc[e] /\ want'[e] = want[e] /\ scope'[e] = scope[e]
      /\ \A o \in Orders : ptr'[<<e, o>>] = ptr[<<e, o>>]

\* ... and takes no lock from another.
Kept(d) ==
    \A e \in Deliveries \ {d} : \A o \in Held(e) : holder'[ptr[<<e, o>>]] = e

\* The delivery that fills a lock's channel knows of it.
Witness(d, l) ==
    \E o \in Orders :
      /\ ptr[<<d, o>>] = l
      /\ o \in Held(d) \/ (pc[d] = "queued" /\ want[d] = o)

\* The claims of the deliveries that do not move stay as they are.
LEMMA Others ==
    ASSUME TypeOK, NEW d \in Deliveries, NEW e \in Deliveries \ {d},
           ClaimInv(e), NestInv(e), Alone(d), Kept(d)
    PROVE  ClaimInv(e)' /\ NestInv(e)'
<1>1. /\ pc'[e] = pc[e] /\ want'[e] = want[e] /\ scope'[e] = scope[e]
      /\ \A o \in Orders : ptr'[<<e, o>>] = ptr[<<e, o>>]
  BY Zenon DEF Alone
<1>2. Held(e)' = Held(e) /\ Held(e) \subseteq Orders
  BY Zenon, <1>1, Elements DEF Held, TypeOK
<1>3. pc[e] \in Claiming => Lock(e)' = Lock(e)
  BY Zenon, <1>1 DEF Lock, ClaimInv
<1>4. \A o \in Held(e)' : ptr'[<<e, o>>] # None /\ holder'[ptr'[<<e, o>>]] = e
  BY <1>1, <1>2 DEF ClaimInv, Kept
<1>5. \A o \in Orders :
        ptr'[<<e, o>>] # None =>
          o \in Held(e)' \/ (pc'[e] \in Claiming /\ want'[e] = o)
  BY Zenon, <1>1, <1>2 DEF ClaimInv
<1>6. IsInjective(scope'[e]) BY Zenon, <1>1 DEF ClaimInv
<1>7. ClaimInv(e)'
  BY Zenon, <1>1, <1>2, <1>3, <1>4, <1>5, <1>6 DEF ClaimInv, Claiming
<1>8. NestInv(e)' BY Zenon, <1>1 DEF NestInv
<1> QED BY Zenon, <1>7, <1>8

\* A step of delivery d keeps the invariant if it keeps the parts that d can
\* disturb.
LEMMA Assemble ==
    ASSUME LInv, NEW d \in Deliveries, Alone(d), Kept(d),
           TypeOK', TableInv', ClaimInv(d)', NestInv(d)',
           LineInv', NoOrphan', NoLostWakeup'
    PROVE  LInv'
<1>1. \A e \in Deliveries \ {d} : ClaimInv(e)' /\ NestInv(e)'
  BY Zenon, Others DEF LInv
<1> QED BY Zenon, <1>1 DEF LInv

\* It is enough to look at the locks that change hands and at d's own.
LEMMA OrphanStep ==
    ASSUME LInv, NEW d \in Deliveries, Alone(d),
           \A l \in Locks : \A e \in Deliveries :
             holder'[l] = e /\ (holder[l] # e \/ e = d) => Witness(e, l)'
    PROVE  NoOrphan'
<1> SUFFICES ASSUME NEW l \in Locks, NEW e \in Deliveries, holder'[l] = e
             PROVE  Witness(e, l)'
  BY Zenon DEF NoOrphan, Witness
<1>1. CASE holder[l] # e \/ e = d BY Zenon, <1>1
<1>2. CASE holder[l] = e /\ e # d
  <2>1. Witness(e, l) BY Zenon, <1>2 DEF LInv, NoOrphan, Witness
  <2>2. /\ pc'[e] = pc[e] /\ want'[e] = want[e] /\ scope'[e] = scope[e]
        /\ \A o \in Orders : ptr'[<<e, o>>] = ptr[<<e, o>>]
    BY Zenon, <1>2 DEF Alone
  <2> QED BY Zenon, <2>1, <2>2 DEF Witness, Held
<1> QED BY Zenon, <1>1, <1>2

-----------------------------------------------------------------------------
(* What the invariant says of a lock that is held and of one with a line.  *)

\* A delivery holds the lock of each order it has claimed.
LEMMA HeldLocks ==
    ASSUME LInv, NEW e \in Deliveries, NEW q \in Held(e)
    PROVE  q \in Orders /\ ptr[<<e, q>>] \in Locks /\ holder[ptr[<<e, q>>]] = e
<1>1. q \in Orders BY Zenon, Elements DEF Held, LInv, TypeOK
<1>2. ptr[<<e, q>>] # None /\ holder[ptr[<<e, q>>]] = e BY Zenon DEF LInv, ClaimInv
<1>3. <<e, q>> \in Pairs BY Zenon, <1>1 DEF Pairs
<1> QED BY Zenon, <1>1, <1>2, <1>3 DEF LInv, TypeOK

\* A delivery in a lock's line waits for that lock and does not hold it.
LEMMA InLine ==
    ASSUME LInv, NEW m \in Locks, NEW e \in Range(queue[m])
    PROVE  /\ e \in Deliveries /\ pc[e] = "queued" /\ want[e] \in Orders
           /\ ptr[<<e, want[e]>>] = m /\ holder[m] # e
<1>1. pc[e] = "queued" /\ Lock(e) = m /\ holder[m] # e BY Zenon DEF LInv, LineInv
<1>2. e \in Deliveries BY Zenon, Elements DEF LInv, TypeOK
<1>3. want[e] \in Orders BY Zenon, <1>1, <1>2 DEF LInv, ClaimInv, Claiming
<1> QED BY Zenon, <1>1, <1>2, <1>3 DEF Lock

\* Two orders of one delivery are two locks.
LEMMA OwnLocksDiffer ==
    ASSUME LInv, NEW d \in Deliveries, NEW o \in Orders, NEW q \in Orders,
           ptr[<<d, o>>] # None, ptr[<<d, o>>] = ptr[<<d, q>>]
    PROVE  o = q
<1>1. table[o] = ptr[<<d, o>>] /\ table[q] = ptr[<<d, q>>]
  BY Zenon DEF LInv, TableInv, HeldIsTabled
<1> QED BY Zenon, <1>1 DEF LInv, TableInv, Apart

\* The lines of a lock that a step leaves alone.
LEMMA LineStep ==
    ASSUME LInv, NEW d \in Deliveries, Alone(d), NEW m \in Locks,
           queue'[m] = queue[m], holder'[m] = holder[m],
           d \notin Range(queue[m])
    PROVE  /\ IsInjective(queue'[m])
           /\ \A e \in Range(queue'[m]) :
                pc'[e] = "queued" /\ Lock(e)' = m /\ holder'[m] # e
<1>1. IsInjective(queue'[m]) BY Zenon DEF LInv, LineInv
<1>2. ASSUME NEW e \in Range(queue[m])
      PROVE  pc'[e] = "queued" /\ Lock(e)' = m /\ holder'[m] # e
  <2>1. /\ e \in Deliveries /\ pc[e] = "queued" /\ want[e] \in Orders
        /\ ptr[<<e, want[e]>>] = m /\ holder[m] # e
    BY Zenon, InLine
  <2>2. e \in Deliveries \ {d} BY Zenon, <2>1
  <2> QED BY <2>1, <2>2 DEF Alone, Lock
<1> QED BY Zenon, <1>1, <1>2

-----------------------------------------------------------------------------
(* Each action keeps the invariant.                                        *)

\* A delivery turns to one more order: Start and ClaimChild.
LEMMA RefStep ==
    ASSUME LInv, NEW d \in Deliveries, NEW o \in Orders,
           pc[d] \in {"idle", "work"}, o \notin Held(d),
           scope[d] # <<>> => Len(scope[d]) = 1 /\ Children[o] = {},
           Ref(d, o),
           pc' = [pc EXCEPT ![d] = "send"],
           want' = [want EXCEPT ![d] = o],
           scope' = scope,
           todo' \in [Deliveries -> SUBSET Orders]
    PROVE  LInv'
<1>1. TypeOK /\ TableInv /\ ClaimInv(d) /\ NestInv(d) /\ None \notin Deliveries
  BY Zenon, LocksAssumption DEF LInv
<1>2. ptr[<<d, o>>] = None BY Zenon, <1>1 DEF ClaimInv, Claiming
<1>3. /\ TableInv'
      /\ table' \in [Orders -> Locks \cup {None}]
      /\ refs' \in [Locks -> Nat]
      /\ ptr' \in [Pairs -> Locks \cup {None}]
      /\ ptr'[<<d, o>>] \in Locks
      /\ \A p \in Pairs \ {<<d, o>>} : ptr'[p] = ptr[p]
  BY Zenon, <1>1, <1>2, RefTable
<1>4. /\ holder' \in [Locks -> Deliveries \cup {None}]
      /\ queue' \in [Locks -> Seq(Deliveries)]
      /\ \A m \in Locks :
           \/ holder'[m] = holder[m] /\ queue'[m] = queue[m]
           \/ /\ holder'[m] = None /\ queue'[m] = <<>>
              /\ \A p \in Pairs : ptr[p] # m
  BY Zenon, <1>1, RefLocks
<1>5. /\ pc' \in [Deliveries -> {"idle", "send", "queued", "drop", "work", "unref"}]
      /\ want' \in [Deliveries -> Orders \cup {None}]
      /\ pc'[d] = "send" /\ want'[d] = o
      /\ \A e \in Deliveries \ {d} : pc'[e] = pc[e] /\ want'[e] = want[e]
  BY Zenon, <1>1 DEF TypeOK
<1>6. TypeOK' BY Zenon, <1>1, <1>3, <1>4, <1>5 DEF TypeOK
<1>7. \A e \in Deliveries : \A q \in Orders :
        <<e, q>> # <<d, o>> => ptr'[<<e, q>>] = ptr[<<e, q>>]
  BY Zenon, <1>3 DEF Pairs
<1>8. Alone(d) BY <1>5, <1>7 DEF Alone
<1>9. \A e \in Deliveries : \A q \in Orders :
        ptr[<<e, q>>] # None =>
          /\ ptr[<<e, q>>] \in Locks
          /\ holder'[ptr[<<e, q>>]] = holder[ptr[<<e, q>>]]
  <2> TAKE e \in Deliveries
  <2> TAKE q \in Orders
  <2> HAVE ptr[<<e, q>>] # None
  <2>1. <<e, q>> \in Pairs BY Zenon DEF Pairs
  <2>2. ptr[<<e, q>>] \in Locks BY Zenon, <2>1, <1>1 DEF TypeOK
  <2> QED BY Zenon, <2>1, <2>2, <1>4
<1>10. \A e \in Deliveries : Held(e) \subseteq Orders /\ Held(e)' = Held(e)
  BY Zenon, <1>1, Elements DEF Held, TypeOK
<1>11. Kept(d)
  <2> SUFFICES ASSUME NEW e \in Deliveries \ {d}, NEW q \in Held(e)
               PROVE  holder'[ptr[<<e, q>>]] = e
    BY Zenon DEF Kept
  <2>1. q \in Orders /\ ptr[<<e, q>>] \in Locks /\ holder[ptr[<<e, q>>]] = e
    BY Zenon, HeldLocks
  <2> QED BY Zenon, <2>1, <1>9, LocksAssumption
<1>12. ClaimInv(d)'
  <2>1. want'[d] \in Orders \ Held(d)' /\ Lock(d)' # None
    BY <1>3, <1>5, <1>10, LocksAssumption DEF Lock
  <2>2. \A q \in Held(d)' : ptr'[<<d, q>>] # None /\ holder'[ptr'[<<d, q>>]] = d
    BY <1>1, <1>7, <1>9, <1>10 DEF ClaimInv
  <2>3. \A q \in Orders :
          ptr'[<<d, q>>] # None =>
            q \in Held(d)' \/ (pc'[d] \in Claiming /\ want'[d] = q)
    BY SMTT(30), <1>1, <1>5, <1>7, <1>10 DEF ClaimInv, Claiming
  <2>4. IsInjective(scope'[d]) BY Zenon, <1>1 DEF ClaimInv
  <2> QED BY Zenon, <2>1, <2>2, <2>3, <2>4, <1>5 DEF ClaimInv
<1>13. NestInv(d)' BY Zenon, <1>1, <1>5 DEF NestInv
<1>14. LineInv'
  <2> SUFFICES ASSUME NEW m \in Locks
               PROVE  /\ IsInjective(queue'[m])
                      /\ \A e \in Range(queue'[m]) :
                           pc'[e] = "queued" /\ Lock(e)' = m /\ holder'[m] # e
    BY Zenon DEF LineInv
  <2>1. CASE queue'[m] = <<>> BY <2>1 DEF IsInjective, Range
  <2>2. CASE holder'[m] = holder[m] /\ queue'[m] = queue[m]
    <3>1. d \notin Range(queue[m]) BY Zenon, InLine
    <3> QED BY Zenon, <2>2, <3>1, <1>8, LineStep
  <2> QED BY Zenon, <2>1, <2>2, <1>4
<1>15. NoOrphan'
  <2> SUFFICES ASSUME NEW l \in Locks, NEW e \in Deliveries, holder'[l] = e,
                      holder[l] # e \/ e = d
               PROVE  Witness(e, l)'
    BY Zenon, <1>8, OrphanStep
  <2>1. holder[l] = d /\ e = d BY Zenon, <1>1, <1>4
  <2>2. PICK q \in Orders : ptr[<<d, q>>] = l /\ q \in Held(d)
    BY Zenon, <2>1 DEF LInv, NoOrphan
  <2> QED BY Zenon, <2>1, <2>2, <1>7, <1>10 DEF Witness
<1>16. NoLostWakeup' BY Zenon, <1>4 DEF NoLostWakeup, LInv
<1> QED BY Zenon, <1>3, <1>6, <1>8, <1>11, <1>12, <1>13, <1>14, <1>15, <1>16, Assemble

\* A delivery is in: Acquire and Wake.
LEMMA EnterStep ==
    ASSUME LInv, NEW d \in Deliveries, NEW o \in Orders, NEW l \in Locks,
           pc[d] \in {"send", "queued"}, want[d] = o, ptr[<<d, o>>] = l,
           holder[l] \in {None, d},
           holder' = [holder EXCEPT ![l] = d],
           queue' = queue,
           Enter(d)
    PROVE  /\ LInv'
           /\ Held(d)' = Held(d) \cup {o}
           /\ \A e \in Deliveries \ {d} : Held(e)' = Held(e)
<1>1. TypeOK /\ TableInv /\ ClaimInv(d) /\ NestInv(d) BY Zenon DEF LInv
<1>2. o \notin Held(d) BY Zenon, <1>1 DEF ClaimInv, Claiming
<1>3. /\ table' = table /\ refs' = refs /\ ptr' = ptr /\ want' = want
      /\ pc' = [pc EXCEPT ![d] = "work"]
      /\ scope' = [scope EXCEPT ![d] = Append(@, o)]
  BY Zenon DEF Enter
<1>4. todo' \in [Deliveries -> SUBSET Orders]
  <2>1. PICK live \in SUBSET (IF d \in Tries THEN {} ELSE Children[want[d]]) :
          todo' = [todo EXCEPT ![d] = @ \cup live]
    BY Zenon DEF Enter
  <2>2. live \subseteq Orders BY Zenon, <2>1, LocksAssumption
  <2> QED BY Zenon, <1>1, <2>1, <2>2 DEF TypeOK
<1>5. /\ pc'[d] = "work" /\ \A e \in Deliveries \ {d} : pc'[e] = pc[e]
      /\ pc' \in [Deliveries -> {"idle", "send", "queued", "drop", "work", "unref"}]
  BY Zenon, <1>1, <1>3 DEF TypeOK
<1>6. scope[d] \in Seq(Orders) BY Zenon, <1>1 DEF TypeOK
<1>7. /\ scope'[d] = Append(scope[d], o)
      /\ \A e \in Deliveries \ {d} : scope'[e] = scope[e]
  BY Zenon, <1>1, <1>3 DEF TypeOK
<1>8. /\ Append(scope[d], o) \in Seq(Orders)
      /\ Len(scope'[d]) = Len(scope[d]) + 1
      /\ Last(scope'[d]) = o
      /\ Held(d)' = Held(d) \cup {o}
      /\ IsInjective(scope'[d])
  <2>1. IsInjective(scope[d]) /\ o \notin Range(scope[d])
    BY Zenon, <1>1, <1>2 DEF ClaimInv, Held
  <2> QED BY <1>6, <1>7, <2>1, AppendLast DEF Held
<1>9. scope' \in [Deliveries -> Seq(Orders)] BY Zenon, <1>1, <1>3, <1>8 DEF TypeOK
<1>10. /\ holder'[l] = d /\ \A m \in Locks \ {l} : holder'[m] = holder[m]
       /\ holder' \in [Locks -> Deliveries \cup {None}]
  BY Zenon, <1>1 DEF TypeOK
<1>11. TypeOK' BY Zenon, <1>1, <1>3, <1>4, <1>5, <1>9, <1>10 DEF TypeOK
<1>12. TableInv'
  BY Zenon, <1>1, <1>3 DEF TableInv, HeldIsTabled, Counted, Listed, Apart
<1>13. Alone(d) BY Zenon, <1>3, <1>5, <1>7 DEF Alone
<1>14. Kept(d)
  <2> SUFFICES ASSUME NEW e \in Deliveries \ {d}, NEW q \in Held(e)
               PROVE  holder'[ptr[<<e, q>>]] = e
    BY Zenon DEF Kept
  <2>1. q \in Orders /\ ptr[<<e, q>>] \in Locks /\ holder[ptr[<<e, q>>]] = e
    BY Zenon, HeldLocks
  <2>2. ptr[<<e, q>>] # l BY Zenon, <2>1, LocksAssumption
  <2> QED BY Zenon, <2>1, <2>2, <1>10
<1>15. ClaimInv(d)'
  <2>1. scope'[d] # <<>> BY SMTT(30), <1>6, <1>7, <1>8, Elements
  <2>2. \A q \in Held(d)' : ptr'[<<d, q>>] # None /\ holder'[ptr'[<<d, q>>]] = d
    <3> SUFFICES ASSUME NEW q \in Held(d)'
                 PROVE  ptr[<<d, q>>] # None /\ holder'[ptr[<<d, q>>]] = d
      BY Zenon, <1>3
    <3>1. CASE q = o BY Zenon, <3>1, <1>10, LocksAssumption
    <3>2. CASE q \in Held(d)
      <4>1. ptr[<<d, q>>] \in Locks /\ holder[ptr[<<d, q>>]] = d
        BY Zenon, <3>2, HeldLocks
      <4> QED BY Zenon, <4>1, <1>10, LocksAssumption
    <3> QED BY Zenon, <3>1, <3>2, <1>8
  <2>3. \A q \in Orders : ptr'[<<d, q>>] # None => q \in Held(d)'
    BY Zenon, <1>1, <1>3, <1>8 DEF ClaimInv
  <2> QED BY Zenon, <2>1, <2>2, <2>3, <1>5, <1>8 DEF ClaimInv, Claiming
<1>16. NestInv(d)'
  <2>1. Len(scope[d]) \in Nat /\ (scope[d] = <<>> => Len(scope[d]) = 0)
    BY SMTT(30), <1>6, Elements
  <2>2. scope[d] # <<>> => Len(scope[d]) = 1 /\ Children[o] = {}
    BY Zenon, <1>1 DEF NestInv
  <2>3. pc'[d] \notin {"send", "queued"} BY Zenon, <1>5
  <2>4. /\ Len(scope'[d]) <= 2
        /\ Len(scope'[d]) = 2 => scope[d] # <<>>
    <3> DEFINE n == Len(scope[d])
               k == Len(scope'[d])
    <3>1. k = n + 1 BY Zenon, <1>8
    <3>2. n \in Nat /\ (scope[d] = <<>> => n = 0) /\ (scope[d] # <<>> => n = 1)
      BY Zenon, <2>1, <2>2
    <3> HIDE DEF n, k
    <3>3. k <= 2 /\ (k = 2 => scope[d] # <<>>) BY <3>1, <3>2
    <3> QED BY Zenon, <3>3 DEF k
  <2> QED BY Zenon, <2>2, <2>3, <2>4, <1>8 DEF NestInv, MaxClaimDepth
<1>17. \A m \in Locks : d \notin Range(queue[m])
  <2> SUFFICES ASSUME NEW m \in Locks, d \in Range(queue[m]) PROVE FALSE
    BY Zenon
  <2>1. m = l /\ holder[l] = None BY InLine
  <2>2. queue[l] = <<>> BY Zenon, <2>1 DEF LInv, NoLostWakeup
  <2> QED BY <2>1, <2>2 DEF Range
<1>18. LineInv'
  <2> SUFFICES ASSUME NEW m \in Locks
               PROVE  /\ IsInjective(queue'[m])
                      /\ \A e \in Range(queue'[m]) :
                           pc'[e] = "queued" /\ Lock(e)' = m /\ holder'[m] # e
    BY Zenon DEF LineInv
  <2>1. CASE m # l BY Zenon, <2>1, <1>10, <1>13, <1>17, LineStep
  <2>2. CASE m = l
    <3>1. IsInjective(queue'[l]) BY Zenon DEF LInv, LineInv
    <3>2. ASSUME NEW e \in Range(queue[l])
          PROVE  pc'[e] = "queued" /\ Lock(e)' = l /\ holder'[l] # e
      <4>1. /\ e \in Deliveries /\ pc[e] = "queued" /\ want[e] \in Orders
            /\ ptr[<<e, want[e]>>] = l
        BY InLine
      <4>2. e # d BY Zenon, <1>17
      <4> QED BY Zenon, <4>1, <4>2, <1>3, <1>5, <1>10 DEF Lock
    <3> QED BY Zenon, <2>2, <3>1, <3>2
  <2> QED BY Zenon, <2>1, <2>2
<1>19. NoOrphan'
  <2> SUFFICES ASSUME NEW m \in Locks, NEW e \in Deliveries, holder'[m] = e,
                      holder[m] # e \/ e = d
               PROVE  Witness(e, m)'
    BY Zenon, <1>13, OrphanStep
  <2>1. CASE m = l
    <3>1. e = d BY Zenon, <2>1, <1>10
    <3> QED BY Zenon, <2>1, <3>1, <1>3, <1>8 DEF Witness
  <2>2. CASE m # l
    <3>1. holder[m] = d /\ e = d BY Zenon, <2>2, <1>10
    <3>2. PICK q \in Orders :
            /\ ptr[<<d, q>>] = m
            /\ q \in Held(d) \/ (pc[d] = "queued" /\ want[d] = q)
      BY Zenon, <3>1 DEF LInv, NoOrphan
    <3>3. q \in Held(d) BY Zenon, <3>2, <2>2
    <3> QED BY Zenon, <3>1, <3>2, <3>3, <1>3, <1>8 DEF Witness
  <2> QED BY Zenon, <2>1, <2>2
<1>20. NoLostWakeup'
  BY Zenon, <1>10, LocksAssumption DEF NoLostWakeup, LInv
<1>21. \A e \in Deliveries \ {d} : Held(e)' = Held(e) BY Zenon, <1>7 DEF Held
<1>22. LInv'
  BY Zenon, <1>11, <1>12, <1>13, <1>14, <1>15, <1>16, <1>18, <1>19, <1>20, Assemble
<1> QED BY Zenon, <1>8, <1>21, <1>22

\* A delivery looks, joins the line or leaves it: Busy, Block and GiveUp.
LEMMA LookStep ==
    ASSUME LInv, NEW d \in Deliveries, NEW p \in {"queued", "drop"},
           pc[d] \in {"send", "queued"},
           p = "drop" => \A l \in Locks : holder[l] = d => Lock(d) # l \/ pc[d] = "send",
           pc' = [pc EXCEPT ![d] = p],
           queue' \in [Locks -> Seq(Deliveries)],
           todo' \in [Deliveries -> SUBSET Orders],
           UNCHANGED <<table, refs, holder, ptr, want, scope>>,
           LineInv', NoLostWakeup'
    PROVE  LInv'
<1>1. TypeOK /\ TableInv /\ ClaimInv(d) /\ NestInv(d) BY Zenon DEF LInv
<1>2. /\ pc'[d] = p /\ \A e \in Deliveries \ {d} : pc'[e] = pc[e]
      /\ pc' \in [Deliveries -> {"idle", "send", "queued", "drop", "work", "unref"}]
  BY Zenon, <1>1 DEF TypeOK
<1>3. TypeOK' BY Zenon, <1>1, <1>2 DEF TypeOK
<1>4. TableInv' BY Zenon, <1>1 DEF TableInv, HeldIsTabled, Counted, Listed, Apart
<1>5. Alone(d) BY Zenon, <1>2 DEF Alone
<1>6. Kept(d) BY Zenon, HeldLocks DEF Kept
<1>7. ClaimInv(d)'
  <2>1. Held(d)' = Held(d) /\ Lock(d)' = Lock(d) BY Zenon DEF Held, Lock
  <2>2. pc[d] \in Claiming /\ pc'[d] \in Claiming \ {"idle", "work"}
    BY Zenon, <1>2 DEF Claiming
  <2> QED BY Zenon, <1>1, <2>1, <2>2 DEF ClaimInv
<1>8. NestInv(d)' BY Zenon, <1>1, <1>2 DEF NestInv
<1>9. NoOrphan'
  <2> SUFFICES ASSUME NEW l \in Locks, NEW e \in Deliveries, holder'[l] = e,
                      holder[l] # e \/ e = d
               PROVE  Witness(e, l)'
    BY Zenon, <1>5, OrphanStep
  <2>1. holder[l] = d /\ e = d BY Zenon
  <2>2. PICK q \in Orders :
          /\ ptr[<<d, q>>] = l
          /\ q \in Held(d) \/ (pc[d] = "queued" /\ want[d] = q)
    <3>1. NoOrphan BY Zenon DEF LInv
    <3> QED BY Zenon, <2>1, <3>1 DEF NoOrphan
  <2>3. CASE q \in Held(d) BY Zenon, <2>1, <2>2, <2>3 DEF Witness, Held
  <2>4. CASE pc[d] = "queued" /\ want[d] = q
    <3>1. p = "queued" BY Zenon, <2>1, <2>2, <2>4 DEF Lock
    <3> QED BY Zenon, <2>1, <2>2, <2>4, <3>1, <1>2 DEF Witness
  <2> QED BY Zenon, <2>2, <2>3, <2>4
<1> QED BY Zenon, <1>3, <1>4, <1>5, <1>6, <1>7, <1>8, <1>9, Assemble

\* A non-blocking claim that finds the lock taken keeps the invariant.
LEMMA BusyStep == ASSUME LInv, NEW d \in Deliveries, Busy(d) PROVE LInv'
<1>1. /\ pc[d] = "send" /\ pc' = [pc EXCEPT ![d] = "drop"] /\ queue' = queue
      /\ UNCHANGED <<table, refs, holder, ptr, want, scope, todo>>
  BY Zenon DEF Busy
<1>2. /\ queue' \in [Locks -> Seq(Deliveries)]
      /\ todo' \in [Deliveries -> SUBSET Orders]
  BY Zenon, <1>1 DEF LInv, TypeOK
<1>3. \A e \in Deliveries \ {d} : pc'[e] = pc[e] BY Zenon, <1>1 DEF LInv, TypeOK
<1>4. Alone(d) BY Zenon, <1>1, <1>3 DEF Alone
<1>5. LineInv'
  <2>1. \A m \in Locks : d \notin Range(queue[m]) BY Zenon, <1>1, InLine
  <2> QED BY Zenon, <1>1, <1>4, <2>1, LineStep DEF LineInv
<1>6. NoLostWakeup' BY Zenon, <1>1 DEF LInv, NoLostWakeup
<1> QED BY Zenon, <1>1, <1>2, <1>5, <1>6, LookStep

\* A delivery that joins the line keeps the invariant.
LEMMA BlockStep == ASSUME LInv, NEW d \in Deliveries, Block(d) PROVE LInv'
<1>1. /\ pc[d] = "send" /\ pc' = [pc EXCEPT ![d] = "queued"]
      /\ holder[Lock(d)] # None
      /\ queue' = [queue EXCEPT ![Lock(d)] = Append(@, d)]
      /\ UNCHANGED <<table, refs, holder, ptr, want, scope, todo>>
  BY Zenon DEF Block
<1>2. want[d] \in Orders \ Held(d) /\ Lock(d) # None
  BY Zenon, <1>1 DEF LInv, ClaimInv, Claiming
<1>3. PICK l \in Locks : l = ptr[<<d, want[d]>>]
  <2>1. <<d, want[d]>> \in Pairs BY Zenon, <1>2 DEF Pairs
  <2> QED BY Zenon, <1>2, <2>1 DEF LInv, TypeOK, Lock
<1>4. /\ queue'[l] = Append(queue[l], d) /\ queue[l] \in Seq(Deliveries)
      /\ \A m \in Locks \ {l} : queue'[m] = queue[m]
  BY Zenon, <1>1, <1>3 DEF LInv, TypeOK, Lock
<1>5. \A m \in Locks : d \notin Range(queue[m]) BY Zenon, <1>1, InLine
<1>6. IsInjective(queue[l]) BY Zenon DEF LInv, LineInv
<1>7. /\ queue'[l] \in Seq(Deliveries) /\ IsInjective(queue'[l])
      /\ Range(queue'[l]) = Range(queue[l]) \cup {d}
  BY <1>4, <1>5, <1>6, AppendLast
<1>8. queue' \in [Locks -> Seq(Deliveries)]
  BY Zenon, <1>1, <1>3, <1>4, <1>7 DEF LInv, TypeOK, Lock
<1>9. todo' \in [Deliveries -> SUBSET Orders] BY Zenon, <1>1 DEF LInv, TypeOK
<1>10. pc'[d] = "queued" /\ \A e \in Deliveries \ {d} : pc'[e] = pc[e]
  BY Zenon, <1>1 DEF LInv, TypeOK
<1>11. Alone(d) BY Zenon, <1>1, <1>10 DEF Alone
<1>12. holder[l] # d
  <2> SUFFICES ASSUME holder[l] = d PROVE FALSE BY Zenon
  <2>1. PICK q \in Orders : ptr[<<d, q>>] = l /\ q \in Held(d)
    BY Zenon, <1>1 DEF LInv, NoOrphan
  <2>2. l # None BY Zenon, LocksAssumption
  <2>3. q = want[d] BY <1>2, <1>3, <2>1, <2>2, OwnLocksDiffer
  <2> QED BY Zenon, <1>2, <2>1, <2>3
<1>13. LineInv'
  <2> SUFFICES ASSUME NEW m \in Locks
               PROVE  /\ IsInjective(queue'[m])
                      /\ \A e \in Range(queue'[m]) :
                           pc'[e] = "queued" /\ Lock(e)' = m /\ holder'[m] # e
    BY Zenon DEF LineInv
  <2>1. CASE m # l BY <2>1, <1>1, <1>4, <1>5, <1>11, LineStep
  <2>2. CASE m = l
    <3>1. ASSUME NEW e \in Range(queue[l])
          PROVE  pc'[e] = "queued" /\ Lock(e)' = l /\ holder'[l] # e
      <4>1. /\ e \in Deliveries /\ pc[e] = "queued" /\ want[e] \in Orders
            /\ ptr[<<e, want[e]>>] = l /\ holder[l] # e
        BY Zenon, InLine
      <4>2. e # d BY Zenon, <1>5
      <4> QED BY Zenon, <4>1, <4>2, <1>1, <1>10 DEF Lock
    <3>2. pc'[d] = "queued" /\ Lock(d)' = l /\ holder'[l] # d
      BY Zenon, <1>1, <1>3, <1>10, <1>12 DEF Lock
    <3> QED BY Zenon, <2>2, <3>1, <3>2, <1>7
  <2> QED BY Zenon, <2>1, <2>2
<1>14. NoLostWakeup'
  <2>1. holder'[l] # None BY Zenon, <1>1, <1>3 DEF Lock
  <2> QED BY Zenon, <2>1, <1>1, <1>4 DEF LInv, NoLostWakeup
<1> QED BY Zenon, <1>1, <1>8, <1>9, <1>13, <1>14, LookStep

\* A waiter whose context ends keeps the invariant.
LEMMA GiveUpStep == ASSUME LInv, NEW d \in Deliveries, GiveUp(d) PROVE LInv'
<1>1. /\ pc[d] \in {"send", "queued"} /\ pc' = [pc EXCEPT ![d] = "drop"]
      /\ todo' = [todo EXCEPT ![d] = {}]
      /\ UNCHANGED <<table, refs, holder, ptr, want, scope>>
  BY Zenon DEF GiveUp
<1>2. todo' \in [Deliveries -> SUBSET Orders] BY Zenon, <1>1 DEF LInv, TypeOK
<1>3. pc'[d] = "drop" /\ \A e \in Deliveries \ {d} : pc'[e] = pc[e]
  BY Zenon, <1>1 DEF LInv, TypeOK
<1>4. Alone(d) BY Zenon, <1>1, <1>3 DEF Alone
<1>5. CASE pc[d] = "send"
  <2>1. queue' = queue BY Zenon, <1>5 DEF GiveUp
  <2>2. queue' \in [Locks -> Seq(Deliveries)] BY Zenon, <2>1 DEF LInv, TypeOK
  <2>3. \A m \in Locks : d \notin Range(queue[m]) BY Zenon, <1>5, InLine
  <2>4. LineInv' BY Zenon, <1>1, <1>4, <2>1, <2>3, LineStep DEF LineInv
  <2>5. NoLostWakeup' BY Zenon, <1>1, <2>1 DEF LInv, NoLostWakeup
  <2> QED BY Zenon, <1>1, <1>2, <1>5, <2>2, <2>4, <2>5, LookStep
<1>6. CASE pc[d] = "queued"
  <2>1. want[d] \in Orders /\ Lock(d) # None
    BY Zenon, <1>6 DEF LInv, ClaimInv, Claiming
  <2>2. PICK l \in Locks : l = ptr[<<d, want[d]>>]
    <3>1. <<d, want[d]>> \in Pairs BY Zenon, <2>1 DEF Pairs
    <3> QED BY Zenon, <2>1, <3>1 DEF LInv, TypeOK, Lock
  <2>3. PICK i \in DOMAIN queue[l] :
          queue[l][i] = d /\ queue' = [queue EXCEPT ![l] = RemoveAt(@, i)]
    BY Zenon, <1>6, <2>2 DEF GiveUp, Lock
  <2>4. /\ queue[l] \in Seq(Deliveries)
        /\ queue'[l] = RemoveAt(queue[l], i)
        /\ \A m \in Locks \ {l} : queue'[m] = queue[m]
    BY Zenon, <2>3 DEF LInv, TypeOK
  <2>5. IsInjective(queue[l]) BY Zenon DEF LInv, LineInv
  <2>6. /\ queue'[l] \in Seq(Deliveries) /\ IsInjective(queue'[l])
        /\ Range(queue'[l]) \subseteq Range(queue[l]) \ {d}
    BY <2>3, <2>4, <2>5, Without
  <2>7. queue' \in [Locks -> Seq(Deliveries)]
    BY Zenon, <2>3, <2>4, <2>6 DEF LInv, TypeOK
  <2>8. holder[l] # d
    <3>1. d \in Range(queue[l]) BY Zenon, <2>3 DEF Range
    <3> QED BY Zenon, <3>1, InLine
  <2>9. LineInv'
    <3> SUFFICES ASSUME NEW m \in Locks
                 PROVE  /\ IsInjective(queue'[m])
                        /\ \A e \in Range(queue'[m]) :
                             pc'[e] = "queued" /\ Lock(e)' = m /\ holder'[m] # e
      BY Zenon DEF LineInv
    <3>1. CASE m # l
      <4>1. d \notin Range(queue[m]) BY Zenon, <3>1, <2>2, InLine
      <4> QED BY Zenon, <3>1, <4>1, <1>1, <1>4, <2>4, LineStep
    <3>2. CASE m = l
      <4>1. ASSUME NEW e \in Range(queue[l]) \ {d}
            PROVE  pc'[e] = "queued" /\ Lock(e)' = l /\ holder'[l] # e
        <5>1. /\ e \in Deliveries /\ pc[e] = "queued" /\ want[e] \in Orders
              /\ ptr[<<e, want[e]>>] = l /\ holder[l] # e
          BY Zenon, InLine
        <5> QED BY Zenon, <5>1, <1>1, <1>3 DEF Lock
      <4> QED BY Zenon, <3>2, <4>1, <2>6
    <3> QED BY Zenon, <3>1, <3>2
  <2>10. NoLostWakeup'
    <3> SUFFICES ASSUME NEW m \in Locks, holder[m] = None PROVE queue'[m] = <<>>
      BY Zenon, <1>1 DEF NoLostWakeup
    <3>1. queue[m] = <<>> BY Zenon DEF LInv, NoLostWakeup
    <3>2. m # l BY <3>1, <2>3
    <3> QED BY Zenon, <3>1, <3>2, <2>4
  <2>11. \A m \in Locks : holder[m] = d => Lock(d) # m BY Zenon, <2>2, <2>8 DEF Lock
  <2> QED BY Zenon, <1>1, <1>2, <2>7, <2>9, <2>10, <2>11, LookStep
<1> QED BY Zenon, <1>1, <1>5, <1>6


-----------------------------------------------------------------------------
\* The receive that frees a lock hands it to the head of the line.
LEMMA ReleaseStep ==
    ASSUME LInv, NEW d \in Deliveries, Release(d)
    PROVE  /\ LInv'
           /\ \E o \in Held(d) : Held(d)' = Held(d) \ {o}
           /\ \A e \in Deliveries \ {d} : Held(e)' = Held(e)
<1>1. TypeOK /\ TableInv /\ ClaimInv(d) /\ NestInv(d) BY Zenon DEF LInv
<1>2. pc[d] = "work" /\ scope[d] \in Seq(Orders) /\ scope[d] # <<>>
  BY Zenon, <1>1 DEF Release, ClaimInv, TypeOK
<1>3. PICK o \in Orders : o = Last(scope[d]) BY Zenon, <1>2, FrontLast
<1>4. /\ Front(scope[d]) \in Seq(Orders)
      /\ Len(Front(scope[d])) = Len(scope[d]) - 1
      /\ Held(d) = Range(Front(scope[d])) \cup {o}
      /\ IsInjective(Front(scope[d]))
      /\ o \notin Range(Front(scope[d]))
  BY Zenon, <1>1, <1>2, <1>3, FrontLast DEF ClaimInv, Held
<1>5. PICK l \in Locks : l = ptr[<<d, o>>] /\ holder[l] = d BY Zenon, <1>4, HeldLocks
<1>6. /\ holder' = [holder EXCEPT
                      ![l] = IF queue[l] = <<>> THEN None ELSE Head(queue[l])]
      /\ queue' = [queue EXCEPT ![l] = IF @ = <<>> THEN <<>> ELSE Tail(@)]
      /\ want' = [want EXCEPT ![d] = o]
      /\ scope' = [scope EXCEPT ![d] = Front(@)]
      /\ pc' = [pc EXCEPT ![d] = "unref"]
      /\ UNCHANGED <<table, refs, ptr, todo>>
  BY Zenon, <1>3, <1>5 DEF Release
<1>7. queue[l] \in Seq(Deliveries) BY Zenon, <1>1 DEF TypeOK
<1>8. /\ holder'[l] = IF queue[l] = <<>> THEN None ELSE Head(queue[l])
      /\ \A m \in Locks \ {l} : holder'[m] = holder[m]
  BY Zenon, <1>1, <1>6 DEF TypeOK
<1>9. /\ queue'[l] = IF queue[l] = <<>> THEN <<>> ELSE Tail(queue[l])
      /\ \A m \in Locks \ {l} : queue'[m] = queue[m]
  BY Zenon, <1>1, <1>6 DEF TypeOK
<1>10. /\ queue[l] # <<>> =>
            /\ Head(queue[l]) \in Range(queue[l])
            /\ Head(queue[l]) \in Deliveries
            /\ Tail(queue[l]) \in Seq(Deliveries)
            /\ Range(Tail(queue[l])) \subseteq Range(queue[l])
            /\ IsInjective(Tail(queue[l]))
            /\ Head(queue[l]) \notin Range(Tail(queue[l]))
  <2>1. IsInjective(queue[l]) BY Zenon DEF LInv, LineInv
  <2> QED BY Zenon, <1>7, <2>1, HeadTail
<1>11. TypeOK'
  <2>1. holder' \in [Locks -> Deliveries \cup {None}]
    <3>1. (IF queue[l] = <<>> THEN None ELSE Head(queue[l])) \in Deliveries \cup {None}
      BY Zenon, <1>10
    <3> QED BY Zenon, <3>1, <1>1, <1>6 DEF TypeOK
  <2>2. queue' \in [Locks -> Seq(Deliveries)]
    <3>1. (IF queue[l] = <<>> THEN <<>> ELSE Tail(queue[l])) \in Seq(Deliveries)
      BY Zenon, <1>7, <1>10
    <3> QED BY Zenon, <3>1, <1>1, <1>6 DEF TypeOK
  <2>3. /\ want' \in [Deliveries -> Orders \cup {None}]
        /\ pc' \in [Deliveries -> {"idle", "send", "queued", "drop", "work", "unref"}]
    BY Zenon, <1>1, <1>6 DEF TypeOK
  <2>4. scope' \in [Deliveries -> Seq(Orders)] BY Zenon, <1>1, <1>4, <1>6 DEF TypeOK
  <2> QED BY Zenon, <2>1, <2>2, <2>3, <2>4, <1>1, <1>6 DEF TypeOK
<1>12. TableInv'
  BY Zenon, <1>1, <1>6 DEF TableInv, HeldIsTabled, Counted, Listed, Apart
<1>13. /\ pc'[d] = "unref" /\ want'[d] = o /\ scope'[d] = Front(scope[d])
       /\ \A e \in Deliveries \ {d} :
            pc'[e] = pc[e] /\ want'[e] = want[e] /\ scope'[e] = scope[e]
  BY Zenon, <1>1, <1>6 DEF TypeOK
<1>14. Alone(d) BY Zenon, <1>6, <1>13 DEF Alone
<1>15. Kept(d)
  <2> SUFFICES ASSUME NEW e \in Deliveries \ {d}, NEW q \in Held(e)
               PROVE  holder'[ptr[<<e, q>>]] = e
    BY Zenon DEF Kept
  <2>1. ptr[<<e, q>>] \in Locks /\ holder[ptr[<<e, q>>]] = e BY Zenon, HeldLocks
  <2> QED BY Zenon, <2>1, <1>5, <1>8
<1>16. Held(d)' = Held(d) \ {o} BY Zenon, <1>4, <1>13 DEF Held
<1>17. ASSUME NEW q \in Held(d) \ {o}
       PROVE  /\ q \in Orders /\ ptr[<<d, q>>] \in Locks \ {l}
              /\ holder'[ptr[<<d, q>>]] = d
  <2>1. q \in Orders /\ ptr[<<d, q>>] \in Locks /\ holder[ptr[<<d, q>>]] = d
    BY Zenon, HeldLocks
  <2>2. ptr[<<d, q>>] # l BY Zenon, <2>1, <1>5, LocksAssumption, OwnLocksDiffer
  <2> QED BY Zenon, <2>1, <2>2, <1>8
<1>18. ClaimInv(d)'
  <2>1. want'[d] \in Orders \ Held(d)' /\ Lock(d)' # None
    BY Zenon, <1>5, <1>6, <1>13, <1>16, LocksAssumption DEF Lock
  <2>2. \A q \in Held(d)' : ptr'[<<d, q>>] # None /\ holder'[ptr'[<<d, q>>]] = d
    BY <1>6, <1>16, <1>17, LocksAssumption
  <2>3. \A q \in Orders :
          ptr'[<<d, q>>] # None =>
            q \in Held(d)' \/ (pc'[d] \in Claiming /\ want'[d] = q)
    BY Zenon, <1>1, <1>2, <1>6, <1>13, <1>16 DEF ClaimInv, Claiming
  <2>4. IsInjective(scope'[d]) BY Zenon, <1>4, <1>13
  <2> QED BY Zenon, <2>1, <2>2, <2>3, <2>4, <1>13 DEF ClaimInv
<1>19. NestInv(d)'
  <2> DEFINE n == Len(scope[d])
             k == Len(scope'[d])
  <2>1. n \in Nat /\ n <= 2 /\ k = n - 1
    BY Zenon, <1>1, <1>2, <1>4, <1>13, Elements DEF NestInv, MaxClaimDepth
  <2> HIDE DEF n, k
  <2>2. k <= 2 /\ k # 2 BY <2>1
  <2>3. pc'[d] \notin {"send", "queued"} BY Zenon, <1>13
  <2> QED BY Zenon, <2>2, <2>3 DEF NestInv, MaxClaimDepth, k
<1>20. \A m \in Locks : d \notin Range(queue[m]) BY Zenon, <1>2, InLine
<1>21. LineInv'
  <2> SUFFICES ASSUME NEW m \in Locks
               PROVE  /\ IsInjective(queue'[m])
                      /\ \A e \in Range(queue'[m]) :
                           pc'[e] = "queued" /\ Lock(e)' = m /\ holder'[m] # e
    BY Zenon DEF LineInv
  <2>1. CASE m # l BY Zenon, <2>1, <1>8, <1>9, <1>14, <1>20, LineStep
  <2>2. CASE m = l /\ queue[l] = <<>>
    <3>1. queue'[m] = <<>> BY Zenon, <2>2, <1>9
    <3> QED BY <3>1 DEF IsInjective, Range
  <2>3. CASE m = l /\ queue[l] # <<>>
    <3>1. queue'[l] = Tail(queue[l]) /\ holder'[l] = Head(queue[l])
      BY Zenon, <2>3, <1>8, <1>9
    <3>2. ASSUME NEW e \in Range(Tail(queue[l]))
          PROVE  pc'[e] = "queued" /\ Lock(e)' = l /\ holder'[l] # e
      <4>1. e \in Range(queue[l]) BY Zenon, <2>3, <1>10
      <4>2. /\ e \in Deliveries /\ pc[e] = "queued" /\ want[e] \in Orders
            /\ ptr[<<e, want[e]>>] = l
        BY Zenon, <4>1, InLine
      <4>3. e # d /\ holder'[l] # e BY Zenon, <4>1, <3>1, <2>3, <1>10, <1>20
      <4> QED BY Zenon, <4>2, <4>3, <1>6, <1>13 DEF Lock
    <3> QED BY Zenon, <2>3, <3>1, <3>2, <1>10
  <2> QED BY Zenon, <2>1, <2>2, <2>3
<1>22. NoOrphan'
  <2> SUFFICES ASSUME NEW m \in Locks, NEW e \in Deliveries, holder'[m] = e,
                      holder[m] # e \/ e = d
               PROVE  Witness(e, m)'
    BY Zenon, <1>14, OrphanStep
  <2>1. CASE m = l
    <3>1. queue[l] # <<>> /\ e = Head(queue[l])
      BY Zenon, <2>1, <1>8, LocksAssumption
    <3>2. e \in Range(queue[l]) BY Zenon, <3>1, <1>10
    <3>3. /\ pc[e] = "queued" /\ want[e] \in Orders /\ ptr[<<e, want[e]>>] = l
      BY Zenon, <3>2, InLine
    <3>4. e # d BY Zenon, <3>2, <1>20
    <3> QED BY <2>1, <3>3, <3>4, <1>6, <1>13 DEF Witness
  <2>2. CASE m # l
    <3>1. holder[m] = d /\ e = d BY Zenon, <2>2, <1>8
    <3>2. PICK q \in Orders : ptr[<<d, q>>] = m /\ q \in Held(d)
      BY Zenon, <3>1, <1>2 DEF LInv, NoOrphan
    <3>3. q \in Held(d)' BY Zenon, <3>2, <2>2, <1>5, <1>16
    <3> QED BY Zenon, <3>1, <3>2, <3>3, <1>6 DEF Witness
  <2> QED BY Zenon, <2>1, <2>2
<1>23. NoLostWakeup'
  <2> SUFFICES ASSUME NEW m \in Locks, holder'[m] = None PROVE queue'[m] = <<>>
    BY Zenon DEF NoLostWakeup
  <2>1. CASE m = l
    <3>1. queue[l] = <<>> BY Zenon, <2>1, <1>8, <1>10, LocksAssumption
    <3> QED BY Zenon, <2>1, <3>1, <1>9
  <2>2. CASE m # l BY Zenon, <2>2, <1>8, <1>9 DEF LInv, NoLostWakeup
  <2> QED BY Zenon, <2>1, <2>2
<1>24. \A e \in Deliveries \ {d} : Held(e)' = Held(e) BY Zenon, <1>13 DEF Held
<1>25. LInv'
  BY Zenon, <1>11, <1>12, <1>14, <1>15, <1>18, <1>19, <1>21, <1>22, <1>23, Assemble
<1> QED BY Zenon, <1>4, <1>16, <1>24, <1>25

\* Dropping a reference, and the table's entry with the last one, keeps the
\* invariant.
LEMMA UnrefStep == ASSUME LInv, NEW d \in Deliveries, Unref(d) PROVE LInv'
<1>1. TypeOK /\ TableInv /\ ClaimInv(d) /\ NestInv(d) BY Zenon DEF LInv
<1>2. pc[d] \in {"drop", "unref"} BY Zenon DEF Unref
<1>3. want[d] \in Orders \ Held(d) /\ Lock(d) # None
  BY Zenon, <1>1, <1>2 DEF ClaimInv, Claiming
<1>4. PICK o \in Orders : o = want[d] BY Zenon, <1>3
<1>5. PICK l \in Locks : l = ptr[<<d, o>>]
  <2>1. <<d, o>> \in Pairs BY Zenon DEF Pairs
  <2> QED BY Zenon, <2>1, <1>1, <1>3, <1>4 DEF TypeOK, Lock
<1>6. /\ table' = Unlisted(o, l)
      /\ refs' = [refs EXCEPT ![l] = @ - 1]
      /\ ptr' = [ptr EXCEPT ![<<d, o>>] = None]
      /\ pc' = [pc EXCEPT ![d] = IF scope[d] = <<>> THEN "idle" ELSE "work"]
      /\ want' = [want EXCEPT ![d] = None]
      /\ UNCHANGED <<holder, queue, scope, todo>>
  BY Zenon, <1>4, <1>5 DEF Unref, Lock
<1>7. /\ TableInv'
      /\ table' \in [Orders -> Locks \cup {None}]
      /\ refs' \in [Locks -> Nat]
      /\ ptr' \in [Pairs -> Locks \cup {None}]
      /\ ptr'[<<d, o>>] = None
      /\ \A p \in Pairs \ {<<d, o>>} : ptr'[p] = ptr[p]
  BY Zenon, <1>1, <1>5, <1>6, UnrefTable
<1>8. /\ pc' \in [Deliveries -> {"idle", "send", "queued", "drop", "work", "unref"}]
      /\ want' \in [Deliveries -> Orders \cup {None}]
      /\ pc'[d] = IF scope[d] = <<>> THEN "idle" ELSE "work"
      /\ \A e \in Deliveries \ {d} : pc'[e] = pc[e] /\ want'[e] = want[e]
  BY Zenon, <1>1, <1>6 DEF TypeOK
<1>9. TypeOK' BY Zenon, <1>1, <1>6, <1>7, <1>8 DEF TypeOK
<1>10. \A e \in Deliveries : \A q \in Orders :
         <<e, q>> # <<d, o>> => ptr'[<<e, q>>] = ptr[<<e, q>>]
  BY Zenon, <1>7 DEF Pairs
<1>11. Alone(d) BY <1>6, <1>8, <1>10 DEF Alone
<1>12. Kept(d) BY Zenon, <1>6, HeldLocks DEF Kept
<1>13. Held(d)' = Held(d) /\ Held(d) \subseteq Orders \ {o}
  <2>1. Held(d) \subseteq Orders BY Zenon, <1>1, Elements DEF Held, TypeOK
  <2> QED BY Zenon, <2>1, <1>3, <1>4, <1>6 DEF Held
<1>14. ClaimInv(d)'
  <2>1. pc'[d] \notin Claiming /\ (pc'[d] = "idle" => scope'[d] = <<>>)
        /\ (pc'[d] = "work" => scope'[d] # <<>>)
    BY Zenon, <1>6, <1>8 DEF Claiming
  <2>2. ASSUME NEW q \in Held(d)'
        PROVE  ptr'[<<d, q>>] # None /\ holder'[ptr'[<<d, q>>]] = d
    <3>1. q \in Held(d) /\ q \in Orders /\ q # o BY Zenon, <1>13
    <3>2. ptr[<<d, q>>] # None /\ holder[ptr[<<d, q>>]] = d BY Zenon, <1>1, <3>1 DEF ClaimInv
    <3>3. <<d, q>> # <<d, o>> BY Zenon, <3>1
    <3>4. ptr'[<<d, q>>] = ptr[<<d, q>>] BY Zenon, <1>10, <3>1, <3>3
    <3> QED BY Zenon, <1>6, <3>2, <3>4
  <2>3. \A q \in Orders : ptr'[<<d, q>>] # None => q \in Held(d)'
    BY Zenon, <1>1, <1>4, <1>7, <1>10, <1>13 DEF ClaimInv
  <2>4. IsInjective(scope'[d]) BY Zenon, <1>1, <1>6 DEF ClaimInv
  <2> QED BY Zenon, <2>1, <2>2, <2>3, <2>4 DEF ClaimInv
<1>15. NestInv(d)'
  <2>1. pc'[d] \notin {"send", "queued"} BY Zenon, <1>8
  <2> QED BY Zenon, <2>1, <1>1, <1>6 DEF NestInv
<1>16. LineInv'
  <2>1. \A m \in Locks : d \notin Range(queue[m]) BY Zenon, <1>2, InLine
  <2> QED BY Zenon, <1>6, <1>11, <2>1, LineStep DEF LineInv
<1>17. NoOrphan'
  <2> SUFFICES ASSUME NEW m \in Locks, NEW e \in Deliveries, holder'[m] = e,
                      holder[m] # e \/ e = d
               PROVE  Witness(e, m)'
    BY Zenon, <1>11, OrphanStep
  <2>1. holder[m] = d /\ e = d BY Zenon, <1>6
  <2>2. PICK q \in Orders : ptr[<<d, q>>] = m /\ q \in Held(d)
    BY Zenon, <2>1, <1>2 DEF LInv, NoOrphan
  <2> QED BY Zenon, <2>1, <2>2, <1>10, <1>13 DEF Witness
<1>18. NoLostWakeup' BY Zenon, <1>6 DEF LInv, NoLostWakeup
<1> QED BY Zenon, <1>7, <1>9, <1>11, <1>12, <1>14, <1>15, <1>16, <1>17, <1>18, Assemble

\* A step that moves no lock and no delivery keeps the invariant.
LEMMA UnmovedStep ==
    ASSUME LInv, UNCHANGED <<table, refs, holder, queue, ptr, pc, want, scope>>,
           todo' \in [Deliveries -> SUBSET Orders]
    PROVE  LInv'
<1>1. TypeOK' BY Zenon DEF LInv, TypeOK
<1>2. TableInv' BY Zenon DEF LInv, TableInv, HeldIsTabled, Counted, Listed, Apart
<1>3. \A d \in Deliveries : Held(d)' = Held(d) /\ Lock(d)' = Lock(d)
  BY Zenon DEF Held, Lock
<1>4. ASSUME NEW d \in Deliveries PROVE ClaimInv(d)' /\ NestInv(d)'
  <2>1. ClaimInv(d) /\ NestInv(d) BY Zenon DEF LInv
  <2>2. ClaimInv(d)' BY Zenon, <2>1, <1>3 DEF ClaimInv
  <2>3. NestInv(d)' BY Zenon, <2>1 DEF NestInv
  <2> QED BY Zenon, <2>2, <2>3
<1>5. LineInv' BY Zenon DEF LInv, LineInv, Lock
<1>6. NoOrphan'
  <2> SUFFICES ASSUME NEW l \in Locks, NEW d \in Deliveries, holder'[l] = d
               PROVE  \E o \in Orders : /\ ptr'[<<d, o>>] = l
                                        /\ o \in Held(d)' \/ (pc'[d] = "queued" /\ want'[d] = o)
    BY Zenon DEF NoOrphan
  <2>1. holder[l] = d BY Zenon
  <2>2. PICK o \in Orders : /\ ptr[<<d, o>>] = l
                            /\ o \in Held(d) \/ (pc[d] = "queued" /\ want[d] = o)
    BY Zenon, <2>1 DEF LInv, NoOrphan
  <2>3. ptr'[<<d, o>>] = l /\ pc'[d] = pc[d] /\ want'[d] = want[d] BY Zenon, <2>2
  <2>4. o \in Held(d)' \/ (pc'[d] = "queued" /\ want'[d] = o) BY Zenon, <2>2, <2>3, <1>3
  <2> QED BY Zenon, <2>3, <2>4
<1>7. NoLostWakeup' BY Zenon DEF LInv, NoLostWakeup
<1> QED BY Zenon, <1>1, <1>2, <1>4, <1>5, <1>6, <1>7 DEF LInv

\* A delivery that starts claiming its order keeps the invariant.
LEMMA StartStep ==
    ASSUME LInv, NEW d \in Deliveries, NEW o \in Orders, Start(d, o)
    PROVE  LInv'
<1>1. pc[d] = "idle" /\ scope[d] = <<>> BY Zenon DEF Start, LInv, ClaimInv
<1>2. o \notin Held(d) BY <1>1 DEF Held, Range
<1>3. todo' \in [Deliveries -> SUBSET Orders] BY Zenon DEF Start, LInv, TypeOK
<1> QED BY Zenon, <1>1, <1>2, <1>3, RefStep DEF Start

\* A parent's cancel that claims a child keeps the invariant.
LEMMA ClaimChildStep ==
    ASSUME LInv, NEW d \in Deliveries, NEW c \in Orders, ClaimChild(d, c)
    PROVE  LInv'
<1>1. pc[d] = "work" /\ scope[d] # <<>> /\ scope[d] \in Seq(Orders)
  BY Zenon DEF ClaimChild, LInv, ClaimInv, TypeOK
<1>2. Last(scope[d]) \in Orders /\ Len(scope[d]) \in Nat /\ Len(scope[d]) > 0
  BY Zenon, <1>1, FrontLast, Elements
<1>3. c \notin Held(d) /\ Len(scope[d]) < 2
  BY Zenon DEF ClaimChild, MayEnter, MaxClaimDepth
<1>4. Len(scope[d]) = 1
  <2> DEFINE n == Len(scope[d])
  <2>1. n \in Nat /\ n > 0 /\ n < 2 BY Zenon, <1>2, <1>3
  <2> HIDE DEF n
  <2>2. n = 1 BY <2>1
  <2> QED BY Zenon, <2>2 DEF n
<1>5. Children[c] = {} BY Zenon, <1>2, LocksAssumption DEF ClaimChild, Due
<1>6. todo' \in [Deliveries -> SUBSET Orders] BY Zenon DEF ClaimChild, LInv, TypeOK
<1> QED BY Zenon, <1>1, <1>3, <1>4, <1>5, <1>6, RefStep DEF ClaimChild

\* The claim of a delivery that may enter, and the lock it has come for.
LEMMA Coming ==
    ASSUME LInv, NEW d \in Deliveries, pc[d] \in {"send", "queued"}
    PROVE  \E o \in Orders : \E l \in Locks :
             want[d] = o /\ ptr[<<d, o>>] = l /\ Lock(d) = l /\ o \notin Held(d)
<1>1. want[d] \in Orders \ Held(d) /\ Lock(d) # None
  BY Zenon DEF LInv, ClaimInv, Claiming
<1>2. <<d, want[d]>> \in Pairs BY Zenon, <1>1 DEF Pairs
<1>3. Lock(d) \in Locks BY Zenon, <1>1, <1>2 DEF LInv, TypeOK, Lock
<1> QED BY Zenon, <1>1, <1>3 DEF Lock

\* Getting a lock, at once or by a wake-up, keeps the invariant and claims
\* one order.
LEMMA GrantStep ==
    ASSUME LInv, NEW d \in Deliveries, Acquire(d) \/ Wake(d)
    PROVE  /\ LInv'
           /\ \E o \in Orders : \E l \in Locks :
                /\ o \notin Held(d) /\ ptr[<<d, o>>] = l
                /\ holder[l] \in {None, d}
                /\ Held(d)' = Held(d) \cup {o}
           /\ \A e \in Deliveries \ {d} : Held(e)' = Held(e)
<1>1. pc[d] \in {"send", "queued"} /\ Enter(d) /\ queue' = queue
  BY Zenon DEF Acquire, Wake
<1>2. PICK o \in Orders : \E l \in Locks :
        want[d] = o /\ ptr[<<d, o>>] = l /\ Lock(d) = l /\ o \notin Held(d)
  BY Zenon, <1>1, Coming
<1>3. PICK l \in Locks :
        want[d] = o /\ ptr[<<d, o>>] = l /\ Lock(d) = l /\ o \notin Held(d)
  BY Zenon, <1>2
<1>4. holder[l] \in {None, d} BY Zenon, <1>3 DEF Acquire, Wake
<1>5. holder' = [holder EXCEPT ![l] = d]
  <2>1. CASE Acquire(d) BY Zenon, <2>1, <1>3 DEF Acquire
  <2>2. CASE Wake(d) BY Zenon, <2>2, <1>3 DEF Wake, LInv, TypeOK
  <2> QED BY Zenon, <2>1, <2>2
<1>6. /\ LInv'
      /\ Held(d)' = Held(d) \cup {o}
      /\ \A e \in Deliveries \ {d} : Held(e)' = Held(e)
  BY Zenon, <1>1, <1>3, <1>4, <1>5, EnterStep
<1> QED BY Zenon, <1>3, <1>4, <1>6

\* A fan-out that stops early keeps the invariant.
LEMMA StopStep == ASSUME LInv, NEW d \in Deliveries, StopFanOut(d) PROVE LInv'
<1>1. todo' \in [Deliveries -> SUBSET Orders] BY Zenon DEF StopFanOut, LInv, TypeOK
<1> QED BY Zenon, <1>1, UnmovedStep DEF StopFanOut

\* The invariant holds initially.
LEMMA LocksInit == Init => LInv
<1> SUFFICES ASSUME Init PROVE LInv BY Zenon
<1>1. <<>> \in Seq(Orders) /\ <<>> \in Seq(Deliveries) OBVIOUS
<1>2. TypeOK BY Zenon, <1>1 DEF Init, TypeOK
<1>3. TableInv
  <2>1. Counted
    <3>1. \A l \in Locks : {p \in Pairs : ptr[p] = l} = {}
      BY Zenon, LocksAssumption DEF Init
    <3> QED BY Zenon, <3>1, FS_EmptySet DEF Init, Counted
  <2> QED BY Zenon, <2>1 DEF Init, TableInv, HeldIsTabled, Listed, Apart, Pairs
<1>4. ASSUME NEW d \in Deliveries PROVE ClaimInv(d) /\ NestInv(d)
  <2>1. pc[d] = "idle" /\ scope[d] = <<>> BY Zenon DEF Init
  <2>2. \A o \in Orders : ptr[<<d, o>>] = None BY Zenon DEF Init, Pairs
  <2>3. Held(d) = {} /\ IsInjective(scope[d])
    BY <2>1 DEF Held, Range, IsInjective
  <2>4. ClaimInv(d) BY Zenon, <2>1, <2>2, <2>3 DEF ClaimInv, Claiming
  <2>5. Len(scope[d]) = 0 BY <2>1
  <2>6. NestInv(d) BY <2>1, <2>5 DEF NestInv, MaxClaimDepth
  <2> QED BY Zenon, <2>4, <2>6
<1>5. LineInv BY DEF Init, LineInv, IsInjective, Range
<1>6. NoOrphan BY Zenon, LocksAssumption DEF Init, NoOrphan
<1>7. NoLostWakeup BY Zenon DEF Init, NoLostWakeup
<1> QED BY Zenon, <1>2, <1>3, <1>4, <1>5, <1>6, <1>7 DEF LInv

\* Every step keeps the invariant.
LEMMA LocksStep == LInv /\ [Next]_vars => LInv'
<1> SUFFICES ASSUME LInv, [Next]_vars PROVE LInv' BY Zenon
<1>1. CASE UNCHANGED vars
  <2>1. todo' \in [Deliveries -> SUBSET Orders] BY Zenon, <1>1 DEF vars, LInv, TypeOK
  <2> QED BY Zenon, <1>1, <2>1, UnmovedStep DEF vars
<1>2. ASSUME NEW d \in Deliveries, NEW o \in Orders, Start(d, o) PROVE LInv'
  BY Zenon, <1>2, StartStep
<1>3. ASSUME NEW d \in Deliveries, NEW c \in Orders, ClaimChild(d, c) PROVE LInv'
  BY Zenon, <1>3, ClaimChildStep
<1>4. ASSUME NEW d \in Deliveries, GiveUp(d) PROVE LInv' BY Zenon, <1>4, GiveUpStep
<1>5. ASSUME NEW d \in Deliveries, StopFanOut(d) PROVE LInv' BY Zenon, <1>5, StopStep
<1>6. ASSUME NEW d \in Deliveries, Acquire(d) \/ Wake(d) PROVE LInv'
  BY Zenon, <1>6, GrantStep
<1>7. ASSUME NEW d \in Deliveries, Busy(d) PROVE LInv' BY Zenon, <1>7, BusyStep
<1>8. ASSUME NEW d \in Deliveries, Block(d) PROVE LInv' BY Zenon, <1>8, BlockStep
<1>9. ASSUME NEW d \in Deliveries, Release(d) PROVE LInv' BY Zenon, <1>9, ReleaseStep
<1>10. ASSUME NEW d \in Deliveries, Unref(d) PROVE LInv' BY Zenon, <1>10, UnrefStep
<1> QED
  BY Zenon, <1>1, <1>2, <1>3, <1>4, <1>5, <1>6, <1>7, <1>8, <1>9, <1>10
  DEF Next, Proceed

-----------------------------------------------------------------------------
(***************************************************************************)
(* The table, the counts, the lines and the scopes of orderlock.go and     *)
(* claimscope.go fit together in every reachable state.                    *)
(***************************************************************************)
THEOREM Invariance == Spec => []LInv
BY LocksInit, LocksStep, PTL DEF Spec

(***************************************************************************)
(* Every variable of the claim table has its type.                         *)
(***************************************************************************)
THEOREM TypeCorrect == Spec => []TypeOK
<1>1. LInv => TypeOK BY Zenon DEF LInv
<1> QED BY <1>1, Invariance, PTL

\* Two holders of an order would point at the same entry, which one fills.
LEMMA SoleHolder ==
    ASSUME LInv, NEW d \in Deliveries, NEW e \in Deliveries,
           NEW o \in Orders, NEW l \in Locks,
           ptr[<<d, o>>] = l, o \in Held(e)
    PROVE  holder[l] = e
<1>1. ptr[<<e, o>>] \in Locks /\ holder[ptr[<<e, o>>]] = e BY Zenon, HeldLocks
<1>2. ptr[<<e, o>>] # None /\ ptr[<<d, o>>] # None BY Zenon, <1>1, LocksAssumption
<1>3. table[o] = ptr[<<e, o>>] /\ table[o] = ptr[<<d, o>>]
  BY Zenon, <1>2 DEF LInv, TableInv, HeldIsTabled
<1> QED BY Zenon, <1>1, <1>3

\* The invariant implies that no order has two claimants.
LEMMA LInvExclusive == LInv => Exclusive
<1> SUFFICES ASSUME LInv, NEW d \in Deliveries, NEW e \in Deliveries, d # e,
                    NEW o \in Held(d), o \in Held(e)
             PROVE  FALSE
  BY Zenon DEF Exclusive
<1>1. o \in Orders /\ ptr[<<d, o>>] \in Locks /\ holder[ptr[<<d, o>>]] = d
  BY Zenon, HeldLocks
<1>2. PICK l \in Locks : ptr[<<d, o>>] = l BY Zenon, <1>1
<1>3. holder[l] = e BY Zenon, <1>1, <1>2, SoleHolder
<1> QED BY Zenon, <1>1, <1>2, <1>3

(***************************************************************************)
(* claim and awaitClaim exclude each other, although the lock objects come *)
(* and go while goroutines wait on them.                                   *)
(***************************************************************************)
THEOREM MutualExclusion == Spec => []Exclusive
BY LInvExclusive, Invariance, PTL

(***************************************************************************)
(* The claim of unref's comment: an entry somebody points at is neither    *)
(* deleted nor replaced.                                                   *)
(***************************************************************************)
THEOREM EntriesStay == Spec => []HeldIsTabled
<1>1. LInv => HeldIsTabled BY Zenon DEF LInv, TableInv
<1> QED BY <1>1, Invariance, PTL

(***************************************************************************)
(* unref drops every entry that nobody uses.                               *)
(***************************************************************************)
THEOREM NothingLeaks == Spec => []NoLeak
<1>1. ASSUME LInv, NEW o \in Orders, table[o] # None
      PROVE  \E d \in Deliveries : pc[d] # "idle" /\ ptr[<<d, o>>] = table[o]
  <2>1. PICK l \in Locks : l = table[o] BY Zenon, <1>1 DEF LInv, TypeOK
  <2>2. refs[l] > 0 /\ refs[l] = Cardinality(Refs(l))
    BY Zenon, <1>1, <2>1 DEF LInv, TableInv, Listed, Counted, Refs
  <2>3. Refs(l) # {} BY <2>2, FS_EmptySet
  <2>4. PICK d \in Deliveries, q \in Orders : ptr[<<d, q>>] = l
    BY <2>3 DEF Refs, Pairs
  <2>5. table[q] = l
    BY Zenon, <1>1, <2>4, LocksAssumption DEF LInv, TableInv, HeldIsTabled
  <2>6. q = o BY Zenon, <1>1, <2>1, <2>5 DEF LInv, TableInv, Apart
  <2>7. pc[d] # "idle"
    <3> SUFFICES ASSUME pc[d] = "idle" PROVE FALSE BY Zenon
    <3>1. ClaimInv(d) /\ ptr[<<d, q>>] # None
      BY Zenon, <1>1, <2>4, LocksAssumption DEF LInv
    <3>2. scope[d] = <<>> /\ q \in Held(d) BY Zenon, <3>1 DEF ClaimInv, Claiming
    <3> QED BY <3>2 DEF Held, Range
  <2> QED BY Zenon, <2>1, <2>4, <2>6, <2>7
<1>2. LInv => NoLeak BY Zenon, <1>1 DEF NoLeak
<1> QED BY <1>2, Invariance, PTL

(***************************************************************************)
(* A release or an expired wait strands nobody in line (releaser).         *)
(***************************************************************************)
THEOREM WakeupsArrive == Spec => []NoLostWakeup
<1>1. LInv => NoLostWakeup BY Zenon DEF LInv
<1> QED BY <1>1, Invariance, PTL

(***************************************************************************)
(* A lock is never handed to a goroutine that has stopped waiting for it.  *)
(***************************************************************************)
THEOREM TakersKnow == Spec => []NoOrphan
<1>1. LInv => NoOrphan BY Zenon DEF LInv
<1> QED BY <1>1, Invariance, PTL

(***************************************************************************)
(* enterClaim lets the cancel of a scheduled parent claim each child: the  *)
(* depth suffices and no child is its own parent.                          *)
(***************************************************************************)
THEOREM ChildrenEnter == Spec => []NeverRefused
<1>1. ASSUME LInv, NEW d \in Deliveries, pc[d] = "work", NEW c \in Due(d)
      PROVE  MayEnter(d, c)
  <2>1. ClaimInv(d) /\ NestInv(d) /\ scope[d] \in Seq(Orders) /\ scope[d] # <<>>
    BY Zenon, <1>1 DEF LInv, ClaimInv, TypeOK
  <2>2. c \in Children[Last(scope[d])] BY Zenon DEF Due
  <2>3. Len(scope[d]) \in Nat /\ Len(scope[d]) > 0 /\ Len(scope[d]) <= 2
        /\ Len(scope[d]) # 2
    BY Zenon, <2>1, <2>2, Elements DEF NestInv, MaxClaimDepth
  <2>4. Len(scope[d]) = 1
    <3> DEFINE n == Len(scope[d])
    <3>1. n \in Nat /\ n > 0 /\ n <= 2 /\ n # 2 BY Zenon, <2>3
    <3> HIDE DEF n
    <3>2. n = 1 BY <3>1
    <3> QED BY Zenon, <3>2 DEF n
  <2>5. Last(scope[d]) \in Orders BY Zenon, <2>1, FrontLast
  <2>6. Children[c] = {} BY Zenon, <2>2, <2>5, LocksAssumption
  <2>7. Held(d) = {Last(scope[d])}
    BY <2>1, <2>4, Elements DEF Held, Range, Last
  <2>8. c \notin Held(d) BY Zenon, <2>2, <2>6, <2>7
  <2> QED BY <2>4, <2>8 DEF MayEnter, MaxClaimDepth
<1>2. LInv => NeverRefused BY Zenon, <1>1 DEF NeverRefused
<1> QED BY <1>2, Invariance, PTL

-----------------------------------------------------------------------------
(* Refinement: one owner per order.                                        *)

\* Who holds an order owns it; an order nobody holds is nobody's.
OwnerFacts ==
    /\ Owner \in [Orders -> Deliveries \cup {None}]
    /\ \A o \in Orders : \A d \in Deliveries : o \in Held(d) => Owner[o] = d
    /\ \A o \in Orders : (\A d \in Deliveries : o \notin Held(d)) => Owner[o] = None

\* Under the invariant, an order's owner is the one delivery that holds it.
LEMMA OwnerIs == LInv => OwnerFacts
<1> SUFFICES ASSUME LInv PROVE OwnerFacts BY Zenon
<1>1. Exclusive BY Zenon, LInvExclusive
<1>2. ASSUME NEW o \in Orders, NEW d \in Deliveries, o \in Held(d)
      PROVE  (CHOOSE e \in Deliveries : o \in Held(e)) = d
  BY Zenon, <1>1, <1>2 DEF Exclusive
<1> QED BY Zenon, <1>2 DEF Owner, OwnerFacts

\* The same of the next state.
LEMMA OwnerIsNext == LInv' => OwnerFacts'
BY OwnerIs, PTL

\* A step after which all hold what they held is a stutter of OrderClaim.
LEMMA HeldStutters ==
    ASSUME LInv, LInv', \A e \in Deliveries : Held(e)' = Held(e)
    PROVE  Owner' = Owner
<1>1. OwnerFacts /\ OwnerFacts' BY Zenon, OwnerIs, OwnerIsNext
<1>2. \A o \in Orders : Owner'[o] = Owner[o]
  <2> TAKE o \in Orders
  <2>1. CASE \E d \in Deliveries : o \in Held(d) BY <2>1, <1>1 DEF OwnerFacts
  <2>2. CASE \A d \in Deliveries : o \notin Held(d) BY Zenon, <2>2, <1>1 DEF OwnerFacts
  <2> QED BY Zenon, <2>1, <2>2
<1>3. Owner \in [Orders -> Deliveries \cup {None}]
      /\ Owner' \in [Orders -> Deliveries \cup {None}]
  BY Zenon, <1>1 DEF OwnerFacts
<1> HIDE DEF Owner
<1> QED BY <1>2, <1>3

\* Getting a lock is a Take of OrderClaim.
LEMMA GrantTakes ==
    ASSUME LInv, LInv', NEW d \in Deliveries, NEW o \in Orders, NEW l \in Locks,
           o \notin Held(d), ptr[<<d, o>>] = l, holder[l] \in {None, d},
           Held(d)' = Held(d) \cup {o},
           \A e \in Deliveries \ {d} : Held(e)' = Held(e)
    PROVE  Claim!Take(d, o)
<1>1. OwnerFacts /\ OwnerFacts' BY Zenon, OwnerIs, OwnerIsNext
<1>2. \A e \in Deliveries : o \notin Held(e)
  <2> SUFFICES ASSUME NEW e \in Deliveries, o \in Held(e) PROVE FALSE BY Zenon
  <2>1. holder[l] = e BY Zenon, SoleHolder
  <2> QED BY Zenon, <2>1, LocksAssumption
<1>3. Owner[o] = None /\ Owner'[o] = d BY Zenon, <1>1, <1>2 DEF OwnerFacts
<1>4. \A q \in Orders \ {o} : Owner'[q] = Owner[q]
  <2> TAKE q \in Orders \ {o}
  <2>1. \A e \in Deliveries : q \in Held(e)' <=> q \in Held(e) BY Zenon
  <2>2. CASE \E e \in Deliveries : q \in Held(e) BY Zenon, <2>1, <2>2, <1>1 DEF OwnerFacts
  <2>3. CASE \A e \in Deliveries : q \notin Held(e) BY Zenon, <2>1, <2>3, <1>1 DEF OwnerFacts
  <2> QED BY Zenon, <2>2, <2>3
<1>5. Owner \in [Orders -> Deliveries \cup {None}]
      /\ Owner' \in [Orders -> Deliveries \cup {None}]
  BY Zenon, <1>1 DEF OwnerFacts
<1> HIDE DEF Owner
<1>6. Owner' = [Owner EXCEPT ![o] = d] BY Zenon, <1>3, <1>4, <1>5
<1> QED BY Zenon, <1>3, <1>6 DEF Claim!Take

\* Releasing a lock is a Give of OrderClaim.
LEMMA ReleaseGives ==
    ASSUME LInv, LInv', NEW d \in Deliveries, NEW o \in Held(d),
           Held(d)' = Held(d) \ {o},
           \A e \in Deliveries \ {d} : Held(e)' = Held(e)
    PROVE  o \in Orders /\ Claim!Give(d, o)
<1>1. OwnerFacts /\ OwnerFacts' BY Zenon, OwnerIs, OwnerIsNext
<1>2. o \in Orders BY Zenon, HeldLocks
<1>3. \A e \in Deliveries \ {d} : o \notin Held(e)
  BY Zenon, LInvExclusive DEF Exclusive
<1>4. Owner[o] = d /\ Owner'[o] = None BY Zenon, <1>1, <1>2, <1>3 DEF OwnerFacts
<1>5. \A q \in Orders \ {o} : Owner'[q] = Owner[q]
  <2> TAKE q \in Orders \ {o}
  <2>1. \A e \in Deliveries : q \in Held(e)' <=> q \in Held(e) BY Zenon
  <2>2. CASE \E e \in Deliveries : q \in Held(e) BY Zenon, <2>1, <2>2, <1>1 DEF OwnerFacts
  <2>3. CASE \A e \in Deliveries : q \notin Held(e) BY Zenon, <2>1, <2>3, <1>1 DEF OwnerFacts
  <2> QED BY Zenon, <2>2, <2>3
<1>6. Owner \in [Orders -> Deliveries \cup {None}]
      /\ Owner' \in [Orders -> Deliveries \cup {None}]
  BY Zenon, <1>1 DEF OwnerFacts
<1> HIDE DEF Owner
<1>7. Owner' = [Owner EXCEPT ![o] = None] BY Zenon, <1>2, <1>4, <1>5, <1>6
<1> QED BY Zenon, <1>2, <1>4, <1>7 DEF Claim!Give

(***************************************************************************)
(* orderlock.go keeps the promise OrderLifecycle takes for granted: within *)
(* a process an order has one owner at a time, who gives it back.          *)
(***************************************************************************)
THEOREM ClaimsRefine == Spec => ImplementsClaim
<1>1. Init => Claim!Init
  <2> SUFFICES ASSUME Init PROVE Owner = [o \in Orders |-> None]
    BY Zenon DEF Claim!Init
  <2>1. \A d \in Deliveries : Held(d) = {} BY DEF Init, Held, Range
  <2> QED BY Zenon, <2>1 DEF Owner
<1>2. ASSUME LInv, LInv', [Next]_vars PROVE [Claim!Next]_Owner
  <2>1. ASSUME scope' = scope PROVE Owner' = Owner
    BY Zenon, <1>2, <2>1, HeldStutters DEF Held
  <2>2. ASSUME NEW d \in Deliveries, Acquire(d) \/ Wake(d) PROVE Claim!Next
    <3>1. PICK o \in Orders : \E l \in Locks :
            /\ o \notin Held(d) /\ ptr[<<d, o>>] = l
            /\ holder[l] \in {None, d}
            /\ Held(d)' = Held(d) \cup {o}
      BY Zenon, <1>2, <2>2, GrantStep
    <3>2. \A e \in Deliveries \ {d} : Held(e)' = Held(e) BY Zenon, <1>2, <2>2, GrantStep
    <3>3. Claim!Take(d, o) BY Zenon, <1>2, <3>1, <3>2, GrantTakes
    <3> QED BY Zenon, <3>3 DEF Claim!Next
  <2>3. ASSUME NEW d \in Deliveries, Release(d) PROVE Claim!Next
    <3>1. PICK o \in Held(d) : Held(d)' = Held(d) \ {o} BY Zenon, <1>2, <2>3, ReleaseStep
    <3>2. \A e \in Deliveries \ {d} : Held(e)' = Held(e) BY Zenon, <1>2, <2>3, ReleaseStep
    <3>3. o \in Orders /\ Claim!Give(d, o) BY Zenon, <1>2, <3>1, <3>2, ReleaseGives
    <3> QED BY Zenon, <3>3 DEF Claim!Next
  <2>4. CASE UNCHANGED vars BY Zenon, <2>1, <2>4 DEF vars
  <2>5. ASSUME NEW d \in Deliveries, NEW o \in Orders,
               Start(d, o) \/ ClaimChild(d, o)
        PROVE  scope' = scope
    BY Zenon, <2>5 DEF Start, ClaimChild
  <2>6. ASSUME NEW d \in Deliveries,
               GiveUp(d) \/ StopFanOut(d) \/ Busy(d) \/ Block(d) \/ Unref(d)
        PROVE  scope' = scope
    BY Zenon, <2>6 DEF GiveUp, StopFanOut, Busy, Block, Unref
  <2> QED
    BY Zenon, <1>2, <2>1, <2>2, <2>3, <2>4, <2>5, <2>6 DEF Next, Proceed
<1>3. Spec => []LInv BY Zenon, Invariance
<1> QED BY <1>1, <1>2, <1>3, PTL DEF Spec, ImplementsClaim, Claim!Spec

=============================================================================
