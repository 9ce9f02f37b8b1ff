-------------------------- MODULE HandleWaitProofs --------------------------
(* Theorems about waiting for handles, for any finite set of handles.       *)
EXTENDS HandleWait, TLAPS, FiniteSetTheorems, FunctionTheorems

----------------------------------------------------------------------------
(* The list of handles.                                                     *)

Once(s) == \A i, j \in 1..Len(s) : s[i] = s[j] => i = j

(* A part of the list from its head.                                        *)
LEMMA FirstElems ==
  ASSUME NEW s \in Seq(Handles), NEW n \in 0..Len(s)
  PROVE  Elems(SubSeq(s, 1, n)) = {s[k] : k \in 1..n}
<1>1. Len(SubSeq(s, 1, n)) = n /\ \A k \in 1..n : SubSeq(s, 1, n)[k] = s[k]
  OBVIOUS
<1>2. QED BY <1>1 DEF Elems

(* No list is longer than there are handles.                                *)
LEMMA OnceLen ==
  ASSUME NEW s \in Seq(Handles), Once(s)
  PROVE  Len(s) <= Cardinality(Handles) /\ Cardinality(Handles) \in Nat
<1>1. s \in [1..Len(s) -> Handles] /\ Len(s) \in Nat
  OBVIOUS
<1>2. s \in Injection(1..Len(s), Handles)
  BY <1>1 DEF Injection, IsInjective, Once
<1>3. IsFiniteSet(Handles)
  BY HandleWaitAssumption
<1>4. Cardinality(1..Len(s)) <= Cardinality(Handles)
  BY <1>2, <1>3, FS_Injection
<1>5. Cardinality(1..Len(s)) = Len(s)
  <2>1. PICK n \in Nat : n = Len(s)
    BY <1>1
  <2>2. 1 \in Int /\ n \in Int
    OBVIOUS
  <2>3. Cardinality(1..n) = IF 1 > n THEN 0 ELSE n - 1 + 1
    BY <2>2, FS_Interval
  <2>4. QED BY <2>1, <2>3
<1>6. QED BY <1>3, <1>4, <1>5, FS_CardinalityType

(* Places in a list that is turned by p, or that has lost the one at p.     *)
LEMMA Turned ==
  ASSUME NEW n \in Nat, NEW p \in 1..n
  PROVE  /\ (n - p) + p = n /\ n - p \in Nat
         /\ \A k \in n - p + 1..n : k - (n - p) \in 1..p /\ (n - p) + (k - (n - p)) = k
OBVIOUS

(* No two places of a turned list come from the same place.                 *)
LEMMA TurnedOnce ==
  ASSUME NEW n \in Nat, NEW p \in 1..n, NEW i \in 1..n, NEW j \in 1..n, NEW a \in 1..n,
         i <= n - p => a = p + i, i > n - p => a = i - (n - p),
         j <= n - p => a = p + j, j > n - p => a = j - (n - p)
  PROVE  i = j
<1>1. CASE i <= n - p /\ j <= n - p
  BY <1>1
<1>2. CASE i > n - p /\ j > n - p
  BY <1>2
<1>3. CASE i <= n - p /\ j > n - p
  BY <1>3
<1>4. CASE i > n - p /\ j <= n - p
  BY <1>4
<1>5. QED BY <1>1, <1>2, <1>3, <1>4

(* Places after the one that was taken out move down by one.                *)
LEMMA Shifted ==
  ASSUME NEW n \in Nat, NEW p \in 1..n
  PROVE  /\ (p - 1) + (n - p) = n - 1 /\ n - p \in Nat /\ p - 1 \in Nat
         /\ \A k \in p..n - 1 : /\ k - (p - 1) \in 1..n - p
                                 /\ (p - 1) + (k - (p - 1)) = k /\ p + (k - (p - 1)) = k + 1
OBVIOUS

(* Two lists, one after the other.                                          *)
LEMMA JoinedFacts ==
  ASSUME NEW s \in Seq(Handles), NEW u \in Seq(Handles)
  PROVE  /\ s \o u \in Seq(Handles) /\ Len(s \o u) = Len(s) + Len(u)
         /\ \A k \in 1..Len(s) : (s \o u)[k] = s[k]
         /\ \A k \in 1..Len(u) : (s \o u)[Len(s) + k] = u[k]
OBVIOUS

(* The place of a handle on the list.                                       *)
LEMMA PositionIn ==
  ASSUME NEW s \in Seq(Handles), NEW h \in Elems(s)
  PROVE  Position(s, h) \in 1..Len(s) /\ s[Position(s, h)] = h
BY DEF Elems, Position

(* The list begins after the handle that was found.                         *)
LEMMA HeadAfterFacts ==
  ASSUME NEW s \in Seq(Handles), Once(s), NEW h \in Elems(s)
  PROVE  /\ HeadAfter(s, h) \in Seq(Handles) /\ Once(HeadAfter(s, h))
         /\ Elems(HeadAfter(s, h)) = Elems(s)
<1>1. PICK p \in 1..Len(s) : p = Position(s, h) /\ s[p] = h
  BY PositionIn
<1>2. PICK n \in Nat : n = Len(s)
  OBVIOUS
<1> DEFINE r == HeadAfter(s, h)
<1>3. r = SubSeq(s, p + 1, n) \o SubSeq(s, 1, p)
  BY <1>1, <1>2 DEF HeadAfter
<1>4. /\ SubSeq(s, p + 1, n) \in Seq(Handles) /\ Len(SubSeq(s, p + 1, n)) = n - p
      /\ \A k \in 1..n - p : SubSeq(s, p + 1, n)[k] = s[p + k]
  BY <1>1, <1>2
<1>5. /\ SubSeq(s, 1, p) \in Seq(Handles) /\ Len(SubSeq(s, 1, p)) = p
      /\ \A k \in 1..p : SubSeq(s, 1, p)[k] = s[k]
  BY <1>1, <1>2
<1>6. /\ r \in Seq(Handles) /\ Len(r) = n
      /\ \A k \in 1..n - p : r[k] = s[p + k]
      /\ \A k \in n - p + 1..n : r[k] = s[k - (n - p)]
  <2>1. PICK u \in Seq(Handles), v \in Seq(Handles) :
          /\ u = SubSeq(s, p + 1, n) /\ Len(u) = n - p /\ \A k \in 1..n - p : u[k] = s[p + k]
          /\ v = SubSeq(s, 1, p) /\ Len(v) = p /\ \A k \in 1..p : v[k] = s[k]
    BY <1>4, <1>5
  <2>2. r = u \o v
    BY <1>3, <2>1
  <2> HIDE DEF r
  <2>3. /\ r \in Seq(Handles) /\ Len(r) = Len(u) + Len(v)
        /\ \A k \in 1..Len(u) : r[k] = u[k]
        /\ \A k \in 1..Len(v) : r[Len(u) + k] = v[k]
    BY <2>2, JoinedFacts, Zenon
  <2>4. /\ (n - p) + p = n
        /\ \A k \in n - p + 1..n : k - (n - p) \in 1..p /\ (n - p) + (k - (n - p)) = k
    BY <1>1, <1>2, Turned
  <2>5. ASSUME NEW k \in n - p + 1..n PROVE r[k] = s[k - (n - p)]
    <3>1. PICK l \in 1..p : l = k - (n - p) /\ (n - p) + l = k
      BY <2>4
    <3>2. r[(n - p) + l] = v[l] /\ v[l] = s[l]
      BY <2>1, <2>3, Zenon
    <3>3. QED BY <3>1, <3>2, Zenon
  <2>6. Len(r) = n
    BY <2>1, <2>3, <2>4, Zenon
  <2>7. \A k \in 1..n - p : r[k] = s[p + k]
    BY <2>1, <2>3, Zenon
  <2>8. QED BY <2>3, <2>5, <2>6, <2>7, Zenon
<1> HIDE DEF r
<1>7. \A k \in 1..n : \E j \in 1..n : r[j] = s[k]
  <2>1. SUFFICES ASSUME NEW k \in 1..n PROVE \E j \in 1..n : r[j] = s[k]
    OBVIOUS
  <2>2. CASE k <= p
    <3>1. k + (n - p) \in n - p + 1..n /\ k + (n - p) \in 1..n /\ k + (n - p) - (n - p) = k
      BY <1>1, <1>2, <2>2
    <3>2. r[k + (n - p)] = s[k]
      BY <1>6, <3>1
    <3>3. QED BY <3>1, <3>2
  <2>3. CASE k > p
    <3>1. k - p \in 1..n - p /\ k - p \in 1..n /\ p + (k - p) = k
      BY <1>1, <1>2, <2>3
    <3>2. r[k - p] = s[k]
      BY <1>6, <3>1
    <3>3. QED BY <3>1, <3>2
  <2>4. QED BY <1>1, <1>2, <2>2, <2>3
<1>8. \A k \in 1..n : \E j \in 1..n : /\ r[k] = s[j]
                                      /\ k <= n - p => j = p + k
                                      /\ k > n - p => j = k - (n - p)
  <2>1. SUFFICES ASSUME NEW k \in 1..n
                 PROVE  \E j \in 1..n : /\ r[k] = s[j]
                                        /\ k <= n - p => j = p + k
                                        /\ k > n - p => j = k - (n - p)
    OBVIOUS
  <2>2. CASE k <= n - p
    <3>1. p + k \in 1..n /\ k \in 1..n - p
      BY <1>1, <1>2, <2>2
    <3>2. QED BY <1>1, <1>2, <1>6, <2>2, <3>1
  <2>3. CASE k > n - p
    <3>1. k - (n - p) \in 1..n /\ k \in n - p + 1..n
      BY <1>1, <1>2, <2>3
    <3>2. QED BY <1>1, <1>2, <1>6, <2>3, <3>1
  <2>4. QED BY <1>1, <1>2, <2>2, <2>3
<1>9. Elems(r) = Elems(s)
  <2>1. Elems(r) = {r[k] : k \in 1..n} /\ Elems(s) = {s[k] : k \in 1..n}
    BY <1>2, <1>6 DEF Elems
  <2>2. ASSUME NEW x \in Elems(r) PROVE x \in Elems(s)
    <3>1. PICK k \in 1..n : x = r[k]
      BY <2>1
    <3>2. PICK j \in 1..n : r[k] = s[j]
      BY <1>8
    <3>3. QED BY <2>1, <3>1, <3>2
  <2>3. ASSUME NEW x \in Elems(s) PROVE x \in Elems(r)
    BY <1>7, <2>1
  <2>4. QED BY <2>2, <2>3
<1>10. Once(r)
  <2>1. SUFFICES ASSUME NEW i \in 1..n, NEW j \in 1..n, r[i] = r[j] PROVE i = j
    BY <1>6 DEF Once
  <2>2. PICK a \in 1..n : /\ r[i] = s[a] /\ (i <= n - p => a = p + i)
                          /\ (i > n - p => a = i - (n - p))
    BY <1>8
  <2>3. PICK b \in 1..n : /\ r[j] = s[b] /\ (j <= n - p => b = p + j)
                          /\ (j > n - p => b = j - (n - p))
    BY <1>8
  <2>4. a = b
    BY <1>2, <2>1, <2>2, <2>3 DEF Once
  <2>5. p \in 1..n
    BY <1>1, <1>2
  <2>6. (j <= n - p => a = p + j) /\ (j > n - p => a = j - (n - p))
    BY <2>3, <2>4, Zenon
  <2>7. QED BY <2>2, <2>5, <2>6, TurnedOnce, Zenon
<1>11. r \in Seq(Handles)
  BY <1>6
<1>12. QED BY <1>9, <1>10, <1>11, Zenon DEF r

(* A handle is taken from the list.                                         *)
LEMMA WithoutFacts ==
  ASSUME NEW s \in Seq(Handles), Once(s), NEW h \in Elems(s)
  PROVE  /\ Without(s, h) \in Seq(Handles) /\ Once(Without(s, h))
         /\ Elems(Without(s, h)) = Elems(s) \ {h}
<1>1. PICK p \in 1..Len(s) : p = Position(s, h) /\ s[p] = h
  BY PositionIn
<1>2. PICK n \in Nat : n = Len(s)
  OBVIOUS
<1> DEFINE r == Without(s, h)
<1>3. r = SubSeq(s, 1, p - 1) \o SubSeq(s, p + 1, n)
  BY <1>1, <1>2 DEF Without
<1>4. /\ SubSeq(s, p + 1, n) \in Seq(Handles) /\ Len(SubSeq(s, p + 1, n)) = n - p
      /\ \A k \in 1..n - p : SubSeq(s, p + 1, n)[k] = s[p + k]
  BY <1>1, <1>2
<1>5. /\ SubSeq(s, 1, p - 1) \in Seq(Handles) /\ Len(SubSeq(s, 1, p - 1)) = p - 1
      /\ \A k \in 1..p - 1 : SubSeq(s, 1, p - 1)[k] = s[k]
  BY <1>1, <1>2
<1>6. /\ r \in Seq(Handles) /\ Len(r) = n - 1
      /\ \A k \in 1..p - 1 : r[k] = s[k]
      /\ \A k \in p..n - 1 : r[k] = s[k + 1]
  <2>1. PICK u \in Seq(Handles), v \in Seq(Handles) :
          /\ u = SubSeq(s, 1, p - 1) /\ Len(u) = p - 1 /\ \A k \in 1..p - 1 : u[k] = s[k]
          /\ v = SubSeq(s, p + 1, n) /\ Len(v) = n - p /\ \A k \in 1..n - p : v[k] = s[p + k]
    BY <1>4, <1>5
  <2>2. r = u \o v
    BY <1>3, <2>1
  <2> HIDE DEF r
  <2>3. /\ r \in Seq(Handles) /\ Len(r) = Len(u) + Len(v)
        /\ \A k \in 1..Len(u) : r[k] = u[k]
        /\ \A k \in 1..Len(v) : r[Len(u) + k] = v[k]
    BY <2>2, JoinedFacts, Zenon
  <2>4. /\ (p - 1) + (n - p) = n - 1
        /\ \A k \in p..n - 1 : /\ k - (p - 1) \in 1..n - p
                                /\ (p - 1) + (k - (p - 1)) = k /\ p + (k - (p - 1)) = k + 1
    BY <1>1, <1>2, Shifted
  <2>5. ASSUME NEW k \in p..n - 1 PROVE r[k] = s[k + 1]
    <3>1. PICK l \in 1..n - p : (p - 1) + l = k /\ p + l = k + 1
      BY <2>4
    <3>2. r[(p - 1) + l] = v[l] /\ v[l] = s[p + l]
      BY <2>1, <2>3, Zenon
    <3>3. QED BY <3>1, <3>2, Zenon
  <2>6. Len(r) = n - 1
    BY <2>1, <2>3, <2>4, Zenon
  <2>7. \A k \in 1..p - 1 : r[k] = s[k]
    BY <2>1, <2>3, Zenon
  <2>8. QED BY <2>3, <2>5, <2>6, <2>7, Zenon
<1> HIDE DEF r
<1>7. \A k \in 1..n : k # p => \E j \in 1..n - 1 : r[j] = s[k]
  <2>1. SUFFICES ASSUME NEW k \in 1..n, k # p PROVE \E j \in 1..n - 1 : r[j] = s[k]
    OBVIOUS
  <2>2. CASE k < p
    <3>1. k \in 1..p - 1 /\ k \in 1..n - 1
      BY <1>1, <1>2, <2>2
    <3>2. QED BY <1>6, <3>1
  <2>3. CASE k > p
    <3>1. k - 1 \in p..n - 1 /\ k - 1 \in 1..n - 1 /\ (k - 1) + 1 = k
      BY <1>1, <1>2, <2>3
    <3>2. r[k - 1] = s[k]
      BY <1>6, <3>1
    <3>3. QED BY <3>1, <3>2
  <2>4. QED BY <1>1, <1>2, <2>1, <2>2, <2>3
<1>8. \A k \in 1..n - 1 : \E j \in 1..n : /\ r[k] = s[j] /\ j # p
                                          /\ k < p => j = k
                                          /\ k >= p => j = k + 1
  <2>1. SUFFICES ASSUME NEW k \in 1..n - 1
                 PROVE  \E j \in 1..n : /\ r[k] = s[j] /\ j # p
                                        /\ k < p => j = k
                                        /\ k >= p => j = k + 1
    OBVIOUS
  <2>2. CASE k < p
    <3>1. k \in 1..p - 1 /\ k \in 1..n
      BY <1>1, <1>2, <2>2
    <3>2. QED BY <1>1, <1>2, <1>6, <2>2, <3>1
  <2>3. CASE k >= p
    <3>1. k \in p..n - 1 /\ k + 1 \in 1..n
      BY <1>1, <1>2, <2>3
    <3>2. QED BY <1>1, <1>2, <1>6, <2>3, <3>1
  <2>4. QED BY <1>1, <1>2, <2>2, <2>3
<1>9. Elems(r) = Elems(s) \ {h}
  <2>1. Elems(r) = {r[k] : k \in 1..n - 1} /\ Elems(s) = {s[k] : k \in 1..n}
    BY <1>2, <1>6 DEF Elems
  <2>2. \A k \in 1..n : s[k] = h => k = p
    BY <1>1, <1>2 DEF Once
  <2>3. ASSUME NEW x \in Elems(r) PROVE x \in Elems(s) \ {h}
    BY <1>8, <2>1, <2>2
  <2>4. ASSUME NEW x \in Elems(s) \ {h} PROVE x \in Elems(r)
    <3>1. PICK k \in 1..n : x = s[k]
      BY <2>1
    <3>2. k # p
      BY <1>1, <3>1
    <3>3. QED BY <1>7, <2>1, <3>1, <3>2
  <2>5. QED BY <2>3, <2>4
<1>10. Once(r)
  <2>1. SUFFICES ASSUME NEW i \in 1..n - 1, NEW j \in 1..n - 1, r[i] = r[j] PROVE i = j
    BY <1>6 DEF Once
  <2>2. PICK a \in 1..n : /\ r[i] = s[a] /\ (i < p => a = i) /\ (i >= p => a = i + 1)
    BY <1>8
  <2>3. PICK b \in 1..n : /\ r[j] = s[b] /\ (j < p => b = j) /\ (j >= p => b = j + 1)
    BY <1>8
  <2>4. a = b
    BY <1>2, <2>1, <2>2, <2>3 DEF Once
  <2>5. QED BY <1>1, <1>2, <2>2, <2>3, <2>4
<1>11. r \in Seq(Handles)
  BY <1>6
<1>12. QED BY <1>9, <1>10, <1>11, Zenon DEF r

(* A handle is put at its end.                                              *)
LEMMA AppendedFacts ==
  ASSUME NEW s \in Seq(Handles), Once(s), NEW h \in Handles, h \notin Elems(s)
  PROVE  /\ Append(s, h) \in Seq(Handles) /\ Once(Append(s, h))
         /\ Elems(Append(s, h)) = Elems(s) \cup {h} /\ Append(s, h) # <<>>
<1>1. PICK n \in Nat : n = Len(s)
  OBVIOUS
<1> DEFINE r == Append(s, h)
<1>2. /\ r \in Seq(Handles) /\ Len(r) = n + 1 /\ r[n + 1] = h
      /\ \A k \in 1..n : r[k] = s[k]
  BY <1>1
<1> HIDE DEF r
<1>3. /\ \A k \in 1..n : s[k] # h /\ k \in 1..n + 1
      /\ n + 1 \in 1..n + 1 /\ \A k \in 1..n + 1 : k \in 1..n \/ k = n + 1
  BY <1>1 DEF Elems
<1>4. Elems(r) = Elems(s) \cup {h}
  <2>1. Elems(r) = {r[k] : k \in 1..n + 1} /\ Elems(s) = {s[k] : k \in 1..n}
    BY <1>1, <1>2 DEF Elems
  <2>2. QED BY <1>2, <1>3, <2>1
<1>5. Once(r)
  <2>1. SUFFICES ASSUME NEW i \in 1..n + 1, NEW j \in 1..n + 1, r[i] = r[j] PROVE i = j
    BY <1>2 DEF Once
  <2>2. QED BY <1>1, <1>2, <1>3, <2>1 DEF Once
<1>6. r \in Seq(Handles) /\ r # <<>>
  BY <1>2
<1>7. QED BY <1>4, <1>5, <1>6, Zenon DEF r

----------------------------------------------------------------------------
(* The invariant, taken apart and put together.                             *)

(* What the invariant says of each variable, for use in the steps below.    *)
LEMMA Parts ==
  ASSUME WaitInv
  PROVE  /\ hl \in Seq(Handles) /\ Once(hl) /\ Len(hl) \in Nat /\ Elems(hl) \subseteq Handles
         /\ refs \in [Handles -> 0..3] /\ owned \subseteq Handles
         /\ ready \in [Handles -> BOOLEAN] /\ ipc \in Handles \cup {NULL}
         /\ hwe \in BOOLEAN /\ we \in [Handles -> {NULL, "list", "one"}]
         /\ sig \in [list : BOOLEAN, one : BOOLEAN]
         /\ hlock \in {NULL, "waiter", "other"}
         /\ w \in ThreadType(WaiterPcs) /\ m \in ThreadType(OtherPcs) /\ fault \in BOOLEAN
         /\ InPlace /\ InEvents /\ Told
         /\ NULL \notin Handles /\ NULL \notin {"list", "one", "waiter", "other"}
         /\ Cardinality(Handles) \in Nat /\ Len(hl) <= Cardinality(Handles)
<1>1. hl \in Seq(Handles) /\ OnceEach /\ TypeOK /\ InPlace /\ InEvents /\ Told
  BY DEF WaitInv, RefsExact
<1>2. Once(hl) /\ Len(hl) \in Nat
  BY <1>1 DEF Once, OnceEach
<1>3. Cardinality(Handles) \in Nat
  BY HandleWaitAssumption, FS_CardinalityType
<1>4. QED BY <1>1, <1>2, <1>3, HandleWaitAssumption DEF TypeOK

(* Types of the variables that no count depends on.                         *)
Others ==
  /\ ready' \in [Handles -> BOOLEAN] /\ ipc' \in Handles \cup {NULL}
  /\ hwe' \in BOOLEAN /\ we' \in [Handles -> {NULL, "list", "one"}]
  /\ sig' \in [list : BOOLEAN, one : BOOLEAN]
  /\ hlock' \in {NULL, "waiter", "other"}
  /\ w' \in ThreadType(WaiterPcs) /\ m' \in ThreadType(OtherPcs) /\ fault' \in BOOLEAN

(* The reference count of one handle.                                       *)
Exact(h) == refs[h] = Count(h \in owned) + Count(h \in Elems(hl))
                      + Count(w.pc = "serve" /\ w.h = h)

(* A holder counts once.                                                    *)
LEMMA CountFacts == Count(TRUE) = 1 /\ Count(FALSE) = 0 /\ \A b : Count(b) \in {0, 1}
BY DEF Count

(* The invariant after a step, from its parts.                              *)
LEMMA Whole ==
  ASSUME hl' \in Seq(Handles), Once(hl'), refs' \in [Handles -> Int], owned' \subseteq Handles,
         \A h \in Handles : Exact(h)', Others, InPlace', InEvents', Told'
  PROVE  WaitInv'
<1>1. Len(hl') <= Cardinality(Handles) /\ OnceEach'
  BY OnceLen DEF Once, OnceEach
<1>2. Elems(hl') \subseteq Handles
  BY DEF Elems
<1>3. refs' \in [Handles -> 0..3]
  <2>1. \A h \in Handles : refs'[h] \in 0..3
    BY CountFacts DEF Exact
  <2>2. QED BY <2>1
<1>4. TypeOK'
  BY <1>1, <1>2, <1>3 DEF TypeOK, Others, Elems
<1>5. RefsExact'
  BY <1>4 DEF RefsExact, Exact
<1>6. QED BY <1>1, <1>5 DEF WaitInv

(* Nothing is referenced that was not, and the list is the same.            *)
LEMMA Quiet ==
  ASSUME WaitInv, UNCHANGED <<refs, owned, hl>>, Others, InPlace', InEvents', Told',
         (w'.pc = "serve" <=> w.pc = "serve") /\ (w.pc = "serve" => w'.h = w.h)
  PROVE  WaitInv'
<1>1. \A h \in Handles : Exact(h)
  BY DEF WaitInv, RefsExact, Exact
<1>2. \A h \in Handles : Exact(h)'
  BY <1>1 DEF Exact, Elems
<1>3. hl' \in Seq(Handles) /\ Once(hl') /\ refs' \in [Handles -> Int] /\ owned' \subseteq Handles
  BY Parts
<1>4. QED BY <1>2, <1>3, Whole

(* What was polled was prepared.                                            *)
LEMMA PolledPrepared ==
  ASSUME WaitInv
  PROVE  Polled \subseteq Prepared /\ Prepared \subseteq Elems(hl)
<1>1. /\ Len(hl) \in Nat /\ InPlace /\ w \in ThreadType(WaiterPcs)
      /\ Elems(hl) = {hl[k] : k \in 1..Len(hl)}
  BY Parts DEF Elems
<1>2. CASE w.pc = "prepare" \/ w.pc = "poll"
  <2>1. w.i \in 1..Len(hl)
    BY <1>1, <1>2 DEF InPlace
  <2>2. 1..w.i - 1 \subseteq 1..Len(hl) /\ 1..w.i \subseteq 1..Len(hl)
        /\ 1..w.i - 1 \subseteq 1..w.i
    BY <1>1, <2>1
  <2>3. QED BY <1>1, <1>2, <2>2 DEF Polled, Prepared
<1>3. CASE w.pc \notin {"prepare", "poll"}
  BY <1>1, <1>3 DEF Polled, Prepared
<1>4. QED BY <1>2, <1>3

----------------------------------------------------------------------------
(* The objects.                                                             *)

(* An object gets an event: under ipc_lock, so it is about to be told.      *)
LEMMA ChangeInv ==
  ASSUME WaitInv, NEW h \in Handles, Change(h)
  PROVE  WaitInv'
<1>1. Others
  BY Parts DEF Change, Others
<1>2. /\ ipc = NULL /\ h \in owned /\ ready' = [ready EXCEPT ![h] = TRUE] /\ ipc' = h
      /\ UNCHANGED <<refs, owned, hl, hwe, we, sig, hlock, w, m, fault>>
  BY DEF Change
<1>3. InPlace' /\ InEvents'
  BY <1>2, Parts DEF InPlace, InEvents, Prepared, Elems
<1>4. Polled' = Polled
  BY <1>2 DEF Polled, Elems
<1>5. Told'
  <2>1. \A g \in Handles : g # h => ready'[g] = ready[g]
    BY <1>2, Parts
  <2>2. Polled \subseteq Handles
    BY PolledPrepared, Parts
  <2>3. \A g \in Polled : ready'[g] => sig.list \/ h = g \/ (m.pc = "addpoll" /\ m.h = g)
    BY <1>2, <2>1, <2>2, Parts DEF Told
  <2>4. m.pc = "sleep" => m.h \in Handles
    BY Parts DEF InPlace
  <2>5. m.pc = "sleep" /\ ready'[m.h] => sig.one \/ h = m.h
    BY <1>2, <2>1, <2>4, Parts DEF Told
  <2>6. QED BY <1>2, <1>4, <2>3, <2>5, Parts DEF Told
<1>6. QED BY <1>1, <1>2, <1>3, <1>5, Quiet

(* handle_notify signals the event the handle points at, if it does.        *)
LEMMA NotifyInv ==
  ASSUME WaitInv, NEW h \in Handles, handle_notify(h)
  PROVE  WaitInv'
<1>1. /\ ipc = h /\ sig' = Signalled(h) /\ ipc' = NULL
      /\ UNCHANGED <<refs, owned, ready, hl, hwe, we, hlock, w, m, fault>>
  BY DEF handle_notify
<1>2. /\ sig' \in [list : BOOLEAN, one : BOOLEAN]
      /\ (sig.list \/ we[h] = "list" => sig'.list) /\ (sig.one \/ we[h] = "one" => sig'.one)
  <2>1. sig \in [list : BOOLEAN, one : BOOLEAN] /\ we[h] \in {NULL, "list", "one"}
        /\ NULL \notin {"list", "one"}
    BY Parts
  <2>2. CASE we[h] = NULL
    BY <1>1, <2>1, <2>2 DEF Signalled
  <2>3. CASE we[h] = "list"
    BY <1>1, <2>1, <2>3 DEF Signalled
  <2>4. CASE we[h] = "one"
    BY <1>1, <2>1, <2>4 DEF Signalled
  <2>5. QED BY <2>1, <2>2, <2>3, <2>4
<1>3. Others
  BY <1>1, <1>2, Parts DEF Others
<1>4. InPlace' /\ InEvents'
  BY <1>1, Parts DEF InPlace, InEvents, Prepared, Elems
<1>5. Polled' = Polled
  BY <1>1 DEF Polled, Elems
<1>6. Told'
  <2>1. h \in Polled => we[h] = "list"
    BY PolledPrepared, Parts DEF InEvents
  <2>2. \A g \in Polled : ready[g] => sig'.list \/ (m.pc = "addpoll" /\ m.h = g)
    BY <1>1, <1>2, <2>1, Parts DEF Told
  <2>3. m.pc = "sleep" /\ ready[m.h] => sig'.one
    BY <1>1, <1>2, Parts DEF Told, InEvents, InPlace
  <2>4. QED BY <1>1, <1>2, <1>5, <2>2, <2>3, Parts DEF Told
<1>7. QED BY <1>1, <1>3, <1>4, <1>6, Quiet

----------------------------------------------------------------------------
(* handle_list_wait.                                                        *)

(* handle_list_wait takes the lock and has prepared nothing yet.            *)
LEMMA BeginInv ==
  ASSUME WaitInv, ListWaitBegin
  PROVE  WaitInv'
<1>1. /\ w.pc = "idle" /\ hlock = NULL /\ hl # <<>> /\ hlock' = "waiter" /\ hwe' = TRUE
      /\ sig' = [sig EXCEPT !.list = FALSE]
      /\ w' = [pc |-> "prepare", i |-> 1, prep |-> TRUE, h |-> NULL]
      /\ UNCHANGED <<refs, owned, ready, ipc, hl, we, m, fault>>
  BY DEF ListWaitBegin
<1>2. 1 \in 1..Len(hl) /\ 1 \in 0..Cardinality(Handles)
  BY <1>1, Parts
<1>3. Others
  BY <1>1, <1>2, Parts DEF Others, ThreadType, WaiterPcs
<1>4. InPlace'
  BY <1>1, <1>2, Parts DEF InPlace, Locked, Elems
<1>5. Prepared = {} /\ Prepared' = {} /\ Polled' = {}
  <2>1. w'.pc = "prepare" /\ 1..w'.i - 1 = {}
    BY <1>1
  <2>2. QED BY <1>1, <2>1 DEF Prepared, Polled
<1>6. InEvents'
  BY <1>1, <1>5, Parts DEF InEvents
<1>7. Told'
  BY <1>1, <1>5, Parts DEF Told
<1>8. QED BY <1>1, <1>3, <1>4, <1>6, <1>7, Quiet

(* One more handle points at the event of the list.                         *)
LEMMA PrepareInv ==
  ASSUME WaitInv, Prepare
  PROVE  WaitInv'
<1>1. /\ w.pc = "prepare" /\ we' = [we EXCEPT ![hl[w.i]] = "list"]
      /\ w' = [w EXCEPT !.pc = "poll"]
      /\ UNCHANGED <<refs, owned, ready, ipc, hl, hwe, sig, hlock, m, fault>>
  BY DEF Prepare
<1>2. PICK n \in 1..Len(hl) : n = w.i
  BY <1>1, Parts DEF InPlace
<1>3. hl[n] \in Elems(hl) /\ hl[n] \in Handles
  BY <1>2, Parts DEF Elems
<1>4. w'.pc = "poll" /\ w'.i = n /\ w'.prep = w.prep /\ w'.h = w.h /\ w.prep
  BY <1>1, <1>2, Parts DEF ThreadType, InPlace
<1>5. Others
  BY <1>1, <1>2, <1>3, Parts DEF Others, ThreadType, WaiterPcs
<1>6. InPlace'
  BY <1>1, <1>2, <1>4, Parts DEF InPlace, Locked, Elems
<1>7. /\ Prepared = {hl[k] : k \in 1..n - 1} /\ Prepared' = {hl[k] : k \in 1..n}
      /\ Polled' = Polled
  BY <1>1, <1>2, <1>4 DEF Prepared, Polled
<1>8. Prepared' = Prepared \cup {hl[n]}
  <2>1. 1..n = (1..n - 1) \cup {n}
    BY <1>2, Parts
  <2>2. QED BY <1>7, <2>1
<1>9. InEvents'
  <2>1. \A g \in Handles : we'[g] = IF g = hl[n] THEN "list" ELSE we[g]
    BY <1>1, <1>2, <1>3, Parts
  <2>2. ~(m.pc \in {"poll", "sleep", "finalize"} /\ m.h = hl[n])
    BY <1>3, Parts DEF InPlace
  <2>3. QED BY <1>1, <1>8, <2>1, <2>2, Parts DEF InEvents
<1>10. Told'
  BY <1>1, <1>4, <1>7, Parts DEF Told
<1>11. QED BY <1>1, <1>4, <1>5, <1>6, <1>9, <1>10, Quiet

(* The wait events of all prepared handles are cleared.                     *)
LEMMA FinishFacts ==
  ASSUME WaitInv, NEW n \in 0..Len(hl), we' = FinishFirst(n),
         Prepared \subseteq {hl[k] : k \in 1..n}
  PROVE  /\ we' \in [Handles -> {NULL, "list", "one"}]
         /\ \A h \in Handles : we'[h] # "list" /\ (we'[h] = "one" <=> we[h] = "one")
<1>1. Elems(SubSeq(hl, 1, n)) = {hl[k] : k \in 1..n}
  BY Parts, FirstElems
<1>2. \A h \in Handles : we'[h] = IF h \in {hl[k] : k \in 1..n} THEN NULL ELSE we[h]
  BY <1>1 DEF FinishFirst
<1>3. {hl[k] : k \in 1..n} \subseteq Elems(hl)
  BY Parts DEF Elems
<1>4. \A h \in Elems(hl) : we[h] # "one"
  BY Parts DEF InEvents, InPlace
<1>5. \A h \in Handles : we'[h] \in {NULL, "list", "one"}
  BY <1>2, Parts
<1>6. we' = [h \in Handles |-> we'[h]]
  BY DEF FinishFirst
<1>7. QED BY <1>2, <1>3, <1>4, <1>5, <1>6, Parts DEF InEvents

(* A handle has an event: no handle is waited for any more.                 *)
LEMMA FoundInv ==
  ASSUME WaitInv, PollFound
  PROVE  WaitInv'
<1>1. /\ w.pc = "poll" /\ we' = FinishFirst(IF w.prep THEN w.i ELSE Len(hl))
      /\ w' = [w EXCEPT !.pc = "finalize", !.h = hl[w.i]]
      /\ UNCHANGED <<refs, owned, ready, ipc, hl, hwe, sig, hlock, m, fault>>
  BY DEF PollFound
<1>2. PICK n \in 1..Len(hl) : n = w.i
  BY <1>1, Parts DEF InPlace
<1>3. hl[n] \in Elems(hl) /\ hl[n] \in Handles
  BY <1>2, Parts DEF Elems
<1>4. w'.pc = "finalize" /\ w'.h = hl[n] /\ w' \in ThreadType(WaiterPcs)
  BY <1>1, <1>2, <1>3, Parts DEF ThreadType, WaiterPcs
<1>5. PICK l \in 0..Len(hl) : l = IF w.prep THEN w.i ELSE Len(hl)
  BY <1>2, Parts
<1>6. Prepared \subseteq {hl[k] : k \in 1..l}
  BY <1>1, <1>5 DEF Prepared, Elems
<1>7. /\ we' \in [Handles -> {NULL, "list", "one"}]
      /\ \A h \in Handles : we'[h] # "list" /\ (we'[h] = "one" <=> we[h] = "one")
  BY <1>1, <1>5, <1>6, FinishFacts
<1>8. Others
  BY <1>1, <1>4, <1>7, Parts DEF Others
<1>9. InPlace'
  BY <1>1, <1>3, <1>4, Parts DEF InPlace, Locked, Elems
<1>10. Prepared' = {} /\ Polled' = {}
  BY <1>4 DEF Prepared, Polled
<1>11. InEvents'
  BY <1>1, <1>7, <1>10, Parts DEF InEvents
<1>12. Told'
  BY <1>1, <1>4, <1>10, Parts DEF Told
<1>13. QED BY <1>1, <1>4, <1>8, <1>9, <1>11, <1>12, Quiet

(* A handle had no event when it was polled.                                *)
LEMMA PollNextInv ==
  ASSUME WaitInv, PollNext
  PROVE  WaitInv'
<1>1. /\ w.pc = "poll" /\ ~ready[hl[w.i]] /\ w.i < Len(hl)
      /\ w' = [w EXCEPT !.i = @ + 1, !.pc = IF w.prep THEN "prepare" ELSE "poll"]
      /\ UNCHANGED <<refs, owned, ready, ipc, hl, hwe, we, sig, hlock, m, fault>>
  BY DEF PollNext
<1>2. PICK n \in 1..Len(hl) : n = w.i
  BY <1>1, Parts DEF InPlace
<1>3. n + 1 \in 1..Len(hl) /\ n + 1 \in 0..Cardinality(Handles) /\ (n + 1) - 1 = n
  BY <1>1, <1>2, Parts
<1>4. /\ w'.pc = IF w.prep THEN "prepare" ELSE "poll"
      /\ w'.i = n + 1 /\ w'.prep = w.prep /\ w' \in ThreadType(WaiterPcs)
  BY <1>1, <1>2, <1>3, Parts DEF ThreadType, WaiterPcs
<1>5. Others
  BY <1>1, <1>4, Parts DEF Others
<1>6. InPlace'
  BY <1>1, <1>3, <1>4, Parts DEF InPlace, Locked, Elems
<1>7. /\ Prepared' = Prepared
      /\ Polled = {hl[k] : k \in 1..n - 1} /\ Polled' = {hl[k] : k \in 1..n}
  <2>1. Prepared' = Prepared
    BY <1>1, <1>2, <1>3, <1>4 DEF Prepared, Elems
  <2>2. Polled = {hl[k] : k \in 1..n - 1} /\ Polled' = {hl[k] : k \in 1..n}
    BY <1>1, <1>2, <1>3, <1>4 DEF Polled
  <2>3. QED BY <2>1, <2>2
<1>8. Polled' = Polled \cup {hl[n]}
  <2>1. 1..n = (1..n - 1) \cup {n}
    BY <1>2, Parts
  <2>2. QED BY <1>7, <2>1
<1>9. InEvents'
  BY <1>1, <1>7, Parts DEF InEvents
<1>10. Told'
  BY <1>1, <1>2, <1>4, <1>8, Parts DEF Told
<1>11. QED BY <1>1, <1>4, <1>5, <1>6, <1>9, <1>10, Quiet

(* Nothing was found: the waiter goes to sleep, for the first time or       *)
(* again.                                                                   *)
LEMMA SleepInv ==
  ASSUME WaitInv, w.pc = "poll", ~ready[hl[w.i]], w.i = Len(hl), hlock' = NULL,
         w' = [w EXCEPT !.pc = "sleep"],
         UNCHANGED <<refs, owned, ready, ipc, hl, hwe, we, sig, m, fault>>
  PROVE  WaitInv'
<1>2. PICK n \in 1..Len(hl) : n = w.i /\ n = Len(hl)
  BY Parts DEF InPlace
<1>4. w'.pc = "sleep" /\ w' \in ThreadType(WaiterPcs)
  BY Parts DEF ThreadType, WaiterPcs
<1>5. Others
  BY <1>4, Parts DEF Others
<1>6. InPlace'
  BY <1>4, Parts DEF InPlace, Locked, Elems
<1>7. /\ Prepared' = Prepared
      /\ Polled = {hl[k] : k \in 1..n - 1} /\ Polled' = {hl[k] : k \in 1..n}
  BY <1>2, <1>4 DEF Prepared, Polled, Elems
<1>8. Polled' = Polled \cup {hl[n]}
  <2>1. 1..n = (1..n - 1) \cup {n}
    BY <1>2, Parts
  <2>2. QED BY <1>7, <2>1
<1>9. InEvents'
  BY <1>7, Parts DEF InEvents
<1>10. hl # <<>>
  BY <1>2, Parts
<1>11. Told'
  BY <1>2, <1>4, <1>8, <1>10, Parts DEF Told
<1>12. QED BY <1>4, <1>5, <1>6, <1>9, <1>11, Quiet

(* The waiter leaves: nothing is waited for any more.                       *)
LEMMA LeaveInv ==
  ASSUME WaitInv, we' = FinishFirst(Len(hl)), hwe' = FALSE, w' = Idle, w.pc # "serve",
         hlock' = NULL, hlock \in {NULL, "waiter"},
         UNCHANGED <<refs, owned, ready, ipc, hl, sig, m, fault>>
  PROVE  WaitInv'
<1>1. PICK l \in 0..Len(hl) : l = Len(hl)
  BY Parts
<1>2. Prepared \subseteq {hl[k] : k \in 1..l}
  BY <1>1, PolledPrepared DEF Elems
<1>3. /\ we' \in [Handles -> {NULL, "list", "one"}]
      /\ \A h \in Handles : we'[h] # "list" /\ (we'[h] = "one" <=> we[h] = "one")
  BY <1>1, <1>2, FinishFacts
<1>4. w'.pc = "idle" /\ w' \in ThreadType(WaiterPcs)
  BY Parts DEF ThreadType, WaiterPcs, Idle
<1>5. Others
  BY <1>3, <1>4, Parts DEF Others
<1>6. InPlace'
  BY <1>4, Parts DEF InPlace, Locked, Elems
<1>7. Prepared' = {} /\ Polled' = {}
  BY <1>4 DEF Prepared, Polled
<1>8. InEvents'
  BY <1>3, <1>7, Parts DEF InEvents
<1>9. Told'
  BY <1>4, <1>7, Parts DEF Told
<1>10. QED BY <1>4, <1>5, <1>6, <1>8, <1>9, Quiet

(* An error number in ret ends the wait; a 1 in it returns no handle.       *)
LEMMA GarbageInv ==
  ASSUME WaitInv, PollGarbage
  PROVE  WaitInv'
<1>1. /\ w.pc = "poll" /\ ~ready[hl[w.i]] /\ w.i = Len(hl) /\ ~w.prep
      /\ UNCHANGED <<refs, owned, ready, ipc, hl, sig, m>>
  BY DEF PollGarbage
<1>2. CASE w' = [w EXCEPT !.pc = "sleep"] /\ hlock' = NULL /\ UNCHANGED <<we, hwe, fault>>
  BY <1>1, <1>2, SleepInv
<1>3. CASE /\ w' = Idle /\ we' = FinishFirst(Len(hl)) /\ hwe' = FALSE /\ hlock' = NULL
           /\ UNCHANGED fault
  <2>1. hlock \in {NULL, "waiter"}
    BY <1>1, Parts DEF InPlace, Locked
  <2>2. QED BY <1>1, <1>3, <2>1, LeaveInv
<1>4. CASE /\ fault' = TRUE /\ w' = [w EXCEPT !.pc = "fault"] /\ UNCHANGED <<we, hwe, hlock>>
  <2>1. w'.pc = "fault" /\ w' \in ThreadType(WaiterPcs)
    BY <1>4, Parts DEF ThreadType, WaiterPcs
  <2>2. Others
    BY <1>1, <1>4, <2>1, Parts DEF Others
  <2>3. InPlace'
    BY <1>1, <1>4, <2>1, Parts DEF InPlace, Locked, Elems
  <2>4. Prepared' = Prepared /\ Polled' = {}
    BY <1>1, <2>1 DEF Prepared, Polled, Elems
  <2>5. InEvents'
    BY <1>1, <1>4, <2>4, Parts DEF InEvents
  <2>6. Told'
    BY <1>1, <2>1, <2>4, Parts DEF Told
  <2>7. QED BY <1>1, <2>1, <2>2, <2>3, <2>5, <2>6, Quiet
<1>5. QED BY <1>2, <1>3, <1>4 DEF PollGarbage

(* No handle has an event.                                                  *)
LEMMA NoneInv ==
  ASSUME WaitInv, PollNone
  PROVE  WaitInv'
BY SleepInv DEF PollNone

(* The event wakes the waiter.                                              *)
LEMMA WakeupInv ==
  ASSUME WaitInv, Wakeup
  PROVE  WaitInv'
<1>1. /\ w.pc = "sleep" /\ sig' = [sig EXCEPT !.list = FALSE] /\ w' = [w EXCEPT !.pc = "relock"]
      /\ UNCHANGED <<refs, owned, ready, ipc, hl, hwe, we, hlock, m, fault>>
  BY DEF Wakeup
<1>2. w'.pc = "relock" /\ w' \in ThreadType(WaiterPcs)
  BY <1>1, Parts DEF ThreadType, WaiterPcs
<1>3. sig' \in [list : BOOLEAN, one : BOOLEAN] /\ sig'.one = sig.one
  BY <1>1, Parts
<1>4. Others
  BY <1>1, <1>2, <1>3, Parts DEF Others
<1>5. InPlace'
  BY <1>1, <1>2, Parts DEF InPlace, Locked, Elems
<1>6. Prepared' = Prepared /\ Polled' = {}
  BY <1>1, <1>2 DEF Prepared, Polled, Elems
<1>7. InEvents'
  BY <1>1, <1>6, Parts DEF InEvents
<1>8. Told'
  BY <1>1, <1>2, <1>3, <1>6, Parts DEF Told
<1>9. QED BY <1>1, <1>2, <1>4, <1>5, <1>7, <1>8, Quiet

(* The timeout does.                                                        *)
LEMMA TimeoutInv ==
  ASSUME WaitInv, Timeout
  PROVE  WaitInv'
<1>1. /\ w.pc = "sleep" /\ w' = [w EXCEPT !.pc = "timedout"]
      /\ UNCHANGED <<refs, owned, ready, ipc, hl, hwe, we, sig, hlock, m, fault>>
  BY DEF Timeout
<1>2. w'.pc = "timedout" /\ w' \in ThreadType(WaiterPcs)
  BY <1>1, Parts DEF ThreadType, WaiterPcs
<1>4. Others
  BY <1>1, <1>2, Parts DEF Others
<1>5. InPlace'
  BY <1>1, <1>2, Parts DEF InPlace, Locked, Elems
<1>6. Prepared' = Prepared /\ Polled' = {}
  BY <1>1, <1>2 DEF Prepared, Polled, Elems
<1>7. InEvents'
  BY <1>1, <1>6, Parts DEF InEvents
<1>8. Told'
  BY <1>1, <1>2, <1>6, Parts DEF Told
<1>9. QED BY <1>1, <1>2, <1>4, <1>5, <1>7, <1>8, Quiet

(* After a wakeup the list is polled again from its head.                   *)
LEMMA RepollInv ==
  ASSUME WaitInv, Repoll
  PROVE  WaitInv'
<1>1. /\ w.pc = "relock" /\ hlock = NULL /\ hl # <<>> /\ hlock' = "waiter"
      /\ w' = [w EXCEPT !.pc = "poll", !.i = 1, !.prep = FALSE]
      /\ UNCHANGED <<refs, owned, ready, ipc, hl, hwe, we, sig, m, fault>>
  BY DEF Repoll
<1>2. 1 \in 1..Len(hl) /\ 1 \in 0..Cardinality(Handles)
  BY <1>1, Parts
<1>3. w'.pc = "poll" /\ w'.i = 1 /\ w'.prep = FALSE /\ w' \in ThreadType(WaiterPcs)
  BY <1>1, <1>2, Parts DEF ThreadType, WaiterPcs
<1>4. Others
  BY <1>1, <1>3, Parts DEF Others
<1>5. InPlace'
  BY <1>1, <1>2, <1>3, Parts DEF InPlace, Locked, Elems
<1>6. Prepared' = Prepared /\ Polled' = {}
  <2>1. 1..w'.i - 1 = {}
    BY <1>3
  <2>2. QED BY <1>1, <1>3, <2>1 DEF Prepared, Polled, Elems
<1>7. InEvents'
  BY <1>1, <1>6, Parts DEF InEvents
<1>8. Told'
  BY <1>1, <1>3, <1>6, Parts DEF Told
<1>9. QED BY <1>1, <1>3, <1>4, <1>5, <1>7, <1>8, Quiet

(* The wait has failed.                                                     *)
LEMMA GiveUpInv ==
  ASSUME WaitInv, GiveUp
  PROVE  WaitInv'
<1>1. w.pc # "serve" /\ hlock = NULL /\ hlock' = NULL
  BY DEF GiveUp
<1>2. QED BY <1>1, LeaveInv DEF GiveUp

(* finalize_event consumes an event and makes none.                         *)
LEMMA FinalizedFacts ==
  ASSUME WaitInv, NEW h \in Handles
  PROVE  Finalized(h) \in [Handles -> BOOLEAN] /\ \A g \in Handles : Finalized(h)[g] => ready[g]
BY Parts DEF Finalized

(* A handle that was found is returned with a reference, and the list       *)
(* begins after it.                                                         *)
LEMMA ReturnInv ==
  ASSUME WaitInv, ListWaitReturn
  PROVE  WaitInv'
<1>1. /\ w.pc = "finalize" /\ ready' = Finalized(w.h) /\ refs' = [refs EXCEPT ![w.h] = @ + 1]
      /\ hl' = HeadAfter(hl, w.h) /\ hwe' = FALSE /\ hlock' = NULL
      /\ w' = [w EXCEPT !.pc = "serve"] /\ UNCHANGED <<owned, ipc, we, sig, m, fault>>
  BY DEF ListWaitReturn
<1>2. PICK h \in Handles : h = w.h /\ h \in Elems(hl)
  BY <1>1, Parts DEF InPlace
<1>3. w'.pc = "serve" /\ w'.h = h /\ w' \in ThreadType(WaiterPcs)
  BY <1>1, <1>2, Parts DEF ThreadType, WaiterPcs
<1>4. hl' \in Seq(Handles) /\ Once(hl') /\ Elems(hl') = Elems(hl)
  BY <1>1, <1>2, HeadAfterFacts, Parts
<1>5. ready' \in [Handles -> BOOLEAN] /\ \A g \in Handles : ready'[g] => ready[g]
  BY <1>1, <1>2, FinalizedFacts
<1>6. Others
  BY <1>1, <1>3, <1>5, Parts DEF Others
<1>7. refs' \in [Handles -> Int] /\ owned' \subseteq Handles
  BY <1>1, <1>2, Parts
<1>8. \A g \in Handles : Exact(g)'
  <2>1. SUFFICES ASSUME NEW g \in Handles PROVE Exact(g)'
    OBVIOUS
  <2>2. refs[g] = Count(g \in owned) + Count(g \in Elems(hl)) + 0
    BY <1>1, CountFacts DEF WaitInv, RefsExact
  <2>3. refs'[g] = refs[g] + Count(h = g)
    BY <1>1, <1>2, Parts DEF Count
  <2>4. refs'[g] = Count(g \in owned) + Count(g \in Elems(hl)) + Count(h = g)
    BY <2>2, <2>3, CountFacts
  <2>5. (w'.pc = "serve" /\ w'.h = g) <=> h = g
    BY <1>3
  <2>6. QED BY <1>1, <1>4, <2>4, <2>5 DEF Exact, Count
<1>9. InPlace'
  BY <1>1, <1>2, <1>3, <1>4, Parts DEF InPlace, Locked
<1>10. Prepared = {} /\ Prepared' = {} /\ Polled' = {}
  BY <1>1, <1>3 DEF Prepared, Polled
<1>11. InEvents'
  BY <1>1, <1>10, Parts DEF InEvents
<1>12. Told'
  BY <1>1, <1>3, <1>5, <1>10, Parts DEF Told, InPlace
<1>13. QED BY <1>4, <1>6, <1>7, <1>8, <1>9, <1>11, <1>12, Whole

(* The caller drops the reference.                                          *)
LEMMA ServeInv ==
  ASSUME WaitInv, Serve
  PROVE  WaitInv'
<1>1. /\ w.pc = "serve" /\ ready' \in {ready, [ready EXCEPT ![w.h] = FALSE]}
      /\ refs' = [refs EXCEPT ![w.h] = @ - 1] /\ w' = Idle
      /\ UNCHANGED <<owned, ipc, hl, hwe, we, sig, hlock, m, fault>>
  BY DEF Serve
<1>2. PICK h \in Handles : h = w.h
  BY <1>1, Parts DEF InPlace
<1>3. w'.pc = "idle" /\ w' \in ThreadType(WaiterPcs)
  BY <1>1, Parts DEF ThreadType, WaiterPcs, Idle
<1>4. hl' \in Seq(Handles) /\ Once(hl')
  BY <1>1, Parts
<1>5. ready' \in [Handles -> BOOLEAN] /\ \A g \in Handles : ready'[g] => ready[g]
  BY <1>1, <1>2, Parts
<1>6. Others
  BY <1>1, <1>3, <1>5, Parts DEF Others
<1>7. refs' \in [Handles -> Int] /\ owned' \subseteq Handles
  BY <1>1, <1>2, Parts
<1>8. \A g \in Handles : Exact(g)'
  <2>1. SUFFICES ASSUME NEW g \in Handles PROVE Exact(g)'
    OBVIOUS
  <2>2. refs[g] = Count(g \in owned) + Count(g \in Elems(hl)) + Count(w.pc = "serve" /\ w.h = g)
    BY DEF WaitInv, RefsExact
  <2>3. (w.pc = "serve" /\ w.h = g) <=> h = g
    BY <1>1, <1>2
  <2>4. refs[g] = Count(g \in owned) + Count(g \in Elems(hl)) + Count(h = g)
    BY <2>2, <2>3 DEF Count
  <2>5. refs'[g] = refs[g] - Count(h = g)
    BY <1>1, <1>2, Parts DEF Count
  <2>6. refs'[g] = Count(g \in owned) + Count(g \in Elems(hl)) + 0
    BY <2>4, <2>5, CountFacts
  <2>7. QED BY <1>1, <1>3, <2>6 DEF Exact, Count, Elems
<1>9. InPlace'
  BY <1>1, <1>3, Parts DEF InPlace, Locked, Elems
<1>10. Prepared = {} /\ Prepared' = {} /\ Polled' = {}
  BY <1>1, <1>3 DEF Prepared, Polled
<1>11. InEvents'
  BY <1>1, <1>10, Parts DEF InEvents
<1>12. Told'
  BY <1>1, <1>3, <1>5, <1>10, Parts DEF Told, InPlace
<1>13. QED BY <1>4, <1>6, <1>7, <1>8, <1>9, <1>11, <1>12, Whole

----------------------------------------------------------------------------
(* The other thread.                                                        *)

(* While the list is the waiter's alone to change, what it has prepared and *)
(* polled depends on nothing else.                                          *)
LEMMA SameWaiter ==
  ASSUME UNCHANGED <<w, hl>>
  PROVE  Prepared' = Prepared /\ Polled' = Polled
BY DEF Prepared, Polled, Elems

(* The waiter does not hold the lock: it sleeps or has slept, with every    *)
(* handle of the list prepared, or it does not wait at all.                 *)
LEMMA Unlocked ==
  ASSUME WaitInv, hlock # "waiter"
  PROVE  /\ hwe => w.pc \in {"sleep", "relock", "timedout"}
         /\ ~hwe => w.pc \in {"idle", "serve"}
         /\ Prepared = IF hwe THEN Elems(hl) ELSE {}
         /\ Polled = IF w.pc = "sleep" THEN Elems(hl) ELSE {}
<1>1. w.pc \notin Locked /\ w.pc \in WaiterPcs /\ (hwe <=> w.pc \notin {"idle", "serve"})
  BY Parts DEF InPlace, ThreadType
<1>2. (hwe => w.pc \in {"sleep", "relock", "timedout"}) /\ (~hwe => w.pc \in {"idle", "serve"})
  BY <1>1 DEF Locked, WaiterPcs
<1>3. QED BY <1>2 DEF Prepared, Polled

(* A freed handle is used again for a new object.                           *)
LEMMA InitInv ==
  ASSUME WaitInv, NEW h \in Handles, handle_init(h)
  PROVE  WaitInv'
<1>1. /\ m.pc = "idle" /\ refs[h] = 0 /\ refs' = [refs EXCEPT ![h] = 1]
      /\ owned' = owned \cup {h} /\ ready' = [ready EXCEPT ![h] = FALSE]
      /\ we' = [we EXCEPT ![h] = NULL] /\ UNCHANGED <<ipc, hl, hwe, sig, hlock, w, m, fault>>
  BY DEF handle_init
<1>2. h \notin owned /\ h \notin Elems(hl) /\ ~(w.pc = "serve" /\ w.h = h)
  <2>1. refs[h] = Count(h \in owned) + Count(h \in Elems(hl)) + Count(w.pc = "serve" /\ w.h = h)
    BY DEF WaitInv, RefsExact
  <2>2. Count(h \in owned) = 0 /\ Count(h \in Elems(hl)) = 0
        /\ Count(w.pc = "serve" /\ w.h = h) = 0
    BY <1>1, <2>1, CountFacts
  <2>3. QED BY <2>2 DEF Count
<1>3. Others
  BY <1>1, Parts DEF Others
<1>4. hl' \in Seq(Handles) /\ Once(hl') /\ refs' \in [Handles -> Int] /\ owned' \subseteq Handles
  BY <1>1, Parts
<1>5. \A g \in Handles : Exact(g)'
  <2>1. SUFFICES ASSUME NEW g \in Handles PROVE Exact(g)'
    OBVIOUS
  <2>2. refs[g] = Count(g \in owned) + Count(g \in Elems(hl)) + Count(w.pc = "serve" /\ w.h = g)
    BY DEF WaitInv, RefsExact
  <2>3. CASE g # h
    <3>1. refs'[g] = refs[g] /\ (g \in owned' <=> g \in owned)
      BY <1>1, <2>3, Parts
    <3>2. QED BY <1>1, <2>2, <3>1 DEF Exact, Count, Elems
  <2>4. CASE g = h
    <3>1. refs'[g] = 1 /\ g \in owned'
      BY <1>1, <2>4, Parts
    <3>2. refs'[g] = Count(g \in owned') + 0 + 0
      BY <3>1, CountFacts DEF Count
    <3>3. QED BY <1>1, <1>2, <2>4, <3>2 DEF Exact, Count, Elems
  <2>5. QED BY <2>3, <2>4
<1>6. InPlace'
  BY <1>1, Parts DEF InPlace, Elems
<1>7. Prepared' = Prepared /\ Polled' = Polled /\ h \notin Prepared
  BY <1>1, <1>2, SameWaiter, PolledPrepared
<1>8. InEvents'
  <2>1. \A g \in Handles : we'[g] = IF g = h THEN NULL ELSE we[g]
    BY <1>1, Parts
  <2>2. QED BY <1>1, <1>7, <2>1, Parts DEF InEvents
<1>9. Told'
  <2>1. \A g \in Handles : ready'[g] => ready[g]
    BY <1>1, Parts
  <2>2. Polled \subseteq Handles
    BY PolledPrepared, Parts
  <2>3. QED BY <1>1, <1>7, <2>1, <2>2, Parts DEF Told
<1>10. QED BY <1>3, <1>4, <1>5, <1>6, <1>8, <1>9, Whole

(* A thread begins with a handle.                                           *)
Begun(p, h) == [Idle EXCEPT !.pc = p, !.h = h]

(* Its record has the type of the thread's.                                 *)
LEMMA Started ==
  ASSUME NEW p \in OtherPcs, NEW h \in Handles
  PROVE  Begun(p, h).pc = p /\ Begun(p, h).h = h /\ Begun(p, h) \in ThreadType(OtherPcs)
<1>1. Idle \in ThreadType(OtherPcs)
  <2>1. Cardinality(Handles) \in Nat
    BY HandleWaitAssumption, FS_CardinalityType
  <2>2. QED BY <2>1 DEF Idle, ThreadType, OtherPcs
<1>2. QED BY <1>1 DEF ThreadType, Begun

(* handle_wait begins.                                                      *)
LEMMA OneBeginInv ==
  ASSUME WaitInv, NEW h \in Handles, WaitOneBegin(h)
  PROVE  WaitInv'
<1>1. /\ m.pc = "idle" /\ h \in owned \ Elems(hl) /\ sig' = [sig EXCEPT !.one = FALSE]
      /\ we' = [we EXCEPT ![h] = "one"] /\ m' = [Idle EXCEPT !.pc = "poll", !.h = h]
      /\ UNCHANGED <<refs, owned, ready, ipc, hl, hwe, hlock, w, fault>>
  BY DEF WaitOneBegin, Mine
<1>2. m'.pc = "poll" /\ m'.h = h /\ m' \in ThreadType(OtherPcs)
  <2>1. "poll" \in OtherPcs /\ m' = Begun("poll", h)
    BY <1>1, Zenon DEF OtherPcs, Begun
  <2>2. QED BY <2>1, Started, Zenon
<1>3. sig' \in [list : BOOLEAN, one : BOOLEAN] /\ sig'.list = sig.list
  BY <1>1, Parts
<1>4. Others
  BY <1>1, <1>2, <1>3, Parts DEF Others
<1>5. InPlace'
  BY <1>1, <1>2, Parts DEF InPlace, Elems
<1>6. Prepared' = Prepared /\ Polled' = Polled /\ h \notin Prepared
  BY <1>1, SameWaiter, PolledPrepared
<1>7. InEvents'
  <2>1. \A g \in Handles : we'[g] = IF g = h THEN "one" ELSE we[g]
    BY <1>1, Parts
  <2>2. QED BY <1>1, <1>2, <1>6, <2>1, Parts DEF InEvents
<1>8. Told'
  BY <1>1, <1>2, <1>3, <1>6, Parts DEF Told
<1>9. QED BY <1>1, <1>4, <1>5, <1>7, <1>8, Quiet

(* handle_wait finds an event, or sleeps.                                   *)
LEMMA OnePollInv ==
  ASSUME WaitInv, WaitOnePoll
  PROVE  WaitInv'
<1>1. /\ m.pc = "poll" /\ m' = [m EXCEPT !.pc = IF ready[m.h] THEN "finalize" ELSE "sleep"]
      /\ UNCHANGED <<refs, owned, ready, ipc, hl, hwe, we, sig, hlock, w, fault>>
  BY DEF WaitOnePoll
<1>2. /\ m'.pc = IF ready[m.h] THEN "finalize" ELSE "sleep"
      /\ m'.h = m.h /\ m' \in ThreadType(OtherPcs)
  BY <1>1, Parts DEF ThreadType, OtherPcs
<1>3. Others
  BY <1>1, <1>2, Parts DEF Others
<1>4. InPlace'
  BY <1>1, <1>2, Parts DEF InPlace, Elems
<1>5. Prepared' = Prepared /\ Polled' = Polled
  BY <1>1, SameWaiter
<1>6. InEvents'
  BY <1>1, <1>2, <1>5, Parts DEF InEvents
<1>7. Told'
  BY <1>1, <1>2, <1>5, Parts DEF Told
<1>8. QED BY <1>1, <1>3, <1>4, <1>6, <1>7, Quiet

(* handle_wait is woken and polls again.                                    *)
LEMMA OneWakeupInv ==
  ASSUME WaitInv, WaitOneWakeup
  PROVE  WaitInv'
<1>1. /\ m.pc = "sleep" /\ sig' = [sig EXCEPT !.one = FALSE] /\ m' = [m EXCEPT !.pc = "poll"]
      /\ UNCHANGED <<refs, owned, ready, ipc, hl, hwe, we, hlock, w, fault>>
  BY DEF WaitOneWakeup
<1>2. m'.pc = "poll" /\ m'.h = m.h /\ m' \in ThreadType(OtherPcs)
  BY <1>1, Parts DEF ThreadType, OtherPcs
<1>3. sig' \in [list : BOOLEAN, one : BOOLEAN] /\ sig'.list = sig.list
  BY <1>1, Parts
<1>4. Others
  BY <1>1, <1>2, <1>3, Parts DEF Others
<1>5. InPlace'
  BY <1>1, <1>2, Parts DEF InPlace, Elems
<1>6. Prepared' = Prepared /\ Polled' = Polled
  BY <1>1, SameWaiter
<1>7. InEvents'
  BY <1>1, <1>2, <1>6, Parts DEF InEvents
<1>8. Told'
  BY <1>1, <1>2, <1>3, <1>6, Parts DEF Told
<1>9. QED BY <1>1, <1>4, <1>5, <1>7, <1>8, Quiet

(* handle_wait returns and leaves no event behind.                          *)
LEMMA OneReturnInv ==
  ASSUME WaitInv, WaitOneReturn
  PROVE  WaitInv'
<1>1. /\ m.pc = "finalize" /\ ready' = Finalized(m.h) /\ we' = [we EXCEPT ![m.h] = NULL]
      /\ m' = Idle /\ UNCHANGED <<refs, owned, ipc, hl, hwe, sig, hlock, w, fault>>
  BY DEF WaitOneReturn
<1>2. PICK h \in Handles : h = m.h /\ h \notin Elems(hl)
  BY <1>1, Parts DEF InPlace
<1>3. m'.pc = "idle" /\ m' \in ThreadType(OtherPcs)
  BY <1>1, Parts DEF ThreadType, OtherPcs, Idle
<1>4. ready' \in [Handles -> BOOLEAN] /\ \A g \in Handles : ready'[g] => ready[g]
  BY <1>1, <1>2, FinalizedFacts
<1>5. Others
  BY <1>1, <1>2, <1>3, <1>4, Parts DEF Others
<1>6. InPlace'
  BY <1>1, <1>3, Parts DEF InPlace, Elems
<1>7. Prepared' = Prepared /\ Polled' = Polled /\ h \notin Prepared
  BY <1>1, <1>2, SameWaiter, PolledPrepared
<1>8. InEvents'
  <2>1. \A g \in Handles : we'[g] = IF g = h THEN NULL ELSE we[g]
    BY <1>1, <1>2, Parts
  <2>2. QED BY <1>1, <1>2, <1>3, <1>7, <2>1, Parts DEF InEvents
<1>9. Told'
  <2>1. Polled \subseteq Handles
    BY PolledPrepared, Parts
  <2>2. QED BY <1>1, <1>3, <1>4, <1>7, <2>1, Parts DEF Told
<1>10. QED BY <1>1, <1>5, <1>6, <1>8, <1>9, Quiet

(* A handle is added, and prepared when the list is waited on.              *)
LEMMA AddInv ==
  ASSUME WaitInv, NEW h \in Handles, handle_list_add(h)
  PROVE  WaitInv'
<1>1. /\ m.pc = "idle" /\ h \in owned /\ h \notin Elems(hl) /\ hlock = NULL
      /\ refs' = [refs EXCEPT ![h] = @ + 1] /\ hl' = Append(hl, h)
      /\ hwe => /\ we' = [we EXCEPT ![h] = "list"]
                /\ m' = [Idle EXCEPT !.pc = "addpoll", !.h = h] /\ hlock' = "other"
      /\ ~hwe => UNCHANGED <<we, m, hlock>>
      /\ UNCHANGED <<owned, ready, ipc, hwe, sig, w, fault>>
  BY DEF handle_list_add, Mine
<1>2. hl' \in Seq(Handles) /\ Once(hl') /\ Elems(hl') = Elems(hl) \cup {h} /\ hl' # <<>>
  BY <1>1, AppendedFacts, Parts
<1>3. /\ hwe => m'.pc = "addpoll" /\ m'.h = h
      /\ ~hwe => m'.pc = "idle" /\ m' \in ThreadType(OtherPcs)
      /\ m' \in ThreadType(OtherPcs)
  <2>1. CASE hwe
    <3>1. "addpoll" \in OtherPcs /\ m' = Begun("addpoll", h)
      BY <1>1, <2>1, Zenon DEF OtherPcs, Begun
    <3>2. QED BY <2>1, <3>1, Started, Zenon
  <2>2. CASE ~hwe
    BY <1>1, <2>2, Parts
  <2>3. QED BY <2>1, <2>2
<1>4. Others
  <2>1. we' \in [Handles -> {NULL, "list", "one"}] /\ hlock' \in {NULL, "waiter", "other"}
    BY <1>1, Parts
  <2>2. QED BY <1>1, <1>3, <2>1, Parts DEF Others
<1>5. refs' \in [Handles -> Int] /\ owned' \subseteq Handles
  BY <1>1, Parts
<1>6. \A g \in Handles : Exact(g)'
  <2>1. SUFFICES ASSUME NEW g \in Handles PROVE Exact(g)'
    OBVIOUS
  <2>2. refs[g] = Count(g \in owned) + Count(g \in Elems(hl)) + Count(w.pc = "serve" /\ w.h = g)
    BY DEF WaitInv, RefsExact
  <2>3. refs'[g] = refs[g] + Count(g = h) /\ refs[g] \in Int
    BY <1>1, Parts DEF Count
  <2>4. Count(g \in Elems(hl) \cup {h}) = Count(g \in Elems(hl)) + Count(g = h)
    BY <1>1 DEF Count
  <2>5. refs'[g] = Count(g \in owned) + Count(g \in Elems(hl) \cup {h})
                   + Count(w.pc = "serve" /\ w.h = g)
    BY <2>2, <2>3, <2>4, CountFacts
  <2>6. QED BY <1>1, <1>2, <2>5, Zenon DEF Exact
<1>7. hlock # "waiter"
  BY <1>1, Parts
<1>8. /\ hwe => w.pc \in {"sleep", "relock", "timedout"}
      /\ ~hwe => w.pc \in {"idle", "serve"}
      /\ Prepared = IF hwe THEN Elems(hl) ELSE {}
      /\ Polled = IF w.pc = "sleep" THEN Elems(hl) ELSE {}
  BY <1>7, Unlocked
<1>9. InPlace'
  BY <1>1, <1>2, <1>3, <1>8, Parts DEF InPlace, Locked
<1>10. /\ Prepared' = IF hwe THEN Elems(hl') ELSE {}
       /\ Polled' = IF w.pc = "sleep" THEN Elems(hl') ELSE {}
  BY <1>1, <1>8 DEF Prepared, Polled
<1>11. InEvents'
  <2>1. CASE hwe
    <3>1. \A g \in Handles : we'[g] = IF g = h THEN "list" ELSE we[g]
      BY <1>1, <2>1, Parts
    <3>2. QED BY <1>1, <1>2, <1>3, <1>8, <1>10, <2>1, <3>1, Parts DEF InEvents
  <2>2. CASE ~hwe
    BY <1>1, <1>8, <1>10, <2>2, Parts DEF InEvents
  <2>3. QED BY <2>1, <2>2
<1>12. Told'
  <2>1. CASE hwe
    BY <1>1, <1>2, <1>3, <1>8, <1>10, <2>1, Parts DEF Told
  <2>2. CASE ~hwe
    BY <1>1, <1>3, <1>8, <1>10, <2>2, Parts DEF Told
  <2>3. QED BY <2>1, <2>2
<1>13. QED BY <1>2, <1>4, <1>5, <1>6, <1>9, <1>11, <1>12, Whole

(* An event the added handle already has is told to the waiter.             *)
LEMMA AddPollInv ==
  ASSUME WaitInv, AddPoll
  PROVE  WaitInv'
<1>1. /\ m.pc = "addpoll" /\ sig' = NoticeAdded(m.h) /\ m' = Idle /\ hlock' = NULL
      /\ UNCHANGED <<refs, owned, ready, ipc, hl, hwe, we, w, fault>>
  BY DEF AddPoll
<1>2. PICK h \in Handles : h = m.h /\ h \in Elems(hl)
  BY <1>1, Parts DEF InPlace
<1>3. hlock # "waiter" /\ hwe
  BY <1>1, Parts DEF InPlace
<1>4. w.pc \in {"sleep", "relock", "timedout"} /\ Prepared = Elems(hl)
  BY <1>3, Unlocked
<1>5. we[h] = "list"
  BY <1>2, <1>4, Parts DEF InEvents
<1>6. sig' = IF ready[h] THEN [sig EXCEPT !.list = TRUE] ELSE sig
  BY <1>1, <1>2, <1>5, Parts DEF NoticeAdded, Signalled
<1>7. /\ sig' \in [list : BOOLEAN, one : BOOLEAN] /\ sig'.one = sig.one
      /\ (sig.list => sig'.list) /\ (ready[h] => sig'.list)
  <2>1. CASE ready[h]
    BY <1>6, <2>1, Parts
  <2>2. CASE ~ready[h]
    BY <1>6, <2>2, Parts
  <2>3. QED BY <2>1, <2>2
<1>8. m'.pc = "idle" /\ m' \in ThreadType(OtherPcs)
  BY <1>1, Parts DEF ThreadType, OtherPcs, Idle
<1>9. Others
  BY <1>1, <1>7, <1>8, Parts DEF Others
<1>10. InPlace'
  BY <1>1, <1>4, <1>8, Parts DEF InPlace, Locked, Elems
<1>11. Prepared' = Prepared /\ Polled' = Polled
  BY <1>1, SameWaiter
<1>12. InEvents'
  BY <1>1, <1>8, <1>11, Parts DEF InEvents
<1>13. Told'
  BY <1>1, <1>2, <1>7, <1>8, <1>11, Parts DEF Told
<1>14. QED BY <1>1, <1>9, <1>10, <1>12, <1>13, Quiet

(* A handle leaves the list, and the wait for it ends.                      *)
LEMMA DelInv ==
  ASSUME WaitInv, NEW h \in Handles, handle_list_del(h)
  PROVE  WaitInv'
<1>1. /\ m.pc = "idle" /\ h \in Elems(hl) /\ hlock = NULL /\ hl' = Without(hl, h)
      /\ refs' = [refs EXCEPT ![h] = @ - 1]
      /\ we' = IF hwe THEN [we EXCEPT ![h] = NULL] ELSE we
      /\ sig' = IF hwe /\ hl' = <<>> THEN [sig EXCEPT !.list = TRUE] ELSE sig
      /\ UNCHANGED <<owned, ready, ipc, hwe, hlock, w, m, fault>>
  BY DEF handle_list_del, Unref
<1>2. hl' \in Seq(Handles) /\ Once(hl') /\ Elems(hl') = Elems(hl) \ {h}
  BY <1>1, WithoutFacts, Parts
<1>3. /\ sig' \in [list : BOOLEAN, one : BOOLEAN] /\ sig'.one = sig.one
      /\ (sig.list => sig'.list) /\ (hwe /\ hl' = <<>> => sig'.list)
  <2>1. CASE hwe /\ hl' = <<>>
    BY <1>1, <2>1, Parts
  <2>2. CASE ~(hwe /\ hl' = <<>>)
    BY <1>1, <2>2, Parts
  <2>3. QED BY <2>1, <2>2
<1>4. Others
  BY <1>1, <1>3, Parts DEF Others
<1>5. refs' \in [Handles -> Int] /\ owned' \subseteq Handles
  BY <1>1, Parts
<1>6. \A g \in Handles : Exact(g)'
  <2>1. SUFFICES ASSUME NEW g \in Handles PROVE Exact(g)'
    OBVIOUS
  <2>2. refs[g] = Count(g \in owned) + Count(g \in Elems(hl)) + Count(w.pc = "serve" /\ w.h = g)
    BY DEF WaitInv, RefsExact
  <2>3. refs'[g] = refs[g] - Count(g = h) /\ refs[g] \in Int
    BY <1>1, Parts DEF Count
  <2>4. Count(g \in Elems(hl) \ {h}) = Count(g \in Elems(hl)) - Count(g = h)
    BY <1>1 DEF Count
  <2>5. refs'[g] = Count(g \in owned) + Count(g \in Elems(hl) \ {h})
                   + Count(w.pc = "serve" /\ w.h = g)
    BY <2>2, <2>3, <2>4, CountFacts
  <2>6. QED BY <1>1, <1>2, <2>5, Zenon DEF Exact
<1>7. hlock # "waiter"
  BY <1>1, Parts
<1>8. /\ hwe => w.pc \in {"sleep", "relock", "timedout"}
      /\ ~hwe => w.pc \in {"idle", "serve"}
      /\ Prepared = IF hwe THEN Elems(hl) ELSE {}
      /\ Polled = IF w.pc = "sleep" THEN Elems(hl) ELSE {}
  BY <1>7, Unlocked
<1>9. InPlace'
  BY <1>1, <1>2, <1>8, Parts DEF InPlace, Locked
<1>10. /\ Prepared' = IF hwe THEN Elems(hl') ELSE {}
       /\ Polled' = IF w.pc = "sleep" THEN Elems(hl') ELSE {}
  BY <1>1, <1>8 DEF Prepared, Polled
<1>11. InEvents'
  <2>1. CASE hwe
    <3>1. \A g \in Handles : we'[g] = IF g = h THEN NULL ELSE we[g]
      BY <1>1, <2>1, Parts
    <3>2. QED BY <1>1, <1>2, <1>8, <1>10, <2>1, <3>1, Parts DEF InEvents
  <2>2. CASE ~hwe
    BY <1>1, <1>8, <1>10, <2>2, Parts DEF InEvents
  <2>3. QED BY <2>1, <2>2
<1>12. Told'
  <2>1. \A g \in Polled' : g \in Polled
    BY <1>2, <1>8, <1>10
  <2>2. w.pc = "sleep" => hwe
    BY <1>8
  <2>3. QED BY <1>1, <1>3, <2>1, <2>2, Parts DEF Told
<1>13. QED BY <1>2, <1>4, <1>5, <1>6, <1>9, <1>11, <1>12, Whole

(* The owner closes a handle that is on no list.                            *)
LEMMA CloseInv ==
  ASSUME WaitInv, NEW h \in Handles, handle_close(h)
  PROVE  WaitInv'
<1>1. /\ m.pc = "idle" /\ h \in owned /\ h \notin Elems(hl) /\ ipc = NULL
      /\ refs' = [refs EXCEPT ![h] = @ - 1] /\ owned' = owned \ {h}
      /\ ready' = [ready EXCEPT ![h] = FALSE]
      /\ UNCHANGED <<ipc, hl, hwe, we, sig, hlock, w, m, fault>>
  BY DEF handle_close, Mine
<1>2. Others
  BY <1>1, Parts DEF Others
<1>3. hl' \in Seq(Handles) /\ Once(hl') /\ refs' \in [Handles -> Int] /\ owned' \subseteq Handles
  BY <1>1, Parts
<1>4. \A g \in Handles : Exact(g)'
  <2>1. SUFFICES ASSUME NEW g \in Handles PROVE Exact(g)'
    OBVIOUS
  <2>2. refs[g] = Count(g \in owned) + Count(g \in Elems(hl)) + Count(w.pc = "serve" /\ w.h = g)
    BY DEF WaitInv, RefsExact
  <2>3. refs'[g] = refs[g] - Count(g = h) /\ refs[g] \in Int
    BY <1>1, Parts DEF Count
  <2>4. Count(g \in owned \ {h}) = Count(g \in owned) - Count(g = h)
    BY <1>1 DEF Count
  <2>5. refs'[g] = Count(g \in owned \ {h}) + Count(g \in Elems(hl))
                   + Count(w.pc = "serve" /\ w.h = g)
    BY <2>2, <2>3, <2>4, CountFacts
  <2>6. QED BY <1>1, <2>5 DEF Exact, Elems
<1>5. InPlace'
  BY <1>1, Parts DEF InPlace, Elems
<1>6. Prepared' = Prepared /\ Polled' = Polled
  BY <1>1, SameWaiter
<1>7. InEvents'
  BY <1>1, <1>6, Parts DEF InEvents
<1>8. Told'
  <2>1. \A g \in Handles : ready'[g] => ready[g]
    BY <1>1, Parts
  <2>2. Polled \subseteq Handles
    BY PolledPrepared, Parts
  <2>3. QED BY <1>1, <1>6, <2>1, <2>2, Parts DEF Told
<1>9. QED BY <1>2, <1>3, <1>4, <1>5, <1>7, <1>8, Whole

----------------------------------------------------------------------------
(* Initially nobody waits, and no handle is on the list.                    *)
LEMMA InitWaitInv == Init => WaitInv
<1> SUFFICES ASSUME Init PROVE WaitInv
  OBVIOUS
<1>1. /\ refs = [h \in Handles |-> 0] /\ owned = {} /\ ready = [h \in Handles |-> FALSE]
      /\ ipc = NULL /\ hl = <<>> /\ hwe = FALSE /\ we = [h \in Handles |-> NULL]
      /\ sig = [list |-> FALSE, one |-> FALSE] /\ hlock = NULL /\ w = Idle /\ m = Idle
      /\ fault = FALSE
  BY DEF Init
<1>2. /\ hl \in Seq(Handles) /\ Len(hl) = 0 /\ Elems(hl) = {} /\ 1..Len(hl) = {}
  BY <1>1 DEF Elems
<1>3. Cardinality(Handles) \in Nat /\ NULL \notin Handles
      /\ NULL \notin {"list", "one", "waiter", "other"}
  BY HandleWaitAssumption, FS_CardinalityType
<1>4. w.pc = "idle" /\ m.pc = "idle" /\ w \in ThreadType(WaiterPcs) /\ m \in ThreadType(OtherPcs)
  BY <1>1, <1>3 DEF Idle, ThreadType, WaiterPcs, OtherPcs
<1>5. TypeOK
  <2>1. /\ refs \in [Handles -> 0..3] /\ owned \subseteq Handles /\ ready \in [Handles -> BOOLEAN]
        /\ we \in [Handles -> {NULL, "list", "one"}]
    BY <1>1
  <2>2. sig \in [list : BOOLEAN, one : BOOLEAN]
    BY <1>1
  <2>3. Len(hl) <= Cardinality(Handles)
    BY <1>2, <1>3
  <2>4. QED BY <1>1, <1>2, <1>4, <2>1, <2>2, <2>3 DEF TypeOK
<1>6. RefsExact
  BY <1>1, <1>2, <1>4, <1>5 DEF RefsExact, Count
<1>7. OnceEach
  BY <1>2 DEF OnceEach
<1>8. InPlace
  BY <1>1, <1>3, <1>4 DEF InPlace, Locked
<1>9. Prepared = {} /\ Polled = {}
  BY <1>4 DEF Prepared, Polled
<1>10. InEvents
  BY <1>1, <1>3, <1>4, <1>9 DEF InEvents
<1>11. Told
  BY <1>4, <1>9 DEF Told
<1>12. QED BY <1>2, <1>6, <1>7, <1>8, <1>10, <1>11 DEF WaitInv

(* Every step of the objects, the waiter and the other thread keeps the     *)
(* invariant.                                                               *)
LEMMA NextWaitInv == WaitInv /\ [Next]_vars => WaitInv'
<1> SUFFICES ASSUME WaitInv, [Next]_vars PROVE WaitInv'
  OBVIOUS
<1>1. CASE Objects
  BY <1>1, ChangeInv, NotifyInv DEF Objects
<1>2. CASE Waiter
  BY <1>2, BeginInv, PrepareInv, FoundInv, PollNextInv, NoneInv, GarbageInv, WakeupInv,
     TimeoutInv, RepollInv, GiveUpInv, ReturnInv, ServeInv DEF Waiter
<1>3. CASE Other
  BY <1>3, InitInv, OneBeginInv, OnePollInv, OneWakeupInv, OneReturnInv, AddInv, AddPollInv,
     DelInv, CloseInv DEF Other
<1>4. CASE UNCHANGED vars
  <2>1. UNCHANGED <<refs, owned, ready, ipc, hl, hwe, we, sig, hlock, w, m, fault>>
    BY <1>4 DEF vars
  <2>2. Others /\ InPlace' /\ Prepared' = Prepared /\ Polled' = Polled
    BY <2>1, Parts, SameWaiter DEF Others, InPlace, Elems
  <2>3. InEvents' /\ Told'
    BY <2>1, <2>2, Parts DEF InEvents, Told
  <2>4. QED BY <2>1, <2>2, <2>3, Quiet
<1>5. QED BY <1>1, <1>2, <1>3, <1>4 DEF Next

(* The inductive invariant: hlist->lock and the wait event of the list are  *)
(* the waiter's from handle_list_wait's first lock to its return, exactly   *)
(* the handles it has prepared point at its event, and an event that comes  *)
(* to a handle after it was polled is being told or was.                    *)
THEOREM WaitInvHolds == Spec => []WaitInv
<1>1. Init => WaitInv
  BY InitWaitInv
<1>2. WaitInv /\ [Next]_vars => WaitInv'
  BY NextWaitInv
<1>3. QED BY <1>1, <1>2, PTL DEF Spec

(* A handle's reference count is the number of its holders (its owner, the  *)
(* list, the caller handle_list_wait returned it to), so it is freed when   *)
(* the last of them lets go and not before.                                 *)
THEOREM HandleRefsExact == Spec => []RefsExact
<1>1. WaitInv => RefsExact
  BY DEF WaitInv
<1>2. QED BY <1>1, WaitInvHolds, PTL

(* No wait_event points into the stack of a function that has returned, or  *)
(* belongs to a handle that left the list or was freed, and                 *)
(* _prepare_wait_handle never finds one already set.                        *)
THEOREM EventsNotDangling == Spec => []NoDanglingEvent
<1>1. WaitInv => NoDanglingEvent
  <2> SUFFICES ASSUME WaitInv, NEW h \in Handles
                PROVE  /\ we[h] = "list" => hwe /\ h \in Elems(hl) /\ w.pc # "idle"
                       /\ we[h] = "one" => m.h = h /\ m.pc \in {"poll", "sleep", "finalize"}
                       /\ we[h] # NULL => refs[h] > 0
                       /\ w.pc = "prepare" => we[hl[w.i]] = NULL
    BY DEF NoDanglingEvent
  <2>2. we[h] = "list" => hwe /\ h \in Elems(hl) /\ w.pc # "idle"
    <3>1. we[h] = "list" => h \in Prepared
      BY Parts DEF InEvents
    <3>2. h \in Prepared => w.pc \notin {"idle", "serve"}
      BY DEF Prepared
    <3>3. QED BY <3>1, <3>2, PolledPrepared, Parts DEF InPlace
  <2>3. we[h] = "one" => m.h = h /\ m.pc \in {"poll", "sleep", "finalize"} /\ h \in owned
    BY Parts DEF InEvents, InPlace
  <2>4. we[h] # NULL => refs[h] > 0
    <3>1. we[h] # NULL => h \in owned \/ h \in Elems(hl)
      BY <2>2, <2>3, Parts
    <3>2. refs[h] = Count(h \in owned) + Count(h \in Elems(hl)) + Count(w.pc = "serve" /\ w.h = h)
      BY DEF WaitInv, RefsExact
    <3>3. h \in owned \/ h \in Elems(hl) => Count(h \in owned) = 1 \/ Count(h \in Elems(hl)) = 1
      BY DEF Count
    <3>4. QED BY <3>1, <3>2, <3>3, CountFacts
  <2>5. w.pc = "prepare" => we[hl[w.i]] = NULL
    <3> SUFFICES ASSUME w.pc = "prepare" PROVE we[hl[w.i]] = NULL
      OBVIOUS
    <3>2. PICK n \in 1..Len(hl) : n = w.i
      BY Parts DEF InPlace
    <3>3. hl[n] \in Elems(hl) /\ hl[n] \in Handles
      BY Parts DEF Elems
    <3>4. hl[n] \notin Prepared
      <4>1. \A k \in 1..n - 1 : k \in 1..Len(hl) /\ k # n
        BY Parts
      <4>2. \A k \in 1..n - 1 : hl[k] # hl[n]
        BY <4>1, Parts DEF Once
      <4>3. Prepared = {hl[k] : k \in 1..n - 1}
        BY <3>2 DEF Prepared
      <4>4. QED BY <4>2, <4>3
    <3>5. we[hl[n]] # "list" /\ we[hl[n]] # "one"
      BY <3>3, <3>4, Parts DEF InEvents, InPlace
    <3>6. we[hl[n]] \in {NULL, "list", "one"}
      BY <3>3, Parts
    <3>7. QED BY <3>2, <3>5, <3>6
  <2>6. QED BY <2>2, <2>3, <2>4, <2>5
<1>2. QED BY <1>1, WaitInvHolds, PTL

(* No wakeup is lost: neither handle_list_wait nor handle_wait sleeps, with *)
(* its event not signalled, past an event of a handle it waits for that     *)
(* nobody is about to tell.                                                 *)
THEOREM SleepIsJustified == Spec => []SleepJustified
<1>1. WaitInv => SleepJustified
  <2> SUFFICES ASSUME WaitInv PROVE SleepJustified
    OBVIOUS
  <2>2. w.pc = "sleep" => Polled = Elems(hl)
    BY DEF Polled
  <2>3. QED BY <2>2, Parts DEF SleepJustified, Told
<1>2. QED BY <1>1, WaitInvHolds, PTL
=============================================================================
