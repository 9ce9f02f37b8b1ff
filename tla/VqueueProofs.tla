---------------------------- MODULE VqueueProofs ----------------------------
(* Proofs that no wakeup and no buffer is lost on a ring, for every ring    *)
(* size.                                                                    *)
EXTENDS Vqueue, TLAPS, FiniteSetTheorems

Pcs == {"idle", "wait", "asleep", "get", "clear", "again", "have"}

(* An index stays in its range.                                             *)
LEMMA SuccInRange == \A i \in Indices : Succ(i) \in Indices
BY VqueueAssumption, SMT DEF Succ, Indices

(* The first state: nobody sleeps, nothing is available.                    *)
LEMMA InitSleepInv == Init => SleepInv
<1> SUFFICES ASSUME Init PROVE SleepInv
  OBVIOUS
<1>1. 0 \in Indices
  BY VqueueAssumption DEF Indices
<1>2. \A t \in Threads : pc[t] \in {"wait", "idle"}
  BY DEF Init
<1>3. pc \in [Threads -> Pcs]
  BY DEF Init, Pcs
<1>4. avail.idx = 0 /\ used.idx = 0 /\ lastAvail = 0 /\ lastUsed = 0
  BY DEF Init
<1>5. TypeOK
  BY <1>1, <1>2, <1>3, <1>4, VqueueAssumption DEF Init, TypeOK, Pcs, Threads
<1>6. QED BY <1>2, <1>4, <1>5 DEF Init, SleepInv, Available

(* A waiter that is released goes on to get a buffer; the others stay.      *)
LEMMA WokenType ==
  ASSUME pc \in [Threads -> Pcs]
  PROVE  /\ Woken \in [Threads -> Pcs]
         /\ \A t \in Threads : Woken[t] # "asleep"
         /\ \A t \in Threads : \A l \in {"clear", "again"} :
              Woken[t] = l <=> pc[t] = l
BY DEF Woken, Pcs

(* The steps that change neither ring, flag nor event.                      *)
LEMMA QuietStep ==
  ASSUME SleepInv, NEW t \in Threads, Want(t) \/ Wait(t) \/ AddBuf(t)
  PROVE  SleepInv'
<1>1. CASE Want(t)
  BY <1>1 DEF SleepInv, TypeOK, Want, Goto, rings, driver, Available, WakeupDue
<1>2. CASE Wait(t)
  BY <1>2 DEF SleepInv, TypeOK, Wait, Goto, rings, driver, Available, WakeupDue
<1>3. CASE AddBuf(t)
  BY <1>3, SuccInRange
     DEF SleepInv, TypeOK, AddBuf, Added, Put, Goto, driver, Available, WakeupDue
<1>4. QED BY <1>1, <1>2, <1>3

(* The steps of _vqueue_get_avail_buf_locked.                               *)
LEMMA GetStep ==
  ASSUME SleepInv, NEW t \in Threads, Get(t) \/ Inside(t)
  PROVE  SleepInv'
<1>1. CASE GetFirst(t)
  BY <1>1, SuccInRange
     DEF SleepInv, TypeOK, GetFirst, Take, Drop, Goto, driver, Available, WakeupDue
<1>2. CASE GetEmpty(t)
  BY <1>2, VqueueAssumption
     DEF SleepInv, TypeOK, GetEmpty, Goto, rings, driver, Available, WakeupDue, Threads
<1>3. CASE ClearNoNotify(t)
  BY <1>3
     DEF SleepInv, TypeOK, ClearNoNotify, Goto, rings, driver, Available, WakeupDue
<1>4. CASE GetAgain(t)
  BY <1>4, SuccInRange, WokenType, VqueueAssumption
     DEF SleepInv, TypeOK, GetAgain, Take, Drop, driver, Available, WakeupDue,
         Pcs, Threads
<1>5. CASE GetNone(t)
  BY <1>5, VqueueAssumption
     DEF SleepInv, TypeOK, GetNone, SecondLook, Goto, rings, driver, Available,
         WakeupDue, Threads
<1>6. QED BY <1>1, <1>2, <1>3, <1>4, <1>5 DEF Get, Inside

(* The steps of the driver and of the kicks.                                *)
LEMMA DriverStep ==
  ASSUME SleepInv,
         (\E b \in Buffers : Supply(b)) \/ Reclaim \/ KickPrepare \/ Serve
  PROVE  SleepInv'
<1>1. CASE \E b \in Buffers : Supply(b)
  <2>1. PICK b \in Buffers : Supply(b) BY <1>1
  <2>2. QED BY <2>1, SuccInRange DEF SleepInv, TypeOK, Supply, Put, Available, WakeupDue
<1>2. CASE Reclaim
  BY <1>2, SuccInRange
     DEF SleepInv, TypeOK, Reclaim, Drop, driver, Available, WakeupDue
<1>3. CASE KickPrepare
  BY <1>3 DEF SleepInv, TypeOK, KickPrepare, rings, Available, WakeupDue
<1>4. CASE KickVq
  BY <1>4 DEF SleepInv, TypeOK, KickVq, rings, Available, WakeupDue
<1>5. CASE SignalFlag
  BY <1>5 DEF SleepInv, TypeOK, SignalFlag, rings, Available, WakeupDue
<1>6. CASE SignalEvent
  BY <1>6, WokenType
     DEF SleepInv, TypeOK, SignalEvent, rings, Available, WakeupDue, Pcs
<1>7. QED BY <1>1, <1>2, <1>3, <1>4, <1>5, <1>6 DEF Serve

(* A stuttering step.                                                       *)
LEMMA VqueueStutter == SleepInv /\ UNCHANGED vars => SleepInv'
BY DEF SleepInv, TypeOK, vars, Available, WakeupDue

(* The strengthened invariant holds in every state.                         *)
THEOREM SleepInvHolds == Spec => []SleepInv
<1>1. SleepInv /\ [Next]_vars => SleepInv'
  BY QuietStep, GetStep, DriverStep, VqueueStutter DEF Next
<1>2. QED BY InitSleepInv, <1>1, PTL DEF Spec

(* No lost wakeup: whatever the size of the ring and of its indices, a      *)
(* thread of the device that sleeps in event_wait while the driver has      *)
(* supplied a buffer is going to be woken, because the driver has yet to    *)
(* read NO_NOTIFY, a kick is on its way or another thread will signal.      *)
THEOREM NoLostWakeup == Spec => []SleepJustified
<1>1. SleepInv => SleepJustified
  BY DEF SleepInv, SleepJustified
<1>2. QED BY SleepInvHolds, <1>1, PTL

----------------------------------------------------------------------------
(* Indices and slots.                                                       *)

(* Division with remainder has one result.                                  *)
LEMMA RemainderUnique ==
  ASSUME NEW n \in Nat \ {0}, NEW q \in Int, NEW r \in 0..n - 1
  PROVE  (n * q + r) % n = r
OBVIOUS

(* How the remainder is found.                                              *)
LEMMA RemainderDef ==
  ASSUME NEW n \in Nat \ {0}, NEW x \in Int
  PROVE  /\ x % n \in 0..n - 1
         /\ \E q \in Int : x = n * q + (x % n)
<1>1. x % n \in 0..n - 1
  OBVIOUS
<1>2. x \div n \in Int /\ x = n * (x \div n) + (x % n)
  OBVIOUS
<1>3. QED BY <1>1, <1>2

(* A number below the modulus, and one that exceeds it once.                *)
LEMMA RemainderSmall ==
  ASSUME NEW n \in Nat \ {0}, NEW r \in 0..n - 1
  PROVE  r % n = r /\ (r + n) % n = r
<1>1. (n * 0 + r) % n = r /\ (n * 1 + r) % n = r
  BY RemainderUnique
<1>2. n * 0 + r = r /\ n * 1 + r = r + n
  OBVIOUS
<1>3. QED BY <1>1, <1>2

(* The number of entries between two indices, with and without a wrap.      *)
LEMMA BetweenCases ==
  ASSUME NEW i \in Indices, NEW j \in Indices
  PROVE  Between(i, j) = IF j >= i THEN j - i ELSE j + IdxRange - i
<1>1. i \in 0..IdxRange - 1 /\ j \in 0..IdxRange - 1 /\ IdxRange \in Nat \ {0}
  BY VqueueAssumption DEF Indices
<1>2. CASE j >= i
  <2>1. j - i \in 0..IdxRange - 1 /\ j + IdxRange - i = (j - i) + IdxRange
    BY <1>1, <1>2
  <2>2. QED BY <1>1, <1>2, <2>1, RemainderSmall DEF Between
<1>3. CASE j < i
  <2>1. j + IdxRange - i \in 0..IdxRange - 1
    BY <1>1, <1>3
  <2>2. (j + IdxRange - i) % IdxRange = j + IdxRange - i
    BY <1>1, <2>1, RemainderSmall
  <2>3. ~(j >= i)
    BY <1>1, <1>3
  <2>4. QED BY <2>2, <2>3 DEF Between
<1>4. QED BY <1>1, <1>2, <1>3

(* The next index, with and without a wrap.                                 *)
LEMMA SuccCases ==
  ASSUME NEW i \in Indices
  PROVE  Succ(i) = IF i = IdxRange - 1 THEN 0 ELSE i + 1
<1>1. i \in 0..IdxRange - 1 /\ IdxRange \in Nat \ {0}
  BY VqueueAssumption DEF Indices
<1>2. CASE i = IdxRange - 1
  <2>1. i + 1 = 0 + IdxRange /\ 0 \in 0..IdxRange - 1
    BY <1>1, <1>2
  <2>2. QED BY <1>1, <1>2, <2>1, RemainderSmall DEF Succ
<1>3. CASE i # IdxRange - 1
  <2>1. i + 1 \in 0..IdxRange - 1
    BY <1>1, <1>3
  <2>2. QED BY <1>1, <1>3, <2>1, RemainderSmall DEF Succ
<1>4. QED BY <1>2, <1>3

(* A slot for every index.                                                  *)
LEMMA SlotType ==
  ASSUME NEW i \in Indices
  PROVE  i % Num \in Buffers
BY VqueueAssumption, RemainderDef DEF Buffers, Indices

(* The ring size divides the range of the indices, so indices that are      *)
(* fewer than Num apart have different slots, also across the wrap.         *)
LEMMA SlotsDiffer ==
  ASSUME NEW i \in Indices, NEW j \in Indices,
         Between(i, j) > 0, Between(i, j) < Num
  PROVE  i % Num # j % Num
<1> SUFFICES ASSUME i % Num = j % Num PROVE FALSE
  OBVIOUS
<1>1. Num \in Nat \ {0} /\ i \in Int /\ j \in Int /\ IdxRange \in Int
  BY VqueueAssumption DEF Indices
<1> DEFINE s == i % Num
<1>2. PICK p \in Int : i = Num * p + s
  BY <1>1, RemainderDef
<1>3. PICK q \in Int : j = Num * q + s
  BY <1>1, RemainderDef
<1>4. PICK k \in Int : IdxRange = Num * k + 0
  BY <1>1, RemainderDef, VqueueAssumption
<1>5. s \in Int
  BY <1>1, RemainderDef
<1> HIDE DEF s
<1>6. PICK d \in Int : Between(i, j) = Num * d
  <2>1. CASE j >= i
    <3>1. Between(i, j) = Num * (q - p)
      BY <1>1, <1>2, <1>3, <1>5, <2>1, BetweenCases
    <3>2. QED BY <3>1
  <2>2. CASE ~(j >= i)
    <3>1. Between(i, j) = j + IdxRange - i
      BY <2>2, BetweenCases
    <3>2. j + IdxRange - i = Num * (q + k - p)
      BY <1>1, <1>2, <1>3, <1>4, <1>5
    <3>3. QED BY <3>1, <3>2
  <2>3. QED BY <2>1, <2>2
<1>7. Num * d > 0 /\ Num * d < Num
  BY <1>6
<1>8. d <= 0 => Num * d <= 0
  BY <1>1
<1>9. d >= 1 => Num * d >= Num
  BY <1>1
<1>10. QED BY <1>1, <1>7, <1>8, <1>9

----------------------------------------------------------------------------
(* A ring by itself: what is put into it and what is read from it.          *)

(* Indices and counts are numbers.                                          *)
LEMMA BetweenType ==
  ASSUME NEW i \in Indices, NEW j \in Indices
  PROVE  Between(i, j) \in 0..IdxRange - 1
BY BetweenCases, VqueueAssumption DEF Indices

(* Entries of one ring have different slots.                                *)
LEMMA EntrySlots ==
  ASSUME NEW r, NEW from, RingOK(r, from),
         NEW i \in Entries(r, from), NEW j \in Entries(r, from), i % Num = j % Num
  PROVE  i = j
<1>1. i \in Indices /\ j \in Indices /\ from \in Indices /\ r.idx \in Indices
  BY DEF Entries, RingOK, RingType
<1>2. Between(from, i) < Num /\ Between(from, j) < Num
  <2>1. Between(from, i) \in Int /\ Between(from, j) \in Int /\ Between(from, r.idx) \in Int
    BY <1>1, BetweenType
  <2>2. Between(from, r.idx) <= Num /\ Num \in Int
    BY VqueueAssumption DEF RingOK
  <2>3. Between(from, i) < Between(from, r.idx) /\ Between(from, j) < Between(from, r.idx)
    BY DEF Entries
  <2>4. QED BY <2>1, <2>2, <2>3
<1> DEFINE cases(k, l) == Between(k, l) = IF l >= k THEN l - k ELSE l + IdxRange - k
<1>3. cases(from, i) /\ cases(from, j) /\ cases(i, j) /\ cases(j, i)
  BY <1>1, BetweenCases
<1>. i \in Nat /\ j \in Nat /\ from \in Nat /\ IdxRange \in Nat
     /\ i < IdxRange /\ j < IdxRange /\ from < IdxRange
  BY <1>1, VqueueAssumption DEF Indices
<1>. Num \in Nat
  BY VqueueAssumption
<1>4. ~(Between(i, j) > 0 /\ Between(i, j) < Num)
  BY <1>1, SlotsDiffer
<1>5. ~(Between(j, i) > 0 /\ Between(j, i) < Num)
  BY <1>1, SlotsDiffer
<1>6. QED BY <1>2, <1>3, <1>4, <1>5

(* A buffer is found at one entry when its ring holds it and at none        *)
(* otherwise.                                                               *)
LEMMA HoldsOnce ==
  ASSUME NEW r, NEW from, RingOK(r, from), NEW b \in Buffers
  PROVE  /\ b \in Contents(r) => \E i : Holds(r, from, b) = {i}
         /\ b \notin Contents(r) => Holds(r, from, b) = {}
<1>1. \A i \in Entries(r, from) : i % Num \in Buffers
  BY SlotType DEF Entries
<1>2. b # NoBuf
  BY VqueueAssumption DEF Buffers
<1>3. ASSUME b \in Contents(r) PROVE \E i : Holds(r, from, b) = {i}
  <2>1. PICK s \in Buffers : r.ring[s] = b
    BY <1>3 DEF Contents
  <2>2. PICK i \in Entries(r, from) : s = i % Num
    BY <2>1, <1>2 DEF RingOK
  <2>3. \A j \in Holds(r, from, b) : j = i
    <3> TAKE j \in Holds(r, from, b)
    <3>1. j \in Entries(r, from) /\ r.ring[j % Num] = b
      BY DEF Holds
    <3>2. j % Num = s
      BY <3>1, <1>1, <1>2, <2>1 DEF RingOK
    <3>3. QED BY <3>1, <3>2, <2>2, EntrySlots
  <2>4. i \in Holds(r, from, b)
    BY <2>1, <2>2 DEF Holds
  <2>5. QED BY <2>3, <2>4
<1>4. ASSUME b \notin Contents(r) PROVE Holds(r, from, b) = {}
  BY <1>1, <1>2, <1>4 DEF Holds, Contents
<1>5. QED BY <1>3, <1>4

(* A ring that lacks a buffer has room for it.                              *)
LEMMA RoomFor ==
  ASSUME NEW r, NEW from, RingOK(r, from), NEW b \in Buffers, b \notin Contents(r)
  PROVE  Between(from, r.idx) < Num
<1> SUFFICES ASSUME Between(from, r.idx) = Num PROVE FALSE
  BY BetweenType, VqueueAssumption DEF RingOK, RingType
<1> DEFINE at(d) == IF from + d < IdxRange THEN from + d ELSE from + d - IdxRange
           f == [d \in Buffers |-> r.ring[at(d) % Num]]
<1>1. \A d \in Buffers : at(d) \in Entries(r, from) /\ Between(from, at(d)) = d
  <2> TAKE d \in Buffers
  <2>1. d \in Nat /\ d < Num /\ from \in Nat /\ from < IdxRange
        /\ Num < IdxRange /\ Num \in Nat /\ IdxRange \in Nat /\ from \in Indices
    BY VqueueAssumption DEF Buffers, Indices, RingOK
  <2>2. at(d) \in Nat /\ at(d) < IdxRange
    BY <2>1
  <2>3. at(d) \in Indices
    BY <2>1, <2>2 DEF Indices
  <2>4. Between(from, at(d)) = IF at(d) >= from THEN at(d) - from
                              ELSE at(d) + IdxRange - from
    BY <2>1, <2>3, BetweenCases
  <2>5. Between(from, at(d)) = d
    BY <2>1, <2>4
  <2>6. QED BY <2>1, <2>3, <2>5 DEF Entries
<1> HIDE DEF at
<1>2. f \in [Buffers -> Buffers \ {b}]
  <2>1. ASSUME NEW d \in Buffers PROVE r.ring[at(d) % Num] \in Buffers \ {b}
    <3>1. at(d) \in Entries(r, from) /\ at(d) % Num \in Buffers
      BY <1>1, SlotType DEF Entries
    <3>2. QED BY <3>1 DEF RingOK, RingType, Contents
  <2>2. QED BY <2>1
<1>3. IsFiniteSet(Buffers) /\ Cardinality(Buffers) = Num
  <2>1. 0 \in Int /\ Num - 1 \in Int /\ ~(0 > Num - 1) /\ Num - 1 - 0 + 1 = Num
    BY VqueueAssumption
  <2>2. Cardinality(0..Num - 1) = IF 0 > Num - 1 THEN 0 ELSE Num - 1 - 0 + 1
    BY <2>1, FS_Interval
  <2>3. IsFiniteSet(0..Num - 1)
    BY <2>1, FS_Interval
  <2>4. QED BY <2>1, <2>2, <2>3 DEF Buffers
<1>4. IsFiniteSet(Buffers \ {b}) /\ Cardinality(Buffers \ {b}) = Num - 1
  BY <1>3, FS_RemoveElement
<1>5. PICK d \in Buffers, e \in Buffers : d # e /\ f[d] = f[e]
  <2> HIDE DEF f
  <2>1. Num - 1 < Num
    BY VqueueAssumption
  <2>2. QED BY <1>2, <1>3, <1>4, <2>1, FS_PigeonHole
<1>6. at(d) \in Entries(r, from) /\ at(e) \in Entries(r, from)
  BY <1>1
<1>7. at(d) % Num \in Buffers /\ at(e) % Num \in Buffers
  BY <1>6, SlotType DEF Entries
<1>8. at(d) % Num = at(e) % Num
  BY <1>5, <1>6, <1>7 DEF RingOK
<1>9. at(d) = at(e)
  BY <1>6, <1>8, EntrySlots
<1>10. QED BY <1>1, <1>5, <1>9

(* The entries after a buffer was put.                                      *)
LEMMA PutEntries ==
  ASSUME NEW r, NEW from, RingOK(r, from), NEW b, Between(from, r.idx) < Num
  PROVE  /\ Entries(Put(r, b), from) = Entries(r, from) \cup {r.idx}
         /\ r.idx \notin Entries(r, from)
         /\ Between(from, Put(r, b).idx) <= Num
         /\ \A i \in Entries(r, from) : i % Num # r.idx % Num
<1>1. from \in Indices /\ r.idx \in Indices /\ Succ(r.idx) \in Indices
  BY SuccInRange DEF RingOK, RingType
<1>2. Put(r, b).idx = Succ(r.idx)
  BY DEF Put
<1> DEFINE cases(k, l) == Between(k, l) = IF l >= k THEN l - k ELSE l + IdxRange - k
<1>3. cases(from, r.idx) /\ cases(from, Succ(r.idx))
  BY <1>1, BetweenCases
<1>4. Succ(r.idx) = IF r.idx = IdxRange - 1 THEN 0 ELSE r.idx + 1
  BY <1>1, SuccCases
<1>5. /\ from \in Nat /\ r.idx \in Nat /\ from < IdxRange /\ r.idx < IdxRange
      /\ Num \in Nat /\ IdxRange \in Nat /\ Num < IdxRange
  BY <1>1, VqueueAssumption DEF Indices
<1>6. Between(from, Succ(r.idx)) = Between(from, r.idx) + 1
  BY <1>3, <1>4, <1>5
<1>7. Between(from, r.idx) \in Nat
  BY <1>3, <1>5
<1>8. ASSUME NEW i \in Indices
      PROVE  /\ Between(from, i) < Between(from, r.idx) + 1
                <=> Between(from, i) < Between(from, r.idx) \/ i = r.idx
             /\ Between(from, i) < Between(from, r.idx) => i % Num # r.idx % Num
  <2>1. cases(from, i) /\ cases(i, r.idx)
    BY <1>1, BetweenCases
  <2>2. i \in Nat /\ i < IdxRange
    BY VqueueAssumption DEF Indices
  <2>3. Between(from, i) = Between(from, r.idx) => i = r.idx
    BY <1>3, <1>5, <2>1, <2>2
  <2>4. Between(from, i) \in Nat
    BY <1>5, <2>1, <2>2
  <2>5. Between(from, i) < Between(from, r.idx) =>
          Between(i, r.idx) > 0 /\ Between(i, r.idx) < Num
    BY <1>3, <1>5, <2>1, <2>2
  <2>6. QED BY <1>1, <1>7, <2>3, <2>4, <2>5, SlotsDiffer
<1>9. Entries(Put(r, b), from) = Entries(r, from) \cup {r.idx}
  BY <1>1, <1>2, <1>6, <1>8 DEF Entries
<1>10. r.idx \notin Entries(r, from)
  BY <1>7 DEF Entries
<1>11. Between(from, Put(r, b).idx) <= Num
  BY <1>2, <1>5, <1>6, <1>7
<1>12. QED BY <1>8, <1>9, <1>10, <1>11 DEF Entries

(* A buffer that a ring lacks is put into it.                               *)
LEMMA PutOK ==
  ASSUME NEW r, NEW from, RingOK(r, from), NEW b \in Buffers, b \notin Contents(r)
  PROVE  /\ RingOK(Put(r, b), from)
         /\ Contents(Put(r, b)) = Contents(r) \cup {b}
<1> DEFINE n == Put(r, b)
           s0 == r.idx % Num
<1>1. Between(from, r.idx) < Num
  BY RoomFor
<1>2. r \in RingType /\ r.idx \in Indices /\ s0 \in Buffers /\ from \in Indices
      /\ r.ring \in [Buffers -> Buffers \cup {NoBuf}]
  BY SlotType DEF RingOK, RingType
<1>3. b # NoBuf
  BY VqueueAssumption DEF Buffers
<1>4. n.ring = [r.ring EXCEPT ![s0] = b] /\ n.idx = Succ(r.idx)
      /\ n = [ring |-> n.ring, idx |-> n.idx]
  BY DEF Put
<1>5. Entries(n, from) = Entries(r, from) \cup {r.idx} /\ Between(from, n.idx) <= Num
      /\ \A i \in Entries(r, from) : i % Num # s0
  BY <1>1, PutEntries
<1>6. \A i \in Entries(r, from) : i % Num \in Buffers
  BY SlotType DEF Entries
<1>7. r.ring[s0] = NoBuf
  BY <1>2, <1>5 DEF RingOK
<1>8. n \in RingType
  <2>1. n.ring \in [Buffers -> Buffers \cup {NoBuf}] /\ n.idx \in Indices
    BY <1>2, <1>4, SuccInRange
  <2>2. QED BY <1>4, <2>1 DEF RingType
<1> HIDE DEF n, s0
<1>9. n.ring[s0] = b /\ \A s \in Buffers : s # s0 => n.ring[s] = r.ring[s]
  BY <1>2, <1>4
<1>10. \A i \in Entries(n, from) : n.ring[i % Num] # NoBuf
  BY <1>3, <1>5, <1>6, <1>9 DEF RingOK, s0
<1>11. \A s \in Buffers : n.ring[s] # NoBuf => \E i \in Entries(n, from) : s = i % Num
  <2> TAKE s \in Buffers
  <2>1. CASE s = s0
    BY <2>1, <1>5 DEF s0
  <2>2. CASE s # s0
    BY <2>2, <1>5, <1>9 DEF RingOK
  <2>3. QED BY <2>1, <2>2
<1>12. \A s \in Buffers : r.ring[s] # b
  BY <1>3 DEF Contents
<1>13. \A s, u \in Buffers : n.ring[s] = n.ring[u] /\ n.ring[s] # NoBuf => s = u
  BY <1>9, <1>12 DEF RingOK
<1>14. Contents(n) = Contents(r) \cup {b}
  BY <1>2, <1>3, <1>7, <1>9 DEF Contents
<1>15. RingOK(n, from)
  BY <1>2, <1>5, <1>8, <1>10, <1>11, <1>13 DEF RingOK
<1>16. QED BY <1>14, <1>15 DEF n

(* The entries after the first one was read.                                *)
LEMMA DropEntries ==
  ASSUME NEW r, NEW from, RingOK(r, from), from # r.idx
  PROVE  /\ Entries(Drop(r, from), Succ(from)) = Entries(r, from) \ {from}
         /\ from \in Entries(r, from)
         /\ Between(Succ(from), r.idx) <= Num
<1>1. from \in Indices /\ r.idx \in Indices /\ Succ(from) \in Indices
  BY SuccInRange DEF RingOK, RingType
<1>2. Drop(r, from).idx = r.idx
  BY DEF Drop, RingOK, RingType
<1> DEFINE cases(k, l) == Between(k, l) = IF l >= k THEN l - k ELSE l + IdxRange - k
<1>3. cases(from, r.idx) /\ cases(Succ(from), r.idx) /\ cases(from, from)
  BY <1>1, BetweenCases
<1>4. Succ(from) = IF from = IdxRange - 1 THEN 0 ELSE from + 1
  BY <1>1, SuccCases
<1>5. /\ from \in Nat /\ r.idx \in Nat /\ from < IdxRange /\ r.idx < IdxRange
      /\ Num \in Nat /\ IdxRange \in Nat /\ Num < IdxRange
      /\ Between(from, r.idx) <= Num
  BY <1>1, VqueueAssumption DEF Indices, RingOK
<1>6. Between(Succ(from), r.idx) = Between(from, r.idx) - 1
  BY <1>3, <1>4, <1>5
<1>7. Between(from, r.idx) \in Nat /\ Between(from, r.idx) > 0 /\ Between(from, from) = 0
  BY <1>3, <1>5
<1>8. ASSUME NEW i \in Indices
      PROVE  Between(Succ(from), i) < Between(from, r.idx) - 1
             <=> Between(from, i) < Between(from, r.idx) /\ i # from
  <2>1. cases(from, i) /\ cases(Succ(from), i)
    BY <1>1, BetweenCases
  <2>2. i \in Nat /\ i < IdxRange
    BY VqueueAssumption DEF Indices
  <2>3. i # from => Between(Succ(from), i) = Between(from, i) - 1
    BY <1>4, <1>5, <2>1, <2>2
  <2>4. i = from => Between(Succ(from), i) = IdxRange - 1
    BY <1>4, <1>5, <2>1, <2>2
  <2>5. Between(from, i) \in Nat
    BY <1>5, <2>1, <2>2
  <2>6. QED BY <1>5, <1>7, <2>3, <2>4, <2>5
<1>9. Entries(Drop(r, from), Succ(from)) = Entries(r, from) \ {from}
  BY <1>1, <1>2, <1>6, <1>8 DEF Entries
<1>10. from \in Entries(r, from)
  BY <1>1, <1>7 DEF Entries
<1>11. QED BY <1>5, <1>6, <1>7, <1>9, <1>10

(* The first entry is read: its buffer leaves the ring.                     *)
LEMMA DropOK ==
  ASSUME NEW r, NEW from, RingOK(r, from), from # r.idx
  PROVE  /\ r.ring[from % Num] \in Contents(r) /\ r.ring[from % Num] \in Buffers
         /\ RingOK(Drop(r, from), Succ(from))
         /\ Contents(Drop(r, from)) = Contents(r) \ {r.ring[from % Num]}
<1> DEFINE n == Drop(r, from)
           s0 == from % Num
           b == r.ring[s0]
<1>1. r \in RingType /\ from \in Indices /\ s0 \in Buffers
      /\ r.ring \in [Buffers -> Buffers \cup {NoBuf}]
  BY SlotType DEF RingOK, RingType
<1>2. Entries(n, Succ(from)) = Entries(r, from) \ {from} /\ from \in Entries(r, from)
      /\ Between(Succ(from), r.idx) <= Num
  BY DropEntries
<1>3. n.ring = [r.ring EXCEPT ![s0] = NoBuf] /\ n.idx = r.idx
  BY <1>1 DEF Drop, RingType
<1>4. n \in RingType
  BY <1>1 DEF Drop, RingType
<1>5. Succ(from) \in Indices
  BY <1>1, SuccInRange
<1>6. b # NoBuf /\ b \in Buffers
  BY <1>1, <1>2 DEF RingOK
<1>7. \A i \in Entries(r, from) : i % Num \in Buffers /\ (i # from => i % Num # s0)
  <2> TAKE i \in Entries(r, from)
  <2>1. i % Num \in Buffers
    BY SlotType DEF Entries
  <2>2. i % Num = s0 => i = from
    BY <1>2, EntrySlots
  <2>3. QED BY <2>1, <2>2
<1> HIDE DEF n, s0
<1>8. n.ring[s0] = NoBuf /\ \A s \in Buffers : s # s0 => n.ring[s] = r.ring[s]
  BY <1>1, <1>3
<1>9. \A i \in Entries(n, Succ(from)) : n.ring[i % Num] # NoBuf
  BY <1>2, <1>7, <1>8 DEF RingOK
<1>10. \A s \in Buffers : n.ring[s] # NoBuf =>
         \E i \in Entries(n, Succ(from)) : s = i % Num
  <2> SUFFICES ASSUME NEW s \in Buffers, n.ring[s] # NoBuf
               PROVE  \E i \in Entries(n, Succ(from)) : s = i % Num
    OBVIOUS
  <2>1. s # s0 /\ r.ring[s] # NoBuf
    BY <1>8
  <2>2. PICK i \in Entries(r, from) : s = i % Num
    BY <2>1 DEF RingOK
  <2>3. QED BY <1>2, <2>1, <2>2 DEF s0
<1>11. \A s, u \in Buffers : n.ring[s] = n.ring[u] /\ n.ring[s] # NoBuf => s = u
  BY <1>8 DEF RingOK
<1>12. b \in Contents(r)
  BY <1>1, <1>6 DEF Contents
<1>13. Contents(n) = Contents(r) \ {b}
  BY <1>1, <1>6, <1>8 DEF Contents, RingOK
<1>14. RingOK(n, Succ(from))
  BY <1>2, <1>3, <1>4, <1>5, <1>9, <1>10, <1>11 DEF RingOK
<1>15. QED BY <1>6, <1>12, <1>13, <1>14 DEF n, s0

----------------------------------------------------------------------------
(* The places of the buffers.                                               *)

(* The first state: the driver has every buffer.                            *)
LEMMA InitPlaces == Init => PlacesInv
<1> SUFFICES ASSUME Init PROVE PlacesInv
  OBVIOUS
<1> DEFINE empty == [ring |-> [i \in Buffers |-> NoBuf], idx |-> 0]
<1>1. avail = empty /\ used = empty /\ lastAvail = 0 /\ lastUsed = 0
  BY DEF Init
<1>2. 0 \in Indices
  BY VqueueAssumption DEF Indices
<1>3. Between(0, 0) = 0
  BY <1>2, BetweenCases
<1>4. Entries(empty, 0) = {}
  BY <1>2, <1>3, BetweenType DEF Entries
<1>5. RingOK(empty, 0)
  BY <1>2, <1>3, <1>4, VqueueAssumption DEF RingOK, RingType
<1>6. Contents(empty) = {}
  BY DEF Contents
<1>7. InHand = {} /\ held \in [Threads -> Buffers \cup {NoBuf}]
      /\ \A t \in Threads : held[t] = NoBuf /\ pc[t] # "have"
  BY DEF Init, InHand
<1>8. free = Buffers
  BY DEF Init
<1> HIDE DEF empty
<1>9. QED BY <1>1, <1>5, <1>6, <1>7, <1>8 DEF PlacesInv, Threads

(* Steps that leave the rings and what a thread holds alone.                *)
LEMMA PlacesKept ==
  ASSUME PlacesInv, UNCHANGED rings,
         \A t \in Threads : pc[t] = "have" <=> pc'[t] = "have"
  PROVE  PlacesInv'
<1>1. RingOK(avail, lastAvail)' /\ RingOK(used, lastUsed)'
  BY DEF PlacesInv, rings, RingOK, Entries
<1>2. Contents(avail)' = Contents(avail) /\ Contents(used)' = Contents(used)
  BY DEF rings, Contents
<1>3. InHand' = InHand
  BY DEF rings, InHand
<1>4. held' = held /\ free' = free
  BY DEF rings
<1>5. QED BY <1>1, <1>2, <1>3, <1>4 DEF PlacesInv

(* A thread takes a buffer from the available ring.                         *)
LEMMA TakePlaces ==
  ASSUME PlacesInv, NEW t \in Threads, Take(t), Available, pc[t] # "have",
         pc'[t] = "have",
         \A u \in Threads \ {t} : pc[u] = "have" <=> pc'[u] = "have"
  PROVE  PlacesInv'
<1> DEFINE b == avail.ring[lastAvail % Num]
<1>1. b \in Contents(avail) /\ b \in Buffers
      /\ RingOK(Drop(avail, lastAvail), Succ(lastAvail))
      /\ Contents(Drop(avail, lastAvail)) = Contents(avail) \ {b}
  BY DropOK DEF PlacesInv, Available
<1>2. held' = [held EXCEPT ![t] = b] /\ avail' = Drop(avail, lastAvail)
      /\ lastAvail' = Succ(lastAvail) /\ free' = free /\ used' = used
      /\ lastUsed' = lastUsed
  BY DEF Take
<1> HIDE DEF b
<1>3. RingOK(avail, lastAvail)'
  BY <1>1, <1>2 DEF RingOK, Entries
<1>4. Contents(avail)' = Contents(avail) \ {b}
  BY <1>1, <1>2 DEF Contents
<1>5. RingOK(used, lastUsed)' /\ Contents(used)' = Contents(used)
  BY <1>2 DEF PlacesInv, RingOK, Entries, Contents
<1>6. held[t] = NoBuf /\ b # NoBuf /\ held \in [Threads -> Buffers \cup {NoBuf}]
  BY <1>1, VqueueAssumption DEF PlacesInv, Buffers
<1>7. held'[t] = b /\ \A u \in Threads \ {t} : held'[u] = held[u]
  BY <1>2, <1>6
<1>8. held' \in [Threads -> Buffers \cup {NoBuf}]
  BY <1>1, <1>2, <1>6
<1>9. InHand' = InHand \cup {b}
  BY <1>6, <1>7 DEF InHand
<1>10. b \notin InHand
  BY <1>1 DEF PlacesInv
<1>11. held'["rx"] = held'["tx"] => held'["rx"] = NoBuf
  BY <1>6, <1>7, <1>10 DEF Threads, InHand
<1>12. \A u \in Threads : pc'[u] = "have" <=> held'[u] # NoBuf
  BY <1>6, <1>7 DEF PlacesInv
<1>13. free' = free
  BY <1>2
<1>14. QED BY <1>1, <1>3, <1>4, <1>5, <1>8, <1>9, <1>11, <1>12, <1>13 DEF PlacesInv

(* A thread puts its buffer into the used ring.                             *)
LEMMA AddPlaces ==
  ASSUME PlacesInv, pc \in [Threads -> Pcs], NEW t \in Threads, AddBuf(t)
  PROVE  PlacesInv'
<1> DEFINE b == held[t]
<1>1. b # NoBuf /\ b \in Buffers /\ b \in InHand
      /\ held \in [Threads -> Buffers \cup {NoBuf}]
  BY DEF AddBuf, PlacesInv, InHand
<1>2. RingOK(Put(used, b), lastUsed) /\ Contents(Put(used, b)) = Contents(used) \cup {b}
  BY <1>1, PutOK DEF PlacesInv
<1>3. held' = [held EXCEPT ![t] = NoBuf] /\ used' = Put(used, b)
      /\ lastUsed' = lastUsed /\ free' = free /\ avail' = avail
      /\ lastAvail' = lastAvail
  BY DEF AddBuf, Added
<1>4. pc'[t] # "have" /\ \A u \in Threads \ {t} : pc'[u] = pc[u]
  BY DEF AddBuf, Goto
<1> HIDE DEF b
<1>5. RingOK(used, lastUsed)' /\ Contents(used)' = Contents(used) \cup {b}
  BY <1>2, <1>3 DEF RingOK, Entries, Contents
<1>6. RingOK(avail, lastAvail)' /\ Contents(avail)' = Contents(avail)
  BY <1>3 DEF PlacesInv, RingOK, Entries, Contents
<1>7. held'[t] = NoBuf /\ \A u \in Threads \ {t} : held'[u] = held[u]
  BY <1>1, <1>3
<1>8. held' \in [Threads -> Buffers \cup {NoBuf}]
  BY <1>1, <1>3
<1>9. \A u \in Threads \ {t} : held[u] # b
  BY <1>1 DEF PlacesInv, Threads, b
<1>10. InHand' = InHand \ {b}
  BY <1>1, <1>7, <1>9 DEF InHand, b
<1>11. held'["rx"] = held'["tx"] => held'["rx"] = NoBuf
  BY <1>7 DEF Threads, PlacesInv
<1>12. \A u \in Threads : pc'[u] = "have" <=> held'[u] # NoBuf
  BY <1>4, <1>7 DEF PlacesInv
<1>13. free' = free
  BY <1>3
<1>14. QED BY <1>1, <1>5, <1>6, <1>8, <1>10, <1>11, <1>12, <1>13 DEF PlacesInv

(* The driver supplies a buffer.                                            *)
LEMMA SupplyPlaces ==
  ASSUME PlacesInv, NEW b \in Buffers, Supply(b)
  PROVE  PlacesInv'
<1>1. b \in free /\ b \notin Contents(avail)
  BY DEF Supply, PlacesInv
<1>2. RingOK(Put(avail, b), lastAvail) /\ Contents(Put(avail, b)) = Contents(avail) \cup {b}
  BY <1>1, PutOK DEF PlacesInv
<1>3. held' = held /\ used' = used /\ lastUsed' = lastUsed /\ free' = free \ {b}
      /\ avail' = Put(avail, b) /\ lastAvail' = lastAvail /\ pc' = pc
  BY DEF Supply
<1>4. RingOK(avail, lastAvail)' /\ Contents(avail)' = Contents(avail) \cup {b}
  BY <1>2, <1>3 DEF RingOK, Entries, Contents
<1>5. RingOK(used, lastUsed)' /\ Contents(used)' = Contents(used)
  BY <1>3 DEF PlacesInv, RingOK, Entries, Contents
<1>6. InHand' = InHand
  BY <1>3 DEF InHand
<1>7. QED BY <1>1, <1>3, <1>4, <1>5, <1>6 DEF PlacesInv

(* The driver takes a buffer back from the used ring.                       *)
LEMMA ReclaimPlaces ==
  ASSUME PlacesInv, Reclaim
  PROVE  PlacesInv'
<1> DEFINE b == used.ring[lastUsed % Num]
<1>1. b \in Contents(used) /\ b \in Buffers
      /\ RingOK(Drop(used, lastUsed), Succ(lastUsed))
      /\ Contents(Drop(used, lastUsed)) = Contents(used) \ {b}
  BY DropOK DEF PlacesInv, Reclaim
<1>2. held' = held /\ used' = Drop(used, lastUsed) /\ lastUsed' = Succ(lastUsed)
      /\ free' = free \cup {b} /\ avail' = avail /\ lastAvail' = lastAvail /\ pc' = pc
  BY DEF Reclaim
<1> HIDE DEF b
<1>3. RingOK(used, lastUsed)' /\ Contents(used)' = Contents(used) \ {b}
  BY <1>1, <1>2 DEF RingOK, Entries, Contents
<1>4. RingOK(avail, lastAvail)' /\ Contents(avail)' = Contents(avail)
  BY <1>2 DEF PlacesInv, RingOK, Entries, Contents
<1>5. InHand' = InHand
  BY <1>2 DEF InHand
<1>6. QED BY <1>1, <1>2, <1>3, <1>4, <1>5 DEF PlacesInv

(* Every step keeps the places.                                             *)
LEMMA PlacesStep ==
  ASSUME PlacesInv, SleepInv, [Next]_vars
  PROVE  PlacesInv'
<1>1. pc \in [Threads -> Pcs]
  BY DEF SleepInv, TypeOK, Pcs
<1>2. ASSUME NEW t \in Threads, Want(t) \/ Wait(t) \/ GetEmpty(t) \/ ClearNoNotify(t) \/ GetNone(t)
      PROVE  PlacesInv'
  <2>1. UNCHANGED rings
    BY <1>2 DEF Want, Wait, GetEmpty, ClearNoNotify, GetNone
  <2>2. \A u \in Threads : pc[u] = "have" <=> pc'[u] = "have"
    BY <1>1, <1>2 DEF Want, Wait, GetEmpty, ClearNoNotify, GetNone, Goto
  <2>3. QED BY <2>1, <2>2, PlacesKept
<1>3. ASSUME NEW t \in Threads, GetFirst(t)
      PROVE  PlacesInv'
  BY <1>1, <1>3, TakePlaces DEF GetFirst, Goto
<1>4. ASSUME NEW t \in Threads, GetAgain(t)
      PROVE  PlacesInv'
  <2>1. \A u \in Threads \ {t} : pc[u] = "have" <=> pc'[u] = "have"
    BY <1>1, <1>4 DEF GetAgain, Woken
  <2>2. pc[t] # "have" /\ pc'[t] = "have"
    BY <1>1, <1>4 DEF GetAgain, Woken
  <2>3. QED BY <1>4, <2>1, <2>2, TakePlaces DEF GetAgain, SecondLook
<1>5. CASE KickPrepare \/ Serve \/ UNCHANGED vars
  <2>1. UNCHANGED rings
    BY <1>5 DEF KickPrepare, Serve, KickVq, SignalFlag, SignalEvent, vars, rings
  <2>2. \A u \in Threads : pc[u] = "have" <=> pc'[u] = "have"
    BY <1>1, <1>5 DEF KickPrepare, Serve, KickVq, SignalFlag, SignalEvent, vars, Woken
  <2>3. QED BY <2>1, <2>2, PlacesKept
<1>6. QED
  BY <1>1, <1>2, <1>3, <1>4, <1>5, AddPlaces, SupplyPlaces, ReclaimPlaces
     DEF Next, Get, Inside

(* The places are right in every state.                                     *)
THEOREM PlacesHold == Spec => []PlacesInv
<1>1. PlacesInv /\ SleepInv /\ [Next]_vars => PlacesInv'
  BY PlacesStep
<1>2. QED BY InitPlaces, SleepInvHolds, <1>1, PTL DEF Spec

(* Each place counts a buffer at most once.                                 *)
LEMMA OnePlace ==
  ASSUME PlacesInv, NEW b \in Buffers
  PROVE  Cardinality({x \in {"free"} : b \in free})
         + Cardinality(Holds(avail, lastAvail, b))
         + Cardinality({t \in Threads : held[t] = b})
         + Cardinality(Holds(used, lastUsed, b)) = 1
<1>1. Cardinality({x \in {"free"} : b \in free}) = IF b \in free THEN 1 ELSE 0
  <2>1. CASE b \in free
    <3>1. {x \in {"free"} : b \in free} = {"free"}
      BY <2>1
    <3>2. QED BY <2>1, <3>1, FS_Singleton
  <2>2. CASE b \notin free
    <3>1. {x \in {"free"} : b \in free} = {}
      BY <2>2
    <3>2. QED BY <2>2, <3>1, FS_EmptySet
  <2>3. QED BY <2>1, <2>2
<1>2. ASSUME NEW r, NEW from, RingOK(r, from)
      PROVE  Cardinality(Holds(r, from, b)) = IF b \in Contents(r) THEN 1 ELSE 0
  <2>1. CASE b \in Contents(r)
    <3>1. PICK i : Holds(r, from, b) = {i}
      BY <1>2, <2>1, HoldsOnce
    <3>2. QED BY <2>1, <3>1, FS_Singleton
  <2>2. CASE b \notin Contents(r)
    <3>1. Holds(r, from, b) = {}
      BY <1>2, <2>2, HoldsOnce
    <3>2. QED BY <2>2, <3>1, FS_EmptySet
  <2>3. QED BY <2>1, <2>2
<1>3. Cardinality({t \in Threads : held[t] = b}) = IF b \in InHand THEN 1 ELSE 0
  <2>0. b # NoBuf
    BY VqueueAssumption DEF Buffers
  <2>1. CASE b \in InHand
    <3>1. PICK t \in Threads : held[t] = b
      BY <2>1 DEF InHand
    <3>2. {u \in Threads : held[u] = b} = {t}
      BY <2>0, <3>1 DEF PlacesInv, Threads
    <3>3. QED BY <2>1, <3>2, FS_Singleton
  <2>2. CASE b \notin InHand
    <3>1. {t \in Threads : held[t] = b} = {}
      BY <2>0, <2>2 DEF InHand
    <3>2. QED BY <2>2, <3>1, FS_EmptySet
  <2>3. QED BY <2>1, <2>2
<1>4. Cardinality(Holds(avail, lastAvail, b)) = IF b \in Contents(avail) THEN 1 ELSE 0
  BY <1>2 DEF PlacesInv
<1>5. Cardinality(Holds(used, lastUsed, b)) = IF b \in Contents(used) THEN 1 ELSE 0
  BY <1>2 DEF PlacesInv
<1>6. \/ b \in free /\ b \notin Contents(avail) /\ b \notin InHand /\ b \notin Contents(used)
      \/ b \notin free /\ b \in Contents(avail) /\ b \notin InHand /\ b \notin Contents(used)
      \/ b \notin free /\ b \notin Contents(avail) /\ b \in InHand /\ b \notin Contents(used)
      \/ b \notin free /\ b \notin Contents(avail) /\ b \notin InHand /\ b \in Contents(used)
  BY DEF PlacesInv
<1>7. QED BY <1>1, <1>3, <1>4, <1>5, <1>6

(* No buffer is lost, doubled or overwritten: for every ring size and every *)
(* multiple of it as index range, each descriptor chain is with the driver, *)
(* in the available ring, with a thread of the device or in the used ring,  *)
(* at exactly one place, when the indices wrap too; so the panic of         *)
(* vqueue_get_avail_buf on more than num available buffers is not reached.  *)
THEOREM BuffersKept == Spec => []BuffersOnce
<1>1. PlacesInv => AvailCnt <= Num
  BY DEF PlacesInv, RingOK, AvailCnt
<1>2. PlacesInv => BuffersOnce
  BY <1>1, OnePlace DEF BuffersOnce
<1>3. QED BY PlacesHold, <1>2, PTL
=============================================================================
