----------------------------- MODULE MemLogProofs -----------------------------
(* Proofs about MemLog, for every size of the ring, of a chunk, of a line   *)
(* and of the counters.                                                     *)
EXTENDS MemLog, TLAPS

-----------------------------------------------------------------------------
(* Arithmetic.                                                              *)

(* A number is determined by quotient and remainder.                        *)
LEMMA DivMod ==
  ASSUME NEW a \in Int, NEW m \in Nat \ {0}
  PROVE  /\ a \div m \in Int
         /\ a % m \in 0..(m - 1)
         /\ a = m * (a \div m) + (a % m)
  OBVIOUS

(* A multiple of m that lies strictly between -m and m is zero.             *)
LEMMA NoSmallMultiple ==
  ASSUME NEW k \in Int, NEW m \in Nat \ {0}, -m < m * k, m * k < m
  PROVE  k = 0
<1>1. CASE k >= 1
  <2>1. m * k >= m
    BY <1>1
  <2> QED BY <2>1
<1>2. CASE k <= -1
  <2>1. m * k <= -m
    BY <1>2
  <2> QED BY <2>1
<1> QED BY <1>1, <1>2

(* Two characters less than Sz apart have different slots of the ring.      *)
LEMMA SlotsDiffer ==
  ASSUME NEW p \in Nat, NEW q \in Nat, NEW m \in Nat \ {0}, p < q, q < p + m
  PROVE  p % m # q % m
<1> SUFFICES ASSUME p % m = q % m PROVE FALSE
  OBVIOUS
<1> DEFINE k == q \div m - p \div m
<1>1. /\ p \div m \in Int /\ q \div m \in Int
      /\ p % m \in Int /\ q % m \in Int
      /\ p = m * (p \div m) + (p % m)
      /\ q = m * (q \div m) + (q % m)
  BY DivMod
<1>2. q - p = m * (q \div m) - m * (p \div m)
  BY <1>1
<1>3. k \in Int /\ m * k = m * (q \div m) - m * (p \div m)
  BY <1>1
<1>4. k = 0
  <2> HIDE DEF k
  <2> QED BY <1>2, <1>3, NoSmallMultiple
<1>5. m * k = 0
  BY <1>4, <1>3
<1> QED BY <1>2, <1>3, <1>5

(* A difference of less than 2^32 survives the wrap of the counters.        *)
LEMMA ModSmall ==
  ASSUME NEW a \in Nat, NEW m \in Nat \ {0}, a < m
  PROVE  a % m = a
<1> DEFINE k == a \div m
<1>1. k \in Int /\ a % m \in 0..(m - 1) /\ a = m * k + (a % m)
  BY DivMod
<1>2. k = 0
  <2> HIDE DEF k
  <2>1. -m < m * k /\ m * k < m
    BY <1>1
  <2> QED BY <2>1, <1>1, NoSmallMultiple
<1>3. m * k = 0
  BY <1>1, <1>2
<1> QED BY <1>1, <1>3

LEMMA SlotInRing ==
  ASSUME NEW n \in Nat
  PROVE  Slot(n) \in 0..(Sz - 1)
<1>1. n \in Int /\ Sz \in Nat \ {0}
  BY MemLogAssumption
<1> QED BY <1>1, DivMod DEF Slot

(* The differences that the reader forms are the real ones.                 *)
LEMMA Sub32Exact ==
  ASSUME NEW a \in Nat, NEW b \in Nat, b <= a, a - b < Wrap
  PROVE  Sub32(a, b) = a - b
BY ModSmall, MemLogAssumption DEF Sub32

-----------------------------------------------------------------------------
(* The inductive invariant.                                                 *)

LEMMA InitInv == Init => TypeOK /\ Inv
<1> SUFFICES ASSUME Init PROVE TypeOK /\ Inv
  OBVIOUS
<1> USE MemLogAssumption DEF Init, NoChar, Chars
<1>1. TypeOK
  BY DEF TypeOK
<1>2. RingHolds /\ ProducerOK /\ ConsumerOK /\ LineOK /\ PrintedBehind
  BY DEF RingHolds, ProducerOK, ConsumerOK, LineOK, PrintedBehind
<1> QED BY <1>1, <1>2 DEF Inv

(* rb->alloc moves before the data: a line that will be overwritten is      *)
(* given up before its first character changes.                             *)
LEMMA AllocStep ==
  ASSUME TypeOK, Inv, NEW n \in 1..Chunk, AllocChunk(n)
  PROVE  TypeOK' /\ Inv'
<1> USE MemLogAssumption DEF AllocChunk, consumer
<1>1. TypeOK'
  BY DEF TypeOK
<1>2. RingHolds'
  BY DEF RingHolds, TypeOK, Inv, ProducerOK
<1>3. ProducerOK'
  BY DEF TypeOK, Inv, ProducerOK
<1>4. ConsumerOK'
  BY DEF TypeOK, Inv, ConsumerOK, LapBound
<1>5. LineOK'
  BY DEF TypeOK, Inv, LineOK
<1>6. PrintedBehind'
  BY DEF Inv, PrintedBehind
<1> QED BY <1>1, <1>2, <1>3, <1>4, <1>5, <1>6 DEF Inv

LEMMA StoreStep ==
  ASSUME TypeOK, Inv, StoreChar
  PROVE  TypeOK' /\ Inv'
<1> USE MemLogAssumption DEF StoreChar, consumer
<1>0. put + wi \in Nat /\ Slot(put + wi) \in 0..(Sz - 1)
  <2>1. put + wi \in Nat
    BY DEF TypeOK
  <2> QED BY <2>1, SlotInRing
<1>1. TypeOK'
  BY <1>0 DEF TypeOK, Chars
<1>2. RingHolds'
  <2> SUFFICES ASSUME NEW n \in 0..(put + wi), put + wi + 1 <= n + Sz
               PROVE  data'[Slot(n)] = n
    BY DEF RingHolds, TypeOK
  <2>1. CASE n = put + wi
    BY <2>1, <1>0 DEF TypeOK
  <2>2. CASE n < put + wi
    <3>1. Slot(n) # Slot(put + wi)
      <4>1. /\ n \in Nat /\ put + wi \in Nat /\ Sz \in Nat \ {0}
            /\ n < put + wi /\ put + wi < n + Sz
        BY <2>2, <1>0
      <4> HIDE MemLogAssumption DEF StoreChar
      <4> QED BY <4>1, SlotsDiffer DEF Slot
    <3>2. data[Slot(n)] = n
      <4>1. n \in 0..(put + wi - 1) /\ put + wi <= n + Sz
        BY <2>2, <1>0 DEF TypeOK
      <4> QED BY <4>1 DEF Inv, RingHolds
    <3>3. Slot(n) \in 0..(Sz - 1)
      <4>1. n \in Nat
        BY <1>0
      <4> QED BY <4>1, SlotInRing
    <3> QED BY <3>1, <3>2, <3>3 DEF TypeOK
  <2> QED BY <2>1, <2>2, <1>0
<1>3. ProducerOK'
  BY DEF TypeOK, Inv, ProducerOK
<1>4. ConsumerOK'
  BY DEF TypeOK, Inv, ConsumerOK
<1>5. LineOK'
  BY DEF Inv, LineOK
<1>6. PrintedBehind'
  BY DEF Inv, PrintedBehind
<1> QED BY <1>1, <1>2, <1>3, <1>4, <1>5, <1>6 DEF Inv

LEMMA PutStep ==
  ASSUME TypeOK, Inv, PutChunk
  PROVE  TypeOK' /\ Inv'
<1> USE MemLogAssumption DEF PutChunk, ChunkStored, consumer
<1>1. TypeOK'
  BY DEF TypeOK
<1>2. RingHolds'
  BY DEF RingHolds, TypeOK, Inv
<1>3. ProducerOK'
  BY DEF TypeOK, Inv, ProducerOK
<1>4. ConsumerOK'
  BY DEF TypeOK, Inv, ConsumerOK
<1>5. LineOK'
  BY DEF Inv, LineOK
<1>6. PrintedBehind'
  BY DEF Inv, PrintedBehind
<1> QED BY <1>1, <1>2, <1>3, <1>4, <1>5, <1>6 DEF Inv

(* What the reader knows while it reads a line or decides about it.         *)
LEMMA ReaderFacts ==
  ASSUME TypeOK, Inv
  PROVE  /\ Sub32(alloc, get) = alloc - get
         /\ cpc \in {"line", "check"} => Sub32(cput, get) = cput - get
<1> USE MemLogAssumption DEF TypeOK, Inv, ProducerOK, ConsumerOK
<1>1. get <= alloc /\ alloc - get < Wrap
  OBVIOUS
<1>2. Sub32(alloc, get) = alloc - get
  BY <1>1, Sub32Exact
<1>3. ASSUME cpc \in {"line", "check"}
      PROVE  Sub32(cput, get) = cput - get
  <2>1. get <= cput /\ cput - get < Wrap
    BY <1>3
  <2> QED BY <2>1, Sub32Exact
<1> QED BY <1>2, <1>3

LEMMA ReadCharStep ==
  ASSUME TypeOK, Inv, ReadChar
  PROVE  TypeOK' /\ Inv'
<1> USE MemLogAssumption DEF ReadChar, producer
<1> DEFINE k == get + Len(line)
<1>a. Sub32(cput, get) = cput - get
  BY ReaderFacts
<1>0. /\ MaxToRead \in Int /\ MaxToRead <= cput - get /\ MaxToRead <= Line
      /\ k \in Nat /\ k < cput /\ cput <= put
      /\ Len(line) \in Nat
  BY <1>a DEF MaxToRead, TypeOK, Inv, ConsumerOK
<1>1. Slot(k) \in 0..(Sz - 1) /\ data[Slot(k)] \in Chars
  <2>1. k \in Nat
    BY <1>0
  <2>2. Slot(k) \in 0..(Sz - 1)
    BY <2>1, SlotInRing
  <2> QED BY <2>2 DEF TypeOK
<1>2. /\ line' \in Seq(Chars) /\ Len(line') = Len(line) + 1
      /\ line'[Len(line) + 1] = data[Slot(k)]
      /\ \A i \in 1..Len(line) : line'[i] = line[i]
  BY <1>1 DEF TypeOK
<1> HIDE DEF k
<1>3. TypeOK'
  BY <1>0, <1>2 DEF TypeOK
<1>4. LineOK'
  <2> SUFFICES ASSUME alloc - get <= Sz, NEW i \in 1..(Len(line) + 1)
               PROVE  line'[i] = get + i - 1
    BY <1>2 DEF LineOK
  <2>1. CASE i <= Len(line)
    BY <2>1, <1>0, <1>2 DEF Inv, LineOK
  <2>2. CASE i = Len(line) + 1
    <3>1. k \in 0..(put + wi - 1) /\ put + wi <= k + Sz
      BY <1>0 DEF k, TypeOK, Inv, ProducerOK
    <3>2. data[Slot(k)] = k
      BY <3>1 DEF Inv, RingHolds
    <3> QED BY <3>2, <2>2, <1>2, <1>0 DEF k, TypeOK
  <2> QED BY <2>1, <2>2, <1>0
<1>5. ConsumerOK'
  BY <1>0, <1>2 DEF k, TypeOK, Inv, ConsumerOK
<1>6. RingHolds' /\ ProducerOK' /\ PrintedBehind'
  BY DEF Inv, RingHolds, ProducerOK, PrintedBehind
<1> QED BY <1>3, <1>4, <1>5, <1>6 DEF Inv

LEMMA OverflowStep ==
  ASSUME TypeOK, Inv, LogOverflow
  PROVE  TypeOK' /\ Inv'
<1> USE MemLogAssumption DEF LogOverflow, producer, Oldest
<1>1. alloc - get > Sz
  BY ReaderFacts DEF Overtaken
<1>2. get' \in Nat /\ get' > get /\ get' <= put
  BY <1>1 DEF TypeOK, Inv, ProducerOK
<1>3. TypeOK'
  BY <1>2 DEF TypeOK
<1>4. ConsumerOK' /\ LineOK'
  BY <1>2 DEF TypeOK, Inv, ConsumerOK, LineOK
<1>5. PrintedBehind'
  BY <1>2 DEF TypeOK, Inv, PrintedBehind
<1>6. RingHolds' /\ ProducerOK'
  BY DEF Inv, RingHolds, ProducerOK
<1> QED BY <1>3, <1>4, <1>5, <1>6 DEF Inv

LEMMA PrintStep ==
  ASSUME TypeOK, Inv, PrintLine
  PROVE  TypeOK' /\ Inv'
<1> USE MemLogAssumption DEF PrintLine, producer, NextLine
<1>1. Len(line) \in Nat /\ get' = get + Len(line) /\ get' <= put
  BY DEF TypeOK, Inv, ConsumerOK
<1>3. TypeOK'
  BY <1>1 DEF TypeOK
<1>4. ConsumerOK' /\ LineOK' /\ PrintedBehind'
  BY <1>1 DEF TypeOK, Inv, ConsumerOK, LineOK, PrintedBehind
<1>6. RingHolds' /\ ProducerOK'
  BY DEF Inv, RingHolds, ProducerOK
<1> QED BY <1>3, <1>4, <1>6 DEF Inv

LEMMA LoopStep ==
  ASSUME TypeOK, Inv, DumpStart \/ ReadPut \/ DumpEnd
  PROVE  TypeOK' /\ Inv'
<1> USE MemLogAssumption DEF producer
<1>1. RingHolds' /\ ProducerOK'
  BY DEF DumpStart, ReadPut, DumpEnd, Inv, RingHolds, ProducerOK
<1>2. CASE DumpStart
  <2>1. TypeOK' /\ ConsumerOK' /\ LineOK' /\ PrintedBehind'
    BY <1>2 DEF DumpStart, TypeOK, Inv, ConsumerOK, LineOK, PrintedBehind
  <2> QED BY <2>1, <1>1 DEF Inv
<1>3. CASE ReadPut
  <2>1. TypeOK' /\ ConsumerOK' /\ LineOK' /\ PrintedBehind'
    BY <1>3 DEF ReadPut, TypeOK, Inv, ConsumerOK, LineOK, PrintedBehind
  <2> QED BY <2>1, <1>1 DEF Inv
<1>4. CASE DumpEnd
  <2>1. TypeOK' /\ ConsumerOK' /\ LineOK' /\ PrintedBehind'
    BY <1>4 DEF DumpEnd, TypeOK, Inv, ConsumerOK, LineOK, PrintedBehind
  <2> QED BY <2>1, <1>1 DEF Inv
<1> QED BY <1>2, <1>3, <1>4

LEMMA NextInv == TypeOK /\ Inv /\ [Next]_vars => TypeOK' /\ Inv'
<1> SUFFICES ASSUME TypeOK, Inv, [Next]_vars PROVE TypeOK' /\ Inv'
  OBVIOUS
<1>1. CASE UNCHANGED vars
  <2>1. TypeOK'
    BY <1>1 DEF vars, TypeOK
  <2>2. RingHolds' /\ ProducerOK' /\ ConsumerOK' /\ LineOK' /\ PrintedBehind'
    BY <1>1 DEF vars, Inv, RingHolds, ProducerOK, ConsumerOK, LineOK,
                PrintedBehind
  <2> QED BY <2>1, <2>2 DEF Inv
<1>2. CASE Produce
  BY <1>2, AllocStep, StoreStep, PutStep DEF Produce
<1>3. CASE Consume
  BY <1>3, LoopStep, ReadCharStep, OverflowStep, PrintStep DEF Consume
<1> QED BY <1>1, <1>2, <1>3 DEF Next

LEMMA InvHolds == Spec => [](TypeOK /\ Inv)
<1> QED BY InitInv, NextInv, PTL DEF Spec

-----------------------------------------------------------------------------
(* The theorems.                                                            *)

(* The comment of trusty_dump_logs, "alloc >= put >= get", for every size.  *)
THEOREM RingOrdered == Spec => []RingOrder
<1>1. TypeOK /\ Inv => RingOrder
  BY DEF TypeOK, Inv, ProducerOK, ConsumerOK, RingOrder
<1> QED BY <1>1, InvHolds, PTL

(* A printed line is always a piece of what was logged, although producer   *)
(* and reader share no lock.                                                *)
THEOREM PrintedCorrect == Spec => []PrintedIsWritten
<1>1. Init => PrintedIsWritten
  BY DEF Init, PrintedIsWritten
<1>2. TypeOK /\ Inv /\ PrintedIsWritten /\ [Next]_vars => PrintedIsWritten'
  <2> SUFFICES ASSUME TypeOK, Inv, PrintedIsWritten, [Next]_vars
               PROVE  PrintedIsWritten'
    OBVIOUS
  <2>1. CASE PrintLine
    <3>1. alloc - get <= Sz
      BY <2>1, ReaderFacts, MemLogAssumption DEF PrintLine, Overtaken, TypeOK
    <3> QED BY <2>1, <3>1 DEF PrintLine, PrintedIsWritten, Inv, LineOK
  <2>2. CASE UNCHANGED printed
    BY <2>2 DEF PrintedIsWritten
  <2> QED
    BY <2>1, <2>2 DEF Next, Produce, Consume, AllocChunk, StoreChar,
       PutChunk, DumpStart, ReadPut, DumpEnd, ReadChar, LogOverflow, vars,
       consumer
<1> QED BY <1>1, <1>2, InvHolds, PTL DEF Spec

(* No character is printed twice and none before an earlier one.            *)
THEOREM PrintedOrdered == Spec => PrintedInOrder
<1>1. TypeOK /\ Inv /\ [Next]_vars =>
        [printed' # printed =>
           printed'.from >= printed.from + Len(printed.line)]_vars
  <2> SUFFICES ASSUME TypeOK, Inv, [Next]_vars, printed' # printed
               PROVE  printed'.from >= printed.from + Len(printed.line)
    OBVIOUS
  <2>1. PrintLine
    BY DEF Next, Produce, Consume, AllocChunk, StoreChar,
       PutChunk, DumpStart, ReadPut, DumpEnd, ReadChar, LogOverflow, vars,
       consumer
  <2>2. printed'.from = get
    BY <2>1 DEF PrintLine
  <2> QED BY <2>2 DEF TypeOK, Inv, PrintedBehind
<1> QED BY <1>1, InvHolds, PTL DEF Spec, PrintedInOrder
=============================================================================
