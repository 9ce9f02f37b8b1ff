----------------------------- MODULE IpcMsgProofs -----------------------------
(***************************************************************************)
(* Theorems about the message queues of IpcMsg, for every number of        *)
(* buffers and every set of messages: the three lists share out the items, *)
(* a sender marked as blocked has a peer without a free buffer, and the    *)
(* queues implement MsgFifo.                                               *)
(***************************************************************************)
EXTENDS IpcMsg, FiniteSetTheorems, TLAPS

-----------------------------------------------------------------------------
(* Lists without repetition.                                               *)

(* A new last element.                                                     *)
LEMMA AppendList ==
  ASSUME NEW S, NEW s \in Seq(S), NEW x \in S, NoDup(s), x \notin Elems(s)
  PROVE  /\ Append(s, x) \in Seq(S)
         /\ NoDup(Append(s, x))
         /\ Elems(Append(s, x)) = Elems(s) \cup {x}
<1>1. /\ Append(s, x) \in Seq(S) /\ Len(Append(s, x)) = Len(s) + 1
      /\ \A i \in 1..Len(s) : Append(s, x)[i] = s[i]
      /\ Append(s, x)[Len(s) + 1] = x
  OBVIOUS
<1>2. Len(s) \in Nat
  OBVIOUS
<1>3. NoDup(Append(s, x))
  BY <1>1, <1>2 DEF NoDup, Elems
<1>4. Elems(Append(s, x)) = Elems(s) \cup {x}
  <2>1. Elems(Append(s, x)) \subseteq Elems(s) \cup {x}
    BY <1>1, <1>2 DEF Elems
  <2>2. Elems(s) \cup {x} \subseteq Elems(Append(s, x))
    BY <1>1, <1>2 DEF Elems
  <2> QED BY <2>1, <2>2
<1> QED BY <1>1, <1>3, <1>4

(* The first element is taken off.                                         *)
LEMMA TailList ==
  ASSUME NEW S, NEW s \in Seq(S), NoDup(s), s # <<>>
  PROVE  /\ Head(s) \in Elems(s) /\ Head(s) \in S
         /\ Tail(s) \in Seq(S)
         /\ NoDup(Tail(s))
         /\ Elems(Tail(s)) = Elems(s) \ {Head(s)}
<1>1. /\ Len(s) \in Nat /\ Len(s) > 0 /\ Head(s) = s[1] /\ Tail(s) \in Seq(S)
      /\ Len(Tail(s)) = Len(s) - 1
      /\ \A i \in 1..(Len(s) - 1) : Tail(s)[i] = s[i + 1]
  OBVIOUS
<1>2. Head(s) \in Elems(s) /\ Head(s) \in S
  BY <1>1 DEF Elems
<1>3. NoDup(Tail(s))
  BY <1>1 DEF NoDup
<1>4. Elems(Tail(s)) \subseteq Elems(s) \ {Head(s)}
  BY <1>1 DEF Elems, NoDup
<1>5. ASSUME NEW y \in Elems(s), y # Head(s)  PROVE  y \in Elems(Tail(s))
  <2>1. PICK i \in 1..Len(s) : y = s[i]
    BY DEF Elems
  <2>2. i - 1 \in 1..(Len(s) - 1) /\ Tail(s)[i - 1] = y
    BY <1>1, <1>5, <2>1
  <2> QED BY <1>1, <2>2 DEF Elems
<1> QED BY <1>1, <1>2, <1>3, <1>4, <1>5

(* A new first element.                                                    *)
LEMMA ConsList ==
  ASSUME NEW S, NEW s \in Seq(S), NEW x \in S, NoDup(s), x \notin Elems(s)
  PROVE  /\ <<x>> \o s \in Seq(S)
         /\ NoDup(<<x>> \o s)
         /\ <<x>> \o s # <<>>
         /\ Elems(<<x>> \o s) = Elems(s) \cup {x}
<1> DEFINE t == <<x>> \o s
<1>1. /\ t \in Seq(S) /\ Len(s) \in Nat /\ Len(t) = Len(s) + 1 /\ t[1] = x
      /\ \A i \in 1..Len(s) : t[i + 1] = s[i]
  OBVIOUS
<1>2. \A i \in 2..Len(t) : i - 1 \in 1..Len(s) /\ t[i] = s[i - 1]
  <2> TAKE i \in 2..Len(t)
  <2>1. i - 1 \in 1..Len(s) /\ i = (i - 1) + 1
    BY <1>1
  <2> QED BY <1>1, <2>1
<1> HIDE DEF t
<1>3. ASSUME NEW i \in 1..Len(t)  PROVE  i = 1 \/ i \in 2..Len(t)
  BY <1>1
<1>4. NoDup(t)
  <2>1. ASSUME NEW i \in 2..Len(t)  PROVE  t[i] \in Elems(s) /\ t[i] # x
    <3>1. i - 1 \in 1..Len(s) /\ t[i] = s[i - 1]
      BY <1>2
    <3> QED BY <3>1 DEF Elems
  <2>2. ASSUME NEW i \in 2..Len(t), NEW j \in 2..Len(t), t[i] = t[j]  PROVE  i = j
    <3>1. i - 1 \in 1..Len(s) /\ t[i] = s[i - 1]
      BY <1>2
    <3>2. j - 1 \in 1..Len(s) /\ t[j] = s[j - 1]
      BY <1>2
    <3>3. i - 1 = j - 1
      BY <2>2, <3>1, <3>2 DEF NoDup
    <3> QED BY <3>3
  <2> QED BY <1>1, <1>3, <2>1, <2>2 DEF NoDup
<1>5. t # <<>>
  BY <1>1
<1>6. Elems(t) = Elems(s) \cup {x}
  <2>1. Elems(t) \subseteq Elems(s) \cup {x}
    BY <1>1, <1>2, <1>3 DEF Elems
  <2>2. Elems(s) \subseteq Elems(t)
    <3> SUFFICES ASSUME NEW i \in 1..Len(s)  PROVE  s[i] \in Elems(t)
      BY DEF Elems
    <3> QED BY <1>1 DEF Elems
  <2>3. x \in Elems(t)
    BY <1>1 DEF Elems
  <2> QED BY <2>1, <2>2, <2>3
<1> QED BY <1>1, <1>4, <1>5, <1>6 DEF t

(* list_delete of an element that is on the list.                          *)
LEMMA WithoutList ==
  ASSUME NEW S, NEW s \in Seq(S), NEW x \in Elems(s), NoDup(s)
  PROVE  /\ Without(s, x) \in Seq(S)
         /\ NoDup(Without(s, x))
         /\ Elems(Without(s, x)) = Elems(s) \ {x}
<1> DEFINE k == IndexOf(s, x)
           w == Without(s, x)
<1>1. k \in 1..Len(s) /\ s[k] = x
  BY DEF IndexOf, Elems
<1>2. /\ Len(s) \in Nat
      /\ \A i \in 1..Len(s) : s[i] \in S
  OBVIOUS
<1>3. w = [i \in 1..(Len(s) - 1) |-> IF i < k THEN s[i] ELSE s[i + 1]]
  BY DEF Without
<1> HIDE DEF k, w
<1>4. w \in Seq(S) /\ Len(w) = Len(s) - 1
  <2>1. Len(s) - 1 \in Nat /\ w \in [1..(Len(s) - 1) -> S]
    BY <1>1, <1>2, <1>3
  <2> QED BY <2>1
<1>5. \A i \in 1..Len(w) : w[i] = IF i < k THEN s[i] ELSE s[i + 1]
  BY <1>3, <1>4
<1>6. NoDup(w)
  BY <1>1, <1>2, <1>4, <1>5 DEF NoDup
<1>7. Elems(w) \subseteq Elems(s) \ {x}
  <2> SUFFICES ASSUME NEW i \in 1..Len(w)  PROVE  w[i] \in Elems(s) /\ w[i] # x
    BY DEF Elems
  <2> QED BY <1>1, <1>2, <1>4, <1>5 DEF NoDup, Elems
<1>8. ASSUME NEW y \in Elems(s), y # x  PROVE  y \in Elems(w)
  <2>1. PICK i \in 1..Len(s) : y = s[i]
    BY DEF Elems
  <2>2. CASE i < k
    BY <1>1, <1>2, <1>4, <1>5, <2>1, <2>2 DEF Elems
  <2>3. CASE i > k
    <3>1. i - 1 \in 1..Len(w) /\ ~(i - 1 < k) /\ (i - 1) + 1 = i
      BY <1>1, <1>2, <1>4, <2>3
    <3> QED BY <1>5, <2>1, <3>1 DEF Elems
  <2> QED BY <1>1, <1>8, <2>1, <2>2, <2>3
<1> QED BY <1>4, <1>6, <1>7, <1>8 DEF w

-----------------------------------------------------------------------------
(* One queue.                                                              *)

(* The lists of a queue share out its items, as in ItemsPartitioned, and   *)
(* every item that is not free has a whole message in its buffer.          *)
Shared(q) ==
  /\ NoDup(q.free) /\ NoDup(q.filled) /\ NoDup(q.read)
  /\ \A i \in Items :
       /\ q.item[i] = "FREE" <=> i \in Elems(q.free)
       /\ q.item[i] = "FILLED" <=> i \in Elems(q.filled)
       /\ q.item[i] = "READ" <=> i \in Elems(q.read)

Whole(q) == \A i \in Items : q.item[i] # "FREE" => q.buf[i] \in Msgs

QueueOK(q) == q \in QueueType /\ Shared(q) /\ Whole(q)

(* The fields of a queue record.                                           *)
LEMMA QueueFields ==
  ASSUME NEW q \in QueueType
  PROVE  /\ q.free \in Seq(Items) /\ q.filled \in Seq(Items)
         /\ q.read \in Seq(Items) /\ q.item \in [Items -> ItemStates]
         /\ q.buf \in [Items -> Msgs \cup {NoMsg}]
BY DEF QueueType

(* ipc_msg_queue_create: every item is on the free list.                   *)
LEMMA CreateOK == QueueOK(ipc_msg_queue_create)
<1> DEFINE q == ipc_msg_queue_create
<1>1. /\ q.free = AllFree /\ q.filled = <<>> /\ q.read = <<>>
      /\ q.item = [i \in Items |-> "FREE"] /\ q.buf = [i \in Items |-> NoMsg]
  BY DEF ipc_msg_queue_create
<1>2. AllFree \in [1..NumItems -> Items] /\ NumItems \in Nat
  BY IpcMsgAssumption DEF AllFree, Items
<1>3. AllFree \in Seq(Items) /\ Len(AllFree) = NumItems
  BY <1>2
<1>4. NoDup(AllFree)
  BY <1>2, <1>3 DEF NoDup, AllFree
<1>5. ASSUME NEW i \in Items  PROVE  i \in Elems(AllFree)
  <2>1. i + 1 \in 1..NumItems /\ AllFree[i + 1] = i
    BY <1>2 DEF Items, AllFree
  <2> QED BY <1>3, <2>1 DEF Elems
<1>6. NoDup(<<>>) /\ Elems(<<>>) = {}
  BY DEF NoDup, Elems
<1>7. Shared(q)
  BY <1>1, <1>4, <1>5, <1>6 DEF Shared
<1>8. q \in QueueType
  BY <1>3 DEF ipc_msg_queue_create, QueueType, ItemStates
<1> QED BY <1>1, <1>7, <1>8 DEF QueueOK, Whole

(* The fields that Fill and TakeFilled write.                              *)
LEMMA FillFields ==
  ASSUME NEW q \in QueueType, NEW m
  PROVE  LET i == Head(q.free)
             d == Fill(q, m)
         IN  /\ d.free = Tail(q.free) /\ d.filled = Append(q.filled, i)
             /\ d.read = q.read
             /\ d.item = [q.item EXCEPT ![i] = "FILLED"]
             /\ d.buf = [q.buf EXCEPT ![i] = m]
BY DEF Fill, QueueType

LEMMA TakeFields ==
  ASSUME NEW q \in QueueType
  PROVE  LET i == Head(q.filled)
             d == TakeFilled(q)
         IN  /\ d.free = q.free /\ d.filled = Tail(q.filled)
             /\ d.read = Append(q.read, i)
             /\ d.item = [q.item EXCEPT ![i] = "READ"]
             /\ d.buf = q.buf
BY DEF TakeFilled, QueueType

LEMMA PutFields ==
  ASSUME NEW q \in QueueType, NEW i
  PROVE  LET d == PutRead(q, i)
         IN  /\ d.free = <<i>> \o q.free /\ d.filled = q.filled
             /\ d.read = Without(q.read, i)
             /\ d.item = [q.item EXCEPT ![i] = "FREE"]
             /\ d.buf = q.buf
BY DEF PutRead, QueueType

LEMMA ScribbleFields ==
  ASSUME NEW q \in QueueType
  PROVE  LET d == Scribble(q)
         IN  /\ d.free = q.free /\ d.filled = q.filled /\ d.read = q.read
             /\ d.item = q.item
             /\ d.buf = [q.buf EXCEPT ![Head(q.free)] = NoMsg]
BY DEF Scribble, QueueType

(* The operations keep a queue in order.                                   *)
LEMMA FillOK ==
  ASSUME NEW q, QueueOK(q), q.free # <<>>, NEW m \in Msgs
  PROVE  QueueOK(Fill(q, m))
<1> DEFINE i == Head(q.free)
           d == Fill(q, m)
<1>1. q \in QueueType /\ Shared(q) /\ Whole(q)
  BY DEF QueueOK
<1>2. /\ q.free \in Seq(Items) /\ q.filled \in Seq(Items)
      /\ q.read \in Seq(Items) /\ q.item \in [Items -> ItemStates]
      /\ q.buf \in [Items -> Msgs \cup {NoMsg}]
  BY <1>1, QueueFields
<1>3. /\ d.free = Tail(q.free) /\ d.filled = Append(q.filled, i)
      /\ d.read = q.read
      /\ d.item = [q.item EXCEPT ![i] = "FILLED"]
      /\ d.buf = [q.buf EXCEPT ![i] = m]
  BY <1>1, FillFields
<1>4. /\ i \in Elems(q.free) /\ i \in Items
      /\ Tail(q.free) \in Seq(Items) /\ NoDup(Tail(q.free))
      /\ Elems(Tail(q.free)) = Elems(q.free) \ {i}
  BY <1>1, <1>2, TailList DEF Shared
<1>5. q.item[i] = "FREE" /\ i \notin Elems(q.filled) /\ i \notin Elems(q.read)
  BY <1>1, <1>4 DEF Shared
<1>6. /\ d.filled \in Seq(Items) /\ NoDup(d.filled)
      /\ Elems(d.filled) = Elems(q.filled) \cup {i}
  BY <1>1, <1>2, <1>3, <1>4, <1>5, AppendList DEF Shared
<1> HIDE DEF i, d
<1>7. d \in QueueType
  BY <1>1, <1>2, <1>3, <1>4, <1>6 DEF d, i, Fill, QueueType, ItemStates
<1>8. Shared(d)
  BY <1>1, <1>2, <1>3, <1>4, <1>5, <1>6 DEF Shared
<1>9. Whole(d)
  BY <1>1, <1>2, <1>3, <1>4 DEF Whole
<1> QED BY <1>7, <1>8, <1>9 DEF QueueOK, d

LEMMA ScribbleOK ==
  ASSUME NEW q, QueueOK(q), q.free # <<>>
  PROVE  QueueOK(Scribble(q))
<1> DEFINE i == Head(q.free)
           d == Scribble(q)
<1>1. q \in QueueType /\ Shared(q) /\ Whole(q)
  BY DEF QueueOK
<1>2. /\ q.free \in Seq(Items) /\ q.filled \in Seq(Items)
      /\ q.read \in Seq(Items) /\ q.item \in [Items -> ItemStates]
      /\ q.buf \in [Items -> Msgs \cup {NoMsg}]
  BY <1>1, QueueFields
<1>3. /\ d.free = q.free /\ d.filled = q.filled /\ d.read = q.read
      /\ d.item = q.item
      /\ d.buf = [q.buf EXCEPT ![i] = NoMsg]
  BY <1>1, ScribbleFields
<1>4. i \in Items /\ q.item[i] = "FREE"
  BY <1>1, <1>2, TailList DEF Shared
<1> HIDE DEF i, d
<1>5. d \in QueueType
  BY <1>1, <1>2, <1>3 DEF d, i, Scribble, QueueType, ItemStates
<1>6. Shared(d) /\ Whole(d)
  BY <1>1, <1>2, <1>3, <1>4 DEF Shared, Whole
<1> QED BY <1>5, <1>6 DEF QueueOK, d

LEMMA TakeOK ==
  ASSUME NEW q, QueueOK(q), q.filled # <<>>
  PROVE  QueueOK(TakeFilled(q))
<1> DEFINE i == Head(q.filled)
           d == TakeFilled(q)
<1>1. q \in QueueType /\ Shared(q) /\ Whole(q)
  BY DEF QueueOK
<1>2. /\ q.free \in Seq(Items) /\ q.filled \in Seq(Items)
      /\ q.read \in Seq(Items) /\ q.item \in [Items -> ItemStates]
      /\ q.buf \in [Items -> Msgs \cup {NoMsg}]
  BY <1>1, QueueFields
<1>3. /\ d.free = q.free /\ d.filled = Tail(q.filled)
      /\ d.read = Append(q.read, i)
      /\ d.item = [q.item EXCEPT ![i] = "READ"]
      /\ d.buf = q.buf
  BY <1>1, TakeFields
<1>4. /\ i \in Elems(q.filled) /\ i \in Items
      /\ d.filled \in Seq(Items) /\ NoDup(d.filled)
      /\ Elems(d.filled) = Elems(q.filled) \ {i}
  BY <1>1, <1>2, <1>3, TailList DEF Shared
<1>5. q.item[i] = "FILLED" /\ i \notin Elems(q.free) /\ i \notin Elems(q.read)
  BY <1>1, <1>4 DEF Shared
<1>6. /\ d.read \in Seq(Items) /\ NoDup(d.read)
      /\ Elems(d.read) = Elems(q.read) \cup {i}
  BY <1>1, <1>2, <1>3, <1>4, <1>5, AppendList DEF Shared
<1> HIDE DEF i, d
<1>7. d \in QueueType
  BY <1>1, <1>2, <1>3, <1>4, <1>6 DEF d, i, TakeFilled, QueueType, ItemStates
<1>8. Shared(d)
  BY <1>1, <1>2, <1>3, <1>4, <1>5, <1>6 DEF Shared
<1>9. Whole(d)
  BY <1>1, <1>2, <1>3, <1>4, <1>5 DEF Whole
<1> QED BY <1>7, <1>8, <1>9 DEF QueueOK, d

LEMMA PutOK ==
  ASSUME NEW q, QueueOK(q), NEW i \in Items, q.item[i] = "READ"
  PROVE  QueueOK(PutRead(q, i))
<1> DEFINE d == PutRead(q, i)
<1>1. q \in QueueType /\ Shared(q) /\ Whole(q)
  BY DEF QueueOK
<1>2. /\ q.free \in Seq(Items) /\ q.filled \in Seq(Items)
      /\ q.read \in Seq(Items) /\ q.item \in [Items -> ItemStates]
      /\ q.buf \in [Items -> Msgs \cup {NoMsg}]
  BY <1>1, QueueFields
<1>3. /\ d.free = <<i>> \o q.free /\ d.filled = q.filled
      /\ d.read = Without(q.read, i)
      /\ d.item = [q.item EXCEPT ![i] = "FREE"]
      /\ d.buf = q.buf
  BY <1>1, PutFields
<1>4. i \in Elems(q.read) /\ i \notin Elems(q.free) /\ i \notin Elems(q.filled)
  BY <1>1 DEF Shared
<1>5. /\ d.free \in Seq(Items) /\ NoDup(d.free)
      /\ Elems(d.free) = Elems(q.free) \cup {i}
  BY <1>1, <1>2, <1>3, <1>4, ConsList DEF Shared
<1>6. /\ d.read \in Seq(Items) /\ NoDup(d.read)
      /\ Elems(d.read) = Elems(q.read) \ {i}
  BY <1>1, <1>2, <1>3, <1>4, WithoutList DEF Shared
<1> HIDE DEF d
<1>7. d \in QueueType
  BY <1>1, <1>2, <1>3, <1>5, <1>6 DEF d, PutRead, QueueType, ItemStates
<1>8. Shared(d)
  BY <1>1, <1>2, <1>3, <1>4, <1>5, <1>6 DEF Shared
<1>9. Whole(d)
  BY <1>1, <1>2, <1>3 DEF Whole
<1> QED BY <1>7, <1>8, <1>9 DEF QueueOK, d

-----------------------------------------------------------------------------
(* The invariant.                                                          *)

(* The two ends are each other's peer.                                     *)
LEMMA PeerFacts ==
  ASSUME NEW e \in Ends
  PROVE  /\ Peer(e) \in Ends /\ Peer(e) # e
         /\ \A f \in Ends : Peer(f) = e <=> f = Peer(e)
         /\ \A f \in Ends : Peer(f) = Peer(e) <=> f = e
<1>1. PICK a, b \in Ends : a # b /\ Ends = {a, b}
  BY IpcMsgAssumption
<1>2. Peer(a) = b /\ Peer(b) = a
  BY <1>1 DEF Peer
<1> QED BY <1>1, <1>2

(* ItemsPartitioned and BlockedMeansFull are inductive together.  MsgFifo  *)
(* needs besides that every message on a list is whole and that an end is  *)
(* connected only while the other one is.                                  *)
BothConnected ==
  \A e, f \in Ends : state[e] = "CONNECTED" => state[f] = "CONNECTED"

MsgInv ==
  /\ TypeOK
  /\ \A e \in Ends : QueueOK(mq[e])
  /\ BlockedMeansFull
  /\ BothConnected

LEMMA MsgInitInv == Init => MsgInv
<1> SUFFICES ASSUME Init  PROVE  MsgInv
  OBVIOUS
<1>1. \A e \in Ends : QueueOK(mq[e]) /\ mq[e] \in QueueType
  BY CreateOK DEF Init, QueueOK
<1>2. TypeOK
  BY <1>1 DEF Init, TypeOK, Events
<1>3. BlockedMeansFull
  BY DEF Init, BlockedMeansFull
<1>4. BothConnected
  BY DEF Init, BothConnected
<1> QED BY <1>1, <1>2, <1>3, <1>4 DEF MsgInv

(* A step that replaces the queue of one end by a queue in order.          *)
LEMMA OneQueue ==
  ASSUME MsgInv, NEW f \in Ends, NEW d, QueueOK(d),
         mq' = [mq EXCEPT ![f] = d]
  PROVE  /\ mq' \in [Ends -> QueueType]
         /\ \A e \in Ends : QueueOK(mq'[e])
         /\ mq'[f] = d
         /\ \A e \in Ends : e # f => mq'[e] = mq[e]
BY DEF MsgInv, TypeOK, QueueOK

LEMMA SendInv ==
  ASSUME MsgInv, NEW e \in Ends, NEW m \in Msgs, send_msg(e, m)
  PROVE  MsgInv'
<1> DEFINE f == Peer(e)
<1>0. f \in Ends /\ f # e /\ \A g \in Ends : Peer(g) = f <=> g = e
  BY PeerFacts
<1>1. /\ mq \in [Ends -> QueueType] /\ blocked \in [Ends -> BOOLEAN]
      /\ QueueOK(mq[f])
  BY <1>0 DEF MsgInv, TypeOK
<1>2. BothConnected'
  BY DEF send_msg, MsgInv, BothConnected
<1>3. CASE /\ mq[f].free = <<>> /\ UNCHANGED mq
           /\ blocked' = [blocked EXCEPT ![e] = TRUE]
  <2>1. TypeOK'
    BY <1>3 DEF send_msg, MsgInv, TypeOK
  <2>2. BlockedMeansFull'
    BY <1>0, <1>1, <1>3 DEF MsgInv, BlockedMeansFull
  <2> QED BY <1>3, <1>2, <2>1, <2>2 DEF MsgInv
<1>4. ASSUME NEW d, QueueOK(d), mq[f].free # <<>>,
             mq' = [mq EXCEPT ![f] = d], UNCHANGED blocked
      PROVE  MsgInv'
  <2>1. /\ mq' \in [Ends -> QueueType]
        /\ \A g \in Ends : QueueOK(mq'[g])
        /\ mq'[f] = d
        /\ \A g \in Ends : g # f => mq'[g] = mq[g]
    BY <1>0, <1>4, OneQueue
  <2>2. TypeOK'
    BY <1>4, <2>1 DEF send_msg, MsgInv, TypeOK
  <2>3. ASSUME NEW g \in Ends, blocked'[g]  PROVE  mq'[Peer(g)].free = <<>>
    <3>1. blocked[g] /\ mq[Peer(g)].free = <<>> /\ Peer(g) \in Ends
      BY <1>4, <2>3, PeerFacts DEF MsgInv, BlockedMeansFull
    <3> QED BY <1>0, <1>4, <2>1, <3>1
  <2> QED BY <1>2, <2>1, <2>2, <2>3 DEF MsgInv, BlockedMeansFull
<1>5. CASE mq[f].free # <<>> /\ mq' = [mq EXCEPT ![f] = Fill(@, m)] /\ UNCHANGED blocked
  BY <1>1, <1>4, <1>5, FillOK
<1>6. CASE mq[f].free # <<>> /\ mq' = [mq EXCEPT ![f] = Scribble(@)] /\ UNCHANGED blocked
  BY <1>1, <1>4, <1>6, ScribbleOK
<1> QED BY <1>3, <1>5, <1>6 DEF send_msg

LEMMA GetInv ==
  ASSUME MsgInv, NEW e \in Ends, get_msg(e)
  PROVE  MsgInv'
<1>1. QueueOK(TakeFilled(mq[e])) /\ mq[e] \in QueueType
  BY TakeOK DEF MsgInv, get_msg, TypeOK
<1>2. /\ mq' \in [Ends -> QueueType]
      /\ \A g \in Ends : QueueOK(mq'[g])
      /\ mq'[e] = TakeFilled(mq[e])
      /\ \A g \in Ends : g # e => mq'[g] = mq[g]
  BY <1>1, OneQueue DEF get_msg
<1>3. TypeOK'
  BY <1>2 DEF get_msg, MsgInv, TypeOK
<1>4. mq'[e].free = mq[e].free
  BY <1>1, <1>2, TakeFields
<1>5. BlockedMeansFull'
  BY <1>2, <1>4, PeerFacts DEF get_msg, MsgInv, BlockedMeansFull
<1>6. BothConnected'
  BY DEF get_msg, MsgInv, BothConnected
<1> QED BY <1>2, <1>3, <1>5, <1>6 DEF MsgInv

LEMMA PutInv ==
  ASSUME MsgInv, NEW e \in Ends, NEW i \in Items, put_msg(e, i)
  PROVE  MsgInv'
<1>1. QueueOK(PutRead(mq[e], i)) /\ blocked \in [Ends -> BOOLEAN]
      /\ unblocked \in [Ends -> BOOLEAN]
  BY PutOK DEF MsgInv, put_msg, TypeOK
<1>2. /\ mq' \in [Ends -> QueueType]
      /\ \A g \in Ends : QueueOK(mq'[g])
      /\ \A g \in Ends : g # e => mq'[g] = mq[g]
  BY <1>1, OneQueue DEF put_msg
<1>3. /\ blocked' = [blocked EXCEPT ![Peer(e)] = FALSE]
      /\ blocked' \in [Ends -> BOOLEAN]
  BY <1>1 DEF put_msg, ClearBlocked
<1>4. unblocked' \in [Ends -> BOOLEAN]
  BY <1>1, PeerFacts DEF put_msg, RaiseUnblocked
<1>5. TypeOK'
  BY <1>2, <1>3, <1>4 DEF put_msg, MsgInv, TypeOK
<1>6. ASSUME NEW g \in Ends, blocked'[g]  PROVE  mq'[Peer(g)].free = <<>>
  <2>1. g # Peer(e) /\ blocked[g]
    BY <1>1, <1>3, <1>6, PeerFacts
  <2>2. Peer(g) # e /\ Peer(g) \in Ends
    BY <2>1, PeerFacts
  <2> QED BY <1>2, <2>1, <2>2 DEF MsgInv, BlockedMeansFull
<1>7. BothConnected'
  BY DEF put_msg, MsgInv, BothConnected
<1> QED BY <1>2, <1>5, <1>6, <1>7 DEF MsgInv, BlockedMeansFull

(* Steps that touch neither a queue nor the blocked flags.                 *)
LEMMA OtherInv ==
  ASSUME MsgInv, UNCHANGED <<mq, blocked>>, TypeOK', BothConnected'
  PROVE  MsgInv'
BY DEF MsgInv, BlockedMeansFull

LEMMA MsgStepInv == MsgInv /\ [Next]_vars => MsgInv'
<1> SUFFICES ASSUME MsgInv, [Next]_vars  PROVE  MsgInv'
  OBVIOUS
<1>1. CASE UNCHANGED vars
  BY <1>1, OtherInv DEF vars, MsgInv, TypeOK, BothConnected
<1>2. ASSUME NEW e \in Ends, NEW m \in Msgs, send_msg(e, m)  PROVE  MsgInv'
  BY <1>2, SendInv
<1>3. ASSUME NEW e \in Ends, get_msg(e)  PROVE  MsgInv'
  BY <1>3, GetInv
<1>4. ASSUME NEW e \in Ends, NEW i \in Items, read_msg(e, i)  PROVE  MsgInv'
  <2>1. mq[e].buf[i] \in Msgs \cup {NoMsg}
    BY QueueFields DEF MsgInv, TypeOK
  <2>2. TypeOK'
    BY <1>4, <2>1 DEF read_msg, MsgInv, TypeOK
  <2> QED BY <1>4, <2>2, OtherInv DEF read_msg, MsgInv, BothConnected
<1>5. ASSUME NEW e \in Ends, NEW i \in Items, put_msg(e, i)  PROVE  MsgInv'
  BY <1>5, PutInv
<1>6. ASSUME NEW e \in Ends, WaitPoll(e)  PROVE  MsgInv'
  <2>1. TypeOK'
    BY <1>6 DEF WaitPoll, Poll, MsgInv, TypeOK
  <2> QED BY <1>6, <2>1, OtherInv DEF WaitPoll, MsgInv, BothConnected
<1>7. ASSUME NEW e \in Ends, WaitFinish(e)  PROVE  MsgInv'
  <2>1. TypeOK'
    BY <1>7 DEF WaitFinish, MsgInv, TypeOK
  <2> QED BY <1>7, <2>1, OtherInv DEF WaitFinish, MsgInv, BothConnected
<1>8. ASSUME NEW e \in Ends, close(e)  PROVE  MsgInv'
  <2>1. TypeOK'
    BY <1>8 DEF close, MsgInv, TypeOK
  <2>2. BothConnected'
    BY <1>8 DEF close, MsgInv, BothConnected
  <2> QED BY <1>8, <2>1, <2>2, OtherInv DEF close
<1> QED BY <1>1, <1>2, <1>3, <1>4, <1>5, <1>6, <1>7, <1>8 DEF Next

LEMMA MsgInvHolds == Spec => []MsgInv
BY MsgInitInv, MsgStepInv, PTL DEF Spec

(* Every item of a queue is on exactly one of its lists, once, and its     *)
(* state field names the list, whatever the number of buffers and however  *)
(* ipc_send_msg, ipc_get_msg and ipc_put_msg alternate.                    *)
THEOREM ItemsShared == Spec => []ItemsPartitioned
<1>1. MsgInv => ItemsPartitioned
  BY DEF MsgInv, QueueOK, Shared, ItemsPartitioned
<1> QED BY <1>1, MsgInvHolds, PTL

(* A channel is marked SEND_BLOCKED only while its peer has no free        *)
(* buffer: ipc_put_msg never leaves a refused sender without its event.    *)
THEOREM BlockedJustified == Spec => []BlockedMeansFull
<1>1. MsgInv => BlockedMeansFull
  BY DEF MsgInv
<1> QED BY <1>1, MsgInvHolds, PTL

-----------------------------------------------------------------------------
(* The refinement of MsgFifo.                                              *)

(* The ids that were handed out.                                           *)
HeldSet(q) == {i \in Items : HeldOf(q)[i] # NoMsg}

(* What is held is what was handed out.                                    *)
LEMMA HeldMeansRead ==
  ASSUME NEW q, QueueOK(q)
  PROVE  HeldSet(q) = {i \in Items : q.item[i] = "READ"}
BY IpcMsgAssumption DEF QueueOK, Whole, HeldSet, HeldOf

LEMMA QueueOfSeq ==
  ASSUME NEW q, QueueOK(q)
  PROVE  /\ QueueOf(q) \in Seq(Msgs) /\ Len(QueueOf(q)) = Len(q.filled)
         /\ Len(q.filled) \in Nat
         /\ \A k \in 1..Len(q.filled) :
              /\ q.filled[k] \in Items /\ q.filled[k] \in Elems(q.filled)
              /\ q.item[q.filled[k]] = "FILLED"
              /\ QueueOf(q)[k] = q.buf[q.filled[k]]
<1>1. q.filled \in Seq(Items)
  BY QueueFields DEF QueueOK
<1>2. \A k \in 1..Len(q.filled) :
        q.filled[k] \in Items /\ q.filled[k] \in Elems(q.filled)
  BY <1>1 DEF Elems
<1>3. \A k \in 1..Len(q.filled) : q.item[q.filled[k]] = "FILLED"
  BY <1>2 DEF QueueOK, Shared
<1>4. QueueOf(q) \in [1..Len(q.filled) -> Msgs] /\ Len(q.filled) \in Nat
  BY <1>1, <1>2, <1>3 DEF QueueOf, QueueOK, Whole
<1> QED BY <1>2, <1>3, <1>4 DEF QueueOf

(* A free item leaves room: the messages on the list and in the user's     *)
(* hands are fewer than the buffers.                                       *)
LEMMA RoomLeft ==
  ASSUME NEW q, QueueOK(q), q.free # <<>>
  PROVE  Len(QueueOf(q)) + Cardinality(HeldSet(q)) < Cardinality(Items)
<1> DEFINE F == Elems(q.filled)
           R == HeldSet(q)
<1>1. /\ q.filled \in Seq(Items) /\ q.free \in Seq(Items)
      /\ NoDup(q.filled) /\ NoDup(q.free)
  BY QueueFields DEF QueueOK, Shared
<1>2. Head(q.free) \in Items /\ q.item[Head(q.free)] = "FREE"
  BY <1>1, TailList DEF QueueOK, Shared
<1>3. IsFiniteSet(Items)
  <2>1. 0 \in Int /\ NumItems - 1 \in Int
    BY IpcMsgAssumption
  <2> QED BY <2>1, FS_Interval DEF Items
<1>4. IsFiniteSet(F) /\ Cardinality(F) = Len(q.filled)
  <2>1. q.filled \in Bijection(1..Len(q.filled), F)
    BY <1>1 DEF Bijection, Injection, Surjection, IsInjective, NoDup, Elems
  <2>2. IsFiniteSet(1..Len(q.filled)) /\ Cardinality(1..Len(q.filled)) = Len(q.filled)
    BY <1>1, FS_Interval
  <2> QED BY <2>1, <2>2, FS_Bijection DEF ExistsBijection
<1>5. F \subseteq Items /\ \A i \in F : q.item[i] = "FILLED"
  <2>1. F \subseteq Items
    BY <1>1 DEF Elems
  <2> QED BY <2>1 DEF QueueOK, Shared
<1>6. R \subseteq Items /\ \A i \in R : q.item[i] = "READ"
  BY HeldMeansRead
<1> HIDE DEF F, R
<1>7. IsFiniteSet(R)
  BY <1>3, <1>6, FS_Subset
<1>8. F \cap R = {} /\ F \cup R \in SUBSET Items /\ Head(q.free) \notin F \cup R
  BY <1>2, <1>5, <1>6
<1>9. Cardinality(F \cup R) = Cardinality(F) + Cardinality(R)
  <2>1. Cardinality(F \cap R) = 0
    BY <1>8, FS_EmptySet
  <2>2. Cardinality(F) \in Nat /\ Cardinality(R) \in Nat
    BY <1>4, <1>7, FS_CardinalityType
  <2>3. Cardinality(F \cup R) = Cardinality(F) + Cardinality(R) - Cardinality(F \cap R)
    BY <1>4, <1>7, FS_Union
  <2> QED BY <2>1, <2>2, <2>3
<1>10. Cardinality(F \cup R) < Cardinality(Items)
  <2>1. /\ Cardinality(F \cup R) <= Cardinality(Items)
        /\ Cardinality(F \cup R) # Cardinality(Items)
    BY <1>2, <1>3, <1>8, FS_Subset
  <2>2. Cardinality(Items) \in Nat /\ Cardinality(F \cup R) \in Nat
    BY <1>3, <1>8, FS_Subset, FS_CardinalityType
  <2> QED BY <2>1, <2>2
<1> QED BY <1>4, <1>9, <1>10, QueueOfSeq DEF F, R

(* What the operations do to the queue that the users see.                 *)
LEMMA FillSeen ==
  ASSUME NEW q, QueueOK(q), q.free # <<>>, NEW m \in Msgs
  PROVE  /\ QueueOf(Fill(q, m)) = Append(QueueOf(q), m)
         /\ HeldOf(Fill(q, m)) = HeldOf(q)
<1> DEFINE i == Head(q.free)
           d == Fill(q, m)
<1>1. /\ d.filled = Append(q.filled, i)
      /\ d.item = [q.item EXCEPT ![i] = "FILLED"]
      /\ d.buf = [q.buf EXCEPT ![i] = m]
  BY FillFields DEF QueueOK
<1>2. /\ q.filled \in Seq(Items) /\ q.free \in Seq(Items) /\ NoDup(q.free)
      /\ q.item \in [Items -> ItemStates]
      /\ q.buf \in [Items -> Msgs \cup {NoMsg}]
  BY QueueFields DEF QueueOK, Shared
<1>3. i \in Items /\ q.item[i] = "FREE"
  BY <1>2, TailList DEF QueueOK, Shared
<1>4. QueueOK(d)
  BY FillOK
<1> HIDE DEF d, i
<1>5. HeldOf(d) = HeldOf(q)
  BY <1>1, <1>2, <1>3 DEF HeldOf
<1>6. /\ QueueOf(d) \in Seq(Msgs) /\ Append(QueueOf(q), m) \in Seq(Msgs)
      /\ Len(QueueOf(d)) = Len(q.filled) + 1
      /\ Len(Append(QueueOf(q), m)) = Len(q.filled) + 1
      /\ Len(q.filled) \in Nat /\ Len(d.filled) = Len(q.filled) + 1
  BY <1>1, <1>2, <1>4, QueueOfSeq
<1>7. ASSUME NEW k \in 1..(Len(q.filled) + 1)
      PROVE  QueueOf(d)[k] = Append(QueueOf(q), m)[k]
  <2>1. QueueOf(d)[k] = d.buf[d.filled[k]]
    BY <1>6, <1>4, QueueOfSeq
  <2>2. CASE k = Len(q.filled) + 1
    <3>1. d.filled[k] = i
      BY <1>1, <1>2, <2>2
    <3>2. Append(QueueOf(q), m)[k] = m
      BY <2>2, QueueOfSeq
    <3> QED BY <1>1, <1>2, <1>3, <2>1, <3>1, <3>2
  <2>3. CASE k \in 1..Len(q.filled)
    <3>1. d.filled[k] = q.filled[k]
      BY <1>1, <1>2, <2>3
    <3>2. Append(QueueOf(q), m)[k] = q.buf[q.filled[k]]
      BY <2>3, QueueOfSeq
    <3>3. q.filled[k] # i /\ q.filled[k] \in Items
      BY <1>3, <2>3, QueueOfSeq
    <3> QED BY <1>1, <1>2, <2>1, <3>1, <3>2, <3>3
  <2> QED BY <1>6, <2>2, <2>3
<1>8. QueueOf(d) = Append(QueueOf(q), m)
  BY <1>6, <1>7
<1> QED BY <1>5, <1>8 DEF d

LEMMA ScribbleSeen ==
  ASSUME NEW q, QueueOK(q), q.free # <<>>
  PROVE  /\ QueueOf(Scribble(q)) = QueueOf(q)
         /\ HeldOf(Scribble(q)) = HeldOf(q)
<1> DEFINE i == Head(q.free)
           d == Scribble(q)
<1>1. /\ d.filled = q.filled /\ d.item = q.item
      /\ d.buf = [q.buf EXCEPT ![i] = NoMsg]
  BY ScribbleFields DEF QueueOK
<1>2. /\ q.filled \in Seq(Items) /\ q.free \in Seq(Items) /\ NoDup(q.free)
      /\ q.buf \in [Items -> Msgs \cup {NoMsg}]
  BY QueueFields DEF QueueOK, Shared
<1>3. i \in Items /\ q.item[i] = "FREE"
  BY <1>2, TailList DEF QueueOK, Shared
<1> HIDE DEF d, i
<1>4. HeldOf(d) = HeldOf(q)
  BY <1>1, <1>2, <1>3 DEF HeldOf
<1>5. \A k \in 1..Len(q.filled) : d.buf[q.filled[k]] = q.buf[q.filled[k]]
  BY <1>1, <1>2, <1>3, QueueOfSeq
<1>6. QueueOf(d) = QueueOf(q)
  BY <1>1, <1>5 DEF QueueOf
<1> QED BY <1>4, <1>6 DEF d

LEMMA TakeSeen ==
  ASSUME NEW q, QueueOK(q), q.filled # <<>>
  PROVE  LET i == Head(q.filled) IN
         /\ i \in Items \ HeldSet(q)
         /\ QueueOf(q) # <<>>
         /\ QueueOf(TakeFilled(q)) = Tail(QueueOf(q))
         /\ HeldOf(TakeFilled(q)) = [HeldOf(q) EXCEPT ![i] = Head(QueueOf(q))]
<1> DEFINE i == Head(q.filled)
           d == TakeFilled(q)
<1>1. /\ d.filled = Tail(q.filled)
      /\ d.item = [q.item EXCEPT ![i] = "READ"]
      /\ d.buf = q.buf
  BY TakeFields DEF QueueOK
<1>2. /\ q.filled \in Seq(Items) /\ NoDup(q.filled)
      /\ q.item \in [Items -> ItemStates]
      /\ q.buf \in [Items -> Msgs \cup {NoMsg}]
  BY QueueFields DEF QueueOK, Shared
<1>3. i \in Items /\ q.item[i] = "FILLED"
  BY <1>2, TailList DEF QueueOK, Shared
<1>4. QueueOK(d)
  BY TakeOK
<1>5. /\ Len(q.filled) \in Nat \ {0} /\ i = q.filled[1]
      /\ Len(d.filled) = Len(q.filled) - 1
      /\ \A k \in 1..(Len(q.filled) - 1) : d.filled[k] = q.filled[k + 1]
  BY <1>1, <1>2
<1>6. /\ QueueOf(q) \in Seq(Msgs) /\ Len(QueueOf(q)) = Len(q.filled)
      /\ \A k \in 1..Len(q.filled) : QueueOf(q)[k] = q.buf[q.filled[k]]
  BY QueueOfSeq
<1>7. /\ QueueOf(d) \in Seq(Msgs) /\ Len(QueueOf(d)) = Len(d.filled)
      /\ \A k \in 1..Len(d.filled) : QueueOf(d)[k] = d.buf[d.filled[k]]
  BY <1>4, QueueOfSeq
<1>8. QueueOf(q) # <<>> /\ Head(QueueOf(q)) = q.buf[i]
  BY <1>5, <1>6
<1>9. i \in Items \ HeldSet(q)
  BY <1>3, HeldMeansRead
<1> HIDE DEF d, i
<1>10. HeldOf(d) = [HeldOf(q) EXCEPT ![i] = Head(QueueOf(q))]
  BY <1>1, <1>2, <1>3, <1>8 DEF HeldOf
<1>11. QueueOf(d) = Tail(QueueOf(q))
  <2>1. /\ Tail(QueueOf(q)) \in Seq(Msgs)
        /\ Len(Tail(QueueOf(q))) = Len(q.filled) - 1
        /\ \A k \in 1..(Len(q.filled) - 1) : Tail(QueueOf(q))[k] = QueueOf(q)[k + 1]
    BY <1>5, <1>6, <1>8
  <2>2. ASSUME NEW k \in 1..(Len(q.filled) - 1)
        PROVE  QueueOf(d)[k] = Tail(QueueOf(q))[k]
    <3>1. k + 1 \in 1..Len(q.filled)
      BY <1>5
    <3> QED BY <1>1, <1>5, <1>6, <1>7, <2>1, <3>1
  <2>3. Len(QueueOf(d)) = Len(q.filled) - 1 /\ QueueOf(d) \in Seq(Msgs)
    BY <1>5, <1>7
  <2> DEFINE A == QueueOf(d)
             B == Tail(QueueOf(q))
             n == Len(q.filled) - 1
  <2>4. /\ A \in Seq(Msgs) /\ B \in Seq(Msgs) /\ Len(A) = n /\ Len(B) = n
        /\ \A k \in 1..n : A[k] = B[k]
    BY <2>1, <2>2, <2>3
  <2> HIDE DEF A, B, n
  <2>5. A = B
    BY <2>4
  <2> QED BY <2>5 DEF A, B
<1> QED BY <1>8, <1>9, <1>10, <1>11 DEF d, i

LEMMA PutSeen ==
  ASSUME NEW q, QueueOK(q), NEW i \in Items, q.item[i] = "READ"
  PROVE  /\ i \in HeldSet(q)
         /\ QueueOf(PutRead(q, i)) = QueueOf(q)
         /\ HeldOf(PutRead(q, i)) = [HeldOf(q) EXCEPT ![i] = NoMsg]
<1> DEFINE d == PutRead(q, i)
<1>1. /\ d.filled = q.filled
      /\ d.item = [q.item EXCEPT ![i] = "FREE"]
      /\ d.buf = q.buf
  BY PutFields DEF QueueOK
<1>2. q.item \in [Items -> ItemStates]
  BY QueueFields DEF QueueOK
<1>3. i \in HeldSet(q)
  BY HeldMeansRead
<1> HIDE DEF d
<1>4. HeldOf(d) = [HeldOf(q) EXCEPT ![i] = NoMsg]
  BY <1>1, <1>2 DEF HeldOf
<1>5. QueueOf(d) = QueueOf(q)
  BY <1>1 DEF QueueOf
<1> QED BY <1>3, <1>4, <1>5 DEF d

(* MsgFifo counts with the Cardinality of FiniteSets.                      *)
LEMMA FifoCardinality == \A S : Fifo!Cardinality(S) = Cardinality(S)
BY DEF Fifo!Cardinality, Cardinality

(* The two functions of the mapping when one queue is replaced by d.       *)
LEMMA OneSeen ==
  ASSUME NEW f \in Ends, NEW d, mq \in [Ends -> QueueType],
         mq' = [mq EXCEPT ![f] = d]
  PROVE  /\ fifoQueue' = [fifoQueue EXCEPT ![f] = QueueOf(d)]
         /\ fifoHeld' = [fifoHeld EXCEPT ![f] = HeldOf(d)]
         /\ fifoQueue[f] = QueueOf(mq[f]) /\ fifoHeld[f] = HeldOf(mq[f])
         /\ Fifo!HeldIds(f) = HeldSet(mq[f])
<1>1. fifoQueue' = [fifoQueue EXCEPT ![f] = QueueOf(d)]
  BY DEF fifoQueue
<1>2. fifoHeld' = [fifoHeld EXCEPT ![f] = HeldOf(d)]
  BY DEF fifoHeld
<1>3. fifoQueue[f] = QueueOf(mq[f]) /\ fifoHeld[f] = HeldOf(mq[f])
  BY DEF fifoQueue, fifoHeld
<1> QED BY <1>1, <1>2, <1>3 DEF Fifo!HeldIds, HeldSet

LEMMA FifoInit == Init => Fifo!Init
<1> SUFFICES ASSUME Init  PROVE  Fifo!Init
  OBVIOUS
<1>1. \A e \in Ends : QueueOf(mq[e]) = <<>>
  BY DEF Init, ipc_msg_queue_create, QueueOf
<1>2. \A e \in Ends : HeldOf(mq[e]) = [i \in Items |-> NoMsg]
  BY DEF Init, ipc_msg_queue_create, HeldOf
<1> QED BY <1>1, <1>2 DEF Init, Fifo!Init, fifoQueue, fifoHeld, fifoOpen

(* A message that was sent while both ends are there is a Send; a refused  *)
(* one, or one whose copy failed, changes nothing that the users see.      *)
LEMMA SendFifo ==
  ASSUME MsgInv, NEW e \in Ends, NEW m \in Msgs, send_msg(e, m)
  PROVE  (\E f \in Ends : Fifo!Send(f, m)) \/ UNCHANGED Fifo!fifoVars
<1> DEFINE f == Peer(e)
<1>1. f \in Ends /\ mq \in [Ends -> QueueType] /\ QueueOK(mq[f])
  BY PeerFacts DEF MsgInv, TypeOK
<1>2. UNCHANGED <<got, fifoOpen>>
  BY DEF send_msg, fifoOpen
<1>3. CASE UNCHANGED mq
  BY <1>2, <1>3 DEF fifoQueue, fifoHeld, Fifo!fifoVars
<1>4. CASE mq[f].free # <<>> /\ mq' = [mq EXCEPT ![f] = Scribble(@)]
  <2>1. /\ fifoQueue' = [fifoQueue EXCEPT ![f] = QueueOf(Scribble(mq[f]))]
        /\ fifoHeld' = [fifoHeld EXCEPT ![f] = HeldOf(Scribble(mq[f]))]
        /\ fifoQueue[f] = QueueOf(mq[f]) /\ fifoHeld[f] = HeldOf(mq[f])
    BY <1>1, <1>4, OneSeen
  <2>2. /\ QueueOf(Scribble(mq[f])) = QueueOf(mq[f])
        /\ HeldOf(Scribble(mq[f])) = HeldOf(mq[f])
    BY <1>1, <1>4, ScribbleSeen
  <2>3. fifoQueue' = fifoQueue /\ fifoHeld' = fifoHeld
    BY <2>1, <2>2 DEF fifoQueue, fifoHeld
  <2> QED BY <1>2, <2>3 DEF Fifo!fifoVars
<1>5. CASE mq[f].free # <<>> /\ mq' = [mq EXCEPT ![f] = Fill(@, m)]
  <2>1. /\ fifoQueue' = [fifoQueue EXCEPT ![f] = QueueOf(Fill(mq[f], m))]
        /\ fifoHeld' = [fifoHeld EXCEPT ![f] = HeldOf(Fill(mq[f], m))]
        /\ fifoQueue[f] = QueueOf(mq[f]) /\ fifoHeld[f] = HeldOf(mq[f])
        /\ Fifo!HeldIds(f) = HeldSet(mq[f])
    BY <1>1, <1>5, OneSeen
  <2>2. /\ QueueOf(Fill(mq[f], m)) = Append(QueueOf(mq[f]), m)
        /\ HeldOf(Fill(mq[f], m)) = HeldOf(mq[f])
    BY <1>1, <1>5, FillSeen
  <2>3. fifoHeld' = fifoHeld
    BY <2>1, <2>2 DEF fifoHeld
  <2>4. Len(fifoQueue[f]) + Cardinality(Fifo!HeldIds(f)) < Cardinality(Items)
    BY <1>1, <1>5, <2>1, RoomLeft
  <2>5. fifoOpen
    BY DEF send_msg, MsgInv, BothConnected, fifoOpen
  <2>6. Fifo!Send(f, m)
    BY <1>2, <2>1, <2>2, <2>3, <2>4, <2>5, FifoCardinality DEF Fifo!Send
  <2> QED BY <1>1, <2>6
<1> QED BY <1>3, <1>4, <1>5 DEF send_msg

LEMMA GetFifo ==
  ASSUME MsgInv, NEW e \in Ends, get_msg(e)
  PROVE  Fifo!Take(e)
<1>1. /\ mq \in [Ends -> QueueType] /\ QueueOK(mq[e]) /\ mq[e].filled # <<>>
      /\ mq' = [mq EXCEPT ![e] = TakeFilled(mq[e])]
  BY DEF MsgInv, TypeOK, get_msg
<1>2. UNCHANGED <<got, fifoOpen>>
  BY DEF get_msg, fifoOpen
<1>3. /\ fifoQueue' = [fifoQueue EXCEPT ![e] = QueueOf(TakeFilled(mq[e]))]
      /\ fifoHeld' = [fifoHeld EXCEPT ![e] = HeldOf(TakeFilled(mq[e]))]
      /\ fifoQueue[e] = QueueOf(mq[e]) /\ fifoHeld[e] = HeldOf(mq[e])
      /\ Fifo!HeldIds(e) = HeldSet(mq[e])
  BY <1>1, OneSeen
<1> DEFINE i == Head(mq[e].filled)
<1>4. /\ i \in Items \ HeldSet(mq[e])
      /\ QueueOf(mq[e]) # <<>>
      /\ QueueOf(TakeFilled(mq[e])) = Tail(QueueOf(mq[e]))
      /\ HeldOf(TakeFilled(mq[e])) = [HeldOf(mq[e]) EXCEPT ![i] = Head(QueueOf(mq[e]))]
  BY <1>1, TakeSeen
<1> HIDE DEF i
<1>5. fifoHeld' = [fifoHeld EXCEPT ![e][i] = Head(fifoQueue[e])]
  BY <1>3, <1>4
<1> QED BY <1>2, <1>3, <1>4, <1>5 DEF Fifo!Take

LEMMA PutFifo ==
  ASSUME MsgInv, NEW e \in Ends, NEW i \in Items, put_msg(e, i)
  PROVE  Fifo!Put(e)
<1>1. /\ mq \in [Ends -> QueueType] /\ QueueOK(mq[e]) /\ mq[e].item[i] = "READ"
      /\ mq' = [mq EXCEPT ![e] = PutRead(mq[e], i)]
  BY DEF MsgInv, TypeOK, put_msg
<1>2. UNCHANGED <<got, fifoOpen>>
  BY DEF put_msg, fifoOpen
<1>3. /\ fifoQueue' = [fifoQueue EXCEPT ![e] = QueueOf(PutRead(mq[e], i))]
      /\ fifoHeld' = [fifoHeld EXCEPT ![e] = HeldOf(PutRead(mq[e], i))]
      /\ fifoQueue[e] = QueueOf(mq[e]) /\ fifoHeld[e] = HeldOf(mq[e])
      /\ Fifo!HeldIds(e) = HeldSet(mq[e])
  BY <1>1, OneSeen
<1>4. /\ i \in HeldSet(mq[e])
      /\ QueueOf(PutRead(mq[e], i)) = QueueOf(mq[e])
      /\ HeldOf(PutRead(mq[e], i)) = [HeldOf(mq[e]) EXCEPT ![i] = NoMsg]
  BY <1>1, PutSeen
<1>5. fifoHeld' = [fifoHeld EXCEPT ![e][i] = NoMsg]
  BY <1>3, <1>4
<1>6. fifoQueue' = fifoQueue
  BY <1>3, <1>4 DEF fifoQueue
<1> QED BY <1>2, <1>3, <1>4, <1>5, <1>6 DEF Fifo!Put

LEMMA ReadFifo ==
  ASSUME MsgInv, NEW e \in Ends, NEW i \in Items, read_msg(e, i)
  PROVE  Fifo!Read(e)
<1>1. QueueOK(mq[e]) /\ mq[e].item[i] = "READ"
  BY DEF MsgInv, read_msg
<1>2. fifoHeld[e][i] = mq[e].buf[i] /\ i \in Fifo!HeldIds(e)
  <2>1. i \in HeldSet(mq[e])
    BY <1>1, HeldMeansRead
  <2> QED BY <1>1, <2>1 DEF fifoHeld, HeldOf, HeldSet, Fifo!HeldIds
<1>3. UNCHANGED <<fifoQueue, fifoHeld, fifoOpen>>
  BY DEF read_msg, fifoQueue, fifoHeld, fifoOpen
<1> QED BY <1>2, <1>3 DEF read_msg, Fifo!Read

LEMMA CloseFifo ==
  ASSUME NEW e \in Ends, close(e)
  PROVE  Fifo!Close
<1>1. ~fifoOpen'
  BY DEF close, fifoOpen
<1>2. UNCHANGED <<fifoQueue, fifoHeld, got>>
  BY DEF close, fifoQueue, fifoHeld
<1> QED BY <1>1, <1>2 DEF Fifo!Close

(* Every step of the two ends is a step of the queues that MsgFifo         *)
(* promises, or one that its users do not see.                             *)
LEMMA FifoStep == MsgInv /\ [Next]_vars => [Fifo!Next]_(Fifo!fifoVars)
<1> SUFFICES ASSUME MsgInv, [Next]_vars
             PROVE  Fifo!Next \/ UNCHANGED Fifo!fifoVars
  OBVIOUS
<1>1. CASE UNCHANGED <<mq, state, got>>
  BY <1>1 DEF Fifo!fifoVars, fifoQueue, fifoHeld, fifoOpen
<1>2. ASSUME NEW e \in Ends, NEW m \in Msgs, send_msg(e, m)
      PROVE  Fifo!Next \/ UNCHANGED Fifo!fifoVars
  BY <1>2, SendFifo DEF Fifo!Next
<1>3. ASSUME NEW e \in Ends, get_msg(e)  PROVE  Fifo!Next
  BY <1>3, GetFifo DEF Fifo!Next
<1>4. ASSUME NEW e \in Ends, NEW i \in Items, read_msg(e, i)  PROVE  Fifo!Next
  BY <1>4, ReadFifo DEF Fifo!Next
<1>5. ASSUME NEW e \in Ends, NEW i \in Items, put_msg(e, i)  PROVE  Fifo!Next
  BY <1>5, PutFifo DEF Fifo!Next
<1>6. ASSUME NEW e \in Ends, WaitPoll(e) \/ WaitFinish(e)
      PROVE  UNCHANGED <<mq, state, got>>
  BY <1>6 DEF WaitPoll, WaitFinish
<1>7. ASSUME NEW e \in Ends, close(e)  PROVE  Fifo!Next
  BY <1>7, CloseFifo DEF Fifo!Next
<1> QED BY <1>1, <1>2, <1>3, <1>4, <1>5, <1>6, <1>7 DEF Next, vars

(* A connected pair of channels is a pair of first-in first-out queues:    *)
(* what ipc_send_msg accepted, ipc_get_msg returns once, in order and      *)
(* unchanged, for every number of buffers and every set of messages.       *)
THEOREM QueuesAreFifo == Spec => ImplementsFifo
BY FifoInit, FifoStep, MsgInvHolds, PTL DEF Spec, ImplementsFifo, Fifo!Spec
=============================================================================
