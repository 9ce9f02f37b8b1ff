--------------------------- MODULE TipcLinkProofs ---------------------------
(* Proofs about the secure IPC device and the Linux driver, for every size  *)
(* of the rings and any number of files, slots and connections.             *)
EXTENDS TipcLink, TLAPS, FiniteSetTheorems, WellFoundedInduction,
        NaturalsInduction

----------------------------------------------------------------------------
(* Numbers and sequences.                                                   *)

(* The first free slot or address is a free one.                            *)
LEMMA LeastIn ==
  ASSUME NEW S \in SUBSET Nat, S # {}
  PROVE  Least(S) \in S /\ \A u \in S : Least(S) <= u
<1> DEFINE R == {ss \in Nat \X Nat : ss[1] < ss[2]}
<1>1. IsWellFoundedOn(R, Nat)
  BY NatLessThanWellFounded DEF OpToRel
<1>2. \A s, u \in Nat : u < s => <<u, s>> \in R
  OBVIOUS
<1> HIDE DEF R
<1>3. PICK s \in S : \A u \in S : ~ (<<u, s>> \in R)
  BY <1>1, WFMin
<1>4. \A u \in S : s <= u
  <2> TAKE u \in S
  <2>1. s \in Nat /\ u \in Nat /\ ~(u < s)
    BY <1>2, <1>3
  <2>2. QED BY <2>1
<1>5. QED BY <1>4 DEF Least

(* The first message is taken.                                              *)
LEMMA TailFacts ==
  ASSUME NEW S, NEW q \in Seq(S), q # <<>>
  PROVE  /\ Tail(q) \in Seq(S) /\ Len(Tail(q)) = Len(q) - 1 /\ Len(q) \in Nat
         /\ Len(q) > 0 /\ Head(q) = q[1] /\ q[1] \in S
         /\ \A i \in 1..Len(q) - 1 : Tail(q)[i] = q[i + 1]
OBVIOUS

(* A message is added.                                                      *)
LEMMA AppendFacts ==
  ASSUME NEW S, NEW q \in Seq(S), NEW m \in S
  PROVE  /\ Append(q, m) \in Seq(S) /\ Len(Append(q, m)) = Len(q) + 1 /\ Len(q) \in Nat
         /\ \A i \in 1..Len(q) : Append(q, m)[i] = q[i]
         /\ Append(q, m)[Len(q) + 1] = m
OBVIOUS

(* What is found in a ring after a message was taken.                       *)
LEMMA InTail ==
  ASSUME NEW S, NEW q \in Seq(S), q # <<>>, NEW types, NEW k
  PROVE  /\ In(Tail(q), types, k) => In(q, types, k)
         /\ In(q, types, k) => In(Tail(q), types, k)
                                \/ (q[1].type \in types /\ q[1].id = k)
<1>1. /\ Len(Tail(q)) = Len(q) - 1 /\ Len(q) \in Nat
      /\ \A i \in 1..Len(q) - 1 : Tail(q)[i] = q[i + 1]
  BY TailFacts
<1>2. ASSUME In(Tail(q), types, k) PROVE In(q, types, k)
  <2>1. PICK i \in 1..Len(Tail(q)) : Tail(q)[i].type \in types /\ Tail(q)[i].id = k
    BY <1>2 DEF In
  <2>2. i + 1 \in 1..Len(q) /\ i \in 1..Len(q) - 1
    BY <1>1
  <2>3. QED BY <1>1, <2>1, <2>2 DEF In
<1>3. ASSUME In(q, types, k), ~(q[1].type \in types /\ q[1].id = k)
      PROVE  In(Tail(q), types, k)
  <2>1. PICK i \in 1..Len(q) : q[i].type \in types /\ q[i].id = k
    BY <1>3 DEF In
  <2>2. i # 1
    BY <1>3, <2>1
  <2>3. i - 1 \in 1..Len(q) - 1 /\ (i - 1) + 1 = i
    BY <1>1, <2>2
  <2>4. Tail(q)[i - 1] = q[i]
    BY <1>1, <2>3
  <2>5. QED BY <1>1, <2>1, <2>3, <2>4 DEF In
<1>4. QED BY <1>2, <1>3

(* What is found in a ring after a message was added.                       *)
LEMMA InAppend ==
  ASSUME NEW S, NEW q \in Seq(S), NEW m \in S, NEW types, NEW k
  PROVE  In(Append(q, m), types, k)
         <=> In(q, types, k) \/ (m.type \in types /\ m.id = k)
<1>1. /\ Len(Append(q, m)) = Len(q) + 1 /\ Len(q) \in Nat
      /\ \A i \in 1..Len(q) : Append(q, m)[i] = q[i]
      /\ Append(q, m)[Len(q) + 1] = m
  BY AppendFacts
<1>2. 1..Len(q) + 1 = 1..Len(q) \cup {Len(q) + 1}
  BY <1>1
<1>3. In(Append(q, m), types, k) <=>
        \E i \in 1..Len(q) \cup {Len(q) + 1} :
           Append(q, m)[i].type \in types /\ Append(q, m)[i].id = k
  BY <1>1, <1>2 DEF In
<1>4. QED BY <1>1, <1>3 DEF In

----------------------------------------------------------------------------
(* Types.                                                                   *)

ThrFields == [pc : Pcs["rx"] \cup Pcs["tx"], chan : Conns \cup Slots \cup {0},
              ev : {"none", "ready", "msg", "hup"}, out : NsMsgs \cup {NoMsg}]

(* The places of each thread.                                               *)
LEMMA PcsFacts ==
  /\ Pcs["rx"] = {"wait", "get", "list", "signal", "exited", "send", "swait", "swoken"}
  /\ Pcs["tx"] = {"idle", "list", "event", "msgs", "exited", "send", "swait", "swoken"}
  /\ InSend = {"send", "swait", "swoken"}
  /\ Threads = {"rx", "tx"}
BY DEF Pcs, InSend, Threads

(* Addresses, slots and requests are counted from 1.                        *)
LEMMA Zero ==
  /\ 0 \notin Addrs /\ 0 \notin Conns /\ 0 \notin Slots
  /\ Addrs \subseteq Nat /\ Conns \subseteq Nat /\ Slots \subseteq Nat
  /\ Cardinality(Fds) \in Nat
<1>1. Cardinality(Fds) \in Nat
  BY FdsAssumption, FS_CardinalityType
<1>2. QED BY <1>1, RingsAssumption, TipcDevAssumption DEF Addrs, Conns, Slots

(* An endpoint is free or has an address and a channel.                     *)
LEMMA EptFacts ==
  ASSUME InTypes, NEW s \in Slots
  PROVE  /\ epts[s] \in Endpoints
         /\ epts[s] = NoEpt \/ (epts[s].remote \in Addrs /\ epts[s].chan \in Conns)
         /\ epts[s].chan = 0 <=> epts[s] = NoEpt
         /\ epts[s].remote = 0 <=> epts[s] = NoEpt
         /\ epts[s] = [remote |-> epts[s].remote, chan |-> epts[s].chan]
<1>1. epts[s] \in Endpoints
  BY DEF InTypes
<1>2. CASE epts[s] = NoEpt
  BY <1>1, <1>2 DEF NoEpt
<1>3. CASE epts[s] \in [remote : Addrs, chan : Conns]
  BY <1>1, <1>3, Zero DEF NoEpt
<1>4. QED BY <1>1, <1>2, <1>3 DEF Endpoints

(* A handle with a cookie leads to its endpoint.                            *)
LEMMA CookieFacts ==
  ASSUME InTypes, InHandles, NEW c \in Conns, chan[c].cookie # 0
  PROVE  /\ chan[c].listed /\ chan[c].cookie \in Slots
         /\ epts[chan[c].cookie].chan = c /\ epts[chan[c].cookie] # NoEpt
         /\ epts[chan[c].cookie].remote \in Addrs
         /\ Owned(c) /\ ~InList(c)
<1>1. chan[c] \in Channels
  BY DEF InTypes
<1>2. chan[c].cookie \in Slots
  BY <1>1 DEF Channels
<1>3. chan[c].listed /\ epts[chan[c].cookie].chan = c /\ Owned(c) /\ ~InList(c)
  BY DEF InHandles, Handle
<1>4. epts[chan[c].cookie] # NoEpt /\ epts[chan[c].cookie].remote \in Addrs
  BY <1>2, <1>3, EptFacts, Zero
<1>5. QED BY <1>2, <1>3, <1>4

(* The thread that sends its next message, or is done with one.             *)
LEMMA ThreadTypes ==
  ASSUME InThreads
  PROVE  /\ thr \in [Threads -> ThrFields]
         /\ \A t \in Threads : thr[t] \in ThrFields /\ thr[t].pc \in Pcs[t]
         /\ thr["rx"] \in ThrFields /\ thr["rx"].pc \in Pcs["rx"]
         /\ thr["tx"] \in ThrFields /\ thr["tx"].pc \in Pcs["tx"]
BY PcsFacts DEF InThreads, ThrFields

(* A message of the device has its fields.                                  *)
LEMMA MsgType ==
  ASSUME NEW a \in Addrs, NEW s \in Slots \cup {0}, NEW k \in Conns,
         NEW ty \in {"accept", "refuse", "data", "disc"}
  PROVE  /\ Msg(ty, a, s, k) \in NsMsgs
         /\ Msg(ty, a, s, k).type = ty /\ Msg(ty, a, s, k).addr = a
         /\ Msg(ty, a, s, k).slot = s /\ Msg(ty, a, s, k).id = k
BY DEF Msg, NsMsgs, MsgsOf

(* What InThreads says of a value of the two threads.                       *)
RxOK(r) ==
  /\ r \in ThrFields /\ r.pc \in Pcs["rx"]
  /\ r.pc \in InSend => r.out \in NsMsgs /\ r.out.type = "refuse"
TxOK(x) ==
  /\ x \in ThrFields /\ x.pc \in Pcs["tx"]
  /\ x.pc \in {"event", "msgs"} \cup InSend => x.chan \in Conns
  /\ x.pc \in {"idle", "list", "exited"} => x.chan = 0
  /\ x.pc \in {"msgs"} \cup InSend =>
       /\ x.out \in NsMsgs /\ x.out.id = x.chan /\ x.out.type # "refuse"
       /\ x.ev = "msg" <=> x.out.type = "data"
  /\ x.pc = "msgs" => x.ev = "msg"
ListOK(r) == r.pc = "list" => r.chan \in Slots /\ epts[r.chan] # NoEpt

(* The two forms say the same.                                              *)
LEMMA ThreadsSplit ==
  InThreads <=> /\ thr \in [Threads -> ThrFields]
                /\ RxOK(thr["rx"]) /\ TxOK(thr["tx"]) /\ ListOK(thr["rx"])
<1>1. InThreads => /\ thr \in [Threads -> ThrFields]
                   /\ RxOK(thr["rx"]) /\ TxOK(thr["tx"]) /\ ListOK(thr["rx"])
  BY PcsFacts DEF InThreads, ThrFields, RxOK, TxOK, ListOK, Speaks, At
<1>2. (/\ thr \in [Threads -> ThrFields]
       /\ RxOK(thr["rx"]) /\ TxOK(thr["tx"]) /\ ListOK(thr["rx"])) => InThreads
  BY PcsFacts DEF InThreads, ThrFields, RxOK, TxOK, ListOK, Speaks, At
<1>3. QED BY <1>1, <1>2

(* The same after a step.                                                   *)
LEMMA ThreadsSplitNext ==
  ASSUME thr' \in [Threads -> ThrFields],
         RxOK(thr'["rx"]), TxOK(thr'["tx"]),
         thr'["rx"].pc = "list" => thr'["rx"].chan \in Slots /\ epts'[thr'["rx"].chan] # NoEpt
  PROVE  InThreads'
  BY PcsFacts DEF InThreads, ThrFields, RxOK, TxOK, ListOK, Speaks, At

----------------------------------------------------------------------------
(* The threads of the device.                                               *)

RxIdle == {"wait", "get", "exited"}

(* A new activity.                                                          *)
LEMMA ThreadFields ==
  ASSUME NEW l \in Pcs["rx"] \cup Pcs["tx"]
  PROVE  /\ Thread(l) \in ThrFields /\ Thread(l).pc = l /\ Thread(l).chan = 0
BY DEF Thread, ThrFields

(* The rx thread goes on to event_wait.                                     *)
LEMMA RxNextFacts ==
  ASSUME InThreads, RxNext
  PROVE  /\ thr' \in [Threads -> ThrFields] /\ thr'["tx"] = thr["tx"]
         /\ RxOK(thr'["rx"]) /\ thr'["rx"].pc \in RxIdle
         /\ thr'["rx"].pc = AfterMsg
<1> DEFINE l == AfterMsg
<1>1. l \in RxIdle
  BY DEF RxIdle, AfterMsg
<1>2. thr' = [thr EXCEPT !["rx"] = Thread(l)] /\ thr \in [Threads -> ThrFields]
  BY ThreadTypes DEF RxNext
<1> HIDE DEF l
<1>3. Thread(l) \in ThrFields /\ Thread(l).pc = l
  BY <1>1, PcsFacts, ThreadFields DEF RxIdle
<1>4. thr' \in [Threads -> ThrFields] /\ thr'["tx"] = thr["tx"] /\ thr'["rx"] = Thread(l)
  BY <1>2, <1>3, PcsFacts
<1>5. RxOK(thr'["rx"])
  BY <1>1, <1>3, <1>4, PcsFacts DEF RxOK, RxIdle
<1>6. QED BY <1>1, <1>3, <1>4, <1>5 DEF l

(* A thread goes to another place.                                          *)
LEMMA GotoFacts ==
  ASSUME InThreads, NEW t \in Threads, NEW l \in Pcs[t], Goto(t, l)
  PROVE  /\ thr' \in [Threads -> ThrFields] /\ \A u \in Threads \ {t} : thr'[u] = thr[u]
         /\ thr'[t].pc = l /\ thr'[t].chan = thr[t].chan /\ thr'[t].ev = thr[t].ev
         /\ thr'[t].out = thr[t].out
<1>1. thr \in [Threads -> ThrFields] /\ thr[t] \in ThrFields /\ l \in Pcs["rx"] \cup Pcs["tx"]
  BY ThreadTypes, PcsFacts
<1>2. thr' = [thr EXCEPT ![t].pc = l]
  BY DEF Goto
<1>3. QED BY <1>1, <1>2 DEF ThrFields

(* The rx thread sends a refusal.                                           *)
LEMMA RxSendsFacts ==
  ASSUME InThreads, NEW m \in NsMsgs, m.type = "refuse", Sends("rx", m)
  PROVE  /\ thr' \in [Threads -> ThrFields] /\ thr'["tx"] = thr["tx"]
         /\ RxOK(thr'["rx"]) /\ thr'["rx"].pc = "send" /\ thr'["rx"].out = m
<1>1. thr \in [Threads -> ThrFields] /\ thr["rx"] \in ThrFields
  BY ThreadTypes
<1>2. thr' = [thr EXCEPT !["rx"].pc = "send", !["rx"].out = m]
  BY DEF Sends
<1>3. /\ thr' \in [Threads -> ThrFields] /\ thr'["tx"] = thr["tx"]
      /\ thr'["rx"].pc = "send" /\ thr'["rx"].out = m
  BY <1>1, <1>2, PcsFacts DEF ThrFields
<1>4. QED BY <1>3, PcsFacts DEF RxOK

(* The tx thread sends an answer.                                           *)
LEMMA TxSendsFacts ==
  ASSUME InThreads, At("tx", "event"), thr["tx"].ev # "msg",
         NEW m \in NsMsgs, m.type \in {"accept", "disc"}, m.id = thr["tx"].chan,
         Sends("tx", m)
  PROVE  /\ thr' \in [Threads -> ThrFields] /\ thr'["rx"] = thr["rx"]
         /\ TxOK(thr'["tx"]) /\ thr'["tx"].pc = "send" /\ thr'["tx"].out = m
         /\ thr'["tx"].chan = thr["tx"].chan
<1>1. thr \in [Threads -> ThrFields] /\ thr["tx"] \in ThrFields /\ TxOK(thr["tx"])
  BY ThreadTypes, ThreadsSplit
<1>2. thr' = [thr EXCEPT !["tx"].pc = "send", !["tx"].out = m]
  BY DEF Sends
<1>3. /\ thr' \in [Threads -> ThrFields] /\ thr'["rx"] = thr["rx"]
      /\ thr'["tx"].pc = "send" /\ thr'["tx"].out = m
      /\ thr'["tx"].chan = thr["tx"].chan /\ thr'["tx"].ev = thr["tx"].ev
  BY <1>1, <1>2, PcsFacts DEF ThrFields
<1>4. QED BY <1>1, <1>3, PcsFacts DEF TxOK, At

(* The tx thread is done with a handle.                                     *)
LEMMA TxDoneFacts ==
  ASSUME InThreads, TxDone
  PROVE  /\ thr' \in [Threads -> ThrFields] /\ thr'["rx"] = thr["rx"]
         /\ TxOK(thr'["tx"]) /\ thr'["tx"].pc = "list" /\ thr'["tx"].chan = 0
<1>1. thr \in [Threads -> ThrFields]
  BY ThreadTypes
<1>2. thr' = [thr EXCEPT !["tx"] = Thread("list")]
  BY DEF TxDone
<1>3. Thread("list") \in ThrFields /\ Thread("list").pc = "list" /\ Thread("list").chan = 0
  BY PcsFacts, ThreadFields
<1>4. /\ thr' \in [Threads -> ThrFields] /\ thr'["rx"] = thr["rx"]
      /\ thr'["tx"] = Thread("list")
  BY <1>1, <1>2, <1>3, PcsFacts
<1>5. QED BY <1>3, <1>4, PcsFacts DEF TxOK

PcLike(p, q) ==
  /\ p \in InSend <=> q \in InSend
  /\ (p = "list" <=> q = "list") /\ (p = "event" <=> q = "event")
  /\ (p = "msgs" <=> q = "msgs") /\ (p = "idle" <=> q = "idle")
  /\ (p = "exited" <=> q = "exited") /\ (p = "signal" <=> q = "signal")

(* event_signal.                                                            *)
LEMMA WokenFacts ==
  ASSUME InThreads, NEW q \in Queues, thr' = Woken(q)
  PROVE  /\ thr' \in [Threads -> ThrFields]
         /\ \A t \in Threads : /\ thr'[t].chan = thr[t].chan /\ thr'[t].ev = thr[t].ev
                                /\ thr'[t].out = thr[t].out
                                /\ thr'[t].pc \in Pcs[t]
                                /\ PcLike(thr'[t].pc, thr[t].pc)
         /\ q = "rx" => thr'["rx"].pc # "wait"
<1>1. \A t \in Threads : thr[t] \in ThrFields /\ thr[t].pc \in Pcs[t]
  BY ThreadTypes
<1> DEFINE l(t) == CASE q = "rx" /\ thr[t].pc = "wait" -> "get"
                     [] q = "tx" /\ thr[t].pc = "swait" -> "swoken"
                     [] OTHER -> thr[t].pc
<1>2. \A t \in Threads : thr'[t] = [thr[t] EXCEPT !.pc = l(t)]
  BY DEF Woken
<1>3. \A t \in Threads : l(t) \in Pcs[t] /\ l(t) \in Pcs["rx"] \cup Pcs["tx"]
  BY <1>1, PcsFacts
<1>4. \A t \in Threads : PcLike(l(t), thr[t].pc)
  BY PcsFacts DEF PcLike
<1>5. q = "rx" => l("rx") # "wait"
  OBVIOUS
<1> HIDE DEF l
<1>6. \A t \in Threads : /\ thr'[t].chan = thr[t].chan /\ thr'[t].ev = thr[t].ev
                         /\ thr'[t].out = thr[t].out /\ thr'[t].pc = l(t)
                         /\ thr'[t] \in ThrFields
  BY <1>1, <1>2, <1>3 DEF ThrFields
<1>7. thr' \in [Threads -> ThrFields]
  <2>1. thr' = [t \in Threads |-> thr'[t]]
    BY DEF Woken
  <2>2. QED BY <1>6, <2>1
<1>8. QED BY <1>3, <1>4, <1>5, <1>6, <1>7, PcsFacts

----------------------------------------------------------------------------
(* Handles.                                                                 *)

(* A reference is dropped.                                                  *)
LEMMA DecrefFacts ==
  ASSUME NEW c \in [Conns -> Channels], NEW k \in Conns, c[k].refs > 0
  PROVE  /\ Decref(c, k) \in [Conns -> Channels]
         /\ \A j \in Conns \ {k} : Decref(c, k)[j] = c[j]
         /\ c[k].refs = 1 => Decref(c, k)[k] = NoChan
         /\ c[k].refs # 1 =>
              /\ Decref(c, k)[k].refs = c[k].refs - 1 /\ Decref(c, k)[k].st = c[k].st
              /\ Decref(c, k)[k].ready = c[k].ready /\ Decref(c, k)[k].msgs = c[k].msgs
              /\ Decref(c, k)[k].cookie = c[k].cookie
              /\ Decref(c, k)[k].listed = c[k].listed
<1>1. c[k] \in Channels
  OBVIOUS
<1>2. NoChan \in Channels
  BY DEF NoChan, Channels
<1>3. c[k].refs \in Nat /\ c[k].refs - 1 \in Nat
  BY <1>1 DEF Channels
<1> DEFINE e == [c[k] EXCEPT !.refs = @ - 1]
<1>4. /\ e \in Channels /\ e.refs = c[k].refs - 1 /\ e.st = c[k].st /\ e.ready = c[k].ready
      /\ e.msgs = c[k].msgs /\ e.cookie = c[k].cookie /\ e.listed = c[k].listed
  BY <1>1, <1>3 DEF Channels
<1>5. CASE c[k].refs = 1
  BY <1>2, <1>5 DEF Decref
<1>6. CASE c[k].refs # 1
  <2>1. Decref(c, k) = [c EXCEPT ![k] = e]
    BY <1>6 DEF Decref
  <2> HIDE DEF e
  <2>2. Decref(c, k) \in [Conns -> Channels] /\ Decref(c, k)[k] = e
        /\ \A j \in Conns \ {k} : Decref(c, k)[j] = c[j]
    BY <1>4, <2>1
  <2>3. QED BY <1>4, <1>6, <2>2
<1>7. QED BY <1>5, <1>6

(* The endpoint of a listed handle is taken down: unlisted, closed, and     *)
(* freed unless the tx thread holds it.                                     *)
LEMMA DetachedFacts ==
  ASSUME NEW c \in [Conns -> Channels], NEW k \in Conns, c[k].refs > 1
  PROVE  /\ Detached(c, k) \in [Conns -> Channels]
         /\ \A j \in Conns \ {k} : Detached(c, k)[j] = c[j]
         /\ c[k].refs = 2 => Detached(c, k)[k] = NoChan
         /\ c[k].refs # 2 =>
              /\ Detached(c, k)[k].listed = FALSE /\ Detached(c, k)[k].cookie = 0
              /\ Detached(c, k)[k].st = "closed"
              /\ Detached(c, k)[k].refs = c[k].refs - 2
<1> DEFINE c1 == [c EXCEPT ![k].listed = FALSE]
           c2 == Decref(c1, k)
           c3 == [c2 EXCEPT ![k].cookie = 0]
           c4 == [c3 EXCEPT ![k].st = "closed"]
<1>0. c[k] \in Channels /\ c[k].refs \in Nat
  BY DEF Channels
<1>1. /\ c1 \in [Conns -> Channels] /\ c1[k].listed = FALSE /\ c1[k].refs = c[k].refs
      /\ \A j \in Conns \ {k} : c1[j] = c[j]
  BY <1>0 DEF Channels
<1> HIDE DEF c1
<1>2. c1[k].refs > 0 /\ c1[k].refs # 1
  BY <1>0, <1>1
<1>3. /\ c2 \in [Conns -> Channels] /\ c2[k].refs = c1[k].refs - 1
      /\ c2[k].listed = c1[k].listed /\ \A j \in Conns \ {k} : c2[j] = c1[j]
  BY <1>1, <1>2, DecrefFacts
<1> HIDE DEF c2
<1>4. c2[k] \in Channels
  BY <1>3
<1>5. /\ c3 \in [Conns -> Channels] /\ c3[k].cookie = 0
      /\ c3[k].listed = c2[k].listed /\ c3[k].refs = c2[k].refs
      /\ \A j \in Conns \ {k} : c3[j] = c2[j]
  BY <1>3, <1>4 DEF Channels
<1> HIDE DEF c3
<1>6. c3[k] \in Channels
  BY <1>5
<1>7. /\ c4 \in [Conns -> Channels] /\ c4[k].st = "closed" /\ c4[k].cookie = c3[k].cookie
      /\ c4[k].listed = c3[k].listed /\ c4[k].refs = c3[k].refs
      /\ \A j \in Conns \ {k} : c4[j] = c3[j]
  BY <1>5, <1>6 DEF Channels
<1> HIDE DEF c4
<1>8. c4[k].cookie = 0 /\ c4[k].listed = FALSE
  BY <1>1, <1>3, <1>5, <1>7
<1>9. c4[k].refs = c[k].refs - 1 /\ c4[k].refs > 0
  BY <1>0, <1>1, <1>3, <1>5, <1>7
<1>10. Detached(c, k) = Decref(c4, k)
  BY DEF Detached, CloseHandle, c1, c2, c3, c4
<1>11. Decref(c4, k) \in [Conns -> Channels]
       /\ \A j \in Conns \ {k} : Decref(c4, k)[j] = c4[j]
  BY <1>7, <1>9, DecrefFacts
<1>12. c4[k].refs = 1 => Decref(c4, k)[k] = NoChan
  BY <1>7, <1>9, DecrefFacts
<1>13. c4[k].refs # 1 =>
         /\ Decref(c4, k)[k].refs = c4[k].refs - 1 /\ Decref(c4, k)[k].st = c4[k].st
         /\ Decref(c4, k)[k].cookie = c4[k].cookie /\ Decref(c4, k)[k].listed = c4[k].listed
  BY <1>7, <1>9, DecrefFacts
<1>14. c[k].refs = 2 <=> c4[k].refs = 1
  BY <1>0, <1>9
<1>15. c4[k].refs - 1 = c[k].refs - 2
  BY <1>0, <1>9
<1>16. \A j \in Conns \ {k} : c4[j] = c[j]
  BY <1>1, <1>3, <1>5, <1>7
<1>17. QED BY <1>7, <1>8, <1>10, <1>11, <1>12, <1>13, <1>14, <1>15, <1>16

(* The part of the rx thread that the handles depend on.                    *)
RxSame == /\ (thr'["rx"].pc = "list") <=> (thr["rx"].pc = "list")
          /\ thr["rx"].pc = "list" => thr'["rx"].chan = thr["rx"].chan

(* Channels that nobody has made stay so, others keep their state.          *)
ChanKept(k) == /\ chan[k] = NoChan => chan'[k] = NoChan
               /\ Owned(k)' => chan'[k].st = chan[k].st /\ chan'[k].ready = chan[k].ready

(* Counting references.                                                     *)
LEMMA CountFacts == Count(TRUE) = 1 /\ Count(FALSE) = 0 /\ \A b : Count(b) \in {0, 1}
BY DEF Count

(* What a free channel is.                                                  *)
LEMMA NoChanFacts ==
  /\ NoChan \in Channels /\ NoChan.refs = 0 /\ NoChan.st = "free" /\ NoChan.cookie = 0
  /\ NoChan.listed = FALSE /\ NoChan.ready = FALSE
BY DEF NoChan, Channels

(* A handle that a step does not touch.                                     *)
LEMMA HandleKept ==
  ASSUME NEW c \in Conns, Handle(c), chan'[c] = chan[c],
         Owned(c)' <=> Owned(c), InList(c)' <=> InList(c),
         (thr'["tx"].chan = c) <=> (thr["tx"].chan = c),
         chan[c].listed => epts'[chan[c].cookie].chan = epts[chan[c].cookie].chan
  PROVE  Handle(c)'
<1>1. Count(Owned(c))' = Count(Owned(c)) /\ Count(thr["tx"].chan = c)' = Count(thr["tx"].chan = c)
  BY DEF Count
<1>2. Count(chan[c].listed)' = Count(chan[c].listed)
  BY DEF Count
<1>3. QED BY <1>1, <1>2 DEF Handle

(* A handle without references.                                             *)
LEMMA HandleGone ==
  ASSUME NEW c \in Conns, chan'[c] = NoChan, ~Owned(c)', thr'["tx"].chan # c
  PROVE  Handle(c)'
<1>1. Count(Owned(c))' = 0 /\ Count(thr["tx"].chan = c)' = 0
  BY DEF Count
<1>2. Count(chan[c].listed)' = 0
  BY NoChanFacts DEF Count
<1>3. (chan[c].refs)' = 0
  BY NoChanFacts
<1>4. (chan[c].refs = Count(Owned(c)) + Count(chan[c].listed) + Count(thr["tx"].chan = c))'
  BY <1>1, <1>2, <1>3
<1>5. QED BY <1>4, NoChanFacts DEF Handle

(* The tx thread drops its reference.                                       *)
LEMMA HandlesDecref ==
  ASSUME InTypes, InHandles, NEW c \in Conns, thr["tx"].chan = c,
         thr'["tx"].chan = 0, RxSame, epts' = epts, chan' = Decref(chan, c)
  PROVE  InHandles' /\ chan' \in [Conns -> Channels] /\ \A k \in Conns : ChanKept(k)
<1>1. Handle(c) /\ chan \in [Conns -> Channels] /\ chan[c] \in Channels
  BY DEF InHandles, InTypes
<1>2. \A k \in Conns : (Owned(k)' <=> Owned(k)) /\ (InList(k)' <=> InList(k))
  BY DEF Owned, InList, At, RxSame
<1>3. Count(thr["tx"].chan = c) = 1
  BY DEF Count
<1>4. chan[c].refs = Count(Owned(c)) + Count(chan[c].listed) + 1
  BY <1>1, <1>3 DEF Handle
<1>5. Count(Owned(c)) \in {0, 1} /\ Count(chan[c].listed) \in {0, 1}
  BY DEF Count
<1>6. chan[c].refs > 0
  BY <1>4, <1>5
<1>7. chan' \in [Conns -> Channels] /\ \A j \in Conns \ {c} : chan'[j] = chan[j]
  BY <1>1, <1>6, DecrefFacts
<1>8. \A j \in Conns \ {c} : Handle(j)'
  <2> TAKE j \in Conns \ {c}
  <2>1. Handle(j) /\ chan'[j] = chan[j] /\ thr["tx"].chan # j /\ thr'["tx"].chan # j
    BY <1>7, Zero DEF InHandles
  <2>2. QED BY <1>2, <2>1, HandleKept
<1>9. CASE chan[c].refs = 1
  <2>1. chan'[c] = NoChan
    BY <1>1, <1>6, <1>9, DecrefFacts
  <2>2. Count(Owned(c)) = 0
    BY <1>4, <1>5, <1>9
  <2>3. ~Owned(c)
    BY <2>2 DEF Count
  <2>4. Handle(c)'
    BY <1>2, <2>1, <2>3, HandleGone, Zero
  <2>5. ChanKept(c)
    BY <1>2, <2>1, <2>3 DEF ChanKept
  <2>6. QED BY <1>7, <1>8, <2>4, <2>5 DEF InHandles, ChanKept
<1>10. CASE chan[c].refs # 1
  <2>1. /\ chan'[c].refs = chan[c].refs - 1 /\ chan'[c].st = chan[c].st
        /\ chan'[c].ready = chan[c].ready /\ chan'[c].cookie = chan[c].cookie
        /\ chan'[c].listed = chan[c].listed
    BY <1>1, <1>6, <1>10, DecrefFacts
  <2>2. Count(Owned(c))' = Count(Owned(c)) /\ Count(thr["tx"].chan = c)' = 0
        /\ Count(chan[c].listed)' = Count(chan[c].listed)
    BY <1>2, <2>1, Zero DEF Count
  <2>3. (chan[c].refs = Count(Owned(c)) + Count(chan[c].listed) + Count(thr["tx"].chan = c))'
    BY <1>4, <1>5, <2>1, <2>2
  <2>4. chan'[c].refs # 0 /\ chan[c].refs # 0
    BY <1>4, <1>5, <1>10, <2>1
  <2>5. chan[c] # NoChan
    BY <2>4, NoChanFacts
  <2>6. Handle(c)'
    BY <1>1, <1>2, <2>1, <2>3, <2>4 DEF Handle
  <2>7. ChanKept(c)
    BY <2>1, <2>5 DEF ChanKept
  <2>8. QED BY <1>7, <1>8, <2>6, <2>7 DEF InHandles, ChanKept
<1>11. QED BY <1>9, <1>10

(* A listed handle has two references or more.                              *)
LEMMA ListedRefs ==
  ASSUME InTypes, InHandles, NEW c \in Conns, chan[c].listed
  PROVE  /\ Owned(c) /\ chan[c].refs > 1 /\ chan[c].refs \in Nat
         /\ thr["tx"].chan = c => chan[c].refs = 3
         /\ thr["tx"].chan # c => chan[c].refs = 2
<1>1. Owned(c) /\ Handle(c)
  BY DEF InHandles, Handle
<1>2. Count(Owned(c)) = 1 /\ Count(chan[c].listed) = 1
  BY <1>1 DEF Count
<1>3. thr["tx"].chan = c => Count(thr["tx"].chan = c) = 1
  BY DEF Count
<1>4. thr["tx"].chan # c => Count(thr["tx"].chan = c) = 0
  BY DEF Count
<1>5. chan[c].refs = 1 + 1 + Count(thr["tx"].chan = c)
  BY <1>1, <1>2 DEF Handle
<1>6. QED BY <1>1, <1>3, <1>4, <1>5

(* One channel of a listed handle after its endpoint is gone.               *)
LEMMA HandleDetached ==
  ASSUME InTypes, InHandles, NEW c \in Conns, chan[c].listed, ~Owned(c)', ~InList(c)',
         chan'[c] = Detached(chan, c)[c], thr'["tx"].chan = thr["tx"].chan
  PROVE  Handle(c)' /\ chan'[c] \in Channels
<1>1. chan \in [Conns -> Channels] /\ chan[c].refs > 1
  BY ListedRefs DEF InTypes
<1> DEFINE d == Detached(chan, c)
<1>2. chan'[c] \in Channels
  <2>1. d \in [Conns -> Channels]
    BY <1>1, DetachedFacts
  <2> HIDE DEF d
  <2>2. chan'[c] = d[c]
    BY DEF d
  <2>3. QED BY <2>1, <2>2
<1>3. CASE thr["tx"].chan # c
  <2>1. chan'[c] = NoChan
    BY <1>1, <1>3, ListedRefs, DetachedFacts
  <2>2. QED BY <1>2, <1>3, <2>1, HandleGone
<1>4. CASE thr["tx"].chan = c
  <2>1. chan[c].refs = 3
    BY <1>4, ListedRefs
  <2>2. /\ chan'[c].listed = FALSE /\ chan'[c].cookie = 0 /\ chan'[c].st = "closed"
        /\ chan'[c].refs = chan[c].refs - 2
    <3>1. chan[c].refs # 2
      BY <2>1
    <3>2. /\ d[c].listed = FALSE /\ d[c].cookie = 0 /\ d[c].st = "closed"
          /\ d[c].refs = chan[c].refs - 2
      BY <1>1, <3>1, DetachedFacts
    <3>3. QED BY <3>2
  <2>3. chan'[c].refs = 1
    BY <2>1, <2>2
  <2>4. Count(Owned(c))' = 0 /\ Count(thr["tx"].chan = c)' = 1 /\ Count(chan[c].listed)' = 0
    BY <1>4, <2>2 DEF Count
  <2>5. (chan[c].refs = Count(Owned(c)) + Count(chan[c].listed) + Count(thr["tx"].chan = c))'
    BY <2>3, <2>4
  <2>6. QED BY <1>2, <2>2, <2>3, <2>5 DEF Handle
<1>5. QED BY <1>3, <1>4

(* One endpoint is taken down.                                              *)
LEMMA HandlesDetach ==
  ASSUME InTypes, InThreads, InHandles, NEW s \in Slots, NEW c \in Conns,
         epts[s].chan = c, chan[c].listed, RxSame,
         epts' = [epts EXCEPT ![s] = NoEpt], chan' = Detached(chan, c),
         thr'["tx"].chan = thr["tx"].chan
  PROVE  /\ InHandles' /\ chan' \in [Conns -> Channels] /\ \A k \in Conns : ChanKept(k)
         /\ \A k \in Conns : Owned(k)' <=> Owned(k) /\ k # c
<1>1. chan \in [Conns -> Channels] /\ chan[c].refs > 1 /\ epts \in [Slots -> Endpoints]
  BY ListedRefs DEF InTypes
<1>2. chan' \in [Conns -> Channels] /\ \A j \in Conns \ {c} : chan'[j] = chan[j]
  BY <1>1, DetachedFacts
<1>3. NoEpt.chan = 0 /\ epts'[s] = NoEpt /\ \A u \in Slots \ {s} : epts'[u] = epts[u]
  BY <1>1 DEF NoEpt
<1>4. epts[s] # NoEpt
  BY <1>3, Zero
<1>5. \A u \in Slots \ {s} : epts[u].chan # c
  BY <1>4 DEF InHandles
<1>6. \A k \in Conns : Owned(k)' <=> Owned(k) /\ k # c
  BY <1>3, <1>5, Zero DEF Owned
<1>7. Handle(c)'
  <2>1. thr["rx"].pc = "list" => thr["rx"].chan \in Slots
    BY DEF InThreads, At
  <2>2. ~InList(c)'
    BY <1>6, <2>1 DEF InList, Owned, At, RxSame
  <2>3. QED BY <1>6, <2>2, HandleDetached
<1>8. ASSUME NEW j \in Conns \ {c} PROVE Handle(j)'
  <2>1. Handle(j) /\ chan'[j] = chan[j]
    BY <1>2 DEF InHandles
  <2>2. ~InList(c)
    BY DEF InHandles, Handle
  <2>3. At("rx", "list") => thr["rx"].chan # s
    BY <2>2 DEF InList
  <2>4. InList(j)' <=> InList(j)
    BY <1>3, <2>3, Zero DEF InList, At, RxSame
  <2>5. chan[j].listed => epts'[chan[j].cookie].chan = epts[chan[j].cookie].chan
    <3> SUFFICES ASSUME chan[j].listed
                 PROVE  epts'[chan[j].cookie].chan = epts[chan[j].cookie].chan
      OBVIOUS
    <3>1. chan[j].cookie # 0 /\ epts[chan[j].cookie].chan = j
      BY <2>1 DEF Handle
    <3>2. chan[j].cookie \in Slots \ {s}
      BY <3>1, CookieFacts
    <3>3. QED BY <1>3, <3>2
  <2>6. Owned(j)' <=> Owned(j)
    BY <1>6
  <2>7. QED BY <2>1, <2>4, <2>5, <2>6, HandleKept
<1>9. \A u, v \in Slots : epts'[u].chan = epts'[v].chan /\ epts'[u] # NoEpt => u = v
  <2> SUFFICES ASSUME NEW u \in Slots, NEW v \in Slots, epts'[u].chan = epts'[v].chan,
                      epts'[u] # NoEpt
               PROVE  u = v
    OBVIOUS
  <2>1. u # s /\ epts'[u] = epts[u]
    BY <1>3
  <2>2. epts[u].chan # 0
    BY <2>1, EptFacts
  <2>3. v # s
    BY <1>3, <2>1, <2>2
  <2>4. QED BY <1>3, <2>1, <2>3 DEF InHandles
<1>10. \A k \in Conns : ChanKept(k)
  <2>1. chan[c] # NoChan
    BY <1>1, NoChanFacts
  <2>2. QED BY <1>2, <1>6, <2>1 DEF ChanKept
<1>11. QED BY <1>2, <1>6, <1>7, <1>8, <1>9, <1>10 DEF InHandles

(* Handles that a step leaves alone.                                        *)
LEMMA HandlesSame ==
  ASSUME InTypes, InHandles, RxSame, epts' = epts, chan' = chan,
         thr'["tx"].chan = thr["tx"].chan
  PROVE  InHandles'
<1>1. \A k \in Conns : (Owned(k)' <=> Owned(k)) /\ (InList(k)' <=> InList(k))
  BY DEF Owned, InList, At, RxSame
<1>2. \A k \in Conns : Handle(k)'
  BY <1>1, HandleKept DEF InHandles
<1>3. QED BY <1>2 DEF InHandles

----------------------------------------------------------------------------
(* Steps of the device that neither move messages nor change endpoints.     *)

Pending(k) == /\ Owned(k)
              /\ \/ chan[k].st # "connected" \/ chan[k].ready
                 \/ At("tx", "event") /\ thr["tx"].chan = k /\ thr["tx"].ev = "ready"

Silent ==
  /\ toSec' = toSec /\ toNs' = toNs /\ epts' = epts
  /\ \A t \in Threads : Speaks(t)' => Speaks(t) /\ thr'[t].out = thr[t].out
  /\ \A t \in Threads : thr'[t].pc \in InSend /\ thr'[t].out.type # "data"
                         => thr[t].pc \in InSend
  /\ ~Gone => \A t \in Threads : thr[t].pc \in InSend => thr'[t].pc \in InSend
                                                      /\ thr'[t].out = thr[t].out
  /\ \A k \in Conns : chan[k] = NoChan => chan'[k] = NoChan
  /\ \A k \in Conns : ~Gone /\ Pending(k) => Pending(k)'

(* What a step leaves alone keeps its type.                                 *)
LEMMA TypesKept ==
  ASSUME InTypes, UNCHANGED ns, toSec' = toSec, room' = room, toNs' = toNs,
         event' \in [Queues -> BOOLEAN], stop' \in [Threads -> BOOLEAN],
         haveHandles' \in BOOLEAN,
         reset' \in {"no", "rxjoin", "txjoin", "done", "panic"},
         epts' = epts, chan' \in [Conns -> Channels]
  PROVE  InTypes'
BY DEF InTypes, ns

(* And so do the files.                                                     *)
LEMMA FilesKept ==
  ASSUME InFiles, UNCHANGED ns
  PROVE  InFiles'
BY DEF InFiles, ns, Linked, Gone

(* Both threads are where they may be.                                      *)
LEMMA ThreadsKept ==
  ASSUME InThreads, thr' \in [Threads -> ThrFields], RxOK(thr'["rx"]), TxOK(thr'["tx"]),
         RxSame, epts' = epts
  PROVE  InThreads'
<1>1. thr'["rx"].pc = "list" => thr'["rx"].chan \in Slots /\ epts'[thr'["rx"].chan] # NoEpt
  BY ThreadsSplit DEF RxSame, ListOK
<1>2. QED BY <1>1, ThreadsSplitNext

(* A thread finds no transmit buffer.                                       *)
LEMMA SendNoneDev ==
  ASSUME DevInv, NEW t \in Threads, SendNone(t), UNCHANGED ns
  PROVE  DevInv' /\ Silent
<1>1. /\ thr[t].pc = "send" /\ Goto(t, "swait") /\ epts' = epts /\ chan' = chan
      /\ toSec' = toSec /\ toNs' = toNs /\ room' = room
      /\ event' = [event EXCEPT !["tx"] = FALSE]
      /\ haveHandles' = haveHandles /\ stop' = stop /\ reset' = reset
  BY DEF SendNone, At, GetNone
<1>2. InThreads /\ InTypes /\ InHandles /\ InFiles /\ InReset
  BY DEF DevInv
<1>3. /\ thr' \in [Threads -> ThrFields] /\ \A u \in Threads \ {t} : thr'[u] = thr[u]
      /\ thr'[t].pc = "swait" /\ thr'[t].chan = thr[t].chan /\ thr'[t].ev = thr[t].ev
      /\ thr'[t].out = thr[t].out
  BY <1>1, <1>2, GotoFacts, PcsFacts
<1>4. RxOK(thr'["rx"]) /\ TxOK(thr'["tx"]) /\ RxSame /\ thr'["tx"].chan = thr["tx"].chan
  BY <1>1, <1>2, <1>3, PcsFacts, ThreadsSplit DEF RxOK, TxOK, RxSame
<1>5. InThreads'
  BY <1>1, <1>2, <1>3, <1>4, ThreadsKept
<1>6. InHandles'
  BY <1>1, <1>2, <1>4, HandlesSame
<1>7. InTypes'
  BY <1>1, <1>2, TypesKept DEF InTypes, Queues
<1>8. InReset'
  BY <1>1, <1>2, <1>3, PcsFacts DEF InReset, At, ns
<1>9. Silent
  BY <1>1, <1>3, PcsFacts DEF Silent, Speaks, Pending, Owned, At
<1>10. QED BY <1>2, <1>5, <1>6, <1>7, <1>8, <1>9, FilesKept DEF DevInv

(* The tx thread starts to wait for handles, or there are none.             *)
LEMMA TxIdleDev ==
  ASSUME DevInv, TxIdle \/ TxNoHandles, UNCHANGED ns
  PROVE  DevInv' /\ Silent
<1>1. PICK l \in {"list", "exited", "idle"} :
      /\ Goto("tx", l) /\ thr["tx"].pc \in {"idle", "list"} /\ epts' = epts /\ chan' = chan
      /\ UNCHANGED rings
      /\ haveHandles' \in {haveHandles, FALSE} /\ stop' = stop /\ reset' = reset
      /\ stop["tx"] => l # "idle"
  BY DEF TxIdle, TxNoHandles, At
<1>2. InThreads /\ InTypes /\ InHandles /\ InFiles /\ InReset
  BY DEF DevInv
<1>3. /\ thr' \in [Threads -> ThrFields] /\ thr'["rx"] = thr["rx"]
      /\ thr'["tx"].pc = l /\ thr'["tx"].chan = thr["tx"].chan /\ thr'["tx"].ev = thr["tx"].ev
      /\ thr'["tx"].out = thr["tx"].out
  BY <1>1, <1>2, GotoFacts, PcsFacts
<1>4. RxOK(thr'["rx"]) /\ TxOK(thr'["tx"]) /\ RxSame /\ thr'["tx"].chan = thr["tx"].chan
  BY <1>1, <1>2, <1>3, PcsFacts, ThreadsSplit, ThreadTypes DEF RxOK, TxOK, RxSame
<1>5. InThreads'
  BY <1>1, <1>2, <1>3, <1>4, ThreadsKept
<1>6. InHandles'
  BY <1>1, <1>2, <1>4, HandlesSame
<1>7. InTypes'
  BY <1>1, <1>2, TypesKept DEF InTypes, rings
<1>8. InReset'
  BY <1>1, <1>2, <1>3, PcsFacts DEF InReset, At, ns
<1>9. Silent
  BY <1>1, <1>3, PcsFacts DEF Silent, Speaks, Pending, Owned, At, rings
<1>10. QED BY <1>2, <1>5, <1>6, <1>7, <1>8, <1>9, FilesKept DEF DevInv

(* A kick.                                                                  *)
LEMMA KickDev ==
  ASSUME DevInv, NEW q \in Queues, Kick(q), UNCHANGED ns
  PROVE  DevInv' /\ Silent
<1>1. /\ thr' = Woken(q) /\ epts' = epts /\ chan' = chan /\ reset = "no"
      /\ toSec' = toSec /\ toNs' = toNs /\ room' = room
      /\ event' = [event EXCEPT ![q] = TRUE]
      /\ haveHandles' = haveHandles /\ stop' = stop /\ reset' = reset
  BY DEF Kick, SignalAvail, Signalled
<1>2. InThreads /\ InTypes /\ InHandles /\ InFiles /\ InReset
  BY DEF DevInv
<1>3. /\ thr' \in [Threads -> ThrFields]
      /\ \A t \in Threads : /\ thr'[t].chan = thr[t].chan /\ thr'[t].ev = thr[t].ev
                             /\ thr'[t].out = thr[t].out
                             /\ thr'[t].pc \in Pcs[t]
                             /\ PcLike(thr'[t].pc, thr[t].pc)
  BY <1>1, <1>2, WokenFacts
<1>11. /\ thr'["rx"].chan = thr["rx"].chan /\ thr'["rx"].out = thr["rx"].out
      /\ thr'["rx"].pc \in Pcs["rx"] /\ PcLike(thr'["rx"].pc, thr["rx"].pc)
      /\ thr'["tx"].chan = thr["tx"].chan /\ thr'["tx"].out = thr["tx"].out
      /\ thr'["tx"].ev = thr["tx"].ev
      /\ thr'["tx"].pc \in Pcs["tx"] /\ PcLike(thr'["tx"].pc, thr["tx"].pc)
      /\ thr'["rx"] \in ThrFields /\ thr'["tx"] \in ThrFields
  BY <1>3, PcsFacts
<1>4. RxSame /\ thr'["tx"].chan = thr["tx"].chan /\ RxOK(thr["rx"]) /\ TxOK(thr["tx"])
  BY <1>2, <1>11, ThreadsSplit DEF RxSame, PcLike
<1>5. InThreads'
  <2>1. RxOK(thr'["rx"])
    BY <1>11, <1>4 DEF RxOK, PcLike
  <2>2. TxOK(thr'["tx"])
    BY <1>11, <1>4, PcsFacts DEF TxOK, PcLike
  <2>3. QED BY <1>1, <1>2, <1>3, <1>4, <2>1, <2>2, ThreadsKept
<1>6. InHandles'
  BY <1>1, <1>2, <1>4, HandlesSame
<1>7. InTypes'
  BY <1>1, <1>2, TypesKept DEF InTypes
<1>8. InReset'
  BY <1>1, <1>2 DEF InReset, ns
<1>9. Silent
  <2>1. \A t \in Threads : Speaks(t)' <=> Speaks(t)
    BY <1>3 DEF Speaks, PcLike
  <2>2. \A t \in Threads : thr'[t].pc \in InSend <=> thr[t].pc \in InSend
    BY <1>3 DEF PcLike
  <2>3. \A k \in Conns : Pending(k) => Pending(k)'
    BY <1>1, <1>3, <1>11 DEF Pending, Owned, At, PcLike, Threads
  <2>4. QED BY <1>1, <1>3, <2>1, <2>2, <2>3 DEF Silent
<1>10. QED BY <1>2, <1>5, <1>6, <1>7, <1>8, <1>9, FilesKept DEF DevInv

(* The rx thread has nothing to do, or has told the tx thread.              *)
LEMMA RxRestDev ==
  ASSUME DevInv, RxNone \/ RxSignal, UNCHANGED ns
  PROVE  DevInv' /\ Silent
<1>1. /\ RxNext /\ thr["rx"].pc \in {"get", "signal"} /\ epts' = epts /\ chan' = chan
      /\ toSec' = toSec /\ toNs' = toNs /\ room' = room
      /\ event' \in {event, [event EXCEPT !["rx"] = FALSE]}
      /\ haveHandles' \in {haveHandles, TRUE} /\ stop' = stop /\ reset' = reset
  BY DEF RxNone, RxSignal, GetNone, At, rings, HaveHandles
<1>2. InThreads /\ InTypes /\ InHandles /\ InFiles /\ InReset
  BY DEF DevInv
<1>3. /\ thr' \in [Threads -> ThrFields] /\ thr'["tx"] = thr["tx"] /\ RxOK(thr'["rx"])
      /\ thr'["rx"].pc \in RxIdle
      /\ thr'["rx"].pc = AfterMsg
  BY <1>1, <1>2, RxNextFacts
<1>4. TxOK(thr'["tx"]) /\ RxSame /\ thr'["tx"].chan = thr["tx"].chan
  BY <1>1, <1>2, <1>3, PcsFacts, ThreadsSplit DEF RxSame, RxIdle
<1>5. InThreads'
  BY <1>1, <1>2, <1>3, <1>4, ThreadsKept
<1>6. InHandles'
  BY <1>1, <1>2, <1>4, HandlesSame
<1>7. InTypes'
  BY <1>1, <1>2, TypesKept DEF InTypes, Queues
<1>8. InReset'
  BY <1>1, <1>2, <1>3, PcsFacts DEF InReset, At, ns, RxIdle, AfterMsg
<1>9. Silent
  BY <1>1, <1>3, PcsFacts DEF Silent, Speaks, Pending, Owned, At, RxIdle
<1>10. QED BY <1>2, <1>5, <1>6, <1>7, <1>8, <1>9, FilesKept DEF DevInv

(* Reset comes to an end.                                                   *)
LEMMA ResetEndDev ==
  ASSUME DevInv, ResetDone \/ JoinTimeout, UNCHANGED ns
  PROVE  DevInv' /\ Silent
<1>1. /\ UNCHANGED rings /\ epts' = epts /\ chan' = chan /\ thr' = thr
      /\ haveHandles' = haveHandles /\ reset' \in {"done", "panic"}
      /\ reset # "no" /\ stop' \in {stop, [stop EXCEPT !["tx"] = FALSE]}
  BY DEF ResetDone, JoinTimeout, Joining
<1>2. InThreads /\ InTypes /\ InHandles /\ InFiles /\ InReset
  BY DEF DevInv
<1>3. InThreads'
  BY <1>1, <1>2 DEF InThreads, Speaks, At
<1>4. InHandles'
  BY <1>1, <1>2, HandlesSame DEF RxSame
<1>5. InTypes'
  BY <1>1, <1>2, TypesKept, PcsFacts DEF InTypes, rings
<1>6. InReset'
  BY <1>1, <1>2, PcsFacts DEF InReset, At, ns, InTypes
<1>7. Silent
  BY <1>1 DEF Silent, Speaks, Pending, Owned, At, rings
<1>8. QED BY <1>2, <1>3, <1>4, <1>5, <1>6, <1>7, FilesKept DEF DevInv

(* A thread goes on after tipc_send_data, which has or has not sent.        *)
LEMMA AfterSendFacts ==
  ASSUME InTypes, InThreads, InHandles, NEW t \in Threads, thr[t].pc \in InSend,
         AfterSend(t), epts' = epts
  PROVE  /\ InThreads' /\ InHandles' /\ chan' \in [Conns -> Channels]
         /\ \A k \in Conns : ChanKept(k)
         /\ \A u \in Threads \ {t} : thr'[u] = thr[u]
         /\ thr'[t].pc \notin InSend
         /\ Speaks(t)' => thr'[t].out = thr[t].out /\ t = "tx"
         /\ t = "rx" => thr'[t].pc = AfterMsg
         /\ t = "tx" => thr'[t].pc \in {"list", "msgs"}
<1>1. CASE t = "rx" /\ RxNext /\ UNCHANGED chan
  <2>1. /\ thr' \in [Threads -> ThrFields] /\ thr'["tx"] = thr["tx"] /\ RxOK(thr'["rx"])
        /\ thr'["rx"].pc \in RxIdle
        /\ thr'["rx"].pc = AfterMsg
    BY <1>1, RxNextFacts
  <2>2. TxOK(thr'["tx"]) /\ RxSame /\ thr'["tx"].chan = thr["tx"].chan
    BY <1>1, <2>1, PcsFacts, ThreadsSplit DEF RxSame, RxIdle
  <2>3. InThreads'
    BY <2>1, <2>2, ThreadsKept
  <2>4. InHandles'
    BY <1>1, <2>2, HandlesSame
  <2>5. chan' \in [Conns -> Channels] /\ \A k \in Conns : ChanKept(k)
    BY <1>1 DEF InTypes, ChanKept
  <2>6. thr'[t].pc \notin InSend /\ ~Speaks(t)' /\ \A u \in Threads \ {t} : thr'[u] = thr[u]
    BY <1>1, <2>1, PcsFacts DEF Speaks, RxIdle
  <2>7. QED BY <1>1, <2>1, <2>3, <2>4, <2>5, <2>6
<1>2. CASE t = "tx" /\ thr[t].ev = "msg" /\ Goto(t, "msgs") /\ UNCHANGED chan
  <2>1. /\ thr' \in [Threads -> ThrFields] /\ \A u \in Threads \ {t} : thr'[u] = thr[u]
        /\ thr'[t].pc = "msgs" /\ thr'[t].chan = thr[t].chan /\ thr'[t].ev = thr[t].ev
        /\ thr'[t].out = thr[t].out
    BY <1>2, GotoFacts, PcsFacts
  <2>2. RxOK(thr'["rx"]) /\ TxOK(thr'["tx"]) /\ RxSame /\ thr'["tx"].chan = thr["tx"].chan
    BY <1>2, <2>1, PcsFacts, ThreadsSplit DEF RxOK, TxOK, RxSame
  <2>3. InThreads'
    BY <2>1, <2>2, ThreadsKept
  <2>4. InHandles'
    BY <1>2, <2>2, HandlesSame
  <2>5. chan' \in [Conns -> Channels] /\ \A k \in Conns : ChanKept(k)
    BY <1>2 DEF InTypes, ChanKept
  <2>6. QED BY <1>2, <2>1, <2>3, <2>4, <2>5, PcsFacts
<1>3. CASE t = "tx" /\ thr[t].ev # "msg" /\ TxDone /\ chan' = Decref(chan, thr[t].chan)
  <2>1. /\ thr' \in [Threads -> ThrFields] /\ thr'["rx"] = thr["rx"]
        /\ TxOK(thr'["tx"]) /\ thr'["tx"].pc = "list" /\ thr'["tx"].chan = 0
    BY <1>3, TxDoneFacts
  <2>2. RxOK(thr'["rx"]) /\ RxSame /\ thr["tx"].chan \in Conns
    BY <1>3, <2>1, PcsFacts, ThreadsSplit DEF RxSame, TxOK
  <2>3. InThreads'
    BY <2>1, <2>2, ThreadsKept
  <2>4. InHandles' /\ chan' \in [Conns -> Channels] /\ \A k \in Conns : ChanKept(k)
    BY <1>3, <2>1, <2>2, HandlesDecref
  <2>5. thr'[t].pc \notin InSend /\ ~Speaks(t)' /\ \A u \in Threads \ {t} : thr'[u] = thr[u]
    BY <1>3, <2>1, PcsFacts DEF Speaks
  <2>6. QED BY <1>3, <2>1, <2>3, <2>4, <2>5
<1>4. QED BY <1>1, <1>2, <1>3 DEF AfterSend

(* A handle that the tx thread is done with.                                *)
LEMMA TxDecrefDev ==
  ASSUME DevInv, TxDone, thr["tx"].pc \in {"event", "msgs"}, UNCHANGED ns, UNCHANGED rings,
         UNCHANGED <<epts, haveHandles, stop, reset>>, chan' = Decref(chan, thr["tx"].chan),
         At("tx", "event") => ~Owned(thr["tx"].chan)
  PROVE  DevInv' /\ Silent
<1>1. InThreads /\ InTypes /\ InHandles /\ InFiles /\ InReset
  BY DEF DevInv
<1>2. /\ thr' \in [Threads -> ThrFields] /\ thr'["rx"] = thr["rx"]
      /\ TxOK(thr'["tx"]) /\ thr'["tx"].pc = "list" /\ thr'["tx"].chan = 0
  BY <1>1, TxDoneFacts
<1>3. RxOK(thr'["rx"]) /\ RxSame /\ thr["tx"].chan \in Conns
  BY <1>1, <1>2, PcsFacts, ThreadsSplit DEF RxSame, TxOK
<1>4. InThreads'
  BY <1>1, <1>2, <1>3, ThreadsKept
<1>5. InHandles' /\ chan' \in [Conns -> Channels] /\ \A k \in Conns : ChanKept(k)
  BY <1>1, <1>2, <1>3, HandlesDecref
<1>6. InTypes'
  BY <1>1, <1>5, TypesKept DEF InTypes, rings
<1>7. InReset'
  BY <1>1, <1>2, PcsFacts DEF InReset, At, ns
<1>8. \A k \in Conns : Pending(k) => Pending(k)'
  BY <1>2, <1>5 DEF Pending, ChanKept, Owned, At
<1>9. Silent
  BY <1>2, <1>5, <1>8, PcsFacts DEF Silent, Speaks, ChanKept, rings
<1>10. QED BY <1>1, <1>4, <1>5, <1>6, <1>7, <1>9, FilesKept DEF DevInv

(* The endpoint was taken down while the thread waited, or its messages     *)
(* have been sent.                                                          *)
LEMMA TxGoneDev ==
  ASSUME DevInv, TxGone \/ (TxGetMsg /\ TxDone /\ chan' = Decref(chan, thr["tx"].chan)),
         UNCHANGED ns
  PROVE  DevInv' /\ Silent
<1>1. InThreads /\ InHandles /\ InTypes
  BY DEF DevInv
<1>2. /\ TxDone /\ thr["tx"].pc \in {"event", "msgs"} /\ UNCHANGED rings
      /\ UNCHANGED <<epts, haveHandles, stop, reset>>
      /\ chan' = Decref(chan, thr["tx"].chan)
      /\ At("tx", "event") => chan[thr["tx"].chan].cookie = 0
  BY DEF TxGone, TxGetMsg, At
<1>3. thr["tx"].chan \in Conns
  BY <1>1, <1>2, ThreadsSplit DEF TxOK
<1>4. At("tx", "event") => ~Owned(thr["tx"].chan)
  BY <1>1, <1>2, <1>3 DEF InHandles, Handle
<1>5. QED BY <1>2, <1>4, TxDecrefDev

(* A channel changes, not what is known of its handle.                      *)
LEMMA HandleTouched ==
  ASSUME InTypes, InHandles, NEW c \in Conns, NEW x \in Channels, chan[c].st # "free",
         x.refs = chan[c].refs, x.listed = chan[c].listed, x.cookie = chan[c].cookie,
         x.st # "free", chan' = [chan EXCEPT ![c] = x], epts' = epts, RxSame,
         thr'["tx"].chan = thr["tx"].chan
  PROVE  InHandles' /\ chan' \in [Conns -> Channels]
         /\ \A k \in Conns : chan[k] = NoChan => chan'[k] = NoChan
<1>1. \A k \in Conns : (Owned(k)' <=> Owned(k)) /\ (InList(k)' <=> InList(k))
  BY DEF Owned, InList, At, RxSame
<1>2. /\ chan' \in [Conns -> Channels] /\ chan'[c] = x
      /\ \A k \in Conns \ {c} : chan'[k] = chan[k]
  BY DEF InTypes
<1>3. \A k \in Conns \ {c} : Handle(k)'
  BY <1>1, <1>2, HandleKept DEF InHandles
<1>4. Count(Owned(c))' = Count(Owned(c)) /\ Count(chan[c].listed)' = Count(chan[c].listed)
      /\ Count(thr["tx"].chan = c)' = Count(thr["tx"].chan = c)
  BY <1>1, <1>2 DEF Count
<1>5. Handle(c) /\ chan[c].refs # 0
  BY DEF InHandles, Handle
<1>6. Handle(c)'
  BY <1>1, <1>2, <1>4, <1>5 DEF Handle
<1>7. chan[c] # NoChan
  BY NoChanFacts
<1>8. QED BY <1>2, <1>3, <1>6, <1>7 DEF InHandles

(* Services accept, send and close.                                         *)
LEMMA SrvDev ==
  ASSUME DevInv, NEW c \in Conns, SrvAccept(c) \/ SrvSend(c) \/ SrvClose(c), UNCHANGED ns
  PROVE  DevInv' /\ Silent
<1>1. InThreads /\ InTypes /\ InHandles /\ InFiles /\ InReset /\ chan[c] \in Channels
  BY DEF DevInv, InTypes
<1>2. /\ UNCHANGED rings /\ UNCHANGED <<epts, thr, haveHandles, stop, reset>>
      /\ chan[c].st # "free"
  BY DEF SrvAccept, SrvSend, SrvClose
<1>3. \E x \in Channels :
        /\ chan' = [chan EXCEPT ![c] = x]
        /\ x.refs = chan[c].refs /\ x.listed = chan[c].listed /\ x.cookie = chan[c].cookie
        /\ x.st # "free"
        /\ chan[c].st # "connected" \/ chan[c].ready => x.st # "connected" \/ x.ready
  <2>1. CASE SrvAccept(c)
    <3> DEFINE x == [chan[c] EXCEPT !.st = "connected", !.ready = TRUE]
    <3>1. chan' = [chan EXCEPT ![c] = x]
      BY <2>1, <1>1 DEF SrvAccept, InTypes
    <3>2. x \in Channels /\ x.refs = chan[c].refs /\ x.listed = chan[c].listed
          /\ x.cookie = chan[c].cookie /\ x.st = "connected" /\ x.ready = TRUE
      BY <1>1 DEF Channels
    <3> HIDE DEF x
    <3>3. QED BY <3>1, <3>2
  <2>2. CASE SrvSend(c)
    <3> DEFINE x == [chan[c] EXCEPT !.msgs = @ + 1]
    <3>1. chan' = [chan EXCEPT ![c] = x]
      BY <2>2, <1>1 DEF SrvSend, InTypes
    <3>2. x \in Channels /\ x.refs = chan[c].refs /\ x.listed = chan[c].listed
          /\ x.cookie = chan[c].cookie /\ x.st = chan[c].st /\ x.ready = chan[c].ready
      BY <1>1 DEF Channels
    <3> HIDE DEF x
    <3>3. QED BY <1>2, <3>1, <3>2
  <2>3. CASE SrvClose(c)
    <3> DEFINE x == [chan[c] EXCEPT !.st = "closed"]
    <3>1. chan' = [chan EXCEPT ![c] = x]
      BY <2>3, <1>1 DEF SrvClose, InTypes
    <3>2. x \in Channels /\ x.refs = chan[c].refs /\ x.listed = chan[c].listed
          /\ x.cookie = chan[c].cookie /\ x.st = "closed"
      BY <1>1 DEF Channels
    <3> HIDE DEF x
    <3>3. QED BY <3>1, <3>2
  <2>4. QED BY <2>1, <2>2, <2>3
<1>4. PICK x \in Channels :
        /\ chan' = [chan EXCEPT ![c] = x]
        /\ x.refs = chan[c].refs /\ x.listed = chan[c].listed /\ x.cookie = chan[c].cookie
        /\ x.st # "free"
        /\ chan[c].st # "connected" \/ chan[c].ready => x.st # "connected" \/ x.ready
  BY <1>3
<1>5. RxSame
  BY <1>2 DEF RxSame
<1>6. InHandles' /\ chan' \in [Conns -> Channels]
      /\ \A k \in Conns : chan[k] = NoChan => chan'[k] = NoChan
  BY <1>1, <1>2, <1>4, <1>5, HandleTouched
<1>7. InThreads'
  BY <1>1, <1>2 DEF InThreads, Speaks, At
<1>8. InTypes'
  BY <1>1, <1>2, <1>6, TypesKept DEF InTypes, rings
<1>9. InReset'
  BY <1>1, <1>2 DEF InReset, At, ns
<1>10. \A k \in Conns : Pending(k) => Pending(k)'
  <2>1. chan'[c] = x /\ \A k \in Conns \ {c} : chan'[k] = chan[k]
    BY <1>1, <1>4 DEF InTypes
  <2>2. QED BY <1>2, <1>4, <2>1 DEF Pending, Owned, At
<1>11. Silent
  BY <1>2, <1>6, <1>10 DEF Silent, Speaks, rings
<1>12. QED BY <1>1, <1>6, <1>7, <1>8, <1>9, <1>11, FilesKept DEF DevInv

(* The tx thread has a message to send.                                     *)
LEMMA TxGetMsgDev ==
  ASSUME DevInv, TxGetMsg, chan[thr["tx"].chan].msgs > 0, UNCHANGED ns
  PROVE  DevInv' /\ Silent
<1> DEFINE c == thr["tx"].chan
           x == [chan[c] EXCEPT !.msgs = @ - 1]
<1>1. InThreads /\ InTypes /\ InHandles /\ InFiles /\ InReset /\ TxOK(thr["tx"])
      /\ RxOK(thr["rx"])
  BY ThreadsSplit DEF DevInv
<1>2. /\ UNCHANGED rings /\ UNCHANGED <<epts, haveHandles, stop, reset>>
      /\ thr["tx"].pc = "msgs" /\ Goto("tx", "send")
      /\ chan' = [chan EXCEPT ![c].msgs = @ - 1]
  <2>1. chan[c].msgs \in Nat
    BY <1>1 DEF TxGetMsg, At, TxOK, InTypes, Channels
  <2>2. chan[c].msgs # 0
    BY <2>1
  <2>3. QED BY <2>2 DEF TxGetMsg, At
<1>3. c \in Conns /\ chan[c] \in Channels
  BY <1>1, <1>2 DEF TxOK, InTypes
<1>4. chan' = [chan EXCEPT ![c] = x]
  BY <1>1, <1>2, <1>3 DEF InTypes
<1>5. x \in Channels /\ x.refs = chan[c].refs /\ x.listed = chan[c].listed
      /\ x.cookie = chan[c].cookie /\ x.st = chan[c].st /\ x.ready = chan[c].ready
  BY <1>3 DEF Channels
<1>6. chan[c].st # "free"
  <2>1. Handle(c) /\ Count(thr["tx"].chan = c) = 1
    BY <1>1, <1>3 DEF InHandles, Count
  <2>2. Count(Owned(c)) \in {0, 1} /\ Count(chan[c].listed) \in {0, 1}
    BY DEF Count
  <2>3. chan[c].refs # 0
    BY <2>1, <2>2 DEF Handle
  <2>4. QED BY <2>1, <2>3 DEF Handle
<1>7. /\ thr' \in [Threads -> ThrFields] /\ thr'["rx"] = thr["rx"]
      /\ thr'["tx"].pc = "send" /\ thr'["tx"].chan = thr["tx"].chan
      /\ thr'["tx"].ev = thr["tx"].ev /\ thr'["tx"].out = thr["tx"].out
  BY <1>1, <1>2, GotoFacts, PcsFacts
<1>8. RxSame /\ TxOK(thr'["tx"]) /\ RxOK(thr'["rx"])
  BY <1>1, <1>2, <1>7, PcsFacts DEF RxSame, TxOK
<1> HIDE DEF x
<1>9. InHandles' /\ chan' \in [Conns -> Channels]
      /\ \A k \in Conns : chan[k] = NoChan => chan'[k] = NoChan
  BY <1>1, <1>2, <1>3, <1>4, <1>5, <1>6, <1>7, <1>8, HandleTouched
<1>10. InThreads'
  BY <1>1, <1>2, <1>7, <1>8, ThreadsKept
<1>11. InTypes'
  BY <1>1, <1>2, <1>9, TypesKept DEF InTypes, rings
<1>12. InReset'
  BY <1>1, <1>2, <1>7 DEF InReset, At, ns
<1>13. \A k \in Conns : Pending(k) => Pending(k)'
  <2>1. chan'[c] = x /\ \A k \in Conns \ {c} : chan'[k] = chan[k]
    BY <1>1, <1>3, <1>4 DEF InTypes
  <2>2. QED BY <1>2, <1>5, <2>1 DEF Pending, Owned, At
<1>14. thr["tx"].out.type = "data"
  BY <1>1, <1>2 DEF TxOK
<1>15. Silent
  BY <1>2, <1>7, <1>9, <1>13, <1>14, PcsFacts DEF Silent, Speaks, rings
<1>16. QED BY <1>1, <1>9, <1>10, <1>11, <1>12, <1>15, FilesKept DEF DevInv

(* handle_list_wait returns a handle, with a reference.                     *)
LEMMA TxWaitDev ==
  ASSUME DevInv, NEW c \in Conns, TxWait(c), UNCHANGED ns
  PROVE  DevInv' /\ Silent
<1> DEFINE ev == EventOf(chan[c])
           x == [chan[c] EXCEPT !.refs = @ + 1, !.ready = IF ev = "ready" THEN FALSE ELSE @]
           y == [thr["tx"] EXCEPT !.pc = "event", !.chan = c, !.ev = ev]
<1>1. InThreads /\ InTypes /\ InHandles /\ InFiles /\ InReset /\ TxOK(thr["tx"])
      /\ RxOK(thr["rx"]) /\ chan[c] \in Channels /\ chan \in [Conns -> Channels]
  BY ThreadsSplit DEF DevInv, InTypes
<1>2. /\ UNCHANGED rings /\ UNCHANGED <<epts, haveHandles, stop, reset>>
      /\ thr["tx"].pc = "list" /\ chan[c].listed /\ ev # "none"
      /\ chan' = [chan EXCEPT ![c].refs = @ + 1, ![c].ready = IF ev = "ready" THEN FALSE ELSE @]
      /\ thr' = [thr EXCEPT !["tx"] = y]
  BY DEF TxWait, At
<1>3. ev \in {"none", "ready", "msg", "hup"}
  BY DEF EventOf
<1>22. chan[c].ready => ev = "ready"
  BY DEF EventOf
<1> HIDE DEF ev
<1>23. (IF ev = "ready" THEN FALSE ELSE chan[c].ready) \in BOOLEAN /\ chan[c].refs + 1 \in Nat
  <2>1. chan[c].ready \in BOOLEAN /\ chan[c].refs \in Nat
    BY <1>1 DEF Channels
  <2>2. (IF ev = "ready" THEN FALSE ELSE chan[c].ready) \in BOOLEAN
    BY <2>1, Zenon
  <2>3. chan[c].refs + 1 \in Nat
    BY <2>1
  <2>4. QED BY <2>2, <2>3
<1>4. x \in Channels /\ x.refs = chan[c].refs + 1 /\ x.listed = chan[c].listed
      /\ x.cookie = chan[c].cookie /\ x.st = chan[c].st
  BY <1>1, <1>23 DEF Channels
<1>6. chan' = [chan EXCEPT ![c] = x]
  BY <1>1, <1>2
<1>7. y \in ThrFields /\ y.pc = "event" /\ y.chan = c /\ y.ev = ev
  BY <1>1, <1>3, PcsFacts DEF TxOK, ThrFields
<1> HIDE DEF x, y
<1>8. thr' \in [Threads -> ThrFields] /\ thr'["rx"] = thr["rx"] /\ thr'["tx"] = y
  BY <1>1, <1>2, <1>7, ThreadTypes, PcsFacts
<1>9. RxSame /\ TxOK(thr'["tx"]) /\ RxOK(thr'["rx"]) /\ thr["tx"].chan = 0
  BY <1>1, <1>2, <1>7, <1>8, PcsFacts DEF RxSame, TxOK
<1>10. InThreads'
  BY <1>1, <1>2, <1>8, <1>9, ThreadsKept
<1>11. \A k \in Conns : (Owned(k)' <=> Owned(k)) /\ (InList(k)' <=> InList(k))
  BY <1>2, <1>9 DEF Owned, InList, At, RxSame
<1>12. chan' \in [Conns -> Channels] /\ chan'[c] = x
       /\ \A k \in Conns \ {c} : chan'[k] = chan[k]
  BY <1>1, <1>4, <1>6
<1>13. \A k \in Conns \ {c} : Handle(k)'
  <2> TAKE k \in Conns \ {c}
  <2>1. thr["tx"].chan # k /\ thr'["tx"].chan # k
    BY <1>7, <1>8, <1>9, Zero
  <2>2. QED BY <1>1, <1>2, <1>11, <1>12, <2>1, HandleKept DEF InHandles
<1>14. Handle(c)'
  <2>1. Handle(c) /\ Owned(c) /\ ~InList(c) /\ chan[c].refs = 2
    BY <1>1, <1>2, <1>9, ListedRefs, Zero DEF InHandles, Handle
  <2>2. Count(Owned(c))' = 1 /\ Count(chan[c].listed)' = 1 /\ Count(thr["tx"].chan = c)' = 1
    BY <1>2, <1>4, <1>7, <1>8, <1>11, <1>12, <2>1 DEF Count
  <2>3. (chan[c].refs)' = 3
    BY <1>4, <1>12, <2>1
  <2>4. (chan[c].refs = Count(Owned(c)) + Count(chan[c].listed) + Count(thr["tx"].chan = c))'
    BY <2>2, <2>3
  <2>5. x.st # "free" /\ x.refs # 0 /\ x.cookie # 0 /\ x.listed /\ epts[x.cookie].chan = c
    <3>1. x.refs # 0
      BY <1>4, <2>1
    <3>5. chan[c].refs # 0
      BY <2>1
    <3>2. chan[c].st # "free"
      BY <2>1, <3>5 DEF Handle
    <3>3. chan[c].cookie # 0 /\ epts[chan[c].cookie].chan = c
      BY <1>2, <2>1 DEF Handle
    <3>4. QED BY <1>2, <1>4, <3>1, <3>2, <3>3
  <2>6. QED BY <1>2, <1>11, <1>12, <2>1, <2>4, <2>5 DEF Handle
<1>15. InHandles'
  BY <1>1, <1>2, <1>13, <1>14 DEF InHandles
<1>16. InTypes'
  BY <1>1, <1>2, <1>12, TypesKept DEF InTypes, rings
<1>17. InReset'
  BY <1>1, <1>2, <1>7, <1>8 DEF InReset, At, ns
<1>18. \A k \in Conns : chan[k] = NoChan => chan'[k] = NoChan
  BY <1>2, <1>12, NoChanFacts
<1>19. \A k \in Conns : Pending(k) => Pending(k)'
  <2>1. ASSUME NEW k \in Conns \ {c}, Pending(k) PROVE Pending(k)'
    BY <1>2, <1>12, <2>1 DEF Pending, Owned, At
  <2>2. ASSUME Pending(c) PROVE Pending(c)'
    <3>1. Owned(c)' /\ (chan[c].st # "connected" \/ chan[c].ready)
      BY <1>2, <1>11, <2>2 DEF Pending, At
    <3>2. CASE chan[c].st # "connected"
      BY <1>4, <1>12, <3>1, <3>2 DEF Pending
    <3>3. CASE chan[c].ready
      <4>1. ev = "ready"
        BY <1>22, <3>3
      <4>2. QED BY <1>7, <1>8, <3>1, <4>1 DEF Pending, At
    <3>4. QED BY <3>1, <3>2, <3>3
  <2>3. QED BY <2>1, <2>2
<1>20. Silent
  BY <1>2, <1>7, <1>8, <1>18, <1>19, PcsFacts DEF Silent, Speaks, rings
<1>21. QED BY <1>1, <1>10, <1>15, <1>16, <1>17, <1>20, FilesKept DEF DevInv

(* A handle is listed.                                                      *)
LEMMA RxListDev ==
  ASSUME DevInv, RxList, UNCHANGED ns
  PROVE  DevInv' /\ Silent
<1>1. InThreads /\ InTypes /\ InHandles /\ InFiles /\ InReset /\ TxOK(thr["tx"])
      /\ RxOK(thr["rx"]) /\ ListOK(thr["rx"]) /\ chan \in [Conns -> Channels]
  BY ThreadsSplit DEF DevInv, InTypes
<1>21. thr["rx"].chan \in Slots /\ epts[thr["rx"].chan].chan \in Conns
  BY <1>1, EptFacts DEF ListOK, RxList, At
<1>22. PICK s \in Slots : s = thr["rx"].chan
  BY <1>21
<1>23. PICK c \in Conns : c = epts[s].chan
  BY <1>21, <1>22
<1> DEFINE x == [chan[c] EXCEPT !.cookie = s, !.listed = TRUE, !.refs = @ + 1]
<1>2. /\ UNCHANGED rings /\ UNCHANGED <<epts, haveHandles, stop, reset>>
      /\ thr["rx"].pc = "list" /\ Goto("rx", "signal") /\ chan' = [chan EXCEPT ![c] = x]
  BY <1>22, <1>23 DEF RxList, At, NewHandle
<1>3. Owned(c) /\ InList(c) /\ s # 0
  BY <1>2, <1>22, <1>23, Zero DEF Owned, InList, At
<1>4. chan[c] \in Channels /\ Handle(c) /\ thr["tx"].chan # c /\ ~chan[c].listed
  BY <1>1, <1>3 DEF InHandles, Handle
<1>5. chan[c].refs = 1
  <2>1. Count(Owned(c)) = 1 /\ Count(chan[c].listed) = 0 /\ Count(thr["tx"].chan = c) = 0
    BY <1>3, <1>4 DEF Count
  <2>2. QED BY <1>4, <2>1 DEF Handle
<1>6. x \in Channels /\ x.refs = chan[c].refs + 1 /\ x.listed = TRUE
      /\ x.cookie = s /\ x.st = chan[c].st /\ x.ready = chan[c].ready
  <2>1. chan[c].refs + 1 \in Nat /\ s \in Slots \cup {0}
    BY <1>5
  <2>2. QED BY <1>4, <2>1 DEF Channels
<1> HIDE DEF x
<1>7. /\ thr' \in [Threads -> ThrFields] /\ thr'["tx"] = thr["tx"]
      /\ thr'["rx"].pc = "signal"
  BY <1>1, <1>2, GotoFacts, PcsFacts
<1>8. TxOK(thr'["tx"]) /\ RxOK(thr'["rx"])
  BY <1>1, <1>2, <1>7, PcsFacts DEF RxOK
<1>9. InThreads'
  BY <1>7, <1>8, ThreadsSplitNext
<1>10. \A k \in Conns : (Owned(k)' <=> Owned(k)) /\ ~InList(k)' /\ (k # c => ~InList(k))
  BY <1>2, <1>7, <1>22, <1>23 DEF Owned, InList, At
<1>11. chan' \in [Conns -> Channels] /\ chan'[c] = x
       /\ \A k \in Conns \ {c} : chan'[k] = chan[k]
  BY <1>1, <1>2, <1>3, <1>6
<1>12. \A k \in Conns \ {c} : Handle(k)'
  BY <1>1, <1>2, <1>7, <1>10, <1>11, HandleKept DEF InHandles
<1>13. Handle(c)'
  <2>1. Count(Owned(c))' = 1 /\ Count(chan[c].listed)' = 1 /\ Count(thr["tx"].chan = c)' = 0
    BY <1>2, <1>3, <1>4, <1>6, <1>7, <1>10, <1>11 DEF Count
  <2>2. (chan[c].refs)' = 2 /\ (chan[c].refs)' # 0 /\ chan[c].refs # 0
    BY <1>5, <1>6, <1>11
  <2>3. (chan[c].refs = Count(Owned(c)) + Count(chan[c].listed) + Count(thr["tx"].chan = c))'
    BY <2>1, <2>2
  <2>4. x.st # "free"
    BY <1>4, <1>6, <2>2 DEF Handle
  <2>5. (chan[c].listed)' /\ (chan[c].cookie # 0)' /\ (epts[chan[c].cookie].chan = c)'
    BY <1>2, <1>3, <1>6, <1>11, <1>23
  <2>6. QED BY <1>3, <1>4, <1>7, <1>10, <1>11, <2>2, <2>3, <2>4, <2>5 DEF Handle
<1>14. InHandles'
  BY <1>1, <1>2, <1>12, <1>13 DEF InHandles
<1>15. InTypes'
  BY <1>1, <1>2, <1>11, TypesKept DEF InTypes, rings
<1>16. InReset'
  BY <1>1, <1>2, <1>7 DEF InReset, At, ns
<1>17. \A k \in Conns : chan[k] = NoChan => chan'[k] = NoChan
  BY <1>5, <1>11, NoChanFacts
<1>18. \A k \in Conns : Pending(k) => Pending(k)'
  BY <1>2, <1>6, <1>7, <1>10, <1>11 DEF Pending, At
<1>19. Silent
  BY <1>2, <1>7, <1>17, <1>18, PcsFacts DEF Silent, Speaks, rings
<1>20. QED BY <1>1, <1>9, <1>14, <1>15, <1>16, <1>19, FilesKept DEF DevInv

(* A thread is woken in tipc_send_data: it tries again, or gives up because *)
(* the device is being reset.                                               *)
LEMMA SendWokenDev ==
  ASSUME DevInv, NEW t \in Threads, SendWoken(t), UNCHANGED ns
  PROVE  DevInv' /\ Silent
<1>1. InThreads /\ InTypes /\ InHandles /\ InFiles /\ InReset /\ TxOK(thr["tx"])
      /\ RxOK(thr["rx"])
  BY ThreadsSplit DEF DevInv
<1>2. /\ UNCHANGED rings /\ UNCHANGED <<epts, haveHandles, stop, reset>>
      /\ thr[t].pc = "swoken"
  BY DEF SendWoken, At
<1>3. CASE ~stop["tx"] /\ Goto(t, "send") /\ UNCHANGED chan
  <2>1. /\ thr' \in [Threads -> ThrFields] /\ \A u \in Threads \ {t} : thr'[u] = thr[u]
        /\ thr'[t].pc = "send" /\ thr'[t].chan = thr[t].chan /\ thr'[t].ev = thr[t].ev
        /\ thr'[t].out = thr[t].out
    BY <1>1, <1>3, GotoFacts, PcsFacts
  <2>2. RxOK(thr'["rx"]) /\ TxOK(thr'["tx"]) /\ RxSame /\ thr'["tx"].chan = thr["tx"].chan
    BY <1>1, <1>2, <2>1, PcsFacts DEF RxOK, TxOK, RxSame
  <2>3. InThreads'
    BY <1>1, <1>2, <2>1, <2>2, ThreadsKept
  <2>4. InHandles'
    BY <1>1, <1>2, <1>3, <2>2, HandlesSame
  <2>5. InTypes'
    BY <1>1, <1>2, <1>3, TypesKept DEF InTypes, rings
  <2>6. InReset'
    BY <1>1, <1>2, <2>1, PcsFacts DEF InReset, At, ns
  <2>7. Silent
    BY <1>2, <1>3, <2>1, PcsFacts DEF Silent, Speaks, Pending, Owned, At, rings
  <2>8. QED BY <1>1, <2>3, <2>4, <2>5, <2>6, <2>7, FilesKept DEF DevInv
<1>4. CASE stop["tx"] /\ AfterSend(t)
  <2>1. Gone
    BY <1>1, <1>4 DEF InReset, Gone
  <2>2. /\ InThreads' /\ InHandles' /\ chan' \in [Conns -> Channels]
        /\ \A k \in Conns : ChanKept(k)
        /\ \A u \in Threads \ {t} : thr'[u] = thr[u]
        /\ thr'[t].pc \notin InSend
        /\ Speaks(t)' => thr'[t].out = thr[t].out /\ t = "tx"
        /\ t = "rx" => thr'[t].pc = AfterMsg
        /\ t = "tx" => thr'[t].pc \in {"list", "msgs"}
    BY <1>1, <1>2, <1>4, AfterSendFacts, PcsFacts
  <2>3. InTypes'
    BY <1>1, <1>2, <2>2, TypesKept DEF InTypes, rings
  <2>4. InReset'
    BY <1>1, <1>2, <2>2, PcsFacts DEF InReset, At, ns, AfterMsg
  <2>5. Silent
    BY <1>2, <2>1, <2>2, PcsFacts DEF Silent, Speaks, ChanKept, rings
  <2>6. QED BY <1>1, <2>2, <2>3, <2>4, <2>5, FilesKept DEF DevInv
<1>5. QED BY <1>3, <1>4 DEF SendWoken

(* tipc_dev_reset begins.                                                   *)
LEMMA RemoveDeviceDev ==
  ASSUME DevInv, RemoveDevice
  PROVE  DevInv' /\ Silent /\ UNCHANGED <<fd, conns, clean>> /\ (Gone' <=> Gone)
<1>1. InThreads /\ InTypes /\ InHandles /\ InFiles /\ InReset /\ TxOK(thr["tx"])
      /\ RxOK(thr["rx"])
  BY ThreadsSplit DEF DevInv
<1>2. /\ UNCHANGED <<toSec, room, toNs, epts, chan, haveHandles, fd, conns, clean>>
      /\ vds = "removing" /\ vds' = "dead" /\ reset' = "rxjoin" /\ reset = "no"
      /\ stop' = [stop EXCEPT !["rx"] = TRUE] /\ thr' = Woken("rx")
      /\ event' = [event EXCEPT !["rx"] = TRUE]
  BY DEF RemoveDevice, OffLine, ResetBegin, StopSignal, SignalAvail, Signalled
<1>3. /\ thr' \in [Threads -> ThrFields]
      /\ \A t \in Threads : /\ thr'[t].chan = thr[t].chan /\ thr'[t].ev = thr[t].ev
                             /\ thr'[t].out = thr[t].out
                             /\ thr'[t].pc \in Pcs[t]
                             /\ PcLike(thr'[t].pc, thr[t].pc)
      /\ thr'["rx"].pc # "wait"
  BY <1>1, <1>2, WokenFacts DEF Queues
<1>4. /\ thr'["rx"].chan = thr["rx"].chan /\ thr'["rx"].out = thr["rx"].out
      /\ thr'["rx"].pc \in Pcs["rx"] /\ PcLike(thr'["rx"].pc, thr["rx"].pc)
      /\ thr'["tx"].chan = thr["tx"].chan /\ thr'["tx"].out = thr["tx"].out
      /\ thr'["tx"].ev = thr["tx"].ev
      /\ thr'["tx"].pc \in Pcs["tx"] /\ PcLike(thr'["tx"].pc, thr["tx"].pc)
      /\ thr'["rx"] \in ThrFields /\ thr'["tx"] \in ThrFields
  BY <1>3, PcsFacts
<1>5. RxSame /\ thr'["tx"].chan = thr["tx"].chan
  BY <1>4 DEF RxSame, PcLike
<1>6. InThreads'
  <2>1. RxOK(thr'["rx"])
    BY <1>1, <1>4 DEF RxOK, PcLike
  <2>2. TxOK(thr'["tx"])
    BY <1>1, <1>4, PcsFacts DEF TxOK, PcLike
  <2>3. QED BY <1>1, <1>2, <1>3, <1>5, <2>1, <2>2, ThreadsKept
<1>7. InHandles'
  BY <1>1, <1>2, <1>5, HandlesSame
<1>8. InTypes'
  BY <1>1, <1>2 DEF InTypes, Threads, Queues
<1>9. InFiles'
  BY <1>1, <1>2 DEF InFiles, Linked, Gone
<1>10. InReset'
  <2>1. ~stop["tx"] /\ stop'["rx"] = TRUE /\ stop'["tx"] = stop["tx"]
    BY <1>1, <1>2, PcsFacts DEF InReset, InTypes
  <2>2. QED BY <1>2, <1>3, <2>1 DEF InReset, At
<1>11. Gone' /\ Gone
  BY <1>2 DEF Gone
<1>12. Silent
  <2>1. \A t \in Threads : Speaks(t)' <=> Speaks(t)
    BY <1>3 DEF Speaks, PcLike
  <2>2. \A t \in Threads : thr'[t].pc \in InSend <=> thr[t].pc \in InSend
    BY <1>3 DEF PcLike
  <2>3. QED BY <1>2, <1>3, <1>11, <2>1, <2>2 DEF Silent
<1>13. QED BY <1>1, <1>2, <1>6, <1>7, <1>8, <1>9, <1>10, <1>11, <1>12 DEF DevInv

----------------------------------------------------------------------------
(* Steps of the device that move a message or change an endpoint.           *)

(* What a step of the device leaves alone, the rings apart, keeps its type. *)
LEMMA TypesRings ==
  ASSUME InTypes, UNCHANGED ns,
         toSec' \in Seq(SecMsgs), Len(toSec') <= RxSize,
         toNs' \in Seq(NsMsgs \cup {Msg("online", 0, 0, 0)}),
         room' \in Nat, room' + Len(toNs') = TxSize,
         event' \in [Queues -> BOOLEAN], stop' \in [Threads -> BOOLEAN],
         haveHandles' \in BOOLEAN, reset' \in {"no", "rxjoin", "txjoin", "done", "panic"},
         epts' \in [Slots -> Endpoints], chan' \in [Conns -> Channels]
  PROVE  InTypes'
BY DEF InTypes, ns

(* A transmit buffer is filled.                                             *)
LEMMA FillTypes ==
  ASSUME InTypes, NEW m \in NsMsgs, FillBuffer(m)
  PROVE  /\ toNs' \in Seq(NsMsgs \cup {Msg("online", 0, 0, 0)})
         /\ room' \in Nat /\ room' + Len(toNs') = TxSize
         /\ toNs' = Append(toNs, m) /\ toSec' = toSec /\ event' = event
         /\ toSec \in Seq(SecMsgs) /\ Len(toSec) <= RxSize
<1>1. /\ toNs \in Seq(NsMsgs \cup {Msg("online", 0, 0, 0)}) /\ room \in Nat
      /\ room + Len(toNs) = TxSize /\ toSec \in Seq(SecMsgs) /\ Len(toSec) <= RxSize
  BY DEF InTypes
<1>2. /\ room > 0 /\ room' = room - 1 /\ toNs' = Append(toNs, m)
      /\ toSec' = toSec /\ event' = event
  BY DEF FillBuffer, Avail
<1> DEFINE S == NsMsgs \cup {Msg("online", 0, 0, 0)}
<1>3. m \in S
  OBVIOUS
<1> HIDE DEF S
<1>4. toNs' \in Seq(S) /\ Len(toNs') = Len(toNs) + 1 /\ Len(toNs) \in Nat
  BY <1>1, <1>2, <1>3, AppendFacts DEF S
<1>5. QED BY <1>1, <1>2, <1>4 DEF S

(* A message is taken from the driver.                                      *)
LEMMA TakeTypes ==
  ASSUME InTypes, TakeMessage
  PROVE  /\ toSec' \in Seq(SecMsgs) /\ Len(toSec') <= RxSize /\ toSec # <<>>
         /\ toSec' = Tail(toSec) /\ toNs' = toNs /\ room' = room /\ event' = event
         /\ toSec[1] \in SecMsgs /\ Head(toSec) = toSec[1] /\ toSec \in Seq(SecMsgs)
         /\ Len(toSec) \in Nat /\ Len(toSec) > 0 /\ Len(toSec') = Len(toSec) - 1
         /\ \A i \in 1..Len(toSec) - 1 : toSec'[i] = toSec[i + 1]
         /\ toSec[1].addr \in Addrs /\ toSec[1].id \in Conns
         /\ toSec[1].slot \in Slots \cup {0}
<1>1. toSec \in Seq(SecMsgs) /\ Len(toSec) <= RxSize
  BY DEF InTypes
<1>2. /\ toSec # <<>> /\ toSec' = Tail(toSec) /\ toNs' = toNs /\ room' = room
      /\ event' = event
  BY DEF TakeMessage, Avail
<1> DEFINE S == SecMsgs
<1> HIDE DEF S
<1>3. /\ Tail(toSec) \in Seq(S) /\ Len(Tail(toSec)) = Len(toSec) - 1 /\ Len(toSec) \in Nat
      /\ Len(toSec) > 0 /\ Head(toSec) = toSec[1] /\ toSec[1] \in S
      /\ \A i \in 1..Len(toSec) - 1 : Tail(toSec)[i] = toSec[i + 1]
  BY <1>1, <1>2, TailFacts DEF S
<1>4. toSec[1].addr \in Addrs /\ toSec[1].id \in Conns /\ toSec[1].slot \in Slots \cup {0}
  BY <1>3 DEF S, SecMsgs, MsgsOf
<1>5. Len(Tail(toSec)) <= RxSize
  BY <1>1, <1>3, RingsAssumption
<1>6. QED BY <1>1, <1>2, <1>3, <1>4, <1>5 DEF S

(* A message is sent to the driver.                                         *)
LEMMA SendFilledDev ==
  ASSUME DevInv, NEW t \in Threads, SendFilled(t), UNCHANGED ns
  PROVE  /\ DevInv' /\ toNs' = Append(toNs, thr[t].out) /\ thr[t].out \in NsMsgs
         /\ toSec' = toSec /\ epts' = epts /\ \A k \in Conns : ChanKept(k)
         /\ \A u \in Threads \ {t} : thr'[u] = thr[u]
         /\ thr[t].pc = "send" /\ thr'[t].pc \notin InSend
         /\ Speaks(t)' => thr'[t].out = thr[t].out /\ t = "tx"
         /\ t = "tx" => thr'[t].pc \in {"list", "msgs"}
<1>1. InThreads /\ InTypes /\ InHandles /\ InFiles /\ InReset /\ TxOK(thr["tx"])
      /\ RxOK(thr["rx"])
  BY ThreadsSplit DEF DevInv
<1>2. /\ thr[t].pc = "send" /\ FillBuffer(thr[t].out) /\ AfterSend(t)
      /\ UNCHANGED <<epts, haveHandles, stop, reset>>
  BY DEF SendFilled, At
<1>3. thr[t].out \in NsMsgs
  BY <1>1, <1>2, PcsFacts DEF RxOK, TxOK
<1>4. /\ toNs' \in Seq(NsMsgs \cup {Msg("online", 0, 0, 0)})
      /\ room' \in Nat /\ room' + Len(toNs') = TxSize
      /\ toNs' = Append(toNs, thr[t].out) /\ toSec' = toSec /\ event' = event
      /\ toSec \in Seq(SecMsgs) /\ Len(toSec) <= RxSize
  BY <1>1, <1>2, <1>3, FillTypes
<1>5. /\ InThreads' /\ InHandles' /\ chan' \in [Conns -> Channels]
      /\ \A k \in Conns : ChanKept(k)
      /\ \A u \in Threads \ {t} : thr'[u] = thr[u]
      /\ thr'[t].pc \notin InSend
      /\ Speaks(t)' => thr'[t].out = thr[t].out /\ t = "tx"
      /\ t = "rx" => thr'[t].pc = AfterMsg
      /\ t = "tx" => thr'[t].pc \in {"list", "msgs"}
  BY <1>1, <1>2, AfterSendFacts, PcsFacts
<1>6. InTypes'
  BY <1>1, <1>2, <1>4, <1>5, TypesRings DEF InTypes
<1>7. InReset'
  BY <1>1, <1>2, <1>5, PcsFacts DEF InReset, At, ns, AfterMsg
<1>8. QED BY <1>1, <1>2, <1>3, <1>4, <1>5, <1>6, <1>7, FilesKept DEF DevInv

(* The rx thread handles a message without keeping anything of it.          *)
LEMMA RxTakenDev ==
  ASSUME DevInv, RxChanMsg, UNCHANGED ns
  PROVE  /\ DevInv' /\ toSec' = Tail(toSec) /\ toNs' = toNs /\ epts' = epts /\ chan' = chan
         /\ toSec # <<>> /\ toSec[1].type = "data"
         /\ thr["rx"].pc = "get" /\ thr'["rx"].pc \in RxIdle /\ thr'["tx"] = thr["tx"]
<1>1. InThreads /\ InTypes /\ InHandles /\ InFiles /\ InReset /\ TxOK(thr["tx"])
  BY ThreadsSplit DEF DevInv
<1>2. /\ thr["rx"].pc = "get" /\ TakeMessage /\ Head(toSec).type = "data" /\ RxNext
      /\ UNCHANGED <<epts, chan, haveHandles, stop, reset>>
  BY DEF RxChanMsg, RxMsg, At
<1>3. /\ toSec' \in Seq(SecMsgs) /\ Len(toSec') <= RxSize /\ toSec # <<>>
      /\ toSec' = Tail(toSec) /\ toNs' = toNs /\ room' = room /\ event' = event
      /\ Head(toSec) = toSec[1]
  BY <1>1, <1>2, TakeTypes
<1>4. /\ thr' \in [Threads -> ThrFields] /\ thr'["tx"] = thr["tx"] /\ RxOK(thr'["rx"])
      /\ thr'["rx"].pc \in RxIdle /\ thr'["rx"].pc = AfterMsg
  BY <1>1, <1>2, RxNextFacts
<1>5. TxOK(thr'["tx"]) /\ RxSame /\ thr'["tx"].chan = thr["tx"].chan
  BY <1>1, <1>2, <1>4, PcsFacts DEF RxSame, RxIdle
<1>6. InThreads'
  BY <1>1, <1>2, <1>4, <1>5, ThreadsKept
<1>7. InHandles'
  BY <1>1, <1>2, <1>5, HandlesSame
<1>8. InTypes'
  BY <1>1, <1>2, <1>3, TypesRings DEF InTypes
<1>9. InReset'
  BY <1>1, <1>2, <1>4, PcsFacts DEF InReset, At, ns, RxIdle, AfterMsg
<1>10. QED BY <1>1, <1>2, <1>3, <1>4, <1>6, <1>7, <1>8, <1>9, FilesKept DEF DevInv

(* handle_conn_req refuses.                                                 *)
LEMMA RxRefuseDev ==
  ASSUME DevInv, RxMsg("conn"), Refused(Head(toSec)), UNCHANGED <<epts, chan>>, UNCHANGED ns
  PROVE  /\ DevInv' /\ toSec' = Tail(toSec) /\ toNs' = toNs
         /\ toSec # <<>> /\ toSec[1].type = "conn" /\ thr["rx"].pc = "get"
         /\ thr'["rx"].pc = "send" /\ thr'["tx"] = thr["tx"]
         /\ thr'["rx"].out = Msg("refuse", toSec[1].addr, 0, toSec[1].id)
<1>1. InThreads /\ InTypes /\ InHandles /\ InFiles /\ InReset /\ TxOK(thr["tx"])
  BY ThreadsSplit DEF DevInv
<1>2. /\ thr["rx"].pc = "get" /\ TakeMessage /\ Head(toSec).type = "conn"
      /\ UNCHANGED <<epts, chan, haveHandles, stop, reset>>
  BY DEF RxMsg, At
<1>3. /\ toSec' \in Seq(SecMsgs) /\ Len(toSec') <= RxSize /\ toSec # <<>>
      /\ toSec' = Tail(toSec) /\ toNs' = toNs /\ room' = room /\ event' = event
      /\ Head(toSec) = toSec[1] /\ toSec[1].addr \in Addrs /\ toSec[1].id \in Conns
  BY <1>1, <1>2, TakeTypes
<1> DEFINE m == Msg("refuse", toSec[1].addr, 0, toSec[1].id)
<1>4. m \in NsMsgs /\ m.type = "refuse"
  BY <1>3 DEF Msg, NsMsgs, MsgsOf
<1>5. Sends("rx", m)
  BY <1>3 DEF Refused
<1> HIDE DEF m
<1>6. /\ thr' \in [Threads -> ThrFields] /\ thr'["tx"] = thr["tx"]
      /\ RxOK(thr'["rx"]) /\ thr'["rx"].pc = "send" /\ thr'["rx"].out = m
  BY <1>1, <1>4, <1>5, RxSendsFacts
<1>7. TxOK(thr'["tx"]) /\ RxSame /\ thr'["tx"].chan = thr["tx"].chan
  BY <1>1, <1>2, <1>6, PcsFacts DEF RxSame
<1>8. InThreads'
  BY <1>1, <1>2, <1>6, <1>7, ThreadsKept
<1>9. InHandles'
  BY <1>1, <1>2, <1>7, HandlesSame
<1>10. InTypes'
  BY <1>1, <1>2, <1>3, TypesRings DEF InTypes
<1>11. InReset'
  BY <1>1, <1>2, <1>6, PcsFacts DEF InReset, At, ns
<1>12. QED BY <1>1, <1>2, <1>3, <1>6, <1>8, <1>9, <1>10, <1>11, FilesKept DEF DevInv, m

(* handle_conn_req makes a channel and its endpoint.                        *)
RxOpen(s, k, a) ==
  /\ FreeSlots # {} /\ s = Least(FreeSlots) /\ k = toSec[1].id /\ a = toSec[1].addr
  /\ epts' = [epts EXCEPT ![s] = [remote |-> a, chan |-> k]]
  /\ chan' = [chan EXCEPT ![k].st = "connecting", ![k].refs = 1]
  /\ thr' = [thr EXCEPT !["rx"].pc = "list", !["rx"].chan = s]

(* Then there is one more handle, with one reference, that nobody knew.     *)
LEMMA RxOpenDev ==
  ASSUME DevInv, RxMsg("conn"), UNCHANGED ns, NEW s \in Slots, NEW k \in Conns,
         NEW a \in Addrs, RxOpen(s, k, a), chan[k] = NoChan
  PROVE  /\ DevInv' /\ toSec' = Tail(toSec) /\ toNs' = toNs
         /\ toSec # <<>> /\ toSec[1].type = "conn" /\ thr["rx"].pc = "get"
         /\ thr'["rx"].pc = "list" /\ thr'["tx"] = thr["tx"]
         /\ epts'[s] = [remote |-> a, chan |-> k] /\ epts[s] = NoEpt
         /\ \A u \in Slots \ {s} : epts'[u] = epts[u]
         /\ chan'[k].st = "connecting" /\ chan'[k] # NoChan
         /\ \A j \in Conns \ {k} : chan'[j] = chan[j]
         /\ \A j \in Conns : Owned(j)' <=> Owned(j) \/ j = k
         /\ ~Owned(k) /\ thr["tx"].chan # k
<1>1. InThreads /\ InTypes /\ InHandles /\ InFiles /\ InReset /\ TxOK(thr["tx"])
      /\ RxOK(thr["rx"]) /\ chan \in [Conns -> Channels] /\ epts \in [Slots -> Endpoints]
      /\ thr \in [Threads -> ThrFields] /\ thr["rx"] \in ThrFields
  BY ThreadsSplit DEF DevInv, InTypes, RxOK
<1>2. /\ thr["rx"].pc = "get" /\ TakeMessage /\ Head(toSec).type = "conn"
      /\ UNCHANGED <<haveHandles, stop, reset>>
  BY DEF RxMsg, At
<1>3. /\ toSec' \in Seq(SecMsgs) /\ Len(toSec') <= RxSize /\ toSec # <<>>
      /\ toSec' = Tail(toSec) /\ toNs' = toNs /\ room' = room /\ event' = event
      /\ Head(toSec) = toSec[1]
  BY <1>1, <1>2, TakeTypes
<1>4. epts[s] = NoEpt /\ NoEpt.chan = 0
  <2>1. FreeSlots \in SUBSET Nat /\ FreeSlots # {}
    BY Zero DEF RxOpen, FreeSlots
  <2>2. s \in FreeSlots
    BY <2>1, LeastIn DEF RxOpen
  <2>3. QED BY <2>2 DEF FreeSlots, NoEpt
<1>5. ~Owned(k) /\ thr["tx"].chan # k
  <2>1. chan[k].refs = 0 /\ Handle(k)
    BY <1>1, NoChanFacts DEF InHandles
  <2>2. Count(Owned(k)) = 0 /\ Count(thr["tx"].chan = k) = 0
    <3>1. Count(Owned(k)) \in {0, 1} /\ Count(thr["tx"].chan = k) \in {0, 1}
          /\ Count(chan[k].listed) \in {0, 1}
      BY CountFacts
    <3>2. QED BY <2>1, <3>1 DEF Handle
  <2>3. QED BY <2>2 DEF Count
<1> DEFINE e == [remote |-> a, chan |-> k]
           x == [NoChan EXCEPT !.st = "connecting", !.refs = 1]
<1>6. /\ e \in Endpoints /\ e.chan = k /\ e.remote = a /\ e # NoEpt
  BY Zero DEF Endpoints, NoEpt
<1>7. /\ x \in Channels /\ x.st = "connecting" /\ x.refs = 1 /\ x.listed = FALSE
      /\ x.cookie = 0 /\ x # NoChan
  BY DEF NoChan, Channels
<1>8. chan' = [chan EXCEPT ![k] = x] /\ epts' = [epts EXCEPT ![s] = e]
  BY <1>1 DEF RxOpen
<1> HIDE DEF e, x
<1>9. /\ chan' \in [Conns -> Channels] /\ chan'[k] = x
      /\ \A j \in Conns \ {k} : chan'[j] = chan[j]
      /\ epts' \in [Slots -> Endpoints] /\ epts'[s] = e
      /\ \A u \in Slots \ {s} : epts'[u] = epts[u]
  BY <1>1, <1>6, <1>7, <1>8
<1>10. /\ thr' \in [Threads -> ThrFields] /\ thr'["tx"] = thr["tx"]
       /\ thr'["rx"].pc = "list" /\ thr'["rx"].chan = s
  BY <1>1, PcsFacts DEF RxOpen, ThrFields
<1>11. RxOK(thr'["rx"])
  BY <1>10, PcsFacts DEF RxOK
<1>12. InThreads'
  BY <1>1, <1>6, <1>9, <1>10, <1>11, ThreadsSplitNext
<1>13. \A j \in Conns : Owned(j)' <=> Owned(j) \/ j = k
  BY <1>4, <1>6, <1>9, Zero DEF Owned
<1>14. \A j \in Conns : (InList(j)' <=> j = k) /\ ~InList(j)
  BY <1>2, <1>6, <1>9, <1>10 DEF InList, At
<1>15. Handle(k)'
  <2>1. Count(Owned(k))' = 1 /\ Count(chan[k].listed)' = 0 /\ Count(thr["tx"].chan = k)' = 0
    BY <1>5, <1>7, <1>9, <1>10, <1>13 DEF Count
  <2>2. (chan[k].refs = Count(Owned(k)) + Count(chan[k].listed) + Count(thr["tx"].chan = k))'
    BY <1>7, <1>9, <2>1
  <2>3. (chan[k].refs)' # 0
    BY <1>7, <1>9
  <2>4. QED BY <1>5, <1>7, <1>9, <1>10, <1>13, <1>14, <2>2, <2>3 DEF Handle
<1>16. ASSUME NEW j \in Conns \ {k} PROVE Handle(j)'
  <2>1. Handle(j) /\ chan'[j] = chan[j]
    BY <1>1, <1>9 DEF InHandles
  <2>2. chan[j].listed => epts'[chan[j].cookie].chan = epts[chan[j].cookie].chan
    <3> SUFFICES ASSUME chan[j].listed
                 PROVE  epts'[chan[j].cookie].chan = epts[chan[j].cookie].chan
      OBVIOUS
    <3>1. chan[j].cookie # 0
      BY <2>1 DEF Handle
    <3>2. chan[j].cookie \in Slots \ {s}
      BY <1>1, <1>4, <3>1, CookieFacts
    <3>3. QED BY <1>9, <3>2
  <2>3. (Owned(j)' <=> Owned(j)) /\ (InList(j)' <=> InList(j))
    BY <1>13, <1>14
  <2>4. QED BY <1>10, <2>1, <2>2, <2>3, HandleKept
<1>17. \A u, v \in Slots : epts'[u].chan = epts'[v].chan /\ epts'[u] # NoEpt => u = v
  <2> SUFFICES ASSUME NEW u \in Slots, NEW v \in Slots, epts'[u].chan = epts'[v].chan,
                      epts'[u] # NoEpt
               PROVE  u = v
    OBVIOUS
  <2>1. \A w \in Slots : epts[w].chan # k
    BY <1>5 DEF Owned
  <2>2. QED BY <1>1, <1>6, <1>9, <2>1 DEF InHandles
<1>18. InHandles'
  BY <1>15, <1>16, <1>17 DEF InHandles
<1>19. InTypes'
  <2>1. /\ toNs' \in Seq(NsMsgs \cup {Msg("online", 0, 0, 0)}) /\ room' \in Nat
        /\ room' + Len(toNs') = TxSize /\ event' \in [Queues -> BOOLEAN]
        /\ stop' \in [Threads -> BOOLEAN] /\ haveHandles' \in BOOLEAN
        /\ reset' \in {"no", "rxjoin", "txjoin", "done", "panic"}
    BY <1>1, <1>2, <1>3 DEF InTypes
  <2>2. QED BY <1>1, <1>3, <1>9, <2>1, TypesRings
<1>20. InReset'
  BY <1>1, <1>2, <1>10, PcsFacts DEF InReset, At, ns
<1>21. QED
  BY <1>1, <1>2, <1>3, <1>4, <1>5, <1>7, <1>9, <1>10, <1>12, <1>13, <1>18, <1>19, <1>20,
     FilesKept DEF DevInv, e

(* The endpoint that a disconnect request is for belongs to its sender.     *)
LEMMA EptOfFacts ==
  ASSUME InTypes, NEW m
  PROVE  /\ EptOf(m) \in Slots \cup {0}
         /\ EptOf(m) # 0 => epts[EptOf(m)] # NoEpt /\ epts[EptOf(m)].remote = m.addr
         /\ EptOf(m) = 0 => \A s \in Slots : epts[s] # NoEpt => epts[s].remote # m.addr
<1> DEFINE mine == {s \in Slots : epts[s] # NoEpt /\ epts[s].remote = m.addr}
<1>1. EptOf(m) = IF m.slot \in mine THEN m.slot ELSE IF mine = {} THEN 0 ELSE Least(mine)
  BY DEF EptOf
<1>2. mine \in SUBSET Nat /\ mine \subseteq Slots
  BY Zero
<1>3. mine # {} => Least(mine) \in mine
  BY <1>2, LeastIn
<1>4. \A s \in Slots : s \in mine <=> epts[s] # NoEpt /\ epts[s].remote = m.addr
  OBVIOUS
<1> HIDE DEF mine
<1>5. EptOf(m) \in mine \/ (EptOf(m) = 0 /\ mine = {})
  BY <1>1, <1>3
<1>6. 0 \notin mine
  BY <1>2, Zero
<1>7. QED BY <1>2, <1>4, <1>5, <1>6

(* handle_disc_req.                                                         *)
LEMMA RxDiscReqDev ==
  ASSUME DevInv, RxDiscReq, UNCHANGED ns
  PROVE  /\ DevInv' /\ toSec' = Tail(toSec) /\ toNs' = toNs
         /\ toSec # <<>> /\ toSec[1].type = "disc" /\ thr["rx"].pc = "get"
         /\ thr'["rx"].pc \in RxIdle /\ thr'["tx"] = thr["tx"]
         /\ \A k \in Conns : ChanKept(k)
         /\ \/ /\ epts' = epts /\ \A u \in Slots : epts[u] # NoEpt => epts[u].remote # toSec[1].addr
            \/ \E s \in Slots :
                 /\ epts[s] # NoEpt /\ epts[s].remote = toSec[1].addr
                 /\ epts' = [epts EXCEPT ![s] = NoEpt]
<1>1. InThreads /\ InTypes /\ InHandles /\ InFiles /\ InReset /\ TxOK(thr["tx"])
  BY ThreadsSplit DEF DevInv
<1>2. /\ thr["rx"].pc = "get" /\ TakeMessage /\ Head(toSec).type = "disc" /\ RxNext
      /\ UNCHANGED <<haveHandles, stop, reset>>
  BY DEF RxDiscReq, RxMsg, At
<1>3. /\ toSec' \in Seq(SecMsgs) /\ Len(toSec') <= RxSize /\ toSec # <<>>
      /\ toSec' = Tail(toSec) /\ toNs' = toNs /\ room' = room /\ event' = event
      /\ Head(toSec) = toSec[1]
  BY <1>1, <1>2, TakeTypes
<1>4. /\ thr' \in [Threads -> ThrFields] /\ thr'["tx"] = thr["tx"] /\ RxOK(thr'["rx"])
      /\ thr'["rx"].pc \in RxIdle /\ thr'["rx"].pc = AfterMsg
  BY <1>1, <1>2, RxNextFacts
<1>5. TxOK(thr'["tx"]) /\ RxSame /\ thr'["tx"].chan = thr["tx"].chan
  BY <1>1, <1>2, <1>4, PcsFacts DEF RxSame, RxIdle
<1>6. InThreads'
  <2>1. thr'["rx"].pc # "list"
    BY <1>4 DEF RxIdle
  <2>2. QED BY <1>4, <1>5, <2>1, ThreadsSplitNext
<1>7. InReset'
  BY <1>1, <1>2, <1>4, PcsFacts DEF InReset, At, ns, RxIdle, AfterMsg
<1>8. /\ toNs' \in Seq(NsMsgs \cup {Msg("online", 0, 0, 0)}) /\ room' \in Nat
      /\ room' + Len(toNs') = TxSize /\ event' \in [Queues -> BOOLEAN]
      /\ stop' \in [Threads -> BOOLEAN] /\ haveHandles' \in BOOLEAN
      /\ reset' \in {"no", "rxjoin", "txjoin", "done", "panic"}
  BY <1>1, <1>2, <1>3 DEF InTypes
<1>9. CASE EptOf(toSec[1]) = 0 /\ UNCHANGED <<epts, chan>>
  <2>1. InHandles'
    BY <1>1, <1>5, <1>9, HandlesSame
  <2>2. InTypes'
    <3>1. epts' \in [Slots -> Endpoints] /\ chan' \in [Conns -> Channels]
      BY <1>1, <1>9 DEF InTypes
    <3>2. QED BY <1>1, <1>3, <1>8, <3>1, TypesRings
  <2>3. \A u \in Slots : epts[u] # NoEpt => epts[u].remote # toSec[1].addr
    BY <1>1, <1>9, EptOfFacts
  <2>4. QED
    BY <1>1, <1>2, <1>3, <1>4, <1>6, <1>7, <1>9, <2>1, <2>2, <2>3, FilesKept
    DEF DevInv, ChanKept
<1>10. CASE /\ EptOf(toSec[1]) # 0 /\ chan' = Detached(chan, epts[EptOf(toSec[1])].chan)
            /\ epts' = [epts EXCEPT ![EptOf(toSec[1])] = NoEpt]
  <2>1. PICK s \in Slots : s = EptOf(toSec[1]) /\ epts[s] # NoEpt
                            /\ epts[s].remote = toSec[1].addr
    BY <1>1, <1>10, EptOfFacts
  <2>2. PICK c \in Conns : c = epts[s].chan
    BY <1>1, <2>1, EptFacts
  <2>3. chan[c].listed
    <3>1. ~InList(c) /\ Owned(c)
      BY <1>2, <2>2 DEF InList, At, Owned
    <3>2. QED BY <1>1, <3>1 DEF InHandles, Handle
  <2>4. epts' = [epts EXCEPT ![s] = NoEpt] /\ chan' = Detached(chan, c)
    BY <1>10, <2>1, <2>2
  <2>5. /\ InHandles' /\ chan' \in [Conns -> Channels] /\ \A k \in Conns : ChanKept(k)
    BY <1>1, <1>5, <2>2, <2>3, <2>4, HandlesDetach
  <2>6. InTypes'
    <3>1. epts' \in [Slots -> Endpoints]
      BY <1>1, <2>4 DEF InTypes, Endpoints
    <3>2. QED BY <1>1, <1>3, <1>8, <2>5, <3>1, TypesRings
  <2>7. QED
    BY <1>1, <1>2, <1>3, <1>4, <1>6, <1>7, <2>1, <2>4, <2>5, <2>6, FilesKept DEF DevInv
<1>11. QED BY <1>3, <1>9, <1>10 DEF RxDiscReq

(* handle_ready and handle_tx_msg.                                          *)
LEMMA TxSpeaksDev ==
  ASSUME DevInv, TxReady \/ TxMsg, UNCHANGED ns
  PROVE  /\ DevInv' /\ UNCHANGED rings /\ epts' = epts /\ chan' = chan
         /\ thr["tx"].pc = "event" /\ thr'["rx"] = thr["rx"] /\ thr["tx"].chan \in Conns
         /\ \E s \in Slots :
              /\ epts[s].chan = thr["tx"].chan /\ epts[s] # NoEpt
              /\ \/ /\ thr'["tx"].pc = "send"
                    /\ thr'["tx"].out = Msg("accept", epts[s].remote, s, thr["tx"].chan)
                 \/ /\ thr["tx"].ev # "ready" /\ thr'["tx"].pc = "msgs"
                    /\ thr'["tx"].out = Msg("data", epts[s].remote, 0, thr["tx"].chan)
<1>1. InThreads /\ InTypes /\ InHandles /\ InFiles /\ InReset /\ TxOK(thr["tx"])
      /\ RxOK(thr["rx"]) /\ thr \in [Threads -> ThrFields] /\ thr["tx"] \in ThrFields
  BY ThreadsSplit DEF DevInv, TxOK
<1>2. /\ thr["tx"].pc = "event" /\ UNCHANGED rings /\ chan[thr["tx"].chan].cookie # 0
      /\ UNCHANGED <<epts, chan, haveHandles, stop, reset>>
  BY DEF TxReady, TxMsg, TxEvent, Cookie, At
<1>3. PICK c \in Conns : c = thr["tx"].chan
  BY <1>1, <1>2 DEF TxOK
<1>4. PICK s \in Slots : /\ s = chan[c].cookie /\ epts[s].chan = c /\ epts[s] # NoEpt
                         /\ epts[s].remote \in Addrs
  BY <1>1, <1>2, <1>3, CookieFacts
<1>5. Cookie = s /\ Remote = epts[s].remote
  BY <1>3, <1>4 DEF Cookie, Remote
<1>6. /\ thr' \in [Threads -> ThrFields] /\ thr'["rx"] = thr["rx"] /\ TxOK(thr'["tx"])
      /\ thr'["tx"].chan = thr["tx"].chan
      /\ \/ /\ thr'["tx"].pc = "send"
            /\ thr'["tx"].out = Msg("accept", epts[s].remote, s, c)
         \/ /\ thr["tx"].ev # "ready" /\ thr'["tx"].pc = "msgs"
            /\ thr'["tx"].out = Msg("data", epts[s].remote, 0, c)
  <2>1. CASE TxReady
    <3> DEFINE m == Msg("accept", epts[s].remote, s, c)
    <3>1. m \in NsMsgs /\ m.type = "accept" /\ m.id = c
      BY <1>4 DEF Msg, NsMsgs, MsgsOf
    <3>2. Sends("tx", m) /\ thr["tx"].ev = "ready"
      BY <1>3, <1>5, <2>1 DEF TxReady, TxEvent
    <3> HIDE DEF m
    <3>3. /\ thr' \in [Threads -> ThrFields] /\ thr'["rx"] = thr["rx"]
          /\ TxOK(thr'["tx"]) /\ thr'["tx"].pc = "send" /\ thr'["tx"].out = m
          /\ thr'["tx"].chan = thr["tx"].chan
      BY <1>1, <1>2, <1>3, <3>1, <3>2, TxSendsFacts DEF At
    <3>4. QED BY <3>3 DEF m
  <2>2. CASE TxMsg
    <3> DEFINE m == Msg("data", epts[s].remote, 0, c)
    <3>1. m \in NsMsgs /\ m.type = "data" /\ m.id = c
      BY <1>4 DEF Msg, NsMsgs, MsgsOf
    <3>2. thr' = [thr EXCEPT !["tx"].pc = "msgs", !["tx"].out = m] /\ thr["tx"].ev = "msg"
      BY <1>3, <1>5, <2>2 DEF TxMsg, TxEvent
    <3> HIDE DEF m
    <3>3. /\ thr' \in [Threads -> ThrFields] /\ thr'["rx"] = thr["rx"]
          /\ thr'["tx"].pc = "msgs" /\ thr'["tx"].out = m
          /\ thr'["tx"].chan = thr["tx"].chan /\ thr'["tx"].ev = thr["tx"].ev
      BY <1>1, <3>1, <3>2, PcsFacts DEF ThrFields
    <3>4. TxOK(thr'["tx"])
      BY <1>1, <1>2, <1>3, <3>1, <3>2, <3>3, PcsFacts DEF TxOK
    <3>5. QED BY <3>2, <3>3, <3>4 DEF m
  <2>3. QED BY <2>1, <2>2
<1>7. RxSame /\ RxOK(thr'["rx"])
  BY <1>1, <1>6 DEF RxSame
<1>8. InThreads'
  BY <1>1, <1>2, <1>6, <1>7, ThreadsKept
<1>9. InHandles'
  BY <1>1, <1>2, <1>6, <1>7, HandlesSame
<1>10. InTypes'
  BY <1>1, <1>2, TypesKept DEF InTypes, rings
<1>11. InReset'
  BY <1>1, <1>2, <1>6, PcsFacts DEF InReset, At, ns
<1>12. QED BY <1>1, <1>2, <1>3, <1>4, <1>6, <1>8, <1>9, <1>10, <1>11, FilesKept DEF DevInv

(* handle_hup.                                                              *)
LEMMA TxHupDev ==
  ASSUME DevInv, TxHup, UNCHANGED ns
  PROVE  /\ DevInv' /\ UNCHANGED rings /\ \A k \in Conns : ChanKept(k)
         /\ thr["tx"].pc = "event" /\ thr'["rx"] = thr["rx"] /\ thr["tx"].ev = "hup"
         /\ thr'["tx"].pc = "send"
         /\ \E s \in Slots :
              /\ epts[s].chan = thr["tx"].chan /\ epts[s] # NoEpt
              /\ epts' = [epts EXCEPT ![s] = NoEpt]
              /\ thr'["tx"].out = Msg("disc", epts[s].remote, s, thr["tx"].chan)
<1>1. InThreads /\ InTypes /\ InHandles /\ InFiles /\ InReset /\ TxOK(thr["tx"])
      /\ RxOK(thr["rx"]) /\ ListOK(thr["rx"])
  BY ThreadsSplit DEF DevInv
<1>2. /\ thr["tx"].pc = "event" /\ UNCHANGED rings /\ chan[thr["tx"].chan].cookie # 0
      /\ UNCHANGED <<haveHandles, stop, reset>> /\ thr["tx"].ev = "hup"
      /\ Sends("tx", Msg("disc", Remote, Cookie, thr["tx"].chan))
      /\ chan' = Detached(chan, thr["tx"].chan)
      /\ epts' = [epts EXCEPT ![Cookie] = NoEpt]
  BY DEF TxHup, TxEvent, Cookie, At
<1>3. PICK c \in Conns : c = thr["tx"].chan
  BY <1>1, <1>2 DEF TxOK
<1>4. PICK s \in Slots : /\ s = chan[c].cookie /\ epts[s].chan = c /\ epts[s] # NoEpt
                         /\ epts[s].remote \in Addrs /\ chan[c].listed /\ ~InList(c)
  BY <1>1, <1>2, <1>3, CookieFacts
<1>5. Cookie = s /\ Remote = epts[s].remote
  BY <1>3, <1>4 DEF Cookie, Remote
<1> DEFINE m == Msg("disc", epts[s].remote, s, c)
<1>6. m \in NsMsgs /\ m.type = "disc" /\ m.id = c
  BY <1>4 DEF Msg, NsMsgs, MsgsOf
<1>7. Sends("tx", m) /\ chan' = Detached(chan, c) /\ epts' = [epts EXCEPT ![s] = NoEpt]
  BY <1>2, <1>3, <1>5
<1> HIDE DEF m
<1>8. /\ thr' \in [Threads -> ThrFields] /\ thr'["rx"] = thr["rx"]
      /\ TxOK(thr'["tx"]) /\ thr'["tx"].pc = "send" /\ thr'["tx"].out = m
      /\ thr'["tx"].chan = thr["tx"].chan
  BY <1>1, <1>2, <1>3, <1>6, <1>7, TxSendsFacts DEF At
<1>9. RxSame /\ RxOK(thr'["rx"])
  BY <1>1, <1>8 DEF RxSame
<1>10. InThreads'
  <2>1. thr["rx"].pc = "list" => thr["rx"].chan \in Slots \ {s} /\ epts[thr["rx"].chan] # NoEpt
    BY <1>1, <1>4 DEF ListOK, InList, At
  <2>2. \A u \in Slots \ {s} : epts'[u] = epts[u]
    BY <1>1, <1>7 DEF InTypes
  <2>3. QED BY <1>8, <1>9, <2>1, <2>2, ThreadsSplitNext
<1>11. InHandles' /\ chan' \in [Conns -> Channels] /\ \A k \in Conns : ChanKept(k)
  BY <1>1, <1>4, <1>7, <1>8, <1>9, HandlesDetach
<1>12. InTypes'
  <2>1. epts' \in [Slots -> Endpoints]
    BY <1>1, <1>7 DEF InTypes, Endpoints
  <2>2. /\ toSec' \in Seq(SecMsgs) /\ Len(toSec') <= RxSize
        /\ toNs' \in Seq(NsMsgs \cup {Msg("online", 0, 0, 0)}) /\ room' \in Nat
        /\ room' + Len(toNs') = TxSize /\ event' \in [Queues -> BOOLEAN]
        /\ stop' \in [Threads -> BOOLEAN] /\ haveHandles' \in BOOLEAN
        /\ reset' \in {"no", "rxjoin", "txjoin", "done", "panic"}
    BY <1>1, <1>2 DEF InTypes, rings
  <2>3. QED BY <1>1, <1>11, <2>1, <2>2, TypesRings
<1>13. InReset'
  BY <1>1, <1>2, <1>8, PcsFacts DEF InReset, At, ns
<1>14. QED
  BY <1>1, <1>2, <1>3, <1>4, <1>7, <1>8, <1>10, <1>11, <1>12, <1>13, FilesKept DEF DevInv, m

(* tipc_dev_reset closes every channel.                                     *)
LEMMA ResetChannelsDev ==
  ASSUME DevInv, ResetChannels, UNCHANGED ns
  PROVE  /\ DevInv' /\ Gone /\ toSec' = toSec /\ toNs' = toNs
         /\ \A s \in Slots : epts'[s] = NoEpt
         /\ \A k \in Conns : chan[k] = NoChan => chan'[k] = NoChan
         /\ \A t \in Threads : (Speaks(t)' <=> Speaks(t)) /\ thr'[t].out = thr[t].out
                                /\ (thr'[t].pc \in InSend <=> thr[t].pc \in InSend)
<1>1. InThreads /\ InTypes /\ InHandles /\ InFiles /\ InReset /\ TxOK(thr["tx"])
      /\ RxOK(thr["rx"]) /\ chan \in [Conns -> Channels]
  BY ThreadsSplit DEF DevInv, InTypes
<1>2. /\ reset = "rxjoin" /\ thr["rx"].pc = "exited" /\ reset' = "txjoin"
      /\ stop' = [stop EXCEPT !["rx"] = FALSE, !["tx"] = TRUE] /\ epts' = [s \in Slots |-> NoEpt]
      /\ chan' = [c \in Conns |-> IF Owned(c) THEN Detached(chan, c)[c] ELSE chan[c]]
      /\ haveHandles' = TRUE /\ event' = [event EXCEPT !["tx"] = TRUE] /\ thr' = Woken("tx")
      /\ UNCHANGED <<toSec, room, toNs>>
  BY DEF ResetChannels, StopSignal, SignalAvail, Signalled, At, Owned
<1>3. /\ thr' \in [Threads -> ThrFields]
      /\ \A t \in Threads : /\ thr'[t].chan = thr[t].chan /\ thr'[t].ev = thr[t].ev
                             /\ thr'[t].out = thr[t].out
                             /\ thr'[t].pc \in Pcs[t]
                             /\ PcLike(thr'[t].pc, thr[t].pc)
  BY <1>1, <1>2, WokenFacts DEF Queues
<1>4. /\ thr'["rx"].chan = thr["rx"].chan /\ thr'["rx"].out = thr["rx"].out
      /\ thr'["rx"].pc \in Pcs["rx"] /\ PcLike(thr'["rx"].pc, thr["rx"].pc)
      /\ thr'["tx"].chan = thr["tx"].chan /\ thr'["tx"].out = thr["tx"].out
      /\ thr'["tx"].ev = thr["tx"].ev
      /\ thr'["tx"].pc \in Pcs["tx"] /\ PcLike(thr'["tx"].pc, thr["tx"].pc)
      /\ thr'["rx"] \in ThrFields /\ thr'["tx"] \in ThrFields
  BY <1>3, PcsFacts
<1>5. thr'["rx"].pc = "exited"
  BY <1>2, <1>4 DEF PcLike
<1>6. InThreads'
  <2>1. RxOK(thr'["rx"])
    BY <1>1, <1>4 DEF RxOK, PcLike
  <2>2. TxOK(thr'["tx"])
    BY <1>1, <1>4, PcsFacts DEF TxOK, PcLike
  <2>3. QED BY <1>3, <1>5, <2>1, <2>2, ThreadsSplitNext
<1>7. (\A s \in Slots : epts'[s] = NoEpt) /\ NoEpt.chan = 0
  BY <1>2 DEF NoEpt
<1>8. \A c \in Conns : ~Owned(c)' /\ ~InList(c)' /\ ~InList(c)
  BY <1>2, <1>5, <1>7, Zero DEF Owned, InList, At
<1>9. ASSUME NEW c \in Conns PROVE Handle(c)' /\ chan'[c] \in Channels
                                   /\ (chan[c] = NoChan => chan'[c] = NoChan)
  <2>1. Handle(c) /\ (chan[c].listed <=> Owned(c)) /\ chan[c] \in Channels
    BY <1>1, <1>8 DEF InHandles, Handle
  <2>2. CASE Owned(c)
    <3>1. chan'[c] = Detached(chan, c)[c] /\ chan[c].listed
      BY <1>2, <2>1, <2>2
    <3>2. QED BY <1>1, <1>4, <1>8, <3>1, HandleDetached, NoChanFacts
  <2>3. CASE ~Owned(c)
    <3>1. chan'[c] = chan[c] /\ ~chan[c].listed
      BY <1>2, <2>1, <2>3
    <3>2. QED BY <1>4, <1>8, <2>1, <2>3, <3>1, HandleKept
  <2>4. QED BY <2>2, <2>3
<1>10. chan' \in [Conns -> Channels]
  <2>1. chan' = [c \in Conns |-> chan'[c]]
    BY <1>2
  <2>2. QED BY <1>9, <2>1
<1>11. InHandles'
  BY <1>7, <1>9 DEF InHandles
<1>12. InTypes'
  <2>1. epts' \in [Slots -> Endpoints]
    BY <1>2 DEF Endpoints
  <2>2. stop' \in [Threads -> BOOLEAN]
    BY <1>1, <1>2 DEF InTypes
  <2>3. /\ toSec' \in Seq(SecMsgs) /\ Len(toSec') <= RxSize
        /\ toNs' \in Seq(NsMsgs \cup {Msg("online", 0, 0, 0)}) /\ room' \in Nat
        /\ room' + Len(toNs') = TxSize /\ event' \in [Queues -> BOOLEAN]
        /\ haveHandles' \in BOOLEAN
        /\ reset' \in {"no", "rxjoin", "txjoin", "done", "panic"}
    BY <1>1, <1>2 DEF InTypes, Queues
  <2>4. QED BY <1>1, <1>10, <2>1, <2>2, <2>3, TypesRings
<1>13. vds = "dead"
  BY <1>1, <1>2 DEF InReset
<1>14. InReset'
  <2>1. stop'["tx"] = TRUE
    BY <1>1, <1>2, PcsFacts DEF InTypes
  <2>2. QED BY <1>2, <1>5, <1>13, <2>1 DEF InReset, At, ns
<1>15. \A t \in Threads : (Speaks(t)' <=> Speaks(t)) /\ thr'[t].out = thr[t].out
                            /\ (thr'[t].pc \in InSend <=> thr[t].pc \in InSend)
  BY <1>3 DEF Speaks, PcLike
<1>16. QED
  BY <1>1, <1>2, <1>6, <1>7, <1>9, <1>11, <1>12, <1>13, <1>14, <1>15, FilesKept
  DEF DevInv, Gone

----------------------------------------------------------------------------
(* Steps of the driver.                                                     *)

(* There is an address for every file.                                      *)
LEMMA AddrLeft ==
  ASSUME NEW f \in Fds, fd[f].local = 0
  PROVE  FreeAddrs # {} /\ FreeAddrs \in SUBSET Addrs
<1>1. FreeAddrs \in SUBSET Addrs
  BY DEF FreeAddrs, Addrs
<1>2. SUFFICES ASSUME FreeAddrs = {} PROVE FALSE
  BY <1>1
<1>3. \A a \in Addrs : \E g \in Fds : fd[g].local = a
  BY <1>2 DEF FreeAddrs, Addrs
<1> DEFINE h == [a \in Addrs |-> CHOOSE g \in Fds : fd[g].local = a]
<1>4. \A a \in Addrs : h[a] \in Fds /\ fd[h[a]].local = a
  BY <1>3
<1>5. h \in [Addrs -> Fds \ {f}]
  <2>1. \A a \in Addrs : (CHOOSE g \in Fds : fd[g].local = a) \in Fds \ {f}
    BY <1>3, Zero
  <2>2. QED BY <2>1
<1>6. IsFiniteSet(Addrs) /\ Cardinality(Addrs) = Cardinality(Fds)
  <2>1. Cardinality(Fds) \in Nat /\ 1 \in Int /\ Cardinality(Fds) \in Int
    BY Zero
  <2>2. IsFiniteSet(1..Cardinality(Fds))
        /\ Cardinality(1..Cardinality(Fds)) = IF 1 > Cardinality(Fds) THEN 0 ELSE Cardinality(Fds) - 1 + 1
    BY <2>1, FS_Interval
  <2>3. QED BY <2>1, <2>2 DEF Addrs
<1>7. IsFiniteSet(Fds \ {f}) /\ Cardinality(Fds \ {f}) = Cardinality(Fds) - 1
  BY FdsAssumption, FS_RemoveElement
<1>8. Cardinality(Fds \ {f}) < Cardinality(Addrs)
  BY <1>6, <1>7, Zero
<1> HIDE DEF h
<1>9. \E x, y \in Addrs : x # y /\ h[x] = h[y]
  BY <1>5, <1>6, <1>7, <1>8, FS_PigeonHole
<1>10. QED BY <1>4, <1>9

IsLinked(x) == x.state \in {"CONNECTING", "CONNECTED"}

(* One file changes.                                                        *)
LEMMA FileUpdated ==
  ASSUME InTypes, InFiles, NEW f \in Fds, NEW x \in Files, fd' = [fd EXCEPT ![f] = x],
         conns' \in conns..MaxConn, vds' = vds,
         x.local = 0 <=> x.state = "CLOSED", x.state # "CLOSED" => vds # "boot",
         x.local # 0 => x.local = fd[f].local \/ \A g \in Fds : fd[g].local # x.local,
         IsLinked(x) => ~Gone /\ \/ Linked(f) /\ x.id = fd[f].id
                                 \/ x.id = conns + 1 /\ conns' = conns + 1,
         x.dn = "CONNECTED" => x.state = "CONNECTED"
  PROVE  /\ InFiles' /\ fd' \in [Fds -> Files] /\ fd'[f] = x
         /\ \A g \in Fds \ {f} : fd'[g] = fd[g]
<1>1. fd \in [Fds -> Files] /\ conns \in Nat /\ conns' \in Nat /\ conns <= conns'
  BY DEF InTypes
<1>2. fd' \in [Fds -> Files] /\ fd'[f] = x /\ \A g \in Fds \ {f} : fd'[g] = fd[g]
  BY <1>1
<1>3. \A g, h \in Fds : fd'[g].local = fd'[h].local /\ fd'[g].local # 0 => g = h
  <2> SUFFICES ASSUME NEW g \in Fds, NEW h \in Fds, fd'[g].local = fd'[h].local,
                      fd'[g].local # 0, g # h
               PROVE  FALSE
    OBVIOUS
  <2>1. CASE g = f
    BY <1>2, <2>1 DEF InFiles
  <2>2. CASE h = f
    BY <1>2, <2>2 DEF InFiles
  <2>3. CASE g # f /\ h # f
    BY <1>2, <2>3 DEF InFiles
  <2>4. QED BY <2>1, <2>2, <2>3
<1>4. \A g \in Fds : Linked(g)' => \/ g # f /\ Linked(g) /\ fd'[g].id = fd[g].id
                                   \/ g = f /\ Linked(f) /\ fd'[g].id = fd[g].id
                                   \/ g = f /\ fd'[g].id = conns + 1 /\ conns' = conns + 1
  BY <1>2 DEF Linked, IsLinked
<1>5. \A g \in Fds : Linked(g) => fd[g].id \in 1..conns
  BY DEF InFiles
<1>6. \A g \in Fds : Linked(g)' => fd'[g].id \in 1..conns'
  BY <1>1, <1>4, <1>5
<1>7. \A g, h \in Fds : Linked(g)' /\ Linked(h)' /\ fd'[g].id = fd'[h].id => g = h
  <2> SUFFICES ASSUME NEW g \in Fds, NEW h \in Fds, Linked(g)', Linked(h)',
                      fd'[g].id = fd'[h].id
               PROVE  g = h
    OBVIOUS
  <2>1. conns + 1 \notin 1..conns
    BY <1>1
  <2>2. QED BY <1>4, <1>5, <2>1 DEF InFiles
<1>8. Gone' => \A g \in Fds : ~Linked(g)'
  BY <1>2 DEF Gone, InFiles, Linked, IsLinked
<1>9. \A g \in Fds : /\ fd'[g].local = 0 <=> fd'[g].state = "CLOSED"
                     /\ fd'[g].dn = "CONNECTED" => fd'[g].state = "CONNECTED"
                     /\ vds' = "boot" => fd'[g].state = "CLOSED"
  BY <1>2 DEF InFiles
<1>10. QED BY <1>2, <1>3, <1>6, <1>7, <1>8, <1>9 DEF InFiles

(* The device does not move.                                                *)
LEMMA DevSame ==
  ASSUME InTypes, InThreads, InHandles, InReset, UNCHANGED dev, vds = "dead" => vds' = "dead"
  PROVE  InThreads' /\ InHandles' /\ InReset'
<1>1. thr' = thr /\ epts' = epts /\ chan' = chan /\ haveHandles' = haveHandles
      /\ stop' = stop /\ reset' = reset
  BY DEF dev
<1>2. InThreads'
  BY <1>1 DEF InThreads, Speaks, At
<1>3. InHandles'
  BY <1>1, HandlesSame DEF RxSame
<1>4. InReset'
  BY <1>1 DEF InReset, At
<1>5. QED BY <1>2, <1>3, <1>4

(* Types after a step of the driver.                                        *)
LEMMA TypesDriver ==
  ASSUME InTypes, UNCHANGED dev,
         toSec' \in Seq(SecMsgs), Len(toSec') <= RxSize,
         toNs' \in Seq(NsMsgs \cup {Msg("online", 0, 0, 0)}),
         room' \in Nat, room' + Len(toNs') = TxSize, event' = event,
         clean' \in BOOLEAN, vds' \in {"boot", "online", "removing", "dead"},
         conns' \in 0..MaxConn, fd' \in [Fds -> Files]
  PROVE  InTypes'
BY DEF InTypes, dev

(* The driver queues a message.                                             *)
LEMMA QueueTypes ==
  ASSUME InTypes, NEW m \in SecMsgs, QueueMessage(m)
  PROVE  /\ toSec' \in Seq(SecMsgs) /\ Len(toSec') <= RxSize
         /\ toNs' \in Seq(NsMsgs \cup {Msg("online", 0, 0, 0)})
         /\ room' \in Nat /\ room' + Len(toNs') = TxSize /\ event' = event
         /\ toSec' = Append(toSec, m) /\ toNs' = toNs /\ toSec \in Seq(SecMsgs)
         /\ Len(toSec) \in Nat /\ Len(toSec') = Len(toSec) + 1
         /\ \A i \in 1..Len(toSec) : toSec'[i] = toSec[i]
         /\ toSec'[Len(toSec) + 1] = m
<1>1. /\ toNs \in Seq(NsMsgs \cup {Msg("online", 0, 0, 0)}) /\ room \in Nat
      /\ room + Len(toNs) = TxSize /\ toSec \in Seq(SecMsgs)
  BY DEF InTypes
<1>2. /\ Len(toSec) < RxSize /\ toSec' = Append(toSec, m) /\ toNs' = toNs
      /\ room' = room /\ event' = event
  BY DEF QueueMessage
<1> DEFINE S == SecMsgs
<1> HIDE DEF S
<1>3. /\ Append(toSec, m) \in Seq(S) /\ Len(Append(toSec, m)) = Len(toSec) + 1
      /\ Len(toSec) \in Nat
      /\ \A i \in 1..Len(toSec) : Append(toSec, m)[i] = toSec[i]
      /\ Append(toSec, m)[Len(toSec) + 1] = m
  BY <1>1, AppendFacts DEF S
<1>4. Len(toSec') <= RxSize
  BY <1>2, <1>3, RingsAssumption
<1>5. QED BY <1>1, <1>2, <1>3, <1>4 DEF S

(* The driver takes a message and gives its buffer back.                    *)
LEMMA ReplyTypes ==
  ASSUME InTypes, TakeReply
  PROVE  /\ toNs' \in Seq(NsMsgs \cup {Msg("online", 0, 0, 0)})
         /\ room' \in Nat /\ room' + Len(toNs') = TxSize /\ event' = event
         /\ toSec' = toSec /\ toSec' \in Seq(SecMsgs) /\ Len(toSec') <= RxSize
         /\ toNs' = Tail(toNs) /\ toNs # <<>> /\ Reply = toNs[1]
         /\ toNs[1] \in NsMsgs \cup {Msg("online", 0, 0, 0)}
         /\ toNs \in Seq(NsMsgs \cup {Msg("online", 0, 0, 0)})
         /\ Len(toNs) \in Nat /\ Len(toNs) > 0 /\ Len(toNs') = Len(toNs) - 1
         /\ \A i \in 1..Len(toNs) - 1 : toNs'[i] = toNs[i + 1]
<1> DEFINE S == NsMsgs \cup {Msg("online", 0, 0, 0)}
<1>1. /\ toNs \in Seq(S) /\ room \in Nat
      /\ room + Len(toNs) = TxSize /\ toSec \in Seq(SecMsgs) /\ Len(toSec) <= RxSize
  BY DEF InTypes
<1>2. /\ toNs # <<>> /\ toNs' = Tail(toNs) /\ toSec' = toSec
      /\ room' = room + 1 /\ event' = event
  BY DEF TakeReply
<1> HIDE DEF S
<1>3. /\ Tail(toNs) \in Seq(S) /\ Len(Tail(toNs)) = Len(toNs) - 1
      /\ Len(toNs) \in Nat /\ Len(toNs) > 0 /\ Head(toNs) = toNs[1] /\ toNs[1] \in S
      /\ \A i \in 1..Len(toNs) - 1 : Tail(toNs)[i] = toNs[i + 1]
  BY <1>1, <1>2, TailFacts
<1>4. room' \in Nat /\ room' + Len(toNs') = TxSize
  BY <1>1, <1>2, <1>3
<1>5. QED BY <1>1, <1>2, <1>3, <1>4 DEF S, Reply

FilesQuiet ==
  \A g \in Fds :
    /\ Linked(g)' <=> Linked(g)
    /\ Linked(g) => /\ fd'[g].state = fd[g].state /\ fd'[g].id = fd[g].id
                    /\ fd'[g].local = fd[g].local /\ fd'[g].remote = fd[g].remote

(* tipc_open.                                                               *)
LEMMA OpenDev ==
  ASSUME DevInv, NEW f \in Fds, Open(f), UNCHANGED dev
  PROVE  DevInv' /\ FilesQuiet
<1>1. InThreads /\ InTypes /\ InHandles /\ InFiles /\ InReset /\ fd \in [Fds -> Files]
      /\ conns \in 0..MaxConn /\ MaxConn \in Nat
  BY RingsAssumption DEF DevInv, InTypes
<1>2. /\ vds = "online" /\ fd[f].state = "CLOSED" /\ UNCHANGED rings
      /\ vds' = vds /\ conns' = conns /\ clean' = clean
      /\ fd' = [fd EXCEPT ![f] = [Closed EXCEPT !.local = Least(FreeAddrs),
                                                !.state = "DISCONNECTED"]]
  BY DEF Open, IsOpen
<1>3. fd[f].local = 0
  BY <1>1, <1>2 DEF InFiles
<1>4. FreeAddrs # {} /\ FreeAddrs \in SUBSET Addrs /\ FreeAddrs \in SUBSET Nat
  BY <1>3, AddrLeft, Zero
<1>5. PICK a \in FreeAddrs : a = Least(FreeAddrs)
  BY <1>4, LeastIn
<1>6. a \in Addrs /\ a # 0 /\ \A g \in Fds : fd[g].local # a
  BY <1>4, Zero DEF FreeAddrs
<1> DEFINE x == [Closed EXCEPT !.local = a, !.state = "DISCONNECTED"]
<1>7. /\ x \in Files /\ x.local = a /\ x.state = "DISCONNECTED" /\ x.dn = "DISCONNECTED"
  BY <1>6 DEF Closed, Files
<1>8. fd' = [fd EXCEPT ![f] = x]
  BY <1>2, <1>5
<1> HIDE DEF x
<1>9. conns' \in conns..MaxConn /\ ~IsLinked(x)
  BY <1>1, <1>2, <1>7 DEF IsLinked
<1>10. /\ InFiles' /\ fd' \in [Fds -> Files] /\ fd'[f] = x
       /\ \A g \in Fds \ {f} : fd'[g] = fd[g]
  BY <1>1, <1>2, <1>6, <1>7, <1>8, <1>9, FileUpdated
<1>11. InTypes'
  BY <1>1, <1>2, <1>10 DEF InTypes, dev, rings
<1>12. InThreads' /\ InHandles' /\ InReset'
  BY <1>1, <1>2, DevSame
<1>13. FilesQuiet
  BY <1>2, <1>7, <1>10 DEF FilesQuiet, Linked
<1>14. QED BY <1>10, <1>11, <1>12, <1>13 DEF DevInv

(* A thread begins or ends to wait for a reply.                             *)
LEMMA CallDev ==
  ASSUME DevInv, NEW f \in Fds, ConnectAgain(f) \/ WaitReply(f), UNCHANGED dev
  PROVE  DevInv' /\ FilesQuiet
<1>1. InThreads /\ InTypes /\ InHandles /\ InFiles /\ InReset /\ fd \in [Fds -> Files]
      /\ conns \in 0..MaxConn /\ MaxConn \in Nat /\ fd[f] \in Files
  BY RingsAssumption DEF DevInv, InTypes
<1>2. /\ UNCHANGED rings /\ vds' = vds /\ conns' = conns /\ clean' = clean
  BY DEF ConnectAgain, WaitReply
<1>3. \E x \in Files :
        /\ fd' = [fd EXCEPT ![f] = x] /\ x.local = fd[f].local /\ x.remote = fd[f].remote
        /\ x.id = fd[f].id /\ x.state = fd[f].state /\ x.dn \in {fd[f].dn, "STALE"}
  <2>1. CASE fd' = [fd EXCEPT ![f].call = TRUE]
    <3> DEFINE x == [fd[f] EXCEPT !.call = TRUE]
    <3>1. fd' = [fd EXCEPT ![f] = x]
      BY <1>1, <2>1
    <3>2. /\ x \in Files /\ x.local = fd[f].local /\ x.remote = fd[f].remote
          /\ x.id = fd[f].id /\ x.state = fd[f].state /\ x.dn = fd[f].dn
      BY <1>1 DEF Files
    <3> HIDE DEF x
    <3>3. QED BY <3>1, <3>2
  <2>2. CASE fd[f].comp > 0 /\ fd' = [fd EXCEPT ![f].call = FALSE, ![f].comp = @ - 1]
    <3> DEFINE x == [fd[f] EXCEPT !.call = FALSE, !.comp = @ - 1]
    <3>1. fd' = [fd EXCEPT ![f] = x]
      BY <1>1, <2>2
    <3>2. fd[f].comp - 1 \in Nat
      BY <1>1, <2>2 DEF Files
    <3>3. /\ x \in Files /\ x.local = fd[f].local /\ x.remote = fd[f].remote
          /\ x.id = fd[f].id /\ x.state = fd[f].state /\ x.dn = fd[f].dn
      BY <1>1, <3>2 DEF Files
    <3> HIDE DEF x
    <3>4. QED BY <3>1, <3>3
  <2>3. CASE fd' = [fd EXCEPT ![f].call = FALSE, ![f].dn = "STALE"]
    <3> DEFINE x == [fd[f] EXCEPT !.call = FALSE, !.dn = "STALE"]
    <3>1. fd' = [fd EXCEPT ![f] = x]
      BY <1>1, <2>3
    <3>2. /\ x \in Files /\ x.local = fd[f].local /\ x.remote = fd[f].remote
          /\ x.id = fd[f].id /\ x.state = fd[f].state /\ x.dn = "STALE"
      BY <1>1 DEF Files
    <3> HIDE DEF x
    <3>3. QED BY <3>1, <3>2
  <2>4. CASE fd' = [fd EXCEPT ![f].call = FALSE]
    <3> DEFINE x == [fd[f] EXCEPT !.call = FALSE]
    <3>1. fd' = [fd EXCEPT ![f] = x]
      BY <1>1, <2>4
    <3>2. /\ x \in Files /\ x.local = fd[f].local /\ x.remote = fd[f].remote
          /\ x.id = fd[f].id /\ x.state = fd[f].state /\ x.dn = fd[f].dn
      BY <1>1 DEF Files
    <3> HIDE DEF x
    <3>3. QED BY <3>1, <3>2
  <2>5. QED BY <2>1, <2>2, <2>3, <2>4 DEF ConnectAgain, WaitReply
<1>4. PICK x \in Files :
        /\ fd' = [fd EXCEPT ![f] = x] /\ x.local = fd[f].local /\ x.remote = fd[f].remote
        /\ x.id = fd[f].id /\ x.state = fd[f].state /\ x.dn \in {fd[f].dn, "STALE"}
  BY <1>3
<1>5. /\ conns' \in conns..MaxConn /\ (IsLinked(x) => Linked(f))
      /\ (x.local = 0 <=> x.state = "CLOSED") /\ (x.state # "CLOSED" => vds # "boot")
      /\ (x.dn = "CONNECTED" => x.state = "CONNECTED") /\ (Linked(f) => ~Gone)
  BY <1>1, <1>2, <1>4 DEF IsLinked, Linked, InFiles
<1>6. /\ InFiles' /\ fd' \in [Fds -> Files] /\ fd'[f] = x
      /\ \A g \in Fds \ {f} : fd'[g] = fd[g]
  BY <1>1, <1>2, <1>4, <1>5, FileUpdated
<1>7. InTypes'
  BY <1>1, <1>2, <1>6 DEF InTypes, dev, rings
<1>8. InThreads' /\ InHandles' /\ InReset'
  BY <1>1, <1>2, DevSame
<1>9. FilesQuiet
  BY <1>4, <1>6 DEF FilesQuiet, Linked
<1>10. QED BY <1>6, <1>7, <1>8, <1>9 DEF DevInv

(* dn_connect_ioctl.                                                        *)
LEMMA ConnectDev ==
  ASSUME DevInv, NEW f \in Fds, Connect(f), UNCHANGED dev
  PROVE  /\ DevInv' /\ fd[f].state = "DISCONNECTED" /\ vds = "online"
         /\ vds' = vds /\ clean' = clean /\ toNs' = toNs
         /\ conns' = conns + 1 /\ conns + 1 \in Conns /\ fd[f].local \in Addrs
         /\ toSec' = Append(toSec, Msg("conn", fd[f].local, 0, conns + 1))
         /\ Msg("conn", fd[f].local, 0, conns + 1) \in SecMsgs
         /\ fd'[f].state = "CONNECTING" /\ fd'[f].id = conns + 1
         /\ fd'[f].local = fd[f].local /\ \A g \in Fds \ {f} : fd'[g] = fd[g]
<1>1. InThreads /\ InTypes /\ InHandles /\ InFiles /\ InReset /\ fd \in [Fds -> Files]
      /\ conns \in 0..MaxConn /\ MaxConn \in Nat /\ fd[f] \in Files
  BY RingsAssumption DEF DevInv, InTypes
<1>2. /\ vds = "online" /\ fd[f].state = "DISCONNECTED" /\ conns < MaxConn
      /\ conns' = conns + 1 /\ vds' = vds /\ clean' = clean
      /\ QueueMessage(Msg("conn", fd[f].local, 0, conns + 1))
      /\ fd' = [fd EXCEPT ![f].state = "CONNECTING", ![f].id = conns + 1, ![f].call = TRUE]
  BY DEF Connect, From
<1>3. fd[f].local \in Addrs
  BY <1>1, <1>2 DEF InFiles, Files
<1>4. conns + 1 \in Conns /\ conns' \in conns..MaxConn
  BY <1>1, <1>2 DEF Conns
<1> DEFINE m == Msg("conn", fd[f].local, 0, conns + 1)
           x == [fd[f] EXCEPT !.state = "CONNECTING", !.id = conns + 1, !.call = TRUE]
<1>5. m \in SecMsgs
  BY <1>3, <1>4 DEF Msg, SecMsgs, MsgsOf
<1>6. fd' = [fd EXCEPT ![f] = x]
  BY <1>1, <1>2
<1>7. /\ x \in Files /\ x.local = fd[f].local /\ x.state = "CONNECTING"
      /\ x.id = conns + 1 /\ x.dn = fd[f].dn
  BY <1>1, <1>4 DEF Files
<1> HIDE DEF m, x
<1>8. ~Gone /\ fd[f].dn # "CONNECTED" /\ x.local # 0
  BY <1>1, <1>2, <1>3, <1>7, Zero DEF Gone, InFiles
<1>9. /\ InFiles' /\ fd' \in [Fds -> Files] /\ fd'[f] = x
      /\ \A g \in Fds \ {f} : fd'[g] = fd[g]
  BY <1>1, <1>2, <1>4, <1>6, <1>7, <1>8, FileUpdated DEF IsLinked
<1>10. /\ toSec' \in Seq(SecMsgs) /\ Len(toSec') <= RxSize
       /\ toNs' \in Seq(NsMsgs \cup {Msg("online", 0, 0, 0)})
       /\ room' \in Nat /\ room' + Len(toNs') = TxSize /\ event' = event
       /\ toSec' = Append(toSec, m) /\ toNs' = toNs
  BY <1>1, <1>2, <1>5, QueueTypes DEF m
<1>11. InTypes'
  <2>1. conns' \in 0..MaxConn
    BY <1>1, <1>2
  <2>2. clean' \in BOOLEAN /\ vds' \in {"boot", "online", "removing", "dead"}
    BY <1>1, <1>2 DEF InTypes
  <2>3. QED BY <1>1, <1>9, <1>10, <2>1, <2>2, TypesDriver
<1>12. InThreads' /\ InHandles' /\ InReset'
  BY <1>1, <1>2, DevSame
<1>13. QED BY <1>2, <1>3, <1>4, <1>5, <1>7, <1>9, <1>10, <1>11, <1>12 DEF DevInv, m

(* tipc_write_iter.                                                         *)
LEMMA WriteDev ==
  ASSUME DevInv, NEW f \in Fds, Write(f), UNCHANGED dev
  PROVE  /\ DevInv' /\ fd[f].state = "CONNECTED" /\ toNs' = toNs /\ UNCHANGED ns
         /\ vds = "online"
         /\ toSec' = Append(toSec, Msg("data", fd[f].local, fd[f].remote, fd[f].id))
         /\ Msg("data", fd[f].local, fd[f].remote, fd[f].id) \in SecMsgs
<1>1. InThreads /\ InTypes /\ InHandles /\ InFiles /\ InReset /\ fd[f] \in Files
  BY DEF DevInv, InTypes
<1>2. /\ vds = "online" /\ fd[f].state = "CONNECTED" /\ UNCHANGED ns
      /\ QueueMessage(Msg("data", fd[f].local, fd[f].remote, fd[f].id))
  BY DEF Write, From
<1>3. fd[f].local \in Addrs /\ fd[f].remote \in Slots \cup {0} /\ fd[f].id \in Conns
  BY <1>1, <1>2 DEF InFiles, Files, Linked
<1> DEFINE m == Msg("data", fd[f].local, fd[f].remote, fd[f].id)
<1>4. m \in SecMsgs
  BY <1>3 DEF Msg, SecMsgs, MsgsOf
<1> HIDE DEF m
<1>5. /\ toSec' \in Seq(SecMsgs) /\ Len(toSec') <= RxSize
      /\ toNs' \in Seq(NsMsgs \cup {Msg("online", 0, 0, 0)})
      /\ room' \in Nat /\ room' + Len(toNs') = TxSize /\ event' = event
      /\ toSec' = Append(toSec, m) /\ toNs' = toNs
  BY <1>1, <1>2, <1>4, QueueTypes DEF m
<1>6. InTypes'
  BY <1>1, <1>2, <1>5, TypesDriver DEF InTypes, ns
<1>7. InThreads' /\ InHandles' /\ InReset'
  BY <1>1, <1>2, DevSame DEF ns
<1>8. QED BY <1>1, <1>2, <1>4, <1>5, <1>6, <1>7, FilesKept DEF DevInv, m

(* tipc_release.                                                            *)
LEMMA CloseDev ==
  ASSUME DevInv, NEW f \in Fds, Close(f), UNCHANGED dev
  PROVE  /\ DevInv' /\ toNs' = toNs /\ vds' = vds /\ conns' = conns
         /\ ~Linked(f)' /\ \A g \in Fds \ {f} : fd'[g] = fd[g]
         /\ \/ /\ Linked(f) /\ clean' = clean
               /\ toSec' = Append(toSec, Msg("disc", fd[f].local, fd[f].remote, fd[f].id))
               /\ Msg("disc", fd[f].local, fd[f].remote, fd[f].id) \in SecMsgs
            \/ toSec' = toSec /\ clean' = FALSE
            \/ toSec' = toSec /\ ~Linked(f) /\ clean' = clean
<1>1. InThreads /\ InTypes /\ InHandles /\ InFiles /\ InReset /\ fd[f] \in Files
      /\ conns \in 0..MaxConn /\ MaxConn \in Nat
  BY RingsAssumption DEF DevInv, InTypes
<1>2. /\ fd' = [fd EXCEPT ![f] = Closed] /\ vds' = vds /\ conns' = conns
  BY DEF Close
<1>3. /\ Closed \in Files /\ Closed.local = 0 /\ Closed.state = "CLOSED"
      /\ Closed.dn = "DISCONNECTED"
  BY DEF Closed, Files
<1>4. conns' \in conns..MaxConn /\ ~IsLinked(Closed)
  BY <1>1, <1>2, <1>3 DEF IsLinked
<1>5. /\ InFiles' /\ fd' \in [Fds -> Files] /\ fd'[f] = Closed
      /\ \A g \in Fds \ {f} : fd'[g] = fd[g]
  BY <1>1, <1>2, <1>3, <1>4, FileUpdated
<1>6. InThreads' /\ InHandles' /\ InReset'
  BY <1>1, <1>2, DevSame
<1>7. ~Linked(f)'
  BY <1>3, <1>5 DEF Linked
<1>8. conns' \in 0..MaxConn /\ vds' \in {"boot", "online", "removing", "dead"}
  BY <1>1, <1>2 DEF InTypes
<1>9. CASE DiscTold(f) /\ QueueMessage(From(f, "disc", fd[f].remote, fd[f].id)) /\ clean' = clean
  <2>1. Linked(f) /\ fd[f].local \in Addrs /\ fd[f].remote \in Slots \cup {0}
        /\ fd[f].id \in Conns
    BY <1>1, <1>9 DEF DiscTold, InFiles, Files, Linked
  <2> DEFINE m == Msg("disc", fd[f].local, fd[f].remote, fd[f].id)
  <2>2. m \in SecMsgs
    BY <2>1 DEF Msg, SecMsgs, MsgsOf
  <2>3. QueueMessage(m)
    BY <1>9 DEF From
  <2> HIDE DEF m
  <2>4. /\ toSec' \in Seq(SecMsgs) /\ Len(toSec') <= RxSize
        /\ toNs' \in Seq(NsMsgs \cup {Msg("online", 0, 0, 0)})
        /\ room' \in Nat /\ room' + Len(toNs') = TxSize /\ event' = event
        /\ toSec' = Append(toSec, m) /\ toNs' = toNs
    BY <1>1, <2>2, <2>3, QueueTypes
  <2>5. InTypes'
    <3>1. clean' \in BOOLEAN
      BY <1>1, <1>9 DEF InTypes
    <3>2. QED BY <1>1, <1>5, <1>8, <2>4, <3>1, TypesDriver
  <2>6. QED BY <1>2, <1>5, <1>6, <1>7, <1>9, <2>1, <2>2, <2>4, <2>5 DEF DevInv, m
<1>10. CASE UNCHANGED rings /\ (clean' = FALSE \/ (~DiscTold(f) /\ clean' = clean))
  <2>1. InTypes' /\ toSec' = toSec /\ toNs' = toNs
    BY <1>1, <1>2, <1>5, <1>10 DEF InTypes, dev, rings
  <2>2. ~DiscTold(f) => ~Linked(f)
    BY <1>1 DEF DiscTold, InFiles, Gone, Linked, InTypes
  <2>3. QED BY <1>2, <1>5, <1>6, <1>7, <1>10, <2>1, <2>2 DEF DevInv
<1>11. QED BY <1>9, <1>10 DEF Close

(* A reply that changes no file.                                            *)
LEMMA IgnoredDev ==
  ASSUME DevInv, TakeReply, UNCHANGED <<fd, conns, clean>>, UNCHANGED dev,
         vds' = vds \/ (vds = "boot" /\ vds' = "online")
  PROVE  DevInv' /\ FilesQuiet /\ (Gone' <=> Gone)
<1>1. InThreads /\ InTypes /\ InHandles /\ InFiles /\ InReset
  BY DEF DevInv
<1>2. /\ toNs' \in Seq(NsMsgs \cup {Msg("online", 0, 0, 0)})
      /\ room' \in Nat /\ room' + Len(toNs') = TxSize /\ event' = event
      /\ toSec' = toSec /\ toSec' \in Seq(SecMsgs) /\ Len(toSec') <= RxSize
  BY <1>1, ReplyTypes
<1>3. InTypes'
  BY <1>1, <1>2, TypesDriver DEF InTypes
<1>4. InThreads' /\ InHandles' /\ InReset'
  BY <1>1, DevSame
<1>5. Gone' <=> Gone
  BY DEF Gone
<1>6. InFiles'
  BY <1>1, <1>5 DEF InFiles, Linked
<1>7. FilesQuiet
  BY DEF FilesQuiet, Linked
<1>8. QED BY <1>3, <1>4, <1>5, <1>6, <1>7 DEF DevInv

(* _handle_conn_rsp and _handle_disc_req, when the file waits for that.     *)
LEMMA AnswerDev ==
  ASSUME DevInv, NEW f \in Fds, TakeReply, For(f), vds \in {"boot", "online"}, UNCHANGED dev,
         UNCHANGED <<vds, conns>>, Own(f), Linked(f), NEW ok \in BOOLEAN,
         Reply.type \in {"accept", "refuse", "disc"},
         ok <=> Reply.type = "accept",
         fd' = [fd EXCEPT ![f].state = IF ok THEN "CONNECTED" ELSE "DISCONNECTED",
                          ![f].remote = IF ok THEN Reply.slot ELSE 0,
                          ![f].id = IF ok THEN @ ELSE 0,
                          ![f].dn = IF ok THEN "CONNECTED" ELSE "DISCONNECTED",
                          ![f].comp = @ + 1]
  PROVE  /\ DevInv' /\ vds = "online" /\ ~Gone /\ ~Gone'
         /\ toNs[1].type \in {"accept", "refuse", "disc"}
         /\ toNs[1] \in NsMsgs /\ toNs[1].addr = fd[f].local
         /\ clean' <=> clean /\ toNs[1].id = fd[f].id
         /\ \A g \in Fds \ {f} : fd'[g] = fd[g]
         /\ toNs[1].type = "accept" =>
              /\ fd'[f].state = "CONNECTED" /\ fd'[f].id = fd[f].id
              /\ fd'[f].local = fd[f].local /\ fd'[f].remote = toNs[1].slot
         /\ toNs[1].type # "accept" => ~Linked(f)' /\ fd'[f].state # "CONNECTED"
<1>1. InThreads /\ InTypes /\ InHandles /\ InFiles /\ InReset /\ fd[f] \in Files
      /\ conns \in 0..MaxConn /\ MaxConn \in Nat /\ fd \in [Fds -> Files] /\ clean \in BOOLEAN
  BY RingsAssumption DEF DevInv, InTypes
<1>2. /\ toNs' \in Seq(NsMsgs \cup {Msg("online", 0, 0, 0)})
      /\ room' \in Nat /\ room' + Len(toNs') = TxSize /\ event' = event
      /\ toSec' = toSec /\ toSec' \in Seq(SecMsgs) /\ Len(toSec') <= RxSize
      /\ Reply = toNs[1] /\ toNs[1] \in NsMsgs \cup {Msg("online", 0, 0, 0)}
  BY <1>1, ReplyTypes
<1>3. toNs[1] \in NsMsgs /\ toNs[1].slot \in Slots \cup {0}
  <2>1. toNs[1].type \in {"accept", "refuse", "disc"}
    BY <1>2
  <2>2. toNs[1] # Msg("online", 0, 0, 0)
    BY <2>1 DEF Msg
  <2>3. QED BY <1>2, <2>2 DEF NsMsgs, MsgsOf
<1>4. vds = "online" /\ ~Gone /\ ~Gone' /\ fd[f].local # 0 /\ fd[f].state # "CLOSED"
      /\ toNs[1].addr = fd[f].local
  BY <1>1, <1>2 DEF For, InFiles, Gone
<1> DEFINE st == IF ok THEN "CONNECTED" ELSE "DISCONNECTED"
           rm == IF ok THEN toNs[1].slot ELSE 0
           id == IF ok THEN fd[f].id ELSE 0
           x == [fd[f] EXCEPT !.state = st, !.remote = rm, !.id = id, !.dn = st, !.comp = @ + 1]
<1>5. fd' = [fd EXCEPT ![f] = x]
  BY <1>1, <1>2
<1>6. /\ st \in {"CONNECTED", "DISCONNECTED"} /\ rm \in Slots \cup {0}
      /\ id \in Conns \cup {0} /\ fd[f].comp + 1 \in Nat
  BY <1>1, <1>3 DEF Files
<1>7. /\ ok => st = "CONNECTED" /\ rm = toNs[1].slot /\ id = fd[f].id
      /\ ~ok => st = "DISCONNECTED"
  OBVIOUS
<1> HIDE DEF st, rm, id
<1>8. /\ x \in Files /\ x.state = st /\ x.remote = rm /\ x.id = id /\ x.dn = st
      /\ x.local = fd[f].local
  BY <1>1, <1>6 DEF Files
<1> HIDE DEF x
<1>9. conns' \in conns..MaxConn /\ (IsLinked(x) => ok)
  BY <1>1, <1>7, <1>8 DEF IsLinked
<1>10. /\ InFiles' /\ fd' \in [Fds -> Files] /\ fd'[f] = x
       /\ \A g \in Fds \ {f} : fd'[g] = fd[g]
  <2>1. /\ (x.local = 0 <=> x.state = "CLOSED") /\ vds # "boot"
        /\ (x.dn = "CONNECTED" => x.state = "CONNECTED")
        /\ (IsLinked(x) => ~Gone /\ Linked(f) /\ x.id = fd[f].id)
    BY <1>4, <1>6, <1>7, <1>8, <1>9
  <2>2. QED BY <1>1, <1>4, <1>5, <1>8, <1>9, <2>1, FileUpdated
<1>11. clean' \in BOOLEAN /\ (clean' <=> clean /\ toNs[1].id = fd[f].id)
  BY <1>1, <1>2, Zenon DEF Own
<1>12. InTypes'
  BY <1>1, <1>2, <1>10, <1>11, TypesDriver DEF InTypes
<1>13. InThreads' /\ InHandles' /\ InReset'
  BY <1>1, DevSame
<1>14. ok <=> toNs[1].type = "accept"
  BY <1>2
<1>15. ~ok => ~Linked(f)' /\ fd'[f].state # "CONNECTED"
  BY <1>7, <1>8, <1>10 DEF Linked
<1>16. QED BY <1>2, <1>3, <1>4, <1>7, <1>8, <1>10, <1>11, <1>12, <1>13, <1>14, <1>15 DEF DevInv

(* trusty_virtio_remove.                                                    *)
LEMMA RemoveDev ==
  ASSUME DevInv, Remove, UNCHANGED dev
  PROVE  DevInv' /\ Gone' /\ \A g \in Fds : ~Linked(g)'
<1>1. InThreads /\ InTypes /\ InHandles /\ InFiles /\ InReset /\ fd \in [Fds -> Files]
  BY DEF DevInv, InTypes
<1>2. /\ vds = "online" /\ vds' = "removing" /\ UNCHANGED <<rings, conns, clean>>
      /\ fd' = [f \in Fds |-> IF IsOpen(f) THEN Shut(fd[f]) ELSE fd[f]]
  BY DEF Remove
<1>3. ASSUME NEW f \in Fds
      PROVE  /\ fd'[f] \in Files /\ fd'[f].local = fd[f].local
             /\ fd'[f].state \in {"CLOSED", "STALE"}
             /\ fd'[f].local = 0 <=> fd'[f].state = "CLOSED"
             /\ fd'[f].dn # "CONNECTED"
  <2>1. fd[f] \in Files /\ (fd[f].local = 0 <=> fd[f].state = "CLOSED")
        /\ (fd[f].dn = "CONNECTED" => fd[f].state = "CONNECTED")
    BY <1>1 DEF InFiles
  <2>2. CASE fd[f].state # "CLOSED"
    <3>1. fd'[f] = Shut(fd[f])
      BY <1>2, <2>2 DEF IsOpen
    <3>2. /\ Shut(fd[f]) \in Files /\ Shut(fd[f]).local = fd[f].local
          /\ Shut(fd[f]).state = "STALE" /\ Shut(fd[f]).dn = "STALE"
      BY <2>1 DEF Shut, Closed, Files
    <3>3. QED BY <2>1, <2>2, <3>1, <3>2
  <2>3. CASE fd[f].state = "CLOSED"
    <3>1. fd'[f] = fd[f]
      BY <1>2, <2>3 DEF IsOpen
    <3>2. QED BY <2>1, <2>3, <3>1
  <2>4. QED BY <2>2, <2>3
<1>4. fd' \in [Fds -> Files]
  <2>1. fd' = [f \in Fds |-> fd'[f]]
    BY <1>2
  <2>2. QED BY <1>3, <2>1
<1>5. \A g \in Fds : ~Linked(g)'
  BY <1>3 DEF Linked
<1>6. \A f, g \in Fds : fd'[f].local = fd'[g].local /\ fd'[f].local # 0 => f = g
  BY <1>1, <1>3 DEF InFiles
<1>7. InFiles'
  BY <1>2, <1>3, <1>5, <1>6 DEF InFiles
<1>8. InTypes'
  BY <1>1, <1>2, <1>4 DEF InTypes, dev, rings
<1>9. InThreads' /\ InHandles' /\ InReset'
  BY <1>1, <1>2, DevSame
<1>10. QED BY <1>2, <1>5, <1>7, <1>8, <1>9 DEF DevInv, Gone

----------------------------------------------------------------------------
(* The order of messages: what every step has to show.                      *)

(* Who speaks after a step did so before, or speaks of something known.     *)
LEMMA CarriesBack ==
  ASSUME \A i \in 1..Len(toSec') : Carries(toSec'[i].id, toSec'[i].addr),
         \A i \in 1..Len(toNs') : toNs'[i].id \in Conns => Carries(toNs'[i].id, toNs'[i].addr),
         \A t \in Threads : Speaks(t)' => Carries(thr'[t].out.id, thr'[t].out.addr),
         \A s \in Slots : epts'[s].chan \in Conns => Carries(epts'[s].chan, epts'[s].remote),
         \A f \in Fds : Linked(f)' => Carries(fd'[f].id, fd'[f].local)
  PROVE  \A k \in Conns : \A a \in Addrs : Carries(k, a)' => Carries(k, a)
<1> SUFFICES ASSUME NEW k \in Conns, NEW a \in Addrs, Carries(k, a)'
             PROVE  Carries(k, a)
  OBVIOUS
<1>1. CASE \E i \in 1..Len(toSec') : toSec'[i].id = k /\ toSec'[i].addr = a
  BY <1>1
<1>2. CASE \E i \in 1..Len(toNs') : toNs'[i].id = k /\ toNs'[i].addr = a
  BY <1>2
<1>3. CASE \E t \in Threads : Speaks(t)' /\ thr'[t].out.id = k /\ thr'[t].out.addr = a
  BY <1>3
<1>4. CASE \E s \in Slots : epts'[s].chan = k /\ epts'[s].remote = a
  BY <1>4
<1>5. CASE \E f \in Fds : Linked(f)' /\ fd'[f].id = k /\ fd'[f].local = a
  BY <1>5
<1>6. QED BY <1>1, <1>2, <1>3, <1>4, <1>5 DEF Carries

(* What is somewhere is carried.                                            *)
LEMMA CarriesHere ==
  /\ \A i \in 1..Len(toSec) : Carries(toSec[i].id, toSec[i].addr)
  /\ \A i \in 1..Len(toNs) : Carries(toNs[i].id, toNs[i].addr)
  /\ \A t \in Threads : Speaks(t) => Carries(thr[t].out.id, thr[t].out.addr)
  /\ \A s \in Slots : Carries(epts[s].chan, epts[s].remote)
  /\ \A f \in Fds : Linked(f) => Carries(fd[f].id, fd[f].local)
BY DEF Carries

(* Then requests keep their addresses.                                      *)
LEMMA AddressedKept ==
  ASSUME InTypes, Addressed, conns' = conns,
         \A k \in Conns : \A a \in Addrs : Carries(k, a)' => Carries(k, a)
  PROVE  Addressed'
BY DEF Addressed

(* The same address for the same request.                                   *)
LEMMA SameAddr ==
  ASSUME Addressed, NEW k \in Conns, NEW a \in Addrs, NEW b \in Addrs,
         Carries(k, a), Carries(k, b)
  PROVE  a = b /\ k <= conns
BY DEF Addressed

Ended(k) == In(toNs, {"refuse", "disc"}, k)
            \/ \E t \in Threads : Sending(t, {"refuse", "disc"}, k)

UniqueConns(q) == \A i, j \in 1..Len(q) :
  q[i].type = "conn" /\ q[j].type = "conn" /\ q[i].id = q[j].id => i = j

(* A step that nobody hears more of than before.                            *)
LEMMA RequestsKept ==
  ASSUME InRequests, UniqueConns(toSec'),
         \A k \in Conns :
           k > conns' \/ In(toSec', {"conn"}, k) =>
             /\ k > conns \/ In(toSec, {"conn"}, k)
             /\ chan[k] = NoChan => chan'[k] = NoChan
             /\ Heard(k)' => Heard(k),
         \A k \in Conns : Ended(k)' => ~Owned(k)'
  PROVE  InRequests'
<1>1. \A k \in Conns : k > conns' \/ In(toSec, {"conn"}, k)' => (chan[k] = NoChan /\ ~Heard(k))'
  <2> SUFFICES ASSUME NEW k \in Conns, k > conns' \/ In(toSec', {"conn"}, k)
               PROVE  chan'[k] = NoChan /\ ~Heard(k)'
    BY DEF In
  <2>1. chan[k] = NoChan /\ ~Heard(k)
    BY DEF InRequests
  <2>2. QED BY <2>1
<1>2. QED BY <1>1 DEF InRequests, UniqueConns, Ended

(* What InRequests says, in these words.                                    *)
LEMMA RequestsFacts ==
  ASSUME InRequests
  PROVE  /\ UniqueConns(toSec)
         /\ \A k \in Conns : k > conns \/ In(toSec, {"conn"}, k) => chan[k] = NoChan /\ ~Heard(k)
         /\ \A k \in Conns : Ended(k) => ~Owned(k)
BY DEF InRequests, UniqueConns, Ended

(* Who has ended has been heard of.                                         *)
LEMMA EndedHeard ==
  ASSUME NEW k, Ended(k)
  PROVE  Heard(k)
<1>1. CASE In(toNs, {"refuse", "disc"}, k)
  BY <1>1 DEF In, Heard
<1>2. CASE \E t \in Threads : Sending(t, {"refuse", "disc"}, k)
  BY <1>2 DEF Sending, Heard, Speaks
<1>3. QED BY <1>1, <1>2 DEF Ended

(* A request that is owned has been handled.                                *)
LEMMA OwnedHandled ==
  ASSUME InTypes, InHandles, InRequests, NEW k \in Conns, Owned(k)
  PROVE  k <= conns /\ ~In(toSec, {"conn"}, k)
<1>1. Handle(k)
  BY DEF InHandles
<1>2. Count(Owned(k)) = 1 /\ Count(chan[k].listed) \in {0, 1}
      /\ Count(thr["tx"].chan = k) \in {0, 1}
  BY DEF Count
<1>3. chan[k].refs # 0
  <2>1. chan[k].refs = Count(Owned(k)) + Count(chan[k].listed) + Count(thr["tx"].chan = k)
    BY <1>1 DEF Handle
  <2>2. QED BY <1>2, <2>1
<1>4. chan[k] # NoChan
  BY <1>3, NoChanFacts
<1>5. ~(k > conns) /\ ~In(toSec, {"conn"}, k)
  BY <1>4, RequestsFacts
<1>6. conns \in Nat /\ k \in Nat
  BY Zero DEF InTypes
<1>7. QED BY <1>5, <1>6

(* A disconnect request is where it was if the files are.                   *)
LEMMA DiscsKept ==
  ASSUME DiscsFirst, toSec' = toSec,
         \A g \in Fds : Linked(g)' => /\ Linked(g) /\ fd'[g].id = fd[g].id
                                      /\ fd'[g].local = fd[g].local
  PROVE  DiscsFirst'
BY DEF DiscsFirst, ConnAt

(* Who waits.                                                               *)
LEMMA WaitingSplit ==
  ASSUME NEW k
  PROVE  Waiting(k) <=> \/ In(toSec, {"conn"}, k) \/ Pending(k)
                        \/ \E t \in Threads : Sending(t, Answers, k)
                        \/ In(toNs, Answers, k)
BY DEF Waiting, Pending

(* The same after a step.                                                   *)
LEMMA WaitingNext ==
  ASSUME NEW k
  PROVE  Waiting(k)' <=> \/ In(toSec', {"conn"}, k) \/ Pending(k)'
                         \/ \E t \in Threads : Sending(t, Answers, k)'
                         \/ In(toNs', Answers, k)
BY DEF Waiting, Pending, In

(* What there is to show of the device's view after a step.                 *)
LEMMA DeviceKnowsNext ==
  ASSUME \A s \in Slots : \A k \in Conns :
           epts'[s].chan = k => In(toSec', {"disc"}, k) \/ LinkedTo(k)',
         \A i \in 1..Len(toSec') : \A k \in Conns :
           toSec'[i].type = "conn" /\ toSec'[i].id = k =>
             \/ LinkedTo(k)'
             \/ \E j \in i + 1..Len(toSec') : toSec'[j].type = "disc" /\ toSec'[j].id = k
  PROVE  DeviceKnows'
BY DEF DeviceKnows, ConnAt, DiscOnWay, In

(* And of the messages to it.                                               *)
LEMMA ToServiceNext ==
  ASSUME \A i \in 1..Len(toSec') : \A s \in Slots : \A k \in Conns : \A a \in Addrs :
           epts'[s].remote = a /\ epts'[s].chan = k
           /\ toSec'[i].type = "data" /\ toSec'[i].addr = a => toSec'[i].id = k,
         \A i, j \in 1..Len(toSec') :
           i < j /\ toSec'[i].type = "conn" /\ toSec'[j].type = "data"
             => toSec'[i].addr # toSec'[j].addr
  PROVE  ToService'
BY DEF ToService, DataIn

(* A step that moves nothing keeps the order.                               *)
LEMMA SilentOrder ==
  ASSUME DevInv, OrderInv, CleanInv, Silent, FilesQuiet, conns' = conns, clean' = clean,
         Gone' <=> Gone
  PROVE  OrderInv' /\ CleanInv'
<1>1. /\ toSec' = toSec /\ toNs' = toNs /\ epts' = epts
      /\ \A t \in Threads : Speaks(t)' => Speaks(t) /\ thr'[t].out = thr[t].out
      /\ \A t \in Threads : thr'[t].pc \in InSend /\ thr'[t].out.type # "data"
                             => thr[t].pc \in InSend
      /\ ~Gone => \A t \in Threads : thr[t].pc \in InSend => thr'[t].pc \in InSend
                                                          /\ thr'[t].out = thr[t].out
      /\ \A k \in Conns : chan[k] = NoChan => chan'[k] = NoChan
      /\ \A k \in Conns : ~Gone /\ Pending(k) => Pending(k)'
  BY DEF Silent
<1>2. \A g \in Fds : /\ Linked(g)' <=> Linked(g)
                     /\ Linked(g) => /\ fd'[g].state = fd[g].state /\ fd'[g].id = fd[g].id
                                     /\ fd'[g].local = fd[g].local /\ fd'[g].remote = fd[g].remote
  BY DEF FilesQuiet
<1>3. InTypes /\ InFiles /\ Addressed /\ InRequests /\ InAnswers /\ DiscsFirst
  BY DEF DevInv, OrderInv
<1>4. Addressed'
  <2>1. \A k \in Conns : \A a \in Addrs : Carries(k, a)' => Carries(k, a)
    BY <1>1, <1>2, CarriesHere, CarriesBack
  <2>2. QED BY <1>3, <2>1, AddressedKept
<1>5. \A t \in Threads : \A types, k :
        "data" \notin types /\ Sending(t, types, k)' => Sending(t, types, k)
  BY <1>1 DEF Sending, Speaks
<1>6. InRequests'
  <2>1. \A k \in Conns : Heard(k)' => Heard(k)
    BY <1>1 DEF Heard, In
  <2>2. \A k \in Conns : Ended(k)' => Ended(k)
    BY <1>1, <1>5 DEF Ended, In
  <2>3. \A k \in Conns : Owned(k)' => Owned(k)
    BY <1>1 DEF Owned
  <2>4. QED BY <1>1, <1>3, <2>1, <2>2, <2>3, RequestsFacts, RequestsKept
<1>7. InAnswers'
  <2> SUFFICES ASSUME NEW f \in Fds, NEW k \in Conns, fd'[f].state = "CONNECTING", fd'[f].id = k
               PROVE  Waiting(k)'
    BY DEF InAnswers
  <2>1. Linked(f)' /\ Linked(f) /\ fd[f].state = "CONNECTING" /\ fd[f].id = k
    BY <1>2 DEF Linked
  <2>2. Waiting(k) /\ ~Gone
    BY <1>3, <2>1 DEF InAnswers, InFiles
  <2>3. \A t \in Threads : Sending(t, Answers, k) => Sending(t, Answers, k)'
    BY <1>1, <2>2 DEF Sending
  <2>4. QED
    BY <1>1, <2>2, <2>3, WaitingSplit DEF In, Waiting, Pending
<1>8. DiscsFirst'
  BY <1>1, <1>2, <1>3, DiscsKept
<1>9. ASSUME clean', ~Gone' PROVE (DeviceKnows /\ DriverKnows /\ ToFile /\ ToService)'
  <2>1. DeviceKnows /\ DriverKnows /\ ToFile /\ ToService /\ ~Gone
    BY <1>9 DEF CleanInv
  <2>2. \A k : LinkedTo(k)' <=> LinkedTo(k)
    BY <1>2 DEF LinkedTo
  <2>3. \A s, a, k : EptIs(s, a, k)' <=> EptIs(s, a, k)
    BY <1>1 DEF EptIs
  <2>4. \A k : HupOnWay(k) => HupOnWay(k)'
    BY <1>1, <2>1 DEF HupOnWay, In, Sending, Threads
  <2>5. DeviceKnows'
    <3>1. \A k : DiscOnWay(k)' <=> DiscOnWay(k)
      BY <1>1 DEF DiscOnWay, In
    <3>2. QED BY <1>1, <2>1, <2>2, <3>1 DEF DeviceKnows, ConnAt
  <2>6. DriverKnows'
    <3>1. ASSUME NEW a \in Addrs, NEW s \in Slots \cup {0}, NEW k \in Conns, Claimed(a, s, k)'
          PROVE  Claimed(a, s, k)
      <4>1. CASE \E f \in Fds : /\ fd'[f].state = "CONNECTED" /\ fd'[f].local = a
                                /\ fd'[f].remote = s /\ fd'[f].id = k
        BY <1>2, <4>1 DEF Claimed, Linked
      <4>2. CASE \E i \in 1..Len(toNs') : Accepted(toNs[i], a, s, k)'
        BY <1>1, <2>2, <4>2 DEF Claimed, Accepted
      <4>3. CASE thr'["tx"].pc \in InSend /\ Accepted(thr["tx"].out, a, s, k)'
        <5>1. thr["tx"].pc \in InSend /\ thr'["tx"].out = thr["tx"].out
          BY <1>1, <4>3 DEF Speaks, Threads, Accepted
        <5>2. QED BY <2>2, <4>3, <5>1 DEF Claimed, Accepted
      <4>4. QED BY <3>1, <4>1, <4>2, <4>3 DEF Claimed
    <3>2. \A f \in Fds : \A k \in Conns :
            fd'[f].state = "CONNECTED" /\ fd'[f].id = k => ~In(toSec, {"conn"}, k)'
      BY <1>1, <1>2, <2>1 DEF DriverKnows, Linked, In
    <3>3. QED BY <2>1, <2>3, <2>4, <3>1, <3>2 DEF DriverKnows
  <2>7. ToFile'
    <3>1. \A f \in Fds : Linked(f)' =>
            /\ Linked(f) /\ fd'[f].id = fd[f].id
            /\ fd'[f].local = fd[f].local /\ fd'[f].state = fd[f].state
      BY <1>2
    <3>2. Speaks("tx")' => Speaks("tx") /\ thr'["tx"].out = thr["tx"].out
      BY <1>1 DEF Threads
    <3>3. QED BY <1>1, <2>1, <3>1, <3>2 DEF ToFile, DataIn, In
  <2>8. ToService'
    BY <1>1, <2>1 DEF ToService, DataIn
  <2>9. QED BY <2>5, <2>6, <2>7, <2>8
<1>10. QED BY <1>4, <1>6, <1>7, <1>8, <1>9 DEF OrderInv, CleanInv

----------------------------------------------------------------------------
(* Steps in which the device takes a message.                               *)

Taken == /\ toSec # <<>> /\ toSec' = Tail(toSec) /\ toNs' = toNs /\ UNCHANGED ns
         /\ thr'["tx"] = thr["tx"]

(* What is left in the ring.                                                *)
LEMMA TakenFacts ==
  ASSUME InTypes, Taken
  PROVE  /\ toSec[1] \in SecMsgs /\ toSec[1].addr \in Addrs /\ toSec[1].id \in Conns
         /\ 1 \in 1..Len(toSec) /\ Len(toSec) \in Nat
         /\ \A i \in 1..Len(toSec') : /\ toSec'[i] = toSec[i + 1]
                                      /\ i + 1 \in 1..Len(toSec) /\ i \in 1..Len(toSec)
         /\ \A j \in 2..Len(toSec) : j - 1 \in 1..Len(toSec') /\ toSec'[j - 1] = toSec[j]
         /\ \A types, k : In(toSec', types, k) => In(toSec, types, k)
         /\ \A types, k : In(toSec, types, k) =>
              In(toSec', types, k) \/ (toSec[1].type \in types /\ toSec[1].id = k)
<1>1. toSec \in Seq(SecMsgs) /\ toSec # <<>> /\ toSec' = Tail(toSec)
  BY DEF InTypes, Taken
<1> DEFINE S == SecMsgs
<1> HIDE DEF S
<1>2. /\ Len(Tail(toSec)) = Len(toSec) - 1 /\ Len(toSec) \in Nat /\ Len(toSec) > 0
      /\ toSec[1] \in S /\ \A i \in 1..Len(toSec) - 1 : Tail(toSec)[i] = toSec[i + 1]
  BY <1>1, TailFacts DEF S
<1>3. toSec[1] \in SecMsgs /\ toSec[1].addr \in Addrs /\ toSec[1].id \in Conns
  BY <1>2 DEF S, SecMsgs, MsgsOf
<1>4. \A i \in 1..Len(toSec') : /\ toSec'[i] = toSec[i + 1]
                                /\ i + 1 \in 1..Len(toSec) /\ i \in 1..Len(toSec)
  BY <1>1, <1>2
<1>5. \A j \in 2..Len(toSec) : j - 1 \in 1..Len(toSec') /\ toSec'[j - 1] = toSec[j]
  BY <1>1, <1>2
<1>6. \A types, k :
        /\ In(Tail(toSec), types, k) => In(toSec, types, k)
        /\ In(toSec, types, k) => In(Tail(toSec), types, k)
                                   \/ (toSec[1].type \in types /\ toSec[1].id = k)
  BY <1>1, InTail DEF S
<1>7. QED BY <1>1, <1>2, <1>3, <1>4, <1>5, <1>6

(* A request is in the ring once.                                           *)
LEMMA TakenUnique ==
  ASSUME InTypes, InRequests, Taken
  PROVE  /\ UniqueConns(toSec')
         /\ toSec[1].type = "conn" => ~In(toSec', {"conn"}, toSec[1].id)
<1>1. UniqueConns(toSec)
  BY RequestsFacts
<1>2. /\ 1 \in 1..Len(toSec) /\ Len(toSec) \in Nat
      /\ \A i \in 1..Len(toSec') : /\ toSec'[i] = toSec[i + 1]
                                   /\ i + 1 \in 1..Len(toSec) /\ i \in 1..Len(toSec)
  BY TakenFacts
<1>3. UniqueConns(toSec')
  <2> SUFFICES ASSUME NEW i \in 1..Len(toSec'), NEW j \in 1..Len(toSec'),
                      toSec'[i].type = "conn", toSec'[j].type = "conn",
                      toSec'[i].id = toSec'[j].id
               PROVE  i = j
    BY DEF UniqueConns
  <2>1. i + 1 = j + 1
    BY <1>1, <1>2 DEF UniqueConns
  <2>2. i \in Nat /\ j \in Nat
    BY <1>2
  <2>3. QED BY <2>1, <2>2
<1>4. ASSUME toSec[1].type = "conn", In(toSec', {"conn"}, toSec[1].id) PROVE FALSE
  <2>1. PICK i \in 1..Len(toSec') : toSec'[i].type = "conn" /\ toSec'[i].id = toSec[1].id
    BY <1>4 DEF In
  <2>2. i + 1 = 1
    BY <1>1, <1>2, <1>4, <2>1 DEF UniqueConns
  <2>3. QED BY <1>2, <2>1, <2>2
<1>5. QED BY <1>3, <1>4

(* The order of what is left.                                               *)
LEMMA TakenOrder ==
  ASSUME InTypes, DiscsFirst, Taken
  PROVE  DiscsFirst'
<1>1. /\ Len(toSec) \in Nat
      /\ \A i \in 1..Len(toSec') : /\ toSec'[i] = toSec[i + 1]
                                   /\ i + 1 \in 1..Len(toSec) /\ i \in 1..Len(toSec)
      /\ \A j \in 2..Len(toSec) : j - 1 \in 1..Len(toSec') /\ toSec'[j - 1] = toSec[j]
  BY TakenFacts
<1>2. \A f \in Fds : (Linked(f)' <=> Linked(f)) /\ fd'[f] = fd[f]
  BY DEF Taken, ns, Linked
<1>3. Len(toSec') \in Nat
  <2>1. toSec' \in Seq(SecMsgs)
    BY DEF Taken, InTypes
  <2>2. QED BY <2>1
<1>4. ASSUME NEW i \in 1..Len(toSec'), NEW f \in Fds, toSec'[i].type = "disc", Linked(f),
             fd[f].local = toSec'[i].addr
      PROVE  \E j \in i + 1..Len(toSec') : toSec'[j].type = "conn" /\ toSec'[j].id = fd[f].id
  <2>6. PICK n \in 1..Len(toSec) : n = i + 1 /\ toSec'[i] = toSec[n]
    BY <1>1
  <2>7. \E j \in n + 1..Len(toSec) : toSec[j].type = "conn" /\ toSec[j].id = fd[f].id
    BY <1>4, <2>6 DEF DiscsFirst, ConnAt
  <2>1. PICK j \in (i + 1) + 1..Len(toSec) : toSec[j].type = "conn" /\ toSec[j].id = fd[f].id
    BY <2>6, <2>7
  <2>2. i \in Nat /\ j \in 2..Len(toSec) /\ j \in Nat
    BY <1>1, <1>3
  <2>3. j - 1 \in 1..Len(toSec') /\ toSec'[j - 1] = toSec[j]
    BY <1>1, <2>2
  <2>4. j - 1 \in i + 1..Len(toSec')
    BY <1>3, <2>1, <2>2, <2>3
  <2>5. QED BY <2>1, <2>3, <2>4
<1>5. ASSUME NEW i \in 1..Len(toSec'), NEW j \in 1..Len(toSec'), i < j,
             toSec'[i].type = "disc", toSec'[j].type = "disc", toSec'[i].addr = toSec'[j].addr
      PROVE  \E l \in i + 1..j - 1 : toSec'[l].type = "conn" /\ toSec'[l].id = toSec'[j].id
  <2>1. i \in Nat /\ j \in Nat /\ i + 1 < j + 1
    BY <1>3, <1>5
  <2>6. PICK n \in 1..Len(toSec), p \in 1..Len(toSec) :
               n = i + 1 /\ toSec'[i] = toSec[n] /\ p = j + 1 /\ toSec'[j] = toSec[p]
    BY <1>1
  <2>7. \E l \in n + 1..p - 1 : toSec[l].type = "conn" /\ toSec[l].id = toSec[p].id
    BY <1>5, <2>1, <2>6 DEF DiscsFirst, ConnAt
  <2>2. PICK l \in (i + 1) + 1..(j + 1) - 1 :
               toSec[l].type = "conn" /\ toSec[l].id = toSec[j + 1].id
    BY <2>6, <2>7
  <2>3. l \in 2..Len(toSec) /\ l \in Nat
    BY <1>1, <2>1
  <2>4. l - 1 \in i + 1..j - 1 /\ toSec'[l - 1] = toSec[l] /\ toSec'[j] = toSec[j + 1]
    BY <1>1, <2>1, <2>2, <2>3
  <2>5. QED BY <2>2, <2>4
<1>6. QED BY <1>2, <1>4, <1>5 DEF DiscsFirst, ConnAt

(* Requests that are left, and those who made them.                         *)
LEMMA TakenKnown ==
  ASSUME InTypes, DeviceKnows, ToService, Taken
  PROVE  /\ \A i \in 1..Len(toSec') : \A k \in Conns :
              toSec'[i].type = "conn" /\ toSec'[i].id = k =>
                \/ LinkedTo(k)
                \/ \E j \in i + 1..Len(toSec') : toSec'[j].type = "disc" /\ toSec'[j].id = k
         /\ \A i, j \in 1..Len(toSec') :
              i < j /\ toSec'[i].type = "conn" /\ toSec'[j].type = "data"
                => toSec'[i].addr # toSec'[j].addr
<1>1. /\ Len(toSec) \in Nat
      /\ \A i \in 1..Len(toSec') : /\ toSec'[i] = toSec[i + 1]
                                   /\ i + 1 \in 1..Len(toSec) /\ i \in 1..Len(toSec)
      /\ \A j \in 2..Len(toSec) : j - 1 \in 1..Len(toSec') /\ toSec'[j - 1] = toSec[j]
  BY TakenFacts
<1>2. Len(toSec') \in Nat
  <2>1. toSec' \in Seq(SecMsgs)
    BY DEF Taken, InTypes
  <2>2. QED BY <2>1
<1>3. ASSUME NEW i \in 1..Len(toSec'), NEW k \in Conns, toSec'[i].type = "conn",
             toSec'[i].id = k, ~LinkedTo(k)
      PROVE  \E j \in i + 1..Len(toSec') : toSec'[j].type = "disc" /\ toSec'[j].id = k
  <2>6. PICK n \in 1..Len(toSec) : n = i + 1 /\ toSec'[i] = toSec[n]
    BY <1>1
  <2>7. \E j \in n + 1..Len(toSec) : toSec[j].type = "disc" /\ toSec[j].id = k
    BY <1>3, <2>6 DEF DeviceKnows, ConnAt
  <2>1. PICK j \in (i + 1) + 1..Len(toSec) : toSec[j].type = "disc" /\ toSec[j].id = k
    BY <2>6, <2>7
  <2>2. i \in Nat /\ j \in 2..Len(toSec) /\ j \in Nat
    BY <1>1, <1>2
  <2>3. j - 1 \in 1..Len(toSec') /\ toSec'[j - 1] = toSec[j]
    BY <1>1, <2>2
  <2>4. j - 1 \in i + 1..Len(toSec')
    BY <1>2, <2>1, <2>2, <2>3
  <2>5. QED BY <2>1, <2>3, <2>4
<1>4. ASSUME NEW i \in 1..Len(toSec'), NEW j \in 1..Len(toSec'), i < j,
             toSec'[i].type = "conn", toSec'[j].type = "data"
      PROVE  toSec'[i].addr # toSec'[j].addr
  <2>1. i + 1 < j + 1
    BY <1>2, <1>4
  <2>2. PICK n \in 1..Len(toSec), p \in 1..Len(toSec) :
               n = i + 1 /\ toSec'[i] = toSec[n] /\ p = j + 1 /\ toSec'[j] = toSec[p]
    BY <1>1
  <2>3. QED BY <1>4, <2>1, <2>2 DEF ToService
<1>5. QED BY <1>3, <1>4

(* Nothing changes for the files.                                           *)
LEMMA TakenFile ==
  ASSUME Taken, ToFile
  PROVE  ToFile'
<1>1. toNs' = toNs /\ fd' = fd /\ thr'["tx"] = thr["tx"]
  BY DEF Taken, ns
<1>2. (\A f \in Fds : Linked(f)' <=> Linked(f)) /\ (Speaks("tx")' <=> Speaks("tx"))
  BY <1>1 DEF Linked, Speaks
<1>3. QED BY <1>1, <1>2 DEF ToFile, DataIn, In

(* And little for what they know.                                           *)
LEMMA TakenDriver ==
  ASSUME InTypes, Taken, DriverKnows,
         \A a \in Addrs : \A s \in Slots : \A k \in Conns :
           Claimed(a, s, k) /\ epts[s] = [remote |-> a, chan |-> k] => epts'[s] = epts[s]
  PROVE  DriverKnows'
<1>1. toNs' = toNs /\ fd' = fd /\ thr'["tx"] = thr["tx"]
  BY DEF Taken, ns
<1>2. \A k : LinkedTo(k)' <=> LinkedTo(k)
  BY <1>1 DEF LinkedTo, Linked
<1>3. \A k : HupOnWay(k)' <=> HupOnWay(k)
  BY <1>1 DEF HupOnWay, In, Sending
<1>4. \A a, s, k : Claimed(a, s, k)' <=> Claimed(a, s, k)
  BY <1>1, <1>2 DEF Claimed, Accepted
<1>5. ASSUME NEW a \in Addrs, NEW s \in Slots \cup {0}, NEW k \in Conns, Claimed(a, s, k)'
      PROVE  EptIs(s, a, k)' \/ HupOnWay(k)'
  <2>1. EptIs(s, a, k) \/ HupOnWay(k)
    BY <1>4, <1>5 DEF DriverKnows
  <2>2. EptIs(s, a, k) => EptIs(s, a, k)'
    BY <1>4, <1>5 DEF EptIs
  <2>3. QED BY <1>3, <2>1, <2>2
<1>6. \A k \in Conns : In(toSec, {"conn"}, k)' => In(toSec, {"conn"}, k)
  <2>1. \A k : In(toSec', {"conn"}, k) => In(toSec, {"conn"}, k)
    BY TakenFacts
  <2>2. QED BY <2>1 DEF In
<1>7. QED BY <1>1, <1>5, <1>6 DEF DriverKnows

(* The rx thread sends nothing before or after.                             *)
RxMute == thr["rx"].pc = "get" /\ thr'["rx"].pc \in RxIdle \cup {"list"}

(* So that is heard which was heard.                                        *)
LEMMA TakenMute ==
  ASSUME Taken, RxMute
  PROVE  /\ \A t \in Threads : Speaks(t)' => Speaks(t) /\ thr'[t].out = thr[t].out
         /\ \A t \in Threads : \A types, k : Sending(t, types, k)' <=> Sending(t, types, k)
         /\ \A k : (Heard(k)' <=> Heard(k)) /\ (Ended(k)' <=> Ended(k))
         /\ \A types, k : In(toNs, types, k)' <=> In(toNs, types, k)
<1>1. /\ toNs' = toNs /\ thr'["tx"] = thr["tx"] /\ ~Speaks("rx") /\ ~Speaks("rx")'
      /\ thr["rx"].pc \notin InSend /\ thr'["rx"].pc \notin InSend
  BY PcsFacts DEF Taken, RxMute, Speaks, RxIdle
<1>2. /\ Speaks("tx")' <=> Speaks("tx")
      /\ \A types, k : Sending("tx", types, k)' <=> Sending("tx", types, k)
      /\ \A types, k : ~Sending("rx", types, k)' /\ ~Sending("rx", types, k)
  BY <1>1 DEF Speaks, Sending
<1>3. \A types, k : In(toNs, types, k)' <=> In(toNs, types, k)
  BY <1>1 DEF In
<1>4. \A t \in Threads : Speaks(t)' => Speaks(t) /\ thr'[t].out = thr[t].out
  BY <1>1, <1>2 DEF Threads
<1>5. \A t \in Threads : \A types, k : Sending(t, types, k)' <=> Sending(t, types, k)
  BY <1>2 DEF Threads
<1>6. \A k : Ended(k)' <=> Ended(k)
  BY <1>3, <1>5 DEF Ended
<1>7. \A k : Heard(k)' <=> Heard(k)
  BY <1>1, <1>2, <1>3 DEF Heard, Threads
<1>8. QED BY <1>3, <1>4, <1>5, <1>6, <1>7

(* A message for a service.                                                 *)
LEMMA RxTakenOrder ==
  ASSUME DevInv, OrderInv, CleanInv, RxChanMsg, UNCHANGED ns
  PROVE  OrderInv' /\ CleanInv'
<1>1. InTypes /\ InFiles /\ Addressed /\ InRequests /\ InAnswers /\ DiscsFirst
  BY DEF DevInv, OrderInv
<1>2. /\ Taken /\ RxMute /\ epts' = epts /\ chan' = chan /\ toSec[1].type = "data"
  BY RxTakenDev DEF Taken, RxMute
<1>3. /\ \A t \in Threads : Speaks(t)' => Speaks(t) /\ thr'[t].out = thr[t].out
      /\ \A t \in Threads : \A types, k : Sending(t, types, k)' <=> Sending(t, types, k)
      /\ \A k : (Heard(k)' <=> Heard(k)) /\ (Ended(k)' <=> Ended(k))
      /\ \A types, k : In(toNs, types, k)' <=> In(toNs, types, k)
  BY <1>2, TakenMute
<1>4. fd' = fd /\ conns' = conns /\ clean' = clean /\ vds' = vds /\ toNs' = toNs
      /\ \A f \in Fds : Linked(f)' <=> Linked(f)
  BY <1>2 DEF Taken, ns, Linked
<1>5. /\ 1 \in 1..Len(toSec)
      /\ \A i \in 1..Len(toSec') : /\ toSec'[i] = toSec[i + 1]
                                   /\ i + 1 \in 1..Len(toSec) /\ i \in 1..Len(toSec)
      /\ \A types, k : In(toSec', types, k) => In(toSec, types, k)
      /\ \A types, k : In(toSec, types, k) =>
           In(toSec', types, k) \/ (toSec[1].type \in types /\ toSec[1].id = k)
  BY <1>1, <1>2, TakenFacts
<1>6. Addressed'
  <2>1. \A i \in 1..Len(toSec') : Carries(toSec'[i].id, toSec'[i].addr)
    BY <1>5, CarriesHere
  <2>2. \A k \in Conns : \A a \in Addrs : Carries(k, a)' => Carries(k, a)
    BY <1>2, <1>3, <1>4, <2>1, CarriesHere, CarriesBack
  <2>3. QED BY <1>1, <1>4, <2>2, AddressedKept
<1>7. InRequests'
  <2>1. \A k : Owned(k)' <=> Owned(k)
    BY <1>2 DEF Owned
  <2>2. QED
    BY <1>1, <1>2, <1>3, <1>4, <1>5, <2>1, TakenUnique, RequestsFacts, RequestsKept
<1>8. InAnswers'
  <2>1. \A k \in Conns : Pending(k)' <=> Pending(k)
    BY <1>2 DEF Pending, Owned, At, Taken
  <2>2. \A k \in Conns : In(toSec, {"conn"}, k) => In(toSec', {"conn"}, k)
    BY <1>2, <1>5
  <2>3. \A k \in Conns : Waiting(k) => Waiting(k)'
    BY <1>3, <1>4, <2>1, <2>2, WaitingSplit, WaitingNext
  <2>4. QED BY <1>1, <1>4, <2>3 DEF InAnswers
<1>9. DiscsFirst'
  BY <1>1, <1>2, TakenOrder
<1>10. ASSUME clean', ~Gone' PROVE (DeviceKnows /\ DriverKnows /\ ToFile /\ ToService)'
  <2>1. DeviceKnows /\ DriverKnows /\ ToFile /\ ToService
    BY <1>4, <1>10 DEF CleanInv, Gone
  <2>2. ToFile' /\ DriverKnows'
    BY <1>1, <1>2, <2>1, TakenFile, TakenDriver
  <2>3. /\ \A i \in 1..Len(toSec') : \A k \in Conns :
             toSec'[i].type = "conn" /\ toSec'[i].id = k =>
               \/ LinkedTo(k)
               \/ \E j \in i + 1..Len(toSec') : toSec'[j].type = "disc" /\ toSec'[j].id = k
        /\ \A i, j \in 1..Len(toSec') :
             i < j /\ toSec'[i].type = "conn" /\ toSec'[j].type = "data"
               => toSec'[i].addr # toSec'[j].addr
    BY <1>1, <1>2, <2>1, TakenKnown
  <2>4. \A k : LinkedTo(k)' <=> LinkedTo(k)
    BY <1>4 DEF LinkedTo
  <2>5. \A k : In(toSec, {"disc"}, k) => In(toSec', {"disc"}, k)
    BY <1>2, <1>5
  <2>6. DeviceKnows'
    <3>1. \A s \in Slots : \A k \in Conns : epts[s].chan = k => In(toSec, {"disc"}, k) \/ LinkedTo(k)
      BY <2>1 DEF DeviceKnows, DiscOnWay
    <3>2. QED BY <1>2, <2>3, <2>4, <2>5, <3>1, DeviceKnowsNext
  <2>7. ToService'
    <3>1. ASSUME NEW i \in 1..Len(toSec'), NEW s \in Slots, NEW k \in Conns, NEW a \in Addrs,
                 epts[s].remote = a, epts[s].chan = k, toSec'[i].type = "data", toSec'[i].addr = a
          PROVE  toSec'[i].id = k
      <4>1. PICK n \in 1..Len(toSec) : toSec'[i] = toSec[n]
        BY <1>5
      <4>2. QED BY <2>1, <3>1, <4>1 DEF ToService, DataIn
    <3>2. QED BY <1>2, <2>3, <3>1, ToServiceNext
  <2>8. QED BY <2>2, <2>6, <2>7
<1>11. QED BY <1>6, <1>7, <1>8, <1>9, <1>10 DEF OrderInv, CleanInv

(* A request is in the ring, so nothing was done for it.                    *)
LEMMA RequestFresh ==
  ASSUME InTypes, InHandles, InRequests, Addressed,
         NEW i \in 1..Len(toSec), toSec[i].type = "conn", NEW k \in Conns, toSec[i].id = k
  PROVE  /\ chan[k] = NoChan /\ ~Heard(k) /\ ~Ended(k) /\ ~Owned(k) /\ ~(k > conns)
         /\ In(toSec, {"conn"}, k)
<1>1. In(toSec, {"conn"}, k)
  BY DEF In
<1>2. chan[k] = NoChan /\ ~Heard(k)
  BY <1>1, RequestsFacts
<1>3. ~Ended(k)
  BY <1>2, EndedHeard
<1>4. ~Owned(k)
  BY <1>1, OwnedHandled
<1>5. toSec[i] \in SecMsgs
  BY DEF InTypes
<1>6. toSec[i].addr \in Addrs /\ k \in Nat /\ conns \in Nat
  BY <1>5, Zero DEF SecMsgs, MsgsOf, InTypes
<1>7. k <= conns
  BY <1>6, CarriesHere, SameAddr
<1>8. QED BY <1>1, <1>2, <1>3, <1>4, <1>6, <1>7

(* handle_conn_req that answers at once.                                    *)
LEMMA RxRefuseOrder ==
  ASSUME DevInv, OrderInv, CleanInv, RxMsg("conn"), Refused(Head(toSec)),
         UNCHANGED <<epts, chan>>, UNCHANGED ns
  PROVE  OrderInv' /\ CleanInv'
<1>1. InTypes /\ InHandles /\ InFiles /\ Addressed /\ InRequests /\ InAnswers /\ DiscsFirst
  BY DEF DevInv, OrderInv
<1>2. /\ Taken /\ epts' = epts /\ chan' = chan /\ toSec[1].type = "conn" /\ thr["rx"].pc = "get"
      /\ thr'["rx"].pc = "send" /\ thr'["tx"] = thr["tx"]
      /\ thr'["rx"].out = Msg("refuse", toSec[1].addr, 0, toSec[1].id)
  BY RxRefuseDev DEF Taken
<1>3. fd' = fd /\ conns' = conns /\ clean' = clean /\ vds' = vds /\ toNs' = toNs
      /\ \A f \in Fds : Linked(f)' <=> Linked(f)
  BY <1>2 DEF Taken, ns, Linked
<1>4. /\ 1 \in 1..Len(toSec) /\ toSec[1].id \in Conns
      /\ \A i \in 1..Len(toSec') : /\ toSec'[i] = toSec[i + 1]
                                   /\ i + 1 \in 1..Len(toSec) /\ i \in 1..Len(toSec)
      /\ \A types, k : In(toSec', types, k) => In(toSec, types, k)
      /\ \A types, k : In(toSec, types, k) =>
           In(toSec', types, k) \/ (toSec[1].type \in types /\ toSec[1].id = k)
  BY <1>1, <1>2, TakenFacts
<1>5. PICK c \in Conns : c = toSec[1].id
  BY <1>4
<1>6. /\ chan[c] = NoChan /\ ~Heard(c) /\ ~Ended(c) /\ ~Owned(c) /\ ~(c > conns)
  BY <1>1, <1>2, <1>4, <1>5, RequestFresh
<1>7. UniqueConns(toSec') /\ ~In(toSec', {"conn"}, c)
  BY <1>1, <1>2, <1>5, TakenUnique
<1>8. /\ thr'["rx"].out.id = c /\ thr'["rx"].out.addr = toSec[1].addr
      /\ thr'["rx"].out.type = "refuse" /\ thr["rx"].pc \notin InSend
      /\ thr'["rx"].pc \in InSend
  BY <1>2, <1>5 DEF Msg, InSend
<1>9. /\ \A types, k : Sending("rx", types, k)' <=> "refuse" \in types /\ k = c
      /\ \A types, k : ~Sending("rx", types, k)
      /\ \A types, k : Sending("tx", types, k)' <=> Sending("tx", types, k)
      /\ Speaks("tx")' <=> Speaks("tx")
  BY <1>2, <1>8 DEF Sending, Speaks
<1>10. /\ \A types, k : In(toNs, types, k)' <=> In(toNs, types, k)
       /\ \A k : Owned(k)' <=> Owned(k)
  BY <1>2, <1>3 DEF In, Owned
<1>11. \A k : (Heard(k)' => Heard(k) \/ k = c) /\ (Ended(k)' => Ended(k) \/ k = c)
  BY <1>2, <1>8, <1>9, <1>10 DEF Heard, Ended, Threads
<1>12. Addressed'
  <2>1. \A i \in 1..Len(toSec') : Carries(toSec'[i].id, toSec'[i].addr)
    BY <1>4, CarriesHere
  <2>2. \A t \in Threads : Speaks(t)' => Carries(thr'[t].out.id, thr'[t].out.addr)
    BY <1>2, <1>4, <1>5, <1>8, <1>9, CarriesHere DEF Threads
  <2>3. \A k \in Conns : \A a \in Addrs : Carries(k, a)' => Carries(k, a)
    BY <1>2, <1>3, <2>1, <2>2, CarriesHere, CarriesBack
  <2>4. QED BY <1>1, <1>3, <2>3, AddressedKept
<1>13. InRequests'
  BY <1>1, <1>2, <1>3, <1>4, <1>6, <1>7, <1>10, <1>11, RequestsFacts, RequestsKept
<1>14. InAnswers'
  <2>1. \A k \in Conns : Pending(k)' <=> Pending(k)
    BY <1>2 DEF Pending, Owned, At
  <2>2. \A k \in Conns : In(toSec, {"conn"}, k) => In(toSec', {"conn"}, k) \/ k = c
    BY <1>4, <1>5
  <2>3. "refuse" \in Answers /\ "rx" \in Threads
    BY DEF Answers, Threads
  <2>4. \A t \in Threads : \A k : Sending(t, Answers, k) => Sending(t, Answers, k)'
    BY <1>9 DEF Threads
  <2>5. \A k \in Conns : Waiting(k) => Waiting(k)'
    BY <1>3, <1>9, <2>1, <2>2, <2>3, <2>4, WaitingSplit, WaitingNext
  <2>6. QED BY <1>1, <1>3, <2>5 DEF InAnswers
<1>15. DiscsFirst'
  BY <1>1, <1>2, TakenOrder
<1>16. ASSUME clean', ~Gone' PROVE (DeviceKnows /\ DriverKnows /\ ToFile /\ ToService)'
  <2>1. DeviceKnows /\ DriverKnows /\ ToFile /\ ToService
    BY <1>3, <1>16 DEF CleanInv, Gone
  <2>2. ToFile' /\ DriverKnows'
    BY <1>1, <1>2, <2>1, TakenFile, TakenDriver
  <2>3. /\ \A i \in 1..Len(toSec') : \A k \in Conns :
             toSec'[i].type = "conn" /\ toSec'[i].id = k =>
               \/ LinkedTo(k)
               \/ \E j \in i + 1..Len(toSec') : toSec'[j].type = "disc" /\ toSec'[j].id = k
        /\ \A i, j \in 1..Len(toSec') :
             i < j /\ toSec'[i].type = "conn" /\ toSec'[j].type = "data"
               => toSec'[i].addr # toSec'[j].addr
    BY <1>1, <1>2, <2>1, TakenKnown
  <2>4. \A k : LinkedTo(k)' <=> LinkedTo(k)
    BY <1>3 DEF LinkedTo
  <2>5. \A k : In(toSec, {"disc"}, k) => In(toSec', {"disc"}, k)
    BY <1>2, <1>4
  <2>6. DeviceKnows'
    <3>1. \A s \in Slots : \A k \in Conns : epts[s].chan = k => In(toSec, {"disc"}, k) \/ LinkedTo(k)
      BY <2>1 DEF DeviceKnows, DiscOnWay
    <3>2. QED BY <1>2, <2>3, <2>4, <2>5, <3>1, DeviceKnowsNext
  <2>7. ToService'
    <3>1. ASSUME NEW i \in 1..Len(toSec'), NEW s \in Slots, NEW k \in Conns, NEW a \in Addrs,
                 epts[s].remote = a, epts[s].chan = k, toSec'[i].type = "data", toSec'[i].addr = a
          PROVE  toSec'[i].id = k
      <4>1. PICK n \in 1..Len(toSec) : toSec'[i] = toSec[n]
        BY <1>4
      <4>2. QED BY <2>1, <3>1, <4>1 DEF ToService, DataIn
    <3>2. QED BY <1>2, <2>3, <3>1, ToServiceNext
  <2>8. QED BY <2>2, <2>6, <2>7
<1>17. QED BY <1>12, <1>13, <1>14, <1>15, <1>16 DEF OrderInv, CleanInv

(* handle_conn_req that opens a channel.                                    *)
LEMMA RxOpenOrder ==
  ASSUME DevInv, OrderInv, CleanInv, RxMsg("conn"), UNCHANGED ns, NEW s \in Slots,
         NEW c \in Conns, NEW b \in Addrs, RxOpen(s, c, b)
  PROVE  DevInv' /\ OrderInv' /\ CleanInv'
<1>1. InTypes /\ InHandles /\ InFiles /\ Addressed /\ InRequests /\ InAnswers /\ DiscsFirst
      /\ InThreads
  BY DEF DevInv, OrderInv
<1>2. /\ toSec # <<>> /\ toSec \in Seq(SecMsgs) /\ toSec[1].type = "conn" /\ toSec[1].id = c
      /\ toSec[1].addr = b /\ 1 \in 1..Len(toSec)
  BY <1>1, TailFacts DEF RxMsg, TakeMessage, Avail, InTypes, RxOpen
<1>3. /\ chan[c] = NoChan /\ ~Heard(c) /\ ~Ended(c) /\ ~Owned(c) /\ ~(c > conns)
  BY <1>1, <1>2, RequestFresh
<1>4. /\ DevInv' /\ toSec' = Tail(toSec) /\ toNs' = toNs
      /\ thr["rx"].pc = "get" /\ thr'["rx"].pc = "list" /\ thr'["tx"] = thr["tx"]
      /\ epts'[s] = [remote |-> b, chan |-> c] /\ epts[s] = NoEpt
      /\ \A u \in Slots \ {s} : epts'[u] = epts[u]
      /\ chan'[c].st = "connecting" /\ chan'[c] # NoChan
      /\ \A j \in Conns \ {c} : chan'[j] = chan[j]
      /\ \A j \in Conns : Owned(j)' <=> Owned(j) \/ j = c
      /\ ~Owned(c) /\ thr["tx"].chan # c
  BY <1>3, RxOpenDev
<1>5. Taken /\ RxMute
  BY <1>2, <1>4 DEF Taken, RxMute
<1>6. fd' = fd /\ conns' = conns /\ clean' = clean /\ vds' = vds
      /\ \A f \in Fds : Linked(f)' <=> Linked(f)
  BY <1>5 DEF Taken, ns, Linked
<1>7. /\ \A t \in Threads : Speaks(t)' => Speaks(t) /\ thr'[t].out = thr[t].out
      /\ \A t \in Threads : \A types, k : Sending(t, types, k)' <=> Sending(t, types, k)
      /\ \A k : (Heard(k)' <=> Heard(k)) /\ (Ended(k)' <=> Ended(k))
  BY <1>5, TakenMute
<1>8. /\ \A i \in 1..Len(toSec') : /\ toSec'[i] = toSec[i + 1]
                                   /\ i + 1 \in 1..Len(toSec) /\ i \in 1..Len(toSec)
      /\ \A j \in 2..Len(toSec) : j - 1 \in 1..Len(toSec') /\ toSec'[j - 1] = toSec[j]
      /\ \A types, k : In(toSec', types, k) => In(toSec, types, k)
      /\ \A types, k : In(toSec, types, k) =>
           In(toSec', types, k) \/ (toSec[1].type \in types /\ toSec[1].id = k)
  BY <1>1, <1>5, TakenFacts
<1>9. UniqueConns(toSec') /\ ~In(toSec', {"conn"}, c)
  BY <1>1, <1>2, <1>5, TakenUnique
<1>10. Addressed'
  <2>1. \A i \in 1..Len(toSec') : Carries(toSec'[i].id, toSec'[i].addr)
    BY <1>8, CarriesHere
  <2>2. \A u \in Slots : epts'[u].chan \in Conns => Carries(epts'[u].chan, epts'[u].remote)
    <3>1. Carries(epts'[s].chan, epts'[s].remote)
      BY <1>2, <1>4, CarriesHere
    <3>2. QED BY <1>4, <3>1, CarriesHere
  <2>3. \A k \in Conns : \A a \in Addrs : Carries(k, a)' => Carries(k, a)
    BY <1>4, <1>6, <1>7, <2>1, <2>2, CarriesHere, CarriesBack
  <2>4. QED BY <1>1, <1>6, <2>3, AddressedKept
<1>11. InRequests'
  <2>1. \A k \in Conns : k > conns' \/ In(toSec', {"conn"}, k) =>
          /\ k > conns \/ In(toSec, {"conn"}, k)
          /\ chan[k] = NoChan => chan'[k] = NoChan
          /\ Heard(k)' => Heard(k)
    BY <1>3, <1>4, <1>6, <1>7, <1>8, <1>9
  <2>2. \A k \in Conns : Ended(k)' => ~Owned(k)'
    BY <1>1, <1>3, <1>4, <1>7, RequestsFacts
  <2>3. QED BY <1>1, <1>9, <2>1, <2>2, RequestsKept
<1>12. InAnswers'
  <2>1. \A k \in Conns : Pending(k) => Pending(k)'
    <3> SUFFICES ASSUME NEW k \in Conns, Pending(k) PROVE Pending(k)'
      OBVIOUS
    <3>1. k # c /\ Owned(k)'
      BY <1>3, <1>4 DEF Pending
    <3>2. chan'[k] = chan[k]
      BY <1>4, <3>1
    <3>3. QED BY <1>4, <3>1, <3>2 DEF Pending, At
  <2>2. Pending(c)'
    BY <1>4 DEF Pending
  <2>3. \A k \in Conns : In(toSec, {"conn"}, k) => In(toSec', {"conn"}, k) \/ k = c
    BY <1>2, <1>8
  <2>4. \A k \in Conns : Waiting(k) => Waiting(k)'
    BY <1>4, <1>7, <2>1, <2>2, <2>3, WaitingSplit, WaitingNext
  <2>5. QED BY <1>1, <1>6, <2>4 DEF InAnswers
<1>13. DiscsFirst'
  BY <1>1, <1>5, TakenOrder
<1>14. ASSUME clean', ~Gone' PROVE (DeviceKnows /\ DriverKnows /\ ToFile /\ ToService)'
  <2>1. DeviceKnows /\ DriverKnows /\ ToFile /\ ToService
    BY <1>6, <1>14 DEF CleanInv, Gone
  <2>2. ToFile'
    BY <1>5, <2>1, TakenFile
  <2>3. DriverKnows'
    <3>1. ASSUME NEW a \in Addrs, NEW u \in Slots, NEW k \in Conns,
                 epts[u] = [remote |-> a, chan |-> k]
          PROVE  epts'[u] = epts[u]
      <4>1. u # s
        BY <1>1, <1>4, <3>1, EptFacts, Zero
      <4>2. QED BY <1>4, <4>1
    <3>2. QED BY <1>1, <1>5, <2>1, <3>1, TakenDriver
  <2>4. /\ \A i \in 1..Len(toSec') : \A k \in Conns :
             toSec'[i].type = "conn" /\ toSec'[i].id = k =>
               \/ LinkedTo(k)
               \/ \E j \in i + 1..Len(toSec') : toSec'[j].type = "disc" /\ toSec'[j].id = k
        /\ \A i, j \in 1..Len(toSec') :
             i < j /\ toSec'[i].type = "conn" /\ toSec'[j].type = "data"
               => toSec'[i].addr # toSec'[j].addr
    BY <1>1, <1>5, <2>1, TakenKnown
  <2>5. \A k : LinkedTo(k)' <=> LinkedTo(k)
    BY <1>6 DEF LinkedTo
  <2>6. \A k : In(toSec, {"disc"}, k) => In(toSec', {"disc"}, k)
    BY <1>2, <1>8
  <2>7. LinkedTo(c) \/ In(toSec', {"disc"}, c)
    <3>1. LinkedTo(c) \/ \E j \in 1 + 1..Len(toSec) : toSec[j].type = "disc" /\ toSec[j].id = c
      BY <1>2, <2>1 DEF DeviceKnows, ConnAt
    <3>2. ASSUME NEW j \in 1 + 1..Len(toSec), toSec[j].type = "disc", toSec[j].id = c
          PROVE  In(toSec, {"disc"}, c)
      <4>1. j \in 1..Len(toSec)
        BY <1>2
      <4>2. QED BY <3>2, <4>1 DEF In
    <3>3. QED BY <2>6, <3>1, <3>2
  <2>8. DeviceKnows'
    <3>1. \A u \in Slots : \A k \in Conns : epts[u].chan = k => In(toSec, {"disc"}, k) \/ LinkedTo(k)
      BY <2>1 DEF DeviceKnows, DiscOnWay
    <3>2. \A u \in Slots : \A k \in Conns :
            epts'[u].chan = k => In(toSec', {"disc"}, k) \/ LinkedTo(k)'
      BY <1>4, <2>5, <2>6, <2>7, <3>1
    <3>3. QED BY <2>4, <2>5, <3>2, DeviceKnowsNext
  <2>9. ToService'
    <3>1. ASSUME NEW i \in 1..Len(toSec'), NEW u \in Slots, NEW k \in Conns, NEW a \in Addrs,
                 epts'[u].remote = a, epts'[u].chan = k, toSec'[i].type = "data", toSec'[i].addr = a
          PROVE  toSec'[i].id = k
      <4>1. PICK n \in 1..Len(toSec) : toSec'[i] = toSec[n] /\ 1 < n
        BY <1>8
      <4>2. CASE u = s
        BY <1>2, <1>4, <2>1, <3>1, <4>1, <4>2 DEF ToService
      <4>3. CASE u # s
        BY <1>4, <2>1, <3>1, <4>1, <4>3 DEF ToService, DataIn
      <4>4. QED BY <4>2, <4>3
    <3>2. QED BY <2>4, <3>1, ToServiceNext
  <2>10. QED BY <2>2, <2>3, <2>8, <2>9
<1>15. QED BY <1>4, <1>10, <1>11, <1>12, <1>13, <1>14 DEF OrderInv, CleanInv

(* The file that a disconnect request is in front of has asked anew.        *)
LEMMA DiscAhead ==
  ASSUME InTypes, InHandles, InFiles, InRequests, DiscsFirst, Addressed,
         toSec # <<>>, toSec[1].type = "disc",
         NEW f \in Fds, Linked(f), NEW k \in Conns, fd[f].id = k,
         fd[f].local = toSec[1].addr
  PROVE  ~Owned(k)
<1>1. 1 \in 1..Len(toSec) /\ Len(toSec) \in Nat
  BY TailFacts DEF InTypes
<1>2. PICK j \in 1 + 1..Len(toSec) : ConnAt(j, fd[f].id)
  BY <1>1 DEF DiscsFirst
<1>3. j \in 1..Len(toSec)
  BY <1>1
<1>4. QED BY <1>2, <1>3, RequestFresh DEF ConnAt

(* Somebody's address is that of the endpoint made for him.                 *)
LEMMA SameEnd ==
  ASSUME InTypes, InFiles, Addressed, NEW u \in Slots, NEW k \in Conns, epts[u].chan = k,
         NEW f \in Fds, Linked(f), fd[f].id = k
  PROVE  fd[f].local = epts[u].remote /\ fd[f].local \in Addrs
<1>1. fd[f].local \in Addrs
  BY DEF InFiles, InTypes, Files, Linked
<1>2. epts[u].remote \in Addrs
  BY EptFacts, Zero
<1>3. QED BY <1>1, <1>2, CarriesHere, SameAddr

(* The endpoint that a disconnect request finds is the one it means.        *)
LEMMA DiscMeant ==
  ASSUME InTypes, InHandles, InFiles, InRequests, DiscsFirst, Addressed, DeviceKnows,
         toSec # <<>>, toSec[1].type = "disc",
         NEW u \in Slots, NEW k \in Conns, epts[u].chan = k, epts[u].remote = toSec[1].addr
  PROVE  k = toSec[1].id /\ ~LinkedTo(k)
<1>1. 1 \in 1..Len(toSec) /\ Len(toSec) \in Nat /\ Owned(k)
  BY TailFacts DEF InTypes, Owned
<1>2. ~LinkedTo(k)
  BY <1>1, SameEnd, DiscAhead DEF LinkedTo
<1>3. PICK j \in 1..Len(toSec) : toSec[j].type = "disc" /\ toSec[j].id = k
  BY <1>2 DEF DeviceKnows, DiscOnWay, In
<1>4. toSec[j].addr = toSec[1].addr
  <2>1. toSec[j] \in SecMsgs
    BY DEF InTypes
  <2>2. toSec[j].addr \in Addrs /\ epts[u].remote \in Addrs
    BY <2>1, EptFacts, Zero DEF SecMsgs, MsgsOf
  <2>3. QED BY <1>3, <2>2, CarriesHere, SameAddr
<1>5. j = 1
  <2> SUFFICES ASSUME 1 < j PROVE FALSE
    BY <1>1
  <2>1. PICK l \in 1 + 1..j - 1 : ConnAt(l, toSec[j].id)
    BY <1>1, <1>3, <1>4 DEF DiscsFirst
  <2>2. l \in 1..Len(toSec)
    BY <1>1
  <2>3. QED BY <1>1, <1>3, <2>1, <2>2, RequestFresh DEF ConnAt
<1>6. QED BY <1>2, <1>3, <1>5

(* handle_disc_req.                                                         *)
LEMMA RxDiscReqOrder ==
  ASSUME DevInv, OrderInv, CleanInv, RxDiscReq, UNCHANGED ns
  PROVE  OrderInv' /\ CleanInv'
<1>1. InTypes /\ InHandles /\ InFiles /\ Addressed /\ InRequests /\ InAnswers /\ DiscsFirst
      /\ InThreads
  BY DEF DevInv, OrderInv
<1>2. /\ toSec' = Tail(toSec) /\ toNs' = toNs
      /\ toSec # <<>> /\ toSec[1].type = "disc" /\ thr["rx"].pc = "get"
      /\ thr'["rx"].pc \in RxIdle /\ thr'["tx"] = thr["tx"]
      /\ \A k \in Conns : ChanKept(k)
      /\ \/ /\ epts' = epts /\ \A u \in Slots : epts[u] # NoEpt => epts[u].remote # toSec[1].addr
         \/ \E s \in Slots :
              /\ epts[s] # NoEpt /\ epts[s].remote = toSec[1].addr
              /\ epts' = [epts EXCEPT ![s] = NoEpt]
  BY RxDiscReqDev
<1>3. Taken /\ RxMute
  BY <1>2 DEF Taken, RxMute
<1>4. fd' = fd /\ conns' = conns /\ clean' = clean /\ vds' = vds
      /\ \A f \in Fds : Linked(f)' <=> Linked(f)
  BY <1>3 DEF Taken, ns, Linked
<1>5. /\ \A t \in Threads : Speaks(t)' => Speaks(t) /\ thr'[t].out = thr[t].out
      /\ \A t \in Threads : \A types, k : Sending(t, types, k)' <=> Sending(t, types, k)
      /\ \A k : (Heard(k)' <=> Heard(k)) /\ (Ended(k)' <=> Ended(k))
  BY <1>3, TakenMute
<1>6. /\ \A i \in 1..Len(toSec') : /\ toSec'[i] = toSec[i + 1]
                                   /\ i + 1 \in 1..Len(toSec) /\ i \in 1..Len(toSec)
      /\ \A types, k : In(toSec', types, k) => In(toSec, types, k)
      /\ \A types, k : In(toSec, types, k) =>
           In(toSec', types, k) \/ (toSec[1].type \in types /\ toSec[1].id = k)
  BY <1>1, <1>3, TakenFacts
<1>7. /\ \A u \in Slots : epts'[u] = epts[u]
                          \/ (epts'[u].chan = 0 /\ epts[u].remote = toSec[1].addr)
      /\ \A u \in Slots : epts'[u] = epts[u] /\ epts[u] # NoEpt
                           /\ epts[u].remote = toSec[1].addr
           => \E s \in Slots : s # u /\ epts[s] # NoEpt /\ epts[s].remote = toSec[1].addr
  <2>1. CASE epts' = epts /\ \A u \in Slots : epts[u] # NoEpt => epts[u].remote # toSec[1].addr
    BY <2>1
  <2>2. CASE \E s \in Slots : /\ epts[s] # NoEpt /\ epts[s].remote = toSec[1].addr
                              /\ epts' = [epts EXCEPT ![s] = NoEpt]
    <3>1. PICK s \in Slots : /\ epts[s] # NoEpt /\ epts[s].remote = toSec[1].addr
                             /\ epts' = [epts EXCEPT ![s] = NoEpt]
      BY <2>2
    <3>2. epts'[s] = NoEpt /\ NoEpt.chan = 0 /\ \A u \in Slots \ {s} : epts'[u] = epts[u]
      BY <1>1, <3>1 DEF InTypes, NoEpt
    <3>3. QED BY <3>1, <3>2
  <2>3. QED BY <1>2, <2>1, <2>2
<1>8. \A u \in Slots : \A k \in Conns : epts'[u].chan = k => epts'[u] = epts[u]
  BY <1>7, Zero
<1>9. Addressed'
  <2>1. \A i \in 1..Len(toSec') : Carries(toSec'[i].id, toSec'[i].addr)
    BY <1>6, CarriesHere
  <2>2. \A u \in Slots : epts'[u].chan \in Conns => Carries(epts'[u].chan, epts'[u].remote)
    BY <1>8, CarriesHere
  <2>3. \A k \in Conns : \A a \in Addrs : Carries(k, a)' => Carries(k, a)
    BY <1>2, <1>4, <1>5, <2>1, <2>2, CarriesHere, CarriesBack
  <2>4. QED BY <1>1, <1>4, <2>3, AddressedKept
<1>10. \A k \in Conns : Owned(k)' => Owned(k)
  BY <1>8 DEF Owned
<1>11. InRequests'
  <2>1. UniqueConns(toSec')
    BY <1>1, <1>3, TakenUnique
  <2>2. \A k \in Conns : chan[k] = NoChan => chan'[k] = NoChan
    BY <1>2 DEF ChanKept
  <2>3. QED BY <1>1, <1>4, <1>5, <1>6, <1>10, <2>1, <2>2, RequestsFacts, RequestsKept
<1>12. InAnswers'
  <2> SUFFICES ASSUME NEW f \in Fds, NEW k \in Conns, fd'[f].state = "CONNECTING", fd'[f].id = k
               PROVE  Waiting(k)'
    BY DEF InAnswers
  <2>1. Linked(f) /\ fd[f].id = k /\ Waiting(k)
    BY <1>1, <1>4 DEF InAnswers, Linked
  <2>2. Pending(k) => Pending(k)'
    <3> SUFFICES ASSUME Pending(k) PROVE Pending(k)'
      OBVIOUS
    <3>1. PICK u \in Slots : epts[u].chan = k
      BY DEF Pending, Owned
    <3>2. epts[u].remote # toSec[1].addr
      <4>1. fd[f].local = epts[u].remote /\ Owned(k)
        BY <1>1, <2>1, <3>1, SameEnd DEF Owned
      <4>2. QED BY <1>1, <1>2, <2>1, <4>1, DiscAhead
    <3>3. Owned(k)'
      BY <1>7, <3>1, <3>2 DEF Owned
    <3>4. chan'[k].st = chan[k].st /\ chan'[k].ready = chan[k].ready
      BY <1>2, <3>3 DEF ChanKept
    <3>5. QED BY <1>2, <3>3, <3>4 DEF Pending, At
  <2>3. In(toSec, {"conn"}, k) => In(toSec', {"conn"}, k)
    BY <1>2, <1>6
  <2>4. QED BY <1>2, <1>5, <2>1, <2>2, <2>3, WaitingSplit, WaitingNext
<1>13. DiscsFirst'
  BY <1>1, <1>3, TakenOrder
<1>14. ASSUME clean', ~Gone' PROVE (DeviceKnows /\ DriverKnows /\ ToFile /\ ToService)'
  <2>1. DeviceKnows /\ DriverKnows /\ ToFile /\ ToService
    BY <1>4, <1>14 DEF CleanInv, Gone
  <2>2. ToFile'
    BY <1>3, <2>1, TakenFile
  <2>3. DriverKnows'
    <3>1. ASSUME NEW a \in Addrs, NEW u \in Slots, NEW k \in Conns, Claimed(a, u, k),
                 epts[u] = [remote |-> a, chan |-> k]
          PROVE  epts'[u] = epts[u]
      <4>1. LinkedTo(k)
        BY <3>1 DEF Claimed, Accepted, LinkedTo, Linked
      <4>2. epts[u].chan = k
        BY <3>1
      <4>3. epts[u].remote # toSec[1].addr
        BY <1>1, <1>2, <2>1, <4>1, <4>2, DiscMeant
      <4>4. QED BY <1>7, <4>3
    <3>2. QED BY <1>1, <1>3, <2>1, <3>1, TakenDriver
  <2>4. /\ \A i \in 1..Len(toSec') : \A k \in Conns :
             toSec'[i].type = "conn" /\ toSec'[i].id = k =>
               \/ LinkedTo(k)
               \/ \E j \in i + 1..Len(toSec') : toSec'[j].type = "disc" /\ toSec'[j].id = k
        /\ \A i, j \in 1..Len(toSec') :
             i < j /\ toSec'[i].type = "conn" /\ toSec'[j].type = "data"
               => toSec'[i].addr # toSec'[j].addr
    BY <1>1, <1>3, <2>1, TakenKnown
  <2>5. \A k : LinkedTo(k)' <=> LinkedTo(k)
    BY <1>4 DEF LinkedTo
  <2>6. ASSUME NEW u \in Slots, NEW k \in Conns, epts'[u].chan = k
        PROVE  In(toSec', {"disc"}, k) \/ LinkedTo(k)'
    <3>1. epts'[u] = epts[u] /\ epts[u].chan = k /\ epts[u] # NoEpt
      BY <1>1, <1>8, <2>6, EptFacts, Zero
    <3>2. In(toSec, {"disc"}, k) \/ LinkedTo(k)
      BY <2>1, <3>1 DEF DeviceKnows, DiscOnWay
    <3>3. epts[u].remote # toSec[1].addr
      <4> SUFFICES ASSUME epts[u].remote = toSec[1].addr PROVE FALSE
        OBVIOUS
      <4>1. PICK s \in Slots : s # u /\ epts[s] # NoEpt /\ epts[s].remote = toSec[1].addr
        BY <1>7, <3>1
      <4>2. epts[s].chan \in Conns
        BY <1>1, <4>1, EptFacts
      <4>3. epts[s].chan = toSec[1].id /\ k = toSec[1].id
        BY <1>1, <1>2, <2>1, <3>1, <4>1, <4>2, DiscMeant
      <4>4. QED BY <1>1, <3>1, <4>1, <4>3 DEF InHandles
    <3>4. k # toSec[1].id
      <4> SUFFICES ASSUME k = toSec[1].id PROVE FALSE
        OBVIOUS
      <4>1. toSec[1].addr \in Addrs /\ 1 \in 1..Len(toSec) /\ epts[u].remote \in Addrs
        BY <1>1, <1>3, <3>1, TakenFacts, EptFacts
      <4>2. toSec[1].addr = epts[u].remote
        BY <1>1, <3>1, <4>1, CarriesHere, SameAddr
      <4>3. QED BY <3>3, <4>2
    <3>5. QED BY <1>6, <2>5, <3>2, <3>4
  <2>7. DeviceKnows'
    BY <2>4, <2>5, <2>6, DeviceKnowsNext
  <2>8. ToService'
    <3>1. ASSUME NEW i \in 1..Len(toSec'), NEW u \in Slots, NEW k \in Conns, NEW a \in Addrs,
                 epts'[u].remote = a, epts'[u].chan = k, toSec'[i].type = "data", toSec'[i].addr = a
          PROVE  toSec'[i].id = k
      <4>1. PICK n \in 1..Len(toSec) : toSec'[i] = toSec[n] /\ 1 < n
        BY <1>6
      <4>2. QED BY <1>8, <2>1, <3>1, <4>1 DEF ToService, DataIn
    <3>2. QED BY <2>4, <3>1, ToServiceNext
  <2>9. QED BY <2>2, <2>3, <2>7, <2>8
<1>15. QED BY <1>9, <1>11, <1>12, <1>13, <1>14 DEF OrderInv, CleanInv

----------------------------------------------------------------------------
(* Steps in which the tx thread begins to speak.                            *)

(* An endpoint at the address of a file whose request was handled is the    *)
(* one that was made for it.                                                *)
LEMMA FileEnd ==
  ASSUME InTypes, InFiles, Addressed, DiscsFirst, DeviceKnows,
         NEW f \in Fds, Linked(f), NEW k \in Conns, fd[f].id = k, ~In(toSec, {"conn"}, k),
         NEW u \in Slots, NEW c \in Conns, epts[u].chan = c, epts[u].remote = fd[f].local
  PROVE  c = k
<1>1. fd[f].local \in Addrs
  BY DEF InFiles, InTypes, Files, Linked
<1>2. CASE LinkedTo(c)
  <2>1. PICK g \in Fds : Linked(g) /\ fd[g].id = c
    BY <1>2 DEF LinkedTo
  <2>2. fd[g].local = fd[f].local
    BY <2>1, SameEnd
  <2>3. fd[f].local # 0
    BY <1>1 DEF Addrs
  <2>4. g = f
    BY <2>2, <2>3 DEF InFiles
  <2>5. QED BY <2>1, <2>4
<1>3. CASE DiscOnWay(c)
  <2>1. PICK j \in 1..Len(toSec) : toSec[j].type = "disc" /\ toSec[j].id = c
    BY <1>3 DEF DiscOnWay, In
  <2>2. toSec[j] \in SecMsgs /\ Len(toSec) \in Nat
    BY DEF InTypes
  <2>3. toSec[j].addr \in Addrs
    BY <2>2 DEF SecMsgs, MsgsOf
  <2>4. toSec[j].addr = fd[f].local
    BY <1>1, <2>1, <2>3, CarriesHere, SameAddr
  <2>5. PICK l \in j + 1..Len(toSec) : ConnAt(l, fd[f].id)
    BY <2>1, <2>4 DEF DiscsFirst
  <2>6. l \in 1..Len(toSec)
    BY <2>2
  <2>7. QED BY <2>5, <2>6 DEF ConnAt, In
<1>4. QED BY <1>2, <1>3 DEF DeviceKnows

(* The tx thread begins to speak of a channel that has its endpoint.        *)
Begins(s, c, b) ==
  /\ s \in Slots /\ c \in Conns /\ b \in Addrs
  /\ toSec' = toSec /\ toNs' = toNs /\ fd' = fd /\ conns' = conns /\ thr'["rx"] = thr["rx"]
  /\ thr["tx"].pc = "event" /\ thr["tx"].chan = c /\ Speaks("tx")'
  /\ epts[s] = [remote |-> b, chan |-> c] /\ thr'["tx"].out.id = c /\ thr'["tx"].out.addr = b
  /\ \A u \in Slots : \A k \in Conns : epts'[u].chan = k => epts'[u] = epts[u]
  /\ \A k \in Conns : ChanKept(k)

(* What that does to the order of requests.                                 *)
LEMMA BeginsOrder ==
  ASSUME DevInv, OrderInv, NEW s, NEW c, NEW b, Begins(s, c, b), Ended(c)' => ~Owned(c)'
  PROVE  /\ Addressed' /\ InRequests' /\ DiscsFirst'
         /\ \A types, k : Sending("rx", types, k)' <=> Sending("rx", types, k)
         /\ \A types, k : ~Sending("tx", types, k)
         /\ ~In(toSec, {"conn"}, c)
<1>1. InTypes /\ InHandles /\ InFiles /\ Addressed /\ InRequests /\ InAnswers /\ DiscsFirst
      /\ InThreads
  BY DEF DevInv, OrderInv
<1>2. /\ s \in Slots /\ c \in Conns /\ b \in Addrs
      /\ toSec' = toSec /\ toNs' = toNs /\ fd' = fd /\ conns' = conns /\ thr'["rx"] = thr["rx"]
      /\ thr["tx"].pc = "event" /\ thr["tx"].chan = c /\ Speaks("tx")'
      /\ epts[s] = [remote |-> b, chan |-> c] /\ thr'["tx"].out.id = c /\ thr'["tx"].out.addr = b
      /\ \A u \in Slots : \A k \in Conns : epts'[u].chan = k => epts'[u] = epts[u]
      /\ \A k \in Conns : ChanKept(k)
  BY DEF Begins
<1>3. epts[s].chan = c /\ epts[s].remote = b /\ Owned(c)
  BY <1>2 DEF Owned
<1>4. c <= conns /\ ~In(toSec, {"conn"}, c) /\ c \in Nat /\ conns \in Nat
  BY <1>1, <1>2, <1>3, OwnedHandled, Zero DEF InTypes
<1>5. /\ \A types, k : Sending("rx", types, k)' <=> Sending("rx", types, k)
      /\ \A types, k : ~Sending("tx", types, k)
      /\ \A types, k : Sending("tx", types, k)' => k = c
      /\ Speaks("rx")' <=> Speaks("rx")
  BY <1>2, PcsFacts DEF Sending, Speaks, InSend
<1>6. \A f \in Fds : Linked(f)' <=> Linked(f)
  BY <1>2 DEF Linked
<1>7. Addressed'
  <2>1. \A t \in Threads : Speaks(t)' => Carries(thr'[t].out.id, thr'[t].out.addr)
    BY <1>2, <1>3, <1>5, CarriesHere DEF Threads
  <2>2. \A u \in Slots : epts'[u].chan \in Conns => Carries(epts'[u].chan, epts'[u].remote)
    BY <1>2, CarriesHere
  <2>3. \A k \in Conns : \A a \in Addrs : Carries(k, a)' => Carries(k, a)
    BY <1>2, <1>6, <2>1, <2>2, CarriesHere, CarriesBack
  <2>4. QED BY <1>1, <1>2, <2>3, AddressedKept
<1>8. InRequests'
  <2>1. \A k \in Conns : Heard(k)' => Heard(k) \/ k = c
    BY <1>2, <1>5 DEF Heard, In, Threads
  <2>2. \A k \in Conns : Ended(k)' => Ended(k) \/ k = c
    BY <1>2, <1>5 DEF Ended, In, Threads
  <2>3. \A k \in Conns : Owned(k)' => Owned(k)
    BY <1>2 DEF Owned
  <2>4. \A k \in Conns : Ended(k)' => ~Owned(k)'
    BY <1>1, <2>2, <2>3, RequestsFacts
  <2>5. \A k \in Conns : k > conns' \/ In(toSec', {"conn"}, k) =>
          /\ k > conns \/ In(toSec, {"conn"}, k)
          /\ chan[k] = NoChan => chan'[k] = NoChan
          /\ Heard(k)' => Heard(k)
    BY <1>2, <1>4, <2>1 DEF ChanKept
  <2>6. UniqueConns(toSec')
    BY <1>1, <1>2, RequestsFacts
  <2>7. QED BY <1>1, <2>4, <2>5, <2>6, RequestsKept
<1>9. DiscsFirst'
  BY <1>1, <1>2, <1>6, DiscsKept
<1>10. QED BY <1>4, <1>5, <1>7, <1>8, <1>9

(* And to what the two ends know.                                           *)
LEMMA BeginsClean ==
  ASSUME DevInv, OrderInv, NEW s, NEW c, NEW b, Begins(s, c, b),
         DeviceKnows, DriverKnows, ToFile, ToService,
         thr'["tx"].out.type = "accept" => thr'["tx"].out.slot = s,
         \A u \in Slots \ {s} : epts'[u] = epts[u],
         epts'[s] = epts[s] \/ (thr'["tx"].pc = "send" /\ thr'["tx"].out.type = "disc")
  PROVE  (DeviceKnows /\ DriverKnows /\ ToFile /\ ToService)'
<1>1. InTypes /\ InHandles /\ InFiles /\ Addressed /\ InRequests /\ InAnswers /\ DiscsFirst
      /\ InThreads
  BY DEF DevInv, OrderInv
<1>2. /\ s \in Slots /\ c \in Conns /\ b \in Addrs
      /\ toSec' = toSec /\ toNs' = toNs /\ fd' = fd /\ conns' = conns /\ thr'["rx"] = thr["rx"]
      /\ thr["tx"].pc = "event" /\ thr["tx"].chan = c /\ Speaks("tx")'
      /\ epts[s] = [remote |-> b, chan |-> c] /\ thr'["tx"].out.id = c /\ thr'["tx"].out.addr = b
      /\ \A u \in Slots : \A k \in Conns : epts'[u].chan = k => epts'[u] = epts[u]
  BY DEF Begins
<1>3. epts[s].chan = c /\ epts[s].remote = b
  BY <1>2
<1>4. /\ \A f \in Fds : Linked(f)' <=> Linked(f)
      /\ \A k : LinkedTo(k)' <=> LinkedTo(k)
  BY <1>2 DEF Linked, LinkedTo
<1>5. thr["tx"].pc \notin InSend /\ ~Speaks("tx") /\ "send" \in InSend
  BY <1>2 DEF InSend, Speaks
<1>6. DeviceKnows'
  <2>1. \A u \in Slots : \A k \in Conns : epts[u].chan = k => In(toSec, {"disc"}, k) \/ LinkedTo(k)
    BY DEF DeviceKnows, DiscOnWay
  <2>2. \A i \in 1..Len(toSec) : \A k \in Conns : toSec[i].type = "conn" /\ toSec[i].id = k =>
          \/ LinkedTo(k)
          \/ \E j \in i + 1..Len(toSec) : toSec[j].type = "disc" /\ toSec[j].id = k
    BY DEF DeviceKnows, ConnAt
  <2>3. QED BY <1>2, <1>4, <2>1, <2>2, DeviceKnowsNext
<1>7. DriverKnows'
  <2>1. \A k : HupOnWay(k) => HupOnWay(k)'
    BY <1>2, <1>5 DEF HupOnWay, In, Sending
  <2>2. epts'[s] = epts[s] \/ HupOnWay(c)'
    BY <1>2, <1>5 DEF HupOnWay, Sending
  <2>3. ASSUME NEW a \in Addrs, NEW u \in Slots \cup {0}, NEW k \in Conns, Claimed(a, u, k)'
        PROVE  Claimed(a, u, k) \/ EptIs(u, a, k)
    <3>1. CASE \E f \in Fds : /\ fd'[f].state = "CONNECTED" /\ fd'[f].local = a
                              /\ fd'[f].remote = u /\ fd'[f].id = k
      BY <1>2, <3>1 DEF Claimed
    <3>2. CASE \E i \in 1..Len(toNs') : Accepted(toNs[i], a, u, k)'
      BY <1>2, <1>4, <3>2 DEF Claimed, Accepted
    <3>3. CASE thr'["tx"].pc \in InSend /\ Accepted(thr["tx"].out, a, u, k)'
      <4>1. u = s /\ a = b /\ k = c
        BY <1>2, <3>3 DEF Accepted
      <4>2. QED BY <1>2, <4>1 DEF EptIs
    <3>4. QED BY <2>3, <3>1, <3>2, <3>3 DEF Claimed
  <2>4. ASSUME NEW a \in Addrs, NEW u \in Slots \cup {0}, NEW k \in Conns, Claimed(a, u, k)'
        PROVE  EptIs(u, a, k)' \/ HupOnWay(k)'
    <3>1. EptIs(u, a, k) \/ HupOnWay(k)
      BY <2>3, <2>4 DEF DriverKnows
    <3>2. ASSUME EptIs(u, a, k) PROVE EptIs(u, a, k)' \/ HupOnWay(k)'
      <4>1. u \in Slots /\ epts[u] = [remote |-> a, chan |-> k] /\ (u = s => k = c)
        BY <1>3, <3>2 DEF EptIs
      <4>2. QED BY <2>2, <4>1 DEF EptIs
    <3>3. QED BY <2>1, <3>1, <3>2
  <2>5. \A f \in Fds : \A k \in Conns :
          fd'[f].state = "CONNECTED" /\ fd'[f].id = k => ~In(toSec, {"conn"}, k)'
    BY <1>2 DEF DriverKnows, In
  <2>6. QED BY <2>4, <2>5 DEF DriverKnows
<1>8. ToFile'
  <2>1. ASSUME NEW f \in Fds, NEW k \in Conns, NEW a \in Addrs, Linked(f), fd[f].id = k,
               fd[f].local = a, fd[f].state = "CONNECTED" \/ In(toNs, {"accept"}, k),
               thr'["tx"].out.addr = a
        PROVE  thr'["tx"].out.id = k
    <3>1. ~In(toSec, {"conn"}, k)
      <4>1. CASE fd[f].state = "CONNECTED"
        BY <2>1, <4>1 DEF DriverKnows
      <4>2. CASE In(toNs, {"accept"}, k)
        <5>1. Heard(k)
          BY <4>2 DEF In, Heard
        <5>2. QED BY <1>1, <5>1, RequestsFacts
      <4>3. QED BY <2>1, <4>1, <4>2
    <3>2. epts[s].remote = fd[f].local
      BY <1>2, <1>3, <2>1
    <3>3. c = k
      BY <1>1, <1>2, <1>3, <2>1, <3>1, <3>2, FileEnd
    <3>4. QED BY <1>2, <3>3
  <2>3. \A k : In(toNs, {"accept"}, k)' <=> In(toNs, {"accept"}, k)
    BY <1>2 DEF In
  <2>4. QED BY <1>2, <1>4, <2>1, <2>3 DEF ToFile, DataIn
<1>9. ToService'
  <2>1. \A i \in 1..Len(toSec) : \A u \in Slots : \A k \in Conns : \A a \in Addrs :
          epts[u].remote = a /\ epts[u].chan = k
          /\ toSec[i].type = "data" /\ toSec[i].addr = a => toSec[i].id = k
    BY DEF ToService, DataIn
  <2>2. \A i, j \in 1..Len(toSec) : i < j /\ toSec[i].type = "conn" /\ toSec[j].type = "data"
          => toSec[i].addr # toSec[j].addr
    BY DEF ToService
  <2>3. QED BY <1>2, <2>1, <2>2, ToServiceNext
<1>10. QED BY <1>6, <1>7, <1>8, <1>9

(* handle_ready and handle_tx_msg.                                          *)
LEMMA TxSpeaksOrder ==
  ASSUME DevInv, OrderInv, CleanInv, TxReady \/ TxMsg, UNCHANGED ns
  PROVE  OrderInv' /\ CleanInv'
<1>1. InTypes /\ InAnswers
  BY DEF DevInv, OrderInv
<1>2. /\ UNCHANGED rings /\ epts' = epts /\ chan' = chan
      /\ thr["tx"].pc = "event" /\ thr'["rx"] = thr["rx"] /\ thr["tx"].chan \in Conns
  BY TxSpeaksDev
<1>3. PICK c \in Conns : c = thr["tx"].chan
  BY <1>2
<1>4. PICK s \in Slots :
         /\ epts[s].chan = c /\ epts[s] # NoEpt
         /\ \/ /\ thr'["tx"].pc = "send"
               /\ thr'["tx"].out = Msg("accept", epts[s].remote, s, c)
            \/ /\ thr["tx"].ev # "ready" /\ thr'["tx"].pc = "msgs"
               /\ thr'["tx"].out = Msg("data", epts[s].remote, 0, c)
  BY <1>3, TxSpeaksDev
<1>5. PICK b \in Addrs : epts[s] = [remote |-> b, chan |-> c] /\ b = epts[s].remote
  BY <1>1, <1>4, EptFacts
<1>6. fd' = fd /\ conns' = conns /\ clean' = clean /\ vds' = vds /\ toSec' = toSec /\ toNs' = toNs
  BY <1>2 DEF ns, rings
<1>7. /\ thr'["tx"].out.type \in {"accept", "data"} /\ thr'["tx"].out.id = c
      /\ thr'["tx"].out.addr = b /\ (thr'["tx"].out.type = "accept" => thr'["tx"].out.slot = s)
      /\ Speaks("tx")'
      /\ \/ thr'["tx"].pc \in InSend /\ thr'["tx"].out.type = "accept"
         \/ thr["tx"].ev # "ready"
  BY <1>4, <1>5 DEF Msg, Speaks, InSend
<1>8. Begins(s, c, b)
  BY <1>2, <1>3, <1>5, <1>6, <1>7 DEF Begins, ChanKept
<1>9. ~Sending("tx", {"refuse", "disc"}, c)'
  BY <1>7 DEF Sending
<1>10. Owned(c)
  BY <1>4 DEF Owned
<1>11. Ended(c)' => ~Owned(c)'
  <2>1. Ended(c)' => Ended(c)
    BY <1>2, <1>6, <1>9 DEF Ended, In, Threads, Sending
  <2>2. QED BY <1>10, <2>1, RequestsFacts DEF OrderInv
<1>12. /\ Addressed' /\ InRequests' /\ DiscsFirst'
       /\ \A types, k : Sending("rx", types, k)' <=> Sending("rx", types, k)
       /\ \A types, k : ~Sending("tx", types, k)
       /\ ~In(toSec, {"conn"}, c)
  BY <1>8, <1>11, BeginsOrder
<1>13. InAnswers'
  <2>1. \A k \in Conns : Pending(k) => Pending(k)' \/ Sending("tx", Answers, k)'
    <3> SUFFICES ASSUME NEW k \in Conns, Pending(k) PROVE Pending(k)' \/ Sending("tx", Answers, k)'
      OBVIOUS
    <3>1. Owned(k)'
      BY <1>2 DEF Pending, Owned
    <3>2. CASE chan[k].st # "connected" \/ chan[k].ready
      BY <1>2, <3>1, <3>2 DEF Pending
    <3>3. CASE thr["tx"].chan = k /\ thr["tx"].ev = "ready"
      BY <1>3, <1>7, <3>3 DEF Sending, Answers
    <3>4. QED BY <3>2, <3>3 DEF Pending
  <2>2. \A k \in Conns : Waiting(k) => Waiting(k)'
    BY <1>6, <1>12, <2>1, WaitingSplit, WaitingNext DEF Threads
  <2>3. QED BY <1>1, <1>6, <2>2 DEF InAnswers
<1>14. ASSUME clean', ~Gone' PROVE (DeviceKnows /\ DriverKnows /\ ToFile /\ ToService)'
  <2>1. DeviceKnows /\ DriverKnows /\ ToFile /\ ToService
    BY <1>6, <1>14 DEF CleanInv, Gone
  <2>2. QED BY <1>2, <1>7, <1>8, <2>1, BeginsClean
<1>15. QED BY <1>12, <1>13, <1>14 DEF OrderInv, CleanInv

(* handle_hup.                                                              *)
LEMMA TxHupOrder ==
  ASSUME DevInv, OrderInv, CleanInv, TxHup, UNCHANGED ns
  PROVE  OrderInv' /\ CleanInv'
<1>1. InTypes /\ InHandles /\ InAnswers
  BY DEF DevInv, OrderInv
<1>2. /\ UNCHANGED rings /\ \A k \in Conns : ChanKept(k)
      /\ thr["tx"].pc = "event" /\ thr'["rx"] = thr["rx"] /\ thr["tx"].ev = "hup"
      /\ thr'["tx"].pc = "send"
  BY TxHupDev
<1>3. PICK s \in Slots :
         /\ epts[s].chan = thr["tx"].chan /\ epts[s] # NoEpt
         /\ epts' = [epts EXCEPT ![s] = NoEpt]
         /\ thr'["tx"].out = Msg("disc", epts[s].remote, s, thr["tx"].chan)
  BY TxHupDev
<1>4. PICK c \in Conns, b \in Addrs :
         epts[s] = [remote |-> b, chan |-> c] /\ b = epts[s].remote /\ c = epts[s].chan
         /\ c = thr["tx"].chan
  BY <1>1, <1>3, EptFacts
<1>5. fd' = fd /\ conns' = conns /\ clean' = clean /\ vds' = vds /\ toSec' = toSec /\ toNs' = toNs
  BY <1>2 DEF ns, rings
<1>6. /\ thr'["tx"].out.type = "disc" /\ thr'["tx"].out.id = c
      /\ thr'["tx"].out.addr = b /\ Speaks("tx")' /\ thr'["tx"].pc \in InSend
  BY <1>2, <1>3, <1>4 DEF Msg, Speaks, InSend
<1>7. epts'[s] = NoEpt /\ NoEpt.chan = 0 /\ \A u \in Slots \ {s} : epts'[u] = epts[u]
  BY <1>1, <1>3 DEF InTypes, NoEpt
<1>8. \A u \in Slots : \A k \in Conns : epts'[u].chan = k => epts'[u] = epts[u]
  BY <1>7, Zero
<1>9. Begins(s, c, b)
  BY <1>2, <1>4, <1>5, <1>6, <1>8 DEF Begins
<1>10. ~Owned(c)'
  <2> SUFFICES ASSUME NEW u \in Slots, epts'[u].chan = c PROVE FALSE
    BY DEF Owned
  <2>1. u # s /\ epts[u].chan = c
    BY <1>7, Zero
  <2>2. QED BY <1>1, <1>3, <1>4, <2>1 DEF InHandles
<1>11. /\ Addressed' /\ InRequests' /\ DiscsFirst'
       /\ \A types, k : Sending("rx", types, k)' <=> Sending("rx", types, k)
       /\ \A types, k : ~Sending("tx", types, k)
       /\ ~In(toSec, {"conn"}, c)
  BY <1>9, <1>10, BeginsOrder
<1>12. InAnswers'
  <2>1. Sending("tx", Answers, c)'
    BY <1>6 DEF Sending, Answers
  <2>2. ASSUME NEW k \in Conns, Pending(k), k # c PROVE Pending(k)'
    <3>1. Owned(k)'
      BY <1>4, <1>7, <2>2 DEF Pending, Owned
    <3>2. chan'[k].st = chan[k].st /\ chan'[k].ready = chan[k].ready
      BY <1>2, <3>1 DEF ChanKept
    <3>3. QED BY <1>4, <2>2, <3>1, <3>2 DEF Pending
  <2>3. \A k \in Conns : Waiting(k) => Waiting(k)'
    BY <1>5, <1>11, <2>1, <2>2, WaitingSplit, WaitingNext DEF Threads
  <2>4. QED BY <1>1, <1>5, <2>3 DEF InAnswers
<1>13. ASSUME clean', ~Gone' PROVE (DeviceKnows /\ DriverKnows /\ ToFile /\ ToService)'
  <2>1. DeviceKnows /\ DriverKnows /\ ToFile /\ ToService
    BY <1>5, <1>13 DEF CleanInv, Gone
  <2>2. thr'["tx"].out.type # "accept"
    BY <1>6
  <2>3. QED BY <1>2, <1>6, <1>7, <1>9, <2>1, <2>2, BeginsClean
<1>14. QED BY <1>11, <1>12, <1>13 DEF OrderInv, CleanInv

(* tipc_dev_reset closes the channels: nobody is left to ask.               *)
LEMMA ResetChannelsOrder ==
  ASSUME DevInv, OrderInv, ResetChannels, UNCHANGED ns
  PROVE  OrderInv' /\ CleanInv'
<1>1. InTypes /\ InFiles /\ Addressed /\ InRequests /\ InAnswers /\ DiscsFirst
  BY DEF DevInv, OrderInv
<1>2. /\ Gone /\ toSec' = toSec /\ toNs' = toNs /\ \A s \in Slots : epts'[s] = NoEpt
      /\ \A k \in Conns : chan[k] = NoChan => chan'[k] = NoChan
      /\ \A t \in Threads : (Speaks(t)' <=> Speaks(t)) /\ thr'[t].out = thr[t].out
                             /\ (thr'[t].pc \in InSend <=> thr[t].pc \in InSend)
  BY ResetChannelsDev
<1>3. fd' = fd /\ conns' = conns /\ Gone' /\ \A f \in Fds : ~Linked(f) /\ ~Linked(f)'
  BY <1>1, <1>2 DEF ns, Gone, InFiles, Linked
<1>4. \A s \in Slots : epts'[s].chan \notin Conns
  <2>1. NoEpt.chan = 0
    BY DEF NoEpt
  <2>2. QED BY <1>2, <2>1, Zero
<1>5. Addressed'
  <2>1. \A k \in Conns : \A a \in Addrs : Carries(k, a)' => Carries(k, a)
    BY <1>2, <1>3, <1>4, CarriesHere, CarriesBack
  <2>2. QED BY <1>1, <1>3, <2>1, AddressedKept
<1>6. InRequests'
  <2>1. \A k \in Conns : Heard(k)' => Heard(k)
    BY <1>2 DEF Heard, In
  <2>2. \A k \in Conns : ~Owned(k)'
    BY <1>4 DEF Owned
  <2>3. QED BY <1>1, <1>2, <1>3, <2>1, <2>2, RequestsFacts, RequestsKept
<1>7. InAnswers'
  BY <1>3 DEF InAnswers, Linked
<1>8. DiscsFirst'
  BY <1>1, <1>2, <1>3, DiscsKept
<1>9. QED BY <1>3, <1>5, <1>6, <1>7, <1>8 DEF OrderInv, CleanInv

(* tipc_send_data gets its buffer.                                          *)
LEMMA SendFilledOrder ==
  ASSUME DevInv, OrderInv, CleanInv, NEW t \in Threads, SendFilled(t), UNCHANGED ns
  PROVE  OrderInv' /\ CleanInv'
<1>1. InTypes /\ InFiles /\ InThreads /\ Addressed /\ InRequests /\ InAnswers /\ DiscsFirst
  BY DEF DevInv, OrderInv
<1>2. /\ toNs' = Append(toNs, thr[t].out) /\ thr[t].out \in NsMsgs
      /\ toSec' = toSec /\ epts' = epts /\ \A k \in Conns : ChanKept(k)
      /\ \A u \in Threads \ {t} : thr'[u] = thr[u]
      /\ thr[t].pc = "send" /\ thr'[t].pc \notin InSend
      /\ Speaks(t)' => thr'[t].out = thr[t].out /\ t = "tx"
  BY SendFilledDev
<1> DEFINE m == thr[t].out
           S == NsMsgs \cup {Msg("online", 0, 0, 0)}
<1>3. m \in S /\ toNs \in Seq(S) /\ toNs' = Append(toNs, m)
  BY <1>1, <1>2 DEF InTypes
<1>4. thr[t].pc \in InSend /\ Speaks(t) /\ (t = "rx" => m.type = "refuse")
      /\ m.type \in {"accept", "refuse", "data", "disc"}
  BY <1>1, <1>2 DEF InSend, Speaks, InThreads, NsMsgs, MsgsOf
<1> HIDE DEF S
<1>5. /\ \A types, k : In(toNs', types, k) <=> In(toNs, types, k) \/ (m.type \in types /\ m.id = k)
  BY <1>3, InAppend
<1>6. /\ Len(toNs') = Len(toNs) + 1 /\ Len(toNs) \in Nat
      /\ \A i \in 1..Len(toNs) : toNs'[i] = toNs[i]
      /\ toNs'[Len(toNs) + 1] = m
  BY <1>3, AppendFacts
<1>7. \A i \in 1..Len(toNs') : \/ i \in 1..Len(toNs) /\ toNs'[i] = toNs[i]
                               \/ i = Len(toNs) + 1 /\ toNs'[i] = m
  BY <1>6
<1>8. fd' = fd /\ conns' = conns /\ clean' = clean /\ vds' = vds
      /\ \A f \in Fds : Linked(f)' <=> Linked(f)
  BY DEF ns, Linked
<1>9. /\ \A u \in Threads : Speaks(u)' => Speaks(u) /\ thr'[u].out = thr[u].out
      /\ \A u \in Threads : \A types, k : Sending(u, types, k)' => Sending(u, types, k)
      /\ \A u \in Threads : \A types, k : Sending(u, types, k) =>
           Sending(u, types, k)' \/ (m.type \in types /\ m.id = k)
  <2>1. \A u \in Threads \ {t} : /\ Speaks(u)' <=> Speaks(u)
                                 /\ \A types, k : Sending(u, types, k)' <=> Sending(u, types, k)
    BY <1>2 DEF Speaks, Sending
  <2>2. \A types, k : ~Sending(t, types, k)'
    BY <1>2 DEF Sending
  <2>3. \A types, k : Sending(t, types, k) <=> m.type \in types /\ m.id = k
    BY <1>4 DEF Sending
  <2>4. QED BY <1>2, <1>4, <2>1, <2>2, <2>3
<1>10. \A types, k : m.type \in types /\ m.id = k => Sending(t, types, k)
  BY <1>4 DEF Sending
<1>11. Addressed'
  <2>1. \A i \in 1..Len(toNs') : Carries(toNs'[i].id, toNs'[i].addr)
    BY <1>4, <1>7, CarriesHere
  <2>2. \A k \in Conns : \A a \in Addrs : Carries(k, a)' => Carries(k, a)
    BY <1>2, <1>8, <1>9, <2>1, CarriesHere, CarriesBack
  <2>3. QED BY <1>1, <1>8, <2>2, AddressedKept
<1>12. InRequests'
  <2>1. \A k \in Conns : Heard(k)' => Heard(k)
    <3> SUFFICES ASSUME NEW k \in Conns, Heard(k)' PROVE Heard(k)
      OBVIOUS
    <3>1. \/ In(toNs', {"accept", "refuse", "data", "disc"}, k)
          \/ \E u \in Threads : Speaks(u)' /\ thr'[u].out.id = k
      BY DEF Heard, In
    <3>2. QED BY <1>4, <1>5, <1>9, <3>1 DEF Heard
  <2>2. \A k \in Conns : Ended(k)' => Ended(k)
    <3> SUFFICES ASSUME NEW k \in Conns, Ended(k)' PROVE Ended(k)
      OBVIOUS
    <3>1. \/ In(toNs', {"refuse", "disc"}, k)
          \/ \E u \in Threads : Sending(u, {"refuse", "disc"}, k)'
      BY DEF Ended, In
    <3>2. QED BY <1>5, <1>9, <1>10, <3>1 DEF Ended
  <2>3. \A k \in Conns : Owned(k)' <=> Owned(k)
    BY <1>2 DEF Owned
  <2>4. \A k \in Conns : chan[k] = NoChan => chan'[k] = NoChan
    BY <1>2 DEF ChanKept
  <2>5. QED BY <1>1, <1>2, <1>8, <2>1, <2>2, <2>3, <2>4, RequestsFacts, RequestsKept
<1>13. InAnswers'
  <2>1. \A k \in Conns : Pending(k) => Pending(k)'
    <3> SUFFICES ASSUME NEW k \in Conns, Pending(k) PROVE Pending(k)'
      OBVIOUS
    <3>1. Owned(k)'
      BY <1>2 DEF Pending, Owned
    <3>2. chan'[k].st = chan[k].st /\ chan'[k].ready = chan[k].ready
      BY <1>2, <3>1 DEF ChanKept
    <3>3. thr["tx"].pc = "event" => thr'["tx"] = thr["tx"]
      BY <1>2 DEF Threads
    <3>4. QED BY <3>1, <3>2, <3>3 DEF Pending, At
  <2>2. \A k \in Conns : Waiting(k) => Waiting(k)'
    BY <1>2, <1>5, <1>9, <2>1, WaitingSplit, WaitingNext
  <2>3. QED BY <1>1, <1>8, <2>2 DEF InAnswers
<1>14. DiscsFirst'
  BY <1>1, <1>2, <1>8, DiscsKept
<1>15. ASSUME clean', ~Gone' PROVE (DeviceKnows /\ DriverKnows /\ ToFile /\ ToService)'
  <2>1. DeviceKnows /\ DriverKnows /\ ToFile /\ ToService
    BY <1>8, <1>15 DEF CleanInv, Gone
  <2>2. \A k : LinkedTo(k)' <=> LinkedTo(k)
    BY <1>8 DEF LinkedTo
  <2>3. DeviceKnows'
    <3>1. \A k : DiscOnWay(k)' <=> DiscOnWay(k)
      BY <1>2 DEF DiscOnWay, In
    <3>2. QED BY <1>2, <2>1, <2>2, <3>1 DEF DeviceKnows, ConnAt
  <2>4. DriverKnows'
    <3>1. \A k : HupOnWay(k) => HupOnWay(k)'
      <4> SUFFICES ASSUME NEW k, HupOnWay(k) PROVE HupOnWay(k)'
        OBVIOUS
      <4>1. In(toNs', {"disc"}, k) \/ Sending("tx", {"disc"}, k)'
        BY <1>5, <1>9 DEF HupOnWay, Threads
      <4>2. QED BY <4>1 DEF HupOnWay, In
    <3>2. ASSUME NEW a \in Addrs, NEW u \in Slots \cup {0}, NEW k \in Conns, Claimed(a, u, k)'
          PROVE  Claimed(a, u, k)
      <4>1. CASE \E f \in Fds : /\ fd'[f].state = "CONNECTED" /\ fd'[f].local = a
                                /\ fd'[f].remote = u /\ fd'[f].id = k
        BY <1>8, <4>1 DEF Claimed
      <4>2. CASE \E i \in 1..Len(toNs') : Accepted(toNs[i], a, u, k)'
        <5>1. PICK i \in 1..Len(toNs') : Accepted(toNs[i], a, u, k)'
          BY <4>2
        <5>2. CASE i \in 1..Len(toNs) /\ toNs'[i] = toNs[i]
          BY <2>2, <5>1, <5>2 DEF Claimed, Accepted
        <5>3. CASE toNs'[i] = m
          <6>1. m.type = "accept"
            BY <5>1, <5>3 DEF Accepted
          <6>2. t = "tx"
            BY <1>4, <6>1 DEF Threads
          <6>3. QED BY <1>4, <2>2, <5>1, <5>3, <6>2 DEF Claimed, Accepted
        <5>4. QED BY <1>7, <5>2, <5>3
      <4>3. CASE thr'["tx"].pc \in InSend /\ Accepted(thr["tx"].out, a, u, k)'
        <5>1. thr'["tx"] = thr["tx"]
          BY <1>2, <4>3 DEF Threads
        <5>2. QED BY <2>2, <4>3, <5>1 DEF Claimed, Accepted
      <4>4. QED BY <3>2, <4>1, <4>2, <4>3 DEF Claimed
    <3>3. \A s, a, k : EptIs(s, a, k)' <=> EptIs(s, a, k)
      BY <1>2 DEF EptIs
    <3>4. \A f \in Fds : \A k \in Conns :
            fd'[f].state = "CONNECTED" /\ fd'[f].id = k => ~In(toSec, {"conn"}, k)'
      BY <1>2, <1>8, <2>1 DEF DriverKnows, In
    <3>5. QED BY <2>1, <3>1, <3>2, <3>3, <3>4 DEF DriverKnows
  <2>5. ToFile'
    <3> SUFFICES ASSUME NEW f \in Fds, NEW k \in Conns, NEW a \in Addrs,
                        Linked(f), fd[f].id = k, fd[f].local = a
                 PROVE
      /\ (fd[f].state = "CONNECTED" \/ In(toNs', {"accept"}, k))
         /\ Speaks("tx")' /\ thr'["tx"].out.type = "data" /\ thr'["tx"].out.addr = a
           => thr'["tx"].out.id = k
      /\ \A i, j \in 1..Len(toNs') :
           toNs'[i].type = "accept" /\ toNs'[i].id = k /\ i < j /\ DataIn(toNs', j, a)
             => toNs'[j].id = k
      /\ \A i \in 1..Len(toNs') :
           fd[f].state = "CONNECTED" /\ DataIn(toNs', i, a) => toNs'[i].id = k
      BY <1>8 DEF ToFile, In, DataIn
    <3>1. /\ (fd[f].state = "CONNECTED" \/ In(toNs, {"accept"}, k))
             /\ Speaks("tx") /\ thr["tx"].out.type = "data" /\ thr["tx"].out.addr = a
               => thr["tx"].out.id = k
          /\ \A i, j \in 1..Len(toNs) :
               toNs[i].type = "accept" /\ toNs[i].id = k /\ i < j /\ DataIn(toNs, j, a)
                 => toNs[j].id = k
          /\ \A i \in 1..Len(toNs) :
               fd[f].state = "CONNECTED" /\ DataIn(toNs, i, a) => toNs[i].id = k
      BY <2>1 DEF ToFile
    <3>2. ASSUME m.type = "data", m.addr = a,
                 fd[f].state = "CONNECTED" \/ In(toNs, {"accept"}, k)
          PROVE  m.id = k
      <4>1. t = "tx"
        BY <1>4, <3>2 DEF Threads
      <4>2. QED BY <1>4, <3>1, <3>2, <4>1
    <3>3. ASSUME fd[f].state = "CONNECTED" \/ In(toNs', {"accept"}, k), Speaks("tx")',
                 thr'["tx"].out.type = "data", thr'["tx"].out.addr = a
          PROVE  thr'["tx"].out.id = k
      <4>1. Speaks("tx") /\ thr'["tx"].out = thr["tx"].out
        BY <1>9, <3>3 DEF Threads
      <4>2. In(toNs', {"accept"}, k) => In(toNs, {"accept"}, k)
        <5> SUFFICES ASSUME m.type = "accept" PROVE FALSE
          BY <1>5
        <5>1. t = "tx"
          BY <1>4 DEF Threads
        <5>2. QED BY <3>3, <4>1, <5>1
      <4>3. QED BY <3>1, <3>3, <4>1, <4>2
    <3>4. ASSUME NEW i \in 1..Len(toNs'), NEW j \in 1..Len(toNs'), toNs'[i].type = "accept",
                 toNs'[i].id = k, i < j, toNs'[j].type = "data", toNs'[j].addr = a
          PROVE  toNs'[j].id = k
      <4>1. i \in 1..Len(toNs) /\ toNs'[i] = toNs[i]
        BY <1>6, <3>4
      <4>2. In(toNs, {"accept"}, k)
        BY <3>4, <4>1 DEF In
      <4>3. CASE j \in 1..Len(toNs) /\ toNs'[j] = toNs[j]
        BY <3>1, <3>4, <4>1, <4>3 DEF DataIn
      <4>4. CASE toNs'[j] = m
        BY <3>2, <3>4, <4>2, <4>4
      <4>5. QED BY <1>7, <4>3, <4>4
    <3>5. ASSUME NEW i \in 1..Len(toNs'), fd[f].state = "CONNECTED", toNs'[i].type = "data",
                 toNs'[i].addr = a
          PROVE  toNs'[i].id = k
      BY <1>7, <3>1, <3>2, <3>5 DEF DataIn
    <3>6. QED BY <3>3, <3>4, <3>5 DEF DataIn
  <2>6. ToService'
    BY <1>2, <2>1 DEF ToService, DataIn
  <2>7. QED BY <2>3, <2>4, <2>5, <2>6
<1>16. QED BY <1>11, <1>12, <1>13, <1>14, <1>15 DEF OrderInv, CleanInv

----------------------------------------------------------------------------
(* Steps of the driver.                                                     *)

(* The device does nothing, so it says what it said.                        *)
LEMMA DevMute ==
  ASSUME UNCHANGED dev
  PROVE  /\ epts' = epts /\ chan' = chan /\ thr' = thr
         /\ \A t \in Threads : (Speaks(t)' <=> Speaks(t)) /\ thr'[t].out = thr[t].out
         /\ \A t \in Threads : \A types, k : Sending(t, types, k)' <=> Sending(t, types, k)
         /\ \A k : (Pending(k)' <=> Pending(k)) /\ (Owned(k)' <=> Owned(k))
         /\ \A s, a, k : EptIs(s, a, k)' <=> EptIs(s, a, k)
<1>1. epts' = epts /\ chan' = chan /\ thr' = thr
  BY DEF dev
<1>2. \A t \in Threads : (Speaks(t)' <=> Speaks(t)) /\ thr'[t].out = thr[t].out
  BY <1>1 DEF Speaks
<1>3. \A t \in Threads : \A types, k : Sending(t, types, k)' <=> Sending(t, types, k)
  BY <1>1 DEF Sending
<1>4. \A k : (Pending(k)' <=> Pending(k)) /\ (Owned(k)' <=> Owned(k))
  BY <1>1 DEF Pending, Owned, At
<1>5. \A s, a, k : EptIs(s, a, k)' <=> EptIs(s, a, k)
  BY <1>1 DEF EptIs
<1>6. QED BY <1>1, <1>2, <1>3, <1>4, <1>5

(* Nothing is sent to it either.                                            *)
LEMMA DevSilent ==
  ASSUME UNCHANGED dev, UNCHANGED rings
  PROVE  Silent
<1>1. toSec' = toSec /\ toNs' = toNs
  BY DEF rings
<1>2. QED BY <1>1, DevMute DEF Silent

(* The ring when the driver has added a message.                            *)
LEMMA QueuedFacts ==
  ASSUME InTypes, NEW m \in SecMsgs, toSec' = Append(toSec, m)
  PROVE  /\ Len(toSec') = Len(toSec) + 1 /\ Len(toSec) \in Nat
         /\ \A i \in 1..Len(toSec) : toSec'[i] = toSec[i] /\ i \in 1..Len(toSec')
         /\ toSec'[Len(toSec) + 1] = m
         /\ \A i \in 1..Len(toSec') : \/ i \in 1..Len(toSec) /\ toSec'[i] = toSec[i]
                                      \/ i = Len(toSec) + 1 /\ toSec'[i] = m
         /\ \A types, k : In(toSec', types, k)
                          <=> In(toSec, types, k) \/ (m.type \in types /\ m.id = k)
<1> DEFINE S == SecMsgs
<1>1. toSec \in Seq(S) /\ m \in S
  BY DEF InTypes
<1> HIDE DEF S
<1>2. /\ Len(toSec') = Len(toSec) + 1 /\ Len(toSec) \in Nat
      /\ \A i \in 1..Len(toSec) : toSec'[i] = toSec[i]
      /\ toSec'[Len(toSec) + 1] = m
  BY <1>1, AppendFacts
<1>3. \A types, k : In(toSec', types, k) <=> In(toSec, types, k) \/ (m.type \in types /\ m.id = k)
  BY <1>1, InAppend
<1>4. QED BY <1>2, <1>3

(* Who speaks after a step did so before, or it is about one new request.   *)
LEMMA CarriesOr ==
  ASSUME NEW K, NEW A,
         \A i \in 1..Len(toSec') : \/ Carries(toSec'[i].id, toSec'[i].addr)
                                   \/ toSec'[i].id = K /\ toSec'[i].addr = A,
         toNs' = toNs,
         UNCHANGED dev,
         \A f \in Fds : Linked(f)' => \/ Carries(fd'[f].id, fd'[f].local)
                                      \/ fd'[f].id = K /\ fd'[f].local = A
  PROVE  \A k \in Conns : \A a \in Addrs : Carries(k, a)' => Carries(k, a) \/ (k = K /\ a = A)
<1> SUFFICES ASSUME NEW k \in Conns, NEW a \in Addrs, Carries(k, a)'
             PROVE  Carries(k, a) \/ (k = K /\ a = A)
  OBVIOUS
<1>1. CASE \E i \in 1..Len(toSec') : toSec'[i].id = k /\ toSec'[i].addr = a
  BY <1>1
<1>2. CASE \E i \in 1..Len(toNs') : toNs'[i].id = k /\ toNs'[i].addr = a
  BY <1>2, CarriesHere
<1>3. CASE \E t \in Threads : Speaks(t)' /\ thr'[t].out.id = k /\ thr'[t].out.addr = a
  BY <1>3, DevMute, CarriesHere
<1>4. CASE \E s \in Slots : epts'[s].chan = k /\ epts'[s].remote = a
  BY <1>4, DevMute, CarriesHere
<1>5. CASE \E f \in Fds : Linked(f)' /\ fd'[f].id = k /\ fd'[f].local = a
  BY <1>5
<1>6. QED BY <1>1, <1>2, <1>3, <1>4, <1>5 DEF Carries

(* Nothing is known of a request that was not made yet.                     *)
LEMMA NothingYet ==
  ASSUME InTypes, InThreads, InHandles, InFiles, Addressed, InRequests,
         NEW K \in Conns, K = conns + 1
  PROVE  /\ \A a \in Addrs : ~Carries(K, a)
         /\ ~Heard(K) /\ chan[K] = NoChan
         /\ \A i \in 1..Len(toSec) : toSec[i].id # K
         /\ \A s \in Slots : epts[s].chan # K
         /\ \A g \in Fds : Linked(g) => fd[g].id # K
         /\ \A i \in 1..Len(toNs) : toNs[i].type = "accept" => toNs[i].id # K
         /\ Speaks("tx") => thr["tx"].out.id # K
<1>1. conns \in Nat /\ ~(K <= conns) /\ K > conns
  BY RingsAssumption DEF InTypes
<1>2. \A a \in Addrs : ~Carries(K, a)
  BY <1>1 DEF Addressed
<1>3. ~Heard(K) /\ chan[K] = NoChan
  BY <1>1, RequestsFacts
<1>4. \A i \in 1..Len(toSec) : toSec[i].id # K
  <2>1. \A i \in 1..Len(toSec) : toSec[i] \in SecMsgs
    BY DEF InTypes
  <2>2. \A i \in 1..Len(toSec) : toSec[i].addr \in Addrs
    BY <2>1 DEF SecMsgs, MsgsOf
  <2>3. QED BY <1>2, <2>2, CarriesHere
<1>5. \A s \in Slots : epts[s].chan # K
  BY <1>2, EptFacts, CarriesHere, Zero
<1>6. \A g \in Fds : Linked(g) => fd[g].id # K
  BY <1>1 DEF InFiles
<1>7. \A i \in 1..Len(toNs) : toNs[i].type = "accept" => toNs[i].id # K
  BY <1>3 DEF Heard, In
<1>8. Speaks("tx") => thr["tx"].out.id # K
  BY <1>3 DEF Heard, Threads
<1>9. QED BY <1>2, <1>3, <1>4, <1>5, <1>6, <1>7, <1>8

(* dn_connect_ioctl.                                                        *)
LEMMA ConnectOrder ==
  ASSUME DevInv, OrderInv, CleanInv, NEW f \in Fds, Connect(f), UNCHANGED dev
  PROVE  OrderInv' /\ CleanInv'
<1>1. InTypes /\ InFiles /\ InThreads /\ InHandles
      /\ Addressed /\ InRequests /\ InAnswers /\ DiscsFirst
  BY DEF DevInv, OrderInv
<1>2. PICK K \in Conns, A \in Addrs :
        /\ K = conns + 1 /\ A = fd[f].local
        /\ fd[f].state = "DISCONNECTED" /\ vds' = vds /\ clean' = clean /\ toNs' = toNs
        /\ conns' = K /\ toSec' = Append(toSec, Msg("conn", A, 0, K))
        /\ Msg("conn", A, 0, K) \in SecMsgs
        /\ fd'[f].state = "CONNECTING" /\ fd'[f].id = K
        /\ fd'[f].local = A /\ \A g \in Fds \ {f} : fd'[g] = fd[g]
  BY ConnectDev
<1> DEFINE m == Msg("conn", A, 0, K)
<1>3. m.type = "conn" /\ m.id = K /\ m.addr = A
  BY DEF Msg
<1>4. m \in SecMsgs /\ toSec' = Append(toSec, m)
  BY <1>2
<1> HIDE DEF m
<1>5. /\ Len(toSec') = Len(toSec) + 1 /\ Len(toSec) \in Nat
      /\ \A i \in 1..Len(toSec) : toSec'[i] = toSec[i] /\ i \in 1..Len(toSec')
      /\ toSec'[Len(toSec) + 1] = m
      /\ \A i \in 1..Len(toSec') : \/ i \in 1..Len(toSec) /\ toSec'[i] = toSec[i]
                                   \/ i = Len(toSec) + 1 /\ toSec'[i] = m
      /\ \A types, k : In(toSec', types, k)
                       <=> In(toSec, types, k) \/ (m.type \in types /\ m.id = k)
  BY <1>1, <1>4, QueuedFacts
<1>6. /\ \A a \in Addrs : ~Carries(K, a)
      /\ ~Heard(K) /\ chan[K] = NoChan
      /\ \A i \in 1..Len(toSec) : toSec[i].id # K
      /\ \A s \in Slots : epts[s].chan # K
      /\ \A g \in Fds : Linked(g) => fd[g].id # K
      /\ \A i \in 1..Len(toNs) : toNs[i].type = "accept" => toNs[i].id # K
      /\ Speaks("tx") => thr["tx"].out.id # K
  BY <1>1, <1>2, NothingYet
<1>7. /\ Linked(f)' /\ ~Linked(f) /\ \A g \in Fds \ {f} : Linked(g)' <=> Linked(g)
  BY <1>2 DEF Linked
<1>8. /\ epts' = epts /\ chan' = chan /\ thr' = thr
      /\ \A t \in Threads : (Speaks(t)' <=> Speaks(t)) /\ thr'[t].out = thr[t].out
      /\ \A t \in Threads : \A types, k : Sending(t, types, k)' <=> Sending(t, types, k)
      /\ \A k : (Pending(k)' <=> Pending(k)) /\ (Owned(k)' <=> Owned(k))
      /\ \A s, a, k : EptIs(s, a, k)' <=> EptIs(s, a, k)
  BY DevMute
<1>9. /\ \A k : (Heard(k)' <=> Heard(k)) /\ (Ended(k)' <=> Ended(k))
      /\ \A types, k : In(toNs, types, k)' <=> In(toNs, types, k)
  BY <1>2, <1>8 DEF Heard, Ended, In
<1>10. conns \in Nat /\ K > conns
  BY <1>1, <1>2, RingsAssumption DEF InTypes
<1>11. Addressed'
  <2>1. \A i \in 1..Len(toSec') : \/ Carries(toSec'[i].id, toSec'[i].addr)
                                  \/ toSec'[i].id = K /\ toSec'[i].addr = A
    BY <1>3, <1>5, CarriesHere
  <2>2. \A g \in Fds : Linked(g)' => \/ Carries(fd'[g].id, fd'[g].local)
                                     \/ fd'[g].id = K /\ fd'[g].local = A
    BY <1>2, <1>7, CarriesHere
  <2>3. \A k \in Conns : \A a \in Addrs : Carries(k, a)' => Carries(k, a) \/ (k = K /\ a = A)
    <3>1. toNs' = toNs
      BY <1>2
    <3>2. QED BY <2>1, <2>2, <3>1, CarriesOr, Zenon
  <2>4. ASSUME NEW k \in Conns, NEW a \in Addrs, NEW b \in Addrs, Carries(k, a)'
        PROVE  k <= conns' /\ (Carries(k, b)' => a = b)
    <3>1. CASE k = K
      <4>1. \A c \in Addrs : Carries(k, c)' => c = A
        BY <1>6, <2>3, <3>1
      <4>2. k <= conns'
        BY <1>2, <1>10, <3>1
      <4>3. QED BY <2>4, <4>1, <4>2
    <3>2. CASE k # K
      <4>1. Carries(k, a) /\ (Carries(k, b)' => Carries(k, b))
        BY <2>3, <2>4, <3>2
      <4>2. k <= conns /\ (Carries(k, b)' => a = b)
        BY <1>1, <4>1 DEF Addressed
      <4>3. k \in Nat
        BY Zero
      <4>4. QED BY <1>2, <1>10, <4>2, <4>3
    <3>3. QED BY <3>1, <3>2
  <2>5. QED BY <2>4 DEF Addressed
<1>12. InRequests'
  <2>1. UniqueConns(toSec')
    <3>1. UniqueConns(toSec)
      BY <1>1, RequestsFacts
    <3> SUFFICES ASSUME NEW i \in 1..Len(toSec'), NEW j \in 1..Len(toSec'),
                        toSec'[i].type = "conn", toSec'[j].type = "conn",
                        toSec'[i].id = toSec'[j].id
                 PROVE  i = j
      BY DEF UniqueConns
    <3>2. QED BY <1>3, <1>5, <1>6, <3>1 DEF UniqueConns
  <2>2. \A k \in Conns : k > conns' \/ In(toSec', {"conn"}, k) =>
          /\ k > conns \/ In(toSec, {"conn"}, k)
          /\ chan[k] = NoChan => chan'[k] = NoChan
          /\ Heard(k)' => Heard(k)
    <3>1. \A k \in Conns : k > conns' => k > conns
      BY <1>2, <1>10, Zero
    <3>2. QED BY <1>3, <1>5, <1>8, <1>9, <1>10, <3>1
  <2>3. QED BY <1>1, <1>8, <1>9, <2>1, <2>2, RequestsFacts, RequestsKept
<1>13. InAnswers'
  <2>1. \A k \in Conns : Waiting(k) => Waiting(k)'
    BY <1>2, <1>5, <1>8, WaitingSplit, WaitingNext
  <2>2. Waiting(K)'
    BY <1>3, <1>5, WaitingNext
  <2>3. QED BY <1>1, <1>2, <2>1, <2>2 DEF InAnswers
<1>14. DiscsFirst'
  <2>1. ASSUME NEW i \in 1..Len(toSec'), NEW g \in Fds, toSec'[i].type = "disc", Linked(g)',
               fd'[g].local = toSec'[i].addr
        PROVE  \E j \in i + 1..Len(toSec') : toSec'[j].type = "conn" /\ toSec'[j].id = fd'[g].id
    <3>1. i \in 1..Len(toSec) /\ toSec'[i] = toSec[i]
      BY <1>3, <1>5, <2>1
    <3>2. CASE g = f
      <4>1. Len(toSec) + 1 \in i + 1..Len(toSec')
        BY <1>5, <3>1
      <4>2. QED BY <1>2, <1>3, <1>5, <3>2, <4>1
    <3>3. CASE g # f
      <4>1. PICK j \in i + 1..Len(toSec) : toSec[j].type = "conn" /\ toSec[j].id = fd[g].id
        BY <1>1, <1>2, <1>7, <2>1, <3>1, <3>3 DEF DiscsFirst, ConnAt
      <4>2. j \in i + 1..Len(toSec') /\ j \in 1..Len(toSec)
        BY <1>5, <3>1
      <4>3. QED BY <1>2, <1>5, <3>3, <4>1, <4>2
    <3>4. QED BY <3>2, <3>3
  <2>2. ASSUME NEW i \in 1..Len(toSec'), NEW j \in 1..Len(toSec'), i < j,
               toSec'[i].type = "disc", toSec'[j].type = "disc", toSec'[i].addr = toSec'[j].addr
        PROVE  \E l \in i + 1..j - 1 : toSec'[l].type = "conn" /\ toSec'[l].id = toSec'[j].id
    <3>1. /\ i \in 1..Len(toSec) /\ toSec'[i] = toSec[i]
          /\ j \in 1..Len(toSec) /\ toSec'[j] = toSec[j]
      BY <1>3, <1>5, <2>2
    <3>2. PICK l \in i + 1..j - 1 : toSec[l].type = "conn" /\ toSec[l].id = toSec[j].id
      BY <1>1, <2>2, <3>1 DEF DiscsFirst, ConnAt
    <3>3. l \in 1..Len(toSec)
      BY <1>5, <3>1
    <3>4. QED BY <1>5, <3>1, <3>2, <3>3
  <2>3. QED BY <2>1, <2>2 DEF DiscsFirst, ConnAt
<1>15. ASSUME clean', ~Gone' PROVE (DeviceKnows /\ DriverKnows /\ ToFile /\ ToService)'
  <2>1. DeviceKnows /\ DriverKnows /\ ToFile /\ ToService
    BY <1>2, <1>15 DEF CleanInv, Gone
  <2>2. /\ \A k : LinkedTo(k) => LinkedTo(k)'
        /\ \A k : LinkedTo(k)' => LinkedTo(k) \/ k = K
        /\ LinkedTo(K)'
    BY <1>2, <1>7 DEF LinkedTo
  <2>3. DeviceKnows'
    <3>1. \A s \in Slots : \A k \in Conns : epts'[s].chan = k => In(toSec', {"disc"}, k) \/ LinkedTo(k)'
      BY <1>5, <1>8, <2>1, <2>2 DEF DeviceKnows, DiscOnWay
    <3>2. ASSUME NEW i \in 1..Len(toSec'), NEW k \in Conns, toSec'[i].type = "conn",
                 toSec'[i].id = k, ~LinkedTo(k)'
          PROVE  \E j \in i + 1..Len(toSec') : toSec'[j].type = "disc" /\ toSec'[j].id = k
      <4>1. i \in 1..Len(toSec) /\ toSec'[i] = toSec[i] /\ ~LinkedTo(k)
        BY <1>3, <1>5, <2>2, <3>2
      <4>2. PICK j \in i + 1..Len(toSec) : toSec[j].type = "disc" /\ toSec[j].id = k
        BY <2>1, <3>2, <4>1 DEF DeviceKnows, ConnAt
      <4>3. j \in i + 1..Len(toSec') /\ j \in 1..Len(toSec)
        BY <1>5, <4>1
      <4>4. QED BY <1>5, <4>2, <4>3
    <3>3. QED BY <3>1, <3>2, DeviceKnowsNext
  <2>4. DriverKnows'
    <3>1. ASSUME NEW a \in Addrs, NEW s \in Slots \cup {0}, NEW k \in Conns, Claimed(a, s, k)'
          PROVE  Claimed(a, s, k)
      <4>1. CASE \E g \in Fds : /\ fd'[g].state = "CONNECTED" /\ fd'[g].local = a
                                /\ fd'[g].remote = s /\ fd'[g].id = k
        BY <1>2, <4>1 DEF Claimed
      <4>2. CASE \E i \in 1..Len(toNs') : Accepted(toNs[i], a, s, k)'
        BY <1>2, <1>6, <2>2, <4>2 DEF Claimed, Accepted
      <4>3. CASE thr'["tx"].pc \in InSend /\ Accepted(thr["tx"].out, a, s, k)'
        <5>1. Speaks("tx")
          BY <1>8, <4>3 DEF Speaks
        <5>2. QED BY <1>6, <1>8, <2>2, <4>3, <5>1 DEF Claimed, Accepted
      <4>4. QED BY <3>1, <4>1, <4>2, <4>3 DEF Claimed
    <3>2. \A k : HupOnWay(k)' <=> HupOnWay(k)
      BY <1>8, <1>9 DEF HupOnWay, Threads
    <3>3. \A g \in Fds : \A k \in Conns :
            fd'[g].state = "CONNECTED" /\ fd'[g].id = k => ~In(toSec, {"conn"}, k)'
      <4> SUFFICES ASSUME NEW g \in Fds, NEW k \in Conns, fd'[g].state = "CONNECTED",
                          fd'[g].id = k, In(toSec', {"conn"}, k)
                   PROVE  FALSE
        BY DEF In
      <4>1. g # f /\ fd'[g] = fd[g] /\ Linked(g)
        BY <1>2 DEF Linked
      <4>2. k # K
        BY <1>6, <4>1
      <4>3. QED BY <1>3, <1>5, <2>1, <4>1, <4>2 DEF DriverKnows
    <3>4. QED BY <1>8, <2>1, <3>1, <3>2, <3>3 DEF DriverKnows
  <2>5. ToFile'
    <3>1. ASSUME NEW g \in Fds, g # f
          PROVE  (Linked(g)' <=> Linked(g)) /\ fd'[g] = fd[g]
      BY <1>2, <1>7, <3>1
    <3>2. ~In(toNs, {"accept"}, K)
      BY <1>6 DEF In
    <3>3. \A k : In(toNs, {"accept"}, k)' <=> In(toNs, {"accept"}, k)
      BY <1>9
    <3>4. ASSUME NEW g \in Fds, NEW k \in Conns, NEW a \in Addrs,
                 Linked(g)', fd'[g].id = k, fd'[g].local = a
          PROVE
      /\ (fd'[g].state = "CONNECTED" \/ In(toNs, {"accept"}, k))
         /\ Speaks("tx") /\ thr["tx"].out.type = "data" /\ thr["tx"].out.addr = a
           => thr["tx"].out.id = k
      /\ \A i, j \in 1..Len(toNs) :
           toNs[i].type = "accept" /\ toNs[i].id = k /\ i < j /\ DataIn(toNs, j, a)
             => toNs[j].id = k
      /\ \A i \in 1..Len(toNs) :
           fd'[g].state = "CONNECTED" /\ DataIn(toNs, i, a) => toNs[i].id = k
      <4>1. CASE g = f
        BY <1>2, <1>6, <3>2, <3>4, <4>1
      <4>2. CASE g # f
        BY <2>1, <3>1, <3>4, <4>2 DEF ToFile
      <4>3. QED BY <4>1, <4>2
    <3>5. Speaks("tx")' <=> Speaks("tx")
      BY <1>8 DEF Threads
    <3>6. QED BY <1>2, <1>8, <3>3, <3>4, <3>5 DEF ToFile, DataIn
  <2>6. ToService'
    <3>1. \A i \in 1..Len(toSec') : toSec'[i].type = "data" =>
            i \in 1..Len(toSec) /\ toSec'[i] = toSec[i]
      BY <1>3, <1>5
    <3>2. ASSUME NEW i \in 1..Len(toSec'), NEW j \in 1..Len(toSec'), i < j,
                 toSec'[i].type = "conn", toSec'[j].type = "data"
          PROVE  toSec'[i].addr # toSec'[j].addr
      <4>1. j \in 1..Len(toSec) /\ toSec'[j] = toSec[j]
        BY <3>1, <3>2
      <4>2. i \in 1..Len(toSec) /\ toSec'[i] = toSec[i]
        BY <1>5, <3>2, <4>1
      <4>3. QED BY <2>1, <3>2, <4>1, <4>2 DEF ToService
    <3>3. \A i \in 1..Len(toSec') : \A s \in Slots : \A k \in Conns : \A a \in Addrs :
            epts'[s].remote = a /\ epts'[s].chan = k
            /\ toSec'[i].type = "data" /\ toSec'[i].addr = a => toSec'[i].id = k
      BY <1>8, <2>1, <3>1 DEF ToService, DataIn
    <3>4. QED BY <3>2, <3>3, ToServiceNext
  <2>7. QED BY <2>3, <2>4, <2>5, <2>6
<1>16. QED BY <1>11, <1>12, <1>13, <1>14, <1>15 DEF OrderInv, CleanInv

(* A file that is linked was so before.                                     *)
FilesFewer ==
  \A g \in Fds : Linked(g)' => /\ Linked(g) /\ fd'[g].id = fd[g].id /\ fd'[g].state = fd[g].state
                               /\ fd'[g].local = fd[g].local /\ fd'[g].remote = fd[g].remote

(* Files go, and nobody is told.                                            *)
LEMMA FewerOrder ==
  ASSUME DevInv, OrderInv, UNCHANGED dev, toSec' = toSec, toNs' = toNs, conns' = conns, FilesFewer
  PROVE  OrderInv'
<1>1. InTypes /\ Addressed /\ InRequests /\ InAnswers /\ DiscsFirst
  BY DEF DevInv, OrderInv
<1>2. \A g \in Fds : Linked(g)' => /\ Linked(g) /\ fd'[g].id = fd[g].id
                                   /\ fd'[g].state = fd[g].state /\ fd'[g].local = fd[g].local
  BY DEF FilesFewer
<1>3. /\ epts' = epts /\ chan' = chan /\ thr' = thr
      /\ \A t \in Threads : (Speaks(t)' <=> Speaks(t)) /\ thr'[t].out = thr[t].out
      /\ \A t \in Threads : \A types, k : Sending(t, types, k)' <=> Sending(t, types, k)
      /\ \A k : (Pending(k)' <=> Pending(k)) /\ (Owned(k)' <=> Owned(k))
  BY DevMute
<1>4. Addressed'
  <2>1. \A k \in Conns : \A a \in Addrs : Carries(k, a)' => Carries(k, a)
    BY <1>2, <1>3, CarriesHere, CarriesBack
  <2>2. QED BY <1>1, <2>1, AddressedKept
<1>5. InRequests'
  <2>1. \A k : (Heard(k)' <=> Heard(k)) /\ (Ended(k)' <=> Ended(k))
    BY <1>3 DEF Heard, Ended, In
  <2>2. QED BY <1>1, <1>3, <2>1, RequestsFacts, RequestsKept
<1>6. InAnswers'
  <2>1. \A k \in Conns : Waiting(k) => Waiting(k)'
    BY <1>3, WaitingSplit, WaitingNext
  <2>2. QED BY <1>1, <1>2, <2>1 DEF InAnswers, Linked
<1>7. DiscsFirst'
  BY <1>1, <1>2, DiscsKept
<1>8. QED BY <1>4, <1>5, <1>6, <1>7 DEF OrderInv

(* The driver sends something that is no request, and perhaps a file goes.  *)
LEMMA QueuedOrder ==
  ASSUME DevInv, OrderInv, CleanInv, UNCHANGED dev, toNs' = toNs, conns' = conns, FilesFewer,
         clean' => clean, Gone' <=> Gone,
         NEW m \in SecMsgs, m.type # "conn", toSec' = Append(toSec, m), Carries(m.id, m.addr),
         m.type = "disc" =>
           /\ \A g \in Fds : Linked(g)' => fd[g].local # m.addr
           /\ \A i \in 1..Len(toSec) : toSec[i].type = "disc" /\ toSec[i].addr = m.addr =>
                \E l \in i + 1..Len(toSec) : ConnAt(l, m.id),
         \A k \in Conns : LinkedTo(k) => LinkedTo(k)' \/ (m.type = "disc" /\ m.id = k),
         clean /\ ~Gone /\ m.type = "data" =>
           /\ \A s \in Slots : \A k \in Conns :
                epts[s].chan = k /\ epts[s].remote = m.addr => k = m.id
           /\ \A i \in 1..Len(toSec) : toSec[i].type = "conn" => toSec[i].addr # m.addr
  PROVE  OrderInv' /\ CleanInv'
<1>1. InTypes /\ Addressed /\ InRequests /\ InAnswers /\ DiscsFirst
  BY DEF DevInv, OrderInv
<1>2. \A g \in Fds : Linked(g)' => /\ Linked(g) /\ fd'[g].id = fd[g].id
                                   /\ fd'[g].state = fd[g].state /\ fd'[g].local = fd[g].local
                                   /\ fd'[g].remote = fd[g].remote
  BY DEF FilesFewer
<1>3. /\ epts' = epts /\ chan' = chan /\ thr' = thr
      /\ \A t \in Threads : (Speaks(t)' <=> Speaks(t)) /\ thr'[t].out = thr[t].out
      /\ \A t \in Threads : \A types, k : Sending(t, types, k)' <=> Sending(t, types, k)
      /\ \A k : (Pending(k)' <=> Pending(k)) /\ (Owned(k)' <=> Owned(k))
      /\ \A s, a, k : EptIs(s, a, k)' <=> EptIs(s, a, k)
  BY DevMute
<1>4. /\ Len(toSec') = Len(toSec) + 1 /\ Len(toSec) \in Nat
      /\ \A i \in 1..Len(toSec) : toSec'[i] = toSec[i] /\ i \in 1..Len(toSec')
      /\ toSec'[Len(toSec) + 1] = m
      /\ \A i \in 1..Len(toSec') : \/ i \in 1..Len(toSec) /\ toSec'[i] = toSec[i]
                                   \/ i = Len(toSec) + 1 /\ toSec'[i] = m
      /\ \A types, k : In(toSec', types, k)
                       <=> In(toSec, types, k) \/ (m.type \in types /\ m.id = k)
  BY <1>1, QueuedFacts
<1>5. \A k : In(toSec', {"conn"}, k) <=> In(toSec, {"conn"}, k)
  BY <1>4
<1>6. Addressed'
  <2>1. \A i \in 1..Len(toSec') : Carries(toSec'[i].id, toSec'[i].addr)
    BY <1>4, CarriesHere
  <2>2. \A k \in Conns : \A a \in Addrs : Carries(k, a)' => Carries(k, a)
    BY <1>2, <1>3, <2>1, CarriesHere, CarriesBack
  <2>3. QED BY <1>1, <2>2, AddressedKept
<1>7. InRequests'
  <2>1. \A k : (Heard(k)' <=> Heard(k)) /\ (Ended(k)' <=> Ended(k))
    BY <1>3 DEF Heard, Ended, In
  <2>2. UniqueConns(toSec')
    <3>1. UniqueConns(toSec)
      BY <1>1, RequestsFacts
    <3>2. QED BY <1>4, <3>1 DEF UniqueConns
  <2>3. QED BY <1>1, <1>3, <1>5, <2>1, <2>2, RequestsFacts, RequestsKept
<1>8. InAnswers'
  <2>1. \A k \in Conns : Waiting(k) => Waiting(k)'
    BY <1>3, <1>5, WaitingSplit, WaitingNext
  <2>2. QED BY <1>1, <1>2, <2>1 DEF InAnswers, Linked
<1>9. DiscsFirst'
  <2>1. ASSUME NEW i \in 1..Len(toSec'), NEW g \in Fds, toSec'[i].type = "disc", Linked(g)',
               fd'[g].local = toSec'[i].addr
        PROVE  \E j \in i + 1..Len(toSec') : toSec'[j].type = "conn" /\ toSec'[j].id = fd'[g].id
    <3>1. Linked(g) /\ fd'[g].id = fd[g].id /\ fd'[g].local = fd[g].local
      BY <1>2, <2>1
    <3>2. i \in 1..Len(toSec) /\ toSec'[i] = toSec[i]
      BY <1>4, <2>1, <3>1
    <3>3. PICK j \in i + 1..Len(toSec) : toSec[j].type = "conn" /\ toSec[j].id = fd[g].id
      BY <1>1, <2>1, <3>1, <3>2 DEF DiscsFirst, ConnAt
    <3>4. j \in i + 1..Len(toSec') /\ j \in 1..Len(toSec)
      BY <1>4, <3>2
    <3>5. QED BY <1>4, <3>1, <3>3, <3>4
  <2>2. ASSUME NEW i \in 1..Len(toSec'), NEW j \in 1..Len(toSec'), i < j,
               toSec'[i].type = "disc", toSec'[j].type = "disc", toSec'[i].addr = toSec'[j].addr
        PROVE  \E l \in i + 1..j - 1 : toSec'[l].type = "conn" /\ toSec'[l].id = toSec'[j].id
    <3>1. i \in 1..Len(toSec) /\ toSec'[i] = toSec[i]
      BY <1>4, <2>2
    <3>2. PICK l \in i + 1..j - 1 : l \in 1..Len(toSec) /\ toSec[l].type = "conn"
                                    /\ toSec[l].id = toSec'[j].id
      <4>1. CASE j \in 1..Len(toSec) /\ toSec'[j] = toSec[j]
        <5>1. PICK l \in i + 1..j - 1 : toSec[l].type = "conn" /\ toSec[l].id = toSec[j].id
          BY <1>1, <2>2, <3>1, <4>1 DEF DiscsFirst, ConnAt
        <5>2. l \in 1..Len(toSec)
          BY <1>4, <3>1, <4>1
        <5>3. QED BY <4>1, <5>1, <5>2
      <4>2. CASE j = Len(toSec) + 1 /\ toSec'[j] = m
        <5>1. PICK l \in i + 1..Len(toSec) : toSec[l].type = "conn" /\ toSec[l].id = m.id
          BY <2>2, <3>1, <4>2 DEF ConnAt
        <5>2. l \in i + 1..j - 1 /\ l \in 1..Len(toSec)
          BY <1>4, <3>1, <4>2
        <5>3. QED BY <4>2, <5>1, <5>2
      <4>3. QED BY <1>4, <4>1, <4>2
    <3>3. QED BY <1>4, <3>2
  <2>3. QED BY <2>1, <2>2 DEF DiscsFirst, ConnAt
<1>10. ASSUME clean', ~Gone' PROVE (DeviceKnows /\ DriverKnows /\ ToFile /\ ToService)'
  <2>1. clean /\ ~Gone /\ DeviceKnows /\ DriverKnows /\ ToFile /\ ToService
    BY <1>10 DEF CleanInv
  <2>2. \A k : LinkedTo(k)' => LinkedTo(k)
    BY <1>2 DEF LinkedTo
  <2>3. DeviceKnows'
    <3>1. \A k \in Conns : In(toSec, {"disc"}, k) \/ LinkedTo(k) => In(toSec', {"disc"}, k) \/ LinkedTo(k)'
      BY <1>4
    <3>2. \A s \in Slots : \A k \in Conns : epts'[s].chan = k => In(toSec', {"disc"}, k) \/ LinkedTo(k)'
      BY <1>3, <2>1, <3>1 DEF DeviceKnows, DiscOnWay
    <3>3. ASSUME NEW i \in 1..Len(toSec'), NEW k \in Conns, toSec'[i].type = "conn",
                 toSec'[i].id = k, ~LinkedTo(k)'
          PROVE  \E j \in i + 1..Len(toSec') : toSec'[j].type = "disc" /\ toSec'[j].id = k
      <4>1. i \in 1..Len(toSec) /\ toSec'[i] = toSec[i]
        BY <1>4, <3>3
      <4>2. CASE LinkedTo(k)
        <5>1. m.type = "disc" /\ m.id = k
          BY <3>3, <4>2
        <5>2. Len(toSec) + 1 \in i + 1..Len(toSec')
          BY <1>4, <4>1
        <5>3. QED BY <1>4, <5>1, <5>2
      <4>3. CASE ~LinkedTo(k)
        <5>1. PICK j \in i + 1..Len(toSec) : toSec[j].type = "disc" /\ toSec[j].id = k
          BY <2>1, <3>3, <4>1, <4>3 DEF DeviceKnows, ConnAt
        <5>2. j \in i + 1..Len(toSec') /\ j \in 1..Len(toSec)
          BY <1>4, <4>1
        <5>3. QED BY <1>4, <5>1, <5>2
      <4>4. QED BY <4>2, <4>3
    <3>4. QED BY <3>2, <3>3, DeviceKnowsNext
  <2>4. DriverKnows'
    <3>1. ASSUME NEW a \in Addrs, NEW s \in Slots \cup {0}, NEW k \in Conns, Claimed(a, s, k)'
          PROVE  Claimed(a, s, k)
      <4>1. CASE \E g \in Fds : /\ fd'[g].state = "CONNECTED" /\ fd'[g].local = a
                                /\ fd'[g].remote = s /\ fd'[g].id = k
        BY <1>2, <4>1 DEF Claimed, Linked
      <4>2. CASE \E i \in 1..Len(toNs') : Accepted(toNs[i], a, s, k)'
        BY <2>2, <4>2 DEF Claimed, Accepted
      <4>3. CASE thr'["tx"].pc \in InSend /\ Accepted(thr["tx"].out, a, s, k)'
        BY <1>3, <2>2, <4>3 DEF Claimed, Accepted
      <4>4. QED BY <3>1, <4>1, <4>2, <4>3 DEF Claimed
    <3>2. \A k : HupOnWay(k)' <=> HupOnWay(k)
      BY <1>3 DEF HupOnWay, Threads, In
    <3>3. \A g \in Fds : \A k \in Conns :
            fd'[g].state = "CONNECTED" /\ fd'[g].id = k => ~In(toSec, {"conn"}, k)'
      <4> SUFFICES ASSUME NEW g \in Fds, NEW k \in Conns, fd'[g].state = "CONNECTED",
                          fd'[g].id = k, In(toSec', {"conn"}, k)
                   PROVE  FALSE
        BY DEF In
      <4>1. fd[g].state = "CONNECTED" /\ fd[g].id = k
        BY <1>2 DEF Linked
      <4>2. QED BY <1>5, <2>1, <4>1 DEF DriverKnows
    <3>4. QED BY <1>3, <2>1, <3>1, <3>2, <3>3 DEF DriverKnows
  <2>5. ToFile'
    <3>1. Speaks("tx")' <=> Speaks("tx")
      BY <1>3 DEF Threads
    <3>2. QED BY <1>2, <1>3, <2>1, <3>1 DEF ToFile, DataIn, In
  <2>6. ToService'
    <3>1. ASSUME NEW i \in 1..Len(toSec'), NEW j \in 1..Len(toSec'), i < j,
                 toSec'[i].type = "conn", toSec'[j].type = "data"
          PROVE  toSec'[i].addr # toSec'[j].addr
      <4>1. i \in 1..Len(toSec) /\ toSec'[i] = toSec[i]
        BY <1>4, <3>1
      <4>2. QED BY <1>4, <2>1, <3>1, <4>1 DEF ToService
    <3>2. \A i \in 1..Len(toSec') : \A s \in Slots : \A k \in Conns : \A a \in Addrs :
            epts'[s].remote = a /\ epts'[s].chan = k
            /\ toSec'[i].type = "data" /\ toSec'[i].addr = a => toSec'[i].id = k
      BY <1>3, <1>4, <2>1 DEF ToService, DataIn
    <3>3. QED BY <3>1, <3>2, ToServiceNext
  <2>7. QED BY <2>3, <2>4, <2>5, <2>6
<1>11. QED BY <1>6, <1>7, <1>8, <1>9, <1>10 DEF OrderInv, CleanInv

(* tipc_write_iter.                                                         *)
LEMMA WriteOrder ==
  ASSUME DevInv, OrderInv, CleanInv, NEW f \in Fds, Write(f), UNCHANGED dev
  PROVE  OrderInv' /\ CleanInv'
<1>1. InTypes /\ InFiles /\ Addressed /\ InRequests /\ InAnswers /\ DiscsFirst
  BY DEF DevInv, OrderInv
<1>2. /\ fd[f].state = "CONNECTED" /\ toNs' = toNs /\ UNCHANGED ns
      /\ toSec' = Append(toSec, Msg("data", fd[f].local, fd[f].remote, fd[f].id))
      /\ Msg("data", fd[f].local, fd[f].remote, fd[f].id) \in SecMsgs
  BY WriteDev
<1>3. fd' = fd /\ conns' = conns /\ clean' = clean /\ (Gone' <=> Gone)
  BY <1>2 DEF ns, Gone
<1>4. FilesFewer /\ \A k : LinkedTo(k)' <=> LinkedTo(k)
  BY <1>3 DEF FilesFewer, LinkedTo, Linked
<1>5. Linked(f) /\ fd[f].local \in Addrs /\ fd[f].id \in Conns /\ fd[f].local # 0
  BY <1>1, <1>2 DEF Linked, InFiles, InTypes, Files
<1>6. PICK m \in SecMsgs : m = Msg("data", fd[f].local, fd[f].remote, fd[f].id)
  BY <1>2
<1>7. /\ m.type = "data" /\ m.id = fd[f].id /\ m.addr = fd[f].local
      /\ toSec' = Append(toSec, m)
  BY <1>2, <1>6 DEF Msg
<1>8. Carries(m.id, m.addr)
  BY <1>5, <1>7, CarriesHere
<1>9. ASSUME clean, ~Gone
      PROVE  /\ \A s \in Slots : \A k \in Conns :
                  epts[s].chan = k /\ epts[s].remote = m.addr => k = m.id
             /\ \A i \in 1..Len(toSec) : toSec[i].type = "conn" => toSec[i].addr # m.addr
  <2>1. DeviceKnows /\ DriverKnows
    BY <1>9 DEF CleanInv
  <2>2. ~In(toSec, {"conn"}, fd[f].id)
    BY <1>2, <1>5, <2>1 DEF DriverKnows
  <2>3. \A s \in Slots : \A k \in Conns : epts[s].chan = k /\ epts[s].remote = m.addr => k = m.id
    BY <1>1, <1>5, <1>7, <2>1, <2>2, FileEnd
  <2>4. ASSUME NEW i \in 1..Len(toSec), toSec[i].type = "conn", toSec[i].addr = m.addr
        PROVE  FALSE
    <3>1. toSec[i] \in SecMsgs /\ Len(toSec) \in Nat
      BY <1>1 DEF InTypes
    <3>2. PICK c \in Conns : c = toSec[i].id
      BY <3>1 DEF SecMsgs, MsgsOf
    <3>3. CASE LinkedTo(c)
      <4>1. PICK g \in Fds : Linked(g) /\ fd[g].id = c
        BY <3>3 DEF LinkedTo
      <4>2. fd[g].local \in Addrs
        BY <1>1, <4>1 DEF Linked, InFiles, InTypes, Files
      <4>3. fd[g].local = fd[f].local
        BY <1>1, <1>5, <1>7, <2>4, <3>2, <4>1, <4>2, CarriesHere, SameAddr
      <4>4. g = f
        BY <1>1, <1>5, <4>3 DEF InFiles
      <4>5. QED BY <2>2, <2>4, <3>2, <4>1, <4>4 DEF In
    <3>4. CASE \E j \in i + 1..Len(toSec) : toSec[j].type = "disc" /\ toSec[j].id = c
      <4>1. PICK j \in i + 1..Len(toSec) : toSec[j].type = "disc" /\ toSec[j].id = c
        BY <3>4
      <4>2. j \in 1..Len(toSec)
        BY <3>1
      <4>3. toSec[j] \in SecMsgs
        BY <1>1, <4>2 DEF InTypes
      <4>4. toSec[j].addr \in Addrs
        BY <4>3 DEF SecMsgs, MsgsOf
      <4>5. toSec[j].addr = fd[f].local
        BY <1>1, <1>5, <1>7, <2>4, <3>2, <4>1, <4>2, <4>4, CarriesHere, SameAddr
      <4>6. PICK l \in j + 1..Len(toSec) : ConnAt(l, fd[f].id)
        BY <1>1, <1>5, <4>1, <4>2, <4>5 DEF DiscsFirst
      <4>7. l \in 1..Len(toSec)
        BY <3>1, <4>2
      <4>8. QED BY <2>2, <4>6, <4>7 DEF In, ConnAt
    <3>5. QED BY <2>1, <2>4, <3>2, <3>3, <3>4 DEF DeviceKnows, ConnAt
  <2>5. QED BY <2>3, <2>4
<1>10. m.type # "conn" /\ m.type # "disc"
  BY <1>7
<1>11. QED BY <1>2, <1>3, <1>4, <1>7, <1>8, <1>9, <1>10, QueuedOrder

(* tipc_release.                                                            *)
LEMMA CloseOrder ==
  ASSUME DevInv, OrderInv, CleanInv, NEW f \in Fds, Close(f), UNCHANGED dev
  PROVE  OrderInv' /\ CleanInv'
<1>1. InTypes /\ InFiles /\ Addressed /\ InRequests /\ InAnswers /\ DiscsFirst
  BY DEF DevInv, OrderInv
<1>2. /\ toNs' = toNs /\ vds' = vds /\ conns' = conns
      /\ ~Linked(f)' /\ \A g \in Fds \ {f} : fd'[g] = fd[g]
      /\ \/ /\ Linked(f) /\ clean' = clean
            /\ toSec' = Append(toSec, Msg("disc", fd[f].local, fd[f].remote, fd[f].id))
            /\ Msg("disc", fd[f].local, fd[f].remote, fd[f].id) \in SecMsgs
         \/ toSec' = toSec /\ clean' = FALSE
         \/ toSec' = toSec /\ ~Linked(f) /\ clean' = clean
  BY CloseDev
<1>3. /\ \A g \in Fds \ {f} : Linked(g)' <=> Linked(g)
      /\ FilesFewer /\ (Gone' <=> Gone)
  BY <1>2 DEF FilesFewer, Linked, Gone
<1>4. CASE /\ Linked(f) /\ clean' = clean
           /\ toSec' = Append(toSec, Msg("disc", fd[f].local, fd[f].remote, fd[f].id))
           /\ Msg("disc", fd[f].local, fd[f].remote, fd[f].id) \in SecMsgs
  <2>1. fd[f].local # 0
    BY <1>1, <1>4 DEF Linked, InFiles
  <2>2. PICK m \in SecMsgs : m = Msg("disc", fd[f].local, fd[f].remote, fd[f].id)
    BY <1>4
  <2>3. /\ m.type = "disc" /\ m.id = fd[f].id /\ m.addr = fd[f].local
        /\ toSec' = Append(toSec, m) /\ m.type # "conn" /\ m.type # "data"
    BY <1>4, <2>2 DEF Msg
  <2>4. Carries(m.id, m.addr)
    BY <1>4, <2>3, CarriesHere
  <2>5. \A g \in Fds : Linked(g)' => fd[g].local # m.addr
    BY <1>1, <1>2, <2>1, <2>3 DEF InFiles
  <2>6. \A i \in 1..Len(toSec) : toSec[i].type = "disc" /\ toSec[i].addr = m.addr =>
          \E l \in i + 1..Len(toSec) : ConnAt(l, m.id)
    BY <1>1, <1>4, <2>3 DEF DiscsFirst
  <2>7. \A k \in Conns : LinkedTo(k) => LinkedTo(k)' \/ (m.type = "disc" /\ m.id = k)
    BY <1>2, <1>3, <2>3 DEF LinkedTo
  <2>8. QED BY <1>2, <1>3, <1>4, <2>3, <2>4, <2>5, <2>6, <2>7, QueuedOrder
<1>5. CASE toSec' = toSec /\ clean' = FALSE
  BY <1>2, <1>3, <1>5, FewerOrder DEF CleanInv
<1>6. CASE toSec' = toSec /\ ~Linked(f) /\ clean' = clean
  <2>1. FilesQuiet
    BY <1>2, <1>3, <1>6 DEF FilesQuiet
  <2>2. Silent
    BY <1>2, <1>6, DevMute DEF Silent
  <2>3. QED BY <1>2, <1>3, <1>6, <2>1, <2>2, SilentOrder
<1>7. QED BY <1>2, <1>4, <1>5, <1>6

(* trusty_virtio_remove.                                                    *)
LEMMA RemoveOrder ==
  ASSUME DevInv, OrderInv, CleanInv, Remove, UNCHANGED dev
  PROVE  OrderInv' /\ CleanInv'
<1>1. Gone' /\ \A g \in Fds : ~Linked(g)'
  BY RemoveDev
<1>2. toSec' = toSec /\ toNs' = toNs /\ conns' = conns
  BY DEF Remove, rings
<1>3. FilesFewer
  BY <1>1 DEF FilesFewer
<1>4. QED BY <1>1, <1>2, <1>3, FewerOrder DEF CleanInv

----------------------------------------------------------------------------
(* Steps in which the driver takes a message.                               *)

(* What is left in the ring.                                                *)
LEMMA RepliedFacts ==
  ASSUME InTypes, TakeReply
  PROVE  /\ toSec' = toSec /\ 1 \in 1..Len(toNs)
         /\ \A i \in 1..Len(toNs') : \E n \in 1..Len(toNs) : n = i + 1 /\ toNs'[i] = toNs[n]
         /\ \A types, k : In(toNs', types, k) => In(toNs, types, k)
         /\ \A types, k : In(toNs, types, k) =>
              In(toNs', types, k) \/ (toNs[1].type \in types /\ toNs[1].id = k)
<1> DEFINE S == NsMsgs \cup {Msg("online", 0, 0, 0)}
<1>1. toNs \in Seq(S) /\ toNs' = Tail(toNs) /\ toNs # <<>> /\ toSec' = toSec
  BY ReplyTypes
<1> HIDE DEF S
<1>2. /\ Len(toNs') = Len(toNs) - 1 /\ Len(toNs) \in Nat /\ Len(toNs) > 0
      /\ \A i \in 1..Len(toNs) - 1 : toNs'[i] = toNs[i + 1]
  BY <1>1, TailFacts
<1>3. \A types, k : /\ In(toNs', types, k) => In(toNs, types, k)
                    /\ In(toNs, types, k) =>
                         In(toNs', types, k) \/ (toNs[1].type \in types /\ toNs[1].id = k)
  BY <1>1, InTail
<1>4. QED BY <1>1, <1>2, <1>3

(* Nobody waits for the message, or it is his answer.                       *)
LEMMA RepliedOrder ==
  ASSUME DevInv, OrderInv, UNCHANGED dev, TakeReply, conns' = conns,
         \A g \in Fds : Linked(g)' => /\ Linked(g) /\ fd'[g].id = fd[g].id
                                      /\ fd'[g].local = fd[g].local,
         \A g \in Fds : fd'[g].state = "CONNECTING" =>
           /\ fd[g].state = "CONNECTING"
           /\ ~(toNs[1].type \in Answers /\ toNs[1].addr = fd[g].local)
  PROVE  OrderInv'
<1>1. InTypes /\ InFiles /\ Addressed /\ InRequests /\ InAnswers /\ DiscsFirst
  BY DEF DevInv, OrderInv
<1>2. /\ epts' = epts /\ chan' = chan /\ thr' = thr
      /\ \A t \in Threads : (Speaks(t)' <=> Speaks(t)) /\ thr'[t].out = thr[t].out
      /\ \A t \in Threads : \A types, k : Sending(t, types, k)' <=> Sending(t, types, k)
      /\ \A k : (Pending(k)' <=> Pending(k)) /\ (Owned(k)' <=> Owned(k))
  BY DevMute
<1>3. /\ toSec' = toSec /\ 1 \in 1..Len(toNs)
      /\ \A i \in 1..Len(toNs') : \E n \in 1..Len(toNs) : n = i + 1 /\ toNs'[i] = toNs[n]
      /\ \A types, k : In(toNs', types, k) => In(toNs, types, k)
      /\ \A types, k : In(toNs, types, k) =>
           In(toNs', types, k) \/ (toNs[1].type \in types /\ toNs[1].id = k)
  BY <1>1, RepliedFacts
<1>4. Addressed'
  <2>1. \A i \in 1..Len(toNs') : Carries(toNs'[i].id, toNs'[i].addr)
    BY <1>3, CarriesHere
  <2>2. \A k \in Conns : \A a \in Addrs : Carries(k, a)' => Carries(k, a)
    BY <1>2, <1>3, <2>1, CarriesHere, CarriesBack
  <2>3. QED BY <1>1, <2>2, AddressedKept
<1>5. InRequests'
  <2>1. \A k : Heard(k)' => Heard(k)
    <3> SUFFICES ASSUME NEW k, Heard(k)' PROVE Heard(k)
      OBVIOUS
    <3>1. \/ In(toNs', {"accept", "refuse", "data", "disc"}, k)
          \/ \E u \in Threads : Speaks(u)' /\ thr'[u].out.id = k
      BY DEF Heard, In
    <3>2. QED BY <1>2, <1>3, <3>1 DEF Heard
  <2>2. \A k : Ended(k)' => Ended(k)
    <3> SUFFICES ASSUME NEW k, Ended(k)' PROVE Ended(k)
      OBVIOUS
    <3>1. \/ In(toNs', {"refuse", "disc"}, k)
          \/ \E u \in Threads : Sending(u, {"refuse", "disc"}, k)'
      BY DEF Ended, In
    <3>2. QED BY <1>2, <1>3, <3>1 DEF Ended
  <2>3. QED BY <1>1, <1>2, <1>3, <2>1, <2>2, RequestsFacts, RequestsKept
<1>6. InAnswers'
  <2> SUFFICES ASSUME NEW g \in Fds, NEW k \in Conns, fd'[g].state = "CONNECTING", fd'[g].id = k
               PROVE  Waiting(k)'
    BY DEF InAnswers
  <2>1. Linked(g) /\ fd[g].id = k /\ fd[g].state = "CONNECTING"
    BY DEF Linked
  <2>2. fd[g].local \in Addrs
    BY <1>1, <2>1 DEF InFiles, InTypes, Files, Linked
  <2>3. Waiting(k)
    BY <1>1, <2>1 DEF InAnswers
  <2>4. In(toNs, Answers, k) => In(toNs', Answers, k)
    <3> SUFFICES ASSUME toNs[1].type \in Answers, toNs[1].id = k PROVE FALSE
      BY <1>3
    <3>1. toNs[1] \in NsMsgs \cup {Msg("online", 0, 0, 0)}
      BY <1>1, <1>3 DEF InTypes
    <3>2. toNs[1].type # "online"
      BY DEF Answers
    <3>3. toNs[1] # Msg("online", 0, 0, 0)
      BY <3>2 DEF Msg
    <3>4. toNs[1].addr \in Addrs
      BY <3>1, <3>3 DEF NsMsgs, MsgsOf
    <3>5. toNs[1].addr = fd[g].local
      BY <1>1, <1>3, <2>1, <2>2, <3>4, CarriesHere, SameAddr
    <3>6. QED BY <3>5
  <2>5. QED BY <1>2, <1>3, <2>3, <2>4, WaitingSplit, WaitingNext
<1>7. DiscsFirst'
  BY <1>1, <1>3, DiscsKept
<1>8. QED BY <1>4, <1>5, <1>6, <1>7 DEF OrderInv

(* A reply that changes no file, because none waits for it.                 *)
LEMMA IgnoredOrder ==
  ASSUME DevInv, OrderInv, CleanInv, UNCHANGED dev, TakeReply, UNCHANGED <<fd, conns, clean>>,
         Gone' <=> Gone,
         \A g \in Fds : fd[g].local = toNs[1].addr =>
           /\ toNs[1].type \in Answers => fd[g].state # "CONNECTING"
           /\ toNs[1].type = "disc" => ~Linked(g)
  PROVE  OrderInv' /\ CleanInv'
<1>1. InTypes /\ InFiles /\ Addressed /\ InRequests /\ InAnswers /\ DiscsFirst
  BY DEF DevInv, OrderInv
<1>2. /\ \A g \in Fds : (Linked(g)' <=> Linked(g)) /\ fd'[g] = fd[g]
      /\ \A k : LinkedTo(k)' <=> LinkedTo(k)
  BY DEF Linked, LinkedTo
<1>3. OrderInv'
  BY <1>2, RepliedOrder
<1>4. /\ epts' = epts /\ chan' = chan /\ thr' = thr
      /\ \A t \in Threads : (Speaks(t)' <=> Speaks(t)) /\ thr'[t].out = thr[t].out
      /\ \A t \in Threads : \A types, k : Sending(t, types, k)' <=> Sending(t, types, k)
      /\ \A s, a, k : EptIs(s, a, k)' <=> EptIs(s, a, k)
  BY DevMute
<1>5. /\ toSec' = toSec /\ 1 \in 1..Len(toNs)
      /\ \A i \in 1..Len(toNs') : \E n \in 1..Len(toNs) : n = i + 1 /\ toNs'[i] = toNs[n]
      /\ \A types, k : In(toNs', types, k) => In(toNs, types, k)
      /\ \A types, k : In(toNs, types, k) =>
           In(toNs', types, k) \/ (toNs[1].type \in types /\ toNs[1].id = k)
  BY <1>1, RepliedFacts
<1>6. ASSUME clean', ~Gone' PROVE (DeviceKnows /\ DriverKnows /\ ToFile /\ ToService)'
  <2>1. DeviceKnows /\ DriverKnows /\ ToFile /\ ToService
    BY <1>6 DEF CleanInv
  <2>2. DeviceKnows'
    <3>1. \A k : DiscOnWay(k)' <=> DiscOnWay(k)
      BY <1>5 DEF DiscOnWay, In
    <3>2. QED BY <1>2, <1>4, <1>5, <2>1, <3>1 DEF DeviceKnows, ConnAt
  <2>3. DriverKnows'
    <3>1. ASSUME NEW a \in Addrs, NEW s \in Slots \cup {0}, NEW k \in Conns, Claimed(a, s, k)'
          PROVE  Claimed(a, s, k) /\ LinkedTo(k)
      <4>1. CASE \E g \in Fds : /\ fd'[g].state = "CONNECTED" /\ fd'[g].local = a
                                /\ fd'[g].remote = s /\ fd'[g].id = k
        BY <1>2, <4>1 DEF Claimed, Linked, LinkedTo
      <4>2. CASE \E i \in 1..Len(toNs') : Accepted(toNs[i], a, s, k)'
        BY <1>2, <1>5, <4>2 DEF Claimed, Accepted
      <4>3. CASE thr'["tx"].pc \in InSend /\ Accepted(thr["tx"].out, a, s, k)'
        BY <1>2, <1>4, <4>3 DEF Claimed, Accepted
      <4>4. QED BY <3>1, <4>1, <4>2, <4>3 DEF Claimed
    <3>2. ASSUME NEW k \in Conns, HupOnWay(k), LinkedTo(k)
          PROVE  HupOnWay(k)'
      <4>1. PICK g \in Fds : Linked(g) /\ fd[g].id = k
        BY <3>2 DEF LinkedTo
      <4>2. fd[g].local \in Addrs
        BY <1>1, <4>1 DEF InFiles, InTypes, Files, Linked
      <4>3. In(toNs, {"disc"}, k) => In(toNs', {"disc"}, k)
        <5> SUFFICES ASSUME toNs[1].type = "disc", toNs[1].id = k PROVE FALSE
          BY <1>5
        <5>1. toNs[1] \in NsMsgs \cup {Msg("online", 0, 0, 0)}
          BY <1>1, <1>5 DEF InTypes
        <5>2. toNs[1] # Msg("online", 0, 0, 0)
          BY DEF Msg
        <5>3. toNs[1].addr \in Addrs
          BY <5>1, <5>2 DEF NsMsgs, MsgsOf
        <5>4. toNs[1].addr = fd[g].local
          BY <1>1, <1>5, <4>1, <4>2, <5>3, CarriesHere, SameAddr
        <5>5. QED BY <4>1, <5>4
      <4>4. In(toNs', {"disc"}, k) \/ Sending("tx", {"disc"}, k)'
        BY <1>4, <3>2, <4>3 DEF HupOnWay, Threads
      <4>5. QED BY <4>4 DEF HupOnWay, In
    <3>3. \A g \in Fds : \A k \in Conns :
            fd'[g].state = "CONNECTED" /\ fd'[g].id = k => ~In(toSec, {"conn"}, k)'
      BY <1>2, <1>5, <2>1 DEF DriverKnows, In
    <3>4. QED BY <1>4, <2>1, <3>1, <3>2, <3>3 DEF DriverKnows
  <2>4. ToFile'
    <3> SUFFICES ASSUME NEW g \in Fds, NEW k \in Conns, NEW a \in Addrs,
                        Linked(g), fd[g].id = k, fd[g].local = a
                 PROVE
      /\ (fd[g].state = "CONNECTED" \/ In(toNs', {"accept"}, k))
         /\ Speaks("tx")' /\ thr'["tx"].out.type = "data" /\ thr'["tx"].out.addr = a
           => thr'["tx"].out.id = k
      /\ \A i, j \in 1..Len(toNs') :
           toNs'[i].type = "accept" /\ toNs'[i].id = k /\ i < j /\ DataIn(toNs', j, a)
             => toNs'[j].id = k
      /\ \A i \in 1..Len(toNs') :
           fd[g].state = "CONNECTED" /\ DataIn(toNs', i, a) => toNs'[i].id = k
      BY <1>2 DEF ToFile, In, DataIn
    <3>1. /\ (fd[g].state = "CONNECTED" \/ In(toNs, {"accept"}, k))
             /\ Speaks("tx") /\ thr["tx"].out.type = "data" /\ thr["tx"].out.addr = a
               => thr["tx"].out.id = k
          /\ \A i, j \in 1..Len(toNs) :
               toNs[i].type = "accept" /\ toNs[i].id = k /\ i < j /\ DataIn(toNs, j, a)
                 => toNs[j].id = k
          /\ \A i \in 1..Len(toNs) :
               fd[g].state = "CONNECTED" /\ DataIn(toNs, i, a) => toNs[i].id = k
      BY <2>1 DEF ToFile
    <3>2. ASSUME NEW i \in 1..Len(toNs'), NEW j \in 1..Len(toNs'), toNs'[i].type = "accept",
                 toNs'[i].id = k, i < j, toNs'[j].type = "data", toNs'[j].addr = a
          PROVE  toNs'[j].id = k
      <4>1. PICK n \in 1..Len(toNs), p \in 1..Len(toNs) :
                   n = i + 1 /\ toNs'[i] = toNs[n] /\ p = j + 1 /\ toNs'[j] = toNs[p]
        BY <1>5
      <4>2. n < p
        BY <3>2, <4>1
      <4>3. QED BY <3>1, <3>2, <4>1, <4>2 DEF DataIn
    <3>3. ASSUME NEW i \in 1..Len(toNs'), fd[g].state = "CONNECTED", toNs'[i].type = "data",
                 toNs'[i].addr = a
          PROVE  toNs'[i].id = k
      <4>1. PICK n \in 1..Len(toNs) : toNs'[i] = toNs[n]
        BY <1>5
      <4>2. QED BY <3>1, <3>3, <4>1 DEF DataIn
    <3>4. (fd[g].state = "CONNECTED" \/ In(toNs', {"accept"}, k))
             /\ Speaks("tx")' /\ thr'["tx"].out.type = "data" /\ thr'["tx"].out.addr = a
               => thr'["tx"].out.id = k
      BY <1>4, <1>5, <3>1 DEF Threads
    <3>5. QED BY <3>2, <3>3, <3>4 DEF DataIn
  <2>5. ToService'
    BY <1>4, <1>5, <2>1 DEF ToService, DataIn
  <2>6. QED BY <2>2, <2>3, <2>4, <2>5
<1>7. QED BY <1>3, <1>6 DEF CleanInv

(* _handle_conn_rsp and _handle_disc_req, when the file waits for that.     *)
LEMMA AnswerOrder ==
  ASSUME DevInv, OrderInv, CleanInv, UNCHANGED dev, TakeReply, conns' = conns,
         ~Gone, NEW f \in Fds, Linked(f), toNs[1].type \in {"accept", "refuse", "disc"},
         toNs[1] \in NsMsgs, toNs[1].addr = fd[f].local,
         clean' <=> clean /\ toNs[1].id = fd[f].id,
         \A g \in Fds \ {f} : fd'[g] = fd[g],
         toNs[1].type = "accept" =>
           /\ fd'[f].state = "CONNECTED" /\ fd'[f].id = fd[f].id
           /\ fd'[f].local = fd[f].local /\ fd'[f].remote = toNs[1].slot,
         toNs[1].type # "accept" => ~Linked(f)' /\ fd'[f].state # "CONNECTED"
  PROVE  OrderInv' /\ CleanInv'
<1>1. InTypes /\ InFiles /\ Addressed /\ InRequests /\ InAnswers /\ DiscsFirst
  BY DEF DevInv, OrderInv
<1>2. fd[f].local \in Addrs /\ fd[f].local # 0 /\ fd[f].id \in Conns
  BY <1>1, Zero DEF InFiles, InTypes, Files, Linked
<1>3. /\ \A g \in Fds \ {f} : Linked(g)' <=> Linked(g)
      /\ \A g \in Fds : Linked(g)' => /\ Linked(g) /\ fd'[g].id = fd[g].id
                                      /\ fd'[g].local = fd[g].local
      /\ fd'[f].state # "CONNECTING"
  BY DEF Linked
<1>4. OrderInv'
  <2>1. \A g \in Fds : fd'[g].state = "CONNECTING" =>
           /\ fd[g].state = "CONNECTING"
           /\ ~(toNs[1].type \in Answers /\ toNs[1].addr = fd[g].local)
    BY <1>1, <1>2, <1>3 DEF InFiles
  <2>2. QED BY <1>3, <2>1, RepliedOrder
<1>5. /\ epts' = epts /\ chan' = chan /\ thr' = thr
      /\ \A t \in Threads : (Speaks(t)' <=> Speaks(t)) /\ thr'[t].out = thr[t].out
      /\ \A t \in Threads : \A types, k : Sending(t, types, k)' <=> Sending(t, types, k)
      /\ \A s, a, k : EptIs(s, a, k)' <=> EptIs(s, a, k)
  BY DevMute
<1>6. /\ toSec' = toSec /\ 1 \in 1..Len(toNs)
      /\ \A i \in 1..Len(toNs') : \E n \in 1..Len(toNs) : n = i + 1 /\ toNs'[i] = toNs[n]
      /\ \A types, k : In(toNs', types, k) => In(toNs, types, k)
      /\ \A types, k : In(toNs, types, k) =>
           In(toNs', types, k) \/ (toNs[1].type \in types /\ toNs[1].id = k)
  BY <1>1, RepliedFacts
<1>7. ASSUME clean', ~Gone' PROVE (DeviceKnows /\ DriverKnows /\ ToFile /\ ToService)'
  <2>1. DeviceKnows /\ DriverKnows /\ ToFile /\ ToService
    BY <1>7 DEF CleanInv
  <2>2. PICK c \in Conns : c = fd[f].id /\ c = toNs[1].id
    BY <1>2, <1>7
  <2>3. Heard(c)
    BY <1>6, <2>2 DEF Heard, In
  <2>4. ~In(toSec, {"conn"}, c)
    BY <1>1, <2>3, RequestsFacts
  <2>5. toNs[1].type # "accept" => ~Owned(c)
    <3>1. toNs[1].type # "accept" => Ended(c)
      BY <1>6, <2>2 DEF Ended, In
    <3>2. QED BY <1>1, <3>1, RequestsFacts
  <2>6. /\ \A k : LinkedTo(k)' => LinkedTo(k)
        /\ \A k : LinkedTo(k) => LinkedTo(k)' \/ k = c
        /\ toNs[1].type = "accept" => LinkedTo(c)'
        /\ toNs[1].type # "accept" => ~LinkedTo(c)'
    <3>1. \A k : LinkedTo(k)' => LinkedTo(k)
      BY <1>3 DEF LinkedTo
    <3>2. \A k : LinkedTo(k) => LinkedTo(k)' \/ k = c
      BY <1>3, <2>2 DEF LinkedTo
    <3>3. toNs[1].type = "accept" => LinkedTo(c)'
      BY <2>2 DEF LinkedTo, Linked
    <3>4. toNs[1].type # "accept" => ~LinkedTo(c)'
      BY <1>1, <1>3, <2>2 DEF LinkedTo, InFiles
    <3>5. QED BY <3>1, <3>2, <3>3, <3>4
  <2>7. DeviceKnows'
    <3>1. \A s \in Slots : \A k \in Conns : epts'[s].chan = k => In(toSec', {"disc"}, k) \/ LinkedTo(k)'
      <4> SUFFICES ASSUME NEW s \in Slots, NEW k \in Conns, epts[s].chan = k
                   PROVE  In(toSec, {"disc"}, k) \/ LinkedTo(k)'
        BY <1>5, <1>6
      <4>1. In(toSec, {"disc"}, k) \/ LinkedTo(k)
        BY <2>1 DEF DeviceKnows, DiscOnWay
      <4>2. Owned(k)
        BY DEF Owned
      <4>3. QED BY <2>5, <2>6, <4>1, <4>2
    <3>2. ASSUME NEW i \in 1..Len(toSec'), NEW k \in Conns, toSec'[i].type = "conn", toSec'[i].id = k
          PROVE  \/ LinkedTo(k)'
                 \/ \E j \in i + 1..Len(toSec') : toSec'[j].type = "disc" /\ toSec'[j].id = k
      <4>1. k # c
        BY <1>6, <2>4, <3>2 DEF In
      <4>2. QED BY <1>6, <2>1, <2>6, <3>2, <4>1 DEF DeviceKnows, ConnAt
    <3>3. QED BY <3>1, <3>2, DeviceKnowsNext
  <2>8. DriverKnows'
    <3>1. ASSUME NEW a \in Addrs, NEW s \in Slots \cup {0}, NEW k \in Conns, Claimed(a, s, k)'
          PROVE  Claimed(a, s, k) /\ LinkedTo(k)'
      <4>1. CASE \E g \in Fds : /\ fd'[g].state = "CONNECTED" /\ fd'[g].local = a
                                /\ fd'[g].remote = s /\ fd'[g].id = k
        <5>1. PICK g \in Fds : /\ fd'[g].state = "CONNECTED" /\ fd'[g].local = a
                               /\ fd'[g].remote = s /\ fd'[g].id = k
          BY <4>1
        <5>2. LinkedTo(k)'
          BY <5>1 DEF LinkedTo, Linked
        <5>3. CASE g # f
          BY <5>1, <5>2, <5>3 DEF Claimed
        <5>4. CASE g = f
          <6>1. toNs[1].type = "accept" /\ toNs[1].addr = a /\ toNs[1].slot = s /\ k = c
            BY <2>2, <5>1, <5>4
          <6>2. Accepted(toNs[1], a, s, k)
            BY <2>2, <2>6, <5>2, <6>1 DEF Accepted
          <6>3. QED BY <1>6, <5>2, <6>2 DEF Claimed
        <5>5. QED BY <5>3, <5>4
      <4>2. CASE \E i \in 1..Len(toNs') : Accepted(toNs[i], a, s, k)'
        BY <1>6, <2>6, <4>2 DEF Claimed, Accepted
      <4>3. CASE thr'["tx"].pc \in InSend /\ Accepted(thr["tx"].out, a, s, k)'
        BY <1>5, <2>6, <4>3 DEF Claimed, Accepted
      <4>4. QED BY <3>1, <4>1, <4>2, <4>3 DEF Claimed
    <3>2. ASSUME NEW k \in Conns, HupOnWay(k), LinkedTo(k)'
          PROVE  HupOnWay(k)'
      <4>1. ~(toNs[1].type = "disc" /\ toNs[1].id = k)
        BY <2>2, <2>6, <3>2
      <4>2. In(toNs, {"disc"}, k) => In(toNs', {"disc"}, k)
        BY <1>6, <4>1
      <4>3. In(toNs', {"disc"}, k) \/ Sending("tx", {"disc"}, k)'
        BY <1>5, <3>2, <4>2 DEF HupOnWay, Threads
      <4>4. QED BY <4>3 DEF HupOnWay, In
    <3>3. \A g \in Fds : \A k \in Conns :
            fd'[g].state = "CONNECTED" /\ fd'[g].id = k => ~In(toSec, {"conn"}, k)'
      <4> SUFFICES ASSUME NEW g \in Fds, NEW k \in Conns, fd'[g].state = "CONNECTED",
                          fd'[g].id = k, In(toSec, {"conn"}, k)
                   PROVE  FALSE
        BY <1>6 DEF In
      <4>1. CASE g = f
        BY <2>2, <2>4, <4>1
      <4>2. CASE g # f
        BY <2>1, <4>2 DEF DriverKnows
      <4>3. QED BY <4>1, <4>2
    <3>4. QED BY <1>5, <2>1, <3>1, <3>2, <3>3 DEF DriverKnows
  <2>9. ToFile'
    <3> SUFFICES ASSUME NEW g \in Fds, NEW k \in Conns, NEW a \in Addrs,
                        Linked(g)', fd'[g].id = k, fd'[g].local = a
                 PROVE
      /\ (fd'[g].state = "CONNECTED" \/ In(toNs', {"accept"}, k))
         /\ Speaks("tx")' /\ thr'["tx"].out.type = "data" /\ thr'["tx"].out.addr = a
           => thr'["tx"].out.id = k
      /\ \A i, j \in 1..Len(toNs') :
           toNs'[i].type = "accept" /\ toNs'[i].id = k /\ i < j /\ DataIn(toNs', j, a)
             => toNs'[j].id = k
      /\ \A i \in 1..Len(toNs') :
           fd'[g].state = "CONNECTED" /\ DataIn(toNs', i, a) => toNs'[i].id = k
      BY DEF ToFile, In, DataIn
    <3>0. Linked(g) /\ fd[g].id = k /\ fd[g].local = a
      BY <1>3
    <3>1. /\ (fd[g].state = "CONNECTED" \/ In(toNs, {"accept"}, k))
             /\ Speaks("tx") /\ thr["tx"].out.type = "data" /\ thr["tx"].out.addr = a
               => thr["tx"].out.id = k
          /\ \A i, j \in 1..Len(toNs) :
               toNs[i].type = "accept" /\ toNs[i].id = k /\ i < j /\ DataIn(toNs, j, a)
                 => toNs[j].id = k
          /\ \A i \in 1..Len(toNs) :
               fd[g].state = "CONNECTED" /\ DataIn(toNs, i, a) => toNs[i].id = k
      BY <2>1, <3>0 DEF ToFile
    <3>2. ASSUME NEW i \in 1..Len(toNs'), NEW j \in 1..Len(toNs'), toNs'[i].type = "accept",
                 toNs'[i].id = k, i < j, toNs'[j].type = "data", toNs'[j].addr = a
          PROVE  toNs'[j].id = k
      <4>1. PICK n \in 1..Len(toNs), p \in 1..Len(toNs) :
                   n = i + 1 /\ toNs'[i] = toNs[n] /\ p = j + 1 /\ toNs'[j] = toNs[p]
        BY <1>6
      <4>2. n < p
        BY <3>2, <4>1
      <4>3. QED BY <3>1, <3>2, <4>1, <4>2 DEF DataIn
    <3>3. fd'[g].state = "CONNECTED" =>
            fd[g].state = "CONNECTED" \/ (toNs[1].type = "accept" /\ toNs[1].id = k)
      BY <2>2, <3>0
    <3>4. ASSUME NEW i \in 1..Len(toNs'), fd'[g].state = "CONNECTED", toNs'[i].type = "data",
                 toNs'[i].addr = a
          PROVE  toNs'[i].id = k
      <4>1. PICK n \in 1..Len(toNs) : toNs'[i] = toNs[n] /\ 1 < n
        BY <1>6
      <4>2. QED BY <1>6, <3>1, <3>3, <3>4, <4>1 DEF DataIn
    <3>5. (fd'[g].state = "CONNECTED" \/ In(toNs', {"accept"}, k))
             /\ Speaks("tx")' /\ thr'["tx"].out.type = "data" /\ thr'["tx"].out.addr = a
               => thr'["tx"].out.id = k
      <4>1. toNs[1].type = "accept" /\ toNs[1].id = k => In(toNs, {"accept"}, k)
        BY <1>6 DEF In
      <4>2. In(toNs', {"accept"}, k) => In(toNs, {"accept"}, k)
        BY <1>6
      <4>3. (Speaks("tx")' <=> Speaks("tx")) /\ thr'["tx"].out = thr["tx"].out
        BY <1>5 DEF Threads
      <4>4. QED BY <3>1, <3>3, <4>1, <4>2, <4>3
    <3>6. QED BY <3>2, <3>4, <3>5 DEF DataIn
  <2>10. ToService'
    BY <1>5, <1>6, <2>1 DEF ToService, DataIn
  <2>11. QED BY <2>7, <2>8, <2>9, <2>10
<1>8. QED BY <1>4, <1>7 DEF CleanInv

----------------------------------------------------------------------------
(* When the driver has gone.                                                *)

(* What is taken from the ring leaves the rest in order.                    *)
LEMMA ServiceKept ==
  ASSUME InTypes, ToService, toSec' = toSec \/ (toSec # <<>> /\ toSec' = Tail(toSec)),
         \A s \in Slots : \A k \in Conns : epts'[s].chan = k =>
           \/ epts'[s] = epts[s]
           \/ /\ toSec # <<>> /\ toSec' = Tail(toSec)
              /\ toSec[1].type = "conn" /\ epts'[s].remote = toSec[1].addr
  PROVE  ToService'
<1>1. ASSUME NEW i \in 1..Len(toSec'), NEW j \in 1..Len(toSec'), i < j
      PROVE  \E n, p \in 1..Len(toSec) : n < p /\ toSec'[i] = toSec[n] /\ toSec'[j] = toSec[p]
  <2>1. CASE toSec' = toSec
    BY <1>1, <2>1
  <2>2. CASE toSec # <<>> /\ toSec' = Tail(toSec)
    <3>1. /\ Len(toSec') = Len(toSec) - 1 /\ Len(toSec) \in Nat
          /\ \A l \in 1..Len(toSec) - 1 : toSec'[l] = toSec[l + 1]
      BY <2>2, TailFacts DEF InTypes
    <3>2. i + 1 \in 1..Len(toSec) /\ j + 1 \in 1..Len(toSec) /\ i + 1 < j + 1
          /\ toSec'[i] = toSec[i + 1] /\ toSec'[j] = toSec[j + 1]
      BY <1>1, <3>1
    <3>3. PICK n, p : n = i + 1 /\ p = j + 1
      OBVIOUS
    <3>4. QED BY <3>2, <3>3
  <2>3. QED BY <2>1, <2>2
<1>2. ASSUME NEW i \in 1..Len(toSec')
      PROVE  \E n \in 1..Len(toSec) : /\ toSec'[i] = toSec[n]
                                      /\ toSec # <<>> /\ toSec' = Tail(toSec) => 1 < n
  <2>1. CASE toSec # <<>> /\ toSec' = Tail(toSec)
    <3>1. /\ Len(toSec') = Len(toSec) - 1 /\ Len(toSec) \in Nat
          /\ \A l \in 1..Len(toSec) - 1 : toSec'[l] = toSec[l + 1]
      BY <2>1, TailFacts DEF InTypes
    <3>2. i + 1 \in 1..Len(toSec) /\ 1 < i + 1 /\ toSec'[i] = toSec[i + 1]
      BY <3>1
    <3>3. PICK n : n = i + 1
      OBVIOUS
    <3>4. QED BY <3>2, <3>3
  <2>2. CASE toSec' = toSec /\ ~(toSec # <<>> /\ toSec' = Tail(toSec))
    BY <2>2
  <2>3. QED BY <2>1, <2>2
<1>3. ASSUME NEW i \in 1..Len(toSec'), NEW s \in Slots, NEW k \in Conns, NEW a \in Addrs,
             epts'[s].remote = a, epts'[s].chan = k, toSec'[i].type = "data", toSec'[i].addr = a
      PROVE  toSec'[i].id = k
  <2>1. PICK n \in 1..Len(toSec) : /\ toSec'[i] = toSec[n]
                                   /\ toSec # <<>> /\ toSec' = Tail(toSec) => 1 < n
    BY <1>2
  <2>2. CASE epts'[s] = epts[s]
    BY <1>3, <2>1, <2>2 DEF ToService, DataIn
  <2>3. CASE /\ toSec # <<>> /\ toSec' = Tail(toSec)
             /\ toSec[1].type = "conn" /\ epts'[s].remote = toSec[1].addr
    <3>1. 1 \in 1..Len(toSec) /\ 1 < n
      BY <2>1, <2>3, TailFacts DEF InTypes
    <3>2. QED BY <1>3, <2>1, <2>3, <3>1 DEF ToService
  <2>4. QED BY <1>3, <2>2, <2>3
<1>4. ASSUME NEW i \in 1..Len(toSec'), NEW j \in 1..Len(toSec'), i < j,
             toSec'[i].type = "conn", toSec'[j].type = "data"
      PROVE  toSec'[i].addr # toSec'[j].addr
  <2>1. PICK n, p \in 1..Len(toSec) : n < p /\ toSec'[i] = toSec[n] /\ toSec'[j] = toSec[p]
    BY <1>1, <1>4
  <2>2. QED BY <1>4, <2>1 DEF ToService
<1>5. QED BY <1>3, <1>4, ToServiceNext

(* So it is after every step of the device.                                 *)
LEMMA GoneKept ==
  ASSUME InTypes, GoneInv, UNCHANGED <<vds, clean>>,
         toSec' = toSec \/ (toSec # <<>> /\ toSec' = Tail(toSec)),
         \A s \in Slots : \A k \in Conns : epts'[s].chan = k =>
           \/ epts'[s] = epts[s]
           \/ /\ toSec # <<>> /\ toSec' = Tail(toSec)
              /\ toSec[1].type = "conn" /\ epts'[s].remote = toSec[1].addr
  PROVE  GoneInv'
<1> SUFFICES ASSUME clean', Gone' PROVE ToService'
  BY DEF GoneInv
<1>1. ToService
  BY DEF GoneInv, Gone
<1>2. QED BY <1>1, ServiceKept

----------------------------------------------------------------------------
(* The invariant.                                                           *)

(* Steps that move nothing.                                                 *)
LEMMA SilentInv ==
  ASSUME LinkInv, DevInv', Silent, FilesQuiet, conns' = conns, clean' = clean, Gone' <=> Gone
  PROVE  LinkInv'
<1>1. OrderInv' /\ CleanInv'
  BY SilentOrder DEF LinkInv
<1>2. toSec' = toSec /\ epts' = epts
  BY DEF Silent
<1>3. GoneInv'
  BY <1>2 DEF LinkInv, GoneInv, ToService, DataIn
<1>4. QED BY <1>1, <1>3 DEF LinkInv

(* Most steps of the device are of this kind.                               *)
LEMMA SilentDevice ==
  ASSUME LinkInv, DevInv', Silent, UNCHANGED ns
  PROVE  LinkInv'
<1>1. conns' = conns /\ clean' = clean /\ (Gone' <=> Gone) /\ FilesQuiet
  BY DEF ns, Gone, FilesQuiet, Linked
<1>2. QED BY <1>1, SilentInv

(* handle_conn_req, in either way.                                          *)
LEMMA RxConnReqInv ==
  ASSUME LinkInv, RxConnReq, UNCHANGED ns
  PROVE  LinkInv'
<1>1. DevInv /\ OrderInv /\ CleanInv /\ GoneInv /\ InTypes /\ InHandles
  BY DEF LinkInv, DevInv
<1>2. RxMsg("conn") /\ UNCHANGED <<vds, clean>>
  BY DEF RxConnReq, ns
<1>3. toSec # <<>> /\ toSec \in Seq(SecMsgs)
  BY <1>1, <1>2 DEF RxMsg, TakeMessage, Avail, InTypes
<1>4. Head(toSec) = toSec[1] /\ toSec[1] \in SecMsgs /\ toSec[1].type = "conn"
      /\ toSec' = Tail(toSec)
  BY <1>2, <1>3, TailFacts DEF RxMsg, TakeMessage
<1>5. PICK c \in Conns, b \in Addrs : c = toSec[1].id /\ b = toSec[1].addr
  BY <1>4 DEF SecMsgs, MsgsOf
<1>6. CASE Refused(Head(toSec)) /\ UNCHANGED <<epts, chan>>
  <2>1. DevInv'
    BY <1>1, <1>2, <1>6, RxRefuseDev
  <2>2. OrderInv' /\ CleanInv'
    BY <1>1, <1>2, <1>6, RxRefuseOrder
  <2>3. GoneInv'
    BY <1>1, <1>2, <1>3, <1>4, <1>6, GoneKept
  <2>4. QED BY <2>1, <2>2, <2>3 DEF LinkInv
<1>7. CASE /\ FreeSlots # {}
           /\ epts' = [epts EXCEPT ![Least(FreeSlots)] = [remote |-> b, chan |-> c]]
           /\ chan' = [chan EXCEPT ![c].st = "connecting", ![c].refs = 1]
           /\ thr' = [thr EXCEPT !["rx"].pc = "list", !["rx"].chan = Least(FreeSlots)]
  <2>1. FreeSlots \in SUBSET Nat /\ FreeSlots \subseteq Slots
    BY Zero DEF FreeSlots
  <2>2. PICK s \in Slots : s = Least(FreeSlots)
    BY <1>7, <2>1, LeastIn
  <2>3. RxOpen(s, c, b)
    BY <1>5, <1>7, <2>2 DEF RxOpen
  <2>4. DevInv' /\ OrderInv' /\ CleanInv'
    BY <1>1, <1>2, <2>3, RxOpenOrder
  <2>5. epts'[s] = [remote |-> b, chan |-> c] /\ \A u \in Slots \ {s} : epts'[u] = epts[u]
    BY <1>1, <1>7, <2>2 DEF InTypes
  <2>6. epts'[s].remote = toSec[1].addr
    BY <1>5, <2>5
  <2>7. GoneInv'
    BY <1>1, <1>2, <1>3, <1>4, <2>5, <2>6, GoneKept
  <2>8. QED BY <2>4, <2>7 DEF LinkInv
<1>8. QED BY <1>4, <1>5, <1>6, <1>7 DEF RxConnReq

(* The steps of the device keep the invariant.                              *)
LEMMA DeviceInv ==
  ASSUME LinkInv, DevNext, UNCHANGED ns
  PROVE  LinkInv'
<1>1. DevInv /\ OrderInv /\ CleanInv /\ GoneInv /\ InTypes
  BY DEF LinkInv, DevInv
<1>2. UNCHANGED <<vds, clean>>
  BY DEF ns
<1>3. ASSUME NEW t \in Threads, SendFilled(t) PROVE LinkInv'
  <2>1. DevInv' /\ toSec' = toSec /\ epts' = epts
    BY <1>1, <1>3, SendFilledDev
  <2>2. OrderInv' /\ CleanInv'
    BY <1>1, <1>3, SendFilledOrder
  <2>3. GoneInv'
    BY <1>1, <1>2, <2>1, GoneKept
  <2>4. QED BY <2>1, <2>2, <2>3 DEF LinkInv
<1>4. ASSUME NEW t \in Threads, SendNone(t) \/ SendWoken(t) PROVE LinkInv'
  BY <1>1, <1>4, SendNoneDev, SendWokenDev, SilentDevice
<1>5. CASE RxNone \/ RxSignal
  BY <1>1, <1>5, RxRestDev, SilentDevice
<1>6. CASE RxConnReq
  BY <1>6, RxConnReqInv
<1>7. CASE RxList
  BY <1>1, <1>7, RxListDev, SilentDevice
<1>8. CASE RxDiscReq
  <2>1. /\ DevInv' /\ toSec # <<>> /\ toSec' = Tail(toSec)
        /\ \/ epts' = epts
           \/ \E s \in Slots : epts' = [epts EXCEPT ![s] = NoEpt]
    BY <1>1, <1>8, RxDiscReqDev
  <2>2. OrderInv' /\ CleanInv'
    BY <1>1, <1>8, RxDiscReqOrder
  <2>3. \A s \in Slots : \A k \in Conns : epts'[s].chan = k => epts'[s] = epts[s]
    <3>1. NoEpt.chan = 0 /\ epts \in [Slots -> Endpoints]
      BY <1>1 DEF NoEpt, InTypes
    <3>2. \A s \in Slots : epts'[s] = epts[s] \/ epts'[s] = NoEpt
      BY <2>1, <3>1
    <3>3. QED BY <3>1, <3>2, Zero
  <2>4. GoneInv'
    BY <1>1, <1>2, <2>1, <2>3, GoneKept
  <2>5. QED BY <2>1, <2>2, <2>4 DEF LinkInv
<1>9. CASE RxChanMsg
  <2>1. DevInv' /\ toSec # <<>> /\ toSec' = Tail(toSec) /\ epts' = epts
    BY <1>1, <1>9, RxTakenDev
  <2>2. OrderInv' /\ CleanInv'
    BY <1>1, <1>9, RxTakenOrder
  <2>3. GoneInv'
    BY <1>1, <1>2, <2>1, GoneKept
  <2>4. QED BY <2>1, <2>2, <2>3 DEF LinkInv
<1>10. CASE TxIdle \/ TxNoHandles
  BY <1>1, <1>10, TxIdleDev, SilentDevice
<1>11. CASE TxGone
  BY <1>1, <1>11, TxGoneDev, SilentDevice
<1>12. CASE TxReady \/ TxMsg
  <2>1. DevInv' /\ UNCHANGED rings /\ epts' = epts
    BY <1>1, <1>12, TxSpeaksDev
  <2>2. toSec' = toSec
    BY <2>1 DEF rings
  <2>3. OrderInv' /\ CleanInv'
    BY <1>1, <1>12, TxSpeaksOrder
  <2>4. GoneInv'
    BY <1>1, <1>2, <2>1, <2>2, GoneKept
  <2>5. QED BY <2>1, <2>3, <2>4 DEF LinkInv
<1>13. CASE TxGetMsg
  <2>1. \/ chan[thr["tx"].chan].msgs > 0
        \/ TxDone /\ chan' = Decref(chan, thr["tx"].chan)
    BY <1>13 DEF TxGetMsg
  <2>2. QED BY <1>1, <1>13, <2>1, TxGetMsgDev, TxGoneDev, SilentDevice
<1>14. CASE TxHup
  <2>1. /\ DevInv' /\ UNCHANGED rings
        /\ \E s \in Slots : epts' = [epts EXCEPT ![s] = NoEpt]
    BY <1>1, <1>14, TxHupDev
  <2>2. toSec' = toSec
    BY <2>1 DEF rings
  <2>3. OrderInv' /\ CleanInv'
    BY <1>1, <1>14, TxHupOrder
  <2>4. \A s \in Slots : \A k \in Conns : epts'[s].chan = k => epts'[s] = epts[s]
    <3>1. NoEpt.chan = 0 /\ epts \in [Slots -> Endpoints]
      BY <1>1 DEF NoEpt, InTypes
    <3>2. \A s \in Slots : epts'[s] = epts[s] \/ epts'[s] = NoEpt
      BY <2>1, <3>1
    <3>3. QED BY <3>1, <3>2, Zero
  <2>5. GoneInv'
    BY <1>1, <1>2, <2>2, <2>4, GoneKept
  <2>6. QED BY <2>1, <2>3, <2>5 DEF LinkInv
<1>15. ASSUME NEW c \in Conns, TxWait(c) \/ SrvAccept(c) \/ SrvSend(c) \/ SrvClose(c)
       PROVE  LinkInv'
  BY <1>1, <1>15, TxWaitDev, SrvDev, SilentDevice
<1>16. ASSUME NEW q \in Queues, Kick(q) PROVE LinkInv'
  BY <1>1, <1>16, KickDev, SilentDevice
<1>17. CASE ResetChannels
  <2>1. DevInv' /\ toSec' = toSec /\ \A s \in Slots : epts'[s] = NoEpt
    BY <1>1, <1>17, ResetChannelsDev
  <2>2. OrderInv' /\ CleanInv'
    BY <1>1, <1>17, ResetChannelsOrder
  <2>3. \A s \in Slots : \A k \in Conns : epts'[s].chan = k => epts'[s] = epts[s]
    <3>1. NoEpt.chan = 0
      BY DEF NoEpt
    <3>2. QED BY <2>1, <3>1, Zero
  <2>4. GoneInv'
    BY <1>1, <1>2, <2>1, <2>3, GoneKept
  <2>5. QED BY <2>1, <2>2, <2>4 DEF LinkInv
<1>18. CASE ResetDone \/ JoinTimeout
  BY <1>1, <1>18, ResetEndDev, SilentDevice
<1>19. QED
  BY <1>3, <1>4, <1>5, <1>6, <1>7, <1>8, <1>9, <1>10, <1>11, <1>12, <1>13, <1>14, <1>15,
     <1>16, <1>17, <1>18 DEF DevNext

(* The messages that the driver drops were not waited for.                  *)
LEMMA DroppedInv ==
  ASSUME LinkInv, UNCHANGED dev, TakeReply, UNCHANGED <<fd, conns, clean>>, vds \in {"boot", "online"},
         vds' = vds \/ vds' = "online",
         \A g \in Fds : fd[g].local = toNs[1].addr =>
           /\ toNs[1].type \in Answers => fd[g].state # "CONNECTING"
           /\ toNs[1].type = "disc" => ~Linked(g)
  PROVE  LinkInv'
<1>1. DevInv /\ OrderInv /\ CleanInv
  BY DEF LinkInv
<1>2. DevInv' /\ (Gone' <=> Gone) /\ ~Gone
  BY <1>1, IgnoredDev DEF Gone
<1>3. OrderInv' /\ CleanInv'
  BY <1>1, <1>2, IgnoredOrder
<1>4. QED BY <1>2, <1>3 DEF LinkInv, GoneInv

(* An answer that a file waits for.                                         *)
LEMMA AnswerInv ==
  ASSUME LinkInv, NEW f \in Fds, TakeReply, For(f), vds \in {"boot", "online"}, UNCHANGED dev,
         UNCHANGED <<vds, conns>>, Own(f), Linked(f), NEW ok \in BOOLEAN,
         Reply.type \in {"accept", "refuse", "disc"},
         ok <=> Reply.type = "accept",
         fd' = [fd EXCEPT ![f].state = IF ok THEN "CONNECTED" ELSE "DISCONNECTED",
                          ![f].remote = IF ok THEN Reply.slot ELSE 0,
                          ![f].id = IF ok THEN @ ELSE 0,
                          ![f].dn = IF ok THEN "CONNECTED" ELSE "DISCONNECTED",
                          ![f].comp = @ + 1]
  PROVE  LinkInv'
<1>1. DevInv /\ OrderInv /\ CleanInv
  BY DEF LinkInv
<1>2. /\ DevInv' /\ ~Gone /\ ~Gone'
      /\ toNs[1].type \in {"accept", "refuse", "disc"}
      /\ toNs[1] \in NsMsgs /\ toNs[1].addr = fd[f].local
      /\ clean' <=> clean /\ toNs[1].id = fd[f].id
      /\ \A g \in Fds \ {f} : fd'[g] = fd[g]
      /\ toNs[1].type = "accept" =>
           /\ fd'[f].state = "CONNECTED" /\ fd'[f].id = fd[f].id
           /\ fd'[f].local = fd[f].local /\ fd'[f].remote = toNs[1].slot
      /\ toNs[1].type # "accept" => ~Linked(f)' /\ fd'[f].state # "CONNECTED"
  BY <1>1, AnswerDev
<1>3. OrderInv' /\ CleanInv'
  BY <1>1, <1>2, AnswerOrder
<1>4. QED BY <1>2, <1>3 DEF LinkInv, GoneInv

(* What the driver sends or takes does not disturb what it left when it was *)
(* removed.                                                                 *)
LEMMA GoneStays ==
  ASSUME GoneInv, UNCHANGED dev, toSec' = toSec, vds' = vds, clean' = clean
  PROVE  GoneInv'
<1>1. epts' = epts /\ (Gone' <=> Gone)
  BY DEF dev, Gone
<1>2. QED BY <1>1 DEF GoneInv, ToService, DataIn

(* _handle_conn_rsp.                                                        *)
LEMMA ConnRspInv ==
  ASSUME LinkInv, NEW f \in Fds, ConnRsp(f), UNCHANGED dev
  PROVE  LinkInv'
<1>1. InTypes /\ InFiles
  BY DEF LinkInv, DevInv
<1>2. /\ vds \in {"boot", "online"} /\ Reply.type \in {"accept", "refuse"} /\ For(f)
      /\ TakeReply /\ UNCHANGED <<vds, conns>>
  BY DEF ConnRsp, HandleReply
<1>3. Reply = toNs[1]
  BY <1>1, <1>2, ReplyTypes
<1>4. CASE /\ fd[f].state = "CONNECTING" /\ Own(f)
           /\ fd' = [fd EXCEPT
                      ![f].state = IF Reply.type = "accept" THEN "CONNECTED" ELSE "DISCONNECTED",
                      ![f].remote = IF Reply.type = "accept" THEN Reply.slot ELSE 0,
                      ![f].id = IF Reply.type = "accept" THEN @ ELSE 0,
                      ![f].dn = IF Reply.type = "accept" THEN "CONNECTED" ELSE "DISCONNECTED",
                      ![f].comp = @ + 1]
  <2>1. PICK ok \in BOOLEAN : ok = (Reply.type = "accept")
    OBVIOUS
  <2>2. Linked(f) /\ Reply.type \in {"accept", "refuse", "disc"}
    BY <1>2, <1>4 DEF Linked
  <2>3. fd' = [fd EXCEPT ![f].state = IF ok THEN "CONNECTED" ELSE "DISCONNECTED",
                         ![f].remote = IF ok THEN Reply.slot ELSE 0,
                         ![f].id = IF ok THEN @ ELSE 0,
                         ![f].dn = IF ok THEN "CONNECTED" ELSE "DISCONNECTED",
                         ![f].comp = @ + 1]
    BY <1>4, <2>1
  <2>4. ok <=> Reply.type = "accept"
    BY <2>1
  <2>5. QED BY <1>2, <1>4, <2>2, <2>3, <2>4, AnswerInv
<1>5. CASE fd[f].state # "CONNECTING" /\ UNCHANGED <<fd, clean>>
  <2>1. \A g \in Fds : fd[g].local = toNs[1].addr => fd[g].state # "CONNECTING"
    BY <1>1, <1>2, <1>3, <1>5 DEF For, InFiles
  <2>2. toNs[1].type # "disc"
    BY <1>2, <1>3
  <2>3. QED BY <1>2, <1>5, <2>1, <2>2, DroppedInv
<1>6. QED BY <1>4, <1>5 DEF ConnRsp

(* _handle_disc_req.                                                        *)
LEMMA DiscReqInv ==
  ASSUME LinkInv, NEW f \in Fds, DiscReq(f), UNCHANGED dev
  PROVE  LinkInv'
<1>1. InTypes /\ InFiles
  BY DEF LinkInv, DevInv
<1>2. /\ vds \in {"boot", "online"} /\ Reply.type = "disc" /\ For(f)
      /\ TakeReply /\ UNCHANGED <<vds, conns>>
  BY DEF DiscReq, HandleReply
<1>3. Reply = toNs[1]
  BY <1>1, <1>2, ReplyTypes
<1>4. CASE /\ Linked(f) /\ Own(f)
           /\ fd' = [fd EXCEPT ![f].state = "DISCONNECTED", ![f].remote = 0,
                            ![f].id = 0, ![f].dn = "DISCONNECTED", ![f].comp = @ + 1]
  <2>1. PICK ok \in BOOLEAN : ~ok
    OBVIOUS
  <2>2. Reply.type \in {"accept", "refuse", "disc"} /\ (ok <=> Reply.type = "accept")
    BY <1>2, <2>1
  <2>3. fd' = [fd EXCEPT ![f].state = IF ok THEN "CONNECTED" ELSE "DISCONNECTED",
                         ![f].remote = IF ok THEN Reply.slot ELSE 0,
                         ![f].id = IF ok THEN @ ELSE 0,
                         ![f].dn = IF ok THEN "CONNECTED" ELSE "DISCONNECTED",
                         ![f].comp = @ + 1]
    BY <1>4, <2>1
  <2>4. QED BY <1>2, <1>4, <2>2, <2>3, AnswerInv
<1>5. CASE ~Linked(f) /\ UNCHANGED <<fd, clean>>
  <2>1. \A g \in Fds : fd[g].local = toNs[1].addr => ~Linked(g)
    BY <1>1, <1>2, <1>3, <1>5 DEF For, InFiles
  <2>2. \A g \in Fds : fd[g].local = toNs[1].addr => fd[g].state # "CONNECTING"
    BY <2>1 DEF Linked
  <2>3. QED BY <1>2, <1>5, <2>1, <2>2, DroppedInv
<1>6. QED BY <1>4, <1>5 DEF DiscReq

(* The steps of the driver keep the invariant.                              *)
LEMMA DriverInv ==
  ASSUME LinkInv, NsNext, UNCHANGED dev
  PROVE  LinkInv'
<1>1. DevInv /\ OrderInv /\ CleanInv /\ GoneInv /\ InTypes /\ InFiles
  BY DEF LinkInv, DevInv
<1>2. ASSUME NEW f \in Fds, Open(f) \/ ConnectAgain(f) \/ WaitReply(f) PROVE LinkInv'
  <2>1. UNCHANGED <<rings, vds, conns, clean>>
    BY <1>2 DEF Open, ConnectAgain, WaitReply
  <2>2. DevInv' /\ FilesQuiet
    BY <1>1, <1>2, OpenDev, CallDev
  <2>3. Silent /\ (Gone' <=> Gone)
    BY <2>1, DevSilent DEF Gone
  <2>4. QED BY <2>1, <2>2, <2>3, SilentInv
<1>3. ASSUME NEW f \in Fds, Connect(f) PROVE LinkInv'
  <2>1. DevInv' /\ vds' = "online"
    BY <1>1, <1>3, ConnectDev
  <2>2. OrderInv' /\ CleanInv'
    BY <1>1, <1>3, ConnectOrder
  <2>3. QED BY <2>1, <2>2 DEF LinkInv, GoneInv, Gone
<1>4. ASSUME NEW f \in Fds, Write(f) PROVE LinkInv'
  <2>1. DevInv' /\ vds' = "online"
    BY <1>1, <1>4, WriteDev DEF ns
  <2>2. OrderInv' /\ CleanInv'
    BY <1>1, <1>4, WriteOrder
  <2>3. QED BY <2>1, <2>2 DEF LinkInv, GoneInv, Gone
<1>5. ASSUME NEW f \in Fds, Close(f) PROVE LinkInv'
  <2>1. /\ DevInv' /\ vds' = vds
        /\ Linked(f) \/ clean' = FALSE \/ (toSec' = toSec /\ clean' = clean)
    BY <1>1, <1>5, CloseDev
  <2>2. OrderInv' /\ CleanInv'
    BY <1>1, <1>5, CloseOrder
  <2>3. CASE Linked(f)
    BY <1>1, <2>1, <2>2, <2>3 DEF LinkInv, GoneInv, InFiles, Gone
  <2>4. CASE clean' = FALSE
    BY <2>1, <2>2, <2>4 DEF LinkInv, GoneInv
  <2>5. CASE toSec' = toSec /\ clean' = clean
    BY <1>1, <2>1, <2>2, <2>5, GoneStays DEF LinkInv
  <2>6. QED BY <2>1, <2>3, <2>4, <2>5
<1>6. ASSUME NEW f \in Fds, ChanMsg(f) PROVE LinkInv'
  <2>1. /\ vds \in {"boot", "online"} /\ TakeReply /\ Reply.type = "data"
        /\ UNCHANGED <<fd, conns, clean>> /\ vds' = vds
    BY <1>6 DEF ChanMsg, HandleReply, ns
  <2>2. Reply = toNs[1]
    BY <1>1, <2>1, ReplyTypes
  <2>3. toNs[1].type \notin Answers /\ toNs[1].type # "disc"
    BY <2>1, <2>2 DEF Answers
  <2>4. QED BY <2>1, <2>3, DroppedInv
<1>7. CASE GoOnline
  <2>1. /\ vds \in {"boot", "online"} /\ TakeReply /\ Reply.type = "online"
        /\ UNCHANGED <<fd, conns, clean>> /\ vds' = "online"
    BY <1>7 DEF GoOnline, HandleReply
  <2>2. Reply = toNs[1]
    BY <1>1, <2>1, ReplyTypes
  <2>3. toNs[1].type \notin Answers /\ toNs[1].type # "disc"
    BY <2>1, <2>2 DEF Answers
  <2>4. QED BY <2>1, <2>3, DroppedInv
<1>8. CASE Ignored
  <2>1. /\ vds \in {"boot", "online"} /\ TakeReply /\ Reply.type # "online" /\ Unclaimed
        /\ UNCHANGED <<fd, conns, clean>> /\ vds' = vds
    BY <1>8 DEF Ignored, ns
  <2>2. Reply = toNs[1] /\ toNs[1] \in NsMsgs \cup {Msg("online", 0, 0, 0)}
    BY <1>1, <2>1, ReplyTypes
  <2>3. toNs[1] # Msg("online", 0, 0, 0)
    BY <2>1, <2>2 DEF Msg
  <2>4. toNs[1].addr \in Addrs
    BY <2>2, <2>3 DEF NsMsgs, MsgsOf
  <2>5. toNs[1].addr # 0
    BY <2>4, Zero
  <2>6. \A g \in Fds : fd[g].local # toNs[1].addr
    BY <2>1, <2>2, <2>5 DEF Unclaimed, For
  <2>7. QED BY <2>1, <2>6, DroppedInv
<1>9. CASE Remove
  <2>1. DevInv' /\ Gone'
    BY <1>1, <1>9, RemoveDev
  <2>2. OrderInv' /\ CleanInv'
    BY <1>1, <1>9, RemoveOrder
  <2>3. vds = "online" /\ toSec' = toSec /\ epts' = epts /\ clean' = clean
    BY <1>9 DEF Remove, rings, dev
  <2>4. GoneInv'
    BY <1>1, <2>3 DEF GoneInv, CleanInv, Gone, ToService, DataIn
  <2>5. QED BY <2>1, <2>2, <2>4 DEF LinkInv
<1>10. QED
  BY <1>2, <1>3, <1>4, <1>5, <1>6, <1>7, <1>8, <1>9, ConnRspInv, DiscReqInv DEF NsNext

(* The rings, the device and the driver as they are after the probe.        *)
LEMMA InitInv ==
  ASSUME Init
  PROVE  LinkInv
<1>1. /\ toSec = <<>> /\ room = TxSize - 1 /\ toNs = <<Msg("online", 0, 0, 0)>>
      /\ event = [q \in Queues |-> FALSE]
  BY DEF Init, RingsInit
<1>2. /\ epts = [s \in Slots |-> NoEpt] /\ chan = [c \in Conns |-> NoChan]
      /\ thr = [t \in Threads |-> Thread(IF t = "rx" THEN "wait" ELSE "idle")]
      /\ haveHandles = FALSE /\ stop = [t \in Threads |-> FALSE] /\ reset = "no"
  BY DEF Init, DevInit
<1>3. vds = "boot" /\ fd = [f \in Fds |-> Closed] /\ conns = 0 /\ clean = TRUE
  BY DEF Init, NsInit
<1>4. /\ Len(toNs) = 1 /\ toNs[1] = Msg("online", 0, 0, 0) /\ toNs[1].type = "online"
      /\ toNs[1].id = 0 /\ toNs[1].addr = 0 /\ 1..Len(toNs) = {1}
  BY <1>1 DEF Msg
<1>5. Len(toSec) = 0 /\ 1..Len(toSec) = {}
  BY <1>1
<1>6. /\ thr["rx"].pc = "wait" /\ thr["tx"].pc = "idle" /\ thr["tx"].chan = 0
      /\ thr["rx"] = Thread("wait") /\ thr["tx"] = Thread("idle")
      /\ \A t \in Threads : ~Speaks(t) /\ thr[t].pc \notin InSend
  BY <1>2 DEF Threads, Thread, Speaks, InSend
<1>7. \A s \in Slots : epts[s] = NoEpt /\ epts[s].chan = 0
  BY <1>2 DEF NoEpt
<1>8. \A c \in Conns : ~Owned(c)
  BY <1>7, Zero DEF Owned
<1>9. \A f \in Fds : fd[f] = Closed /\ fd[f].local = 0 /\ fd[f].state = "CLOSED"
                     /\ fd[f].dn = "DISCONNECTED" /\ ~Linked(f)
  BY <1>3 DEF Closed, Linked
<1>10. InTypes
  <2>1. toSec \in Seq(SecMsgs) /\ Len(toSec) <= RxSize
    BY <1>1, RingsAssumption
  <2>2. toNs \in Seq(NsMsgs \cup {Msg("online", 0, 0, 0)})
    BY <1>1
  <2>3. room \in Nat /\ room + Len(toNs) = TxSize
    BY <1>1, <1>4, RingsAssumption
  <2>4. fd \in [Fds -> Files]
    BY <1>3 DEF Files, Closed
  <2>5. epts \in [Slots -> Endpoints]
    BY <1>2 DEF Endpoints
  <2>6. NoChan \in Channels
    BY DEF Channels, NoChan
  <2>7. chan \in [Conns -> Channels]
    BY <1>2, <2>6
  <2>8. conns \in 0..MaxConn
    BY <1>3, RingsAssumption
  <2>9. event \in [Queues -> BOOLEAN] /\ stop \in [Threads -> BOOLEAN]
    BY <1>1, <1>2
  <2>10. QED BY <1>2, <1>3, <2>1, <2>2, <2>3, <2>4, <2>5, <2>7, <2>8, <2>9 DEF InTypes
<1>11. InThreads
  <2>1. Thread("wait") \in ThrFields /\ Thread("idle") \in ThrFields
    BY PcsFacts DEF Thread, ThrFields, Pcs
  <2>2. thr \in [Threads -> ThrFields]
    BY <1>2, <2>1 DEF Threads
  <2>3. \A t \in Threads : thr[t].pc \in Pcs[t]
    BY <1>6 DEF Threads, Pcs
  <2>4. QED BY <1>6, <2>2, <2>3 DEF InThreads, ThrFields, At, Threads
<1>12. InHandles
  <2>1. \A c \in Conns : Handle(c)
    <3>1. SUFFICES ASSUME NEW c \in Conns PROVE Handle(c)
      OBVIOUS
    <3>2. chan[c] = NoChan /\ thr["tx"].chan # c /\ ~InList(c) /\ ~Owned(c)
      BY <1>2, <1>6, <1>8, Zero DEF InList, At
    <3>3. chan[c].refs = 0 /\ chan[c].st = "free" /\ ~chan[c].listed /\ chan[c].cookie = 0
      BY <3>2 DEF NoChan
    <3>4. Count(Owned(c)) = 0 /\ Count(chan[c].listed) = 0 /\ Count(thr["tx"].chan = c) = 0
      BY <3>2, <3>3 DEF Count
    <3>5. QED BY <3>2, <3>3, <3>4 DEF Handle
  <2>2. QED BY <1>7, <2>1 DEF InHandles
<1>13. InFiles /\ InReset
  <2>1. InFiles
    BY <1>3, <1>9 DEF InFiles, Gone
  <2>2. stop["tx"] = FALSE
    BY <1>2 DEF Threads
  <2>3. QED BY <1>2, <2>1, <2>2 DEF InReset
<1>14. \A k \in Conns : \A a \in Addrs : ~Carries(k, a)
  BY <1>4, <1>5, <1>6, <1>7, <1>9, Zero DEF Carries
<1>15. \A k \in Conns : ~Heard(k) /\ \A types : ~In(toNs, types, k)
  BY <1>4, <1>6, Zero DEF Heard, In
<1>16. \A types, k : ~In(toSec, types, k)
  BY <1>5 DEF In
<1>17. Addressed
  BY <1>14 DEF Addressed
<1>18. InRequests
  <2>1. \A k \in Conns : chan[k] = NoChan
    BY <1>2
  <2>2. QED BY <1>5, <1>8, <1>15, <2>1 DEF InRequests
<1>19. InAnswers
  BY <1>9 DEF InAnswers
<1>20. DiscsFirst
  BY <1>5 DEF DiscsFirst
<1>21. DeviceKnows
  BY <1>5, <1>7, Zero DEF DeviceKnows
<1>22. DriverKnows
  <2>1. \A a \in Addrs : \A s, k : ~Claimed(a, s, k)
    BY <1>4, <1>6, <1>9 DEF Claimed, Accepted, Threads
  <2>2. QED BY <1>9, <2>1 DEF DriverKnows
<1>23. ToFile
  BY <1>9 DEF ToFile
<1>24. ToService
  BY <1>5 DEF ToService
<1>25. DevInv /\ OrderInv /\ CleanInv /\ GoneInv
  BY <1>10, <1>11, <1>12, <1>13, <1>17, <1>18, <1>19, <1>20, <1>21, <1>22, <1>23, <1>24
     DEF DevInv, OrderInv, CleanInv, GoneInv
<1>26. QED BY <1>25 DEF LinkInv

(* A step in which nothing changes.                                         *)
LEMMA StutterInv ==
  ASSUME LinkInv, UNCHANGED vars
  PROVE  LinkInv'
<1>1. UNCHANGED ns /\ UNCHANGED dev /\ UNCHANGED rings
  BY DEF vars
<1>2. DevInv /\ InThreads /\ InTypes /\ InHandles /\ InFiles /\ InReset
  BY DEF LinkInv, DevInv
<1>3. InThreads' /\ InHandles' /\ InReset' /\ InFiles'
  BY <1>1, <1>2, DevSame, FilesKept DEF ns
<1>4. InTypes'
  BY <1>1, <1>2 DEF InTypes, ns, dev, rings
<1>5. DevInv' /\ Silent
  BY <1>1, <1>3, <1>4, DevSilent DEF DevInv
<1>6. QED BY <1>1, <1>5, SilentDevice

(* Every step keeps the invariant.                                          *)
LEMMA NextInv ==
  ASSUME LinkInv, [Next]_vars
  PROVE  LinkInv'
<1>1. CASE RemoveDevice
  <2>1. DevInv' /\ Silent /\ UNCHANGED <<fd, conns, clean>> /\ (Gone' <=> Gone)
    BY <1>1, RemoveDeviceDev DEF LinkInv
  <2>2. FilesQuiet
    BY <2>1 DEF FilesQuiet, Linked
  <2>3. QED BY <2>1, <2>2, SilentInv
<1>2. QED BY <1>1, DeviceInv, DriverInv, StutterInv DEF Next

(* The device and the driver, whichever sends, hangs up, closes, is removed *)
(* or is reset first: where the threads are, what the endpoint table, the   *)
(* handle list and the tx thread hold, in which order messages can be on    *)
(* the rings, and what the ends of a connection know of each other.         *)
THEOREM LinkInvHolds == Spec => []LinkInv
<1>1. Init => LinkInv
  BY InitInv
<1>2. LinkInv /\ [Next]_vars => LinkInv'
  BY NextInv
<1>3. QED BY <1>1, <1>2, PTL DEF Spec

----------------------------------------------------------------------------
(* What follows for the properties.                                         *)

(* The invariant gives the exact references.                                *)
LEMMA InvExact ==
  ASSUME LinkInv
  PROVE  EndpointsExact
<1>1. InTypes /\ InThreads /\ InHandles
  BY DEF LinkInv, DevInv
<1>2. ASSUME NEW s \in Slots
      PROVE  epts[s].remote \in 0..Cardinality(Fds) /\ epts[s].chan \in Conns \cup {0}
  <2>1. epts[s] \in Endpoints /\ NoEpt.remote = 0 /\ NoEpt.chan = 0 /\ Cardinality(Fds) \in Nat
    BY <1>1, FdsAssumption, FS_CardinalityType DEF InTypes, NoEpt
  <2>2. QED BY <2>1 DEF Endpoints, Addrs
<1>3. ASSUME NEW c \in Conns
      PROVE  chan[c].refs \in 0..3 /\ chan[c].cookie \in Slots \cup {0}
  <2>1. chan[c] \in Channels /\ Handle(c)
    BY <1>1 DEF InTypes, InHandles
  <2>2. chan[c].refs = Count(Owned(c)) + Count(chan[c].listed) + Count(thr["tx"].chan = c)
    BY <2>1 DEF Handle
  <2>3. QED BY <2>1, <2>2, CountFacts DEF Channels
<1>4. TypeOK
  BY <1>1, <1>2, <1>3 DEF TypeOK, InTypes, InThreads
<1>5. ASSUME NEW c \in Conns, NEW owners, owners = {s \in Slots : epts[s].chan = c},
             NEW inList \in BOOLEAN,
             inList <=> \E s \in owners : At("rx", "list") /\ thr["rx"].chan = s
      PROVE  /\ Cardinality(owners) <= 1
             /\ chan[c].refs = Cardinality(owners) + Count(chan[c].listed)
                               + Count(thr["tx"].chan = c)
             /\ (chan[c].st = "free") <=> (chan[c].refs = 0)
             /\ chan[c].listed <=> (owners # {} /\ ~inList)
             /\ chan[c].listed => chan[c].cookie \in owners
             /\ ~chan[c].listed => chan[c].cookie = 0
  <2>1. chan[c] \in Channels /\ Handle(c) /\ chan[c].cookie \in Slots \cup {0}
    BY <1>1, <1>3 DEF InTypes, InHandles
  <2>2. Cardinality(owners) = Count(Owned(c)) /\ (owners # {} <=> Owned(c))
    <3>1. CASE Owned(c)
      <4>1. PICK s \in Slots : epts[s].chan = c
        BY <3>1 DEF Owned
      <4>2. epts[s] # NoEpt
        <5>1. NoEpt.chan = 0
          BY DEF NoEpt
        <5>2. QED BY <4>1, <5>1, Zero
      <4>3. owners = {s}
        BY <1>1, <1>5, <4>1, <4>2 DEF InHandles
      <4>4. QED BY <3>1, <4>3, FS_Singleton DEF Count
    <3>2. CASE ~Owned(c)
      <4>1. owners = {}
        BY <1>5, <3>2 DEF Owned
      <4>2. QED BY <3>2, <4>1, FS_EmptySet DEF Count
    <3>3. QED BY <3>1, <3>2
  <2>3. inList <=> InList(c)
    BY <1>1, <1>5 DEF InList, InThreads
  <2>4. Cardinality(owners) <= 1
    BY <2>2, CountFacts
  <2>5. chan[c].listed => chan[c].cookie \in owners
    BY <1>5, <2>1 DEF Handle
  <2>6. QED BY <2>1, <2>2, <2>3, <2>4, <2>5 DEF Handle
<1>6. QED BY <1>4, <1>5 DEF EndpointsExact

(* Every handle has the references that the endpoint table, the handle list *)
(* and the tx thread hold, and no others; endpoint and handle lead to each  *)
(* other; nothing leads to a handle that is freed, whichever of hang-up,    *)
(* disconnect request and reset takes an endpoint away.                     *)
THEOREM ExactEndpoints == Spec => []EndpointsExact
<1>1. LinkInv => EndpointsExact
  BY InvExact
<1>2. QED BY <1>1, LinkInvHolds, PTL

(* tipc_dev_reset waits for a thread that may still have to stop: if it     *)
(* gives up, that thread sleeps for a transmit buffer and nowhere else.     *)
THEOREM ResetWakes == Spec => []StuckOnlyForBuffers
<1>1. LinkInv => StuckOnlyForBuffers
  <2>1. SUFFICES ASSUME LinkInv, NEW t \in Joining, Asleep(t) PROVE At(t, "swait")
    BY DEF StuckOnlyForBuffers
  <2>2. InReset /\ \A u \in Threads : thr[u].pc \in Pcs[u]
    BY <2>1 DEF LinkInv, DevInv, InThreads
  <2>3. CASE reset = "rxjoin"
    <3>1. t = "rx" /\ t \in Threads
      BY <2>1, <2>3 DEF Joining, Threads
    <3>2. QED BY <2>1, <2>2, <2>3, <3>1 DEF InReset, Asleep, At, Pcs, InSend
  <2>4. CASE reset = "txjoin"
    <3>1. t = "tx" /\ t \in Threads
      BY <2>1, <2>4 DEF Joining, Threads
    <3>2. QED BY <2>1, <2>2, <2>4, <3>1 DEF InReset, Asleep, At, Pcs, InSend
  <2>5. reset = "rxjoin" \/ reset = "txjoin"
    BY <2>1 DEF Joining
  <2>6. QED BY <2>3, <2>4, <2>5
<1>2. QED BY <1>1, LinkInvHolds, PTL

(* A file that is connecting has its request on the ring, a channel that is *)
(* being made or has something to report, or the answer on its way.         *)
THEOREM AnswersComing == Spec => []RequestsAnswered
<1>1. LinkInv => RequestsAnswered
  <2>1. SUFFICES ASSUME LinkInv, NEW f \in Fds, fd[f].state = "CONNECTING", NEW k, k = fd[f].id
                 PROVE  \/ In(toSec, {"conn"}, k)
                        \/ chan[k].refs > 0 /\ chan[k].st = "connecting"
                        \/ \E s \in Slots : epts[s].chan = k /\ EventOf(chan[k]) # "none"
                        \/ At("tx", "event") /\ thr["tx"].chan = k
                        \/ \E t \in Threads : Sending(t, Answers, k)
                        \/ In(toNs, Answers, k)
    BY DEF RequestsAnswered
  <2>2. InTypes /\ InHandles /\ InFiles /\ InAnswers /\ conns \in 0..MaxConn
    BY <2>1 DEF LinkInv, DevInv, OrderInv, InTypes
  <2>3. k \in 1..conns
    BY <2>1, <2>2 DEF InFiles, Linked
  <2>4. k \in Conns
    BY <2>2, <2>3, RingsAssumption DEF Conns
  <2>5. Waiting(k)
    BY <2>1, <2>2, <2>4 DEF InAnswers
  <2>6. CASE Owned(k) /\ (chan[k].st # "connected" \/ chan[k].ready)
    <3>1. Handle(k) /\ chan[k] \in Channels
      BY <2>2, <2>4 DEF InHandles, InTypes
    <3>2. chan[k].refs > 0 /\ chan[k].st # "free"
      <4>1. Count(Owned(k)) = 1
        BY <2>6 DEF Count
      <4>2. chan[k].refs = 1 + Count(chan[k].listed) + Count(thr["tx"].chan = k)
        BY <3>1, <4>1 DEF Handle
      <4>3. chan[k].refs > 0
        BY <4>2, CountFacts
      <4>4. QED BY <3>1, <4>3 DEF Handle
    <3>3. CASE chan[k].st = "connecting"
      BY <3>2, <3>3
    <3>4. CASE chan[k].st # "connecting"
      <4>1. chan[k].st = "closed" \/ chan[k].ready
        BY <2>6, <3>1, <3>2, <3>4 DEF Channels
      <4>2. EventOf(chan[k]) # "none"
        BY <4>1 DEF EventOf
      <4>3. QED BY <2>6, <4>2 DEF Owned
    <3>5. QED BY <3>3, <3>4
  <2>7. QED BY <2>5, <2>6 DEF Waiting
<1>2. QED BY <1>1, LinkInvHolds, PTL

(* While nothing was mixed up, the ends agree.                              *)
LEMMA InvEndsAgree ==
  ASSUME LinkInv, vds = "online", clean
  PROVE  /\ \A f \in Fds :
              fd[f].state = "CONNECTED" =>
                \/ epts[fd[f].remote] = [remote |-> fd[f].local, chan |-> fd[f].id]
                \/ HupOnWay(fd[f].id)
         /\ \A s \in Slots :
              epts[s] # NoEpt =>
                \/ DiscOnWay(epts[s].chan)
                \/ \E f \in Fds : Linked(f) /\ fd[f].id = epts[s].chan
                                  /\ fd[f].local = epts[s].remote
<1>1. /\ InTypes /\ InFiles /\ Addressed /\ DeviceKnows /\ DriverKnows
      /\ fd \in [Fds -> Files] /\ conns \in 0..MaxConn
  BY DEF LinkInv, DevInv, OrderInv, CleanInv, Gone, InTypes
<1>2. ASSUME NEW f \in Fds, fd[f].state = "CONNECTED"
      PROVE  \/ epts[fd[f].remote] = [remote |-> fd[f].local, chan |-> fd[f].id]
             \/ HupOnWay(fd[f].id)
  <2>1. fd[f].id \in 1..conns /\ fd[f].local # 0
    BY <1>1, <1>2 DEF InFiles, Linked
  <2>2. fd[f].id \in Conns /\ fd[f].local \in Addrs /\ fd[f].remote \in Slots \cup {0}
    BY <1>1, <2>1, RingsAssumption DEF Files, Conns
  <2>3. PICK a \in Addrs, s \in Slots \cup {0}, k \in Conns :
          a = fd[f].local /\ s = fd[f].remote /\ k = fd[f].id
    BY <2>2
  <2>4. Claimed(a, s, k)
    BY <1>2, <2>3 DEF Claimed
  <2>5. EptIs(s, a, k) \/ HupOnWay(k)
    BY <1>1, <2>4 DEF DriverKnows
  <2>6. QED BY <2>3, <2>5 DEF EptIs
<1>3. ASSUME NEW s \in Slots, epts[s] # NoEpt
      PROVE  \/ DiscOnWay(epts[s].chan)
             \/ \E f \in Fds : Linked(f) /\ fd[f].id = epts[s].chan
                               /\ fd[f].local = epts[s].remote
  <2>1. PICK k \in Conns : epts[s].chan = k
    BY <1>1, <1>3, EptFacts
  <2>2. DiscOnWay(k) \/ LinkedTo(k)
    BY <1>1, <2>1 DEF DeviceKnows
  <2>3. CASE LinkedTo(k)
    <3>1. PICK f \in Fds : Linked(f) /\ fd[f].id = k
      BY <2>3 DEF LinkedTo
    <3>2. fd[f].local = epts[s].remote
      BY <1>1, <2>1, <3>1, SameEnd
    <3>3. QED BY <2>1, <3>1, <3>2
  <2>4. QED BY <2>1, <2>2, <2>3
<1>4. QED BY <1>2, <1>3

(* As long as no answer went to the wrong request and no disconnect request *)
(* was lost: a connected file has its endpoint or a disconnect on the way,  *)
(* and an endpoint has its file or a disconnect request on the way.         *)
THEOREM EndsKnowEachOther == Spec => []EndsAgree
<1>1. LinkInv => EndsAgree
  BY InvEndsAgree DEF EndsAgree
<1>2. QED BY <1>1, LinkInvHolds, PTL

(* While nothing was mixed up, messages arrive where they belong.           *)
LEMMA InvDelivery ==
  ASSUME LinkInv, clean
  PROVE  /\ \A f \in Fds : HandleReply("data") /\ For(f) /\ Accepts(f)
                             => Reply.id = fd[f].id
         /\ \A s \in Slots : toSec # <<>> /\ Head(toSec).type = "data"
                              /\ Takes(s, Head(toSec)) => epts[s].chan = Head(toSec).id
<1>1. InTypes /\ InFiles /\ CleanInv /\ GoneInv /\ fd \in [Fds -> Files]
  BY DEF LinkInv, DevInv, InTypes
<1>2. ASSUME NEW f \in Fds, HandleReply("data"), For(f), Accepts(f)
      PROVE  Reply.id = fd[f].id
  <2>1. ToFile /\ toNs # <<>> /\ Reply.type = "data" /\ fd[f].local # 0
        /\ Reply.addr = fd[f].local /\ fd[f].state = "CONNECTED" /\ Linked(f)
    BY <1>1, <1>2 DEF HandleReply, For, Accepts, CleanInv, Gone, InFiles, Linked
  <2>2. Reply = toNs[1] /\ 1 \in 1..Len(toNs)
    BY <1>1, <2>1, TailFacts DEF Reply, InTypes
  <2>3. PICK a \in Addrs, k \in Conns : a = fd[f].local /\ k = fd[f].id
    <3>1. fd[f].id \in 1..conns /\ conns \in 0..MaxConn
      BY <1>1, <2>1 DEF InFiles, InTypes
    <3>2. fd[f].id \in Conns /\ fd[f].local \in Addrs
      BY <1>1, <2>1, <3>1, RingsAssumption DEF Files, Conns
    <3>3. QED BY <3>2
  <2>4. DataIn(toNs, 1, a)
    BY <2>1, <2>2, <2>3 DEF DataIn
  <2>5. QED BY <2>1, <2>2, <2>3, <2>4 DEF ToFile
<1>3. ASSUME NEW s \in Slots, toSec # <<>>, Head(toSec).type = "data", Takes(s, Head(toSec))
      PROVE  epts[s].chan = Head(toSec).id
  <2>1. ToService
    BY <1>1 DEF CleanInv, GoneInv
  <2>2. Head(toSec) = toSec[1] /\ 1 \in 1..Len(toSec)
    BY <1>1, <1>3, TailFacts DEF InTypes
  <2>3. epts[s] # NoEpt /\ epts[s].remote = toSec[1].addr
    BY <1>3, <2>2 DEF Takes
  <2>4. PICK a \in Addrs, k \in Conns : a = epts[s].remote /\ k = epts[s].chan
    BY <1>1, <2>3, EptFacts
  <2>5. DataIn(toSec, 1, a)
    BY <1>3, <2>2, <2>3, <2>4 DEF DataIn
  <2>6. QED BY <2>1, <2>2, <2>4, <2>5 DEF ToService
<1>4. QED BY <1>2, <1>3

(* Under the same condition: what dn_handle_msg puts into the queue of a    *)
(* file is from the service it is connected to, and what handle_chan_msg    *)
(* passes on is for the service that has the endpoint, although addresses   *)
(* and slots are used again at once.                                        *)
THEOREM DeliveredRight == Spec => []RightDelivery
<1>1. LinkInv => RightDelivery
  BY InvDelivery DEF RightDelivery
<1>2. QED BY <1>1, LinkInvHolds, PTL

(* No handle is added, and the tx thread does not come to rest.             *)
LEMMA WatchedKept ==
  ASSUME DevInv, DevInv', HandlesWatched,
         \A s \in Slots : \/ epts'[s] = epts[s] \/ epts'[s] = NoEpt
                          \/ thr'["rx"].pc = "list" /\ thr'["rx"].chan = s,
         thr["rx"].pc = "list" => thr'["rx"].pc = "list" /\ thr'["rx"].chan = thr["rx"].chan,
         thr["rx"].pc = "signal" => thr'["rx"].pc = "signal",
         thr'["tx"].pc = "idle" => thr["tx"].pc = "idle",
         haveHandles' = haveHandles
  PROVE  HandlesWatched'
<1>1. SUFFICES ASSUME NEW c \in Conns, chan'[c].listed, thr'["tx"].pc = "idle"
               PROVE  haveHandles' \/ thr'["rx"].pc = "signal"
  BY DEF HandlesWatched, At
<1>2. /\ \A k \in Conns : Handle(k) /\ Handle(k)'
      /\ thr'["rx"].pc = "list" => epts'[thr'["rx"].chan] # NoEpt
      /\ thr["rx"].pc = "list" => thr["rx"].chan \in Slots
  BY DEF DevInv, InHandles, InThreads, At
<1>3. Owned(c)' /\ ~InList(c)'
  BY <1>1, <1>2 DEF Handle
<1>4. PICK s \in Slots : epts'[s].chan = c
  BY <1>3 DEF Owned
<1>5. epts'[s] # NoEpt
  <2>1. NoEpt.chan = 0
    BY DEF NoEpt
  <2>2. QED BY <1>4, <2>1, Zero
<1>6. epts'[s] = epts[s]
  BY <1>3, <1>4, <1>5 DEF InList, At
<1>7. Owned(c)
  BY <1>4, <1>6 DEF Owned
<1>8. ~InList(c)
  <2>1. SUFFICES ASSUME thr["rx"].pc = "list", epts[thr["rx"].chan].chan = c PROVE FALSE
    BY DEF InList, At
  <2>2. PICK u \in Slots : u = thr["rx"].chan
    BY <1>2, <2>1
  <2>3. thr'["rx"].pc = "list" /\ thr'["rx"].chan = u /\ epts'[u] # NoEpt
    BY <1>2, <2>1, <2>2
  <2>4. epts'[u].chan # c
    BY <1>3, <2>3 DEF InList, At
  <2>5. epts[u] # NoEpt /\ epts[s].chan = epts[u].chan
    <3>1. NoEpt.chan = 0
      BY DEF NoEpt
    <3>2. QED BY <1>4, <1>6, <2>1, <2>2, <3>1, Zero
  <2>6. s = u
    BY <2>5 DEF DevInv, InHandles
  <2>7. QED BY <1>4, <2>4, <2>6
<1>9. chan[c].listed
  BY <1>2, <1>7, <1>8 DEF Handle
<1>10. QED BY <1>1, <1>9 DEF HandlesWatched, At

(* The device keeps watching.                                               *)
LEMMA WatchedDevice ==
  ASSUME DevInv, DevInv', HandlesWatched, DevNext
  PROVE  HandlesWatched'
<1>1. InTypes /\ InThreads /\ InHandles /\ thr \in [Threads -> ThrFields]
      /\ thr["rx"] \in ThrFields /\ thr["tx"] \in ThrFields
      /\ "rx" \in Threads /\ "tx" \in Threads /\ Threads = {"rx", "tx"}
  BY ThreadTypes, PcsFacts DEF DevInv
<1>2. ASSUME NEW t \in Threads, SendFilled(t) \/ SendNone(t) \/ SendWoken(t)
      PROVE  HandlesWatched'
  <2>1. thr[t].pc \in InSend /\ epts' = epts /\ haveHandles' = haveHandles
    BY <1>2, PcsFacts DEF SendFilled, SendNone, SendWoken, At
  <2>2. /\ \A u \in Threads \ {t} : thr'[u] = thr[u]
        /\ thr'[t].pc # "idle"
    <3>1. CASE AfterSend(t)
      <4>1. /\ \A u \in Threads \ {t} : thr'[u] = thr[u]
            /\ t = "rx" => thr'[t].pc = AfterMsg
            /\ t = "tx" => thr'[t].pc \in {"list", "msgs"}
        BY <1>1, <2>1, <3>1, AfterSendFacts
      <4>2. AfterMsg # "idle"
        BY DEF AfterMsg
      <4>3. QED BY <1>1, <4>1, <4>2
    <3>2. ASSUME NEW l \in {"send", "swait"}, Goto(t, l)
          PROVE  /\ \A u \in Threads \ {t} : thr'[u] = thr[u]
                 /\ thr'[t].pc # "idle"
      <4>1. l \in Pcs[t] /\ l # "idle"
        BY <1>1, PcsFacts
      <4>2. QED BY <1>1, <3>2, <4>1, GotoFacts
    <3>3. AfterSend(t) \/ Goto(t, "send") \/ Goto(t, "swait")
      BY <1>2 DEF SendFilled, SendNone, SendWoken
    <3>4. QED BY <3>1, <3>2, <3>3
  <2>3. thr[t].pc # "list" /\ thr[t].pc # "signal"
    BY <2>1, PcsFacts
  <2>4. QED BY <1>1, <2>1, <2>2, <2>3, WatchedKept
<1>3. CASE (RxNone \/ RxDiscReq \/ RxChanMsg)
  <2>1. thr["rx"].pc = "get" /\ RxNext /\ haveHandles' = haveHandles
    BY <1>3 DEF RxNone, RxDiscReq, RxChanMsg, RxMsg, At
  <2>2. thr'["tx"] = thr["tx"]
    BY <1>1, <2>1, RxNextFacts
  <2>3. epts' = epts \/ \E s \in Slots : epts' = [epts EXCEPT ![s] = NoEpt]
    <3>1. CASE RxDiscReq /\ EptOf(Head(toSec)) # 0
      <4>1. epts' = [epts EXCEPT ![EptOf(Head(toSec))] = NoEpt]
        BY <3>1 DEF RxDiscReq
      <4>2. EptOf(Head(toSec)) \in Slots \/ epts' = epts
        BY <1>1, <4>1 DEF InTypes
      <4>3. QED BY <4>1, <4>2
    <3>2. QED BY <1>3, <3>1 DEF RxNone, RxDiscReq, RxChanMsg
  <2>4. \A s \in Slots : epts'[s] = epts[s] \/ epts'[s] = NoEpt
    BY <1>1, <2>3 DEF InTypes
  <2>5. QED BY <2>1, <2>2, <2>4, WatchedKept
<1>4. CASE RxConnReq
  <2>1. thr["rx"].pc = "get" /\ haveHandles' = haveHandles
    BY <1>4 DEF RxConnReq, RxMsg, At
  <2>2. CASE Refused(Head(toSec)) /\ epts' = epts
    <3>1. thr'["tx"] = thr["tx"]
      BY <1>1, <2>2 DEF Refused, Sends
    <3>2. QED BY <2>1, <2>2, <3>1, WatchedKept
  <2>3. ASSUME NEW s, NEW e, epts' = [epts EXCEPT ![s] = e],
               thr' = [thr EXCEPT !["rx"].pc = "list", !["rx"].chan = s]
        PROVE  HandlesWatched'
    <3>1. thr'["tx"] = thr["tx"] /\ thr'["rx"].pc = "list" /\ thr'["rx"].chan = s
      BY <1>1, <2>3 DEF ThrFields
    <3>2. \A u \in Slots : epts'[u] = epts[u] \/ u = s
      BY <1>1, <2>3 DEF InTypes
    <3>3. QED BY <2>1, <3>1, <3>2, WatchedKept
  <2>4. QED BY <1>4, <2>2, <2>3 DEF RxConnReq
<1>5. CASE RxList
  <2>1. "signal" \in Pcs["rx"]
    BY PcsFacts
  <2>2. thr'["rx"].pc = "signal"
    BY <1>1, <1>5, <2>1, GotoFacts DEF RxList
  <2>3. QED BY <2>2 DEF HandlesWatched, At
<1>6. CASE RxSignal \/ ResetChannels
  BY <1>6 DEF RxSignal, HaveHandles, ResetChannels, HandlesWatched
<1>7. CASE TxIdle \/ TxGone \/ TxReady \/ TxMsg \/ TxGetMsg \/ TxHup \/ \E c \in Conns : TxWait(c)
  <2>1. ASSUME NEW l \in {"list", "send"}, Goto("tx", l) PROVE thr'["tx"].pc = l
    BY <1>1, <2>1, PcsFacts, GotoFacts
  <2>2. ASSUME NEW m, Sends("tx", m) PROVE thr'["tx"].pc = "send"
    BY <1>1, <2>2 DEF Sends, ThrFields
  <2>3. ASSUME TxDone PROVE thr'["tx"].pc = "list"
    BY <1>1, <2>3, TxDoneFacts
  <2>4. ASSUME TxMsg PROVE thr'["tx"].pc = "msgs"
    BY <1>1, <2>4 DEF TxMsg, ThrFields
  <2>5. ASSUME NEW c \in Conns, TxWait(c) PROVE thr'["tx"].pc = "event"
    BY <1>1, <2>5 DEF TxWait, ThrFields
  <2>6. \/ Goto("tx", "list") \/ Goto("tx", "send") \/ TxDone \/ TxMsg
        \/ (\E m : Sends("tx", m)) \/ \E c \in Conns : TxWait(c)
    BY <1>7 DEF TxIdle, TxGone, TxReady, TxGetMsg, TxHup
  <2>7. thr'["tx"].pc # "idle"
    BY <2>1, <2>2, <2>3, <2>4, <2>5, <2>6
  <2>8. QED BY <2>7 DEF HandlesWatched, At
<1>8. CASE TxNoHandles
  BY <1>8 DEF TxNoHandles, HandlesWatched
<1>9. CASE ResetDone \/ JoinTimeout \/ \E c \in Conns : SrvAccept(c) \/ SrvSend(c) \/ SrvClose(c)
  <2>1. epts' = epts /\ thr' = thr /\ haveHandles' = haveHandles
    BY <1>9 DEF ResetDone, JoinTimeout, SrvAccept, SrvSend, SrvClose
  <2>2. QED BY <2>1, WatchedKept
<1>10. ASSUME NEW q \in Queues, Kick(q) PROVE HandlesWatched'
  <2>1. epts' = epts /\ thr' = Woken(q) /\ haveHandles' = haveHandles
    BY <1>10 DEF Kick, SignalAvail
  <2>2. /\ thr'["rx"].chan = thr["rx"].chan /\ PcLike(thr'["rx"].pc, thr["rx"].pc)
        /\ PcLike(thr'["tx"].pc, thr["tx"].pc)
    BY <1>1, <2>1, WokenFacts
  <2>3. QED BY <2>1, <2>2, WatchedKept DEF PcLike
<1>11. QED
  BY <1>2, <1>3, <1>4, <1>5, <1>6, <1>7, <1>8, <1>9, <1>10 DEF DevNext

(* The tx thread of the device does not wait for have_handles while there   *)
(* are handles in its list, unless the rx thread is about to signal: a      *)
(* handle that was added is never left without anybody who waits for it.    *)
THEOREM HandlesAreWatched == Spec => []HandlesWatched
<1>1. Init => HandlesWatched
  <2>1. ASSUME Init, NEW c \in Conns PROVE ~chan[c].listed
    BY <2>1 DEF Init, DevInit, NoChan
  <2>2. QED BY <2>1 DEF HandlesWatched
<1>2. LinkInv /\ LinkInv' /\ HandlesWatched /\ [Next]_vars => HandlesWatched'
  <2>1. SUFFICES ASSUME LinkInv, LinkInv', HandlesWatched, [Next]_vars PROVE HandlesWatched'
    OBVIOUS
  <2>2. DevInv /\ DevInv' /\ InThreads /\ "rx" \in Threads /\ "tx" \in Threads
    BY <2>1, PcsFacts DEF LinkInv, DevInv
  <2>3. CASE DevNext
    BY <2>1, <2>2, <2>3, WatchedDevice
  <2>4. CASE UNCHANGED dev
    BY <2>1, <2>4 DEF HandlesWatched, At, dev
  <2>5. CASE RemoveDevice
    <3>1. epts' = epts /\ thr' = Woken("rx") /\ haveHandles' = haveHandles
      BY <2>5 DEF RemoveDevice, ResetBegin, StopSignal, SignalAvail
    <3>2. /\ thr'["rx"].chan = thr["rx"].chan /\ PcLike(thr'["rx"].pc, thr["rx"].pc)
          /\ PcLike(thr'["tx"].pc, thr["tx"].pc)
      BY <2>2, <3>1, WokenFacts DEF Queues
    <3>3. QED BY <2>1, <2>2, <3>1, <3>2, WatchedKept DEF PcLike
  <2>6. QED BY <2>1, <2>3, <2>4, <2>5 DEF Next, vars
<1>3. QED BY <1>1, <1>2, LinkInvHolds, PTL DEF Spec
=============================================================================
