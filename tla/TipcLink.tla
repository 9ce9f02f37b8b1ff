------------------------------ MODULE TipcLink ------------------------------
(* The secure IPC device and the Linux driver, joined by the two rings.     *)
EXTENDS TipcDev, LinuxTipc

vars == <<rings, dev, ns>>

Init == RingsInit /\ DevInit /\ NsInit

(* tipc_virtio_remove once it is off line, and the call it makes.           *)
RemoveDevice == OffLine /\ ResetBegin

Next ==
  \/ DevNext /\ UNCHANGED ns
  \/ NsNext /\ UNCHANGED dev
  \/ RemoveDevice

Spec == Init /\ [][Next]_vars

----------------------------------------------------------------------------
(* Properties.                                                              *)

InSend == {"send", "swait", "swoken"}
Pcs == [rx |-> {"wait", "get", "list", "signal", "exited"} \cup InSend,
        tx |-> {"idle", "list", "event", "msgs", "exited"} \cup InSend]

TypeOK ==
  /\ Len(toSec) <= RxSize /\ room + Len(toNs) = TxSize
  /\ \A t \in Threads : thr[t].pc \in Pcs[t]
  /\ \A s \in Slots : epts[s].remote \in 0..Cardinality(Fds)
                      /\ epts[s].chan \in Conns \cup {0}
  /\ \A c \in Conns : chan[c].refs \in 0..3 /\ chan[c].cookie \in Slots \cup {0}

Count(b) == IF b THEN 1 ELSE 0

(* Every handle has exactly the references that the endpoint table, the     *)
(* handle list and the tx thread hold; it leads to its endpoint and the     *)
(* endpoint to it, whichever of hang-up, disconnect request and reset comes *)
(* first; nothing leads to a freed one.                                     *)
EndpointsExact ==
  /\ TypeOK
  /\ \A c \in Conns :
       LET owners == {s \in Slots : epts[s].chan = c}
           inList == \E s \in owners : At("rx", "list") /\ thr["rx"].chan = s
       IN /\ Cardinality(owners) <= 1
          /\ chan[c].refs = Cardinality(owners) + Count(chan[c].listed)
                            + Count(thr["tx"].chan = c)
          /\ (chan[c].st = "free") <=> (chan[c].refs = 0)
          /\ chan[c].listed <=> (owners # {} /\ ~inList)
          /\ chan[c].listed => chan[c].cookie \in owners
          /\ ~chan[c].listed => chan[c].cookie = 0

(* The tx thread does not rest while there are handles to wait for.         *)
HandlesWatched ==
  (\E c \in Conns : chan[c].listed) /\ At("tx", "idle")
    => haveHandles \/ At("rx", "signal")

In(seq, types, k) == \E i \in 1..Len(seq) : seq[i].type \in types /\ seq[i].id = k
Sending(t, types, k) ==
  thr[t].pc \in InSend
  /\ thr[t].out.type \in types /\ thr[t].out.id = k

Answers == {"accept", "refuse", "disc"}

(* A file that is connecting will hear of it: its request, the channel made *)
(* for it or an answer is on its way, also when the service is not there,   *)
(* hangs up at once or the endpoint table is full.                          *)
RequestsAnswered ==
  \A f \in Fds :
    fd[f].state = "CONNECTING" =>
      LET k == fd[f].id
      IN \/ In(toSec, {"conn"}, k)
         \/ chan[k].refs > 0 /\ chan[k].st = "connecting"
         \/ \E s \in Slots : epts[s].chan = k /\ EventOf(chan[k]) # "none"
         \/ At("tx", "event") /\ thr["tx"].chan = k
         \/ \E t \in Threads : Sending(t, Answers, k)
         \/ In(toNs, Answers, k)

DiscOnWay(k) == In(toSec, {"disc"}, k)
HupOnWay(k) == In(toNs, {"disc"}, k) \/ Sending("tx", {"disc"}, k)

(* The two ends agree: a connected file has its endpoint or is about to     *)
(* hear that it is gone, an endpoint has its file or is about to hear that. *)
(* (Unless the driver has mixed up two uses of an address, see clean.)      *)
EndsAgree ==
  vds = "online" /\ clean =>
    /\ \A f \in Fds :
         fd[f].state = "CONNECTED" =>
           \/ epts[fd[f].remote] = [remote |-> fd[f].local, chan |-> fd[f].id]
           \/ HupOnWay(fd[f].id)
    /\ \A s \in Slots :
         epts[s] # NoEpt =>
           \/ DiscOnWay(epts[s].chan)
           \/ \E f \in Fds : Linked(f) /\ fd[f].id = epts[s].chan
                             /\ fd[f].local = epts[s].remote

(* What a service sends reaches the file that made the connection, and what *)
(* is written to a file reaches the service it was connected to.            *)
RightDelivery ==
  clean =>
    /\ \A f \in Fds : HandleReply("data") /\ For(f) /\ Accepts(f)
                       => Reply.id = fd[f].id
    /\ \A s \in Slots : toSec # <<>> /\ Head(toSec).type = "data"
                         /\ Takes(s, Head(toSec)) => epts[s].chan = Head(toSec).id

(* Reset gives up on a thread only if it sleeps for a transmit buffer: in   *)
(* the two other places where a thread sleeps it is woken.                  *)
StuckOnlyForBuffers ==
  \A t \in Joining : Asleep(t) => At(t, "swait")

----------------------------------------------------------------------------
(* The inductive invariant.  Its first parts say what is where, the others  *)
(* in which order the messages on the rings can be.                         *)

Addrs == 1..Cardinality(Fds)
MsgsOf(types) == [type : types, addr : Addrs, slot : Slots \cup {0}, id : Conns]
SecMsgs == MsgsOf({"conn", "data", "disc"})
NsMsgs == MsgsOf({"accept", "refuse", "data", "disc"})

Files == [local : Addrs \cup {0}, remote : Slots \cup {0}, id : Conns \cup {0},
          state : {"CLOSED", "DISCONNECTED", "CONNECTING", "CONNECTED", "STALE"},
          dn : {"DISCONNECTED", "CONNECTED", "STALE"},
          comp : Nat, call : BOOLEAN]
Channels == [st : {"free", "connecting", "connected", "closed"}, ready : BOOLEAN,
             msgs : Nat, cookie : Slots \cup {0}, listed : BOOLEAN, refs : Nat]
Endpoints == {NoEpt} \cup [remote : Addrs, chan : Conns]

InTypes ==
  /\ toSec \in Seq(SecMsgs) /\ Len(toSec) <= RxSize
  /\ toNs \in Seq(NsMsgs \cup {Msg("online", 0, 0, 0)})
  /\ room \in Nat /\ room + Len(toNs) = TxSize
  /\ event \in [Queues -> BOOLEAN] /\ stop \in [Threads -> BOOLEAN]
  /\ haveHandles \in BOOLEAN /\ clean \in BOOLEAN
  /\ reset \in {"no", "rxjoin", "txjoin", "done", "panic"}
  /\ vds \in {"boot", "online", "removing", "dead"}
  /\ conns \in 0..MaxConn
  /\ fd \in [Fds -> Files]
  /\ epts \in [Slots -> Endpoints]
  /\ chan \in [Conns -> Channels]

(* Where a thread is, what it works on and what it is about to send.        *)
Speaks(t) == thr[t].pc \in InSend \cup {"msgs"}
InThreads ==
  /\ thr \in [Threads -> [pc : Pcs["rx"] \cup Pcs["tx"], chan : Conns \cup Slots \cup {0},
                          ev : {"none", "ready", "msg", "hup"},
                          out : NsMsgs \cup {NoMsg}]]
  /\ \A t \in Threads : thr[t].pc \in Pcs[t] /\ (Speaks(t) => thr[t].out \in NsMsgs)
  /\ At("rx", "list") => thr["rx"].chan \in Slots /\ epts[thr["rx"].chan] # NoEpt
  /\ Speaks("rx") => thr["rx"].out.type = "refuse"
  /\ IF At("tx", "event") \/ Speaks("tx") THEN thr["tx"].chan \in Conns
     ELSE thr["tx"].chan = 0
  /\ Speaks("tx") => thr["tx"].out.id = thr["tx"].chan
  /\ Speaks("tx") => (thr["tx"].ev = "msg" <=> thr["tx"].out.type = "data")
  /\ Speaks("tx") => thr["tx"].out.type # "refuse"
  /\ At("tx", "msgs") => thr["tx"].ev = "msg"

(* The endpoint table, the handles and their references.                    *)
Owned(c) == \E s \in Slots : epts[s].chan = c
InList(c) == At("rx", "list") /\ epts[thr["rx"].chan].chan = c
Handle(c) ==
  /\ chan[c].refs = Count(Owned(c)) + Count(chan[c].listed) + Count(thr["tx"].chan = c)
  /\ chan[c].refs = 0 <=> chan[c].st = "free"
  /\ chan[c].refs = 0 => chan[c] = NoChan
  /\ chan[c].listed <=> Owned(c) /\ ~InList(c)
  /\ chan[c].listed => chan[c].cookie # 0 /\ epts[chan[c].cookie].chan = c
  /\ ~chan[c].listed => chan[c].cookie = 0
  /\ InList(c) => thr["tx"].chan # c
InHandles ==
  /\ \A s, u \in Slots : epts[s].chan = epts[u].chan /\ epts[s] # NoEpt => s = u
  /\ \A c \in Conns : Handle(c)

(* The files, and how far removal has come.                                 *)
Gone == vds \in {"removing", "dead"}
InFiles ==
  /\ \A f, g \in Fds : fd[f].local = fd[g].local /\ fd[f].local # 0 => f = g
  /\ \A f \in Fds : fd[f].local = 0 <=> fd[f].state = "CLOSED"
  /\ \A f \in Fds : Linked(f) => fd[f].id \in 1..conns
  /\ \A f, g \in Fds : Linked(f) /\ Linked(g) /\ fd[f].id = fd[g].id => f = g
  /\ \A f \in Fds : fd[f].dn = "CONNECTED" => fd[f].state = "CONNECTED"
  /\ vds = "boot" => \A f \in Fds : fd[f].state = "CLOSED"
  /\ Gone => \A f \in Fds : ~Linked(f)

InReset ==
  /\ reset # "no" => vds = "dead"
  /\ stop["tx"] => reset # "no"
  /\ reset = "rxjoin" => stop["rx"] /\ ~At("rx", "wait")
  /\ reset = "txjoin" => stop["tx"] /\ At("rx", "exited")
                         /\ (At("tx", "idle") => haveHandles)

(* A request keeps the address it was made from, wherever it is mentioned.  *)
Carries(k, a) ==
  \/ \E i \in 1..Len(toSec) : toSec[i].id = k /\ toSec[i].addr = a
  \/ \E i \in 1..Len(toNs) : toNs[i].id = k /\ toNs[i].addr = a
  \/ \E t \in Threads : Speaks(t) /\ thr[t].out.id = k /\ thr[t].out.addr = a
  \/ \E s \in Slots : epts[s].chan = k /\ epts[s].remote = a
  \/ \E f \in Fds : Linked(f) /\ fd[f].id = k /\ fd[f].local = a
Addressed ==
  \A k \in Conns : \A a, b \in Addrs :
    Carries(k, a) => k <= conns /\ (Carries(k, b) => a = b)

(* A request is handled once, before anything else happens to it.           *)
Heard(k) == In(toNs, {"accept", "refuse", "data", "disc"}, k)
            \/ \E t \in Threads : Speaks(t) /\ thr[t].out.id = k
InRequests ==
  /\ \A k \in Conns : k > conns \/ In(toSec, {"conn"}, k)
                         => chan[k] = NoChan /\ ~Heard(k)
  /\ \A i, j \in 1..Len(toSec) :
       toSec[i].type = "conn" /\ toSec[j].type = "conn" /\ toSec[i].id = toSec[j].id
         => i = j
  /\ \A k \in Conns :
       In(toNs, {"refuse", "disc"}, k)
       \/ (\E t \in Threads : Sending(t, {"refuse", "disc"}, k)) => ~Owned(k)

(* Who waits for an answer will get one.                                    *)
Waiting(k) ==
  \/ In(toSec, {"conn"}, k)
  \/ Owned(k) /\ (chan[k].st # "connected" \/ chan[k].ready
                   \/ (At("tx", "event") /\ thr["tx"].chan = k /\ thr["tx"].ev = "ready"))
  \/ \E t \in Threads : Sending(t, Answers, k)
  \/ In(toNs, Answers, k)
InAnswers == \A f \in Fds : \A k \in Conns :
  fd[f].state = "CONNECTING" /\ fd[f].id = k => Waiting(k)

(* A disconnect request comes before the next request from its address.     *)
ConnAt(i, k) == toSec[i].type = "conn" /\ toSec[i].id = k
DiscsFirst ==
  /\ \A i \in 1..Len(toSec) : \A f \in Fds :
       toSec[i].type = "disc" /\ Linked(f) /\ fd[f].local = toSec[i].addr
         => \E j \in i + 1..Len(toSec) : ConnAt(j, fd[f].id)
  /\ \A i, j \in 1..Len(toSec) :
       i < j /\ toSec[i].type = "disc" /\ toSec[j].type = "disc"
       /\ toSec[i].addr = toSec[j].addr
         => \E l \in i + 1..j - 1 : ConnAt(l, toSec[j].id)

(* While nothing was mixed up: both ends of a connection know of it.        *)
LinkedTo(k) == \E f \in Fds : Linked(f) /\ fd[f].id = k
EptIs(s, a, k) == s \in Slots /\ epts[s] = [remote |-> a, chan |-> k]
DeviceKnows ==
  /\ \A s \in Slots : \A k \in Conns :
       epts[s].chan = k => DiscOnWay(k) \/ LinkedTo(k)
  /\ \A i \in 1..Len(toSec) : \A k \in Conns : ConnAt(i, k) =>
       \/ LinkedTo(k)
       \/ \E j \in i + 1..Len(toSec) : toSec[j].type = "disc" /\ toSec[j].id = k
(* Some file, or the answer to it, says that slot s of the device is its.   *)
Accepted(m, a, s, k) ==
  m.type = "accept" /\ m.addr = a /\ m.slot = s /\ m.id = k /\ LinkedTo(k)
Claimed(a, s, k) ==
  \/ \E f \in Fds : /\ fd[f].state = "CONNECTED" /\ fd[f].local = a
                    /\ fd[f].remote = s /\ fd[f].id = k
  \/ \E i \in 1..Len(toNs) : Accepted(toNs[i], a, s, k)
  \/ thr["tx"].pc \in InSend /\ Accepted(thr["tx"].out, a, s, k)
DriverKnows ==
  /\ \A a \in Addrs : \A s \in Slots \cup {0} : \A k \in Conns :
       Claimed(a, s, k) => EptIs(s, a, k) \/ HupOnWay(k)
  /\ \A f \in Fds : \A k \in Conns :
       fd[f].state = "CONNECTED" /\ fd[f].id = k => ~In(toSec, {"conn"}, k)

(* And messages belong to the connection that is there when they arrive.    *)
DataIn(seq, i, a) == seq[i].type = "data" /\ seq[i].addr = a
ToFile ==
  \A f \in Fds : \A k \in Conns : \A a \in Addrs :
    Linked(f) /\ fd[f].id = k /\ fd[f].local = a =>
      /\ (fd[f].state = "CONNECTED" \/ In(toNs, {"accept"}, k))
         /\ Speaks("tx") /\ thr["tx"].out.type = "data" /\ thr["tx"].out.addr = a
           => thr["tx"].out.id = k
      /\ \A i, j \in 1..Len(toNs) :
           toNs[i].type = "accept" /\ toNs[i].id = k /\ i < j /\ DataIn(toNs, j, a)
             => toNs[j].id = k
      /\ \A i \in 1..Len(toNs) :
           fd[f].state = "CONNECTED" /\ DataIn(toNs, i, a) => toNs[i].id = k
ToService ==
  /\ \A i \in 1..Len(toSec) : \A s \in Slots : \A k \in Conns : \A a \in Addrs :
       epts[s].remote = a /\ epts[s].chan = k /\ DataIn(toSec, i, a) => toSec[i].id = k
  /\ \A i, j \in 1..Len(toSec) :
       i < j /\ toSec[i].type = "conn" /\ toSec[j].type = "data"
         => toSec[i].addr # toSec[j].addr

DevInv == InTypes /\ InThreads /\ InHandles /\ InFiles /\ InReset
OrderInv == Addressed /\ InRequests /\ InAnswers /\ DiscsFirst
CleanInv == clean /\ ~Gone => DeviceKnows /\ DriverKnows /\ ToFile /\ ToService
(* What the driver has left on the ring when it goes is still in order.     *)
GoneInv == clean /\ Gone => ToService
LinkInv == DevInv /\ OrderInv /\ CleanInv /\ GoneInv
=============================================================================
