---------------------------- MODULE IpcConnProofs ----------------------------
(***************************************************************************)
(* Theorems about IpcConn, for every set of tasks, ports, channels and     *)
(* names: type correctness, the invariant of the connection graph, and the *)
(* invariant of the references.                                            *)
(***************************************************************************)
EXTENDS IpcConn, TLAPS

-----------------------------------------------------------------------------
(* Sequences.                                                              *)

(* A function on 1..n is a sequence.                                       *)
LEMMA FunctionIsSeq ==
  ASSUME NEW S, NEW n \in Nat, NEW f \in [1..n -> S]
  PROVE  f \in Seq(S) /\ Len(f) = n
OBVIOUS

(* Taking an element out of a list leaves a list.                          *)
LEMMA WithoutType ==
  ASSUME NEW S, NEW s \in Seq(S), NEW x
  PROVE  Without(s, x) \in Seq(S)
<1> DEFINE k == IndexOf(s, x)
           f == [i \in 1..(Len(s) - 1) |-> IF i < k THEN s[i] ELSE s[i + 1]]
<1> HIDE DEF k
<1>1. CASE Len(s) = 0
  <2>1. f = << >>
    BY <1>1
  <2> QED BY <2>1 DEF Without, k
<1>2. CASE Len(s) # 0
  <2>1. Len(s) - 1 \in Nat
    BY <1>2
  <2>2. f \in [1..(Len(s) - 1) -> S]
    BY <2>1
  <2> QED BY <2>1, <2>2, FunctionIsSeq DEF Without, k
<1> QED BY <1>1, <1>2

-----------------------------------------------------------------------------
(* Channel records.                                                        *)

LEMMA FreeTypes == FreeChan \in ChanType /\ FreePort \in PortType /\ Idle \in OpType
<1>1. FreeChan \in ChanType
  BY IpcConnAssumption DEF FreeChan, ChanType, ChanFields, ChanStates, RefKinds
<1>2. FreePort \in PortType
  BY DEF FreePort, PortType
<1>3. Idle \in OpType
  BY DEF Idle, Call, OpType, OpFields, OpKinds
<1> QED BY <1>1, <1>2, <1>3

LEMMA DelRefType ==
  ASSUME NEW r \in ChanType, NEW ref
  PROVE  DelRef(r, ref) \in ChanType
BY FreeTypes DEF DelRef, ChanType, ChanFields

LEMMA DisconnectType ==
  ASSUME NEW r \in ChanType
  PROVE  Disconnect(r) \in ChanType
BY DEF Disconnect, ChanType, ChanFields, ChanStates, RefKinds

LEMMA ShutTypes ==
  ASSUME NEW r \in ChanType
  PROVE  ShutEnd(r) \in ChanType /\ ShutPeer(r) \in ChanType
<1>1. Disconnect(r) \in ChanType
  BY DisconnectType
<1>2. ShutEnd(r) \in ChanType
  BY <1>1 DEF ShutEnd, ChanType, ChanFields
<1>3. ShutPeer(r) \in ChanType
  BY <1>1, DelRefType DEF ShutPeer
<1> QED BY <1>2, <1>3

LEMMA ShutdownType ==
  ASSUME NEW C \in [Chans -> ChanType], NEW S
  PROVE  Shutdown(C, S) \in [Chans -> ChanType]
BY ShutTypes DEF Shutdown

LEMMA AttachTypes ==
  ASSUME NEW r \in ChanType, NEW c \in Chans, NEW t \in Tasks \cup {NULL},
         NEW refs \in SUBSET RefKinds
  PROVE  /\ ClientEnd(r, c, refs) \in ChanType
         /\ ServerEnd(c, t) \in ChanType
BY FreeTypes DEF ClientEnd, ServerEnd, FreeChan, ChanType, ChanFields, ChanStates, RefKinds

LEMMA AcceptTypes ==
  ASSUME NEW r \in ChanType
  PROVE  AcceptServer(r) \in ChanType /\ AcceptClient(r) \in ChanType
BY DEF AcceptServer, AcceptClient, ChanType, ChanFields, ChanStates, RefKinds

LEMMA TearDownType ==
  ASSUME NEW C \in [Chans -> ChanType], NEW S
  PROVE  TearDown(C, S) \in [Chans -> ChanType]
<1>1. Shutdown(C, S) \in [Chans -> ChanType]
  BY ShutdownType
<1>2. ASSUME NEW D \in [Chans -> ChanType]
      PROVE  DropNodes(D, S) \in [Chans -> ChanType]
  BY DelRefType DEF DropNodes
<1> QED BY <1>1, <1>2 DEF TearDown

-----------------------------------------------------------------------------
(* Ports and calls.                                                        *)

LEMMA PendingTypes ==
  ASSUME NEW r \in PortType, NEW s \in Chans
  PROVE  /\ QueuePending(r, s) \in PortType
         /\ r.pending # << >> => TakePending(r) \in PortType
<1>1. r.pending \in Seq(Chans) /\ r.refcnt \in Int
  BY DEF PortType
<1>2. ASSUME NEW u \in Seq(Chans), NEW n \in Int
      PROVE  [r EXCEPT !.pending = u, !.refcnt = n] \in PortType
  BY DEF PortType
<1>3. Append(r.pending, s) \in Seq(Chans) /\ r.refcnt + 1 \in Int
  BY <1>1
<1>4. r.pending # << >> => Tail(r.pending) \in Seq(Chans) /\ r.refcnt - 1 \in Int
  BY <1>1
<1>5. QueuePending(r, s) \in PortType
  BY <1>2, <1>3 DEF QueuePending
<1>6. r.pending # << >> => TakePending(r) \in PortType
  BY <1>2, <1>4 DEF TakePending
<1> QED BY <1>5, <1>6

LEMMA UnrefPortType ==
  ASSUME NEW r \in PortType
  PROVE  UnrefPort(r) \in PortType
<1>1. [r EXCEPT !.refcnt = @ - 1] \in PortType
  BY DEF PortType
<1> QED BY <1>1, FreeTypes DEF UnrefPort

LEMMA ClosePortType ==
  ASSUME NEW r \in PortType
  PROVE  ClosePort(r) \in PortType
<1> DEFINE n == r.refcnt - 1 - (IF r.listed THEN 1 ELSE 0) - Len(r.pending)
<1>1. n \in Int
  <2>1. r.refcnt \in Int /\ Len(r.pending) \in Nat
    BY DEF PortType
  <2> QED BY <2>1
<1>2. << >> \in Seq(Chans)
  OBVIOUS
<1>3. ASSUME NEW u \in Seq(Chans), NEW i \in Int
      PROVE  [r EXCEPT !.state = "CLOSING", !.pending = u, !.listed = FALSE,
                       !.refcnt = i] \in PortType
  BY DEF PortType
<1> QED BY <1>1, <1>2, <1>3 DEF ClosePort

LEMMA NewPortType ==
  ASSUME NEW t \in Tasks, NEW q \in Paths, NEW allow \in SUBSET Access,
         NEW servers \in Seq(Chans)
  PROVE  NewPort(t, q, allow, servers) \in PortType
BY DEF NewPort, PortType

LEMMA CallType ==
  ASSUME NEW h, NEW ev \in SUBSET Events
  PROVE  /\ h \in Chans => \A k \in OpKinds : Call(k, h, ev) \in OpType
         /\ h \in Handles => Call("decref", h, ev) \in OpType
BY DEF Call, OpType, OpFields, OpKinds, Handles

LEMMA PollType == ASSUME NEW c PROVE Poll(c) \in SUBSET Events
BY DEF Poll

LEMMA IndexOfType ==
  ASSUME NEW S, NEW s \in Seq(S), NEW x \in Elems(s)
  PROVE  IndexOf(s, x) \in 1..Len(s) /\ s[IndexOf(s, x)] = x
BY DEF Elems, IndexOf

-----------------------------------------------------------------------------
(* Type correctness, action by action.                                     *)

LEMMA ChanShutdownType ==
  ASSUME TypeOK, NEW c \in Chans, chan_shutdown(c)
  PROVE  /\ chan' \in [Chans -> ChanType]
         /\ port' = port
         /\ waiting' \in [Paths -> Seq(Chans)]
<1>1. chan' \in [Chans -> ChanType] /\ port' = port
  BY ShutdownType DEF TypeOK, chan_shutdown
<1>2. waiting' \in [Paths -> Seq(Chans)]
  <2>1. \A q \in Paths : Without(waiting[q], c) \in Seq(Chans)
    BY WithoutType DEF TypeOK
  <2> QED BY <2>1 DEF TypeOK, chan_shutdown
<1> QED BY <1>1, <1>2

LEMMA PortCreateType ==
  ASSUME TypeOK, NEW t \in Tasks, NEW p \in Ports, NEW q \in Paths,
         NEW allow \in SUBSET Access, sys_port_create(t, p, q, allow)
  PROVE  TypeOK'
<1>1. CASE PublishAssertFails(q)
  BY <1>1 DEF PublishAssertFails, TypeOK
<1>2. CASE PublishAttach(p, t, q, allow)
  <2> DEFINE w == waiting[q]
  <2>1. PICK servers \in [1..Len(w) -> Unused] :
          /\ chan' = AttachAll(t, w, servers)
          /\ port' = [port EXCEPT ![p] = NewPort(t, q, allow, servers)]
    BY <1>2 DEF PublishAttach
  <2>2. w \in Seq(Chans) /\ Len(w) \in Nat
    BY DEF TypeOK
  <2>3. servers \in Seq(Chans) /\ Len(servers) = Len(w)
    <3>1. servers \in [1..Len(w) -> Chans]
      BY DEF Unused
    <3> QED BY <2>2, <3>1, FunctionIsSeq
  <2>4. port' \in [Ports -> PortType]
    BY <2>1, <2>3, NewPortType DEF TypeOK
  <2>5. ASSUME NEW x \in Chans
        PROVE  /\ x \in Elems(w) => servers[IndexOf(w, x)] \in Chans
               /\ x \in Elems(servers) => w[IndexOf(servers, x)] \in Chans
    BY <2>2, <2>3, IndexOfType
  <2>6. chan' \in [Chans -> ChanType]
    BY <2>1, <2>5, AttachTypes DEF TypeOK, AttachAll, RefKinds
  <2>7. waiting' \in [Paths -> Seq(Chans)] /\ table' \in [Tasks -> SUBSET Handles]
    BY <1>2 DEF PublishAttach, TypeOK, Handles
  <2> QED BY <1>2, <2>4, <2>6, <2>7 DEF TypeOK, PublishAttach
<1> QED BY <1>1, <1>2 DEF sys_port_create

LEMMA AcceptType ==
  ASSUME TypeOK, NEW t \in Tasks, NEW p \in Ports, sys_accept(t, p)
  PROVE  TypeOK'
<1>1. port[p] \in PortType /\ port[p].pending # << >>
  BY DEF sys_accept, TypeOK
<1> DEFINE s == Head(port[p].pending)
<1>2. s \in Chans
  BY <1>1 DEF PortType
<1>3. port' \in [Ports -> PortType]
  BY <1>1, <1>2, PendingTypes DEF sys_accept, TypeOK
<1>4. CASE Accept(t, s)
  <2>1. chan' \in [Chans -> ChanType]
    BY <1>4, <1>2, AcceptTypes DEF Accept, TypeOK
  <2>2. s \in Handles /\ Call("close", s, {}) \in OpType
    BY <1>2, CallType DEF Handles, OpKinds
  <2>3. table' \in [Tasks -> SUBSET Handles]
    BY <1>4, <2>2 DEF Accept, TypeOK
  <2>4. op' \in [Tasks -> OpType]
    BY <1>4, <2>2 DEF Accept, TypeOK
  <2> QED BY <1>3, <2>1, <2>3, <2>4 DEF TypeOK, sys_accept
<1>5. CASE DropPending(s)
  <2> DEFINE C == Shutdown(chan, {s})
  <2>1. C \in [Chans -> ChanType]
    BY ShutdownType DEF TypeOK
  <2>2. DelRef(C[s], "node") \in ChanType
    BY <1>2, <2>1, DelRefType
  <2>3. chan' \in [Chans -> ChanType]
    <3> HIDE DEF C
    <3>1. chan' = [C EXCEPT ![s] = DelRef(C[s], "node")]
      BY <1>5 DEF DropPending, C
    <3> QED BY <2>1, <2>2, <3>1
  <2> QED BY <1>3, <1>5, <2>3 DEF TypeOK, sys_accept, DropPending
<1> QED BY <1>4, <1>5 DEF sys_accept

LEMMA ConnectType ==
  ASSUME TypeOK, NEW t \in Tasks, NEW c \in Chans, NEW q \in Paths,
         NEW wait \in BOOLEAN, NEW sync \in BOOLEAN,
         sys_connect(t, c, q, wait, sync)
  PROVE  TypeOK'
<1>1. c \in Handles /\ Call("connect", c, {}) \in OpType
                    /\ Call("close", c, {}) \in OpType
  BY CallType DEF Handles, OpKinds
<1>2. table' \in [Tasks -> SUBSET Handles]
  BY <1>1 DEF sys_connect, InstallOrWait, TypeOK
<1>3. op' \in [Tasks -> OpType]
  BY <1>1 DEF sys_connect, InstallOrWait, TypeOK
<1>4. [FreeChan EXCEPT !.uuid = t] \in ChanType
  BY FreeTypes DEF ChanType, ChanFields
<1>5. CASE \E p \in Published(q) : ConnectToPort(t, c, p)
  <2>1. PICK p \in Ports, s \in Chans :
          /\ chan' = [chan EXCEPT
               ![c] = ClientEnd([FreeChan EXCEPT !.uuid = t], s, {"handle", "peer"}),
               ![s] = ServerEnd(c, port[p].uuid)]
          /\ port' = [port EXCEPT ![p] = QueuePending(@, s)]
          /\ waiting' = waiting
    BY <1>5 DEF ConnectToPort, Published, Unused
  <2>2. port[p].uuid \in Tasks \cup {NULL}
    BY DEF TypeOK, PortType
  <2>3. chan' \in [Chans -> ChanType]
    BY <1>4, <2>1, <2>2, AttachTypes DEF TypeOK, RefKinds
  <2>4. port' \in [Ports -> PortType]
    BY <2>1, PendingTypes DEF TypeOK
  <2> QED BY <1>2, <1>3, <2>1, <2>3, <2>4 DEF TypeOK, sys_connect
<1>6. CASE ConnectWaitForPort(t, c, q)
  <2>1. chan' \in [Chans -> ChanType]
    <3> DEFINE r == [FreeChan EXCEPT !.state = "WAITING_FOR_PORT", !.uuid = t,
                                     !.path = q, !.refs = {"handle", "node"}]
    <3>1. r \in ChanType
      BY FreeTypes DEF ChanType, ChanFields, ChanStates, RefKinds
    <3>2. chan' = [chan EXCEPT ![c] = r]
      BY <1>6 DEF ConnectWaitForPort
    <3> HIDE DEF r
    <3> QED BY <3>1, <3>2 DEF TypeOK
  <2>2. waiting' \in [Paths -> Seq(Chans)] /\ port' = port
    BY <1>6 DEF ConnectWaitForPort, TypeOK
  <2> QED BY <1>2, <1>3, <2>1, <2>2 DEF TypeOK, sys_connect
<1> QED BY <1>5, <1>6 DEF sys_connect

LEMMA WaitType ==
  ASSUME TypeOK, NEW t \in Tasks
  PROVE  /\ ConnectPoll(t) => TypeOK'
         /\ \A c \in Chans : WaitPoll(t, c) => TypeOK'
         /\ WaitFinish(t) => TypeOK'
         /\ ConnectFinish(t) => TypeOK'
<1>1. op[t] \in OpType
  BY DEF TypeOK
<1>2. ASSUME NEW c \in Chans, NEW ev PROVE Finalize(c, ev) \in [Chans -> ChanType]
  <2>1. [chan[c] EXCEPT !.ready = FALSE] \in ChanType
    BY DEF TypeOK, ChanType, ChanFields
  <2> QED BY <2>1 DEF Finalize, TypeOK
<1>3. ConnectPoll(t) => TypeOK'
  <2> SUFFICES ASSUME ConnectPoll(t) PROVE TypeOK'
    OBVIOUS
  <2>1. op[t].h \in Chans
    BY <1>1 DEF ConnectPoll, OpType
  <2>2. Call("connected", op[t].h, Poll(op[t].h)) \in OpType
    BY <2>1, CallType, PollType DEF OpKinds
  <2> QED BY <2>2 DEF ConnectPoll, TypeOK
<1>4. ASSUME NEW c \in Chans, WaitPoll(t, c) PROVE TypeOK'
  <2>1. Call("polled", c, Poll(c)) \in OpType
    BY CallType, PollType DEF OpKinds
  <2> QED BY <1>4, <2>1 DEF WaitPoll, TypeOK
<1>5. WaitFinish(t) => TypeOK'
  <2> SUFFICES ASSUME WaitFinish(t) PROVE TypeOK'
    OBVIOUS
  <2>1. op[t].h \in Chans
    BY <1>1 DEF WaitFinish, OpType
  <2> QED BY <1>2, <2>1, FreeTypes DEF WaitFinish, TypeOK
<1>6. ConnectFinish(t) => TypeOK'
  <2> SUFFICES ASSUME ConnectFinish(t) PROVE TypeOK'
    OBVIOUS
  <2>1. op[t].h \in Chans
    BY <1>1 DEF ConnectFinish, OpType
  <2>2. Call("close", op[t].h, {}) \in OpType
    BY <2>1, CallType DEF OpKinds
  <2>3. chan' \in [Chans -> ChanType]
    BY <1>2, <2>1 DEF ConnectFinish
  <2>4. table' \in [Tasks -> SUBSET Handles]
    BY <2>1 DEF ConnectFinish, TypeOK, Handles
  <2>5. op' \in [Tasks -> OpType]
    BY <2>2, FreeTypes DEF ConnectFinish, TypeOK
  <2> QED BY <2>3, <2>4, <2>5 DEF ConnectFinish, TypeOK
<1> QED BY <1>3, <1>4, <1>5, <1>6

LEMMA MsgType ==
  ASSUME TypeOK, NEW t \in Tasks, NEW c \in Chans
  PROVE  /\ sys_send_msg(t, c) => TypeOK'
         /\ sys_get_msg(t, c) => TypeOK'
         /\ sys_put_msg(t, c) => TypeOK'
         /\ UseNullQueue(t, c) => TypeOK'
<1> USE IpcConnAssumption
<1>1. ASSUME sys_send_msg(t, c) PROVE TypeOK'
  <2> DEFINE k == chan[c].peer
  <2>1. CASE k \in Chans
    <3>1. chan[k] \in ChanType /\ chan[k].filled + chan[k].read < NumBufs
      BY <1>1, <2>1 DEF sys_send_msg, HasFree, TypeOK
    <3>2. [chan[k] EXCEPT !.filled = @ + 1] \in ChanType
      BY <3>1 DEF ChanType, ChanFields
    <3> QED BY <1>1, <2>1, <3>2 DEF sys_send_msg, TypeOK
  <2>2. CASE k \notin Chans
    BY <1>1, <2>2 DEF sys_send_msg, TypeOK
  <2> QED BY <2>1, <2>2
<1>2. ASSUME sys_get_msg(t, c) PROVE TypeOK'
  <2>1. chan[c] \in ChanType /\ chan[c].filled > 0
    BY <1>2 DEF sys_get_msg, TypeOK
  <2>2. [chan[c] EXCEPT !.filled = @ - 1, !.read = @ + 1] \in ChanType
    <3>1. ASSUME NEW r \in ChanType, NEW i \in 0..NumBufs, NEW j \in 0..NumBufs,
                 i + j <= NumBufs
          PROVE  [r EXCEPT !.filled = i, !.read = j] \in ChanType
      BY <3>1 DEF ChanType, ChanFields
    <3>2. /\ chan[c].filled - 1 \in 0..NumBufs /\ chan[c].read + 1 \in 0..NumBufs
          /\ (chan[c].filled - 1) + (chan[c].read + 1) <= NumBufs
      BY <2>1 DEF ChanType, ChanFields
    <3> QED BY <2>1, <3>1, <3>2
  <2>3. chan' = [chan EXCEPT ![c] = [chan[c] EXCEPT !.filled = @ - 1, !.read = @ + 1]]
    BY <1>2, <2>1 DEF sys_get_msg, TypeOK, ChanType, ChanFields
  <2> QED BY <1>2, <2>2, <2>3 DEF sys_get_msg, TypeOK
<1>3. ASSUME sys_put_msg(t, c) PROVE TypeOK'
  <2>1. chan[c] \in ChanType /\ chan[c].read > 0
    BY <1>3 DEF sys_put_msg, TypeOK
  <2>2. [chan[c] EXCEPT !.read = @ - 1] \in ChanType
    BY <2>1 DEF ChanType, ChanFields
  <2> QED BY <1>3, <2>2 DEF sys_put_msg, TypeOK
<1>4. ASSUME UseNullQueue(t, c) PROVE TypeOK'
  BY <1>4 DEF UseNullQueue, TypeOK
<1> QED BY <1>1, <1>2, <1>3, <1>4

LEMMA CloseType ==
  ASSUME TypeOK, NEW t \in Tasks
  PROVE  /\ \A h \in Handles : sys_close(t, h) => TypeOK'
         /\ CloseChan(t) => TypeOK'
         /\ handle_decref(t) => TypeOK'
<1>1. op[t] \in OpType
  BY DEF TypeOK
<1>2. ASSUME NEW h \in Handles, sys_close(t, h) PROVE TypeOK'
  <2>1. Call("decref", h, {}) \in OpType
    BY CallType
  <2>2. op' \in [Tasks -> OpType] /\ table' \in [Tasks -> SUBSET Handles]
    BY <1>2, <2>1 DEF sys_close, TypeOK
  <2>3. CASE h \in Chans /\ chan_shutdown(h)
    BY <1>2, <2>2, <2>3, ChanShutdownType DEF sys_close, TypeOK
  <2>4. CASE h \in Ports /\ port_shutdown(h)
    <3>1. chan' \in [Chans -> ChanType]
      BY <2>4, TearDownType DEF port_shutdown, TypeOK
    <3>2. ClosePort(port[h]) \in PortType
      <4>1. port[h] \in PortType
        BY <2>4 DEF TypeOK
      <4> QED BY <4>1, ClosePortType
    <3>3. port' \in [Ports -> PortType]
      BY <2>4, <3>2 DEF port_shutdown, TypeOK
    <3> QED BY <1>2, <2>2, <2>4, <3>1, <3>3 DEF sys_close, port_shutdown, TypeOK
  <2> QED BY <1>2, <2>3, <2>4 DEF sys_close
<1>3. ASSUME CloseChan(t) PROVE TypeOK'
  <2>1. op[t].h \in Chans
    BY <1>1, <1>3 DEF CloseChan, OpType
  <2>2. Call("decref", op[t].h, {}) \in OpType
    BY <2>1, CallType DEF OpKinds
  <2>3. op' \in [Tasks -> OpType]
    BY <1>3, <2>2 DEF CloseChan, TypeOK
  <2> QED BY <1>3, <2>1, <2>3, ChanShutdownType DEF CloseChan, TypeOK
<1>4. ASSUME handle_decref(t) PROVE TypeOK'
  <2> DEFINE h == op[t].h
  <2>1. op' \in [Tasks -> OpType]
    BY <1>4, FreeTypes DEF handle_decref, TypeOK
  <2>2. CASE /\ h \in Chans
             /\ chan' = [chan EXCEPT ![h] = DelRef(@, "handle")]
             /\ UNCHANGED port
    <3>1. chan' \in [Chans -> ChanType]
      BY <2>2, DelRefType DEF TypeOK
    <3> QED BY <1>4, <2>1, <2>2, <3>1 DEF handle_decref, TypeOK
  <2>3. CASE /\ h \in Ports
             /\ port' = [port EXCEPT ![h] = UnrefPort(@)]
             /\ UNCHANGED chan
    <3>1. port' \in [Ports -> PortType]
      BY <2>3, UnrefPortType DEF TypeOK
    <3> QED BY <1>4, <2>1, <2>3, <3>1 DEF handle_decref, TypeOK
  <2> QED BY <1>4, <2>2, <2>3 DEF handle_decref
<1> QED BY <1>2, <1>3, <1>4

LEMMA TypeStep == TypeOK /\ [Next]_vars => TypeOK'
<1> SUFFICES ASSUME TypeOK, [Next]_vars PROVE TypeOK'
  OBVIOUS
<1>1. CASE UNCHANGED vars
  BY <1>1 DEF TypeOK, vars
<1>2. CASE Halted
  BY <1>2 DEF TypeOK, vars, Halted
<1>3. ASSUME NEW t \in Tasks, TaskStep(t) PROVE TypeOK'
  BY <1>3, PortCreateType, AcceptType, ConnectType, WaitType, MsgType, CloseType
     DEF TaskStep, Handles
<1> QED BY <1>1, <1>2, <1>3 DEF Next

(* Every reachable state is well typed: in particular no queue ever holds  *)
(* more than num_recv_bufs messages (msg_write_locked, msg_get_filled_     *)
(* locked and msg_put_read_locked in ipc_msg.c), and a task that is inside *)
(* a call always has the handle that the call works on.                    *)
THEOREM TypeCorrect == Spec => []TypeOK
<1>1. Init => TypeOK
  BY FreeTypes DEF Init, TypeOK
<1> QED BY <1>1, TypeStep, PTL DEF Spec

-----------------------------------------------------------------------------
(***************************************************************************)
(* ConnInv is an invariant of IpcConn.  It follows that connected channels *)
(* come in pairs, that a handle has one owner, and that a channel told to  *)
(* disconnect never connects again.                                        *)
(***************************************************************************)

ChanMap == [Chans -> ChanType]

(* The fields of a channel record that the invariant speaks of.            *)
LEMMA ChanFieldTypes ==
  ASSUME NEW r \in ChanType
  PROVE  /\ r.state \in ChanStates
         /\ r.peer \in Chans \cup {NULL}
         /\ r.refs \in SUBSET RefKinds
BY DEF ChanType, ChanFields

LEMMA NullNoChan == NULL \notin Chans
BY IpcConnAssumption

-----------------------------------------------------------------------------
(* What dropping a reference and shutting down do to one channel.          *)

LEMMA FreeFields ==
  FreeChan.state = "FREE" /\ FreeChan.peer = NULL /\ FreeChan.refs = {}
BY DEF FreeChan

(* r and d are the same but for the reference ref.                         *)
LessRef(r, d, ref) ==
  /\ d.state = r.state /\ d.peer = r.peer
  /\ d.path = r.path /\ d.queue = r.queue /\ d.uuid = r.uuid
  /\ d.refs = r.refs \ {ref}

LEMMA DelRefFields ==
  ASSUME NEW r \in ChanType, NEW ref
  PROVE  /\ r.refs \subseteq {ref} => DelRef(r, ref) = FreeChan
         /\ ~(r.refs \subseteq {ref}) => LessRef(r, DelRef(r, ref), ref)
BY DEF DelRef, ChanType, ChanFields, LessRef

LEMMA DisconnectFields ==
  ASSUME NEW r \in ChanType
  PROVE  LET d == Disconnect(r) IN
         /\ d.peer = r.peer /\ d.path = r.path /\ d.queue = r.queue
         /\ d.uuid = r.uuid
         /\ d.state = IF r.state = "FREE" THEN "FREE" ELSE "DISCONNECTING"
         /\ d.refs = IF r.state = "WAITING_FOR_PORT" THEN r.refs \ {"node"}
                     ELSE r.refs
BY DEF Disconnect, ChanType, ChanFields, ChanStates

LEMMA ShutEndFields ==
  ASSUME NEW r \in ChanType
  PROVE  LET d == ShutEnd(r) IN
         /\ d.peer = NULL /\ d.uuid = r.uuid
         /\ d.state = IF r.state = "FREE" THEN "FREE" ELSE "DISCONNECTING"
         /\ d.refs = IF r.state = "WAITING_FOR_PORT" THEN r.refs \ {"node"}
                     ELSE r.refs
<1>1. Disconnect(r) \in ChanType
  BY DisconnectType
<1> QED BY <1>1, DisconnectFields DEF ShutEnd, ChanType, ChanFields

(* The other end: told, and freed when only its peer kept it.              *)
LEMMA ShutPeerFields ==
  ASSUME NEW r \in ChanType, r.state # "WAITING_FOR_PORT", r.state # "FREE"
  PROVE  LET d == ShutPeer(r) IN
         \/ r.refs \subseteq {"peer"} /\ d = FreeChan
         \/ /\ ~(r.refs \subseteq {"peer"})
            /\ d.state = "DISCONNECTING" /\ d.peer = r.peer
            /\ d.uuid = r.uuid /\ d.refs = r.refs \ {"peer"}
<1>1. Disconnect(r) \in ChanType
  BY DisconnectType
<1>2. Disconnect(r).refs = r.refs /\ Disconnect(r).peer = r.peer
      /\ Disconnect(r).state = "DISCONNECTING" /\ Disconnect(r).uuid = r.uuid
  BY DisconnectFields
<1> QED BY <1>1, <1>2, DelRefFields DEF ShutPeer, LessRef

-----------------------------------------------------------------------------
(* Graph under a shutdown and under the loss of a reference.               *)

(* What Shutdown(C, S) makes, in d, of channel x.                          *)
Told(C, S, x) == \E s \in S : C[s].peer = x

ShutFacts(C, S, x, d) ==
  /\ x \in S => /\ d.state = "DISCONNECTING" /\ d.peer = NULL
                /\ d.uuid = C[x].uuid
                /\ d.refs = IF C[x].state = "WAITING_FOR_PORT"
                              THEN C[x].refs \ {"node"} ELSE C[x].refs
  /\ x \notin S /\ Told(C, S, x) =>
       /\ C[x].state \notin {"FREE", "WAITING_FOR_PORT"}
       /\ \/ C[x].refs \subseteq {"peer"} /\ d = FreeChan
          \/ /\ ~(C[x].refs \subseteq {"peer"})
             /\ d.state = "DISCONNECTING" /\ d.peer = C[x].peer
             /\ d.uuid = C[x].uuid /\ d.refs = C[x].refs \ {"peer"}
  /\ x \notin S /\ ~Told(C, S, x) => d = C[x]

LEMMA ShutdownFields ==
  ASSUME NEW C \in ChanMap, Graph(C), NEW S \in SUBSET Chans,
         \A s \in S : C[s].state # "FREE", NEW x \in Chans
  PROVE  ShutFacts(C, S, x, Shutdown(C, S)[x])
<1>1. C[x] \in ChanType
  BY DEF ChanMap
<1>2. CASE x \in S
  <2>1. Shutdown(C, S)[x] = ShutEnd(C[x])
    BY <1>2 DEF Shutdown
  <2> QED BY <1>1, <1>2, <2>1, ShutEndFields DEF ShutFacts
<1>3. CASE x \notin S /\ Told(C, S, x)
  <2>1. Shutdown(C, S)[x] = ShutPeer(C[x])
    BY <1>3 DEF Shutdown, Told
  <2>2. C[x].state \notin {"FREE", "WAITING_FOR_PORT"}
    BY <1>3, NullNoChan DEF Graph, Told
  <2> QED BY <1>1, <1>3, <2>1, <2>2, ShutPeerFields DEF ShutFacts
<1>4. CASE x \notin S /\ ~Told(C, S, x)
  BY <1>4 DEF Shutdown, Told, ShutFacts
<1> QED BY <1>2, <1>3, <1>4

LEMMA ShutdownGraph ==
  ASSUME NEW C \in ChanMap, Graph(C), NEW S \in SUBSET Chans,
         \A s \in S : C[s].state # "FREE"
  PROVE  Graph(Shutdown(C, S))
<1> DEFINE D == Shutdown(C, S)
           Paired == {"ACCEPTING", "CONNECTING", "CONNECTED"}
<1>0. \A x \in Chans : ShutFacts(C, S, x, D[x])
  BY ShutdownFields
<1> HIDE DEF D
<1>1. ASSUME NEW x \in Chans
      PROVE  /\ D[x].peer # NULL => x \notin S /\ D[x].peer = C[x].peer
             /\ D[x].state \in Paired \cup {"WAITING_FOR_PORT"} =>
                  x \notin S /\ ~Told(C, S, x) /\ D[x] = C[x]
             /\ "peer" \in C[x].refs /\ ~Told(C, S, x) => "peer" \in D[x].refs
             /\ D[x].state = "FREE" => D[x].refs = {} /\ D[x].peer = NULL
  <2>1. C[x].state = "FREE" => C[x].refs = {} /\ C[x].peer = NULL
    BY DEF Graph
  <2> QED BY <1>0, <2>1, FreeFields DEF ShutFacts
<1>2. \A x \in Chans : C[x].peer \in Chans \cup {NULL}
  BY ChanFieldTypes DEF ChanMap
<1>3. ASSUME NEW c \in Chans, D[c].state \in Paired
      PROVE  /\ D[c].peer # NULL /\ D[c].queue
             /\ D[D[c].peer].peer = c
             /\ D[D[c].peer].state = Opposite(D[c].state)
  <2>1. c \notin S /\ ~Told(C, S, c) /\ D[c] = C[c]
    BY <1>1, <1>3
  <2> DEFINE y == C[c].peer
  <2>2. y \in Chans /\ C[y].peer = c /\ C[c].queue
        /\ C[y].state = Opposite(C[c].state)
    BY <1>2, <1>3, <2>1 DEF Graph
  <2>3. y \notin S /\ ~Told(C, S, y)
    BY <2>1, <2>2, NullNoChan DEF Graph, Told
  <2>4. D[y] = C[y]
    BY <1>0, <2>2, <2>3 DEF ShutFacts
  <2> QED BY <2>1, <2>2, <2>4, NullNoChan
<1>4. ASSUME NEW c \in Chans, D[c].peer # NULL
      PROVE  /\ "peer" \in D[D[c].peer].refs
             /\ D[D[c].peer].state # "WAITING_FOR_PORT"
  <2>1. c \notin S /\ D[c].peer = C[c].peer /\ C[c].peer \in Chans
    BY <1>1, <1>2, <1>4
  <2>2. ~Told(C, S, C[c].peer)
    BY <2>1, NullNoChan DEF Graph, Told
  <2> QED BY <1>1, <2>1, <2>2, NullNoChan DEF Graph
<1>5. ASSUME NEW c \in Chans, NEW d \in Chans, D[c].peer = D[d].peer, D[c].peer # NULL
      PROVE  c = d
  BY <1>1, <1>5 DEF Graph
<1>6. Graph(D)
  BY <1>1, <1>3, <1>4, <1>5 DEF Graph
<1> QED BY <1>6 DEF D

(* Channels that were shut down lose a reference, and perhaps their        *)
(* memory; nobody points at memory that is given back.                     *)
LEMMA DropRefGraph ==
  ASSUME NEW C \in ChanMap, Graph(C), NEW D, NEW S \in SUBSET Chans,
         NEW ref \in {"node", "handle"},
         \A s \in S : C[s].state = "DISCONNECTING",
         \A x \in Chans : D[x] = IF x \in S THEN DelRef(C[x], ref) ELSE C[x]
  PROVE  Graph(D)
<1>1. \A x \in Chans : C[x] \in ChanType /\ C[x].peer \in Chans \cup {NULL}
  BY ChanFieldTypes DEF ChanMap
<1>2. ASSUME NEW x \in Chans
      PROVE  /\ x \notin S => D[x] = C[x]
             /\ D[x].peer # NULL => D[x].peer = C[x].peer
             /\ x \in S => D[x].state \in {"FREE", "DISCONNECTING"}
             /\ "peer" \in C[x].refs => "peer" \in D[x].refs
             /\ D[x].state = "FREE" => D[x].refs = {} /\ D[x].peer = NULL
  BY <1>1, DelRefFields, FreeFields DEF LessRef, Graph
<1>3. ASSUME NEW c \in Chans, D[c].state \in {"ACCEPTING", "CONNECTING", "CONNECTED"}
      PROVE  /\ D[c].peer # NULL /\ D[c].queue
             /\ D[D[c].peer].peer = c
             /\ D[D[c].peer].state = Opposite(D[c].state)
  <2>1. c \notin S /\ D[c] = C[c]
    BY <1>2, <1>3
  <2>2. /\ C[c].peer \in Chans /\ C[C[c].peer].peer = c /\ C[c].queue
        /\ C[C[c].peer].state = Opposite(C[c].state)
    BY <1>1, <1>3, <2>1 DEF Graph
  <2>3. C[c].peer \notin S
    BY <2>1, <2>2, <1>3 DEF Opposite
  <2> QED BY <1>2, <2>1, <2>2, <2>3, NullNoChan
<1>4. ASSUME NEW c \in Chans, D[c].peer # NULL
      PROVE  /\ "peer" \in D[D[c].peer].refs
             /\ D[D[c].peer].state # "WAITING_FOR_PORT"
  <2>1. D[c].peer = C[c].peer /\ C[c].peer \in Chans
    BY <1>1, <1>2, <1>4
  <2> QED BY <1>2, <1>4, <2>1 DEF Graph
<1>5. ASSUME NEW c \in Chans, NEW d \in Chans, D[c].peer = D[d].peer, D[c].peer # NULL
      PROVE  c = d
  BY <1>2, <1>5 DEF Graph
<1> QED BY <1>2, <1>3, <1>4, <1>5 DEF Graph

(* New connections between memory that was free and clients that waited.   *)
LEMMA AttachGraph ==
  ASSUME NEW C \in ChanMap, Graph(C), NEW D,
         NEW K \in SUBSET Chans, NEW V \in SUBSET Chans, NEW f,
         \A x \in K \cup V : /\ C[x].state \in {"FREE", "WAITING_FOR_PORT"}
                             /\ D[x].peer = f[x] /\ D[x].queue
                             /\ "peer" \in D[x].refs /\ f[f[x]] = x,
         \A x \in K : D[x].state = "CONNECTING" /\ f[x] \in V,
         \A x \in V : D[x].state = "ACCEPTING" /\ f[x] \in K,
         \A x \in Chans \ (K \cup V) : D[x] = C[x]
  PROVE  Graph(D)
<1> DEFINE N == K \cup V
<1>1. \A x \in Chans : C[x].peer \in Chans \cup {NULL}
  BY ChanFieldTypes DEF ChanMap
<1>2. \A x \in Chans : C[x].peer # NULL => C[x].peer \notin N
  BY <1>1 DEF Graph
<1>3. ASSUME NEW c \in Chans, D[c].state \in {"ACCEPTING", "CONNECTING", "CONNECTED"}
      PROVE  /\ D[c].peer # NULL /\ D[c].queue
             /\ D[D[c].peer].peer = c
             /\ D[D[c].peer].state = Opposite(D[c].state)
  <2>1. CASE c \in N
    BY <2>1, NullNoChan DEF Opposite
  <2>2. CASE c \notin N
    <3>1. /\ D[c] = C[c] /\ C[c].peer \in Chans \ N /\ C[C[c].peer].peer = c
          /\ C[c].queue /\ C[C[c].peer].state = Opposite(C[c].state)
      BY <1>1, <1>2, <1>3, <2>2 DEF Graph
    <3> QED BY <3>1, NullNoChan
  <2> QED BY <2>1, <2>2
<1>4. ASSUME NEW c \in Chans, D[c].peer # NULL
      PROVE  /\ "peer" \in D[D[c].peer].refs
             /\ D[D[c].peer].state # "WAITING_FOR_PORT"
  <2>1. CASE c \in N
    BY <2>1
  <2>2. CASE c \notin N
    <3>1. D[c] = C[c] /\ C[c].peer \in Chans \ N
      BY <1>1, <1>2, <1>4, <2>2
    <3> QED BY <1>4, <3>1 DEF Graph
  <2> QED BY <2>1, <2>2
<1>5. ASSUME NEW c \in Chans, NEW d \in Chans, D[c].peer = D[d].peer, D[c].peer # NULL
      PROVE  c = d
  <2>1. CASE c \in N /\ d \in N
    BY <1>5, <2>1
  <2>2. CASE c \notin N /\ d \notin N
    BY <1>5, <2>2 DEF Graph
  <2>3. CASE (c \in N) # (d \in N)
    BY <1>2, <1>5, <2>3
  <2> QED BY <2>1, <2>2, <2>3
<1>6. ASSUME NEW c \in Chans, D[c].state = "FREE"
      PROVE  D[c].refs = {} /\ D[c].peer = NULL
  BY <1>6 DEF Graph
<1> QED BY <1>3, <1>4, <1>5, <1>6 DEF Graph

(* One new channel that points nowhere.                                    *)
LEMMA WaitGraph ==
  ASSUME NEW C \in ChanMap, Graph(C), NEW D, NEW c \in Chans,
         C[c].state = "FREE", D[c].state = "WAITING_FOR_PORT", D[c].peer = NULL,
         \A x \in Chans \ {c} : D[x] = C[x]
  PROVE  Graph(D)
<1>1. \A x \in Chans : C[x].peer \in Chans \cup {NULL}
  BY ChanFieldTypes DEF ChanMap
<1>2. \A x \in Chans : C[x].peer # c
  BY <1>1, NullNoChan DEF Graph
<1>3. ASSUME NEW x \in Chans, D[x].state \in {"ACCEPTING", "CONNECTING", "CONNECTED"}
      PROVE  /\ D[x].peer # NULL /\ D[x].queue
             /\ D[D[x].peer].peer = x
             /\ D[D[x].peer].state = Opposite(D[x].state)
  BY <1>1, <1>2, <1>3 DEF Graph
<1>4. ASSUME NEW x \in Chans, D[x].peer # NULL
      PROVE  /\ "peer" \in D[D[x].peer].refs
             /\ D[D[x].peer].state # "WAITING_FOR_PORT"
  BY <1>1, <1>2, <1>4 DEF Graph
<1>5. ASSUME NEW x \in Chans, NEW d \in Chans, D[x].peer = D[d].peer, D[x].peer # NULL
      PROVE  x = d
  BY <1>5 DEF Graph
<1>6. ASSUME NEW x \in Chans, D[x].state = "FREE"
      PROVE  D[x].refs = {} /\ D[x].peer = NULL
  BY <1>6 DEF Graph
<1> QED BY <1>3, <1>4, <1>5, <1>6 DEF Graph

(* The two ends of a pending connection become connected together.         *)
LEMMA AcceptGraph ==
  ASSUME NEW C \in ChanMap, Graph(C), NEW D, NEW s \in Chans, NEW c \in Chans,
         C[s].state = "ACCEPTING", C[s].peer = c,
         \A x \in {s, c} : /\ D[x].state = "CONNECTED" /\ D[x].peer = C[x].peer
                           /\ D[x].queue = C[x].queue
                           /\ "peer" \in C[x].refs => "peer" \in D[x].refs,
         \A x \in Chans \ {s, c} : D[x] = C[x]
  PROVE  Graph(D)
<1>1. \A x \in Chans : C[x].peer \in Chans \cup {NULL}
  BY ChanFieldTypes DEF ChanMap
<1>2. C[c].peer = s /\ C[c].state = "CONNECTING" /\ C[s].queue
  BY NullNoChan DEF Graph, Opposite
<1>3. C[c].queue
  BY <1>2 DEF Graph
<1>4. ASSUME NEW x \in Chans, D[x].state \in {"ACCEPTING", "CONNECTING", "CONNECTED"}
      PROVE  /\ D[x].peer # NULL /\ D[x].queue
             /\ D[D[x].peer].peer = x
             /\ D[D[x].peer].state = Opposite(D[x].state)
  <2>1. CASE x \in {s, c}
    BY <1>2, <1>3, <2>1, NullNoChan DEF Opposite
  <2>2. CASE x \notin {s, c}
    <3>1. /\ D[x] = C[x] /\ C[x].peer \in Chans /\ C[C[x].peer].peer = x
          /\ C[x].queue /\ C[C[x].peer].state = Opposite(C[x].state)
      BY <1>1, <1>4, <2>2 DEF Graph
    <3>2. C[x].peer \notin {s, c}
      BY <1>2, <2>2, <3>1
    <3> QED BY <3>1, <3>2, NullNoChan
  <2> QED BY <2>1, <2>2
<1>5. \A x \in Chans : D[x].peer = C[x].peer
  OBVIOUS
<1>6. \A x \in Chans : "peer" \in C[x].refs => "peer" \in D[x].refs
  OBVIOUS
<1>7. \A x \in Chans : D[x].state = "WAITING_FOR_PORT" => C[x].state = "WAITING_FOR_PORT"
  OBVIOUS
<1>8. ASSUME NEW x \in Chans, D[x].peer # NULL
      PROVE  /\ "peer" \in D[D[x].peer].refs
             /\ D[D[x].peer].state # "WAITING_FOR_PORT"
  BY <1>1, <1>5, <1>6, <1>7, <1>8 DEF Graph
<1>9. ASSUME NEW x \in Chans, NEW d \in Chans, D[x].peer = D[d].peer, D[x].peer # NULL
      PROVE  x = d
  BY <1>5, <1>9 DEF Graph
<1>10. ASSUME NEW x \in Chans, D[x].state = "FREE"
      PROVE  D[x].refs = {} /\ D[x].peer = NULL
  BY <1>10 DEF Graph
<1> QED BY <1>4, <1>8, <1>9, <1>10 DEF Graph

(* Queue counters and events are not part of the graph.                    *)
SameLinks(r, d) ==
  /\ d.state = r.state /\ d.peer = r.peer /\ d.path = r.path
  /\ d.queue = r.queue /\ d.refs = r.refs

LEMMA SameGraph ==
  ASSUME NEW C \in ChanMap, Graph(C), NEW D,
         \A x \in Chans : SameLinks(C[x], D[x])
  PROVE  Graph(D)
<1>1. \A x \in Chans : C[x].peer \in Chans \cup {NULL}
  BY ChanFieldTypes DEF ChanMap
<1>2. ASSUME NEW x \in Chans, D[x].state \in {"ACCEPTING", "CONNECTING", "CONNECTED"}
      PROVE  /\ D[x].peer # NULL /\ D[x].queue
             /\ D[D[x].peer].peer = x
             /\ D[D[x].peer].state = Opposite(D[x].state)
  <2>1. /\ C[x].peer \in Chans /\ C[x].peer # NULL /\ C[x].queue
        /\ C[C[x].peer].peer = x /\ C[C[x].peer].state = Opposite(C[x].state)
    BY <1>1, <1>2 DEF Graph, SameLinks
  <2> QED BY <2>1 DEF SameLinks
<1>3. ASSUME NEW x \in Chans, D[x].peer # NULL
      PROVE  /\ "peer" \in D[D[x].peer].refs
             /\ D[D[x].peer].state # "WAITING_FOR_PORT"
  BY <1>1, <1>3 DEF Graph, SameLinks
<1>4. ASSUME NEW x \in Chans, NEW d \in Chans, D[x].peer = D[d].peer, D[x].peer # NULL
      PROVE  x = d
  BY <1>4 DEF Graph, SameLinks
<1>5. ASSUME NEW x \in Chans, D[x].state = "FREE"
      PROVE  D[x].refs = {} /\ D[x].peer = NULL
  BY <1>5 DEF Graph, SameLinks
<1> QED BY <1>2, <1>3, <1>4, <1>5 DEF Graph

-----------------------------------------------------------------------------
(* The lists, when a step leaves them or empties them.                     *)

LEMMA WaitFrame ==
  ASSUME TypeOK, WaitLists, waiting' = waiting,
         \A x \in Chans :
           "WAITING_FOR_PORT" \in {chan[x].state, chan'[x].state} =>
             chan'[x].state = chan[x].state /\ chan'[x].path = chan[x].path
  PROVE  WaitLists'
<1>1. \A q \in Paths : waiting[q] \in Seq(Chans)
  BY DEF TypeOK
<1>2. \A q \in Paths : \A i \in 1..Len(waiting[q]) : waiting[q][i] \in Chans
  BY <1>1
<1>3. \A q \in Paths : \A i \in 1..Len(waiting[q]) :
        /\ chan'[waiting[q][i]].state = "WAITING_FOR_PORT"
        /\ chan'[waiting[q][i]].path = q
  BY <1>2 DEF WaitLists
<1>4. \A c \in Chans :
        chan'[c].state = "WAITING_FOR_PORT" =>
          chan'[c].path \in Paths /\ c \in Elems(waiting[chan'[c].path])
  BY DEF WaitLists
<1> QED BY <1>3, <1>4 DEF WaitLists, Elems

(* What PendingLists asks of a queued channel.                             *)
Queued(x) ==
  /\ chan[x].state \in {"ACCEPTING", "DISCONNECTING"}
  /\ "node" \in chan[x].refs
  /\ \A t \in Tasks : ~Holds(t, x)

LEMMA PendingElems ==
  ASSUME TypeOK, PendingLists, NEW p \in Ports, NEW i \in 1..Len(port[p].pending)
  PROVE  port[p].pending[i] \in Chans /\ Queued(port[p].pending[i])
<1>1. port[p].pending \in Seq(Chans)
  BY DEF TypeOK, PortType
<1> QED BY <1>1 DEF PendingLists, Queued

LEMMA PendingFrame ==
  ASSUME TypeOK, PendingLists,
         \A p \in Ports : \/ port'[p].pending = port[p].pending
                          \/ port'[p].pending = << >>,
         \A p \in Ports : \A i \in 1..Len(port[p].pending) :
           port'[p].pending = port[p].pending => Queued(port[p].pending[i])'
  PROVE  PendingLists'
<1>1. ASSUME NEW p \in Ports, NEW i \in 1..Len(port'[p].pending)
      PROVE  port'[p].pending = port[p].pending /\ i \in 1..Len(port[p].pending)
  BY <1>1
<1>2. ASSUME NEW p \in Ports, NEW i \in 1..Len(port'[p].pending)
      PROVE  Queued(port[p].pending[i])'
  BY <1>1
<1>3. ASSUME NEW p \in Ports, NEW r \in Ports, NEW i \in 1..Len(port'[p].pending),
             NEW j \in 1..Len(port'[r].pending),
             port'[p].pending[i] = port'[r].pending[j]
      PROVE  p = r /\ i = j
  BY <1>1, <1>3 DEF PendingLists
<1> QED BY <1>1, <1>2, <1>3 DEF PendingLists, Queued

-----------------------------------------------------------------------------
(* Steps that change no link.                                              *)

LEMMA LinksStep ==
  ASSUME ConnInv, TypeOK', \A x \in Chans : SameLinks(chan[x], chan'[x]),
         port' = port, waiting' = waiting, NEW t \in Tasks,
         \A c \in Chans, u \in Tasks : Holds(u, c)' <=> Holds(u, c),
         \A u \in Tasks \ {t} : op'[u] = op[u] /\ table'[u] = table[u],
         op'[t].kind \in {"connect", "connected", "close"} => op'[t].h \notin table'[t],
         op'[t].kind # "decref" \/ UNCHANGED <<op, table>>
  PROVE  ConnInv'
<1>1. chan \in ChanMap
  BY DEF ConnInv, TypeOK, ChanMap
<1>2. Graph(chan')
  BY <1>1, SameGraph DEF ConnInv
<1>3. Owned'
  <2>1. \A u \in Tasks, c \in Chans : Holds(u, c)' => "handle" \in chan'[c].refs
    BY DEF ConnInv, Owned, SameLinks
  <2>2. \A u, v \in Tasks, c \in Chans : Holds(u, c)' /\ Holds(v, c)' => u = v
    BY DEF ConnInv, Owned
  <2>3. \A u \in Tasks :
          op'[u].kind \in {"connect", "connected", "close", "decref"} =>
            op'[u].h \notin table'[u]
    BY DEF ConnInv, Owned
  <2>4. \A u \in Tasks :
          op'[u].kind = "decref" /\ op'[u].h \in Chans =>
            chan'[op'[u].h].state = "DISCONNECTING"
    BY DEF ConnInv, Owned, SameLinks
  <2> QED BY <2>1, <2>2, <2>3, <2>4 DEF Owned
<1>4. WaitLists'
  BY WaitFrame DEF ConnInv, SameLinks
<1>5. PendingLists'
  <2>1. ASSUME NEW p \in Ports, NEW i \in 1..Len(port[p].pending)
        PROVE  Queued(port[p].pending[i])'
    <3>1. port[p].pending[i] \in Chans /\ Queued(port[p].pending[i])
      BY PendingElems DEF ConnInv
    <3> QED BY <3>1 DEF Queued, SameLinks
  <2> QED BY <2>1, PendingFrame DEF ConnInv
<1> QED BY <1>2, <1>3, <1>4, <1>5 DEF ConnInv

LEMMA MsgFacts ==
  ASSUME ConnInv, NEW t \in Tasks, NEW c \in Chans,
         \/ sys_send_msg(t, c) \/ sys_get_msg(t, c)
         \/ sys_put_msg(t, c) \/ UseNullQueue(t, c)
  PROVE  /\ UNCHANGED <<port, waiting, table, op>>
         /\ \A x \in Chans : SameLinks(chan[x], chan'[x])
         /\ \A x \in Chans, u \in Tasks : Holds(u, x)' <=> Holds(u, x)
<1>1. \A x \in Chans : chan[x] \in ChanType
  BY DEF ConnInv, TypeOK
<1>2. UNCHANGED <<port, waiting, table, op>>
  BY DEF sys_send_msg, sys_get_msg, sys_put_msg, UseNullQueue
<1>3. ASSUME NEW x \in Chans PROVE SameLinks(chan[x], chan'[x])
  <2>1. CASE sys_send_msg(t, c)
    BY <1>1, <2>1 DEF sys_send_msg, SameLinks, ConnInv, TypeOK, ChanType, ChanFields
  <2>2. CASE sys_get_msg(t, c)
    BY <1>1, <2>2 DEF sys_get_msg, SameLinks, ConnInv, TypeOK, ChanType, ChanFields
  <2>3. CASE sys_put_msg(t, c)
    BY <1>1, <2>3 DEF sys_put_msg, SameLinks, ConnInv, TypeOK, ChanType, ChanFields
  <2>4. CASE UseNullQueue(t, c)
    BY <2>4 DEF UseNullQueue, SameLinks
  <2> QED BY <2>1, <2>2, <2>3, <2>4
<1>4. \A x \in Chans, u \in Tasks : Holds(u, x)' <=> Holds(u, x)
  BY <1>2 DEF Holds
<1> QED BY <1>2, <1>3, <1>4

LEMMA MsgStep ==
  ASSUME ConnInv, TypeOK', NEW t \in Tasks, NEW c \in Chans,
         \/ sys_send_msg(t, c) \/ sys_get_msg(t, c)
         \/ sys_put_msg(t, c) \/ UseNullQueue(t, c)
  PROVE  ConnInv'
<1>1. /\ UNCHANGED <<port, waiting, table, op>>
      /\ \A x \in Chans : SameLinks(chan[x], chan'[x])
      /\ \A x \in Chans, u \in Tasks : Holds(u, x)' <=> Holds(u, x)
  BY MsgFacts
<1>2. op'[t].kind \in {"connect", "connected", "close"} => op'[t].h \notin table'[t]
  BY <1>1 DEF ConnInv, Owned
<1> QED BY <1>1, <1>2, LinksStep

LEMMA PollFacts ==
  ASSUME ConnInv, NEW t \in Tasks,
         \/ ConnectPoll(t) \/ ConnectFinish(t)
         \/ WaitFinish(t) \/ \E c \in Chans : WaitPoll(t, c)
  PROVE  /\ port' = port /\ waiting' = waiting
         /\ \A x \in Chans : SameLinks(chan[x], chan'[x])
         /\ \A x \in Chans, u \in Tasks : Holds(u, x)' <=> Holds(u, x)
         /\ \A u \in Tasks \ {t} : op'[u] = op[u] /\ table'[u] = table[u]
         /\ op'[t].kind # "decref"
         /\ op'[t].kind \in {"connect", "connected", "close"} => op'[t].h \notin table'[t]
<1>1. \A x \in Chans : chan[x] \in ChanType
  BY DEF ConnInv, TypeOK
<1>2. port' = port /\ waiting' = waiting
  BY DEF ConnectPoll, ConnectFinish, WaitPoll, WaitFinish
<1>3. ASSUME NEW x \in Chans PROVE SameLinks(chan[x], chan'[x])
  <2>1. ASSUME NEW c, NEW ev PROVE SameLinks(chan[x], Finalize(c, ev)[x])
    BY <1>1 DEF Finalize, SameLinks, ConnInv, TypeOK, ChanType, ChanFields
  <2>2. SameLinks(chan[x], chan[x])
    BY DEF SameLinks
  <2>3. chan'[x] = chan[x] \/ \E c, ev : chan'[x] = Finalize(c, ev)[x]
    BY DEF ConnectPoll, ConnectFinish, WaitPoll, WaitFinish
  <2> QED BY <2>1, <2>2, <2>3
<1>4. op[t] \in OpType /\ op \in [Tasks -> OpType] /\ table \in [Tasks -> SUBSET Handles]
  BY DEF ConnInv, TypeOK
<1>5. op[t].kind \in {"connect", "connected", "close", "decref"} => op[t].h \notin table[t]
  BY DEF ConnInv, Owned
<1>6. /\ \A u \in Tasks \ {t} : op'[u] = op[u] /\ table'[u] = table[u]
      /\ op'[t].kind # "decref"
  BY <1>4 DEF ConnectPoll, ConnectFinish, WaitPoll, WaitFinish, Call, Idle
<1>7. op'[t].kind \in {"connect", "connected", "close"} => op'[t].h \notin table'[t]
  BY <1>4, <1>5 DEF ConnectPoll, ConnectFinish, WaitPoll, WaitFinish, Call, Idle
<1>8. ASSUME NEW c \in Chans PROVE Holds(t, c)' <=> Holds(t, c)
  <2>1. CASE ConnectPoll(t)
    BY <1>4, <2>1 DEF ConnectPoll, Call, Holds
  <2>2. CASE WaitFinish(t)
    BY <1>4, <2>2 DEF WaitFinish, Call, Idle, Holds
  <2>3. CASE \E d \in Chans : WaitPoll(t, d)
    BY <1>4, <2>3 DEF WaitPoll, Running, Call, Holds
  <2>4. CASE ConnectFinish(t)
    BY <1>4, <2>4 DEF ConnectFinish, Call, Idle, Holds
  <2> QED BY <2>1, <2>2, <2>3, <2>4
<1>9. \A c \in Chans, u \in Tasks : Holds(u, c)' <=> Holds(u, c)
  BY <1>6, <1>8 DEF Holds
<1> QED BY <1>2, <1>3, <1>6, <1>7, <1>9

LEMMA PollStep ==
  ASSUME ConnInv, TypeOK', NEW t \in Tasks,
         \/ ConnectPoll(t) \/ ConnectFinish(t)
         \/ WaitFinish(t) \/ \E c \in Chans : WaitPoll(t, c)
  PROVE  ConnInv'
BY PollFacts, LinksStep

-----------------------------------------------------------------------------
(* Closing a channel.                                                      *)

LEMMA WithoutElems ==
  ASSUME NEW S, NEW s \in Seq(S), NEW x \in Elems(s),
         \A i, j \in 1..Len(s) : s[i] = s[j] => i = j
  PROVE  LET w == Without(s, x) IN
         /\ \A i \in 1..Len(w) : w[i] \in Elems(s) /\ w[i] # x
         /\ \A i, j \in 1..Len(w) : w[i] = w[j] => i = j
         /\ \A y \in Elems(s) : y # x => y \in Elems(w)
<1> DEFINE k == IndexOf(s, x)
           w == Without(s, x)
           n == Len(s) - 1
<1>1. k \in 1..Len(s) /\ s[k] = x
  BY IndexOfType
<1>2. n \in Nat
  BY <1>1
<1>3. w = [i \in 1..n |-> IF i < k THEN s[i] ELSE s[i + 1]]
  BY DEF Without
<1> HIDE DEF k, w
<1>4. w \in Seq(S) /\ Len(w) = n
  <2>1. w \in [1..n -> S]
    BY <1>2, <1>3
  <2> QED BY <1>2, <2>1, FunctionIsSeq
<1>5. \A i \in 1..n : w[i] \in Elems(s) /\ w[i] # x
  BY <1>1, <1>2, <1>3 DEF Elems
<1>6. \A i, j \in 1..n : w[i] = w[j] => i = j
  BY <1>1, <1>2, <1>3
<1>7. ASSUME NEW y \in Elems(s), y # x PROVE y \in Elems(w)
  <2>1. PICK m \in 1..Len(s) : s[m] = y
    BY DEF Elems
  <2>2. m # k
    BY <1>1, <1>7, <2>1
  <2>3. CASE m < k
    <3>1. m \in 1..n /\ w[m] = y
      BY <1>1, <1>2, <1>3, <2>1, <2>3
    <3> QED BY <1>4, <3>1 DEF Elems
  <2>4. CASE m > k
    <3>1. m - 1 \in 1..n /\ w[m - 1] = y
      BY <1>1, <1>2, <1>3, <2>1, <2>4
    <3> QED BY <1>4, <3>1 DEF Elems
  <2> QED BY <1>1, <2>1, <2>2, <2>3, <2>4
<1> QED BY <1>4, <1>5, <1>6, <1>7 DEF w

LEMMA ShutEffects ==
  ASSUME ConnInv, NEW S \in SUBSET Chans, \A s \in S : chan[s].state # "FREE",
         NEW D, D = Shutdown(chan, S), NEW x \in Chans
  PROVE  /\ "handle" \in chan[x].refs => "handle" \in D[x].refs
         /\ chan[x].state = "DISCONNECTING" /\ "handle" \in chan[x].refs =>
              D[x].state = "DISCONNECTING"
         /\ /\ chan[x].state \in {"ACCEPTING", "DISCONNECTING"}
            /\ "node" \in chan[x].refs
            => /\ D[x].state \in {"ACCEPTING", "DISCONNECTING"}
               /\ "node" \in D[x].refs
         /\ D[x].state = "WAITING_FOR_PORT" => x \notin S /\ D[x] = chan[x]
         /\ chan[x].state = "WAITING_FOR_PORT" /\ x \notin S => D[x] = chan[x]
         /\ x \in S => D[x].state = "DISCONNECTING"
<1>1. chan \in ChanMap /\ Graph(chan)
  BY DEF ConnInv, TypeOK, ChanMap
<1>2. ShutFacts(chan, S, x, D[x])
  BY <1>1, ShutdownFields
<1> QED BY <1>2, FreeFields DEF ShutFacts

LEMMA HeldNotFree ==
  ASSUME ConnInv, NEW t \in Tasks, NEW c \in Chans, Holds(t, c)
  PROVE  chan[c].state # "FREE" /\ "handle" \in chan[c].refs
BY DEF ConnInv, Owned, Graph

LEMMA ChanShutdownStep ==
  ASSUME ConnInv, TypeOK', NEW t \in Tasks, NEW c \in Chans, Holds(t, c),
         chan_shutdown(c), op' = [op EXCEPT ![t] = Call("decref", c, {})],
         \A x \in Chans, u \in Tasks : Holds(u, x)' <=> Holds(u, x),
         \A u \in Tasks \ {t} : table'[u] = table[u], c \notin table'[t]
  PROVE  ConnInv'
<1>1. chan \in ChanMap /\ Graph(chan) /\ TypeOK
  BY DEF ConnInv, TypeOK, ChanMap
<1>2. chan[c].state # "FREE"
  BY HeldNotFree
<1>3. chan' = Shutdown(chan, {c}) /\ port' = port
  BY DEF chan_shutdown
<1>4. Graph(chan')
  BY <1>1, <1>2, <1>3, ShutdownGraph
<1>5. ASSUME NEW x \in Chans
      PROVE  /\ "handle" \in chan[x].refs => "handle" \in chan'[x].refs
             /\ chan[x].state = "DISCONNECTING" /\ "handle" \in chan[x].refs =>
                  chan'[x].state = "DISCONNECTING"
             /\ /\ chan[x].state \in {"ACCEPTING", "DISCONNECTING"}
                /\ "node" \in chan[x].refs
                => /\ chan'[x].state \in {"ACCEPTING", "DISCONNECTING"}
                   /\ "node" \in chan'[x].refs
             /\ chan'[x].state = "WAITING_FOR_PORT" => x # c /\ chan'[x] = chan[x]
             /\ chan[x].state = "WAITING_FOR_PORT" /\ x # c => chan'[x] = chan[x]
             /\ x = c => chan'[x].state = "DISCONNECTING"
  BY <1>2, <1>3, ShutEffects
<1>6. /\ op'[t] = Call("decref", c, {})
      /\ \A u \in Tasks \ {t} : op'[u] = op[u]
  BY DEF ConnInv, TypeOK
<1>7. Owned'
  <2>1. \A u \in Tasks, x \in Chans : Holds(u, x)' => "handle" \in chan'[x].refs
    BY <1>5 DEF ConnInv, Owned
  <2>2. \A u, v \in Tasks, x \in Chans : Holds(u, x)' /\ Holds(v, x)' => u = v
    BY DEF ConnInv, Owned
  <2>3. \A u \in Tasks :
          op'[u].kind \in {"connect", "connected", "close", "decref"} =>
            op'[u].h \notin table'[u]
    BY <1>6 DEF ConnInv, Owned, Call
  <2>4. ASSUME NEW u \in Tasks, op'[u].kind = "decref", op'[u].h \in Chans
        PROVE  chan'[op'[u].h].state = "DISCONNECTING"
    <3>1. CASE u = t
      BY <1>5, <1>6, <3>1 DEF Call
    <3>2. CASE u # t
      <4>1. op'[u] = op[u] /\ Holds(u, op[u].h)
        BY <1>6, <2>4, <3>2 DEF Holds
      <4>2. chan[op[u].h].state = "DISCONNECTING" /\ "handle" \in chan[op[u].h].refs
        BY <2>4, <4>1 DEF ConnInv, Owned
      <4> QED BY <1>5, <2>4, <4>1, <4>2
    <3> QED BY <3>1, <3>2
  <2> QED BY <2>1, <2>2, <2>3, <2>4 DEF Owned
<1>8. WaitLists'
  <2>1. CASE chan[c].state # "WAITING_FOR_PORT"
    <3>1. waiting' = waiting
      BY <2>1 DEF chan_shutdown
    <3> QED BY <1>1, <1>5, <2>1, <3>1, WaitFrame DEF ConnInv
  <2>2. CASE chan[c].state = "WAITING_FOR_PORT"
    <3> DEFINE q0 == chan[c].path
    <3>1. /\ q0 \in Paths /\ c \in Elems(waiting[q0]) /\ waiting[q0] \in Seq(Chans)
          /\ \A i, j \in 1..Len(waiting[q0]) : waiting[q0][i] = waiting[q0][j] => i = j
      BY <1>1, <2>2 DEF ConnInv, WaitLists, TypeOK
    <3>2. waiting'[q0] = Without(waiting[q0], c)
          /\ \A q \in Paths \ {q0} : waiting'[q] = waiting[q]
      BY <1>1, <2>2, <3>1 DEF chan_shutdown, TypeOK
    <3>3. /\ \A i \in 1..Len(waiting'[q0]) :
               waiting'[q0][i] \in Elems(waiting[q0]) /\ waiting'[q0][i] # c
          /\ \A i, j \in 1..Len(waiting'[q0]) : waiting'[q0][i] = waiting'[q0][j] => i = j
          /\ \A y \in Elems(waiting[q0]) : y # c => y \in Elems(waiting'[q0])
      BY <3>1, <3>2, WithoutElems
    <3>4. ASSUME NEW q \in Paths, NEW x \in Elems(waiting[q])
          PROVE  x \in Chans /\ chan[x].state = "WAITING_FOR_PORT" /\ chan[x].path = q
      BY <1>1 DEF ConnInv, WaitLists, TypeOK, Elems
    <3>5. ASSUME NEW q \in Paths, NEW i \in 1..Len(waiting'[q])
          PROVE  waiting'[q][i] \in Elems(waiting[q]) /\ waiting'[q][i] # c
      <4>1. CASE q = q0
        BY <3>3, <4>1
      <4>2. CASE q # q0
        BY <3>2, <3>4, <4>2 DEF Elems
      <4> QED BY <4>1, <4>2
    <3>6. ASSUME NEW q \in Paths, NEW i \in 1..Len(waiting'[q])
          PROVE  /\ chan'[waiting'[q][i]].state = "WAITING_FOR_PORT"
                 /\ chan'[waiting'[q][i]].path = q
      BY <1>5, <3>4, <3>5
    <3>7. \A q \in Paths : \A i, j \in 1..Len(waiting'[q]) :
            waiting'[q][i] = waiting'[q][j] => i = j
      BY <3>2, <3>3 DEF ConnInv, WaitLists
    <3>8. ASSUME NEW x \in Chans, chan'[x].state = "WAITING_FOR_PORT"
          PROVE  chan'[x].path \in Paths /\ x \in Elems(waiting'[chan'[x].path])
      <4>1. x # c /\ chan'[x] = chan[x]
        BY <1>5, <3>8
      <4>2. chan[x].path \in Paths /\ x \in Elems(waiting[chan[x].path])
        BY <3>8, <4>1 DEF ConnInv, WaitLists
      <4> QED BY <3>2, <3>3, <4>1, <4>2
    <3> QED BY <3>6, <3>7, <3>8 DEF WaitLists, Elems
  <2> QED BY <2>1, <2>2
<1>9. PendingLists'
  <2>1. ASSUME NEW p \in Ports, NEW i \in 1..Len(port[p].pending)
        PROVE  Queued(port[p].pending[i])'
    <3>1. port[p].pending[i] \in Chans /\ Queued(port[p].pending[i])
      BY PendingElems DEF ConnInv
    <3> QED BY <1>3, <1>5, <3>1 DEF Queued
  <2> QED BY <1>1, <1>3, <2>1, PendingFrame DEF ConnInv
<1> QED BY <1>4, <1>7, <1>8, <1>9 DEF ConnInv

LEMMA CloseChanStep ==
  ASSUME ConnInv, TypeOK', NEW t \in Tasks,
         \/ CloseChan(t)
         \/ \E c \in Chans : sys_close(t, c) /\ chan_shutdown(c)
  PROVE  ConnInv'
<1>1. op \in [Tasks -> OpType] /\ table \in [Tasks -> SUBSET Handles] /\ op[t] \in OpType
  BY DEF ConnInv, TypeOK
<1>2. CASE CloseChan(t)
  <2> DEFINE c == op[t].h
  <2>1. c \in Chans /\ Holds(t, c) /\ c \notin table[t]
    BY <1>1, <1>2 DEF CloseChan, OpType, Holds, ConnInv, Owned
  <2>2. /\ chan_shutdown(c) /\ op' = [op EXCEPT ![t] = Call("decref", c, {})]
        /\ table' = table
    BY <1>2 DEF CloseChan
  <2>3. \A x \in Chans, u \in Tasks : Holds(u, x)' <=> Holds(u, x)
    BY <1>1, <1>2, <2>2 DEF CloseChan, Holds, Call
  <2> QED BY <2>1, <2>2, <2>3, ChanShutdownStep
<1>3. ASSUME NEW c \in Chans, sys_close(t, c), chan_shutdown(c) PROVE ConnInv'
  <2>1. /\ c \in table[t] /\ op' = [op EXCEPT ![t] = Call("decref", c, {})]
        /\ table' = [table EXCEPT ![t] = @ \ {c}] /\ op[t].kind = "idle"
    BY <1>3 DEF sys_close, Running
  <2>2. Holds(t, c)
    BY <2>1 DEF Holds
  <2>3. \A x \in Chans, u \in Tasks : Holds(u, x)' <=> Holds(u, x)
    BY <1>1, <2>1 DEF Holds, Call
  <2>4. c \notin table'[t] /\ \A u \in Tasks \ {t} : table'[u] = table[u]
    BY <1>1, <2>1
  <2> QED BY <1>3, <2>1, <2>2, <2>3, <2>4, ChanShutdownStep
<1> QED BY <1>2, <1>3

-----------------------------------------------------------------------------
(* Queued connections that are shut down and unlinked.                     *)
LEMMA TearDownEffects ==
  ASSUME ConnInv, NEW S \in SUBSET Chans, \A x \in S : Queued(x), NEW D,
         \A x \in Chans : D[x] = IF x \in S THEN DelRef(Shutdown(chan, S)[x], "node")
                                 ELSE Shutdown(chan, S)[x]
  PROVE  /\ Graph(D)
         /\ \A x \in Chans :
              /\ "handle" \in chan[x].refs =>
                   /\ "handle" \in D[x].refs
                   /\ chan[x].state = "DISCONNECTING" => D[x].state = "DISCONNECTING"
              /\ /\ x \notin S /\ "node" \in chan[x].refs
                 /\ chan[x].state \in {"ACCEPTING", "DISCONNECTING"}
                 => /\ D[x].state \in {"ACCEPTING", "DISCONNECTING"}
                    /\ "node" \in D[x].refs
              /\ "WAITING_FOR_PORT" \in {chan[x].state, D[x].state} =>
                   D[x].state = chan[x].state /\ D[x].path = chan[x].path
<1> DEFINE C == Shutdown(chan, S)
<1>1. chan \in ChanMap /\ Graph(chan)
  BY DEF ConnInv, TypeOK, ChanMap
<1>2. \A x \in S : chan[x].state \notin {"FREE", "WAITING_FOR_PORT"}
  BY DEF Queued
<1>3. Graph(C)
  BY <1>1, <1>2, ShutdownGraph
<1>4. C \in ChanMap
  BY <1>1, ShutdownType DEF ChanMap
<1>5. ASSUME NEW x \in Chans
      PROVE  /\ "handle" \in chan[x].refs => "handle" \in C[x].refs
             /\ chan[x].state = "DISCONNECTING" /\ "handle" \in chan[x].refs =>
                  C[x].state = "DISCONNECTING"
             /\ /\ chan[x].state \in {"ACCEPTING", "DISCONNECTING"}
                /\ "node" \in chan[x].refs
                => /\ C[x].state \in {"ACCEPTING", "DISCONNECTING"}
                   /\ "node" \in C[x].refs
             /\ C[x].state = "WAITING_FOR_PORT" => x \notin S /\ C[x] = chan[x]
             /\ chan[x].state = "WAITING_FOR_PORT" /\ x \notin S => C[x] = chan[x]
             /\ x \in S => C[x].state = "DISCONNECTING"
  BY <1>2, ShutEffects
<1> HIDE DEF C
<1>6. \A x \in Chans : D[x] = IF x \in S THEN DelRef(C[x], "node") ELSE C[x]
  BY DEF C
<1>7. Graph(D)
  BY <1>3, <1>4, <1>5, <1>6, DropRefGraph
<1>8. ASSUME NEW x \in S
      PROVE  /\ D[x].state \in {"FREE", "DISCONNECTING"}
             /\ "handle" \in chan[x].refs => /\ "handle" \in D[x].refs
                                             /\ D[x].state = "DISCONNECTING"
  <2>1. C[x] \in ChanType /\ D[x] = DelRef(C[x], "node") /\ x \in Chans
    BY <1>4, <1>6 DEF ChanMap
  <2> QED BY <1>5, <2>1, DelRefFields, FreeFields DEF LessRef
<1>9. ASSUME NEW x \in Chans
      PROVE  /\ "handle" \in chan[x].refs =>
                  /\ "handle" \in D[x].refs
                  /\ chan[x].state = "DISCONNECTING" => D[x].state = "DISCONNECTING"
             /\ /\ x \notin S /\ "node" \in chan[x].refs
                /\ chan[x].state \in {"ACCEPTING", "DISCONNECTING"}
                => /\ D[x].state \in {"ACCEPTING", "DISCONNECTING"}
                   /\ "node" \in D[x].refs
             /\ "WAITING_FOR_PORT" \in {chan[x].state, D[x].state} =>
                  D[x].state = chan[x].state /\ D[x].path = chan[x].path
  <2>1. CASE x \in S
    BY <1>2, <1>8, <2>1
  <2>2. CASE x \notin S
    BY <1>5, <1>6, <2>2
  <2> QED BY <2>1, <2>2
<1> QED BY <1>7, <1>9

(* Closing a port: its pending connections are shut down and unlinked.     *)
LEMMA ClosePortStep ==
  ASSUME ConnInv, TypeOK', NEW t \in Tasks, NEW p \in Ports,
         sys_close(t, p), port_shutdown(p)
  PROVE  ConnInv'
<1> DEFINE S == Elems(port[p].pending)
<1>1. chan \in ChanMap /\ Graph(chan) /\ TypeOK
  BY DEF ConnInv, TypeOK, ChanMap
<1>2. \A x \in S : x \in Chans /\ Queued(x)
  BY PendingElems DEF ConnInv, Elems
<1>3. \A x \in Chans : chan'[x] = IF x \in S THEN DelRef(Shutdown(chan, S)[x], "node")
                                  ELSE Shutdown(chan, S)[x]
  BY DEF port_shutdown, TearDown, DropNodes
<1> HIDE DEF S
<1>4. Graph(chan')
  BY <1>2, <1>3, TearDownEffects
<1>5. \A x \in Chans :
        /\ "handle" \in chan[x].refs =>
             /\ "handle" \in chan'[x].refs
             /\ chan[x].state = "DISCONNECTING" => chan'[x].state = "DISCONNECTING"
        /\ /\ x \notin S /\ "node" \in chan[x].refs
           /\ chan[x].state \in {"ACCEPTING", "DISCONNECTING"}
           => /\ chan'[x].state \in {"ACCEPTING", "DISCONNECTING"}
              /\ "node" \in chan'[x].refs
        /\ "WAITING_FOR_PORT" \in {chan[x].state, chan'[x].state} =>
             chan'[x].state = chan[x].state /\ chan'[x].path = chan[x].path
  BY <1>2, <1>3, TearDownEffects
<1>6. op \in [Tasks -> OpType] /\ table \in [Tasks -> SUBSET Handles]
  BY <1>1 DEF TypeOK
<1>7. /\ op' = [op EXCEPT ![t] = Call("decref", p, {})]
       /\ table' = [table EXCEPT ![t] = @ \ {p}] /\ op[t].kind = "idle"
       /\ p \notin Chans /\ waiting' = waiting
  BY IpcConnAssumption DEF sys_close, Running, port_shutdown
<1>8. \A x \in Chans, u \in Tasks : Holds(u, x)' <=> Holds(u, x)
  BY <1>6, <1>7 DEF Holds, Call
<1>9. Owned'
  <2>1. \A u \in Tasks, x \in Chans : Holds(u, x)' => "handle" \in chan'[x].refs
    BY <1>5, <1>8 DEF ConnInv, Owned
  <2>2. \A u, v \in Tasks, x \in Chans : Holds(u, x)' /\ Holds(v, x)' => u = v
    BY <1>8 DEF ConnInv, Owned
  <2>3. \A u \in Tasks :
          op'[u].kind \in {"connect", "connected", "close", "decref"} =>
            op'[u].h \notin table'[u]
    BY <1>6, <1>7 DEF ConnInv, Owned, Call
  <2>4. ASSUME NEW u \in Tasks, op'[u].kind = "decref", op'[u].h \in Chans
        PROVE  chan'[op'[u].h].state = "DISCONNECTING"
    <3>1. u # t /\ op'[u] = op[u]
      BY <1>6, <1>7, <2>4 DEF Call
    <3>2. chan[op[u].h].state = "DISCONNECTING" /\ Holds(u, op[u].h)
      BY <2>4, <3>1 DEF ConnInv, Owned, Holds
    <3>3. "handle" \in chan[op[u].h].refs
      BY <2>4, <3>1, <3>2 DEF ConnInv, Owned
    <3> QED BY <1>5, <2>4, <3>1, <3>2, <3>3
  <2> QED BY <2>1, <2>2, <2>3, <2>4 DEF Owned
<1>10. WaitLists'
  BY <1>1, <1>5, <1>7, WaitFrame DEF ConnInv
<1>11. PendingLists'
  <2>1. /\ port'[p].pending = << >>
        /\ \A r \in Ports \ {p} : port'[r] = port[r]
    BY <1>1 DEF port_shutdown, ClosePort, TypeOK, PortType
  <2>2. ASSUME NEW r \in Ports, NEW i \in 1..Len(port[r].pending),
               port'[r].pending = port[r].pending
        PROVE  Queued(port[r].pending[i])'
    <3>1. r # p
      BY <2>1, <2>2
    <3>2. port[r].pending[i] \in Chans /\ Queued(port[r].pending[i])
      BY PendingElems DEF ConnInv
    <3>3. PICK x \in Chans : x = port[r].pending[i]
      BY <3>2
    <3>4. x \notin S
      BY <3>1, <3>3 DEF S, Elems, ConnInv, PendingLists
    <3>5. /\ chan'[x].state \in {"ACCEPTING", "DISCONNECTING"}
          /\ "node" \in chan'[x].refs
      BY <1>5, <3>2, <3>3, <3>4 DEF Queued
    <3>6. \A u \in Tasks : ~Holds(u, x)'
      BY <1>8, <3>2, <3>3 DEF Queued
    <3>7. x = port'[r].pending[i]
      BY <2>1, <3>1, <3>3
    <3> QED BY <3>5, <3>6, <3>7 DEF Queued
  <2>3. \A r \in Ports : port'[r].pending = port[r].pending \/ port'[r].pending = << >>
    BY <2>1
  <2> QED BY <1>1, <2>2, <2>3, PendingFrame DEF ConnInv
<1> QED BY <1>4, <1>9, <1>10, <1>11 DEF ConnInv

-----------------------------------------------------------------------------
(* The last reference of a handle.                                         *)
LEMMA DecrefStep ==
  ASSUME ConnInv, TypeOK', NEW t \in Tasks, handle_decref(t)
  PROVE  ConnInv'
<1> DEFINE h == op[t].h
<1>1. chan \in ChanMap /\ Graph(chan) /\ TypeOK
  BY DEF ConnInv, TypeOK, ChanMap
<1>2. /\ op \in [Tasks -> OpType] /\ op' = [op EXCEPT ![t] = Idle]
      /\ op[t].kind = "decref" /\ table' = table /\ waiting' = waiting
  BY <1>1 DEF handle_decref, TypeOK
<1>3. /\ op'[t] = Idle /\ \A u \in Tasks \ {t} : op'[u] = op[u]
  BY <1>2
<1>4. h \notin table[t]
  BY <1>2 DEF ConnInv, Owned
<1>5. ASSUME NEW x \in Chans, NEW u \in Tasks
      PROVE  Holds(u, x)' <=> Holds(u, x) /\ ~(u = t /\ x = h)
  BY <1>2, <1>3, <1>4 DEF Holds, Idle, Call
<1>6. \A u \in Tasks :
        op'[u].kind \in {"connect", "connected", "close", "decref"} =>
          op'[u] = op[u] /\ u # t
  BY <1>3 DEF Idle, Call
<1>7. CASE h \in Chans
  <2>1. chan' = [chan EXCEPT ![h] = DelRef(@, "handle")] /\ port' = port
    BY <1>7, IpcConnAssumption DEF handle_decref
  <2>2. chan[h].state = "DISCONNECTING" /\ Holds(t, h)
    BY <1>2, <1>7 DEF ConnInv, Owned, Holds
  <2>3. \A x \in Chans :
          chan'[x] = IF x \in {h} THEN DelRef(chan[x], "handle") ELSE chan[x]
    BY <1>1, <1>7, <2>1 DEF ChanMap
  <2>4. Graph(chan')
    BY <1>1, <1>7, <2>2, <2>3, DropRefGraph
  <2>5. \A x \in Chans : x # h => chan'[x] = chan[x]
    BY <2>3
  <2>6. \A u \in Tasks, x \in Chans : x = h => ~Holds(u, x)'
    BY <1>5, <1>7, <2>2 DEF ConnInv, Owned
  <2>7. chan[h] \in ChanType
    BY <1>1, <1>7 DEF ChanMap
  <2>8. chan'[h].state \in {"FREE", "DISCONNECTING"}
    BY <1>7, <2>2, <2>3, <2>7, DelRefFields, FreeFields DEF LessRef
  <2>9. Owned'
    <3>1. \A u \in Tasks, x \in Chans : Holds(u, x)' => "handle" \in chan'[x].refs
      BY <1>5, <2>5, <2>6 DEF ConnInv, Owned
    <3>2. \A u, v \in Tasks, x \in Chans : Holds(u, x)' /\ Holds(v, x)' => u = v
      BY <1>5 DEF ConnInv, Owned
    <3>3. \A u \in Tasks :
            op'[u].kind \in {"connect", "connected", "close", "decref"} =>
              op'[u].h \notin table'[u]
      BY <1>2, <1>6 DEF ConnInv, Owned
    <3>4. ASSUME NEW u \in Tasks, op'[u].kind = "decref", op'[u].h \in Chans
          PROVE  chan'[op'[u].h].state = "DISCONNECTING"
      <4>1. op'[u] = op[u] /\ Holds(u, op[u].h) /\ u # t
        BY <1>6, <3>4 DEF Holds
      <4>2. op[u].h # h
        BY <1>7, <2>2, <4>1 DEF ConnInv, Owned
      <4> QED BY <2>5, <3>4, <4>1, <4>2 DEF ConnInv, Owned
    <3> QED BY <3>1, <3>2, <3>3, <3>4 DEF Owned
  <2>10. WaitLists'
    <3>1. \A x \in Chans :
            "WAITING_FOR_PORT" \in {chan[x].state, chan'[x].state} =>
              chan'[x].state = chan[x].state /\ chan'[x].path = chan[x].path
      BY <2>2, <2>5, <2>8
    <3> QED BY <1>1, <1>2, <3>1, WaitFrame DEF ConnInv
  <2>11. PendingLists'
    <3>1. ASSUME NEW p \in Ports, NEW i \in 1..Len(port[p].pending)
          PROVE  Queued(port[p].pending[i])'
      <4>1. port[p].pending[i] \in Chans /\ Queued(port[p].pending[i])
        BY PendingElems DEF ConnInv
      <4>2. port[p].pending[i] # h
        BY <2>2, <4>1 DEF Queued
      <4> QED BY <1>5, <2>1, <2>5, <4>1, <4>2 DEF Queued
    <3> QED BY <1>1, <2>1, <3>1, PendingFrame DEF ConnInv
  <2> QED BY <2>4, <2>9, <2>10, <2>11 DEF ConnInv
<1>8. CASE h \notin Chans
  <2>1. h \in Ports /\ port' = [port EXCEPT ![h] = UnrefPort(@)] /\ chan' = chan
    BY <1>8 DEF handle_decref
  <2>2. \A x \in Chans, u \in Tasks : Holds(u, x)' <=> Holds(u, x)
    BY <1>5, <1>8
  <2>3. Owned'
    <3>1. \A u \in Tasks, x \in Chans : Holds(u, x)' => "handle" \in chan'[x].refs
      BY <2>1, <2>2 DEF ConnInv, Owned
    <3>2. \A u, v \in Tasks, x \in Chans : Holds(u, x)' /\ Holds(v, x)' => u = v
      BY <2>2 DEF ConnInv, Owned
    <3>3. \A u \in Tasks :
            op'[u].kind \in {"connect", "connected", "close", "decref"} =>
              op'[u].h \notin table'[u]
      BY <1>2, <1>6 DEF ConnInv, Owned
    <3>4. \A u \in Tasks :
            op'[u].kind = "decref" /\ op'[u].h \in Chans =>
              chan'[op'[u].h].state = "DISCONNECTING"
      BY <1>6, <2>1 DEF ConnInv, Owned
    <3> QED BY <3>1, <3>2, <3>3, <3>4 DEF Owned
  <2>4. WaitLists'
    BY <1>1, <1>2, <2>1, WaitFrame DEF ConnInv
  <2>5. PendingLists'
    <3>1. \A p \in Ports : \/ port'[p].pending = port[p].pending
                           \/ port'[p].pending = << >>
      BY <1>1, <2>1 DEF UnrefPort, FreePort, TypeOK, PortType
    <3>2. ASSUME NEW p \in Ports, NEW i \in 1..Len(port[p].pending),
                 port'[p].pending = port[p].pending
          PROVE  Queued(port[p].pending[i])'
      <4>1. port[p].pending[i] \in Chans /\ Queued(port[p].pending[i])
        BY PendingElems DEF ConnInv
      <4> QED BY <2>1, <2>2, <3>2, <4>1 DEF Queued
    <3> QED BY <1>1, <3>1, <3>2, PendingFrame DEF ConnInv
  <2> QED BY <1>1, <2>1, <2>3, <2>4, <2>5 DEF ConnInv
<1> QED BY <1>7, <1>8
-----------------------------------------------------------------------------
(* Accepting a connection.                                                 *)

(* Task t gains the handles of G, which nobody held.                       *)
LEMMA OwnedFrame ==
  ASSUME ConnInv, NEW t \in Tasks, NEW G \in SUBSET Chans,
         \A x \in G, u \in Tasks : ~Holds(u, x),
         \A x \in Chans, u \in Tasks :
           Holds(u, x)' <=> Holds(u, x) \/ (u = t /\ x \in G),
         \A x \in G : "handle" \in chan'[x].refs,
         \A x \in Chans :
           "handle" \in chan[x].refs =>
             /\ "handle" \in chan'[x].refs
             /\ chan[x].state = "DISCONNECTING" => chan'[x].state = "DISCONNECTING",
         \A u \in Tasks \ {t} : op'[u] = op[u] /\ table'[u] = table[u],
         op'[t].kind # "decref",
         op'[t].kind \in {"connect", "connected", "close"} => op'[t].h \notin table'[t]
  PROVE  Owned'
<1>1. \A u \in Tasks, x \in Chans : Holds(u, x)' => "handle" \in chan'[x].refs
  BY DEF ConnInv, Owned
<1>2. \A u, v \in Tasks, x \in Chans : Holds(u, x)' /\ Holds(v, x)' => u = v
  BY DEF ConnInv, Owned
<1>3. \A u \in Tasks :
        op'[u].kind \in {"connect", "connected", "close", "decref"} =>
          op'[u].h \notin table'[u]
  BY DEF ConnInv, Owned
<1>4. ASSUME NEW u \in Tasks, op'[u].kind = "decref", op'[u].h \in Chans
      PROVE  chan'[op'[u].h].state = "DISCONNECTING"
  <2>1. op'[u] = op[u] /\ Holds(u, op[u].h)
    BY <1>4 DEF Holds
  <2>2. chan[op[u].h].state = "DISCONNECTING" /\ "handle" \in chan[op[u].h].refs
    BY <1>4, <2>1 DEF ConnInv, Owned
  <2> QED BY <1>4, <2>1, <2>2
<1> QED BY <1>1, <1>2, <1>3, <1>4 DEF Owned

(* The first connection leaves the pending list of p.                      *)
LEMMA TakeFrame ==
  ASSUME ConnInv, NEW p \in Ports, port[p].pending # << >>,
         port' = [port EXCEPT ![p] = TakePending(@)],
         \A x \in Chans : Queued(x) /\ x # Head(port[p].pending) => Queued(x)'
  PROVE  PendingLists'
<1>1. TypeOK /\ PendingLists
  BY DEF ConnInv
<1>2. \A r \in Ports : port[r] \in PortType /\ port[r].pending \in Seq(Chans)
  BY <1>1 DEF TypeOK, PortType
<1>3. port'[p].pending = Tail(port[p].pending)
      /\ \A r \in Ports \ {p} : port'[r] = port[r]
  BY <1>1, <1>2 DEF TypeOK, TakePending, PortType
<1> DEFINE shift(r) == IF r = p THEN 1 ELSE 0
<1>4. ASSUME NEW r \in Ports, NEW i \in 1..Len(port'[r].pending)
      PROVE  /\ i + shift(r) \in 1..Len(port[r].pending)
             /\ port'[r].pending[i] = port[r].pending[i + shift(r)]
             /\ r = p => i + shift(r) # 1
  <2>1. CASE r = p
    <3>1. /\ Len(Tail(port[p].pending)) = Len(port[p].pending) - 1
          /\ \A k \in 1..(Len(port[p].pending) - 1) :
               Tail(port[p].pending)[k] = port[p].pending[k + 1]
          /\ Len(port[p].pending) \in Nat
      BY <1>2
    <3>2. i \in 1..(Len(port[p].pending) - 1)
      BY <1>3, <2>1, <3>1
    <3>3. port'[r].pending[i] = port[r].pending[i + 1]
      BY <1>3, <2>1, <3>1, <3>2
    <3> QED BY <2>1, <3>1, <3>2, <3>3
  <2>2. CASE r # p
    BY <1>2, <1>3, <2>2
  <2> QED BY <2>1, <2>2
<1>5. ASSUME NEW r \in Ports, NEW i \in 1..Len(port'[r].pending)
      PROVE  Queued(port[r].pending[i])'
  <2>1. PICK x \in Chans : x = port'[r].pending[i] /\ Queued(x)
    BY <1>1, <1>4, PendingElems
  <2>2. 1 \in 1..Len(port[p].pending) /\ Head(port[p].pending) = port[p].pending[1]
    BY <1>2
  <2>3. x # Head(port[p].pending)
    BY <1>1, <1>4, <2>1, <2>2 DEF PendingLists
  <2>4. Queued(x)'
    BY <2>1, <2>3
  <2> QED BY <2>1, <2>4
<1>6. ASSUME NEW r \in Ports, NEW v \in Ports, NEW i \in 1..Len(port'[r].pending),
             NEW j \in 1..Len(port'[v].pending),
             port'[r].pending[i] = port'[v].pending[j]
      PROVE  r = v /\ i = j
  <2>1. r = v /\ i + shift(r) = j + shift(v)
    BY <1>1, <1>4, <1>6 DEF PendingLists
  <2> QED BY <2>1
<1> QED BY <1>5, <1>6 DEF PendingLists, Queued

LEMMA AcceptStep ==
  ASSUME ConnInv, TypeOK', NEW t \in Tasks, NEW p \in Ports, sys_accept(t, p)
  PROVE  ConnInv'
<1>1. chan \in ChanMap /\ Graph(chan) /\ TypeOK /\ port[p].pending # << >>
  BY DEF ConnInv, TypeOK, ChanMap, sys_accept
<1>2. port[p].pending \in Seq(Chans)
  BY <1>1 DEF TypeOK, PortType
<1>3. 1 \in 1..Len(port[p].pending) /\ Head(port[p].pending) = port[p].pending[1]
  BY <1>1, <1>2
<1>4. PICK s \in Chans : s = Head(port[p].pending) /\ Queued(s)
  BY <1>3, PendingElems DEF ConnInv
<1>5. /\ Accept(t, s) \/ DropPending(s)
      /\ port' = [port EXCEPT ![p] = TakePending(@)] /\ waiting' = waiting
      /\ op[t].kind = "idle"
  BY <1>4 DEF sys_accept, Running
<1>6. op \in [Tasks -> OpType] /\ table \in [Tasks -> SUBSET Handles]
  BY <1>1 DEF TypeOK
<1>7. CASE Accept(t, s)
  <2>1. PICK c \in Chans : chan[s].peer = c /\ chan[c].state = "CONNECTING"
    BY <1>1, <1>7, ChanFieldTypes DEF Accept, Acceptable, ChanMap
  <2>2. chan[s].state = "ACCEPTING" /\ c # s
    BY <1>7, <2>1 DEF Accept, Acceptable
  <2>3. /\ chan'[s] = AcceptServer(chan[s]) /\ chan'[c] = AcceptClient(chan[c])
        /\ \A x \in Chans \ {s, c} : chan'[x] = chan[x]
    BY <1>1, <1>7, <2>1, <2>2 DEF Accept, ChanMap
  <2>4. /\ chan'[s].state = "CONNECTED" /\ chan'[s].peer = chan[s].peer
        /\ chan'[s].queue = chan[s].queue
        /\ "peer" \in chan[s].refs => "peer" \in chan'[s].refs
        /\ "handle" \in chan'[s].refs
    BY <1>1, <2>3 DEF AcceptServer, ChanMap, ChanType, ChanFields
  <2>5. /\ chan'[c].state = "CONNECTED" /\ chan'[c].peer = chan[c].peer
        /\ chan'[c].queue = chan[c].queue /\ chan'[c].refs = chan[c].refs
    BY <1>1, <2>3 DEF AcceptClient, ChanMap, ChanType, ChanFields
  <2>6. Graph(chan')
    BY <1>1, <2>1, <2>2, <2>3, <2>4, <2>5, AcceptGraph
  <2>7. \/ op' = op /\ table' = [table EXCEPT ![t] = @ \cup {s}]
        \/ table' = table /\ op' = [op EXCEPT ![t] = Call("close", s, {})]
    BY <1>7 DEF Accept
  <2>8. \A x \in Chans, u \in Tasks :
          Holds(u, x)' <=> Holds(u, x) \/ (u = t /\ x \in {s})
    BY <1>5, <1>6, <2>7 DEF Holds, Call
  <2>9. /\ \A u \in Tasks \ {t} : op'[u] = op[u] /\ table'[u] = table[u]
        /\ op'[t].kind # "decref"
    BY <1>5, <1>6, <2>7 DEF Call
  <2>10. op'[t].kind \in {"connect", "connected", "close"} => op'[t].h \notin table'[t]
    <3>1. ~Holds(t, s)
      BY <1>4 DEF Queued
    <3> QED BY <1>5, <1>6, <2>7, <3>1 DEF Call, Holds
  <2>11. \A x \in Chans :
           "handle" \in chan[x].refs =>
             /\ "handle" \in chan'[x].refs
             /\ chan[x].state = "DISCONNECTING" => chan'[x].state = "DISCONNECTING"
    BY <2>1, <2>2, <2>3, <2>4, <2>5
  <2>12. Owned'
    <3>1. \A x \in {s}, u \in Tasks : ~Holds(u, x)
      BY <1>4 DEF Queued
    <3>2. \A x \in {s} : "handle" \in chan'[x].refs
      BY <2>4
    <3>3. {s} \in SUBSET Chans
      OBVIOUS
    <3> QED BY <2>8, <2>9, <2>10, <2>11, <3>1, <3>2, <3>3, OwnedFrame
  <2>13. WaitLists'
    BY <1>1, <1>5, <2>1, <2>2, <2>3, <2>4, <2>5, WaitFrame DEF ConnInv
  <2>14. \A x \in Chans : Queued(x) /\ x # s => Queued(x)'
    BY <2>1, <2>3, <2>8 DEF Queued
  <2>15. PendingLists'
    BY <1>1, <1>4, <1>5, <2>14, TakeFrame
  <2> QED BY <2>6, <2>12, <2>13, <2>15 DEF ConnInv
<1>8. CASE DropPending(s)
  <2>1. chan' = [Shutdown(chan, {s}) EXCEPT ![s] = DelRef(@, "node")]
        /\ table' = table /\ op' = op
    BY <1>8 DEF DropPending
  <2>2. \A x \in Chans :
          chan'[x] = IF x \in {s} THEN DelRef(Shutdown(chan, {s})[x], "node")
                     ELSE Shutdown(chan, {s})[x]
    BY <2>1 DEF Shutdown
  <2>3. {s} \in SUBSET Chans /\ \A x \in {s} : Queued(x)
    BY <1>4
  <2>4. Graph(chan')
    BY <2>2, <2>3, TearDownEffects
  <2>5. \A x \in Chans :
          /\ "handle" \in chan[x].refs =>
               /\ "handle" \in chan'[x].refs
               /\ chan[x].state = "DISCONNECTING" => chan'[x].state = "DISCONNECTING"
          /\ /\ x \notin {s} /\ "node" \in chan[x].refs
             /\ chan[x].state \in {"ACCEPTING", "DISCONNECTING"}
             => /\ chan'[x].state \in {"ACCEPTING", "DISCONNECTING"}
                /\ "node" \in chan'[x].refs
          /\ "WAITING_FOR_PORT" \in {chan[x].state, chan'[x].state} =>
               chan'[x].state = chan[x].state /\ chan'[x].path = chan[x].path
    BY <2>2, <2>3, TearDownEffects
  <2>6. \A x \in Chans, u \in Tasks : Holds(u, x)' <=> Holds(u, x)
    BY <2>1 DEF Holds
  <2>7. Owned'
    <3>1. op'[t].kind # "decref" /\ op'[t].kind \notin {"connect", "connected", "close"}
      BY <1>5, <2>1
    <3>2. /\ \A u \in Tasks \ {t} : op'[u] = op[u] /\ table'[u] = table[u]
          /\ \A x \in Chans, u \in Tasks :
               Holds(u, x)' <=> Holds(u, x) \/ (u = t /\ x \in {})
      BY <2>1, <2>6
    <3>3. /\ {} \in SUBSET Chans /\ \A x \in {}, u \in Tasks : ~Holds(u, x)
          /\ \A x \in {} : "handle" \in chan'[x].refs
      OBVIOUS
    <3> QED BY <2>5, <3>1, <3>2, <3>3, OwnedFrame
  <2>8. WaitLists'
    BY <1>1, <1>5, <2>5, WaitFrame DEF ConnInv
  <2>9. \A x \in Chans : Queued(x) /\ x # s => Queued(x)'
    BY <2>5, <2>6 DEF Queued
  <2>10. PendingLists'
    BY <1>1, <1>4, <1>5, <2>9, TakeFrame
  <2> QED BY <2>4, <2>7, <2>8, <2>10 DEF ConnInv
<1> QED BY <1>5, <1>7, <1>8
-----------------------------------------------------------------------------
(* New connections.                                                        *)

LEMMA FreeUnheld ==
  ASSUME ConnInv, NEW c \in Chans, chan[c].state = "FREE"
  PROVE  /\ chan[c].refs = {} /\ ~Queued(c)
         /\ \A u \in Tasks : ~Holds(u, c)
BY HeldNotFree DEF ConnInv, Graph, Queued

LEMMA InstallHolds ==
  ASSUME ConnInv, NEW t \in Tasks, NEW c \in Chans, chan[c].state = "FREE",
         Running(t), NEW sync, InstallOrWait(t, c, sync)
  PROVE  /\ \A x \in Chans, u \in Tasks :
              Holds(u, x)' <=> Holds(u, x) \/ (u = t /\ x \in {c})
         /\ \A u \in Tasks \ {t} : op'[u] = op[u] /\ table'[u] = table[u]
         /\ op'[t].kind # "decref"
         /\ op'[t].kind \in {"connect", "connected", "close"} =>
              op'[t].h \notin table'[t]
<1>1. op \in [Tasks -> OpType] /\ table \in [Tasks -> SUBSET Handles]
  BY DEF ConnInv, TypeOK
<1>2. \/ op' = op /\ table' = [table EXCEPT ![t] = @ \cup {c}]
      \/ /\ table' = table
         /\ \E kind \in {"connect", "close"} :
              op' = [op EXCEPT ![t] = Call(kind, c, {})]
  BY DEF InstallOrWait
<1>3. op[t].kind = "idle" /\ c \notin table[t]
  BY FreeUnheld DEF Running, Holds
<1>4. CASE op' = op /\ table' = [table EXCEPT ![t] = @ \cup {c}]
  BY <1>1, <1>3, <1>4 DEF Holds
<1>5. ASSUME NEW kind \in {"connect", "close"}, table' = table,
             op' = [op EXCEPT ![t] = Call(kind, c, {})]
      PROVE  /\ \A x \in Chans, u \in Tasks :
                  Holds(u, x)' <=> Holds(u, x) \/ (u = t /\ x \in {c})
             /\ \A u \in Tasks \ {t} : op'[u] = op[u] /\ table'[u] = table[u]
             /\ op'[t].kind # "decref"
             /\ op'[t].kind \in {"connect", "connected", "close"} =>
                  op'[t].h \notin table'[t]
  <2>1. /\ op'[t].kind = kind /\ op'[t].h = c
        /\ \A u \in Tasks \ {t} : op'[u] = op[u]
    BY <1>1, <1>5 DEF Call
  <2> QED BY <1>3, <1>5, <2>1 DEF Holds
<1> QED BY <1>2, <1>4, <1>5

(* Connections are added to the list of p, which becomes ss.               *)
LEMMA QueueFrame ==
  ASSUME ConnInv, NEW p \in Ports, NEW ss \in Seq(Chans), port'[p].pending = ss,
         \A r \in Ports \ {p} : port'[r] = port[r],
         \A i, j \in 1..Len(ss) : ss[i] = ss[j] => i = j,
         \A i \in 1..Len(ss) :
           \/ ~Queued(ss[i])
           \/ i \in 1..Len(port[p].pending) /\ ss[i] = port[p].pending[i],
         \A i \in 1..Len(ss) : \A x \in Chans : x = ss[i] => Queued(x)',
         \A x \in Chans : Queued(x) => Queued(x)'
  PROVE  PendingLists'
<1>1. TypeOK /\ PendingLists
  BY DEF ConnInv
<1>2. ASSUME NEW r \in Ports \ {p}, NEW i \in 1..Len(port'[r].pending)
      PROVE  /\ i \in 1..Len(port[r].pending)
             /\ port'[r].pending[i] = port[r].pending[i]
             /\ port[r].pending[i] \in Chans /\ Queued(port[r].pending[i])
  BY <1>1, PendingElems
<1>3. ASSUME NEW r \in Ports, NEW i \in 1..Len(port'[r].pending)
      PROVE  Queued(port[r].pending[i])'
  <2>1. PICK x \in Chans : x = port'[r].pending[i] /\ Queued(x)'
    <3>1. CASE r = p
      BY <3>1
    <3>2. CASE r # p
      BY <1>2, <3>2
    <3> QED BY <3>1, <3>2
  <2> QED BY <2>1
<1>4. ASSUME NEW r \in Ports \ {p}, NEW i \in 1..Len(port'[p].pending),
             NEW j \in 1..Len(port'[r].pending)
      PROVE  port'[p].pending[i] # port'[r].pending[j]
  <2>1. Queued(port'[r].pending[j]) /\ port'[r].pending[j] = port[r].pending[j]
        /\ j \in 1..Len(port[r].pending)
    BY <1>2
  <2>2. \/ ~Queued(port'[p].pending[i])
        \/ i \in 1..Len(port[p].pending) /\ port'[p].pending[i] = port[p].pending[i]
    OBVIOUS
  <2> QED BY <1>1, <2>1, <2>2 DEF PendingLists
<1>5. ASSUME NEW r \in Ports, NEW v \in Ports, NEW i \in 1..Len(port'[r].pending),
             NEW j \in 1..Len(port'[v].pending),
             port'[r].pending[i] = port'[v].pending[j]
      PROVE  r = v /\ i = j
  <2>1. CASE r = p /\ v = p
    BY <1>5, <2>1
  <2>2. CASE r # p /\ v # p
    BY <1>1, <1>2, <1>5, <2>2 DEF PendingLists
  <2>3. CASE r = p /\ v # p
    BY <1>4, <1>5, <2>3
  <2>4. CASE r # p /\ v = p
    BY <1>4, <1>5, <2>4
  <2> QED BY <2>1, <2>2, <2>3, <2>4
<1> QED BY <1>3, <1>5 DEF PendingLists, Queued

LEMMA ConnectToPortStep ==
  ASSUME ConnInv, TypeOK', NEW t \in Tasks, NEW c \in Chans, NEW p \in Ports,
         chan[c].state = "FREE", Running(t), NEW sync,
         InstallOrWait(t, c, sync), ConnectToPort(t, c, p)
  PROVE  ConnInv'
<1>1. chan \in ChanMap /\ Graph(chan) /\ TypeOK
  BY DEF ConnInv, TypeOK, ChanMap
<1>2. PICK s \in Unused \ {c} :
        /\ chan' = [chan EXCEPT
             ![c] = ClientEnd([FreeChan EXCEPT !.uuid = t], s, {"handle", "peer"}),
             ![s] = ServerEnd(c, port[p].uuid)]
        /\ port' = [port EXCEPT ![p] = QueuePending(@, s)]
        /\ waiting' = waiting
  BY DEF ConnectToPort
<1>3. s \in Chans /\ chan[s].state = "FREE" /\ s # c
  BY DEF Unused
<1>4. /\ chan'[c] = ClientEnd([FreeChan EXCEPT !.uuid = t], s, {"handle", "peer"})
      /\ chan'[s] = ServerEnd(c, port[p].uuid)
      /\ \A x \in Chans \ {c, s} : chan'[x] = chan[x]
  BY <1>1, <1>2, <1>3 DEF ChanMap
<1>5. /\ chan'[c].state = "CONNECTING" /\ chan'[c].peer = s /\ chan'[c].queue
      /\ chan'[c].refs = {"handle", "peer"}
  BY <1>4 DEF ClientEnd, FreeChan
<1>6. /\ chan'[s].state = "ACCEPTING" /\ chan'[s].peer = c /\ chan'[s].queue
      /\ chan'[s].refs = {"node", "peer"}
  BY <1>4 DEF ServerEnd, FreeChan
<1>7. Graph(chan')
  <2> DEFINE f == [x \in {c, s} |-> IF x = c THEN s ELSE c]
             K == {c}
             V == {s}
  <2>1. f[c] = s /\ f[s] = c
    BY <1>3
  <2>2. \A x : (x \in K <=> x = c) /\ (x \in V <=> x = s)
    OBVIOUS
  <2>3. K \in SUBSET Chans /\ V \in SUBSET Chans
    BY <1>3
  <2> HIDE DEF f, K, V
  <2>4. \A x \in K \cup V :
          /\ chan[x].state \in {"FREE", "WAITING_FOR_PORT"}
          /\ chan'[x].peer = f[x] /\ chan'[x].queue
          /\ "peer" \in chan'[x].refs /\ f[f[x]] = x
    BY <1>3, <1>5, <1>6, <2>1, <2>2
  <2>5. /\ \A x \in K : chan'[x].state = "CONNECTING" /\ f[x] \in V
        /\ \A x \in V : chan'[x].state = "ACCEPTING" /\ f[x] \in K
        /\ \A x \in Chans \ (K \cup V) : chan'[x] = chan[x]
    BY <1>4, <1>5, <1>6, <2>1, <2>2
  <2>6. chan \in ChanMap /\ Graph(chan)
    BY <1>1
  <2> QED BY ONLY <2>3, <2>4, <2>5, <2>6, AttachGraph
<1>8. /\ \A x \in Chans, u \in Tasks :
           Holds(u, x)' <=> Holds(u, x) \/ (u = t /\ x \in {c})
      /\ \A u \in Tasks \ {t} : op'[u] = op[u] /\ table'[u] = table[u]
      /\ op'[t].kind # "decref"
      /\ op'[t].kind \in {"connect", "connected", "close"} =>
           op'[t].h \notin table'[t]
  BY InstallHolds
<1>9. /\ chan[c].refs = {} /\ ~Queued(c) /\ \A u \in Tasks : ~Holds(u, c)
      /\ chan[s].refs = {} /\ ~Queued(s) /\ \A u \in Tasks : ~Holds(u, s)
  BY <1>3, FreeUnheld
<1>10. Owned'
  <2>1. \A x \in Chans :
          "handle" \in chan[x].refs =>
            /\ "handle" \in chan'[x].refs
            /\ chan[x].state = "DISCONNECTING" => chan'[x].state = "DISCONNECTING"
    BY <1>4, <1>9
  <2> DEFINE G == {c}
  <2>2. /\ G \in SUBSET Chans /\ \A x \in G, u \in Tasks : ~Holds(u, x)
        /\ \A x \in G : "handle" \in chan'[x].refs
    BY <1>5, <1>9
  <2>3. \A x \in Chans, u \in Tasks :
          Holds(u, x)' <=> Holds(u, x) \/ (u = t /\ x \in G)
    BY <1>8
  <2> HIDE DEF G
  <2> QED BY <1>8, <2>1, <2>2, <2>3, OwnedFrame
<1>11. WaitLists'
  BY <1>1, <1>2, <1>3, <1>4, <1>5, <1>6, WaitFrame DEF ConnInv
<1>12. PendingLists'
  <2> DEFINE w == port[p].pending
             ss == Append(w, s)
  <2>1. w \in Seq(Chans) /\ port[p] \in PortType
    BY <1>1 DEF TypeOK, PortType
  <2>2. /\ ss \in Seq(Chans) /\ Len(ss) = Len(w) + 1 /\ Len(w) \in Nat
        /\ \A i \in 1..Len(w) : ss[i] = w[i]
        /\ ss[Len(w) + 1] = s
    BY <1>3, <2>1
  <2>3. port'[p].pending = ss /\ \A r \in Ports \ {p} : port'[r] = port[r]
    BY <1>1, <1>2, <2>1 DEF QueuePending, TypeOK, PortType
  <2>4. \A i \in 1..Len(w) : w[i] \in Chans /\ Queued(w[i])
    BY <1>1, PendingElems DEF ConnInv
  <2>5. \A i, j \in 1..Len(w) : w[i] = w[j] => i = j
    BY DEF ConnInv, PendingLists
  <2> HIDE DEF ss, w
  <2>6. ASSUME NEW i \in 1..Len(ss)
        PROVE  (i \in 1..Len(w) /\ ss[i] = w[i]) \/ (i = Len(w) + 1 /\ ss[i] = s)
    BY <2>2
  <2>7. \A i, j \in 1..Len(ss) : ss[i] = ss[j] => i = j
    BY <1>9, <2>4, <2>5, <2>6
  <2>8. \A x \in Chans : Queued(x) => Queued(x)'
    BY <1>4, <1>8, <1>9 DEF Queued
  <2>9. Queued(s)'
    BY <1>3, <1>6, <1>8, <1>9 DEF Queued
  <2>10. \A i \in 1..Len(ss) : \A x \in Chans : x = ss[i] => Queued(x)'
    BY <2>4, <2>6, <2>8, <2>9
  <2>11. \A i \in 1..Len(ss) :
           ~Queued(ss[i]) \/ (i \in 1..Len(port[p].pending) /\ ss[i] = port[p].pending[i])
    BY <1>9, <2>6 DEF w
  <2> QED BY <2>2, <2>3, <2>7, <2>8, <2>10, <2>11, QueueFrame
<1> QED BY <1>7, <1>10, <1>11, <1>12 DEF ConnInv
LEMMA ConnectWaitStep ==
  ASSUME ConnInv, TypeOK', NEW t \in Tasks, NEW c \in Chans, NEW q \in Paths,
         chan[c].state = "FREE", Running(t), NEW sync,
         InstallOrWait(t, c, sync), ConnectWaitForPort(t, c, q)
  PROVE  ConnInv'
<1>1. chan \in ChanMap /\ Graph(chan) /\ TypeOK /\ waiting \in [Paths -> Seq(Chans)]
  BY DEF ConnInv, TypeOK, ChanMap
<1>2. \A x \in Chans \ {c} : chan'[x] = chan[x]
  BY <1>1 DEF ConnectWaitForPort, ChanMap
<1>3. /\ chan'[c].state = "WAITING_FOR_PORT" /\ chan'[c].peer = NULL
      /\ chan'[c].path = q /\ chan'[c].refs = {"handle", "node"}
  BY <1>1 DEF ConnectWaitForPort, ChanMap, FreeChan
<1>4. port' = port /\ waiting' = [waiting EXCEPT ![q] = Append(@, c)]
  BY DEF ConnectWaitForPort
<1>5. Graph(chan')
  BY <1>1, <1>2, <1>3, WaitGraph
<1>6. /\ \A x \in Chans, u \in Tasks :
           Holds(u, x)' <=> Holds(u, x) \/ (u = t /\ x \in {c})
      /\ \A u \in Tasks \ {t} : op'[u] = op[u] /\ table'[u] = table[u]
      /\ op'[t].kind # "decref"
      /\ op'[t].kind \in {"connect", "connected", "close"} =>
           op'[t].h \notin table'[t]
  BY InstallHolds
<1>7. chan[c].refs = {} /\ ~Queued(c) /\ \A u \in Tasks : ~Holds(u, c)
  BY FreeUnheld
<1>8. Owned'
  <2>1. \A x \in Chans :
          "handle" \in chan[x].refs =>
            /\ "handle" \in chan'[x].refs
            /\ chan[x].state = "DISCONNECTING" => chan'[x].state = "DISCONNECTING"
    BY <1>2, <1>7
  <2> DEFINE G == {c}
  <2>2. /\ G \in SUBSET Chans /\ \A x \in G, u \in Tasks : ~Holds(u, x)
        /\ \A x \in G : "handle" \in chan'[x].refs
    BY <1>3, <1>7
  <2>3. \A x \in Chans, u \in Tasks :
          Holds(u, x)' <=> Holds(u, x) \/ (u = t /\ x \in G)
    BY <1>6
  <2> HIDE DEF G
  <2> QED BY <1>6, <2>1, <2>2, <2>3, OwnedFrame
<1>9. WaitLists'
  <2> DEFINE w == waiting[q]
             ww == waiting'[q]
  <2>1. w \in Seq(Chans)
    BY <1>1
  <2>2. ww = Append(w, c)
        /\ \A r \in Paths \ {q} : waiting'[r] = waiting[r]
    BY <1>1, <1>4
  <2>3. /\ Len(ww) = Len(w) + 1 /\ Len(w) \in Nat
        /\ \A i \in 1..Len(w) : ww[i] = w[i]
        /\ ww[Len(w) + 1] = c
    BY <2>1, <2>2
  <2>4. ASSUME NEW r \in Paths, NEW i \in 1..Len(waiting[r])
        PROVE  /\ waiting[r][i] \in Chans \ {c}
               /\ chan[waiting[r][i]].state = "WAITING_FOR_PORT"
               /\ chan[waiting[r][i]].path = r
    BY <1>1 DEF ConnInv, WaitLists
  <2>5. \A i, j \in 1..Len(w) : w[i] = w[j] => i = j
    BY DEF ConnInv, WaitLists
  <2>6. \A i \in 1..Len(w) : w[i] # c
    BY <2>4
  <2>7. ASSUME NEW i \in 1..Len(ww)
        PROVE  (i \in 1..Len(w) /\ ww[i] = w[i]) \/ (i = Len(w) + 1 /\ ww[i] = c)
    BY <2>3
  <2>8. ASSUME NEW r \in Paths, NEW i \in 1..Len(waiting'[r])
        PROVE  /\ chan'[waiting'[r][i]].state = "WAITING_FOR_PORT"
               /\ chan'[waiting'[r][i]].path = r
    <3>1. CASE r # q
      BY <1>2, <2>2, <2>4, <3>1
    <3>2. CASE r = q
      BY <1>2, <1>3, <2>4, <2>7, <3>2
    <3> QED BY <3>1, <3>2
  <2>9. ASSUME NEW r \in Paths, NEW i \in 1..Len(waiting'[r]),
               NEW j \in 1..Len(waiting'[r]), waiting'[r][i] = waiting'[r][j]
        PROVE  i = j
    <3>1. CASE r # q
      BY <2>2, <2>9, <3>1 DEF ConnInv, WaitLists
    <3>2. CASE r = q
      BY <2>5, <2>6, <2>7, <2>9, <3>2
    <3> QED BY <3>1, <3>2
  <2>10. ASSUME NEW x \in Chans, chan'[x].state = "WAITING_FOR_PORT"
         PROVE  chan'[x].path \in Paths /\ x \in Elems(waiting'[chan'[x].path])
    <3>1. CASE x = c
      <4>1. Len(w) + 1 \in 1..Len(ww) /\ ww[Len(w) + 1] = c
        BY <2>3
      <4> QED BY <1>3, <3>1, <4>1 DEF Elems
    <3>2. CASE x # c
      <4>1. chan'[x] = chan[x] /\ chan[x].path \in Paths
            /\ x \in Elems(waiting[chan[x].path])
        BY <1>2, <2>10, <3>2 DEF ConnInv, WaitLists
      <4>2. CASE chan[x].path # q
        BY <2>2, <4>1, <4>2
      <4>3. CASE chan[x].path = q
        <5>1. PICK i \in 1..Len(w) : w[i] = x
          BY <4>1, <4>3 DEF Elems
        <5>2. i \in 1..Len(ww) /\ ww[i] = x
          BY <2>3, <5>1
        <5> QED BY <4>1, <4>3, <5>2 DEF Elems
      <4> QED BY <4>2, <4>3
    <3> QED BY <3>1, <3>2
  <2> QED BY <2>8, <2>9, <2>10 DEF WaitLists, Elems
<1>10. PendingLists'
  <2>1. ASSUME NEW p \in Ports, NEW i \in 1..Len(port[p].pending)
        PROVE  Queued(port[p].pending[i])'
    <3>1. PICK x \in Chans : x = port[p].pending[i] /\ Queued(x)
      BY PendingElems DEF ConnInv
    <3>2. Queued(x)'
      BY <1>2, <1>6, <1>7, <3>1 DEF Queued
    <3> QED BY <1>4, <3>1, <3>2
  <2> QED BY <1>1, <1>4, <2>1, PendingFrame DEF ConnInv
<1> QED BY <1>5, <1>8, <1>9, <1>10 DEF ConnInv

LEMMA ConnectStep ==
  ASSUME ConnInv, TypeOK', NEW t \in Tasks, NEW c \in Chans, NEW q \in Paths,
         NEW wait, NEW sync, sys_connect(t, c, q, wait, sync)
  PROVE  ConnInv'
<1>1. chan[c].state = "FREE" /\ Running(t) /\ InstallOrWait(t, c, sync)
  BY DEF sys_connect, Unused
<1>2. \/ \E p \in Ports : ConnectToPort(t, c, p)
      \/ ConnectWaitForPort(t, c, q)
  BY DEF sys_connect, Published
<1> QED BY <1>1, <1>2, ConnectToPortStep, ConnectWaitStep
-----------------------------------------------------------------------------
(* Publishing a port: the clients that wait for it are attached.           *)

LEMMA IndexOfUnique ==
  ASSUME NEW s, NEW i \in 1..Len(s), \A j, k \in 1..Len(s) : s[j] = s[k] => j = k
  PROVE  IndexOf(s, s[i]) = i
BY DEF IndexOf

(* The channels that waited for q, in w, and the new server channels: each *)
(* client is paired with its server, and nothing else changes.             *)
Paired(w, servers) ==
  /\ \A i \in 1..Len(w) :
       /\ w[i] \in Chans /\ servers[i] \in Chans
       /\ chan[w[i]].state = "WAITING_FOR_PORT" /\ chan[servers[i]].state = "FREE"
       /\ chan'[w[i]].state = "CONNECTING" /\ chan'[w[i]].peer = servers[i]
       /\ chan'[w[i]].queue /\ chan'[w[i]].refs = {"handle", "peer"}
       /\ chan'[w[i]].uuid = chan[w[i]].uuid
       /\ chan'[servers[i]].state = "ACCEPTING"
       /\ chan'[servers[i]].peer = w[i] /\ chan'[servers[i]].queue
       /\ chan'[servers[i]].refs = {"node", "peer"}
  /\ \A i, j \in 1..Len(w) : (w[i] = w[j] => i = j) /\ (servers[i] = servers[j] => i = j)
  /\ \A x \in Chans : x \notin Elems(w) /\ x \notin Elems(servers) => chan'[x] = chan[x]

LEMMA PublishFacts ==
  ASSUME ConnInv, NEW t \in Tasks, NEW p \in Ports, NEW q \in Paths,
         NEW allow, PublishAttach(p, t, q, allow)
  PROVE  \E servers \in Seq(Chans) :
           /\ Len(servers) = Len(waiting[q])
           /\ port' = [port EXCEPT ![p] = NewPort(t, q, allow, servers)]
           /\ Paired(waiting[q], servers)
<1> DEFINE w == waiting[q]
           n == Len(w)
<1>1. chan \in ChanMap /\ TypeOK /\ w \in Seq(Chans) /\ n \in Nat
  BY DEF ConnInv, TypeOK, ChanMap
<1>2. PICK servers \in [1..n -> Unused] :
        /\ \A i, j \in 1..n : i # j => servers[i] # servers[j]
        /\ chan' = AttachAll(t, w, servers)
        /\ port' = [port EXCEPT ![p] = NewPort(t, q, allow, servers)]
  BY DEF PublishAttach
<1>4. \A i \in 1..n : servers[i] \in Chans /\ chan[servers[i]].state = "FREE"
  BY DEF Unused
<1>5. servers \in Seq(Chans) /\ Len(servers) = n
  <2>1. servers \in [1..n -> Chans]
    BY <1>4
  <2> QED BY <1>1, <2>1, FunctionIsSeq
<1>6. \A i \in 1..n : w[i] \in Chans /\ chan[w[i]].state = "WAITING_FOR_PORT"
  BY <1>1 DEF ConnInv, WaitLists
<1>7. \A i, j \in 1..n : (w[i] = w[j] => i = j) /\ (servers[i] = servers[j] => i = j)
  BY <1>2 DEF ConnInv, WaitLists
<1>8. \A i \in 1..n : IndexOf(w, w[i]) = i /\ IndexOf(servers, servers[i]) = i
  BY <1>5, <1>7, IndexOfUnique
<1> DEFINE K == Elems(w)
           V == Elems(servers)
<1>9. /\ \A x : x \in K <=> \E i \in 1..n : x = w[i]
      /\ \A x : x \in V <=> \E i \in 1..n : x = servers[i]
  BY <1>5 DEF Elems
<1>10. /\ \A x \in Chans : x \notin K /\ x \notin V => chan'[x] = chan[x]
       /\ \A x \in Chans : x \in K =>
            chan'[x] = ClientEnd(chan[x], servers[IndexOf(w, x)], {"handle", "peer"})
       /\ \A x \in Chans : x \in V /\ x \notin K =>
            chan'[x] = ServerEnd(w[IndexOf(servers, x)], t)
  BY <1>2 DEF AttachAll
<1> HIDE DEF w, K, V
<1>11. ASSUME NEW i \in 1..n
       PROVE  /\ chan'[w[i]].state = "CONNECTING" /\ chan'[w[i]].peer = servers[i]
              /\ chan'[w[i]].queue /\ chan'[w[i]].refs = {"handle", "peer"}
              /\ chan'[w[i]].uuid = chan[w[i]].uuid
              /\ chan'[servers[i]].state = "ACCEPTING"
              /\ chan'[servers[i]].peer = w[i] /\ chan'[servers[i]].queue
              /\ chan'[servers[i]].refs = {"node", "peer"}
  <2>1. /\ w[i] \in Chans /\ w[i] \in K
        /\ servers[i] \in Chans /\ servers[i] \in V /\ servers[i] \notin K
    BY <1>4, <1>6, <1>9
  <2>2. /\ chan'[w[i]] = ClientEnd(chan[w[i]], servers[i], {"handle", "peer"})
        /\ chan'[servers[i]] = ServerEnd(w[i], t)
    BY <1>8, <1>10, <2>1
  <2>3. chan[w[i]] \in ChanFields
    BY <1>1, <2>1 DEF ChanMap, ChanType
  <2>4. /\ chan'[w[i]].state = "CONNECTING" /\ chan'[w[i]].peer = servers[i]
        /\ chan'[w[i]].queue /\ chan'[w[i]].refs = {"handle", "peer"}
        /\ chan'[w[i]].uuid = chan[w[i]].uuid
    BY <2>2, <2>3 DEF ClientEnd, ChanFields
  <2> QED BY <2>2, <2>4 DEF ServerEnd, FreeChan
<1>12. Paired(w, servers)
  BY <1>4, <1>6, <1>7, <1>10, <1>11 DEF Paired, K, V
<1> QED BY <1>2, <1>5, <1>12 DEF w

(* The pairing, as a function that is its own inverse.                     *)
PairsBy(f, w, servers) ==
  /\ \A x \in Elems(w) \cup Elems(servers) :
       /\ chan[x].state \in {"FREE", "WAITING_FOR_PORT"}
       /\ chan'[x].peer = f[x] /\ chan'[x].queue
       /\ "peer" \in chan'[x].refs /\ f[f[x]] = x
  /\ \A x \in Elems(w) : /\ chan'[x].state = "CONNECTING"
                         /\ chan'[x].refs = {"handle", "peer"}
                         /\ f[x] \in Elems(servers)
  /\ \A x \in Elems(servers) : /\ chan'[x].state = "ACCEPTING"
                               /\ chan'[x].refs = {"node", "peer"}
                               /\ f[x] \in Elems(w)

LEMMA PairedBy ==
  ASSUME NEW w \in Seq(Chans), NEW servers \in Seq(Chans), Len(servers) = Len(w),
         Paired(w, servers)
  PROVE  \E f : PairsBy(f, w, servers)
<1> DEFINE n == Len(w)
           K == Elems(w)
           V == Elems(servers)
           f == [x \in K \cup V |-> IF x \in K THEN servers[IndexOf(w, x)]
                                    ELSE w[IndexOf(servers, x)]]
<1>1. /\ \A x : x \in K <=> \E i \in 1..n : x = w[i]
      /\ \A x : x \in V <=> \E i \in 1..n : x = servers[i]
  BY DEF Elems
<1>2. \A i \in 1..n : IndexOf(w, w[i]) = i /\ IndexOf(servers, servers[i]) = i
  BY IndexOfUnique DEF Paired
<1>3. \A i \in 1..n : w[i] \in K /\ servers[i] \in V /\ servers[i] \notin K
  BY <1>1 DEF Paired
<1> HIDE DEF n, K, V
<1>4. \A i \in 1..n : f[w[i]] = servers[i] /\ f[servers[i]] = w[i]
  BY <1>2, <1>3
<1> HIDE DEF f
<1>5. ASSUME NEW x \in K \cup V
      PROVE  /\ chan[x].state \in {"FREE", "WAITING_FOR_PORT"}
             /\ chan'[x].peer = f[x] /\ chan'[x].queue
             /\ "peer" \in chan'[x].refs /\ f[f[x]] = x
  <2>1. PICK i \in 1..n : x = w[i] \/ x = servers[i]
    BY <1>1
  <2>2. /\ chan[w[i]].state = "WAITING_FOR_PORT" /\ chan[servers[i]].state = "FREE"
        /\ chan'[w[i]].peer = servers[i] /\ chan'[servers[i]].peer = w[i]
        /\ chan'[w[i]].refs = {"handle", "peer"}
        /\ chan'[servers[i]].refs = {"node", "peer"}
    BY DEF Paired, n
  <2>3. chan'[w[i]].queue /\ chan'[servers[i]].queue
    BY Zenon DEF Paired, n
  <2>4. f[f[x]] = x
    BY <1>4, <2>1
  <2> QED BY <1>4, <2>1, <2>2, <2>3, <2>4
<1>6. ASSUME NEW x \in K
      PROVE  /\ chan'[x].state = "CONNECTING" /\ chan'[x].refs = {"handle", "peer"}
             /\ f[x] \in V
  <2>1. PICK i \in 1..n : x = w[i]
    BY <1>1
  <2> QED BY <1>3, <1>4, <2>1 DEF Paired, n
<1>7. ASSUME NEW x \in V
      PROVE  /\ chan'[x].state = "ACCEPTING" /\ chan'[x].refs = {"node", "peer"}
             /\ f[x] \in K
  <2>1. PICK i \in 1..n : x = servers[i]
    BY <1>1
  <2> QED BY <1>3, <1>4, <2>1 DEF Paired, n
<1>8. PairsBy(f, w, servers)
  BY <1>5, <1>6, <1>7 DEF PairsBy, K, V
<1> QED BY <1>8

LEMMA PublishStep ==
  ASSUME ConnInv, TypeOK', NEW t \in Tasks, NEW p \in Ports, NEW q \in Paths,
         NEW allow, op[t].kind = "idle", PublishAttach(p, t, q, allow)
  PROVE  ConnInv'
<1> DEFINE w == waiting[q]
           n == Len(w)
<1>1. chan \in ChanMap /\ Graph(chan) /\ TypeOK /\ w \in Seq(Chans) /\ n \in Nat
  BY DEF ConnInv, TypeOK, ChanMap
<1>2. PICK servers \in Seq(Chans) :
        /\ Len(servers) = n /\ Paired(w, servers)
        /\ port' = [port EXCEPT ![p] = NewPort(t, q, allow, servers)]
  BY PublishFacts
<1>3. /\ waiting' = [waiting EXCEPT ![q] = << >>] /\ op' = op
      /\ table' = [table EXCEPT ![t] = @ \cup {p}]
  BY DEF PublishAttach
<1>5. servers \in Seq(Chans) /\ Len(servers) = n
  BY <1>2
<1>4. \A i \in 1..n : servers[i] \in Chans /\ chan[servers[i]].state = "FREE"
  BY <1>2 DEF Paired
<1>6. \A i \in 1..n : /\ w[i] \in Chans /\ chan[w[i]].state = "WAITING_FOR_PORT"
                      /\ chan[w[i]].path = q
  BY <1>1 DEF ConnInv, WaitLists
<1>7. \A i, j \in 1..n : (w[i] = w[j] => i = j) /\ (servers[i] = servers[j] => i = j)
  BY <1>2 DEF Paired
<1> DEFINE K == Elems(w)
           V == Elems(servers)
<1>9. /\ \A x : x \in K <=> \E i \in 1..n : x = w[i]
      /\ \A x : x \in V <=> \E i \in 1..n : x = servers[i]
  BY <1>5 DEF Elems
<1>10. \A x \in Chans \ (K \cup V) : chan'[x] = chan[x]
  BY <1>2 DEF Paired
<1>11. ASSUME NEW i \in 1..n
       PROVE  /\ w[i] \in Chans /\ servers[i] \in Chans
              /\ chan'[w[i]].state = "CONNECTING"
              /\ chan'[w[i]].refs = {"handle", "peer"}
              /\ chan'[servers[i]].state = "ACCEPTING"
              /\ chan'[servers[i]].refs = {"node", "peer"}
  BY <1>2 DEF Paired
<1>12. K \in SUBSET Chans /\ V \in SUBSET Chans /\ K \cap V = {}
  BY <1>4, <1>6, <1>9
<1>13. Graph(chan')
  <2>1. \E f : PairsBy(f, w, servers)
    BY <1>1, <1>2, PairedBy
  <2>2. PICK f : PairsBy(f, w, servers)
    BY <2>1
  <2>3. /\ \A x \in K \cup V :
             /\ chan[x].state \in {"FREE", "WAITING_FOR_PORT"}
             /\ chan'[x].peer = f[x] /\ chan'[x].queue
             /\ "peer" \in chan'[x].refs /\ f[f[x]] = x
        /\ \A x \in K : chan'[x].state = "CONNECTING" /\ f[x] \in V
        /\ \A x \in V : chan'[x].state = "ACCEPTING" /\ f[x] \in K
    BY <2>2 DEF PairsBy
  <2> HIDE DEF K, V
  <2> QED BY <1>1, <1>10, <1>12, <2>3, AttachGraph
<1> HIDE DEF w, K, V
<1>14. \A x \in V : chan[x].refs = {} /\ ~Queued(x) /\ \A u \in Tasks : ~Holds(u, x)
  BY <1>4, <1>9, FreeUnheld
<1>15. \A x \in Chans, u \in Tasks : Holds(u, x)' <=> Holds(u, x)
  <2>1. p \notin Chans /\ table \in [Tasks -> SUBSET Handles]
    BY <1>1, IpcConnAssumption DEF TypeOK
  <2> QED BY <1>3, <2>1 DEF Holds
<1>16. Owned'
  <2>1. \A x \in Chans :
          "handle" \in chan[x].refs =>
            /\ "handle" \in chan'[x].refs
            /\ chan[x].state = "DISCONNECTING" => chan'[x].state = "DISCONNECTING"
    <3>1. \A x \in K : /\ "handle" \in chan'[x].refs
                       /\ chan[x].state # "DISCONNECTING"
      <4>1. ASSUME NEW x \in K
            PROVE  "handle" \in chan'[x].refs /\ chan[x].state # "DISCONNECTING"
        <5>1. PICK i \in 1..n : x = w[i]
          BY <1>9
        <5>2. chan'[w[i]].refs = {"handle", "peer"}
          BY <1>11
        <5>3. chan[w[i]].state = "WAITING_FOR_PORT"
          BY <1>6
        <5> QED BY <5>1, <5>2, <5>3
      <4> QED BY <4>1
    <3> QED BY <1>10, <1>14, <3>1
  <2>2. /\ \A u \in Tasks \ {t} : op'[u] = op[u] /\ table'[u] = table[u]
        /\ op'[t].kind = "idle"
    BY <1>1, <1>3 DEF TypeOK
  <2>3. /\ {} \in SUBSET Chans /\ \A x \in {}, u \in Tasks : ~Holds(u, x)
        /\ \A x \in {} : "handle" \in chan'[x].refs
        /\ \A x \in Chans, u \in Tasks :
             Holds(u, x)' <=> Holds(u, x) \/ (u = t /\ x \in {})
    BY <1>15
  <2> QED BY <2>1, <2>2, <2>3, OwnedFrame
<1>17. WaitLists'
  <2>1. waiting'[q] = << >> /\ \A r \in Paths \ {q} : waiting'[r] = waiting[r]
    BY <1>1, <1>3 DEF TypeOK
  <2>2. ASSUME NEW r \in Paths, NEW i \in 1..Len(waiting'[r])
        PROVE  /\ r # q /\ waiting'[r] = waiting[r]
               /\ chan'[waiting'[r][i]].state = "WAITING_FOR_PORT"
               /\ chan'[waiting'[r][i]].path = r
    <3>1. r # q /\ waiting'[r] = waiting[r]
      BY <2>1
    <3>2. /\ waiting[r][i] \in Chans /\ chan[waiting[r][i]].path = r
          /\ chan[waiting[r][i]].state = "WAITING_FOR_PORT"
      <4>1. waiting[r] \in Seq(Chans) /\ i \in 1..Len(waiting[r])
        BY <1>1, <3>1 DEF TypeOK
      <4> QED BY <4>1 DEF ConnInv, WaitLists
    <3>3. waiting[r][i] \notin K \cup V
      BY <1>4, <1>6, <1>9, <3>1, <3>2
    <3> QED BY <1>10, <3>1, <3>2, <3>3
  <2>3. \A r \in Paths : \A i, j \in 1..Len(waiting'[r]) :
          waiting'[r][i] = waiting'[r][j] => i = j
    BY <2>2 DEF ConnInv, WaitLists
  <2>4. ASSUME NEW x \in Chans, chan'[x].state = "WAITING_FOR_PORT"
        PROVE  chan'[x].path \in Paths /\ x \in Elems(waiting'[chan'[x].path])
    <3>1. x \notin K \cup V
      BY <1>9, <1>11, <2>4
    <3>2. chan'[x] = chan[x] /\ chan[x].path \in Paths
          /\ x \in Elems(waiting[chan[x].path])
      BY <1>10, <2>4, <3>1 DEF ConnInv, WaitLists
    <3>3. chan[x].path # q
      BY <3>1, <3>2 DEF K, w
    <3> QED BY <2>1, <3>2, <3>3
  <2> QED BY <2>2, <2>3, <2>4 DEF WaitLists, Elems
<1>18. PendingLists'
  <2>1. port'[p].pending = servers /\ \A r \in Ports \ {p} : port'[r] = port[r]
    BY <1>1, <1>2 DEF NewPort, TypeOK
  <2>2. \A i \in 1..Len(servers) : ~Queued(servers[i])
    BY <1>5, <1>9, <1>14
  <2>3. ASSUME NEW x \in Chans, Queued(x) PROVE Queued(x)'
    <3>1. x \notin K \cup V
      BY <1>6, <1>9, <1>14, <2>3 DEF Queued
    <3> QED BY <1>10, <1>15, <2>3, <3>1 DEF Queued
  <2>4. ASSUME NEW i \in 1..Len(servers), NEW x \in Chans, x = servers[i]
        PROVE  Queued(x)'
    <3>1. i \in 1..n /\ x \in V
      BY <1>5, <1>9, <2>4
    <3>2. \A u \in Tasks : ~Holds(u, x)'
      BY <1>14, <1>15, <3>1
    <3> QED BY <1>11, <2>4, <3>1, <3>2 DEF Queued
  <2>5. \A i, j \in 1..Len(servers) : servers[i] = servers[j] => i = j
    BY <1>5, <1>7
  <2> QED BY <1>5, <2>1, <2>2, <2>3, <2>4, <2>5, QueueFrame
<1> QED BY <1>13, <1>16, <1>17, <1>18 DEF ConnInv
-----------------------------------------------------------------------------
(* ConnInv is inductive.                                                   *)

LEMMA InitInv == Init => ConnInv
<1> SUFFICES ASSUME Init PROVE ConnInv
  OBVIOUS
<1>1. TypeOK
  BY FreeTypes DEF Init, TypeOK
<1>2. \A c \in Chans : /\ chan[c].state = "FREE" /\ chan[c].peer = NULL
                       /\ chan[c].refs = {}
  BY FreeFields DEF Init
<1>3. Graph(chan)
  BY <1>2 DEF Graph
<1>4. \A t \in Tasks : table[t] = {} /\ op[t].kind = "idle"
  BY DEF Init, Idle, Call
<1>5. Owned
  BY <1>4 DEF Owned, Holds
<1>6. WaitLists
  BY <1>2 DEF WaitLists, Init
<1>7. PendingLists
  <2>1. \A p \in Ports : port[p].pending = << >>
    BY DEF Init, FreePort
  <2> QED BY <2>1 DEF PendingLists
<1> QED BY <1>1, <1>3, <1>5, <1>6, <1>7 DEF ConnInv

(* Steps that change nothing but the panic flag.                           *)
LEMMA FrameStep ==
  ASSUME ConnInv, TypeOK', UNCHANGED <<chan, port, waiting, table, op>>
  PROVE  ConnInv'
<1>1. Graph(chan')
  BY DEF ConnInv
<1>2. Owned' /\ WaitLists' /\ PendingLists'
  BY DEF ConnInv, Owned, Holds, WaitLists, PendingLists, Elems
<1> QED BY <1>1, <1>2 DEF ConnInv

LEMMA InvStep == ConnInv /\ [Next]_vars => ConnInv'
<1> SUFFICES ASSUME ConnInv, [Next]_vars PROVE ConnInv'
  OBVIOUS
<1>1. TypeOK'
  BY TypeStep DEF ConnInv
<1>2. CASE UNCHANGED vars
  BY <1>1, <1>2, FrameStep DEF vars
<1>3. CASE Halted
  BY <1>1, <1>3, FrameStep DEF Halted, vars
<1>4. ASSUME NEW t \in Tasks, TaskStep(t) PROVE ConnInv'
  <2>1. ASSUME NEW p \in Ports, NEW q \in Paths, NEW allow \in SUBSET Access,
               sys_port_create(t, p, q, allow)
        PROVE  ConnInv'
    BY <1>1, <2>1, PublishStep, FrameStep
       DEF sys_port_create, PublishAssertFails, Running
  <2>2. ASSUME NEW h \in Chans \cup Ports, sys_close(t, h) PROVE ConnInv'
    BY <1>1, <2>2, CloseChanStep, ClosePortStep DEF sys_close
  <2> QED BY <1>1, <1>4, <2>1, <2>2, AcceptStep, ConnectStep, PollStep, MsgStep,
             CloseChanStep, DecrefStep DEF TaskStep
<1> QED BY <1>2, <1>3, <1>4 DEF Next

(* ConnInv holds in every reachable state: the two ends of a connection,   *)
(* the owners of handles and the lists of ipc.c always agree.              *)
THEOREM ConnectionsAgree == Spec => []ConnInv
<1>1. Init => ConnInv
  BY InitInv
<1>2. ConnInv /\ [Next]_vars => ConnInv'
  BY InvStep
<1> QED BY <1>1, <1>2, PTL DEF Spec

(* Connected channels come in pairs that point at each other, so the peer  *)
(* that sys_send_msg dereferences is there and has a queue.                *)
THEOREM ConnectionsPaired == Spec => []ConnectedPair
<1>1. ConnInv => ConnectedPair
  <2> SUFFICES ASSUME ConnInv, NEW c \in Chans, chan[c].state = "CONNECTED"
               PROVE  /\ chan[c].peer # NULL
                      /\ chan[chan[c].peer].peer = c
                      /\ chan[chan[c].peer].state = "CONNECTED"
                      /\ chan[c].queue /\ chan[chan[c].peer].queue
    BY DEF ConnectedPair
  <2>1. chan[c].peer \in Chans \cup {NULL}
    BY ChanFieldTypes DEF ConnInv, TypeOK
  <2>2. /\ chan[c].peer \in Chans /\ chan[c].queue
        /\ chan[chan[c].peer].peer = c
        /\ chan[chan[c].peer].state = "CONNECTED"
    BY <2>1 DEF ConnInv, Graph, Opposite
  <2>3. chan[chan[c].peer].queue
    BY <2>2 DEF ConnInv, Graph
  <2> QED BY <2>2, <2>3, NullNoChan
<1> QED BY <1>1, ConnectionsAgree, PTL

-----------------------------------------------------------------------------
(* A channel told to disconnect, and the client and the peer of a channel. *)

(* What a step that takes channel r to d may not do: bring a connection    *)
(* back, give a channel another client or another peer, or start accepting *)
(* on a channel that was in use.                                           *)
Stays(r, d) ==
  /\ r.state = "DISCONNECTING" => d.state \in {"DISCONNECTING", "FREE"}
  /\ r.state # "FREE" /\ d.state # "FREE" => d.uuid = r.uuid
  /\ r.state \notin {"FREE", "WAITING_FOR_PORT"} => d.peer \in {r.peer, NULL}
  /\ d.state = "ACCEPTING" => r.state \in {"ACCEPTING", "FREE"}

LEMMA ShutStays ==
  ASSUME ConnInv, NEW S \in SUBSET Chans, \A s \in S : chan[s].state # "FREE",
         NEW x \in Chans
  PROVE  Stays(chan[x], Shutdown(chan, S)[x])
<1>1. chan \in ChanMap /\ Graph(chan)
  BY DEF ConnInv, TypeOK, ChanMap
<1>2. ShutFacts(chan, S, x, Shutdown(chan, S)[x])
  BY <1>1, ShutdownFields
<1> QED BY <1>2, FreeFields DEF ShutFacts, Stays

LEMMA DelRefStays ==
  ASSUME NEW r \in ChanType, NEW ref, NEW q, Stays(q, r)
  PROVE  Stays(q, DelRef(r, ref))
BY DelRefFields, FreeFields DEF Stays, LessRef

LEMMA TearDownStays ==
  ASSUME ConnInv, NEW S \in SUBSET Chans, \A x \in S : Queued(x), NEW x \in Chans
  PROVE  Stays(chan[x], TearDown(chan, S)[x])
<1>1. Stays(chan[x], Shutdown(chan, S)[x])
  BY ShutStays DEF Queued
<1>2. Shutdown(chan, S)[x] \in ChanType
  BY ShutdownType DEF ConnInv, TypeOK
<1>3. Stays(chan[x], DelRef(Shutdown(chan, S)[x], "node"))
  BY <1>1, <1>2, DelRefStays
<1> QED BY <1>1, <1>3 DEF TearDown, DropNodes

LEMMA StaysStep ==
  ASSUME ConnInv, NEW t \in Tasks, TaskStep(t), NEW x \in Chans
  PROVE  Stays(chan[x], chan'[x])
<1>1. chan \in [Chans -> ChanType] /\ op[t] \in OpType /\ TypeOK
  BY DEF ConnInv, TypeOK
<1>2. chan' = chan => Stays(chan[x], chan'[x])
  BY DEF Stays
<1>3. ASSUME NEW p \in Ports, NEW q \in Paths, NEW allow \in SUBSET Access,
             sys_port_create(t, p, q, allow)
      PROVE  Stays(chan[x], chan'[x])
  <2>1. CASE PublishAssertFails(q)
    BY <1>2, <2>1 DEF PublishAssertFails
  <2>2. CASE PublishAttach(p, t, q, allow)
    <3>1. waiting[q] \in Seq(Chans)
      BY <1>1 DEF TypeOK
    <3>2. PICK servers \in [1..Len(waiting[q]) -> Unused] :
            chan' = AttachAll(t, waiting[q], servers)
      BY <2>2 DEF PublishAttach
    <3>3. x \in Elems(waiting[q]) => chan[x].state = "WAITING_FOR_PORT"
      BY <3>1 DEF ConnInv, WaitLists, Elems
    <3>4. Len(servers) = Len(waiting[q])
      <4>1. servers \in [1..Len(waiting[q]) -> Chans] /\ Len(waiting[q]) \in Nat
        BY <3>1 DEF Unused
      <4> QED BY <4>1, FunctionIsSeq
    <3>5. x \in Elems(servers) => chan[x].state = "FREE"
      BY <3>4 DEF Elems, Unused
    <3>6. chan[x] \in ChanFields
      BY <1>1 DEF ChanType
    <3>7. CASE x \in Elems(waiting[q])
      <4>1. PICK s, R : chan'[x] = ClientEnd(chan[x], s, R)
        BY <3>2, <3>7 DEF AttachAll
      <4>2. chan'[x].uuid = chan[x].uuid /\ chan'[x].state = "CONNECTING"
        BY <3>6, <4>1 DEF ClientEnd, ChanFields
      <4> QED BY <3>3, <3>7, <4>2 DEF Stays
    <3>8. CASE x \notin Elems(waiting[q]) /\ x \in Elems(servers)
      BY <3>5, <3>8 DEF Stays
    <3>9. CASE x \notin Elems(waiting[q]) /\ x \notin Elems(servers)
      BY <3>2, <3>9 DEF AttachAll, Stays
    <3> QED BY <3>7, <3>8, <3>9
  <2> QED BY <1>3, <2>1, <2>2 DEF sys_port_create
<1>4. ASSUME NEW p \in Ports, sys_accept(t, p) PROVE Stays(chan[x], chan'[x])
  <2>1. port[p].pending \in Seq(Chans) /\ port[p].pending # << >>
    BY <1>1, <1>4 DEF TypeOK, PortType, sys_accept
  <2>2. 1 \in 1..Len(port[p].pending) /\ Head(port[p].pending) = port[p].pending[1]
    BY <2>1
  <2>3. PICK s \in Chans : s = Head(port[p].pending) /\ Queued(s)
    BY <1>1, <2>2, PendingElems DEF ConnInv
  <2>4. CASE Accept(t, s)
    <3>1. chan[x] \in ChanFields /\ chan[s].peer \in Chans
      BY <1>1, <2>3, <2>4 DEF Accept, Acceptable, ChanType, ChanFields
    <3>2. /\ chan' = [chan EXCEPT ![s] = AcceptServer(@),
                                  ![chan[s].peer] = AcceptClient(@)]
          /\ chan[s].state = "ACCEPTING" /\ chan[chan[s].peer].state = "CONNECTING"
      BY <2>4 DEF Accept, Acceptable
    <3>3. CASE x = s
      <4>1. chan'[x] = AcceptServer(chan[x])
        BY <1>1, <2>3, <3>1, <3>2, <3>3
      <4>2. /\ chan'[x].uuid = chan[x].uuid /\ chan'[x].state = "CONNECTED"
            /\ chan'[x].peer = chan[x].peer
        BY <3>1, <4>1 DEF AcceptServer, ChanFields
      <4> QED BY <3>2, <3>3, <4>2 DEF Stays
    <3>4. CASE x = chan[s].peer
      <4>1. chan'[x] = AcceptClient(chan[x])
        BY <1>1, <2>3, <3>1, <3>2, <3>4
      <4>2. /\ chan'[x].uuid = chan[x].uuid /\ chan'[x].state = "CONNECTED"
            /\ chan'[x].peer = chan[x].peer
        BY <3>1, <4>1 DEF AcceptClient, ChanFields
      <4> QED BY <3>2, <3>4, <4>2 DEF Stays
    <3>5. CASE x # s /\ x # chan[s].peer
      BY <1>1, <3>2, <3>5 DEF Stays
    <3> QED BY <3>3, <3>4, <3>5
  <2>5. CASE DropPending(s)
    <3>1. chan' = TearDown(chan, {s})
      BY <2>5 DEF DropPending, TearDown, DropNodes, Shutdown
    <3> QED BY <2>3, <3>1, TearDownStays
  <2> QED BY <1>4, <2>3, <2>4, <2>5 DEF sys_accept
<1>5. ASSUME NEW c \in Chans, NEW q \in Paths, NEW wait, NEW sync,
             sys_connect(t, c, q, wait, sync)
      PROVE  Stays(chan[x], chan'[x])
  BY <1>1, <1>5 DEF sys_connect, ConnectToPort, ConnectWaitForPort, Unused, Stays
<1>6. CASE ConnectPoll(t) \/ \E c \in Chans : WaitPoll(t, c) \/ UseNullQueue(t, c)
  BY <1>2, <1>6 DEF ConnectPoll, WaitPoll, UseNullQueue
<1>7. CASE ConnectFinish(t) \/ WaitFinish(t)
  <2>1. ASSUME NEW c, NEW ev PROVE Stays(chan[x], Finalize(c, ev)[x])
    BY <1>1 DEF Finalize, Stays, ChanType, ChanFields
  <2> QED BY <1>7, <2>1 DEF ConnectFinish, WaitFinish
<1>8. ASSUME NEW c \in Chans,
             sys_send_msg(t, c) \/ sys_get_msg(t, c) \/ sys_put_msg(t, c)
      PROVE  Stays(chan[x], chan'[x])
  BY <1>1, <1>8 DEF sys_send_msg, sys_get_msg, sys_put_msg, Stays, ChanType, ChanFields
<1>9. ASSUME NEW c \in Chans, Holds(t, c), chan_shutdown(c)
      PROVE  Stays(chan[x], chan'[x])
  <2>1. chan[c].state # "FREE" /\ chan' = Shutdown(chan, {c})
    BY <1>9, HeldNotFree DEF chan_shutdown
  <2> QED BY <2>1, ShutStays
<1>10. CASE CloseChan(t)
  <2>1. op[t].h \in Chans /\ Holds(t, op[t].h) /\ chan_shutdown(op[t].h)
    BY <1>1, <1>10 DEF CloseChan, OpType, Holds
  <2> QED BY <1>9, <2>1
<1>11. ASSUME NEW h \in Chans \cup Ports, sys_close(t, h)
       PROVE  Stays(chan[x], chan'[x])
  <2>1. CASE h \in Chans /\ chan_shutdown(h)
    BY <1>9, <1>11, <2>1 DEF sys_close, Holds
  <2>2. CASE h \in Ports /\ port_shutdown(h)
    <3>1. \A y \in Elems(port[h].pending) : y \in Chans /\ Queued(y)
      BY <1>1, <2>2, PendingElems DEF ConnInv, Elems
    <3> QED BY <2>2, <3>1, TearDownStays DEF port_shutdown
  <2> QED BY <1>11, <2>1, <2>2 DEF sys_close
<1>12. CASE handle_decref(t)
  <2>1. Stays(chan[x], chan[x])
    BY DEF Stays
  <2>2. Stays(chan[x], DelRef(chan[x], "handle"))
    BY <1>1, <2>1, DelRefStays
  <2>3. chan'[x] \in {chan[x], DelRef(chan[x], "handle")}
    BY <1>1, <1>12 DEF handle_decref
  <2> QED BY <2>1, <2>2, <2>3
<1> QED BY <1>3, <1>4, <1>5, <1>6, <1>7, <1>8, <1>10, <1>11, <1>12 DEF TaskStep

(* No step, whichever task takes it, brings a connection back once one of  *)
(* its ends was told to disconnect.                                        *)
THEOREM DisconnectFinal == Spec => DisconnectIsFinal
<1>1. ASSUME ConnInv, [Next]_vars, NEW c \in Chans, chan[c].state = "DISCONNECTING"
      PROVE  chan'[c].state \in {"DISCONNECTING", "FREE"}
  <2>1. CASE Halted \/ UNCHANGED vars
    BY <1>1, <2>1 DEF Halted, vars
  <2>2. ASSUME NEW t \in Tasks, TaskStep(t)
        PROVE  chan'[c].state \in {"DISCONNECTING", "FREE"}
    BY <1>1, <2>2, StaysStep DEF Stays
  <2> QED BY <1>1, <2>1, <2>2 DEF Next
<1>2. ConnInv /\ [Next]_vars =>
        [\A c \in Chans : chan[c].state = "DISCONNECTING" =>
           chan'[c].state \in {"DISCONNECTING", "FREE"}]_vars
  BY <1>1
<1> QED BY <1>2, ConnectionsAgree, PTL DEF Spec, DisconnectIsFinal

-----------------------------------------------------------------------------
(* The reference lists are exact, no channel leaks, no request is          *)
(* forgotten, nobody waits for a published name, and the reference count   *)
(* of a port is the number of its holders: RefsInv is an invariant next to *)
(* ConnInv.                                                                *)

-----------------------------------------------------------------------------
(* Links under the changes that the operations make to the channels.       *)

(* Queue counters and events.                                              *)
LEMMA SameLinksLinks ==
  ASSUME NEW C \in ChanMap, Links(C), NEW D, \A x \in Chans : SameLinks(C[x], D[x])
  PROVE  Links(D)
<1>1. \A x \in Chans : C[x].peer \in Chans \cup {NULL}
  BY ChanFieldTypes DEF ChanMap
<1>2. \A x \in Chans : "peer" \in D[x].refs => \E d \in Chans : D[d].peer = x
  BY DEF Links, SameLinks
<1>3. /\ \A x \in Chans : D[x].refs = {} => D[x].state = "FREE"
      /\ \A x \in Chans : D[x].state = "ACCEPTING" => "node" \in D[x].refs
      /\ \A x \in Chans : D[x].state = "WAITING_FOR_PORT" =>
                            "node" \in D[x].refs /\ "handle" \in D[x].refs /\ D[x].peer = NULL
  BY DEF Links, SameLinks
<1>4. ASSUME NEW x \in Chans, D[x].peer # NULL
      PROVE  /\ D[x].peer # x
             /\ "handle" \in D[x].refs \/ "node" \in D[x].refs
             /\ "node" \in D[x].refs => "node" \notin D[D[x].peer].refs
  <2>1. D[x].peer = C[x].peer /\ C[x].peer \in Chans
    BY <1>1, <1>4 DEF SameLinks
  <2> QED BY <1>4, <2>1 DEF Links, SameLinks
<1> QED BY <1>2, <1>3, <1>4 DEF Links

(* Channels that are shut down, none of which is the peer of another.      *)
LEMMA ShutdownLinks ==
  ASSUME NEW C \in ChanMap, Graph(C), Links(C), NEW S \in SUBSET Chans,
         \A s \in S : C[s].state # "FREE" /\ C[s].peer \notin S
  PROVE  Links(Shutdown(C, S))
<1> DEFINE D == Shutdown(C, S)
<1>0. \A x \in Chans : ShutFacts(C, S, x, D[x])
  BY ShutdownFields
<1> HIDE DEF D
<1>1. \A x \in Chans : C[x].peer \in Chans \cup {NULL} /\ C[x].refs \in SUBSET RefKinds
  BY ChanFieldTypes DEF ChanMap
<1>2. ASSUME NEW x \in Chans
      PROVE  /\ D[x].peer # NULL => x \notin S /\ D[x].peer = C[x].peer
             /\ C[x].peer # NULL /\ x \notin S => D[x].peer = C[x].peer
             /\ "peer" \in D[x].refs => "peer" \in C[x].refs /\ (x \in S \/ ~Told(C, S, x))
             /\ "node" \in D[x].refs => "node" \in C[x].refs
             /\ D[x].state # "FREE" /\ "handle" \in C[x].refs => "handle" \in D[x].refs
             /\ x \notin S /\ D[x].state # "FREE" /\ "node" \in C[x].refs =>
                  "node" \in D[x].refs
  <2>1. C[x].peer # NULL => "handle" \in C[x].refs \/ "node" \in C[x].refs
    BY DEF Links
  <2>2. CASE x \in S
    BY <1>0, <2>2 DEF ShutFacts
  <2>3. CASE x \notin S /\ Told(C, S, x)
    BY <1>0, <2>1, <2>3, FreeFields DEF ShutFacts
  <2>4. CASE x \notin S /\ ~Told(C, S, x)
    BY <1>0, <2>4 DEF ShutFacts
  <2> QED BY <2>2, <2>3, <2>4
<1>3. ASSUME NEW x \in Chans, "peer" \in D[x].refs
      PROVE  \E d \in Chans : D[d].peer = x
  <2>1. "peer" \in C[x].refs /\ (x \in S \/ ~Told(C, S, x))
    BY <1>2, <1>3
  <2>2. PICK d \in Chans : C[d].peer = x
    BY <2>1 DEF Links
  <2>3. d \notin S
    BY <2>1, <2>2 DEF Told
  <2> QED BY <1>2, <2>2, <2>3, NullNoChan
<1>4. ASSUME NEW x \in Chans, D[x].refs = {}  PROVE  D[x].state = "FREE"
  <2>1. CASE x \in S
    <3>1. C[x].refs # {} /\ C[x].state # "FREE"
      BY <2>1 DEF Links
    <3>2. C[x].state = "WAITING_FOR_PORT" => "handle" \in C[x].refs \ {"node"}
      BY <2>1 DEF Links
    <3>3. D[x].refs # {}
      BY <1>0, <2>1, <3>1, <3>2 DEF ShutFacts
    <3> QED BY <1>4, <3>3
  <2>2. CASE x \notin S /\ Told(C, S, x)
    <3>1. \/ D[x] = FreeChan
          \/ ~(C[x].refs \subseteq {"peer"}) /\ D[x].refs = C[x].refs \ {"peer"}
      BY <1>0, <2>2 DEF ShutFacts
    <3> QED BY <1>4, <3>1, FreeFields
  <2>3. CASE x \notin S /\ ~Told(C, S, x)
    <3>1. D[x] = C[x]
      BY <1>0, <2>3 DEF ShutFacts
    <3> QED BY <1>4, <3>1 DEF Links
  <2> QED BY <2>1, <2>2, <2>3
<1>5. ASSUME NEW x \in Chans, D[x].state \in {"ACCEPTING", "WAITING_FOR_PORT"}
      PROVE  /\ "node" \in D[x].refs
             /\ D[x].state = "WAITING_FOR_PORT" =>
                  "handle" \in D[x].refs /\ D[x].peer = NULL
  <2>1. D[x] = C[x]
    BY <1>0, <1>5, FreeFields DEF ShutFacts
  <2> QED BY <1>5, <2>1 DEF Links
<1>6. ASSUME NEW x \in Chans, D[x].peer # NULL
      PROVE  /\ D[x].peer # x
             /\ "handle" \in D[x].refs \/ "node" \in D[x].refs
             /\ "node" \in D[x].refs => "node" \notin D[D[x].peer].refs
  <2>1. x \notin S /\ D[x].peer = C[x].peer /\ C[x].peer \in Chans
    BY <1>1, <1>2, <1>6
  <2>2. /\ C[x].peer # x /\ ("handle" \in C[x].refs \/ "node" \in C[x].refs)
        /\ "node" \in C[x].refs => "node" \notin C[C[x].peer].refs
    BY <1>6, <2>1 DEF Links
  <2>3. D[x].state # "FREE"
    <3>1. C[x].state # "FREE"
      BY <1>6, <2>1 DEF Graph
    <3> QED BY <1>0, <1>6, <2>1, <3>1, FreeFields DEF ShutFacts
  <2> QED BY <1>2, <2>1, <2>2, <2>3
<1>7. Links(D)
  BY <1>3, <1>4, <1>5, <1>6 DEF Links
<1> QED BY <1>7 DEF D

(* Channels that were shut down lose a reference, and perhaps their memory.*)
LEMMA DropRefLinks ==
  ASSUME NEW C \in ChanMap, Links(C), NEW D, NEW S \in SUBSET Chans,
         NEW ref \in {"node", "handle"},
         \A s \in S : C[s].state = "DISCONNECTING" /\ C[s].peer = NULL,
         \A x \in Chans : D[x] = IF x \in S THEN DelRef(C[x], ref) ELSE C[x]
  PROVE  Links(D)
<1>1. \A x \in Chans : C[x] \in ChanType /\ C[x].peer \in Chans \cup {NULL}
                       /\ C[x].refs \in SUBSET RefKinds
  BY ChanFieldTypes DEF ChanMap
<1>2. ASSUME NEW x \in Chans
      PROVE  /\ D[x].peer = C[x].peer
             /\ D[x].refs \subseteq C[x].refs
             /\ D[x].refs = {} => D[x].state = "FREE"
             /\ x \in S => D[x].state \in {"FREE", "DISCONNECTING"}
             /\ x \notin S => D[x] = C[x]
  <2>1. CASE x \in S
    BY <1>1, <2>1, DelRefFields, FreeFields DEF LessRef
  <2>2. CASE x \notin S
    BY <2>2 DEF Links
  <2> QED BY <2>1, <2>2
<1>3. ASSUME NEW x \in Chans, "peer" \in D[x].refs
      PROVE  \E d \in Chans : D[d].peer = x
  <2>1. PICK d \in Chans : C[d].peer = x
    BY <1>2, <1>3 DEF Links
  <2> QED BY <1>2, <2>1
<1>4. ASSUME NEW x \in Chans, D[x].state \in {"ACCEPTING", "WAITING_FOR_PORT"}
      PROVE  /\ "node" \in D[x].refs
             /\ D[x].state = "WAITING_FOR_PORT" =>
                  "handle" \in D[x].refs /\ D[x].peer = NULL
  BY <1>2, <1>4 DEF Links
<1>5. ASSUME NEW x \in Chans, D[x].peer # NULL
      PROVE  /\ D[x].peer # x
             /\ "handle" \in D[x].refs \/ "node" \in D[x].refs
             /\ "node" \in D[x].refs => "node" \notin D[D[x].peer].refs
  <2>1. x \notin S /\ D[x] = C[x] /\ C[x].peer \in Chans
    BY <1>1, <1>2, <1>5
  <2>2. /\ C[x].peer # x /\ ("handle" \in C[x].refs \/ "node" \in C[x].refs)
        /\ "node" \in C[x].refs => "node" \notin C[C[x].peer].refs
    BY <1>5, <2>1 DEF Links
  <2>3. D[C[x].peer].refs \subseteq C[C[x].peer].refs
    BY <1>2, <2>1
  <2> QED BY <2>1, <2>2, <2>3
<1> QED BY <1>2, <1>3, <1>4, <1>5 DEF Links

(* New connections between memory that was free and clients that waited.   *)
NewPairs(C, D, K, V, f) ==
  /\ \A x \in K \cup V : /\ C[x].state \in {"FREE", "WAITING_FOR_PORT"}
                        /\ D[x].peer = f[x] /\ f[f[x]] = x
  /\ \A x \in K : /\ D[x].state = "CONNECTING" /\ f[x] \in V
                 /\ D[x].refs = {"handle", "peer"}
  /\ \A x \in V : /\ D[x].state = "ACCEPTING" /\ f[x] \in K
                 /\ D[x].refs = {"node", "peer"}
  /\ \A x \in Chans \ (K \cup V) : D[x] = C[x]

LEMMA AttachLinks ==
  ASSUME NEW C \in ChanMap, Graph(C), Links(C), NEW D,
         NEW K \in SUBSET Chans, NEW V \in SUBSET Chans, NEW f,
         NewPairs(C, D, K, V, f)
  PROVE  Links(D)
<1>0. /\ \A x \in K \cup V : /\ C[x].state \in {"FREE", "WAITING_FOR_PORT"}
                            /\ D[x].peer = f[x] /\ f[f[x]] = x
      /\ \A x \in K : /\ D[x].state = "CONNECTING" /\ f[x] \in V
                     /\ D[x].refs = {"handle", "peer"}
      /\ \A x \in V : /\ D[x].state = "ACCEPTING" /\ f[x] \in K
                     /\ D[x].refs = {"node", "peer"}
      /\ \A x \in Chans \ (K \cup V) : D[x] = C[x]
  BY DEF NewPairs
<1>1. \A x \in Chans : C[x].peer \in Chans \cup {NULL}
  BY ChanFieldTypes DEF ChanMap
<1>2. \A x \in Chans : C[x].peer # NULL => C[x].peer \notin K \cup V /\ x \notin K \cup V
  BY <1>0, <1>1 DEF Graph, Links
<1>3. ASSUME NEW x \in Chans, "peer" \in D[x].refs
      PROVE  \E d \in Chans : D[d].peer = x
  <2>1. CASE x \in K \cup V
    <3>1. f[x] \in K \cup V /\ f[x] \in Chans
      BY <1>0, <2>1
    <3>2. D[f[x]].peer = x
      BY <1>0, <2>1, <3>1
    <3> QED BY <3>1, <3>2
  <2>2. CASE x \notin K \cup V
    <3>1. PICK d \in Chans : C[d].peer = x
      BY <1>0, <1>3, <2>2 DEF Links
    <3> QED BY <1>0, <1>2, <3>1, NullNoChan
  <2> QED BY <2>1, <2>2
<1>4. ASSUME NEW x \in Chans
      PROVE  /\ D[x].refs = {} => D[x].state = "FREE"
             /\ D[x].state = "ACCEPTING" => "node" \in D[x].refs
             /\ D[x].state = "WAITING_FOR_PORT" =>
                  "node" \in D[x].refs /\ "handle" \in D[x].refs /\ D[x].peer = NULL
  <2>1. CASE x \in K \cup V
    BY <1>0, <2>1
  <2>2. CASE x \notin K \cup V
    BY <1>0, <2>2 DEF Links
  <2> QED BY <2>1, <2>2
<1>5. ASSUME NEW x \in Chans, D[x].peer # NULL
      PROVE  /\ D[x].peer # x
             /\ "handle" \in D[x].refs \/ "node" \in D[x].refs
             /\ "node" \in D[x].refs => "node" \notin D[D[x].peer].refs
  <2>1. CASE x \in K
    <3>1. D[x].peer \in V /\ x \notin V
      BY <1>0, <2>1
    <3> QED BY <1>0, <2>1, <3>1
  <2>2. CASE x \in V
    <3>1. D[x].peer \in K /\ x \notin K
      BY <1>0, <2>2
    <3> QED BY <1>0, <2>2, <3>1
  <2>3. CASE x \notin K \cup V
    <3>1. D[x] = C[x] /\ C[x].peer \in Chans /\ C[x].peer \notin K \cup V
      BY <1>0, <1>1, <1>2, <1>5, <2>3
    <3>2. D[C[x].peer] = C[C[x].peer]
      BY <1>0, <3>1
    <3> QED BY <1>5, <3>1, <3>2 DEF Links
  <2> QED BY <2>1, <2>2, <2>3
<1> QED BY <1>3, <1>4, <1>5 DEF Links

(* One new channel that waits for its port.                                *)
LEMMA WaitLinks ==
  ASSUME NEW C \in ChanMap, Graph(C), Links(C), NEW D, NEW c \in Chans,
         C[c].state = "FREE", D[c].state = "WAITING_FOR_PORT", D[c].peer = NULL,
         D[c].refs = {"handle", "node"}, \A x \in Chans \ {c} : D[x] = C[x]
  PROVE  Links(D)
<1>1. \A x \in Chans : C[x].peer \in Chans \cup {NULL}
  BY ChanFieldTypes DEF ChanMap
<1>2. \A x \in Chans : C[x].peer # NULL => C[x].peer # c /\ x # c
  BY <1>1 DEF Graph
<1>3. ASSUME NEW x \in Chans, "peer" \in D[x].refs
      PROVE  \E d \in Chans : D[d].peer = x
  <2>1. PICK d \in Chans : C[d].peer = x
    BY <1>3 DEF Links
  <2> QED BY <1>2, <2>1, NullNoChan
<1>4. ASSUME NEW x \in Chans
      PROVE  /\ D[x].refs = {} => D[x].state = "FREE"
             /\ D[x].state = "ACCEPTING" => "node" \in D[x].refs
             /\ D[x].state = "WAITING_FOR_PORT" =>
                  "node" \in D[x].refs /\ "handle" \in D[x].refs /\ D[x].peer = NULL
  BY DEF Links
<1>5. ASSUME NEW x \in Chans, D[x].peer # NULL
      PROVE  /\ D[x].peer # x
             /\ "handle" \in D[x].refs \/ "node" \in D[x].refs
             /\ "node" \in D[x].refs => "node" \notin D[D[x].peer].refs
  BY <1>1, <1>2, <1>5 DEF Links
<1> QED BY <1>3, <1>4, <1>5 DEF Links

(* The server end of a connection leaves the list and gets an owner.       *)
LEMMA AcceptLinks ==
  ASSUME NEW C \in ChanMap, Links(C), NEW D, NEW s \in Chans, NEW c \in Chans,
         s # c, D[s].state = "CONNECTED", D[c].state = "CONNECTED",
         D[s].peer = C[s].peer, D[c].peer = C[c].peer,
         D[s].refs = (C[s].refs \ {"node"}) \cup {"handle"}, D[c].refs = C[c].refs,
         C[c].state # "FREE", \A x \in Chans \ {s, c} : D[x] = C[x]
  PROVE  Links(D)
<1>1. \A x \in Chans : C[x].peer \in Chans \cup {NULL}
  BY ChanFieldTypes DEF ChanMap
<1>2. \A x \in Chans : D[x].peer = C[x].peer
  OBVIOUS
<1>3. \A x \in Chans : /\ "peer" \in D[x].refs => "peer" \in C[x].refs
                       /\ "node" \in D[x].refs => x # s /\ "node" \in C[x].refs
                       /\ x # s => D[x].refs = C[x].refs
                       /\ "handle" \in D[s].refs
  OBVIOUS
<1>4. \A x \in Chans : "peer" \in D[x].refs => \E d \in Chans : D[d].peer = x
  BY <1>2, <1>3 DEF Links
<1>5. ASSUME NEW x \in Chans
      PROVE  /\ D[x].refs = {} => D[x].state = "FREE"
             /\ D[x].state = "ACCEPTING" => "node" \in D[x].refs
             /\ D[x].state = "WAITING_FOR_PORT" =>
                  "node" \in D[x].refs /\ "handle" \in D[x].refs /\ D[x].peer = NULL
  BY DEF Links
<1>6. ASSUME NEW x \in Chans, D[x].peer # NULL
      PROVE  /\ D[x].peer # x
             /\ "handle" \in D[x].refs \/ "node" \in D[x].refs
             /\ "node" \in D[x].refs => "node" \notin D[D[x].peer].refs
  <2>1. /\ C[x].peer # x /\ ("handle" \in C[x].refs \/ "node" \in C[x].refs)
        /\ "node" \in C[x].refs => "node" \notin C[C[x].peer].refs
        /\ C[x].peer \in Chans
    BY <1>1, <1>2, <1>6 DEF Links
  <2> QED BY <1>2, <1>3, <2>1
<1> QED BY <1>4, <1>5, <1>6 DEF Links

-----------------------------------------------------------------------------
(* Links and Reached, action by action.                                    *)

LEMMA ListedKeeps ==
  ASSUME NEW x, Listed(x),
         \A q \in Paths : x \in Elems(waiting[q]) => x \in Elems(waiting'[q]),
         \A p \in Ports : x \in Elems(port[p].pending) => x \in Elems(port'[p].pending)
  PROVE  Listed(x)'
BY DEF Listed, Elems

(* Steps that touch queue counters, events and the owner's progress only.  *)
LEMMA SameReached ==
  ASSUME ConnInv, RefsInv, \A x \in Chans : SameLinks(chan[x], chan'[x]),
         port' = port, waiting' = waiting,
         \A x \in Chans, u \in Tasks : Holds(u, x)' <=> Holds(u, x),
         \A u \in Tasks : op'[u].kind = "decref" => op'[u] = op[u]
  PROVE  Links(chan') /\ Reached'
<1>1. chan \in ChanMap /\ Links(chan) /\ Reached
  BY DEF ConnInv, TypeOK, ChanMap, RefsInv
<1>2. Links(chan')
  BY <1>1, SameLinksLinks
<1>3. \A x \in Chans : "handle" \in chan'[x].refs => \E t \in Tasks : Holds(t, x)'
  BY <1>1 DEF Reached, SameLinks
<1>4. \A x \in Chans : "node" \in chan'[x].refs => Listed(x)'
  BY <1>1, ListedKeeps DEF Reached, SameLinks
<1>5. \A u \in Tasks :
        op'[u].kind = "decref" /\ op'[u].h \in Chans => chan'[op'[u].h].peer = NULL
  BY <1>1 DEF Reached, SameLinks
<1> QED BY <1>2, <1>3, <1>4, <1>5 DEF Reached

(* What Shutdown leaves of references and peers was there before.          *)
LEMMA ShutSubset ==
  ASSUME ConnInv, NEW S \in SUBSET Chans, \A s \in S : chan[s].state # "FREE",
         NEW D, D = Shutdown(chan, S), NEW x \in Chans
  PROVE  /\ D[x].refs \subseteq chan[x].refs
         /\ D[x].peer \in {chan[x].peer, NULL}
         /\ x \in S => D[x].peer = NULL /\ D[x].state = "DISCONNECTING"
         /\ x \in S /\ chan[x].state = "WAITING_FOR_PORT" => "node" \notin D[x].refs
<1>1. chan \in ChanMap /\ Graph(chan)
  BY DEF ConnInv, TypeOK, ChanMap
<1>2. ShutFacts(chan, S, x, D[x])
  BY <1>1, ShutdownFields
<1>3. CASE x \in S
  BY <1>2, <1>3 DEF ShutFacts
<1>4. CASE x \notin S /\ Told(chan, S, x)
  BY <1>2, <1>4, FreeFields DEF ShutFacts
<1>5. CASE x \notin S /\ ~Told(chan, S, x)
  BY <1>2, <1>5 DEF ShutFacts
<1> QED BY <1>3, <1>4, <1>5

LEMMA ChanShutdownRefs ==
  ASSUME ConnInv, RefsInv, NEW t \in Tasks, NEW c \in Chans, Holds(t, c),
         chan_shutdown(c), op' = [op EXCEPT ![t] = Call("decref", c, {})],
         \A x \in Chans, u \in Tasks : Holds(u, x)' <=> Holds(u, x)
  PROVE  Links(chan') /\ Reached'
<1>1. /\ chan \in ChanMap /\ Graph(chan) /\ Links(chan) /\ Reached
      /\ op \in [Tasks -> OpType] /\ waiting \in [Paths -> Seq(Chans)]
  BY DEF ConnInv, TypeOK, ChanMap, RefsInv
<1>2. chan[c].state # "FREE" /\ "handle" \in chan[c].refs
  BY HeldNotFree
<1>3. chan' = Shutdown(chan, {c}) /\ port' = port
  BY DEF chan_shutdown
<1>4. chan[c].peer # c
  BY <1>1, NullNoChan DEF Links
<1>5. Links(chan')
  <2> DEFINE S == {c}
  <2>1. /\ S \in SUBSET Chans /\ chan' = Shutdown(chan, S)
        /\ \A s \in S : chan[s].state # "FREE" /\ chan[s].peer \notin S
    BY <1>2, <1>3, <1>4
  <2> HIDE DEF S
  <2>2. Links(Shutdown(chan, S))
    BY <1>1, <2>1, ShutdownLinks
  <2> QED BY <2>1, <2>2
<1>6. \A x \in Chans :
        /\ chan'[x].refs \subseteq chan[x].refs
        /\ chan'[x].peer \in {chan[x].peer, NULL}
        /\ x = c => /\ chan'[x].peer = NULL
                    /\ chan[x].state = "WAITING_FOR_PORT" => "node" \notin chan'[x].refs
  BY <1>2, <1>3, ShutSubset
<1>7. \A x \in Chans : "handle" \in chan'[x].refs => \E u \in Tasks : Holds(u, x)'
  BY <1>1, <1>6 DEF Reached
<1>8. ASSUME NEW x \in Chans, "node" \in chan'[x].refs  PROVE  Listed(x)'
  <2>1. Listed(x) /\ (chan[c].state = "WAITING_FOR_PORT" => x # c)
    BY <1>1, <1>6, <1>8 DEF Reached
  <2>2. ASSUME NEW q \in Paths, x \in Elems(waiting[q])
        PROVE  x \in Elems(waiting'[q])
    <3>1. CASE chan[c].state = "WAITING_FOR_PORT"
      <4> DEFINE r == chan[c].path
      <4>1. /\ r \in Paths /\ c \in Elems(waiting[r])
            /\ waiting' = [waiting EXCEPT ![r] = Without(@, c)]
        BY <3>1 DEF ConnInv, WaitLists, chan_shutdown
      <4> HIDE DEF r
      <4>2. CASE q = r
        <5>1. waiting'[q] = Without(waiting[q], c) /\ waiting[q] \in Seq(Chans)
          BY <1>1, <4>1, <4>2
        <5>2. \A i, j \in 1..Len(waiting[q]) : waiting[q][i] = waiting[q][j] => i = j
          BY DEF ConnInv, WaitLists
        <5>3. \A y \in Elems(waiting[q]) : y # c => y \in Elems(Without(waiting[q], c))
          BY <4>1, <4>2, <5>1, <5>2, WithoutElems
        <5> QED BY <2>1, <2>2, <3>1, <5>1, <5>3
      <4>3. CASE q # r
        BY <1>1, <2>2, <4>1, <4>3
      <4> QED BY <4>2, <4>3
    <3>2. CASE chan[c].state # "WAITING_FOR_PORT"
      BY <2>2, <3>2 DEF chan_shutdown
    <3> QED BY <3>1, <3>2
  <2> QED BY <1>3, <2>1, <2>2, ListedKeeps
<1>9. ASSUME NEW u \in Tasks, op'[u].kind = "decref", op'[u].h \in Chans
      PROVE  chan'[op'[u].h].peer = NULL
  <2>1. op'[u].h = c \/ op'[u] = op[u]
    BY <1>1 DEF Call
  <2> QED BY <1>1, <1>6, <1>9, <2>1 DEF Reached
<1> QED BY <1>5, <1>7, <1>8, <1>9 DEF Reached

LEMMA CloseChanRefs ==
  ASSUME ConnInv, RefsInv, NEW t \in Tasks,
         \/ CloseChan(t)
         \/ \E c \in Chans : sys_close(t, c) /\ chan_shutdown(c)
  PROVE  Links(chan') /\ Reached'
<1>1. op \in [Tasks -> OpType] /\ table \in [Tasks -> SUBSET Handles] /\ op[t] \in OpType
  BY DEF ConnInv, TypeOK
<1>2. CASE CloseChan(t)
  <2>1. op[t].h \in Chans /\ Holds(t, op[t].h)
    BY <1>1, <1>2 DEF CloseChan, OpType, Holds
  <2>2. /\ chan_shutdown(op[t].h) /\ op' = [op EXCEPT ![t] = Call("decref", op[t].h, {})]
        /\ table' = table
    BY <1>2 DEF CloseChan
  <2>3. \A x \in Chans, u \in Tasks : Holds(u, x)' <=> Holds(u, x)
    BY <1>1, <1>2, <2>2 DEF CloseChan, Holds, Call
  <2> QED BY <2>1, <2>2, <2>3, ChanShutdownRefs
<1>3. ASSUME NEW c \in Chans, sys_close(t, c), chan_shutdown(c)
      PROVE  Links(chan') /\ Reached'
  <2>1. /\ c \in table[t] /\ op' = [op EXCEPT ![t] = Call("decref", c, {})]
        /\ table' = [table EXCEPT ![t] = @ \ {c}] /\ op[t].kind = "idle"
    BY <1>3 DEF sys_close, Running
  <2>2. Holds(t, c)
    BY <2>1 DEF Holds
  <2>3. \A x \in Chans, u \in Tasks : Holds(u, x)' <=> Holds(u, x)
    BY <1>1, <2>1 DEF Holds, Call
  <2> QED BY <1>3, <2>1, <2>2, <2>3, ChanShutdownRefs
<1> QED BY <1>2, <1>3

(* Queued connections that are shut down and unlinked.                     *)
LEMMA TearDownRefs ==
  ASSUME ConnInv, RefsInv, NEW S \in SUBSET Chans, \A x \in S : Queued(x), NEW D,
         \A x \in Chans : D[x] = IF x \in S THEN DelRef(Shutdown(chan, S)[x], "node")
                                 ELSE Shutdown(chan, S)[x]
  PROVE  /\ Links(D)
         /\ \A x \in Chans :
              /\ D[x].refs \subseteq chan[x].refs
              /\ "node" \in D[x].refs => x \notin S
              /\ D[x].peer \in {chan[x].peer, NULL}
<1> DEFINE C == Shutdown(chan, S)
<1>1. chan \in ChanMap /\ Graph(chan) /\ Links(chan)
  BY DEF ConnInv, TypeOK, ChanMap, RefsInv
<1>2. \A s \in S : chan[s].state # "FREE" /\ chan[s].state # "WAITING_FOR_PORT"
                   /\ "node" \in chan[s].refs
  BY DEF Queued
<1>3. \A s \in S : chan[s].peer \notin S
  BY <1>1, <1>2, NullNoChan DEF Links
<1>4. Links(C)
  BY <1>1, <1>2, <1>3, ShutdownLinks
<1>5. C \in ChanMap
  BY <1>1, ShutdownType DEF ChanMap
<1>6. ASSUME NEW x \in Chans
      PROVE  /\ C[x].refs \subseteq chan[x].refs /\ C[x].peer \in {chan[x].peer, NULL}
             /\ x \in S => C[x].peer = NULL /\ C[x].state = "DISCONNECTING"
  BY <1>2, ShutSubset
<1>7. \A x \in Chans : D[x] = IF x \in S THEN DelRef(C[x], "node") ELSE C[x]
  OBVIOUS
<1> HIDE DEF C
<1>8. Links(D)
  BY <1>4, <1>5, <1>6, <1>7, DropRefLinks
<1>9. ASSUME NEW x \in Chans
      PROVE  /\ D[x].refs \subseteq chan[x].refs
             /\ "node" \in D[x].refs => x \notin S
             /\ D[x].peer \in {chan[x].peer, NULL}
  <2>1. C[x] \in ChanType
    BY <1>5 DEF ChanMap
  <2>2. CASE x \in S
    <3>1. D[x] = DelRef(C[x], "node")
      BY <1>7, <2>2
    <3>2. \/ D[x] = FreeChan
          \/ D[x].refs = C[x].refs \ {"node"} /\ D[x].peer = C[x].peer
      BY <2>1, <3>1, DelRefFields DEF LessRef
    <3> QED BY <1>6, <3>2, FreeFields
  <2>3. CASE x \notin S
    BY <1>6, <1>7, <2>3
  <2> QED BY <2>2, <2>3
<1> QED BY <1>8, <1>9

LEMMA ClosePortRefs ==
  ASSUME ConnInv, RefsInv, NEW t \in Tasks, NEW p \in Ports,
         sys_close(t, p), port_shutdown(p)
  PROVE  Links(chan') /\ Reached'
<1> DEFINE S == Elems(port[p].pending)
<1>1. TypeOK /\ Reached
  BY DEF ConnInv, RefsInv
<1>2. \A x \in S : x \in Chans /\ Queued(x)
  BY PendingElems DEF ConnInv, Elems
<1>3. \A x \in Chans : chan'[x] = IF x \in S THEN DelRef(Shutdown(chan, S)[x], "node")
                                  ELSE Shutdown(chan, S)[x]
  BY DEF port_shutdown, TearDown, DropNodes
<1> HIDE DEF S
<1>4. /\ Links(chan')
      /\ \A x \in Chans :
           /\ chan'[x].refs \subseteq chan[x].refs
           /\ "node" \in chan'[x].refs => x \notin S
           /\ chan'[x].peer \in {chan[x].peer, NULL}
  BY <1>2, <1>3, TearDownRefs
<1>5. op \in [Tasks -> OpType] /\ table \in [Tasks -> SUBSET Handles]
  BY <1>1 DEF TypeOK
<1>6. /\ op' = [op EXCEPT ![t] = Call("decref", p, {})]
      /\ table' = [table EXCEPT ![t] = @ \ {p}] /\ op[t].kind = "idle"
      /\ p \notin Chans /\ waiting' = waiting
      /\ port' = [port EXCEPT ![p] = ClosePort(@)]
  BY IpcConnAssumption DEF sys_close, Running, port_shutdown
<1>7. \A x \in Chans, u \in Tasks : Holds(u, x)' <=> Holds(u, x)
  BY <1>5, <1>6 DEF Holds, Call
<1>8. \A x \in Chans : "handle" \in chan'[x].refs => \E u \in Tasks : Holds(u, x)'
  BY <1>1, <1>4, <1>7 DEF Reached
<1>9. ASSUME NEW x \in Chans, "node" \in chan'[x].refs  PROVE  Listed(x)'
  <2>1. Listed(x) /\ x \notin S
    BY <1>1, <1>4, <1>9 DEF Reached
  <2>2. \A r \in Ports \ {p} : port'[r] = port[r]
    BY <1>1, <1>6 DEF TypeOK
  <2>3. \A r \in Ports : x \in Elems(port[r].pending) => x \in Elems(port'[r].pending)
    BY <2>1, <2>2 DEF S
  <2> QED BY <1>6, <2>1, <2>3, ListedKeeps
<1>10. ASSUME NEW u \in Tasks, op'[u].kind = "decref", op'[u].h \in Chans
       PROVE  chan'[op'[u].h].peer = NULL
  <2>1. op'[u] = op[u]
    BY <1>5, <1>6, <1>10 DEF Call
  <2> QED BY <1>1, <1>4, <1>10, <2>1 DEF Reached
<1> QED BY <1>4, <1>8, <1>9, <1>10 DEF Reached

LEMMA DecrefRefs ==
  ASSUME ConnInv, RefsInv, NEW t \in Tasks, handle_decref(t)
  PROVE  Links(chan') /\ Reached'
<1> DEFINE h == op[t].h
<1>1. chan \in ChanMap /\ Links(chan) /\ Reached /\ TypeOK
  BY DEF ConnInv, TypeOK, ChanMap, RefsInv
<1>2. /\ op \in [Tasks -> OpType] /\ op' = [op EXCEPT ![t] = Idle]
      /\ op[t].kind = "decref" /\ table' = table /\ waiting' = waiting
  BY <1>1 DEF handle_decref, TypeOK
<1>3. op'[t].kind = "idle" /\ \A u \in Tasks \ {t} : op'[u] = op[u]
  BY <1>2 DEF Idle, Call
<1>4. ASSUME NEW x \in Chans, NEW u \in Tasks, Holds(u, x), x # h
      PROVE  Holds(u, x)'
  BY <1>2, <1>3, <1>4 DEF Holds
<1>5. ASSUME NEW u \in Tasks, op'[u].kind = "decref", op'[u].h \in Chans
      PROVE  op'[u] = op[u] /\ u # t /\ chan[op'[u].h].peer = NULL
  BY <1>1, <1>3, <1>5 DEF Reached
<1>6. CASE h \in Chans
  <2>1. chan' = [chan EXCEPT ![h] = DelRef(@, "handle")] /\ port' = port
    BY <1>6, IpcConnAssumption DEF handle_decref
  <2>2. chan[h].state = "DISCONNECTING" /\ chan[h].peer = NULL /\ chan[h] \in ChanType
    BY <1>1, <1>2, <1>6 DEF ConnInv, Owned, Reached, ChanMap
  <2> DEFINE S == {h}
  <2>3. /\ \A x \in Chans :
             chan'[x] = IF x \in S THEN DelRef(chan[x], "handle") ELSE chan[x]
        /\ S \in SUBSET Chans
        /\ \A s \in S : chan[s].state = "DISCONNECTING" /\ chan[s].peer = NULL
    BY <1>1, <1>6, <2>1, <2>2 DEF ChanMap
  <2> HIDE DEF S
  <2>4. Links(chan')
    BY <1>1, <2>3, DropRefLinks
  <2>5. \A x \in Chans : x # h => chan'[x] = chan[x]
    BY <2>3 DEF S
  <2>6. "handle" \notin chan'[h].refs /\ chan'[h].refs \subseteq chan[h].refs
        /\ chan'[h].peer = NULL
    <3>1. chan'[h] = DelRef(chan[h], "handle")
      BY <1>6, <2>3 DEF S
    <3>2. \/ chan'[h] = FreeChan
          \/ chan'[h].refs = chan[h].refs \ {"handle"} /\ chan'[h].peer = chan[h].peer
      BY <2>2, <3>1, DelRefFields DEF LessRef
    <3> QED BY <2>2, <3>2, FreeFields
  <2>7. \A x \in Chans : "handle" \in chan'[x].refs => \E u \in Tasks : Holds(u, x)'
    BY <1>1, <1>4, <2>5, <2>6 DEF Reached
  <2>8. \A x \in Chans : "node" \in chan'[x].refs => "node" \in chan[x].refs
    BY <2>5, <2>6
  <2>9. \A x \in Chans : "node" \in chan'[x].refs => Listed(x)'
    BY <1>1, <1>2, <2>1, <2>8, ListedKeeps DEF Reached
  <2>10. \A u \in Tasks :
           op'[u].kind = "decref" /\ op'[u].h \in Chans => chan'[op'[u].h].peer = NULL
    BY <1>5, <2>5, <2>6
  <2> QED BY <2>4, <2>7, <2>9, <2>10 DEF Reached
<1>7. CASE h \notin Chans
  <2>1. h \in Ports /\ port' = [port EXCEPT ![h] = UnrefPort(@)] /\ chan' = chan
    BY <1>7 DEF handle_decref
  <2>2. \A r \in Ports : port'[r].pending = port[r].pending \/ port[r].pending = << >>
    <3>1. \A r \in Ports : r # h => port'[r] = port[r]
      BY <1>1, <2>1 DEF TypeOK
    <3>2. port'[h] = UnrefPort(port[h]) /\ port[h] \in PortType
      BY <1>1, <2>1 DEF TypeOK
    <3>3. port[h].refcnt = 1 => port[h].pending = << >>
      <4>1. port[h].pending \in Seq(Chans) /\ Len(port[h].pending) \in Nat
        BY <3>2 DEF PortType
      <4> QED BY <2>1, <4>1 DEF RefsInv, PortLife
    <3>4. port[h].refcnt # 1 => port'[h].pending = port[h].pending
      BY <3>2 DEF UnrefPort, PortType
    <3> QED BY <3>1, <3>3, <3>4
  <2>3. \A x, r : r \in Ports /\ x \in Elems(port[r].pending) => x \in Elems(port'[r].pending)
    BY <2>2 DEF Elems
  <2>4. \A x \in Chans : "handle" \in chan'[x].refs => \E u \in Tasks : Holds(u, x)'
    BY <1>1, <1>4, <1>7, <2>1 DEF Reached
  <2>5. \A x \in Chans : "node" \in chan'[x].refs => Listed(x)'
    BY <1>1, <1>2, <2>1, <2>3, ListedKeeps DEF Reached
  <2>6. \A u \in Tasks :
          op'[u].kind = "decref" /\ op'[u].h \in Chans => chan'[op'[u].h].peer = NULL
    BY <1>5, <2>1
  <2> QED BY <1>1, <2>1, <2>4, <2>5, <2>6 DEF Reached
<1> QED BY <1>6, <1>7

(* Taking the first connection off a list loses that one only.             *)
LEMMA TakeElems ==
  ASSUME ConnInv, NEW p \in Ports, port[p].pending # << >>,
         port' = [port EXCEPT ![p] = TakePending(@)], NEW r \in Ports
  PROVE  /\ \A x \in Elems(port[r].pending) :
              x # Head(port[p].pending) => x \in Elems(port'[r].pending)
         /\ Elems(port'[r].pending) \subseteq Elems(port[r].pending)
         /\ \A x \in Elems(port'[r].pending) : x # Head(port[p].pending)
<1>1. port[r] \in PortType /\ port[r].pending \in Seq(Chans) /\ port \in [Ports -> PortType]
  BY DEF ConnInv, TypeOK, PortType
<1>2. CASE r = p
  <2> DEFINE s == port[p].pending
  <2>1. s \in Seq(Chans) /\ s # << >> /\ port'[r].pending = Tail(s)
    BY <1>1, <1>2 DEF TakePending, PortType
  <2>2. \A i, j \in 1..Len(s) : s[i] = s[j] => i = j
    BY DEF ConnInv, PendingLists
  <2> HIDE DEF s
  <2>3. /\ Len(s) \in Nat /\ Len(s) >= 1 /\ Head(s) = s[1] /\ Len(Tail(s)) = Len(s) - 1
        /\ \A k \in 1..(Len(s) - 1) : Tail(s)[k] = s[k + 1]
    BY <2>1
  <2>4. ASSUME NEW i \in 1..Len(s), s[i] # Head(s)
        PROVE  s[i] \in Elems(Tail(s))
    <3>1. i - 1 \in 1..(Len(s) - 1) /\ (i - 1) + 1 = i
      BY <2>3, <2>4
    <3>2. Tail(s)[i - 1] = s[i]
      BY <2>3, <3>1
    <3> QED BY <2>3, <3>1, <3>2 DEF Elems
  <2>5. ASSUME NEW k \in 1..Len(Tail(s))
        PROVE  Tail(s)[k] \in Elems(s) /\ Tail(s)[k] # Head(s)
    <3>1. k + 1 \in 1..Len(s) /\ Tail(s)[k] = s[k + 1] /\ k + 1 # 1 /\ 1 \in 1..Len(s)
      BY <2>3
    <3> QED BY <2>2, <2>3, <3>1 DEF Elems
  <2>6. /\ \A x \in Elems(s) : x # Head(s) => x \in Elems(Tail(s))
        /\ \A x \in Elems(Tail(s)) : x \in Elems(s) /\ x # Head(s)
    BY <2>4, <2>5 DEF Elems
  <2> QED BY <1>2, <2>1, <2>6 DEF s
<1>3. CASE r # p
  <2>1. port'[r] = port[r]
    BY <1>1, <1>3
  <2>2. \A x \in Elems(port[r].pending) : x # Head(port[p].pending)
    <3>1. port[p].pending \in Seq(Chans)
      BY <1>1 DEF PortType
    <3>2. 1 \in 1..Len(port[p].pending) /\ Head(port[p].pending) = port[p].pending[1]
      BY <3>1
    <3> QED BY <1>3, <3>2 DEF Elems, ConnInv, PendingLists
  <2> QED BY <2>1, <2>2
<1> QED BY <1>2, <1>3

LEMMA AcceptRefs ==
  ASSUME ConnInv, RefsInv, NEW t \in Tasks, NEW p \in Ports, sys_accept(t, p)
  PROVE  Links(chan') /\ Reached'
<1>1. chan \in ChanMap /\ TypeOK /\ port[p].pending # << >> /\ Links(chan) /\ Reached
  BY DEF ConnInv, TypeOK, ChanMap, sys_accept, RefsInv
<1>2. port[p].pending \in Seq(Chans)
  BY <1>1 DEF TypeOK, PortType
<1>3. 1 \in 1..Len(port[p].pending) /\ Head(port[p].pending) = port[p].pending[1]
  BY <1>1, <1>2
<1>4. PICK s \in Chans : s = Head(port[p].pending) /\ Queued(s)
  BY <1>3, PendingElems DEF ConnInv
<1>5. /\ Accept(t, s) \/ DropPending(s)
      /\ port' = [port EXCEPT ![p] = TakePending(@)] /\ waiting' = waiting
      /\ op[t].kind = "idle"
  BY <1>4 DEF sys_accept, Running
<1>6. op \in [Tasks -> OpType] /\ table \in [Tasks -> SUBSET Handles]
  BY <1>1 DEF TypeOK
<1>7. ASSUME NEW x \in Chans, Listed(x), x # s  PROVE  Listed(x)'
  <2>1. \A r \in Ports : x \in Elems(port[r].pending) => x \in Elems(port'[r].pending)
    BY <1>1, <1>4, <1>5, <1>7, TakeElems
  <2> QED BY <1>5, <1>7, <2>1, ListedKeeps
<1>8. CASE Accept(t, s)
  <2>1. PICK c \in Chans : chan[s].peer = c /\ chan[c].state = "CONNECTING"
    BY <1>1, <1>8, ChanFieldTypes DEF Accept, Acceptable, ChanMap
  <2>2. chan[s].state = "ACCEPTING" /\ c # s
    BY <1>8, <2>1 DEF Accept, Acceptable
  <2>3. /\ chan'[s] = AcceptServer(chan[s]) /\ chan'[c] = AcceptClient(chan[c])
        /\ \A x \in Chans \ {s, c} : chan'[x] = chan[x]
    BY <1>1, <1>8, <2>1, <2>2 DEF Accept, ChanMap
  <2>4. chan[s] \in ChanFields /\ chan[c] \in ChanFields
    BY <1>1 DEF ChanMap, ChanType
  <2>5. /\ chan'[s].state = "CONNECTED" /\ chan'[s].peer = chan[s].peer
        /\ chan'[s].refs = (chan[s].refs \ {"node"}) \cup {"handle"}
    BY <2>3, <2>4 DEF AcceptServer, ChanFields
  <2>6. /\ chan'[c].state = "CONNECTED" /\ chan'[c].peer = chan[c].peer
        /\ chan'[c].refs = chan[c].refs
    BY <2>3, <2>4 DEF AcceptClient, ChanFields
  <2>7. Links(chan')
    BY <1>1, <2>1, <2>2, <2>3, <2>5, <2>6, AcceptLinks
  <2>8. \/ op' = op /\ table' = [table EXCEPT ![t] = @ \cup {s}]
        \/ table' = table /\ op' = [op EXCEPT ![t] = Call("close", s, {})]
    BY <1>8 DEF Accept
  <2>9. \A x \in Chans, u \in Tasks :
          Holds(u, x)' <=> Holds(u, x) \/ (u = t /\ x \in {s})
    BY <1>5, <1>6, <2>8 DEF Holds, Call
  <2>10. \A x \in Chans :
           /\ "handle" \in chan'[x].refs => x = s \/ "handle" \in chan[x].refs
           /\ "node" \in chan'[x].refs => x # s /\ "node" \in chan[x].refs
           /\ chan'[x].peer = chan[x].peer
    BY <2>3, <2>5, <2>6
  <2>11. \A x \in Chans : "handle" \in chan'[x].refs => \E u \in Tasks : Holds(u, x)'
    BY <1>1, <2>9, <2>10 DEF Reached
  <2>12. \A x \in Chans : "node" \in chan'[x].refs => Listed(x)'
    BY <1>1, <1>7, <2>10 DEF Reached
  <2>13. \A u \in Tasks : op'[u].kind = "decref" => op'[u] = op[u]
    BY <1>6, <2>8 DEF Call
  <2>14. \A u \in Tasks :
           op'[u].kind = "decref" /\ op'[u].h \in Chans => chan'[op'[u].h].peer = NULL
    BY <1>1, <2>10, <2>13 DEF Reached
  <2> QED BY <2>7, <2>11, <2>12, <2>14 DEF Reached
<1>9. CASE DropPending(s)
  <2>1. chan' = [Shutdown(chan, {s}) EXCEPT ![s] = DelRef(@, "node")]
        /\ table' = table /\ op' = op
    BY <1>9 DEF DropPending
  <2> DEFINE S == {s}
  <2>2. /\ \A x \in Chans :
             chan'[x] = IF x \in S THEN DelRef(Shutdown(chan, S)[x], "node")
                        ELSE Shutdown(chan, S)[x]
        /\ S \in SUBSET Chans /\ \A x \in S : Queued(x)
    BY <1>4, <2>1 DEF Shutdown
  <2> HIDE DEF S
  <2>3. /\ Links(chan')
        /\ \A x \in Chans :
             /\ chan'[x].refs \subseteq chan[x].refs
             /\ "node" \in chan'[x].refs => x \notin S
             /\ chan'[x].peer \in {chan[x].peer, NULL}
    BY <2>2, TearDownRefs
  <2>4. \A x \in Chans : "handle" \in chan'[x].refs => \E u \in Tasks : Holds(u, x)'
    BY <1>1, <2>1, <2>3 DEF Reached, Holds
  <2>5. \A x \in Chans : "node" \in chan'[x].refs => Listed(x)'
    BY <1>1, <1>7, <2>3 DEF Reached, S
  <2>6. \A u \in Tasks :
          op'[u].kind = "decref" /\ op'[u].h \in Chans => chan'[op'[u].h].peer = NULL
    BY <1>1, <2>1, <2>3 DEF Reached
  <2> QED BY <2>3, <2>4, <2>5, <2>6 DEF Reached
<1> QED BY <1>5, <1>8, <1>9

(* A list that grows at its end.                                           *)
LEMMA AppendElems ==
  ASSUME NEW S, NEW s \in Seq(S), NEW x \in S
  PROVE  \A y : y \in Elems(Append(s, x)) <=> y \in Elems(s) \/ y = x
<1>1. /\ Len(Append(s, x)) = Len(s) + 1 /\ Len(s) \in Nat
      /\ \A k \in 1..Len(s) : Append(s, x)[k] = s[k]
      /\ Append(s, x)[Len(s) + 1] = x
  OBVIOUS
<1>2. \A k : k \in 1..(Len(s) + 1) <=> k \in 1..Len(s) \/ k = Len(s) + 1
  BY <1>1
<1> QED BY <1>1, <1>2 DEF Elems

LEMMA ConnectToPortRefs ==
  ASSUME ConnInv, RefsInv, NEW t \in Tasks, NEW c \in Chans, NEW p \in Ports,
         chan[c].state = "FREE", Running(t), NEW sync,
         InstallOrWait(t, c, sync), ConnectToPort(t, c, p)
  PROVE  Links(chan') /\ Reached'
<1>1. chan \in ChanMap /\ Graph(chan) /\ Links(chan) /\ Reached /\ TypeOK
  BY DEF ConnInv, TypeOK, ChanMap, RefsInv
<1>2. PICK s \in Unused \ {c} :
        /\ chan' = [chan EXCEPT
             ![c] = ClientEnd([FreeChan EXCEPT !.uuid = t], s, {"handle", "peer"}),
             ![s] = ServerEnd(c, port[p].uuid)]
        /\ port' = [port EXCEPT ![p] = QueuePending(@, s)]
        /\ waiting' = waiting
  BY DEF ConnectToPort
<1>3. s \in Chans /\ chan[s].state = "FREE" /\ s # c
  BY DEF Unused
<1>4. /\ chan'[c] = ClientEnd([FreeChan EXCEPT !.uuid = t], s, {"handle", "peer"})
      /\ chan'[s] = ServerEnd(c, port[p].uuid)
      /\ \A x \in Chans \ {c, s} : chan'[x] = chan[x]
  BY <1>1, <1>2, <1>3 DEF ChanMap
<1>5. /\ chan'[c].state = "CONNECTING" /\ chan'[c].peer = s
      /\ chan'[c].refs = {"handle", "peer"}
  BY <1>4 DEF ClientEnd, FreeChan
<1>6. /\ chan'[s].state = "ACCEPTING" /\ chan'[s].peer = c
      /\ chan'[s].refs = {"node", "peer"}
  BY <1>4 DEF ServerEnd, FreeChan
<1>7. Links(chan')
  <2> DEFINE f == [x \in {c, s} |-> IF x = c THEN s ELSE c]
             K == {c}
             V == {s}
  <2>1. f[c] = s /\ f[s] = c
    BY <1>3
  <2>2. \A x : (x \in K <=> x = c) /\ (x \in V <=> x = s)
    OBVIOUS
  <2>3. K \in SUBSET Chans /\ V \in SUBSET Chans
    BY <1>3
  <2> HIDE DEF f, K, V
  <2>4. \A x \in K \cup V :
          /\ chan[x].state \in {"FREE", "WAITING_FOR_PORT"}
          /\ chan'[x].peer = f[x] /\ f[f[x]] = x
    BY <1>3, <1>5, <1>6, <2>1, <2>2
  <2>5. /\ \A x \in K : /\ chan'[x].state = "CONNECTING" /\ f[x] \in V
                        /\ chan'[x].refs = {"handle", "peer"}
        /\ \A x \in V : /\ chan'[x].state = "ACCEPTING" /\ f[x] \in K
                        /\ chan'[x].refs = {"node", "peer"}
        /\ \A x \in Chans \ (K \cup V) : chan'[x] = chan[x]
    BY <1>4, <1>5, <1>6, <2>1, <2>2
  <2>6. chan \in ChanMap /\ Graph(chan) /\ Links(chan)
    BY <1>1
  <2>7. NewPairs(chan, chan', K, V, f)
    BY <2>4, <2>5 DEF NewPairs
  <2> QED BY <2>3, <2>6, <2>7, AttachLinks
<1>8. /\ \A x \in Chans, u \in Tasks :
           Holds(u, x)' <=> Holds(u, x) \/ (u = t /\ x \in {c})
      /\ \A u \in Tasks \ {t} : op'[u] = op[u] /\ table'[u] = table[u]
      /\ op'[t].kind # "decref"
  BY InstallHolds
<1>9. \A x \in Chans : "handle" \in chan'[x].refs => \E u \in Tasks : Holds(u, x)'
  BY <1>1, <1>4, <1>5, <1>6, <1>8 DEF Reached
<1>10. /\ port'[p].pending = Append(port[p].pending, s) /\ port[p].pending \in Seq(Chans)
       /\ \A r \in Ports \ {p} : port'[r] = port[r]
  BY <1>1, <1>2 DEF QueuePending, TypeOK, PortType
<1>11. \A y : y \in Elems(port'[p].pending) <=> y \in Elems(port[p].pending) \/ y = s
  BY <1>3, <1>10, AppendElems
<1>12. ASSUME NEW x \in Chans, "node" \in chan'[x].refs  PROVE  Listed(x)'
  <2>1. CASE x = s
    BY <1>11, <2>1 DEF Listed, Elems
  <2>2. CASE x # s
    <3>1. Listed(x)
      BY <1>1, <1>4, <1>5, <1>12, <2>2 DEF Reached
    <3> QED BY <1>2, <1>10, <1>11, <3>1, ListedKeeps
  <2> QED BY <2>1, <2>2
<1>13. ASSUME NEW u \in Tasks, op'[u].kind = "decref", op'[u].h \in Chans
       PROVE  chan'[op'[u].h].peer = NULL
  <2>1. u # t /\ op'[u] = op[u]
    BY <1>8, <1>13
  <2>2. Holds(u, op[u].h) /\ chan[op[u].h].peer = NULL
    BY <1>1, <1>13, <2>1 DEF Holds, Reached
  <2>3. op[u].h # c /\ op[u].h # s
    BY <1>3, <1>13, <2>1, <2>2, HeldNotFree
  <2> QED BY <1>4, <1>13, <2>1, <2>2, <2>3
<1> QED BY <1>7, <1>9, <1>12, <1>13 DEF Reached

LEMMA ConnectWaitRefs ==
  ASSUME ConnInv, RefsInv, NEW t \in Tasks, NEW c \in Chans, NEW q \in Paths,
         chan[c].state = "FREE", Running(t), NEW sync,
         InstallOrWait(t, c, sync), ConnectWaitForPort(t, c, q)
  PROVE  Links(chan') /\ Reached'
<1>1. /\ chan \in ChanMap /\ Graph(chan) /\ Links(chan) /\ Reached
      /\ waiting \in [Paths -> Seq(Chans)]
  BY DEF ConnInv, TypeOK, ChanMap, RefsInv
<1>2. \A x \in Chans \ {c} : chan'[x] = chan[x]
  BY <1>1 DEF ConnectWaitForPort, ChanMap
<1>3. /\ chan'[c].state = "WAITING_FOR_PORT" /\ chan'[c].peer = NULL
      /\ chan'[c].refs = {"handle", "node"}
  BY <1>1 DEF ConnectWaitForPort, ChanMap, FreeChan
<1>4. port' = port /\ waiting' = [waiting EXCEPT ![q] = Append(@, c)]
  BY DEF ConnectWaitForPort
<1>5. Links(chan')
  BY <1>1, <1>2, <1>3, WaitLinks
<1>6. /\ \A x \in Chans, u \in Tasks :
           Holds(u, x)' <=> Holds(u, x) \/ (u = t /\ x \in {c})
      /\ \A u \in Tasks \ {t} : op'[u] = op[u] /\ table'[u] = table[u]
      /\ op'[t].kind # "decref"
  BY InstallHolds
<1>7. \A x \in Chans : "handle" \in chan'[x].refs => \E u \in Tasks : Holds(u, x)'
  BY <1>1, <1>2, <1>6 DEF Reached
<1>8. /\ waiting'[q] = Append(waiting[q], c) /\ waiting[q] \in Seq(Chans)
      /\ \A r \in Paths \ {q} : waiting'[r] = waiting[r]
  BY <1>1, <1>4
<1>9. \A y : y \in Elems(waiting'[q]) <=> y \in Elems(waiting[q]) \/ y = c
  BY <1>8, AppendElems
<1>10. ASSUME NEW x \in Chans, "node" \in chan'[x].refs  PROVE  Listed(x)'
  <2>1. CASE x = c
    BY <1>9, <2>1 DEF Listed, Elems
  <2>2. CASE x # c
    <3>1. Listed(x)
      BY <1>1, <1>2, <1>10, <2>2 DEF Reached
    <3> QED BY <1>4, <1>8, <1>9, <3>1, ListedKeeps
  <2> QED BY <2>1, <2>2
<1>11. \A u \in Tasks :
         op'[u].kind = "decref" /\ op'[u].h \in Chans => chan'[op'[u].h].peer = NULL
  BY <1>1, <1>2, <1>3, <1>6 DEF Reached
<1> QED BY <1>5, <1>7, <1>10, <1>11 DEF Reached

LEMMA PublishRefs ==
  ASSUME ConnInv, RefsInv, NEW t \in Tasks, NEW p \in Ports, NEW q \in Paths,
         NEW allow, op[t].kind = "idle", port[p].state = "FREE",
         PublishAttach(p, t, q, allow)
  PROVE  Links(chan') /\ Reached'
<1> DEFINE w == waiting[q]
<1>1. /\ chan \in ChanMap /\ Graph(chan) /\ Links(chan) /\ Reached /\ TypeOK
      /\ w \in Seq(Chans)
  BY DEF ConnInv, TypeOK, ChanMap, RefsInv
<1>2. PICK servers \in Seq(Chans) :
        /\ Len(servers) = Len(w) /\ Paired(w, servers)
        /\ port' = [port EXCEPT ![p] = NewPort(t, q, allow, servers)]
  BY PublishFacts
<1>3. /\ waiting' = [waiting EXCEPT ![q] = << >>] /\ op' = op
      /\ table' = [table EXCEPT ![t] = @ \cup {p}]
  BY DEF PublishAttach
<1> DEFINE K == Elems(w)
           V == Elems(servers)
<1>4. /\ \A x : x \in K <=> \E i \in 1..Len(w) : x = w[i]
      /\ \A x : x \in V <=> \E i \in 1..Len(w) : x = servers[i]
  BY <1>2 DEF Elems
<1>5. K \in SUBSET Chans /\ V \in SUBSET Chans
  BY <1>2, <1>4 DEF Paired
<1>6. \A x \in Chans \ (K \cup V) : chan'[x] = chan[x]
  BY <1>2 DEF Paired
<1>7. \E f : PairsBy(f, w, servers)
  BY <1>1, <1>2, PairedBy
<1>8. PICK f : PairsBy(f, w, servers)
  BY <1>7
<1>9. /\ \A x \in K \cup V :
           /\ chan[x].state \in {"FREE", "WAITING_FOR_PORT"}
           /\ chan'[x].peer = f[x] /\ f[f[x]] = x
      /\ \A x \in K : /\ chan'[x].state = "CONNECTING" /\ f[x] \in V
                      /\ chan'[x].refs = {"handle", "peer"}
      /\ \A x \in V : /\ chan'[x].state = "ACCEPTING" /\ f[x] \in K
                      /\ chan'[x].refs = {"node", "peer"}
  BY <1>8 DEF PairsBy
<1>10. \A x \in K : chan[x].state = "WAITING_FOR_PORT" /\ chan[x].refs # {}
  <2>1. \A x \in K : chan[x].state = "WAITING_FOR_PORT"
    BY <1>2, <1>4 DEF Paired
  <2> QED BY <1>1, <1>5, <2>1 DEF Links
<1> HIDE DEF w, K, V
<1>11. Links(chan')
  <2>1. NewPairs(chan, chan', K, V, f)
    BY <1>6, <1>9 DEF NewPairs
  <2> QED BY <1>1, <1>5, <2>1, AttachLinks
<1>12. \A x \in Chans, u \in Tasks : Holds(u, x)' <=> Holds(u, x)
  <2>1. p \notin Chans /\ table \in [Tasks -> SUBSET Handles]
    BY <1>1, IpcConnAssumption DEF TypeOK
  <2> QED BY <1>3, <2>1 DEF Holds
<1>13. ASSUME NEW x \in Chans, "handle" \in chan'[x].refs
       PROVE  \E u \in Tasks : Holds(u, x)'
  <2>1. x \notin V
    BY <1>9, <1>13
  <2>2. "handle" \in chan[x].refs
    <3>1. CASE x \in K
      <4>1. chan[x].state = "WAITING_FOR_PORT"
        BY <1>10, <3>1
      <4> QED BY <1>1, <4>1 DEF Links
    <3>2. CASE x \notin K
      BY <1>6, <1>13, <2>1, <3>2
    <3> QED BY <3>1, <3>2
  <2> QED BY <1>1, <1>12, <2>2 DEF Reached
<1>14. /\ waiting'[q] = << >> /\ \A r \in Paths \ {q} : waiting'[r] = waiting[r]
       /\ port'[p].pending = servers /\ \A r \in Ports \ {p} : port'[r] = port[r]
  BY <1>1, <1>2, <1>3 DEF NewPort, TypeOK
<1>15. ASSUME NEW x \in Chans, "node" \in chan'[x].refs  PROVE  Listed(x)'
  <2>1. x \notin K
    BY <1>9, <1>15
  <2>2. CASE x \in V
    BY <1>14, <2>2 DEF Listed, Elems, V
  <2>3. CASE x \notin V
    <3>1. Listed(x)
      BY <1>1, <1>6, <1>15, <2>1, <2>3 DEF Reached
    <3>2. x \notin Elems(port[p].pending)
      <4>1. port[p].pending = << >>
        BY DEF RefsInv, PortLife
      <4> QED BY <4>1 DEF Elems
    <3>3. \A r \in Ports : x \in Elems(port[r].pending) => x \in Elems(port'[r].pending)
      BY <1>14, <3>2
    <3>4. \A r \in Paths : x \in Elems(waiting[r]) => x \in Elems(waiting'[r])
      BY <1>14, <2>1 DEF K, w
    <3> QED BY <3>1, <3>3, <3>4, ListedKeeps
  <2> QED BY <2>2, <2>3
<1>16. ASSUME NEW u \in Tasks, op'[u].kind = "decref", op'[u].h \in Chans
       PROVE  chan'[op'[u].h].peer = NULL
  <2>1. op'[u] = op[u]
    BY <1>3
  <2>2. /\ chan[op[u].h].peer = NULL
        /\ chan[op[u].h].state = "DISCONNECTING"
    BY <1>1, <1>16, <2>1 DEF Reached, ConnInv, Owned
  <2>3. op[u].h \notin K \cup V
    BY <1>9, <2>2
  <2> QED BY <1>6, <1>16, <2>1, <2>2, <2>3
<1> QED BY <1>11, <1>13, <1>15, <1>16 DEF Reached

LEMMA RefsStep ==
  ASSUME ConnInv, RefsInv, NEW t \in Tasks, TaskStep(t)
  PROVE  Links(chan') /\ Reached'
<1>1. ASSUME UNCHANGED <<chan, port, waiting, table, op>>
      PROVE  Links(chan') /\ Reached'
  <2>1. \A x \in Chans : SameLinks(chan[x], chan'[x])
    BY <1>1 DEF SameLinks
  <2>2. \A x \in Chans, u \in Tasks : Holds(u, x)' <=> Holds(u, x)
    BY <1>1 DEF Holds
  <2> QED BY <1>1, <2>1, <2>2, SameReached
<1>2. ASSUME NEW p \in Ports, NEW q \in Paths, NEW allow \in SUBSET Access,
             sys_port_create(t, p, q, allow)
      PROVE  Links(chan') /\ Reached'
  BY <1>1, <1>2, PublishRefs DEF sys_port_create, PublishAssertFails, Running
<1>3. ASSUME NEW c \in Chans, NEW q \in Paths, NEW wait, NEW sync,
             sys_connect(t, c, q, wait, sync)
      PROVE  Links(chan') /\ Reached'
  <2>1. chan[c].state = "FREE" /\ Running(t) /\ InstallOrWait(t, c, sync)
    BY <1>3 DEF sys_connect, Unused
  <2>2. \/ \E p \in Ports : ConnectToPort(t, c, p)
        \/ ConnectWaitForPort(t, c, q)
    BY <1>3 DEF sys_connect, Published
  <2> QED BY <2>1, <2>2, ConnectToPortRefs, ConnectWaitRefs
<1>4. CASE \/ ConnectPoll(t) \/ ConnectFinish(t)
           \/ WaitFinish(t) \/ \E c \in Chans : WaitPoll(t, c)
  <2>1. /\ port' = port /\ waiting' = waiting
        /\ \A x \in Chans : SameLinks(chan[x], chan'[x])
        /\ \A x \in Chans, u \in Tasks : Holds(u, x)' <=> Holds(u, x)
        /\ \A u \in Tasks : op'[u].kind = "decref" => op'[u] = op[u]
    BY <1>4, PollFacts
  <2> QED BY <2>1, SameReached
<1>5. ASSUME NEW c \in Chans,
             \/ sys_send_msg(t, c) \/ sys_get_msg(t, c)
             \/ sys_put_msg(t, c) \/ UseNullQueue(t, c)
      PROVE  Links(chan') /\ Reached'
  <2>1. /\ UNCHANGED <<port, waiting, table, op>>
        /\ \A x \in Chans : SameLinks(chan[x], chan'[x])
        /\ \A x \in Chans, u \in Tasks : Holds(u, x)' <=> Holds(u, x)
    BY <1>5, MsgFacts
  <2> QED BY <2>1, SameReached
<1>6. ASSUME NEW h \in Chans \cup Ports, sys_close(t, h)
      PROVE  Links(chan') /\ Reached'
  BY <1>6, CloseChanRefs, ClosePortRefs DEF sys_close
<1> QED BY <1>2, <1>3, <1>4, <1>5, <1>6, AcceptRefs, CloseChanRefs, DecrefRefs
        DEF TaskStep

-----------------------------------------------------------------------------
(* The life of a port.                                                     *)

(* One port's part of PortLife; T are the tasks that have it in their      *)
(* table and U those that are closing it.                                  *)
Life(r, T, U) ==
  \/ /\ r.state = "FREE" /\ r.refcnt = 0 /\ ~r.listed /\ r.pending = << >>
     /\ T = {} /\ U = {}
  \/ /\ r.state = "LISTENING" /\ r.refcnt = 3 + Len(r.pending) /\ r.listed
     /\ T # {} /\ U = {}
  \/ /\ r.state = "CLOSING" /\ r.refcnt = 1 /\ ~r.listed /\ r.pending = << >>
     /\ T = {} /\ U # {}

InTable(p) == {t \in Tasks : p \in table[t]}
Closing(p) == {t \in Tasks : op[t].h = p}

LEMMA PortLifeParts ==
  ASSUME PortLife, NEW p \in Ports
  PROVE  Life(port[p], InTable(p), Closing(p))
<1>1. /\ InTable(p) = {} <=> \A t \in Tasks : p \notin table[t]
      /\ Closing(p) = {} <=> \A t \in Tasks : op[t].h # p
  BY DEF InTable, Closing
<1> QED BY <1>1 DEF Life, PortLife

LEMMA PortLifeNext ==
  ASSUME \A p \in Ports : Life(port'[p], InTable(p)', Closing(p)'),
         \A p \in Ports, t, u \in Tasks : Holds(t, p)' /\ Holds(u, p)' => t = u,
         \A t \in Tasks : op'[t].kind = "idle" => op'[t].h = NULL
  PROVE  PortLife'
<1>1. ASSUME NEW p \in Ports
      PROVE  \/ /\ port'[p].state = "FREE" /\ port'[p].refcnt = 0
                /\ ~port'[p].listed /\ port'[p].pending = <<>>
                /\ \A t \in Tasks : p \notin table'[t] /\ op'[t].h # p
             \/ /\ port'[p].state = "LISTENING"
                /\ port'[p].refcnt = 3 + Len(port'[p].pending) /\ port'[p].listed
                /\ \E t \in Tasks : p \in table'[t]
                /\ \A t \in Tasks : op'[t].h # p
             \/ /\ port'[p].state = "CLOSING" /\ port'[p].refcnt = 1
                /\ ~port'[p].listed /\ port'[p].pending = <<>>
                /\ \E t \in Tasks : op'[t].h = p
                /\ \A t \in Tasks : p \notin table'[t]
  <2>1. /\ InTable(p)' = {} <=> \A t \in Tasks : p \notin table'[t]
        /\ Closing(p)' = {} <=> \A t \in Tasks : op'[t].h # p
    BY DEF InTable, Closing
  <2> QED BY <2>1 DEF Life
<1> QED BY <1>1 DEF PortLife

(* A port may gain or lose pending connections while it listens.           *)
Keeps(r, d) ==
  \/ d = r
  \/ /\ r.state = "LISTENING" /\ d.state = "LISTENING" /\ d.listed = r.listed
     /\ \E n \in Int : d.refcnt = r.refcnt + n /\ Len(d.pending) = Len(r.pending) + n

LEMMA KeepsLife ==
  ASSUME NEW r \in PortType, NEW d \in PortType, Keeps(r, d), NEW T, NEW U, Life(r, T, U)
  PROVE  Life(d, T, U)
<1>1. CASE d = r
  BY <1>1
<1>2. CASE d # r
  <2>1. PICK n \in Int :
          /\ r.state = "LISTENING" /\ d.state = "LISTENING" /\ d.listed = r.listed
          /\ d.refcnt = r.refcnt + n /\ Len(d.pending) = Len(r.pending) + n
    BY <1>2 DEF Keeps
  <2>2. r.refcnt = 3 + Len(r.pending) /\ r.listed /\ T # {} /\ U = {}
    BY <2>1 DEF Life
  <2>3. Len(r.pending) \in Nat /\ Len(d.pending) \in Nat
    BY DEF PortType
  <2>4. d.refcnt = 3 + Len(d.pending)
    BY <2>1, <2>2, <2>3
  <2> QED BY <2>1, <2>2, <2>4 DEF Life
<1> QED BY <1>1, <1>2

(* Steps in which task t takes, uses or drops channels only.               *)
LEMMA LifeFrame ==
  ASSUME TypeOK, TypeOK', PortLife, NEW t \in Tasks,
         \A u \in Tasks \ {t} : op'[u] = op[u] /\ table'[u] = table[u],
         \A r \in Ports : r \in table'[t] <=> r \in table[t],
         op[t].h \notin Ports, op'[t].h \notin Ports,
         op'[t].kind = "idle" => op'[t].h = NULL,
         \A r \in Ports : Keeps(port[r], port'[r])
  PROVE  PortLife'
<1>1. \A u \in Tasks, r \in Ports :
        /\ r \in table'[u] <=> r \in table[u]
        /\ op'[u].h = r <=> op[u].h = r
  OBVIOUS
<1>2. ASSUME NEW r \in Ports
      PROVE  Life(port'[r], InTable(r)', Closing(r)')
  <2>1. InTable(r)' = InTable(r) /\ Closing(r)' = Closing(r)
    BY <1>1 DEF InTable, Closing
  <2>2. Life(port[r], InTable(r), Closing(r))
    BY PortLifeParts
  <2>3. port[r] \in PortType /\ port'[r] \in PortType
    BY DEF TypeOK
  <2>4. Life(port'[r], InTable(r), Closing(r))
    BY <2>2, <2>3, KeepsLife
  <2> QED BY <2>1, <2>4
<1>3. ASSUME NEW r \in Ports, NEW u \in Tasks, Holds(u, r)'
      PROVE  Holds(u, r)
  <2>1. CASE u = t
    BY <1>1, <1>3, <2>1 DEF Holds
  <2>2. CASE u # t
    BY <1>3, <2>2 DEF Holds
  <2> QED BY <2>1, <2>2
<1>4. \A r \in Ports, u, v \in Tasks : Holds(u, r)' /\ Holds(v, r)' => u = v
  BY <1>3 DEF PortLife
<1>5. \A u \in Tasks : op'[u].kind = "idle" => op'[u].h = NULL
  BY DEF PortLife
<1> QED BY <1>2, <1>4, <1>5, PortLifeNext

LEMMA ChanNoPort == \A h : h \in Chans \cup {NULL} => h \notin Ports
BY IpcConnAssumption

LEMMA PublishLife ==
  ASSUME ConnInv, PortLife, NEW t \in Tasks, NEW p \in Ports, NEW q \in Paths,
         NEW allow, op[t].kind = "idle", port[p].state = "FREE",
         PublishAttach(p, t, q, allow)
  PROVE  PortLife'
<1>1. TypeOK /\ table \in [Tasks -> SUBSET Handles] /\ port \in [Ports -> PortType]
  BY DEF ConnInv, TypeOK
<1>2. PICK servers \in Seq(Chans) : port' = [port EXCEPT ![p] = NewPort(t, q, allow, servers)]
  BY PublishFacts
<1>3. op' = op /\ table' = [table EXCEPT ![t] = @ \cup {p}]
  BY DEF PublishAttach
<1>4. \A u \in Tasks : p \notin table[u] /\ op[u].h # p
  BY DEF PortLife
<1>5. /\ port'[p] = NewPort(t, q, allow, servers)
      /\ \A r \in Ports \ {p} : port'[r] = port[r]
  BY <1>1, <1>2
<1>6. \A u \in Tasks, r \in Ports : r \in table'[u] <=> r \in table[u] \/ (u = t /\ r = p)
  BY <1>1, <1>3
<1>7. ASSUME NEW r \in Ports
      PROVE  Life(port'[r], InTable(r)', Closing(r)')
  <2>1. Closing(r)' = Closing(r)
    BY <1>3 DEF Closing
  <2>2. CASE r = p
    <3>1. InTable(r)' # {} /\ Closing(r)' = {}
      BY <1>3, <1>4, <1>6, <2>2 DEF InTable, Closing
    <3> QED BY <1>5, <2>2, <3>1 DEF Life, NewPort
  <2>3. CASE r # p
    <3>1. InTable(r)' = InTable(r)
      BY <1>6, <2>3 DEF InTable
    <3> QED BY <1>5, <2>1, <2>3, <3>1, PortLifeParts
  <2> QED BY <2>2, <2>3
<1>8. \A r \in Ports, u \in Tasks : Holds(u, r)' => Holds(u, r) \/ (u = t /\ r = p)
  BY <1>3, <1>6 DEF Holds
<1>9. \A u \in Tasks : ~Holds(u, p)
  BY <1>4 DEF Holds
<1>10. \A r \in Ports, u, v \in Tasks : Holds(u, r)' /\ Holds(v, r)' => u = v
  BY <1>8, <1>9 DEF PortLife
<1>11. \A u \in Tasks : op'[u].kind = "idle" => op'[u].h = NULL
  BY <1>3 DEF PortLife
<1> QED BY <1>7, <1>10, <1>11, PortLifeNext

LEMMA AcceptLife ==
  ASSUME ConnInv, TypeOK', PortLife, NEW t \in Tasks, NEW p \in Ports, sys_accept(t, p)
  PROVE  PortLife'
<1>1. /\ TypeOK /\ port \in [Ports -> PortType] /\ port[p] \in PortType
      /\ op \in [Tasks -> OpType] /\ table \in [Tasks -> SUBSET Handles]
  BY DEF ConnInv, TypeOK
<1>2. /\ port[p].pending \in Seq(Chans) /\ port[p].pending # << >>
      /\ port[p].refcnt \in Int /\ Len(port[p].pending) \in Nat
  BY <1>1 DEF PortType, sys_accept
<1>3. PICK s \in Chans : Accept(t, s) \/ DropPending(s)
  BY <1>2 DEF sys_accept
<1>4. op[t].kind = "idle" /\ op[t].h = NULL
  BY DEF sys_accept, Running, PortLife
<1>5. \/ op' = op /\ table' = [table EXCEPT ![t] = @ \cup {s}]
      \/ table' = table /\ op' = [op EXCEPT ![t] = Call("close", s, {})]
      \/ table' = table /\ op' = op
  BY <1>3 DEF Accept, DropPending
<1>6. s \notin Ports /\ NULL \notin Ports
  BY ChanNoPort
<1>7. /\ \A u \in Tasks \ {t} : op'[u] = op[u] /\ table'[u] = table[u]
      /\ \A r \in Ports : r \in table'[t] <=> r \in table[t]
      /\ op'[t].h \notin Ports
      /\ op'[t].kind = "idle" => op'[t].h = NULL
  BY <1>1, <1>4, <1>5, <1>6 DEF Call
<1>8. port'[p] = TakePending(port[p]) /\ \A r \in Ports \ {p} : port'[r] = port[r]
  BY <1>1 DEF sys_accept
<1>9. Keeps(port[p], port'[p])
  <2>1. /\ port'[p].pending = Tail(port[p].pending) /\ port'[p].refcnt = port[p].refcnt - 1
        /\ port'[p].state = port[p].state /\ port'[p].listed = port[p].listed
        /\ port[p].state = "LISTENING"
    BY <1>1, <1>8 DEF TakePending, PortType, sys_accept
  <2>2. Len(Tail(port[p].pending)) = Len(port[p].pending) - 1
    BY <1>2
  <2>3. -1 \in Int /\ port'[p].refcnt = port[p].refcnt + (-1)
        /\ Len(port'[p].pending) = Len(port[p].pending) + (-1)
    BY <1>2, <2>1, <2>2
  <2> QED BY <2>1, <2>3 DEF Keeps
<1>10. \A r \in Ports : Keeps(port[r], port'[r])
  BY <1>8, <1>9 DEF Keeps
<1> QED BY <1>1, <1>4, <1>6, <1>7, <1>10, LifeFrame

LEMMA ConnectLife ==
  ASSUME ConnInv, TypeOK', PortLife, NEW t \in Tasks, NEW c \in Chans, NEW q \in Paths,
         NEW wait, NEW sync, sys_connect(t, c, q, wait, sync)
  PROVE  PortLife'
<1>1. /\ TypeOK /\ port \in [Ports -> PortType]
      /\ op \in [Tasks -> OpType] /\ table \in [Tasks -> SUBSET Handles]
  BY DEF ConnInv, TypeOK
<1>2. op[t].kind = "idle" /\ op[t].h = NULL
  BY DEF sys_connect, Running, PortLife
<1>3. c \notin Ports /\ NULL \notin Ports
  BY ChanNoPort
<1>4. \/ op' = op /\ table' = [table EXCEPT ![t] = @ \cup {c}]
      \/ table' = table /\ op' = [op EXCEPT ![t] = Call("connect", c, {})]
      \/ table' = table /\ op' = [op EXCEPT ![t] = Call("close", c, {})]
  BY DEF sys_connect, InstallOrWait
<1>5. /\ \A u \in Tasks \ {t} : op'[u] = op[u] /\ table'[u] = table[u]
      /\ \A r \in Ports : r \in table'[t] <=> r \in table[t]
      /\ op'[t].h \notin Ports
      /\ op'[t].kind = "idle" => op'[t].h = NULL
  BY <1>1, <1>2, <1>3, <1>4 DEF Call
<1>6. \A r \in Ports : Keeps(port[r], port'[r])
  <2>1. CASE \E p \in Published(q) : ConnectToPort(t, c, p)
    <3>1. PICK p \in Ports, s \in Chans :
            /\ port[p].state = "LISTENING"
            /\ port' = [port EXCEPT ![p] = QueuePending(@, s)]
      BY <2>1 DEF ConnectToPort, Published, Unused
    <3>2. /\ port[p] \in PortType /\ port[p].pending \in Seq(Chans)
          /\ Len(port[p].pending) \in Nat
      BY <1>1 DEF PortType
    <3>3. port'[p] = QueuePending(port[p], s) /\ \A r \in Ports \ {p} : port'[r] = port[r]
      BY <1>1, <3>1
    <3>4. /\ port'[p].pending = Append(port[p].pending, s)
          /\ port'[p].refcnt = port[p].refcnt + 1
          /\ port'[p].state = port[p].state /\ port'[p].listed = port[p].listed
      BY <3>2, <3>3 DEF QueuePending, PortType
    <3>5. Len(port'[p].pending) = Len(port[p].pending) + 1
      BY <3>2, <3>4
    <3>6. Keeps(port[p], port'[p])
      BY <3>1, <3>4, <3>5 DEF Keeps
    <3> QED BY <3>3, <3>6 DEF Keeps
  <2>2. CASE ConnectWaitForPort(t, c, q)
    BY <2>2 DEF ConnectWaitForPort, Keeps
  <2> QED BY <2>1, <2>2 DEF sys_connect
<1> QED BY <1>1, <1>2, <1>3, <1>5, <1>6, LifeFrame

(* The events and the messages of channels, and the end of a channel.      *)
LEMMA ChanLife ==
  ASSUME ConnInv, TypeOK', PortLife, NEW t \in Tasks, port' = port,
         op[t].h \in Chans \cup {NULL}, op'[t].h \in Chans \cup {NULL},
         op'[t].kind = "idle" => op'[t].h = NULL,
         \A u \in Tasks \ {t} : op'[u] = op[u] /\ table'[u] = table[u],
         \A r \in Ports : r \in table'[t] <=> r \in table[t]
  PROVE  PortLife'
<1>1. op[t].h \notin Ports /\ op'[t].h \notin Ports
  BY ChanNoPort
<1>2. \A r \in Ports : Keeps(port[r], port'[r])
  BY DEF Keeps
<1>3. TypeOK
  BY DEF ConnInv
<1> QED BY <1>1, <1>2, <1>3, LifeFrame

LEMMA PollLife ==
  ASSUME ConnInv, TypeOK', PortLife, NEW t \in Tasks,
         \/ ConnectPoll(t) \/ ConnectFinish(t)
         \/ WaitFinish(t) \/ \E c \in Chans : WaitPoll(t, c)
  PROVE  PortLife'
<1>1. /\ op \in [Tasks -> OpType] /\ table \in [Tasks -> SUBSET Handles]
      /\ op[t] \in OpType
  BY DEF ConnInv, TypeOK
<1>2. op[t].h \in Chans \cup {NULL}
  BY <1>1 DEF OpType, PortLife, ConnectPoll, ConnectFinish, WaitFinish, WaitPoll, Running
<1>3. port' = port /\ \A u \in Tasks \ {t} : op'[u] = op[u] /\ table'[u] = table[u]
  BY PollFacts
<1>4. /\ op'[t].h \in Chans \cup {NULL} /\ (op'[t].kind = "idle" => op'[t].h = NULL)
      /\ \A r \in Ports : r \in table'[t] <=> r \in table[t]
  <2>1. CASE ConnectPoll(t)
    BY <1>1, <1>2, <2>1 DEF ConnectPoll, Call
  <2>2. CASE ConnectFinish(t)
    <3>1. op[t].h \in Chans /\ op[t].h \notin Ports
      BY <1>1, <2>2, ChanNoPort DEF ConnectFinish, OpType
    <3>2. \/ op' = [op EXCEPT ![t] = Idle] /\ table' = [table EXCEPT ![t] = @ \cup {op[t].h}]
          \/ op' = [op EXCEPT ![t] = Call("close", op[t].h, {})] /\ table' = table
      BY <2>2 DEF ConnectFinish
    <3> QED BY <1>1, <3>1, <3>2 DEF Idle, Call
  <2>3. CASE WaitFinish(t)
    BY <1>1, <2>3 DEF WaitFinish, Idle, Call
  <2>4. ASSUME NEW c \in Chans, WaitPoll(t, c)
        PROVE  /\ op'[t].h \in Chans \cup {NULL} /\ (op'[t].kind = "idle" => op'[t].h = NULL)
               /\ \A r \in Ports : r \in table'[t] <=> r \in table[t]
    BY <1>1, <2>4 DEF WaitPoll, Call
  <2> QED BY <2>1, <2>2, <2>3, <2>4
<1> QED BY <1>2, <1>3, <1>4, ChanLife

LEMMA CloseLife ==
  ASSUME ConnInv, TypeOK', PortLife, NEW t \in Tasks,
         \/ CloseChan(t)
         \/ \E c \in Chans : sys_close(t, c) /\ chan_shutdown(c)
         \/ handle_decref(t) /\ op[t].h \in Chans
  PROVE  PortLife'
<1>1. /\ op \in [Tasks -> OpType] /\ table \in [Tasks -> SUBSET Handles]
      /\ op[t] \in OpType
  BY DEF ConnInv, TypeOK
<1>2. CASE CloseChan(t)
  <2>1. op[t].h \in Chans /\ port' = port /\ table' = table
    BY <1>1, <1>2 DEF OpType, CloseChan, chan_shutdown
  <2>2. op' = [op EXCEPT ![t] = Call("decref", op[t].h, {})]
    BY <1>2 DEF CloseChan
  <2>3. /\ op'[t].h = op[t].h /\ op'[t].kind = "decref"
        /\ \A u \in Tasks \ {t} : op'[u] = op[u]
    BY <1>1, <2>2 DEF Call
  <2> QED BY <2>1, <2>3, ChanLife
<1>3. ASSUME NEW c \in Chans, sys_close(t, c), chan_shutdown(c) PROVE PortLife'
  <2>1. /\ op' = [op EXCEPT ![t] = Call("decref", c, {})]
        /\ table' = [table EXCEPT ![t] = @ \ {c}] /\ port' = port
        /\ op[t].h = NULL /\ c \notin Ports
    BY <1>3, ChanNoPort DEF sys_close, chan_shutdown, Running, PortLife
  <2>2. /\ op'[t].h = c /\ op'[t].kind = "decref"
        /\ \A u \in Tasks \ {t} : op'[u] = op[u] /\ table'[u] = table[u]
        /\ \A r \in Ports : r \in table'[t] <=> r \in table[t]
    BY <1>1, <2>1 DEF Call
  <2> QED BY <2>1, <2>2, ChanLife
<1>4. CASE handle_decref(t) /\ op[t].h \in Chans
  <2>1. port' = port /\ table' = table /\ op' = [op EXCEPT ![t] = Idle]
    BY <1>4, ChanNoPort DEF handle_decref
  <2>2. op'[t].h = NULL /\ \A u \in Tasks \ {t} : op'[u] = op[u]
    BY <1>1, <2>1 DEF Idle, Call
  <2> QED BY <1>4, <2>1, <2>2, ChanLife
<1> QED BY <1>2, <1>3, <1>4

LEMMA ClosePortLife ==
  ASSUME ConnInv, PortLife, NEW t \in Tasks, NEW p \in Ports,
         sys_close(t, p), port_shutdown(p)
  PROVE  PortLife'
<1>1. /\ op \in [Tasks -> OpType] /\ table \in [Tasks -> SUBSET Handles]
      /\ port \in [Ports -> PortType] /\ port[p] \in PortType
  BY DEF ConnInv, TypeOK
<1>2. /\ op' = [op EXCEPT ![t] = Call("decref", p, {})] /\ p \in table[t]
      /\ table' = [table EXCEPT ![t] = @ \ {p}] /\ op[t].kind = "idle"
      /\ op[t].h = NULL /\ port' = [port EXCEPT ![p] = ClosePort(@)]
  BY DEF sys_close, Running, port_shutdown, PortLife
<1>3. /\ op'[t].h = p /\ op'[t].kind = "decref"
      /\ \A u \in Tasks \ {t} : op'[u] = op[u] /\ table'[u] = table[u]
      /\ \A r \in Ports : r \in table'[t] <=> r \in table[t] /\ r # p
  BY <1>1, <1>2 DEF Call
<1>4. port'[p] = ClosePort(port[p]) /\ \A r \in Ports \ {p} : port'[r] = port[r]
  BY <1>1, <1>2
<1>5. \A u \in Tasks : p \in table[u] => u = t
  BY <1>2 DEF PortLife, Holds
<1>6. /\ port[p].state = "LISTENING" /\ port[p].refcnt = 3 + Len(port[p].pending)
      /\ port[p].listed /\ Len(port[p].pending) \in Nat
  <2>1. port[p].pending \in Seq(Chans)
    BY <1>1 DEF PortType
  <2> QED BY <1>2, <2>1 DEF PortLife
<1>7. ASSUME NEW r \in Ports
      PROVE  Life(port'[r], InTable(r)', Closing(r)')
  <2>1. CASE r = p
    <3>1. /\ port'[p].state = "CLOSING" /\ ~port'[p].listed /\ port'[p].pending = << >>
          /\ port'[p].refcnt = port[p].refcnt - 1 - 1 - Len(port[p].pending)
      BY <1>1, <1>4, <1>6 DEF ClosePort, PortType
    <3>2. port'[p].refcnt = 1
      BY <1>6, <3>1
    <3>3. InTable(p)' = {}
      BY <1>3, <1>5 DEF InTable
    <3>4. Closing(p)' # {}
      BY <1>3 DEF Closing
    <3> QED BY <2>1, <3>1, <3>2, <3>3, <3>4 DEF Life
  <2>2. CASE r # p
    <3>1. InTable(r)' = InTable(r)
      BY <1>3, <2>2 DEF InTable
    <3>2. Closing(r)' = Closing(r)
      <4>1. r # NULL
        BY ChanNoPort
      <4> QED BY <1>2, <1>3, <2>2, <4>1 DEF Closing
    <3> QED BY <1>4, <2>2, <3>1, <3>2, PortLifeParts
  <2> QED BY <2>1, <2>2
<1>8. \A r \in Ports, u \in Tasks : Holds(u, r)' => Holds(u, r)
  <2>1. ASSUME NEW r \in Ports, NEW u \in Tasks, Holds(u, r)' PROVE Holds(u, r)
    <3>1. CASE u = t
      BY <1>2, <1>3, <2>1, <3>1 DEF Holds
    <3>2. CASE u # t
      BY <1>3, <2>1, <3>2 DEF Holds
    <3> QED BY <3>1, <3>2
  <2> QED BY <2>1
<1>9. \A r \in Ports, u, v \in Tasks : Holds(u, r)' /\ Holds(v, r)' => u = v
  BY <1>8 DEF PortLife
<1>10. \A u \in Tasks : op'[u].kind = "idle" => op'[u].h = NULL
  BY <1>3 DEF PortLife
<1> QED BY <1>7, <1>9, <1>10, PortLifeNext

LEMMA DecrefPortLife ==
  ASSUME ConnInv, PortLife, NEW t \in Tasks, handle_decref(t), op[t].h \notin Chans
  PROVE  PortLife'
<1>1. /\ op \in [Tasks -> OpType] /\ table \in [Tasks -> SUBSET Handles]
      /\ port \in [Ports -> PortType]
  BY DEF ConnInv, TypeOK
<1>2. PICK p \in Ports : p = op[t].h
  BY DEF handle_decref
<1>3. /\ op' = [op EXCEPT ![t] = Idle] /\ op[t].kind = "decref" /\ table' = table
      /\ port' = [port EXCEPT ![p] = UnrefPort(@)]
  BY <1>2 DEF handle_decref
<1>4. /\ op'[t].h = NULL /\ op'[t].kind = "idle" /\ NULL \notin Ports
      /\ \A u \in Tasks \ {t} : op'[u] = op[u]
  BY <1>1, <1>3, ChanNoPort DEF Idle, Call
<1>5. port'[p] = UnrefPort(port[p]) /\ \A r \in Ports \ {p} : port'[r] = port[r]
  BY <1>1, <1>3
<1>6. /\ port[p].state = "CLOSING" /\ port[p].refcnt = 1
      /\ \A u \in Tasks : p \notin table[u]
  BY <1>2 DEF PortLife
<1>7. \A u \in Tasks : u # t => op[u].h # p
  <2>1. ASSUME NEW u \in Tasks, op[u].h = p PROVE u = t
    <3>1. op[u].kind = "decref"
      <4>1. op[u] \in OpType
        BY <1>1
      <4>2. op[u].kind \in OpKinds
        BY <4>1 DEF OpType, OpFields
      <4>3. op[u].kind # "idle"
        BY <1>4, <2>1 DEF PortLife
      <4>4. op[u].h \notin Chans
        BY <2>1, ChanNoPort
      <4> QED BY <4>1, <4>2, <4>3, <4>4 DEF OpType, OpKinds
    <3>2. Holds(u, p) /\ Holds(t, p)
      BY <1>2, <1>3, <2>1, <3>1 DEF Holds
    <3> QED BY <3>2 DEF PortLife
  <2> QED BY <2>1
<1>8. ASSUME NEW r \in Ports
      PROVE  Life(port'[r], InTable(r)', Closing(r)')
  <2>1. InTable(r)' = InTable(r)
    BY <1>3 DEF InTable
  <2>2. CASE r = p
    <3>1. InTable(r)' = {} /\ Closing(r)' = {}
      BY <1>3, <1>4, <1>6, <1>7, <2>2 DEF InTable, Closing
    <3>2. port'[r] = FreePort
      BY <1>5, <1>6, <2>2 DEF UnrefPort
    <3> QED BY <3>1, <3>2 DEF Life, FreePort
  <2>3. CASE r # p
    <3>1. Closing(r)' = Closing(r)
      BY <1>2, <1>4, <2>3 DEF Closing
    <3> QED BY <1>5, <2>1, <2>3, <3>1, PortLifeParts
  <2> QED BY <2>2, <2>3
<1>9. \A r \in Ports, u \in Tasks : Holds(u, r)' => Holds(u, r)
  BY <1>3, <1>4 DEF Holds
<1>10. \A r \in Ports, u, v \in Tasks : Holds(u, r)' /\ Holds(v, r)' => u = v
  BY <1>9 DEF PortLife
<1>11. \A u \in Tasks : op'[u].kind = "idle" => op'[u].h = NULL
  BY <1>4 DEF PortLife
<1> QED BY <1>8, <1>10, <1>11, PortLifeNext

LEMMA LifeStep ==
  ASSUME ConnInv, TypeOK', PortLife, NEW t \in Tasks, TaskStep(t)
  PROVE  PortLife'
<1>1. ASSUME UNCHANGED <<port, table, op>> PROVE PortLife'
  BY <1>1 DEF PortLife, Holds
<1>2. ASSUME NEW p \in Ports, NEW q \in Paths, NEW allow \in SUBSET Access,
             sys_port_create(t, p, q, allow)
      PROVE  PortLife'
  BY <1>1, <1>2, PublishLife DEF sys_port_create, PublishAssertFails, Running
<1>3. ASSUME NEW c \in Chans,
             \/ sys_send_msg(t, c) \/ sys_get_msg(t, c)
             \/ sys_put_msg(t, c) \/ UseNullQueue(t, c)
      PROVE  PortLife'
  BY <1>1, <1>3, MsgFacts
<1>4. ASSUME NEW h \in Chans \cup Ports, sys_close(t, h) PROVE PortLife'
  BY <1>4, CloseLife, ClosePortLife DEF sys_close
<1>5. CASE handle_decref(t)
  BY <1>5, CloseLife, DecrefPortLife
<1> QED BY <1>2, <1>3, <1>4, <1>5, AcceptLife, ConnectLife, PollLife, CloseLife
        DEF TaskStep

-----------------------------------------------------------------------------
(* Nobody waits for a published name, and only admitted clients are queued.*)

(* A port that publishes no other name and queues no other connection.     *)
Narrow(r, d) ==
  /\ d.listed => r.listed /\ d.path = r.path
  /\ \A s \in Elems(d.pending) : s \in Elems(r.pending) /\ d.allow = r.allow

LEMMA UnservedFrame ==
  ASSUME WaitersUnserved,
         \A q \in Paths : waiting'[q] # << >> => waiting[q] # << >>,
         \A r \in Ports : port'[r].listed => port[r].listed /\ port'[r].path = port[r].path
  PROVE  WaitersUnserved'
BY DEF WaitersUnserved, Published

(* A queued connection keeps its client, and the client its identity.      *)
LEMMA StillAllowed ==
  ASSUME ConnInv, ConnInv', PendingAllowed, NEW t \in Tasks, TaskStep(t),
         NEW p \in Ports, NEW s \in Elems(port[p].pending), chan'[s].peer # NULL
  PROVE  Allowed(port[p].allow, chan'[chan'[s].peer].uuid)
<1>1. s \in Chans /\ Queued(s)
  BY PendingElems DEF ConnInv, Elems
<1>2. Stays(chan[s], chan'[s])
  BY <1>1, StaysStep
<1>3. chan'[s].peer = chan[s].peer
  BY <1>1, <1>2 DEF Stays, Queued
<1>4. PICK c \in Chans : c = chan[s].peer
  <2>1. chan[s].peer \in Chans \cup {NULL}
    BY <1>1, ChanFieldTypes DEF ConnInv, TypeOK
  <2> QED BY <1>3, <2>1
<1>5. chan[c].state # "FREE"
  BY <1>1, <1>3, <1>4 DEF ConnInv, Graph
<1>6. chan'[c].state # "FREE"
  <2>1. Graph(chan')
    BY DEF ConnInv
  <2> QED BY <1>1, <1>3, <1>4, <2>1 DEF Graph
<1>7. Stays(chan[c], chan'[c])
  BY <1>4, StaysStep
<1>8. chan'[c].uuid = chan[c].uuid
  BY <1>5, <1>6, <1>7 DEF Stays
<1>9. Allowed(port[p].allow, chan[c].uuid)
  BY <1>1, <1>3, <1>4 DEF PendingAllowed
<1> QED BY <1>3, <1>4, <1>8, <1>9

LEMMA AllowedFrame ==
  ASSUME ConnInv, ConnInv', PendingAllowed, NEW t \in Tasks, TaskStep(t),
         \A p \in Ports : Narrow(port[p], port'[p])
  PROVE  PendingAllowed'
<1>1. ASSUME NEW p \in Ports, NEW s \in Elems(port'[p].pending), chan'[s].peer # NULL
      PROVE  Allowed(port'[p].allow, chan'[chan'[s].peer].uuid)
  <2>1. s \in Elems(port[p].pending) /\ port'[p].allow = port[p].allow
    BY DEF Narrow
  <2>2. Allowed(port[p].allow, chan'[chan'[s].peer].uuid)
    BY <1>1, <2>1, StillAllowed
  <2> QED BY <2>1, <2>2
<1> QED BY <1>1 DEF PendingAllowed, Elems

(* Every step but those that publish a port or connect to one.             *)
LEMMA NarrowStep ==
  ASSUME ConnInv, NEW t \in Tasks,
         \/ \E p \in Ports : sys_accept(t, p)
         \/ ConnectPoll(t) \/ ConnectFinish(t) \/ WaitFinish(t)
         \/ \E c \in Chans : \/ WaitPoll(t, c) \/ sys_send_msg(t, c)
                             \/ sys_get_msg(t, c) \/ sys_put_msg(t, c)
                             \/ UseNullQueue(t, c)
         \/ \E h \in Chans \cup Ports : sys_close(t, h)
         \/ CloseChan(t) \/ handle_decref(t)
  PROVE  /\ \A r \in Ports : Narrow(port[r], port'[r])
         /\ \A q \in Paths : waiting'[q] # << >> => waiting[q] # << >>
<1>1. port \in [Ports -> PortType] /\ waiting \in [Paths -> Seq(Chans)] /\ TypeOK
  BY DEF ConnInv, TypeOK
<1>2. port' = port => \A r \in Ports : Narrow(port[r], port'[r])
  BY DEF Narrow
<1>3. ASSUME NEW p \in Ports, sys_accept(t, p)
      PROVE  /\ \A r \in Ports : Narrow(port[r], port'[r])
             /\ \A q \in Paths : waiting'[q] # << >> => waiting[q] # << >>
  <2>1. /\ port[p].pending # << >> /\ port' = [port EXCEPT ![p] = TakePending(@)]
        /\ waiting' = waiting
    BY <1>3 DEF sys_accept
  <2>2. \A r \in Ports : Elems(port'[r].pending) \subseteq Elems(port[r].pending)
    BY <2>1, TakeElems
  <2>3. \A r \in Ports : /\ port'[r].listed = port[r].listed
                         /\ port'[r].path = port[r].path
                         /\ port'[r].allow = port[r].allow
    BY <1>1, <2>1 DEF TakePending, PortType
  <2> QED BY <2>1, <2>2, <2>3 DEF Narrow
<1>4. ASSUME \/ ConnectPoll(t) \/ ConnectFinish(t) \/ WaitFinish(t)
             \/ \E c \in Chans : \/ WaitPoll(t, c) \/ sys_send_msg(t, c)
                                 \/ sys_get_msg(t, c) \/ sys_put_msg(t, c)
                                 \/ UseNullQueue(t, c)
      PROVE  port' = port /\ waiting' = waiting
  BY <1>4, PollFacts, MsgFacts
<1>5. ASSUME NEW c \in Chans, chan_shutdown(c)
      PROVE  port' = port /\ \A q \in Paths : waiting'[q] # << >> => waiting[q] # << >>
  <2>1. port' = port
    BY <1>5 DEF chan_shutdown
  <2>2. ASSUME NEW q \in Paths, waiting[q] = << >>  PROVE  waiting'[q] = << >>
    <3>1. CASE chan[c].state = "WAITING_FOR_PORT"
      <4> DEFINE r == chan[c].path
      <4>1. /\ r \in Paths /\ c \in Elems(waiting[r])
            /\ waiting' = [waiting EXCEPT ![r] = Without(@, c)]
        BY <1>5, <3>1 DEF ConnInv, WaitLists, chan_shutdown
      <4> HIDE DEF r
      <4>2. q # r
        BY <2>2, <4>1 DEF Elems
      <4> QED BY <1>1, <2>2, <4>1, <4>2
    <3>2. CASE chan[c].state # "WAITING_FOR_PORT"
      BY <1>5, <2>2, <3>2 DEF chan_shutdown
    <3> QED BY <3>1, <3>2
  <2> QED BY <2>1, <2>2
<1>6. ASSUME NEW p \in Ports, port_shutdown(p)
      PROVE  waiting' = waiting /\ \A r \in Ports : Narrow(port[r], port'[r])
  <2>1. waiting' = waiting /\ port' = [port EXCEPT ![p] = ClosePort(@)]
    BY <1>6 DEF port_shutdown
  <2>2. port'[p] = ClosePort(port[p]) /\ \A r \in Ports \ {p} : port'[r] = port[r]
    BY <1>1, <2>1
  <2>3. ~port'[p].listed /\ port'[p].pending = << >>
    BY <1>1, <2>2 DEF ClosePort, PortType
  <2>4. Elems(port'[p].pending) = {}
    BY <2>3 DEF Elems
  <2> QED BY <2>1, <2>2, <2>3, <2>4 DEF Narrow
<1>7. ASSUME NEW p \in Ports, port' = [port EXCEPT ![p] = UnrefPort(@)]
      PROVE  \A r \in Ports : Narrow(port[r], port'[r])
  <2>1. port'[p] = UnrefPort(port[p]) /\ \A r \in Ports \ {p} : port'[r] = port[r]
    BY <1>1, <1>7
  <2>2. CASE port[p].refcnt = 1
    <3>1. ~port'[p].listed /\ port'[p].pending = << >>
      BY <2>1, <2>2 DEF UnrefPort, FreePort
    <3>2. Elems(port'[p].pending) = {}
      BY <3>1 DEF Elems
    <3> QED BY <2>1, <3>1, <3>2 DEF Narrow
  <2>3. CASE port[p].refcnt # 1
    <3>1. /\ port'[p].listed = port[p].listed /\ port'[p].pending = port[p].pending
          /\ port'[p].path = port[p].path /\ port'[p].allow = port[p].allow
      BY <1>1, <2>1, <2>3 DEF UnrefPort, PortType
    <3> QED BY <2>1, <3>1 DEF Narrow
  <2> QED BY <2>2, <2>3
<1>8. CASE CloseChan(t)
  <2>1. op[t].h \in Chans
    BY <1>1, <1>8 DEF CloseChan, TypeOK, OpType
  <2> QED BY <1>2, <1>5, <1>8, <2>1 DEF CloseChan
<1>9. CASE handle_decref(t)
  BY <1>2, <1>7, <1>9 DEF handle_decref
<1>10. ASSUME NEW h \in Chans \cup Ports, sys_close(t, h)
       PROVE  /\ \A r \in Ports : Narrow(port[r], port'[r])
              /\ \A q \in Paths : waiting'[q] # << >> => waiting[q] # << >>
  BY <1>2, <1>5, <1>6, <1>10 DEF sys_close
<1> QED BY <1>2, <1>3, <1>4, <1>8, <1>9, <1>10

LEMMA ConnectAdmits ==
  ASSUME ConnInv, ConnInv', RefsInv, NEW t \in Tasks, TaskStep(t), NEW c \in Chans,
         NEW q \in Paths, NEW wait, NEW sync, sys_connect(t, c, q, wait, sync)
  PROVE  WaitersUnserved' /\ PendingAllowed'
<1>1. /\ port \in [Ports -> PortType] /\ waiting \in [Paths -> Seq(Chans)]
      /\ chan \in ChanMap /\ PendingAllowed /\ WaitersUnserved
  BY DEF ConnInv, TypeOK, RefsInv, ChanMap
<1>2. ASSUME NEW p \in Ports, ConnectToPort(t, c, p)
      PROVE  WaitersUnserved' /\ PendingAllowed'
  <2>1. PICK s \in Unused \ {c} :
          /\ Allowed(port[p].allow, t)
          /\ chan' = [chan EXCEPT
               ![c] = ClientEnd([FreeChan EXCEPT !.uuid = t], s, {"handle", "peer"}),
               ![s] = ServerEnd(c, port[p].uuid)]
          /\ port' = [port EXCEPT ![p] = QueuePending(@, s)]
          /\ waiting' = waiting
    BY <1>2 DEF ConnectToPort
  <2>2. port'[p] = QueuePending(port[p], s) /\ \A r \in Ports \ {p} : port'[r] = port[r]
    BY <1>1, <2>1
  <2>3. /\ port'[p].pending = Append(port[p].pending, s) /\ port[p].pending \in Seq(Chans)
        /\ port'[p].listed = port[p].listed /\ port'[p].path = port[p].path
        /\ port'[p].allow = port[p].allow
    BY <1>1, <2>2 DEF QueuePending, PortType
  <2>4. WaitersUnserved'
    BY <1>1, <2>1, <2>2, <2>3, UnservedFrame
  <2>5. s \in Chans /\ s # c
    BY DEF Unused
  <2>6. /\ chan'[s] = ServerEnd(c, port[p].uuid)
        /\ chan'[c] = ClientEnd([FreeChan EXCEPT !.uuid = t], s, {"handle", "peer"})
    BY <1>1, <2>1, <2>5 DEF ChanMap
  <2>7. chan'[s].peer = c /\ chan'[c].uuid = t
    BY <2>6 DEF ServerEnd, ClientEnd, FreeChan
  <2>8. ASSUME NEW r \in Ports, NEW x \in Elems(port'[r].pending), chan'[x].peer # NULL
        PROVE  Allowed(port'[r].allow, chan'[chan'[x].peer].uuid)
    <3>1. port'[r].allow = port[r].allow
      BY <2>2, <2>3
    <3>2. CASE x \in Elems(port[r].pending)
      BY <1>1, <2>8, <3>1, <3>2, StillAllowed
    <3>3. CASE x \notin Elems(port[r].pending)
      <4>1. r = p
        BY <2>2, <2>8, <3>3
      <4>2. \A y : y \in Elems(Append(port[p].pending, s)) <=>
                    y \in Elems(port[p].pending) \/ y = s
        BY <2>3, <2>5, AppendElems
      <4>3. x = s
        BY <2>3, <2>8, <3>3, <4>1, <4>2
      <4> QED BY <2>1, <2>7, <3>1, <4>1, <4>3
    <3> QED BY <3>2, <3>3
  <2>9. PendingAllowed'
    BY <2>8 DEF PendingAllowed, Elems
  <2> QED BY <2>4, <2>9
<1>3. CASE MustWait(q, wait) /\ ConnectWaitForPort(t, c, q)
  <2>1. /\ Published(q) = {} /\ port' = port
        /\ waiting' = [waiting EXCEPT ![q] = Append(@, c)]
    BY <1>3 DEF MustWait, ConnectWaitForPort
  <2>2. \A r \in Paths \ {q} : waiting'[r] = waiting[r]
    BY <1>1, <2>1
  <2>3. WaitersUnserved'
    BY <1>1, <2>1, <2>2 DEF WaitersUnserved, Published
  <2>4. \A r \in Ports : Narrow(port[r], port'[r])
    BY <2>1 DEF Narrow
  <2> QED BY <1>1, <2>3, <2>4, AllowedFrame
<1> QED BY <1>2, <1>3 DEF sys_connect, Published

LEMMA PublishAdmits ==
  ASSUME ConnInv, ConnInv', RefsInv, NEW t \in Tasks, TaskStep(t), NEW p \in Ports,
         NEW q \in Paths, NEW allow, port[p].state = "FREE", PublishAttach(p, t, q, allow)
  PROVE  WaitersUnserved' /\ PendingAllowed'
<1>1. /\ port \in [Ports -> PortType] /\ waiting \in [Paths -> Seq(Chans)]
      /\ PendingAllowed /\ WaitersUnserved
  BY DEF ConnInv, TypeOK, RefsInv
<1>2. PICK servers \in Seq(Chans) :
        /\ Len(servers) = Len(waiting[q]) /\ Paired(waiting[q], servers)
        /\ port' = [port EXCEPT ![p] = NewPort(t, q, allow, servers)]
  BY PublishFacts
<1>3. waiting' = [waiting EXCEPT ![q] = << >>] /\ Admitted(waiting[q], allow)
  BY DEF PublishAttach
<1>4. /\ port'[p].pending = servers /\ port'[p].path = q /\ port'[p].allow = allow
      /\ \A r \in Ports \ {p} : port'[r] = port[r]
  BY <1>1, <1>2 DEF NewPort
<1>5. waiting'[q] = << >> /\ \A r \in Paths \ {q} : waiting'[r] = waiting[r]
  BY <1>1, <1>3
<1>6. WaitersUnserved'
  BY <1>1, <1>4, <1>5 DEF WaitersUnserved, Published
<1>7. ASSUME NEW r \in Ports, NEW x \in Elems(port'[r].pending), chan'[x].peer # NULL
      PROVE  Allowed(port'[r].allow, chan'[chan'[x].peer].uuid)
  <2>1. CASE r = p
    <3>1. PICK i \in 1..Len(waiting[q]) : x = servers[i]
      BY <1>2, <1>4, <1>7, <2>1 DEF Elems
    <3>2. chan'[x].peer = waiting[q][i] /\ chan'[waiting[q][i]].uuid = chan[waiting[q][i]].uuid
      BY <1>2, <3>1 DEF Paired
    <3>3. Allowed(allow, chan[waiting[q][i]].uuid)
      BY <1>3 DEF Admitted, Elems
    <3> QED BY <1>4, <2>1, <3>2, <3>3
  <2>2. CASE r # p
    <3>1. port'[r] = port[r]
      BY <1>4, <2>2
    <3> QED BY <1>1, <1>7, <3>1, StillAllowed
  <2> QED BY <2>1, <2>2
<1>8. PendingAllowed'
  BY <1>7 DEF PendingAllowed, Elems
<1> QED BY <1>6, <1>8

LEMMA AdmitStep ==
  ASSUME ConnInv, ConnInv', RefsInv, NEW t \in Tasks, TaskStep(t)
  PROVE  WaitersUnserved' /\ PendingAllowed'
<1>1. WaitersUnserved /\ PendingAllowed
  BY DEF RefsInv
<1>2. ASSUME \A r \in Ports : Narrow(port[r], port'[r]),
             \A q \in Paths : waiting'[q] # << >> => waiting[q] # << >>
      PROVE  WaitersUnserved' /\ PendingAllowed'
  <2>1. \A r \in Ports : port'[r].listed => port[r].listed /\ port'[r].path = port[r].path
    BY <1>2 DEF Narrow
  <2> QED BY <1>1, <1>2, <2>1, UnservedFrame, AllowedFrame
<1>3. ASSUME NEW p \in Ports, NEW q \in Paths, NEW allow \in SUBSET Access,
             sys_port_create(t, p, q, allow)
      PROVE  WaitersUnserved' /\ PendingAllowed'
  <2>1. CASE PublishAttach(p, t, q, allow)
    <3>1. port[p].state = "FREE"
      BY <1>3 DEF sys_port_create
    <3> QED BY <2>1, <3>1, PublishAdmits
  <2>2. CASE PublishAssertFails(q)
    <3>1. /\ \A r \in Ports : Narrow(port[r], port'[r])
          /\ \A r \in Paths : waiting'[r] # << >> => waiting[r] # << >>
      BY <2>2 DEF PublishAssertFails, Narrow
    <3> QED BY <1>2, <3>1
  <2> QED BY <1>3, <2>1, <2>2 DEF sys_port_create
<1>4. ASSUME NEW c \in Chans, NEW q \in Paths, NEW wait, NEW sync,
             sys_connect(t, c, q, wait, sync)
      PROVE  WaitersUnserved' /\ PendingAllowed'
  BY <1>4, ConnectAdmits
<1>5. ASSUME \/ \E p \in Ports : sys_accept(t, p)
             \/ ConnectPoll(t) \/ ConnectFinish(t) \/ WaitFinish(t)
             \/ \E c \in Chans : \/ WaitPoll(t, c) \/ sys_send_msg(t, c)
                                 \/ sys_get_msg(t, c) \/ sys_put_msg(t, c)
                                 \/ UseNullQueue(t, c)
             \/ \E h \in Chans \cup Ports : sys_close(t, h)
             \/ CloseChan(t) \/ handle_decref(t)
      PROVE  WaitersUnserved' /\ PendingAllowed'
  BY <1>2, <1>5, NarrowStep
<1> QED BY <1>3, <1>4, <1>5 DEF TaskStep

-----------------------------------------------------------------------------
(* RefsInv is inductive next to ConnInv.                                   *)

LEMMA RefsInit == Init => RefsInv
<1> SUFFICES ASSUME Init PROVE RefsInv
  OBVIOUS
<1>1. \A c \in Chans : /\ chan[c].state = "FREE" /\ chan[c].peer = NULL
                       /\ chan[c].refs = {}
  BY FreeFields DEF Init
<1>2. \A t \in Tasks : table[t] = {} /\ op[t].kind = "idle" /\ op[t].h = NULL
  BY DEF Init, Idle, Call
<1>3. \A p \in Ports : /\ port[p].state = "FREE" /\ port[p].refcnt = 0
                       /\ ~port[p].listed /\ port[p].pending = << >>
  BY DEF Init, FreePort
<1>4. Links(chan)
  BY <1>1 DEF Links
<1>5. Reached
  BY <1>1, <1>2 DEF Reached
<1>6. PortLife
  <2>1. NULL \notin Ports
    BY IpcConnAssumption
  <2> QED BY <1>2, <1>3, <2>1 DEF PortLife, Holds
<1>7. WaitersUnserved
  BY DEF Init, WaitersUnserved
<1>8. PendingAllowed
  BY <1>3 DEF PendingAllowed, Elems
<1> QED BY <1>4, <1>5, <1>6, <1>7, <1>8 DEF RefsInv

LEMMA RefsInvStep == ConnInv /\ RefsInv /\ [Next]_vars => RefsInv'
<1> SUFFICES ASSUME ConnInv, RefsInv, [Next]_vars PROVE RefsInv'
  OBVIOUS
<1>1. ConnInv' /\ TypeOK'
  <2>1. ConnInv'
    BY InvStep
  <2> QED BY <2>1 DEF ConnInv
<1>2. ASSUME UNCHANGED vars PROVE RefsInv'
  BY <1>2 DEF vars, RefsInv, Links, Reached, PortLife, WaitersUnserved, PendingAllowed,
              Holds, Listed, Published, Elems
<1>3. ASSUME NEW t \in Tasks, TaskStep(t) PROVE RefsInv'
  <2>1. Links(chan') /\ Reached'
    BY <1>3, RefsStep
  <2>2. PortLife'
    BY <1>1, <1>3, LifeStep DEF RefsInv
  <2>3. WaitersUnserved' /\ PendingAllowed'
    BY <1>1, <1>3, AdmitStep
  <2> QED BY <2>1, <2>2, <2>3 DEF RefsInv
<1> QED BY <1>2, <1>3 DEF Next, Halted

(* RefsInv holds in every reachable state: the reference lists of the      *)
(* channels, the owners and lists that reach them, the life of the ports   *)
(* and the waiting lists always agree.                                     *)
THEOREM ReferencesAgree == Spec => [](ConnInv /\ RefsInv)
<1>1. Init => ConnInv /\ RefsInv
  BY InitInv, RefsInit
<1>2. ConnInv /\ RefsInv /\ [Next]_vars => (ConnInv /\ RefsInv)'
  BY InvStep, RefsInvStep
<1> QED BY <1>1, <1>2, PTL DEF Spec

(* A channel is on the reference list of exactly those who can still reach *)
(* it: chan_del_ref frees it neither too early nor never (RefsExact).      *)
THEOREM ReferencesExact == Spec => []RefsExact
<1>1. ConnInv /\ RefsInv => RefsExact
  <2> SUFFICES ASSUME ConnInv, RefsInv, NEW c \in Chans
               PROVE  /\ "handle" \in chan[c].refs <=> \E t \in Tasks : Holds(t, c)
                      /\ "node" \in chan[c].refs <=> Listed(c)
                      /\ "peer" \in chan[c].refs <=> \E d \in Chans : chan[d].peer = c
                      /\ chan[c].refs = {} <=> chan[c].state = "FREE"
    BY DEF RefsExact
  <2>1. "handle" \in chan[c].refs <=> \E t \in Tasks : Holds(t, c)
    BY DEF ConnInv, Owned, RefsInv, Reached
  <2>2. ASSUME Listed(c) PROVE "node" \in chan[c].refs
    <3>1. ASSUME NEW q \in Paths, c \in Elems(waiting[q]) PROVE "node" \in chan[c].refs
      <4>1. chan[c].state = "WAITING_FOR_PORT"
        BY <3>1 DEF ConnInv, WaitLists, Elems
      <4> QED BY <4>1 DEF RefsInv, Links
    <3>2. ASSUME NEW p \in Ports, c \in Elems(port[p].pending)
          PROVE  "node" \in chan[c].refs
      BY <3>2 DEF ConnInv, PendingLists, Elems
    <3> QED BY <2>2, <3>1, <3>2 DEF Listed
  <2>3. "node" \in chan[c].refs => Listed(c)
    BY DEF RefsInv, Reached
  <2>4. "peer" \in chan[c].refs <=> \E d \in Chans : chan[d].peer = c
    BY NullNoChan DEF ConnInv, Graph, RefsInv, Links
  <2>5. chan[c].refs = {} <=> chan[c].state = "FREE"
    BY DEF ConnInv, Graph, RefsInv, Links
  <2> QED BY <2>1, <2>2, <2>3, <2>4, <2>5
<1> QED BY <1>1, ReferencesAgree, PTL

(* No pair of channels keeps itself alive by its peer references alone     *)
(* (NoOrphan): chan_shutdown_locked and chan_del_ref leak nothing.         *)
THEOREM NothingLeaks == Spec => []NoOrphan
<1>1. ConnInv /\ RefsInv => NoOrphan
  <2> SUFFICES ASSUME ConnInv, RefsInv, NEW c \in Chans, chan[c].state # "FREE",
                      "handle" \notin chan[c].refs, "node" \notin chan[c].refs
               PROVE  \E d \in Chans : chan[d].peer = c
                                       /\ {"handle", "node"} \cap chan[d].refs # {}
    BY DEF NoOrphan
  <2>1. chan[c].refs \in SUBSET RefKinds
    BY ChanFieldTypes DEF ConnInv, TypeOK
  <2>2. "peer" \in chan[c].refs
    BY <2>1 DEF RefKinds, RefsInv, Links
  <2>3. PICK d \in Chans : chan[d].peer = c
    BY <2>2 DEF RefsInv, Links
  <2>4. "handle" \in chan[d].refs \/ "node" \in chan[d].refs
    BY <2>3, NullNoChan DEF RefsInv, Links
  <2> QED BY <2>3, <2>4
<1> QED BY <1>1, ReferencesAgree, PTL

(* No connection request is forgotten: its server end is queued on a port  *)
(* that still listens (ConnectingIsPending; port_attach_client,            *)
(* ipc_port_accept, port_shutdown).                                        *)
THEOREM RequestsPending == Spec => []ConnectingIsPending
<1>1. ConnInv /\ RefsInv => ConnectingIsPending
  <2> SUFFICES ASSUME ConnInv, RefsInv, NEW c \in Chans, chan[c].state = "CONNECTING"
               PROVE  \E p \in Ports :
                        /\ port[p].state = "LISTENING" /\ port[p].listed
                        /\ chan[c].peer \in Elems(port[p].pending)
                        /\ chan[chan[c].peer].state = "ACCEPTING"
    BY DEF ConnectingIsPending
  <2>1. chan[c].peer \in Chans \cup {NULL}
    BY ChanFieldTypes DEF ConnInv, TypeOK
  <2>2. PICK s \in Chans : s = chan[c].peer /\ chan[s].state = "ACCEPTING"
    BY <2>1 DEF ConnInv, Graph, Opposite
  <2>3. Listed(s)
    BY <2>2 DEF RefsInv, Links, Reached
  <2>4. \A q \in Paths : s \notin Elems(waiting[q])
    BY <2>2 DEF ConnInv, WaitLists, Elems
  <2>5. PICK p \in Ports : s \in Elems(port[p].pending)
    BY <2>3, <2>4 DEF Listed
  <2>6. port[p].pending # << >>
    BY <2>5 DEF Elems
  <2>7. port[p].state = "LISTENING" /\ port[p].listed
    BY <2>6 DEF RefsInv, PortLife
  <2> QED BY <2>2, <2>5, <2>7
<1> QED BY <1>1, ReferencesAgree, PTL

(* A client waits only for a name nobody publishes, on the list that       *)
(* ipc_port_publish scans (WaitingHasNoPort).                              *)
THEOREM WaitersListed == Spec => []WaitingHasNoPort
<1>1. ConnInv /\ RefsInv => WaitingHasNoPort
  <2> SUFFICES ASSUME ConnInv, RefsInv, NEW c \in Chans,
                      chan[c].state = "WAITING_FOR_PORT"
               PROVE  c \in Elems(waiting[chan[c].path]) /\ Published(chan[c].path) = {}
    BY DEF WaitingHasNoPort
  <2>1. chan[c].path \in Paths /\ c \in Elems(waiting[chan[c].path])
    BY DEF ConnInv, WaitLists
  <2>2. waiting[chan[c].path] # << >>
    BY <2>1 DEF Elems
  <2> QED BY <2>1, <2>2 DEF RefsInv, WaitersUnserved
<1> QED BY <1>1, ReferencesAgree, PTL

(* The reference count of a port's handle is the number of its holders, so *)
(* port_handle_destroy runs when the last one lets go (PortRefsExact).     *)
THEOREM PortCountExact == Spec => []PortRefsExact
<1>1. ConnInv /\ RefsInv => PortRefsExact
  <2> SUFFICES ASSUME ConnInv, RefsInv, NEW p \in Ports
               PROVE  /\ port[p].refcnt =
                           (IF \E t \in Tasks : p \in table[t] THEN 2 ELSE 0)
                           + (IF port[p].listed THEN 1 ELSE 0)
                           + Len(port[p].pending)
                           + (IF \E t \in Tasks : op[t].h = p THEN 1 ELSE 0)
                      /\ \A t, u \in Tasks : Holds(t, p) /\ Holds(u, p) => t = u
    BY DEF PortRefsExact
  <2>1. PortLife /\ Len(port[p].pending) \in Nat
    BY DEF RefsInv, ConnInv, TypeOK, PortType
  <2>2. \A t, u \in Tasks : Holds(t, p) /\ Holds(u, p) => t = u
    BY <2>1 DEF PortLife
  <2>3. CASE /\ port[p].state = "FREE" /\ port[p].refcnt = 0
             /\ ~port[p].listed /\ port[p].pending = <<>>
             /\ \A t \in Tasks : p \notin table[t] /\ op[t].h # p
    <3>1. Len(port[p].pending) = 0
      BY <2>3
    <3> QED BY <2>2, <2>3, <3>1
  <2>4. CASE /\ port[p].refcnt = 3 + Len(port[p].pending) /\ port[p].listed
             /\ \E t \in Tasks : p \in table[t]
             /\ \A t \in Tasks : op[t].h # p
    <3>1. /\ (IF \E t \in Tasks : p \in table[t] THEN 2 ELSE 0) = 2
          /\ (IF port[p].listed THEN 1 ELSE 0) = 1
          /\ (IF \E t \in Tasks : op[t].h = p THEN 1 ELSE 0) = 0
      BY <2>4
    <3>2. port[p].refcnt = 2 + 1 + Len(port[p].pending) + 0
      BY <2>1, <2>4
    <3> QED BY <2>2, <3>1, <3>2
  <2>5. CASE /\ port[p].state = "CLOSING" /\ port[p].refcnt = 1
             /\ ~port[p].listed /\ port[p].pending = <<>>
             /\ \E t \in Tasks : op[t].h = p
             /\ \A t \in Tasks : p \notin table[t]
    <3>1. Len(port[p].pending) = 0
      BY <2>5
    <3> QED BY <2>2, <2>5, <3>1
  <2> QED BY <2>1, <2>3, <2>4, <2>5 DEF PortLife
<1> QED BY <1>1, ReferencesAgree, PTL

(* Whoever came first, the client of a queued request is one that the      *)
(* port's flags admit (PendingAllowed; check_access).                      *)
THEOREM PendingAdmitted == Spec => []PendingAllowed
<1>1. RefsInv => PendingAllowed
  BY DEF RefsInv
<1> QED BY <1>1, ReferencesAgree, PTL
=============================================================================
