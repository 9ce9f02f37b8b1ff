------------------------------- MODULE IpcConn -------------------------------
(***************************************************************************)
(* Connection life cycle of Trusty IPC: ports, channels, the reference     *)
(* lists that keep channels alive, and the user contexts that own handles. *)
(*                                                                         *)
(* Source: lk/trusty/lib/trusty/ipc.c (all of it), uctx.c (the handle      *)
(* table), handle.c (handle_close, the poll / finalize_event protocol) and *)
(* the queue tests of ipc_msg.c.  Everything between mutex_acquire and     *)
(* mutex_release of ipc_lock is one step.  A system call that takes the    *)
(* lock more than once is several steps, and op[t] says where task t is.   *)
(*                                                                         *)
(* Error returns that leave the state alone (bad arguments, table full     *)
(* before anything was allocated, ERR_NOT_FOUND...) are stuttering steps.  *)
(* A failed ASSERT or a NULL dereference stops the system: panic.          *)
(***************************************************************************)
EXTENDS Integers, Sequences, FiniteSets

CONSTANTS
  Tasks,       \* trusted applications and the non-secure endpoint device
  NsTasks,     \* the tasks that connect with the non-secure uuid
  Ports,       \* ipc_port_t objects the heap has room for
  Chans,       \* ipc_chan_t objects the heap has room for
  Paths,       \* port names
  NumBufs,     \* num_recv_bufs of every port
  MaxHandles,  \* IPC_MAX_HANDLES
  NULL

ASSUME IpcConnAssumption ==
  /\ NsTasks \subseteq Tasks
  /\ NULL \notin Tasks \cup Ports \cup Chans \cup Paths
  /\ Ports \cap Chans = {}
  /\ NumBufs \in Nat \ {0}
  /\ MaxHandles \in Nat \ {0}

VARIABLES
  chan,     \* ipc_chan_t objects; state "FREE" is memory that is not allocated
  port,     \* ipc_port_t objects, with the reference count of their handle
  waiting,  \* waiting_for_port_chan_list, split by the path waited for
  table,    \* handles installed in each task's uctx
  op,       \* the system call a task is inside of, between two locked sections
  panic     \* "none", or the assertion that stopped the system

vars == <<chan, port, waiting, table, op, panic>>

ChanStates == {"FREE", "ACCEPTING", "CONNECTING", "CONNECTED",
               "DISCONNECTING", "WAITING_FOR_PORT"}
RefKinds   == {"node", "peer", "handle"}
Events     == {"READY", "HUP", "MSG"}
Access     == {"TA", "NS"}      \* IPC_PORT_ALLOW_{TA,NS}_CONNECT

(* refs is the set of obj_ref_t linked on the channel's refobj: its own    *)
(* node_ref and handle_ref, and the peer_ref of the channel whose peer it  *)
(* is.  References taken and dropped inside one locked section (tmp_*_ref) *)
(* never show between steps.                                               *)
FreeChan == [state |-> "FREE", peer |-> NULL, refs |-> {}, ready |-> FALSE,
             path |-> NULL, uuid |-> NULL, queue |-> FALSE, filled |-> 0,
             read |-> 0]

FreePort == [state |-> "FREE", path |-> NULL, allow |-> {}, uuid |-> NULL,
             pending |-> <<>>, listed |-> FALSE, refcnt |-> 0]

Call(kind, h, ev) == [kind |-> kind, h |-> h, ev |-> ev]
Idle == Call("idle", NULL, {})

Init ==
  /\ chan = [c \in Chans |-> FreeChan]
  /\ port = [p \in Ports |-> FreePort]
  /\ waiting = [q \in Paths |-> <<>>]
  /\ table = [t \in Tasks |-> {}]
  /\ op = [t \in Tasks |-> Idle]
  /\ panic = "none"

Unused == {c \in Chans : chan[c].state = "FREE"}
Elems(s) == {s[i] : i \in 1..Len(s)}
IndexOf(s, x) == CHOOSE i \in 1..Len(s) : s[i] = x
Without(s, x) ==
  LET k == IndexOf(s, x)
  IN  [i \in 1..(Len(s) - 1) |-> IF i < k THEN s[i] ELSE s[i + 1]]

Running(t)  == panic = "none" /\ op[t].kind = "idle"
HasRoom(t)  == Cardinality(table[t]) < MaxHandles
Published(q) == {p \in Ports : port[p].listed /\ port[p].path = q}

-----------------------------------------------------------------------------
(* Channel records.                                                        *)

(* chan_del_ref: the last reference frees the channel.                     *)
DelRef(r, ref) ==
  IF r.refs \subseteq {ref} THEN FreeChan ELSE [r EXCEPT !.refs = @ \ {ref}]

(* _chan_shutdown_locked: leave the connection; a channel that waits for a *)
(* port also leaves the waiting list.                                      *)
Disconnect(r) ==
  CASE r.state \in {"CONNECTED", "CONNECTING", "ACCEPTING"} ->
         [r EXCEPT !.state = "DISCONNECTING"]
    [] r.state = "WAITING_FOR_PORT" ->
         [r EXCEPT !.state = "DISCONNECTING", !.refs = @ \ {"node"}]
    [] OTHER -> r

(* chan_shutdown_locked: both ends are told, but only the end that shuts   *)
(* down lets go of its peer.  ShutEnd is that end, ShutPeer the other one. *)
ShutEnd(r) == [Disconnect(r) EXCEPT !.peer = NULL]

(* Mutation: the other end is not told.                                    *)
UnrefPeer(r) == DelRef(r, "peer")

ShutPeer(r) == DelRef(Disconnect(r), "peer")

(* ... for every channel of S, none of which is the peer of another.       *)
Shutdown(C, S) ==
  [x \in Chans |->
     IF x \in S THEN ShutEnd(C[x])
     ELSE IF \E s \in S : C[s].peer = x THEN ShutPeer(C[x])
     ELSE C[x]]

(* chan_poll                                                               *)
Poll(c) ==
  {e \in Events :
     CASE e = "HUP"   -> chan[c].state = "DISCONNECTING"
       [] e = "READY" -> chan[c].ready
       [] e = "MSG"   -> chan[c].queue /\ chan[c].filled > 0}

(* chan_finalize_event                                                     *)
Finalize(c, ev) ==
  IF "READY" \in ev THEN [chan EXCEPT ![c].ready = FALSE] ELSE chan

(* check_access                                                            *)
Allowed(allow, uuid) ==
  IF uuid \in NsTasks THEN "NS" \in allow ELSE "TA" \in allow

(* port_attach_client on success: the port and the two ends as they leave  *)
(* the function.                                                           *)
QueuePending(r, s) ==
  [r EXCEPT !.pending = Append(@, s), !.refcnt = @ + 1]
ClientEnd(r, server, refs) ==
  [r EXCEPT !.state = "CONNECTING", !.peer = server, !.refs = refs,
            !.path = NULL, !.queue = TRUE]
ServerEnd(client, uuid) ==
  [FreeChan EXCEPT !.state = "ACCEPTING", !.peer = client,
                   !.refs = {"node", "peer"}, !.uuid = uuid, !.queue = TRUE]

-----------------------------------------------------------------------------
(* Ports.                                                                  *)

(* Mutation: clients that came before the port are not checked.            *)
AnyoneAdmitted(w, allow) == TRUE

(* check_access, for every client that waits.                              *)
Admitted(w, allow) == \A c \in Elems(w) : Allowed(allow, chan[c].uuid)

(* ipc_port_create and handle_init; the references are those of the handle *)
(* table, the handle list, the port list and the pending connections.      *)
NewPort(t, q, allow, servers) ==
  [state |-> "LISTENING", path |-> q, allow |-> allow, uuid |-> t,
   pending |-> servers, listed |-> TRUE, refcnt |-> 3 + Len(servers)]

(* The i-th client that waits is attached to the i-th new server channel.  *)
AttachAll(t, w, servers) ==
  [x \in Chans |->
     IF x \in Elems(w)
       THEN ClientEnd(chan[x], servers[IndexOf(w, x)], {"handle", "peer"})
     ELSE IF x \in Elems(servers)
       THEN ServerEnd(w[IndexOf(servers, x)], t)
     ELSE chan[x]]

(* sys_port_create: ipc_port_create, uctx_handle_install, ipc_port_publish.*)
(* The clients that wait for the path are attached in the order they came. *)
(* When one of them cannot be attached, it is shut down after its node     *)
(* left the list, and _chan_shutdown_locked asserts that it is listed.     *)
PublishAttach(p, t, q, allow) ==
  LET w == waiting[q] IN
  /\ Admitted(w, allow)
  /\ \E servers \in [1..Len(w) -> Unused] :
       /\ \A i, j \in 1..Len(w) : i # j => servers[i] # servers[j]
       /\ chan' = AttachAll(t, w, servers)
       /\ port' = [port EXCEPT ![p] = NewPort(t, q, allow, servers)]
  /\ waiting' = [waiting EXCEPT ![q] = <<>>]
  /\ table' = [table EXCEPT ![t] = @ \cup {p}]
  /\ UNCHANGED <<op, panic>>

PublishAssertFails(q) ==
  /\ waiting[q] # <<>>
  /\ panic' = "waiting_node"
  /\ UNCHANGED <<chan, port, waiting, table, op>>

sys_port_create(t, p, q, allow) ==
  /\ Running(t)
  /\ t \notin NsTasks
  /\ port[p].state = "FREE"
  /\ HasRoom(t)
  /\ Published(q) = {}
  /\ \/ PublishAttach(p, t, q, allow)
     \/ PublishAssertFails(q)

(* Mutation: the states of the two ends are not tested.                    *)
HasClient(s) == chan[s].peer # NULL

(* The tests of ipc_port_accept on the connection it took from the list.   *)
Acceptable(s) ==
  /\ chan[s].peer # NULL
  /\ chan[s].state = "ACCEPTING"
  /\ chan[chan[s].peer].state = "CONNECTING"

(* Mutation: the list reference is not dropped.                            *)
AcceptServerKeepRef(r) ==
  [r EXCEPT !.state = "CONNECTED", !.refs = @ \cup {"handle"}]

AcceptServer(r) ==
  [r EXCEPT !.state = "CONNECTED", !.refs = (@ \ {"node"}) \cup {"handle"}]

(* Mutation: the event that a blocked connect waits for is not raised.     *)
AcceptClientQuietly(r) == [r EXCEPT !.state = "CONNECTED"]

AcceptClient(r) == [r EXCEPT !.state = "CONNECTED", !.ready = TRUE]

(* ipc_port_accept and the rest of sys_accept: install the new handle, or  *)
(* close it when the table is full or the uuid cannot be copied out.       *)
Accept(t, s) ==
  /\ Acceptable(s)
  /\ chan' = [chan EXCEPT ![s] = AcceptServer(@),
                          ![chan[s].peer] = AcceptClient(@)]
  /\ \/ /\ HasRoom(t)
        /\ table' = [table EXCEPT ![t] = @ \cup {s}]
        /\ UNCHANGED op
     \/ /\ op' = [op EXCEPT ![t] = Call("close", s, {})]
        /\ UNCHANGED table

(* ... or drop the connection when its client is gone.                     *)
DropPending(s) ==
  /\ ~Acceptable(s)
  /\ LET C == Shutdown(chan, {s})
     IN  chan' = [C EXCEPT ![s] = DelRef(@, "node")]
  /\ UNCHANGED <<table, op>>

(* Mutation: the reference taken by port_attach_client stays.              *)
TakePendingKeepRef(r) == [r EXCEPT !.pending = Tail(@)]

TakePending(r) == [r EXCEPT !.pending = Tail(@), !.refcnt = @ - 1]

sys_accept(t, p) ==
  /\ Running(t)
  /\ p \in table[t]
  /\ port[p].state = "LISTENING"
  /\ port[p].pending # <<>>
  /\ LET s == Head(port[p].pending)
     IN  Accept(t, s) \/ DropPending(s)
  /\ port' = [port EXCEPT ![p] = TakePending(@)]
  /\ UNCHANGED <<waiting, panic>>

-----------------------------------------------------------------------------
(* Connections.                                                            *)

(* What a task does with the handle ipc_port_connect_async gave it.        *)
InstallOrWait(t, c, sync) ==
  \/ /\ sync
     /\ op' = [op EXCEPT ![t] = Call("connect", c, {})]
     /\ UNCHANGED table
  \/ /\ ~sync /\ HasRoom(t)
     /\ table' = [table EXCEPT ![t] = @ \cup {c}]
     /\ UNCHANGED op
  \/ /\ ~sync /\ ~HasRoom(t)
     /\ op' = [op EXCEPT ![t] = Call("close", c, {})]
     /\ UNCHANGED table

ConnectToPort(t, c, p) ==
  \E s \in Unused \ {c} :
    /\ port[p].state = "LISTENING"
    /\ Allowed(port[p].allow, t)
    /\ chan' = [chan EXCEPT
         ![c] = ClientEnd([FreeChan EXCEPT !.uuid = t], s, {"handle", "peer"}),
         ![s] = ServerEnd(c, port[p].uuid)]
    /\ port' = [port EXCEPT ![p] = QueuePending(@, s)]
    /\ UNCHANGED waiting

ConnectWaitForPort(t, c, q) ==
  /\ chan' = [chan EXCEPT ![c] =
       [FreeChan EXCEPT !.state = "WAITING_FOR_PORT", !.uuid = t, !.path = q,
                        !.refs = {"handle", "node"}]]
  /\ waiting' = [waiting EXCEPT ![q] = Append(@, c)]
  /\ UNCHANGED port

(* Mutation: the lookup is made before the lock is taken.                  *)
MayWait(q, wait) == wait

MustWait(q, wait) == wait /\ Published(q) = {}

(* sys_connect, and ipc_port_connect_async as the non-secure device calls  *)
(* it (never waiting for a port, never blocking).                          *)
sys_connect(t, c, q, wait, sync) ==
  /\ Running(t)
  /\ t \in NsTasks => ~wait /\ ~sync
  /\ c \in Unused
  /\ \/ \E p \in Published(q) : ConnectToPort(t, c, p)
     \/ /\ MustWait(q, wait)
        /\ ConnectWaitForPort(t, c, q)
  /\ InstallOrWait(t, c, sync)
  /\ UNCHANGED panic

(* handle_wait inside sys_connect: poll reports an event...                *)
ConnectPoll(t) ==
  LET c == op[t].h IN
  /\ panic = "none"
  /\ op[t].kind = "connect"
  /\ Poll(c) # {}
  /\ op' = [op EXCEPT ![t] = Call("connected", c, Poll(c))]
  /\ UNCHANGED <<chan, port, waiting, table, panic>>

(* ... finalize_event consumes it under the lock taken again, and the call *)
(* either installs the handle or closes it.                                *)
ConnectFinish(t) ==
  LET c  == op[t].h
      ev == op[t].ev
      ok == "READY" \in ev /\ ("HUP" \in ev => "MSG" \in ev)
  IN
  /\ panic = "none"
  /\ op[t].kind = "connected"
  /\ chan' = Finalize(c, ev)
  /\ IF ok /\ HasRoom(t)
       THEN /\ table' = [table EXCEPT ![t] = @ \cup {c}]
            /\ op' = [op EXCEPT ![t] = Idle]
       ELSE /\ op' = [op EXCEPT ![t] = Call("close", c, {})]
            /\ UNCHANGED table
  /\ UNCHANGED <<port, waiting, panic>>

(* sys_wait on an installed channel, in the same two steps.                *)
WaitPoll(t, c) ==
  /\ Running(t)
  /\ c \in table[t]
  /\ Poll(c) # {}
  /\ op' = [op EXCEPT ![t] = Call("polled", c, Poll(c))]
  /\ UNCHANGED <<chan, port, waiting, table, panic>>

WaitFinish(t) ==
  /\ panic = "none"
  /\ op[t].kind = "polled"
  /\ chan' = Finalize(op[t].h, op[t].ev)
  /\ op' = [op EXCEPT ![t] = Idle]
  /\ UNCHANGED <<port, waiting, table, panic>>

-----------------------------------------------------------------------------
(* Messages: only whether a queue exists and how many of its items are     *)
(* filled or being read.  IpcMsg models the queue itself.                  *)

HasFree(k) == chan[k].filled + chan[k].read < NumBufs

sys_send_msg(t, c) ==
  LET k == chan[c].peer IN
  /\ Running(t)
  /\ c \in table[t]
  /\ chan[c].state = "CONNECTED"
  /\ HasFree(k)
  /\ chan' = [chan EXCEPT ![k].filled = @ + 1]
  /\ UNCHANGED <<port, waiting, table, op, panic>>

sys_get_msg(t, c) ==
  /\ Running(t)
  /\ c \in table[t]
  /\ chan[c].queue
  /\ chan[c].filled > 0
  /\ chan' = [chan EXCEPT ![c].filled = @ - 1, ![c].read = @ + 1]
  /\ UNCHANGED <<port, waiting, table, op, panic>>

sys_put_msg(t, c) ==
  /\ Running(t)
  /\ c \in table[t]
  /\ chan[c].queue
  /\ chan[c].read > 0
  /\ chan' = [chan EXCEPT ![c].read = @ - 1]
  /\ UNCHANGED <<port, waiting, table, op, panic>>

(* sys_get_msg, sys_read_msg and sys_put_msg test only that the handle is  *)
(* a channel (check_channel_locked) before they use its queue.             *)
UseNullQueue(t, c) ==
  /\ Running(t)
  /\ c \in table[t]
  /\ ~chan[c].queue
  /\ panic' = "null_queue"
  /\ UNCHANGED <<chan, port, waiting, table, op>>

-----------------------------------------------------------------------------
(* handle_close: the shutdown operation of the handle, then handle_decref. *)

(* chan_shutdown, for a handle of any state.                               *)
chan_shutdown(c) ==
  /\ chan' = Shutdown(chan, {c})
  /\ waiting' = IF chan[c].state = "WAITING_FOR_PORT"
                  THEN [waiting EXCEPT ![chan[c].path] = Without(@, c)]
                  ELSE waiting
  /\ UNCHANGED port

DropNodes(C, S) ==
  [x \in Chans |-> IF x \in S THEN DelRef(C[x], "node") ELSE C[x]]

(* Shut down and unlink every connection that was not accepted.            *)
TearDown(C, S) == DropNodes(Shutdown(C, S), S)

(* The port without its list node, its pending list, their references, and *)
(* the reference of the handle list that uctx_handle_remove dropped.       *)
ClosePort(r) ==
  [r EXCEPT !.state = "CLOSING", !.pending = <<>>, !.listed = FALSE,
            !.refcnt = @ - 1 - (IF r.listed THEN 1 ELSE 0) - Len(r.pending)]

(* port_shutdown: unpublish, and drop every connection not yet accepted.   *)
port_shutdown(p) ==
  /\ chan' = TearDown(chan, Elems(port[p].pending))
  /\ port' = [port EXCEPT ![p] = ClosePort(@)]
  /\ UNCHANGED waiting

(* sys_close: uctx_handle_remove takes the handle out of the table and out *)
(* of the handle list (one reference each way), then shuts it down.        *)
sys_close(t, h) ==
  /\ Running(t)
  /\ h \in table[t]
  /\ table' = [table EXCEPT ![t] = @ \ {h}]
  /\ op' = [op EXCEPT ![t] = Call("decref", h, {})]
  /\ \/ h \in Chans /\ chan_shutdown(h)
     \/ h \in Ports /\ port_shutdown(h)
  /\ UNCHANGED panic

(* handle_close of a channel that never got into, or left, the table.      *)
CloseChan(t) ==
  /\ panic = "none"
  /\ op[t].kind = "close"
  /\ chan_shutdown(op[t].h)
  /\ op' = [op EXCEPT ![t] = Call("decref", op[t].h, {})]
  /\ UNCHANGED <<table, panic>>

UnrefPort(r) ==
  IF r.refcnt = 1 THEN FreePort ELSE [r EXCEPT !.refcnt = @ - 1]

(* handle_decref of the last reference: chan_handle_destroy takes the lock *)
(* again; port_handle_destroy frees the port.                              *)
handle_decref(t) ==
  LET h == op[t].h IN
  /\ panic = "none"
  /\ op[t].kind = "decref"
  /\ op' = [op EXCEPT ![t] = Idle]
  /\ \/ /\ h \in Chans
        /\ chan' = [chan EXCEPT ![h] = DelRef(@, "handle")]
        /\ UNCHANGED port
     \/ /\ h \in Ports
        /\ port' = [port EXCEPT ![h] = UnrefPort(@)]
        /\ UNCHANGED chan
  /\ UNCHANGED <<waiting, table, panic>>

-----------------------------------------------------------------------------
(* panic() never returns.                                                  *)
Halted == panic # "none" /\ UNCHANGED vars

TaskStep(t) ==
  \/ \E p \in Ports, q \in Paths, allow \in SUBSET Access :
       sys_port_create(t, p, q, allow)
  \/ \E p \in Ports : sys_accept(t, p)
  \/ \E c \in Chans, q \in Paths, wait, sync \in BOOLEAN :
       sys_connect(t, c, q, wait, sync)
  \/ ConnectPoll(t)
  \/ ConnectFinish(t)
  \/ \E c \in Chans : WaitPoll(t, c)
  \/ WaitFinish(t)
  \/ \E c \in Chans : sys_send_msg(t, c)
  \/ \E c \in Chans : sys_get_msg(t, c)
  \/ \E c \in Chans : sys_put_msg(t, c)
  \/ \E c \in Chans : UseNullQueue(t, c)
  \/ \E h \in Chans \cup Ports : sys_close(t, h)
  \/ CloseChan(t)
  \/ handle_decref(t)

Next == (\E t \in Tasks : TaskStep(t)) \/ Halted

Spec == Init /\ [][Next]_vars
-----------------------------------------------------------------------------
(* Properties.                                                             *)

Handles == Ports \cup Chans
OpKinds == {"idle", "connect", "connected", "polled", "close", "decref"}

ChanFields ==
  [state : ChanStates, peer : Chans \cup {NULL}, refs : SUBSET RefKinds,
   ready : BOOLEAN, path : Paths \cup {NULL}, uuid : Tasks \cup {NULL},
   queue : BOOLEAN, filled : 0..NumBufs, read : 0..NumBufs]
ChanType == {r \in ChanFields : r.filled + r.read <= NumBufs}
PortType ==
  [state : {"FREE", "LISTENING", "CLOSING"}, path : Paths \cup {NULL},
   allow : SUBSET Access, uuid : Tasks \cup {NULL}, pending : Seq(Chans),
   listed : BOOLEAN, refcnt : Int]
OpFields == [kind : OpKinds, h : Handles \cup {NULL}, ev : SUBSET Events]
OpType ==
  {o \in OpFields :
     /\ o.kind \in {"connect", "connected", "polled", "close"} => o.h \in Chans
     /\ o.kind = "decref" => o.h \in Handles}

(* Every field of a channel, a port and a pending system call holds a      *)
(* value of its C type, and a queue has at most num_recv_bufs items.       *)
TypeOK ==
  /\ chan \in [Chans -> ChanType]
  /\ port \in [Ports -> PortType]
  /\ waiting \in [Paths -> Seq(Chans)]
  /\ table \in [Tasks -> SUBSET Handles]
  /\ op \in [Tasks -> OpType]
  /\ panic \in {"none", "waiting_node", "null_queue"}

(* Tasks that hold the handle h: in the table, or inside a system call.    *)
Holds(t, h) ==
  \/ h \in table[t]
  \/ op[t].h = h /\ op[t].kind \in {"connect", "connected", "close", "decref"}
Listed(c) ==
  \/ \E q \in Paths : c \in Elems(waiting[q])
  \/ \E p \in Ports : c \in Elems(port[p].pending)

(* Reference accounting (reflist.h, chan_add_ref / chan_del_ref in ipc.c). *)
(* A channel's reference list says exactly who can still reach it: the     *)
(* task with its handle, the list it is queued on, the channel whose peer  *)
(* it is.  Freed memory is therefore reached by nobody, and memory that    *)
(* nobody reaches is free.                                                 *)
RefsExact ==
  \A c \in Chans :
    /\ "handle" \in chan[c].refs <=> \E t \in Tasks : Holds(t, c)
    /\ "node" \in chan[c].refs <=> Listed(c)
    /\ "peer" \in chan[c].refs <=> \E d \in Chans : chan[d].peer = c
    /\ chan[c].refs = {} <=> chan[c].state = "FREE"

(* No leak: the peer references alone never keep a pair of channels alive. *)
(* A channel that is neither owned nor queued is held only by a peer that  *)
(* is, and so will be freed when that one is closed.                       *)
NoOrphan ==
  \A c \in Chans :
    chan[c].state # "FREE" =>
      \/ {"handle", "node"} \cap chan[c].refs # {}
      \/ \E d \in Chans : chan[d].peer = c
                          /\ {"handle", "node"} \cap chan[d].refs # {}

(* check_channel_connected_locked asserts that a connected channel has a   *)
(* peer; sending dereferences it.  More: the peer points back and is       *)
(* connected too, and both have a message queue.                           *)
ConnectedPair ==
  \A c \in Chans :
    chan[c].state = "CONNECTED" =>
      /\ chan[c].peer # NULL
      /\ chan[chan[c].peer].peer = c
      /\ chan[chan[c].peer].state = "CONNECTED"
      /\ chan[c].queue /\ chan[chan[c].peer].queue

(* No forgotten connection request: a client in CONNECTING has its server  *)
(* end, in ACCEPTING, queued on a port that still listens.                 *)
ConnectingIsPending ==
  \A c \in Chans :
    chan[c].state = "CONNECTING" =>
      \E p \in Ports :
        /\ port[p].state = "LISTENING" /\ port[p].listed
        /\ chan[c].peer \in Elems(port[p].pending)
        /\ chan[chan[c].peer].state = "ACCEPTING"

(* A channel waits for a port only while no port with its path is          *)
(* published, and then it is on the list that ipc_port_publish scans.      *)
WaitingHasNoPort ==
  \A c \in Chans :
    chan[c].state = "WAITING_FOR_PORT" =>
      c \in Elems(waiting[chan[c].path]) /\ Published(chan[c].path) = {}

(* The reference count of a port's handle is the number of its holders:    *)
(* table entry, handle list, port list, each pending connection, or the    *)
(* close in progress.  A free port has none (port_handle_destroy), and a   *)
(* port is never in the hands of two tasks.                                *)
PortRefsExact ==
  \A p \in Ports :
    /\ port[p].refcnt =
         (IF \E t \in Tasks : p \in table[t] THEN 2 ELSE 0)
         + (IF port[p].listed THEN 1 ELSE 0)
         + Len(port[p].pending)
         + (IF \E t \in Tasks : op[t].h = p THEN 1 ELSE 0)
    /\ \A t, u \in Tasks : Holds(t, p) /\ Holds(u, p) => t = u

(* A connection request is only ever queued on a port whose flags admit    *)
(* its client (check_access), whichever of the two came first.             *)
PendingAllowed ==
  \A p \in Ports : \A s \in Elems(port[p].pending) :
    chan[s].peer # NULL => Allowed(port[p].allow, chan[chan[s].peer].uuid)

(* A channel that was told to disconnect never connects again: a late      *)
(* accept must not bring a connection back (ipc_port_accept checks states).*)
DisconnectIsFinal ==
  [][\A c \in Chans :
       chan[c].state = "DISCONNECTING" =>
         chan'[c].state \in {"DISCONNECTING", "FREE"}]_vars

(* _chan_shutdown_locked asserts that a channel in WAITING_FOR_PORT is on  *)
(* a list.                                                                 *)
WaitingNodeAssert == panic # "waiting_node"

(* msg_put_read_locked asserts that a channel a task operates on has a     *)
(* message queue.                                                          *)
QueueAssert == panic # "null_queue"

-----------------------------------------------------------------------------
(* The inductive invariants: ConnInv for ConnectedPair, DisconnectIsFinal, *)
(* and with RefsInv for the others.                                        *)

Opposite(state) ==
  CASE state = "ACCEPTING"  -> "CONNECTING"
    [] state = "CONNECTING" -> "ACCEPTING"
    [] OTHER                -> "CONNECTED"

(* The two ends of a connection point at each other and agree about its    *)
(* state; whoever is pointed at is kept alive; free memory points nowhere. *)
Graph(C) ==
  /\ \A c \in Chans :
       C[c].state \in {"ACCEPTING", "CONNECTING", "CONNECTED"} =>
         /\ C[c].peer # NULL /\ C[c].queue
         /\ C[C[c].peer].peer = c
         /\ C[C[c].peer].state = Opposite(C[c].state)
  /\ \A c \in Chans :
       C[c].peer # NULL =>
         /\ "peer" \in C[C[c].peer].refs
         /\ C[C[c].peer].state # "WAITING_FOR_PORT"
  /\ \A c, d \in Chans : C[c].peer = C[d].peer /\ C[c].peer # NULL => c = d
  /\ \A c \in Chans : C[c].state = "FREE" => C[c].refs = {} /\ C[c].peer = NULL

(* A channel handle has one owner, which keeps the channel alive; the one  *)
(* that is about to drop it has shut the channel down.                     *)
Owned ==
  /\ \A t \in Tasks, c \in Chans : Holds(t, c) => "handle" \in chan[c].refs
  /\ \A t, u \in Tasks, c \in Chans : Holds(t, c) /\ Holds(u, c) => t = u
  /\ \A t \in Tasks :
       op[t].kind \in {"connect", "connected", "close", "decref"} =>
         op[t].h \notin table[t]
  /\ \A t \in Tasks :
       op[t].kind = "decref" /\ op[t].h \in Chans =>
         chan[op[t].h].state = "DISCONNECTING"

(* The waiting lists hold exactly the channels that wait, once each.       *)
WaitLists ==
  /\ \A q \in Paths : \A i \in 1..Len(waiting[q]) :
       /\ chan[waiting[q][i]].state = "WAITING_FOR_PORT"
       /\ chan[waiting[q][i]].path = q
  /\ \A q \in Paths : \A i, j \in 1..Len(waiting[q]) :
       waiting[q][i] = waiting[q][j] => i = j
  /\ \A c \in Chans :
       chan[c].state = "WAITING_FOR_PORT" =>
         chan[c].path \in Paths /\ c \in Elems(waiting[chan[c].path])

(* A pending list holds server ends that nobody owns yet, once each.       *)
PendingLists ==
  /\ \A p \in Ports : \A i \in 1..Len(port[p].pending) :
       /\ chan[port[p].pending[i]].state \in {"ACCEPTING", "DISCONNECTING"}
       /\ "node" \in chan[port[p].pending[i]].refs
       /\ \A t \in Tasks : ~Holds(t, port[p].pending[i])
  /\ \A p, r \in Ports :
       \A i \in 1..Len(port[p].pending), j \in 1..Len(port[r].pending) :
         port[p].pending[i] = port[r].pending[j] => p = r /\ i = j

(* Ends, owners and lists agree (chan_shutdown_locked, port_attach_client, *)
(* ipc_port_accept and the reference counting of ipc.c).                   *)
ConnInv == TypeOK /\ Graph(chan) /\ Owned /\ WaitLists /\ PendingLists

(* What the reference lists add for RefsExact and NoOrphan.  A "peer"      *)
(* reference has its channel; memory without references is given back; a   *)
(* channel that waits is owned, on a list and without peer; a server end   *)
(* that can still be accepted is on a list.  A channel that has a peer is  *)
(* owned or queued, is not its own peer, and is not queued together with   *)
(* its peer.                                                               *)
Links(C) ==
  /\ \A c \in Chans : "peer" \in C[c].refs => \E d \in Chans : C[d].peer = c
  /\ \A c \in Chans : C[c].refs = {} => C[c].state = "FREE"
  /\ \A c \in Chans :
       C[c].state = "WAITING_FOR_PORT" =>
         "node" \in C[c].refs /\ "handle" \in C[c].refs /\ C[c].peer = NULL
  /\ \A c \in Chans : C[c].state = "ACCEPTING" => "node" \in C[c].refs
  /\ \A c \in Chans :
       C[c].peer # NULL =>
         /\ C[c].peer # c
         /\ "handle" \in C[c].refs \/ "node" \in C[c].refs
         /\ "node" \in C[c].refs => "node" \notin C[C[c].peer].refs

(* A handle reference has an owner and a node reference a list; the owner  *)
(* that is about to drop its handle has let go of the peer.                *)
Reached ==
  /\ \A c \in Chans : "handle" \in chan[c].refs => \E t \in Tasks : Holds(t, c)
  /\ \A c \in Chans : "node" \in chan[c].refs => Listed(c)
  /\ \A t \in Tasks :
       op[t].kind = "decref" /\ op[t].h \in Chans => chan[op[t].h].peer = NULL

(* The life of a port: free memory, published and in its task's table, or  *)
(* off every list with only the close in progress to keep it.              *)
PortLife ==
  /\ \A p \in Ports :
       \/ /\ port[p].state = "FREE" /\ port[p].refcnt = 0
          /\ ~port[p].listed /\ port[p].pending = <<>>
          /\ \A t \in Tasks : p \notin table[t] /\ op[t].h # p
       \/ /\ port[p].state = "LISTENING"
          /\ port[p].refcnt = 3 + Len(port[p].pending) /\ port[p].listed
          /\ \E t \in Tasks : p \in table[t]
          /\ \A t \in Tasks : op[t].h # p
       \/ /\ port[p].state = "CLOSING" /\ port[p].refcnt = 1
          /\ ~port[p].listed /\ port[p].pending = <<>>
          /\ \E t \in Tasks : op[t].h = p
          /\ \A t \in Tasks : p \notin table[t]
  /\ \A p \in Ports, t, u \in Tasks : Holds(t, p) /\ Holds(u, p) => t = u
  /\ \A t \in Tasks : op[t].kind = "idle" => op[t].h = NULL

(* Nobody waits for a name that is published.                              *)
WaitersUnserved == \A q \in Paths : waiting[q] # <<>> => Published(q) = {}

(* References, owners, lists and ports agree, exactly.                     *)
RefsInv ==
  /\ Links(chan) /\ Reached /\ PortLife
  /\ WaitersUnserved /\ PendingAllowed

-----------------------------------------------------------------------------
(* Fairness.  LK schedules every ready thread, so a call that can go on    *)
(* does; and an application whose port reports a pending connection comes  *)
(* back to accept it whenever its event loop is running.                   *)
Fairness ==
  \A t \in Tasks :
    /\ SF_vars(\E p \in Ports : sys_accept(t, p))
    /\ WF_vars(ConnectPoll(t))
    /\ WF_vars(ConnectFinish(t))
    /\ WF_vars(WaitFinish(t))
    /\ WF_vars(CloseChan(t))
    /\ WF_vars(handle_decref(t))

FairSpec == Spec /\ Fairness

ConnectsToOther(t) ==
  /\ op[t].kind = "connect"
  /\ chan[op[t].h].state = "CONNECTING"
  /\ \E u \in Tasks \ {t} : chan[chan[op[t].h].peer].uuid = u

(* A blocking sys_connect to the port of another task returns, provided    *)
(* the other tasks do not block for ever in a connect of their own: the    *)
(* request is accepted in its turn or dropped when the port is closed, and *)
(* in both cases the caller's poll reports it.                             *)
ConnectReturns ==
  \A t \in Tasks :
    []<>(\A u \in Tasks \ {t} : op[u].kind # "connect")
      => (ConnectsToOther(t) ~> (op[t].kind = "idle" \/ panic # "none"))
=============================================================================
