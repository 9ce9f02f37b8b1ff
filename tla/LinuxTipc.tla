----------------------------- MODULE LinuxTipc -----------------------------
(* The Linux IPC driver, trusty-ipc.c, and when trusty-virtio.c calls it.   *)
(* An open file is one channel; one thread at a time uses it.  Addresses    *)
(* come from an idr, the lowest free one first, so that of a closed file is *)
(* the next one to be used.  Sections under chan->lock are one step, and    *)
(* closing a file (shutdown, destroy) is one, as nothing can use the        *)
(* address in between.  A transmit buffer is free again when the device has *)
(* returned it.                                                             *)
EXTENDS TipcRings, FiniteSets

CONSTANTS Fds

ASSUME FdsAssumption == IsFiniteSet(Fds)

VARIABLES
  vds,      \* "boot", "online", "removing" (OFFLINE for good), "dead"
  fd,       \* open files
  conns,    \* requests to connect sent so far
  clean     \* no answer was applied to another request than its own, and
            \* no connection was dropped without telling the device (history)

ns == <<vds, fd, conns, clean>>

(* local = 0: not in the idr.  dn is tipc_dn_chan's state, comp the count   *)
(* of reply_comp, call that a thread is in dn_wait_for_reply.               *)
Closed == [local |-> 0, remote |-> 0, id |-> 0, state |-> "CLOSED",
           dn |-> "DISCONNECTED", comp |-> 0, call |-> FALSE]

NsInit ==
  /\ vds = "boot"
  /\ fd = [f \in Fds |-> Closed]
  /\ conns = 0
  /\ clean = TRUE

From(f, type, slot, id) == Msg(type, fd[f].local, slot, id)

FreeAddrs == (1..Cardinality(Fds)) \ {fd[f].local : f \in Fds}

IsOpen(f) == fd[f].state # "CLOSED"
Free(f) == IsOpen(f) /\ ~fd[f].call

Open(f) ==                                          \* tipc_open
  /\ vds = "online" /\ ~IsOpen(f)
  /\ fd' = [fd EXCEPT ![f] = [Closed EXCEPT !.local = Least(FreeAddrs),
                                            !.state = "DISCONNECTED"]]
  /\ UNCHANGED <<rings, vds, conns, clean>>

(* dn_connect_ioctl, up to the wait.                                        *)
Connect(f) ==
  /\ vds = "online" /\ Free(f) /\ fd[f].state = "DISCONNECTED"
  /\ conns < MaxConn /\ conns' = conns + 1
  /\ QueueMessage(From(f, "conn", 0, conns + 1))
  /\ fd' = [fd EXCEPT ![f].state = "CONNECTING", ![f].id = conns + 1,
                      ![f].call = TRUE]
  /\ UNCHANGED <<vds, clean>>

(* The same while connecting or connected: no request, but a wait.          *)
ConnectAgain(f) ==
  /\ vds = "online" /\ Free(f) /\ fd[f].state \in {"CONNECTING", "CONNECTED"}
  /\ fd' = [fd EXCEPT ![f].call = TRUE]
  /\ UNCHANGED <<rings, vds, conns, clean>>

WaitReply(f) ==                                     \* dn_wait_for_reply
  /\ fd[f].call
  /\ \/ fd[f].comp > 0                              \* a reply
        /\ fd' = [fd EXCEPT ![f].call = FALSE, ![f].comp = @ - 1]
     \/ fd[f].comp = 0                              \* REPLY_TIMEOUT
        /\ fd' = [fd EXCEPT ![f].call = FALSE, ![f].dn = "STALE"]
     \/ fd' = [fd EXCEPT ![f].call = FALSE]        \* a signal
  /\ UNCHANGED <<rings, vds, conns, clean>>

Write(f) ==                                         \* tipc_write_iter
  /\ vds = "online" /\ Free(f) /\ fd[f].state = "CONNECTED"
  /\ QueueMessage(From(f, "data", fd[f].remote, fd[f].id))
  /\ UNCHANGED ns

Linked(f) == fd[f].state \in {"CONNECTING", "CONNECTED"}

\* Mutation of DiscTold: only a connected file sends the request.
DiscIfConnected(f) == fd[f].state = "CONNECTED" /\ vds = "online"

DiscTold(f) == Linked(f) /\ vds = "online"

(* tipc_release.  There may be no buffer for the disconnect request within  *)
(* its timeout, and after going off line none is sent.                      *)
Close(f) ==
  /\ Free(f)
  /\ \/ /\ DiscTold(f) /\ QueueMessage(From(f, "disc", fd[f].remote, fd[f].id))
        /\ UNCHANGED clean
     \/ /\ DiscTold(f) /\ Len(toSec) = RxSize
        /\ clean' = FALSE /\ UNCHANGED rings
     \/ ~DiscTold(f) /\ UNCHANGED <<rings, clean>>
  /\ fd' = [fd EXCEPT ![f] = Closed]
  /\ UNCHANGED <<vds, conns>>

----------------------------------------------------------------------------
(* _rxvq_cb: one message, and its buffer back.                              *)

Reply == Head(toNs)
For(f) == fd[f].local # 0 /\ fd[f].local = Reply.addr
Unclaimed == \A f \in Fds : ~For(f)

HandleReply(type) == vds \in {"boot", "online"} /\ toNs # <<>> /\ Reply.type = type

GoOnline ==                                         \* _go_online
  /\ HandleReply("online")
  /\ vds' = "online"
  /\ TakeReply
  /\ UNCHANGED <<fd, conns, clean>>

Own(f) == clean' = (clean /\ Reply.id = fd[f].id)

(* _handle_conn_rsp.                                                        *)
ConnRsp(f) ==
  LET ok == Reply.type = "accept"
  IN /\ HandleReply("accept") \/ HandleReply("refuse")
     /\ For(f)
     /\ \/ /\ fd[f].state = "CONNECTING"
           /\ fd' = [fd EXCEPT
                      ![f].state = IF ok THEN "CONNECTED" ELSE "DISCONNECTED",
                      ![f].remote = IF ok THEN Reply.slot ELSE 0,
                      ![f].id = IF ok THEN @ ELSE 0,
                      ![f].dn = IF ok THEN "CONNECTED" ELSE "DISCONNECTED",
                      ![f].comp = @ + 1]
           /\ Own(f)
        \/ fd[f].state # "CONNECTING" /\ UNCHANGED <<fd, clean>>
     /\ TakeReply
     /\ UNCHANGED <<vds, conns>>

(* _handle_disc_req.                                                        *)
DiscReq(f) ==
  /\ HandleReply("disc") /\ For(f)
  /\ \/ /\ Linked(f)
        /\ fd' = [fd EXCEPT ![f].state = "DISCONNECTED", ![f].remote = 0,
                            ![f].id = 0, ![f].dn = "DISCONNECTED", ![f].comp = @ + 1]
        /\ Own(f)
     \/ ~Linked(f) /\ UNCHANGED <<fd, clean>>
  /\ TakeReply
  /\ UNCHANGED <<vds, conns>>

\* Mutation of Accepts: messages are taken before the answer to the request.
AcceptsEarly(f) == Linked(f)

Accepts(f) == fd[f].dn = "CONNECTED"

(* dn_handle_msg.  The message goes to the queue of the file if it accepts. *)
ChanMsg(f) ==
  /\ HandleReply("data") /\ For(f)
  /\ TakeReply
  /\ UNCHANGED ns

Ignored ==
  /\ vds = "online" /\ toNs # <<>> /\ Reply.type # "online" /\ Unclaimed
  /\ TakeReply
  /\ UNCHANGED ns

----------------------------------------------------------------------------
(* trusty_virtio_remove: no more callbacks, then off line, then reset.  The *)
(* loop of _go_offline comes to every channel again and again until its     *)
(* file is closed; only the first time changes anything but comp, and       *)
(* nothing but closing is left to do with a channel it has not come to yet. *)
Shut(c) == [Closed EXCEPT !.local = c.local, !.state = "STALE", !.dn = "STALE",
                          !.comp = 1, !.call = c.call]

Remove ==
  /\ vds = "online"
  /\ vds' = "removing"
  /\ fd' = [f \in Fds |-> IF IsOpen(f) THEN Shut(fd[f]) ELSE fd[f]]
  /\ UNCHANGED <<rings, conns, clean>>

OffLine ==
  /\ vds = "removing" /\ \A f \in Fds : fd[f].local = 0
  /\ vds' = "dead"
  /\ UNCHANGED <<fd, conns, clean>>

NsNext ==
  \/ \E f \in Fds : \/ Open(f) \/ Connect(f) \/ ConnectAgain(f) \/ WaitReply(f)
                    \/ Write(f) \/ Close(f)
                    \/ ConnRsp(f) \/ DiscReq(f) \/ ChanMsg(f)
  \/ GoOnline \/ Ignored \/ Remove
=============================================================================
