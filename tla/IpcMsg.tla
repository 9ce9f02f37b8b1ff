-------------------------------- MODULE IpcMsg --------------------------------
(***************************************************************************)
(* The message queues of a connected pair of channels, with flow control.  *)
(*                                                                         *)
(* Source: lk/trusty/lib/trusty/ipc_msg.c, and of ipc.c chan_poll,         *)
(* chan_finalize_event and chan_shutdown_locked.  Every system call takes  *)
(* ipc_lock once, so each is one step, except waiting: poll and            *)
(* finalize_event take the lock separately, and the end may be used by     *)
(* another thread in between (tipc_dev.c sends and receives on a channel   *)
(* from two threads).                                                      *)
(***************************************************************************)
EXTENDS Integers, Sequences, FiniteSets

CONSTANTS
  Ends,      \* the two channels
  Senders,   \* the ends whose user sends at all
  NumItems,  \* num_recv_bufs of the port
  Msgs,      \* message contents
  NoMsg      \* bytes that are no message: malloc'ed, or a copy that failed

ASSUME IpcMsgAssumption ==
  /\ \E a, b \in Ends : a # b /\ Ends = {a, b}
  /\ Senders \subseteq Ends
  /\ NumItems \in Nat \ {0}
  /\ NoMsg \notin Msgs

VARIABLES
  mq,         \* msg_queue of each end: what its peer sent to it
  state,      \* state of each end; CLOSED: its handle was closed
  blocked,    \* IPC_CHAN_AUX_STATE_SEND_BLOCKED
  unblocked,  \* IPC_CHAN_AUX_STATE_SEND_UNBLOCKED
  hand,       \* events that the waiting thread got from chan_poll
  got         \* what each end read last

vars == <<mq, state, blocked, unblocked, hand, got>>

Items == 0 .. (NumItems - 1)
ItemStates == {"FREE", "FILLED", "READ"}
Events == {"HUP", "MSG", "SEND_UNBLOCKED"}
Peer(e) == CHOOSE f \in Ends : f # e

Elems(s) == {s[i] : i \in 1..Len(s)}
IndexOf(s, x) == CHOOSE i \in 1..Len(s) : s[i] = x
Without(s, x) ==
  LET k == IndexOf(s, x)
  IN  [i \in 1..(Len(s) - 1) |-> IF i < k THEN s[i] ELSE s[i + 1]]

-----------------------------------------------------------------------------
(* ipc_msg_queue_t: three lists of items, the state of each item, and the  *)
(* buffer that belongs to its id.                                          *)

AllFree == [i \in 1..NumItems |-> i - 1]

ipc_msg_queue_create ==
  [free |-> AllFree, filled |-> <<>>, read |-> <<>>,
   item |-> [i \in Items |-> "FREE"], buf |-> [i \in Items |-> NoMsg]]

(* msg_write_locked once there is a free item: the copy fills its buffer,  *)
(* and only if all of it arrived does the item change lists.               *)
Scribble(q) == [q EXCEPT !.buf = [@ EXCEPT ![Head(q.free)] = NoMsg]]

(* Mutation: the message is put in front.                                  *)
FillFront(q, m) ==
  LET i == Head(q.free) IN
  [q EXCEPT !.free = Tail(@), !.filled = <<i>> \o @,
            !.item = [@ EXCEPT ![i] = "FILLED"],
            !.buf = [@ EXCEPT ![i] = m]]

Fill(q, m) ==
  LET i == Head(q.free) IN
  [q EXCEPT !.free = Tail(@), !.filled = Append(@, i),
            !.item = [@ EXCEPT ![i] = "FILLED"],
            !.buf = [@ EXCEPT ![i] = m]]

(* msg_peek_next_filled_locked, msg_get_filled_locked                      *)
TakeFilled(q) ==
  LET i == Head(q.filled) IN
  [q EXCEPT !.filled = Tail(@), !.read = Append(@, i),
            !.item = [@ EXCEPT ![i] = "READ"]]

(* Mutation: the item is not taken off the read list.                      *)
PutNoDelete(q, i) ==
  [q EXCEPT !.free = <<i>> \o @, !.item = [@ EXCEPT ![i] = "FREE"]]

(* msg_put_read_locked: back to the head of the free list.                 *)
PutRead(q, i) ==
  [q EXCEPT !.read = Without(@, i), !.free = <<i>> \o @,
            !.item = [@ EXCEPT ![i] = "FREE"]]

-----------------------------------------------------------------------------
Init ==
  /\ mq = [e \in Ends |-> ipc_msg_queue_create]
  /\ state = [e \in Ends |-> "CONNECTED"]
  /\ blocked = [e \in Ends |-> FALSE]
  /\ unblocked = [e \in Ends |-> FALSE]
  /\ hand = [e \in Ends |-> {}]
  /\ got = [e \in Ends |-> NoMsg]

(* sys_send_msg, ipc_send_msg: refused and remembered when the peer has no *)
(* free buffer; a bad user buffer fails the copy half way.                 *)
send_msg(e, m) ==
  LET f == Peer(e) IN
  /\ e \in Senders
  /\ state[e] = "CONNECTED"
  /\ \/ /\ mq[f].free = <<>>
        /\ blocked' = [blocked EXCEPT ![e] = TRUE]
        /\ UNCHANGED mq
     \/ /\ mq[f].free # <<>>
        /\ \/ mq' = [mq EXCEPT ![f] = Fill(@, m)]
           \/ mq' = [mq EXCEPT ![f] = Scribble(@)]
        /\ UNCHANGED blocked
  /\ UNCHANGED <<state, unblocked, hand, got>>

(* sys_get_msg, ipc_get_msg: also after the peer has gone.                 *)
get_msg(e) ==
  /\ state[e] # "CLOSED"
  /\ mq[e].filled # <<>>
  /\ mq' = [mq EXCEPT ![e] = TakeFilled(@)]
  /\ UNCHANGED <<state, blocked, unblocked, hand, got>>

(* sys_read_msg, ipc_read_msg                                              *)
read_msg(e, i) ==
  /\ state[e] # "CLOSED"
  /\ mq[e].item[i] = "READ"
  /\ got' = [got EXCEPT ![e] = mq[e].buf[i]]
  /\ UNCHANGED <<mq, state, blocked, unblocked, hand>>

(* Mutation: the sender is not told that it may send.                      *)
NoEvent(f) == unblocked' = unblocked

RaiseUnblocked(f) == unblocked' = [unblocked EXCEPT ![f] = @ \/ blocked[f]]

(* Mutation: the sender stays marked as blocked.                           *)
LeaveBlocked(f) == blocked' = blocked

ClearBlocked(f) == blocked' = [blocked EXCEPT ![f] = FALSE]

(* sys_put_msg, ipc_put_msg: retire the message; if the peer pointer is    *)
(* there and the peer was refused a buffer, it gets an event instead.      *)
put_msg(e, i) ==
  /\ state[e] # "CLOSED"
  /\ mq[e].item[i] = "READ"
  /\ mq' = [mq EXCEPT ![e] = PutRead(@, i)]
  /\ ClearBlocked(Peer(e))
  /\ RaiseUnblocked(Peer(e))
  /\ UNCHANGED <<state, hand, got>>

(* chan_poll                                                               *)
Poll(e) ==
  {ev \in Events :
     CASE ev = "HUP" -> state[e] = "DISCONNECTING"
       [] ev = "MSG" -> mq[e].filled # <<>>
       [] ev = "SEND_UNBLOCKED" -> unblocked[e]}

(* handle_wait / handle_list_wait on the channel: poll, and under the lock *)
(* taken again chan_finalize_event before the events are returned.         *)
WaitPoll(e) ==
  /\ state[e] # "CLOSED"
  /\ hand[e] = {}
  /\ Poll(e) # {}
  /\ hand' = [hand EXCEPT ![e] = Poll(e)]
  /\ UNCHANGED <<mq, state, blocked, unblocked, got>>

WaitFinish(e) ==
  /\ hand[e] # {}
  /\ unblocked' = [unblocked EXCEPT ![e] = @ /\ "SEND_UNBLOCKED" \notin hand[e]]
  /\ hand' = [hand EXCEPT ![e] = {}]
  /\ UNCHANGED <<mq, state, blocked, got>>

(* chan_shutdown_locked: the other end is told if it was connected.        *)
close(e) ==
  /\ state[e] # "CLOSED"
  /\ state' = [f \in Ends |->
       IF f = e THEN "CLOSED"
       ELSE IF state[f] = "CONNECTED" THEN "DISCONNECTING" ELSE state[f]]
  /\ UNCHANGED <<mq, blocked, unblocked, hand, got>>

Next ==
  \E e \in Ends :
    \/ \E m \in Msgs : send_msg(e, m)
    \/ get_msg(e)
    \/ \E i \in Items : read_msg(e, i)
    \/ \E i \in Items : put_msg(e, i)
    \/ WaitPoll(e)
    \/ WaitFinish(e)
    \/ close(e)

Spec == Init /\ [][Next]_vars

-----------------------------------------------------------------------------
QueueType ==
  [free : Seq(Items), filled : Seq(Items), read : Seq(Items),
   item : [Items -> ItemStates], buf : [Items -> Msgs \cup {NoMsg}]]

(* Every variable has the type of the C field it stands for; item ids are  *)
(* below num_items.                                                        *)
TypeOK ==
  /\ mq \in [Ends -> QueueType]
  /\ state \in [Ends -> {"CONNECTED", "DISCONNECTING", "CLOSED"}]
  /\ blocked \in [Ends -> BOOLEAN]
  /\ unblocked \in [Ends -> BOOLEAN]
  /\ hand \in [Ends -> SUBSET Events]
  /\ got \in [Ends -> Msgs \cup {NoMsg}]

NoDup(s) == \A i, j \in 1..Len(s) : s[i] = s[j] => i = j

(* The lists of a queue share out its items: every item is on exactly one  *)
(* list, once, and its state field names that list.  msg_read_locked and   *)
(* msg_put_read_locked trust the state, the others trust the lists.        *)
ItemsPartitioned ==
  /\ TypeOK
  /\ \A e \in Ends :
       LET q == mq[e] IN
       /\ NoDup(q.free) /\ NoDup(q.filled) /\ NoDup(q.read)
       /\ \A i \in Items :
            /\ q.item[i] = "FREE" <=> i \in Elems(q.free)
            /\ q.item[i] = "FILLED" <=> i \in Elems(q.filled)
            /\ q.item[i] = "READ" <=> i \in Elems(q.read)

(* A sender that was refused is marked as blocked only while its peer has  *)
(* no free buffer: no message it puts back goes unnoticed.                 *)
BlockedMeansFull ==
  \A e \in Ends : blocked[e] => mq[Peer(e)].free = <<>>

(* A queue as its users see it: the messages on the filled list, and those *)
(* under the ids that were handed out.                                     *)
QueueOf(q) == [i \in 1..Len(q.filled) |-> q.buf[q.filled[i]]]
HeldOf(q) == [i \in Items |-> IF q.item[i] = "READ" THEN q.buf[i] ELSE NoMsg]

fifoQueue == [e \in Ends |-> QueueOf(mq[e])]
fifoHeld == [e \in Ends |-> HeldOf(mq[e])]
fifoOpen == \A e \in Ends : state[e] = "CONNECTED"

(* The queues implement MsgFifo.                                           *)
Fifo == INSTANCE MsgFifo WITH
  Ids <- Items, queue <- fifoQueue, held <- fifoHeld, open <- fifoOpen

(* Messages are neither lost, duplicated, reordered nor changed, whatever  *)
(* order buffers are recycled in and whichever end goes away.              *)
ImplementsFifo == Fifo!Spec

(* Fairness: LK runs a thread that is ready; the peer's application takes  *)
(* and retires the messages it has.                                        *)
Fairness ==
  \A e \in Ends :
    /\ WF_vars(get_msg(e))
    /\ WF_vars(\E i \in Items : put_msg(e, i))
    /\ WF_vars(WaitPoll(e))
    /\ WF_vars(WaitFinish(e))

FairSpec == Spec /\ Fairness

(* A refused sender is told: SEND_UNBLOCKED reaches the thread that waits  *)
(* on the channel, or the connection ends.                                 *)
UnblockDelivered ==
  \A e \in Ends :
    blocked[e] ~> ("SEND_UNBLOCKED" \in hand[e] \/ state[e] # "CONNECTED")
=============================================================================
