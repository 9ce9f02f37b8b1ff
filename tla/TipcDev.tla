------------------------------ MODULE TipcDev ------------------------------
(* The secure IPC device, tipc_dev.c: it connects addresses of the Linux    *)
(* driver to channels of secure services.  One thread takes messages from   *)
(* the "rx" ring, the other one waits for events of the channels; both send *)
(* into the "tx" ring.  A section under ept_lock is one step.  Channels are *)
(* named by the request that opens them, so one is never used twice; what   *)
(* handle_list_wait and the channels do inside is in HandleWait and IpcConn.*)
EXTENDS TipcRings, FiniteSets

CONSTANTS MaxMsgs,    \* length of the message queue of a channel
          NumSlots,   \* TIPC_ADDR_MAX_NUM
          NoMsg

ASSUME TipcDevAssumption ==
  MaxMsgs \in Nat /\ NumSlots \in Nat \ {0}

Conns == 1..MaxConn
Slots == 1..NumSlots
Threads == {"rx", "tx"}

VARIABLES
  epts,         \* endpoint of each slot: remote address and channel, 0 if free
  chan,         \* the device's end of each channel and its handle
  thr,          \* where the two threads are
  haveHandles,  \* event have_handles
  stop,         \* rx_stop and tx_stop
  reset         \* tipc_dev_reset: "no", "rxjoin", "txjoin", "done", "panic"

dev == <<epts, chan, thr, haveHandles, stop, reset>>

NoEpt == [remote |-> 0, chan |-> 0]
NoChan == [st |-> "free", ready |-> FALSE, msgs |-> 0,
           cookie |-> 0, listed |-> FALSE, refs |-> 0]

Thread(pc) == [pc |-> pc, chan |-> 0, ev |-> "none", out |-> NoMsg]

DevInit ==
  /\ epts = [s \in Slots |-> NoEpt]
  /\ chan = [c \in Conns |-> NoChan]
  /\ thr = [t \in Threads |-> Thread(IF t = "rx" THEN "wait" ELSE "idle")]
  /\ haveHandles = FALSE
  /\ stop = [t \in Threads |-> FALSE]
  /\ reset = "no"

At(t, pc) == thr[t].pc = pc
Goto(t, pc) == thr' = [thr EXCEPT ![t].pc = pc]

----------------------------------------------------------------------------
(* Endpoints and handles.                                                   *)

FreeSlots == {s \in Slots : epts[s] = NoEpt}

Decref(c, k) ==
  IF c[k].refs = 1 THEN [c EXCEPT ![k] = NoChan]
  ELSE [c EXCEPT ![k].refs = @ - 1]

(* handle_close: shutdown, which the other end sees too, and decref.        *)
CloseHandle(c, k) == Decref([c EXCEPT ![k].st = "closed"], k)

(* handle_list_del, handle_set_cookie(NULL), handle_close.                  *)
Detached(c, k) ==
  CloseHandle([Decref([c EXCEPT ![k].listed = FALSE], k)
                 EXCEPT ![k].cookie = 0], k)

(* The endpoint a disconnect request is for: the slot it names if that      *)
(* belongs to the sender, else the first one that does.                     *)
EptOf(m) ==
  LET mine == {s \in Slots : epts[s] # NoEpt /\ epts[s].remote = m.addr}
  IN IF m.slot \in mine THEN m.slot ELSE IF mine = {} THEN 0 ELSE Least(mine)

----------------------------------------------------------------------------
(* tipc_send_data, called by either thread with thr[t].out.                 *)

(* What the thread does when the message is sent, or cannot be.  The rx     *)
(* thread goes on to event_wait.                                            *)
AfterMsg == IF stop["rx"] THEN "exited" ELSE IF event'["rx"] THEN "get" ELSE "wait"
RxNext == thr' = [thr EXCEPT !["rx"] = Thread(AfterMsg)]
TxDone == thr' = [thr EXCEPT !["tx"] = Thread("list")]

AfterSend(t) ==
  \/ t = "rx" /\ RxNext /\ UNCHANGED chan
  \/ t = "tx" /\ thr[t].ev = "msg" /\ Goto(t, "msgs") /\ UNCHANGED chan
  \/ t = "tx" /\ thr[t].ev # "msg" /\ TxDone /\ chan' = Decref(chan, thr[t].chan)

Sends(t, m) == thr' = [thr EXCEPT ![t].pc = "send", ![t].out = m]

SendFilled(t) ==
  /\ At(t, "send")
  /\ FillBuffer(thr[t].out)
  /\ AfterSend(t)
  /\ UNCHANGED <<epts, haveHandles, stop, reset>>

SendNone(t) ==
  /\ At(t, "send")
  /\ GetNone("tx")
  /\ Goto(t, "swait")
  /\ UNCHANGED <<epts, chan, haveHandles, stop, reset>>

SendWoken(t) ==
  /\ At(t, "swoken")
  /\ UNCHANGED rings
  /\ \/ ~stop["tx"] /\ Goto(t, "send") /\ UNCHANGED chan
     \/ stop["tx"] /\ AfterSend(t)
  /\ UNCHANGED <<epts, haveHandles, stop, reset>>

(* event_signal: every waiter goes on.                                      *)
Woken(q) == [t \in Threads |->
  [thr[t] EXCEPT !.pc = CASE q = "rx" /\ @ = "wait" -> "get"
                          [] q = "tx" /\ @ = "swait" -> "swoken"
                          [] OTHER -> @]]

SignalAvail(q) == event' = Signalled(q) /\ thr' = Woken(q)

(* tipc_vdev_kick_vq.  Standard calls come one at a time, so there is no    *)
(* kick during a reset.  (One for a buffer that is gone wakes a thread that *)
(* finds nothing and waits again.)                                          *)
Kick(q) ==
  /\ reset = "no" /\ ~event[q] /\ Avail(q)
  /\ SignalAvail(q)
  /\ UNCHANGED <<toSec, room, toNs, epts, chan, haveHandles, stop, reset>>

----------------------------------------------------------------------------
(* tipc_rx_thread_func.                                                     *)

RxNone ==
  /\ At("rx", "get")
  /\ GetNone("rx")
  /\ RxNext
  /\ UNCHANGED <<epts, chan, haveHandles, stop, reset>>

(* A message is taken and handled; nothing the others do in between can     *)
(* tell.                                                                    *)
RxMsg(type) ==
  /\ At("rx", "get")
  /\ TakeMessage
  /\ Head(toSec).type = type
  /\ UNCHANGED <<haveHandles, stop, reset>>

\* Mutation of Refused: no answer if there is no address left.
RefusedSilently(m) == IF FreeSlots = {} THEN RxNext
                      ELSE Sends("rx", Msg("refuse", m.addr, 0, m.id))

Refused(m) == Sends("rx", Msg("refuse", m.addr, 0, m.id))

(* handle_conn_req.  The service may not be there; if no address is left    *)
(* the new channel is closed again.                                         *)
RxConnReq ==
  LET m == Head(toSec)
      s == Least(FreeSlots)
  IN /\ RxMsg("conn")
     /\ \/ /\ FreeSlots # {}
           /\ epts' = [epts EXCEPT ![s] = [remote |-> m.addr, chan |-> m.id]]
           /\ chan' = [chan EXCEPT ![m.id].st = "connecting", ![m.id].refs = 1]
           /\ thr' = [thr EXCEPT !["rx"].pc = "list", !["rx"].chan = s]
        \/ Refused(m) /\ UNCHANGED <<epts, chan>>

\* Mutation of NewHandle: the cookie is set after the handle is listed.
NoCookieYet(s) == [chan[epts[s].chan] EXCEPT !.listed = TRUE, !.refs = @ + 1]

NewHandle(s) == [chan[epts[s].chan] EXCEPT
                   !.cookie = s, !.listed = TRUE, !.refs = @ + 1]

RxList ==
  LET s == thr["rx"].chan
  IN /\ At("rx", "list")
     /\ chan' = [chan EXCEPT ![epts[s].chan] = NewHandle(s)]
     /\ Goto("rx", "signal")
     /\ UNCHANGED <<rings, epts, haveHandles, stop, reset>>

\* Mutation of HaveHandles: the tx thread is not told.
NotTold == haveHandles

HaveHandles == TRUE

RxSignal ==
  /\ At("rx", "signal")
  /\ UNCHANGED <<rings, epts, chan, stop, reset>>
  /\ haveHandles' = HaveHandles
  /\ RxNext

(* handle_disc_req.                                                         *)
RxDiscReq ==
  LET s == EptOf(Head(toSec))
  IN /\ RxMsg("disc")
     /\ \/ s = 0 /\ UNCHANGED <<epts, chan>>
        \/ /\ s # 0
           /\ chan' = Detached(chan, epts[s].chan)
           /\ epts' = [epts EXCEPT ![s] = NoEpt]
     /\ RxNext

(* handle_chan_msg.  The message goes to the queue of the service's end, or *)
(* is dropped: a channel that is not connected, or whose queue is full,     *)
(* takes none, and nobody is told.                                          *)
Takes(s, m) == epts[s] # NoEpt /\ s = m.slot /\ epts[s].remote = m.addr

RxChanMsg ==
  /\ RxMsg("data")
  /\ RxNext
  /\ UNCHANGED <<epts, chan>>

----------------------------------------------------------------------------
(* tipc_tx_thread_func and handle_tx.                                       *)

TxIdle ==
  /\ At("tx", "idle")
  /\ haveHandles /\ haveHandles' = FALSE       \* it unsignals itself
  /\ Goto("tx", "list")
  /\ UNCHANGED <<rings, epts, chan, stop, reset>>

TxNoHandles ==
  /\ At("tx", "list") /\ \A c \in Conns : ~chan[c].listed
  /\ Goto("tx", IF stop["tx"] THEN "exited" ELSE "idle")
  /\ UNCHANGED <<rings, epts, chan, haveHandles, stop, reset>>

(* The event of a channel that handle_tx acts on, in its order.             *)
EventOf(c) == IF c.ready THEN "ready" ELSE IF c.msgs > 0 THEN "msg"
              ELSE IF c.st = "closed" THEN "hup" ELSE "none"

TxWait(c) ==
  LET ev == EventOf(chan[c])
  IN /\ At("tx", "list") /\ chan[c].listed /\ ev # "none"
     /\ thr' = [thr EXCEPT !["tx"] = [@ EXCEPT !.pc = "event", !.chan = c, !.ev = ev]]
     /\ chan' = [chan EXCEPT ![c].refs = @ + 1,
                             ![c].ready = IF ev = "ready" THEN FALSE ELSE @]
     /\ UNCHANGED <<rings, epts, haveHandles, stop, reset>>

TxEvent(ev) == At("tx", "event") /\ thr["tx"].ev = ev

(* The endpoint was detached in the meantime: nothing to do.                *)
TxGone ==
  LET c == thr["tx"].chan
  IN /\ At("tx", "event") /\ chan[c].cookie = 0
     /\ TxDone /\ chan' = Decref(chan, c)
     /\ UNCHANGED <<rings, epts, haveHandles, stop, reset>>

Cookie == chan[thr["tx"].chan].cookie
Remote == epts[Cookie].remote

TxReady ==                                          \* handle_ready
  /\ TxEvent("ready") /\ Cookie # 0
  /\ Sends("tx", Msg("accept", Remote, Cookie, thr["tx"].chan))
  /\ UNCHANGED <<rings, epts, chan, haveHandles, stop, reset>>

TxMsg ==                                            \* handle_tx_msg
  /\ TxEvent("msg") /\ Cookie # 0
  /\ thr' = [thr EXCEPT !["tx"].pc = "msgs",
                        !["tx"].out = Msg("data", Remote, 0, thr["tx"].chan)]
  /\ UNCHANGED <<rings, epts, chan, haveHandles, stop, reset>>

TxGetMsg ==
  LET c == thr["tx"].chan
  IN /\ At("tx", "msgs")
     /\ \/ chan[c].msgs > 0 /\ Goto("tx", "send")
           /\ chan' = [chan EXCEPT ![c].msgs = @ - 1]
        \/ chan[c].msgs = 0 /\ TxDone /\ chan' = Decref(chan, c)
     /\ UNCHANGED <<rings, epts, haveHandles, stop, reset>>

TxHup ==                                            \* handle_hup
  LET c == thr["tx"].chan
  IN /\ TxEvent("hup") /\ Cookie # 0
     /\ Sends("tx", Msg("disc", Remote, Cookie, c))
     /\ chan' = Detached(chan, c)
     /\ epts' = [epts EXCEPT ![Cookie] = NoEpt]
     /\ UNCHANGED <<rings, haveHandles, stop, reset>>

----------------------------------------------------------------------------
(* tipc_dev_reset, in the one thread that serves standard calls: kicks wait *)
(* until it is done.                                                        *)

\* Mutation of StopSignal: the flag is set and nobody is woken.
StopSilently(q) == UNCHANGED <<event, thr>>

StopSignal(q) == SignalAvail(q)

ResetBegin ==
  /\ reset = "no"
  /\ reset' = "rxjoin"
  /\ stop' = [stop EXCEPT !["rx"] = TRUE]
  /\ StopSignal("rx")
  /\ UNCHANGED <<toSec, room, toNs, epts, chan, haveHandles>>

ResetChannels ==
  LET open == {c \in Conns : \E s \in Slots : epts[s].chan = c}
  IN /\ reset = "rxjoin" /\ At("rx", "exited")
     /\ reset' = "txjoin"
     /\ stop' = [stop EXCEPT !["rx"] = FALSE, !["tx"] = TRUE]
     /\ epts' = [s \in Slots |-> NoEpt]
     /\ chan' = [c \in Conns |-> IF c \in open THEN Detached(chan, c)[c] ELSE chan[c]]
     /\ haveHandles' = TRUE
     /\ StopSignal("tx")
     /\ UNCHANGED <<toSec, room, toNs>>

ResetDone ==
  /\ reset = "txjoin" /\ At("tx", "exited")
  /\ reset' = "done"
  /\ stop' = [stop EXCEPT !["tx"] = FALSE]
  /\ UNCHANGED <<rings, epts, chan, thr, haveHandles>>

(* The thread that reset waits for sleeps; only kicks and reset itself      *)
(* could wake it.                                                           *)
Asleep(t) == At(t, "wait") \/ At(t, "swait") \/ (At(t, "idle") /\ ~haveHandles)

Joining == CASE reset = "rxjoin" -> {"rx"} [] reset = "txjoin" -> {"tx"}
             [] OTHER -> {}

JoinTimeout ==
  /\ \E t \in Joining : Asleep(t)
  /\ reset' = "panic"
  /\ UNCHANGED <<rings, epts, chan, thr, haveHandles, stop>>

----------------------------------------------------------------------------
(* Services (outside): accept, send, close.                                 *)

SrvAccept(c) ==
  /\ chan[c].st = "connecting"
  /\ chan' = [chan EXCEPT ![c].st = "connected", ![c].ready = TRUE]
  /\ UNCHANGED <<rings, epts, thr, haveHandles, stop, reset>>

SrvSend(c) ==
  /\ chan[c].st = "connected" /\ chan[c].msgs < MaxMsgs
  /\ chan' = [chan EXCEPT ![c].msgs = @ + 1]
  /\ UNCHANGED <<rings, epts, thr, haveHandles, stop, reset>>

SrvClose(c) ==
  /\ chan[c].st \in {"connecting", "connected"}
  /\ chan' = [chan EXCEPT ![c].st = "closed"]
  /\ UNCHANGED <<rings, epts, thr, haveHandles, stop, reset>>

DevNext ==
  \/ \E t \in Threads : SendFilled(t) \/ SendNone(t) \/ SendWoken(t)
  \/ RxNone \/ RxConnReq \/ RxList \/ RxSignal
  \/ RxDiscReq \/ RxChanMsg
  \/ TxIdle \/ TxNoHandles \/ TxGone \/ TxReady \/ TxMsg \/ TxGetMsg \/ TxHup
  \/ \E c \in Conns : TxWait(c) \/ SrvAccept(c) \/ SrvSend(c) \/ SrvClose(c)
  \/ \E q \in Queues : Kick(q)
  \/ ResetChannels \/ ResetDone \/ JoinTimeout
=============================================================================
