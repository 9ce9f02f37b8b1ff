------------------------------- MODULE Vqueue -------------------------------
(* One ring between the secure IPC device and the Linux driver: vqueue.c,   *)
(* with the virtio ring and the kicks of trusty-virtio.c on the other side. *)
(* Either it carries messages to the device, whose rx thread waits for      *)
(* them, or empty buffers, which both threads of the device ask for when    *)
(* they have something to send.                                             *)
(*                                                                          *)
(* The two sides share memory and no lock, so each access that the other    *)
(* one can see is a step: comparing the indices, clearing NO_NOTIFY,        *)
(* comparing again; adding a buffer, reading NO_NOTIFY, kicking.            *)
EXTENDS Naturals, FiniteSets

CONSTANTS Num,       \* vring.num
          IdxRange,  \* the indices are counted modulo this (2^16)
          NoBuf,     \* no buffer
          Nobody     \* slock is not held

ASSUME VqueueAssumption ==
  /\ Num \in Nat \ {0} /\ IdxRange \in Nat
  /\ Num < IdxRange /\ IdxRange % Num = 0
  /\ NoBuf \notin Nat /\ Nobody \notin {"rx", "tx"}

Threads == {"rx", "tx"}
Buffers == 0..Num - 1          \* heads of descriptor chains
Indices == 0..IdxRange - 1

VARIABLES
  kind,       \* "rx": the ring of messages, "tx": the ring of empty buffers
  free,       \* buffers the driver has
  avail,      \* available ring: its slots and the index after the last one
  lastAvail,  \* vq->last_avail_idx
  used,       \* used ring
  lastUsed,   \* where the driver reads it
  held,       \* the buffer each thread of the device works on
  slock,      \* the thread inside _vqueue_get_avail_buf_locked
  noNotify,   \* VRING_USED_F_NO_NOTIFY
  event,      \* vq->avail_event
  pc,         \* the threads of the device
  check,      \* the driver has added buffers and not read the flag yet
  kick,       \* needs_kick
  kpc         \* the kick being served: "idle", "flag" or "event" comes next

vars == <<kind, free, avail, lastAvail, used, lastUsed, held, slock, noNotify,
          event, pc, check, kick, kpc>>
rings == <<free, avail, lastAvail, used, lastUsed, held>>
driver == <<check, kick, kpc>>

Init ==
  /\ kind \in {"rx", "tx"}
  /\ free = Buffers
  /\ avail = [ring |-> [i \in Buffers |-> NoBuf], idx |-> 0] /\ lastAvail = 0
  /\ used = [ring |-> [i \in Buffers |-> NoBuf], idx |-> 0] /\ lastUsed = 0
  /\ held = [t \in Threads |-> NoBuf]
  /\ slock = Nobody
  /\ noNotify = FALSE /\ event = FALSE
  /\ pc = [t \in Threads |-> IF kind = "rx" /\ t = "rx" THEN "wait" ELSE "idle"]
  /\ check = FALSE /\ kick = FALSE /\ kpc = "idle"

Succ(i) == (i + 1) % IdxRange

(* Entries between two free running indices.                                *)
Between(from, to) == (to + IdxRange - from) % IdxRange

(* A ring without what was at an index and has been read: its slot keeps    *)
(* the old value, which is never read again and is left out.                *)
Drop(r, i) == [r EXCEPT !.ring[i % Num] = NoBuf]

Put(r, b) == [ring |-> [r.ring EXCEPT ![r.idx % Num] = b], idx |-> Succ(r.idx)]

AvailCnt == Between(lastAvail, avail.idx)
Available == lastAvail # avail.idx

Goto(t, l) == pc' = [pc EXCEPT ![t] = l]

----------------------------------------------------------------------------
(* The device.                                                              *)

(* event_signal releases every waiter and stays signalled.                  *)
\* Mutation of Woken: one waiter is released.
WokenOne == [t \in Threads |->
  IF pc[t] = "asleep" /\ (t = "rx" \/ pc["rx"] # "asleep") THEN "get" ELSE pc[t]]

Woken == [t \in Threads |-> IF pc[t] = "asleep" THEN "get" ELSE pc[t]]

(* tipc_send_data: something to send.                                       *)
Want(t) ==
  /\ kind = "tx" /\ pc[t] = "idle"
  /\ Goto(t, "get")
  /\ UNCHANGED <<kind, rings, slock, noNotify, event, driver>>

Wait(t) ==                                          \* event_wait
  /\ pc[t] = "wait"
  /\ Goto(t, IF event THEN "get" ELSE "asleep")
  /\ UNCHANGED <<kind, rings, slock, noNotify, event, driver>>

(* The buffer at last_avail_idx is the thread's.                            *)
Take(t) ==
  /\ held' = [held EXCEPT ![t] = avail.ring[lastAvail % Num]]
  /\ avail' = Drop(avail, lastAvail)
  /\ lastAvail' = Succ(lastAvail)
  /\ UNCHANGED <<free, used, lastUsed>>

(* _vqueue_get_avail_buf_locked.                                            *)
GetFirst(t) ==
  /\ pc[t] = "get" /\ slock = Nobody /\ Available
  /\ Take(t)
  /\ Goto(t, "have")
  /\ UNCHANGED <<kind, slock, noNotify, event, driver>>

GetEmpty(t) ==
  /\ pc[t] = "get" /\ slock = Nobody /\ ~Available
  /\ slock' = t
  /\ Goto(t, "clear")
  /\ UNCHANGED <<kind, rings, noNotify, event, driver>>

ClearNoNotify(t) ==
  /\ pc[t] = "clear"
  /\ event' = FALSE /\ noNotify' = FALSE
  /\ Goto(t, "again")
  /\ UNCHANGED <<kind, rings, slock, driver>>

\* Mutation of SecondLook: the ring is not looked at again.
NoSecondLook == FALSE

SecondLook == Available

GetAgain(t) ==
  /\ pc[t] = "again" /\ SecondLook
  /\ Take(t)
  /\ slock' = Nobody
  /\ noNotify' = TRUE /\ event' = TRUE
  /\ pc' = [Woken EXCEPT ![t] = "have"]
  /\ UNCHANGED <<kind, driver>>

GetNone(t) ==
  /\ pc[t] = "again" /\ ~SecondLook
  /\ slock' = Nobody
  /\ Goto(t, "wait")
  /\ UNCHANGED <<kind, rings, noNotify, event, driver>>

\* Mutation of Added: the used ring is written one slot ahead.
AddedAhead(r, b) == [ring |-> [r.ring EXCEPT ![(r.idx + 1) % Num] = b],
                     idx |-> Succ(r.idx)]

Added(r, b) == Put(r, b)

(* vqueue_add_buf.                                                          *)
AddBuf(t) ==
  /\ pc[t] = "have" /\ slock = Nobody
  /\ used' = Added(used, held[t])
  /\ held' = [held EXCEPT ![t] = NoBuf]
  /\ Goto(t, IF kind = "rx" THEN "wait" ELSE "idle")
  /\ UNCHANGED <<kind, free, avail, lastAvail, lastUsed, slock, noNotify, event,
                 driver>>

----------------------------------------------------------------------------
(* The driver.  On the ring of messages the lock is kept until the flag has *)
(* been read; buffers are added back in a row and then the flag is read.    *)

Supply(b) ==
  /\ b \in free /\ (kind = "rx" => ~check)
  /\ free' = free \ {b}
  /\ avail' = Put(avail, b)
  /\ check' = TRUE
  /\ UNCHANGED <<kind, lastAvail, used, lastUsed, held, slock, noNotify, event,
                 pc, kick, kpc>>

Reclaim ==
  /\ lastUsed # used.idx
  /\ free' = free \cup {used.ring[lastUsed % Num]}
  /\ used' = Drop(used, lastUsed)
  /\ lastUsed' = Succ(lastUsed)
  /\ UNCHANGED <<kind, avail, lastAvail, held, slock, noNotify, event, pc,
                 driver>>

(* virtqueue_kick_prepare and trusty_virtio_notify.                         *)
KickPrepare ==
  /\ check
  /\ check' = FALSE
  /\ kick' = (kick \/ ~noNotify)
  /\ UNCHANGED <<kind, rings, slock, noNotify, event, pc, kpc>>

(* kick_vqs and, in the secure world, vqueue_signal_avail.                  *)
KickVq ==
  /\ kick /\ kpc = "idle"
  /\ kick' = FALSE /\ kpc' = "flag"
  /\ UNCHANGED <<kind, rings, slock, noNotify, event, pc, check>>

SignalFlag ==
  /\ kpc = "flag" /\ slock = Nobody
  /\ noNotify' = TRUE
  /\ kpc' = "event"
  /\ UNCHANGED <<kind, rings, slock, event, pc, check, kick>>

SignalEvent ==
  /\ kpc = "event"
  /\ event' = TRUE
  /\ pc' = Woken
  /\ kpc' = "idle"
  /\ UNCHANGED <<kind, rings, slock, noNotify, check, kick>>

Get(t) == GetFirst(t) \/ GetEmpty(t)
Inside(t) == ClearNoNotify(t) \/ GetAgain(t) \/ GetNone(t)
Serve == KickVq \/ SignalFlag \/ SignalEvent

Next ==
  \/ \E t \in Threads : Want(t) \/ Wait(t) \/ Get(t) \/ Inside(t) \/ AddBuf(t)
  \/ \E b \in Buffers : Supply(b)
  \/ Reclaim \/ KickPrepare \/ Serve

Spec == Init /\ [][Next]_vars

(* Threads that are in a call get on, also past a spin lock that others     *)
(* take again and again; Linux reads the flag and serves its kicks.  Nobody *)
(* has to want or to supply buffers.                                        *)
FairSpec ==
  /\ Spec
  /\ \A t \in Threads : /\ WF_vars(Wait(t) \/ Inside(t))
                        /\ SF_vars(Get(t)) /\ SF_vars(AddBuf(t))
  /\ WF_vars(KickPrepare) /\ WF_vars(KickVq) /\ SF_vars(SignalFlag)
  /\ WF_vars(SignalEvent)

----------------------------------------------------------------------------
(* Properties.                                                              *)

TypeOK ==
  /\ kind \in {"rx", "tx"}
  /\ lastAvail \in Indices /\ avail.idx \in Indices
  /\ lastUsed \in Indices /\ used.idx \in Indices
  /\ noNotify \in BOOLEAN /\ event \in BOOLEAN
  /\ pc \in [Threads -> {"idle", "wait", "asleep", "get", "clear", "again", "have"}]
  /\ check \in BOOLEAN /\ kick \in BOOLEAN /\ kpc \in {"idle", "flag", "event"}
  /\ slock \in Threads \cup {Nobody}
  /\ \A t \in Threads : slock = t <=> pc[t] \in {"clear", "again"}

Entries(r, from) == {i \in Indices : Between(from, i) < Between(from, r.idx)}
Holds(r, from, b) == {i \in Entries(r, from) : r.ring[i % Num] = b}

(* Every buffer is at exactly one place, the driver, the available ring, a  *)
(* thread of the device or the used ring, also when the indices wrap round. *)
(* In particular the panic on an index out of range is never reached.       *)
BuffersOnce ==
  /\ AvailCnt <= Num
  /\ \A b \in Buffers :
       Cardinality({x \in {"free"} : b \in free})
       + Cardinality(Holds(avail, lastAvail, b))
       + Cardinality({t \in Threads : held[t] = b})
       + Cardinality(Holds(used, lastUsed, b)) = 1

(* Somebody is about to look at the ring or to signal its event.            *)
WakeupDue == check \/ kick \/ kpc # "idle" \/ \E t \in Threads : pc[t] = "again"

(* A thread sleeps while there is a buffer only if somebody is going to     *)
(* wake it: the flag that spares the kick is never set when it is needed.   *)
SleepJustified ==
  \A t \in Threads : pc[t] = "asleep" /\ Available => WakeupDue

(* A thread does not sleep for ever while there are buffers.                *)
NotForgotten ==
  \A t \in Threads : [](pc[t] = "asleep" /\ Available
                        => <>(pc[t] # "asleep" \/ ~Available))

(* Strengthening of SleepJustified that every step preserves.               *)
SleepInv ==
  /\ TypeOK
  /\ (\E t \in Threads : pc[t] = "asleep") => ~event
  /\ noNotify /\ ~event => kpc = "event"
  /\ ~event /\ Available => WakeupDue

RingType == [ring : [Buffers -> Buffers \cup {NoBuf}], idx : Indices]

Contents(r) == {r.ring[s] : s \in Buffers} \ {NoBuf}

(* Exactly the slots of the entries hold buffers, and different ones.       *)
RingOK(r, from) ==
  /\ r \in RingType /\ from \in Indices
  /\ Between(from, r.idx) <= Num
  /\ \A i \in Entries(r, from) : r.ring[i % Num] # NoBuf
  /\ \A s \in Buffers : r.ring[s] # NoBuf =>
       \E i \in Entries(r, from) : s = i % Num
  /\ \A s, u \in Buffers : r.ring[s] = r.ring[u] /\ r.ring[s] # NoBuf => s = u

InHand == {held[t] : t \in Threads} \ {NoBuf}

(* Strengthening of BuffersOnce that every step preserves.                  *)
PlacesInv ==
  /\ RingOK(avail, lastAvail) /\ RingOK(used, lastUsed)
  /\ held \in [Threads -> Buffers \cup {NoBuf}]
  /\ \A t \in Threads : pc[t] = "have" <=> held[t] # NoBuf
  /\ held["rx"] = held["tx"] => held["rx"] = NoBuf
  /\ free \cup Contents(avail) \cup InHand \cup Contents(used) = Buffers
  /\ free \cap (Contents(avail) \cup InHand \cup Contents(used)) = {}
  /\ Contents(avail) \cap (InHand \cup Contents(used)) = {}
  /\ InHand \cap Contents(used) = {}
=============================================================================
