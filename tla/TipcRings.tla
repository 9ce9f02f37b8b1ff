------------------------------ MODULE TipcRings ------------------------------
(* The two rings between the secure IPC device and the Linux driver, as the *)
(* two use them: a call on a ring is one step, and a kick may come at any   *)
(* time.  What happens inside a call, and that the kick comes when it is    *)
(* needed, is in Vqueue.                                                    *)
EXTENDS Naturals, Sequences

CONSTANTS RxSize, TxSize,  \* vring.num of the two rings
          MaxConn          \* requests to connect in one behaviour (a bound)

ASSUME RingsAssumption ==
  RxSize \in Nat \ {0} /\ TxSize \in Nat \ {0} /\ MaxConn \in Nat

VARIABLES
  toSec,   \* messages in the available ring of "rx"
  room,    \* empty buffers in the available ring of "tx"
  toNs,    \* messages in the used ring of "tx"
  event    \* avail_event of each ring

rings == <<toSec, room, toNs, event>>

Queues == {"rx", "tx"}

(* Messages of both directions; addr is an address of the driver, slot one  *)
(* of the device; id, which the code does not have, is the request to       *)
(* connect that it belongs to.                                              *)
Msg(type, addr, slot, id) ==
  [type |-> type, addr |-> addr, slot |-> slot, id |-> id]

Least(S) == CHOOSE s \in S : \A u \in S : s <= u

(* The rings after tipc_dev_probe, whose last act is to go on line.         *)
RingsInit ==
  /\ toSec = <<>> /\ room = TxSize - 1
  /\ toNs = <<Msg("online", 0, 0, 0)>>
  /\ event = [q \in Queues |-> FALSE]

Avail(q) == IF q = "rx" THEN toSec # <<>> ELSE room > 0

(* vqueue_get_avail_buf by the device: nothing there, a message, or a       *)
(* buffer that is filled and returned.                                      *)
GetNone(q) ==
  /\ ~Avail(q)
  /\ event' = [event EXCEPT ![q] = FALSE]
  /\ UNCHANGED <<toSec, room, toNs>>

TakeMessage ==
  /\ Avail("rx")
  /\ toSec' = Tail(toSec)
  /\ UNCHANGED <<room, toNs, event>>

FillBuffer(m) ==
  /\ Avail("tx")
  /\ room' = room - 1
  /\ toNs' = Append(toNs, m)
  /\ UNCHANGED <<toSec, event>>

(* vqueue_signal_avail.                                                     *)
Signalled(q) == [event EXCEPT ![q] = TRUE]

(* The driver sends a message, or takes one and gives its buffer back.      *)
QueueMessage(m) ==
  /\ Len(toSec) < RxSize
  /\ toSec' = Append(toSec, m)
  /\ UNCHANGED <<room, toNs, event>>

TakeReply ==
  /\ toNs # <<>>
  /\ toNs' = Tail(toNs)
  /\ room' = room + 1
  /\ UNCHANGED <<toSec, event>>
=============================================================================
