------------------------------- MODULE MsgFifo -------------------------------
(***************************************************************************)
(* What a connected pair of Trusty IPC channels promises its two users:    *)
(* each direction is a bounded first-in first-out queue.  A message that   *)
(* was taken from the queue keeps its content under the id it was given    *)
(* until it is put back, and occupies a buffer until then.  Closing either *)
(* end stops sending for good and loses nothing that was sent before.      *)
(***************************************************************************)
EXTENDS Integers, Sequences, FiniteSets

CONSTANTS
  Ends,      \* the two ends of the connection
  Ids,       \* message ids
  Msgs,      \* message contents
  NoMsg      \* not a message

VARIABLES
  queue,     \* queue[e]: messages sent to e and not yet taken
  held,      \* held[e][id]: the message that e took under id
  got,       \* got[e]: what e read last
  open       \* both ends are there

fifoVars == <<queue, held, got, open>>

HeldIds(e) == {i \in Ids : held[e][i] # NoMsg}

Init ==
  /\ queue = [e \in Ends |-> <<>>]
  /\ held = [e \in Ends |-> [i \in Ids |-> NoMsg]]
  /\ got = [e \in Ends |-> NoMsg]
  /\ open = TRUE

Send(e, m) ==
  /\ open
  /\ Len(queue[e]) + Cardinality(HeldIds(e)) < Cardinality(Ids)
  /\ queue' = [queue EXCEPT ![e] = Append(@, m)]
  /\ UNCHANGED <<held, got, open>>

Take(e) ==
  /\ queue[e] # <<>>
  /\ \E i \in Ids \ HeldIds(e) : held' = [held EXCEPT ![e][i] = Head(queue[e])]
  /\ queue' = [queue EXCEPT ![e] = Tail(@)]
  /\ UNCHANGED <<got, open>>

Read(e) ==
  /\ \E i \in HeldIds(e) : got' = [got EXCEPT ![e] = held[e][i]]
  /\ UNCHANGED <<queue, held, open>>

Put(e) ==
  /\ \E i \in HeldIds(e) : held' = [held EXCEPT ![e][i] = NoMsg]
  /\ UNCHANGED <<queue, got, open>>

Close ==
  /\ open' = FALSE
  /\ UNCHANGED <<queue, held, got>>

Next ==
  \/ \E e \in Ends : (\E m \in Msgs : Send(e, m)) \/ Take(e) \/ Read(e) \/ Put(e)
  \/ Close

Spec == Init /\ [][Next]_fifoVars
=============================================================================
