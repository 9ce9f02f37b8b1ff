------------------------------ MODULE RemoteCall ------------------------------
(* What trusty_std_call32 promises its callers: one call at a time, each    *)
(* executed once by the secure side, and each caller gets the answer to its *)
(* own call.                                                                *)
EXTENDS Naturals

CONSTANT Callers

VARIABLES
  phase,   \* where the call of each caller is
  seq,     \* the parity of its calls, to tell a call from the one before it
  answer   \* the answer it got last

rcvars == <<phase, seq, answer>>

CallInit ==
  /\ phase = [t \in Callers |-> "idle"]
  /\ seq = [t \in Callers |-> 0]
  /\ answer = [t \in Callers |-> <<t, 0>>]

Request(t) ==
  /\ \A u \in Callers : phase[u] = "idle"
  /\ phase' = [phase EXCEPT ![t] = "called"]
  /\ seq' = [seq EXCEPT ![t] = 1 - @]
  /\ UNCHANGED answer

Execute(t) ==
  /\ phase[t] = "called"
  /\ phase' = [phase EXCEPT ![t] = "executed"]
  /\ UNCHANGED <<seq, answer>>

Reply(t) ==
  /\ phase[t] = "executed"
  /\ phase' = [phase EXCEPT ![t] = "idle"]
  /\ answer' = [answer EXCEPT ![t] = <<t, seq[t]>>]
  /\ UNCHANGED seq

CallNext == \E t \in Callers : Request(t) \/ Execute(t) \/ Reply(t)

CallSpec == CallInit /\ [][CallNext]_rcvars
=============================================================================
