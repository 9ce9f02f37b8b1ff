---------------------------- MODULE AtomicStore ----------------------------
(* What the storage service promises its clients: a map from paths to       *)
(* contents that changes only by whole transactions.  Each session collects *)
(* changes of its own; committing applies all of them in one step.  Of two  *)
(* transactions that change the same existing file the first to commit      *)
(* wins: the other one is dropped.  A transaction that creates a file can   *)
(* commit only while no file of that name exists.  A failure, a crash or a  *)
(* restart drops transactions and leaves the map alone.                     *)
CONSTANTS Sessions, Paths,
          Values,      \* contents of a file
          Empty,       \* the content of a new file
          NoFile,      \* there is no file of this name
          Same         \* a transaction has not changed this file

VARIABLES store,       \* what is committed
          pend,        \* changes not committed yet, per session and path
          fresh        \* the paths a session creates

vars == <<store, pend, fresh>>

Unchanged == [p \in Paths |-> Same]

Init == /\ store \in [Paths -> Values \cup {NoFile}]
        /\ pend = [t \in Sessions |-> Unchanged]
        /\ fresh = [t \in Sessions |-> {}]

View(t, p) == IF pend[t][p] = Same THEN store[p] ELSE pend[t][p]

Create(t, p) ==
  /\ View(t, p) = NoFile
  /\ pend' = [pend EXCEPT ![t][p] = Empty]
  /\ fresh' = [fresh EXCEPT ![t] = IF pend[t][p] = Same THEN @ \cup {p} ELSE @]
  /\ UNCHANGED store

Write(t, p, v) ==
  /\ View(t, p) # NoFile
  /\ pend' = [pend EXCEPT ![t][p] = v]
  /\ UNCHANGED <<store, fresh>>

Remove(t, p) ==
  /\ View(t, p) # NoFile
  /\ pend' = [pend EXCEPT ![t][p] = IF p \in fresh[t] THEN Same ELSE NoFile]
  /\ fresh' = [fresh EXCEPT ![t] = @ \ {p}]
  /\ UNCHANGED store

(* The sessions D lose their changes, and others may.                       *)
Drop(D) ==
  \E E \in SUBSET Sessions :
    /\ D \subseteq E
    /\ pend' = [u \in Sessions |-> IF u \in E THEN Unchanged ELSE pend[u]]
    /\ fresh' = [u \in Sessions |-> IF u \in E THEN {} ELSE fresh[u]]

Abort == UNCHANGED store /\ Drop({})

Losers(t) ==
  {u \in Sessions \ {t} : \E p \in Paths \ fresh[u] :
                             pend[u][p] # Same /\ pend[t][p] # Same}

Commit(t) ==
  /\ \A p \in fresh[t] : store[p] = NoFile
  /\ store' = [p \in Paths |-> View(t, p)]
  /\ Drop(Losers(t) \cup {t})

Next == \/ Abort
        \/ \E t \in Sessions, p \in Paths :
             Create(t, p) \/ Remove(t, p) \/ \E v \in Values : Write(t, p, v)
        \/ \E t \in Sessions : Commit(t)

Spec == Init /\ [][Next]_vars
=============================================================================
