------------------------------ MODULE HandleWait ------------------------------
(***************************************************************************)
(* Waiting for events on handles and on lists of handles.                  *)
(*                                                                         *)
(* Source: lk/trusty/lib/trusty/handle.c.  One thread (the waiter) calls   *)
(* handle_list_wait in a loop, as tipc_tx_task_proc in tipc_dev.c and      *)
(* sys_wait_any in uctx.c do.  Another thread creates handles, waits for   *)
(* one that is on no list (handle_wait, in sys_connect), adds handles to   *)
(* the list, deletes and closes them.  The objects behind the handles      *)
(* change state and call handle_notify; ops->poll reads that state.        *)
(*                                                                         *)
(* Locks: hlist->lock is hlock.  ipc_lock, which is held while an object   *)
(* changes state and notifies, and inside ops->poll and finalize_event, is *)
(* ipc.  A section under wait_event_lock is one step.                      *)
(***************************************************************************)
EXTENDS Integers, Sequences, FiniteSets

CONSTANTS
  Handles,
  Edge,      \* handles whose event is cleared by finalize_event
  NULL

ASSUME HandleWaitAssumption ==
  /\ Edge \subseteq Handles /\ IsFiniteSet(Handles)
  /\ NULL \notin Handles \cup {"list", "one", "waiter", "other"}

VARIABLES
  refs,    \* reference count of each handle; 0: freed
  owned,   \* handles that were created and not closed
  ready,   \* ops->poll would report an event
  ipc,     \* the object that holds ipc_lock between its change and its notify
  hl,      \* hlist->handles, from the list head
  hwe,     \* hlist->wait_event is set
  we,      \* handle->wait_event: NULL, the event of the list, or a private one
  sig,     \* signalled state of the two event_t
  hlock,   \* holder of hlist->lock
  w,       \* the thread in handle_list_wait
  m,       \* the other thread
  fault    \* a NULL handle was used

vars == <<refs, owned, ready, ipc, hl, hwe, we, sig, hlock, w, m, fault>>

Idle == [pc |-> "idle", i |-> 0, prep |-> FALSE, h |-> NULL]
Elems(s) == {s[k] : k \in 1..Len(s)}
Position(s, h) == CHOOSE k \in 1..Len(s) : s[k] = h
Without(s, h) == SubSeq(s, 1, Position(s, h) - 1)
                 \o SubSeq(s, Position(s, h) + 1, Len(s))

Init ==
  /\ refs = [h \in Handles |-> 0]
  /\ owned = {}
  /\ ready = [h \in Handles |-> FALSE]
  /\ ipc = NULL
  /\ hl = <<>>
  /\ hwe = FALSE
  /\ we = [h \in Handles |-> NULL]
  /\ sig = [list |-> FALSE, one |-> FALSE]
  /\ hlock = NULL
  /\ w = Idle
  /\ m = Idle
  /\ fault = FALSE

-----------------------------------------------------------------------------
(* The objects.                                                            *)

(* What every path that calls handle_notify does first, under ipc_lock.    *)
Change(h) ==
  /\ ipc = NULL
  /\ h \in owned
  /\ ready' = [ready EXCEPT ![h] = TRUE]
  /\ ipc' = h
  /\ UNCHANGED <<refs, owned, hl, hwe, we, sig, hlock, w, m, fault>>

Signalled(h) == IF we[h] = NULL THEN sig ELSE [sig EXCEPT ![we[h]] = TRUE]

handle_notify(h) ==
  /\ ipc = h
  /\ sig' = Signalled(h)
  /\ ipc' = NULL
  /\ UNCHANGED <<refs, owned, ready, hl, hwe, we, hlock, w, m, fault>>

(* finalize_event                                                          *)
Finalized(h) == IF h \in Edge THEN [ready EXCEPT ![h] = FALSE] ELSE ready

-----------------------------------------------------------------------------
(* handle_list_wait.                                                       *)

ListWaitBegin ==
  /\ w.pc = "idle"
  /\ hlock = NULL
  /\ hl # <<>>
  /\ hlock' = "waiter"
  /\ hwe' = TRUE
  /\ sig' = [sig EXCEPT !.list = FALSE]
  /\ w' = [pc |-> "prepare", i |-> 1, prep |-> TRUE, h |-> NULL]
  /\ UNCHANGED <<refs, owned, ready, ipc, hl, we, m, fault>>

(* _prepare_wait_handle for the handle at position i.                      *)
Prepare ==
  /\ w.pc = "prepare"
  /\ we' = [we EXCEPT ![hl[w.i]] = "list"]
  /\ w' = [w EXCEPT !.pc = "poll"]
  /\ UNCHANGED <<refs, owned, ready, ipc, hl, hwe, sig, hlock, m, fault>>

(* Mutation: only the handle that was found is cleared.                    *)
FinishLast(n) ==
  [h \in Handles |-> IF n > 0 /\ h = hl[n] THEN NULL ELSE we[h]]

(* _hlist_finish_wait_locked for the first n handles.                      *)
FinishFirst(n) ==
  [h \in Handles |-> IF h \in Elems(SubSeq(hl, 1, n)) THEN NULL ELSE we[h]]

(* _hlist_do_poll_locked finds a handle with an event.                     *)
PollFound ==
  /\ w.pc = "poll"
  /\ ipc = NULL
  /\ ready[hl[w.i]]
  /\ we' = FinishFirst(IF w.prep THEN w.i ELSE Len(hl))
  /\ w' = [w EXCEPT !.pc = "finalize", !.h = hl[w.i]]
  /\ UNCHANGED <<refs, owned, ready, ipc, hl, hwe, sig, hlock, m, fault>>

PollNext ==
  /\ w.pc = "poll"
  /\ ipc = NULL
  /\ ~ready[hl[w.i]]
  /\ w.i < Len(hl)
  /\ w' = [w EXCEPT !.i = @ + 1, !.pc = IF w.prep THEN "prepare" ELSE "poll"]
  /\ UNCHANGED <<refs, owned, ready, ipc, hl, hwe, we, sig, hlock, m, fault>>

(* No handle has an event: unlock and sleep.                               *)
PollNone ==
  /\ w.pc = "poll"
  /\ ipc = NULL
  /\ ~ready[hl[w.i]]
  /\ w.i = Len(hl)
  /\ w.prep
  /\ w' = [w EXCEPT !.pc = "sleep"]
  /\ hlock' = NULL
  /\ UNCHANGED <<refs, owned, ready, ipc, hl, hwe, we, sig, m, fault>>

(* After a wakeup no handle has an event.  _hlist_do_poll_locked returns   *)
(* ret, which nothing assigned on this path.                               *)
PollGarbage ==
  /\ w.pc = "poll"
  /\ ipc = NULL
  /\ ~ready[hl[w.i]]
  /\ w.i = Len(hl)
  /\ ~w.prep
  /\ \/ /\ w' = [w EXCEPT !.pc = "sleep"]             \* ret = 0
        /\ hlock' = NULL
        /\ UNCHANGED <<we, hwe, fault>>
     \/ /\ w' = Idle                                  \* an error number
        /\ we' = FinishFirst(Len(hl))
        /\ hwe' = FALSE
        /\ hlock' = NULL
        /\ UNCHANGED fault
     \/ /\ fault' = TRUE                              \* ret = 1, *handle_ptr = 0
        /\ w' = [w EXCEPT !.pc = "fault"]
        /\ UNCHANGED <<we, hwe, hlock>>
  /\ UNCHANGED <<refs, owned, ready, ipc, hl, sig, m>>

(* __do_wait: the event unsignals itself, or the timeout expires.          *)
Wakeup ==
  /\ w.pc = "sleep"
  /\ sig.list
  /\ sig' = [sig EXCEPT !.list = FALSE]
  /\ w' = [w EXCEPT !.pc = "relock"]
  /\ UNCHANGED <<refs, owned, ready, ipc, hl, hwe, we, hlock, m, fault>>

Timeout ==
  /\ w.pc = "sleep"
  /\ w' = [w EXCEPT !.pc = "timedout"]
  /\ UNCHANGED <<refs, owned, ready, ipc, hl, hwe, we, sig, hlock, m, fault>>

(* Lock again and poll again, or give up: ERR_TIMED_OUT, ERR_NOT_FOUND.    *)
Repoll ==
  /\ w.pc = "relock"
  /\ hlock = NULL
  /\ hl # <<>>
  /\ hlock' = "waiter"
  /\ w' = [w EXCEPT !.pc = "poll", !.i = 1, !.prep = FALSE]
  /\ UNCHANGED <<refs, owned, ready, ipc, hl, hwe, we, sig, m, fault>>

GiveUp ==
  /\ w.pc = "timedout" \/ (w.pc = "relock" /\ hl = <<>>)
  /\ hlock = NULL
  /\ we' = FinishFirst(Len(hl))
  /\ hwe' = FALSE
  /\ w' = Idle
  /\ UNCHANGED <<refs, owned, ready, ipc, hl, sig, hlock, m, fault>>

(* Mutation: the list head stays where it is.                              *)
HeadStays(s, h) == s

(* "move list head after item we just found"                               *)
HeadAfter(s, h) ==
  SubSeq(s, Position(s, h) + 1, Len(s)) \o SubSeq(s, 1, Position(s, h))

ListWaitReturn ==
  /\ w.pc = "finalize"
  /\ ipc = NULL
  /\ ready' = Finalized(w.h)
  /\ refs' = [refs EXCEPT ![w.h] = @ + 1]
  /\ hl' = HeadAfter(hl, w.h)
  /\ hwe' = FALSE
  /\ hlock' = NULL
  /\ w' = [w EXCEPT !.pc = "serve"]
  /\ UNCHANGED <<owned, ipc, we, sig, m, fault>>

(* The caller handles the event, which may leave more to do, and drops the *)
(* reference it was given.                                                 *)
Serve ==
  /\ w.pc = "serve"
  /\ ipc = NULL
  /\ ready' \in {ready, [ready EXCEPT ![w.h] = FALSE]}
  /\ refs' = [refs EXCEPT ![w.h] = @ - 1]
  /\ w' = Idle
  /\ UNCHANGED <<owned, ipc, hl, hwe, we, sig, hlock, m, fault>>

-----------------------------------------------------------------------------
(* The other thread.                                                       *)

handle_init(h) ==
  /\ m.pc = "idle"
  /\ refs[h] = 0
  /\ refs' = [refs EXCEPT ![h] = 1]
  /\ owned' = owned \cup {h}
  /\ ready' = [ready EXCEPT ![h] = FALSE]
  /\ we' = [we EXCEPT ![h] = NULL]
  /\ UNCHANGED <<ipc, hl, hwe, sig, hlock, w, m, fault>>

Mine(h) == m.pc = "idle" /\ h \in owned \ Elems(hl)

(* handle_wait, in sys_connect: the handle is on no list yet.              *)
WaitOneBegin(h) ==
  /\ Mine(h)
  /\ sig' = [sig EXCEPT !.one = FALSE]
  /\ we' = [we EXCEPT ![h] = "one"]
  /\ m' = [Idle EXCEPT !.pc = "poll", !.h = h]
  /\ UNCHANGED <<refs, owned, ready, ipc, hl, hwe, hlock, w, fault>>

WaitOnePoll ==
  /\ m.pc = "poll"
  /\ ipc = NULL
  /\ m' = [m EXCEPT !.pc = IF ready[m.h] THEN "finalize" ELSE "sleep"]
  /\ UNCHANGED <<refs, owned, ready, ipc, hl, hwe, we, sig, hlock, w, fault>>

WaitOneWakeup ==
  /\ m.pc = "sleep"
  /\ sig.one
  /\ sig' = [sig EXCEPT !.one = FALSE]
  /\ m' = [m EXCEPT !.pc = "poll"]
  /\ UNCHANGED <<refs, owned, ready, ipc, hl, hwe, we, hlock, w, fault>>

WaitOneReturn ==
  /\ m.pc = "finalize"
  /\ ipc = NULL
  /\ ready' = Finalized(m.h)
  /\ we' = [we EXCEPT ![m.h] = NULL]
  /\ m' = Idle
  /\ UNCHANGED <<refs, owned, ipc, hl, hwe, sig, hlock, w, fault>>

(* handle_list_add: link; if the list is waited on, prepare and poll too.  *)
handle_list_add(h) ==
  /\ Mine(h)
  /\ hlock = NULL
  /\ refs' = [refs EXCEPT ![h] = @ + 1]
  /\ hl' = Append(hl, h)
  /\ IF hwe
       THEN /\ we' = [we EXCEPT ![h] = "list"]
            /\ m' = [Idle EXCEPT !.pc = "addpoll", !.h = h]
            /\ hlock' = "other"
       ELSE UNCHANGED <<we, m, hlock>>
  /\ UNCHANGED <<owned, ready, ipc, hwe, sig, w, fault>>

(* Mutation: a handle that already has an event is not noticed.            *)
NotNoticed(h) == sig

NoticeAdded(h) == IF ready[h] THEN Signalled(h) ELSE sig

AddPoll ==
  /\ m.pc = "addpoll"
  /\ ipc = NULL
  /\ sig' = NoticeAdded(m.h)
  /\ m' = Idle
  /\ hlock' = NULL
  /\ UNCHANGED <<refs, owned, ready, ipc, hl, hwe, we, w, fault>>

(* Mutation: the reference of the list is dropped twice.                   *)
UnrefTwice(h) == [refs EXCEPT ![h] = @ - 2]

Unref(h) == [refs EXCEPT ![h] = @ - 1]

(* handle_list_del: if the list is waited on, the handle's wait is         *)
(* finished, and the waiter is woken when the list becomes empty.          *)
handle_list_del(h) ==
  /\ m.pc = "idle"
  /\ h \in Elems(hl)
  /\ hlock = NULL
  /\ hl' = Without(hl, h)
  /\ refs' = Unref(h)
  /\ we' = IF hwe THEN [we EXCEPT ![h] = NULL] ELSE we
  /\ sig' = IF hwe /\ hl' = <<>> THEN [sig EXCEPT !.list = TRUE] ELSE sig
  /\ UNCHANGED <<owned, ready, ipc, hwe, hlock, w, m, fault>>

(* handle_close: the object goes quiet (shutdown), the owner's reference   *)
(* is dropped.                                                             *)
handle_close(h) ==
  /\ Mine(h)
  /\ ipc = NULL
  /\ refs' = [refs EXCEPT ![h] = @ - 1]
  /\ owned' = owned \ {h}
  /\ ready' = [ready EXCEPT ![h] = FALSE]
  /\ UNCHANGED <<ipc, hl, hwe, we, sig, hlock, w, m, fault>>

-----------------------------------------------------------------------------
Objects == \E h \in Handles : Change(h) \/ handle_notify(h)

Poll == PollFound \/ PollNext \/ PollNone \/ PollGarbage

Waiter ==
  \/ ListWaitBegin
  \/ Prepare
  \/ PollFound
  \/ PollNext
  \/ PollNone
  \/ PollGarbage
  \/ Wakeup
  \/ Timeout
  \/ Repoll
  \/ GiveUp
  \/ ListWaitReturn
  \/ Serve

Other ==
  \/ \E h \in Handles : handle_init(h)
  \/ \E h \in Handles : WaitOneBegin(h)
  \/ WaitOnePoll
  \/ WaitOneWakeup
  \/ WaitOneReturn
  \/ \E h \in Handles : handle_list_add(h)
  \/ AddPoll
  \/ \E h \in Handles : handle_list_del(h)
  \/ \E h \in Handles : handle_close(h)

Next == ~fault /\ (Objects \/ Waiter \/ Other)

Spec == Init /\ [][Next]_vars

-----------------------------------------------------------------------------
(* Properties.                                                             *)

WaiterPcs == {"idle", "prepare", "poll", "finalize", "sleep", "relock",
              "timedout", "serve", "fault"}
OtherPcs  == {"idle", "poll", "sleep", "finalize", "addpoll"}
ThreadType(pcs) ==
  [pc : pcs, i : 0..Cardinality(Handles), prep : BOOLEAN, h : Handles \cup {NULL}]

(* Types of the variables; a reference count never goes below zero.        *)
TypeOK ==
  /\ refs \in [Handles -> 0..3]
  /\ owned \subseteq Handles
  /\ ready \in [Handles -> BOOLEAN]
  /\ ipc \in Handles \cup {NULL}
  /\ Len(hl) <= Cardinality(Handles) /\ Elems(hl) \subseteq Handles
  /\ hwe \in BOOLEAN
  /\ we \in [Handles -> {NULL, "list", "one"}]
  /\ sig \in [list : BOOLEAN, one : BOOLEAN]
  /\ hlock \in {NULL, "waiter", "other"}
  /\ w \in ThreadType(WaiterPcs)
  /\ m \in ThreadType(OtherPcs)
  /\ fault \in BOOLEAN

Count(b) == IF b THEN 1 ELSE 0

(* Each handle is referenced once by its owner, by the list it is on and   *)
(* by the caller that handle_list_wait returned it to: a handle deleted    *)
(* and closed by one thread while the other still serves it stays valid,   *)
(* and is freed when both are done.                                        *)
RefsExact ==
  /\ TypeOK
  /\ \A h \in Handles :
       refs[h] = Count(h \in owned) + Count(h \in Elems(hl))
                 + Count(w.pc = "serve" /\ w.h = h)

(* wait_event points at an event_t on the stack of the waiting function:   *)
(* it is set only while that function runs and the handle is on the list   *)
(* (or is the one waited for), and never on a freed handle.  Nothing is    *)
(* left for a later wait to trip over, so _prepare_wait_handle never fails.*)
NoDanglingEvent ==
  \A h \in Handles :
    /\ we[h] = "list" => hwe /\ h \in Elems(hl) /\ w.pc # "idle"
    /\ we[h] = "one" => m.h = h /\ m.pc \in {"poll", "sleep", "finalize"}
    /\ we[h] # NULL => refs[h] > 0
    /\ w.pc = "prepare" => we[hl[w.i]] = NULL

(* No lost wakeup.  When the waiter sleeps unsignalled and nobody is in    *)
(* the middle of a notification or an addition, then nothing on the list   *)
(* has an event; the same for a thread in handle_wait.                     *)
SleepJustified ==
  /\ w.pc = "sleep" /\ ~sig.list =>
       /\ \A h \in Elems(hl) : ready[h] => ipc = h \/ m.pc = "addpoll"
       /\ hl # <<>>
  /\ m.pc = "sleep" /\ ~sig.one => (ready[m.h] => ipc = m.h)

(* handle_list_wait: "fills in the handle that has a pending event".       *)
ReturnsHandle == ~fault

-----------------------------------------------------------------------------
(* The inductive invariant.                                                *)

OnceEach == \A i, j \in 1..Len(hl) : hl[i] = hl[j] => i = j

(* Who holds hlist->lock, who waits, and at which handle.                  *)
Locked == {"prepare", "poll", "finalize", "fault"}
InPlace ==
  /\ hlock = "waiter" <=> w.pc \in Locked
  /\ hlock = "other" <=> m.pc = "addpoll"
  /\ hwe <=> w.pc \notin {"idle", "serve"}
  /\ w.pc \in {"prepare", "poll"} => w.i \in 1..Len(hl)
  /\ w.pc = "prepare" => w.prep
  /\ w.pc = "finalize" => w.h \in Elems(hl)
  /\ w.pc = "serve" => w.h \in Handles
  /\ m.pc \in {"poll", "sleep", "finalize"} => m.h \in owned \ Elems(hl)
  /\ m.pc = "addpoll" => hwe /\ m.h \in Elems(hl)
  /\ ipc # NULL => ipc \in owned

(* The handles that the waiter has prepared, and those it has polled since.*)
Prepared ==
  IF w.pc = "prepare" THEN {hl[k] : k \in 1..w.i - 1}
  ELSE IF w.pc = "poll" /\ w.prep THEN {hl[k] : k \in 1..w.i}
  ELSE IF w.pc \in {"idle", "serve", "finalize"} THEN {}
  ELSE Elems(hl)
Polled ==
  IF w.pc \in {"prepare", "poll"} THEN {hl[k] : k \in 1..w.i - 1}
  ELSE IF w.pc = "sleep" THEN Elems(hl) ELSE {}

InEvents ==
  \A h \in Handles :
    /\ we[h] = "list" <=> h \in Prepared
    /\ we[h] = "one" <=> m.pc \in {"poll", "sleep", "finalize"} /\ m.h = h

(* An event of a handle that was polled is being told, or was.             *)
Told ==
  /\ \A h \in Polled :
       ready[h] => sig.list \/ ipc = h \/ (m.pc = "addpoll" /\ m.h = h)
  /\ w.pc = "sleep" => sig.list \/ hl # <<>>
  /\ m.pc = "sleep" /\ ready[m.h] => sig.one \/ ipc = m.h

WaitInv == hl \in Seq(Handles) /\ RefsExact /\ OnceEach /\ InPlace /\ InEvents /\ Told

-----------------------------------------------------------------------------
(* Fairness: LK runs ready threads and hands a mutex over in the order of  *)
(* arrival, so a thread that wants hlist->lock or ipc_lock gets it (strong *)
(* fairness for the steps that take one).                                  *)
Fairness ==
  /\ \A h \in Handles : WF_vars(~fault /\ handle_notify(h))
  /\ SF_vars(~fault /\ ListWaitBegin)
  /\ WF_vars(~fault /\ Prepare)
  /\ SF_vars(~fault /\ Poll)
  /\ WF_vars(~fault /\ Wakeup)
  /\ SF_vars(~fault /\ Repoll)
  /\ SF_vars(~fault /\ GiveUp)
  /\ SF_vars(~fault /\ ListWaitReturn)
  /\ SF_vars(~fault /\ Serve)
  /\ SF_vars(~fault /\ AddPoll)

FairSpec == Spec /\ Fairness

(* No starvation: a handle on the list that has an event is returned, even *)
(* while other handles are ready all the time, unless it is deleted first. *)
EveryHandleServed ==
  \A h \in Handles :
    (h \in Elems(hl) /\ ready[h])
      ~> (w.pc = "serve" /\ w.h = h) \/ h \notin Elems(hl) \/ fault
=============================================================================
