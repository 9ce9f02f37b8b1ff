--------------------------- MODULE SmStdCallProofs ---------------------------
(* Theorems about standard calls, for any CPUs, callers, retry bounds and   *)
(* api versions, and whichever CPUs take FIQs.                              *)
EXTENDS SmStdCall, TLAPS

TaskType == [pc : {"idle", "enter", "smc", "in", "ret", "out"},
             nr : {"NOP", "CALL", "RESTART_LAST"},
             cpu : Cpus \cup {NULL},
             retry : 0..Retry,
             ret : Rets]
StdType == [signalled : BOOLEAN, done : BOOLEAN, args : CallIds \cup {NULL},
            ret : Rets, active : Cpus \cup {NULL}, restarted : BOOLEAN]

(* What is returned tells an error from a result, and a result by its call. *)
LEMMA RetFacts ==
  /\ \A e \in Errors : Code(e) \in Rets /\ Code(e).code = e /\ Code(e).id = NULL
  /\ \A d \in CallIds : Result(d) \in Rets /\ Result(d).code = "OK" /\ Result(d).id = d
BY DEF Code, Result, Rets

(* The parts of the invariant, for use in the steps below.                  *)
LEMMA Parts ==
  ASSUME SmcInv
  PROVE  /\ task \in [Tasks -> TaskType] /\ smcLock \in Callers \cup {NULL}
         /\ idleDone \in 0..MaxDone /\ seq \in [Callers -> {0, 1}]
         /\ answer \in [Callers -> Rets] /\ api \in ApiVersions /\ std \in StdType
         /\ sec \in [Cpus -> {"ns", "smc", "run", "get", "irq"}] /\ fiq \subseteq Cpus
         /\ smt \in [state : {"wait", "ready", "running", "blocked"}, cpu : Cpus \cup {NULL}]
         /\ runs \in [Callers -> 0..2]
         /\ CpusAgree /\ StdInv
         /\ \A t \in Callers : CallerAsks(t)
         /\ \A c \in Cpus : WorkerAsks(c)
         /\ \A t \in Callers : smcLock = t => CallAt(t)
         /\ NULL \notin Cpus /\ NULL \notin Callers /\ Cpus \cap Callers = {}
         /\ Tasks = Callers \cup Cpus /\ Retry \in Nat
BY SmStdCallAssumption DEF SmcInv, TypeOK, TaskType, StdType, Tasks

(* The fields of one task.                                                  *)
LEMMA Fields ==
  ASSUME SmcInv, NEW t \in Tasks
  PROVE  /\ task[t] \in TaskType
         /\ task[t].pc \in {"idle", "enter", "smc", "in", "ret", "out"}
         /\ task[t].nr \in {"NOP", "CALL", "RESTART_LAST"}
         /\ task[t].cpu \in Cpus \cup {NULL}
         /\ task[t].retry \in 0..Retry
         /\ task[t].ret \in Rets
         /\ task[t].pc \in OnCpu => task[t].cpu \in Cpus
         /\ AtCpu(t)
<1>1. task[t] \in TaskType /\ AtCpu(t)
  BY Parts DEF CpusAgree
<1>2. QED BY <1>1 DEF TaskType, AtCpu

(* The task on a CPU that is in the secure world, and its number.           *)
LEMMA CallerOf ==
  ASSUME SmcInv, NEW c \in Cpus, sec[c] # "ns", c \notin fiq
  PROVE  \E t \in Tasks : /\ task[t].cpu = c /\ task[t].pc = "in"
                          /\ Caller(c) = t /\ Number(c) = task[t].nr
                          /\ \A u \in Tasks : task[u].cpu = c => u = t
<1>1. PICK t \in Tasks : task[t].cpu = c
  BY Parts DEF CpusAgree
<1>2. \A u \in Tasks : task[u].cpu = c => u = t
  BY <1>1, Parts DEF CpusAgree
<1>3. Caller(c) = t
  BY <1>1, <1>2 DEF Caller
<1>4. task[t].pc \in OnCpu
  BY <1>1, Fields, Parts DEF AtCpu
<1>5. task[t].pc = "in"
  BY <1>1, <1>4, Fields DEF AtCpu, OnCpu
<1>6. QED BY <1>1, <1>2, <1>3, <1>5 DEF Number

(* The task of which the smc returns r.                                     *)
Informed(t, r) == [task[t] EXCEPT !.pc = "ret", !.ret = r]

(* Only the task on the CPU is told when its smc returns.                   *)
LEMMA ReturnOne ==
  ASSUME SmcInv, NEW c \in Cpus, NEW t \in Tasks, task[t].cpu = c, NEW r \in Rets, Return(c, r)
  PROVE  task' = [task EXCEPT ![t] = Informed(t, r)]
<1>1. \A u \in Tasks : task[u].cpu = c => u = t
  BY Parts DEF CpusAgree
<1>2. task \in [Tasks -> TaskType]
  BY Parts
<1>3. QED BY <1>1, <1>2 DEF Return, Informed

(* A step of task t, which may take or leave a CPU.                         *)
Step(t, r) ==
  /\ r \in TaskType
  /\ task' = [task EXCEPT ![t] = r]
  /\ r.cpu \in {task[t].cpu, NULL} \/ \A u \in Tasks : task[u].cpu # r.cpu
  /\ \A c \in Cpus : c # task[t].cpu /\ c # r.cpu
                      => sec'[c] = sec[c] /\ (c \in fiq' <=> c \in fiq)
  /\ r.cpu # task[t].cpu /\ task[t].cpu # NULL
       => sec'[task[t].cpu] = "ns" /\ task[t].cpu \notin fiq'

(* The other tasks and their CPUs do not notice it.                         *)
LEMMA OneTask ==
  ASSUME SmcInv, NEW t \in Tasks, NEW r, Step(t, r), AtCpu(t)'
  PROVE  /\ task' \in [Tasks -> TaskType] /\ task'[t] = r
         /\ \A u \in Tasks : u # t => /\ task'[u] = task[u]
                                      /\ task[u].cpu # NULL => sec'[task[u].cpu] = sec[task[u].cpu]
         /\ CpusAgree'
<1>1. task' \in [Tasks -> TaskType] /\ task'[t] = r /\ \A u \in Tasks : u # t => task'[u] = task[u]
  BY Parts DEF Step
<1>2. \A u \in Tasks : u # t /\ task[u].cpu # NULL =>
        /\ task[u].cpu \in Cpus /\ task[u].cpu # task[t].cpu /\ task[u].cpu # r.cpu
  BY Fields, Parts DEF CpusAgree, Step
<1>3. \A u \in Tasks : u # t /\ task[u].cpu # NULL =>
        /\ sec'[task[u].cpu] = sec[task[u].cpu]
        /\ task[u].cpu \in fiq' <=> task[u].cpu \in fiq
  BY <1>2 DEF Step
<1>4. ASSUME NEW u \in Tasks PROVE AtCpu(u)'
  <2>1. CASE u = t
    BY <2>1
  <2>2. CASE u # t
    <3>1. AtCpu(u) /\ task'[u] = task[u]
      BY <1>1, <2>2, Fields
    <3>2. QED BY <1>3, <2>2, <3>1 DEF AtCpu, OnCpu
  <2>3. QED BY <2>1, <2>2
<1>5. ASSUME NEW u \in Tasks, NEW v \in Tasks, task'[u].cpu # NULL, task'[u].cpu = task'[v].cpu
      PROVE  u = v
  <2>1. CASE u # t /\ v # t
    BY <1>1, <1>5, <2>1, Parts DEF CpusAgree
  <2>2. CASE u = t /\ v # t
    BY <1>1, <1>2, <1>5, <2>2
  <2>3. CASE u # t /\ v = t
    BY <1>1, <1>2, <1>5, <2>3
  <2>4. QED BY <2>1, <2>2, <2>3
<1>6. ASSUME NEW c \in Cpus, sec'[c] # "ns" \/ c \in fiq'
      PROVE  \E u \in Tasks : task'[u].cpu = c
  <2>1. CASE c = r.cpu
    BY <1>1, <2>1
  <2>2. CASE c # r.cpu
    <3>1. c # task[t].cpu
      BY <1>6, <2>2, Parts DEF Step
    <3>2. sec[c] # "ns" \/ c \in fiq
      BY <1>6, <2>2, <3>1 DEF Step
    <3>3. PICK u \in Tasks : task[u].cpu = c
      BY <3>2, Parts DEF CpusAgree
    <3>4. QED BY <1>1, <3>1, <3>3
  <2>3. QED BY <2>1, <2>2
<1>7. QED BY <1>1, <1>3, <1>4, <1>5, <1>6 DEF CpusAgree

(* Types of the variables but the tasks.                                    *)
RestOK ==
  /\ smcLock \in Callers \cup {NULL} /\ idleDone \in 0..MaxDone
  /\ seq \in [Callers -> {0, 1}] /\ answer \in [Callers -> Rets] /\ api \in ApiVersions
  /\ std \in StdType /\ sec \in [Cpus -> {"ns", "smc", "run", "get", "irq"}] /\ fiq \subseteq Cpus
  /\ smt \in [state : {"wait", "ready", "running", "blocked"}, cpu : Cpus \cup {NULL}]
  /\ runs \in [Callers -> 0..2]

(* A call that is not the one that moves stays where it is.                 *)
LEMMA CallStays ==
  ASSUME SmcInv, NEW u \in Callers, smcLock = u, task'[u] = task[u],
         task[u].cpu # NULL => sec'[task[u].cpu] = sec[task[u].cpu],
         UNCHANGED <<seq, std, runs>>
  PROVE  CallAt(u)'
<1>1. CallAt(u) /\ u \in Tasks
  BY Parts
<1>2. task[u].pc \in OnCpu => sec'[task[u].cpu] = sec[task[u].cpu]
  BY <1>1, Fields, Parts DEF AtCpu
<1>3. Busy' = Busy
  BY DEF Busy
<1>4. /\ Entering(u)' = Entering(u) /\ Executing(u)' = Executing(u) /\ Returned(u)' = Returned(u)
  BY <1>2 DEF Entering, Executing, Returned, OnCpu
<1>5. QED BY <1>1, <1>3, <1>4 DEF CallAt

(* A step of a task on its way through a call or a NOP.                     *)
LEMMA StepInv ==
  ASSUME SmcInv, NEW t \in Tasks, NEW r, Step(t, r), AtCpu(t)', RestOK',
         UNCHANGED <<smcLock, seq, api>>,
         smcLock # t => UNCHANGED <<std, runs>>,
         t \in Callers => smcLock = t /\ CallerAsks(t)' /\ CallAt(t)',
         t \in Cpus => WorkerAsks(t)',
         StdInv'
  PROVE  SmcInv'
<1>1. /\ task' \in [Tasks -> TaskType]
      /\ \A u \in Tasks : u # t => /\ task'[u] = task[u]
                                   /\ task[u].cpu # NULL => sec'[task[u].cpu] = sec[task[u].cpu]
      /\ CpusAgree'
  BY OneTask
<1>2. TypeOK'
  BY <1>1 DEF TypeOK, TaskType, StdType, RestOK
<1>3. ASSUME NEW u \in Callers PROVE CallerAsks(u)'
  <2>1. CASE u = t
    BY <2>1
  <2>2. CASE u # t
    BY <1>1, <2>2, Parts DEF CallerAsks, Smp
  <2>3. QED BY <2>1, <2>2
<1>4. ASSUME NEW c \in Cpus PROVE WorkerAsks(c)'
  <2>1. CASE c = t
    BY <2>1
  <2>2. CASE c # t
    BY <1>1, <2>2, Parts DEF WorkerAsks
  <2>3. QED BY <2>1, <2>2
<1>5. ASSUME NEW u \in Callers, smcLock' = u PROVE CallAt(u)'
  <2>1. CASE u = t
    BY <2>1
  <2>2. CASE u # t
    <3>1. u \in Tasks
      BY Parts
    <3>2. QED BY <1>1, <1>5, <2>2, <3>1, CallStays
  <2>3. QED BY <2>1, <2>2
<1>6. QED BY <1>1, <1>2, <1>3, <1>4, <1>5 DEF SmcInv

(* The call of the holder of smc_lock is on its way in, executing, or on    *)
(* its way out; active_cpu is set exactly while it executes.                *)
LEMMA Holder ==
  ASSUME SmcInv, NEW t \in Callers, smcLock = t
  PROVE  /\ t \in Tasks /\ t \notin Cpus /\ CallAt(t)
         /\ task[t].pc # "idle" /\ task[t].nr \in {"CALL", "RESTART_LAST"}
         /\ Entering(t) \/ Executing(t) \/ Returned(t)
         /\ std.active # NULL => Executing(t) /\ std.active = task[t].cpu
<1>1. t \in Tasks /\ t \notin Cpus /\ CallAt(t) /\ CallerAsks(t)
  BY Parts
<1>2. task[t].pc # "idle" /\ task[t].nr \in {"CALL", "RESTART_LAST"}
  BY <1>1, Fields DEF CallerAsks
<1>3. task[t].pc \in {"in", "ret"} => sec[task[t].cpu] \in {"ns", "smc", "run", "get", "irq"}
  BY <1>1, Fields, Parts DEF OnCpu
<1>4. Entering(t) \/ Executing(t) \/ Returned(t)
  BY <1>1, <1>2, <1>3, Fields DEF Entering, Executing, Returned, AtCpu, InSecure
<1>5. QED BY <1>1, <1>2, <1>4 DEF CallAt

(* active_cpu is the CPU of the holder of smc_lock.                         *)
LEMMA Active ==
  ASSUME SmcInv, std.active # NULL
  PROVE  smcLock \in Callers /\ Executing(smcLock) /\ std.active = task[smcLock].cpu
<1>1. PICK t \in Callers : t = smcLock
  BY Parts DEF StdInv
<1>2. QED BY <1>1, Holder

----------------------------------------------------------------------------
(* Linux.                                                                   *)

(* A step of task t in Linux, without a change in the secure world but the  *)
(* end of a FIQ.                                                            *)
LEMMA LinuxInv ==
  ASSUME SmcInv, NEW t \in Tasks, NEW r, Step(t, r), AtCpu(t)',
         UNCHANGED <<smcLock, seq, answer, api, std, sec, smt, runs>>,
         idleDone' \in 0..MaxDone, fiq' \subseteq Cpus,
         t \in Callers => smcLock = t /\ CallerAsks(t)' /\ CallAt(t)',
         t \in Cpus => WorkerAsks(t)'
  PROVE  SmcInv'
<1>1. RestOK'
  BY Parts DEF RestOK
<1>2. StdInv'
  BY Parts DEF StdInv, Busy
<1>3. QED BY <1>1, <1>2, StepInv

(* It asks for the same and was told the same.                              *)
LEMMA AsksSame ==
  ASSUME SmcInv, NEW t \in Tasks, task[t].pc # "idle", task'[t].pc # "idle",
         task'[t].nr = task[t].nr, task'[t].ret = task[t].ret,
         task'[t].pc = "out" => task[t].ret.code # "FIQ_INTERRUPTED",
         UNCHANGED <<smcLock, api>>
  PROVE  /\ t \in Callers => smcLock = t /\ CallerAsks(t)'
         /\ t \in Cpus => WorkerAsks(t)'
<1>1. CASE t \in Callers
  <2>1. CallerAsks(t) /\ t \notin Cpus
    BY <1>1, Parts
  <2>2. QED BY <1>1, <2>1 DEF CallerAsks, Smp
<1>2. CASE t \in Cpus
  <2>1. WorkerAsks(t) /\ t \notin Callers
    BY <1>2, Parts
  <2>2. QED BY <1>2, <2>1 DEF WorkerAsks
<1>3. QED BY <1>1, <1>2, Parts

(* local_irq_disable: no task is on the CPU, so it is in Linux.             *)
LEMMA IrqDisableInv ==
  ASSUME SmcInv, NEW t \in Tasks, NEW c \in Cpus, IrqDisable(t, c)
  PROVE  SmcInv'
<1>1. /\ task[t].pc = "enter" /\ (\A u \in Tasks : task[u].cpu # c)
      /\ task' = [task EXCEPT ![t] = [task[t] EXCEPT !.pc = "smc", !.cpu = c, !.retry = Retry]]
      /\ UNCHANGED <<api, smcLock, idleDone, seq, answer, std, sec, fiq, smt, runs>>
  BY Parts DEF IrqDisable
<1>2. PICK r : r = [task[t] EXCEPT !.pc = "smc", !.cpu = c, !.retry = Retry]
  OBVIOUS
<1>3. /\ r \in TaskType /\ r.pc = "smc" /\ r.cpu = c /\ r.nr = task[t].nr /\ r.ret = task[t].ret
  <2>1. Retry \in 0..Retry
    BY Parts
  <2>2. QED BY <1>2, <2>1, Fields DEF TaskType
<1>4. task'[t] = r /\ task[t].cpu = NULL
  BY <1>1, <1>2, Fields, Parts DEF AtCpu, OnCpu
<1>5. sec[c] = "ns" /\ c \notin fiq /\ c # NULL
  BY <1>1, Parts DEF CpusAgree
<1>6. Step(t, r)
  BY <1>1, <1>2, <1>3, <1>4 DEF Step
<1>7. AtCpu(t)'
  BY <1>1, <1>3, <1>4, <1>5 DEF AtCpu, OnCpu
<1>8. /\ t \in Callers => smcLock = t /\ CallerAsks(t)'
      /\ t \in Cpus => WorkerAsks(t)'
  BY <1>1, <1>3, <1>4, AsksSame
<1>9. ASSUME t \in Callers PROVE CallAt(t)'
  <2>1. CallAt(t) /\ Entering(t)
    BY <1>1, <1>8, <1>9, Parts DEF Entering
  <2>2. Entering(t)' /\ ~Executing(t)' /\ ~Returned(t)' /\ Busy' = Busy
    BY <1>1, <1>3, <1>4, <1>5 DEF Entering, Executing, Returned, Busy, InSecure
  <2>3. QED BY <1>1, <1>3, <1>4, <2>1, <2>2 DEF CallAt
<1>10. QED BY <1>1, <1>6, <1>7, <1>8, <1>9, LinuxInv, Parts

(* SMC_SC_RESTART_FIQ: back to what the FIQ interrupted.                    *)
LEMMA RestartFiqInv ==
  ASSUME SmcInv, NEW t \in Tasks, RestartFiq(t)
  PROVE  SmcInv'
<1>1. /\ task[t].pc = "ret" /\ task[t].ret.code = "FIQ_INTERRUPTED"
      /\ fiq' = fiq \ {task[t].cpu}
      /\ task' = [task EXCEPT ![t] = [task[t] EXCEPT !.pc = "in"]]
      /\ UNCHANGED <<api, smcLock, idleDone, seq, answer, std, sec, smt, runs>>
  BY Parts DEF RestartFiq, Goto
<1>2. PICK r : r = [task[t] EXCEPT !.pc = "in"]
  OBVIOUS
<1>3. /\ r \in TaskType /\ r.pc = "in" /\ r.cpu = task[t].cpu
      /\ r.nr = task[t].nr /\ r.ret = task[t].ret
  BY <1>2, Fields DEF TaskType
<1>4. task'[t] = r /\ task[t].cpu \in Cpus
  BY <1>1, <1>2, Fields, Parts DEF OnCpu
<1>5. sec[task[t].cpu] # "ns"
  BY <1>1, Fields DEF AtCpu
<1>6. Step(t, r)
  BY <1>1, <1>2, <1>3, <1>4 DEF Step
<1>7. AtCpu(t)'
  BY <1>1, <1>3, <1>4, <1>5, Parts DEF AtCpu, OnCpu
<1>8. /\ t \in Callers => smcLock = t /\ CallerAsks(t)'
      /\ t \in Cpus => WorkerAsks(t)'
  BY <1>1, <1>3, <1>4, AsksSame
<1>9. ASSUME t \in Callers PROVE CallAt(t)'
  <2>1. CallAt(t)
    BY <1>8, <1>9, Parts
  <2>2. /\ Entering(t)' = Entering(t) /\ Executing(t)' = Executing(t) /\ ~Returned(t)'
        /\ Busy' = Busy
    BY <1>1, <1>3, <1>4, <1>5 DEF Entering, Executing, Returned, Busy
  <2>3. QED BY <1>1, <1>3, <1>4, <2>1, <2>2 DEF CallAt
<1>10. QED BY <1>1, <1>6, <1>7, <1>8, <1>9, LinuxInv, Parts

(* A busy call is tried again at once.                                      *)
LEMMA RetryBusyInv ==
  ASSUME SmcInv, NEW t \in Tasks, RetryBusy(t)
  PROVE  SmcInv'
<1>1. /\ task[t].pc = "ret" /\ task[t].ret.code = "BUSY" /\ task[t].retry > 0
      /\ task' = [task EXCEPT ![t] = [task[t] EXCEPT !.pc = "smc", !.retry = task[t].retry - 1]]
      /\ UNCHANGED <<api, smcLock, idleDone, seq, answer, std, sec, fiq, smt, runs>>
  BY DEF RetryBusy
<1>2. PICK r : r = [task[t] EXCEPT !.pc = "smc", !.retry = task[t].retry - 1]
  OBVIOUS
<1>3. /\ r \in TaskType /\ r.pc = "smc" /\ r.cpu = task[t].cpu
      /\ r.nr = task[t].nr /\ r.ret = task[t].ret
  <2>1. task[t].retry - 1 \in 0..Retry
    BY <1>1, Fields, Parts
  <2>2. QED BY <1>2, <2>1, Fields DEF TaskType
<1>4. task'[t] = r /\ task[t].cpu \in Cpus
  BY <1>1, <1>2, Fields, Parts DEF OnCpu
<1>5. sec[task[t].cpu] = "ns" /\ task[t].cpu \notin fiq
  BY <1>1, Fields DEF AtCpu
<1>6. Step(t, r)
  BY <1>1, <1>2, <1>3, <1>4 DEF Step
<1>7. AtCpu(t)'
  BY <1>1, <1>3, <1>4, <1>5, Parts DEF AtCpu, OnCpu
<1>8. /\ t \in Callers => smcLock = t /\ CallerAsks(t)'
      /\ t \in Cpus => WorkerAsks(t)'
  BY <1>1, <1>3, <1>4, AsksSame
<1>9. ASSUME t \in Callers PROVE CallAt(t)'
  <2>1. CallAt(t) /\ Returned(t)
    BY <1>1, <1>5, <1>8, <1>9, Parts DEF Returned
  <2>2. std.active = NULL /\ Busy /\ task[t].nr = "RESTART_LAST"
    <3>1. task[t].ret # Result(<<t, seq[t]>>)
      BY <1>1, <1>9, RetFacts, Parts DEF CallIds
    <3>2. QED BY <1>1, <2>1, <3>1 DEF CallAt
  <2>3. Entering(t)' /\ ~Executing(t)' /\ ~Returned(t)' /\ Busy' = Busy
    BY <1>1, <1>3, <1>4, <1>5 DEF Entering, Executing, Returned, Busy, InSecure
  <2>4. QED BY <1>1, <1>3, <1>4, <2>1, <2>2, <2>3 DEF CallAt
<1>10. QED BY <1>1, <1>6, <1>7, <1>8, <1>9, LinuxInv, Parts

(* local_irq_enable, at the end of the attempt.                             *)
LEMMA IrqEnableInv ==
  ASSUME SmcInv, NEW t \in Tasks, IrqEnable(t)
  PROVE  SmcInv'
<1>1. /\ task[t].pc = "ret" /\ task[t].ret.code # "FIQ_INTERRUPTED"
      /\ task' = [task EXCEPT ![t] =
                    [task[t] EXCEPT !.cpu = NULL,
                                    !.pc = IF task[t].ret.code = "BUSY" THEN "enter" ELSE "out"]]
      /\ UNCHANGED <<api, smcLock, idleDone, seq, answer, std, sec, fiq, smt, runs>>
  BY DEF IrqEnable
<1>2. PICK p \in {"enter", "out"} : p = IF task[t].ret.code = "BUSY" THEN "enter" ELSE "out"
  OBVIOUS
<1>3. PICK r : r = [task[t] EXCEPT !.cpu = NULL, !.pc = p]
  OBVIOUS
<1>4. /\ r \in TaskType /\ r.pc = p /\ r.cpu = NULL
      /\ r.nr = task[t].nr /\ r.ret = task[t].ret
  BY <1>3, Fields DEF TaskType
<1>5. task' = [task EXCEPT ![t] = r]
  BY <1>1, <1>2, <1>3
<1>6. task'[t] = r /\ task[t].cpu \in Cpus
  BY <1>1, <1>5, Fields, Parts DEF OnCpu
<1>7. sec[task[t].cpu] = "ns" /\ task[t].cpu \notin fiq
  BY <1>1, Fields DEF AtCpu
<1>8. Step(t, r)
  BY <1>1, <1>4, <1>5, <1>6, <1>7 DEF Step
<1>9. AtCpu(t)'
  BY <1>2, <1>4, <1>6, Parts DEF AtCpu, OnCpu
<1>10. /\ t \in Callers => smcLock = t /\ CallerAsks(t)'
       /\ t \in Cpus => WorkerAsks(t)'
  BY <1>1, <1>2, <1>4, <1>6, AsksSame
<1>11. ASSUME t \in Callers PROVE CallAt(t)'
  <2>1. CallAt(t) /\ Returned(t) /\ Busy' = Busy
    BY <1>1, <1>7, <1>10, <1>11, Parts DEF Returned, Busy
  <2>2. CASE task[t].ret.code = "BUSY"
    <3>1. task[t].ret # Result(<<t, seq[t]>>)
      BY <1>11, <2>2, RetFacts, Parts DEF CallIds
    <3>2. std.active = NULL /\ Busy /\ task[t].nr = "RESTART_LAST"
      BY <2>1, <2>2, <3>1 DEF CallAt
    <3>3. Entering(t)' /\ ~Executing(t)' /\ ~Returned(t)'
      BY <1>2, <1>4, <1>6, <2>2 DEF Entering, Executing, Returned
    <3>4. QED BY <1>1, <1>4, <1>6, <2>1, <3>2, <3>3 DEF CallAt
  <2>3. CASE task[t].ret.code # "BUSY"
    <3>1. ~Entering(t)' /\ ~Executing(t)' /\ Returned(t)'
      BY <1>2, <1>4, <1>6, <2>3 DEF Entering, Executing, Returned
    <3>2. QED BY <1>1, <1>4, <1>6, <2>1, <2>3, <3>1 DEF CallAt
  <2>4. QED BY <2>2, <2>3
<1>12. QED BY <1>1, <1>8, <1>9, <1>10, <1>11, LinuxInv, Parts

(* SMC_SC_RESTART_LAST, after an interrupt or when the CPU was idle: only   *)
(* callers are told so, and then their call is pending.                     *)
LEMMA RestartLastInv ==
  ASSUME SmcInv, NEW t \in Tasks, task[t].pc = "out",
         task[t].ret.code \in {"INTERRUPTED", "CPU_IDLE"}, RestartLast(t),
         idleDone' \in 0..MaxDone,
         UNCHANGED <<api, smcLock, seq, answer, std, sec, fiq, smt, runs>>
  PROVE  SmcInv'
<1>1. t \in Callers /\ t \notin Cpus
  BY Parts DEF WorkerAsks
<1>2. task' = [task EXCEPT ![t] = [task[t] EXCEPT !.pc = "enter", !.nr = "RESTART_LAST"]]
  BY DEF RestartLast
<1>3. PICK r : r = [task[t] EXCEPT !.pc = "enter", !.nr = "RESTART_LAST"]
  OBVIOUS
<1>4. /\ r \in TaskType /\ r.pc = "enter" /\ r.cpu = task[t].cpu
      /\ r.nr = "RESTART_LAST" /\ r.ret = task[t].ret
  BY <1>3, Fields DEF TaskType
<1>5. task'[t] = r /\ task[t].cpu = NULL
  BY <1>2, <1>3, Fields, Parts DEF OnCpu, AtCpu
<1>6. Step(t, r)
  BY <1>2, <1>3, <1>4, <1>5 DEF Step
<1>7. AtCpu(t)'
  BY <1>4, <1>5 DEF AtCpu, OnCpu
<1>8. smcLock = t /\ CallerAsks(t)'
  BY <1>1, <1>4, <1>5, Parts DEF CallerAsks, Smp
<1>9. CallAt(t)'
  <2>1. CallAt(t) /\ Returned(t) /\ Busy' = Busy
    BY <1>1, <1>8, Parts DEF Returned, Busy
  <2>2. task[t].ret # Result(<<t, seq[t]>>)
    BY <1>1, RetFacts, Parts DEF CallIds
  <2>3. std.active = NULL /\ Busy
    BY <2>1, <2>2 DEF CallAt
  <2>4. Entering(t)' /\ ~Executing(t)' /\ ~Returned(t)'
    BY <1>4, <1>5 DEF Entering, Executing, Returned
  <2>5. QED BY <1>4, <1>5, <2>1, <2>3, <2>4 DEF CallAt
<1>10. QED BY <1>1, <1>6, <1>7, <1>8, <1>9, LinuxInv, Parts

(* The three ways there.                                                    *)
LEMMA AgainInv ==
  ASSUME SmcInv, NEW t \in Tasks, Interrupted(t) \/ IdleWait(t) \/ IdleTimeout(t)
  PROVE  SmcInv'
<1>1. CASE Interrupted(t)
  <2>1. idleDone' \in 0..MaxDone
    BY <1>1, Parts DEF Interrupted
  <2>2. QED BY <1>1, <2>1, RestartLastInv DEF Interrupted
<1>2. CASE IdleWait(t)
  <2>1. idleDone' \in 0..MaxDone
    <3>1. idleDone \in 0..MaxDone /\ idleDone > 0 /\ idleDone' = idleDone - 1
      BY <1>2, Parts DEF IdleWait
    <3>2. QED BY <3>1, SmStdCallAssumption
  <2>2. QED BY <1>2, <2>1, RestartLastInv DEF IdleWait
<1>3. CASE IdleTimeout(t)
  <2>1. idleDone' \in 0..MaxDone
    BY <1>3, Parts DEF IdleTimeout
  <2>2. QED BY <1>3, <2>1, RestartLastInv DEF IdleTimeout
<1>4. QED BY <1>1, <1>2, <1>3

(* A task that does nothing.                                                *)
LEMMA NoTaskFacts ==
  /\ NoTask \in TaskType /\ NoTask.pc = "idle" /\ NoTask.cpu = NULL /\ NoTask.nr = "NOP"
  /\ NoTask.ret.code = "NOP_DONE"
<1>1. Code("NOP_DONE") \in Rets /\ Code("NOP_DONE").code = "NOP_DONE"
  BY RetFacts DEF Errors
<1>2. 0 \in 0..Retry
  BY SmStdCallAssumption
<1>3. QED BY <1>1, <1>2 DEF NoTask, TaskType

(* A kworker begins, or ends, an SMC_SC_NOP.                                *)
LEMMA NopLinuxInv ==
  ASSUME SmcInv, NEW c \in Cpus, NopBegin(c) \/ NopEnd(c)
  PROVE  SmcInv'
<1>1. c \in Tasks /\ c \notin Callers /\ WorkerAsks(c)
  BY Parts
<1>2. CASE NopBegin(c)
  <2>1. /\ task[c].pc = "idle"
        /\ task' = [task EXCEPT ![c] = [task[c] EXCEPT !.pc = "enter", !.nr = "NOP"]]
        /\ UNCHANGED <<api, smcLock, idleDone, seq, answer, std, sec, fiq, smt, runs>>
    BY <1>2 DEF NopBegin
  <2>2. PICK r : r = [task[c] EXCEPT !.pc = "enter", !.nr = "NOP"]
    OBVIOUS
  <2>3. /\ r \in TaskType /\ r.pc = "enter" /\ r.cpu = task[c].cpu /\ r.nr = "NOP"
        /\ r.ret = task[c].ret
    BY <1>1, <2>2, Fields DEF TaskType
  <2>4. task'[c] = r /\ task[c].cpu = NULL
    BY <1>1, <2>1, <2>2, Fields, Parts DEF OnCpu, AtCpu
  <2>5. Step(c, r)
    BY <2>1, <2>2, <2>3, <2>4 DEF Step
  <2>6. AtCpu(c)' /\ WorkerAsks(c)'
    BY <1>1, <2>3, <2>4 DEF AtCpu, OnCpu, WorkerAsks
  <2>7. QED BY <1>1, <2>1, <2>5, <2>6, LinuxInv, Parts
<1>3. CASE NopEnd(c)
  <2>1. /\ task[c].pc = "out" /\ idleDone < MaxDone /\ idleDone' = idleDone + 1
        /\ task' = [task EXCEPT ![c] = NoTask]
        /\ UNCHANGED <<api, smcLock, seq, answer, std, sec, fiq, smt, runs>>
    BY <1>3 DEF NopEnd, Complete, Finished
  <2>2. idleDone' \in 0..MaxDone
    BY <2>1, Parts, SmStdCallAssumption
  <2>3. task'[c] = NoTask /\ task[c].cpu = NULL
    BY <1>1, <2>1, Fields, Parts DEF OnCpu, AtCpu
  <2>4. Step(c, NoTask)
    BY <2>1, <2>3, NoTaskFacts DEF Step
  <2>5. AtCpu(c)' /\ WorkerAsks(c)'
    BY <2>3, NoTaskFacts DEF AtCpu, OnCpu, WorkerAsks
  <2>6. QED BY <1>1, <2>1, <2>2, <2>4, <2>5, LinuxInv, Parts
<1>4. QED BY <1>2, <1>3

(* A caller gets smc_lock: no call is pending.                              *)
LEMMA CallBeginInv ==
  ASSUME SmcInv, NEW t \in Callers, CallBegin(t)
  PROVE  SmcInv'
<1>1. /\ task[t].pc = "idle" /\ smcLock = NULL /\ smcLock' = t /\ idleDone' = 0
      /\ seq' = [seq EXCEPT ![t] = 1 - @] /\ runs' = [runs EXCEPT ![t] = 0]
      /\ task' = [task EXCEPT ![t] = [task[t] EXCEPT !.pc = "enter", !.nr = "CALL"]]
      /\ UNCHANGED <<api, answer, std, sec, fiq, smt>>
  BY DEF CallBegin
<1>2. t \in Tasks /\ t \notin Cpus
  BY Parts
<1>3. PICK r : r = [task[t] EXCEPT !.pc = "enter", !.nr = "CALL"]
  OBVIOUS
<1>4. /\ r \in TaskType /\ r.pc = "enter" /\ r.cpu = task[t].cpu /\ r.nr = "CALL"
      /\ r.ret = task[t].ret
  BY <1>2, <1>3, Fields DEF TaskType
<1>5. task'[t] = r /\ task[t].cpu = NULL
  BY <1>1, <1>2, <1>3, Fields, Parts DEF OnCpu, AtCpu
<1>6. Step(t, r) /\ AtCpu(t)'
  BY <1>1, <1>3, <1>4, <1>5 DEF Step, AtCpu, OnCpu
<1>7. /\ task' \in [Tasks -> TaskType] /\ CpusAgree'
      /\ \A u \in Tasks : u # t => task'[u] = task[u]
  BY <1>2, <1>6, OneTask
<1>8. RestOK'
  <2>1. 0 \in 0..MaxDone /\ seq' \in [Callers -> {0, 1}]
    <3>1. \A u \in Callers : seq[u] \in {0, 1}
      BY Parts
    <3>2. 1 - seq[t] \in {0, 1}
      BY <3>1
    <3>3. QED BY <1>1, <3>2, Parts, SmStdCallAssumption
  <2>2. runs' \in [Callers -> 0..2]
    BY <1>1, Parts
  <2>3. QED BY <1>1, <2>1, <2>2, Parts DEF RestOK
<1>9. TypeOK'
  BY <1>7, <1>8 DEF TypeOK, TaskType, StdType, RestOK
<1>10. \A u \in Callers : CallerAsks(u)'
  <2>1. SUFFICES ASSUME NEW u \in Callers PROVE CallerAsks(u)'
    OBVIOUS
  <2>2. CallerAsks(u) /\ u \in Tasks /\ u # NULL
    BY Parts
  <2>3. CASE u = t
    BY <1>1, <1>4, <1>5, <2>2, <2>3 DEF CallerAsks, Smp
  <2>4. CASE u # t
    BY <1>1, <1>7, <2>2, <2>4 DEF CallerAsks, Smp
  <2>5. QED BY <2>3, <2>4
<1>11. \A c \in Cpus : WorkerAsks(c)'
  BY <1>2, <1>7, Parts DEF WorkerAsks
<1>12. ~Busy /\ std.active = NULL /\ Busy' = Busy
  BY <1>1, Parts DEF StdInv, Busy
<1>13. StdInv'
  BY <1>1, <1>12, Parts DEF StdInv
<1>14. \A u \in Callers : smcLock' = u => CallAt(u)'
  <2>1. Entering(t)' /\ ~Executing(t)' /\ ~Returned(t)'
    BY <1>4, <1>5 DEF Entering, Executing, Returned
  <2>2. runs'[t] = 0
    BY <1>1, Parts
  <2>3. CallAt(t)'
    BY <1>1, <1>4, <1>5, <1>12, <2>1, <2>2 DEF CallAt, Busy
  <2>4. QED BY <1>1, <2>3
<1>15. QED BY <1>7, <1>9, <1>10, <1>11, <1>13, <1>14 DEF SmcInv

(* A caller returns with the result of its own call, which was executed     *)
(* once, and nothing is pending any more.                                   *)
LEMMA CallEndFacts ==
  ASSUME SmcInv, NEW t \in Callers, CallEnd(t)
  PROVE  /\ smcLock = t /\ t \in Tasks /\ task[t].pc = "out" /\ task[t].cpu = NULL
         /\ task[t].ret = Result(<<t, seq[t]>>) /\ runs[t] = 1
         /\ ~Busy /\ std.active = NULL
<1>1. task[t].pc = "out" /\ task[t].ret.code \notin {"INTERRUPTED", "CPU_IDLE"}
  BY DEF CallEnd, Finished
<1>2. smcLock = t /\ t \in Tasks /\ task[t].cpu = NULL
  BY <1>1, Fields, Parts DEF CallerAsks, AtCpu, OnCpu
<1>3. CallAt(t) /\ Returned(t)
  BY <1>1, <1>2, Parts DEF Returned
<1>4. QED BY <1>1, <1>2, <1>3 DEF CallAt

(* It drops smc_lock.                                                       *)
LEMMA CallEndInv ==
  ASSUME SmcInv, NEW t \in Callers, CallEnd(t)
  PROVE  SmcInv'
<1>1. /\ answer' = [answer EXCEPT ![t] = task[t].ret] /\ smcLock' = NULL
      /\ task' = [task EXCEPT ![t] = NoTask]
      /\ UNCHANGED <<api, idleDone, seq, std, sec, fiq, smt, runs>>
  BY DEF CallEnd
<1>2. smcLock = t /\ t \in Tasks /\ t \notin Cpus /\ task[t].cpu = NULL /\ ~Busy /\ std.active = NULL
  BY CallEndFacts, Parts
<1>3. task'[t] = NoTask
  BY <1>1, <1>2, Parts
<1>4. Step(t, NoTask) /\ AtCpu(t)'
  BY <1>1, <1>2, <1>3, NoTaskFacts DEF Step, AtCpu, OnCpu
<1>5. /\ task' \in [Tasks -> TaskType] /\ CpusAgree'
      /\ \A u \in Tasks : u # t => task'[u] = task[u]
  BY <1>2, <1>4, OneTask
<1>6. RestOK'
  <2>1. answer' \in [Callers -> Rets]
    BY <1>1, <1>2, Fields, Parts
  <2>2. QED BY <1>1, <2>1, Parts DEF RestOK
<1>7. TypeOK'
  BY <1>5, <1>6 DEF TypeOK, TaskType, StdType, RestOK
<1>8. \A u \in Callers : CallerAsks(u)'
  <2>1. SUFFICES ASSUME NEW u \in Callers PROVE CallerAsks(u)'
    OBVIOUS
  <2>2. CallerAsks(u) /\ u \in Tasks /\ u # NULL
    BY Parts
  <2>3. CASE u = t
    BY <1>1, <1>3, <2>2, <2>3, NoTaskFacts DEF CallerAsks, Smp
  <2>4. CASE u # t
    BY <1>1, <1>2, <1>5, <2>2, <2>4 DEF CallerAsks, Smp
  <2>5. QED BY <2>3, <2>4
<1>9. \A c \in Cpus : WorkerAsks(c)'
  BY <1>2, <1>5, Parts DEF WorkerAsks
<1>10. StdInv'
  BY <1>1, <1>2, Parts DEF StdInv, Busy
<1>11. \A u \in Callers : smcLock' # u
  BY <1>1, Parts
<1>12. QED BY <1>5, <1>7, <1>8, <1>9, <1>10, <1>11 DEF SmcInv

(* smc: the CPU has no FIQ to restart, so it enters sm_sched_nonsecure's    *)
(* return.                                                                  *)
LEMMA SmcStepInv ==
  ASSUME SmcInv, NEW t \in Tasks, Smc(t)
  PROVE  SmcInv'
<1>1. PICK c \in Cpus : /\ c = task[t].cpu /\ task[t].pc = "smc" /\ sec[c] = "ns" /\ c \notin fiq
  BY Fields DEF Smc, OnCpu, AtCpu
<1>2. /\ sec' = [sec EXCEPT ![c] = "smc"]
      /\ task' = [task EXCEPT ![t] = [task[t] EXCEPT !.pc = "in"]]
      /\ UNCHANGED <<api, smcLock, idleDone, seq, answer, std, fiq, smt, runs>>
  BY <1>1 DEF Smc, Goto
<1>3. PICK r : r = [task[t] EXCEPT !.pc = "in"]
  OBVIOUS
<1>4. /\ r \in TaskType /\ r.pc = "in" /\ r.cpu = c /\ r.nr = task[t].nr /\ r.ret = task[t].ret
  BY <1>1, <1>3, Fields DEF TaskType
<1>5. task'[t] = r /\ sec'[c] = "smc" /\ c # NULL /\ \A d \in Cpus : d # c => sec'[d] = sec[d]
  BY <1>2, <1>3, Parts
<1>6. Step(t, r) /\ AtCpu(t)'
  <2>1. Step(t, r)
    BY <1>1, <1>2, <1>3, <1>4, <1>5 DEF Step
  <2>2. AtCpu(t)'
    BY <1>1, <1>2, <1>4, <1>5 DEF AtCpu, OnCpu
  <2>3. QED BY <2>1, <2>2
<1>7. /\ t \in Callers => smcLock = t /\ CallerAsks(t)'
      /\ t \in Cpus => WorkerAsks(t)'
  BY <1>1, <1>2, <1>4, <1>5, AsksSame
<1>8. ASSUME t \in Callers PROVE CallAt(t)'
  <2>1. CallAt(t) /\ Entering(t)
    BY <1>1, <1>7, <1>8, Parts DEF Entering
  <2>2. Entering(t)' /\ ~Executing(t)' /\ ~Returned(t)' /\ Busy' = Busy
    BY <1>2, <1>4, <1>5 DEF Entering, Executing, Returned, Busy, InSecure
  <2>3. QED BY <1>2, <1>4, <1>5, <2>1, <2>2 DEF CallAt
<1>9. RestOK'
  BY <1>2, Parts DEF RestOK
<1>10. StdInv'
  BY <1>2, <1>5, Parts DEF StdInv, Busy
<1>11. QED BY <1>2, <1>6, <1>7, <1>8, <1>9, <1>10, StepInv

----------------------------------------------------------------------------
(* Trusty.                                                                  *)

(* The smc of the task on CPU c returns q to Linux.                         *)
LEMMA ReturnInv ==
  ASSUME SmcInv, NEW c \in Cpus, NEW t \in Tasks, task[t].cpu = c, task[t].pc = "in",
         sec[c] # "ns", c \notin fiq, NEW q \in Rets, Return(c, q), q.code # "FIQ_INTERRUPTED",
         sec' = [sec EXCEPT ![c] = "ns"], std' \in StdType, StdInv',
         UNCHANGED <<smcLock, idleDone, seq, answer, api, fiq, smt, runs>>,
         smcLock # t => UNCHANGED std,
         t \in Cpus => q.code \in {"NOP_DONE", "NOP_INTERRUPTED"},
         t \in Callers => /\ q.code \in {"INTERRUPTED", "CPU_IDLE", "BUSY", "OK"}
                          /\ Smp => q.code # "BUSY"
                          /\ Busy' => std'.args = <<t, seq[t]>>
                          /\ std'.signalled => runs[t] = 0
                          /\ std'.done => runs[t] = 1
                          /\ std'.active = NULL
                          /\ \/ q.code \in {"INTERRUPTED", "CPU_IDLE"} /\ Busy'
                             \/ q.code = "BUSY" /\ Busy' /\ task[t].nr = "RESTART_LAST"
                             \/ q = Result(<<t, seq[t]>>) /\ ~Busy' /\ runs[t] = 1
  PROVE  SmcInv'
<1>1. task' = [task EXCEPT ![t] = Informed(t, q)]
  BY ReturnOne
<1>2. PICK r : r = Informed(t, q)
  OBVIOUS
<1>3. /\ r \in TaskType /\ r.pc = "ret" /\ r.cpu = c /\ r.nr = task[t].nr /\ r.ret = q
  BY <1>2, Fields DEF TaskType, Informed
<1>4. task'[t] = r /\ sec'[c] = "ns" /\ c # NULL /\ \A d \in Cpus : d # c => sec'[d] = sec[d]
  BY <1>1, <1>2, Parts
<1>5. Step(t, r) /\ AtCpu(t)'
  <2>1. Step(t, r)
    BY <1>1, <1>2, <1>3, <1>4 DEF Step
  <2>2. AtCpu(t)'
    BY <1>3, <1>4 DEF AtCpu, OnCpu
  <2>3. QED BY <2>1, <2>2
<1>6. ASSUME t \in Callers PROVE smcLock = t /\ CallerAsks(t)' /\ CallAt(t)'
  <2>1. smcLock = t /\ CallerAsks(t)
    BY <1>6, Parts DEF CallerAsks
  <2>2. CallerAsks(t)'
    BY <1>3, <1>4, <1>6, <2>1 DEF CallerAsks, Smp
  <2>3. ~Entering(t)' /\ ~Executing(t)'
    BY <1>3, <1>4 DEF Entering, Executing, InSecure
  <2>4. CallAt(t)'
    BY <1>3, <1>4, <1>6, <2>3 DEF CallAt
  <2>5. QED BY <2>1, <2>2, <2>4
<1>7. ASSUME t \in Cpus PROVE WorkerAsks(t)'
  BY <1>3, <1>4, <1>7, Parts DEF WorkerAsks
<1>8. RestOK'
  BY Parts DEF RestOK
<1>9. QED BY <1>5, <1>6, <1>7, <1>8, StepInv

(* CPU c goes on inside the secure world, at p.                             *)
LEMMA InsideInv ==
  ASSUME SmcInv, NEW c \in Cpus, NEW t \in Tasks, task[t].cpu = c, task[t].pc = "in",
         sec[c] # "ns", c \notin fiq, NEW p \in {"run", "get", "irq"},
         sec' = [sec EXCEPT ![c] = p], std' \in StdType, StdInv',
         smt' \in [state : {"wait", "ready", "running", "blocked"}, cpu : Cpus \cup {NULL}],
         UNCHANGED <<linux, fiq, runs>>,
         smcLock # t => UNCHANGED std,
         t \in Callers => /\ Busy' /\ std'.args = <<t, seq[t]>> /\ std'.active = c
                          /\ std'.signalled => runs[t] = 0
                          /\ std'.done => runs[t] = 1
                          /\ std'.restarted => task[t].nr = "RESTART_LAST"
  PROVE  SmcInv'
<1>0. UNCHANGED <<task, smcLock, idleDone, seq, answer, api>>
  BY DEF linux
<1>1. task' = [task EXCEPT ![t] = task[t]] /\ task'[t] = task[t] /\ task[t] \in TaskType
  BY <1>0, Fields, Parts
<1>2. sec'[c] = p /\ c # NULL /\ \A d \in Cpus : d # c => sec'[d] = sec[d]
  BY Parts
<1>3. Step(t, task[t]) /\ AtCpu(t)'
  BY <1>0, <1>1, <1>2, Parts DEF Step, AtCpu, OnCpu
<1>4. /\ t \in Callers => smcLock = t /\ CallerAsks(t)'
      /\ t \in Cpus => WorkerAsks(t)'
  BY <1>0, AsksSame
<1>5. ASSUME t \in Callers PROVE CallAt(t)'
  <2>1. ~Entering(t)' /\ ~Returned(t)'
    BY <1>0, <1>2 DEF Entering, Returned
  <2>2. QED BY <1>0, <1>5, <2>1 DEF CallAt
<1>6. RestOK'
  BY <1>0, Parts DEF RestOK
<1>7. QED BY <1>0, <1>3, <1>4, <1>5, <1>6, StepInv

(* The task that a CPU in the secure world works for: a kworker that lends  *)
(* it, or the holder of smc_lock.                                           *)
LEMMA Within ==
  ASSUME SmcInv, NEW c \in Cpus, sec[c] # "ns", c \notin fiq
  PROVE  \E t \in Tasks :
           /\ task[t].cpu = c /\ task[t].pc = "in" /\ Caller(c) = t /\ Number(c) = task[t].nr
           /\ t \in Cpus => t \notin Callers /\ smcLock # t /\ Number(c) = "NOP" /\ std.active # c
           /\ t \in Callers =>
                /\ t \notin Cpus /\ smcLock = t /\ Number(c) \in {"CALL", "RESTART_LAST"}
                /\ CallAt(t)
                /\ sec[c] = "smc" => Entering(t)
                /\ sec[c] \in InSecure => Executing(t)
<1>1. PICK t \in Tasks : /\ task[t].cpu = c /\ task[t].pc = "in"
                         /\ Caller(c) = t /\ Number(c) = task[t].nr
                         /\ \A u \in Tasks : task[u].cpu = c => u = t
  BY CallerOf
<1>2. ASSUME t \in Cpus
      PROVE  t \notin Callers /\ smcLock # t /\ Number(c) = "NOP" /\ std.active # c
  <2>1. t \notin Callers /\ smcLock # t
    BY <1>2, Parts
  <2>2. Number(c) = "NOP"
    BY <1>1, <1>2, Parts DEF WorkerAsks
  <2>3. std.active # c
    <3>1. SUFFICES ASSUME std.active = c PROVE FALSE
      OBVIOUS
    <3>2. smcLock \in Callers /\ task[smcLock].cpu = c
      BY <3>1, Active, Parts
    <3>3. QED BY <1>1, <2>1, <3>2, Parts
  <2>4. QED BY <2>1, <2>2, <2>3
<1>3. ASSUME t \in Callers
      PROVE  /\ t \notin Cpus /\ smcLock = t /\ Number(c) \in {"CALL", "RESTART_LAST"}
             /\ CallAt(t)
             /\ sec[c] = "smc" => Entering(t)
             /\ sec[c] \in InSecure => Executing(t)
  <2>1. t \notin Cpus /\ smcLock = t
    BY <1>1, <1>3, Parts DEF CallerAsks
  <2>2. CallAt(t) /\ task[t].nr \in {"CALL", "RESTART_LAST"}
    BY <1>3, <2>1, Holder
  <2>3. QED BY <1>1, <2>1, <2>2 DEF Entering, Executing
<1>4. QED BY <1>1, <1>2, <1>3

(* SMC_SC_NOP.                                                              *)
LEMMA NopInv ==
  ASSUME SmcInv, NEW c \in Cpus, Nop(c)
  PROVE  SmcInv'
<1>1. /\ sec[c] = "smc" /\ c \notin fiq /\ Number(c) = "NOP" /\ sec' = [sec EXCEPT ![c] = "run"]
      /\ UNCHANGED <<linux, std, fiq, smt, runs>>
  BY DEF Nop, Inside
<1>2. PICK t \in Tasks : /\ task[t].cpu = c /\ task[t].pc = "in"
                         /\ t \in Cpus /\ t \notin Callers
  BY <1>1, Within, Parts
<1>3. \A d \in Cpus : sec'[d] = "get" => sec[d] = "get"
  BY <1>1, Parts
<1>4. StdInv'
  BY <1>1, <1>3, Parts DEF StdInv, Busy, linux
<1>5. QED BY <1>1, <1>2, <1>4, InsideInv, Parts

(* sm_queue_stdcall: a call finds no call pending, a restart finds its own, *)
(* with no CPU active, and so neither is refused.                           *)
LEMMA QueueInv ==
  ASSUME SmcInv, NEW c \in Cpus, sm_queue_stdcall(c)
  PROVE  SmcInv'
<1>1. sec[c] = "smc" /\ c \notin fiq /\ Number(c) # "NOP"
  BY DEF sm_queue_stdcall, Inside
<1>2. PICK t \in Tasks :
        /\ task[t].cpu = c /\ task[t].pc = "in" /\ Caller(c) = t /\ Number(c) = task[t].nr
        /\ t \in Callers /\ t \notin Cpus /\ smcLock = t
        /\ Number(c) \in {"CALL", "RESTART_LAST"} /\ CallAt(t) /\ Entering(t)
  BY <1>1, Within, Parts
<1>3. /\ std.active = NULL
      /\ task[t].nr = "CALL" => ~Busy /\ runs[t] = 0
      /\ task[t].nr = "RESTART_LAST" => Busy
  BY <1>2 DEF CallAt
<1>4. Refusal(c) = "none" /\ (MayRestart(c) <=> task[t].nr = "RESTART_LAST")
  BY <1>2, <1>3 DEF Refusal, MayRestart
<1>5. /\ std' = Queued(c) /\ sec' = [sec EXCEPT ![c] = "run"] /\ UNCHANGED task
      /\ UNCHANGED <<smcLock, idleDone, seq, answer, api, fiq, smt, runs>>
  BY <1>4 DEF sm_queue_stdcall
<1>6. UNCHANGED <<linux, fiq, runs>>
  BY <1>5 DEF linux
<1>7. \A d \in Cpus : sec'[d] = "get" => sec[d] = "get"
  BY <1>5, Parts
<1>8. \A d \in Cpus : sec[d] # "get"
  BY <1>3, Parts DEF StdInv
<1>9. CASE task[t].nr = "RESTART_LAST"
  <2>1. std' = [std EXCEPT !.active = c, !.restarted = TRUE]
    BY <1>4, <1>5, <1>9 DEF Queued
  <2>2. /\ std' \in StdType /\ std'.active = c
        /\ std'.signalled = std.signalled /\ std'.done = std.done
        /\ std'.args = std.args /\ std'.ret = std.ret
    BY <2>1, Parts DEF StdType
  <2>3. Busy' /\ Busy
    BY <1>3, <1>9, <2>2 DEF Busy
  <2>4. StdInv'
    BY <1>2, <1>5, <1>7, <1>8, <2>2, Parts DEF StdInv
  <2>5. /\ std'.args = <<t, seq[t]>> /\ (std'.signalled => runs[t] = 0)
        /\ (std'.done => runs[t] = 1)
    BY <1>2, <2>2, <2>3 DEF CallAt
  <2>6. QED BY <1>1, <1>2, <1>5, <1>6, <1>9, <2>2, <2>3, <2>4, <2>5, InsideInv, Parts
<1>10. CASE task[t].nr = "CALL"
  <2>1. std' = [signalled |-> TRUE, done |-> FALSE, ret |-> Code("INTERNAL_FAILURE"),
                args |-> <<t, seq[t]>>, active |-> c, restarted |-> FALSE]
    BY <1>2, <1>4, <1>5, <1>10 DEF Queued
  <2>2. Code("INTERNAL_FAILURE") \in Rets /\ <<t, seq[t]>> \in CallIds
    BY <1>2, RetFacts, Parts DEF Errors, CallIds
  <2>3. /\ std' \in StdType /\ std'.active = c /\ std'.signalled /\ ~std'.done
        /\ std'.args = <<t, seq[t]>> /\ ~std'.restarted
    BY <2>1, <2>2 DEF StdType
  <2>4. Busy'
    BY <2>3 DEF Busy
  <2>5. StdInv'
    BY <1>2, <1>5, <1>7, <1>8, <2>3, Parts DEF StdInv
  <2>6. QED BY <1>1, <1>2, <1>3, <1>5, <1>6, <1>10, <2>3, <2>4, <2>5, InsideInv, Parts
<1>11. QED BY <1>2, <1>9, <1>10

(* sm_wait_for_smcall on a CPU that is only lent.                           *)
LEMMA IdleNopInv ==
  ASSUME SmcInv, NEW c \in Cpus, IdleNop(c)
  PROVE  SmcInv'
<1>1. /\ sec[c] = "run" /\ c \notin fiq /\ std.active # c /\ Return(c, Code("NOP_DONE"))
      /\ sec' = [sec EXCEPT ![c] = "ns"]
      /\ UNCHANGED <<api, smcLock, idleDone, seq, answer, std, fiq, smt, runs>>
  BY DEF IdleNop, Inside
<1>2. PICK t \in Tasks : /\ task[t].cpu = c /\ task[t].pc = "in" /\ t \notin Callers /\ t \in Cpus
  <2>1. PICK t \in Tasks : /\ task[t].cpu = c /\ task[t].pc = "in"
                           /\ t \in Callers => CallAt(t) /\ Executing(t)
    BY <1>1, Within DEF InSecure
  <2>2. t \notin Callers
    BY <1>1, <2>1 DEF CallAt
  <2>3. QED BY <2>1, <2>2, Parts
<1>3. PICK q \in Rets : q = Code("NOP_DONE") /\ q.code = "NOP_DONE"
  BY RetFacts DEF Errors
<1>4. \A d \in Cpus : sec'[d] = "get" => sec[d] = "get"
  BY <1>1, Parts
<1>5. StdInv' /\ std' \in StdType
  BY <1>1, <1>4, Parts DEF StdInv, Busy
<1>6. QED BY <1>1, <1>2, <1>3, <1>5, ReturnInv

(* ... or that a call is active on.                                         *)
LEMMA IdleCheckInv ==
  ASSUME SmcInv, NEW c \in Cpus, IdleCheck(c)
  PROVE  SmcInv'
<1>1. /\ sec[c] = "run" /\ c \notin fiq /\ std.active = c /\ sec' = [sec EXCEPT ![c] = "get"]
      /\ UNCHANGED <<linux, std, fiq, smt, runs>>
  BY DEF IdleCheck, Inside
<1>2. PICK t \in Tasks : /\ task[t].cpu = c /\ task[t].pc = "in" /\ t \in Callers /\ t \notin Cpus
                         /\ CallAt(t) /\ Executing(t)
  BY <1>1, Within, Parts DEF InSecure
<1>3. \A d \in Cpus : sec'[d] = "get" => sec[d] = "get" \/ d = c
  BY <1>1, Parts
<1>4. StdInv' /\ std' \in StdType /\ Busy' = Busy
  BY <1>1, <1>3, Parts DEF StdInv, Busy, linux
<1>5. /\ Busy' /\ std'.args = <<t, seq[t]>> /\ std'.active = c
      /\ (std'.signalled => runs[t] = 0) /\ (std'.done => runs[t] = 1)
      /\ (std'.restarted => task[t].nr = "RESTART_LAST")
  BY <1>1, <1>2, <1>4 DEF CallAt
<1>6. QED BY <1>1, <1>2, <1>4, <1>5, InsideInv, Parts

(* sm_get_stdcall_ret: the call is done and its result is fetched, or it is *)
(* still pending and Linux is told to come back.                            *)
LEMMA GetRetInv ==
  ASSUME SmcInv, NEW c \in Cpus, GetRet(c)
  PROVE  SmcInv'
<1>1. sec[c] = "get" /\ c \notin fiq /\ std.active = c
  BY Parts DEF GetRet, Inside, StdInv
<1>2. /\ Return(c, StdcallRet) /\ std' = Fetched /\ sec' = [sec EXCEPT ![c] = "ns"]
      /\ UNCHANGED <<api, smcLock, idleDone, seq, answer, fiq, smt, runs>>
  BY <1>1 DEF GetRet
<1>3. PICK t \in Tasks : /\ task[t].cpu = c /\ task[t].pc = "in" /\ t \in Callers /\ t \notin Cpus
                         /\ smcLock = t /\ CallAt(t) /\ Executing(t)
  BY <1>1, Within, Parts DEF InSecure
<1>4. /\ Busy /\ std.args = <<t, seq[t]>> /\ (std.signalled => runs[t] = 0)
      /\ (std.done => runs[t] = 1) /\ (std.restarted => task[t].nr = "RESTART_LAST")
  BY <1>3 DEF CallAt
<1>5. /\ std' \in StdType /\ std'.active = NULL /\ std'.done = FALSE
      /\ std'.signalled = std.signalled /\ std'.args = std.args
  BY <1>2, Parts DEF Fetched, StdType
<1>6. Busy' = std.signalled /\ (std.done => ~std.signalled) /\ (~std.done => std.signalled)
  <2>1. std.signalled \in BOOLEAN /\ std.done \in BOOLEAN
    BY Parts DEF StdType
  <2>2. QED BY <1>4, <1>5, <2>1, Parts DEF Busy, StdInv
<1>7. \A d \in Cpus : sec'[d] # "get"
  <2>1. \A d \in Cpus : d # c => sec[d] # "get"
    BY <1>1, Parts DEF StdInv
  <2>2. QED BY <1>2, <2>1, Parts
<1>8. StdInv'
  BY <1>2, <1>3, <1>5, <1>7, Parts DEF StdInv
<1>9. CASE std.done
  <2>1. PICK q \in Rets : q = StdcallRet /\ q = Result(<<t, seq[t]>>) /\ q.code = "OK"
    <3>1. <<t, seq[t]>> \in CallIds
      BY <1>3, Parts DEF CallIds
    <3>2. StdcallRet = Result(<<t, seq[t]>>)
      BY <1>4, <1>9, Parts DEF StdcallRet, StdInv
    <3>3. QED BY <3>1, <3>2, RetFacts
  <2>2. QED BY <1>1, <1>2, <1>3, <1>4, <1>5, <1>6, <1>8, <1>9, <2>1, ReturnInv
<1>10. CASE ~std.done
  <2>1. PICK q \in Rets : /\ q = StdcallRet /\ q.code \in {"INTERRUPTED", "CPU_IDLE", "BUSY"}
                          /\ q.code = "BUSY" => ~Smp /\ std.restarted
    <3>1. \A e \in {"INTERRUPTED", "CPU_IDLE", "BUSY"} : Code(e) \in Rets /\ Code(e).code = e
      BY RetFacts DEF Errors
    <3>2. QED BY <1>10, <3>1 DEF StdcallRet
  <2>2. QED BY <1>1, <1>2, <1>3, <1>4, <1>5, <1>6, <1>8, <1>10, <2>1, ReturnInv
<1>11. QED BY <1>9, <1>10

(* An interrupt takes the CPU from whatever secure thread it runs.          *)
LEMMA HandleIrqInv ==
  ASSUME SmcInv, NEW c \in Cpus, HandleIrq(c)
  PROVE  SmcInv'
<1>1. /\ sec[c] = "run" /\ c \notin fiq /\ sec' = [sec EXCEPT ![c] = "irq"]
      /\ smt' = IF smt.cpu = c THEN [state |-> "ready", cpu |-> NULL] ELSE smt
      /\ UNCHANGED <<linux, std, fiq, runs>>
  BY DEF HandleIrq, Inside
<1>2. PICK t \in Tasks : /\ task[t].cpu = c /\ task[t].pc = "in"
                         /\ t \in Callers => smcLock = t /\ CallAt(t) /\ Executing(t)
  BY <1>1, Within DEF InSecure
<1>3. /\ smt' \in [state : {"wait", "ready", "running", "blocked"}, cpu : Cpus \cup {NULL}]
      /\ smt'.state # "wait" => smt.state # "wait"
      /\ smt'.cpu # NULL => smt'.state = "running"
  <2>1. CASE smt.cpu = c
    BY <1>1, <2>1, Parts DEF StdInv
  <2>2. CASE smt.cpu # c
    BY <1>1, <2>2, Parts DEF StdInv
  <2>3. QED BY <2>1, <2>2
<1>4. \A d \in Cpus : sec'[d] = "get" => sec[d] = "get"
  BY <1>1, Parts
<1>5. StdInv' /\ std' \in StdType /\ Busy' = Busy
  BY <1>1, <1>3, <1>4, Parts DEF StdInv, Busy, linux
<1>6. t \in Callers => /\ Busy' /\ std'.args = <<t, seq[t]>> /\ std'.active = c
                       /\ (std'.signalled => runs[t] = 0) /\ (std'.done => runs[t] = 1)
                       /\ (std'.restarted => task[t].nr = "RESTART_LAST")
  BY <1>1, <1>2, <1>5 DEF CallAt
<1>7. QED BY <1>1, <1>2, <1>3, <1>5, <1>6, InsideInv

(* sm_irq_return_ns.                                                        *)
LEMMA IrqReturnInv ==
  ASSUME SmcInv, NEW c \in Cpus, IrqReturn(c)
  PROVE  SmcInv'
<1>1. /\ sec[c] = "irq" /\ c \notin fiq
      /\ Return(c, Code(IF std.active = c THEN "INTERRUPTED" ELSE "NOP_INTERRUPTED"))
      /\ std' = Released(c) /\ sec' = [sec EXCEPT ![c] = "ns"]
      /\ UNCHANGED <<api, smcLock, idleDone, seq, answer, fiq, smt, runs>>
  BY DEF IrqReturn, Inside
<1>2. PICK t \in Tasks : /\ task[t].cpu = c /\ task[t].pc = "in"
                         /\ t \in Cpus => t \notin Callers /\ std.active # c
                         /\ t \in Callers => /\ t \notin Cpus /\ smcLock = t
                                             /\ CallAt(t) /\ Executing(t)
  BY <1>1, Within DEF InSecure
<1>3. \A d \in Cpus : sec'[d] = "get" => sec[d] = "get" /\ d # c
  BY <1>1, Parts
<1>4. CASE t \in Callers
  <2>1. /\ Busy /\ std.active = c /\ std.args = <<t, seq[t]>>
        /\ (std.signalled => runs[t] = 0) /\ (std.done => runs[t] = 1)
    BY <1>2, <1>4 DEF CallAt
  <2>2. std' = [std EXCEPT !.active = NULL]
    BY <1>1, <2>1 DEF Released
  <2>3. /\ std' \in StdType /\ std'.active = NULL /\ std'.done = std.done /\ std'.ret = std.ret
        /\ std'.signalled = std.signalled /\ std'.args = std.args
    BY <2>2, Parts DEF StdType
  <2>4. Busy'
    BY <2>1, <2>3 DEF Busy
  <2>5. \A d \in Cpus : sec'[d] # "get"
    BY <1>3, <2>1, Parts DEF StdInv
  <2>6. StdInv'
    BY <1>1, <1>2, <1>4, <2>3, <2>5, Parts DEF StdInv
  <2>7. PICK q \in Rets : q = Code("INTERRUPTED") /\ q.code = "INTERRUPTED"
    BY RetFacts DEF Errors
  <2>8. Return(c, q)
    BY <1>1, <2>1, <2>7
  <2>9. QED BY <1>1, <1>2, <1>4, <2>1, <2>3, <2>4, <2>6, <2>7, <2>8, ReturnInv
<1>5. CASE t \in Cpus
  <2>1. UNCHANGED std
    BY <1>1, <1>2, <1>5 DEF Released
  <2>2. StdInv' /\ std' \in StdType
    BY <1>1, <1>3, <2>1, Parts DEF StdInv, Busy
  <2>3. PICK q \in Rets : q = Code("NOP_INTERRUPTED") /\ q.code = "NOP_INTERRUPTED"
    BY RetFacts DEF Errors
  <2>4. Return(c, q)
    BY <1>1, <1>2, <1>5, <2>3
  <2>5. QED BY <1>1, <1>2, <1>5, <2>1, <2>2, <2>3, <2>4, ReturnInv
<1>6. QED BY <1>4, <1>5, Parts

(* sm_handle_fiq: the smc returns and the CPU stays where it is.            *)
LEMMA HandleFiqInv ==
  ASSUME SmcInv, NEW c \in Cpus, HandleFiq(c)
  PROVE  SmcInv'
<1>1. /\ sec[c] # "ns" /\ c \notin fiq /\ fiq' = fiq \cup {c}
      /\ Return(c, Code("FIQ_INTERRUPTED"))
      /\ UNCHANGED <<api, smcLock, idleDone, seq, answer, std, sec, smt, runs>>
  BY DEF HandleFiq
<1>2. PICK t \in Tasks : /\ task[t].cpu = c /\ task[t].pc = "in"
                         /\ t \in Callers => smcLock = t /\ CallAt(t) /\ t \notin Cpus
  BY <1>1, Within
<1>3. PICK q \in Rets : q = Code("FIQ_INTERRUPTED") /\ q.code = "FIQ_INTERRUPTED"
  BY RetFacts DEF Errors
<1>4. task' = [task EXCEPT ![t] = Informed(t, q)]
  BY <1>1, <1>2, <1>3, ReturnOne
<1>5. PICK r : r = Informed(t, q)
  OBVIOUS
<1>6. /\ r \in TaskType /\ r.pc = "ret" /\ r.cpu = c /\ r.nr = task[t].nr /\ r.ret = q
  BY <1>2, <1>5, Fields DEF TaskType, Informed
<1>7. task'[t] = r /\ c # NULL
  BY <1>4, <1>5, Parts
<1>8. Step(t, r)
  BY <1>1, <1>2, <1>4, <1>5, <1>6, <1>7 DEF Step
<1>9. AtCpu(t)'
  BY <1>1, <1>3, <1>6, <1>7 DEF AtCpu, OnCpu
<1>10. ASSUME t \in Callers PROVE smcLock = t /\ CallerAsks(t)' /\ CallAt(t)'
  <2>1. smcLock = t /\ CallerAsks(t) /\ CallAt(t)
    BY <1>2, <1>10, Parts
  <2>2. CallerAsks(t)'
    BY <1>1, <1>2, <1>3, <1>6, <1>7, <2>1 DEF CallerAsks, Smp
  <2>3. /\ Entering(t)' = Entering(t) /\ Executing(t)' = Executing(t) /\ ~Returned(t)'
        /\ Busy' = Busy
    BY <1>1, <1>2, <1>6, <1>7 DEF Entering, Executing, Returned, Busy
  <2>4. CallAt(t)'
    BY <1>1, <1>2, <1>6, <1>7, <2>1, <2>3 DEF CallAt
  <2>5. QED BY <2>1, <2>2, <2>4
<1>11. ASSUME t \in Cpus PROVE WorkerAsks(t)'
  BY <1>3, <1>6, <1>7, <1>11, Parts DEF WorkerAsks
<1>12. fiq' \subseteq Cpus
  BY <1>1, Parts
<1>13. QED BY <1>1, <1>8, <1>9, <1>10, <1>11, <1>12, LinuxInv, Parts

(* sm-stdcall changes its state, and nothing else changes.                  *)
LEMMA SmtInv ==
  ASSUME SmcInv, UNCHANGED <<linux, std, sec, fiq, runs>>,
         smt' \in [state : {"wait", "ready", "running", "blocked"}, cpu : Cpus \cup {NULL}],
         smt'.state # "wait" => std.signalled,
         smt'.cpu # NULL => smt'.state = "running"
  PROVE  SmcInv'
<1>1. UNCHANGED <<task, smcLock, idleDone, seq, answer, api>>
  BY DEF linux
<1>2. StdInv'
  BY <1>1, Parts DEF StdInv, Busy
<1>3. TypeOK'
  BY <1>1 DEF SmcInv, TypeOK
<1>4. \A t \in Tasks : AtCpu(t)'
  BY <1>1, Fields DEF AtCpu
<1>5. CpusAgree'
  BY <1>1, <1>4, Parts DEF CpusAgree
<1>6. (\A t \in Callers : CallerAsks(t)') /\ (\A c \in Cpus : WorkerAsks(c)')
  BY <1>1, Parts DEF CallerAsks, WorkerAsks, Smp
<1>7. \A t \in Callers : smcLock' = t => CallAt(t)'
  BY <1>1, CallStays
<1>8. QED BY <1>2, <1>3, <1>5, <1>6, <1>7 DEF SmcInv

(* The scheduler runs it, it waits for another thread, or may go on.        *)
LEMMA ThreadInv ==
  ASSUME SmcInv, HandlerBlocks \/ \E c \in Cpus : Dispatch(c) \/ HandlerUnblocks(c)
  PROVE  SmcInv'
<1>1. CASE HandlerBlocks
  <2>1. smt' = [state |-> "blocked", cpu |-> NULL] /\ std.signalled
    BY <1>1, Parts DEF HandlerBlocks, Running, StdInv
  <2>2. QED BY <1>1, <2>1, SmtInv DEF HandlerBlocks
<1>2. ASSUME NEW c \in Cpus, Dispatch(c) PROVE SmcInv'
  <2>1. smt' = [state |-> "running", cpu |-> c] /\ std.signalled
    BY <1>2, Parts DEF Dispatch, Ready, StdInv
  <2>2. QED BY <1>2, <2>1, SmtInv DEF Dispatch
<1>3. ASSUME NEW c \in Cpus, HandlerUnblocks(c) PROVE SmcInv'
  <2>1. smt' = [state |-> "ready", cpu |-> NULL] /\ std.signalled
    BY <1>3, Parts DEF HandlerUnblocks, StdInv
  <2>2. QED BY <1>3, <2>1, SmtInv DEF HandlerUnblocks
<1>4. QED BY <1>1, <1>2, <1>3

(* When the handler runs, it runs the call of the holder of smc_lock, which *)
(* it has not executed yet.                                                 *)
LEMMA Handled ==
  ASSUME SmcInv, HandlerReturns
  PROVE  \E t \in Callers : /\ smcLock = t /\ std.signalled /\ ~std.done
                            /\ std.args = <<t, seq[t]>> /\ runs[t] = 0
                            /\ runs' = [runs EXCEPT ![t] = 1]
<1>1. smt.state = "running"
  BY DEF HandlerReturns, Running
<1>2. std.signalled /\ ~std.done /\ smcLock # NULL
  BY <1>1, Parts DEF StdInv, Busy
<1>3. PICK t \in Callers : smcLock = t
  BY <1>2, Parts
<1>4. std.args = <<t, seq[t]>> /\ runs[t] = 0
  BY <1>2, <1>3, Parts DEF CallAt, Busy
<1>5. std.args[1] = t
  BY <1>4
<1>6. runs' = [runs EXCEPT ![t] = IF runs[t] < 2 THEN runs[t] + 1 ELSE runs[t]]
  BY <1>5 DEF HandlerReturns
<1>7. runs' = [runs EXCEPT ![t] = 1]
  BY <1>4, <1>6
<1>8. QED BY <1>2, <1>3, <1>4, <1>7

(* The handler returns.                                                     *)
LEMMA HandlerReturnsInv ==
  ASSUME SmcInv, HandlerReturns
  PROVE  SmcInv'
<1>1. /\ std' = Completed /\ smt' = [state |-> "wait", cpu |-> NULL]
      /\ UNCHANGED <<task, smcLock, idleDone, seq, answer, api, sec, fiq>>
  BY DEF HandlerReturns, linux
<1>2. PICK t \in Callers : /\ smcLock = t /\ std.signalled /\ ~std.done
                           /\ std.args = <<t, seq[t]>> /\ runs[t] = 0
                           /\ runs' = [runs EXCEPT ![t] = 1]
  BY Handled
<1>3. Result(std.args) \in Rets
  <2>1. std.args \in CallIds
    BY <1>2, Parts DEF CallIds
  <2>2. QED BY <2>1, RetFacts
<1>4. /\ std' \in StdType /\ std'.ret = Result(std.args) /\ std'.done = TRUE
      /\ std'.signalled = FALSE /\ std'.args = std.args /\ std'.active = std.active
      /\ std'.restarted = std.restarted
  BY <1>1, <1>3, Parts DEF Completed, StdType
<1>5. Busy /\ Busy'
  BY <1>2, <1>4 DEF Busy
<1>6. runs' \in [Callers -> 0..2] /\ runs'[t] = 1
  BY <1>2, Parts
<1>7. t \in Tasks /\ t \notin Cpus /\ task[t].pc # "idle" /\ CallAt(t)
  BY <1>2, Holder
<1>8. StdInv'
  BY <1>1, <1>2, <1>4, Parts DEF StdInv
<1>9. Step(t, task[t])
  BY <1>1, <1>7, Fields, Parts DEF Step
<1>10. AtCpu(t)'
  BY <1>1, <1>7, Fields DEF AtCpu
<1>11. CallerAsks(t)'
  BY <1>1, <1>2, <1>7, Parts DEF CallerAsks, Smp
<1>12. CallAt(t)'
  <2>1. /\ Entering(t)' = Entering(t) /\ Executing(t)' = Executing(t) /\ Returned(t)' = Returned(t)
    BY <1>1 DEF Entering, Executing, Returned
  <2>2. QED BY <1>1, <1>2, <1>4, <1>5, <1>6, <1>7, <2>1 DEF CallAt
<1>13. RestOK'
  BY <1>1, <1>4, <1>6, Parts DEF RestOK
<1>14. QED BY <1>1, <1>2, <1>7, <1>8, <1>9, <1>10, <1>11, <1>12, <1>13, StepInv

----------------------------------------------------------------------------
(* Initially all CPUs are in Linux, and no call is made.                    *)
LEMMA InitSmcInv == Init => SmcInv
<1> SUFFICES ASSUME Init PROVE SmcInv
  OBVIOUS
<1>1. /\ task = [t \in Tasks |-> NoTask] /\ smcLock = NULL /\ idleDone = 0
      /\ seq = [t \in Callers |-> 0] /\ answer = [t \in Callers |-> Result(<<t, 0>>)]
      /\ api \in ApiVersions
      /\ std = [signalled |-> FALSE, done |-> FALSE, args |-> NULL,
                ret |-> Code("INTERNAL_FAILURE"), active |-> NULL, restarted |-> FALSE]
      /\ sec = [c \in Cpus |-> "ns"] /\ fiq = {} /\ smt = [state |-> "wait", cpu |-> NULL]
      /\ runs = [t \in Callers |-> 0]
  BY DEF Init
<1>2. /\ NULL \notin Cpus /\ NULL \notin Callers /\ Cpus \cap Callers = {}
      /\ Tasks = Callers \cup Cpus /\ MaxDone \in Nat
  BY SmStdCallAssumption DEF Tasks
<1>3. \A t \in Tasks : task[t] = NoTask
  BY <1>1
<1>4. TypeOK
  <2>1. task \in [Tasks -> TaskType]
    BY <1>1, NoTaskFacts
  <2>2. Code("INTERNAL_FAILURE") \in Rets
    BY RetFacts DEF Errors
  <2>3. std \in StdType
    BY <1>1, <2>2 DEF StdType
  <2>4. \A t \in Callers : <<t, 0>> \in CallIds
    BY DEF CallIds
  <2>5. answer \in [Callers -> Rets]
    BY <1>1, <2>4, RetFacts
  <2>6. smt \in [state : {"wait", "ready", "running", "blocked"}, cpu : Cpus \cup {NULL}]
    BY <1>1
  <2>7. idleDone \in 0..MaxDone /\ seq \in [Callers -> {0, 1}] /\ runs \in [Callers -> 0..2]
        /\ sec \in [Cpus -> {"ns", "smc", "run", "get", "irq"}] /\ fiq \subseteq Cpus
    BY <1>1, <1>2
  <2>8. QED BY <1>1, <2>1, <2>3, <2>5, <2>6, <2>7 DEF TypeOK, TaskType, StdType
<1>5. CpusAgree
  <2>1. \A t \in Tasks : AtCpu(t)
    BY <1>3, NoTaskFacts DEF AtCpu, OnCpu
  <2>2. QED BY <1>1, <1>3, <2>1, NoTaskFacts DEF CpusAgree
<1>6. \A t \in Callers : CallerAsks(t)
  BY <1>1, <1>2, <1>3, NoTaskFacts DEF CallerAsks
<1>7. \A c \in Cpus : WorkerAsks(c)
  BY <1>2, <1>3, NoTaskFacts DEF WorkerAsks
<1>8. std.signalled = FALSE /\ std.done = FALSE /\ std.active = NULL /\ smt.state = "wait"
      /\ smt.cpu = NULL
  BY <1>1
<1>9. StdInv
  BY <1>1, <1>8 DEF StdInv, Busy
<1>10. QED BY <1>1, <1>2, <1>4, <1>5, <1>6, <1>7, <1>9 DEF SmcInv

(* Every step keeps it.                                                     *)
LEMMA NextSmcInv == SmcInv /\ [Next]_vars => SmcInv'
<1> SUFFICES ASSUME SmcInv, [Next]_vars PROVE SmcInv'
  OBVIOUS
<1>1. ASSUME NEW t \in Callers, CallBegin(t) \/ IdleTimeout(t) PROVE SmcInv'
  BY <1>1, CallBeginInv, AgainInv, Parts
<1>2. ASSUME NEW t \in Tasks, Linux(t) PROVE SmcInv'
  BY <1>2, IrqDisableInv, SmcStepInv, RestartFiqInv, RetryBusyInv, IrqEnableInv, AgainInv,
     CallEndInv, NopLinuxInv DEF Linux
<1>3. ASSUME NEW c \in Cpus, Enter(c) \/ Yielded(c) \/ Leave(c) \/ HandleIrq(c) \/ HandleFiq(c)
      PROVE  SmcInv'
  BY <1>3, NopInv, QueueInv, IdleNopInv, IdleCheckInv, GetRetInv, IrqReturnInv, HandleIrqInv,
     HandleFiqInv DEF Enter, Yielded, Leave
<1>4. CASE UNCHANGED vars
  <2>1. UNCHANGED <<linux, std, sec, fiq, runs>> /\ UNCHANGED smt
    BY <1>4 DEF vars, linux
  <2>2. QED BY <2>1, SmtInv, Parts DEF StdInv
<1>5. QED BY <1>1, <1>2, <1>3, <1>4, NopLinuxInv, ThreadInv, HandlerReturnsInv DEF Next

(* The inductive invariant: a CPU is in the secure world exactly while a    *)
(* task of Linux is inside an smc on it, whatever FIQs suspend; stdcallstate*)
(* belongs to the holder of smc_lock; and what that caller asks next is     *)
(* what stdcallstate expects.                                               *)
THEOREM SmcInvHolds == Spec => []SmcInv
<1>1. Init => SmcInv
  BY InitSmcInv
<1>2. SmcInv /\ [Next]_vars => SmcInv'
  BY NextSmcInv
<1>3. QED BY <1>1, <1>2, PTL DEF Spec

(* active_cpu is only ever the CPU on which the holder of smc_lock waits in *)
(* the secure world, so the test of it without the lock in                  *)
(* sm_wait_for_smcall cannot change its mind.                               *)
THEOREM ActiveIsInside == Spec => []ActiveInside
<1>1. SmcInv => ActiveInside
  <2> SUFFICES ASSUME SmcInv PROVE ActiveInside
    OBVIOUS
  <2>1. TypeOK
    BY DEF SmcInv
  <2>2. ASSUME std.active # NULL
        PROVE  /\ std.signalled \/ std.done
               /\ sec[std.active] \in {"run", "get", "irq"}
               /\ smcLock # NULL /\ task[smcLock].cpu = std.active
    <3>1. PICK t \in Callers : t = smcLock /\ Executing(t) /\ std.active = task[t].cpu
      BY <2>2, Active
    <3>2. CallAt(t) /\ t # NULL
      BY <3>1, Parts
    <3>3. Busy
      BY <3>1, <3>2 DEF CallAt
    <3>4. QED BY <3>1, <3>2, <3>3 DEF Busy, Executing, InSecure
  <2>3. QED BY <2>1, <2>2 DEF ActiveInside
<1>2. QED BY <1>1, SmcInvHolds, PTL

(* No smc of the driver is refused: sm_queue_stdcall meets neither an       *)
(* unexpected restart nor, with the SMP api, a busy state, no smc comes     *)
(* between a FIQ and its restart, sm_get_stdcall_ret never fails, and a     *)
(* kworker is never handed a call's result.                                 *)
THEOREM AnswersAreExpected == Spec => []AnswersExpected
<1>1. SmcInv => AnswersExpected
  <2> SUFFICES ASSUME SmcInv PROVE AnswersExpected
    OBVIOUS
  <2>1. ASSUME NEW t \in Tasks
        PROVE  /\ task[t].ret.code \notin {"UNEXPECTED_RESTART", "INTERNAL_FAILURE",
                                           "INTERLEAVED_SMC"}
               /\ Smp => task[t].ret.code # "BUSY"
    <3>1. CASE t \in Callers
      BY <3>1, Parts DEF CallerAsks
    <3>2. CASE t \in Cpus
      BY <3>2, Parts DEF WorkerAsks
    <3>3. QED BY <3>1, <3>2, Parts
  <2>2. ASSUME NEW c \in Cpus, task[c].pc = "out"
        PROVE  task[c].ret.code \in {"NOP_DONE", "NOP_INTERRUPTED"}
    BY <2>2, Parts DEF WorkerAsks
  <2>3. QED BY <2>1, <2>2 DEF AnswersExpected
<1>2. QED BY <1>1, SmcInvHolds, PTL

----------------------------------------------------------------------------
(* Standard calls implement RemoteCall.                                     *)

(* No call is made yet.                                                     *)
LEMMA RemoteInit == Init => RC!CallInit
<1> SUFFICES ASSUME Init PROVE RC!CallInit
  OBVIOUS
<1>1. /\ smcLock = NULL /\ seq = [t \in Callers |-> 0]
      /\ answer = [t \in Callers |-> Result(<<t, 0>>)]
  BY DEF Init
<1>2. \A t \in Callers : Phase(t) = "idle"
  BY <1>1, SmStdCallAssumption DEF Phase
<1>3. \A t \in Callers : answer[t].id = <<t, 0>>
  BY <1>1, RetFacts DEF CallIds
<1>4. QED BY <1>1, <1>2, <1>3 DEF RC!CallInit, Phases, AnswerIds

(* What the mapping depends on.                                             *)
LEMMA RemoteStays ==
  ASSUME UNCHANGED <<smcLock, runs, seq, answer>>
  PROVE  UNCHANGED RC!rcvars
BY DEF RC!rcvars, Phases, Phase, AnswerIds

(* Getting smc_lock is the request.                                         *)
LEMMA RemoteRequest ==
  ASSUME SmcInv, NEW t \in Callers, CallBegin(t)
  PROVE  RC!Request(t)
<1>1. /\ smcLock = NULL /\ smcLock' = t /\ seq' = [seq EXCEPT ![t] = 1 - @]
      /\ runs' = [runs EXCEPT ![t] = 0] /\ UNCHANGED answer
  BY DEF CallBegin
<1>2. \A u \in Callers : Phase(u) = "idle"
  BY <1>1, Parts DEF Phase
<1>3. \A u \in Callers : Phase(u)' = IF u = t THEN "called" ELSE "idle"
  BY <1>1, Parts DEF Phase
<1>4. \A u \in Callers : Phases[u] = "idle"
  BY <1>2 DEF Phases
<1>5. Phases' = [Phases EXCEPT ![t] = "called"]
  BY <1>2, <1>3 DEF Phases
<1>6. UNCHANGED AnswerIds
  BY <1>1 DEF AnswerIds
<1>7. QED BY <1>1, <1>4, <1>5, <1>6 DEF RC!Request

(* The handler's return is the execution.                                   *)
LEMMA RemoteExecute ==
  ASSUME SmcInv, HandlerReturns
  PROVE  \E t \in Callers : RC!Execute(t)
<1>1. PICK t \in Callers : smcLock = t /\ runs[t] = 0 /\ runs' = [runs EXCEPT ![t] = 1]
  BY Handled
<1>2. UNCHANGED <<smcLock, seq, answer>>
  BY DEF HandlerReturns, linux
<1>3. Phase(t) = "called" /\ \A u \in Callers : u # t => Phase(u) = "idle"
  BY <1>1 DEF Phase
<1>4. \A u \in Callers : Phase(u)' = IF u = t THEN "executed" ELSE "idle"
  BY <1>1, <1>2, Parts DEF Phase
<1>5. Phases[t] = "called" /\ Phases' = [Phases EXCEPT ![t] = "executed"]
  BY <1>3, <1>4 DEF Phases
<1>6. UNCHANGED AnswerIds
  BY <1>2 DEF AnswerIds
<1>7. QED BY <1>2, <1>5, <1>6 DEF RC!Execute

(* The return of trusty_std_call32 is the reply.                            *)
LEMMA RemoteReply ==
  ASSUME SmcInv, NEW t \in Callers, CallEnd(t)
  PROVE  RC!Reply(t)
<1>1. smcLock = t /\ task[t].ret = Result(<<t, seq[t]>>) /\ runs[t] = 1
  BY CallEndFacts
<1>2. /\ answer' = [answer EXCEPT ![t] = task[t].ret] /\ smcLock' = NULL /\ UNCHANGED <<seq, runs>>
  BY DEF CallEnd
<1>3. Phase(t) = "executed" /\ \A u \in Callers : u # t => Phase(u) = "idle"
  BY <1>1 DEF Phase
<1>4. \A u \in Callers : Phase(u)' = "idle"
  BY <1>2, Parts DEF Phase
<1>5. Phases[t] = "executed" /\ Phases' = [Phases EXCEPT ![t] = "idle"]
  BY <1>3, <1>4 DEF Phases
<1>6. Result(<<t, seq[t]>>).id = <<t, seq[t]>>
  BY RetFacts, Parts DEF CallIds
<1>7. \A u \in Callers : answer'[u].id = IF u = t THEN <<t, seq[t]>> ELSE answer[u].id
  BY <1>1, <1>2, <1>6, Parts
<1>8. AnswerIds' = [AnswerIds EXCEPT ![t] = <<t, seq[t]>>]
  BY <1>7 DEF AnswerIds
<1>9. QED BY <1>2, <1>5, <1>8 DEF RC!Reply

(* Every other step, whatever CPU, interrupt or restart it is about, is     *)
(* none of the callers' business.                                           *)
LEMMA RemoteStep == SmcInv /\ [Next]_vars => [RC!CallNext]_(RC!rcvars)
<1> SUFFICES ASSUME SmcInv, [Next]_vars PROVE RC!CallNext \/ UNCHANGED RC!rcvars
  OBVIOUS
<1>1. CASE UNCHANGED <<smcLock, runs, seq, answer>>
  BY <1>1, RemoteStays
<1>2. ASSUME NEW t \in Callers, CallBegin(t) PROVE RC!CallNext
  BY <1>2, RemoteRequest DEF RC!CallNext
<1>3. CASE HandlerReturns
  BY <1>3, RemoteExecute DEF RC!CallNext
<1>4. ASSUME NEW t \in Callers, CallEnd(t) PROVE RC!CallNext
  BY <1>4, RemoteReply DEF RC!CallNext
<1>5. ASSUME NEW t \in Tasks, Linux(t), ~(t \in Callers /\ CallEnd(t))
      PROVE  UNCHANGED <<smcLock, runs, seq, answer>>
  BY <1>5 DEF Linux, IrqDisable, Smc, RestartFiq, RetryBusy, IrqEnable, Interrupted, IdleWait,
              NopEnd
<1>6. ASSUME NEW c \in Cpus,
             \/ NopBegin(c) \/ Enter(c) \/ Yielded(c) \/ Leave(c)
             \/ HandleIrq(c) \/ HandleFiq(c) \/ Dispatch(c) \/ HandlerUnblocks(c)
      PROVE  UNCHANGED <<smcLock, runs, seq, answer>>
  BY <1>6 DEF NopBegin, Enter, Nop, sm_queue_stdcall, Yielded, IdleNop, IdleCheck, Leave, GetRet,
              IrqReturn, HandleIrq, HandleFiq, Dispatch, HandlerUnblocks, linux
<1>7. CASE HandlerBlocks
  BY <1>1, <1>7 DEF HandlerBlocks, linux
<1>8. ASSUME NEW t \in Callers, IdleTimeout(t) PROVE UNCHANGED <<smcLock, runs, seq, answer>>
  BY <1>8 DEF IdleTimeout
<1>9. CASE UNCHANGED vars
  BY <1>1, <1>9 DEF vars
<1>10. QED BY <1>1, <1>2, <1>3, <1>4, <1>5, <1>6, <1>7, <1>8, <1>9 DEF Next

(* However its SMCs are interrupted, moved between CPUs and restarted, a    *)
(* standard call is executed once, and trusty_std_call32 returns the result *)
(* of that call to that caller.                                             *)
THEOREM CallsAreRemoteCalls == Spec => ImplementsCall
BY RemoteInit, RemoteStep, SmcInvHolds, PTL DEF Spec, ImplementsCall, RC!CallSpec
=============================================================================
