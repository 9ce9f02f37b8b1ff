------------------------------ MODULE SmStdCall ------------------------------
(***************************************************************************)
(* Standard calls from Linux into Trusty: how a call that the secure side  *)
(* executes in a thread of its own is carried by SMCs that return early    *)
(* whenever an interrupt arrives or the secure side has nothing to run.    *)
(*                                                                         *)
(* Source: lk/trusty/lib/sm/sm.c and the Linux driver's trusty.c.          *)
(* A section under stdcallstate.lock is one step, as is what a thread does *)
(* between two such sections.                                              *)
(*                                                                         *)
(* Linux has Callers, any of which may run on any CPU, and for each CPU c  *)
(* a kworker, also called c, that issues SMC_SC_NOP there (trusty-irq.c)   *)
(* to lend the CPU to secure threads.  From local_irq_disable to           *)
(* local_irq_enable a task keeps its CPU, and nothing else runs there.     *)
(***************************************************************************)
EXTENDS Naturals, FiniteSets

CONSTANTS
  Cpus,
  Callers,     \* Linux threads that make standard calls
  ApiVersions, \* what smc_sm_api_version may settle on
  Retry,       \* retry of trusty_std_call_inner
  MaxDone,     \* bound on cpu_idle_completion.done
  Blocks,      \* whether a call may wait for another secure thread
  FiqCpus,     \* the CPUs that FIQs are routed to
  NULL

ASSUME SmStdCallAssumption ==
  /\ Cpus \cap Callers = {}
  /\ NULL \notin Cpus \cup Callers
  /\ ApiVersions \subseteq {1, 2}
  /\ Retry \in Nat
  /\ MaxDone \in Nat \ {0}
  /\ Blocks \in BOOLEAN
  /\ FiqCpus \subseteq Cpus

VARIABLES
  (* Linux *)
  task,      \* the Linux tasks
  smcLock,   \* holder of s->smc_lock
  idleDone,  \* s->cpu_idle_completion.done
  seq,       \* parity of the last call of each caller
  answer,    \* what its last trusty_std_call32 returned
  (* Trusty *)
  api,       \* sm_api_version; the first use locks it, so it never changes
  std,       \* stdcallstate
  sec,       \* what each CPU does in the secure world; "ns": it is in Linux
  fiq,       \* CPUs whose secure state is suspended by sm_handle_fiq
  smt,       \* the thread sm-stdcall
  (* history *)
  runs       \* how often the current call of each caller was executed

linux == <<task, smcLock, idleDone, seq, answer, api>>
vars == <<task, smcLock, idleDone, seq, answer, api, std, sec, fiq, smt, runs>>

Tasks == Callers \cup Cpus       \* the kworker of a CPU has its name
CallIds == Callers \X {0, 1}
Smp == api >= 2                  \* TRUSTY_API_VERSION_SMP

Errors == {"INTERRUPTED", "CPU_IDLE", "BUSY", "FIQ_INTERRUPTED",
           "UNEXPECTED_RESTART", "INTERNAL_FAILURE", "INTERLEAVED_SMC",
           "NOP_DONE", "NOP_INTERRUPTED"}

(* What an smc or a handler returns; a result is known by its call.        *)
Code(e) == [code |-> e, id |-> NULL]
Result(id) == [code |-> "OK", id |-> id]
Rets == {Code(e) : e \in Errors} \cup {Result(id) : id \in CallIds}

NoTask == [pc |-> "idle", nr |-> "NOP", cpu |-> NULL, retry |-> 0,
           ret |-> Code("NOP_DONE")]

Init ==
  /\ task = [t \in Tasks |-> NoTask]
  /\ smcLock = NULL
  /\ idleDone = 0
  /\ seq = [t \in Callers |-> 0]
  /\ answer = [t \in Callers |-> Result(<<t, 0>>)]
  /\ api \in ApiVersions
  /\ std = [signalled |-> FALSE, done |-> FALSE, args |-> NULL,
            ret |-> Code("INTERNAL_FAILURE"), active |-> NULL, restarted |-> FALSE]
  /\ sec = [c \in Cpus |-> "ns"]
  /\ fiq = {}
  /\ smt = [state |-> "wait", cpu |-> NULL]
  /\ runs = [t \in Callers |-> 0]

-----------------------------------------------------------------------------
(* Linux: trusty_std_call32 and its helpers.                               *)

Goto(t, l) == task' = [task EXCEPT ![t].pc = l]

(* smcnr # SMC_SC_NOP: mutex_lock, reinit_completion.                      *)
CallBegin(t) ==
  /\ task[t].pc = "idle"
  /\ smcLock = NULL
  /\ smcLock' = t
  /\ idleDone' = 0
  /\ seq' = [seq EXCEPT ![t] = 1 - @]
  /\ runs' = [runs EXCEPT ![t] = 0]
  /\ task' = [task EXCEPT ![t] = [@ EXCEPT !.pc = "enter", !.nr = "CALL"]]
  /\ UNCHANGED <<api, answer, std, sec, fiq, smt>>

(* trusty_irq_work_func, with the api version that has SMC_SC_NOP.         *)
NopBegin(c) ==
  /\ Smp
  /\ task[c].pc = "idle"
  /\ task' = [task EXCEPT ![c] = [@ EXCEPT !.pc = "enter", !.nr = "NOP"]]
  /\ UNCHANGED <<api, smcLock, idleDone, seq, answer, std, sec, fiq, smt, runs>>

(* trusty_std_call_helper: local_irq_disable, on the CPU the task is on.   *)
IrqDisable(t, c) ==
  /\ task[t].pc = "enter"
  /\ t \in Cpus => t = c
  /\ \A u \in Tasks : task[u].cpu # c
  /\ task' = [task EXCEPT ![t] = [@ EXCEPT !.pc = "smc", !.cpu = c,
                                           !.retry = Retry]]
  /\ UNCHANGED <<api, smcLock, idleDone, seq, answer, std, sec, fiq, smt, runs>>

(* smc: the CPU continues where the secure side left it: in the thread     *)
(* that called sm_sched_nonsecure, or in sm_handle_fiq, which only accepts *)
(* SMC_SC_RESTART_FIQ.                                                     *)
Smc(t) ==
  LET c == task[t].cpu
  IN  /\ task[t].pc = "smc"
      /\ IF c \in fiq
           THEN /\ task' = [task EXCEPT ![t].pc = "ret",
                                        ![t].ret = Code("INTERLEAVED_SMC")]
                /\ UNCHANGED sec
           ELSE /\ sec' = [sec EXCEPT ![c] = "smc"]
                /\ Goto(t, "in")
      /\ UNCHANGED <<api, smcLock, idleDone, seq, answer, std, fiq, smt, runs>>

(* trusty_std_call_inner                                                   *)
RestartFiq(t) ==
  /\ task[t].pc = "ret"
  /\ task[t].ret.code = "FIQ_INTERRUPTED"
  /\ fiq' = fiq \ {task[t].cpu}
  /\ Goto(t, "in")
  /\ UNCHANGED <<api, smcLock, idleDone, seq, answer, std, sec, smt, runs>>

RetryBusy(t) ==
  /\ task[t].pc = "ret"
  /\ task[t].ret.code = "BUSY"
  /\ task[t].retry > 0
  /\ task' = [task EXCEPT ![t] = [@ EXCEPT !.pc = "smc", !.retry = task[t].retry - 1]]
  /\ UNCHANGED <<api, smcLock, idleDone, seq, answer, std, sec, fiq, smt, runs>>

(* local_irq_enable; a call that is still busy sleeps and tries again.     *)
IrqEnable(t) ==
  /\ task[t].pc = "ret"
  /\ task[t].ret.code # "FIQ_INTERRUPTED"
  /\ task[t].ret.code = "BUSY" => task[t].retry = 0
  /\ task' = [task EXCEPT ![t] =
                [@ EXCEPT !.cpu = NULL,
                          !.pc = IF task[t].ret.code = "BUSY" THEN "enter" ELSE "out"]]
  /\ UNCHANGED <<api, smcLock, idleDone, seq, answer, std, sec, fiq, smt, runs>>

(* trusty_std_call_helper(dev, SMC_SC_RESTART_LAST, 0, 0, 0)               *)
RestartLast(t) ==
  task' = [task EXCEPT ![t] = [@ EXCEPT !.pc = "enter", !.nr = "RESTART_LAST"]]

Interrupted(t) ==
  /\ task[t].pc = "out"
  /\ task[t].ret.code = "INTERRUPTED"
  /\ RestartLast(t)
  /\ UNCHANGED <<api, smcLock, idleDone, seq, answer, std, sec, fiq, smt, runs>>

(* trusty_std_call_cpu_idle                                                *)
IdleWait(t) ==
  /\ task[t].pc = "out"
  /\ task[t].ret.code = "CPU_IDLE"
  /\ idleDone > 0
  /\ idleDone' = idleDone - 1
  /\ RestartLast(t)
  /\ UNCHANGED <<api, smcLock, seq, answer, std, sec, fiq, smt, runs>>

IdleTimeout(t) ==
  /\ task[t].pc = "out"
  /\ task[t].ret.code = "CPU_IDLE"
  /\ RestartLast(t)
  /\ UNCHANGED <<api, smcLock, idleDone, seq, answer, std, sec, fiq, smt, runs>>

Finished(t) == task[t].pc = "out" /\ task[t].ret.code \notin {"INTERRUPTED", "CPU_IDLE"}

CallEnd(t) ==
  /\ Finished(t)
  /\ answer' = [answer EXCEPT ![t] = task[t].ret]
  /\ smcLock' = NULL
  /\ task' = [task EXCEPT ![t] = NoTask]
  /\ UNCHANGED <<api, idleDone, seq, std, sec, fiq, smt, runs>>

(* Mutation: nobody is told that the CPU came back.                        *)
NoComplete == idleDone

(* complete(&s->cpu_idle_completion)                                       *)
Complete == idleDone + 1

NopEnd(c) ==
  /\ Finished(c)
  /\ idleDone < MaxDone
  /\ idleDone' = Complete
  /\ task' = [task EXCEPT ![c] = NoTask]
  /\ UNCHANGED <<api, smcLock, seq, answer, std, sec, fiq, smt, runs>>

-----------------------------------------------------------------------------
(* Trusty: sm.c on each CPU.                                               *)

Inside(c, l) == sec[c] = l /\ c \notin fiq

(* sm_sched_nonsecure: the smc of the task on CPU c returns r.             *)
Return(c, r) ==
  task' = [t \in Tasks |-> IF task[t].cpu = c
                             THEN [task[t] EXCEPT !.pc = "ret", !.ret = r]
                             ELSE task[t]]

Caller(c) == CHOOSE t \in Tasks : task[t].cpu = c
Number(c) == task[Caller(c)].nr

(* sm_return_and_wait_for_next_stdcall: SMC_SC_NOP only lends the CPU.     *)
Nop(c) ==
  /\ Inside(c, "smc")
  /\ Number(c) = "NOP"
  /\ sec' = [sec EXCEPT ![c] = "run"]
  /\ UNCHANGED <<linux, std, fiq, smt, runs>>

(* Mutation: a finished call is forgotten before its result is fetched.    *)
BusyUntilFinished == std.signalled

Busy == std.signalled \/ std.done

MayRestart(c) == Busy /\ Number(c) = "RESTART_LAST" /\ std.active = NULL

Queued(c) ==
  IF MayRestart(c)
    THEN [std EXCEPT !.active = c, !.restarted = TRUE]
    ELSE [signalled |-> TRUE, done |-> FALSE, ret |-> Code("INTERNAL_FAILURE"),
          args |-> <<Caller(c), seq[Caller(c)]>>, active |-> c,
          restarted |-> FALSE]

Refusal(c) ==
  IF MayRestart(c) THEN "none"
  ELSE IF Busy THEN "BUSY"
  ELSE IF Number(c) = "CALL" THEN "none"
  ELSE "UNEXPECTED_RESTART"

sm_queue_stdcall(c) ==
  /\ Inside(c, "smc")
  /\ Number(c) # "NOP"
  /\ IF Refusal(c) = "none"
       THEN /\ std' = Queued(c)
            /\ sec' = [sec EXCEPT ![c] = "run"]
            /\ UNCHANGED task
       ELSE /\ Return(c, Code(Refusal(c)))
            /\ sec' = [sec EXCEPT ![c] = "ns"]
            /\ UNCHANGED std
  /\ UNCHANGED <<smcLock, idleDone, seq, answer, api, fiq, smt, runs>>

(* sm-stdcall can run here, and is ahead of the idle thread.               *)
Ready == smt.state = "ready" \/ (smt.state = "wait" /\ std.signalled)

(* sm_wait_for_smcall, back from thread_yield: it looks at active_cpu      *)
(* without the lock ...                                                    *)
IdleNop(c) ==
  /\ Inside(c, "run")
  /\ ~Ready /\ smt.cpu # c
  /\ std.active # c
  /\ Return(c, Code("NOP_DONE"))
  /\ sec' = [sec EXCEPT ![c] = "ns"]
  /\ UNCHANGED <<api, smcLock, idleDone, seq, answer, std, fiq, smt, runs>>

IdleCheck(c) ==
  /\ Inside(c, "run")
  /\ ~Ready /\ smt.cpu # c
  /\ std.active = c
  /\ sec' = [sec EXCEPT ![c] = "get"]
  /\ UNCHANGED <<linux, std, fiq, smt, runs>>

StdcallRet ==
  IF std.done THEN std.ret
  ELSE IF Smp THEN Code("CPU_IDLE")
  ELSE IF std.restarted THEN Code("BUSY") ELSE Code("INTERRUPTED")

(* Mutation: done is not reset.                                            *)
StaysDone == [std EXCEPT !.active = NULL]

Fetched == [std EXCEPT !.active = NULL, !.done = FALSE]

(* ... and then calls sm_get_stdcall_ret.                                  *)
GetRet(c) ==
  /\ Inside(c, "get")
  /\ IF std.active # c
       THEN Return(c, Code("INTERNAL_FAILURE")) /\ UNCHANGED std
       ELSE Return(c, StdcallRet) /\ std' = Fetched
  /\ sec' = [sec EXCEPT ![c] = "ns"]
  /\ UNCHANGED <<api, smcLock, idleDone, seq, answer, fiq, smt, runs>>

(* sm_handle_irq: interrupts are enabled except in the idle and the irq    *)
(* thread.  The irq thread takes the CPU at once.                          *)
HandleIrq(c) ==
  /\ Inside(c, "run")
  /\ sec' = [sec EXCEPT ![c] = "irq"]
  /\ smt' = IF smt.cpu = c THEN [state |-> "ready", cpu |-> NULL] ELSE smt
  /\ UNCHANGED <<linux, std, fiq, runs>>

(* Mutation: the interrupted CPU stays the one that gets the result.       *)
StaysActive(c) == std

Released(c) == IF std.active = c THEN [std EXCEPT !.active = NULL] ELSE std

(* sm_irq_return_ns *)
IrqReturn(c) ==
  /\ Inside(c, "irq")
  /\ Return(c, Code(IF std.active = c THEN "INTERRUPTED" ELSE "NOP_INTERRUPTED"))
  /\ std' = Released(c)
  /\ sec' = [sec EXCEPT ![c] = "ns"]
  /\ UNCHANGED <<api, smcLock, idleDone, seq, answer, fiq, smt, runs>>

(* sm_handle_fiq: masked only around sm_sched_nonsecure.                   *)
HandleFiq(c) ==
  /\ c \in FiqCpus
  /\ sec[c] # "ns" /\ c \notin fiq
  /\ fiq' = fiq \cup {c}
  /\ Return(c, Code("FIQ_INTERRUPTED"))
  /\ UNCHANGED <<api, smcLock, idleDone, seq, answer, std, sec, smt, runs>>

-----------------------------------------------------------------------------
(* Trusty: sm_stdcall_loop, on whichever CPU the scheduler finds.          *)

Dispatch(c) ==
  /\ Inside(c, "run")
  /\ Ready
  /\ smt' = [state |-> "running", cpu |-> c]
  /\ UNCHANGED <<linux, std, sec, fiq, runs>>

Running == smt.state = "running" /\ smt.cpu \notin fiq

HandlerBlocks ==
  /\ Blocks
  /\ Running
  /\ smt' = [state |-> "blocked", cpu |-> NULL]
  /\ UNCHANGED <<linux, std, sec, fiq, runs>>

(* What it waits for happens in another secure thread.                     *)
HandlerUnblocks(c) ==
  /\ Inside(c, "run")
  /\ smt.state = "blocked"
  /\ smt' = [state |-> "ready", cpu |-> NULL]
  /\ UNCHANGED <<linux, std, sec, fiq, runs>>

(* Mutation: the event stays signalled.                                    *)
StaysSignalled == [std EXCEPT !.ret = Result(std.args), !.done = TRUE]

Completed == [std EXCEPT !.ret = Result(std.args), !.done = TRUE, !.signalled = FALSE]

(* The handler returns; its result stands for the call it was given.       *)
HandlerReturns ==
  /\ Running
  /\ std' = Completed
  /\ smt' = [state |-> "wait", cpu |-> NULL]
  /\ runs' = [runs EXCEPT ![std.args[1]] = IF @ < 2 THEN @ + 1 ELSE @]
  /\ UNCHANGED <<linux, sec, fiq>>

-----------------------------------------------------------------------------
Linux(t) ==
  \/ \E c \in Cpus : IrqDisable(t, c)
  \/ Smc(t)
  \/ RestartFiq(t)
  \/ RetryBusy(t)
  \/ IrqEnable(t)
  \/ Interrupted(t)
  \/ IdleWait(t)
  \/ t \in Callers /\ CallEnd(t)
  \/ t \in Cpus /\ NopEnd(t)

Enter(c) == Nop(c) \/ sm_queue_stdcall(c)
Leave(c) == GetRet(c) \/ IrqReturn(c)
Yielded(c) == IdleNop(c) \/ IdleCheck(c)

Next ==
  \/ \E t \in Callers : CallBegin(t) \/ IdleTimeout(t)
  \/ \E c \in Cpus : NopBegin(c)
  \/ \E t \in Tasks : Linux(t)
  \/ \E c \in Cpus : Enter(c) \/ Yielded(c) \/ Leave(c)
  \/ \E c \in Cpus : HandleIrq(c) \/ HandleFiq(c)
  \/ \E c \in Cpus : Dispatch(c) \/ HandlerUnblocks(c)
  \/ HandlerBlocks
  \/ HandlerReturns

Spec == Init /\ [][Next]_vars

-----------------------------------------------------------------------------
(* Types of the variables.                                                 *)
TypeOK ==
  /\ task \in [Tasks -> [pc : {"idle", "enter", "smc", "in", "ret", "out"},
                         nr : {"NOP", "CALL", "RESTART_LAST"},
                         cpu : Cpus \cup {NULL},
                         retry : 0..Retry,
                         ret : Rets]]
  /\ smcLock \in Callers \cup {NULL}
  /\ idleDone \in 0..MaxDone
  /\ seq \in [Callers -> {0, 1}]
  /\ answer \in [Callers -> Rets]
  /\ api \in ApiVersions
  /\ std \in [signalled : BOOLEAN, done : BOOLEAN, args : CallIds \cup {NULL},
              ret : Rets,
              active : Cpus \cup {NULL}, restarted : BOOLEAN]
  /\ sec \in [Cpus -> {"ns", "smc", "run", "get", "irq"}]
  /\ fiq \subseteq Cpus
  /\ smt \in [state : {"wait", "ready", "running", "blocked"},
              cpu : Cpus \cup {NULL}]
  /\ runs \in [Callers -> 0..2]

(* active_cpu is a CPU that the caller of the pending call is waiting on,  *)
(* in the secure world.  This is what the comment in sm_wait_for_smcall    *)
(* asks of the unlocked test: the field does not change to or from a CPU   *)
(* while that CPU decides what to return.                                  *)
ActiveInside ==
  /\ TypeOK
  /\ std.active # NULL =>
       /\ std.signalled \/ std.done
       /\ sec[std.active] \in {"run", "get", "irq"}
       /\ smcLock # NULL /\ task[smcLock].cpu = std.active

(* Driver and secure monitor agree on whose turn it is: no call is refused *)
(* as unexpected or interleaved, none fails, and with the SMP api none is  *)
(* even turned away as busy.  And a kworker that only lends its CPU never  *)
(* takes away a call's result.                                             *)
AnswersExpected ==
  /\ \A t \in Tasks :
       /\ task[t].ret.code \notin {"UNEXPECTED_RESTART", "INTERNAL_FAILURE",
                              "INTERLEAVED_SMC"}
       /\ Smp => task[t].ret.code # "BUSY"
  /\ \A c \in Cpus : task[c].pc = "out" =>
       task[c].ret.code \in {"NOP_DONE", "NOP_INTERRUPTED"}

(* Every call is executed once and answered with its own result, whatever  *)
(* CPUs, interrupts and restarts carried it.                               *)
Phase(t) ==
  IF smcLock # t THEN "idle"
  ELSE IF runs[t] = 0 THEN "called"
  ELSE IF runs[t] = 1 THEN "executed" ELSE "twice"

Phases == [t \in Callers |-> Phase(t)]
AnswerIds == [t \in Callers |-> answer[t].id]

RC == INSTANCE RemoteCall WITH phase <- Phases, answer <- AnswerIds

ImplementsCall == RC!CallSpec

-----------------------------------------------------------------------------
(* The inductive invariant.                                                *)

OnCpu == {"smc", "in", "ret"}
InSecure == {"run", "get", "irq"}    \* past sm_queue_stdcall

(* A task has a CPU while its interrupts are disabled, and the CPU is in   *)
(* the secure world from smc to its return; a FIQ suspends it there.       *)
AtCpu(t) ==
  /\ task[t].cpu # NULL <=> task[t].pc \in OnCpu
  /\ task[t].pc = "smc" => sec[task[t].cpu] = "ns" /\ task[t].cpu \notin fiq
  /\ task[t].pc = "in" => sec[task[t].cpu] # "ns" /\ task[t].cpu \notin fiq
  /\ task[t].pc = "ret" =>
       /\ task[t].cpu \in fiq <=> task[t].ret.code = "FIQ_INTERRUPTED"
       /\ task[t].cpu \in fiq <=> sec[task[t].cpu] # "ns"

CpusAgree ==
  /\ \A t \in Tasks : AtCpu(t)
  /\ \A t, u \in Tasks : task[t].cpu # NULL /\ task[t].cpu = task[u].cpu => t = u
  /\ \A c \in Cpus : sec[c] # "ns" \/ c \in fiq => \E t \in Tasks : task[t].cpu = c

(* What a caller and a kworker ask for, and what they can be told.         *)
CallerAsks(t) ==
  /\ task[t].pc # "idle" <=> smcLock = t
  /\ task[t].pc # "idle" => task[t].nr # "NOP"
  /\ task[t].ret.code \in {"NOP_DONE", "INTERRUPTED", "CPU_IDLE", "BUSY",
                           "FIQ_INTERRUPTED", "OK"}
  /\ Smp => task[t].ret.code # "BUSY"
WorkerAsks(c) ==
  /\ task[c].nr = "NOP"
  /\ task[c].ret.code \in {"NOP_DONE", "NOP_INTERRUPTED", "FIQ_INTERRUPTED"}
  /\ task[c].pc = "out" => task[c].ret.code # "FIQ_INTERRUPTED"

(* How far the call of caller t is, in Linux and in stdcallstate.          *)
Entering(t) ==
  \/ task[t].pc \in {"enter", "smc"}
  \/ task[t].pc \in {"in", "ret"} /\ sec[task[t].cpu] = "smc"
Executing(t) == task[t].pc \in {"in", "ret"} /\ sec[task[t].cpu] \in InSecure
Returned(t) ==
  \/ task[t].pc = "out"
  \/ task[t].pc = "ret" /\ sec[task[t].cpu] = "ns"

CallAt(t) ==
  /\ Busy => std.args = <<t, seq[t]>>
  /\ std.signalled => runs[t] = 0
  /\ std.done => runs[t] = 1
  /\ Entering(t) =>
       /\ std.active = NULL
       /\ IF task[t].nr = "CALL" THEN ~Busy /\ runs[t] = 0 ELSE Busy
  /\ Executing(t) =>
       /\ Busy /\ std.active = task[t].cpu
       /\ std.restarted => task[t].nr = "RESTART_LAST"
  /\ Returned(t) =>
       /\ std.active = NULL
       /\ \/ task[t].ret.code \in {"INTERRUPTED", "CPU_IDLE"} /\ Busy
          \/ /\ task[t].ret.code = "BUSY" /\ Busy
             /\ task[t].pc = "ret" /\ task[t].nr = "RESTART_LAST"
          \/ task[t].ret = Result(<<t, seq[t]>>) /\ ~Busy /\ runs[t] = 1

StdInv ==
  /\ ~(std.signalled /\ std.done)
  /\ std.done => std.ret = Result(std.args)
  /\ smt.state # "wait" => std.signalled
  /\ smt.cpu # NULL => smt.state = "running"
  /\ smcLock = NULL => ~Busy /\ std.active = NULL
  /\ \A c \in Cpus : sec[c] = "get" => std.active = c

SmcInv ==
  /\ TypeOK
  /\ CpusAgree
  /\ \A t \in Callers : CallerAsks(t)
  /\ \A c \in Cpus : WorkerAsks(c)
  /\ StdInv
  /\ \A t \in Callers : smcLock = t => CallAt(t)

-----------------------------------------------------------------------------
(* Linux runs its tasks, and a caller gets a CPU; a CPU in the secure      *)
(* world gets on although interrupts come again and again: the idle thread *)
(* when nothing else can run, sm-stdcall when it may.  Neither calls, NOPs *)
(* and interrupts nor the timeout have to happen.                          *)
FairSpec ==
  /\ Spec
  /\ \A t \in Callers : SF_vars(Linux(t))
  /\ \A c \in Cpus : WF_vars(Linux(c))
  /\ \A c \in Cpus : WF_vars(Enter(c) \/ Leave(c))
  /\ \A c \in Cpus : SF_vars(Yielded(c))
  /\ SF_vars(\E c \in Cpus : Dispatch(c))
  /\ SF_vars(HandlerReturns)

(* Every standard call returns, unless it waits for other threads for ever *)
(* or FIQs never cease: Linux is told whenever the secure side may have    *)
(* work for the caller's CPU again, and does not depend on the ten         *)
(* seconds' timeout.                                                       *)
CallReturns ==
  <>[](smt.state # "blocked" /\ fiq = {}) =>
    \A t \in Callers : smcLock = t ~> smcLock # t
=============================================================================
