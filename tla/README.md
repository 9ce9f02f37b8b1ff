# TrustyOS: specifications, checks and proofs

This directory holds TLA+ specifications of TrustyOS: the secure operating
system under `src/AndroidTrustyOS` (Trusty, on the LK kernel) and the Linux
drivers that talk to it under `src/Linux_common-android-trusty-3.18-drivers`.
The modules are translated from the C sources; each definition is tied to the
lines it stands for by the `map` of `PROJECT.json`.

Paths below are shortened: `T/` is `src/AndroidTrustyOS/lk/trusty/lib/trusty/`,
`S/` is `src/AndroidTrustyOS/lk/trusty/lib/sm/`, `L/` is
`src/Linux_common-android-trusty-3.18-drivers/trusty/`, and `A/` is
`src/AndroidTrustyOS/app/`.

## 1. Inventory

### 1.1 The system

```
  Linux (non-secure)                      Trusty (secure)
  ------------------                      ---------------
  trusty-ipc.c  <--- virtqueues --->  tipc_dev.c --+
      |                                            |   ipc.c, ipc_msg.c
  trusty-virtio.c                     vqueue.c     +-- channels, ports --+
      |                                            |                     |
  trusty.c      ---- SMC ---------->  sm.c         |   handle.c, uctx.c  |
  trusty-irq.c  (NOP workers)         sm threads   |                     |
  trusty-log.c  <--- shared ring ---  memlog.c     +--- applications ----+
                                                     storage, gatekeeper,
                                                     keymaster, tests
```

Linux enters the secure world with *secure monitor calls*. A fast call runs to
completion; a standard call is executed by a thread of the secure side and
may return early, so the driver restarts it. Above the calls there is a virtio
transport, and above that *Trusty IPC*: ports, which applications publish under
a name, and channels, which connect a client with a server. Applications use the
same IPC among themselves. The secure side logs into a ring that Linux prints.

### 1.2 Components

| Component | State | Operations | Interacts with | Correct when |
|---|---|---|---|---|
| IPC connections (`T/ipc.c`, `T/uctx.c`) | ports with pending lists, channels with state, peer and reference list, list of clients that wait for a port, handle table of each application | create and publish a port, connect (blocking or not, waiting for the port or not), accept, close, destroy | every application; `tipc_dev.c`; handles | references are exact, ends agree, no request is forgotten, nothing leaks, a blocking connect returns |
| IPC messages (`T/ipc_msg.c`) | per channel end: items on a free, a filled and a read list; blocked and unblocked flags | send, get, read, put; poll and finalize | connections, `handle_notify` | bounded FIFO without loss, duplication or reordering; a refused sender is told when it may go on |
| Handles (`T/handle.c`) | reference count, event pointer, handle list with lock and event | notify, wait for one, list add, delete, wait | all IPC objects | no lost wakeup, no pointer into a dead stack frame, no starvation |
| Secure monitor calls (`S/sm.c`, `L/trusty.c`, `L/trusty-irq.c`) | `stdcallstate`, the thread `sm-stdcall`, each CPU's world; `smc_lock`, `cpu_idle_completion` | queue, run, interrupt, restart, NOP, idle, FIQ | everything that calls into the secure world | each call is executed once and answered with its own result; it returns |
| Shared log (`memlog.c`, `L/trusty-log.c`) | ring with `alloc`, `put`; reader's `get` | write a chunk, read a line, detect overtaking | SMC notifier | only what was logged is printed, in order |
| Non-secure IPC device (`T/tipc_dev.c`) | endpoint table, rx and tx threads, `have_handles`, stop flags | connect, disconnect and data requests; events of channels; reset | connections, messages, virtqueues | an endpoint is freed once, its handle leads to it and no other; every request is answered; reset finds no thread inside |
| Virtqueues and bus (`T/vqueue.c`, `T/trusty_virtio.c`) | ring indices, `NO_NOTIFY`, available event; bus state | get and add buffers, kick, start, stop, reset | `tipc_dev.c`, Linux virtio driver | no lost kick, no buffer used twice |
| Linux IPC driver (`L/trusty-ipc.c`, `L/trusty-virtio.c`) | channels with state, address and completion; device on or off line | open, connect, write, close, responses, removal | virtio | both ends agree on who is connected; a late answer does no harm |
| Storage (`A/storage`) | super blocks, free set, files, transactions, open files, dirty blocks, RPMB counter | transactions, files, writes, mount | RPMB proxy over IPC | transactions are atomic whatever write power fails at; conflicting ones fail; no block is lost or shared |
| Gatekeeper (`A/gatekeeper`) | failure records in memory and storage | enroll, verify | storage | failures are counted across restarts |
| Keymaster, application loader, system calls, helpers | see the notes in `PROJECT.json` | | | |

`PROJECT.json` lists every component, also those that are not modelled and why.

### 1.3 What is hard

* **Two locked sections in one call.** `handle_wait` polls under `ipc_lock` and
  finalizes under it again; a close shuts down and destroys in two sections;
  a blocking connect sleeps in between. Anything may happen between the two.
* **Who frees a channel.** A channel is kept by its handle, by the list it is
  queued on and by its peer. The six orders in which these go must all work.
* **No common lock.** The log's writer and reader share only memory; `active_cpu`
  is read without the lock; handles point at events on other threads' stacks.
* **Two worlds.** A call may be interrupted on one CPU and restarted on another,
  while NOP workers enter on both and FIQs suspend the secure side.
* **Limits.** Full queues, full handle tables, memory that runs out in the middle
  of `ipc_port_publish`, 32-bit counters that wrap.
* **Something must happen.** Blocking connects, refused senders, starving
  handles, the NOP completion that a caller waits for with a ten second timeout.
* **Crashes** (storage): power may fail at and within every write, and the answer
  to a write may be lost although the device executed it.
* **Names used again.** Linux gives out the address of a closed file at once, while
  messages for its old use are still in the rings; the storage service reuses
  blocks that another session's open file had.

The `hazards` of `PROJECT.json` list these at their lines, with the properties
that cover them.

## 2. Modules

| Module | Role |
|---|---|
| `IpcConn` | connections: `ipc.c`, `uctx.c`, the poll / finalize protocol |
| `MCIpcConn` | `IpcConn` with symmetry for TLC |
| `IpcConnProofs` | types, connection graph and references of `IpcConn` |
| `MsgFifo` | abstract: what a connected pair promises |
| `IpcMsg`, `MCIpcMsg` | message queues with flow control; implements `MsgFifo` |
| `IpcMsgProofs` | its invariants, and the refinement |
| `HandleWait`, `MCHandleWait` | `handle.c`: one waiter on a list, one other thread |
| `HandleWaitProofs` | references, events and wakeups, for any set of handles |
| `MemLog`, `MCMemLog` | the ring, its writer and its reader |
| `MemLogProofs` | the ring's invariants for all sizes |
| `RemoteCall` | abstract: what `trusty_std_call32` promises |
| `SmStdCall`, `MCSmStdCall` | standard calls through both worlds; implements `RemoteCall` |
| `SmStdCallProofs` | its invariants, and the refinement |
| `Vqueue`, `MCVqueue` | one ring, every access to shared memory a step |
| `VqueueProofs` | no lost wakeup and no lost buffer, for all ring sizes |
| `TipcRings` | the two rings at the grain of whole calls |
| `TipcDev` | the secure IPC device over `TipcRings` |
| `LinuxTipc` | the Linux driver over `TipcRings` |
| `TipcLink`, `MCTipcLink` | the composition of the two, and its properties |
| `TipcLinkProofs` | all of them, for any number of files, slots and messages |
| `AtomicStore` | abstract: what the storage service promises |
| `Storage`, `MCStorage` | the storage service; implements `AtomicStore` |
| `StorageProofs` | its invariants, and the refinement, for any device and sessions |

Each module starts with the sources it models and the granularity of its steps.
In general a section under one lock is one step, and a call that takes the lock
several times is several steps with a record of where it is (`op[t]` in
`IpcConn`, `w` and `m` in `HandleWait`, `task[t].pc` in `SmStdCall`, `thr[t].pc`
in `TipcDev`, `com` in `Storage`). Where code runs without a lock (`MemLog`,
`Vqueue`, the unlocked read in `SmStdCall`), each access to shared state is a step.

**IpcConn.** `chan` and `port` are the heap objects, with `"FREE"` for memory not
allocated; `refs` is the set of `obj_ref_t` on a channel (`node`, `handle`,
`peer`); `waiting` is `waiting_for_port_chan_list` by path; `table` is the
handle table of each `uctx`. Actions carry the names of the system calls.
A step allocates whenever memory is left, and returns an error (a stuttering
step) when not; the memory is the sets `Ports` and `Chans`. `sys_port_create`
attaches every waiting client in order, and has the outcome in which one of them
cannot be attached. Handle ids and cookies of `uctx.c` are data and left out.
`DEBUG_ASSERT` is on in this build (`DEBUG = 2`), so a failed one stops the
system (`panic`), as does the use of a NULL queue. Message queues are here only
counts.

**IpcMsg.** The three lists of a queue and the items' `state` fields are kept
apart, as in the code, because some operations trust one and some the other.
Copies to and from applications may fail at any time; a failed copy leaves
`NoMsg` in the buffer.

**HandleWait.** The waiter runs `handle_list_wait` in a loop; the other thread
creates, adds, deletes, closes and waits for single handles. `ipc_lock`
(`ipc`) is held by an object from its change to its `handle_notify`. An
unassigned `ret` in `_hlist_do_poll_locked` is a choice between the values it can
have (`PollGarbage`).

**MemLog.** Counters are the true number of characters; the code sees them
modulo `Wrap` (2^32), and every difference is formed modulo `Wrap`. The writer
is kept less than one lap of `Wrap` ahead of the reader: with 32 bits that is
4 GiB of log between two reads, and the code has no defence beyond it.

**SmStdCall.** Callers and per-CPU NOP workers on the Linux side; on the secure
side the state of each CPU, `stdcallstate` and the thread `sm-stdcall`. Both
SMP (2) and the older api version (1) are covered. The thread runs above the
idle thread, so a CPU yields only when `sm-stdcall` has nothing to run there.

**Vqueue.** One ring, which is either the ring of messages to the device (`kind =
"rx"`, one thread waits for them) or the ring of empty buffers (`"tx"`, both threads
ask for them). A descriptor chain is its head. `noNotify` and `event` are what the
two sides suppress and deliver kicks with; `check`, `kick` and `kpc` are the driver
between adding a buffer and reading the flag, a kick that is due, and one that is
being served. The slot of an entry that has been read is cleared, as its old value
cannot be read again.

**TipcRings, TipcDev, LinuxTipc, TipcLink.** Here a call on a ring is one step and
a kick may come at any time; that it does come is `Vqueue`'s subject. To fill a
transmit buffer (get, copy, add) is one step, and so is taking a message and
handling it, with the section under the lock of the channel in it. On the Linux side
a channel can be shut down between the two, because the callback that receives data
has only a reference on the channel (section 6.1); that is not in the model. It does
not make a message reach another file: a file is connected anew only by the same
callback, later.
Channels are named by the request that opens them (`id`), which is history: the code
has only addresses and endpoint numbers, and the properties compare the two. Services
are outside and accept, send and hang up when they like. `chan` has the device's end
of a channel with its handle's references, cookie and membership of the handle list;
what `handle_list_wait` and a channel do inside is in `HandleWait` and `IpcConn`.
On the Linux side one thread uses an open file at a time. `clean` becomes false when
the driver applies an answer to another request than its own or drops a connection
without telling the device, see section 6; the properties that it would break are
stated as long as it is true.

**Storage.** The service is one thread, so a request is one step, except that a
commit is one step per write. `disk` and `super` survive a crash, the rest does not.
A file's entry, block map and data are one block and the tree of files is one block,
both copied on write; the free set stands in the super block. A write to the device
has an outcome (`RpmbWrite`): whether it is on the device, whether the service was
told, and the two write counters after it. `ctr` is `write_counter` of the driver and
`dev` the device's own; both are numbers modulo `CtrMod` (2^32), the device executes a
write only if they are equal, and 0 makes the driver read it first. Requests are lost,
answers are lost or garbled; a garbled answer may clear the counter, since the code
looks at its result before it believes its MAC, and a garbled counter is stored. The
answer to an earlier write does not come in place of a later one: the code compares
neither nonce nor counter in it (`A/storage/rpmb.c:409`), so this is an assumption on
the way to the device. `size` of an open file is 0 or not, which is what decides
whether a read returns anything; `saw` is history, the content that the client was
told of or has written in this transaction. A super block has its version at both
ends (`flags`, `flags2`), so that a torn write can be told. Contents of blocks that
are neither committed nor allocated are forgotten at once (`Junk`), so that a
service that read one would get something that no file ever held.

## 3. Runs

Each run finishes within five minutes on two workers, most within one.

| Run | Instance | Shows |
|---|---|---|
| `conn` | 2 tasks, 2 ports of one name, 4 channels, 2 handles each; 332 000 states | references, peers, lists and port counts exact; no orphan; no forgotten request; connected ends agree (`ConnectedPair`); disconnecting is final |
| `conn_names` | server, trusted client, non-secure client; 2 names, 1 port, 2 channels; 59 000 states | access flags and names hold whichever of port and client came first; a blocking connect returns |
| `conn_waiting_node` | 2 tasks, 1 port, 2 channels | violation, see section 6 |
| `conn_null_queue` | 2 tasks, 1 port, 2 channels | violation, see section 6 |
| `msg` | one direction, 3 buffers, 2 contents; 118 000 states | items partitioned; implements `MsgFifo`; blocked sender is told |
| `wait` | 2 handles, one of them edge triggered; 12 000 states | no lost wakeup, no dangling event, exact counts, no starvation |
| `wait_garbage` | 2 handles | violation, see section 6 |
| `log` | ring of 4, chunks and lines up to 3, counters modulo 8, 11 characters; 54 000 states | only what was logged is printed, in order, across the wrap; the reader catches up |
| `smc` | 1 caller, 2 CPUs with a NOP worker each, both apis, FIQs on one CPU, calls that block; 70 000 states | implements `RemoteCall`; no call is refused and a NOP takes no result (`AnswersExpected`); a call returns without the timeout |
| `vqueue` | either kind of ring, 2 buffers, indices modulo 4; 46 000 states | each buffer at one place across the wrap; no lost wakeup; nobody sleeps for good beside a buffer |
| `tipc` | 2 files, 1 endpoint, rings of 1 buffer, 2 requests to connect; 1 900 000 states | handles and endpoints exact; handles watched; requests answered; ends agree; messages reach their own connection; what reset may wait for |
| `storage` | 2 sessions, 2 files, 5 blocks, 2 transactions; a blank device, or one at version 2; counters modulo 3; 452 000 states | implements `AtomicStore` under crashes, torn writes and lost answers; blocks accounted for; open files and transactions never stale; reads can be repeated; the counter recovers |

The types are checked with the first invariant of each run (`TypeOK` is its first
conjunct) or proved (`IpcConn`, `MemLog`, `Vqueue`); the inductive invariants
`ConnInv`, `Inv` and `SleepInv` hold in the instances above and are proved for all, so
no run repeats them.

**Why the bounds are enough.**
`conn`: four channels are two complete connections, so a channel may be freed
and reused while another one still disconnects, and two requests may be pending on
one port; two ports of one name let a port be closed and another published while
requests are in flight; two handles per table make tables overflow. What this
instance cannot show, larger numbers of everything, is what the proofs are for.
`msg`: three buffers are the fewest with items on all three lists at once, so
that retiring out of order differs from retiring in order.
`wait`: two handles are the fewest that can starve each other and that make the
deleted one differ from the one that is ready; each may be created again.
`log`: a chunk that almost fills the ring, a line that does not end at a chunk,
and more characters than the counters can tell apart (11 against 8).
`smc`: the second CPU is needed for a restart elsewhere and for a NOP that lends
its CPU. Callers take `smc_lock` for the whole of a call, so that one caller at a
time is inside; a second one only waits for the lock. `MaxDone` bounds
`cpu_idle_completion.done`, which NOPs increment: the code distinguishes zero from
more, since every call resets it. `Retry` is 1 in place of the driver's 5: the loop
does not depend on it.
`vqueue`: two buffers make a ring that is neither empty nor full, and twice as many
indices as buffers let them wrap while entries are in the ring.
`tipc`: rings of one buffer make both sides wait for buffers at every place where
they can; one endpoint lets the table be full; two files and two requests are needed
for an address to be used again while messages for its first use are on their way.
`storage`: five blocks hold two files, the root and the copies of two of them, so
that allocation runs out; two transactions are the fewest that conflict, also across
a restart; version 2 makes the two-bit version wrap at the second commit, and the
blank device starts it at 0. Counters modulo 3 from 2 wrap to 0, the value that means
"read it", at the first write, and go apart by up to 2.

**Deadlock** is checked except in `conn*` (applications may all block in connect,
and a panic stops everything), `msg` (both ends closed), `wait*` (a faulting
thread stops the system) and `tipc` (the device is removed, or reset panics).

**Symmetry** is used for channels and ports in `conn` and for files in `tipc`, never
in a run with a liveness property.

**Mutants.** Each property of a passing run has a mutated definition beside the
definition it replaces (comments starting with "Mutation"), a slip that the code
could have: a reference not dropped, a state not tested, an event not raised, an
off-by-one. TLC finds each property violated under its mutant.

## 4. Fairness

* `IpcConn`: LK schedules ready threads, so a call that can go on does (weak
  fairness of the second halves of calls). Applications are event loops around
  `wait_any`, which reports a port with a pending connection until it is accepted:
  strong fairness of `sys_accept`. `ConnectReturns` is conditional on the other
  tasks not blocking for ever in connects of their own, since two applications
  that connect to each other synchronously do wait for each other.
* `IpcMsg`: the receiver takes and retires what it has; the waiting thread polls.
  Nobody has to send.
* `HandleWait`: LK mutexes are handed over in order of arrival, hence strong
  fairness of steps that take a lock. Nobody has to notify, add or delete.
* `MemLog`: the log is read after every call into the secure world; spin locks
  are not kept. Nobody has to write.
* `SmStdCall`: interrupts may arrive again and again but threads progress between
  them: strong fairness of the secure threads and of callers that need a CPU.
  Calls, NOPs, interrupts, FIQs and the ten second timeout have no fairness, so
  `CallReturns` shows that the timeout is not needed. It is conditional on the
  handler not waiting for other threads for ever and on FIQs that cease at last.
* `Vqueue`: threads of the device that are inside a call get on, also past a spin
  lock that others take again and again (strong fairness); Linux reads the flag
  after adding buffers (the next statement) and its work queue serves kicks. Nobody
  has to want a buffer or to supply one.
* `TipcLink` and `Storage` are checked for safety only: whether services answer and
  power stays on is outside.

## 5. Proofs

`tlapm` checks all theorems. They hold for every value of the constants that
satisfies the named assumptions of the modules (`IpcConnAssumption`,
`IpcMsgAssumption`, `HandleWaitAssumption`, `MemLogAssumption`,
`SmStdCallAssumption`, `VqueueAssumption`, `RingsAssumption`, `TipcDevAssumption`,
`FdsAssumption`, `StorageAssumption`, `NullAssumption`): buffers, slots and blocks
exist, sets that the code allocates from are finite where the model counts them, the
files of a device that is not blank fit on it, and the value for "none" is not one of
the others. No other hypothesis is used. Each component has one inductive
invariant, stated in the component's module next to the properties
(`MsgInv` in its proof module), because the properties are not inductive by themselves;
TLC found no violation of it on the instance of the component's run before it was
proved. The proofs have lemmas for the operators, one lemma per action or group of
actions, and a last part in which the properties follow.

**`IpcConnProofs`**

* `TypeCorrect`, `Spec => []TypeOK`. Besides the fields' types this has the bound of
  the queues (`filled + read <= NumBufs`) and that a call in progress has a handle of
  the right kind.
* `ConnectionsAgree`, `Spec => []ConnInv`, and from it `ConnectionsPaired`
  (`ConnectedPair`: the peer that `sys_send_msg` dereferences, and
  `check_channel_connected_locked` asserts, is there) and `DisconnectFinal`.
* `ReferencesAgree`, `Spec => [](ConnInv /\ RefsInv)`, and from it `ReferencesExact`,
  `NothingLeaks`, `RequestsPending`, `WaitersListed`, `PortCountExact` and
  `PendingAdmitted`: all other invariants of the runs `conn` and `conn_names`.

`ConnectedPair` is not inductive. That accepting yields a pair needs that the two
ends of a *pending* connection point at each other and are in opposite states
(`Graph`). That freeing a channel does not free somebody's peer needs that whoever
is pointed at holds a `peer` reference. That the last `handle` reference belongs to
a channel that was shut down, and that no other task uses it, needs the owners
(`Owned`). That a closed port drops only connections that nobody owns needs
`PendingLists`, and that publishing attaches exactly the clients that wait, each
once, needs `WaitLists`. `ConnInv` is the conjunction of these with `TypeOK`.
`RefsInv` turns "has a reference, so somebody has it" around: every reference has
its holder (`Links`, `Reached`), a port counts its holders and is listed while it
listens (`PortLife`), nobody waits for a published name (`WaitersUnserved`), and
what is pending was admitted.

**`IpcMsgProofs`**: `ItemsShared` (`ItemsPartitioned`), `BlockedJustified`
(`BlockedMeansFull`) and `QueuesAreFifo`, `Spec => ImplementsFifo`: every step is a
step of `MsgFifo` or a stutter, for any number of items and messages. The two
invariants are inductive together; for the refinement `MsgInv` adds that every
message on a list is whole, and that an end is connected only while its peer is.

**`HandleWaitProofs`**: `WaitInvHolds`, and from it `HandleRefsExact` (`RefsExact`),
`EventsNotDangling` (`NoDanglingEvent`) and `SleepIsJustified` (`SleepJustified`),
for any finite set of handles. `WaitInv` says who has `hlist->lock` (`InPlace`),
which handles the waiter has prepared and polled at its place in the loop
(`InEvents`), and that an event of a handle already polled has been told or is being
told (`Told`). The waiter goes from poll to sleep without a lock, so the last part is
what makes sleeping safe; it holds at `handle_list_add` only because the new handle
is polled under the lock of the list.

**`MemLogProofs`**: `RingOrdered`, `PrintedCorrect` and `PrintedOrdered`, for every
size of ring, chunk, line and counter. The invariant is `Inv` of `MemLog`: the ring
holds the last `Sz` characters stored (`RingHolds`), the writer is inside one chunk
(`ProducerOK`), the reader is behind it by less than a lap (`ConsumerOK`), and a
line that was *not* overtaken is a piece of the log (`LineOK`). The last one is the
heart: the code compares after reading, and `alloc` is advanced before the first
character of a chunk is stored, so a reader that still finds `alloc - get <= sz`
read no cell that was overwritten.

**`SmStdCallProofs`**: `SmcInvHolds`, and from it `ActiveIsInside` (`ActiveInside`),
`AnswersAreExpected` (`AnswersExpected`) and `CallsAreRemoteCalls`,
`Spec => ImplementsCall`, for any callers and CPUs, both api versions, and FIQs on
any CPUs. `SmcInv` relates the four places that describe one call: the Linux task,
its CPU (`CpusAgree`), `stdcallstate` (`StdInv`) and the secure thread. `CallAt`
says for each stage of the call of the caller that has the lock (entering, executing,
returned) what the shared state is; that an interrupted caller always
finds its own call again follows from it, and the refinement too.

**`VqueueProofs`**: `NoLostWakeup`, `Spec => []SleepJustified`, for every ring size
and index range. That a sleeping thread will be woken is not inductive: which step
puts it to sleep beside a buffer is found only by looking at the event and the flag
before. `SleepInv` says that the event is clear while somebody sleeps; that
`NO_NOTIFY` is set beside a clear event only in the middle of `vqueue_signal_avail`,
which sets the event next; and that a buffer beside a clear event always has somebody
about to look again, to read the flag, or to signal. The second look after clearing
the flag is what carries the step from an empty ring to sleep: a buffer added before
the flag was cleared is seen by it, one added after it is announced by a kick.
`BuffersKept`, `Spec => []BuffersOnce`, rests on `PlacesInv`: the slots that hold
buffers are exactly those between the two free-running indices, modulo the size of
the ring, and free buffers, rings and threads share the buffers out. The only
arithmetic fact it needs is that the index range is a multiple of the ring size.

**`TipcLinkProofs`**: `LinkInvHolds`, and from it all six properties of the run:
`ExactEndpoints`, `ResetWakes`, `AnswersComing`, `EndsKnowEachOther`,
`DeliveredRight` and `HandlesAreWatched`, for any number of files, slots, requests,
messages and buffers. `DevInv` counts the holders of a handle and says what each
thread works on. `OrderInv` has the order on the rings: a request keeps its address
wherever it is mentioned, is handled once and before anything else happens to it,
and a disconnect comes before the next request from its address. `CleanInv` holds
while no address was used again too early: each end's knowledge of the other is true
or a message that corrects it is on its way, and data behind an accept belongs to
that accept. `GoneInv` keeps the part of it that survives the removal of the driver.

**`StorageProofs`**: `StoreInvHolds`, and from it everything the run checks:
`BlocksAreAccounted`, `HandlesStayCurrent`, `MountGivesMemory`, `CounterGivenUp`,
`ReadsAreStable` and `StoreIsAtomic`, `Spec => ImplementsAtomicStore`, for any device
size, reserve, sessions, paths and values, whatever the device held at first.
`StoreInv` says that what would be mounted is a tree of files beside its free set,
nothing lost and nothing shared (`OnDevice`); that a transaction allocated or freed a
block for exactly one reason, a file it updates, removes or adds, or the root while
it commits (`TransactionOK`); that an open file designates what `Lookup` would find
(`HandleOK`); and that a commit in progress will leave its own tree (`CommitOK`).
The properties are not inductive: blocks are reused, so that a transaction still fits
after *another* one has committed needs the reasons for its blocks. They show
that a transaction that survives has freed nothing that the other one freed; then every
file it updates or removes is still in its place, and its pending changes mean the
same over the new tree as over the old one. `CounterGivenUp` follows from `CounterOK`:
after a write without a fault `ctr` is 0 or equal to `dev`, whatever they were before,
because the device has either advanced with the driver or has refused, which clears
`ctr`. `ReadsAreStable` needs `ReadsInv` beside `StoreInv`: what was told is still so,
and a file of which something was told is marked and its transaction active. Without
the second part the commit of another session could move the file and spare the
transaction; with it a file that was seen and survives does not move, and its block is
neither written nor freed by the commit. For the refinement the step that commits
is the write of the super block, landed or cut short after its last word; that the
losers of `AtomicStore` are among the sessions that fail is the same fact read
backwards. The cases of the two-bit version, of a torn super block and of the
injection of the first files into blocks are lemmas of their own.

**Only model-checked**: the liveness properties (`ConnectReturns`,
`UnblockDelivered`, `EveryHandleServed`, `LogDrained`, `CallReturns`,
`NotForgotten`), as the prover does not reason about fairness or `ENABLED`. Every
safety property of the passing runs is also a theorem. There is no recursive
definition whose value for every input would have to be proved by induction.

## 6. Disagreements between code and its own statements

1. **`conn_waiting_node`** (`T/ipc.c:278`). `ipc_port_publish` removes a waiting
   client from the list and, if it cannot be attached (access denied, no memory),
   calls `chan_shutdown_locked` to "close channel". The client is still in
   `WAITING_FOR_PORT`, and `_chan_shutdown_locked` asserts that it is on the list.
2. **`conn_null_queue`** (`T/ipc_msg.c:455`, `:359`). An asynchronous connect that
   waits for its port returns a channel whose `msg_queue` is NULL. The message calls
   check only that the handle is a channel.
3. **`wait_garbage`** (`T/handle.c:270`). `_hlist_do_poll_locked` returns `ret`
   unassigned when it polls again after a wakeup and the handle that was signalled
   has been deleted in the meantime.

The other runs treat 1 and 2 as steps to a halted state and 3 as a fault, so that
they say something about the rest of the behaviour.

`AnswersExpected` shows more: the branch of `sm_queue_stdcall` that refuses a call
as unexpected cannot be taken with this driver.

### 6.1 Observations without a run

Behaviours met while modelling. Those marked (m) are in the models, and the
properties are stated so that they hold beside them; the others were read in the code.

Storage:

* (m) `A/storage/file.c:1014` asserts that an open file of another session that is
  not marked as used is unchanged. `file_set_size` and `file_delete` do not set
  `used_by_tr`, so a session that only truncated or deleted a file it has open makes
  the commit of another session's change of that file stop the service, although the
  comment above the function promises to fail the conflicting transaction. The super
  block is written by then; what is on the device stays correct (`CommitAborts`).
  The same happens to a session by itself: `file_delete` clears the block of a handle
  that has the file open, and not its size, so that `:1027` fails at the commit of the
  deletion of an open file with content. The test in `A/storage/test/block_test.c:1202`
  deletes an open file of size 0.
* (m) `used_by_tr` belongs to the handle. A file that was read and closed again is
  not protected against another commit within the same transaction, which is why
  `ReadsStable` speaks of open files. Neither is one that was read without result: a
  read of an empty file or at the end calls `file_get_block` not even once
  (`A/storage/client_tipc.c:503`), so that a client that found nothing goes on when
  another session commits content. Asking for the size does mark the file
  (`A/storage/file.c:501`).
* The answer to a write is accepted without a look at its nonce or counter
  (`A/storage/rpmb.c:409`). An answer to an earlier write to the same address that
  came again would report a write that did not happen.
* `fs_init` with `clear` leaves `super_block_version` at 0, so that the next commit
  writes version 1 into slot 1. If slot 0 still holds version 2, that one wins at the
  next mount, and the cleared file system is back.

Non-secure IPC:

* (m) Reset signals the rx thread's own queue and joins it with a timeout. If the
  thread waits in `send_conn_rsp` for a transmit buffer, nothing wakes it: `tx_stop`
  is set only afterwards, kicks are standard calls and wait for the reset, and
  `trusty_virtio_remove` has stopped the callbacks that would return buffers. The
  result is the panic at `T/tipc_dev.c:791`. The same holds for a tx thread that is
  woken by `tx_stop`, goes on with the next queued message and sleeps again.
  `StuckOnlyForBuffers` shows that these are the only two ways.
* (m) An address of the driver is given out again at once (`L/trusty-ipc.c:376`). A
  disconnect or a response for its old use is then applied to the new one: the device
  keeps an endpoint that no file knows, and its messages may reach the wrong file.
  Closing a file while no transmit buffer is free has the first effect too. `clean`
  marks these behaviours.
* (m) `reply_comp` counts: a completion left over from a disconnect ends the next
  connect of the same file at once with an error. Connecting again to the service a
  file is already connected to sends nothing, waits for the whole timeout and marks
  the file stale (`L/trusty-ipc.c:599`).
* (m) `_go_offline` (`L/trusty-ipc.c:1263`) looks up any channel in a loop that does
  not remove it, and so turns until every file is closed.
* `last_avail_idx` is not reset when a queue is destroyed and initialized again; the
  first look at the new ring takes the difference for an index out of range and panics
  (`T/vqueue.c:128`).
* `tipc_virtio_remove` sets `vds->vdev` to NULL and then passes it to `del_vqs`
  (`L/trusty-ipc.c:1574`, `:1586`).
* Data for a channel that is not accepted yet, or whose queue is full, is dropped
  without a word (`T/tipc_dev.c:450`).
* A file's `rx_msg_queue` is not emptied when it connects again.
* `_handle_rxbuf` passes a data message to `handle_msg(chan->ops_arg)` with a reference
  on the channel and without its lock (`L/trusty-ipc.c:1430`). `tipc_release` on
  another CPU may free the file's `tipc_dn_chan` between the lookup and the call.
* `vqueue_init` frees the queue when the ring cannot be mapped, but the queue is
  embedded in the device (`T/vqueue.c:62`); `virtio_start` ignores what `probe`
  returns (`T/trusty_virtio.c:277`).

Gatekeeper: when all failure records in memory are in use, the one checked longest
ago is replaced, and its user starts again with none
(`A/gatekeeper/trusty_gatekeeper.cpp:345`).

## 7. Not modelled

* Of the modelled components: `uctx_destroy` (no caller in the tree: applications
  never exit with handles closed for them; `sys_exit_group` does not close any);
  registering and removing log memory (`memlog_add`, `memlog_rm`); the dump from
  the panic notifier, which takes no lock on purpose; fast calls, api negotiation,
  boot arguments and the monitor's assembly; FIQs under api versions below 1.
* Of the IPC device and drivers: malformed messages, a failing probe, descriptor
  parsing and memory mapping; the pool of transmit buffers behind the ring (a buffer
  is free again when the device has returned it); receive queues of files, poll, and
  several threads on one file; starting the device again after its removal.
* Of storage: blocks for the bookkeeping of a transaction, eviction from the cache
  before a commit, the nodes of trees and block maps (block_tree.c is a sequential
  data structure of 3000 lines, out of reach of both tools as a whole); several open
  files of a session; the file system in a non-secure file with `clear`; the search
  for the size of the RPMB partition; encryption and MACs, which are assumed ideal;
  answers of the device that come again, and a device whose counter has reached its
  last value, which refuses to write for good.
* Gatekeeper and Keymaster: what decides when their records are read and written is a
  library that is not in the tree.
* Sequential code with little control: application loading, address spaces, ELF
  parsing, key blobs, iovec copies, dispatch tables.
* Vendored code: LK, OpenSSL, QEMU, the prebuilt compilers, the Elastos runtime,
  samples and tests. LK's events, mutexes and scheduler are taken as documented. This
  is all but about 25 000 of the repository's 1.2 million lines of C, so the share of
  the repository that the `map` covers says little; the sources listed in section 1.2
  are what the project is about.

## 8. Plan

What is left, in order of importance.

Models: the free set as a tree with its own blocks, whose commit allocates while it
frees (`transaction_merge_free_sets`); the Linux receive queue with poll; the
interrupt driver's enable and disable sets around calls.
