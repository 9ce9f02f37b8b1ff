------------------------------ MODULE Storage ------------------------------
(* The storage service of app/storage: super.c, transaction.c, file.c,      *)
(* block_allocator.c, block_cache.c, client_tipc.c and rpmb.c, for the file  *)
(* system that is kept in RPMB.                                             *)
(*                                                                          *)
(* The service has one thread, so a request of a client is one step; only a *)
(* commit is several, because power may fail at every write.  A file entry, *)
(* its block map and its data are one block, and so is the tree of files;   *)
(* both are copied on write.  The free set stands in the super block itself *)
(* in place of the root of its tree.  Blocks for the bookkeeping of a       *)
(* transaction (tmp_allocated) are left out: they come from the same        *)
(* allocator and are never reachable from a super block.  The cache is      *)
(* large enough to keep a transaction until it commits.  A session has at   *)
(* most one file open.                                                      *)
(*                                                                          *)
(* The content of a block that is neither committed nor allocated is        *)
(* forgotten (Junk), and so are the roots in the super block that is not    *)
(* the one to mount: nothing may depend on them.                            *)
EXTENDS Integers, FiniteSets

CONSTANTS Sessions,    \* clients connected to the service
          Paths, Values,
          Uses(_),     \* the paths a session opens and deletes
          NumBlocks,   \* fs->dev->block_count less the super blocks
          Reserved,    \* fs->reserved_count
          InitFiles, InitVersions,  \* of a device that is not blank
          InitCounters,  \* write counters of the device at first
          CtrMod,      \* range of the write counters, 2^32 in the code
          MaxTr,       \* transactions begun in one behaviour (a bound)
          Empty, NoFile, Same, NULL

ASSUME StorageAssumption ==
  /\ NumBlocks \in Nat \ {0} /\ Reserved \in Nat /\ MaxTr \in Nat
  /\ CtrMod \in Nat \ {0, 1}
  /\ InitVersions \subseteq 0..3 /\ InitCounters \subseteq 0..CtrMod - 1
  /\ InitFiles \subseteq Paths
  /\ IsFiniteSet(InitFiles) /\ Cardinality(InitFiles) < NumBlocks
  /\ \A t \in Sessions : Uses(t) \subseteq Paths
  /\ Empty \in Values /\ NoFile \notin Values /\ Same \notin Values \cup {NoFile}

Blocks == 1..NumBlocks
BlockNumbers == Blocks \cup {0}    \* 0 is no block
Counters == 0..CtrMod - 1

(* struct file_handle, and a commit in progress.  Of the size only whether  *)
(* it is 0 matters.  saw is history: the content that the transaction was   *)
(* told of, or has written itself, or NULL.                                 *)
Handles == [block : BlockNumbers, committed : BlockNumbers, size : 0..1,
            used : BOOLEAN, saw : Values \cup {NULL}]
Commits == [tr : Sessions, files : BlockNumbers, free : SUBSET Blocks]

ASSUME NullAssumption == NULL \notin Sessions \cup Values \cup Handles \cup Commits

NoFiles == [p \in Paths |-> 0]
Junk == <<"junk", NoFiles, NoFile>>
Entry(p, v) == <<"file", p, v>>     \* struct file_entry and what it leads to
FilesNode(f) == <<"files", f>>      \* root of fs->files, path to block

VARIABLES
  disk,     \* contents of the blocks
  super,    \* the two super blocks
  ctr,      \* state->write_counter of the driver, 0 if it has to be read
  dev,      \* the write counter of the device (external)
  calm,     \* no fault met the last write, if there was one (history)
  fs,       \* struct fs; state is "up", "down" or "aborted" by an assertion
  tr,       \* struct transaction of each session
  file,     \* struct file_handle of each session, or NULL
  cache,    \* contents of the dirty blocks, Junk for the others
  com,      \* transaction_complete in progress, or NULL
  begun     \* transactions begun so far

vars == <<disk, super, ctr, dev, calm, fs, tr, file, cache, com, begun>>

Inactive == [active |-> FALSE, failed |-> FALSE, alloc |-> {}, freed |-> {},
             updated |-> [b \in Blocks |-> 0],   \* files_updated, old to new
             added |-> NoFiles,                  \* files_added, path to block
             removed |-> {}]                     \* files_removed
Down == [state |-> "down", files |-> 0, free |-> {}, version |-> 0]
Blank == [valid |-> FALSE, flags |-> 0, flags2 |-> 0, files |-> 0, free |-> Blocks]

(* A device that is blank, or that holds the files InitFiles.               *)
InitBlock == CHOOSE f \in [InitFiles -> 2..Cardinality(InitFiles) + 1] :
               \A x, y \in InitFiles : x # y => f[x] # f[y]

Formatted(v, n) ==
  LET f == [x \in Paths |-> IF x \in InitFiles THEN InitBlock[x] ELSE 0]
      used == 1..Cardinality(InitFiles) + 1
  IN /\ disk = [b \in Blocks |->
                 IF b = 1 THEN FilesNode(f)
                 ELSE IF b \in used THEN Entry(CHOOSE x \in InitFiles : f[x] = b, v)
                 ELSE Junk]
     /\ super = [i \in 0..1 |->
                 IF n % 2 = i
                 THEN [valid |-> TRUE, flags |-> n, flags2 |-> n, files |-> 1,
                       free |-> Blocks \ used]
                 ELSE [valid |-> TRUE, flags |-> (n + 3) % 4,
                       flags2 |-> (n + 3) % 4, files |-> 0, free |-> {}]]

Init ==
  /\ \/ /\ disk = [b \in Blocks |-> Junk]
        /\ super = [i \in 0..1 |-> Blank]
     \/ \E v \in Values \ {Empty}, n \in InitVersions : Formatted(v, n)
  /\ ctr = 0 /\ dev \in InitCounters /\ calm = TRUE
  /\ fs = Down
  /\ tr = [t \in Sessions |-> Inactive]
  /\ file = [t \in Sessions |-> NULL]
  /\ cache = [b \in Blocks |-> Junk]
  /\ com = NULL /\ begun = 0

----------------------------------------------------------------------------
(* Super blocks.                                                            *)

SuperValid(s, i) == s.valid /\ s.flags = s.flags2 /\ s.flags % 2 = i

\* Mutation of NewerThan: the version does not wrap.
NewerNoWrap(new, old) == new.flags > old.flags

(* use_new_super for the second slot, the first one being accepted.         *)
NewerThan(new, old) == (new.flags - old.flags) % 4 = 1

(* load_super_block: the super block to mount, or Blank.                    *)
Chosen(s) ==
  IF SuperValid(s[0], 0)
  THEN IF SuperValid(s[1], 1) /\ NewerThan(s[1], s[0]) THEN s[1] ELSE s[0]
  ELSE IF SuperValid(s[1], 1) THEN s[1] ELSE Blank

NextVersion(v) == (v + 1) % 4

Tidy(s) == [i \in 0..1 |-> IF s[i] = Chosen(s) THEN s[i]
                           ELSE [s[i] EXCEPT !.files = 0, !.free = {}]]

(* What update_super_block writes.                                          *)
SuperImage(v) == [valid |-> TRUE, flags |-> v, flags2 |-> v,
                  files |-> com.files, free |-> com.free]

(* A write that power failure cut short keeps the old end of the block.     *)
TornImage(old, new) == [new EXCEPT !.flags2 = old.flags2]

(* The files below a root, and the blocks in use below a super block.       *)
FilesAt(root, d) == IF root = 0 THEN NoFiles ELSE d[root][2]
FileBlocks(f) == {f[p] : p \in Paths} \ {0}
Below(root, d) == ({root} \cup FileBlocks(FilesAt(root, d))) \ {0}
Reachable(s, d) == Below(s.files, d)

Forget(d, S) == [b \in Blocks |-> IF b \in S THEN Junk ELSE d[b]]

Committed == FilesAt(fs.files, disk)
Dirty(b) == cache[b] # Junk
Content(b) == IF Dirty(b) THEN cache[b] ELSE disk[b]

----------------------------------------------------------------------------
(* The device.  A write has an outcome: whether the data is on the device,  *)
(* whether the service was told so, and the two counters after it.  A       *)
(* request may be lost, an answer lost or garbled; the answer to an earlier *)
(* write does not come in its place.                                        *)

Outcome(landed, ok, c, d, fault) ==
  [landed |-> landed, ok |-> ok, ctr |-> c, dev |-> d, fault |-> fault]

Increment(c) == (c + 1) % CtrMod

\* Mutation of Answered: the counter is not cleared.
CounterKept(c, accepted) == IF accepted THEN Increment(c) ELSE c

(* RPMB_RES_COUNT_FAILURE makes the next write read the counter again.      *)
Answered(c, accepted) == IF accepted THEN Increment(c) ELSE 0

(* rpmb_write_data with counter c, which the device compares with its own.  *)
(* The result in an answer is looked at even if its MAC is wrong, so that a *)
(* garbled one may clear the counter.                                       *)
WriteData(c) ==
  LET accepted == c = dev
      d == IF accepted THEN Increment(dev) ELSE dev
  IN {Outcome(accepted, accepted, Answered(c, accepted), d, FALSE)}
       \cup {Outcome(accepted, FALSE, k, d, TRUE) : k \in {c, 0}}
       \cup {Outcome(FALSE, FALSE, k, dev, TRUE) : k \in {c, 0}}

(* rpmb_read_counter stores what it got before it checks the answer.        *)
ReadCounterFails == {Outcome(FALSE, FALSE, k, dev, TRUE) : k \in Counters}

RpmbWrite ==
  IF ctr # 0 THEN WriteData(ctr) ELSE WriteData(dev) \cup ReadCounterFails

Device(o) ==
  /\ ctr' = o.ctr /\ dev' = o.dev
  /\ calm' = ~o.fault

----------------------------------------------------------------------------
(* Failing transactions.                                                    *)

(* What is read as the size of the file at block b.                         *)
Size(v) == IF v = Empty THEN 0 ELSE 1
FileSize(b) == IF b = 0 THEN 0 ELSE Size(Content(b)[3])

Handle(b, c) == [block |-> b, committed |-> c, size |-> FileSize(b),
                 used |-> FALSE, saw |-> NULL]

(* file_transaction_failed: back to the committed file, whose size is read  *)
(* again; if that is not possible the handle is cleared.                    *)
Restored(h, lost) ==
  IF h = NULL THEN NULL
  ELSE IF lost THEN Handle(0, 0)
  ELSE IF h.block # h.committed THEN Handle(h.committed, h.committed)
  ELSE [h EXCEPT !.used = FALSE, !.saw = NULL]

(* The sessions whose file has to be read again.                            *)
Reread(files, F) ==
  {u \in F : files[u] # NULL /\ files[u].block # files[u].committed}

FailedTr == [Inactive EXCEPT !.failed = TRUE]

(* transaction_fail for the sessions F; any of their files may turn out not *)
(* to be readable.  Their dirty blocks are discarded.                       *)
FailFrom(trs, files, d, F) ==
  /\ tr' = [u \in Sessions |->
             IF u \in F THEN FailedTr ELSE trs[u]]
  /\ \E lost \in SUBSET Reread(files, F) :
       file' = [u \in Sessions |->
                 IF u \in F THEN Restored(files[u], u \in lost) ELSE files[u]]
  /\ cache' = Forget(cache, UNION {trs[u].alloc : u \in F})
  /\ disk' = Forget(d, UNION {trs[u].alloc : u \in F})

Fail(t) == FailFrom(tr, file, disk, {t})

----------------------------------------------------------------------------
(* Requests.                                                                *)

(* client_handle_msg: a session without a transaction gets one; a session   *)
(* whose transaction failed gets an error.  Begin is a request that finds   *)
(* nothing to do: an open or a delete of a file that does not exist.        *)
Idle == fs.state = "up" /\ com = NULL
Ready(t) == Idle /\ tr[t].active

Begin(t) ==
  /\ Idle /\ ~tr[t].active /\ ~tr[t].failed
  /\ begun < MaxTr /\ begun' = begun + 1
  /\ tr' = [tr EXCEPT ![t] = [Inactive EXCEPT !.active = TRUE]]
  /\ UNCHANGED <<disk, super, ctr, dev, calm, fs, file, cache, com>>

\* Mutation of Available: only what is committed is looked at.
AvailableForAll == fs.free

(* find_free_block: committed free and not allocated by any transaction.    *)
Available == fs.free \ UNION {tr[u].alloc : u \in Sessions}

Lowest(S) == CHOOSE b \in S : \A c \in S : b <= c

(* file_lookup_not_removed and the search in files_added: the block of the  *)
(* current state of the file, and the block of its committed state.         *)
Lookup(r, p) ==
  LET c == Committed[p]
  IN IF r.added[p] # 0 THEN [block |-> r.added[p], committed |-> 0]
     ELSE IF c = 0 \/ c \in r.removed THEN [block |-> 0, committed |-> 0]
     ELSE IF r.updated[c] # 0 THEN [block |-> r.updated[c], committed |-> c]
     ELSE [block |-> c, committed |-> c]

SetTr(t, r) == tr' = [tr EXCEPT ![t] = r]
SetFile(t, h) == file' = [file EXCEPT ![t] = h]

SetBlock(b, c) == cache' = [cache EXCEPT ![b] = c]

(* file_open of a file that is there.                                       *)
Open(t, p) ==
  LET l == Lookup(tr[t], p)
  IN /\ Ready(t) /\ file[t] = NULL /\ l.block # 0
     /\ SetFile(t, Handle(l.block, l.committed))
     /\ UNCHANGED <<disk, super, ctr, dev, calm, fs, tr, cache, com, begun>>

(* file_open with FILE_OPEN_CREATE: file_create.                            *)
OpenCreate(t, p) ==
  LET r == tr[t]
      b == Lowest(Available)
  IN /\ Ready(t) /\ file[t] = NULL
     /\ Lookup(r, p).block = 0
     /\ \/ /\ Available # {}
           /\ SetTr(t, [r EXCEPT !.alloc = @ \cup {b}, !.added[p] = b])
           /\ SetFile(t, [Handle(b, 0) EXCEPT !.size = 0])
           /\ SetBlock(b, Entry(p, Empty))
           /\ UNCHANGED disk
        \/ Available = {} /\ Fail(t)
     /\ UNCHANGED <<super, ctr, dev, calm, fs, com, begun>>

PathAt(b) == Content(b)[2]

(* file_block_map_update: the entry of an open file gets content v, in      *)
(* place if this transaction allocated the block, in a copy otherwise.      *)
Update(t, r, h, v) ==
  LET b == Lowest(Available)
  IN \/ /\ h.block \in r.alloc
        /\ SetTr(t, r) /\ SetFile(t, h)
        /\ SetBlock(h.block, Entry(PathAt(h.block), v))
        /\ UNCHANGED disk
     \/ /\ h.block \notin r.alloc /\ Available # {}
        /\ SetTr(t, [r EXCEPT !.alloc = @ \cup {b},
                              !.freed = @ \cup {h.block},
                              !.updated[h.block] = b])
        /\ SetFile(t, [h EXCEPT !.block = b])
        /\ SetBlock(b, Entry(PathAt(h.block), v))
        /\ UNCHANGED disk
     \/ h.block \notin r.alloc /\ Available = {} /\ Fail(t)

(* storage_file_write; a handle whose file is gone fails the transaction.   *)
Write(t, v) ==
  LET h == [file[t] EXCEPT !.used = TRUE, !.size = Size(v), !.saw = v]
  IN /\ Ready(t) /\ file[t] # NULL
     /\ \/ file[t].block # 0 /\ Update(t, tr[t], h, v)
        \/ file[t].block = 0 /\ Fail(t)
     /\ UNCHANGED <<super, ctr, dev, calm, fs, com, begun>>

(* storage_file_set_size, which only shrinks, and open with the truncate    *)
(* flag: file_set_size does not set used_by_tr.                             *)
SetSize(t, v) ==
  LET h == [file[t] EXCEPT !.size = Size(v),
                           !.saw = IF @ = NULL THEN NULL ELSE v]
  IN /\ Ready(t) /\ file[t] # NULL
     /\ file[t].block # 0 /\ file[t].size # 0
     /\ v # Content(file[t].block)[3]
     /\ Update(t, tr[t], h, v)
     /\ UNCHANGED <<super, ctr, dev, calm, fs, com, begun>>

(* The client is told of the content of its open file.                      *)
Tell(t) ==
  /\ SetFile(t, [file[t] EXCEPT !.used = TRUE, !.saw = Content(file[t].block)[3]])
  /\ UNCHANGED <<disk, super, ctr, dev, calm, fs, tr, cache, com, begun>>

(* storage_file_read of at least one byte: file_get_block marks the file.   *)
(* A read that has no byte to return, of an empty file or at the end, calls *)
(* it not even once and changes nothing.                                    *)
Read(t) ==
  /\ Ready(t) /\ file[t] # NULL
  /\ file[t].block # 0 /\ file[t].size # 0
  /\ Tell(t)

(* storage_file_get_size: file_get_size marks an empty file too.            *)
GetSize(t) ==
  /\ Ready(t) /\ file[t] # NULL /\ file[t].block # 0
  /\ Tell(t)

(* A block cannot be read, or its mac is wrong: block_get.  Likewise a file *)
(* that was deleted while it is open: file_block_map_init.                  *)
ReadError(t) ==
  /\ Ready(t)
  /\ Fail(t)
  /\ UNCHANGED <<super, ctr, dev, calm, fs, com, begun>>

(* file_delete.                                                             *)
Deleted(r, p) ==
  LET l == Lookup(r, p)
      own == l.block \in r.alloc
  IN [r EXCEPT
       !.added[p] = 0,
       !.updated = [b \in Blocks |-> IF b = l.committed THEN 0 ELSE r.updated[b]],
       !.removed = IF l.committed = 0 THEN @ ELSE @ \cup {l.committed},
       !.alloc = @ \ {l.block},
       !.freed = IF own THEN @ ELSE @ \cup {l.block}]

Delete(t, p) ==
  LET r == tr[t]
      b == Lookup(r, p).block
      own == b \in r.alloc
  IN /\ Ready(t) /\ b # 0
     /\ SetTr(t, Deleted(r, p))
     /\ SetFile(t, IF file[t] # NULL /\ file[t].block = b
                   THEN [file[t] EXCEPT !.block = 0, !.saw = NULL] ELSE file[t])
     /\ cache' = IF own THEN Forget(cache, {b}) ELSE cache
     /\ UNCHANGED <<disk, super, ctr, dev, calm, fs, com, begun>>

Close(t) ==
  /\ Ready(t) /\ file[t] # NULL
  /\ SetFile(t, NULL)
  /\ UNCHANGED <<disk, super, ctr, dev, calm, fs, tr, cache, com, begun>>

(* STORAGE_END_TRANSACTION after a failure, or the last request of a failed *)
(* transaction.                                                             *)
ClearFailed(t) ==
  /\ Idle /\ tr[t].failed
  /\ SetTr(t, Inactive)
  /\ UNCHANGED <<disk, super, ctr, dev, calm, fs, file, cache, com, begun>>

(* STORAGE_END_TRANSACTION that discards, and client_disconnect.            *)
Discard(t, close) ==
  /\ Idle
  /\ tr[t].active \/ (close /\ file[t] # NULL)
  /\ tr' = [tr EXCEPT ![t] = Inactive]
  /\ \/ close /\ SetFile(t, NULL)
     \/ ~close /\ \E lost \in SUBSET Reread(file, {t}) :
                    SetFile(t, Restored(file[t], t \in lost))
  /\ cache' = Forget(cache, tr[t].alloc)
  /\ UNCHANGED <<disk, super, ctr, dev, calm, fs, com, begun>>

----------------------------------------------------------------------------
(* transaction_complete.                                                    *)

(* file_transaction_complete: updated, then removed, then added files.      *)
Kept(r) ==
  [p \in Paths |->
    LET c == Committed[p]
    IN IF c = 0 \/ c \in r.removed THEN 0
       ELSE IF r.updated[c] # 0 THEN r.updated[c] ELSE c]

AddConflicts(r) == \E p \in Paths : r.added[p] # 0 /\ Kept(r)[p] # 0

NewFiles(r) ==
  [p \in Paths |-> IF r.added[p] # 0 THEN r.added[p] ELSE Kept(r)[p]]

Changed(r) == \/ r.removed # {} \/ \E p \in Paths : r.added[p] # 0
              \/ \E b \in Blocks : r.updated[b] # 0

(* The transaction with the new root allocated and the old one freed; the   *)
(* new free set is what transaction_merge_free_sets leaves.                 *)
Prepared(t) ==
  LET r == tr[t]
      new == IF Changed(r) THEN {Lowest(Available)} ELSE {}
      old == IF Changed(r) THEN {fs.files} \ {0} ELSE {}
      alloc == r.alloc \cup new
      freed == r.freed \cup old
  IN [tr |-> [r EXCEPT !.alloc = alloc, !.freed = freed],
      files |-> IF Changed(r) THEN Lowest(Available) ELSE fs.files,
      free |-> (fs.free \ alloc) \cup freed,
      new |-> new]

CanCommit(t) ==
  /\ ~AddConflicts(tr[t])
  /\ Changed(tr[t]) => Available # {}
  /\ Cardinality(Prepared(t).free) >= Reserved

(* Up to the first block_cache_clean_transaction: all in memory.            *)
CommitPrepare(t) ==
  LET n == Prepared(t)
  IN /\ Ready(t) /\ CanCommit(t)
     /\ SetTr(t, n.tr)
     /\ com' = [tr |-> t, files |-> n.files, free |-> n.free]
     /\ cache' = [b \in Blocks |->
                   IF b \in n.new THEN FilesNode(NewFiles(tr[t])) ELSE cache[b]]
     /\ UNCHANGED <<disk, super, ctr, dev, calm, fs, file, begun>>

CommitRefused(t) ==
  /\ Ready(t) /\ ~CanCommit(t)
  /\ Fail(t)
  /\ UNCHANGED <<super, ctr, dev, calm, fs, com, begun>>

(* block_cache_clean_transaction writes the dirty blocks, in any order;     *)
(* block_cache_complete_write fails the transaction if one was not written. *)
WriteBlock(b) ==
  /\ com # NULL /\ b \in tr[com.tr].alloc /\ Dirty(b)
  /\ \E o \in RpmbWrite :
       LET d == IF o.landed THEN [disk EXCEPT ![b] = cache[b]] ELSE disk
       IN /\ Device(o)
          /\ \/ /\ o.ok
                /\ disk' = d
                /\ cache' = Forget(cache, {b})
                /\ UNCHANGED <<tr, file, com>>
             \/ /\ ~o.ok
                /\ FailFrom(tr, file, d, {com.tr})
                /\ com' = NULL
  /\ UNCHANGED <<super, fs, begun>>

(* file_update_block_mac_tr and _all: the block an open file of session u   *)
(* will have once t has committed.                                          *)
ToCommit(t, u) ==
  LET r == tr[t]  h == file[u]
  IN IF h.committed = 0
     THEN IF u = t /\ h.block \in {r.added[p] : p \in Paths} THEN h.block ELSE 0
     ELSE IF h.committed \in r.removed THEN 0
     ELSE IF r.updated[h.committed] # 0 THEN r.updated[h.committed]
     ELSE h.committed

Moves(t, u) == file[u] # NULL /\ ToCommit(t, u) # file[u].committed

(* file_apply_to_commit.  A used file of another session keeps its mark     *)
(* until that session's transaction is failed.                              *)
Applied(t) ==
  [u \in Sessions |->
    LET h == IF u = t /\ file[u] # NULL
             THEN [file[u] EXCEPT !.used = FALSE, !.saw = NULL] ELSE file[u]
    IN IF Moves(t, u)
       THEN [h EXCEPT !.block = ToCommit(t, u), !.committed = ToCommit(t, u),
                      !.size = FileSize(ToCommit(t, u))]
       ELSE h]

\* Mutation of UsedChanged: files that were read are no conflict.
NoneUsed(t) == {}

UsedChanged(t) == {u \in Sessions \ {t} : Moves(t, u) /\ file[u].used}

\* Mutation of FreedTwice: only open files are checked.
NoneFreedTwice(t) == {}

FreedTwice(t) == {u \in Sessions \ {t} :
                   tr[u].active /\ tr[u].freed \cap tr[t].freed # {}}

ActiveOthers(t) == {u \in Sessions \ {t} : tr[u].active}

(* The assertions in file_apply_to_commit: a handle of another session, not *)
(* used by it, is unchanged; the session's own handle is where the commit   *)
(* has put the file, and of the same size.  file_delete keeps the size.     *)
ApplyAsserts(t) ==
  /\ \A u \in Sessions \ {t} :
       Moves(t, u) /\ ~file[u].used => file[u].block = file[u].committed
  /\ Moves(t, t) => /\ file[t].block = ToCommit(t, t)
                    /\ file[t].size = FileSize(ToCommit(t, t))

(* The service is gone, with everything that was only in memory.            *)
Halt(state, s, d) ==
  /\ fs' = [Down EXCEPT !.state = state]
  /\ super' = Tidy(s)
  /\ disk' = Forget(d, Blocks \ Reachable(Chosen(s), d))
  /\ tr' = [t \in Sessions |-> Inactive]
  /\ file' = [t \in Sessions |-> NULL]
  /\ cache' = [b \in Blocks |-> Junk]
  /\ com' = NULL
  /\ ctr' = 0 /\ calm' = TRUE
  /\ UNCHANGED begun

\* Mutation of SuperWritable: the super block does not wait for the data.
SuperAnyTime == com # NULL

SuperWritable == /\ com # NULL
                 /\ \A b \in tr[com.tr].alloc : ~Dirty(b)

SuperSlot == NextVersion(fs.version) % 2
NewSupers(image) == [super EXCEPT ![SuperSlot] = image]

(* The super block is written and the transaction is done.                  *)
CommitSuper ==
  LET t == com.tr
  IN /\ SuperWritable
     /\ ApplyAsserts(t)
     /\ \E o \in RpmbWrite : o.ok /\ Device(o)
     /\ super' = Tidy(NewSupers(SuperImage(NextVersion(fs.version))))
     /\ fs' = [fs EXCEPT !.files = com.files, !.free = com.free,
                         !.version = NextVersion(fs.version)]
     /\ \E F \in {UsedChanged(t) \cup FreedTwice(t), ActiveOthers(t)} :
          FailFrom([tr EXCEPT ![t] = Inactive], Applied(t),
                   Forget(disk, tr[t].freed), F)
     /\ com' = NULL /\ UNCHANGED begun

(* The write of the super block failed, whatever is on the device, or an    *)
(* open file does not pass the assertions: abort.                           *)
CommitAborts ==
  /\ SuperWritable
  /\ \E o \in RpmbWrite :
       /\ ~o.ok \/ ~ApplyAsserts(com.tr)
       /\ dev' = o.dev
       /\ Halt("aborted",
               IF o.landed THEN NewSupers(SuperImage(NextVersion(fs.version)))
               ELSE super, disk)

(* Power fails: between two writes, during one of a block, during one of    *)
(* the super block.  Only a write that the device accepts changes anything. *)
Crash == fs.state # "down" /\ Halt("down", super, disk) /\ UNCHANGED dev

CutShort == ctr \in {0, dev} /\ dev' \in {dev, Increment(dev)}

CrashInBlock(b) ==
  /\ com # NULL /\ b \in tr[com.tr].alloc /\ Dirty(b)
  /\ CutShort
  /\ Halt("down", super, [disk EXCEPT ![b] = Junk])

CrashInSuper ==
  LET i == SuperSlot
  IN /\ SuperWritable
     /\ CutShort
     /\ Halt("down", NewSupers(TornImage(super[i], SuperImage(NextVersion(fs.version)))),
             disk)

(* fs_init.                                                                 *)
Mount ==
  LET s == Chosen(super)
  IN /\ fs.state = "down"
     /\ fs' = [state |-> "up", files |-> s.files, free |-> s.free,
               version |-> s.flags]
     /\ UNCHANGED <<disk, super, ctr, dev, calm, tr, file, cache, com, begun>>

Request(t) ==
  \/ Begin(t)
  \/ \E p \in Uses(t) : Open(t, p) \/ OpenCreate(t, p) \/ Delete(t, p)
  \/ \E v \in Values \ {Empty} : Write(t, v)
  \/ \E v \in Values : SetSize(t, v)
  \/ Read(t) \/ GetSize(t) \/ ReadError(t) \/ Close(t) \/ ClearFailed(t)
  \/ \E close \in BOOLEAN : Discard(t, close)
  \/ CommitPrepare(t) \/ CommitRefused(t)

Next ==
  \/ \E t \in Sessions : Request(t)
  \/ \E b \in Blocks : WriteBlock(b) \/ CrashInBlock(b)
  \/ CommitSuper \/ CommitAborts \/ CrashInSuper \/ Crash \/ Mount

Spec == Init /\ [][Next]_vars

----------------------------------------------------------------------------
(* Properties.                                                              *)

TypeOK ==
  /\ ctr \in Counters /\ dev \in Counters /\ calm \in BOOLEAN
  /\ fs.state \in {"up", "down", "aborted"}
  /\ fs.free \subseteq Blocks /\ fs.version \in 0..3
  /\ fs.files \in Blocks \cup {0}
  /\ \A t \in Sessions :
       /\ tr[t].alloc \cup tr[t].freed \cup tr[t].removed \subseteq Blocks
       /\ tr[t].updated \in [Blocks -> Blocks \cup {0}]
       /\ tr[t].added \in [Paths -> Blocks \cup {0}]
       /\ ~(tr[t].active /\ tr[t].failed)
       /\ file[t] # NULL =>
            {file[t].block, file[t].committed} \subseteq Blocks \cup {0}

InUse == Below(fs.files, disk)

(* Every block is committed or free, never both; what a transaction has     *)
(* allocated is free and its own, what it frees is committed.  No block is  *)
(* lost or handed out twice, whatever fails.                                *)
BlocksAccounted ==
  /\ TypeOK
  /\ fs.state = "up" =>
       /\ InUse \cup fs.free = Blocks /\ InUse \cap fs.free = {}
       /\ \A t \in Sessions :
            /\ tr[t].alloc \subseteq fs.free /\ tr[t].freed \subseteq InUse
            /\ \A u \in Sessions \ {t} : tr[t].alloc \cap tr[u].alloc = {}
       /\ \A b \in Blocks : Dirty(b) => \E t \in Sessions : b \in tr[t].alloc

(* An open file of any session designates the file's committed block, a     *)
(* block its own transaction allocated, or nothing; and what a transaction  *)
(* updates or removes is still committed, as the assertions in              *)
(* file_transaction_complete expect.  Blocks are reused, so a stale number  *)
(* would be a block of another file.                                        *)
HandlesCurrent ==
  fs.state = "up" =>
    \A t \in Sessions :
      /\ file[t] # NULL /\ file[t].committed # 0
           => file[t].committed \in FileBlocks(Committed)
      /\ file[t] # NULL /\ file[t].block \notin {0, file[t].committed}
           => file[t].block \in tr[t].alloc
      /\ {b \in Blocks : tr[t].updated[b] # 0} \cup tr[t].removed
           \subseteq FileBlocks(Committed)

(* Reads can be repeated: what a transaction was told of its open file, by  *)
(* a read of some bytes or by the size, or has written into it, is what it  *)
(* would be told again.  If another one commits a change of the file, this  *)
(* one fails.  A read that returned nothing, and a file that was closed     *)
(* again, leave no mark in the code and are not covered.                    *)
ReadsStable ==
  \A t \in Sessions :
    file[t] # NULL /\ file[t].saw # NULL =>
      file[t].block # 0 /\ Content(file[t].block)[3] = file[t].saw

(* While the service runs, mounting the device would give what it has in    *)
(* memory: a crash now loses no committed transaction and no half of one.   *)
MemoryIsOnDisk ==
  LET s == Chosen(super)
  IN fs.state = "up" =>
       s.files = fs.files /\ s.free = fs.free /\ s.flags = fs.version

(* After one write that met no fault, accepted or refused, and after a      *)
(* restart, the next write that meets none succeeds, whatever the counters  *)
(* were before: lost and garbled answers, also to the request for the       *)
(* counter, cost one more failed write, however many there were.            *)
CounterRecovers ==
  calm => \A o \in RpmbWrite : ~o.fault => o.landed /\ o.ok

(* The files that mounting the device would give.                           *)
StoreOnDisk ==
  LET f == FilesAt(Chosen(super).files, disk)
  IN [p \in Paths |-> IF f[p] = 0 THEN NoFile ELSE disk[f[p]][3]]

(* What a transaction makes of a file, and the files it creates.            *)
Change(r, p) ==
  LET c == Committed[p]
  IN IF r.added[p] # 0 THEN Content(r.added[p])[3]
     ELSE IF c = 0 THEN Same
     ELSE IF c \in r.removed THEN NoFile
     ELSE IF r.updated[c] # 0 THEN Content(r.updated[c])[3]
     ELSE Same

Creates(r) ==
  {p \in Paths : r.added[p] # 0 /\ Committed[p] \notin r.removed}

Changes == [t \in Sessions |-> [p \in Paths |-> Change(tr[t], p)]]
Created == [t \in Sessions |-> Creates(tr[t])]

Abstract == INSTANCE AtomicStore WITH
  store <- StoreOnDisk, pend <- Changes, fresh <- Created

(* The service implements the atomic store: transactions take effect        *)
(* whole and at once, when their super block is on the device; power        *)
(* failures, failed writes and lost answers change nothing else; no change  *)
(* of an existing file is overwritten by a transaction that did not see it. *)
ImplementsAtomicStore == Abstract!Spec
----------------------------------------------------------------------------
(* The inductive invariant.                                                 *)

FileMaps == [Paths -> BlockNumbers]
Nodes == {Junk} \cup {Entry(p, v) : p \in Paths, v \in Values}
                \cup {FilesNode(f) : f \in FileMaps}
Supers == [valid : BOOLEAN, flags : 0..3, flags2 : 0..3, files : BlockNumbers,
           free : SUBSET Blocks]
Transactions ==
  [active : BOOLEAN, failed : BOOLEAN, alloc : SUBSET Blocks, freed : SUBSET Blocks,
   updated : [Blocks -> BlockNumbers], added : FileMaps, removed : SUBSET Blocks]

StoreTypes ==
  /\ disk \in [Blocks -> Nodes] /\ cache \in [Blocks -> Nodes]
  /\ super \in [0..1 -> Supers]
  /\ ctr \in Counters /\ dev \in Counters /\ calm \in BOOLEAN
  /\ fs \in [state : {"up", "down", "aborted"}, files : BlockNumbers,
             free : SUBSET Blocks, version : 0..3]
  /\ tr \in [Sessions -> Transactions]
  /\ file \in [Sessions -> Handles \cup {NULL}]
  /\ com \in Commits \cup {NULL}

(* The driver has the device's counter, or will ask for it.                 *)
CounterOK == calm => ctr \in {0, dev}

(* Content c is that of a file named p.                                     *)
IsFile(c, p) == \E v \in Values : c = Entry(p, v)

(* A root and a free set on device d: below the root is a tree of files,    *)
(* and what it does not use is free.                                        *)
WellFormed(root, free, d) ==
  /\ root # 0 => \E f \in FileMaps : d[root] = FilesNode(f)
  /\ \A p \in Paths :
       FilesAt(root, d)[p] # 0 => IsFile(d[FilesAt(root, d)[p]], p)
  /\ Below(root, d) \cup free = Blocks /\ Below(root, d) \cap free = {}

OnDevice == WellFormed(Chosen(super).files, Chosen(super).free, disk)

(* A transaction r beside the committed files C and the free set, where K   *)
(* has the contents of the blocks; new and old are the roots that its       *)
(* commit has allocated and freed.  A file is updated, removed or added in  *)
(* a way that its blocks tell; a block is allocated or freed for one of     *)
(* these reasons.                                                           *)
TransactionOK(r, C, free, K, new, old) ==
  /\ ~r.active => r \in {Inactive, FailedTr}
  /\ r.failed => ~r.active
  /\ r.alloc \subseteq free
  /\ r.removed \subseteq FileBlocks(C) /\ r.removed \subseteq r.freed
  /\ \A b \in Blocks :
       r.updated[b] # 0 => b \in FileBlocks(C) /\ b \in r.freed \ r.removed
  /\ \A p \in Paths :
       C[p] # 0 /\ r.updated[C[p]] # 0 =>
         r.updated[C[p]] \in r.alloc /\ r.added[p] = 0 /\ IsFile(K[r.updated[C[p]]], p)
  /\ \A p \in Paths :
       r.added[p] # 0 => r.added[p] \in r.alloc /\ IsFile(K[r.added[p]], p)
  /\ \A b \in r.freed : r.updated[b] # 0 \/ b \in r.removed \/ b \in old
  /\ \A b \in r.alloc :
       \/ \E p \in Paths : r.added[p] = b
       \/ \E p \in Paths : C[p] # 0 /\ r.updated[C[p]] = b
       \/ b \in new

(* An open file h of a session with transaction r designates what Lookup    *)
(* would give for its path.                                                 *)
HandleOK(h, r, C) ==
  /\ h.committed = 0 /\ h.block # 0 => \E p \in Paths : r.added[p] = h.block
  /\ h.committed # 0 =>
       /\ h.committed \in FileBlocks(C)
       /\ \A p \in Paths : C[p] = h.committed => r.added[p] = 0
       /\ h.block = IF h.committed \in r.removed THEN 0
                    ELSE IF r.updated[h.committed] # 0 THEN r.updated[h.committed]
                    ELSE h.committed

Contents == [b \in Blocks |-> Content(b)]
Committing(t) == com # NULL /\ com.tr = t
NewRoot(t) == IF Committing(t) /\ Changed(tr[t]) THEN {com.files} ELSE {}
OldRoot(t) == IF Committing(t) /\ Changed(tr[t]) THEN {fs.files} \ {0} ELSE {}

SessionsOK ==
  /\ \A t \in Sessions :
       TransactionOK(tr[t], Committed, fs.free, Contents, NewRoot(t), OldRoot(t))
  /\ \A t \in Sessions : file[t] # NULL => HandleOK(file[t], tr[t], Committed)
  /\ \A t, u \in Sessions : t # u => tr[t].alloc \cap tr[u].alloc = {}
  /\ \A b \in Blocks : Dirty(b) => \E t \in Sessions : b \in tr[t].alloc

(* What a commit is about to make the super block.                          *)
CommitOK(t) ==
  /\ fs.state = "up" /\ tr[t].active
  /\ ~AddConflicts(tr[t])
  /\ com.free = (fs.free \ tr[t].alloc) \cup tr[t].freed
  /\ IF Changed(tr[t])
     THEN /\ com.files \in tr[t].alloc
          /\ Content(com.files) = FilesNode(NewFiles(tr[t]))
          /\ {fs.files} \ {0} \subseteq tr[t].freed
     ELSE com.files = fs.files

(* Without the service there is nothing in memory.                          *)
Offline ==
  fs.state # "up" =>
    /\ fs = [Down EXCEPT !.state = fs.state] /\ com = NULL
    /\ \A t \in Sessions : tr[t] = Inactive /\ file[t] = NULL

StoreInv ==
  /\ StoreTypes /\ OnDevice /\ MemoryIsOnDisk /\ CounterOK
  /\ SessionsOK /\ Offline
  /\ \A t \in Sessions : Committing(t) => CommitOK(t)

(* A file that the client was told of is marked, in a transaction that is   *)
(* active.                                                                  *)
SeenIsUsed == \A t \in Sessions :
  file[t] # NULL /\ file[t].saw # NULL => file[t].used /\ tr[t].active

ReadsInv == ReadsStable /\ SeenIsUsed
=============================================================================
