-------------------------------- MODULE MemLog --------------------------------
(***************************************************************************)
(* The shared log: the secure side writes characters into a ring buffer in *)
(* memory shared with Linux, and never waits; Linux reads it without a     *)
(* lock and must notice when it was overtaken.                             *)
(*                                                                         *)
(* Source: lk/trusty/lib/memlog/memlog.c (memlog_write, __memlog_write)    *)
(* and the Linux driver's trusty-log.c (log_read_line, trusty_dump_logs).  *)
(* log_lock makes the producers one, s->lock the consumers one.  Each      *)
(* access to shared memory is a step; the barriers of both sides keep the  *)
(* steps in program order.                                                 *)
(*                                                                         *)
(* Counters are the numbers of characters since the log was added; what    *)
(* the code holds is their value modulo 2^32 (Wrap), and every difference  *)
(* it forms is taken modulo Wrap.  A cell of the ring holds the number of  *)
(* the character that was stored there last.                               *)
(***************************************************************************)
EXTENDS Integers, Sequences

CONSTANTS
  Sz,        \* rb->sz, a power of two
  Chunk,     \* chunk_size of memlog_write
  Line,      \* sizeof(line_buffer) - 1
  Wrap,      \* 2^32, a multiple of Sz: a slot does not depend on the wrap
  MaxBytes   \* bound on what is ever written

ASSUME MemLogAssumption ==
  /\ Sz \in Nat \ {0}
  /\ Chunk \in 1..Sz
  /\ Line \in Nat \ {0}
  /\ Wrap \in Nat \ {0}
  /\ Wrap % Sz = 0
  /\ MaxBytes \in Nat

VARIABLES
  alloc,    \* rb->alloc
  put,      \* rb->put
  data,     \* rb->data
  wi,       \* characters of the current chunk that are stored
  sget,     \* s->get
  get,      \* get of trusty_dump_logs
  cput,     \* the value of rb->put that it read
  line,     \* line_buffer, as far as it was filled
  cpc,      \* where trusty_dump_logs is
  printed   \* the line it printed last, and where that line started

vars == <<alloc, put, data, wi, sget, get, cput, line, cpc, printed>>

producer == <<alloc, put, data, wi>>
consumer == <<sget, get, cput, line, cpc, printed>>

NoChar == -1
Slot(n) == n % Sz
Sub32(a, b) == (a - b) % Wrap

Init ==
  /\ alloc = 0
  /\ put = 0
  /\ data = [i \in 0..(Sz - 1) |-> NoChar]
  /\ wi = 0
  /\ sget = 0
  /\ get = 0
  /\ cput = 0
  /\ line = <<>>
  /\ cpc = "idle"
  /\ printed = [from |-> 0, line |-> <<>>]

-----------------------------------------------------------------------------
(* __memlog_write of a chunk of n characters: alloc, the data, put.        *)

(* The reader is never 2^32 characters behind: it reads after every call   *)
(* into the secure world.                                                  *)
LapBound(n) == alloc + n - sget < Wrap

AllocChunk(n) ==
  /\ alloc = put
  /\ alloc + n <= MaxBytes
  /\ LapBound(n)
  /\ alloc' = alloc + n
  /\ wi' = 0
  /\ UNCHANGED <<put, data, consumer>>

StoreChar ==
  /\ put + wi < alloc
  /\ data' = [data EXCEPT ![Slot(put + wi)] = put + wi]
  /\ wi' = wi + 1
  /\ UNCHANGED <<alloc, put, consumer>>

ChunkStored == put + wi = alloc

PutChunk ==
  /\ alloc # put
  /\ ChunkStored
  /\ put' = alloc
  /\ wi' = 0
  /\ UNCHANGED <<alloc, data, consumer>>

-----------------------------------------------------------------------------
(* trusty_dump_logs.                                                       *)

DumpStart ==
  /\ cpc = "idle"
  /\ get' = sget
  /\ cpc' = "loop"
  /\ UNCHANGED <<producer, sget, cput, line, printed>>

(* while ((put = log->put) != get)                                         *)
ReadPut ==
  /\ cpc = "loop"
  /\ put % Wrap # get % Wrap
  /\ cput' = put
  /\ line' = <<>>
  /\ cpc' = "line"
  /\ UNCHANGED <<producer, sget, get, printed>>

DumpEnd ==
  /\ cpc = "loop"
  /\ put % Wrap = get % Wrap
  /\ sget' = get
  /\ cpc' = "idle"
  /\ UNCHANGED <<producer, get, cput, line, printed>>

(* log_read_line: character by character up to max_to_read; any character  *)
(* may be the newline that ends the line.                                  *)
MaxToRead == IF Sub32(cput, get) < Line THEN Sub32(cput, get) ELSE Line

ReadChar ==
  /\ cpc = "line"
  /\ Len(line) < MaxToRead
  /\ line' = Append(line, data[Slot(get + Len(line))])
  /\ \/ cpc' = "line" /\ Len(line) + 1 < MaxToRead
     \/ cpc' = "check"
  /\ UNCHANGED <<producer, sget, get, cput, printed>>

(* Mutation: the reader forgets that alloc, not put, marks what is stale.  *)
OvertakenByPut == Sub32(put, get) > Sz

Overtaken == Sub32(alloc, get) > Sz

(* Mutation: everything that was allocated is skipped.                     *)
SkipAll == alloc

Oldest == alloc - Sz

LogOverflow ==
  /\ cpc = "check"
  /\ Overtaken
  /\ get' = Oldest
  /\ cpc' = "loop"
  /\ UNCHANGED <<producer, sget, cput, line, printed>>

(* Mutation: the line is not counted as read.                              *)
SameLine == get

NextLine == get + Len(line)

PrintLine ==
  /\ cpc = "check"
  /\ ~Overtaken
  /\ printed' = [from |-> get, line |-> line]
  /\ get' = NextLine
  /\ cpc' = "loop"
  /\ UNCHANGED <<producer, sget, cput, line>>

-----------------------------------------------------------------------------
Produce == (\E n \in 1..Chunk : AllocChunk(n)) \/ StoreChar \/ PutChunk

Consume ==
  \/ DumpStart
  \/ ReadPut
  \/ DumpEnd
  \/ ReadChar
  \/ LogOverflow
  \/ PrintLine

Next == Produce \/ Consume

Spec == Init /\ [][Next]_vars

-----------------------------------------------------------------------------
Chars == Nat \cup {NoChar}

(* Types of the variables.                                                 *)
TypeOK ==
  /\ alloc \in Nat /\ put \in Nat /\ wi \in Nat
  /\ data \in [0..(Sz - 1) -> Chars]
  /\ sget \in Nat /\ get \in Nat /\ cput \in Nat
  /\ line \in Seq(Chars) /\ Len(line) <= Line
  /\ cpc \in {"idle", "loop", "line", "check"}
  /\ printed \in [from : Nat, line : Seq(Chars)]

(* trusty_dump_logs: "at any given point, alloc >= put >= get".            *)
RingOrder ==
  /\ alloc >= put
  /\ put >= sget
  /\ cpc # "idle" => put >= get

(* Nothing but the log: each character of a printed line is the one that   *)
(* was written at its place in the log, although the producer may store    *)
(* into the ring while the line is read.                                   *)
PrintedIsWritten ==
  \A i \in 1..Len(printed.line) : printed.line[i] = printed.from + i - 1

(* The parts of the inductive invariant behind the properties.             *)

(* What the ring holds: the last Sz characters that were stored.           *)
RingHolds ==
  \A n \in 0..(put + wi - 1) : put + wi <= n + Sz => data[Slot(n)] = n

(* The producer is inside of one chunk.                                    *)
ProducerOK ==
  /\ put + wi <= alloc
  /\ alloc <= put + Chunk

(* The consumer is behind the producer by less than one lap of 2^32.       *)
ConsumerOK ==
  /\ sget <= get /\ get <= put
  /\ alloc - sget < Wrap
  /\ cpc = "idle" => sget = get
  /\ cpc \in {"line", "check"} =>
       cput <= put /\ get + Len(line) <= cput

(* A line that was not overtaken is a piece of the log.                    *)
LineOK ==
  cpc \in {"line", "check"} /\ alloc - get <= Sz =>
    \A i \in 1..Len(line) : line[i] = get + i - 1

(* What was printed lies behind the reader.                                *)
PrintedBehind == printed.from + Len(printed.line) <= get

(* The inductive invariant of the proofs.                                  *)
Inv == RingHolds /\ ProducerOK /\ ConsumerOK /\ LineOK /\ PrintedBehind

(* Lines come out in order and no character is printed twice.              *)
PrintedInOrder ==
  [][printed' # printed => printed'.from >= printed.from + Len(printed.line)]_vars

(* A call into the secure world returns again and again, so the log is     *)
(* read again and again; the spin locks of both sides are never kept.      *)
FairSpec == Spec /\ WF_vars(Consume) /\ WF_vars(StoreChar) /\ WF_vars(PutChunk)

(* What was logged is read or skipped as overtaken, and the dump ends.     *)
LogDrained == \A n \in 1..MaxBytes : (put >= n) ~> (sget >= n)
=============================================================================
