---------------------------- MODULE DapTransfer ----------------------------
(***************************************************************************)
(* The raw ARM debug port accesses of the bit-banging probes (probe-rs/src/*)
(* probe/arm_debug_interface.rs) over SWD, against an access port that is  *)
(* slower than the wire: a transaction accepted with OK is still under way *)
(* when the next transfer of the batch arrives, which then gets WAIT and,  *)
(* overrun detection being on, turns the rest of the batch into FAULTs.    *)
(*                                                                         *)
(* The host reads or writes the data register of an access port whose      *)
(* address advances with each transaction, as memory accesses do.  A word  *)
(* written is the pair of the operation and its place in it; a word read   *)
(* is the pair of the operation and how many words were read before.       *)
(***************************************************************************)
EXTENDS Integers, Sequences, FiniteSets

CONSTANTS
  Apis,       \* subset of {"block", "register"}
  MaxLen,     \* bound: words of a block
  Retries,    \* num_retries_after_wait
  MaxOps,     \* bound: operations in a behaviour
  MaxFaults   \* bound: bus errors and unacknowledged transfers

ASSUME RetriesAssumption == Retries \in Nat \ {0}
ASSUME BoundsAssumption == {MaxLen, MaxOps, MaxFaults} \subseteq Nat

VARIABLES
  op,         \* [id, kind, api, n, ctrl]; ctrl: the register's address is Ctrl's
  step, result,
  done,       \* successful_transfers
  acks,       \* responses to the transfers of the batch so far
  retries, got,
  again,      \* history: something of this operation was sent again
  spent,      \* history: this operation ran out of retries
  pending,    \* the transaction of the access port under way
  rdbuff,     \* result of its last read
  mem, reads, \* words written, number of words read
  orun, err,  \* STICKYORUN, STICKYERR
  faults, bad \* bound; operations one of whose transactions failed

host == <<op, step, result, done, acks, retries, got, again, spent>>
port == <<pending, rdbuff, mem, reads, orun, err>>
vars == <<host, port, faults, bad>>

None == [kind |-> "none", word |-> <<0, 0>>]

Init ==
  /\ op = [id |-> 0, kind |-> "read", api |-> "register", n |-> 0, ctrl |-> FALSE]
  /\ step = "idle" /\ result = "ok" /\ done = 0 /\ acks = <<>> /\ retries = 0
  /\ got = <<>> /\ again = FALSE /\ spent = FALSE
  /\ pending = None /\ rdbuff = <<0, 0>> /\ mem = <<>> /\ reads = 0
  /\ orun = FALSE /\ err = FALSE /\ faults = 0 /\ bad = {}

-----------------------------------------------------------------------------
(* The debug port and the access port behind it.                           *)

\* The transaction under way ends: the word is written or read.
Complete ==
  /\ pending # None /\ pending' = None
  /\ IF pending.kind = "write" THEN mem' = Append(mem, pending.word) /\ UNCHANGED <<rdbuff, reads>>
     ELSE /\ reads' = reads + 1 /\ rdbuff' = <<pending.word[1], reads + 1>>
          /\ UNCHANGED mem
  /\ UNCHANGED <<host, orun, err, faults, bad>>

\* It ends with a bus error.
BusError ==
  /\ pending # None /\ faults < MaxFaults
  /\ faults' = faults + 1 /\ err' = TRUE /\ pending' = None
  /\ bad' = bad \cup {pending.word[1]}
  /\ UNCHANGED <<host, rdbuff, mem, reads, orun>>

\* One transfer on the wire: an access of the access port, or (access = None) the
\* read of RDBUFF that ends the batch.  What the host receives may be no valid
\* response, whether or not the target accepted the transfer.
Received(ack) == acks' = Append(acks, <<ack, rdbuff>>)

Lost == faults < MaxFaults /\ faults' = faults + 1 /\ Received("nack")

Respond(access) ==
  \/ /\ orun \/ err
     /\ Received("fault") /\ UNCHANGED <<pending, orun, faults>>
  \/ /\ ~orun /\ ~err /\ pending # None
     /\ orun' = TRUE /\ Received("wait") /\ UNCHANGED <<pending, faults>>
  \/ /\ ~orun /\ ~err /\ pending = None
     /\ pending' = access /\ UNCHANGED orun
     /\ \/ Received("ok") /\ UNCHANGED faults
        \/ Lost
  \/ Lost /\ UNCHANGED <<pending, orun>>

-----------------------------------------------------------------------------
(* The host.                                                               *)

Start(kind, api, n, ctrl) ==
  /\ step = "idle" /\ op.id < MaxOps
  /\ op' = [id |-> op.id + 1, kind |-> kind, api |-> api, n |-> n, ctrl |-> ctrl]
  /\ step' = "wire" /\ result' = "none" /\ done' = 0 /\ acks' = <<>> /\ retries' = 0
  /\ got' = <<>> /\ again' = FALSE /\ spent' = FALSE
  /\ UNCHANGED <<port, faults, bad>>

Return(r) == step' = "idle" /\ result' = r

\* perform_transfers sends what is left of the operation and a read of RDBUFF.
BatchLength == op.n - done + 1

Wire ==
  /\ step = "wire" /\ Len(acks) < BatchLength
  /\ Respond(IF Len(acks) + 1 < BatchLength
             THEN [kind |-> op.kind, word |-> <<op.id, done + Len(acks) + 1>>] ELSE None)
  /\ UNCHANGED <<op, step, result, done, retries, got, again, spent, rdbuff, mem, reads, err, bad>>

\* Slip: the status of the next transfer is ignored.
SlipStatus(i) == acks[i][1]

\* The status of the i-th transfer is the first of its own response and that to
\* the next transfer that is not OK; the value of a read comes with the latter.
Status(i) == IF acks[i][1] # "ok" THEN acks[i][1] ELSE acks[i + 1][1]

\* Slip: the value is taken from the transfer itself.
SlipValue(i) == acks[i][2]

Value(i) == acks[i + 1][2]

Failing == {i \in 1 .. op.n - done : Status(i) # "ok"}
Good == IF Failing = {} THEN op.n - done
        ELSE (CHOOSE i \in Failing : \A j \in Failing : i <= j) - 1

\* The results are examined up to the first failure.
Taken ==
  /\ done' = done + Good
  /\ got' = IF op.kind = "read" THEN got \o [i \in 1 .. Good |-> Value(i)] ELSE got

Answered == step = "wire" /\ Len(acks) = BatchLength

AllGood ==
  /\ Answered /\ Failing = {}
  /\ Taken /\ Return("ok")
  /\ UNCHANGED <<op, acks, retries, again, spent, port, faults, bad>>

\* WAIT: ABORT clears the sticky overrun flag and what is left is sent again.  Out
\* of retries, a register access times out while a block access ends with Ok.
SendAgain(count) ==
  /\ again' = TRUE /\ retries' = retries + count /\ acks' = <<>>
  /\ IF retries' < Retries THEN UNCHANGED <<step, result, spent>>
     ELSE spent' = TRUE /\ Return(IF op.api = "block" THEN "ok" ELSE "timeout")

AfterWait(count, clearErr) ==
  /\ Answered /\ Failing # {} /\ Status(Good + 1) = "wait"
  /\ Taken /\ SendAgain(count)
  /\ orun' = FALSE /\ err' = (err /\ ~clearErr)
  /\ UNCHANGED <<op, pending, rdbuff, mem, reads, faults, bad>>

\* Slip: the retries are not counted.
SlipForever == AfterWait(0, FALSE)

\* Slip: ABORT clears the sticky error flag as well.
SlipAbort == AfterWait(1, TRUE)

RetryAfterWait == AfterWait(1, FALSE)

\* FAULT: a register access reads CTRL/STAT and clears the flags it finds, except
\* when reading a register with the address of CTRL/STAT; a block access does not.
Clears == op.api = "register" /\ ~(op.kind = "read" /\ op.ctrl)

FailWithFault ==
  /\ Answered /\ Failing # {} /\ Status(Good + 1) = "fault"
  /\ Taken /\ Return("fault")
  /\ orun' = (orun /\ ~Clears) /\ err' = (err /\ ~Clears)
  /\ UNCHANGED <<op, acks, retries, again, spent, pending, rdbuff, mem, reads, faults, bad>>

\* No valid response: a block access fails; a register read is tried again, a
\* register write after a line reset, which sets the sticky overrun flag.
AfterNack ==
  /\ Answered /\ Failing # {} /\ Status(Good + 1) = "nack"
  /\ Taken
  /\ IF op.api = "block"
     THEN Return("nack") /\ UNCHANGED <<acks, retries, again, spent>>
     ELSE SendAgain(1)
  /\ orun' = (orun \/ (op.api = "register" /\ op.kind = "write"))
  /\ UNCHANGED <<op, pending, rdbuff, mem, reads, err, faults, bad>>

-----------------------------------------------------------------------------
StartAny ==
  \/ \E kind \in {"read", "write"}, n \in 1 .. MaxLen :
       "block" \in Apis /\ Start(kind, "block", n, FALSE)
  \/ \E kind \in {"read", "write"}, ctrl \in BOOLEAN :
       "register" \in Apis /\ Start(kind, "register", 1, ctrl)

Host == Wire \/ AllGood \/ RetryAfterWait \/ FailWithFault \/ AfterNack

Next == StartAny \/ Host \/ Complete \/ BusError

Spec == Init /\ [][Next]_vars

\* The host is one thread; the access port need never finish.
LiveSpec == Spec /\ WF_vars(Host)

-----------------------------------------------------------------------------
\* The word of the same operation that reached memory just before the i-th.
Before(i) == IF i > 1 /\ mem[i - 1][1] = mem[i][1] THEN mem[i - 1][2] ELSE 0

\* Whatever is retried, no word lands after one of a later write, and the words of
\* a write reach memory in order, none skipped unless a response was lost (and the
\* write fails); once the write returns Ok its last word is the last one there;
\* without a retry each is there exactly once.
WritesInOrder ==
  op.kind = "write" =>
    /\ \A i \in 2 .. Len(mem) : mem[i - 1][1] <= mem[i][1]
    /\ \A i \in 1 .. Len(mem) : mem[i][1] = op.id =>
         LET gap == mem[i][2] - Before(i)
         IN \/ gap = 1
            \/ gap = 0 /\ again
            \/ gap > 1 /\ \E k \in 1 .. Len(acks) : acks[k][1] = "nack"
    /\ result = "ok" /\ ~spent => mem # <<>> /\ mem[Len(mem)] = <<op.id, op.n>>

\* A read returns words its own transactions read, in order and none twice, never
\* one left in RDBUFF before; without a retry the words are consecutive.
ReadsInOrder ==
  \A i \in 1 .. Len(got) :
    /\ got[i][1] = op.id
    /\ i > 1 => IF again THEN got[i][2] > got[i - 1][2] ELSE got[i][2] = got[i - 1][2] + 1

\* An access that returns Ok had no failing transaction and leaves nothing under
\* way and no sticky flag that would refuse the next access.  (A block access
\* that ran out of retries returns Ok all the same.)
OkIsClean ==
  step = "idle" /\ result = "ok" /\ ~spent =>
    op.id \notin bad /\ pending = None /\ ~orun /\ ~err

\* Every access returns, also when the access port never answers.
Returns == (step = "wire") ~> (step = "idle")
=============================================================================
