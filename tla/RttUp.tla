------------------------------- MODULE RttUp -------------------------------
(***************************************************************************)
(* One RTT up (target to host) channel: UpChannel::read and peek of        *)
(* probe-rs/src/rtt/channel.rs, run by the host over a debug link, against *)
(* firmware that keeps writing while the host copies.                      *)
(*                                                                         *)
(* A byte is modelled by its place in the stream the firmware accepted for *)
(* transmission (0, 1, 2, ...), so a lost, repeated or reordered byte is   *)
(* visible.  Definitions named Slip... are plausible programming errors:   *)
(* variants of the definition after them that some property must notice.   *)
(* Every access of the host to target memory is a step of its own and may  *)
(* fail, before or after it had its effect; the bytes of one block         *)
(* transfer are separate steps because the core is running meanwhile.      *)
(***************************************************************************)
EXTENDS RttRing, Sequences

CONSTANTS
  BufLens,     \* lengths of the buffers the callers of read and peek pass
  MsgLens,     \* lengths of the messages the firmware writes
  MaxSent,     \* bound: bytes the firmware accepts in a behaviour
  MaxResets    \* bound: resets of the target by itself

ASSUME LensAssumption == BufLens \subseteq Nat /\ MsgLens \subseteq Nat \ {0}
ASSUME BoundsAssumption ==
  MaxSent \in Nat /\ MaxResets \in Nat

Modes == {"NoBlockSkip", "NoBlockTrim", "BlockIfFull"}

VARIABLES
  buf, wr, rd, mode,     \* target memory: buffer and channel descriptor
  tpc, tat, tleft,       \* firmware: writing?, private offset, bytes to go
  sent, put,             \* bytes published so far, bytes put but unpublished
  hpc, hop, hw, hr,      \* host: step of the call, call, local write and read
  hcount, hroom, got,    \* bytes left of the chunk, room in buf, bytes copied
  taken, out,            \* bytes that left the ring, and bytes the last read delivered
  missed,                \* those that left it and reached no caller
  torn,                  \* the target reset during a call of the host
  faults, resets

memory == <<buf, wr, rd, mode>>
target == <<tpc, tat, tleft, sent, put>>
host   == <<hpc, hop, hw, hr, hcount, hroom, got>>
caller == <<taken, out, missed>>
vars   == <<memory, target, host, caller, torn, faults, resets>>

Init ==
  /\ buf = [i \in Index |-> -1]
  /\ wr = 0 /\ rd = 0
  /\ mode \in Modes
  /\ tpc = "idle" /\ tat = 0 /\ tleft = 0 /\ sent = 0 /\ put = 0
  /\ hpc = "idle" /\ hop = "read" /\ hw = 0 /\ hr = 0
  /\ hcount = 0 /\ hroom = 0 /\ got = << >>
  /\ taken = 0 /\ out = << >> /\ missed = {} /\ torn = FALSE /\ faults = 0 /\ resets = 0

-----------------------------------------------------------------------------
(* The firmware.  It owns wr and reads rd; the modes are those of          *)
(* ChannelMode.                                                            *)

\* The firmware starts a message of n bytes.
TargetBegin(n) ==
  /\ tpc = "idle" /\ sent + n <= MaxSent
  /\ LET fit == Free(Size, wr, rd) IN
       tleft' = CASE mode = "NoBlockSkip" -> IF n <= fit THEN n ELSE 0
                  [] mode = "NoBlockTrim" -> MinOf(n, fit)
                  [] mode = "BlockIfFull" -> n
  /\ tpc' = "writing" /\ tat' = wr
  /\ UNCHANGED <<memory, sent, put, host, caller, torn, faults, resets>>

\* It puts one byte behind its private offset while there is room.
TargetPut ==
  /\ tpc = "writing" /\ tleft > 0
  /\ Free(Size, tat, rd) > 0
  /\ buf' = [buf EXCEPT ![tat] = sent + put]
  /\ tat' = Wrap(Size, tat + 1)
  /\ tleft' = tleft - 1
  /\ put' = put + 1
  /\ UNCHANGED <<wr, rd, mode, tpc, sent, host, caller, torn, faults, resets>>

\* It publishes what it has put: at the end of the message, or when it has to
\* wait for room.
TargetPublish ==
  /\ tpc = "writing"
  /\ tleft = 0 \/ (Free(Size, tat, rd) = 0 /\ put > 0)
  /\ wr' = tat
  /\ sent' = sent + put
  /\ put' = 0
  /\ tpc' = IF tleft = 0 THEN "idle" ELSE "writing"
  /\ UNCHANGED <<buf, rd, mode, tat, tleft, host, caller, torn, faults, resets>>

\* The target resets by itself (a watchdog) and its start-up code initialises
\* the descriptor again; the bytes in RAM survive.
TargetReset ==
  /\ resets < MaxResets
  /\ resets' = resets + 1
  /\ wr' = 0 /\ rd' = 0 /\ tat' = 0
  /\ tpc' = "idle" /\ tleft' = 0
  /\ sent' = sent + put /\ put' = 0
  /\ taken' = sent + put
  /\ missed' = missed \cup (taken .. sent + put - 1)
  /\ torn' = (torn \/ hpc # "idle")
  /\ UNCHANGED <<buf, mode, host, out, faults>>

-----------------------------------------------------------------------------
(* The host.                                                               *)

\* A caller enters read or peek with a buffer of n bytes.  read_pointers loads
\* both offsets with one block read.
ReadPointers(op, n) ==
  /\ hpc = "idle"
  /\ wr < Size /\ rd < Size
  /\ hop' = op /\ hroom' = n /\ got' = << >>
  /\ hw' = wr /\ hr' = rd
  /\ hcount' = 0
  /\ hpc' = "loop"
  /\ UNCHANGED <<memory, target, caller, torn, faults, resets>>

\* The head of the loop: `count` more bytes to copy; at none the loop is over,
\* and the call goes on to the write-back or returns.
ChunkOf(count, writesBack) ==
  /\ hpc = "loop"
  /\ hcount' = count
  /\ hpc' = IF count > 0 THEN "copy" ELSE IF writesBack THEN "write_back" ELSE "idle"
  /\ got' = IF count > 0 \/ writesBack THEN got ELSE << >>
  /\ UNCHANGED <<memory, target, hop, hw, hr, hroom, caller, torn, faults, resets>>

\* Slips: the chunk is limited by the end of the buffer alone; the offset is
\* written back only after a read that filled the caller's buffer.
SlipChunkLimit == ChunkOf(MinOf(Size - hr, hroom), got # << >> /\ hop = "read")
SlipShortRead  == ChunkOf(MinOf(ReadableContiguous(Size, hw, hr), hroom),
                          got # << >> /\ hop = "read" /\ hroom = 0)

NextChunk == ChunkOf(MinOf(ReadableContiguous(Size, hw, hr), hroom),
                     got # << >> /\ hop = "read")

\* One byte of core.read of the chunk; after the last one the local read
\* offset wraps and the loop goes on.
CopyByte ==
  /\ hpc = "copy"
  /\ got' = Append(got, buf[hr])
  /\ hr' = IF hcount = 1 THEN Wrap(Size, hr + 1) ELSE hr + 1
  /\ hcount' = hcount - 1
  /\ hroom' = hroom - 1
  /\ hpc' = IF hcount = 1 THEN "loop" ELSE "copy"
  /\ UNCHANGED <<memory, target, hop, hw, caller, torn, faults, resets>>

\* The read offset goes back to the target.
GiveBack(offset) ==
  /\ hpc = "write_back"
  /\ rd' = offset
  /\ taken' = taken + Len(got)
  /\ hpc' = "idle" /\ got' = << >>
  /\ UNCHANGED <<buf, wr, mode, target, hop, hw, hr, hcount, hroom, torn, resets>>

\* It went well: the caller gets the bytes.
WriteBackOf(offset) == GiveBack(offset) /\ out' = got /\ UNCHANGED <<missed, faults>>

\* Slip: everything up to the snapshot's write offset is given up.
SlipWriteBack == WriteBackOf(hw)

WriteBack == WriteBackOf(hr)

\* An access of the host fails: the call returns the error, and the caller gets no
\* bytes.  Before it had an effect,
AccessFails ==
  /\ hpc \in {"copy", "write_back"}
  /\ hpc' = "idle" /\ got' = << >>
  /\ UNCHANGED <<memory, target, hop, hw, hr, hcount, hroom, caller, torn, resets>>

\* or with only the answer lost, which matters for the write of the read offset.
AnswerLost ==
  /\ GiveBack(hr)
  /\ missed' = missed \cup (taken .. taken + Len(got) - 1)
  /\ UNCHANGED out

HostError ==
  /\ faults < MaxFaults /\ faults' = faults + 1
  /\ AccessFails \/ AnswerLost

\* UpChannel::set_mode, called between reads.
SetMode(m) ==
  /\ hpc = "idle"
  /\ mode' = m
  /\ UNCHANGED <<buf, wr, rd, target, host, caller, torn, faults, resets>>

-----------------------------------------------------------------------------
Target == \/ \E n \in MsgLens : TargetBegin(n)
          \/ TargetPut
          \/ TargetPublish

Host == \/ \E op \in {"read", "peek"}, n \in BufLens : ReadPointers(op, n)
        \/ NextChunk
        \/ CopyByte
        \/ WriteBack
        \/ \E m \in Modes : SetMode(m)

Next == Target \/ TargetReset \/ Host \/ HostError

Spec == Init /\ [][Next]_vars

\* The firmware keeps running, a call runs to its end, and the callers keep
\* reading (the polling loops over the channels): any peeks between two reads
\* only delay the next read.
Fairness ==
  /\ WF_vars(TargetPut) /\ WF_vars(TargetPublish)
  /\ WF_vars(NextChunk) /\ WF_vars(CopyByte) /\ WF_vars(WriteBack)
  /\ SF_vars(\E n \in BufLens \ {0} : ReadPointers("read", n))

FairSpec == Spec /\ Fairness

-----------------------------------------------------------------------------
(* Properties.                                                             *)

TypeOK ==
  /\ buf \in [Index -> Int]
  /\ wr \in Index /\ rd \in Index /\ mode \in Modes
  /\ tpc \in {"idle", "writing"} /\ tat \in Index /\ tleft \in Nat
  /\ sent \in Nat /\ put \in Nat
  /\ hpc \in {"idle", "loop", "copy", "write_back"}
  /\ hop \in {"read", "peek"}
  /\ hw \in Index /\ hr \in Index
  /\ hcount \in Nat /\ hroom \in Nat
  /\ got \in Seq(Int) /\ taken \in Int /\ out \in Seq(Int) /\ missed \subseteq Int
  /\ torn \in BOOLEAN /\ faults \in Nat /\ resets \in Nat

\* Every byte a call has copied is the next byte the firmware sent after those that
\* have left the ring: read and peek see the stream without a gap, a repetition
\* or a byte the firmware is still writing, even though both sides move while
\* the copy is under way.  A reset in the middle of a call is the exception.
CopiedInOrder ==
  ~torn => \A k \in 1 .. Len(got) : got[k] = taken + k - 1

\* Nothing is lost from the ring and nothing overwritten: the bytes between the two
\* offsets are exactly those published that no read gave back, also after a read
\* that failed.
NoLossNoOverwrite ==
  ~torn => /\ sent - taken = Used(Size, wr, rd)
           /\ \A i \in Index :
                Ahead(Size, rd, i) < Used(Size, wr, rd)
                  => buf[i] = taken + Ahead(Size, rd, i)

\* The firmware's own view: the bytes put but not yet published follow the
\* published ones, and none of them lands on a byte still to be read.
UnpublishedBytesFollow ==
  /\ tpc = "idle" => put = 0 /\ tleft = 0
  /\ ~torn =>
       /\ tpc = "writing" => Used(Size, tat, rd) = Used(Size, wr, rd) + put
       /\ \A i \in Index :
            Ahead(Size, rd, i) < Used(Size, wr, rd) + put
              => buf[i] = taken + Ahead(Size, rd, i)

\* What a call saw at its start stays valid until its end: its snapshot of the
\* write offset lies within what is published, its private read offset is as
\* far along as the bytes it copied, and the chunk it copies ends before both
\* the snapshot and the end of the buffer.
SnapshotStaysPublished ==
  /\ hpc = "copy" => hcount \in 1 .. hroom /\ hr + hcount <= Size
  /\ hpc \in {"loop", "write_back"} => hcount = 0
  /\ hpc = "idle" => got = << >>
  /\ hpc # "idle" /\ ~torn =>
       /\ Used(Size, hw, rd) <= Used(Size, wr, rd)
       /\ Ahead(Size, rd, hr) = Len(got)
       /\ Len(got) + hcount <= Used(Size, hw, rd)

\* A reset in the middle of a call leaves a stale read offset behind, but the
\* offsets never leave the buffer, so read_pointers does not report the
\* channel as corrupted.
OffsetsStayValid == wr < Size /\ rd < Size

\* Whatever the firmware publishes reaches a caller, also after a read that failed
\* half-way.  Missed are only bytes that a reset clears, or whose write-back took
\* effect although the read returned an error; and a reset may tear a call.
Delivered == (0 .. taken - 1) \ missed
EverythingArrives ==
  \A n \in 1 .. MaxSent : (sent >= n) ~> (n - 1 \in Delivered \cup missed \/ torn)

\* The channel is the byte queue of ByteFifo: published bytes form the queue,
\* a read takes a prefix of it at its write-back, and bytes leave it in no other way
\* than with a failed access of which the answer is lost.  A reset clears the queue,
\* and one in the middle of a call leaves no promise.
Stored == [k \in 1 .. Used(Size, wr, rd) |->
             buf[IF rd + k - 1 < Size THEN rd + k - 1 ELSE rd + k - 1 - Size]]

Fifo == INSTANCE ByteFifo WITH Capacity <- Size - 1, queue <- Stored, out <- out
FifoSpec ==
  /\ Fifo!Init
  /\ [][resets' = resets /\ ~torn =>
          \/ Fifo!Publish \/ Fifo!Take \/ UNCHANGED <<Stored, out>>
          \/ faults' = faults + 1 /\ Fifo!Lose]_vars
=============================================================================
