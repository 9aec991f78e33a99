------------------------------ MODULE RttDown ------------------------------
(***************************************************************************)
(* One RTT down (host to target) channel: DownChannel::write of            *)
(* probe-rs/src/rtt/channel.rs under the loop of rtthost, which keeps what *)
(* did not fit and hands it over again.                                    *)
(*                                                                         *)
(* A byte is modelled by its place in what the user typed.  The firmware   *)
(* takes bytes one at a time and gives their room back later.  The names   *)
(* are such that both channels can be talked about in one module: those    *)
(* that RttUp has as well begin with d here, or with Down.                 *)
(***************************************************************************)
EXTENDS RttRing, Sequences

CONSTANTS
  TypeLens,    \* how many bytes the user types at a time
  MaxTyped     \* bound: bytes typed in a behaviour

ASSUME InputAssumption ==
  TypeLens \subseteq Nat \ {0} /\ MaxTyped \in Nat

VARIABLES
  dbuf, dwr, drd,        \* target memory
  seen, dtaken, dout,    \* firmware: bytes copied out, count and bytes released
  dpc, dw, dr,           \* host: step of the call, local write and read
  dcount, dleft, dtotal, \* bytes left of the chunk, of the input, written so far
  typed, dsent,          \* client: bytes typed, bytes no longer in its buffer
  unsure,                \* bytes published by a write that returned an error
  running, dfaults

downMemory == <<dbuf, dwr, drd>>
downTarget == <<seen, dtaken, dout>>
downHost == <<dpc, dw, dr, dcount, dleft, dtotal>>
client == <<typed, dsent, unsure, running>>
downVars == <<downMemory, downTarget, downHost, client, dfaults>>

DownInit ==
  /\ dbuf = [i \in Index |-> -1] /\ dwr = 0 /\ drd = 0
  /\ seen = << >> /\ dtaken = 0 /\ dout = << >>
  /\ dpc = "idle" /\ dw = 0 /\ dr = 0 /\ dcount = 0 /\ dleft = 0 /\ dtotal = 0
  /\ typed = 0 /\ dsent = 0 /\ unsure = 0 /\ running = TRUE /\ dfaults = 0

-----------------------------------------------------------------------------
(* The firmware: it owns drd.                                              *)

TargetGet ==
  /\ Len(seen) < Used(Size, dwr, drd)
  /\ seen' = Append(seen, dbuf[IF drd + Len(seen) < Size THEN drd + Len(seen)
                               ELSE drd + Len(seen) - Size])
  /\ UNCHANGED <<downMemory, dtaken, dout, downHost, client, dfaults>>

TargetRelease ==
  /\ seen # << >>
  /\ drd' = IF drd + Len(seen) < Size THEN drd + Len(seen) ELSE drd + Len(seen) - Size
  /\ dtaken' = dtaken + Len(seen)
  /\ dout' = seen /\ seen' = << >>
  /\ UNCHANGED <<dbuf, dwr, downHost, client, dfaults>>

-----------------------------------------------------------------------------
(* The host.                                                               *)

\* The user types n bytes; they wait in the client's buffer until the client
\* looks at its input between two calls.
Type(n) ==
  /\ dpc = "idle" /\ running /\ typed + n <= MaxTyped
  /\ typed' = typed + n
  /\ UNCHANGED <<downMemory, downTarget, downHost, dsent, unsure, running, dfaults>>

\* What the client drops from its buffer after a call that wrote `total` bytes.
DropSent(total) == dsent' = dsent + total

\* write reads the offsets; a full buffer ends the call with Ok(0).
DownReadPointers ==
  /\ dpc = "idle" /\ running /\ dsent < typed
  /\ dwr < Size /\ drd < Size
  /\ dw' = dwr /\ dr' = drd /\ dtotal' = 0 /\ dcount' = 0
  /\ \/ /\ WritableContiguous(Size, dwr, drd) = 0
        /\ DropSent(0)
        /\ dleft' = 0 /\ UNCHANGED dpc
     \/ /\ WritableContiguous(Size, dwr, drd) # 0
        /\ dleft' = typed - dsent
        /\ dpc' = "loop" /\ UNCHANGED dsent
  /\ UNCHANGED <<downMemory, downTarget, typed, unsure, running, dfaults>>

\* The head of the loop.
DownChunkOf(room) ==
  /\ dpc = "loop"
  /\ dcount' = MinOf(room, dleft)
  /\ dpc' = IF dcount' > 0 THEN "copy" ELSE "write_back"
  /\ UNCHANGED <<downMemory, downTarget, dw, dr, dleft, dtotal, client, dfaults>>

\* Slip: a chunk may run up to the end of the buffer whatever is still unread.
SlipDownNextChunk == DownChunkOf(Size - dw)

DownNextChunk == DownChunkOf(WritableContiguous(Size, dw, dr))

\* One byte of core.write_8 of the chunk.
DownCopyByte ==
  /\ dpc = "copy"
  /\ dbuf' = [dbuf EXCEPT ![dw] = dsent + dtotal]
  /\ dtotal' = dtotal + 1
  /\ dw' = IF dcount = 1 THEN Wrap(Size, dw + 1) ELSE dw + 1
  /\ dcount' = dcount - 1
  /\ dleft' = dleft - 1
  /\ dpc' = IF dcount = 1 THEN "loop" ELSE "copy"
  /\ UNCHANGED <<dwr, drd, downTarget, dr, client, dfaults>>

\* The write offset goes back to the target.
DownPublish(offset) ==
  /\ dpc = "write_back"
  /\ dwr' = offset
  /\ dpc' = "idle" /\ dtotal' = 0
  /\ UNCHANGED <<dbuf, drd, downTarget, dw, dr, dcount, dleft, typed>>

\* It went well: the client drops its bytes.
DownWriteBackOf(offset) ==
  DownPublish(offset) /\ DropSent(dtotal) /\ UNCHANGED <<unsure, running, dfaults>>

\* Slip: the wrap-around of the write offset is forgotten in the write-back.
SlipDownWriteBack == DownWriteBackOf(IF dw = 0 THEN Size - 1 ELSE dw)

DownWriteBack == DownWriteBackOf(dw)

\* An access fails before it had an effect, or the answer to the write of the write
\* offset is lost.
DownAccessFails ==
  /\ dpc \in {"copy", "write_back"}
  /\ dpc' = "idle" /\ dcount' = 0 /\ dtotal' = 0
  /\ UNCHANGED <<downMemory, downTarget, dw, dr, dleft, typed, unsure>>

DownAnswerLost == DownPublish(dw) /\ unsure' = unsure + dtotal

\* In both cases write returns the error and rtthost ends (main.rs 246-249).
DownErrorThen(goesOn) ==
  /\ dfaults < MaxFaults /\ dfaults' = dfaults + 1
  /\ DownAccessFails \/ DownAnswerLost
  /\ running' = goesOn
  /\ UNCHANGED dsent

\* Slip: the loop logs the error and goes on.
SlipDownError == DownErrorThen(TRUE)

DownError == DownErrorThen(FALSE)

-----------------------------------------------------------------------------
DownNext == \/ TargetGet \/ TargetRelease
            \/ \E n \in TypeLens : Type(n)
            \/ DownReadPointers \/ DownNextChunk \/ DownCopyByte \/ DownWriteBack \/ DownError

DownSpec == DownInit /\ [][DownNext]_downVars

\* The firmware polls the channel, a call runs to its end and the client calls
\* again while it has input.
DownFairness == /\ WF_downVars(TargetGet) /\ WF_downVars(TargetRelease)
                /\ WF_downVars(DownReadPointers) /\ WF_downVars(DownNextChunk)
                /\ WF_downVars(DownCopyByte) /\ WF_downVars(DownWriteBack)

DownFairSpec == DownSpec /\ DownFairness

-----------------------------------------------------------------------------
(* Properties.                                                             *)

DownTypeOK ==
  /\ dbuf \in [Index -> Int] /\ dwr \in Index /\ drd \in Index
  /\ seen \in Seq(Int) /\ dtaken \in Nat /\ dout \in Seq(Int)
  /\ dpc \in {"idle", "loop", "copy", "write_back"}
  /\ dw \in Index /\ dr \in Index
  /\ dcount \in Nat /\ dleft \in Nat /\ dtotal \in Nat
  /\ typed \in Nat /\ dsent \in Nat /\ unsure \in Nat /\ running \in BOOLEAN /\ dfaults \in Nat

\* The bytes published to the firmware.
DownStored == [k \in 1 .. Used(Size, dwr, drd) |->
                 dbuf[IF drd + k - 1 < Size THEN drd + k - 1 ELSE drd + k - 1 - Size]]

\* Under rtthost every typed byte is released by the firmware, stored, or still
\* in the client's buffer, in this order and once, also when a write fails
\* half-way; and the firmware copied out the oldest of them.  A byte is both stored
\* and in the buffer only when a write published it and yet failed, and then
\* rtthost has ended and does not send it again.
NoGap ==
  /\ \A k \in 1 .. Len(seen) : seen[k] = dtaken + k - 1
  /\ (dsent + unsure) - dtaken = Len(DownStored)
  /\ \A k \in 1 .. Len(DownStored) : DownStored[k] = dtaken + k - 1
  /\ running => unsure = 0

\* The host never writes over a byte the firmware may still be reading, although
\* the read offset it checks against is as old as its call.
UnreadBytesUntouched ==
  [][\A k \in 1 .. Len(DownStored) :
       LET i == IF drd + k - 1 < Size THEN drd + k - 1 ELSE drd + k - 1 - Size
       IN  dbuf'[i] = dbuf[i]]_downVars

\* With a polling firmware everything typed arrives, unless rtthost ended.
InputArrives ==
  \A n \in 1 .. MaxTyped : (typed >= n) ~> (dtaken >= n \/ ~running)

InputFifo == INSTANCE ByteFifo WITH Capacity <- Size - 1, queue <- DownStored, out <- dout
InputFifoSpec == InputFifo!Spec
=============================================================================
