------------------------------ MODULE RttRing ------------------------------
(***************************************************************************)
(* The index arithmetic of an RTT ring buffer, as probe-rs/src/rtt/        *)
(* channel.rs computes it from the `write` and `read` offsets of a channel *)
(* in target memory.  A buffer of `size` bytes holds at most `size - 1`:   *)
(* equal offsets mean empty.                                               *)
(***************************************************************************)
EXTENDS Integers

CONSTANTS Size,        \* size field of the channel descriptor
          MaxFaults    \* bound: failing memory accesses

ASSUME SizeAssumption == Size \in Nat \ {0}
ASSUME FaultsAssumption == MaxFaults \in Nat

Index == 0 .. Size - 1

\* UpChannel::readable_contiguous: bytes readable before the end of the buffer.
ReadableContiguous(size, write, read) ==
  IF read > write THEN size - read ELSE write - read

\* Slip: the byte in front of `read` is given away too.
SlipWritable(size, write, read) ==
  IF read > write THEN read - write ELSE size - write

\* DownChannel::writable_contiguous: bytes writable before the end of the
\* buffer; the byte in front of `read` always stays free.
WritableContiguous(size, write, read) ==
  IF read > write THEN read - write - 1
  ELSE IF read = 0 THEN size - write - 1
  ELSE size - write

\* Slip: one beyond the last byte is not wrapped.
SlipWrap(size, i) == IF i > size THEN 0 ELSE i

\* The wrap-around both loops apply after they advanced an offset.
Wrap(size, i) == IF i >= size THEN 0 ELSE i

MinOf(a, b) == IF a <= b THEN a ELSE b

\* How far the index i lies behind the offset `from`, going round the buffer.
Ahead(size, from, i) == IF i >= from THEN i - from ELSE i + size - from

\* How many bytes lie between the two offsets, and how many more fit.
Used(size, write, read) == Ahead(size, read, write)

Free(size, write, read) == size - 1 - Used(size, write, read)
=============================================================================
