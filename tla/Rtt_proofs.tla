----------------------------- MODULE Rtt_proofs -----------------------------
(***************************************************************************)
(* The RTT channels.  Up: for every buffer size, every message and read    *)
(* length and any number of faults and resets, reads see the firmware's    *)
(* stream without gap, repetition or unpublished byte.  Down: for every    *)
(* buffer size, any input and any number of failing accesses, rtthost's    *)
(* write loop hands the firmware what was typed, without a gap and without *)
(* touching a byte that the firmware has still to read.                    *)
(***************************************************************************)
EXTENDS RttUp, RttDown, SequenceTheorems, TLAPS

-----------------------------------------------------------------------------
(* The up channel.                                                         *)

\* The inductive invariant: what is stored, what the firmware has under way,
\* and what the host has under way, each relative to `taken`.
IndInv ==
  /\ TypeOK
  /\ NoLossNoOverwrite
  /\ UnpublishedBytesFollow
  /\ SnapshotStaysPublished
  /\ CopiedInOrder

-----------------------------------------------------------------------------
(* The arithmetic of the ring.                                             *)

\* A distance in the ring is less than its size.
LEMMA AheadInRange ==
  ASSUME NEW r \in Index, NEW i \in Index
  PROVE  Ahead(Size, r, i) \in 0 .. Size - 1
BY SizeAssumption DEF Index, Ahead

\* The distance between two offsets stays below the size, and Used is the
\* distance from `read` to `write`: the free space the firmware computes is
\* never negative (the subtractions in channel.rs do not underflow).
LEMMA RingBounds ==
  ASSUME NEW w \in Index, NEW r \in Index
  PROVE  /\ Used(Size, w, r) \in 0 .. Size - 1
         /\ Free(Size, w, r) \in 0 .. Size - 1
         /\ ReadableContiguous(Size, w, r) \in 0 .. Size - r
         /\ ReadableContiguous(Size, w, r) <= Used(Size, w, r)
BY SizeAssumption DEF Index, Used, Free, Ahead, ReadableContiguous

\* Advancing an offset by one byte when there is room adds one byte.
LEMMA Advance ==
  ASSUME NEW w \in Index, NEW r \in Index, Free(Size, w, r) > 0
  PROVE  /\ Wrap(Size, w + 1) \in Index
         /\ Used(Size, Wrap(Size, w + 1), r) = Used(Size, w, r) + 1
BY SizeAssumption DEF Index, Used, Ahead, Free, Wrap

\* Two indices equally far from the same offset are the same index.
LEMMA AheadInjective ==
  ASSUME NEW r \in Index, NEW i \in Index, NEW j \in Index,
         Ahead(Size, r, i) = Ahead(Size, r, j)
  PROVE  i = j
BY SizeAssumption DEF Index, Ahead

\* Moving the origin from r to r2 shortens every distance beyond r2.
LEMMA Rebase ==
  ASSUME NEW r \in Index, NEW r2 \in Index, NEW i \in Index, NEW w \in Index,
         Ahead(Size, r, r2) <= Ahead(Size, r, w)
  PROVE  /\ Ahead(Size, r2, w) = Ahead(Size, r, w) - Ahead(Size, r, r2)
         /\ Ahead(Size, r2, i) < Size - Ahead(Size, r, r2)
              => Ahead(Size, r, i) = Ahead(Size, r2, i) + Ahead(Size, r, r2)
BY SizeAssumption DEF Index, Ahead

-----------------------------------------------------------------------------
\* A control block with empty channels satisfies the invariant.
THEOREM InitIndInv == Init => IndInv
<1> SUFFICES ASSUME Init PROVE IndInv
  OBVIOUS
<1> USE SizeAssumption
<1>1. TypeOK
  BY DEF Init, TypeOK, Index, Modes
<1>2. NoLossNoOverwrite /\ UnpublishedBytesFollow
  BY DEF Init, NoLossNoOverwrite, UnpublishedBytesFollow, Index, Used, Ahead
<1>3. SnapshotStaysPublished /\ CopiedInOrder
  BY DEF Init, SnapshotStaysPublished, CopiedInOrder
<1> QED BY <1>1, <1>2, <1>3 DEF IndInv

\* Each step of firmware, host and target reset preserves the types.
LEMMA TypeStep == IndInv /\ [Next]_vars => TypeOK'
<1> SUFFICES ASSUME IndInv, [Next]_vars PROVE TypeOK'
  OBVIOUS
<1> USE SizeAssumption, FaultsAssumption, LensAssumption, BoundsAssumption DEF memory, target, host, caller
<1>0. TypeOK
  BY DEF IndInv
<1>1. ASSUME NEW n \in MsgLens, TargetBegin(n) PROVE TypeOK'
  <2>1. n \in Nat /\ Free(Size, wr, rd) \in Nat
    BY <1>0, RingBounds DEF TypeOK
  <2>2. tleft' \in Nat
    BY <1>0, <1>1, <2>1 DEF TypeOK, TargetBegin, MinOf, Modes
  <2> QED BY <1>0, <1>1, <2>2 DEF TypeOK, TargetBegin
<1>2. CASE TargetPut
  <2>1. tat' \in Index
    BY <1>0, <1>2, Advance DEF TypeOK, TargetPut
  <2>2. tleft' \in Nat /\ buf' \in [Index -> Int] /\ put' \in Nat
    BY <1>0, <1>2 DEF TypeOK, TargetPut
  <2> QED BY <1>0, <1>2, <2>1, <2>2 DEF TypeOK, TargetPut
<1>3. CASE TargetPublish
  BY <1>0, <1>3 DEF TypeOK, TargetPublish
<1>4. CASE TargetReset
  BY <1>0, <1>4 DEF TypeOK, TargetReset, Index
<1>5. ASSUME NEW op \in {"read", "peek"}, NEW n \in BufLens, ReadPointers(op, n)
      PROVE TypeOK'
  BY <1>0, <1>5 DEF TypeOK, ReadPointers
<1>6. CASE NextChunk
  <2>1. MinOf(ReadableContiguous(Size, hw, hr), hroom) \in Nat
    BY <1>0, RingBounds DEF TypeOK, MinOf, Index
  <2> QED BY <1>0, <1>6, <2>1 DEF TypeOK, NextChunk, ChunkOf
<1>7. CASE CopyByte
  <2>1. hcount \in 1 .. hroom /\ hr + hcount <= Size
    BY <1>7 DEF IndInv, SnapshotStaysPublished, CopyByte
  <2>2. hr' \in Index /\ hcount' \in Nat
    BY <1>0, <1>7, <2>1 DEF TypeOK, CopyByte, Wrap, Index
  <2>3. got' \in Seq(Int)
    BY <1>0, <1>7 DEF TypeOK, CopyByte
  <2>4. hroom' \in Nat
    BY <1>0, <1>7, <2>1 DEF TypeOK, CopyByte
  <2> QED BY <1>0, <1>7, <2>2, <2>3, <2>4 DEF TypeOK, CopyByte
<1>8. CASE WriteBack
  BY <1>0, <1>8 DEF TypeOK, WriteBack, WriteBackOf, GiveBack
<1>9. ASSUME NEW m \in Modes, SetMode(m) PROVE TypeOK'
  BY <1>0, <1>9 DEF TypeOK, SetMode
<1>10. CASE HostError
  <2>1. faults' \in Nat /\ (AccessFails \/ AnswerLost)
    BY <1>0, <1>10 DEF TypeOK, HostError
  <2>2. CASE AccessFails
    BY <1>0, <2>1, <2>2 DEF TypeOK, AccessFails
  <2>3. CASE AnswerLost
    <3>1. taken \in Int /\ Len(got) \in Nat
      BY <1>0 DEF TypeOK
    <3>2. (taken .. taken + Len(got) - 1) \subseteq Int
      BY <3>1
    <3>3. taken' \in Int /\ missed' \subseteq Int
      <4>1. taken' = taken + Len(got) /\ missed' = missed \cup (taken .. taken + Len(got) - 1)
        BY <2>3 DEF AnswerLost, GiveBack
      <4>2. missed \subseteq Int
        BY <1>0 DEF TypeOK
      <4>3. taken' \in Int
        BY <3>1, <4>1
      <4>4. missed' \subseteq Int
        BY <3>2, <4>1, <4>2, Zenon
      <4> QED BY <4>3, <4>4
    <3> QED BY <1>0, <2>1, <2>3, <3>3 DEF TypeOK, AnswerLost, GiveBack
  <2> QED BY <2>1, <2>2, <2>3
<1>11. CASE UNCHANGED vars
  BY <1>0, <1>11 DEF TypeOK, vars
<1> QED
  BY <1>1, <1>2, <1>3, <1>4, <1>5, <1>6, <1>7, <1>8, <1>9, <1>10, <1>11
  DEF Next, Target, Host

\* The firmware's side: its bytes land behind the published ones, and the host
\* gives up only bytes it delivers.
LEMMA StoreStep ==
  IndInv /\ [Next]_vars => (NoLossNoOverwrite /\ UnpublishedBytesFollow)'
<1> SUFFICES ASSUME IndInv, [Next]_vars
             PROVE  (NoLossNoOverwrite /\ UnpublishedBytesFollow)'
  OBVIOUS
<1> USE SizeAssumption, LensAssumption DEF memory, target, host, caller
<1>0. TypeOK /\ TypeOK'
  BY TypeStep DEF IndInv
<1>a. NoLossNoOverwrite /\ UnpublishedBytesFollow
  BY DEF IndInv
<1>b. /\ wr \in Index /\ rd \in Index /\ tat \in Index /\ hr \in Index /\ hw \in Index
      /\ Size \in Nat /\ sent \in Nat /\ taken \in Int /\ put \in Nat
      /\ tpc \in {"idle", "writing"} /\ Len(got) \in Nat
  BY <1>0 DEF TypeOK
<1>c. /\ Ahead(Size, rd, wr) \in 0 .. Size - 1 /\ Ahead(Size, rd, tat) \in 0 .. Size - 1
      /\ Ahead(Size, rd, hr) \in 0 .. Size - 1 /\ Ahead(Size, rd, hw) \in 0 .. Size - 1
      /\ Ahead(Size, hr, wr) \in 0 .. Size - 1 /\ Ahead(Size, hr, tat) \in 0 .. Size - 1
  BY <1>b, AheadInRange
<1>1. ASSUME NEW n \in MsgLens, TargetBegin(n)
      PROVE (NoLossNoOverwrite /\ UnpublishedBytesFollow)'
  <2>1. put = 0 /\ put' = 0
    BY <1>1, <1>a DEF TargetBegin, UnpublishedBytesFollow
  <2>2. Used(Size, wr, rd) + put = Used(Size, wr, rd)
    BY <1>c, <2>1 DEF Used
  <2> QED BY <1>1, <1>a, <2>1, <2>2 DEF TargetBegin, NoLossNoOverwrite, UnpublishedBytesFollow
<1>2. CASE TargetPut
  <2>1. CASE torn
    BY <1>2, <2>1, <1>a DEF TargetPut, NoLossNoOverwrite, UnpublishedBytesFollow
  <2>2. CASE ~torn
    <3>1. Ahead(Size, rd, tat) = Ahead(Size, rd, wr) + put
      BY <1>2, <2>2, <1>a DEF TargetPut, UnpublishedBytesFollow, Used
    <3>2. Ahead(Size, rd, tat') = Ahead(Size, rd, tat) + 1
      BY <1>b, <1>2, Advance DEF TargetPut, Used
    <3>3. sent - taken = Ahead(Size, rd, wr)
      BY <2>2, <1>a DEF NoLossNoOverwrite, Used
    <3>4. ASSUME NEW i \in Index, Ahead(Size, rd, i) < Ahead(Size, rd, wr) + put + 1
          PROVE  buf'[i] = taken + Ahead(Size, rd, i)
      <4>0. Ahead(Size, rd, i) \in Nat
        BY <1>b, AheadInRange
      <4>1. CASE i = tat
        <5>1. buf'[i] = sent + put
          BY <1>0, <1>2, <4>1 DEF TargetPut, TypeOK
        <5> QED BY <1>b, <1>c, <3>1, <3>3, <4>1, <5>1
      <4>2. CASE i # tat
        <5>1. Ahead(Size, rd, i) # Ahead(Size, rd, tat)
          BY <1>b, <4>2, AheadInjective
        <5>2. Ahead(Size, rd, i) < Ahead(Size, rd, wr) + put
          BY <1>b, <1>c, <3>1, <3>4, <4>0, <5>1
        <5>3. buf[i] = taken + Ahead(Size, rd, i)
          BY <1>a, <2>2, <5>2 DEF UnpublishedBytesFollow, Used
        <5>4. buf'[i] = buf[i]
          BY <1>0, <1>2, <4>2 DEF TargetPut, TypeOK
        <5> QED BY <5>3, <5>4
      <4> QED BY <4>1, <4>2
    <3>5. Ahead(Size, rd, tat') = Ahead(Size, rd, wr) + put' /\ put' = put + 1
      BY <1>b, <1>c, <1>2, <3>1, <3>2 DEF TargetPut
    <3>6. \A i \in Index : Ahead(Size, rd, i) < Ahead(Size, rd, wr) + put'
                          => buf'[i] = taken + Ahead(Size, rd, i)
      BY <1>b, <1>c, <3>4, <3>5
    <3>7. UnpublishedBytesFollow'
      BY <1>2, <3>5, <3>6 DEF TargetPut, UnpublishedBytesFollow, Used
    <3>8. NoLossNoOverwrite'
      <4>1. ASSUME NEW i \in Index, Ahead(Size, rd, i) < Ahead(Size, rd, wr)
            PROVE  buf'[i] = taken + Ahead(Size, rd, i)
        <5>1. Ahead(Size, rd, i) \in Nat
          BY <1>b, AheadInRange
        <5> QED BY <1>b, <1>c, <3>4, <4>1, <5>1
      <4> QED BY <1>2, <3>3, <4>1 DEF TargetPut, NoLossNoOverwrite, Used
    <3> QED BY <3>7, <3>8
  <2> QED BY <2>1, <2>2
<1>3. CASE TargetPublish
  <2>1. CASE torn
    BY <1>3, <2>1, <1>a DEF TargetPublish, NoLossNoOverwrite, UnpublishedBytesFollow
  <2>2. CASE ~torn
    <3>1. /\ Ahead(Size, rd, tat) = Ahead(Size, rd, wr) + put
          /\ sent - taken = Ahead(Size, rd, wr)
      BY <1>3, <2>2, <1>a DEF TargetPublish, NoLossNoOverwrite, UnpublishedBytesFollow, Used
    <3>2. /\ wr' = tat /\ put' = 0 /\ sent' - taken = Ahead(Size, rd, tat)
          /\ Ahead(Size, rd, tat) + put' = Ahead(Size, rd, tat)
      BY <1>b, <1>c, <1>3, <3>1 DEF TargetPublish
    <3>3. \A i \in Index : Ahead(Size, rd, i) < Ahead(Size, rd, tat)
                          => buf[i] = taken + Ahead(Size, rd, i)
      BY <1>a, <2>2, <3>1 DEF UnpublishedBytesFollow, Used
    <3>4. tpc' = "idle" => tleft = 0
      BY <1>3 DEF TargetPublish
    <3> QED BY <1>3, <3>2, <3>3, <3>4
          DEF TargetPublish, NoLossNoOverwrite, UnpublishedBytesFollow, Used
  <2> QED BY <2>1, <2>2
<1>4. CASE TargetReset
  <2>1. /\ wr' = 0 /\ rd' = 0 /\ put' = 0 /\ tleft' = 0 /\ tpc' = "idle"
        /\ sent' - taken' = 0
    BY <1>b, <1>4 DEF TargetReset
  <2>2. /\ Ahead(Size, 0, 0) = 0
        /\ \A i \in Index : ~(Ahead(Size, 0, i) < 0)
    BY DEF Ahead, Index
  <2> QED BY <2>1, <2>2 DEF NoLossNoOverwrite, UnpublishedBytesFollow, Used
<1>5. ASSUME NEW op \in {"read", "peek"}, NEW n \in BufLens, ReadPointers(op, n)
      PROVE (NoLossNoOverwrite /\ UnpublishedBytesFollow)'
  BY <1>5, <1>a DEF ReadPointers, NoLossNoOverwrite, UnpublishedBytesFollow
<1>6. CASE NextChunk
  BY <1>6, <1>a DEF NextChunk, ChunkOf, NoLossNoOverwrite, UnpublishedBytesFollow
<1>7. CASE CopyByte
  BY <1>7, <1>a DEF CopyByte, NoLossNoOverwrite, UnpublishedBytesFollow
<1>g. CASE GiveBack(hr)
  <2>1. CASE torn
    BY <1>g, <2>1, <1>a DEF GiveBack, NoLossNoOverwrite, UnpublishedBytesFollow
  <2>2. CASE ~torn
    <3>1. Ahead(Size, rd, hr) = Len(got) /\ Len(got) <= Ahead(Size, rd, wr)
      <4>1. /\ Ahead(Size, rd, hr) = Len(got) /\ hcount = 0
            /\ Len(got) + hcount <= Ahead(Size, rd, hw)
            /\ Ahead(Size, rd, hw) <= Ahead(Size, rd, wr)
        BY <1>g, <2>2 DEF IndInv, SnapshotStaysPublished, GiveBack, Used
      <4> QED BY <1>b, <1>c, <4>1
    <3>2. Ahead(Size, hr, wr) = Ahead(Size, rd, wr) - Len(got)
      BY <1>b, <3>1, Rebase
    <3>3. ASSUME tpc = "writing"
          PROVE  /\ Ahead(Size, rd, tat) = Ahead(Size, rd, wr) + put
                 /\ Ahead(Size, hr, tat) = Ahead(Size, hr, wr) + put
      <4>1. Ahead(Size, rd, tat) = Ahead(Size, rd, wr) + put
        BY <1>a, <2>2, <3>3 DEF UnpublishedBytesFollow, Used
      <4>2. Ahead(Size, rd, hr) <= Ahead(Size, rd, tat)
        BY <1>b, <1>c, <3>1, <4>1
      <4>3. Ahead(Size, hr, tat) = Ahead(Size, rd, tat) - Len(got)
        BY <1>b, <3>1, <4>2, Rebase
      <4> QED BY <1>b, <1>c, <3>2, <4>1, <4>3
    <3>4. (tpc = "idle" => put = 0 /\ tleft = 0) /\ Ahead(Size, rd, wr) + put < Size
      <4>1. tpc = "idle" => put = 0 /\ tleft = 0
        BY <1>a DEF UnpublishedBytesFollow
      <4>2. CASE tpc = "idle"
        BY <1>b, <1>c, <4>1, <4>2
      <4>3. CASE tpc = "writing"
        BY <1>b, <1>c, <3>3, <4>3
      <4> QED BY <1>b, <4>1, <4>2, <4>3
    <3>5. ASSUME NEW i \in Index, Ahead(Size, hr, i) < Ahead(Size, hr, wr) + put
          PROVE  buf[i] = taken + Len(got) + Ahead(Size, hr, i)
      <4>0. Ahead(Size, hr, i) \in Nat /\ Ahead(Size, rd, i) \in Nat
        BY <1>b, AheadInRange
      <4>1. Ahead(Size, hr, i) < Size - Ahead(Size, rd, hr)
        BY <1>b, <1>c, <3>1, <3>2, <3>4, <3>5, <4>0, SMTT(20)
      <4>2. Ahead(Size, rd, i) = Ahead(Size, hr, i) + Len(got)
        BY <1>b, <3>1, <4>1, Rebase
      <4>3. Ahead(Size, rd, i) < Ahead(Size, rd, wr) + put
        BY <1>b, <1>c, <3>2, <3>5, <4>0, <4>2
      <4>4. buf[i] = taken + Ahead(Size, rd, i)
        BY <1>a, <2>2, <4>3 DEF UnpublishedBytesFollow, Used
      <4> QED BY <1>b, <4>0, <4>2, <4>4
    <3>6. sent - (taken + Len(got)) = Ahead(Size, hr, wr)
      <4>1. sent - taken = Ahead(Size, rd, wr)
        BY <1>a, <2>2 DEF NoLossNoOverwrite, Used
      <4> QED BY <1>b, <1>c, <3>2, <4>1
    <3>7. UnpublishedBytesFollow'
      BY <1>g, <3>3, <3>4, <3>5 DEF GiveBack, UnpublishedBytesFollow, Used
    <3>8. NoLossNoOverwrite'
      <4>1. ASSUME NEW i \in Index, Ahead(Size, hr, i) < Ahead(Size, hr, wr)
            PROVE  buf[i] = taken + Len(got) + Ahead(Size, hr, i)
        <5>1. Ahead(Size, hr, i) \in Nat
          BY <1>b, AheadInRange
        <5>2. Ahead(Size, hr, i) < Ahead(Size, hr, wr) + put
          BY <1>b, <1>c, <4>1, <5>1
        <5> QED BY <3>5, <5>2
      <4> QED BY <1>g, <3>6, <4>1 DEF GiveBack, NoLossNoOverwrite, Used
    <3> QED BY <3>7, <3>8
  <2> QED BY <2>1, <2>2
<1>8. CASE WriteBack
  BY <1>8, <1>g DEF WriteBack, WriteBackOf
<1>9. ASSUME NEW m \in Modes, SetMode(m)
      PROVE (NoLossNoOverwrite /\ UnpublishedBytesFollow)'
  BY <1>9, <1>a DEF SetMode, NoLossNoOverwrite, UnpublishedBytesFollow
<1>10. CASE HostError
  <2>1. CASE AccessFails
    BY <2>1, <1>a DEF AccessFails, NoLossNoOverwrite, UnpublishedBytesFollow
  <2>2. CASE AnswerLost
    BY <2>2, <1>g DEF AnswerLost
  <2> QED BY <1>10, <2>1, <2>2 DEF HostError
<1>11. CASE UNCHANGED vars
  BY <1>11, <1>a DEF vars, NoLossNoOverwrite, UnpublishedBytesFollow
<1> QED
  BY <1>1, <1>2, <1>3, <1>4, <1>5, <1>6, <1>7, <1>8, <1>9, <1>10, <1>11
  DEF Next, Target, Host

\* The host's side: its snapshot ages, but what it still has to copy stays put.
LEMMA ReaderStep ==
  IndInv /\ [Next]_vars => (SnapshotStaysPublished /\ CopiedInOrder)'
<1> SUFFICES ASSUME IndInv, [Next]_vars
             PROVE  (SnapshotStaysPublished /\ CopiedInOrder)'
  OBVIOUS
<1> USE SizeAssumption, LensAssumption DEF memory, target, host, caller
<1>0. TypeOK /\ TypeOK'
  BY TypeStep DEF IndInv
<1>a. SnapshotStaysPublished /\ CopiedInOrder
  BY DEF IndInv
<1>b. /\ wr \in Index /\ rd \in Index /\ tat \in Index /\ hr \in Index /\ hw \in Index
      /\ Size \in Nat /\ taken \in Int /\ put \in Nat /\ hcount \in Nat /\ hroom \in Nat
      /\ hpc \in {"idle", "loop", "copy", "write_back"}
      /\ Len(got) \in Nat /\ got \in Seq(Int)
  BY <1>0 DEF TypeOK
<1>c. /\ Ahead(Size, rd, wr) \in 0 .. Size - 1 /\ Ahead(Size, rd, tat) \in 0 .. Size - 1
      /\ Ahead(Size, rd, hr) \in 0 .. Size - 1 /\ Ahead(Size, rd, hw) \in 0 .. Size - 1
  BY <1>b, AheadInRange
<1>1. ASSUME NEW n \in MsgLens, TargetBegin(n)
      PROVE (SnapshotStaysPublished /\ CopiedInOrder)'
  BY <1>1, <1>a DEF TargetBegin, SnapshotStaysPublished, CopiedInOrder
<1>2. CASE TargetPut
  BY <1>2, <1>a DEF TargetPut, SnapshotStaysPublished, CopiedInOrder
<1>3. CASE TargetPublish
  <2>1. ~torn => Ahead(Size, rd, tat) = Ahead(Size, rd, wr) + put
    BY <1>3 DEF IndInv, TargetPublish, UnpublishedBytesFollow, Used
  <2>2. ~torn /\ Ahead(Size, rd, hw) <= Ahead(Size, rd, wr)
          => Ahead(Size, rd, hw) <= Ahead(Size, rd, tat)
    BY <1>b, <1>c, <2>1
  <2> QED BY <1>3, <1>a, <2>2 DEF TargetPublish, SnapshotStaysPublished, CopiedInOrder, Used
<1>4. CASE TargetReset
  <2>1. hpc # "idle" => torn'
    BY <1>4 DEF TargetReset
  <2>2. hpc = "idle" => got = << >>
    BY <1>a DEF SnapshotStaysPublished
  <2>3. hpc' = hpc /\ got' = got /\ hcount' = hcount /\ hr' = hr /\ hroom' = hroom
    BY <1>4 DEF TargetReset
  <2>4. SnapshotStaysPublished'
    BY <1>a, <2>1, <2>3 DEF SnapshotStaysPublished
  <2>5. CopiedInOrder'
    BY <1>a, <2>1, <2>2, <2>3 DEF CopiedInOrder
  <2> QED BY <2>4, <2>5
<1>5. ASSUME NEW op \in {"read", "peek"}, NEW n \in BufLens, ReadPointers(op, n)
      PROVE (SnapshotStaysPublished /\ CopiedInOrder)'
  <2>1. Ahead(Size, rd, rd) = 0
    BY <1>b DEF Ahead, Index
  <2>2. /\ hw' = wr /\ hr' = rd /\ rd' = rd /\ wr' = wr /\ got' = << >>
        /\ hcount' = 0 /\ hpc' = "loop"
    BY <1>5 DEF ReadPointers
  <2> QED BY <1>b, <1>c, <2>1, <2>2 DEF SnapshotStaysPublished, CopiedInOrder, Used
<1>6. CASE NextChunk
  <2> DEFINE count == MinOf(ReadableContiguous(Size, hw, hr), hroom)
  <2>1. /\ count \in Nat /\ count <= hroom /\ hr + count <= Size
        /\ count <= ReadableContiguous(Size, hw, hr)
    <3>1. ReadableContiguous(Size, hw, hr) \in Nat /\ hr \in Nat
          /\ ReadableContiguous(Size, hw, hr) <= Size - hr
      BY <1>b DEF ReadableContiguous, Index
    <3> QED BY <1>b, <3>1 DEF MinOf
  <2>2. ASSUME ~torn
        PROVE  Len(got) + count <= Ahead(Size, rd, hw)
    <3>1. Ahead(Size, rd, hr) = Len(got) /\ Len(got) <= Ahead(Size, rd, hw)
      <4>1. /\ Ahead(Size, rd, hr) = Len(got) /\ hcount = 0
            /\ Len(got) + hcount <= Ahead(Size, rd, hw)
        BY <1>6, <1>a, <2>2 DEF NextChunk, ChunkOf, SnapshotStaysPublished, Used
      <4> QED BY <1>b, <1>c, <4>1
    <3>2. Ahead(Size, rd, hr) + ReadableContiguous(Size, hw, hr) <= Ahead(Size, rd, hw)
      BY <1>b, <3>1 DEF Ahead, ReadableContiguous, Index
    <3> HIDE DEF count
    <3>3. ReadableContiguous(Size, hw, hr) \in Nat
      BY <1>b DEF ReadableContiguous, Index
    <3> QED BY <1>b, <1>c, <2>1, <3>1, <3>2, <3>3
  <2>3. /\ hcount' = count
        /\ hpc' = IF count > 0 THEN "copy"
                  ELSE IF got # << >> /\ hop = "read" THEN "write_back" ELSE "idle"
        /\ hr' = hr /\ hw' = hw /\ rd' = rd /\ wr' = wr /\ hroom' = hroom /\ torn' = torn
        /\ taken' = taken
        /\ got' = IF count > 0 \/ (got # << >> /\ hop = "read") THEN got ELSE << >>
    BY <1>6 DEF NextChunk, ChunkOf
  <2> HIDE DEF count
  <2>4. hpc = "loop"
    BY <1>6 DEF NextChunk, ChunkOf
  <2>5. /\ hpc' = "copy" => count > 0 /\ got' = got
        /\ hpc' # "copy" => count = 0
        /\ hpc' # "idle" => got' = got
        /\ hpc' = "idle" => got' = << >>
    BY <1>b, <2>1, <2>3
  <2>6. SnapshotStaysPublished'
    BY <1>b, <1>a, <2>1, <2>2, <2>3, <2>4, <2>5 DEF SnapshotStaysPublished, Used
  <2>7. CopiedInOrder'
    BY <1>b, <1>a, <2>3, <2>5 DEF CopiedInOrder
  <2> QED BY <2>6, <2>7
<1>7. CASE CopyByte
  <2>1. hpc = "copy" /\ hcount \in 1 .. hroom /\ hr + hcount <= Size
    BY <1>7, <1>a DEF CopyByte, SnapshotStaysPublished
  <2>2. /\ Len(got') = Len(got) + 1 /\ got' = Append(got, buf[hr])
        /\ hcount' = hcount - 1 /\ hroom' = hroom - 1
        /\ hr' = (IF hcount = 1 THEN Wrap(Size, hr + 1) ELSE hr + 1)
        /\ hpc' = (IF hcount = 1 THEN "loop" ELSE "copy")
        /\ hw' = hw /\ rd' = rd /\ wr' = wr /\ torn' = torn /\ taken' = taken
    BY <1>b, <1>7 DEF CopyByte
  <2>3. ASSUME ~torn
        PROVE  /\ Ahead(Size, rd, hr) = Len(got)
               /\ Len(got) + hcount <= Ahead(Size, rd, hw)
               /\ Ahead(Size, rd, hw) <= Ahead(Size, rd, wr)
               /\ Len(got) < Ahead(Size, rd, wr)
    <3>1. /\ Ahead(Size, rd, hr) = Len(got)
          /\ Len(got) + hcount <= Ahead(Size, rd, hw)
          /\ Ahead(Size, rd, hw) <= Ahead(Size, rd, wr)
      BY <1>a, <2>1, <2>3 DEF SnapshotStaysPublished, Used
    <3> QED BY <1>b, <1>c, <2>1, <3>1
  <2>4. ~torn => Ahead(Size, rd, hr') = Len(got) + 1
    <3> SUFFICES ASSUME ~torn PROVE Ahead(Size, rd, hr') = Len(got) + 1
      OBVIOUS
    <3>1. Ahead(Size, rd, hr) < Size - 1
      BY <1>b, <1>c, <2>3
    <3>2. hr' = Wrap(Size, hr + 1)
      BY <1>b, <2>1, <2>2 DEF Wrap, Index
    <3>3. Ahead(Size, rd, Wrap(Size, hr + 1)) = Ahead(Size, rd, hr) + 1
      BY <1>b, <3>1 DEF Ahead, Wrap, Index
    <3> QED BY <2>3, <3>2, <3>3
  <2>5. SnapshotStaysPublished'
    <3>1. hpc' = "copy" => hcount' \in 1 .. hroom' /\ hr' + hcount' <= Size
      BY <1>b, <2>1, <2>2 DEF Index
    <3>2. hpc' \in {"loop", "write_back"} => hcount' = 0
      BY <1>b, <2>1, <2>2
    <3>3. ~torn => Len(got') + hcount' <= Ahead(Size, rd, hw)
      BY <1>b, <1>c, <2>1, <2>2, <2>3
    <3>4. hpc' # "idle"
      BY <2>2
    <3> QED BY <2>2, <2>3, <2>4, <3>1, <3>2, <3>3, <3>4 DEF SnapshotStaysPublished, Used
  <2>6. CopiedInOrder'
    <3> SUFFICES ASSUME ~torn, NEW k \in 1 .. Len(got) + 1
                 PROVE  got'[k] = taken + k - 1
      BY <2>2 DEF CopiedInOrder
    <3>1. buf[hr] = taken + Len(got)
      BY <1>b, <2>3 DEF IndInv, NoLossNoOverwrite, Used
    <3>2. CASE k = Len(got) + 1
      BY <1>b, <2>2, <3>1, <3>2
    <3>3. CASE k \in 1 .. Len(got)
      <4>1. got'[k] = got[k]
        BY <1>b, <2>2, <3>3
      <4> QED BY <1>a, <3>3, <4>1 DEF CopiedInOrder
    <3> QED BY <1>b, <3>2, <3>3
  <2> QED BY <2>5, <2>6
<1>8. CASE WriteBack
  <2>1. hpc' = "idle" /\ got' = << >>
    BY <1>8 DEF WriteBack, WriteBackOf, GiveBack
  <2> QED BY <2>1 DEF SnapshotStaysPublished, CopiedInOrder
<1>9. ASSUME NEW m \in Modes, SetMode(m)
      PROVE (SnapshotStaysPublished /\ CopiedInOrder)'
  BY <1>9, <1>a DEF SetMode, SnapshotStaysPublished, CopiedInOrder
<1>10. CASE HostError
  <2>1. hpc' = "idle" /\ got' = << >>
    BY <1>10 DEF HostError, AccessFails, AnswerLost, GiveBack
  <2> QED BY <2>1 DEF SnapshotStaysPublished, CopiedInOrder
<1>11. CASE UNCHANGED vars
  BY <1>11, <1>a DEF vars, SnapshotStaysPublished, CopiedInOrder
<1> QED
  BY <1>1, <1>2, <1>3, <1>4, <1>5, <1>6, <1>7, <1>8, <1>9, <1>10, <1>11
  DEF Next, Target, Host

-----------------------------------------------------------------------------
\* The strengthening of the three properties holds in every reachable state.
THEOREM IndInvHolds == Spec => []IndInv
<1>1. IndInv /\ [Next]_vars => IndInv'
  BY TypeStep, StoreStep, ReaderStep DEF IndInv
<1> QED BY InitIndInv, <1>1, PTL DEF Spec

\* UpChannel::read and peek (channel.rs 196-250) hand the caller exactly the
\* bytes that come next in the firmware's stream.
THEOREM ReadsAreInOrder == Spec => []CopiedInOrder
BY IndInvHolds, PTL DEF IndInv

\* The firmware never overwrites a byte the host has still to read, and what a read
\* did not give back stays, whatever fails.
THEOREM NothingIsLost == Spec => []NoLossNoOverwrite
BY IndInvHolds, PTL DEF IndInv

\* Whatever resets and failing accesses happen, both offsets stay inside the
\* buffer: read_pointers (channel.rs 124-138) never finds them out of range.
THEOREM OffsetsInBuffer == Spec => []OffsetsStayValid
<1>1. IndInv => OffsetsStayValid
  BY SizeAssumption DEF IndInv, TypeOK, OffsetsStayValid, Index
<1> QED BY IndInvHolds, <1>1, PTL

-----------------------------------------------------------------------------
(* The channel as a queue of bytes.                                        *)

\* The index at a given distance, as Stored computes it.
LEMMA IndexAhead ==
  ASSUME NEW r \in Index, NEW d \in 0 .. Size - 1
  PROVE  LET i == IF r + d < Size THEN r + d ELSE r + d - Size
         IN  i \in Index /\ Ahead(Size, r, i) = d
BY SizeAssumption DEF Index, Ahead

\* A call reaches its write-back only with bytes to hand over.
TakesSome == hpc = "write_back" => got # << >>

LEMMA TakesSomeStep == TakesSome /\ [Next]_vars => TakesSome'
<1> SUFFICES ASSUME TakesSome, [Next]_vars PROVE TakesSome'
  OBVIOUS
<1>1. CASE NextChunk
  BY <1>1 DEF NextChunk, ChunkOf, TakesSome
<1>2. CASE ~NextChunk /\ UNCHANGED <<hpc, got>>
  BY <1>2 DEF TakesSome
<1>3. CASE ~NextChunk /\ ~UNCHANGED <<hpc, got>>
  <2>1. hpc' # "write_back"
    BY <1>3 DEF Next, Target, Host, TargetBegin, TargetPut, TargetPublish, TargetReset,
       ReadPointers, CopyByte, WriteBack, WriteBackOf, GiveBack, HostError, AccessFails,
       AnswerLost, SetMode, host, vars
  <2> QED BY <2>1 DEF TakesSome
<1> QED BY <1>1, <1>2, <1>3

THEOREM TakesSomeHolds == Spec => []TakesSome
<1>1. Init => TakesSome
  BY DEF Init, TakesSome
<1> QED BY <1>1, TakesSomeStep, PTL DEF Spec

\* Without a torn call, what is stored are the bytes after the delivered ones.
StoredFollows ==
  ~torn => /\ Stored \in Seq(Int) /\ Len(Stored) \in Nat
           /\ Len(Stored) < Size
           /\ Len(Stored) = sent - taken /\ Len(Stored) = Used(Size, wr, rd)
           /\ \A k \in 1 .. Len(Stored) : Stored[k] = taken + k - 1

LEMMA StoredIs == IndInv => StoredFollows
<1> SUFFICES ASSUME TypeOK, NoLossNoOverwrite, ~torn PROVE StoredFollows
  BY DEF IndInv, StoredFollows
<1>1. wr \in Index /\ rd \in Index /\ taken \in Int /\ Size \in Nat
  BY SizeAssumption DEF TypeOK
<1>2. Used(Size, wr, rd) \in Nat /\ Used(Size, wr, rd) < Size
  BY <1>1, AheadInRange DEF Used
<1>3. Len(Stored) = Used(Size, wr, rd)
  BY <1>2 DEF Stored
<1>4. ASSUME NEW k \in 1 .. Used(Size, wr, rd) PROVE Stored[k] = taken + k - 1
  <2> DEFINE d == k - 1
             i == IF rd + d < Size THEN rd + d ELSE rd + d - Size
  <2>1. d \in 0 .. Size - 1 /\ d < Used(Size, wr, rd)
    BY <1>1, <1>2, <1>4
  <2>2. i \in Index /\ Ahead(Size, rd, i) = d
    BY <1>1, <2>1, IndexAhead
  <2>3. buf[i] = taken + d
    BY <2>1, <2>2 DEF NoLossNoOverwrite
  <2>4. Stored[k] = buf[i]
    BY <1>1, <1>2 DEF Stored, Index
  <2> QED BY <1>1, <2>3, <2>4
<1>5. Stored \in Seq(Int)
  <2>1. \A k \in 1 .. Used(Size, wr, rd) : Stored[k] \in Int
    BY <1>1, <1>2, <1>4
  <2>2. Stored \in [1 .. Used(Size, wr, rd) -> Int]
    BY <2>1 DEF Stored
  <2> QED BY <1>2, <2>2
<1>6. sent - taken = Used(Size, wr, rd)
  BY DEF NoLossNoOverwrite
<1> QED BY <1>2, <1>3, <1>4, <1>5, <1>6 DEF StoredFollows

\* What the firmware publishes fits, and goes behind what is stored.
LEMMA PublishAppends ==
  IndInv /\ IndInv' /\ ~torn /\ TargetPublish => Fifo!Publish \/ UNCHANGED <<Stored, out>>
<1> SUFFICES ASSUME IndInv, IndInv', ~torn, TargetPublish
             PROVE  Fifo!Publish \/ UNCHANGED <<Stored, out>>
  OBVIOUS
<1>1. /\ Len(Stored) \in Nat /\ Len(Stored) < Size /\ Stored \in Seq(Int)
      /\ \A k \in 1 .. Len(Stored) : Stored[k] = taken + k - 1
      /\ Len(Stored) = sent - taken
  BY StoredIs DEF StoredFollows
<1>2. StoredFollows /\ StoredFollows'
  BY StoredIs, PTL
<1>3. torn' = torn
  BY DEF TargetPublish
<1>4. /\ Len(Stored') \in Nat /\ Len(Stored') < Size /\ Stored' \in Seq(Int)
      /\ \A k \in 1 .. Len(Stored') : Stored'[k] = taken' + k - 1
      /\ Len(Stored') = sent' - taken'
  BY <1>2, <1>3 DEF StoredFollows
<1>5. /\ sent' = sent + put /\ taken' = taken /\ out' = out
      /\ sent \in Nat /\ taken \in Int /\ put \in Nat /\ Size \in Nat
  BY SizeAssumption DEF TargetPublish, IndInv, TypeOK, caller
<1>6. Len(Stored') = Len(Stored) + put
  BY <1>1, <1>4, <1>5
<1>7. CASE put = 0
  <2>1. Stored' = Stored
    BY <1>1, <1>4, <1>5, <1>6, <1>7, SeqEqual
  <2> QED BY <1>5, <2>1
<1>8. CASE put # 0
  <2> DEFINE front == SubSeq(Stored', 1, Len(Stored))
  <2>1. \A k \in 1 .. Len(Stored) : Stored'[k] \in Int
    BY <1>1, <1>4, <1>5, <1>6
  <2>2. /\ front \in Seq(Int)
        /\ Len(front) = IF 1 <= Len(Stored) THEN Len(Stored) - 1 + 1 ELSE 0
        /\ \A k \in 1 .. Len(Stored) - 1 + 1 : front[k] = Stored'[1 + k - 1]
    BY <1>1, <2>1, SubSeqProperties
  <2> HIDE DEF front
  <2>3. Len(front) = Len(Stored)
    BY <1>1, <2>2
  <2>4. ASSUME NEW k \in 1 .. Len(Stored) PROVE front[k] = Stored[k]
    <3>1. front[k] = Stored'[k]
      BY <1>1, <2>2
    <3> QED BY <1>1, <1>4, <1>5, <1>6, <3>1
  <2>5. front = Stored
    BY <1>1, <2>2, <2>3, <2>4, SeqEqual
  <2>6. put \in 1 .. (Size - 1) - Len(Stored)
    BY <1>1, <1>4, <1>5, <1>6, <1>8
  <2> USE DEF front
  <2> QED BY <1>5, <1>6, <2>5, <2>6 DEF Fifo!Publish
<1> QED BY <1>7, <1>8

\* A write-back takes the oldest stored bytes, those that were copied.
LEMMA GiveBackTakes ==
  ASSUME IndInv, IndInv', TakesSome, ~torn, GiveBack(hr)
  PROVE  /\ Len(got) \in 1 .. Len(Stored) /\ got = SubSeq(Stored, 1, Len(got))
         /\ Stored' = SubSeq(Stored, Len(got) + 1, Len(Stored))
<1> DEFINE n == Len(got)
           first == SubSeq(Stored, 1, n)
           others == SubSeq(Stored, n + 1, Len(Stored))
<1>1. /\ Len(Stored) \in Nat /\ Stored \in Seq(Int)
      /\ \A k \in 1 .. Len(Stored) : Stored[k] = taken + k - 1
      /\ Len(Stored) = sent - taken /\ Len(Stored) = Used(Size, wr, rd)
  BY StoredIs DEF StoredFollows
<1>2. StoredFollows /\ StoredFollows'
  BY StoredIs, PTL
<1>3. torn' = torn
  BY DEF GiveBack
<1>4. /\ Len(Stored') \in Nat /\ Stored' \in Seq(Int)
      /\ \A k \in 1 .. Len(Stored') : Stored'[k] = taken' + k - 1
      /\ Len(Stored') = sent' - taken'
  BY <1>2, <1>3 DEF StoredFollows
<1>5. /\ sent' = sent /\ taken' = taken + n /\ got # << >>
      /\ sent \in Nat /\ taken \in Int /\ got \in Seq(Int)
  BY DEF GiveBack, TakesSome, IndInv, TypeOK, target
<1>6. n \in 1 .. Len(Stored) /\ \A k \in 1 .. n : got[k] = taken + k - 1
  <2>1. n \in Nat /\ n # 0
    BY <1>5
  <2>2. /\ hcount = 0 /\ n + hcount <= Used(Size, hw, rd)
        /\ Used(Size, hw, rd) <= Used(Size, wr, rd)
    BY DEF GiveBack, IndInv, SnapshotStaysPublished
  <2>3. Used(Size, hw, rd) \in Nat /\ Used(Size, wr, rd) \in Nat
    <3>1. wr \in Index /\ rd \in Index /\ hw \in Index
      BY DEF IndInv, TypeOK
    <3> QED BY <3>1, RingBounds, SizeAssumption
  <2>4. n <= Len(Stored)
    BY <1>1, <2>1, <2>2, <2>3
  <2>5. \A k \in 1 .. n : got[k] = taken + k - 1
    BY DEF IndInv, CopiedInOrder
  <2> QED BY <1>1, <2>1, <2>4, <2>5
<1>7. /\ first \in Seq(Int) /\ Len(first) = n
      /\ \A k \in 1 .. n : first[k] = Stored[k]
  <2>1. ASSUME NEW k \in 1 .. n PROVE Stored[k] \in Int
    <3>1. k \in 1 .. Len(Stored)
      BY <1>1, <1>6
    <3>2. Stored[k] = taken + k - 1
      BY <1>1, <3>1
    <3> QED BY <1>5, <3>2
  <2>2. /\ first \in Seq(Int)
        /\ Len(first) = IF 1 <= n THEN n - 1 + 1 ELSE 0
        /\ \A k \in 1 .. n - 1 + 1 : first[k] = Stored[1 + k - 1]
    BY <1>6, <2>1, SubSeqProperties
  <2> HIDE DEF first
  <2> QED BY <1>6, <2>2
<1>8. /\ others \in Seq(Int) /\ Len(others) = Len(Stored) - n
      /\ \A k \in 1 .. Len(Stored) - n : others[k] = Stored[n + k]
  <2>1. \A k \in n + 1 .. Len(Stored) : Stored[k] \in Int
    BY <1>1, <1>5, <1>6
  <2>2. /\ others \in Seq(Int)
        /\ Len(others) = IF n + 1 <= Len(Stored) THEN Len(Stored) - (n + 1) + 1 ELSE 0
        /\ \A k \in 1 .. Len(Stored) - (n + 1) + 1 : others[k] = Stored[(n + 1) + k - 1]
    BY <1>1, <1>6, <2>1, SubSeqProperties
  <2> HIDE DEF others
  <2>3. Len(others) = Len(Stored) - n
    BY <1>1, <1>6, <2>2
  <2>4. ASSUME NEW k \in 1 .. Len(Stored) - n PROVE others[k] = Stored[n + k]
    <3>1. k \in 1 .. Len(Stored) - (n + 1) + 1 /\ (n + 1) + k - 1 = n + k
      BY <1>1, <1>6
    <3> QED BY <2>2, <3>1
  <2> QED BY <2>2, <2>3, <2>4
<1>9. got = first
  <2> HIDE DEF first
  <2>1. \A k \in 1 .. n : got[k] = first[k]
    BY <1>1, <1>6, <1>7
  <2> QED BY <1>5, <1>7, <2>1, SeqEqual
<1>10. Stored' = others
  <2> HIDE DEF others
  <2>1. n \in Nat /\ Len(Stored) - n \in Nat /\ Len(Stored') = Len(Stored) - n
    BY <1>1, <1>4, <1>5, <1>6
  <2>2. ASSUME NEW k \in 1 .. Len(Stored') PROVE Stored'[k] = others[k]
    <3>1. k \in 1 .. Len(Stored) - n /\ n + k \in 1 .. Len(Stored)
      BY <1>1, <2>1
    <3>2. others[k] = taken + (n + k) - 1
      BY <1>1, <1>8, <3>1
    <3>3. Stored'[k] = (taken + n) + k - 1
      BY <1>4, <1>5
    <3> HIDE DEF n
    <3> QED BY <1>5, <2>1, <3>1, <3>2, <3>3
  <2> QED BY <1>4, <1>8, <2>1, <2>2, SeqEqual
<1> QED BY <1>6, <1>9, <1>10

LEMMA WriteBackTakes ==
  IndInv /\ IndInv' /\ TakesSome /\ ~torn /\ WriteBack => Fifo!Take
BY GiveBackTakes DEF WriteBack, WriteBackOf, Fifo!Take

\* With the answer lost they leave the queue all the same.
LEMMA AnswerLostLoses ==
  IndInv /\ IndInv' /\ TakesSome /\ ~torn /\ AnswerLost => Fifo!Lose
BY GiveBackTakes DEF AnswerLost, Fifo!Lose

\* An up channel (channel.rs 185-250) is the bounded queue of bytes of ByteFifo:
\* the firmware publishes at one end, reads take at the other, bytes leave it unread
\* only with an access that fails, and no other step shows.  A reset clears it, and one in the middle of a call leaves no promise.
THEOREM UpIsFifo == Spec => FifoSpec
<1> DEFINE Kept == resets' = resets /\ ~torn
                     => \/ Fifo!Publish \/ Fifo!Take \/ UNCHANGED <<Stored, out>>
                        \/ faults' = faults + 1 /\ Fifo!Lose
<1>1. Init => Fifo!Init
  <2> SUFFICES ASSUME Init PROVE Stored = << >> /\ out = << >>
    BY DEF Fifo!Init
  <2>1. Used(Size, wr, rd) = 0
    BY DEF Init, Used, Ahead
  <2> QED BY <2>1 DEF Stored, Init
<1>2. IndInv /\ IndInv' /\ TakesSome /\ [Next]_vars => [Kept]_vars
  <2> SUFFICES ASSUME IndInv, IndInv', TakesSome, [Next]_vars, resets' = resets, ~torn
               PROVE  \/ Fifo!Publish \/ Fifo!Take \/ UNCHANGED <<Stored, out>>
                      \/ faults' = faults + 1 /\ Fifo!Lose
    OBVIOUS
  <2>1. CASE WriteBack
    BY <2>1, WriteBackTakes
  <2>2. CASE TargetPublish
    BY <2>2, PublishAppends
  <2>3. CASE TargetPut
    <3>1. UNCHANGED <<sent, taken, out, torn>>
      BY <2>3 DEF TargetPut, caller
    <3>2. StoredFollows /\ StoredFollows'
      BY StoredIs, PTL
    <3>3. /\ Stored \in Seq(Int) /\ Len(Stored) = sent - taken
          /\ \A k \in 1 .. Len(Stored) : Stored[k] = taken + k - 1
      BY StoredIs DEF StoredFollows
    <3>4. /\ Stored' \in Seq(Int) /\ Len(Stored') = sent' - taken'
          /\ \A k \in 1 .. Len(Stored') : Stored'[k] = taken' + k - 1
      BY <3>1, <3>2 DEF StoredFollows
    <3>5. Stored' = Stored
      BY <3>1, <3>3, <3>4, SeqEqual
    <3> QED BY <3>1, <3>5
  <2>4. CASE HostError /\ AnswerLost
    BY <2>4, AnswerLostLoses DEF HostError
  <2>5. CASE ~(WriteBack \/ TargetPublish \/ TargetPut \/ (HostError /\ AnswerLost))
    <3>1. ~TargetReset
      BY DEF TargetReset, IndInv, TypeOK
    <3>2. UNCHANGED <<buf, wr, rd, out>>
      BY <2>5, <3>1 DEF Next, Target, Host, TargetBegin, ReadPointers, NextChunk, ChunkOf,
         CopyByte, HostError, AccessFails, SetMode, memory, caller, vars
    <3> QED BY <3>2 DEF Stored
  <2> QED BY <2>1, <2>2, <2>3, <2>4, <2>5
<1> QED BY IndInvHolds, TakesSomeHolds, <1>1, <1>2, PTL DEF Spec, FifoSpec

-----------------------------------------------------------------------------
(* The down channel.                                                       *)

\* What lies in the ring, said through distances from the read offset.
RingHoldsUnread ==
  /\ (dsent + unsure) - dtaken = Used(Size, dwr, drd)
  /\ \A i \in Index :
       Ahead(Size, drd, i) < Used(Size, dwr, drd) => dbuf[i] = dtaken + Ahead(Size, drd, i)

\* The firmware copied out the oldest of them.
SeenAreOldest ==
  /\ Len(seen) <= Used(Size, dwr, drd)
  /\ \A k \in 1 .. Len(seen) : seen[k] = dtaken + k - 1

\* A call under way: the bytes behind the published ones are the next of the
\* input; and there is room for them and for the chunk also by the read offset
\* the call saw at its start, from which the firmware has only moved on.
CallKeepsRoom ==
  /\ dpc = "copy" => dcount > 0 /\ dw + dcount <= Size
  /\ dpc \in {"loop", "write_back"} => dcount = 0
  /\ dpc # "idle" =>
       /\ dcount <= dleft
       /\ Ahead(Size, dwr, dw) = dtotal
       /\ Ahead(Size, drd, dwr) <= Ahead(Size, dr, dwr)
       /\ Ahead(Size, dr, dwr) + dtotal + dcount <= Size - 1
       /\ \A i \in Index : Ahead(Size, dwr, i) < dtotal => dbuf[i] = dsent + Ahead(Size, dwr, i)

\* A call runs only as long as no write failed, and till then every byte published
\* is one the client dropped.
NothingUnsure ==
  /\ dpc # "idle" => running
  /\ running => unsure = 0

DownInv ==
  /\ DownTypeOK
  /\ NothingUnsure
  /\ RingHoldsUnread
  /\ SeenAreOldest
  /\ CallKeepsRoom

-----------------------------------------------------------------------------
(* The arithmetic of the ring.                                             *)

\* A distance in the ring is less than its size, and an offset is at distance 0
\* from itself.
LEMMA DownAheadInRange ==
  ASSUME NEW r \in Index, NEW i \in Index
  PROVE  Ahead(Size, r, i) \in 0 .. Size - 1 /\ Ahead(Size, r, r) = 0
BY SizeAssumption DEF Index, Ahead

\* The index at a given distance, as the firmware and DownStored compute it.
LEMMA DownIndexAhead ==
  ASSUME NEW r \in Index, NEW k \in 0 .. Size - 1
  PROVE  LET i == IF r + k < Size THEN r + k ELSE r + k - Size
         IN  i \in Index /\ Ahead(Size, r, i) = k
BY SizeAssumption DEF Index, Ahead

\* Distances that together do not go round the ring add up.
LEMMA AheadAdds ==
  ASSUME NEW r \in Index, NEW w \in Index, NEW i \in Index,
         Ahead(Size, r, w) + Ahead(Size, w, i) < Size
  PROVE  Ahead(Size, r, i) = Ahead(Size, r, w) + Ahead(Size, w, i)
BY SizeAssumption DEF Index, Ahead

\* What lies behind w, seen from r, is at the rest of its distance from w.
LEMMA AheadSplits ==
  ASSUME NEW r \in Index, NEW w \in Index, NEW i \in Index,
         Ahead(Size, r, w) <= Ahead(Size, r, i)
  PROVE  Ahead(Size, w, i) = Ahead(Size, r, i) - Ahead(Size, r, w)
BY SizeAssumption DEF Index, Ahead

\* writable_contiguous ends before the end of the buffer and leaves the byte in
\* front of the read offset free.
LEMMA RoomIsFree ==
  ASSUME NEW w \in Index, NEW r \in Index
  PROVE  /\ WritableContiguous(Size, w, r) \in Nat
         /\ w + WritableContiguous(Size, w, r) <= Size
         /\ Ahead(Size, r, w) + WritableContiguous(Size, w, r) <= Size - 1
BY SizeAssumption DEF Index, Ahead, WritableContiguous

\* Advancing an offset by one byte, round the end of the buffer, adds one.
LEMMA AheadNext ==
  ASSUME NEW w \in Index, NEW h \in Index, Ahead(Size, w, h) + 1 < Size
  PROVE  /\ Wrap(Size, h + 1) \in Index
         /\ Ahead(Size, w, Wrap(Size, h + 1)) = Ahead(Size, w, h) + 1
         /\ h + 1 < Size => Wrap(Size, h + 1) = h + 1
BY SizeAssumption DEF Index, Ahead, Wrap

\* What is less than a thing that fits, fits.
LEMMA LessFits ==
  ASSUME NEW a \in Nat, NEW b \in Nat, NEW c \in Nat, NEW d \in Nat, a + b <= d, c <= b
  PROVE  a + c <= d
OBVIOUS

\* Two indices equally far from the same offset are the same index.
LEMMA AheadDiffers ==
  ASSUME NEW w \in Index, NEW i \in Index, NEW j \in Index,
         Ahead(Size, w, i) = Ahead(Size, w, j)
  PROVE  i = j
BY SizeAssumption DEF Index, Ahead

-----------------------------------------------------------------------------
\* The inductive invariant holds at the start.
LEMMA DownInitInv == DownInit => DownInv
<1> SUFFICES ASSUME DownInit PROVE DownInv
  OBVIOUS
<1> USE SizeAssumption
<1>1. DownTypeOK
  BY DEF DownInit, DownTypeOK, Index
<1>2. RingHoldsUnread /\ SeenAreOldest
  BY DEF DownInit, RingHoldsUnread, SeenAreOldest, Used, Ahead, Index
<1>3. CallKeepsRoom /\ NothingUnsure
  BY DEF DownInit, CallKeepsRoom, NothingUnsure
<1> QED BY <1>1, <1>2, <1>3 DEF DownInv

\* Every step keeps the types.
LEMMA DownType == DownInv /\ [DownNext]_downVars => DownTypeOK'
<1> SUFFICES ASSUME DownInv, [DownNext]_downVars PROVE DownTypeOK'
  OBVIOUS
<1> USE SizeAssumption, FaultsAssumption, InputAssumption DEF downMemory, downTarget, downHost, client
<1>0. DownTypeOK /\ SeenAreOldest /\ CallKeepsRoom
  BY DEF DownInv
<1>r. Used(Size, dwr, drd) \in 0 .. Size - 1
  BY <1>0, DownAheadInRange DEF DownTypeOK, Used
<1>1. CASE TargetGet
  <2>1. Len(seen) \in 0 .. Size - 1
    BY <1>0, <1>1, <1>r DEF TargetGet, DownTypeOK
  <2> DEFINE i == IF drd + Len(seen) < Size THEN drd + Len(seen) ELSE drd + Len(seen) - Size
  <2>2. i \in Index
    BY <1>0, <2>1, DownIndexAhead DEF DownTypeOK
  <2>3. dbuf[i] \in Int
    BY <1>0, <2>2 DEF DownTypeOK
  <2>4. seen' \in Seq(Int)
    BY <1>0, <1>1, <2>3 DEF TargetGet, DownTypeOK
  <2> QED BY <1>0, <1>1, <2>4 DEF TargetGet, DownTypeOK
<1>2. CASE TargetRelease
  <2>1. Len(seen) \in 0 .. Size - 1
    BY <1>0, <1>r DEF SeenAreOldest, DownTypeOK
  <2>2. drd' \in Index
    BY <1>0, <1>2, <2>1, DownIndexAhead DEF TargetRelease, DownTypeOK
  <2>3. dtaken' \in Nat /\ dout' \in Seq(Int) /\ seen' \in Seq(Int)
    BY <1>0, <1>2, <2>1 DEF TargetRelease, DownTypeOK
  <2>4. UNCHANGED <<dbuf, dwr, dpc, dw, dr, dcount, dleft, dtotal, typed, dsent, unsure, running, dfaults>>
    BY <1>2 DEF TargetRelease
  <2> QED BY <1>0, <2>2, <2>3, <2>4 DEF DownTypeOK
<1>3. ASSUME NEW n \in TypeLens, Type(n) PROVE DownTypeOK'
  BY <1>0, <1>3 DEF Type, DownTypeOK
<1>4. CASE DownReadPointers
  BY <1>0, <1>4 DEF DownReadPointers, DropSent, DownTypeOK
<1>5. CASE DownNextChunk
  <2>1. WritableContiguous(Size, dw, dr) \in Nat
    BY <1>0, RoomIsFree DEF DownTypeOK
  <2>2. dcount' \in Nat
    BY <1>0, <1>5, <2>1 DEF DownNextChunk, DownChunkOf, MinOf, DownTypeOK
  <2> QED BY <1>0, <1>5, <2>2 DEF DownNextChunk, DownChunkOf, DownTypeOK
<1>6. CASE DownCopyByte
  <2>1. dcount > 0 /\ dw + dcount <= Size /\ dcount <= dleft
    BY <1>0, <1>6 DEF DownCopyByte, CallKeepsRoom
  <2>2. dw' \in Index /\ dcount' \in Nat /\ dleft' \in Nat /\ dtotal' \in Nat
    BY <1>0, <1>6, <2>1 DEF DownCopyByte, Wrap, Index, DownTypeOK
  <2>3. dbuf' \in [Index -> Int]
    BY <1>0, <1>6 DEF DownCopyByte, DownTypeOK
  <2> QED BY <1>0, <1>6, <2>2, <2>3 DEF DownCopyByte, DownTypeOK
<1>7. CASE DownWriteBack
  BY <1>0, <1>7 DEF DownWriteBack, DownWriteBackOf, DownPublish, DropSent, DownTypeOK
<1>8. CASE DownError
  <2>1. /\ dfaults' = dfaults + 1 /\ running' \in BOOLEAN /\ UNCHANGED dsent
        /\ DownAccessFails \/ DownAnswerLost
    BY <1>8 DEF DownError, DownErrorThen
  <2>2. CASE DownAccessFails
    <3>1. /\ dpc' = "idle" /\ dcount' = 0 /\ dtotal' = 0
          /\ UNCHANGED <<dbuf, dwr, drd, seen, dtaken, dout, dw, dr, dleft, typed, unsure>>
      BY <2>2 DEF DownAccessFails
    <3> QED BY <1>0, <2>1, <3>1 DEF DownTypeOK
  <2>3. CASE DownAnswerLost
    <3>1. /\ dpc' = "idle" /\ dwr' = dw /\ dtotal' = 0 /\ unsure' = unsure + dtotal
          /\ UNCHANGED <<dbuf, drd, seen, dtaken, dout, dw, dr, dcount, dleft, typed>>
      BY <2>3 DEF DownAnswerLost, DownPublish
    <3> QED BY <1>0, <2>1, <3>1 DEF DownTypeOK
  <2> QED BY <2>1, <2>2, <2>3
<1>9. CASE UNCHANGED downVars
  BY <1>0, <1>9 DEF downVars, DownTypeOK
<1> QED BY <1>1, <1>2, <1>3, <1>4, <1>5, <1>6, <1>7, <1>8, <1>9 DEF DownNext

\* The firmware's copies are the bytes it has still to release; releasing them
\* moves the ring on, and a write-back appends the bytes of its call.
LEMMA RingStep ==
  DownInv /\ [DownNext]_downVars => (RingHoldsUnread /\ SeenAreOldest)'
<1> SUFFICES ASSUME DownInv, [DownNext]_downVars PROVE (RingHoldsUnread /\ SeenAreOldest)'
  OBVIOUS
<1> USE SizeAssumption DEF downMemory, downTarget, downHost, client
<1>0. DownTypeOK /\ DownTypeOK' /\ RingHoldsUnread /\ SeenAreOldest /\ CallKeepsRoom
      /\ NothingUnsure
  BY DownType DEF DownInv
<1>t. /\ dwr \in Index /\ drd \in Index /\ dw \in Index /\ dr \in Index
      /\ dcount \in Nat /\ dleft \in Nat /\ dtotal \in Nat
      /\ dsent \in Nat /\ unsure \in Nat /\ dtaken \in Nat /\ Size \in Nat
  BY <1>0 DEF DownTypeOK
<1>d. \A i, j \in Index : Ahead(Size, i, j) \in Nat /\ Ahead(Size, i, j) < Size
  BY DownAheadInRange
<1>r. Used(Size, dwr, drd) \in 0 .. Size - 1 /\ Len(seen) \in Nat
  BY <1>0, <1>t, DownAheadInRange DEF DownTypeOK, Used
\* Steps that leave the ring and the firmware alone.
<1>u. ASSUME UNCHANGED <<dbuf, dwr, drd, seen, dtaken, dsent, unsure>>
      PROVE  (RingHoldsUnread /\ SeenAreOldest)'
  BY <1>0, <1>u DEF RingHoldsUnread, SeenAreOldest
<1>1. CASE TargetGet
  <2>1. Len(seen) \in 0 .. Size - 1 /\ Len(seen) < Used(Size, dwr, drd)
    BY <1>1, <1>r DEF TargetGet
  <2> DEFINE i == IF drd + Len(seen) < Size THEN drd + Len(seen) ELSE drd + Len(seen) - Size
  <2>2. i \in Index /\ Ahead(Size, drd, i) = Len(seen)
    BY <1>0, <2>1, DownIndexAhead DEF DownTypeOK
  <2>3. dbuf[i] = dtaken + Len(seen)
    BY <1>0, <2>1, <2>2 DEF RingHoldsUnread
  <2>4. seen' = Append(seen, dtaken + Len(seen)) /\ UNCHANGED <<dbuf, dwr, drd, dtaken, dsent, unsure>>
    BY <1>1, <2>3 DEF TargetGet
  <2>5. Len(seen') = Len(seen) + 1
    BY <1>0, <2>4 DEF DownTypeOK
  <2>6. \A k \in 1 .. Len(seen') : seen'[k] = dtaken + k - 1
    <3>1. \A k \in 1 .. Len(seen) : seen'[k] = seen[k]
      BY <1>0, <2>4 DEF DownTypeOK
    <3>2. seen'[Len(seen) + 1] = dtaken + Len(seen)
      BY <1>0, <2>4 DEF DownTypeOK
    <3>3. \A k \in 1 .. Len(seen) : seen[k] = dtaken + k - 1
      BY <1>0 DEF SeenAreOldest
    <3> QED BY <1>r, <1>t, <2>5, <3>1, <3>2, <3>3
  <2>7. RingHoldsUnread'
    BY <1>0, <2>4 DEF RingHoldsUnread
  <2>8. SeenAreOldest'
    BY <1>r, <2>1, <2>4, <2>5, <2>6 DEF SeenAreOldest
  <2> QED BY <2>7, <2>8
<1>2. CASE TargetRelease
  <2> DEFINE n == Len(seen)
  <2>1. n \in 0 .. Size - 1 /\ n <= Used(Size, dwr, drd)
    BY <1>0, <1>r DEF SeenAreOldest
  <2>2. drd' \in Index /\ Ahead(Size, drd, drd') = n
    BY <1>0, <1>2, <2>1, DownIndexAhead DEF DownTypeOK, TargetRelease
  <2>3. dtaken' = dtaken + n /\ seen' = << >> /\ UNCHANGED <<dbuf, dwr, dsent, unsure>>
    BY <1>2 DEF TargetRelease
  <2>4. Used(Size, dwr, drd') = Used(Size, dwr, drd) - n
    BY <1>t, <1>d, <2>1, <2>2, AheadSplits DEF Used
  <2>5. ASSUME NEW i \in Index, Ahead(Size, drd', i) < Used(Size, dwr, drd')
        PROVE  dbuf[i] = dtaken' + Ahead(Size, drd', i)
    <3>1. Ahead(Size, drd', i) \in Nat
      BY <2>2, <2>5, DownAheadInRange
    <3>2. Ahead(Size, drd, i) = n + Ahead(Size, drd', i)
      <4>1. Ahead(Size, drd, drd') + Ahead(Size, drd', i) < Size
        BY <1>r, <1>t, <2>1, <2>2, <2>4, <2>5, <3>1
      <4> QED BY <1>t, <2>2, <4>1, AheadAdds
    <3>3. dbuf[i] = dtaken + Ahead(Size, drd, i)
      BY <1>0, <1>r, <2>1, <2>4, <2>5, <3>1, <3>2 DEF RingHoldsUnread
    <3> QED BY <1>0, <2>1, <2>3, <3>1, <3>2, <3>3, SMTT(20) DEF DownTypeOK
  <2>6. (dsent' + unsure') - dtaken' = Used(Size, dwr', drd')
    BY <1>0, <1>r, <2>1, <2>3, <2>4 DEF RingHoldsUnread, DownTypeOK
  <2>7. RingHoldsUnread'
    BY <2>3, <2>5, <2>6 DEF RingHoldsUnread
  <2>8. SeenAreOldest'
    BY <1>r, <2>1, <2>3, <2>4 DEF SeenAreOldest
  <2> QED BY <2>7, <2>8
<1>3. ASSUME NEW n \in TypeLens, Type(n) PROVE (RingHoldsUnread /\ SeenAreOldest)'
  BY <1>3, <1>u DEF Type
<1>4. CASE DownReadPointers
  <2>1. dsent' = dsent
    BY <1>0, <1>4 DEF DownReadPointers, DropSent, DownTypeOK
  <2> QED BY <1>4, <1>u, <2>1 DEF DownReadPointers
<1>5. CASE DownNextChunk
  BY <1>5, <1>u DEF DownNextChunk, DownChunkOf
<1>6. CASE DownCopyByte
  <2>1. /\ dcount \in Nat /\ dcount > 0 /\ dtotal \in Nat /\ Ahead(Size, dwr, dw) = dtotal
        /\ Ahead(Size, drd, dwr) <= Ahead(Size, dr, dwr)
        /\ Ahead(Size, dr, dwr) + dtotal + dcount <= Size - 1
    BY <1>0, <1>6 DEF DownCopyByte, CallKeepsRoom, DownTypeOK
  <2>2. Ahead(Size, drd, dwr) \in Nat /\ Ahead(Size, dr, dwr) \in Nat
    BY <1>0, DownAheadInRange DEF DownTypeOK
  <2>3. Ahead(Size, drd, dw) = Ahead(Size, drd, dwr) + dtotal
    BY <1>t, <1>d, <2>1, <2>2, AheadAdds
  <2>4. UNCHANGED <<dwr, drd, seen, dtaken, dsent, unsure>>
    BY <1>6 DEF DownCopyByte
  <2>5. ASSUME NEW i \in Index, Ahead(Size, drd, i) < Used(Size, dwr, drd)
        PROVE  dbuf'[i] = dtaken + Ahead(Size, drd, i)
    <3>1. i # dw
      BY <2>1, <2>2, <2>3, <2>5 DEF Used
    <3>2. dbuf'[i] = dbuf[i]
      BY <1>0, <1>6, <3>1 DEF DownCopyByte, DownTypeOK
    <3> QED BY <1>0, <2>5, <3>2 DEF RingHoldsUnread
  <2>6. RingHoldsUnread'
    BY <1>0, <2>4, <2>5 DEF RingHoldsUnread
  <2>7. SeenAreOldest'
    BY <1>0, <2>4 DEF SeenAreOldest
  <2> QED BY <2>6, <2>7
<1>7. ASSUME DownPublish(dw), dsent' + unsure' = dsent + unsure + dtotal
      PROVE  (RingHoldsUnread /\ SeenAreOldest)'
  <2>1. /\ dcount = 0 /\ dtotal \in Nat /\ Ahead(Size, dwr, dw) = dtotal
        /\ Ahead(Size, drd, dwr) <= Ahead(Size, dr, dwr)
        /\ Ahead(Size, dr, dwr) + dtotal <= Size - 1
        /\ \A i \in Index : Ahead(Size, dwr, i) < dtotal => dbuf[i] = dsent + Ahead(Size, dwr, i)
    <3>1. dpc = "write_back"
      BY <1>7 DEF DownPublish
    <3>2. dcount = 0 /\ Ahead(Size, dr, dwr) + dtotal + dcount <= Size - 1
      BY <1>0, <3>1 DEF CallKeepsRoom
    <3>3. /\ Ahead(Size, dwr, dw) = dtotal /\ Ahead(Size, drd, dwr) <= Ahead(Size, dr, dwr)
          /\ \A i \in Index : Ahead(Size, dwr, i) < dtotal => dbuf[i] = dsent + Ahead(Size, dwr, i)
      BY <1>0, <3>1 DEF CallKeepsRoom
    <3>4. Ahead(Size, dr, dwr) \in Nat
      BY <1>t, <1>d
    <3> QED BY <1>t, <3>2, <3>3, <3>4
  <2>2. Ahead(Size, drd, dwr) \in Nat /\ Ahead(Size, dr, dwr) \in Nat
    BY <1>0, DownAheadInRange DEF DownTypeOK
  <2>3. Ahead(Size, drd, dw) = Ahead(Size, drd, dwr) + dtotal
    BY <1>t, <1>d, <2>1, <2>2, AheadAdds
  <2>4. /\ dwr' = dw /\ dsent' + unsure' = dsent + unsure + dtotal /\ unsure = 0
        /\ UNCHANGED <<dbuf, drd, seen, dtaken>>
    BY <1>0, <1>7 DEF DownPublish, NothingUnsure
  <2>5. ASSUME NEW i \in Index, Ahead(Size, drd, i) < Ahead(Size, drd, dw)
        PROVE  dbuf[i] = dtaken + Ahead(Size, drd, i)
    <3>1. CASE Ahead(Size, drd, i) < Ahead(Size, drd, dwr)
      BY <1>0, <3>1 DEF RingHoldsUnread, Used
    <3>2. CASE ~(Ahead(Size, drd, i) < Ahead(Size, drd, dwr))
      <4>1. Ahead(Size, drd, i) \in Nat
        BY <1>0, DownAheadInRange DEF DownTypeOK
      <4>2. Ahead(Size, dwr, i) = Ahead(Size, drd, i) - Ahead(Size, drd, dwr)
        BY <1>t, <2>2, <3>2, <4>1, AheadSplits
      <4>3. dbuf[i] = dsent + Ahead(Size, dwr, i)
        BY <1>t, <2>1, <2>2, <2>3, <2>5, <4>1, <4>2
      <4>4. dsent - dtaken = Ahead(Size, drd, dwr)
        BY <1>0, <1>t, <2>4 DEF RingHoldsUnread, Used
      <4> QED BY <1>t, <2>2, <4>1, <4>2, <4>3, <4>4
    <3> QED BY <3>1, <3>2
  <2>6. (dsent' + unsure') - dtaken' = Used(Size, dwr', drd')
    <3>1. (dsent + unsure) - dtaken = Ahead(Size, drd, dwr)
      BY <1>0 DEF RingHoldsUnread, Used
    <3>2. Used(Size, dwr', drd') = Ahead(Size, drd, dwr) + dtotal /\ dtaken' = dtaken
      BY <2>3, <2>4 DEF Used
    <3> HIDE <1>d
    <3>3. (dsent' + unsure') - dtaken' = (dsent + unsure + dtotal) - dtaken
      <4>1. dsent' \in Nat /\ unsure' \in Nat
        BY <1>0 DEF DownTypeOK
      <4> DEFINE before == dsent + unsure
                 after == dsent' + unsure'
      <4>2. before \in Int /\ after \in Int
        BY <1>t, <4>1
      <4>3. after = before + dtotal
        BY <2>4
      <4> HIDE DEF before, after
      <4>4. after - dtaken = (before + dtotal) - dtaken
        BY <1>t, <4>2, <4>3
      <4> QED BY <3>2, <4>4 DEF before, after
    <3> QED BY <1>t, <2>1, <2>2, <3>1, <3>2, <3>3
  <2>7. RingHoldsUnread'
    BY <2>4, <2>5, <2>6 DEF RingHoldsUnread, Used
  <2>8. SeenAreOldest'
    BY <1>0, <1>r, <2>1, <2>2, <2>3, <2>4 DEF SeenAreOldest, Used
  <2> QED BY <2>7, <2>8
<1>w. CASE DownWriteBack
  <2>1. DownPublish(dw) /\ dsent' + unsure' = dsent + unsure + dtotal
    BY <1>t, <1>w DEF DownWriteBack, DownWriteBackOf, DropSent
  <2> QED BY <1>7, <2>1
<1>8. CASE DownError
  <2>1. CASE DownAccessFails
    BY <1>8, <1>u, <2>1 DEF DownError, DownErrorThen, DownAccessFails
  <2>2. CASE DownAnswerLost
    <3>1. DownPublish(dw) /\ dsent' + unsure' = dsent + unsure + dtotal
      BY <1>t, <1>8, <2>2 DEF DownError, DownErrorThen, DownAnswerLost
    <3> QED BY <1>7, <3>1
  <2> QED BY <1>8, <2>1, <2>2 DEF DownError, DownErrorThen
<1>9. CASE UNCHANGED downVars
  BY <1>9, <1>u DEF downVars
<1> QED BY <1>1, <1>2, <1>3, <1>4, <1>5, <1>6, <1>w, <1>8, <1>9 DEF DownNext

\* A failed write ends the client.
LEMMA UnsureStep == DownInv /\ [DownNext]_downVars => NothingUnsure'
<1> SUFFICES ASSUME DownInv, [DownNext]_downVars PROVE NothingUnsure'
  OBVIOUS
<1> USE DEF NothingUnsure, downMemory, downTarget, downHost, client
<1>0. NothingUnsure
  BY DEF DownInv
<1>1. CASE TargetGet \/ TargetRelease
  BY <1>0, <1>1 DEF TargetGet, TargetRelease
<1>2. ASSUME NEW n \in TypeLens, Type(n) PROVE NothingUnsure'
  BY <1>0, <1>2 DEF Type
<1>3. CASE DownReadPointers
  BY <1>0, <1>3 DEF DownReadPointers
<1>4. CASE DownNextChunk \/ DownCopyByte
  BY <1>0, <1>4 DEF DownNextChunk, DownChunkOf, DownCopyByte
<1>5. CASE DownWriteBack
  BY <1>0, <1>5 DEF DownWriteBack, DownWriteBackOf, DownPublish
<1>6. CASE DownError
  BY <1>6 DEF DownError, DownErrorThen, DownAccessFails, DownAnswerLost, DownPublish
<1>7. CASE UNCHANGED downVars
  BY <1>0, <1>7 DEF downVars
<1> QED BY <1>1, <1>2, <1>3, <1>4, <1>5, <1>6, <1>7 DEF DownNext

\* The call stays inside the room it saw: the firmware only makes more of it.
LEMMA CallStep == DownInv /\ [DownNext]_downVars => CallKeepsRoom'
<1> SUFFICES ASSUME DownInv, [DownNext]_downVars PROVE CallKeepsRoom'
  OBVIOUS
<1> USE SizeAssumption DEF downMemory, downTarget, downHost, client
<1>0. DownTypeOK /\ DownTypeOK' /\ RingHoldsUnread /\ SeenAreOldest /\ CallKeepsRoom
  BY DownType DEF DownInv
<1>t. /\ dwr \in Index /\ drd \in Index /\ dw \in Index /\ dr \in Index
      /\ dcount \in Nat /\ dleft \in Nat /\ dtotal \in Nat
      /\ dsent \in Nat /\ dtaken \in Nat /\ Size \in Nat
  BY <1>0 DEF DownTypeOK
<1>d. \A i, j \in Index : Ahead(Size, i, j) \in Nat /\ Ahead(Size, i, j) < Size
  BY DownAheadInRange
<1>a. /\ Ahead(Size, drd, dwr) \in Nat /\ Ahead(Size, drd, dwr) < Size
      /\ Ahead(Size, dr, dwr) \in Nat /\ Ahead(Size, dr, dwr) < Size
  BY <1>t, <1>d
<1>1. CASE TargetGet
  BY <1>0, <1>1 DEF TargetGet, CallKeepsRoom
<1>2. CASE TargetRelease
  <2>1. Len(seen) \in 0 .. Size - 1 /\ Len(seen) <= Ahead(Size, drd, dwr)
    <3>1. Len(seen) \in Nat
      BY <1>0 DEF DownTypeOK
    <3> QED BY <1>0, <1>a, <1>t, <3>1 DEF SeenAreOldest, Used
  <2>2. drd' \in Index /\ Ahead(Size, drd, drd') = Len(seen)
    BY <1>0, <1>2, <2>1, DownIndexAhead DEF DownTypeOK, TargetRelease
  <2>3. Ahead(Size, drd', dwr) <= Ahead(Size, drd, dwr)
    <3>1. Ahead(Size, drd', dwr) = Ahead(Size, drd, dwr) - Len(seen)
      BY <1>t, <2>1, <2>2, AheadSplits
    <3> QED BY <1>a, <2>1, <3>1
  <2>4. Ahead(Size, drd', dwr) \in Nat
    BY <1>0, <2>2, DownAheadInRange DEF DownTypeOK
  <2>5. UNCHANGED <<dbuf, dwr, dpc, dw, dr, dcount, dleft, dtotal, dsent>>
    BY <1>2 DEF TargetRelease
  <2>6. Ahead(Size, drd, dwr) <= Ahead(Size, dr, dwr) => Ahead(Size, drd', dwr) <= Ahead(Size, dr, dwr)
    BY <1>a, <2>3, <2>4
  <2>7. Ahead(Size, drd', dwr') <= Ahead(Size, dr', dwr') <=> Ahead(Size, drd', dwr) <= Ahead(Size, dr, dwr)
    BY <2>5
  <2> QED BY <1>0, <2>5, <2>6, <2>7 DEF CallKeepsRoom
<1>3. ASSUME NEW n \in TypeLens, Type(n) PROVE CallKeepsRoom'
  BY <1>0, <1>3 DEF Type, CallKeepsRoom
<1>4. CASE DownReadPointers
  <2>1. /\ dw' = dwr /\ dr' = drd /\ dtotal' = 0 /\ dcount' = 0 /\ UNCHANGED <<dbuf, dwr, drd>>
        /\ dpc' \in {"idle", "loop"}
    BY <1>4 DEF DownReadPointers
  <2>2. Ahead(Size, dwr, dwr) = 0
    BY <1>0, DownAheadInRange DEF DownTypeOK
  <2>3. dleft' \in Nat
    BY <1>0 DEF DownTypeOK
  <2>4. ASSUME NEW i \in Index PROVE ~(Ahead(Size, dwr, i) < 0)
    BY <1>t, <1>d
  <2> QED BY <1>a, <2>1, <2>2, <2>3, <2>4 DEF CallKeepsRoom
<1>5. CASE DownNextChunk
  <2> DEFINE room == WritableContiguous(Size, dw, dr)
  <2>1. /\ dcount = 0 /\ dtotal \in Nat /\ Ahead(Size, dwr, dw) = dtotal
        /\ Ahead(Size, dr, dwr) + dtotal <= Size - 1
    <3>1. dpc = "loop"
      BY <1>5 DEF DownNextChunk, DownChunkOf
    <3>2. dcount = 0 /\ Ahead(Size, dr, dwr) + dtotal + dcount <= Size - 1
      BY <1>0, <3>1 DEF CallKeepsRoom
    <3>3. Ahead(Size, dwr, dw) = dtotal
      BY <1>0, <3>1 DEF CallKeepsRoom
    <3> QED BY <1>t, <1>a, <3>2, <3>3
  <2>2. Ahead(Size, dr, dw) = Ahead(Size, dr, dwr) + dtotal
    BY <1>t, <1>a, <2>1, AheadAdds
  <2>3. room \in Nat /\ dw + room <= Size /\ Ahead(Size, dr, dw) + room <= Size - 1
    BY <1>0, RoomIsFree DEF DownTypeOK
  <2>4. dcount' \in Nat /\ dcount' <= room /\ dcount' <= dleft
    <3> HIDE DEF room
    <3>1. dcount' = MinOf(room, dleft)
      BY <1>5 DEF DownNextChunk, DownChunkOf, room
    <3> QED BY <1>0, <2>3, <3>1 DEF MinOf, DownTypeOK
  <2>5. /\ dpc' = IF dcount' > 0 THEN "copy" ELSE "write_back"
        /\ UNCHANGED <<dbuf, dwr, drd, dw, dr, dleft, dtotal, dsent>>
    BY <1>5 DEF DownNextChunk, DownChunkOf
  <2>6. /\ dpc' = "copy" => dcount' > 0 /\ dw' + dcount' <= Size
        /\ dpc' \in {"loop", "write_back"} => dcount' = 0
    <3>1. dw \in Nat
      BY <1>t DEF Index
    <3>2. dw + dcount' <= Size
      <4>1. room \in Nat /\ dw + room <= Size /\ dcount' \in Nat /\ dcount' <= room
        BY <2>3, <2>4
      <4>2. Size \in Nat
        BY <1>t
      <4> HIDE DEF room
      <4> QED BY <3>1, <4>1, <4>2, LessFits
    <3>3. dpc' = "copy" => dcount' > 0
      BY <2>5
    <3>4. dpc' \in {"loop", "write_back"} => dcount' = 0
      BY <2>4, <2>5
    <3> QED BY <2>5, <3>2, <3>3, <3>4
  <2>7. Ahead(Size, dr', dwr') + dtotal' + dcount' <= Size - 1
    <3> HIDE DEF room
    <3> QED BY <1>a, <2>1, <2>2, <2>3, <2>4, <2>5
  <2>8. /\ Ahead(Size, dwr', dw') = dtotal'
        /\ Ahead(Size, drd', dwr') <= Ahead(Size, dr', dwr')
        /\ \A i \in Index :
             Ahead(Size, dwr', i) < dtotal' => dbuf'[i] = dsent' + Ahead(Size, dwr', i)
    BY <1>0, <1>5, <2>5 DEF DownNextChunk, DownChunkOf, CallKeepsRoom
  <2> QED BY <2>4, <2>5, <2>6, <2>7, <2>8 DEF CallKeepsRoom
<1>6. CASE DownCopyByte
  <2>1. /\ dcount \in Nat /\ dcount > 0 /\ dtotal \in Nat /\ dw + dcount <= Size
        /\ dleft \in Nat /\ dcount <= dleft /\ Ahead(Size, dwr, dw) = dtotal
        /\ Ahead(Size, drd, dwr) <= Ahead(Size, dr, dwr)
        /\ Ahead(Size, dr, dwr) + dtotal + dcount <= Size - 1
    BY <1>0, <1>6 DEF DownCopyByte, CallKeepsRoom, DownTypeOK
  <2>2. /\ dtotal' = dtotal + 1 /\ dcount' = dcount - 1 /\ dleft' = dleft - 1
        /\ dpc' = IF dcount = 1 THEN "loop" ELSE "copy"
        /\ UNCHANGED <<dwr, drd, dr, dsent>>
    BY <1>6 DEF DownCopyByte
  <2>3. dw' = Wrap(Size, dw + 1)
    <3>1. dw + 1 < Size => Wrap(Size, dw + 1) = dw + 1
      BY <1>0 DEF Wrap, DownTypeOK, Index
    <3> QED BY <1>0, <1>6, <2>1, <3>1 DEF DownCopyByte, DownTypeOK, Index
  <2>4. Ahead(Size, dwr, dw') = dtotal + 1
    <3>1. Ahead(Size, dwr, dw) + 1 < Size
      BY <1>t, <1>a, <2>1
    <3> QED BY <1>t, <2>1, <2>3, <3>1, AheadNext
  <2>5. dpc' = "copy" => dcount' > 0 /\ dw' + dcount' <= Size
    BY <1>0, <2>1, <2>2, <2>3, SMTT(20) DEF Wrap, DownTypeOK, Index
  <2>6. dpc' \in {"loop", "write_back"} => dcount' = 0
    BY <2>1, <2>2
  <2>7. ASSUME NEW i \in Index, Ahead(Size, dwr, i) < dtotal + 1
        PROVE  dbuf'[i] = dsent + Ahead(Size, dwr, i)
    <3>1. CASE i = dw
      BY <1>0, <1>6, <2>1, <3>1 DEF DownCopyByte, DownTypeOK
    <3>2. CASE i # dw
      <4>1. Ahead(Size, dwr, i) # dtotal
        BY <1>0, <2>1, <3>2, AheadDiffers DEF DownTypeOK
      <4>2. Ahead(Size, dwr, i) < dtotal
        BY <1>t, <1>d, <2>1, <2>7, <4>1
      <4>3. dbuf'[i] = dbuf[i]
        BY <1>0, <1>6, <3>2 DEF DownCopyByte, DownTypeOK
      <4>4. dbuf[i] = dsent + Ahead(Size, dwr, i)
        BY <1>0, <1>6, <4>2 DEF DownCopyByte, CallKeepsRoom
      <4> QED BY <4>3, <4>4
    <3> QED BY <3>1, <3>2
  <2>8. dcount' <= dleft' /\ Ahead(Size, dr', dwr') + dtotal' + dcount' <= Size - 1
    BY <1>a, <2>1, <2>2
  <2> QED BY <2>1, <2>2, <2>4, <2>5, <2>6, <2>7, <2>8 DEF CallKeepsRoom
<1>7. CASE DownWriteBack
  BY <1>7 DEF DownWriteBack, DownWriteBackOf, DownPublish, CallKeepsRoom
<1>8. CASE DownError
  BY <1>8 DEF DownError, DownErrorThen, DownAccessFails, DownAnswerLost, DownPublish, CallKeepsRoom
<1>9. CASE UNCHANGED downVars
  BY <1>0, <1>9 DEF downVars, CallKeepsRoom
<1> QED BY <1>1, <1>2, <1>3, <1>4, <1>5, <1>6, <1>7, <1>8, <1>9 DEF DownNext

-----------------------------------------------------------------------------
\* The inductive invariant holds in every reachable state.
THEOREM DownIndInv == DownSpec => []DownInv
<1>1. DownInv /\ [DownNext]_downVars => DownInv'
  BY DownType, RingStep, UnsureStep, CallStep DEF DownInv
<1> QED BY DownInitInv, <1>1, PTL DEF DownSpec

\* What is stored are the bytes after the taken ones.
DownStoredFollows ==
  /\ DownStored \in Seq(Int) /\ Len(DownStored) \in Nat
  /\ Len(DownStored) = Used(Size, dwr, drd) /\ Len(DownStored) < Size
  /\ Len(DownStored) = (dsent + unsure) - dtaken
  /\ \A k \in 1 .. Len(DownStored) : DownStored[k] = dtaken + k - 1

LEMMA DownStoredIs == DownInv => DownStoredFollows
<1> SUFFICES ASSUME DownTypeOK, RingHoldsUnread PROVE DownStoredFollows
  BY DEF DownInv
<1>1. dwr \in Index /\ drd \in Index /\ dtaken \in Nat /\ Size \in Nat
  BY SizeAssumption DEF DownTypeOK
<1>2. Used(Size, dwr, drd) \in Nat /\ Used(Size, dwr, drd) < Size
  BY <1>1, DownAheadInRange DEF Used
<1>3. Len(DownStored) = Used(Size, dwr, drd)
  BY <1>2 DEF DownStored
<1>4. ASSUME NEW k \in 1 .. Used(Size, dwr, drd) PROVE DownStored[k] = dtaken + k - 1
  <2> DEFINE d == k - 1
             i == IF drd + d < Size THEN drd + d ELSE drd + d - Size
  <2>1. d \in 0 .. Size - 1 /\ d < Used(Size, dwr, drd)
    BY <1>1, <1>2, <1>4
  <2>2. i \in Index /\ Ahead(Size, drd, i) = d
    BY <1>1, <2>1, DownIndexAhead
  <2>3. dbuf[i] = dtaken + d
    BY <2>1, <2>2 DEF RingHoldsUnread
  <2>4. DownStored[k] = dbuf[i]
    BY <1>1, <1>2 DEF DownStored, Index
  <2> QED BY <1>1, <2>3, <2>4
<1>5. DownStored \in Seq(Int)
  <2>1. \A k \in 1 .. Used(Size, dwr, drd) : DownStored[k] \in Int
    BY <1>1, <1>2, <1>4
  <2>2. DownStored \in [1 .. Used(Size, dwr, drd) -> Int]
    BY <2>1 DEF DownStored
  <2> QED BY <1>2, <2>2
<1> QED BY <1>2, <1>3, <1>4, <1>5 DEF RingHoldsUnread, DownStoredFollows

\* DownChannel::write (channel.rs 279-334) under rtthost's loop gives the firmware
\* the typed bytes once and in order, up to the first write that fails.  That write
\* may have published its bytes and still return the error (channel.rs:333), so that
\* the client still has them in its buffer; but then it has ended and publishes
\* nothing twice.
THEOREM InputHasNoGap == DownSpec => []NoGap
<1>1. DownInv => NoGap
  BY DownStoredIs DEF DownInv, DownStoredFollows, NoGap, NothingUnsure, SeenAreOldest
<1> QED BY DownIndInv, <1>1, PTL

\* No step of the host or the firmware changes a published byte that has still to
\* be released: write trusts the read offset it saw (channel.rs 290-294).
THEOREM InputIsNotOverwritten == DownSpec => UnreadBytesUntouched
<1> DEFINE Kept ==
      \A k \in 1 .. Len(DownStored) :
        LET i == IF drd + k - 1 < Size THEN drd + k - 1 ELSE drd + k - 1 - Size
        IN  dbuf'[i] = dbuf[i]
<1>1. DownInv /\ [DownNext]_downVars => [Kept]_downVars
  <2> SUFFICES ASSUME DownInv, [DownNext]_downVars PROVE Kept
    OBVIOUS
  <2>1. DownTypeOK /\ CallKeepsRoom
    BY DEF DownInv
  <2>2. dwr \in Index /\ drd \in Index /\ dw \in Index /\ dr \in Index /\ Size \in Nat
    BY <2>1, SizeAssumption DEF DownTypeOK
  <2>3. Used(Size, dwr, drd) \in Nat /\ Used(Size, dwr, drd) < Size
    BY <2>2, DownAheadInRange DEF Used
  <2>4. Len(DownStored) = Used(Size, dwr, drd)
    BY DownStoredIs DEF DownStoredFollows
  <2>5. CASE DownCopyByte
    <3>1. dpc = "copy" /\ dbuf' = [dbuf EXCEPT ![dw] = dsent + dtotal]
      BY <2>5 DEF DownCopyByte
    <3>2. /\ dcount > 0 /\ Ahead(Size, dwr, dw) = dtotal
          /\ Ahead(Size, drd, dwr) <= Ahead(Size, dr, dwr)
          /\ Ahead(Size, dr, dwr) + dtotal + dcount <= Size - 1
      BY <2>1, <3>1 DEF CallKeepsRoom
    <3>3. /\ Ahead(Size, drd, dwr) \in Nat /\ Ahead(Size, dr, dwr) \in Nat
          /\ dtotal \in Nat /\ dcount \in Nat
      BY <2>1, <2>2, DownAheadInRange DEF DownTypeOK
    <3>4. Ahead(Size, drd, dw) = Ahead(Size, drd, dwr) + dtotal
      <4>1. Ahead(Size, drd, dwr) + Ahead(Size, dwr, dw) < Size
        BY <2>2, <3>2, <3>3
      <4> QED BY <2>2, <3>2, <4>1, AheadAdds
    <3>5. ASSUME NEW k \in 1 .. Used(Size, dwr, drd)
          PROVE  LET i == IF drd + k - 1 < Size THEN drd + k - 1 ELSE drd + k - 1 - Size
                 IN  dbuf'[i] = dbuf[i]
      <4> DEFINE d == k - 1
                 j == IF drd + d < Size THEN drd + d ELSE drd + d - Size
      <4>1. d \in 0 .. Size - 1 /\ d < Ahead(Size, drd, dwr)
        BY <2>2, <2>3, <3>5 DEF Used
      <4>2. j \in Index /\ Ahead(Size, drd, j) = d
        BY <2>2, <4>1, DownIndexAhead
      <4>3. j # dw
        BY <3>3, <3>4, <4>1, <4>2
      <4>4. dbuf'[j] = dbuf[j]
        BY <2>1, <3>1, <4>2, <4>3 DEF DownTypeOK
      <4>5. j = IF drd + k - 1 < Size THEN drd + k - 1 ELSE drd + k - 1 - Size
        BY <2>2 DEF Index
      <4> QED BY <4>4, <4>5
    <3> QED BY <2>4, <3>5
  <2>6. CASE ~DownCopyByte
    <3>1. UNCHANGED dbuf
      BY <2>6 DEF DownNext, TargetGet, TargetRelease, Type, DownReadPointers, DownNextChunk, DownChunkOf,
         DownWriteBack, DownWriteBackOf, DownPublish, DownError, DownErrorThen, DownAccessFails,
         DownAnswerLost, downMemory, downVars
    <3> QED BY <3>1
  <2> QED BY <2>5, <2>6
<1> QED BY DownIndInv, <1>1, PTL DEF DownSpec, UnreadBytesUntouched

\* The write-back of a call publishes at most what fits, behind what is stored.
LEMMA WriteBackPublishes ==
  DownInv /\ DownInv' /\ DownPublish(dw) /\ dsent' + unsure' = dsent + unsure + dtotal
    => InputFifo!Publish \/ UNCHANGED <<DownStored, dout>>
<1> SUFFICES ASSUME DownInv, DownInv', DownPublish(dw), dsent' + unsure' = dsent + unsure + dtotal
             PROVE  InputFifo!Publish \/ UNCHANGED <<DownStored, dout>>
  OBVIOUS
<1>1. /\ Len(DownStored) \in Nat /\ Len(DownStored) < Size /\ DownStored \in Seq(Int)
      /\ \A k \in 1 .. Len(DownStored) : DownStored[k] = dtaken + k - 1
  BY DownStoredIs DEF DownStoredFollows
<1>2. DownStoredFollows /\ DownStoredFollows'
  BY DownStoredIs, PTL
<1>3. /\ Len(DownStored') \in Nat /\ Len(DownStored') < Size /\ DownStored' \in Seq(Int)
      /\ \A k \in 1 .. Len(DownStored') : DownStored'[k] = dtaken' + k - 1
  BY <1>2 DEF DownStoredFollows
<1>4. /\ dtaken' = dtaken /\ dout' = dout
      /\ dtaken \in Nat /\ dtotal \in Nat /\ Size \in Nat
  BY SizeAssumption DEF DownPublish, DownInv, DownTypeOK, downTarget
<1>5. Len(DownStored') = Len(DownStored) + dtotal
  <2>1. dsent \in Nat /\ unsure \in Nat /\ dsent' \in Nat /\ unsure' \in Nat
    BY DEF DownInv, DownTypeOK
  <2>2. Len(DownStored) = (dsent + unsure) - dtaken
    BY <1>2 DEF DownStoredFollows
  <2>3. Len(DownStored') = (dsent' + unsure') - dtaken'
    BY <1>2 DEF DownStoredFollows
  <2>4. (dsent' + unsure') - dtaken' = (dsent + unsure + dtotal) - dtaken
    <3> DEFINE before == dsent + unsure
               after == dsent' + unsure'
    <3>1. before \in Int /\ after \in Int
      BY <2>1
    <3>2. after = before + dtotal
      OBVIOUS
    <3> HIDE DEF before, after
    <3>3. after - dtaken = (before + dtotal) - dtaken
      BY <1>4, <3>1, <3>2
    <3> QED BY <1>4, <3>3 DEF before, after
  <2>5. (dsent + unsure + dtotal) - dtaken = ((dsent + unsure) - dtaken) + dtotal
    BY <1>4, <2>1
  <2> QED BY <2>2, <2>3, <2>4, <2>5
<1>6. CASE dtotal = 0
  <2>1. DownStored' = DownStored
    BY <1>1, <1>3, <1>4, <1>5, <1>6, SeqEqual
  <2> QED BY <1>4, <2>1
<1>7. CASE dtotal # 0
  <2> DEFINE front == SubSeq(DownStored', 1, Len(DownStored))
  <2>1. \A k \in 1 .. Len(DownStored) : DownStored'[k] \in Int
    BY <1>1, <1>3, <1>4, <1>5
  <2>2. /\ front \in Seq(Int)
        /\ Len(front) = IF 1 <= Len(DownStored) THEN Len(DownStored) - 1 + 1 ELSE 0
        /\ \A k \in 1 .. Len(DownStored) - 1 + 1 : front[k] = DownStored'[1 + k - 1]
    BY <1>1, <2>1, SubSeqProperties
  <2>3. Len(front) = Len(DownStored) /\ \A k \in 1 .. Len(DownStored) : front[k] = DownStored[k]
    <3> HIDE DEF front
    <3>1. Len(front) = Len(DownStored)
      BY <1>1, <2>2
    <3>2. ASSUME NEW k \in 1 .. Len(DownStored) PROVE front[k] = DownStored[k]
      <4>1. front[k] = DownStored'[k]
        BY <1>1, <2>2
      <4> QED BY <1>1, <1>3, <1>4, <1>5, <4>1
    <3> QED BY <3>1, <3>2
  <2>4. front = DownStored
    <3> HIDE DEF front
    <3> QED BY <1>1, <2>2, <2>3, SeqEqual
  <2>5. dtotal \in 1 .. (Size - 1) - Len(DownStored)
    BY <1>1, <1>3, <1>4, <1>5, <1>7
  <2> QED BY <1>4, <1>5, <2>4, <2>5 DEF InputFifo!Publish
<1> QED BY <1>6, <1>7

\* A release takes the oldest stored bytes, the ones copied out.
LEMMA ReleaseTakes == DownInv /\ DownInv' /\ TargetRelease => InputFifo!Take
<1> SUFFICES ASSUME DownInv, DownInv', TargetRelease PROVE InputFifo!Take
  OBVIOUS
<1> DEFINE n == Len(seen)
           first == SubSeq(DownStored, 1, n)
           others == SubSeq(DownStored, n + 1, Len(DownStored))
<1>1. /\ Len(DownStored) \in Nat /\ DownStored \in Seq(Int)
      /\ \A k \in 1 .. Len(DownStored) : DownStored[k] = dtaken + k - 1
      /\ Len(DownStored) = (dsent + unsure) - dtaken /\ Len(DownStored) = Used(Size, dwr, drd)
  BY DownStoredIs DEF DownStoredFollows
<1>2. DownStoredFollows /\ DownStoredFollows'
  BY DownStoredIs, PTL
<1>3. /\ Len(DownStored') \in Nat /\ DownStored' \in Seq(Int)
      /\ \A k \in 1 .. Len(DownStored') : DownStored'[k] = dtaken' + k - 1
      /\ Len(DownStored') = (dsent' + unsure') - dtaken'
  BY <1>2 DEF DownStoredFollows
<1>4. /\ dsent' = dsent /\ unsure' = unsure /\ dtaken' = dtaken + n
      /\ dout' = seen /\ seen # << >>
      /\ dsent \in Nat /\ unsure \in Nat /\ dtaken \in Nat /\ seen \in Seq(Int)
  BY DEF TargetRelease, DownInv, DownTypeOK, client
<1>5. n \in 1 .. Len(DownStored) /\ \A k \in 1 .. n : seen[k] = dtaken + k - 1
  <2>1. n \in Nat /\ n # 0
    BY <1>4
  <2>2. n <= Used(Size, dwr, drd) /\ \A k \in 1 .. n : seen[k] = dtaken + k - 1
    BY DEF DownInv, SeenAreOldest
  <2>3. n <= Len(DownStored)
    BY <1>1, <2>2
  <2> QED BY <1>1, <2>1, <2>2, <2>3
<1>6. /\ first \in Seq(Int) /\ Len(first) = n
      /\ \A k \in 1 .. n : first[k] = DownStored[k]
  <2>1. ASSUME NEW k \in 1 .. n PROVE DownStored[k] \in Int
    <3>1. k \in 1 .. Len(DownStored)
      BY <1>1, <1>5
    <3>2. DownStored[k] = dtaken + k - 1
      BY <1>1, <3>1
    <3> QED BY <1>4, <3>2
  <2>2. /\ first \in Seq(Int)
        /\ Len(first) = IF 1 <= n THEN n - 1 + 1 ELSE 0
        /\ \A k \in 1 .. n - 1 + 1 : first[k] = DownStored[1 + k - 1]
    BY <1>5, <2>1, SubSeqProperties
  <2> HIDE DEF first
  <2> QED BY <1>5, <2>2
<1>7. /\ others \in Seq(Int) /\ Len(others) = Len(DownStored) - n
      /\ \A k \in 1 .. Len(DownStored) - n : others[k] = DownStored[n + k]
  <2>1. \A k \in n + 1 .. Len(DownStored) : DownStored[k] \in Int
    BY <1>1, <1>4, <1>5
  <2>2. /\ others \in Seq(Int)
        /\ Len(others) = IF n + 1 <= Len(DownStored) THEN Len(DownStored) - (n + 1) + 1 ELSE 0
        /\ \A k \in 1 .. Len(DownStored) - (n + 1) + 1 : others[k] = DownStored[(n + 1) + k - 1]
    BY <1>1, <1>5, <2>1, SubSeqProperties
  <2> HIDE DEF others
  <2>3. Len(others) = Len(DownStored) - n
    BY <1>1, <1>5, <2>2
  <2>4. ASSUME NEW k \in 1 .. Len(DownStored) - n PROVE others[k] = DownStored[n + k]
    <3>1. k \in 1 .. Len(DownStored) - (n + 1) + 1 /\ (n + 1) + k - 1 = n + k
      BY <1>1, <1>5
    <3> QED BY <2>2, <3>1
  <2> QED BY <2>2, <2>3, <2>4
<1>8. dout' = first
  <2> HIDE DEF first
  <2>1. \A k \in 1 .. n : seen[k] = first[k]
    BY <1>1, <1>5, <1>6
  <2> QED BY <1>4, <1>6, <2>1, SeqEqual
<1>9. DownStored' = others
  <2> HIDE DEF others
  <2>1. Len(DownStored') = Len(others)
    <3>1. Len(DownStored') = (dsent + unsure) - (dtaken + n)
      BY <1>3, <1>4
    <3>2. Len(DownStored) = (dsent + unsure) - dtaken /\ n \in Nat
      BY <1>1, <1>5
    <3> QED BY <1>4, <1>7, <3>1, <3>2
  <2>2. ASSUME NEW k \in 1 .. Len(DownStored') PROVE DownStored'[k] = others[k]
    <3>1. k \in 1 .. Len(DownStored) - n /\ n + k \in 1 .. Len(DownStored)
      <4>1. n \in Nat /\ Len(DownStored) - n \in Nat /\ Len(DownStored') = Len(DownStored) - n
        BY <1>1, <1>5, <1>7, <2>1
      <4> QED BY <1>1, <4>1
    <3>2. others[k] = dtaken + (n + k) - 1
      BY <1>1, <1>7, <3>1
    <3>3. DownStored'[k] = (dtaken + n) + k - 1
      <4>1. DownStored'[k] = dtaken' + k - 1
        BY <1>3
      <4> QED BY <1>4, <4>1
    <3>4. (dtaken + n) + k - 1 = dtaken + (n + k) - 1
      BY <1>4, <1>5
    <3> QED BY <3>2, <3>3, <3>4
  <2> QED BY <1>3, <1>7, <2>1, <2>2, SeqEqual
<1> QED BY <1>5, <1>8, <1>9 DEF InputFifo!Take

\* A down channel under rtthost is a bounded queue of bytes: published at one
\* end, taken at the other, and no other step shows.
THEOREM DownIsFifo == DownSpec => InputFifoSpec
<1>1. DownInit => InputFifo!Init
  <2> SUFFICES ASSUME DownInit PROVE DownStored = << >> /\ dout = << >>
    BY DEF InputFifo!Init
  <2>1. Used(Size, dwr, drd) = 0
    BY DEF DownInit, Used, Ahead
  <2> QED BY <2>1 DEF DownStored, DownInit
<1>2. DownInv /\ DownInv' /\ [DownNext]_downVars => [InputFifo!Publish \/ InputFifo!Take]_<<DownStored, dout>>
  <2> SUFFICES ASSUME DownInv, DownInv', [DownNext]_downVars
               PROVE  InputFifo!Publish \/ InputFifo!Take \/ UNCHANGED <<DownStored, dout>>
    OBVIOUS
  <2>1. CASE TargetRelease
    BY <2>1, ReleaseTakes
  <2>n. dsent \in Nat /\ unsure \in Nat /\ dtotal \in Nat
    BY DEF DownInv, DownTypeOK
  <2>2. CASE DownWriteBack
    BY <2>2, <2>n, WriteBackPublishes DEF DownWriteBack, DownWriteBackOf, DropSent
  <2>5. CASE DownError
    <3>1. CASE DownAccessFails
      BY <2>5, <3>1 DEF DownAccessFails, DownStored, downMemory, downTarget
    <3>2. CASE DownAnswerLost
      BY <2>5, <2>n, <3>2, WriteBackPublishes DEF DownError, DownErrorThen, DownAnswerLost
    <3> QED BY <2>5, <3>1, <3>2 DEF DownError, DownErrorThen
  <2>3. CASE DownCopyByte
    <3>1. UNCHANGED <<dsent, unsure, dtaken, dout>>
      BY <2>3 DEF DownCopyByte, downTarget, client
    <3>2. DownStoredFollows /\ DownStoredFollows'
      BY DownStoredIs, PTL
    <3>3. /\ DownStored \in Seq(Int) /\ Len(DownStored) = (dsent + unsure) - dtaken
          /\ \A k \in 1 .. Len(DownStored) : DownStored[k] = dtaken + k - 1
      BY DownStoredIs DEF DownStoredFollows
    <3>4. /\ DownStored' \in Seq(Int) /\ Len(DownStored') = (dsent' + unsure') - dtaken'
          /\ \A k \in 1 .. Len(DownStored') : DownStored'[k] = dtaken' + k - 1
      BY <3>2 DEF DownStoredFollows
    <3>5. DownStored' = DownStored
      BY <3>1, <3>3, <3>4, SeqEqual
    <3> QED BY <3>1, <3>5
  <2>4. CASE ~(TargetRelease \/ DownWriteBack \/ DownCopyByte \/ DownError)
    <3>1. UNCHANGED <<dbuf, dwr, drd, dout>>
      BY <2>4 DEF DownNext, TargetGet, Type, DownReadPointers, DownNextChunk, DownChunkOf,
         downMemory, downTarget, downVars
    <3> QED BY <3>1 DEF DownStored
  <2> QED BY <2>1, <2>2, <2>3, <2>4, <2>5
<1> QED BY DownIndInv, <1>1, <1>2, PTL DEF DownSpec, InputFifoSpec, InputFifo!Spec
=============================================================================
