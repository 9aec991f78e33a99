---------------------------- MODULE Flash_proofs ----------------------------
(***************************************************************************)
(* What is flashed, and what flashing changes.                             *)
(*                                                                         *)
(* For blocks staged in any order, of any size and at any place: the       *)
(* builder stages exactly what it accepts; and for every geometry of       *)
(* sectors and pages that fits, the layout it builds programs what was     *)
(* staged, erases what it programs and nothing out of reach of the data,   *)
(* and restores the rest.                                                  *)
(*                                                                         *)
(* For every target, every data staged and any number of failures: only    *)
(* what was asked for is changed.  When moreover no chip erase reaches the *)
(* regions of another group, contents that were flashed stay, and Ok means *)
(* that everything staged is there.                                        *)
(***************************************************************************)
EXTENDS FlashBuilder, FlashLoader, NaturalsInduction, WellFoundedInduction,
        FiniteSetTheorems, TLAPS

-----------------------------------------------------------------------------
(* The builder.                                                            *)

\* The builder's map: blocks of at least one byte that do not overlap.
IsData(d) ==
  /\ d = [a \in DOMAIN d |-> d[a]]
  /\ DOMAIN d \subseteq Nat
  /\ \A a \in DOMAIN d : d[a] \in Nat \ {0}
  /\ \A a, b \in DOMAIN d : a < b => a + d[a] <= b

BuilderInv == IsData(data) /\ Staged(data) = asked /\ flash \in Flashes

-----------------------------------------------------------------------------
(* Least and greatest elements.                                            *)

\* Every nonempty set of naturals has a least element.
LEMMA LeastElement ==
  ASSUME NEW S \in SUBSET Nat, S # {}
  PROVE  \E m \in S : \A k \in S : m <= k
<1>1. IsWellFoundedOn(OpToRel(<, Nat), Nat)
  BY NatLessThanWellFounded
<1>2. \E m \in S : \A k \in S : ~(<<k, m>> \in OpToRel(<, Nat))
  BY <1>1, WFMin, Zenon
<1>3. \E m \in S : \A k \in S : ~(k < m)
  BY <1>2, Zenon DEF OpToRel
<1> QED BY <1>3

\* Min is that element.
LEMMA MinIs ==
  ASSUME NEW S \in SUBSET Nat, S # {}
  PROVE  Min(S) \in S /\ \A k \in S : Min(S) <= k
<1>1. \E m \in S : \A k \in S : m <= k
  BY LeastElement
<1> QED BY <1>1, Zenon DEF Min

\* Max is the greatest element of a set that is bounded.
LEMMA MaxIs ==
  ASSUME NEW S \in SUBSET Nat, S # {}, NEW bound \in Nat, \A x \in S : x <= bound
  PROVE  Max(S) \in S /\ \A k \in S : Max(S) >= k
<1> DEFINE Above == {u \in Nat : \A x \in S : x <= u}
<1>1. Above \in SUBSET Nat /\ Above # {}
  OBVIOUS
<1> HIDE DEF Above
<1>2. PICK top \in Above : \A u \in Above : top <= u
  BY <1>1, LeastElement
<1>3. top \in Nat /\ \A x \in S : x <= top
  BY <1>2 DEF Above
<1>4. top \in S
  <2> SUFFICES ASSUME top \notin S PROVE FALSE
    OBVIOUS
  <2>1. \A x \in S : x <= top - 1
    BY <1>3
  <2>2. top - 1 \in Nat
    <3>1. PICK x \in S : TRUE
      OBVIOUS
    <3> QED BY <1>3, <2>1, <3>1
  <2>3. top - 1 \in Above
    BY <2>1, <2>2 DEF Above
  <2> QED BY <1>2, <1>3, <2>3
<1>5. \E m \in S : \A k \in S : m >= k
  BY <1>3, <1>4
<1> QED BY <1>5, Zenon DEF Max

\* The greater and the lesser of two.
LEMMA OfTwo ==
  ASSUME NEW x \in Nat, NEW y \in Nat
  PROVE  /\ Max({x, y}) = IF x >= y THEN x ELSE y
         /\ Min({x, y}) = IF x <= y THEN x ELSE y
<1>1. {x, y} \in SUBSET Nat /\ {x, y} # {} /\ \A z \in {x, y} : z <= x + y
  OBVIOUS
<1>2. Max({x, y}) \in {x, y} /\ \A k \in {x, y} : Max({x, y}) >= k
  BY <1>1, MaxIs
<1>3. Min({x, y}) \in {x, y} /\ \A k \in {x, y} : Min({x, y}) <= k
  BY <1>1, MinIs
<1> QED BY <1>2, <1>3

-----------------------------------------------------------------------------
(* Staging (builder.rs 182-220).                                           *)

\* The last block in front of an address.
LEMMA LastBefore ==
  ASSUME NEW d, IsData(d), NEW x \in Nat, {y \in DOMAIN d : y < x} # {}
  PROVE  LET m == Max({y \in DOMAIN d : y < x}) IN
           /\ m \in DOMAIN d /\ m < x /\ m \in Nat /\ d[m] \in Nat \ {0}
           /\ \A y \in DOMAIN d : y < x => y <= m /\ (y # m => y + d[y] <= m)
<1> DEFINE below == {y \in DOMAIN d : y < x}
           m == Max(below)
<1>1. below \in SUBSET Nat /\ below # {} /\ \A y \in below : y <= x
  BY DEF IsData
<1>2. m \in below /\ \A y \in below : m >= y
  <2> HIDE DEF below
  <2> QED BY <1>1, MaxIs
<1>3. m \in DOMAIN d /\ m < x /\ m \in Nat
  BY <1>1, <1>2
<1> HIDE DEF m
<1>4. ASSUME NEW y \in DOMAIN d, y < x PROVE y <= m /\ (y # m => y + d[y] <= m)
  BY <1>2, <1>3, <1>4 DEF IsData
<1>5. d[m] \in Nat \ {0}
  BY <1>3 DEF IsData
<1> USE DEF m
<1> QED BY <1>3, <1>4, <1>5

\* The first block at or behind an address.
LEMMA FirstBehind ==
  ASSUME NEW d, IsData(d), NEW x \in Nat, {y \in DOMAIN d : y >= x} # {}
  PROVE  LET m == Min({y \in DOMAIN d : y >= x}) IN
           /\ m \in DOMAIN d /\ m >= x /\ m \in Nat /\ d[m] \in Nat \ {0}
           /\ \A y \in DOMAIN d : y >= x => m <= y
<1> DEFINE right == {y \in DOMAIN d : y >= x}
<1>1. right \in SUBSET Nat /\ right # {}
  BY DEF IsData
<1>2. Min(right) \in right /\ \A y \in right : Min(right) <= y
  <2> HIDE DEF right
  <2> QED BY <1>1, MinIs
<1> QED BY <1>2 DEF IsData

\* A byte is staged if it lies in a block.
LEMMA StagedIs ==
  ASSUME NEW d, IsData(d), NEW b
  PROVE  b \in Staged(d) <=> b \in Nat /\ \E a \in DOMAIN d : a <= b /\ b < a + d[a]
<1>1. ASSUME NEW a \in DOMAIN d
      PROVE  b \in a .. a + d[a] - 1 <=> b \in Nat /\ a <= b /\ b < a + d[a]
  BY DEF IsData
<1> QED BY <1>1 DEF Staged

\* A block is refused if and only if it meets a staged byte.
LEMMA RefusedExactly ==
  ASSUME NEW d, IsData(d), NEW a \in Nat, NEW len \in Nat
  PROVE  AddRefused(d, a, len) <=> (a .. a + len - 1) \cap Staged(d) # {}
<1> DEFINE below == {y \in DOMAIN d : y < a}
           right == {y \in DOMAIN d : y >= a}
<1>1. ASSUME len > 0, OverlapsRight(d, a, len) PROVE (a .. a + len - 1) \cap Staged(d) # {}
  <2> DEFINE m == Min(right)
  <2>1. right # {} /\ a + len > m
    BY <1>1 DEF OverlapsRight
  <2>2. m \in DOMAIN d /\ m >= a /\ m \in Nat /\ d[m] \in Nat \ {0}
    BY <2>1, FirstBehind
  <2> HIDE DEF m
  <2>3. m \in Staged(d)
    BY <2>2, StagedIs
  <2> QED BY <2>1, <2>2, <2>3
<1>2. ASSUME len > 0, OverlapsLeft(d, a) PROVE (a .. a + len - 1) \cap Staged(d) # {}
  <2> DEFINE m == Max(below)
  <2>1. below # {} /\ m + d[m] > a
    BY <1>2 DEF OverlapsLeft
  <2>2. m \in DOMAIN d /\ m < a /\ m \in Nat
    BY <2>1, LastBefore
  <2> HIDE DEF m
  <2>3. a \in Staged(d)
    BY <2>1, <2>2, StagedIs
  <2> QED BY <1>2, <2>3
<1>3. ASSUME NEW b \in (a .. a + len - 1) \cap Staged(d) PROVE AddRefused(d, a, len)
  <2>1. b \in Nat /\ a <= b /\ b < a + len /\ len > 0
    BY <1>3
  <2>2. PICK c \in DOMAIN d : c <= b /\ b < c + d[c]
    BY <1>3, StagedIs
  <2>3. c \in Nat /\ d[c] \in Nat
    BY <2>2 DEF IsData
  <2>4. CASE c >= a
    <3>1. right # {}
      BY <2>4
    <3>2. Min(right) <= c /\ Min(right) \in Nat
      BY <2>4, <3>1, FirstBehind
    <3> QED BY <2>1, <2>2, <2>3, <3>1, <3>2 DEF AddRefused, OverlapsRight
  <2>5. CASE c < a
    <3> DEFINE m == Max(below)
    <3>1. below # {}
      BY <2>5
    <3>2. m < a /\ m \in Nat /\ (c # m => c + d[c] <= m)
      BY <2>5, <3>1, LastBefore
    <3>3. c = m
      <4> HIDE DEF m
      <4> QED BY <2>1, <2>2, <2>3, <3>2
    <3>4. m + d[m] > a
      BY <2>1, <2>2, <2>3, <3>3
    <3> QED BY <2>1, <3>1, <3>4 DEF AddRefused, OverlapsLeft
  <2> QED BY <2>3, <2>4, <2>5
<1> QED BY <1>1, <1>2, <1>3 DEF AddRefused

\* A block that is put where nothing is staged.
LEMMA PutStages ==
  ASSUME NEW d, IsData(d), NEW a \in Nat, NEW len \in Nat \ {0}, NEW from \in Nat,
         from = a \/ (from < a /\ from \in DOMAIN d /\ from + d[from] = a),
         from = a => a \notin DOMAIN d,
         \A y \in DOMAIN d : y >= a => a + len <= y,
         \A y \in DOMAIN d : y < a => y + d[y] <= a /\ (y # from => y + d[y] <= from)
  PROVE  LET e == Put(d, from, a + len - from)
         IN  IsData(e) /\ Staged(e) = Staged(d) \cup (a .. a + len - 1)
<1> DEFINE e == Put(d, from, a + len - from)
<1>1. /\ DOMAIN e = DOMAIN d \cup {from} /\ e = [x \in DOMAIN e |-> e[x]]
      /\ e[from] = a + len - from /\ \A x \in DOMAIN d : x # from => e[x] = d[x]
  BY DEF Put
<1> HIDE DEF e
<1>2. e[from] \in Nat \ {0}
  BY <1>1
<1>3. DOMAIN e \subseteq Nat /\ \A x \in DOMAIN e : e[x] \in Nat \ {0}
  BY <1>1, <1>2 DEF IsData
<1>4. ASSUME NEW x \in DOMAIN e, NEW y \in DOMAIN e, x < y PROVE x + e[x] <= y
  <2>1. CASE x = from
    <3>1. y \in DOMAIN d /\ y \in Nat /\ y # from
      BY <1>1, <1>3, <1>4, <2>1
    <3>2. y >= a
      <4>1. d[y] \in Nat \ {0} /\ from < y
        BY <1>4, <2>1, <3>1 DEF IsData
      <4> QED BY <3>1, <4>1
    <3> QED BY <1>1, <2>1, <3>1, <3>2
  <2>2. CASE y = from /\ x # from
    <3>1. x \in DOMAIN d /\ x < a /\ x \in Nat /\ e[x] = d[x]
      BY <1>1, <1>3, <1>4, <2>2
    <3> QED BY <2>2, <3>1
  <2>3. CASE x # from /\ y # from
    <3>1. x \in DOMAIN d /\ y \in DOMAIN d /\ e[x] = d[x]
      BY <1>1, <2>3
    <3> QED BY <1>4, <3>1 DEF IsData
  <2> QED BY <2>1, <2>2, <2>3
<1>5. IsData(e)
  BY <1>1, <1>3, <1>4 DEF IsData
<1>6. ASSUME NEW b PROVE b \in Staged(e) <=> b \in Staged(d) \cup (a .. a + len - 1)
  <2>1. ASSUME b \in Staged(e) PROVE b \in Staged(d) \cup (a .. a + len - 1)
    <3>1. b \in Nat
      BY <1>5, <2>1, StagedIs
    <3>2. PICK x \in DOMAIN e : x <= b /\ b < x + e[x]
      BY <1>5, <2>1, StagedIs
    <3>3. CASE x # from
      <4>1. x \in DOMAIN d /\ e[x] = d[x]
        BY <1>1, <3>3
      <4> QED BY <3>1, <3>2, <4>1, StagedIs
    <3>4. CASE x = from /\ b >= a
      BY <1>1, <3>1, <3>2, <3>4
    <3>5. CASE x = from /\ b < a
      <4>1. from \in DOMAIN d /\ from + d[from] = a
        BY <3>1, <3>2, <3>5
      <4> QED BY <3>1, <3>2, <3>5, <4>1, StagedIs
    <3> QED BY <3>1, <3>3, <3>4, <3>5
  <2>2. ASSUME b \in Staged(d) PROVE b \in Staged(e)
    <3>1. b \in Nat
      BY <2>2, StagedIs
    <3>2. PICK x \in DOMAIN d : x <= b /\ b < x + d[x]
      BY <2>2, StagedIs
    <3>3. x \in DOMAIN e /\ x \in Nat /\ d[x] \in Nat
      BY <1>1, <3>2 DEF IsData
    <3>4. CASE x = from
      <4>1. from + d[from] = a
        BY <3>2, <3>4
      <4>2. b < from + e[from]
        BY <1>1, <3>1, <3>2, <3>3, <3>4, <4>1
      <4> QED BY <1>5, <3>1, <3>2, <3>3, <3>4, <4>2, StagedIs
    <3>5. CASE x # from
      <4>1. e[x] = d[x]
        BY <1>1, <3>5
      <4> QED BY <1>5, <3>1, <3>2, <3>3, <4>1, StagedIs
    <3> QED BY <3>4, <3>5
  <2>3. ASSUME b \in a .. a + len - 1 PROVE b \in Staged(e)
    <3>1. b \in Nat /\ from <= b /\ b < from + e[from]
      BY <1>1, <2>3
    <3> QED BY <1>1, <1>5, <3>1, StagedIs
  <2> QED BY <2>1, <2>2, <2>3
<1>7. Staged(e) = Staged(d) \cup (a .. a + len - 1)
  BY <1>6
<1> USE DEF e
<1> QED BY <1>5, <1>7

\* add_data stages an accepted block, and of a refused one nothing.
LEMMA AddStages ==
  ASSUME NEW d, IsData(d), NEW a \in Nat, NEW len \in Nat
  PROVE  /\ IsData(AddData(d, a, len))
         /\ Staged(AddData(d, a, len)) =
              IF AddRefused(d, a, len) THEN Staged(d) ELSE Staged(d) \cup (a .. a + len - 1)
<1> DEFINE below == {y \in DOMAIN d : y < a}
           m == Max(below)
           right == {y \in DOMAIN d : y >= a}
<1>1. CASE len = 0
  <2>1. a .. a + len - 1 = {}
    BY <1>1
  <2> QED BY <1>1, <2>1 DEF AddData
<1>2. CASE AddRefused(d, a, len)
  BY <1>2 DEF AddData
<1>3. CASE len # 0 /\ ~AddRefused(d, a, len)
  <2>1. ~OverlapsRight(d, a, len) /\ ~OverlapsLeft(d, a)
    BY <1>3 DEF AddRefused
  <2>2. ASSUME NEW y \in DOMAIN d, y >= a PROVE a + len <= y
    <3>1. right # {}
      BY <2>2
    <3>2. Min(right) <= y /\ Min(right) \in Nat /\ y \in Nat
      BY <2>2, <3>1, FirstBehind DEF IsData
    <3>3. ~(a + len > Min(right))
      BY <2>1, <3>1 DEF OverlapsRight
    <3> QED BY <3>2, <3>3
  <2>3. ASSUME NEW y \in DOMAIN d, y < a
        PROVE  /\ below # {} /\ y + d[y] <= a /\ y <= m /\ (y # m => y + d[y] <= m)
               /\ m \in Nat /\ m \in DOMAIN d /\ m < a /\ m + d[m] <= a
    <3>1. below # {}
      BY <2>3
    <3>2. /\ m \in DOMAIN d /\ m < a /\ m \in Nat /\ d[m] \in Nat
          /\ y <= m /\ (y # m => y + d[y] <= m)
      BY <2>3, <3>1, LastBefore
    <3>3. ~(m + d[m] > a)
      BY <2>1, <3>1 DEF OverlapsLeft
    <3>4. y \in Nat /\ d[y] \in Nat
      BY <2>3 DEF IsData
    <3> HIDE DEF m, below
    <3> QED BY <3>1, <3>2, <3>3, <3>4
  <2>4. CASE below # {} /\ m + d[m] = a
    <3>1. PICK z \in DOMAIN d : z < a
      BY <2>4
    <3>2. m \in Nat /\ m \in DOMAIN d /\ m < a
      BY <2>3, <3>1
    <3>3. AddData(d, a, len) = Put(d, m, d[m] + len)
      BY <1>3, <2>4 DEF AddData
    <3>4. d[m] \in Nat
      BY <3>2 DEF IsData
    <3> HIDE DEF below, m
    <3>5. d[m] + len = a + len - m
      BY <2>4, <3>2, <3>4
    <3>6. \A y \in DOMAIN d : y < a => y + d[y] <= a /\ (y # m => y + d[y] <= m)
      BY <2>3
    <3> QED BY <1>3, <2>2, <2>4, <3>2, <3>3, <3>5, <3>6, PutStages
  <2>5. CASE ~(below # {} /\ m + d[m] = a)
    <3>1. AddData(d, a, len) = Put(d, a, len)
      BY <1>3, <2>5 DEF AddData
    <3>2. a \notin DOMAIN d
      BY <1>3, <2>2
    <3>3. len = a + len - a
      OBVIOUS
    <3>4. \A y \in DOMAIN d : y < a => y + d[y] <= a
      <4> HIDE DEF below, m
      <4> QED BY <2>3
    <3>5. AddData(d, a, len) = Put(d, a, a + len - a)
      BY <3>1, <3>3
    <3> HIDE DEF below, m, right
    <3> DEFINE e == Put(d, a, a + len - a)
    <3>6. \A y \in DOMAIN d : y < a => y + d[y] <= a /\ (y # a => y + d[y] <= a)
      BY <3>4
    <3>7. len \in Nat \ {0}
      BY <1>3
    <3>8. IsData(e) /\ Staged(e) = Staged(d) \cup (a .. a + len - 1)
      <4> HIDE DEF IsData, Staged
      <4> QED BY <2>2, <3>2, <3>6, <3>7, PutStages
    <3> QED BY <1>3, <3>5, <3>8
  <2> QED BY <2>4, <2>5
<1> QED BY <1>1, <1>2, <1>3

-----------------------------------------------------------------------------
(* Looking up what is staged (builder.rs 222-265).                         *)

\* The blocks that meet a range, and the part of one that lies in it.
Meeting(d, r) == {x \in DOMAIN d : x < r[2] /\ x + d[x] > r[1]}

Part(d, r, a) == <<IF a >= r[1] THEN a ELSE r[1], IF a + d[a] <= r[2] THEN a + d[a] ELSE r[2]>>

\* data_in_range finds them all: only one can begin in front of the range.
LEMMA InRangeIs ==
  ASSUME NEW d, IsData(d), NEW r \in Nat \X Nat, r[1] < r[2]
  PROVE  DataInRange(d, r) = {Part(d, r, a) : a \in Meeting(d, r)}
<1> DEFINE before == {x \in DOMAIN d : x < r[1]}
           m == Max(before)
           first == IF before # {} /\ m + d[m] > r[1] THEN m ELSE r[1]
           found == {x \in DOMAIN d : first <= x /\ x < r[2]}
<1>1. r[1] \in Nat /\ r[2] \in Nat
  OBVIOUS
<1>2. \A x \in DOMAIN d : x \in Nat /\ d[x] \in Nat \ {0}
  BY DEF IsData
<1>3. ASSUME NEW x \in DOMAIN d, x < r[1]
      PROVE  /\ before # {} /\ m \in DOMAIN d /\ m < r[1] /\ m \in Nat
             /\ x <= m /\ (x # m => x + d[x] <= m)
  <2>1. before # {}
    BY <1>3
  <2> QED BY <1>1, <1>3, <2>1, LastBefore
<1>4. ASSUME NEW x \in DOMAIN d PROVE first <= x /\ x < r[2] <=> x < r[2] /\ x + d[x] > r[1]
  <2>1. CASE x >= r[1]
    <3>1. first <= x
      <4>1. CASE before = {}
        BY <2>1, <4>1
      <4>2. CASE before # {}
        <5>1. m < r[1] /\ m \in Nat
          BY <1>1, <4>2, LastBefore
        <5> HIDE DEF m
        <5> QED BY <1>1, <1>2, <2>1, <5>1
      <4> QED BY <4>1, <4>2
    <3>2. x + d[x] > r[1]
      BY <1>1, <1>2, <2>1
    <3> QED BY <3>1, <3>2
  <2>2. CASE x < r[1]
    <3>1. /\ before # {} /\ m \in DOMAIN d /\ m < r[1] /\ m \in Nat
          /\ x <= m /\ (x # m => x + d[x] <= m)
      BY <1>3, <2>2
    <3>2. first = IF m + d[m] > r[1] THEN m ELSE r[1]
      BY <3>1
    <3> HIDE DEF m, first, before
    <3>3. x \in Nat /\ d[x] \in Nat \ {0}
      BY <1>2
    <3>4. CASE x = m
      BY <1>1, <2>2, <3>1, <3>2, <3>3, <3>4
    <3>5. CASE x # m
      BY <1>1, <2>2, <3>1, <3>2, <3>3, <3>5
    <3> QED BY <3>4, <3>5
  <2> QED BY <1>1, <1>2, <2>1, <2>2
<1>5. found = Meeting(d, r)
  <2> HIDE DEF first
  <2> QED BY <1>4 DEF Meeting
<1>6. ASSUME NEW a \in Meeting(d, r)
      PROVE  <<Max({a, r[1]}), Min({a + d[a], r[2]})>> = Part(d, r, a)
  <2>1. a \in Nat /\ a + d[a] \in Nat
    BY <1>2 DEF Meeting
  <2> QED BY <1>1, <2>1, OfTwo DEF Part
<1>7. DataInRange(d, r) = {<<Max({a, r[1]}), Min({a + d[a], r[2]})>> : a \in found}
  BY Zenon DEF DataInRange, DataIn
<1> HIDE DEF found
<1> QED BY <1>5, <1>6, <1>7

\* So a range has data if and only if one of its bytes is staged.
LEMMA HasDataIs ==
  ASSUME NEW d, IsData(d), NEW r \in Nat \X Nat, r[1] < r[2]
  PROVE  HasData(d, r) <=> Bytes(r) \cap Staged(d) # {}
<1>1. r[1] \in Nat /\ r[2] \in Nat
  OBVIOUS
<1>2. HasData(d, r) <=> Meeting(d, r) # {}
  BY InRangeIs DEF HasData
<1>3. ASSUME NEW a \in Meeting(d, r) PROVE Bytes(r) \cap Staged(d) # {}
  <2> DEFINE b == IF a >= r[1] THEN a ELSE r[1]
  <2>1. a \in DOMAIN d /\ a < r[2] /\ a + d[a] > r[1] /\ a \in Nat /\ d[a] \in Nat \ {0}
    BY DEF Meeting, IsData
  <2>2. b \in Nat /\ a <= b /\ b < a + d[a] /\ b \in Bytes(r)
    BY <1>1, <2>1 DEF Bytes
  <2> QED BY <2>1, <2>2, StagedIs
<1>4. ASSUME NEW b \in Bytes(r) \cap Staged(d) PROVE Meeting(d, r) # {}
  <2>1. b \in Nat /\ r[1] <= b /\ b < r[2]
    BY <1>1 DEF Bytes
  <2>2. PICK a \in DOMAIN d : a <= b /\ b < a + d[a]
    BY StagedIs
  <2>3. a \in Nat /\ d[a] \in Nat
    BY <2>2 DEF IsData
  <2>4. a < r[2] /\ a + d[a] > r[1]
    BY <1>1, <2>1, <2>2, <2>3
  <2> QED BY <2>4 DEF Meeting
<1> QED BY <1>2, <1>3, <1>4

\* The fills of a page are the bytes of it that are not staged.
LEMMA PageFillsAre ==
  ASSUME NEW d, IsData(d), NEW p \in Nat \X Nat, p[1] < p[2]
  PROVE  BytesOf(PageFills(d, p)) = Bytes(p) \ Staged(d)
<1> DEFINE blocks == DataInRange(d, p)
           froms == {p[1]} \cup {b[2] : b \in blocks}
           tos == {p[2]} \cup {b[1] : b \in blocks}
           Next2(from) == Min({to \in tos : to >= from})
<1>1. p[1] \in Nat /\ p[2] \in Nat
  OBVIOUS
<1>2. blocks = {Part(d, p, a) : a \in Meeting(d, p)}
  BY InRangeIs
<1>3. \A a \in Meeting(d, p) :
        /\ a \in DOMAIN d /\ a \in Nat /\ d[a] \in Nat \ {0} /\ a < p[2] /\ a + d[a] > p[1]
        /\ Part(d, p, a)[1] = IF a >= p[1] THEN a ELSE p[1]
        /\ Part(d, p, a)[2] = IF a + d[a] <= p[2] THEN a + d[a] ELSE p[2]
  BY DEF Meeting, Part, IsData
<1>4. /\ \A from \in froms : from = p[1] \/ \E a \in Meeting(d, p) : from = Part(d, p, a)[2]
      /\ p[1] \in froms /\ \A a \in Meeting(d, p) : Part(d, p, a)[2] \in froms
  BY <1>2
<1>5. /\ \A to \in tos : to = p[2] \/ \E a \in Meeting(d, p) : to = Part(d, p, a)[1]
      /\ p[2] \in tos /\ \A a \in Meeting(d, p) : Part(d, p, a)[1] \in tos
  BY <1>2
<1>6. \A x \in froms \cup tos : x \in Nat /\ p[1] <= x /\ x <= p[2]
  BY <1>1, <1>3, <1>4, <1>5
<1>7. PageFills(d, p) = {f \in {<<from, Next2(from)>> : from \in froms} : f[1] < f[2]}
  BY DEF PageFills
<1> HIDE DEF froms, tos, blocks
<1>8. ASSUME NEW from \in froms
      PROVE  /\ Next2(from) \in tos /\ Next2(from) >= from
             /\ \A to \in tos : to >= from => Next2(from) <= to
  <2> DEFINE behind == {to \in tos : to >= from}
  <2>1. behind \in SUBSET Nat /\ behind # {}
    BY <1>1, <1>5, <1>6
  <2>2. Min(behind) \in behind /\ \A k \in behind : Min(behind) <= k
    <3> HIDE DEF behind
    <3> QED BY <2>1, MinIs
  <2> QED BY <2>2
<1> HIDE DEF Next2
<1>9. ASSUME NEW b, NEW from \in froms, b \in Bytes(<<from, Next2(from)>>)
      PROVE  b \in Bytes(p) \ Staged(d)
  <2>1. b \in Nat /\ from <= b /\ b < Next2(from) /\ from \in Nat /\ Next2(from) \in Nat
        /\ p[1] <= from /\ Next2(from) <= p[2]
    BY <1>6, <1>8, <1>9 DEF Bytes
  <2>2. b \in Bytes(p)
    BY <1>1, <2>1 DEF Bytes
  <2>3. ASSUME NEW a \in DOMAIN d, a <= b, b < a + d[a] PROVE FALSE
    <3>1. a \in Nat /\ d[a] \in Nat \ {0}
      BY <2>3 DEF IsData
    <3>2. a \in Meeting(d, p)
      BY <1>1, <2>1, <2>3, <3>1 DEF Meeting
    <3> DEFINE c == Part(d, p, a)[1]
    <3>3. c \in tos /\ c <= b /\ c \in Nat /\ c = IF a >= p[1] THEN a ELSE p[1]
      BY <1>1, <1>3, <1>5, <2>1, <2>3, <3>1, <3>2
    <3> HIDE DEF c
    <3>4. c < from
      BY <1>8, <2>1, <3>3
    <3>5. PICK a2 \in Meeting(d, p) : from = Part(d, p, a2)[2]
      BY <1>1, <1>4, <2>1, <3>1, <3>3, <3>4
    <3>6. /\ a2 \in DOMAIN d /\ a2 \in Nat /\ d[a2] \in Nat \ {0}
          /\ from = IF a2 + d[a2] <= p[2] THEN a2 + d[a2] ELSE p[2]
      BY <1>3, <3>5
    <3>7. from = a2 + d[a2] /\ a2 # a
      BY <1>1, <2>1, <2>3, <3>1, <3>6
    <3>8. (a2 < a => from <= a) /\ (a < a2 => a + d[a] <= a2)
      BY <2>3, <3>6, <3>7 DEF IsData
    <3> QED BY <1>1, <2>1, <2>3, <3>1, <3>3, <3>4, <3>6, <3>7, <3>8
  <2> QED BY <2>2, <2>3, StagedIs
<1>10. ASSUME NEW b \in Bytes(p), b \notin Staged(d)
       PROVE  \E from \in froms : b \in Bytes(<<from, Next2(from)>>) /\ from < Next2(from)
  <2> DEFINE below == {x \in froms : x <= b}
             from == Max(below)
  <2>1. b \in Nat /\ p[1] <= b /\ b < p[2]
    BY <1>1, <1>10 DEF Bytes
  <2>2. below \in SUBSET Nat /\ below # {} /\ \A x \in below : x <= b
    BY <1>4, <1>6, <2>1
  <2>3. from \in below /\ \A x \in below : from >= x
    <3> HIDE DEF below
    <3> QED BY <2>1, <2>2, MaxIs
  <2>4. from \in froms /\ from <= b /\ from \in Nat
    BY <1>6, <2>3
  <2>5. \A x \in froms : x <= b => x <= from
    BY <2>3
  <2> HIDE DEF from, below
  <2> DEFINE to == Next2(from)
  <2>6. to \in tos /\ to >= from /\ to \in Nat
    BY <1>6, <1>8, <2>4
  <2> HIDE DEF to
  <2>7. to > b
    <3> SUFFICES ASSUME to <= b PROVE FALSE
      BY <2>1, <2>6
    <3>1. PICK a \in Meeting(d, p) : to = Part(d, p, a)[1]
      BY <1>1, <1>5, <2>1, <2>6
    <3>2. /\ a \in DOMAIN d /\ a \in Nat /\ d[a] \in Nat \ {0} /\ a + d[a] > p[1] /\ a < p[2]
          /\ to = IF a >= p[1] THEN a ELSE p[1]
      BY <1>3, <3>1
    <3>3. a + d[a] <= b
      <4>1. ~(a <= b /\ b < a + d[a])
        BY <1>10, <2>1, <3>2, StagedIs
      <4> QED BY <1>1, <2>1, <3>2, <4>1
    <3>4. Part(d, p, a)[2] = a + d[a] /\ a + d[a] \in froms
      BY <1>1, <1>3, <1>4, <2>1, <3>1, <3>2, <3>3
    <3>5. a + d[a] <= from
      BY <2>5, <3>3, <3>4
    <3> QED BY <1>1, <2>4, <2>6, <3>2, <3>5
  <2>8. b \in Bytes(<<from, to>>)
    BY <2>1, <2>4, <2>6, <2>7 DEF Bytes
  <2> USE DEF to
  <2> QED BY <2>4, <2>7, <2>8, <2>1, <2>6
<1>11. ASSUME NEW b \in BytesOf(PageFills(d, p)) PROVE b \in Bytes(p) \ Staged(d)
  <2>1. PICK from \in froms : b \in Bytes(<<from, Next2(from)>>)
    BY <1>7 DEF BytesOf
  <2> QED BY <1>9, <2>1
<1>12. ASSUME NEW b \in Bytes(p) \ Staged(d) PROVE b \in BytesOf(PageFills(d, p))
  <2>1. PICK from \in froms : b \in Bytes(<<from, Next2(from)>>) /\ from < Next2(from)
    BY <1>10
  <2>2. <<from, Next2(from)>> \in PageFills(d, p)
    BY <1>7, <2>1
  <2> QED BY <2>1, <2>2 DEF BytesOf
<1> QED BY <1>11, <1>12

-----------------------------------------------------------------------------
(* Arithmetic of multiples.                                                *)

\* A greater multiple is greater by one multiple at least.
LEMMA MoreMultiples ==
  ASSUME NEW p \in Nat, NEW q \in Nat, NEW d \in Nat, p < q
  PROVE  p * d \in Nat /\ q * d \in Nat /\ p * d + d <= q * d
OBVIOUS

\* Quotient and remainder are unique.
LEMMA SameMultiple ==
  ASSUME NEW p \in Nat, NEW q \in Nat, NEW d \in Nat \ {0},
         NEW r \in 0 .. d - 1, NEW t \in 0 .. d - 1, p * d + r = q * d + t
  PROVE  p = q /\ r = t
<1>1. p * d \in Nat /\ q * d \in Nat
  OBVIOUS
<1>2. ~(p < q)
  BY <1>1, MoreMultiples
<1>3. ~(q < p)
  BY <1>1, MoreMultiples
<1>4. p = q
  BY <1>2, <1>3
<1> QED BY <1>1, <1>4

\* A number is a multiple and a remainder.
LEMMA Divide ==
  ASSUME NEW x \in Nat, NEW d \in Nat \ {0}
  PROVE  /\ x \div d \in Nat /\ x % d \in 0 .. d - 1
         /\ (x \div d) * d \in Nat /\ x = (x \div d) * d + (x % d)
OBVIOUS

\* Division undoes what a multiple and a remainder make.
LEMMA DivideBack ==
  ASSUME NEW q \in Nat, NEW d \in Nat \ {0}, NEW r \in 0 .. d - 1, NEW x \in Nat, x = q * d + r
  PROVE  x \div d = q /\ x % d = r
<1>1. x \div d \in Nat /\ x % d \in 0 .. d - 1 /\ x = (x \div d) * d + (x % d)
  BY Divide
<1> DEFINE y == x \div d
           z == x % d
<1>2. y \in Nat /\ z \in 0 .. d - 1 /\ y * d + z = q * d + r
  BY <1>1
<1> HIDE DEF y, z
<1>3. y = q /\ z = r
  BY <1>2, SameMultiple
<1> USE DEF y, z
<1> QED BY <1>3

\* Multiples are subtracted by subtracting their factors.
LEMMA DifferenceOfMultiples ==
  ASSUME NEW p \in Nat, NEW q \in Nat, NEW d \in Nat, q <= p
  PROVE  p - q \in Nat /\ (p - q) * d = p * d - q * d
OBVIOUS

\* Multiples are added by adding their factors.
LEMMA SumOfMultiples ==
  ASSUME NEW p \in Nat, NEW q \in Nat, NEW d \in Nat
  PROVE  p + q \in Nat /\ (p + q) * d = p * d + q * d /\ (p + 1) * d = p * d + d
OBVIOUS

-----------------------------------------------------------------------------
(* The pages of a flash (flash_algorithm.rs 88-99 and 133-151).            *)

\* A page is a range of bytes.
LEMMA PageIsRange ==
  ASSUME NEW f \in Flashes, NEW p \in IterPages(f.props)
  PROVE  /\ p \in Nat \X Nat /\ p[1] < p[2] /\ p[1] \in Bytes(p) /\ p = <<p[1], p[1] + f.props.page>>
         /\ p[1] \in f.props.start .. f.props.end - 1 /\ (p[1] - f.props.start) % f.props.page = 0
<1>1. f.props.page \in Nat \ {0} /\ f.props.start \in Nat /\ f.props.end \in Nat
  BY FlashesAssumption
<1>2. PICK a \in f.props.start .. f.props.end - 1 :
        (a - f.props.start) % f.props.page = 0 /\ p = <<a, a + f.props.page>>
  BY DEF IterPages
<1>3. p[1] = a /\ p[2] = a + f.props.page /\ a \in Nat
  BY <1>1, <1>2
<1> QED BY <1>1, <1>2, <1>3 DEF Bytes

\* page_info gives a range that holds the address.
LEMMA PageInfoIsRange ==
  ASSUME NEW f \in Flashes, NEW b \in Nat
  PROVE  LET p == PageInfo(f.props, b)
         IN  p \in Nat \X Nat /\ p[1] < p[2] /\ b \in Bytes(p)
<1>1. f.props.page \in Nat \ {0}
  BY FlashesAssumption
<1>2. b - (b % f.props.page) \in Nat /\ b % f.props.page \in 0 .. f.props.page - 1
  <2> DEFINE size == f.props.page
             q == b \div size
             r == b % size
  <2>1. q \in Nat /\ r \in 0 .. size - 1 /\ q * size \in Nat /\ b = q * size + r
    BY <1>1, Divide
  <2> HIDE DEF q, r
  <2>2. b - r \in Nat
    BY <1>1, <2>1
  <2> USE DEF r
  <2> QED BY <2>1, <2>2
<1> QED BY <1>1, <1>2 DEF PageInfo, Bytes

\* Each byte of the flash is on one page, the one that page_info gives.
LEMMA PagesTile ==
  ASSUME NEW f \in Flashes, Fits(f)
  PROVE  /\ \A b \in f.props.start .. f.props.end - 1 : PageInfo(f.props, b) \in IterPages(f.props)
         /\ \A p \in IterPages(f.props) : \A b \in Bytes(p) : PageInfo(f.props, b) = p
<1> DEFINE size == f.props.page
           start == f.props.start
           q0 == start \div size
<1>1. size \in Nat \ {0} /\ start \in Nat /\ f.props.end \in Nat
  BY FlashesAssumption
<1>2. start % size = 0
  BY DEF Fits
<1> HIDE DEF size, start
<1>3. q0 \in Nat /\ start = q0 * size
  BY <1>1, <1>2, Divide
<1> HIDE DEF q0
<1>4. ASSUME NEW b \in start .. f.props.end - 1 PROVE PageInfo(f.props, b) \in IterPages(f.props)
  <2> DEFINE k == b \div size
  <2>0. b \in Nat /\ start <= b /\ b < f.props.end
    BY <1>1, <1>4
  <2>1. /\ k \in Nat /\ b % size \in 0 .. size - 1 /\ k * size \in Nat
        /\ b = k * size + (b % size)
    BY <1>1, <2>0, Divide
  <2> HIDE DEF k
  <2>2. q0 <= k
    <3>1. k < q0 => k * size + size <= q0 * size
      BY <1>1, <1>3, <2>1, MoreMultiples
    <3> QED BY <1>1, <1>3, <2>0, <2>1, <3>1
  <2>3. k - q0 \in Nat /\ (k - q0) * size = k * size - start
    BY <1>1, <1>3, <2>1, <2>2, DifferenceOfMultiples
  <2>4. k * size - start \in Nat /\ (k * size - start) % size = 0
    <3>1. k * size - start \in Nat
      <4>1. (k - q0) * size \in Nat
        BY <1>1, <2>3
      <4> QED BY <2>3, <4>1
    <3>2. 0 \in 0 .. size - 1 /\ k * size - start = (k - q0) * size + 0
      BY <1>1, <2>1, <2>3, <3>1
    <3> QED BY <1>1, <2>3, <3>1, <3>2, DivideBack
  <2>5. b - (b % size) = k * size
    BY <1>1, <2>0, <2>1
  <2>6. k * size \in start .. f.props.end - 1
    BY <1>1, <2>0, <2>1, <2>4
  <2>7. PageInfo(f.props, b) = <<k * size, k * size + size>>
    BY <2>5 DEF PageInfo, size
  <2> DEFINE base == k * size
  <2>8. base \in start .. f.props.end - 1 /\ (base - start) % size = 0
    BY <2>4, <2>6
  <2>9. PageInfo(f.props, b) = <<base, base + size>>
    BY <2>7
  <2> HIDE DEF base
  <2> QED BY <2>8, <2>9 DEF IterPages, size, start
<1>5. ASSUME NEW p \in IterPages(f.props), NEW b \in Bytes(p) PROVE PageInfo(f.props, b) = p
  <2> DEFINE k == (p[1] - start) \div size
             r == b - p[1]
  <2>1. /\ p[1] \in Nat /\ p = <<p[1], p[1] + size>> /\ p[1] >= start /\ (p[1] - start) % size = 0
    BY <1>1, PageIsRange DEF start, size
  <2>2. b \in Nat /\ r \in 0 .. size - 1 /\ b = p[1] + r
    <3>1. p[1] <= b /\ b < p[1] + size /\ b \in Int
      BY <1>1, <2>1 DEF Bytes
    <3> QED BY <1>1, <2>1, <3>1
  <2>3. k \in Nat /\ p[1] - start = k * size
    <3>1. p[1] - start \in Nat
      BY <1>1, <2>1
    <3> DEFINE x == p[1] - start
    <3>2. x \in Nat /\ x % size = 0
      BY <2>1, <3>1
    <3> HIDE DEF x
    <3>3. x \div size \in Nat /\ (x \div size) * size \in Nat /\ x = (x \div size) * size + (x % size)
      BY <1>1, <3>2, Divide
    <3>4. x = (x \div size) * size
      BY <3>2, <3>3
    <3> USE DEF x
    <3> QED BY <3>3, <3>4
  <2> HIDE DEF k, r
  <2>4. k + q0 \in Nat /\ (k + q0) * size = k * size + q0 * size
    BY <1>1, <1>3, <2>3, SumOfMultiples
  <2>5. p[1] = (k + q0) * size
    BY <1>1, <1>3, <2>1, <2>3, <2>4
  <2>6. b = (k + q0) * size + r
    BY <2>2, <2>5
  <2>7. b % size = r
    BY <1>1, <2>2, <2>4, <2>6, DivideBack
  <2>8. b - (b % size) = p[1]
    BY <1>1, <2>1, <2>2, <2>7
  <2> QED BY <2>1, <2>8 DEF PageInfo, size
<1> QED BY <1>4, <1>5 DEF start

-----------------------------------------------------------------------------
(* The sectors of a flash (flash_algorithm.rs 56-86 and 101-131).          *)

\* So a set of naturals that has 0, and with every number the next, has them all.
LEMMA AllOfThem ==
  ASSUME NEW n \in Nat, NEW S, 0 \in S, \A k \in 0 .. n - 1 : k \in S => k + 1 \in S
  PROVE  n \in S
<1> DEFINE Out == (0 .. n) \ S
<1>1. SUFFICES ASSUME n \notin S PROVE FALSE
  OBVIOUS
<1>2. Out \in SUBSET Nat /\ Out # {}
  BY <1>1
<1> HIDE DEF Out
<1>3. PICK m \in Out : \A k \in Out : m <= k
  BY <1>2, LeastElement
<1>4. m \in 0 .. n /\ m \notin S /\ m # 0
  BY <1>3 DEF Out
<1>5. m - 1 \in 0 .. n - 1 /\ m - 1 + 1 = m
  BY <1>4
<1>6. m - 1 \in S
  BY <1>3, <1>5 DEF Out
<1> QED BY <1>4, <1>5, <1>6

\* A flash has a length, and at least one group of sectors, at its start.
LEMMA FlashIs ==
  ASSUME NEW f \in Flashes
  PROVE  /\ f.props.start \in Nat /\ f.props.end \in Nat /\ f.props.end - f.props.start \in Nat
         /\ Len(f.props.sectors) \in Nat /\ Len(f.props.sectors) >= 1
         /\ f.props.sectors[1].address = 0
<1>1. f.props.start \in Nat /\ f.props.end \in Nat /\ f.props.start <= f.props.end
  BY FlashesAssumption
<1> DEFINE T == [address : Nat, size : Nat \ {0}]
           gs == f.props.sectors
<1>2. gs \in Seq(T) /\ gs # << >> /\ gs[1].address = 0
  BY FlashesAssumption
<1> HIDE DEF T, gs
<1>3. Len(gs) \in Nat /\ Len(gs) # 0
  BY <1>2
<1> USE DEF gs
<1> QED BY <1>1, <1>2, <1>3

\* One step of the walk.
After(props, w) ==
  LET addr == w[1] + props.sectors[w[2]].size IN <<addr, GroupAt(props, addr, w[2])>>

\* The walk is what its equations say.
LEMMA WalkIs ==
  ASSUME NEW f \in Flashes
  PROVE  LET last == f.props.end - f.props.start
             w == Walk(f.props)
         IN  /\ DOMAIN w = 0 .. last
             /\ w[0] = <<f.props.start, GroupAt(f.props, f.props.start, 1)>>
             /\ \A n \in 1 .. last : w[n] = After(f.props, w[n - 1])
<1> DEFINE last == f.props.end - f.props.start
           props == f.props
           first == <<props.start, GroupAt(props, props.start, 1)>>
           Is(w, n) == w = [i \in 0 .. n |-> IF i = 0 THEN first ELSE After(props, w[i - 1])]
           Ends == {n \in Nat : \E w : Is(w, n)}
<1>0. last \in Nat
  BY FlashIs
<1>1. 0 \in Ends
  <2>1. Is([i \in 0 .. 0 |-> first], 0)
    OBVIOUS
  <2> QED BY <2>1
<1>2. ASSUME NEW k \in Nat, k \in Ends PROVE k + 1 \in Ends
  <2>1. PICK w : Is(w, k)
    BY <1>2
  <2> HIDE DEF first
  <2> DEFINE v == [i \in 0 .. k + 1 |-> IF i = k + 1 THEN After(props, w[k]) ELSE w[i]]
  <2>2. \A i \in 0 .. k : w[i] = IF i = 0 THEN first ELSE After(props, w[i - 1])
    BY <2>1
  <2>3. ASSUME NEW i \in 0 .. k + 1
        PROVE  v[i] = IF i = 0 THEN first ELSE After(props, v[i - 1])
    <3>1. CASE i = k + 1
      <4>1. i # 0 /\ i - 1 = k /\ v[i] = After(props, w[k]) /\ v[k] = w[k]
        BY <3>1
      <4> QED BY <3>1, <4>1
    <3>2. CASE i # k + 1
      <4>1. i \in 0 .. k /\ v[i] = w[i] /\ (i # 0 => v[i - 1] = w[i - 1])
        BY <3>2
      <4> HIDE DEF v
      <4> QED BY <2>2, <4>1
    <3> QED BY <3>1, <3>2
  <2>4. Is(v, k + 1)
    BY <2>3
  <2>5. \E u : Is(u, k + 1)
    <3> HIDE DEF v, Is
    <3> QED BY <2>4
  <2> QED BY <2>5, SMTT(20)
<1>3. last \in Ends
  <2> HIDE DEF Ends
  <2> QED BY <1>0, <1>1, <1>2, AllOfThem
<1>4. \E w : w = [i \in 0 .. last |-> IF i = 0 THEN first ELSE After(props, w[i - 1])]
  BY <1>3
<1>5. Walk(props) = CHOOSE w : w = [i \in 0 .. last |-> IF i = 0 THEN first ELSE After(props, w[i - 1])]
  BY Zenon DEF Walk, After
<1> HIDE DEF first, props
<1>6. Walk(props) = [i \in 0 .. last |-> IF i = 0 THEN first ELSE After(props, Walk(props)[i - 1])]
  BY <1>4, <1>5, Zenon
<1>7. DOMAIN Walk(props) = 0 .. last
  BY <1>6
<1>8. Walk(props)[0] = first
  BY <1>0, <1>6
<1>9. ASSUME NEW n \in 1 .. last PROVE Walk(props)[n] = After(props, Walk(props)[n - 1])
  <2>1. n \in 0 .. last /\ n # 0
    BY <1>0
  <2> QED BY <1>6, <2>1
<1> USE DEF first, props
<1> QED BY <1>7, <1>8, <1>9

\* The groups of sectors are what FlashesAssumption says.
LEMMA GroupsAre ==
  ASSUME NEW f \in Flashes, NEW i \in 1 .. Len(f.props.sectors)
  PROVE  f.props.sectors[i].size \in Nat \ {0} /\ f.props.sectors[i].address \in Nat
<1> DEFINE T == [address : Nat, size : Nat \ {0}]
<1>1. f.props.sectors \in Seq(T)
  BY FlashesAssumption
<1> HIDE DEF T
<1>2. f.props.sectors[i] \in T
  BY <1>1
<1> USE DEF T
<1> QED BY <1>2

\* Every sector begins at least one byte behind the one before, in a group that exists.
LEMMA WalkType ==
  ASSUME NEW f \in Flashes, NEW n \in 0 .. f.props.end - f.props.start
  PROVE  LET w == Walk(f.props)[n] IN
           /\ w = <<w[1], w[2]>> /\ w[1] \in Nat /\ w[1] >= f.props.start + n
           /\ w[2] \in 1 .. Len(f.props.sectors) /\ f.props.sectors[w[2]].size \in Nat \ {0}
           /\ f.props.sectors[w[2]].address \in Nat
<1> DEFINE last == f.props.end - f.props.start
           gs == f.props.sectors
           W(i) == Walk(f.props)[i]
           Good(i) == /\ W(i) = <<W(i)[1], W(i)[2]>> /\ W(i)[1] \in Nat
                      /\ W(i)[1] >= f.props.start + i /\ W(i)[2] \in 1 .. Len(gs)
           S == {i \in 0 .. last : Good(i)}
<1>1. f.props.start \in Nat /\ last \in Nat /\ Len(gs) \in Nat /\ Len(gs) >= 1
  BY FlashIs
<1>2. \A i \in 1 .. Len(gs) : gs[i].size \in Nat \ {0} /\ gs[i].address \in Nat
  BY GroupsAre
<1>3. /\ W(0) = <<f.props.start, GroupAt(f.props, f.props.start, 1)>>
      /\ \A i \in 1 .. last : W(i) = After(f.props, W(i - 1))
  BY WalkIs
<1> HIDE DEF W
<1>4. 0 \in S
  BY <1>1, <1>3 DEF GroupAt
<1>5. ASSUME NEW k \in 0 .. n - 1, k \in S PROVE k + 1 \in S
  <2>1. k + 1 \in 1 .. last /\ k + 1 - 1 = k /\ k \in Nat
    BY <1>1
  <2>2. Good(k)
    BY <1>5
  <2>3. W(k + 1) = After(f.props, W(k))
    BY <1>3, <2>1
  <2> DEFINE addr == W(k)[1] + gs[W(k)[2]].size
  <2>4. W(k + 1) = <<addr, GroupAt(f.props, addr, W(k)[2])>>
    BY <2>3 DEF After
  <2>5. addr \in Nat /\ addr >= f.props.start + (k + 1)
    <3> DEFINE size == gs[W(k)[2]].size
               at == W(k)[1]
               start == f.props.start
    <3>1. size \in Nat \ {0}
      BY <1>2, <2>2
    <3>2. at \in Nat /\ at >= start + k /\ start \in Nat /\ addr = at + size
      BY <1>1, <2>2
    <3> HIDE DEF size, at, addr, start
    <3>3. addr \in Nat /\ addr >= start + (k + 1)
      BY <2>1, <3>1, <3>2
    <3> USE DEF start
    <3> QED BY <3>3
  <2> HIDE DEF addr
  <2>6. GroupAt(f.props, addr, W(k)[2]) \in 1 .. Len(gs)
    <3> DEFINE g == W(k)[2]
               count == Len(gs)
    <3>1. g \in 1 .. count /\ count \in Nat
      BY <1>1, <2>2
    <3>2. \/ GroupAt(f.props, addr, g) = g + 1 /\ g < count
         \/ GroupAt(f.props, addr, g) = g
      BY DEF GroupAt
    <3> HIDE DEF g, count
    <3>3. GroupAt(f.props, addr, g) \in 1 .. count
      BY <3>1, <3>2
    <3> USE DEF g, count
    <3> QED BY <3>3
  <2> QED BY <2>1, <2>4, <2>5, <2>6
<1>6. n \in S
  <2> HIDE DEF S
  <2> QED BY <1>4, <1>5, AllOfThem
<1> USE DEF W
<1> QED BY <1>2, <1>6

\* A sector is a range of bytes.
LEMMA SectorIsRange ==
  ASSUME NEW f \in Flashes, NEW s \in IterSectors(f.props)
  PROVE  /\ s \in Nat \X Nat /\ s[1] < s[2] /\ s[1] \in Bytes(s)
         /\ s[1] \in f.props.start .. f.props.end - 1
         /\ \E n \in 0 .. f.props.end - f.props.start :
              LET w == Walk(f.props)[n]
              IN  s[1] = w[1] /\ s[2] = w[1] + f.props.sectors[w[2]].size
<1> DEFINE size(w) == f.props.sectors[w[2]].size
<1>1. PICK w \in Range(Walk(f.props)) : w[1] < f.props.end /\ s = <<w[1], w[1] + size(w)>>
  BY DEF IterSectors
<1>2. PICK n \in 0 .. f.props.end - f.props.start : w = Walk(f.props)[n]
  BY WalkIs DEF Range
<1>3. w[1] \in Nat /\ w[1] >= f.props.start + n /\ size(w) \in Nat \ {0}
  BY <1>2, WalkType
<1>4. f.props.start \in Nat /\ f.props.end \in Nat
  BY FlashesAssumption
<1> HIDE DEF size
<1>5. s[1] = w[1] /\ s[2] = w[1] + size(w) /\ s \in Nat \X Nat
  BY <1>1, <1>3
<1>6. s[1] < s[2] /\ s[1] \in Bytes(s) /\ s[1] \in f.props.start .. f.props.end - 1
  BY <1>1, <1>3, <1>4, <1>5 DEF Bytes
<1> USE DEF size
<1> QED BY <1>2, <1>5, <1>6

\* Later groups lie behind earlier ones.
LEMMA GroupsAscend ==
  ASSUME NEW f \in Flashes, Fits(f),
         NEW i \in 1 .. Len(f.props.sectors), NEW j \in 1 .. Len(f.props.sectors), i < j
  PROVE  f.props.sectors[i + 1].address <= f.props.sectors[j].address
<1> DEFINE At(k) == f.props.sectors[k].address
           last == Len(f.props.sectors)
           S == {k \in 0 .. j - i - 1 : At(i + 1) <= At(i + 1 + k)}
<1>1. last \in Nat /\ i \in Nat /\ j \in Nat /\ i + 1 <= j /\ j <= last
  BY FlashIs
<1>2. \A k \in 1 .. last : At(k) \in Nat
  BY GroupsAre
<1>3. \A k \in 1 .. last - 1 : At(k) < At(k + 1)
  BY DEF Fits
<1> HIDE DEF At, last
<1>4. 0 \in S
  <2>1. i + 1 \in 1 .. last /\ i + 1 + 0 = i + 1 /\ 0 \in 0 .. j - i - 1
    BY <1>1
  <2> QED BY <1>2, <2>1
<1>5. ASSUME NEW k \in 0 .. (j - i - 1) - 1, k \in S PROVE k + 1 \in S
  <2>1. /\ i + 1 + k \in 1 .. last - 1 /\ i + 1 + k \in 1 .. last /\ i + 1 \in 1 .. last
        /\ i + 1 + (k + 1) = (i + 1 + k) + 1 /\ i + 1 + (k + 1) \in 1 .. last
        /\ k + 1 \in 0 .. j - i - 1
    BY <1>1
  <2>2. At(i + 1 + k) < At(i + 1 + (k + 1))
    BY <1>3, <2>1
  <2>3. At(i + 1) <= At(i + 1 + k)
    BY <1>5
  <2>4. At(i + 1) \in Nat /\ At(i + 1 + k) \in Nat /\ At(i + 1 + (k + 1)) \in Nat
    BY <1>2, <2>1
  <2> QED BY <2>1, <2>2, <2>3, <2>4
<1>6. j - i - 1 \in S
  <2>1. j - i - 1 \in Nat
    BY <1>1
  <2> HIDE DEF S
  <2> QED BY <1>4, <1>5, <2>1, AllOfThem
<1>7. i + 1 + (j - i - 1) = j
  BY <1>1
<1> USE DEF At
<1> QED BY <1>6, <1>7

\* The walk stays a whole number of sectors behind the start of its group, and in
\* front of the next group.
LEMMA WalkFits ==
  ASSUME NEW f \in Flashes, Fits(f), NEW n \in 0 .. f.props.end - f.props.start
  PROVE  LET w == Walk(f.props)[n]
             gs == f.props.sectors
             offset == w[1] - f.props.start
         IN  /\ \E k \in Nat : offset = k * gs[w[2]].size + gs[w[2]].address
             /\ w[2] < Len(gs) => offset + gs[w[2]].size <= gs[w[2] + 1].address
<1> DEFINE last == f.props.end - f.props.start
           start == f.props.start
           count == Len(f.props.sectors)
           At(g) == f.props.sectors[g].address
           Size(g) == f.props.sectors[g].size
           Addr(i) == Walk(f.props)[i][1]
           G(i) == Walk(f.props)[i][2]
           Whole(x, g) == \E k \in Nat : x - start = k * Size(g) + At(g)
           Room(x, g) == g < count => x - start + Size(g) <= At(g + 1)
           S == {i \in 0 .. last : Whole(Addr(i), G(i)) /\ Room(Addr(i), G(i))}
<1>1. start \in Nat /\ last \in Nat /\ count \in Nat /\ count >= 1 /\ At(1) = 0
  BY FlashIs
<1>2. \A g \in 1 .. count : At(g) \in Nat /\ Size(g) \in Nat \ {0}
  BY GroupsAre
<1>3. \A g \in 1 .. count - 1 : At(g) < At(g + 1) /\ (At(g + 1) - At(g)) % Size(g) = 0
  BY DEF Fits
<1>4. \A i \in 0 .. last : Addr(i) \in Nat /\ G(i) \in 1 .. count /\ Addr(i) >= start + i
  BY WalkType
<1>5. /\ Addr(0) = start /\ G(0) = GroupAt(f.props, start, 1)
      /\ \A i \in 1 .. last : /\ Addr(i) = Addr(i - 1) + Size(G(i - 1))
                              /\ G(i) = GroupAt(f.props, Addr(i), G(i - 1))
  <2> DEFINE W(i) == Walk(f.props)[i]
  <2>1. W(0) = <<start, GroupAt(f.props, start, 1)>> /\ \A i \in 1 .. last : W(i) = After(f.props, W(i - 1))
    BY WalkIs
  <2> HIDE DEF W
  <2>2. ASSUME NEW i \in 1 .. last
        PROVE  /\ W(i)[1] = W(i - 1)[1] + Size(W(i - 1)[2])
               /\ W(i)[2] = GroupAt(f.props, W(i)[1], W(i - 1)[2])
    <3>1. W(i) = After(f.props, W(i - 1))
      BY <2>1
    <3> QED BY <3>1 DEF After
  <2>3. W(0)[1] = start /\ W(0)[2] = GroupAt(f.props, start, 1)
    BY <2>1
  <2> USE DEF W
  <2> QED BY <2>2, <2>3
<1>6. \A x, g : GroupAt(f.props, x, g) = IF g < count /\ start + At(g + 1) <= x THEN g + 1 ELSE g
  BY DEF GroupAt
<1> HIDE DEF start, last, count, At, Size, Addr, G
\* There is room for one sector behind a whole number of them in front of the next group.
<1>7. ASSUME NEW x \in Nat, NEW g \in 1 .. count, Whole(x, g), x >= start,
             g < count => x - start < At(g + 1)
      PROVE  Room(x, g)
  <2> SUFFICES ASSUME g < count PROVE x - start + Size(g) <= At(g + 1)
    OBVIOUS
  <2>1. PICK k \in Nat : x - start = k * Size(g) + At(g)
    BY <1>7
  <2> DEFINE gap == At(g + 1) - At(g)
             q == gap \div Size(g)
             z == Size(g)
  <2>2. g \in 1 .. count - 1 /\ g + 1 \in 1 .. count
    BY <1>1
  <2>3. gap \in Nat /\ gap % z = 0 /\ z \in Nat \ {0} /\ At(g) \in Nat /\ At(g + 1) \in Nat
    BY <1>2, <1>3, <2>2
  <2>4. q \in Nat /\ gap = q * z
    <3> HIDE DEF gap
    <3>1. gap \div z \in Nat /\ gap = (gap \div z) * z + (gap % z) /\ (gap \div z) * z \in Nat
      BY <2>3, Divide
    <3> QED BY <2>3, <3>1
  <2> HIDE DEF q
  <2>5. k * z \in Nat /\ x - start = k * z + At(g) /\ x - start < At(g + 1)
    BY <1>7, <2>1, <2>3
  <2>6. k * z < q * z /\ q * z = At(g + 1) - At(g) /\ q * z \in Nat
    BY <2>3, <2>4, <2>5
  <2> HIDE DEF z, gap
  <2>7. k < q
    <3>1. q = k => k * z = q * z
      OBVIOUS
    <3>2. q < k => q * z + z <= k * z
      BY <2>3, <2>4, MoreMultiples
    <3> QED BY <2>3, <2>4, <2>5, <2>6, <3>1, <3>2
  <2>8. k * z + z <= q * z
    BY <2>3, <2>4, <2>7, MoreMultiples
  <2>9. x - start + z <= At(g + 1)
    BY <2>3, <2>5, <2>6, <2>8
  <2> QED BY <2>9 DEF z
<1>8. ASSUME NEW g \in 1 .. count, NEW x \in Nat, x = start + At(g)
      PROVE  Whole(x, g) /\ Room(x, g)
  <2>1. x - start = 0 * Size(g) + At(g)
    <3>1. At(g) \in Nat /\ Size(g) \in Nat /\ 0 * Size(g) = 0
      BY <1>2
    <3> QED BY <1>1, <1>8, <3>1
  <2>2. Whole(x, g)
    BY <2>1
  <2>3. x >= start /\ (g < count => x - start < At(g + 1))
    <3>1. At(g) \in Nat /\ (g < count => At(g) < At(g + 1))
      BY <1>1, <1>2, <1>3
    <3> QED BY <1>1, <1>8, <3>1
  <2> HIDE DEF Whole, Room
  <2> QED BY <1>7, <2>2, <2>3
<1>9. 0 \in S
  <2>1. 1 \in 1 .. count /\ (1 < count => At(1) < At(2) /\ At(2) \in Nat)
    BY <1>1, <1>2, <1>3
  <2>2. G(0) = 1
    BY <1>1, <1>5, <1>6, <2>1
  <2>3. Addr(0) \in Nat /\ Addr(0) = start + At(G(0)) /\ G(0) \in 1 .. count
    BY <1>1, <1>5, <2>1, <2>2
  <2>4. Whole(Addr(0), G(0)) /\ Room(Addr(0), G(0))
    <3> HIDE DEF Whole, Room
    <3> QED BY <1>8, <2>3
  <2> QED BY <1>1, <2>4
<1>10. ASSUME NEW i \in 0 .. n - 1, i \in S PROVE i + 1 \in S
  <2> DEFINE g == G(i)
             x == Addr(i)
             y == Addr(i + 1)
  <2>1. i + 1 \in 1 .. last /\ i + 1 \in 0 .. last /\ i + 1 - 1 = i /\ i \in 0 .. last
    BY <1>1 DEF last
  <2>2. Whole(x, g) /\ Room(x, g)
    BY <1>10
  <2>3. /\ y = x + Size(g) /\ x \in Nat /\ y \in Nat /\ g \in 1 .. count /\ x >= start
        /\ G(i + 1) = IF g < count /\ start + At(g + 1) <= y THEN g + 1 ELSE g
        /\ At(g) \in Nat /\ Size(g) \in Nat \ {0}
    BY <1>1, <1>2, <1>4, <1>5, <1>6, <2>1
  <2>4. Whole(y, G(i + 1)) /\ Room(y, G(i + 1))
    <3>1. CASE g < count /\ start + At(g + 1) <= y
      <4>1. g + 1 \in 1 .. count /\ At(g + 1) \in Nat /\ G(i + 1) = g + 1
        BY <1>1, <1>2, <2>3, <3>1
      <4>2. y - start <= At(g + 1)
        BY <1>1, <2>2, <2>3, <3>1, <4>1
      <4>3. y = start + At(g + 1)
        BY <1>1, <2>3, <3>1, <4>1, <4>2
      <4> HIDE DEF Whole, Room, g, x, y
      <4> QED BY <1>8, <2>3, <4>1, <4>3
    <3>2. CASE ~(g < count /\ start + At(g + 1) <= y)
      <4>1. G(i + 1) = g
        BY <2>3, <3>2
      <4>2. g < count => y - start < At(g + 1)
        <5>1. g < count => At(g + 1) \in Nat
          BY <1>1, <1>2, <2>3
        <5> QED BY <1>1, <2>3, <3>2, <5>1
      <4>3. Whole(y, g)
        <5>1. PICK k \in Nat : x - start = k * Size(g) + At(g)
          BY <2>2
        <5> DEFINE z == Size(g)
        <5>2. z \in Nat /\ k * z \in Nat /\ (k + 1) * z = k * z + z
          BY <2>3, SumOfMultiples
        <5>3. y - start = (k + 1) * z + At(g)
          <6>1. x - start = k * z + At(g) /\ y = x + z
            BY <2>3, <5>1
          <6> HIDE DEF z
          <6> QED BY <1>1, <2>3, <5>2, <6>1
        <5>4. k + 1 \in Nat
          OBVIOUS
        <5> QED BY <5>3, <5>4
      <4>4. y >= start
        BY <1>1, <2>3
      <4> HIDE DEF Whole, Room, g, x, y
      <4> QED BY <1>7, <2>3, <4>1, <4>2, <4>3, <4>4
    <3> QED BY <3>1, <3>2
  <2> HIDE DEF Whole, Room
  <2> QED BY <2>1, <2>4
<1>11. n \in S
  <2>1. n \in Nat
    BY <1>1 DEF last
  <2> HIDE DEF S
  <2> QED BY <1>9, <1>10, <2>1, AllOfThem
<1>12. Whole(Addr(n), G(n)) /\ Room(Addr(n), G(n))
  BY <1>11
<1> USE DEF start, last, count, At, Size, Addr, G
<1> QED BY <1>12

\* Each byte of the flash is in one sector of the walk, the one that sector_info
\* finds.
LEMMA SectorsTile ==
  ASSUME NEW f \in Flashes, Fits(f)
  PROVE  /\ \A b \in f.props.start .. f.props.end - 1 : \E s \in IterSectors(f.props) : b \in Bytes(s)
         /\ \A s \in IterSectors(f.props) : \A b \in Bytes(s) : SectorInfo(f.props, b) = s
<1> DEFINE last == f.props.end - f.props.start
           start == f.props.start
           count == Len(f.props.sectors)
           At(g) == f.props.sectors[g].address
           Size(g) == f.props.sectors[g].size
           Addr(i) == Walk(f.props)[i][1]
           G(i) == Walk(f.props)[i][2]
<1>1. start \in Nat /\ last \in Nat /\ f.props.end \in Nat /\ last = f.props.end - start
  BY FlashIs
<1>2. \A g \in 1 .. count : At(g) \in Nat /\ Size(g) \in Nat \ {0}
  BY GroupsAre
<1>3. \A i \in 0 .. last : /\ Addr(i) \in Nat /\ G(i) \in 1 .. count /\ Addr(i) >= start + i
                           /\ Size(G(i)) \in Nat \ {0}
  BY WalkType
<1>4. Addr(0) = start /\ \A i \in 1 .. last : Addr(i) = Addr(i - 1) + Size(G(i - 1))
  <2> DEFINE W(i) == Walk(f.props)[i]
  <2>1. W(0) = <<start, GroupAt(f.props, start, 1)>> /\ \A i \in 1 .. last : W(i) = After(f.props, W(i - 1))
    BY WalkIs
  <2> HIDE DEF W
  <2>2. ASSUME NEW i \in 1 .. last PROVE W(i)[1] = W(i - 1)[1] + Size(W(i - 1)[2])
    <3>1. W(i) = After(f.props, W(i - 1))
      BY <2>1
    <3> QED BY <3>1 DEF After
  <2>3. W(0)[1] = start
    BY <2>1
  <2> USE DEF W
  <2> QED BY <2>2, <2>3
<1>5. \A i \in 0 .. last : Addr(i) < f.props.end
        => <<Addr(i), Addr(i) + Size(G(i))>> \in IterSectors(f.props)
  <2> TAKE i \in 0 .. last
  <2>1. Walk(f.props)[i] \in Range(Walk(f.props))
    BY WalkIs DEF Range
  <2> QED BY <2>1 DEF IterSectors
<1>6. ASSUME NEW b \in start .. f.props.end - 1
      PROVE  \E s \in IterSectors(f.props) : b \in Bytes(s)
  <2> HIDE DEF start, last, Addr, Size, G
  <2> DEFINE Beyond == {i \in 0 .. last : b < Addr(i) + Size(G(i))}
  <2>1. b \in Nat /\ start <= b /\ b < f.props.end
    BY <1>1, <1>6
  <2>2. b - start \in 0 .. last
    BY <1>1, <2>1
  <2>3. b - start \in Beyond
    <3>1. Addr(b - start) \in Nat /\ Addr(b - start) >= start + (b - start) /\ Size(G(b - start)) \in Nat \ {0}
      BY <1>3, <2>2
    <3> DEFINE a == Addr(b - start)
               z == Size(G(b - start))
    <3>2. a \in Nat /\ a >= start + (b - start) /\ z \in Nat \ {0}
      BY <3>1
    <3> HIDE DEF a, z
    <3>3. b < a + z
      BY <1>1, <2>1, <3>2
    <3> USE DEF a, z
    <3> QED BY <2>2, <3>3
  <2>4. Beyond \in SUBSET Nat /\ Beyond # {}
    BY <1>1, <2>3
  <2> HIDE DEF Beyond
  <2>5. PICK i \in Beyond : \A k \in Beyond : i <= k
    BY <2>4, LeastElement
  <2>6. i \in 0 .. last /\ b < Addr(i) + Size(G(i))
    BY <2>5 DEF Beyond
  <2>7. Addr(i) <= b
    <3>1. CASE i = 0
      BY <1>4, <2>1, <3>1
    <3>2. CASE i # 0
      <4>1. i - 1 \in 0 .. last /\ i \in 1 .. last /\ i - 1 < i
        BY <1>1, <2>6, <3>2
      <4>2. i - 1 \notin Beyond
        BY <1>1, <2>4, <2>5, <4>1
      <4>3. ~(b < Addr(i - 1) + Size(G(i - 1)))
        BY <4>1, <4>2 DEF Beyond
      <4>4. Addr(i) = Addr(i - 1) + Size(G(i - 1)) /\ Addr(i) \in Nat
        BY <1>3, <1>4, <4>1
      <4> QED BY <2>1, <4>3, <4>4
    <3> QED BY <3>1, <3>2
  <2> DEFINE s == <<Addr(i), Addr(i) + Size(G(i))>>
  <2>8. Addr(i) \in Nat /\ Size(G(i)) \in Nat
    BY <1>3, <2>6
  <2>9. Addr(i) < f.props.end
    BY <1>1, <2>1, <2>7, <2>8
  <2>10. b \in Bytes(s)
    BY <2>1, <2>6, <2>7, <2>8 DEF Bytes
  <2>11. s \in IterSectors(f.props)
    BY <1>5, <2>6, <2>9
  <2> QED BY <2>10, <2>11
<1>7. ASSUME NEW s \in IterSectors(f.props), NEW b \in Bytes(s)
      PROVE  SectorInfo(f.props, b) = s
  <2>1. PICK i \in 0 .. last : s[1] = Addr(i) /\ s[2] = Addr(i) + Size(G(i))
    BY SectorIsRange
  <2>2. s = <<s[1], s[2]>>
    BY SectorIsRange
  <2>3. /\ \E k \in Nat : Addr(i) - start = k * Size(G(i)) + At(G(i))
        /\ G(i) < count => Addr(i) - start + Size(G(i)) <= At(G(i) + 1)
    BY WalkFits
  <2>4. \A j \in 1 .. count, g \in 1 .. count : g < j => At(g + 1) <= At(j)
    BY GroupsAscend
  <2>5. /\ SectorInfo(f.props, b) =
             LET gs == {j \in DOMAIN f.props.sectors : At(j) <= b - start}
                 g == Max(gs)
                 base == start + At(g) + (((b - start) - At(g)) \div Size(g)) * Size(g)
             IN  <<base, base + Size(g)>>
        /\ DOMAIN f.props.sectors = 1 .. count /\ count \in Nat
    BY FlashesAssumption DEF SectorInfo
  <2> DEFINE a == Addr(i)
             g == G(i)
             z == Size(g)
  <2>6. a \in Nat /\ g \in 1 .. count /\ a >= start + i /\ z \in Nat \ {0} /\ At(g) \in Nat
    BY <1>2, <1>3
  <2>7. PICK k \in Nat : a - start = k * z + At(g)
    BY <2>3
  <2>8. g < count => a - start + z <= At(g + 1)
    BY <2>3
  <2>9. b \in Nat /\ a <= b /\ b < a + z
    <3>1. s[1] = a /\ s[2] = a + z /\ b \in s[1] .. s[2] - 1
      BY <2>1 DEF Bytes
    <3> HIDE DEF a, z
    <3> QED BY <2>6, <3>1
  <2> HIDE DEF start, last, count, At, Size, Addr, G, a, g, z
  <2> DEFINE gs == {j \in 1 .. count : At(j) <= b - start}
             r == b - a
  <2>10. r \in 0 .. z - 1 /\ k * z \in Nat /\ a >= start /\ b - start \in Nat
    BY <1>1, <2>6, <2>9
  <2>11. At(g) <= b - start /\ (b - start) - At(g) = k * z + r /\ (b - start) - At(g) \in Nat
    BY <1>1, <2>6, <2>7, <2>9, <2>10
  <2>12. ASSUME NEW j \in gs PROVE j <= g
    <3> SUFFICES ASSUME g < j PROVE FALSE
      BY <2>5, <2>6
    <3>1. j \in 1 .. count /\ At(j) <= b - start
      OBVIOUS
    <3>2. g < count /\ At(g + 1) <= At(j) /\ At(j) \in Nat /\ g + 1 \in 1 .. count
      BY <1>2, <2>4, <2>5, <2>6, <3>1
    <3>3. At(g + 1) \in Nat /\ a - start + z <= At(g + 1)
      BY <1>2, <2>8, <3>2
    <3> QED BY <1>1, <2>6, <2>9, <3>1, <3>2, <3>3
  <2>13. Max(gs) = g
    <3>1. g \in gs /\ gs \in SUBSET Nat /\ gs # {}
      BY <2>5, <2>6, <2>11
    <3>2. g \in Nat
      BY <2>6
    <3>3. Max(gs) \in gs /\ \A j \in gs : Max(gs) >= j
      <4> HIDE DEF gs
      <4> QED BY <2>12, <3>1, <3>2, MaxIs
    <3>4. Max(gs) \in Nat /\ Max(gs) <= g /\ Max(gs) >= g
      BY <2>12, <3>1, <3>3
    <3> HIDE DEF gs
    <3> QED BY <3>2, <3>4
  <2> DEFINE o == (b - start) - At(g)
  <2>14. o \in Nat /\ o = k * z + r
    BY <2>11
  <2>15. o \div z = k
    <3> HIDE DEF o, r
    <3> QED BY <2>6, <2>10, <2>14, DivideBack
  <2>16. start + At(g) + (o \div z) * z = a
    <3>1. start + At(g) + k * z = a
      <4> DEFINE kz == k * z
      <4>1. kz \in Nat /\ a - start = kz + At(g)
        BY <2>7, <2>10
      <4> HIDE DEF kz, o, r
      <4>2. start + At(g) + kz = a
        BY <1>1, <2>6, <4>1
      <4> USE DEF kz
      <4> QED BY <4>2
    <3> QED BY <2>15, <3>1
  <2>17. SectorInfo(f.props, b) =
           <<start + At(g) + (o \div z) * z, start + At(g) + (o \div z) * z + Size(g)>>
    <3>1. {j \in DOMAIN f.props.sectors : At(j) <= b - start} = gs
      BY <2>5
    <3>2. z = Size(g)
      BY DEF z
    <3> HIDE DEF gs
    <3> QED BY <2>5, <2>13, <3>1, <3>2
  <2>18. SectorInfo(f.props, b) = <<a, a + z>>
    <3>1. z = Size(g)
      BY DEF z
    <3> HIDE DEF o
    <3> QED BY <2>16, <2>17, <3>1
  <2>19. s[1] = a /\ s[2] = a + z
    BY <2>1 DEF a, z, g
  <2> QED BY <2>2, <2>18, <2>19
<1> QED BY <1>6, <1>7

-----------------------------------------------------------------------------
(* The invariant, and what it says of every layout.                        *)

\* A block is staged, or refused.
THEOREM BuilderInvHolds == BuilderSpec => []BuilderInv
<1>1. BuilderInit => BuilderInv
  BY DEF BuilderInit, BuilderInv, IsData, Staged
<1>2. BuilderInv /\ [BuilderNext]_builderVars => BuilderInv'
  <2> SUFFICES ASSUME BuilderInv, [BuilderNext]_builderVars PROVE BuilderInv'
    OBVIOUS
  <2>1. ASSUME NEW a \in 0 .. MaxAddr - 1, NEW len \in 0 .. MaxLen, Stage(a, len)
        PROVE  BuilderInv'
    <3>1. a \in Nat /\ len \in Nat
      BY BoundsAssumption
    <3>2. data' = AddData(data, a, len) /\ flash' = flash
          /\ asked' = IF AddRefused(data, a, len) THEN asked ELSE asked \cup (a .. a + len - 1)
      BY <2>1 DEF Stage
    <3>3. IsData(data) /\ Staged(data) = asked /\ flash \in Flashes
      BY DEF BuilderInv
    <3>4. IsData(data') /\ Staged(data') = asked'
      <4> HIDE DEF IsData, Staged, AddRefused
      <4> QED BY <3>1, <3>2, <3>3, AddStages
    <3> QED BY <3>2, <3>3, <3>4 DEF BuilderInv, IsData, Staged
  <2>2. CASE UNCHANGED builderVars
    BY <2>2 DEF builderVars, BuilderInv, IsData, Staged
  <2> QED BY <2>1, <2>2 DEF BuilderNext
<1> QED BY <1>1, <1>2, PTL DEF BuilderSpec

\* add_data (builder.rs 182-220): what is staged are the bytes of the accepted
\* blocks, each once; a block is refused if and only if it overlaps one of them.
THEOREM StagesWhatIsAccepted == BuilderSpec => []StagedExactly
<1>1. BuilderInv => StagedExactly
  <2> SUFFICES ASSUME BuilderInv PROVE StagedExactly
    OBVIOUS
  <2>1. IsData(data) /\ Staged(data) = asked
    BY DEF BuilderInv
  <2>2. ASSUME NEW a \in 0 .. MaxAddr - 1, NEW len \in 0 .. MaxLen
        PROVE  AddRefused(data, a, len) <=> (a .. a + len - 1) \cap asked # {}
    <3>1. a \in Nat /\ len \in Nat
      BY BoundsAssumption
    <3> QED BY <2>1, <3>1, RefusedExactly
  <2>3. \A a, b \in DOMAIN data : a < b => a + data[a] <= b
    BY <2>1 DEF IsData
  <2> QED BY <2>1, <2>2, <2>3 DEF StagedExactly
<1> QED BY <1>1, BuilderInvHolds, PTL

\* A page or sector that meets the region lies in it.
LEMMA RegionIs ==
  ASSUME NEW f \in Flashes, NEW r \in Nat \X Nat, r[1] < r[2]
  PROVE  /\ ContainsRange(f.region, r) <=> Bytes(r) \subseteq Bytes(f.region)
         /\ Bytes(r) # {}
<1> DEFINE g == f.region
<1>1. g[1] \in Nat /\ g[2] \in Nat
  BY FlashesAssumption
<1> HIDE DEF g
<1>2. r[1] \in Nat /\ r[2] \in Nat
  OBVIOUS
<1>3. Bytes(r) # {} /\ r[1] \in Bytes(r) /\ r[2] - 1 \in Bytes(r)
  BY <1>2 DEF Bytes
<1>4. ContainsRange(g, r) <=> Bytes(r) \subseteq Bytes(g)
  <2>1. ASSUME ContainsRange(g, r) PROVE Bytes(r) \subseteq Bytes(g)
    BY <1>1, <1>2, <2>1 DEF ContainsRange, Bytes
  <2>2. ASSUME Bytes(r) \subseteq Bytes(g) PROVE ContainsRange(g, r)
    BY <1>2, <1>3, <2>2 DEF ContainsRange
  <2> QED BY <2>1, <2>2
<1> USE DEF g
<1> QED BY <1>3, <1>4

\* What fitting means for the bytes of the flash.
LEMMA Fitting ==
  ASSUME NEW f \in Flashes, Fits(f)
  PROVE  /\ Bytes(f.region) \subseteq f.props.start .. f.props.end - 1
         /\ \A r \in IterPages(f.props) \cup IterSectors(f.props) : \A b \in Bytes(r) :
              b \in Bytes(f.region) => ContainsRange(f.region, r)
         /\ \A p \in IterPages(f.props), s \in IterSectors(f.props) : \A b \in Bytes(p) :
              b \in Bytes(s) => Bytes(p) \subseteq Bytes(s) \/ Bytes(s) \subseteq Bytes(p)
<1>1. Bytes(f.region) \subseteq f.props.start .. f.props.end - 1
  BY DEF Fits
<1>2. ASSUME NEW r \in IterPages(f.props) \cup IterSectors(f.props), NEW b \in Bytes(r),
             b \in Bytes(f.region)
      PROVE  ContainsRange(f.region, r)
  <2>1. r \in Nat \X Nat /\ r[1] < r[2]
    BY PageIsRange, SectorIsRange
  <2>2. Bytes(r) \cap Bytes(f.region) \in {{}, Bytes(r)}
    BY DEF Fits
  <2>3. Bytes(r) \subseteq Bytes(f.region)
    BY <1>2, <2>2, Zenon
  <2> QED BY <2>1, <2>3, RegionIs
<1>3. ASSUME NEW p \in IterPages(f.props), NEW s \in IterSectors(f.props), NEW b \in Bytes(p),
             b \in Bytes(s)
      PROVE  Bytes(p) \subseteq Bytes(s) \/ Bytes(s) \subseteq Bytes(p)
  <2>1. Bytes(p) \cap Bytes(s) \in {{}, Bytes(p), Bytes(s)}
    BY DEF Fits
  <2> QED BY <1>3, <2>1, Zenon
<1> QED BY <1>1, <1>2, <1>3

\* build_sectors_and_pages erases only sectors that hold data or begin on a page
\* with data, whatever the geometry.
THEOREM ErasesNothingElse == BuilderSpec => []NothingElseErased
<1>1. BuilderInv => NothingElseErased
  <2> SUFFICES ASSUME BuilderInv, NEW s \in SectorsToErase(flash.props, flash.region, data)
               PROVE  \E a \in asked : a \in Bytes(s) \/ a \in Bytes(PageInfo(flash.props, s[1]))
    BY DEF NothingElseErased
  <2>1. IsData(data) /\ Staged(data) = asked /\ flash \in Flashes
    BY DEF BuilderInv
  <2>2. /\ s \in IterSectors(flash.props)
        /\ HasData(data, s) \/ HasData(data, PageInfo(flash.props, s[1]))
    BY DEF SectorsToErase
  <2>3. s \in Nat \X Nat /\ s[1] < s[2] /\ s[1] \in Nat
    BY <2>1, <2>2, SectorIsRange
  <2> DEFINE p == PageInfo(flash.props, s[1])
  <2>4. p \in Nat \X Nat /\ p[1] < p[2]
    BY <2>1, <2>3, PageInfoIsRange
  <2> HIDE DEF p
  <2>5. HasData(data, s) => Bytes(s) \cap asked # {}
    BY <2>1, <2>3, HasDataIs
  <2>6. HasData(data, p) => Bytes(p) \cap asked # {}
    BY <2>1, <2>4, HasDataIs
  <2> USE DEF p
  <2> QED BY <2>2, <2>5, <2>6
<1> QED BY <1>1, BuilderInvHolds, PTL

\* Two pages or sectors that share a byte are the same.
LEMMA SharedByte ==
  ASSUME NEW f \in Flashes, Fits(f)
  PROVE  /\ \A p, q \in IterPages(f.props) : Bytes(p) \cap Bytes(q) # {} => p = q
         /\ \A s, t \in IterSectors(f.props) : Bytes(s) \cap Bytes(t) # {} => s = t
<1>1. /\ \A p \in IterPages(f.props) : \A b \in Bytes(p) : PageInfo(f.props, b) = p
      /\ \A s \in IterSectors(f.props) : \A b \in Bytes(s) : SectorInfo(f.props, b) = s
  BY PagesTile, SectorsTile
<1>2. ASSUME NEW p \in IterPages(f.props), NEW q \in IterPages(f.props), NEW b \in Bytes(p) \cap Bytes(q)
      PROVE  p = q
  <2>1. PageInfo(f.props, b) = p /\ PageInfo(f.props, b) = q
    BY <1>1
  <2> QED BY <2>1
<1>3. ASSUME NEW s \in IterSectors(f.props), NEW t \in IterSectors(f.props), NEW b \in Bytes(s) \cap Bytes(t)
      PROVE  s = t
  <2>1. SectorInfo(f.props, b) = s /\ SectorInfo(f.props, b) = t
    BY <1>1
  <2> QED BY <2>1
<1> QED BY <1>2, <1>3, Zenon

\* The page and the sector that hold a byte of the region, and what is staged in them.
LEMMA PlaceOfByte ==
  ASSUME NEW f \in Flashes, Fits(f), NEW d, IsData(d), NEW b \in Bytes(f.region)
  PROVE  \E p \in IterPages(f.props), s \in IterSectors(f.props) :
           /\ b \in Bytes(p) /\ b \in Bytes(s)
           /\ ContainsRange(f.region, p) /\ ContainsRange(f.region, s)
           /\ HasData(d, p) <=> Bytes(p) \cap Staged(d) # {}
           /\ HasData(d, s) <=> Bytes(s) \cap Staged(d) # {}
           /\ Bytes(p) \subseteq Bytes(s) => SectorInfo(f.props, p[1]) = s
           /\ Bytes(s) \subseteq Bytes(p) => PageInfo(f.props, s[1]) = p
           /\ Bytes(p) \subseteq Bytes(s) \/ Bytes(s) \subseteq Bytes(p)
<1>1. b \in f.props.start .. f.props.end - 1
  BY Fitting
<1>2. b \in Nat
  BY <1>1, FlashesAssumption
<1> DEFINE p == PageInfo(f.props, b)
<1>3. p \in IterPages(f.props) /\ b \in Bytes(p)
  BY <1>1, <1>2, PagesTile, PageInfoIsRange
<1> HIDE DEF p
<1>4. PICK s \in IterSectors(f.props) : b \in Bytes(s)
  BY <1>1, SectorsTile
<1>5. ContainsRange(f.region, p) /\ ContainsRange(f.region, s)
  BY <1>3, <1>4, Fitting
<1>6. Bytes(p) \subseteq Bytes(s) \/ Bytes(s) \subseteq Bytes(p)
  BY <1>3, <1>4, Fitting
<1>7. /\ p \in Nat \X Nat /\ p[1] < p[2] /\ p[1] \in Bytes(p)
      /\ s \in Nat \X Nat /\ s[1] < s[2] /\ s[1] \in Bytes(s)
  BY <1>3, <1>4, PageIsRange, SectorIsRange
<1>8. HasData(d, p) <=> Bytes(p) \cap Staged(d) # {}
  BY <1>7, HasDataIs
<1>9. HasData(d, s) <=> Bytes(s) \cap Staged(d) # {}
  BY <1>7, HasDataIs
<1>10. Bytes(p) \subseteq Bytes(s) => SectorInfo(f.props, p[1]) = s
  BY <1>4, <1>7, SectorsTile
<1>11. Bytes(s) \subseteq Bytes(p) => PageInfo(f.props, s[1]) = p
  BY <1>3, <1>7, PagesTile
<1> QED BY <1>3, <1>4, <1>5, <1>6, <1>8, <1>9, <1>10, <1>11

\* A staged byte of the region is on a page that is programmed.
LEMMA StagedIsProgrammed ==
  ASSUME NEW f \in Flashes, Fits(f), NEW d, IsData(d), NEW e \in BOOLEAN,
         NEW b \in Bytes(f.region) \cap Staged(d)
  PROVE  \E p \in PagesToProgram(f.props, f.region, d, e) : b \in Bytes(p)
<1>1. PICK p \in IterPages(f.props) :
        b \in Bytes(p) /\ ContainsRange(f.region, p) /\ (HasData(d, p) <=> Bytes(p) \cap Staged(d) # {})
  BY PlaceOfByte
<1>2. HasData(d, p)
  BY <1>1
<1> QED BY <1>1, <1>2 DEF PagesToProgram

\* What is programmed has been erased.
LEMMA ProgrammedIsErased ==
  ASSUME NEW f \in Flashes, Fits(f), NEW d, IsData(d), NEW e \in BOOLEAN,
         NEW q \in PagesToProgram(f.props, f.region, d, e), NEW b \in Bytes(q)
  PROVE  \E s \in SectorsToErase(f.props, f.region, d) : b \in Bytes(s)
<1>1. /\ q \in IterPages(f.props) /\ ContainsRange(f.region, q)
      /\ HasData(d, q) \/ HasData(d, SectorInfo(f.props, q[1]))
  BY DEF PagesToProgram
<1>2. q \in Nat \X Nat /\ q[1] < q[2] /\ q[1] \in Bytes(q)
  BY <1>1, PageIsRange
<1>3. Bytes(q) \subseteq Bytes(f.region)
  BY <1>1, <1>2, RegionIs
<1>4. \E s \in IterSectors(f.props) :
        /\ b \in Bytes(s) /\ ContainsRange(f.region, s)
        /\ HasData(d, s) \/ HasData(d, PageInfo(f.props, s[1]))
  <2>1. CASE HasData(d, q)
    <3>1. PICK p \in IterPages(f.props), s \in IterSectors(f.props) :
            /\ b \in Bytes(p) /\ b \in Bytes(s) /\ ContainsRange(f.region, s)
            /\ HasData(d, p) <=> Bytes(p) \cap Staged(d) # {}
            /\ HasData(d, s) <=> Bytes(s) \cap Staged(d) # {}
            /\ Bytes(s) \subseteq Bytes(p) => PageInfo(f.props, s[1]) = p
            /\ Bytes(p) \subseteq Bytes(s) \/ Bytes(s) \subseteq Bytes(p)
      BY <1>3, PlaceOfByte
    <3>2. p = q
      BY <1>1, <3>1, SharedByte
    <3>3. HasData(d, s) \/ HasData(d, PageInfo(f.props, s[1]))
      <4>1. CASE Bytes(p) \subseteq Bytes(s)
        BY <2>1, <3>1, <3>2, <4>1
      <4>2. CASE Bytes(s) \subseteq Bytes(p)
        BY <2>1, <3>1, <3>2, <4>2
      <4> QED BY <3>1, <4>1, <4>2
    <3> QED BY <3>1, <3>3
  <2>2. CASE ~HasData(d, q)
    <3>1. q[1] \in Bytes(f.region)
      BY <1>2, <1>3
    <3>2. PICK p \in IterPages(f.props), s \in IterSectors(f.props) :
            /\ q[1] \in Bytes(p) /\ q[1] \in Bytes(s) /\ ContainsRange(f.region, s)
            /\ HasData(d, p) <=> Bytes(p) \cap Staged(d) # {}
            /\ HasData(d, s) <=> Bytes(s) \cap Staged(d) # {}
            /\ Bytes(p) \subseteq Bytes(s) \/ Bytes(s) \subseteq Bytes(p)
      BY <3>1, PlaceOfByte
    <3>3. p = q
      BY <1>1, <1>2, <3>2, SharedByte
    <3>4. SectorInfo(f.props, q[1]) = s
      BY <3>2, SectorsTile
    <3>5. HasData(d, s)
      BY <1>1, <2>2, <3>4
    <3>6. Bytes(q) \subseteq Bytes(s)
      BY <2>2, <3>2, <3>3, <3>5
    <3> QED BY <3>2, <3>5, <3>6
  <2> QED BY <2>1, <2>2
<1> QED BY <1>4 DEF SectorsToErase

\* With include_empty_pages, what is erased is programmed.
LEMMA ErasedIsProgrammed ==
  ASSUME NEW f \in Flashes, Fits(f), NEW d, IsData(d),
         NEW t \in SectorsToErase(f.props, f.region, d), NEW b \in Bytes(t)
  PROVE  \E p \in PagesToProgram(f.props, f.region, d, TRUE) : b \in Bytes(p)
<1>1. /\ t \in IterSectors(f.props) /\ ContainsRange(f.region, t)
      /\ HasData(d, t) \/ HasData(d, PageInfo(f.props, t[1]))
  BY DEF SectorsToErase
<1>2. t \in Nat \X Nat /\ t[1] < t[2] /\ t[1] \in Bytes(t)
  BY <1>1, SectorIsRange
<1>3. Bytes(t) \subseteq Bytes(f.region)
  BY <1>1, <1>2, RegionIs
<1>4. PICK p \in IterPages(f.props), s \in IterSectors(f.props) :
        /\ b \in Bytes(p) /\ b \in Bytes(s) /\ ContainsRange(f.region, p)
        /\ HasData(d, p) <=> Bytes(p) \cap Staged(d) # {}
        /\ HasData(d, s) <=> Bytes(s) \cap Staged(d) # {}
        /\ Bytes(p) \subseteq Bytes(s) => SectorInfo(f.props, p[1]) = s
        /\ Bytes(p) \subseteq Bytes(s) \/ Bytes(s) \subseteq Bytes(p)
  BY <1>3, PlaceOfByte
<1>5. s = t
  BY <1>1, <1>4, SharedByte
<1>6. CASE HasData(d, t)
  <2>1. CASE Bytes(p) \subseteq Bytes(s)
    <3>1. HasData(d, SectorInfo(f.props, p[1]))
      BY <1>4, <1>5, <1>6, <2>1
    <3> QED BY <1>4, <3>1 DEF PagesToProgram
  <2>2. CASE Bytes(s) \subseteq Bytes(p)
    <3>1. HasData(d, p)
      BY <1>4, <1>5, <1>6, <2>2
    <3> QED BY <1>4, <3>1 DEF PagesToProgram
  <2> QED BY <1>4, <2>1, <2>2
<1>7. CASE ~HasData(d, t)
  <2> DEFINE q == PageInfo(f.props, t[1])
  <2>1. HasData(d, q)
    BY <1>1, <1>7
  <2>2. t[1] \in f.props.start .. f.props.end - 1 /\ t[1] \in Nat
    BY <1>1, <1>2, SectorIsRange
  <2>3. q \in IterPages(f.props) /\ t[1] \in Bytes(q) /\ q \in Nat \X Nat /\ q[1] < q[2]
    BY <2>2, PagesTile, PageInfoIsRange
  <2> HIDE DEF q
  <2>4. Bytes(q) \cap Staged(d) # {}
    BY <2>1, <2>3, HasDataIs
  <2>5. Bytes(q) \subseteq Bytes(t) \/ Bytes(t) \subseteq Bytes(q)
    BY <1>1, <1>2, <2>3, Fitting
  <2>6. ~(Bytes(q) \subseteq Bytes(t))
    BY <1>4, <1>5, <1>7, <2>4
  <2>7. p = q
    BY <1>4, <2>3, <2>5, <2>6, SharedByte
  <2> QED BY <1>4, <2>1, <2>7 DEF PagesToProgram
<1> QED BY <1>6, <1>7

\* build_sectors_and_pages (builder.rs 267-370): of a flash that fits, every staged
\* byte of the region is programmed, in one page, and every byte that a page programs
\* is erased first.
THEOREM ProgramsWhatIsStaged ==
  ASSUME \A f \in Flashes : Fits(f)
  PROVE  BuilderSpec => []DataIsProgrammed
<1>1. BuilderInv => DataIsProgrammed
  <2> SUFFICES ASSUME BuilderInv, NEW e \in BOOLEAN
               PROVE  LET l == LayoutOf(e) IN
                        /\ asked \cap Bytes(flash.region) \subseteq BytesOf(l.pages)
                        /\ \A p, q \in l.pages : p # q => Bytes(p) \cap Bytes(q) = {}
                        /\ BytesOf(l.pages) \subseteq BytesOf(l.sectors)
    BY DEF DataIsProgrammed
  <2> DEFINE pages == PagesToProgram(flash.props, flash.region, data, e)
             sectors == SectorsToErase(flash.props, flash.region, data)
  <2>1. LayoutOf(e).pages = pages /\ LayoutOf(e).sectors = sectors
    BY DEF LayoutOf, Layout
  <2>2. IsData(data) /\ Staged(data) = asked /\ flash \in Flashes /\ Fits(flash)
    BY DEF BuilderInv
  <2> HIDE DEF pages, sectors
  <2>3. ASSUME NEW b \in asked \cap Bytes(flash.region) PROVE b \in BytesOf(pages)
    <3>1. \E p \in pages : b \in Bytes(p)
      BY <2>2, StagedIsProgrammed DEF pages
    <3> QED BY <3>1 DEF BytesOf
  <2>4. ASSUME NEW p \in pages, NEW q \in pages, p # q PROVE Bytes(p) \cap Bytes(q) = {}
    <3>1. p \in IterPages(flash.props) /\ q \in IterPages(flash.props)
      BY DEF pages, PagesToProgram
    <3> QED BY <2>2, <2>4, <3>1, SharedByte
  <2>5. ASSUME NEW p \in pages, NEW b \in Bytes(p) PROVE b \in BytesOf(sectors)
    <3>1. \E s \in sectors : b \in Bytes(s)
      BY <2>2, ProgrammedIsErased DEF pages, sectors
    <3> QED BY <3>1 DEF BytesOf
  <2>6. BytesOf(pages) \subseteq BytesOf(sectors)
    BY <2>5 DEF BytesOf
  <2> QED BY <2>1, <2>3, <2>4, <2>6
<1> QED BY <1>1, BuilderInvHolds, PTL

\* The fills (builder.rs 325-354) of a page are its bytes without staged data; and of
\* a flash that fits, include_empty_pages (builder.rs 316-321) programs all that is
\* erased.
THEOREM RestoresWhatIsErased ==
  ASSUME \A f \in Flashes : Fits(f)
  PROVE  BuilderSpec => []ErasedIsRestored
<1>1. BuilderInv => ErasedIsRestored
  <2> SUFFICES ASSUME BuilderInv PROVE ErasedIsRestored
    OBVIOUS
  <2>1. IsData(data) /\ Staged(data) = asked /\ flash \in Flashes /\ Fits(flash)
    BY DEF BuilderInv
  <2>2. ASSUME NEW e \in BOOLEAN, NEW p \in LayoutOf(e).pages
        PROVE  BytesOf({f.range : f \in {g \in LayoutOf(e).fills : g.page = p}}) = Bytes(p) \ asked
    <3> DEFINE pages == PagesToProgram(flash.props, flash.region, data, e)
    <3>1. p \in pages /\ LayoutOf(e).fills = Fills(flash.props, flash.region, data, e)
      BY <2>2 DEF LayoutOf, Layout
    <3>2. p \in Nat \X Nat /\ p[1] < p[2]
      BY <2>1, <3>1, PageIsRange DEF PagesToProgram
    <3> HIDE DEF pages
    <3>3. Fills(flash.props, flash.region, data, e)
            = UNION {{[page |-> q, range |-> f] : f \in PageFills(data, q)} : q \in pages}
      BY Zenon DEF Fills, pages
    <3>4. {f.range : f \in {g \in LayoutOf(e).fills : g.page = p}} = PageFills(data, p)
      <4> DEFINE own == {g \in LayoutOf(e).fills : g.page = p}
      <4>1. ASSUME NEW f \in own PROVE f.range \in PageFills(data, p)
        <5>1. f \in UNION {{[page |-> q, range |-> h] : h \in PageFills(data, q)} : q \in pages} /\ f.page = p
          BY <3>1, <3>3
        <5>2. PICK q \in pages : f \in {[page |-> q, range |-> h] : h \in PageFills(data, q)}
          BY <5>1
        <5>3. PICK h \in PageFills(data, q) : f = [page |-> q, range |-> h]
          BY <5>2
        <5> QED BY <5>1, <5>3
      <4>2. ASSUME NEW h \in PageFills(data, p) PROVE \E f \in own : f.range = h
        <5> DEFINE f == [page |-> p, range |-> h]
        <5>1. f \in {[page |-> p, range |-> k] : k \in PageFills(data, p)}
          OBVIOUS
        <5>2. f \in LayoutOf(e).fills
          BY <3>1, <3>3, <5>1
        <5> QED BY <5>2
      <4> HIDE DEF own
      <4>3. {f.range : f \in own} = PageFills(data, p)
        BY <4>1, <4>2
      <4> USE DEF own
      <4> QED BY <4>3
    <3>5. BytesOf(PageFills(data, p)) = Bytes(p) \ Staged(data)
      BY <2>1, <3>2, PageFillsAre
    <3> QED BY <2>1, <3>4, <3>5
  <2>3. BytesOf(LayoutOf(TRUE).sectors) \subseteq BytesOf(LayoutOf(TRUE).pages)
    <3> DEFINE pages == PagesToProgram(flash.props, flash.region, data, TRUE)
               sectors == SectorsToErase(flash.props, flash.region, data)
    <3>1. LayoutOf(TRUE).pages = pages /\ LayoutOf(TRUE).sectors = sectors
      BY DEF LayoutOf, Layout
    <3>2. ASSUME NEW s \in sectors, NEW b \in Bytes(s) PROVE \E p \in pages : b \in Bytes(p)
      BY <2>1, ErasedIsProgrammed
    <3> HIDE DEF pages, sectors
    <3>3. BytesOf(sectors) \subseteq BytesOf(pages)
      BY <3>2 DEF BytesOf
    <3> QED BY <3>1, <3>3
  <2> QED BY <2>2, <2>3 DEF ErasedIsRestored
<1> QED BY <1>1, BuilderInvHolds, PTL

-----------------------------------------------------------------------------
(* What the flasher takes for granted of a layout (PlansAssumption of      *)
(* Flasher), here for all data that lies in the region.                    *)

\* If all that was staged lies in the region, the layout covers it with pages, the
\* pages lie in sectors, the fills are of other bytes of the pages, and with
\* include_empty_pages what is erased is filled or was staged.
ServesTheFlasher ==
  asked \subseteq Bytes(flash.region) =>
    \A restore \in BOOLEAN :
      LET l     == LayoutOf(restore)
          fills == BytesOf({f.range : f \in l.fills})
      IN  /\ asked \subseteq BytesOf(l.pages)
          /\ BytesOf(l.pages) \subseteq BytesOf(l.sectors)
          /\ fills \subseteq BytesOf(l.pages) \ asked
          /\ restore => BytesOf(l.sectors) \subseteq fills \cup asked

\* Every layout that build_sectors_and_pages (builder.rs 267-370) makes of a flash
\* that fits is one the flasher's theorems are about.
THEOREM LayoutsServeTheFlasher ==
  ASSUME \A f \in Flashes : Fits(f)
  PROVE  BuilderSpec => []ServesTheFlasher
<1>1. DataIsProgrammed /\ ErasedIsRestored => ServesTheFlasher
  <2> SUFFICES ASSUME DataIsProgrammed, ErasedIsRestored, asked \subseteq Bytes(flash.region),
                      NEW restore \in BOOLEAN
               PROVE  LET l     == LayoutOf(restore)
                          fills == BytesOf({f.range : f \in l.fills})
                      IN  /\ asked \subseteq BytesOf(l.pages)
                          /\ BytesOf(l.pages) \subseteq BytesOf(l.sectors)
                          /\ fills \subseteq BytesOf(l.pages) \ asked
                          /\ restore => BytesOf(l.sectors) \subseteq fills \cup asked
    BY DEF ServesTheFlasher
  <2> DEFINE l == LayoutOf(restore)
             fills == BytesOf({f.range : f \in l.fills})
             own(p) == {f.range : f \in {g \in l.fills : g.page = p}}
  <2>1. asked \cap Bytes(flash.region) \subseteq BytesOf(l.pages) /\ BytesOf(l.pages) \subseteq BytesOf(l.sectors)
    BY DEF DataIsProgrammed
  <2>2. \A p \in l.pages : BytesOf(own(p)) = Bytes(p) \ asked
    BY DEF ErasedIsRestored
  <2>3. \A f \in l.fills : f.page \in l.pages
    <3> DEFINE pages == PagesToProgram(flash.props, flash.region, data, restore)
    <3>1. l.fills = Fills(flash.props, flash.region, data, restore) /\ l.pages = pages
      BY DEF LayoutOf, Layout
    <3> HIDE DEF pages, l
    <3>2. Fills(flash.props, flash.region, data, restore)
            = UNION {{[page |-> q, range |-> f] : f \in PageFills(data, q)} : q \in pages}
      BY Zenon DEF Fills, pages
    <3>3. ASSUME NEW f \in l.fills PROVE f.page \in pages
      <4>1. PICK q \in pages : f \in {[page |-> q, range |-> h] : h \in PageFills(data, q)}
        BY <3>1, <3>2
      <4> QED BY <4>1
    <3> QED BY <3>1, <3>3
  <2>4. restore => BytesOf(l.sectors) \subseteq BytesOf(l.pages)
    <3>1. restore => l = LayoutOf(TRUE)
      OBVIOUS
    <3> HIDE DEF l
    <3> QED BY <3>1 DEF ErasedIsRestored
  <2> HIDE DEF l
  <2>5. ASSUME NEW b \in fills PROVE b \in BytesOf(l.pages) \ asked
    <3>1. PICK f \in l.fills : b \in Bytes(f.range)
      BY DEF BytesOf
    <3>2. f.range \in own(f.page)
      BY <3>1
    <3>3. b \in BytesOf(own(f.page))
      <4> HIDE DEF own
      <4> QED BY <3>1, <3>2 DEF BytesOf
    <3>4. b \in Bytes(f.page) \ asked
      BY <2>2, <2>3, <3>1, <3>3
    <3> QED BY <2>3, <3>1, <3>4 DEF BytesOf
  <2>6. ASSUME NEW b \in BytesOf(l.pages), b \notin asked PROVE b \in fills
    <3>1. PICK p \in l.pages : b \in Bytes(p)
      BY DEF BytesOf
    <3>2. b \in BytesOf(own(p))
      BY <2>2, <2>6, <3>1
    <3>3. PICK r \in own(p) : b \in Bytes(r)
      <4> HIDE DEF own
      <4> QED BY <3>2 DEF BytesOf
    <3>4. PICK f \in l.fills : f.range = r
      BY <3>3
    <3> QED BY <3>3, <3>4 DEF BytesOf
  <2> HIDE DEF fills, own
  <2>7. restore => BytesOf(l.sectors) \subseteq fills \cup asked
    BY <2>4, <2>6
  <2>8. asked \subseteq BytesOf(l.pages) /\ fills \subseteq BytesOf(l.pages) \ asked
    BY <2>1, <2>5
  <2> USE DEF l, fills
  <2> QED BY <2>1, <2>7, <2>8
<1> QED BY <1>1, ProgramsWhatIsStaged, RestoresWhatIsErased, PTL

-----------------------------------------------------------------------------
(* The loader.                                                             *)

Contents == {"old", "erased", "new", "junk"}
Working == {"chip", "erase", "program"}
Busy == Working \cup {"group", "ram"}

TypeOK ==
  /\ target \in Targets /\ mem \in [Cells -> Contents]
  /\ op \in Commits \cup Erases \cup {NoOp}
  /\ phase \in Busy \cup {"staging", "verify", "done"}
  /\ chip \in BOOLEAN /\ faults \in Nat

\* The regions of the operation, and the groups they form.
Chosen == RegionsFor(op)
Flashable == {r \in Nvm : ~Unflashable(r)}
Grouping == [r \in Nvm |-> GroupOf(r)]
Members == {r \in Chosen : Grouping[r] = group}
Wanted == {Grouping[r] : r \in Chosen}

\* The regions whose turn has not come, or is not over.
Waiting == {r \in Chosen : Grouping[r] \in groups} \cup {r \in left : phase \in Working}

\* Where the operation is: what it does, of which kind it is, and what is left of it.
Order ==
  /\ phase = "staging" => op = NoOp
  /\ phase # "staging" => op \in Commits \cup Erases
  /\ phase \in {"chip", "program", "ram", "verify"} => op.kind = "commit"
  /\ phase = "erase" => op.kind # "commit"
  /\ phase \in Busy \cup {"verify"} /\ op.kind = "commit" => ~op.dry
  /\ phase = "ram" => groups = {}

Queue ==
  /\ phase \in Busy => Chosen \subseteq Flashable /\ groups \subseteq Wanted
  /\ phase \in Working => left \subseteq Members /\ group \in Wanted /\ group \notin groups
  /\ phase \in {"chip", "erase"} => left = Members
  /\ phase \in Working /\ chip => op.chip /\ (target.sequence \/ group.algo.eraseAll)
  /\ phase = "chip" => chip

\* After a chip erase what is to be programmed is erased; erase_all has erased all
\* regions whose turn is over.
Erased ==
  /\ phase = "program" /\ chip => \A r \in left : \A c \in r.cells : mem[c] = "erased"
  /\ phase \in Busy /\ op.kind = "erase_all" =>
       \A r \in Chosen \ Waiting : \A c \in r.cells : mem[c] = "erased"

\* Before RAM is written, what is new lies in a region of a commit whose turn is over.
NewIsDone ==
  phase \in Busy \cup {"staging"} =>
    \A c \in Cells : mem[c] = "new" =>
      /\ phase \in Busy /\ op.kind = "commit"
      /\ \E r \in Chosen \ Waiting : c \in r.cells

\* What was staged for a region whose turn is over is there; before verification,
\* also what was staged for RAM.
Placed ==
  op.kind = "commit" /\ ~op.skip =>
    /\ phase \in Busy => \A r \in Chosen \ Waiting : \A c \in r.cells \cap staged : mem[c] = "new"
    /\ phase = "verify" => \A c \in staged \cap (NvmCells \cup RamData) : mem[c] = "new"

Apart == \A t \in Targets : GroupsApart(t)

IndInv == TypeOK /\ Order /\ Queue /\ Erased /\ NewIsDone

-----------------------------------------------------------------------------
(* The target and its regions.                                             *)

\* The regions of a target lie in its memory, apart from one another.
LEMMA RegionsAre ==
  ASSUME target \in Targets
  PROVE  /\ IsFiniteSet(target.algos) /\ Nvm \subseteq Regions /\ Ram \subseteq Regions
         /\ \A i \in 1 .. Len(target.map) : target.map[i] \in Regions
         /\ \A r \in Regions : r.cells \subseteq Cells
         /\ \A r, s \in Regions : r # s => r.cells \cap s.cells = {}
         /\ \A r \in Nvm, s \in Ram : r # s
<1>1. /\ IsFiniteSet(target.algos) /\ target.map \in Seq(ToSet(target.map))
      /\ \A i \in 1 .. Len(target.map) : target.map[i].cells \subseteq target.cells
      /\ \A i, j \in 1 .. Len(target.map) : i # j => target.map[i].cells \cap target.map[j].cells = {}
  BY TargetsAssumption
<1>2. DOMAIN target.map = 1 .. Len(target.map)
  BY <1>1
<1>3. Regions = {target.map[i] : i \in 1 .. Len(target.map)}
  BY <1>2 DEF Regions, ToSet
<1>4. \A r \in Regions : \E i \in 1 .. Len(target.map) : r = target.map[i]
  BY <1>3
<1>5. \A r \in Regions : r.cells \subseteq Cells
  BY <1>1, <1>4 DEF Cells
<1>6. \A r, s \in Regions : r # s => r.cells \cap s.cells = {}
  <2> SUFFICES ASSUME NEW r \in Regions, NEW s \in Regions, r # s PROVE r.cells \cap s.cells = {}
    OBVIOUS
  <2>1. PICK i \in 1 .. Len(target.map) : r = target.map[i]
    BY <1>4
  <2>2. PICK j \in 1 .. Len(target.map) : s = target.map[j]
    BY <1>4
  <2> QED BY <1>1, <2>1, <2>2
<1>7. \A r \in Nvm, s \in Ram : r # s
  BY DEF Nvm, Ram
<1> QED BY <1>1, <1>3, <1>5, <1>6, <1>7 DEF Nvm, Ram

\* A region that can be flashed has one algorithm, which reaches all of it.
LEMMA FlashableIs ==
  ASSUME target \in Targets, NEW r \in Flashable
  PROVE  \E a \in target.algos : /\ AlgorithmsOf(target, r) = {a} /\ r.cells \subseteq a.cells
                                 /\ Grouping[r] = [algo |-> a, core |-> Head(r.cores)]
<1>1. r \in Nvm /\ Cardinality(AlgorithmsOf(target, r)) = 1
  BY DEF Flashable, Unflashable, AlgorithmsFor
<1>2. \A a \in AlgorithmsOf(target, r) : a \in target.algos /\ r.cells \subseteq a.cells
  BY DEF AlgorithmsOf
<1>3. IsFiniteSet(AlgorithmsOf(target, r))
  <2>1. AlgorithmsOf(target, r) \subseteq target.algos
    BY <1>2
  <2> QED BY <2>1, RegionsAre, FS_Subset
<1>4. PICK a : AlgorithmsOf(target, r) = {a}
  BY <1>1, <1>3, FS_Singleton
<1>5. (CHOOSE x \in AlgorithmsOf(target, r) : TRUE) = a
  BY <1>4
<1>6. Grouping[r] = [algo |-> a, core |-> Head(r.cores)]
  BY <1>1, <1>5 DEF Grouping, GroupOf, AlgorithmsFor
<1> QED BY <1>2, <1>4, <1>6

\* The target stays the same.
LEMMA MapStays ==
  ASSUME target' = target
  PROVE  /\ Cells' = Cells /\ Regions' = Regions /\ Nvm' = Nvm /\ Ram' = Ram /\ NvmCells' = NvmCells
         /\ Flashable' = Flashable /\ Grouping' = Grouping
<1>1. /\ Cells' = Cells /\ Regions' = Regions /\ Nvm' = Nvm /\ Ram' = Ram /\ NvmCells' = NvmCells
  BY DEF Cells, Regions, Nvm, Ram, NvmCells
<1>2. Flashable' = Flashable
  BY <1>1 DEF Flashable, Unflashable, AlgorithmsFor
<1>3. Grouping' = Grouping
  BY <1>1 DEF Grouping, GroupOf, AlgorithmsFor
<1> QED BY <1>1, <1>2, <1>3

\* So do the regions of an operation under way.
LEMMA ChosenStays ==
  ASSUME UNCHANGED <<target, op, staged>>
  PROVE  /\ Chosen' = Chosen /\ RamData' = RamData
         /\ group' = group => Members' = Members
         /\ Wanted' = Wanted
<1>1. Chosen' = Chosen /\ RamData' = RamData
  BY MapStays DEF Chosen, RegionsFor, RamData
<1> QED BY <1>1, MapStays DEF Members, Wanted

\* The operations.
LEMMA OperationIs ==
  ASSUME NEW o \in Commits \cup Erases
  PROVE  /\ o.kind \in {"commit", "erase_all", "erase_sectors"} /\ o # NoOp
         /\ o.chip \in BOOLEAN
         /\ o.kind = "commit" => o.dry \in BOOLEAN /\ o.skip \in BOOLEAN /\ o.verify \in BOOLEAN
         /\ o.kind = "erase_all" => o.chip = TRUE
<1>1. CASE o \in Commits
  <2>1. /\ o.kind = "commit" /\ o.chip \in BOOLEAN /\ o.dry \in BOOLEAN /\ o.skip \in BOOLEAN
        /\ o.verify \in BOOLEAN
    BY <1>1 DEF Commits
  <2> QED BY <2>1 DEF NoOp
<1>2. CASE o \in Erases
  <2>1. o.kind \in {"erase_all", "erase_sectors"} /\ o.chip \in BOOLEAN
        /\ (o.kind = "erase_all" => o.chip = TRUE)
    <3>1. CASE o \in [kind : {"erase_sectors"}, chip : {FALSE}, from : 0 .. 1, count : 1 .. 2]
      BY <3>1
    <3>2. CASE o = [kind |-> "erase_all", chip |-> TRUE, from |-> 0, count |-> 0]
      BY <3>2
    <3> QED BY <1>2, <3>1, <3>2 DEF Erases
  <2> QED BY <2>1 DEF NoOp
<1> QED BY <1>1, <1>2

\* What an operation writes to a set of cells.
LEMMA SetIs ==
  ASSUME mem \in [Cells -> Contents], NEW cells, NEW content \in Contents
  PROVE  /\ Set(cells, content) \in [Cells -> Contents]
         /\ \A c \in Cells : Set(cells, content)[c] = IF c \in cells THEN content ELSE mem[c]
  BY DEF Set

LEMMA ProgrammedIs ==
  ASSUME mem \in [Cells -> Contents], NEW cells
  PROVE  /\ Programmed(cells) \in [Cells -> Contents]
         /\ \A c \in Cells : Programmed(cells)[c] =
              IF c \notin cells THEN mem[c]
              ELSE IF (op.skip \/ chip) /\ mem[c] # "erased" THEN "junk" ELSE "new"
<1>1. \A c \in Cells : Programmed(cells)[c] =
              IF c \notin cells THEN mem[c]
              ELSE IF (op.skip \/ chip) /\ mem[c] # "erased" THEN "junk" ELSE "new"
  BY DEF Programmed
<1>2. \A c \in Cells : Programmed(cells)[c] \in Contents
  BY <1>1 DEF Contents
<1>3. Programmed(cells) = [c \in Cells |-> Programmed(cells)[c]]
  BY DEF Programmed
<1> QED BY <1>1, <1>2, <1>3

-----------------------------------------------------------------------------
(* What every operation on the target keeps.                               *)

\* An operation that is over has nothing left to keep but its kind.
LEMMA DoneKeeps ==
  ASSUME IndInv, UNCHANGED target, phase' = "done", op' \in Commits \cup Erases,
         mem' \in [Cells -> Contents], chip' \in BOOLEAN, faults' \in Nat
  PROVE  IndInv' /\ Placed'
<1>1. TypeOK'
  BY MapStays DEF IndInv, TypeOK
<1>2. Order' /\ Queue' /\ Erased'
  BY DEF Order, Queue, Erased, Busy, Working
<1>3. NewIsDone' /\ Placed'
  BY DEF NewIsDone, Placed, Busy, Working
<1> QED BY <1>1, <1>2, <1>3 DEF IndInv

\* A failure ends the operation.
LEMMA FailKeeps ==
  ASSUME IndInv, phase # "staging", Fails, UNCHANGED <<target, op>>, chip' \in BOOLEAN,
         mem' \in [Cells -> Contents]
  PROVE  IndInv' /\ Placed'
<1>1. phase' = "done" /\ faults' \in Nat
  BY DEF Fails, Finish, IndInv, TypeOK
<1>2. op' \in Commits \cup Erases
  BY DEF IndInv, Order
<1> QED BY <1>1, <1>2, DoneKeeps

\* What the group under way erases when it erases the chip includes its regions.
LEMMA ChipReaches ==
  ASSUME IndInv, phase \in Working
  PROVE  \A r \in left : r.cells \subseteq ChipErased
<1> SUFFICES ASSUME NEW r \in left PROVE r.cells \subseteq ChipErased
  OBVIOUS
<1>1. target \in Targets /\ r \in Chosen /\ r \in Flashable /\ r \in Nvm /\ Grouping[r] = group
  BY DEF IndInv, TypeOK, Queue, Members, Busy, Flashable
<1>2. r.cells \subseteq Cells /\ r.cells \subseteq NvmCells
  BY <1>1, RegionsAre DEF NvmCells
<1>3. r.cells \subseteq group.algo.cells
  <2>1. PICK a \in target.algos : /\ r.cells \subseteq a.cells
                                  /\ Grouping[r] = [algo |-> a, core |-> Head(r.cores)]
    BY <1>1, FlashableIs
  <2> QED BY <1>1, <2>1
<1> QED BY <1>2, <1>3 DEF ChipErased

-----------------------------------------------------------------------------
(* The steps.                                                              *)

\* Before the operation nothing is new.
LEMMA InitIndInv == ASSUME Init PROVE IndInv /\ Placed
<1>1. TypeOK
  BY DEF Init, TypeOK, Contents
<1>2. Order /\ Queue /\ Erased /\ Placed
  BY DEF Init, Order, Queue, Erased, Placed, Busy, Working, NoOp
<1>3. NewIsDone
  BY DEF Init, NewIsDone
<1> QED BY <1>1, <1>2, <1>3 DEF IndInv

\* Staging changes nothing on the target.
LEMMA AddDataKeeps ==
  ASSUME IndInv, NEW first, NEW past, LoaderAddData(first, past) PROVE IndInv' /\ Placed'
<1>1. /\ phase = "staging" /\ op = NoOp
      /\ UNCHANGED <<target, mem, op, phase, result, groups, group, left, chip, faults>>
  BY DEF LoaderAddData, IndInv, Order
<1>2. TypeOK'
  BY <1>1, MapStays DEF IndInv, TypeOK
<1>3. Order' /\ Queue' /\ Erased' /\ Placed'
  BY <1>1 DEF IndInv, Order, Queue, Erased, Placed, Busy, Working, NoOp
<1>4. NewIsDone'
  BY <1>1, MapStays DEF IndInv, NewIsDone, Busy, Working
<1> QED BY <1>2, <1>3, <1>4 DEF IndInv

\* At the start every region of the operation waits.
LEMMA StartKeeps ==
  ASSUME IndInv, NEW o \in Commits \cup Erases, Start(o) PROVE IndInv' /\ Placed'
<1>1. /\ phase = "staging" /\ op' = o
      /\ UNCHANGED <<target, mem, staged, group, left, chip, faults>>
      /\ groups' = {GroupOf(r) : r \in {s \in RegionsFor(o) : ~Unflashable(s)}}
  BY DEF Start
<1>2. CASE phase' = "done"
  BY <1>1, <1>2, DoneKeeps DEF IndInv, TypeOK
<1>3. CASE phase' # "done"
  <2>1. /\ phase' = "group" /\ \A r \in RegionsFor(o) : ~Unflashable(r)
        /\ ~(o.kind = "commit" /\ o.dry)
    BY <1>3 DEF Start, Finish
  <2>2. Chosen' = RegionsFor(o) /\ RegionsFor(o) \subseteq Nvm
    BY <1>1, MapStays DEF Chosen, RegionsFor
  <2>3. RegionsFor(o) \subseteq Flashable
    BY <2>1, <2>2 DEF Flashable
  <2>4. \A r \in RegionsFor(o) : Grouping[r] = GroupOf(r) /\ GroupOf(r) \in groups'
    BY <1>1, <2>1, <2>2 DEF Grouping
  <2>5. groups' \subseteq {Grouping[r] : r \in RegionsFor(o)}
    BY <1>1, <2>4
  <2>6. TypeOK'
    BY <1>1, <2>1, MapStays DEF IndInv, TypeOK, Busy
  <2>7. Order'
    BY <1>1, <2>1 DEF Order, Busy, Working
  <2>8. Queue'
    BY <1>1, <2>1, <2>2, <2>3, <2>5, MapStays DEF Queue, Wanted, Working
  <2>9. Chosen' \ Waiting' = {}
    BY <1>1, <2>2, <2>4, MapStays DEF Waiting
  <2>10. Erased' /\ Placed'
    BY <2>1, <2>9 DEF Erased, Placed
  <2>11. NewIsDone'
    BY <1>1, MapStays DEF IndInv, NewIsDone, Busy, Working
  <2> QED BY <2>6, <2>7, <2>8, <2>10, <2>11 DEF IndInv
<1> QED BY <1>2, <1>3

\* The algorithm of a group is loaded into RAM; its regions go on waiting.
LEMMA NextGroupKeeps ==
  ASSUME IndInv, NextGroup
  PROVE  /\ IndInv' /\ (Placed => Placed')
         /\ \A c \in Cells : mem[c] = "new" => mem'[c] = "new"
<1>1. PICK g \in groups :
        /\ group' = g /\ groups' = groups \ {g} /\ phase = "group"
        /\ left' = {r \in RegionsFor(op) : GroupOf(r) = g}
        /\ chip' = (op.chip /\ CanChipErase(g))
        /\ UNCHANGED <<target, staged, op>>
        /\ \/ Finish("err") /\ UNCHANGED <<mem, faults>>
           \/ /\ \E i \in LoadableRams(g.core) : mem' = Set(target.map[i].cells, "junk")
              /\ \/ /\ phase' = (IF op.kind # "commit" THEN "erase" ELSE IF chip' THEN "chip" ELSE "program")
                    /\ UNCHANGED <<result, faults>>
                 \/ Fails
  BY DEF NextGroup
<1>2. /\ TypeOK /\ target \in Targets /\ mem \in [Cells -> Contents] /\ op \in Commits \cup Erases
      /\ Chosen \subseteq Flashable /\ groups \subseteq Wanted /\ Chosen \subseteq Nvm
  BY <1>1 DEF IndInv, TypeOK, Order, Queue, Busy, Flashable
<1>3. chip' \in BOOLEAN
  BY <1>1
<1>4. /\ mem' \in [Cells -> Contents]
      /\ \A r \in Nvm : \A c \in r.cells : mem'[c] = mem[c]
      /\ \A c \in Cells : mem'[c] = "new" => mem[c] = "new"
  <2>1. CASE mem' = mem
    BY <1>2, <2>1
  <2>2. ASSUME NEW i \in LoadableRams(g.core), mem' = Set(target.map[i].cells, "junk")
        PROVE  <1>4
    <3>1. target.map[i] \in Ram /\ i \in 1 .. Len(target.map)
      BY <1>2, RegionsAre DEF LoadableRams, Ram
    <3>2. /\ mem' \in [Cells -> Contents]
          /\ \A c \in Cells : mem'[c] = IF c \in target.map[i].cells THEN "junk" ELSE mem[c]
      BY <1>2, <2>2, SetIs DEF Contents
    <3>3. \A r \in Nvm : r.cells \subseteq Cells /\ r.cells \cap target.map[i].cells = {}
      BY <1>2, <3>1, RegionsAre
    <3> QED BY <3>2, <3>3
  <2> QED BY <1>1, <2>1, <2>2
<1>5. \A c \in Cells : mem[c] = "new" => mem'[c] = "new"
  <2>1. \A c \in Cells : mem[c] = "new" => \E r \in Nvm : c \in r.cells
    BY <1>1, <1>2 DEF IndInv, NewIsDone, Busy
  <2> QED BY <1>4, <2>1
<1>6. CASE phase' = "done"
  <2>1. faults' \in Nat
    BY <1>1, <1>2, <1>6 DEF Fails, TypeOK, Busy, Working
  <2> QED BY <1>1, <1>2, <1>3, <1>4, <1>5, <1>6, <2>1, DoneKeeps
<1>7. CASE phase' # "done"
  <2>1. /\ phase' = (IF op.kind # "commit" THEN "erase" ELSE IF chip' THEN "chip" ELSE "program")
        /\ UNCHANGED faults /\ phase' \in Working
    BY <1>1, <1>7 DEF Fails, Finish, Working
  <2>2. TypeOK'
    BY <1>1, <1>2, <1>3, <1>4, <2>1, MapStays DEF TypeOK, Busy
  <2>3. Order'
    BY <1>1, <2>1 DEF IndInv, Order, Busy, Working
  <2>4. left' = Members' /\ group' \in Wanted' /\ group' \notin groups' /\ groups' \subseteq Wanted'
    <3>1. Members' = {r \in Chosen : Grouping[r] = g} /\ Wanted' = Wanted
      BY <1>1, ChosenStays, MapStays DEF Members
    <3>2. \A r \in Chosen : Grouping[r] = GroupOf(r)
      BY <1>2 DEF Grouping
    <3> QED BY <1>1, <1>2, <3>1, <3>2 DEF Chosen
  <2>5. chip' => op'.chip /\ (target'.sequence \/ group'.algo.eraseAll)
    BY <1>1 DEF CanChipErase
  <2>6. Chosen' = Chosen /\ Chosen' \subseteq Flashable'
    BY <1>1, <1>2, ChosenStays, MapStays
  <2>7. phase' = "chip" => chip'
    BY <2>1, <1>2, OperationIs
  <2>8. Queue'
    BY <2>1, <2>4, <2>5, <2>6, <2>7 DEF Queue, Working
  <2>9. Waiting' = Waiting
    BY <1>1, <2>1, <2>4, <2>6, MapStays DEF Waiting, Members, Working
  <2>10. Erased'
    <3>1. phase' = "program" => ~chip'
      BY <1>2, <1>3, <2>1, OperationIs
    <3>2. ASSUME op.kind = "erase_all", NEW r \in Chosen \ Waiting, NEW c \in r.cells
          PROVE  mem'[c] = "erased"
      BY <1>1, <1>2, <1>4, <3>2 DEF IndInv, Erased, Busy
    <3> QED BY <1>1, <2>6, <2>9, <3>1, <3>2 DEF Erased
  <2>11. NewIsDone'
    <3> SUFFICES ASSUME NEW c \in Cells, mem[c] = "new"
                 PROVE  op.kind = "commit" /\ \E r \in Chosen \ Waiting : c \in r.cells
      BY <1>1, <1>4, <2>1, <2>6, <2>9, MapStays DEF NewIsDone, Busy
    <3> QED BY <1>1 DEF IndInv, NewIsDone, Busy
  <2>12. Placed => Placed'
    <3> SUFFICES ASSUME Placed, op.kind = "commit", ~op.skip, NEW r \in Chosen \ Waiting,
                        NEW c \in r.cells \cap staged
                 PROVE  mem'[c] = "new"
      BY <1>1, <2>1, <2>6, <2>9 DEF Placed, Busy, Working
    <3> QED BY <1>1, <1>2, <1>4 DEF Placed, Busy
  <2> QED BY <1>5, <2>2, <2>3, <2>8, <2>10, <2>11, <2>12 DEF IndInv
<1> QED BY <1>6, <1>7

\* Contents that are new before a step lie in a region of the commit whose turn is over.
LEMMA NewIs ==
  ASSUME IndInv, phase \in Busy, NEW c \in Cells, mem[c] = "new"
  PROVE  op.kind = "commit" /\ \E r \in Chosen \ Waiting : c \in r.cells /\ r \in Nvm
BY DEF IndInv, NewIsDone, Queue, Busy, Flashable

\* No chip erase reaches the regions of other groups.
LEMMA EraseKeepsOthers ==
  ASSUME IndInv, Apart, phase \in Working, chip, NEW r \in Chosen \ Waiting, left = Members
  PROVE  r.cells \cap ChipErased = {}
<1>1. /\ target \in Targets /\ r \in Flashable /\ r \in Nvm /\ Grouping[r] # group
      /\ target.sequence \/ group.algo.eraseAll
  BY DEF IndInv, TypeOK, Queue, Waiting, Members, Busy, Flashable
<1>2. PICK s \in Chosen : Grouping[s] = group
  BY DEF IndInv, Queue, Wanted
<1>3. s \in Flashable /\ s \in Nvm
  BY DEF IndInv, Queue, Busy, Flashable
<1>4. PICK a \in target.algos : /\ AlgorithmsOf(target, s) = {a}
                                /\ group = [algo |-> a, core |-> Head(s.cores)]
  BY <1>1, <1>2, <1>3, FlashableIs
<1>5. PICK b \in target.algos : /\ AlgorithmsOf(target, r) = {b}
                                /\ Grouping[r] = [algo |-> b, core |-> Head(r.cores)]
  BY <1>1, FlashableIs
<1>6. <<a, Head(s.cores)>> # <<b, Head(r.cores)>>
  BY <1>1, <1>4, <1>5
<1>7. ~target.sequence /\ (a.eraseAll => a.cells \cap r.cells = {})
  BY <1>1, <1>3, <1>4, <1>5, <1>6 DEF Apart, GroupsApart, Nvm, Regions
<1> QED BY <1>1, <1>4, <1>7 DEF ChipErased

\* Erasing the chip: what is to be programmed becomes erased, other groups are not
\* concerned.
LEMMA ChipEraseKeeps ==
  ASSUME IndInv, ChipErase
  PROVE  /\ IndInv'
         /\ Apart => /\ Placed => Placed'
                     /\ \A c \in Cells : mem[c] = "new" => mem'[c] = "new"
<1>1. /\ phase \in {"chip", "erase"} /\ phase \in Working /\ phase \in Busy /\ chip
      /\ UNCHANGED <<target, staged, op, groups, group, left, chip>>
      /\ mem' = mem \/ mem' = Set(ChipErased, "erased")
  BY DEF ChipErase, IndInv, Queue, Busy, Working
<1>2. /\ TypeOK /\ target \in Targets /\ mem \in [Cells -> Contents] /\ op \in Commits \cup Erases
      /\ left = Members /\ Chosen \subseteq Nvm /\ faults \in Nat
  BY <1>1 DEF IndInv, TypeOK, Order, Queue, Flashable
<1>3. /\ mem' \in [Cells -> Contents]
      /\ \A c \in Cells : mem'[c] = mem[c] \/ (c \in ChipErased /\ mem'[c] = "erased")
  BY <1>1, <1>2, SetIs DEF Contents
<1>4. Apart => \A c \in Cells : mem[c] = "new" => mem'[c] = "new"
  <2> SUFFICES ASSUME Apart, NEW c \in Cells, mem[c] = "new" PROVE mem'[c] = "new"
    OBVIOUS
  <2>1. PICK r \in Chosen \ Waiting : c \in r.cells
    BY <1>1, NewIs
  <2>2. c \notin ChipErased
    BY <1>1, <1>2, <2>1, EraseKeepsOthers
  <2> QED BY <1>3, <2>2
<1>5. CASE Fails
  BY <1>1, <1>2, <1>3, <1>4, <1>5, FailKeeps DEF TypeOK
<1>6. CASE ~Fails
  <2>1. /\ mem' = Set(ChipErased, "erased") /\ UNCHANGED faults
        /\ phase' = (IF op.kind = "commit" THEN "program" ELSE "group")
    BY <1>6 DEF ChipErase
  <2>2. \A c \in Cells : mem'[c] = IF c \in ChipErased THEN "erased" ELSE mem[c]
    BY <1>2, <2>1, SetIs DEF Contents
  <2>3. TypeOK'
    BY <1>1, <1>2, <1>3, <2>1, MapStays DEF TypeOK, Busy, Working
  <2>4. Order'
    BY <1>1, <1>2, <2>1 DEF IndInv, Order, Busy, Working
  <2>5. Chosen' = Chosen /\ Members' = Members /\ Wanted' = Wanted
    BY <1>1, ChosenStays
  <2>6. Queue'
    BY <1>1, <2>1, <2>5, MapStays DEF IndInv, Queue, Busy, Working
  <2>7. \A r \in left : \A c \in r.cells : mem'[c] = "erased"
    <3> SUFFICES ASSUME NEW r \in left, NEW c \in r.cells PROVE mem'[c] = "erased"
      OBVIOUS
    <3>1. r \in Nvm /\ c \in Cells
      BY <1>2, RegionsAre DEF Members
    <3> QED BY <1>1, <2>2, <3>1, ChipReaches
  <2>8. CASE op.kind = "commit"
    <3>1. phase' = "program" /\ Waiting' = Waiting
      BY <1>1, <2>1, <2>5, <2>8, MapStays DEF Waiting, Working
    <3>2. Erased'
      BY <1>1, <2>1, <2>7, <2>8 DEF Erased
    <3>3. NewIsDone'
      <4> SUFFICES ASSUME NEW c \in Cells, mem'[c] = "new"
                   PROVE  \E r \in Chosen \ Waiting : c \in r.cells
        BY <1>1, <2>5, <2>8, <3>1, MapStays DEF NewIsDone, Busy, Working
      <4> QED BY <1>1, <1>3, NewIs
    <3>4. Apart => (Placed => Placed')
      <4> SUFFICES ASSUME Apart, Placed, ~op.skip, NEW r \in Chosen \ Waiting,
                          NEW c \in r.cells \cap staged
                   PROVE  mem'[c] = "new"
        BY <1>1, <2>5, <2>8, <3>1 DEF Placed
      <4>1. mem[c] = "new" /\ c \in Cells
        BY <1>1, <1>2, <2>8, RegionsAre DEF Placed
      <4> QED BY <1>4, <4>1
    <3> QED BY <1>4, <2>3, <2>4, <2>6, <3>2, <3>3, <3>4 DEF IndInv
  <2>9. CASE op.kind # "commit"
    <3>1. phase' = "group" /\ Waiting \subseteq Waiting' \cup left
      BY <1>1, <2>1, <2>5, <2>9, MapStays DEF Waiting
    <3>2. Erased'
      <4> SUFFICES ASSUME op.kind = "erase_all", NEW r \in Chosen \ Waiting', NEW c \in r.cells
                   PROVE  mem'[c] = "erased"
        BY <1>1, <2>1, <2>5, <3>1 DEF Erased, Working
      <4>1. c \in Cells
        BY <1>2, RegionsAre
      <4>2. CASE r \in left
        BY <2>7, <4>2
      <4>3. CASE r \notin left
        BY <1>1, <2>2, <3>1, <4>1, <4>3 DEF IndInv, Erased
      <4> QED BY <4>2, <4>3
    <3>3. \A c \in Cells : mem'[c] # "new"
      BY <1>1, <1>3, <2>9, NewIs
    <3>4. NewIsDone' /\ Placed'
      BY <1>1, <2>9, <3>3, MapStays DEF NewIsDone, Placed
    <3> QED BY <1>4, <2>3, <2>4, <2>6, <3>2, <3>4 DEF IndInv
  <2> QED BY <2>8, <2>9
<1> QED BY <1>5, <1>6

\* Erasing sectors: erase_all erases the regions of the group.
LEMMA EraseSectorsKeeps ==
  ASSUME IndInv, EraseSectors
  PROVE  /\ IndInv' /\ Placed'
         /\ \A c \in Cells : mem[c] = "new" => mem'[c] = "new"
<1>1. /\ phase = "erase" /\ phase \in Working /\ phase \in Busy /\ ~chip /\ op.kind # "commit"
      /\ UNCHANGED <<target, staged, op, groups, group, left, chip>>
  BY DEF EraseSectors, IndInv, Order, Busy, Working
<1>2. /\ TypeOK /\ target \in Targets /\ mem \in [Cells -> Contents] /\ op \in Commits \cup Erases
      /\ left = Members /\ Chosen \subseteq Nvm /\ faults \in Nat
  BY <1>1 DEF IndInv, TypeOK, Order, Queue, Flashable
<1>3. PICK some : mem' = Set(some, "erased") /\ (~Fails => some = SectorsErased)
  BY DEF EraseSectors
<1>4. /\ mem' \in [Cells -> Contents]
      /\ \A c \in Cells : mem'[c] = IF c \in some THEN "erased" ELSE mem[c]
  BY <1>2, <1>3, SetIs DEF Contents
<1>5. \A c \in Cells : mem[c] # "new" /\ mem'[c] # "new"
  BY <1>1, <1>4, NewIs
<1>6. CASE Fails
  BY <1>1, <1>2, <1>4, <1>5, <1>6, FailKeeps DEF TypeOK
<1>7. CASE ~Fails
  <2>1. phase' = "group" /\ UNCHANGED faults
    BY <1>7 DEF EraseSectors
  <2>2. TypeOK'
    BY <1>1, <1>2, <1>4, <2>1, MapStays DEF TypeOK, Busy
  <2>3. Order'
    BY <1>1, <1>2, <2>1 DEF IndInv, Order, Busy, Working
  <2>4. Chosen' = Chosen /\ Members' = Members /\ Wanted' = Wanted
    BY <1>1, ChosenStays
  <2>5. Queue'
    BY <1>1, <2>1, <2>4, MapStays DEF IndInv, Queue, Busy, Working
  <2>6. Waiting \subseteq Waiting' \cup left
    BY <1>1, <2>4, MapStays DEF Waiting
  <2>7. Erased'
    <3> SUFFICES ASSUME op.kind = "erase_all", NEW r \in Chosen \ Waiting', NEW c \in r.cells
                 PROVE  mem'[c] = "erased"
      BY <1>1, <2>1, <2>4 DEF Erased
    <3>1. c \in Cells
      BY <1>2, RegionsAre
    <3>2. CASE r \in left
      <4>1. c \in some
        BY <1>3, <1>7, <3>2 DEF SectorsErased
      <4> QED BY <1>4, <3>1, <4>1
    <3>3. CASE r \notin left
      <4>1. mem[c] = "erased"
        BY <1>1, <2>6, <3>3 DEF IndInv, Erased
      <4> QED BY <1>4, <3>1, <4>1
    <3> QED BY <3>2, <3>3
  <2>8. NewIsDone' /\ Placed'
    BY <1>1, <1>5, MapStays DEF NewIsDone, Placed
  <2> QED BY <1>5, <2>2, <2>3, <2>5, <2>7, <2>8 DEF IndInv
<1> QED BY <1>6, <1>7

\* Programming a region: its turn is over, other regions are not concerned.
LEMMA ProgramRegionKeeps ==
  ASSUME IndInv, ProgramRegion
  PROVE  /\ IndInv' /\ (Placed => Placed')
         /\ \A c \in Cells : mem[c] = "new" => mem'[c] = "new"
<1>1. /\ phase = "program" /\ phase \in Working /\ phase \in Busy
      /\ UNCHANGED <<target, staged, op, groups, group, chip>> /\ op.kind = "commit"
  BY DEF ProgramRegion, IndInv, Order, Busy, Working
<1>2. /\ TypeOK /\ target \in Targets /\ mem \in [Cells -> Contents] /\ op \in Commits \cup Erases
      /\ left \subseteq Members /\ Chosen \subseteq Nvm /\ faults \in Nat /\ chip \in BOOLEAN
      /\ op.skip \in BOOLEAN
  BY <1>1, OperationIs DEF IndInv, TypeOK, Order, Queue, Flashable
<1>3. PICK r \in left :
        /\ left' = left \ {r}
        /\ \/ mem' = Programmed(r.cells \cap staged) /\ UNCHANGED <<phase, result, faults>>
           \/ /\ \/ \E some \in SUBSET (r.cells \cap staged) : mem' = Programmed(some)
                 \/ mem' = Set(r.cells \cap staged, "erased")
              /\ Fails
  BY <1>1 DEF ProgramRegion
<1>4. r \in Waiting /\ r \in Chosen /\ r \in Nvm
  BY <1>1, <1>2, <1>3 DEF Waiting, Members
<1>5. /\ mem' \in [Cells -> Contents]
      /\ \A c \in Cells : c \notin r.cells => mem'[c] = mem[c]
  <2>1. CASE \E some \in SUBSET (r.cells \cap staged) : mem' = Programmed(some)
    BY <1>2, <2>1, ProgrammedIs
  <2>2. CASE mem' = Set(r.cells \cap staged, "erased")
    BY <1>2, <2>2, SetIs DEF Contents
  <2> QED BY <1>3, <2>1, <2>2
<1>6. \A s \in Chosen : s # r => r.cells \cap s.cells = {} /\ s.cells \subseteq Cells
  BY <1>2, <1>4, RegionsAre
<1>7. \A s \in Chosen \ {r} : \A c \in s.cells : mem'[c] = mem[c]
  BY <1>5, <1>6
<1>8. \A c \in Cells : mem[c] = "new" => mem'[c] = "new"
  <2> SUFFICES ASSUME NEW c \in Cells, mem[c] = "new" PROVE mem'[c] = "new"
    OBVIOUS
  <2>1. PICK s \in Chosen \ Waiting : c \in s.cells
    BY <1>1, NewIs
  <2> QED BY <1>4, <1>7, <2>1
<1>9. CASE Fails
  BY <1>1, <1>2, <1>5, <1>8, <1>9, FailKeeps DEF TypeOK
<1>10. CASE ~Fails
  <2>1. mem' = Programmed(r.cells \cap staged) /\ UNCHANGED <<phase, result, faults>>
    BY <1>3, <1>10
  <2>2. TypeOK'
    BY <1>1, <1>2, <1>5, <2>1, MapStays DEF TypeOK
  <2>3. Order'
    BY <1>1, <2>1 DEF IndInv, Order
  <2>4. Chosen' = Chosen /\ Members' = Members /\ Wanted' = Wanted
    BY <1>1, ChosenStays
  <2>5. Queue'
    BY <1>1, <1>3, <2>1, <2>4, MapStays DEF IndInv, Queue, Busy, Working
  <2>6. Chosen \ Waiting' = (Chosen \ Waiting) \cup {r}
    <3>1. Grouping[r] \notin groups
      BY <1>1, <1>2, <1>3 DEF IndInv, Queue, Members
    <3> QED BY <1>1, <1>3, <1>4, <2>1, <2>4, <3>1, MapStays DEF Waiting
  <2>7. Erased'
    <3>1. ASSUME chip, NEW s \in left', NEW c \in s.cells PROVE mem'[c] = "erased"
      <4>1. mem[c] = "erased"
        BY <1>1, <1>3, <3>1 DEF IndInv, Erased
      <4> QED BY <1>2, <1>3, <1>7, <3>1, <4>1 DEF Members
    <3> QED BY <1>1, <2>1, <3>1 DEF Erased
  <2>8. NewIsDone'
    <3> SUFFICES ASSUME NEW c \in Cells, mem'[c] = "new"
                 PROVE  \E s \in Chosen \ Waiting' : c \in s.cells
      BY <1>1, <2>1, <2>4, MapStays DEF NewIsDone
    <3>1. CASE c \in r.cells
      BY <2>6, <3>1
    <3>2. CASE c \notin r.cells
      BY <1>1, <1>5, <2>6, <3>2, NewIs
    <3> QED BY <3>1, <3>2
  <2>9. ASSUME Placed PROVE Placed'
    <3> SUFFICES ASSUME ~op.skip, NEW s \in Chosen \ Waiting', NEW c \in s.cells \cap staged
                 PROVE  mem'[c] = "new"
      BY <1>1, <2>1, <2>4 DEF Placed
    <3>1. CASE s = r
      <4>1. c \in Cells
        BY <1>2, <1>4, <3>1, RegionsAre
      <4>2. chip => mem[c] = "erased"
        BY <1>1, <1>3, <3>1 DEF IndInv, Erased
      <4> QED BY <1>2, <2>1, <3>1, <4>1, <4>2, ProgrammedIs
    <3>2. CASE s # r
      BY <1>1, <1>7, <2>6, <2>9, <3>2 DEF Placed
    <3> QED BY <3>1, <3>2
  <2> QED BY <1>8, <2>2, <2>3, <2>5, <2>7, <2>8, <2>9 DEF IndInv
<1> QED BY <1>9, <1>10

\* The end of a group, and of all groups.
LEMMA GroupsEndKeeps ==
  ASSUME IndInv, GroupDone \/ AllGroupsDone PROVE IndInv' /\ (Placed => Placed')
<1>1. /\ phase \in Busy /\ phase \in {"program", "group"}
      /\ UNCHANGED <<target, mem, staged, op, groups, group, left, chip, faults>>
  BY DEF GroupDone, AllGroupsDone, Busy, Working
<1>2. TypeOK /\ op \in Commits \cup Erases
  BY <1>1 DEF IndInv, Order
<1>3. CASE phase' = "done"
  BY <1>1, <1>2, <1>3, DoneKeeps DEF TypeOK
<1>4. CASE phase' # "done"
  <2>1. /\ phase = "program" => phase' = "group" /\ left = {}
        /\ phase = "group" => phase' = "ram" /\ groups = {} /\ op.kind = "commit"
    BY <1>1, <1>4 DEF GroupDone, AllGroupsDone, Finish
  <2>2. phase' \in {"group", "ram"}
    BY <1>1, <2>1
  <2>3. TypeOK'
    BY <1>1, <1>2, <2>2, MapStays DEF TypeOK, Busy
  <2>4. Order'
    BY <1>1, <2>1, <2>2 DEF IndInv, Order, Busy, Working
  <2>5. Chosen' = Chosen /\ Members' = Members /\ Wanted' = Wanted
    BY <1>1, ChosenStays
  <2>6. Queue'
    BY <1>1, <2>2, <2>5, MapStays DEF IndInv, Queue, Busy, Working
  <2>7. Waiting' = Waiting
    BY <1>1, <2>1, <2>2, <2>5, MapStays DEF Waiting, Working
  <2>8. Erased'
    BY <1>1, <2>2, <2>5, <2>7 DEF IndInv, Erased
  <2>9. NewIsDone'
    BY <1>1, <2>2, <2>5, <2>7, MapStays DEF IndInv, NewIsDone, Busy
  <2>10. Placed => Placed'
    BY <1>1, <2>2, <2>5, <2>7 DEF Placed
  <2> QED BY <2>3, <2>4, <2>6, <2>8, <2>9, <2>10 DEF IndInv
<1> QED BY <1>3, <1>4

\* RAM is written when nothing waits any more.
LEMMA CommitRamKeeps ==
  ASSUME IndInv, CommitRam
  PROVE  /\ IndInv' /\ (Placed => Placed')
         /\ \A c \in Cells : mem[c] = "new" => mem'[c] = "new"
         /\ phase' = "verify" \/ result' = "ok" =>
              /\ Placed /\ ~op.skip => \A c \in staged \cap (NvmCells \cup RamData) : mem'[c] = "new"
<1>1. /\ phase = "ram" /\ phase \in Busy /\ op.kind = "commit" /\ groups = {}
      /\ UNCHANGED <<target, staged, op, groups, group, left, chip>>
  BY DEF CommitRam, IndInv, Order, Busy
<1>2. /\ TypeOK /\ target \in Targets /\ mem \in [Cells -> Contents] /\ op \in Commits \cup Erases
      /\ Chosen \subseteq Nvm /\ faults \in Nat /\ chip \in BOOLEAN
  BY <1>1 DEF IndInv, TypeOK, Order, Queue, Flashable
<1>3. /\ mem' \in [Cells -> Contents]
      /\ \A c \in Cells : mem'[c] = mem[c] \/ mem'[c] = "new"
  <2>1. ASSUME NEW some, mem' = Set(some, "new") PROVE <1>3
    BY <1>2, <2>1, SetIs DEF Contents
  <2> QED BY <1>2, <2>1 DEF CommitRam
<1>4. \A c \in Cells : mem[c] = "new" => mem'[c] = "new"
  BY <1>3
<1>5. CASE Fails
  <2>1. phase' = "done" /\ result' = "err"
    BY <1>5 DEF Fails, Finish
  <2> QED BY <1>1, <1>2, <1>3, <1>4, <1>5, <2>1, FailKeeps DEF TypeOK
<1>6. CASE Finish("err") /\ UNCHANGED <<mem, faults>>
  <2>1. phase' = "done" /\ result' = "err"
    BY <1>6 DEF Finish
  <2> QED BY <1>1, <1>2, <1>3, <1>4, <1>6, <2>1, DoneKeeps
<1>7. CASE /\ mem' = Set(RamData, "new") /\ UNCHANGED faults
           /\ IF op.verify THEN phase' = "verify" /\ UNCHANGED result ELSE Finish("ok")
  <2>1. phase' \in {"verify", "done"}
    BY <1>7 DEF Finish
  <2>2. TypeOK'
    BY <1>1, <1>2, <1>3, <1>7, <2>1, MapStays DEF TypeOK
  <2>3. Order'
    BY <1>1, <2>1 DEF IndInv, Order, Busy, Working
  <2>4. Queue' /\ Erased' /\ NewIsDone'
    BY <2>1 DEF Queue, Erased, NewIsDone, Busy, Working
  <2>5. Waiting = {}
    BY <1>1 DEF Waiting, Working
  <2>6. ASSUME Placed, ~op.skip, NEW c \in staged \cap (NvmCells \cup RamData) PROVE mem'[c] = "new"
    <3>1. CASE c \in NvmCells
      <4>1. PICK r \in Nvm : c \in r.cells
        BY <3>1 DEF NvmCells
      <4>2. r \in Chosen /\ c \in Cells
        BY <1>1, <1>2, <2>6, <4>1, RegionsAre DEF Chosen, RegionsFor
      <4>3. mem[c] = "new"
        BY <1>1, <2>5, <2>6, <4>1, <4>2 DEF Placed
      <4> QED BY <1>4, <4>2, <4>3
    <3>2. CASE c \in RamData
      <4>1. c \in Cells
        BY <1>2, <3>2, RegionsAre DEF RamData
      <4> QED BY <1>2, <1>7, <3>2, <4>1, SetIs DEF Contents
    <3> QED BY <2>6, <3>1, <3>2
  <2>7. Placed => Placed'
    <3>1. NvmCells' = NvmCells /\ RamData' = RamData
      BY <1>1, MapStays, ChosenStays
    <3> QED BY <1>1, <2>1, <2>6, <3>1 DEF Placed, Busy, Working
  <2> QED BY <1>4, <2>2, <2>3, <2>4, <2>6, <2>7 DEF IndInv
<1> QED BY <1>5, <1>6, <1>7 DEF CommitRam

\* Verification changes nothing.
LEMMA VerifyKeeps ==
  ASSUME IndInv, Verify PROVE IndInv' /\ Placed'
<1>1. /\ phase = "verify" /\ phase' = "done" /\ (UNCHANGED faults \/ faults' = faults + 1)
      /\ UNCHANGED <<target, mem, staged, op, groups, group, left, chip>>
  BY DEF Verify, Finish, Fails
<1>2. TypeOK /\ op \in Commits \cup Erases
  BY <1>1 DEF IndInv, Order
<1> QED BY <1>1, <1>2, DoneKeeps DEF TypeOK

-----------------------------------------------------------------------------
(* The invariants and the properties.                                      *)

\* Every step keeps the invariant, whatever chip erases reach.
LEMMA StepKeepsIndInv == ASSUME IndInv, [Next]_vars PROVE IndInv'
<1>1. CASE UNCHANGED vars
  <2>1. UNCHANGED <<target, mem, staged, op, phase, groups, group, left, chip, faults>>
    BY <1>1 DEF vars
  <2>2. TypeOK' /\ Order'
    BY <2>1, MapStays DEF IndInv, TypeOK, Order
  <2>3. Chosen' = Chosen /\ Members' = Members /\ Wanted' = Wanted /\ Waiting' = Waiting
    BY <2>1, ChosenStays, MapStays DEF Waiting
  <2>4. Queue' /\ Erased' /\ NewIsDone'
    BY <2>1, <2>3, MapStays DEF IndInv, Queue, Erased, NewIsDone
  <2> QED BY <2>2, <2>4 DEF IndInv
<1>2. ASSUME NEW first \in Cells, NEW last \in Cells, LoaderAddData(first, last + 1) PROVE IndInv'
  BY <1>2, AddDataKeeps
<1>3. ASSUME NEW o \in Commits \cup Erases, Start(o) PROVE IndInv'
  BY <1>3, StartKeeps
<1>4. CASE NextGroup
  BY <1>4, NextGroupKeeps
<1>5. CASE ChipErase
  BY <1>5, ChipEraseKeeps
<1>6. CASE EraseSectors
  BY <1>6, EraseSectorsKeeps
<1>7. CASE ProgramRegion
  BY <1>7, ProgramRegionKeeps
<1>8. CASE GroupDone \/ AllGroupsDone
  BY <1>8, GroupsEndKeeps
<1>9. CASE CommitRam
  BY <1>9, CommitRamKeeps
<1>10. CASE Verify
  BY <1>10, VerifyKeeps
<1> QED BY <1>1, <1>2, <1>3, <1>4, <1>5, <1>6, <1>7, <1>8, <1>9, <1>10 DEF Next

LEMMA IndInvHolds == Spec => []IndInv
<1>1. Init => IndInv
  BY InitIndInv
<1>2. IndInv /\ [Next]_vars => IndInv'
  BY StepKeepsIndInv
<1> QED BY <1>1, <1>2, PTL DEF Spec

\* A step leaves what is new, when no chip erase reaches the regions of another group.
LEMMA StepKeepsNew ==
  ASSUME IndInv, Apart, [Next]_vars PROVE \A c \in Cells : mem[c] = "new" => mem'[c] = "new"
<1>1. CASE mem' = mem
  BY <1>1
<1>2. CASE NextGroup
  BY <1>2, NextGroupKeeps
<1>3. CASE ChipErase
  BY <1>3, ChipEraseKeeps
<1>4. CASE EraseSectors
  BY <1>4, EraseSectorsKeeps
<1>5. CASE ProgramRegion
  BY <1>5, ProgramRegionKeeps
<1>6. CASE CommitRam
  BY <1>6, CommitRamKeeps
<1>7. CASE UNCHANGED vars \/ Verify \/ GroupDone \/ AllGroupsDone
  BY <1>1, <1>7 DEF vars, Verify, GroupDone, AllGroupsDone
<1>8. ASSUME NEW first \in Cells, NEW last \in Cells, LoaderAddData(first, last + 1) PROVE mem' = mem
  BY <1>8 DEF LoaderAddData
<1>9. ASSUME NEW o \in Commits \cup Erases, Start(o) PROVE mem' = mem
  BY <1>9 DEF Start
<1> QED BY <1>1, <1>2, <1>3, <1>4, <1>5, <1>6, <1>7, <1>8, <1>9 DEF Next

\* Under the same condition what was staged for a region stays there.
LEMMA StepKeepsPlaced == ASSUME IndInv, Apart, Placed, [Next]_vars PROVE Placed'
<1>1. CASE UNCHANGED vars
  <2>1. UNCHANGED <<target, mem, staged, op, phase, groups, group, left, chip, faults>>
    BY <1>1 DEF vars
  <2>2. Chosen' = Chosen /\ Waiting' = Waiting /\ RamData' = RamData /\ NvmCells' = NvmCells
    BY <2>1, ChosenStays, MapStays DEF Waiting
  <2> QED BY <2>1, <2>2 DEF Placed
<1>2. ASSUME NEW first \in Cells, NEW last \in Cells, LoaderAddData(first, last + 1) PROVE Placed'
  BY <1>2, AddDataKeeps
<1>3. ASSUME NEW o \in Commits \cup Erases, Start(o) PROVE Placed'
  BY <1>3, StartKeeps
<1>4. CASE NextGroup
  BY <1>4, NextGroupKeeps
<1>5. CASE ChipErase
  BY <1>5, ChipEraseKeeps
<1>6. CASE EraseSectors
  BY <1>6, EraseSectorsKeeps
<1>7. CASE ProgramRegion
  BY <1>7, ProgramRegionKeeps
<1>8. CASE GroupDone \/ AllGroupsDone
  BY <1>8, GroupsEndKeeps
<1>9. CASE CommitRam
  BY <1>9, CommitRamKeeps
<1>10. CASE Verify
  BY <1>10, VerifyKeeps
<1> QED BY <1>1, <1>2, <1>3, <1>4, <1>5, <1>6, <1>7, <1>8, <1>9, <1>10 DEF Next

\* What Ok means is decided by the step that ends the operation.
LEMMA StepKeepsOk ==
  ASSUME IndInv, Placed, OkMeansDone, [Next]_vars PROVE OkMeansDone'
<1>1. CASE UNCHANGED vars
  BY <1>1, MapStays DEF vars, OkMeansDone, Committed, RamData, Real
<1>2. CASE Next /\ ~(phase' = "done" /\ result' = "ok")
  BY <1>2 DEF OkMeansDone, Committed
<1>3. CASE Next /\ phase' = "done" /\ result' = "ok"
  <2>1. ASSUME NEW o \in Commits \cup Erases, Start(o) PROVE OkMeansDone'
    <3>1. op' = o /\ o.kind = "commit" /\ o.dry
      BY <1>3, <2>1 DEF Start, Finish
    <3> QED BY <3>1 DEF OkMeansDone, Committed
  <2>2. CASE AllGroupsDone
    <3>1. /\ phase = "group" /\ phase \in Busy /\ groups = {} /\ op.kind # "commit"
          /\ UNCHANGED <<target, mem, staged, op>>
      BY <1>3, <2>2 DEF AllGroupsDone, Busy
    <3>2. ASSUME op.kind = "erase_all", NEW c \in NvmCells PROVE mem[c] = "erased"
      <4>1. PICK r \in Nvm : c \in r.cells
        BY DEF NvmCells
      <4>2. r \in Chosen \ Waiting
        BY <3>1, <4>1 DEF Chosen, RegionsFor, Waiting, Working
      <4> QED BY <3>1, <3>2, <4>1, <4>2 DEF IndInv, Erased
    <3> QED BY <3>1, <3>2, MapStays DEF OkMeansDone, Committed
  <2>3. CASE CommitRam
    <3>1. /\ op.kind = "commit" /\ UNCHANGED <<target, staged, op>> /\ op \in Commits \cup Erases
      BY <2>3 DEF CommitRam, IndInv, Order
    <3>2. op.verify = FALSE
      <4>1. op.verify \in BOOLEAN
        BY <3>1, OperationIs
      <4> QED BY <1>3, <2>3, <4>1 DEF CommitRam, Finish, Fails
    <3>3. ~op.skip => \A c \in staged \cap (NvmCells \cup RamData) : mem'[c] = "new"
      BY <1>3, <2>3, CommitRamKeeps
    <3>4. NvmCells' = NvmCells /\ RamData' = RamData
      BY <3>1, MapStays, ChosenStays
    <3> QED BY <3>1, <3>2, <3>3, <3>4 DEF OkMeansDone, Committed
  <2>4. CASE Verify
    <3>1. /\ phase = "verify" /\ op.kind = "commit" /\ Matches
          /\ UNCHANGED <<target, mem, staged, op>>
      BY <1>3, <2>4 DEF Verify, Finish, Fails, IndInv, Order
    <3>2. ~op.skip => \A c \in staged \cap (NvmCells \cup RamData) : mem[c] = "new"
      BY <3>1 DEF Placed
    <3>3. NvmCells' = NvmCells /\ RamData' = RamData
      BY <3>1, MapStays, ChosenStays
    <3> QED BY <3>1, <3>2, <3>3 DEF OkMeansDone, Committed, Matches, Real
  <2>5. CASE NextGroup
    BY <1>3, <2>5 DEF NextGroup, Finish, Fails
  <2>6. CASE ChipErase \/ EraseSectors \/ ProgramRegion \/ GroupDone
    BY <1>3, <2>6 DEF ChipErase, EraseSectors, ProgramRegion, GroupDone, Fails, Finish
  <2>7. ASSUME NEW first \in Cells, NEW last \in Cells, LoaderAddData(first, last + 1) PROVE FALSE
    BY <1>3, <2>7 DEF LoaderAddData
  <2> QED BY <1>3, <2>1, <2>2, <2>3, <2>4, <2>5, <2>6, <2>7 DEF Next
<1> QED BY <1>1, <1>2, <1>3

\* A cell changes only if data is staged for it, if its erasure was asked for, or if it
\* is RAM for an algorithm; never in a dry run.
THEOREM ChangesAreAskedFor == Spec => OnlyAskedForIsChanged
<1>1. ASSUME IndInv, [Next]_vars
      PROVE  [\A c \in Cells : mem'[c] # mem[c] =>
                /\ op.kind = "commit" => ~op.dry
                /\ \/ op.kind = "commit" /\ c \in staged
                   \/ c \in NvmCells /\ (op.chip \/ op.kind = "erase_sectors")
                   \/ c \in group.algo.cells /\ op.chip /\ group.algo.eraseAll
                   \/ \E r \in Ram : c \in r.cells]_vars
  <2> SUFFICES ASSUME Next, NEW c \in Cells, mem'[c] # mem[c]
               PROVE  /\ op.kind = "commit" => ~op.dry
                      /\ \/ op.kind = "commit" /\ c \in staged
                         \/ c \in NvmCells /\ (op.chip \/ op.kind = "erase_sectors")
                         \/ c \in group.algo.cells /\ op.chip /\ group.algo.eraseAll
                         \/ \E r \in Ram : c \in r.cells
    BY <1>1
  <2>0. /\ TypeOK /\ Order /\ Queue /\ target \in Targets /\ mem \in [Cells -> Contents]
        /\ (phase # "staging" => op \in Commits \cup Erases)
        /\ (phase \in Busy \cup {"verify"} /\ op.kind = "commit" => ~op.dry)
    BY <1>1 DEF IndInv, TypeOK, Order
  <2>1. CASE NextGroup
    <3>1. phase \in Busy
      BY <2>1 DEF NextGroup, Busy
    <3>2. PICK core : \E i \in LoadableRams(core) : mem' = Set(target.map[i].cells, "junk")
      BY <2>1 DEF NextGroup
    <3>3. PICK i \in LoadableRams(core) : mem' = Set(target.map[i].cells, "junk")
      BY <3>2
    <3>4. target.map[i] \in Ram
      BY <2>0, RegionsAre DEF LoadableRams, Ram
    <3>5. c \in target.map[i].cells
      BY <2>0, <3>3, SetIs DEF Contents
    <3> QED BY <2>0, <3>1, <3>4, <3>5
  <2>2. CASE ChipErase
    <3>1. phase \in Busy /\ phase \in Working /\ chip /\ mem' = Set(ChipErased, "erased")
      BY <2>0, <2>2 DEF ChipErase, Queue, Busy, Working
    <3>2. c \in ChipErased
      BY <2>0, <3>1, SetIs DEF Contents
    <3>3. op.chip /\ (target.sequence \/ group.algo.eraseAll)
      BY <2>0, <3>1 DEF Queue
    <3> QED BY <2>0, <3>1, <3>2, <3>3 DEF ChipErased
  <2>3. CASE EraseSectors
    <3>1. /\ phase \in Busy /\ phase \in Working /\ op.kind # "commit" /\ op \in Commits \cup Erases
          /\ left \subseteq Nvm
      BY <2>0, <2>3 DEF EraseSectors, Order, Queue, Members, Busy, Working, Flashable
    <3>2. PICK some \in SUBSET SectorsErased : mem' = Set(some, "erased")
      BY <2>3 DEF EraseSectors
    <3>3. c \in SectorsErased
      BY <2>0, <3>2, SetIs DEF Contents
    <3>4. c \in UNION {r.cells : r \in left}
      BY <3>3 DEF SectorsErased
    <3>5. c \in NvmCells
      BY <3>1, <3>4 DEF NvmCells
    <3> QED BY <3>1, <3>5, OperationIs
  <2>4. CASE ProgramRegion
    <3>1. phase \in Busy /\ op.kind = "commit"
      BY <2>0, <2>4 DEF ProgramRegion, Order, Busy, Working
    <3>2. PICK some \in SUBSET staged : mem' = Programmed(some) \/ mem' = Set(some, "erased")
      <4>1. PICK r \in left : \/ mem' = Programmed(r.cells \cap staged)
                              \/ \E some \in SUBSET (r.cells \cap staged) : mem' = Programmed(some)
                              \/ mem' = Set(r.cells \cap staged, "erased")
        BY <2>4 DEF ProgramRegion
      <4> QED BY <4>1
    <3>3. c \in staged
      BY <2>0, <3>2, SetIs, ProgrammedIs DEF Contents
    <3> QED BY <2>0, <3>1, <3>3
  <2>5. CASE CommitRam
    <3>1. phase \in Busy /\ op.kind = "commit"
      BY <2>0, <2>5 DEF CommitRam, Order, Busy
    <3>2. PICK some \in SUBSET RamData : mem' = Set(some, "new")
      BY <2>5 DEF CommitRam
    <3>3. c \in staged
      BY <2>0, <3>2, SetIs DEF Contents, RamData
    <3> QED BY <2>0, <3>1, <3>3
  <2>6. CASE Verify \/ GroupDone \/ AllGroupsDone
    BY <2>6 DEF Verify, GroupDone, AllGroupsDone
  <2>7. ASSUME NEW first \in Cells, NEW last \in Cells, LoaderAddData(first, last + 1) PROVE FALSE
    BY <2>7 DEF LoaderAddData
  <2>8. ASSUME NEW o \in Commits \cup Erases, Start(o) PROVE FALSE
    BY <2>8 DEF Start
  <2> QED BY <2>1, <2>2, <2>3, <2>4, <2>5, <2>6, <2>7, <2>8 DEF Next
<1> QED BY <1>1, IndInvHolds, PTL DEF Spec, OnlyAskedForIsChanged

\* What was flashed is neither erased nor overwritten, when no chip erase of a group
\* reaches the regions of another one.
THEOREM FlashedStays == ASSUME Apart PROVE Spec => FlashedContentsStay
<1>1. IndInv /\ [Next]_vars => [\A c \in Cells : mem[c] = "new" => mem'[c] = "new"]_vars
  BY StepKeepsNew
<1> QED BY <1>1, IndInvHolds, PTL DEF Spec, FlashedContentsStay

\* Under the same condition Ok means that everything that was asked for is done.
THEOREM OkIsDone == ASSUME Apart PROVE Spec => []OkMeansDone
<1>1. Init => Placed /\ OkMeansDone
  BY InitIndInv DEF Init, OkMeansDone, Committed
<1>2. IndInv /\ Placed /\ OkMeansDone /\ [Next]_vars => Placed' /\ OkMeansDone'
  BY StepKeepsPlaced, StepKeepsOk
<1> QED BY <1>1, <1>2, IndInvHolds, PTL DEF Spec
=============================================================================
