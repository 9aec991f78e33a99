---------------------------- MODULE FlashLoader ----------------------------
(***************************************************************************)
(* Committing staged data to all memories of a target, and erasing it:     *)
(* probe-rs/src/flashing/loader.rs and erase.rs.  The regions with data    *)
(* are grouped by flash algorithm and core; each group is flashed in turn, *)
(* in the order of a hash map; the data for RAM is written last.           *)
(*                                                                         *)
(* Memory is a set of cells, each one sector of flash or one block of RAM. *)
(* What a run of an algorithm does to a sector's bytes is the matter of    *)
(* Flasher and FlashLayout; here a cell holds its old content, is erased,  *)
(* holds what was staged for it, or holds neither.                         *)
(***************************************************************************)
EXTENDS Integers, Sequences, FiniteSets, SequencesExt

CONSTANTS
  Targets,    \* [cells, map, algos, aliasOf, sequence]: all cells, the regions in
              \* order, algorithms, what alias cells stand for, session-wide erase
  MaxFaults   \* bound: failing operations on the target

ASSUME TargetsAssumption ==
  \A t \in Targets :
    /\ IsFiniteSet(t.algos) /\ t.map \in Seq(ToSet(t.map))
    /\ \A i \in 1 .. Len(t.map) : /\ t.map[i].type \in {"nvm", "ram", "generic"}
                                  /\ t.map[i].cells \subseteq t.cells
    /\ \A i, j \in 1 .. Len(t.map) : i # j => t.map[i].cells \cap t.map[j].cells = {}
ASSUME MaxFaultsAssumption == MaxFaults \in Nat

VARIABLES
  target, mem,
  staged,            \* cells for which the builder has data
  op, phase, result,
  groups, group,     \* the (algorithm, core) pairs left, the one under way
  left,              \* its regions left
  chip,              \* do_chip_erase, once the algorithm is known
  faults

vars == <<target, mem, staged, op, phase, result, groups, group, left, chip, faults>>

Cells == target.cells
Regions == ToSet(target.map)
Nvm == {r \in Regions : r.type = "nvm" /\ ~r.alias}
Ram == {r \in Regions : r.type = "ram"}
NvmCells == UNION {r.cells : r \in Nvm}

\* A cell of an alias region is the cell it is an alias of.
Real(c) == IF c \in DOMAIN target.aliasOf THEN target.aliasOf[c] ELSE c

NoOp == [kind |-> "none"]
NoGroup == [algo |-> [name |-> "none", cells |-> {}, default |-> FALSE, eraseAll |-> FALSE],
            core |-> "none"]

Init ==
  /\ target \in Targets
  /\ \E content \in {"old", "erased"} : mem = [c \in Cells |-> content]
  /\ staged = {} /\ op = NoOp /\ phase = "staging" /\ result = "none"
  /\ groups = {} /\ group = NoGroup /\ left = {} /\ chip = FALSE
  /\ faults = 0

-----------------------------------------------------------------------------
Covered(first, past) ==
  first .. past - 1 \subseteq UNION {r.cells : r \in {s \in Regions : s.type # "generic"}}

\* add_data: the whole range must be covered by regions of flash and RAM, and
\* (FlashLayout's AddRefused) must not meet data staged before.  An image gives a
\* cell content at one of its addresses.
LoaderAddData(first, past) ==
  /\ phase = "staging"
  /\ Covered(first, past)
  /\ {Real(c) : c \in first .. past - 1} \cap {Real(c) : c \in staged} = {}
  /\ staged' = staged \cup (first .. past - 1)
  /\ UNCHANGED <<target, mem, op, phase, result, groups, group, left, chip, faults>>

\* get_flash_algorithm_for_region: the algorithms whose range contains the region,
\* among several the default ones; exactly one must remain.
AlgorithmsOf(t, r) ==
  LET fitting == {a \in t.algos : r.cells \subseteq a.cells}
  IN  IF Cardinality(fitting) <= 1 THEN fitting ELSE {a \in fitting : a.default}

AlgorithmsFor(r) == AlgorithmsOf(target, r)

\* Slip: every region is a group of its own.
SlipGroupOf(r) ==
  [algo |-> CHOOSE a \in AlgorithmsFor(r) : TRUE, core |-> Head(r.cores), region |-> r.cells]

GroupOf(r) == [algo |-> CHOOSE a \in AlgorithmsFor(r) : TRUE, core |-> Head(r.cores)]

\* Regions without an algorithm, with several, or that no core can access.
Unflashable(r) == Cardinality(AlgorithmsFor(r)) # 1 \/ r.cores = <<>>

\* commit takes the regions with data, erase_all and erase_sectors all of them.
RegionsFor(o) == IF o.kind = "commit" THEN {r \in Nvm : r.cells \cap staged # {}} ELSE Nvm

Finish(r) == phase' = "done" /\ result' = r

Start(o) ==
  /\ phase = "staging" /\ op' = o
  /\ groups' = {GroupOf(r) : r \in {s \in RegionsFor(o) : ~Unflashable(s)}}
  /\ IF \E r \in RegionsFor(o) : Unflashable(r) THEN Finish("err")
     ELSE IF o.kind = "commit" /\ o.dry THEN Finish("ok")
     ELSE phase' = "group" /\ UNCHANGED result
  /\ UNCHANGED <<target, mem, staged, group, left, chip, faults>>

\* The operations of the loader; erase_all erases the chip wherever it can.
Commits == [kind : {"commit"}, chip : BOOLEAN, skip : BOOLEAN, verify : BOOLEAN, dry : BOOLEAN]
Erases == {[kind |-> "erase_all", chip |-> TRUE, from |-> 0, count |-> 0]}
          \cup [kind : {"erase_sectors"}, chip : {FALSE}, from : 0 .. 1, count : 1 .. 2]

-----------------------------------------------------------------------------
(* Flashing one group.                                                     *)

Fails == faults < MaxFaults /\ faults' = faults + 1 /\ Finish("err")

Set(cells, content) == [c \in Cells |-> IF c \in cells THEN content ELSE mem[c]]

\* Flasher::new loads the algorithm into the first RAM its core can access.
LoadableRams(core) ==
  {i \in 1 .. Len(target.map) : target.map[i].type = "ram" /\ Contains(target.map[i].cores, core)}

CanChipErase(g) == target.sequence \/ g.algo.eraseAll

NextGroup ==
  /\ phase = "group"
  /\ \E g \in groups :
       /\ group' = g /\ groups' = groups \ {g}
       /\ left' = {r \in RegionsFor(op) : GroupOf(r) = g}
       /\ chip' = (op.chip /\ CanChipErase(g))
       /\ \/ LoadableRams(g.core) = {} /\ Finish("err") /\ UNCHANGED <<mem, faults>>
          \/ /\ \E i \in LoadableRams(g.core) :
                  /\ \A j \in LoadableRams(g.core) : i <= j
                  /\ mem' = Set(target.map[i].cells, "junk")
             /\ \/ phase' = (IF op.kind # "commit" THEN "erase" ELSE IF chip' THEN "chip" ELSE "program")
                   /\ UNCHANGED <<result, faults>>
                \/ Fails
  /\ UNCHANGED <<target, staged, op>>

\* Chip erase: by the session's sequence if it has one, for the whole target, else
\* by the algorithm, for all it controls.
ChipErased == IF target.sequence THEN NvmCells ELSE group.algo.cells \cap Cells

ChipErase ==
  /\ phase = "chip" \/ (phase = "erase" /\ chip)
  /\ \/ /\ mem' = Set(ChipErased, "erased")
        /\ phase' = (IF op.kind = "commit" THEN "program" ELSE "group") /\ UNCHANGED <<result, faults>>
     \/ mem' \in {mem, Set(ChipErased, "erased")} /\ Fails
  /\ UNCHANGED <<target, staged, op, groups, group, left, chip>>

\* The sectors of the algorithm, in order.
SectorsOf(algo) == SetToSortSeq(algo.cells, <)


\* Slip: sectors outside the target's regions are not filtered out.
SlipSectorsErased ==
  IF op.kind = "erase_all" THEN UNION {r.cells : r \in left}
  ELSE {SectorsOf(group.algo)[i] :
          i \in (op.from + 1 .. op.from + op.count) \cap DOMAIN SectorsOf(group.algo)}

\* erase_all erases the sectors in the group's regions, erase_sectors those of them
\* among the chosen ones of the algorithm.
SectorsErased ==
  LET inRegions == UNION {r.cells : r \in left}
      sectors == SectorsOf(group.algo)
      chosen == {sectors[i] : i \in (op.from + 1 .. op.from + op.count) \cap DOMAIN sectors}
  IN  IF op.kind = "erase_all" THEN inRegions ELSE chosen \cap inRegions

EraseSectors ==
  /\ phase = "erase" /\ ~chip
  /\ \/ mem' = Set(SectorsErased, "erased") /\ phase' = "group" /\ UNCHANGED <<result, faults>>
     \/ (\E some \in SUBSET SectorsErased : mem' = Set(some, "erased")) /\ Fails
  /\ UNCHANGED <<target, staged, op, groups, group, left, chip>>

\* What Flasher::program makes of the cells it programs; flash that is not erased
\* does not take the data.
Programmed(cells) ==
  [c \in Cells |-> IF c \notin cells THEN mem[c]
                   ELSE IF (op.skip \/ chip) /\ mem[c] # "erased" THEN "junk" ELSE "new"]

ProgramRegion ==
  /\ phase = "program" /\ left # {}
  /\ \E r \in left :
       /\ left' = left \ {r}
       /\ \/ mem' = Programmed(r.cells \cap staged) /\ UNCHANGED <<phase, result, faults>>
          \/ /\ \/ \E some \in SUBSET (r.cells \cap staged) : mem' = Programmed(some)
                \/ ~op.skip /\ ~chip /\ mem' = Set(r.cells \cap staged, "erased")
             /\ Fails
  /\ UNCHANGED <<target, staged, op, groups, group, chip>>

GroupDone ==
  /\ phase = "program" /\ left = {} /\ phase' = "group"
  /\ UNCHANGED <<target, mem, staged, op, result, groups, group, left, chip, faults>>

AllGroupsDone ==
  /\ phase = "group" /\ groups = {}
  /\ IF op.kind = "commit" THEN phase' = "ram" /\ UNCHANGED result ELSE Finish("ok")
  /\ UNCHANGED <<target, mem, staged, op, groups, group, left, chip, faults>>

-----------------------------------------------------------------------------
(* RAM and verification.                                                   *)

RamData == staged \cap UNION {r.cells : r \in Ram}

\* Every RAM region needs a core, also one without data.
CommitRam ==
  /\ phase = "ram"
  /\ \/ /\ \A r \in Ram : r.cores # <<>>
        /\ mem' = Set(RamData, "new")
        /\ IF op.verify THEN phase' = "verify" /\ UNCHANGED result ELSE Finish("ok")
        /\ UNCHANGED faults
     \/ /\ \E r \in Ram : r.cores = <<>>
        /\ Finish("err") /\ UNCHANGED <<mem, faults>>
     \/ (\E some \in SUBSET RamData : mem' = Set(some, "new")) /\ Fails
  /\ UNCHANGED <<target, staged, op, groups, group, left, chip>>

\* Slip: only what was flashed is read back.
SlipMatches == \A c \in staged \cap NvmCells : mem[c] = "new"

Matches == \A c \in staged : mem[Real(c)] = "new"

Verify ==
  /\ phase = "verify"
  /\ \/ Finish(IF Matches THEN "ok" ELSE "err") /\ UNCHANGED faults
     \/ Fails
  /\ UNCHANGED <<target, mem, staged, op, groups, group, left, chip>>

-----------------------------------------------------------------------------
Next ==
  \/ \E first, last \in Cells : first <= last /\ LoaderAddData(first, last + 1)
  \/ \E o \in Commits \cup Erases : Start(o)
  \/ NextGroup \/ ChipErase \/ EraseSectors \/ ProgramRegion \/ GroupDone \/ AllGroupsDone
  \/ CommitRam \/ Verify

Spec == Init /\ [][Next]_vars

-----------------------------------------------------------------------------
Committed == phase = "done" /\ result = "ok" /\ op.kind = "commit" /\ ~op.dry

\* Ok of commit means that everything staged for flash regions that are no alias,
\* and for RAM, is there, in whatever order the groups were flashed, unless the
\* caller answers for the flash being erased (skip_erase).  With verify it means
\* that of all staged data: also data staged at an alias address, which is never
\* written, and data over flash that was not erased.  Ok of erase_all means that
\* every flash region that is no alias is erased.
OkMeansDone ==
  /\ Committed /\ ~op.skip => \A c \in staged \cap (NvmCells \cup RamData) : mem[c] = "new"
  /\ Committed /\ op.verify => \A c \in staged : mem[Real(c)] = "new"
  /\ phase = "done" /\ result = "ok" /\ op.kind = "erase_all" =>
       \A c \in NvmCells : mem[c] = "erased"

\* Chip erase of one group does not reach the regions of another.  Nothing in the
\* code or the target descriptions ensures it: flash_loader_shared is about a target
\* of which it is not true.
GroupsApart(t) ==
  LET flash == {r \in ToSet(t.map) : r.type = "nvm" /\ ~r.alias}
  IN  \A r, s \in flash : \A a, b \in t.algos :
        /\ AlgorithmsOf(t, r) = {a} /\ AlgorithmsOf(t, s) = {b}
        /\ <<a, Head(r.cores)>> # <<b, Head(s.cores)>>
        => ~t.sequence /\ (a.eraseAll => a.cells \cap s.cells = {})

\* "we must do chip erase once per algorithm, not once per region.  Otherwise
\* subsequent chip erases will erase previous regions' flashed contents" (loader.rs
\* 376-380): what was written is neither erased nor overwritten afterwards.
FlashedContentsStay ==
  [][\A c \in Cells : mem[c] = "new" => mem'[c] = "new"]_vars

\* A memory cell changes only if data is staged for it, or if it is erased on
\* request and is flash of the target (by chip erase: flash the algorithm
\* controls), or if it is RAM for an algorithm; never in a dry run.
OnlyAskedForIsChanged ==
  [][\A c \in Cells : mem'[c] # mem[c] =>
       /\ op.kind = "commit" => ~op.dry
       /\ \/ op.kind = "commit" /\ c \in staged
          \/ c \in NvmCells /\ (op.chip \/ op.kind = "erase_sectors")
          \/ c \in group.algo.cells /\ op.chip /\ group.algo.eraseAll
          \/ \E r \in Ram : c \in r.cells]_vars
=============================================================================
