----------------------------- MODULE MCFlasher -----------------------------
(* Plans are built by FlashLayout from staged blocks: two sectors of two    *)
(* pages of two bytes, and data that fills a page, part of one, two pages   *)
(* of one sector, or crosses into the second sector.                        *)
EXTENDS Flasher
L == INSTANCE FlashLayout

MCSize == 8
Props == [start |-> 0, end |-> 8, page |-> 2, sectors |-> <<[address |-> 0, size |-> 4]>>]

ByAddress(ranges) == SetToSortSeq(ranges, LAMBDA r, s : r[1] < s[1])

PlanOf(staged, restore, double, skip, chip, init, uninit, sequence) ==
  LET layout == L!Layout(Props, <<0, 8>>, staged, restore)
  IN  [sectors |-> ByAddress(layout.sectors), pages |-> ByAddress(layout.pages),
       fills |-> ByAddress({f.range : f \in layout.fills}),
       staged |-> L!Staged(staged), restore |-> restore, double |-> double,
       skip |-> skip, chip |-> chip, init |-> init, uninit |-> uninit, sequence |-> sequence]

Block(a, len) == [x \in {a} |-> len]
Two(a, b, len) == [x \in {a, b} |-> len]
Data == {Block(1, 1), Block(0, 4), Block(1, 4), Two(0, 6, 1)}

MCChipPlans == {PlanOf(d, restore, double, FALSE, TRUE, init, TRUE, sequence) :
                  d \in Data, restore, double, init, sequence \in BOOLEAN}
MCPlans == {PlanOf(d, restore, double, skip, FALSE, init, uninit, FALSE) :
              d \in Data, restore, double, skip, init, uninit \in BOOLEAN} \cup MCChipPlans
AllFaults == {"fail", "hang", "lockup", "probe"}
=============================================================================
