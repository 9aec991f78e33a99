---------------------------- MODULE FlashLayout ----------------------------
(***************************************************************************)
(* What is erased and programmed: the FlashBuilder of probe-rs/src/        *)
(* flashing/builder.rs and the geometry of flash_algorithm.rs.             *)
(*                                                                         *)
(* Staged data is the builder's ordered map: a function from the start     *)
(* address of a block to its length.  What the bytes are does not matter   *)
(* here, only where they are.  A range is a pair <<first, end>>.           *)
(***************************************************************************)
EXTENDS Integers, Sequences, FiniteSets, FiniteSetsExt, Functions

\* Flash properties: [start, end, page, sectors], sectors being a sequence of
\* [address, size] groups, addresses relative to start, as in FlashProperties.

Bytes(r) == r[1] .. r[2] - 1
ContainsRange(r, s) == s[2] # 0 /\ s[1] \in Bytes(r) /\ s[2] - 1 \in Bytes(r)

-----------------------------------------------------------------------------
(* Geometry.                                                               *)

\* The group of the sector at `addr`, `desc` being that of the one before: the
\* next group begins at most once per sector.
GroupAt(props, addr, desc) ==
  IF desc < Len(props.sectors) /\ props.start + props.sectors[desc + 1].address <= addr
  THEN desc + 1 ELSE desc

\* The n-th sector from the start of the flash: its address and its group.
Walk(props) ==
  LET at[n \in 0 .. props.end - props.start] ==
        IF n = 0 THEN <<props.start, GroupAt(props, props.start, 1)>>
        ELSE LET prev == at[n - 1]
                 addr == prev[1] + props.sectors[prev[2]].size
             IN  <<addr, GroupAt(props, addr, prev[2])>>
  IN at

\* iter_sectors: the walk, up to the end of the flash.
IterSectors(props) ==
  {<<w[1], w[1] + props.sectors[w[2]].size>> : w \in {v \in Range(Walk(props)) : v[1] < props.end}}

\* sector_info: the sector that contains an address, from the last group that
\* begins at or before it.
SectorInfo(props, addr) ==
  LET offset == addr - props.start
      groups == {i \in DOMAIN props.sectors : props.sectors[i].address <= offset}
      group  == props.sectors[Max(groups)]
      base   == props.start + group.address
                  + ((offset - group.address) \div group.size) * group.size
  IN  <<base, base + group.size>>

\* page_info counts pages from address 0, iter_pages from the start of the flash.
PageInfo(props, addr) ==
  LET base == addr - (addr % props.page) IN <<base, base + props.page>>

IterPages(props) ==
  {<<a, a + props.page>> :
     a \in {x \in props.start .. props.end - 1 : (x - props.start) % props.page = 0}}

-----------------------------------------------------------------------------
(* Staged data.                                                            *)

Staged(data) == UNION {a .. a + data[a] - 1 : a \in DOMAIN data}

Put(data, a, len) == [x \in DOMAIN data \cup {a} |-> IF x = a THEN len ELSE data[x]]

\* Slip: the new block may end one byte into its right neighbour.
SlipOverlapsRight(data, a, len) ==
  LET right == {x \in DOMAIN data : x >= a} IN right # {} /\ a + len > Min(right) + 1

OverlapsRight(data, a, len) ==
  LET right == {x \in DOMAIN data : x >= a} IN right # {} /\ a + len > Min(right)

OverlapsLeft(data, a) ==
  LET left == {x \in DOMAIN data : x < a} IN left # {} /\ Max(left) + data[Max(left)] > a

AddRefused(data, a, len) == len > 0 /\ (OverlapsRight(data, a, len) \/ OverlapsLeft(data, a))

\* add_data: an empty block is ignored, an overlapping one refused, one that
\* touches its left neighbour extends it.
AddData(data, a, len) ==
  LET left == {x \in DOMAIN data : x < a} IN
  IF len = 0 \/ AddRefused(data, a, len) THEN data
  ELSE IF left # {} /\ Max(left) + data[Max(left)] = a
       THEN Put(data, Max(left), data[Max(left)] + len)
       ELSE Put(data, a, len)

\* data_in_range: the blocks that start in the range and the one block before
\* it that reaches into it, cut to the range.
DataIn(data, r, first) ==
  {<<Max({a, r[1]}), Min({a + data[a], r[2]})>> : a \in {x \in DOMAIN data : first <= x /\ x < r[2]}}

\* Slip: only blocks that start in the range are found.
SlipDataInRange(data, r) == DataIn(data, r, r[1])

DataInRange(data, r) ==
  LET before == {x \in DOMAIN data : x < r[1]} IN
  DataIn(data, r, IF before # {} /\ Max(before) + data[Max(before)] > r[1]
                  THEN Max(before) ELSE r[1])

HasData(data, r) == DataInRange(data, r) # {}

-----------------------------------------------------------------------------
(* build_sectors_and_pages.                                                *)

\* Slip: the page's range is taken to include its end.
SlipSectorsToErase(props, region, data) ==
  {s \in IterSectors(props) :
     /\ ContainsRange(region, s)
     /\ \/ HasData(data, s)
        \/ LET p == PageInfo(props, s[1]) IN HasData(data, <<p[1], p[2] + 1>>)}

SectorsToErase(props, region, data) ==
  {s \in IterSectors(props) :
     /\ ContainsRange(region, s)
     /\ HasData(data, s) \/ HasData(data, PageInfo(props, s[1]))}

\* Slip: a page is left out unless it has data itself.
SlipPagesToProgram(props, region, data, includeEmpty) ==
  {p \in IterPages(props) : ContainsRange(region, p) /\ HasData(data, p)}

PagesToProgram(props, region, data, includeEmpty) ==
  {p \in IterPages(props) :
     /\ ContainsRange(region, p)
     /\ HasData(data, p) \/ (includeEmpty /\ HasData(data, SectorInfo(props, p[1])))}

\* The holes of one page: before its first block, between two, after its last.
\* `fillFrom` are the addresses fill_start_addr takes while the loop walks on.
PageFills(data, p) ==
  LET blocks   == DataInRange(data, p)
      fillFrom == {p[1]} \cup {b[2] : b \in blocks}
      fillTo   == {p[2]} \cup {b[1] : b \in blocks}
  IN  {f \in {<<from, Min({to \in fillTo : to >= from})>> : from \in fillFrom} : f[1] < f[2]}

Fills(props, region, data, includeEmpty) ==
  UNION {{[page |-> p, range |-> f] : f \in PageFills(data, p)} :
           p \in PagesToProgram(props, region, data, includeEmpty)}

Layout(props, region, data, includeEmpty) ==
  [sectors |-> SectorsToErase(props, region, data),
   pages   |-> PagesToProgram(props, region, data, includeEmpty),
   fills   |-> Fills(props, region, data, includeEmpty),
   blocks  |-> DataInRange(data, region)]
=============================================================================
