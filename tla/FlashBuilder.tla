---------------------------- MODULE FlashBuilder ----------------------------
(***************************************************************************)
(* The life of a FlashBuilder: blocks are staged in any order, some are    *)
(* refused, and at any time the layout of a region may be built from what  *)
(* is staged.  The invariants relate the layout to the bytes asked for.    *)
(***************************************************************************)
EXTENDS FlashLayout

CONSTANTS
  Flashes,     \* the [props, region] pairs of flash algorithms and NVM regions
  MaxAddr,     \* bound: addresses of staged bytes are below MaxAddr
  MaxLen,      \* bound: length of one staged block
  MaxAdds      \* bound: calls of add_data

ASSUME BoundsAssumption == {MaxAddr, MaxLen, MaxAdds} \subseteq Nat

\* iter_sectors asserts that the first group begins at the start of the flash
\* (flash_algorithm.rs 105-106); of empty sectors or pages it would find no end.
ASSUME FlashesAssumption ==
  \A f \in Flashes :
    /\ f.region \in Nat \X Nat
    /\ f.props.start \in Nat /\ f.props.end \in Nat /\ f.props.start <= f.props.end
    /\ f.props.page \in Nat \ {0}
    /\ f.props.sectors \in Seq([address : Nat, size : Nat \ {0}])
    /\ f.props.sectors # << >> /\ f.props.sectors[1].address = 0

\* A geometry as target descriptions have it, which the builder does not check:
\* each group is a whole number of sectors, pages begin at the start of the flash,
\* pages and sectors do not straddle each other, nor the ends of the region.
Fits(f) ==
  LET sectors == IterSectors(f.props)
      pages   == IterPages(f.props)
      groups  == f.props.sectors
  IN  /\ \A i \in 1 .. Len(groups) - 1 :
           /\ groups[i].address < groups[i + 1].address
           /\ (groups[i + 1].address - groups[i].address) % groups[i].size = 0
      /\ f.props.start % f.props.page = 0
      /\ Bytes(f.region) \subseteq f.props.start .. f.props.end - 1
      /\ \A p \in pages, s \in sectors : Bytes(p) \cap Bytes(s) \in {{}, Bytes(p), Bytes(s)}
      /\ \A r \in pages \cup sectors : Bytes(r) \cap Bytes(f.region) \in {{}, Bytes(r)}

VARIABLES flash,    \* the flash algorithm's properties and the region
          data,     \* what is staged
          asked,    \* bytes of the blocks add_data accepted
          adds

builderVars == <<flash, data, asked, adds>>

BuilderInit == flash \in Flashes /\ data = [a \in {} |-> 0] /\ asked = {} /\ adds = 0

Stage(a, len) ==
  /\ adds < MaxAdds /\ a + len <= MaxAddr
  /\ adds' = adds + 1
  /\ data' = AddData(data, a, len)
  /\ asked' = IF AddRefused(data, a, len) THEN asked ELSE asked \cup (a .. a + len - 1)
  /\ UNCHANGED flash

BuilderNext == \E a \in 0 .. MaxAddr - 1, len \in 0 .. MaxLen : Stage(a, len)

BuilderSpec == BuilderInit /\ [][BuilderNext]_builderVars

-----------------------------------------------------------------------------
LayoutOf(includeEmpty) == Layout(flash.props, flash.region, data, includeEmpty)
BytesOf(ranges) == UNION {Bytes(r) : r \in ranges}

\* add_data (builder.rs 182-220) loses no accepted byte, stages no other, and
\* its blocks never overlap: a byte is staged once.  A block is refused if and
\* only if it overlaps a staged byte.
StagedExactly ==
  /\ \A a \in 0 .. MaxAddr - 1, len \in 0 .. MaxLen :
       AddRefused(data, a, len) <=> (a .. a + len - 1) \cap asked # {}
  /\ Staged(data) = asked
  /\ \A a, b \in DOMAIN data : a < b => a + data[a] <= b

\* build_sectors_and_pages: every staged byte of the region is programmed, in
\* one page only, and every byte a page programs is erased first.  iter_sectors
\* and iter_pages walk the flash with different strides, and the sector is found
\* again by sector_info and the page by page_info.
DataIsProgrammed ==
  \A includeEmpty \in BOOLEAN :
    LET l == LayoutOf(includeEmpty) IN
      /\ asked \cap Bytes(flash.region) \subseteq BytesOf(l.pages)
      /\ \A p, q \in l.pages : p # q => Bytes(p) \cap Bytes(q) = {}
      /\ BytesOf(l.pages) \subseteq BytesOf(l.sectors)

\* The fills of a page are exactly its bytes without staged data; and with
\* include_empty_pages (builder.rs 316-321) the pages cover all that is erased, so
\* that each erased byte is programmed, as staged data or as read back beforehand.
ErasedIsRestored ==
  /\ \A includeEmpty \in BOOLEAN :
       LET l == LayoutOf(includeEmpty) IN
         \A p \in l.pages :
           BytesOf({f.range : f \in {g \in l.fills : g.page = p}}) = Bytes(p) \ asked
  /\ BytesOf(LayoutOf(TRUE).sectors) \subseteq BytesOf(LayoutOf(TRUE).pages)

\* Outside the sectors that hold data (or share a page with data) nothing is
\* erased.
NothingElseErased ==
  \A s \in SectorsToErase(flash.props, flash.region, data) :
    \E a \in asked : \/ a \in Bytes(s)
                     \/ a \in Bytes(PageInfo(flash.props, s[1]))
=============================================================================
