--------------------------- MODULE MCFlashBuilder ---------------------------
(* Flash geometries: uniform sectors with pages smaller than, equal to and *)
(* larger than a sector; two groups of sectors; a region that is one half  *)
(* of the flash; a flash that does not begin at address 0.                 *)
EXTENDS FlashBuilder

Props(start, end, page, sectors) ==
  [start |-> start, end |-> end, page |-> page, sectors |-> sectors]
Group(address, size) == [address |-> address, size |-> size]

MCFlashes ==
  {[props |-> Props(0, 8, 2, <<Group(0, 4)>>), region |-> <<0, 8>>],
   [props |-> Props(0, 8, 4, <<Group(0, 4)>>), region |-> <<0, 4>>],
   [props |-> Props(0, 8, 4, <<Group(0, 2)>>), region |-> <<0, 8>>],
   [props |-> Props(0, 8, 2, <<Group(0, 2), Group(4, 4)>>), region |-> <<0, 8>>],
   [props |-> Props(4, 8, 1, <<Group(0, 2)>>), region |-> <<4, 8>>]}

\* They all fit, as the theorems about the builder ask; one whose groups are not
\* whole sectors, or whose region cuts a page, does not.
ASSUME MCFlashesFit == \A f \in MCFlashes : Fits(f)
ASSUME UnevenDoesNotFit ==
  ~Fits([props |-> Props(0, 8, 1, <<Group(0, 4), Group(6, 2)>>), region |-> <<0, 8>>])
ASSUME CutDoesNotFit ==
  ~Fits([props |-> Props(0, 8, 4, <<Group(0, 2)>>), region |-> <<0, 6>>])
=============================================================================
