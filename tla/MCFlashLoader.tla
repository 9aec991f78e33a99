--------------------------- MODULE MCFlashLoader ---------------------------
(* TLC instances of FlashLoader: targets with the structure of targets the  *)
(* repository describes, two or three cells to a region.                    *)
EXTENDS FlashLoader

Region(type, cells, cores) == [type |-> type, cells |-> cells, cores |-> cores, alias |-> FALSE]
Alias(cells, cores) == [type |-> "nvm", cells |-> cells, cores |-> cores, alias |-> TRUE]
Algo(name, cells, default, eraseAll) ==
  [name |-> name, cells |-> cells, default |-> default, eraseAll |-> eraseAll]
Target(map, algos, aliasOf, sequence) ==
  [cells |-> UNION ({map[i].cells : i \in 1 .. Len(map)} \cup {a.cells : a \in algos}),
   map |-> map, algos |-> algos, aliasOf |-> aliasOf, sequence |-> sequence]

None == [c \in {} |-> 0]

\* One algorithm over two regions and a gap; a RAM the algorithm runs in.
TwoBanks == Target(<<Region("ram", {1}, <<"m">>), Region("nvm", {3, 4}, <<"m">>),
                     Region("nvm", {6}, <<"m">>)>>,
                   {Algo("f", 3 .. 7, TRUE, TRUE), Algo("g", 3 .. 6, FALSE, TRUE)}, None, FALSE)

\* nRF53: two cores, each with its flash and algorithm, one without erase-all.
TwoCores == Target(<<Region("ram", {0}, <<"app", "net">>), Region("nvm", {1, 2}, <<"app">>),
                     Region("nvm", {3}, <<"net">>)>>,
                   {Algo("a", {1, 2}, TRUE, TRUE), Algo("n", {3}, TRUE, FALSE)}, None, FALSE)

\* ESP32: an alias of the flash, and a peripheral beside it.
Aliased == Target(<<Region("ram", {0}, <<"m">>), Region("nvm", {1, 2}, <<"m">>),
                    Alias({3}, <<"m">>), Region("generic", {4}, <<"m">>), Region("ram", {5}, <<"m">>)>>,
                  {Algo("f", {1, 2}, FALSE, FALSE)}, [c \in {3} |-> 2], FALSE)

\* SAMD51: an erase sequence of the debug port, and an algorithm without erase-all.
Sequenced == Target(<<Region("ram", {0}, <<"m">>), Region("nvm", {1, 2}, <<"m">>)>>,
                    {Algo("f", {1, 2, 3}, FALSE, FALSE)}, None, TRUE)

\* Targets flashing must refuse: two default algorithms, no RAM for the core.
Ambiguous == Target(<<Region("ram", {0}, <<"m">>), Region("nvm", {1}, <<"m">>)>>,
                    {Algo("f", {1}, TRUE, TRUE), Algo("g", {1}, TRUE, TRUE)}, None, FALSE)
NoRam == Target(<<Region("ram", {0}, <<>>), Region("nvm", {1}, <<"m">>)>>,
                {Algo("f", {1}, TRUE, TRUE)}, None, FALSE)

\* STM32H745: one algorithm for two banks, each given to another core first.
SharedAlgo == Target(<<Region("ram", {0}, <<"cm7">>), Region("ram", {1}, <<"cm4">>),
                       Region("nvm", {3}, <<"cm4">>), Region("nvm", {2}, <<"cm7">>)>>,
                     {Algo("f", {2, 3}, TRUE, TRUE)}, None, FALSE)

MCTargets == {TwoBanks, TwoCores, Aliased, Sequenced, Ambiguous, NoRam}
MCShared == {SharedAlgo}

\* What the theorems of FlashLoader_proofs suppose of a target holds of these targets,
\* and not of the one whose bank is wiped.
ASSUME MCTargetsApart == \A t \in MCTargets : GroupsApart(t)
ASSUME SharedNotApart == ~GroupsApart(SharedAlgo)
=============================================================================
