----------------------------- MODULE CoreAccess -----------------------------
(***************************************************************************)
(* A debugged core and the accesses a driver makes to it.  A handler of a  *)
(* core driver (the functions of CoreInterface and MemoryInterface) is a   *)
(* sequence of accesses through the probe.  Each of them takes the state m *)
(* of the target and of the driver to a set of outcomes, for the access    *)
(* may fail, with or without having had its effect; the handler goes on    *)
(* after a success and returns at the first failure, which is what the     *)
(* operator ? of the source does.                                          *)
(*                                                                         *)
(* m is a record.  The fields of the target are                            *)
(*   halted  is the core in debug state?                                   *)
(*   regs    its registers                                                 *)
(*   epoch   0 or 1: changes whenever the program has run                  *)
(*   causes  what may stop it                                              *)
(*   why     what stopped it last: one of causes, or "request"             *)
(*   ran     the registers with which it was resumed, in this operation    *)
(*   mem     the memory, in lanes; two lanes are a word                    *)
(*   armed   is a single step requested?                                   *)
(*   bps     the breakpoint units in use: the address that each is for     *)
(* and faults counts the failures so far.  The others belong to a driver.  *)
(***************************************************************************)
EXTENDS Integers, Sequences

CONSTANTS NumUnits,     \* breakpoint units of the core
          MaxFaults,    \* bound: failing accesses
          Careful       \* are the histories left out that show a known flaw?

ASSUME NumUnitsAssumption == NumUnits \in Nat \ {0}
ASSUME MaxFaultsAssumption == MaxFaults \in Nat
ASSUME CarefulAssumption == Careful \in BOOLEAN

(* s0 and s1 are the registers the drivers use for work, pc the program     *)
(* counter, f a register that is reached only through s0 and s1.            *)
Regs == {"s0", "s1", "pc", "f"}
Lanes == 0 .. 3
Words == {0, 2}
Units == 1 .. NumUnits
Free == "free"
BpAddresses == {"x", "y"}

(* What a register can hold.  A program leaves something else in every      *)
(* register each time it runs; a debugger writes a value of its own.        *)
Own(e) == [r \in Regs |-> [of |-> r, n |-> e]]
User(r) == [of |-> r, n |-> 2]
Address(a) == [of |-> "address", n |-> a]
Junk == [of |-> "junk", n |-> 0]
Data(k) == [of |-> "data", n |-> k]
Flag(b) == [of |-> "flag", n |-> IF b THEN 1 ELSE 0]
Yes == Flag(TRUE)

(* The program counter moved past a breakpoint instruction. *)
Past(v) == [of |-> "next", n |-> v.n]

(* A lane holds 0, or 1 once the debugger has written to it.                *)
Word(mem, a) == mem[a] + 2 * mem[a + 1]
Patched(mem, a, k) == [mem EXCEPT ![a] = k % 2, ![a + 1] = k \div 2]
WordOf(l) == l - (l % 2)
(* Slips: the other half is taken, or cleared. *)
SlipLaneOf(k, l) == IF l % 2 = 0 THEN k \div 2 ELSE k % 2
SlipWithLane(k, l) == IF l % 2 = 0 THEN 1 ELSE 2
LaneOf(k, l) == IF l % 2 = 0 THEN k % 2 ELSE k \div 2
WithLane(k, l) == IF l % 2 = 0 THEN 1 + 2 * (k \div 2) ELSE 2 + (k % 2)

(* An outcome: the state, whether the handler goes on, and a value.         *)
Give(m, v) == [m |-> m, ok |-> TRUE, val |-> v]
Ok(m) == Give(m, Junk)
Err(m) == [m |-> m, ok |-> FALSE, val |-> Junk]
Fail(m) == [m |-> [m EXCEPT !.faults = @ + 1], ok |-> FALSE, val |-> Junk]

Then(S, F(_)) == UNION {IF o.ok THEN F(o) ELSE {o} : o \in S}

(* Outcomes that are considered unless flaw, a known one, shows in them.    *)
Unless(flaw, S) == IF Careful /\ flaw THEN {} ELSE S

(* F for each breakpoint unit in turn. *)
EachUnit(m, F(_, _)) ==
  LET after[u \in 0 .. NumUnits] ==
        IF u = 0 THEN {Ok(m)} ELSE Then(after[u - 1], LAMBDA o : F(o.m, u))
  IN after[NumUnits]

(* An access that takes m to n and gives v. *)
Access(m, n, v) ==
  {Give(n, v)} \cup (IF m.faults < MaxFaults THEN {Fail(m), Fail(n)} ELSE {})

(* The core resumes: what it runs with is what the registers hold. *)
Restarted(m) ==
  IF ~m.halted THEN m
  ELSE [m EXCEPT !.halted = FALSE, !.ran = Append(@, m.regs),
                 !.epoch = 1 - @, !.regs = Own(1 - m.epoch)]

(* It is resumed at a breakpoint, and stops again at once where it is.      *)
StopsAgain(m, W) == {[m EXCEPT !.why = w] : w \in IF m.halted THEN W ELSE {}}

(* Reset: every register is new. *)
WasReset(m) ==
  [m EXCEPT !.halted = FALSE, !.epoch = 1 - @, !.regs = Own(1 - m.epoch)]

Stopped(m) == [m EXCEPT !.halted = TRUE, !.why = "request"]

(* A running core may stop by itself, at a breakpoint only if there is one. *)
Reasons(m) == {w \in m.causes : w = "hard" => \E u \in Units : m.bps[u] # Free}
Stops(m) == IF m.halted THEN {m} ELSE {[Stopped(m) EXCEPT !.why = w] : w \in Reasons(m)}

(* Is the core halted?  It may have stopped since it was last looked at.    *)
Poll(m) == UNION {Access(n, n, Flag(n.halted)) : n \in Stops(m) \cup {m}}

(* Polling until it is: it may not be before the timeout. *)
AwaitHalt(m) ==
  (UNION {Access(n, n, Yes) : n \in Stops(m) \cup (IF m.halted THEN {} ELSE {Stopped(m)})})
    \cup (IF m.halted \/ m.faults = MaxFaults THEN {} ELSE {Fail(m)})

(* A target with the fields of a driver, d.                                 *)
Driven(t, d) ==
  [x \in DOMAIN t \cup DOMAIN d |-> IF x \in DOMAIN t THEN t[x] ELSE d[x]]

(* The target and the driver when a session begins. *)
NewTarget ==
  [halted |-> FALSE, regs |-> Own(0), epoch |-> 0, ran |-> <<>>,
   causes |-> {"self"}, why |-> "request",
   mem |-> [a \in Lanes |-> 0], armed |-> FALSE,
   bps |-> [u \in Units |-> Free], faults |-> 0]
=============================================================================
