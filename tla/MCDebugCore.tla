----------------------------- MODULE MCDebugCore -----------------------------
(* DebugCore for TLC. *)
EXTENDS DebugCore

(* What is read, written and used as an address, of each architecture: the  *)
(* program counter is written where that takes more than a register write.  *)
Injected == {"v8a", "rv"}
MCReadRegs == [a \in Arches |-> IF a \in Injected THEN {"f"} ELSE {"pc", "f"}]
MCWriteRegs == [a \in Arches |-> IF a \in Injected THEN {"pc"} ELSE {"s1"}]
MCAddresses == [a \in Arches |-> IF a \in {"cm", "xt"} THEN {"x", "y"} ELSE {"x"}]

(* The program buffer of a RISC-V core holds what the driver believes.  It  *)
(* is used or written anew, and no write to it can fail any more, so what   *)
(* it holds does not matter.                                                *)
Settled ==
  /\ arch = "rv" /\ m.faults = MaxFaults /\ m.buf[1] = m.pbc[1]
  /\ m.buf = m.pbc \/ m.pbc[1].do \notin {"lw", "sw"}

(* What the last operation was and how the core was resumed in it matters   *)
(* only for the step that it is; Own(0) and Own(1) may change places; and   *)
(* what an operation left in a register that it worked with, the next one   *)
(* does not look at.                                                        *)
Seen(v) ==
  CASE v.of \in Regs \cup {"next"} -> IF m.epoch = 1 /\ v.n < 2 THEN [v EXCEPT !.n = 1 - @] ELSE v
    [] OTHER -> Junk
Essence ==
  <<arch, told, open,
    [x \in DOMAIN m |->
       CASE x = "ran" -> <<>>
         [] x = "epoch" -> 0
         [] x \in {"buf", "pbc"} /\ Settled -> <<>>
         [] x = "regs" -> [r \in Regs |-> Seen(m.regs[r])]
         [] x = "kept" -> Seen(m.kept)
         [] x = "cache" -> [r \in Regs |-> [m.cache[r] EXCEPT !.val = Seen(@)]]
         [] OTHER -> m[x]]>>
=============================================================================
