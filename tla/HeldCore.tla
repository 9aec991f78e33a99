------------------------------- MODULE HeldCore -------------------------------
(***************************************************************************)
(* What a debugger may rely on.  The registers of a halted core are what   *)
(* the debugger sees: they change when it writes one and when the program  *)
(* runs, and the program goes on with the registers that the debugger saw. *)
(* Those of a running core stand for the ones it will stop with.           *)
(***************************************************************************)
EXTENDS CoreAccess

VARIABLES halted,     \* is the core halted?
          regs,       \* the registers
          ran,        \* those it was resumed with, each time, in the last step
          answer,     \* the last operation: op, its argument arg, and ok
          fragile     \* the registers that an operation which fails may spoil

heldVars == <<halted, regs, ran, answer, fragile>>

Programs == {Own(e) : e \in {0, 1}}

(* The program counter may be moved past the breakpoint instruction where   *)
(* the program stopped.                                                     *)
Advanced(rs) ==
  [rs EXCEPT !["pc"] = IF \E p \in Programs : p["pc"] = @ THEN Past(@) ELSE @]

(* ss is rs, but for some registers that a failure has spoilt.              *)
Near(ss, rs) == \A r \in Regs : ss[r] = rs[r] \/ (~answer'.ok /\ r \in fragile)
Are(rs) == Near(regs', rs)
AreAPrograms == \E p \in Programs : Are(p)

InitHeld == /\ halted \in BOOLEAN /\ regs \in Programs /\ ran = <<>>
            /\ answer.ok /\ fragile \in SUBSET Regs

StaysHalted == ran' = <<>> /\ (halted => halted')

Looks == StaysHalted /\ Are(regs)

Writes == /\ answer'.op = "write" /\ StaysHalted
          /\ \/ Are([regs EXCEPT ![answer'.arg] = User(answer'.arg)])
             \/ ~answer'.ok /\ Are(regs)

(* The breakpoint instruction that stopped the core is skipped.             *)
Advances == (answer'.op \in {"run", "step"} \/ ~halted) /\ StaysHalted /\ Are(Advanced(regs))

(* The core is resumed, which no other operation does to a halted one.      *)
Resumable(ss, rs) == Near(ss, rs) \/ Near(ss, Advanced(rs))
Runs == /\ ran' # <<>>
        /\ halted => answer'.op \in {"run", "step", "detach"}
        /\ Resumable(ran'[1], regs)
        /\ \A i \in 2 .. Len(ran') : \E p \in Programs : Resumable(ran'[i], p)
        /\ AreAPrograms

Resets == /\ answer'.op \in {"reset", "reset and halt"}
          /\ \A i \in DOMAIN ran' : ran'[i] \in Programs
          /\ AreAPrograms

NextHeld == (Looks \/ Writes \/ Advances \/ Runs \/ Resets) /\ UNCHANGED fragile

HeldSpec == InitHeld /\ [][NextHeld]_heldVars
=============================================================================
