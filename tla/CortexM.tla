------------------------------- MODULE CortexM -------------------------------
(***************************************************************************)
(* The driver of Cortex-M cores, as it is for ARMv7-M                      *)
(* (probe-rs/src/architecture/arm/core/armv7m.rs and cortex_m.rs; those    *)
(* for ARMv6-M and ARMv8-M differ in how they mask interrupts).  The debug *)
(* registers are in memory, and memory is accessed while the core runs.    *)
(* Why the core stopped is read from DFSR, whose bits stay set until they  *)
(* are cleared: the driver clears them when it has read them, and keeps    *)
(* the reason itself.  A core that is stopped at a breakpoint is stepped   *)
(* with the breakpoints disabled; at a breakpoint instruction it does not  *)
(* move, and the program counter is advanced instead.                      *)
(*                                                                         *)
(* Driver fields of m: seen, the core status last seen, "running" or the   *)
(* reason of a halt; bpOn, does it take breakpoints to be enabled?  Of the *)
(* target: dfsr, the bits left from earlier stops, and cleared, have they  *)
(* been cleared since the last one?  masked, are interrupts masked?        *)
(* catch, does the core halt when it leaves reset?  Breakpoints are        *)
(* enabled when "hard" is among the causes.                                *)
(***************************************************************************)
EXTENDS CoreAccess

Bit(why) == IF why \in {"soft", "hard"} THEN "break" ELSE "request"
Dfsr(m) == m.dfsr \cup (IF m.cleared THEN {} ELSE {Bit(m.why)})
Reason(bits) ==
  CASE bits = {} -> "unknown" [] "break" \in bits -> "break" [] OTHER -> "request"

New(t) ==
  {Ok(Driven([t EXCEPT !.causes = {"soft"}],
             [seen |-> IF t.halted THEN "request" ELSE "running", bpOn |-> FALSE,
              dfsr |-> {}, cleared |-> t.halted, masked |-> FALSE, catch |-> FALSE]))}

SeenHalted(m) == m.seen # "running"
SetCoreStatus(m, s) == [m EXCEPT !.seen = s]

(* A register is transferred by way of two debug registers. *)
ReadReg(m, r) ==
  IF ~SeenHalted(m) THEN {Err(m)} ELSE Then(Access(m, m, Junk), LAMBDA o : Access(o.m, o.m, o.m.regs[r]))
WriteRegister(m, r, v) ==
  IF ~SeenHalted(m) THEN {Err(m)}
  ELSE Then(Access(m, m, Junk), LAMBDA o : Access(o.m, [o.m EXCEPT !.regs[r] = v], Junk))
WriteReg(m, r) == WriteRegister(m, r, User(r))

CheckForSemihosting(m) == Then(ReadReg(m, "pc"), LAMBDA o : Access(o.m, o.m, Junk))

ClearDfsr(m) == Access(m, [m EXCEPT !.dfsr = {}, !.cleared = TRUE], Junk)

(* What stopped the core is kept while DFSR says nothing new. *)
Status(m) ==
  Then(Poll(m), LAMBDA a :
    IF a.val # Yes THEN {Give(SetCoreStatus(a.m, "running"), a.val)}
    ELSE Then(Access(a.m, a.m, Junk), LAMBDA b :
         Then(ClearDfsr(b.m), LAMBDA c :
           LET reason == Reason(Dfsr(b.m))
           IN CASE SeenHalted(c.m) /\ reason = "unknown" -> {Give(c.m, Yes)}
                [] reason = "break" ->
                     Then(CheckForSemihosting(SetCoreStatus(c.m, reason)), LAMBDA d : {Give(d.m, Yes)})
                [] OTHER -> {Give(SetCoreStatus(c.m, reason), Yes)})))

(* The status until it is halted, before the timeout. *)
AwaitStatus(m) ==
  (UNION {Status(n) : n \in Stops(m) \cup (IF m.halted THEN {} ELSE {Stopped(m)})})
    \cup (IF m.halted \/ m.faults = MaxFaults THEN {} ELSE {Fail(SetCoreStatus(m, "running"))})

Halt(m) ==
  Then(Access(m, m, Junk), LAMBDA a :
  Then(AwaitStatus(a.m), LAMBDA b : ReadReg(b.m, "pc")))

(* The core leaves the halt state.  DFSR keeps what was not cleared.        *)
Resumed(m) == [Restarted(m) EXCEPT !.dfsr = Dfsr(m), !.cleared = FALSE]

(* At a breakpoint it stops again where it is. *)
NotMoved(m) == m.regs["pc"] = Own(m.epoch)["pc"]
Stuck(m) == NotMoved(m) /\ (m.why = "soft" \/ (m.why = "hard" /\ m.why \in m.causes))
Stepped(m) ==
  IF Stuck(m) THEN [m EXCEPT !.dfsr = Dfsr(m), !.cleared = FALSE] ELSE Resumed(m)

(* DHCSR is read and written, the mask on its own. *)
SetMask(m, b) == IF m.masked = b THEN {Ok(m)} ELSE Access(m, [m EXCEPT !.masked = b], Junk)

(* An attempt that fails does not change what the driver takes them to be.  *)
EnableBreakpoints(m, b) ==
  LET n == [m EXCEPT !.causes = IF b THEN @ \cup {"hard"} ELSE @ \ {"hard"}]
      Misled(o) == ~o.ok /\ o.m.bpOn /\ o.m.causes # m.causes
  IN Then(UNION {Unless(Misled(o), {o}) : o \in Access(m, n, Junk)}, LAMBDA o :
       {Ok([o.m EXCEPT !.bpOn = b])})
BreakpointsEnabled(m) == m.bpOn
Listed(m) == m.bps
HwBreakpoints(m) == Access(m, m, Junk)
SetHwBreakpoint(m, u, x) == Access(m, [m EXCEPT !.bps[u] = x], Junk)
ClearHwBreakpoint(m, u) == Access(m, [m EXCEPT !.bps[u] = Free], Junk)

StepOne(m) ==
  Then(Access(m, m, Junk), LAMBDA a :
  Then(SetMask(a.m, TRUE), LAMBDA b :
  Then(Access(b.m, Stepped(b.m), Junk), LAMBDA c :
  Then(AwaitStatus(c.m), LAMBDA d : ReadReg(d.m, "pc")))))

(* The reason of the halt may have been cleared and lost.                   *)
Step(m) ==
  IF m.seen # "break" THEN Unless(m.halted /\ Stuck(m), StepOne(m))
  ELSE Then(ReadReg(m, "pc"), LAMBDA a :
       Then(EnableBreakpoints(a.m, FALSE), LAMBDA b :
       Then(StepOne(b.m), LAMBDA c :
       Then(IF c.val # a.val THEN {c}
            ELSE Then(HwBreakpoints(c.m), LAMBDA d :
                 Then(WriteRegister(d.m, "pc", Past(c.val)), LAMBDA e : {Give(e.m, Past(c.val))})), LAMBDA f :
       Then(EnableBreakpoints(f.m, TRUE), LAMBDA g : {Give(g.m, f.val)})))))

(* Slip: interrupts stay masked. *)
SlipRun(m) ==
  Then(Step(m), LAMBDA a :
  Then(Access(a.m, a.m, Junk), LAMBDA b :
  Then(Access(b.m, Resumed(b.m), Junk), LAMBDA c : {Ok(SetCoreStatus(c.m, "running"))})))
Run(m) ==
  Then(Step(m), LAMBDA a :
  Then(Access(a.m, a.m, Junk), LAMBDA b :
  Then(SetMask(b.m, FALSE), LAMBDA c :
  Then(Access(c.m, Resumed(c.m), Junk), LAMBDA d : {Ok(SetCoreStatus(d.m, "running"))}))))

AfterReset(m) ==
  LET n == [WasReset(m) EXCEPT !.dfsr = Dfsr(m), !.cleared = FALSE]
  IN IF m.catch THEN Stopped(n) ELSE n
ResetSystem(m) == Then(Access(m, AfterReset(m), Junk), LAMBDA a : Poll(a.m))
SetCatch(m, b) == Access(m, [m EXCEPT !.catch = b], Junk)

Reset(m) == ResetSystem(m)
ResetAndHalt(m) ==
  Then(SetCatch(m, TRUE), LAMBDA a :
  Then(ResetSystem(a.m), LAMBDA b :
  Then(Status(b.m), LAMBDA c :
  Then(ReadReg(c.m, "f"), LAMBDA d :
  Then(SetCatch(d.m, FALSE), LAMBDA e : ReadReg(e.m, "pc"))))))

(* Debugging is disabled, and the core runs. *)
Leave(m) ==
  Then(Access(m, [Resumed(m) EXCEPT !.masked = FALSE], Junk), LAMBDA a :
    Access(a.m, [a.m EXCEPT !.catch = FALSE], Junk))

ReadWord(m, a) == Access(m, m, Data(Word(m.mem, a)))
ReadLane(m, l) == Access(m, m, Data(m.mem[l]))
WriteWord(m, a, k) == Access(m, [m EXCEPT !.mem = Patched(@, a, k)], Junk)
WriteLane(m, l) == Access(m, [m EXCEPT !.mem[l] = 1], Junk)
ReadWords(m) ==
  Then(ReadWord(m, 0), LAMBDA x :
  Then(ReadWord(x.m, 2), LAMBDA y : {Give(y.m, Data(x.val.n + 4 * y.val.n))}))
WriteWords(m) == Then(WriteWord(m, 0, 3), LAMBDA o : WriteWord(o.m, 2, 3))
=============================================================================
