-------------------------------- MODULE RiscV --------------------------------
(***************************************************************************)
(* The driver of RISC-V cores (probe-rs/src/architecture/riscv/mod.rs and  *)
(* communication_interface.rs).  General registers are accessed by         *)
(* abstract commands, which only a halted core executes.  What these       *)
(* cannot do is done by instructions in the program buffer, which work     *)
(* with the registers s0 and s1: the driver saves these first and restores *)
(* them in the end, and it remembers what it put into the buffer so as not *)
(* to write it again.  Control and status registers are reached in one or  *)
(* the other way, memory over the system bus or by the program buffer.     *)
(*                                                                         *)
(* Driver fields of m: buf, the program buffer; pbc, what the driver       *)
(* believes is in it; sysbus, is there a system bus?  csrCmd, do abstract  *)
(* commands reach the control registers?  sberr, the sticky error of the   *)
(* system bus; on, the enabled triggers, and off, those that the driver    *)
(* has disabled for the moment (their addresses are bps); bpOn, whether    *)
(* the driver considers breakpoints enabled.  armed is the step bit.       *)
(***************************************************************************)
EXTENDS CoreAccess

Ins(do, reg) == [do |-> do, reg |-> reg]
Ebreak == Ins("ebreak", "s0")

New(t, bus, cmd) ==
  {Ok(Driven([t EXCEPT !.causes = {"soft", "hard"}],
             [buf |-> <<Ebreak, Ebreak>>, pbc |-> <<Ins("none", "s0"), Ins("none", "s0")>>,
              sysbus |-> bus, csrCmd |-> cmd, sberr |-> FALSE,
              on |-> {}, off |-> {}, bpOn |-> FALSE]))}

(* The control registers: those of the program, dcsr with the step bit, and *)
(* debug, which stands for any of tselect, tinfo, tdata1, tdata2 and misa.  *)
Get(m, c) == IF c \in Regs THEN m.regs[c] ELSE Flag(m.armed)
Set(m, c, v) ==
  CASE c \in Regs -> [m EXCEPT !.regs[c] = v]
    [] c = "dcsr" -> [m EXCEPT !.armed = (v = Yes)]
    [] OTHER -> m

(* One instruction of the program buffer, and all up to the first ebreak.   *)
(* An access to memory at what is no address faults.                        *)
RunOne(m, i) ==
  LET at == m.regs["s0"]
      v == m.regs["s1"]
      Reaches(A) == at.of = "address" /\ at.n \in A
  IN CASE i.do = "lw" /\ Reaches(Words) -> [m EXCEPT !.regs[i.reg] = Data(Word(m.mem, at.n))]
       [] i.do = "lb" /\ Reaches(Lanes) -> [m EXCEPT !.regs[i.reg] = Data(m.mem[at.n])]
       [] i.do = "sw" /\ Reaches(Words) -> [m EXCEPT !.mem = Patched(@, at.n, v.n)]
       [] i.do = "sb" /\ Reaches(Lanes) -> [m EXCEPT !.mem[at.n] = v.n]
       [] i.do = "addi" -> [m EXCEPT !.regs["s0"].n = @ + 2]
       [] i.do = "csrr" -> [m EXCEPT !.regs["s0"] = Get(m, i.reg)]
       [] i.do = "csrw" -> Set(m, i.reg, at)
       [] OTHER -> m
RunBuffer(m) ==
  CASE m.buf[1] = Ebreak -> m
    [] m.buf[1] # Ebreak /\ m.buf[2] = Ebreak -> RunOne(m, m.buf[1])
    [] OTHER -> RunOne(RunOne(m, m.buf[1]), m.buf[2])

(* A command for the halted core: to read a register, to write one, to run  *)
(* the buffer, or to write one and run the buffer, which may fault.         *)
Command(m, n, v) == IF m.halted THEN Access(m, n, v) ELSE {Err(m)}
RegisterRead(m, r) == Command(m, m, Get(m, r))
RegisterWrite(m, r, v) == Command(m, Set(m, r, v), Junk)
PostExec(m) == Command(m, RunBuffer(m), Junk)
WriteAndExec(m, r, v) ==
  LET w == [m EXCEPT !.regs[r] = v]
  IN Command(m, RunBuffer(w), Junk) \cup (IF m.faults < MaxFaults THEN {Fail(w)} ELSE {})

(* Only the part of the cache that the program needs is compared, and only  *)
(* that part of it is updated: at once, though the writes to the buffer are *)
(* carried out with the next access, if it succeeds.                        *)
SetupProgramBuffer(m, p) ==
  IF p = SubSeq(m.pbc, 1, Len(p)) THEN Unless(SubSeq(m.buf, 1, Len(p)) # p, {Ok(m)})
  ELSE LET c == [m EXCEPT !.pbc = p \o SubSeq(@, Len(p) + 1, 2)]
       IN Access(c, [c EXCEPT !.buf = IF Len(p) = 2 THEN p ELSE <<p[1], Ebreak>>], Junk)

(* F with s0, or s0 and s1, saved, which are then restored, if F succeeds.  *)
SaveS0(m) == RegisterRead(m, "s0")
SaveS1(m) == RegisterRead(m, "s1")
RestoreS0(S, v) ==
  Then(S, LAMBDA o : Then(RegisterWrite(o.m, "s0", v), LAMBDA p : {Give(p.m, o.val)}))
(* Slip: s1 is not restored. *)
SlipRestoreS1(S, v) == S
RestoreS1(S, v) ==
  Then(S, LAMBDA o : Then(RegisterWrite(o.m, "s1", v), LAMBDA p : {Give(p.m, o.val)}))
WithS0(m, F(_)) == Then(SaveS0(m), LAMBDA a : RestoreS0(F(a.m), a.val))
WithS0S1(m, F(_)) ==
  Then(SaveS0(m), LAMBDA a :
  Then(SaveS1(a.m), LAMBDA b : RestoreS1(RestoreS0(F(b.m), a.val), b.val)))

ReadCsrProgbuf(m, c) ==
  WithS0(m, LAMBDA x :
    Then(SetupProgramBuffer(x, <<Ins("csrr", c)>>), LAMBDA y :
    Then(PostExec(y.m), LAMBDA z : RegisterRead(z.m, "s0"))))
WriteCsrProgbuf(m, c, v) ==
  WithS0(m, LAMBDA x :
    Then(RegisterWrite(x, "s0", v), LAMBDA y :
    Then(SetupProgramBuffer(y.m, <<Ins("csrw", c)>>), LAMBDA z : PostExec(z.m))))

ByCommand(m, c) == c \in {"s0", "s1"} \/ m.csrCmd
ReadCsr(m, c) == IF ByCommand(m, c) THEN RegisterRead(m, c) ELSE ReadCsrProgbuf(m, c)
WriteCsr(m, c, v) == IF ByCommand(m, c) THEN RegisterWrite(m, c, v) ELSE WriteCsrProgbuf(m, c, v)

ReadReg(m, r) == ReadCsr(m, r)
WriteReg(m, r) == WriteCsr(m, r, User(r))
-----------------------------------------------------------------------------
(* Memory over the system bus, whose error nobody clears.                   *)
Bus(m, n, v) ==
  IF m.sberr THEN {Err(m)}
  ELSE Access(m, n, v) \cup (IF m.faults < MaxFaults THEN {Fail([m EXCEPT !.sberr = TRUE])} ELSE {})
Lane(m, l) == Data(m.mem[l])
StoreWord(m, a, k) == [m EXCEPT !.mem = Patched(@, a, k)]

Block(mem) == Data(Word(mem, 0) + 4 * Word(mem, 2))

ReadProgbuf(m, do, a) ==
  WithS0(m, LAMBDA x :
    Then(SetupProgramBuffer(x, <<Ins(do, "s0")>>), LAMBDA y :
    Then(WriteAndExec(y.m, "s0", Address(a)), LAMBDA z : RegisterRead(z.m, "s0"))))
WriteProgbuf(m, do, a, k) ==
  WithS0S1(m, LAMBDA x :
    Then(SetupProgramBuffer(x, <<Ins(do, "s1")>>), LAMBDA y :
    Then(RegisterWrite(y.m, "s0", Address(a)), LAMBDA z : WriteAndExec(z.m, "s1", Data(k)))))

(* A block is read by executing the buffer once more for each word but the  *)
(* last.  The command that reads the last one clears the error of a word    *)
(* before it, and only then is the error looked at.                         *)
Overlooked(m, n, v) ==
  IF m.faults = MaxFaults THEN {} ELSE Unless(TRUE, {Give([n EXCEPT !.faults = @ + 1], v)})
(* Slip: the address is not counted up. *)
SlipReadMultipleProgbuf(m) ==
  WithS0S1(m, LAMBDA x :
    Then(SetupProgramBuffer(x, <<Ins("lw", "s1")>>), LAMBDA y :
    Then(WriteAndExec(y.m, "s0", Address(0)), LAMBDA z :
    Then(Command(z.m, RunBuffer(z.m), z.m.regs["s1"]), LAMBDA a :
    Then(RegisterRead(a.m, "s1"), LAMBDA b :
      {Give(b.m, Data(a.val.n + 4 * b.val.n))})))))
ReadMultipleProgbuf(m) ==
  WithS0S1(m, LAMBDA x :
    Then(SetupProgramBuffer(x, <<Ins("lw", "s1"), Ins("addi", "s0")>>), LAMBDA y :
    Then(WriteAndExec(y.m, "s0", Address(0))
           \cup Overlooked(y.m, [y.m EXCEPT !.regs["s0"] = Address(0)], Junk), LAMBDA z :
    Then(Command(z.m, RunBuffer(z.m), z.m.regs["s1"])
           \cup Overlooked(z.m, z.m, z.m.regs["s1"]), LAMBDA a :
    Then(RegisterRead(a.m, "s1"), LAMBDA b :
      {Give(b.m, Data(a.val.n + 4 * b.val.n))})))))
(* Slip: the address is not counted up. *)
SlipWriteMultipleProgbuf(m) ==
  WithS0S1(m, LAMBDA x :
    Then(SetupProgramBuffer(x, <<Ins("sw", "s1")>>), LAMBDA y :
    Then(RegisterWrite(y.m, "s0", Address(0)), LAMBDA z :
    Then(WriteAndExec(z.m, "s1", Data(3)), LAMBDA a : WriteAndExec(a.m, "s1", Data(3))))))
WriteMultipleProgbuf(m) ==
  WithS0S1(m, LAMBDA x :
    Then(SetupProgramBuffer(x, <<Ins("sw", "s1"), Ins("addi", "s0")>>), LAMBDA y :
    Then(RegisterWrite(y.m, "s0", Address(0)), LAMBDA z :
    Then(WriteAndExec(z.m, "s1", Data(3)), LAMBDA a : WriteAndExec(a.m, "s1", Data(3))))))

ReadLane(m, l) == IF m.sysbus THEN Bus(m, m, Lane(m, l)) ELSE ReadProgbuf(m, "lb", l)
WriteLane(m, l) ==
  IF m.sysbus THEN Bus(m, [m EXCEPT !.mem[l] = 1], Junk) ELSE WriteProgbuf(m, "sb", l, 1)
ReadWords(m) ==
  IF m.sysbus THEN Bus(m, m, Block(m.mem)) ELSE ReadMultipleProgbuf(m)
WriteWords(m) ==
  IF m.sysbus
  THEN Then(Bus(m, StoreWord(m, 0, 3), Junk), LAMBDA o : Bus(o.m, StoreWord(o.m, 2, 3), Junk))
  ELSE WriteMultipleProgbuf(m)
-----------------------------------------------------------------------------
(* A halted core tells why; at a breakpoint instruction, the driver looks   *)
(* at the instructions around it for a semihosting call.                    *)
CheckForSemihosting(m) == Then(ReadCsr(m, "pc"), LAMBDA a : ReadWords(a.m))
Status(m) ==
  Then(Poll(m), LAMBDA a :
    IF a.val # Yes THEN {a}
    ELSE Then(ReadCsr(a.m, "dcsr"), LAMBDA b :
         IF b.m.why # "soft" THEN {Give(b.m, Yes)}
         ELSE Then(CheckForSemihosting(b.m), LAMBDA c : {Give(c.m, Yes)})))

Halt(m) ==
  Then(Access(m, m, Junk), LAMBDA a :
  Then(AwaitHalt(a.m), LAMBDA b :
  Then(Access(b.m, b.m, Junk), LAMBDA c : ReadCsr(c.m, "pc"))))

(* At a breakpoint the core stops again where it is: for certain at the     *)
(* breakpoint instruction that has stopped it before.                       *)
Trapped(m) == m.halted /\ m.why = "soft" /\ m.regs["pc"] = Own(m.epoch)["pc"]
ResumesTo(m) ==
  StopsAgain(m, {"soft"} \cup (IF m.on = {} THEN {} ELSE {"hard"}))
    \cup (IF Trapped(m) THEN {} ELSE {Restarted(m)})
ResumeCore(m) ==
  Then(UNION {Access(m, n, Junk) : n \in ResumesTo(m)}, LAMBDA a : Access(a.m, a.m, Junk))

(* A trigger is selected before it is read or written.  (To read two        *)
(* registers in a row is no different here from reading one.)               *)
SelectTrigger(m) == WriteCsr(m, "debug", Junk)
ReadTrigger(m) == Then(SelectTrigger(m), LAMBDA o : ReadCsr(o.m, "debug"))
ReadTriggers(m) == EachUnit(m, LAMBDA n, u : ReadTrigger(n))
AvailableUnits(m) == ReadTriggers(m)
(* A trigger that cannot be written keeps its state. *)
Enabled(m, u, b) ==
  IF b THEN [m EXCEPT !.on = @ \cup (m.off \cap {u}), !.off = @ \ {u}]
  ELSE [m EXCEPT !.off = @ \cup (m.on \cap {u}), !.on = @ \ {u}]
WriteTrigger(m, n) ==
  Then(WriteCsr(m, "debug", Junk), LAMBDA o :
    {Ok([o.m EXCEPT !.on = n.on, !.off = n.off, !.bps = n.bps])})

EnableOne(m, u, b) ==
  Then(SelectTrigger(m), LAMBDA n :
  Then(ReadCsr(n.m, "debug"), LAMBDA o :
    IF u \in o.m.on \cup o.m.off THEN WriteTrigger(o.m, Enabled(o.m, u, b)) ELSE {Ok(o.m)}))
EnableEach(m, b) == EachUnit(m, LAMBDA n, u : EnableOne(n, u, b))
EnableBreakpoints(m, b) ==
  Then(AvailableUnits(m), LAMBDA x :
  Then(EnableEach(x.m, b), LAMBDA y : {Ok([y.m EXCEPT !.bpOn = b])}))
BreakpointsEnabled(m) == m.bpOn

(* F on a core that is halted for it if it runs, and resumed if F succeeds. *)
ResumeAfter(S) == Then(S, LAMBDA o : ResumeCore(o.m))
Briefly(m, F(_)) ==
  Then(Poll(m), LAMBDA a :
    IF a.val = Yes THEN F(a.m) ELSE Then(Halt(a.m), LAMBDA b : ResumeAfter(F(b.m))))

Listed(m) == [u \in Units |-> IF u \in m.on THEN m.bps[u] ELSE Free]
HwBreakpoints(m) ==
  Briefly(m, LAMBDA x :
    Then(AvailableUnits(x), LAMBDA y : ReadTriggers(y.m)))
SetHwBreakpoint(m, u, x) ==
  Then(IF m.bpOn THEN {Ok(m)} ELSE EnableBreakpoints(m, TRUE), LAMBDA a :
  Then(SelectTrigger(a.m), LAMBDA n :
  Then(ReadCsr(n.m, "debug"), LAMBDA b :
  Then(WriteTrigger(b.m, [b.m EXCEPT !.on = @ \cup {u}, !.off = @ \ {u}]), LAMBDA c :
    WriteTrigger(c.m, [c.m EXCEPT !.bps[u] = x])))))
ClearHwBreakpoint(m, u) ==
  Briefly(m, LAMBDA x :
    Then(SelectTrigger(x), LAMBDA n :
    Then(WriteTrigger(n.m, [n.m EXCEPT !.on = @ \ {u}, !.off = @ \ {u}]), LAMBDA c :
      WriteTrigger(c.m, [c.m EXCEPT !.bps[u] = Free]))))

SetStep(m, b) == Then(ReadCsr(m, "dcsr"), LAMBDA a : WriteCsr(a.m, "dcsr", Flag(b)))

(* Slip: the step bit stays set. *)
SlipStepAway(m) ==
  Then(SetStep(m, TRUE), LAMBDA a :
  Then(ResumeCore(a.m), LAMBDA b :
  Then(AwaitHalt(b.m), LAMBDA c : ReadCsr(c.m, "pc"))))
StepAway(m) ==
  Then(SetStep(m, TRUE), LAMBDA a :
  Then(ResumeCore(a.m), LAMBDA b :
  Then(AwaitHalt(b.m), LAMBDA c :
  Then(ReadCsr(c.m, "pc"), LAMBDA d :
  Then(SetStep(d.m, FALSE), LAMBDA e : {Give(e.m, d.val)})))))
(* Slip: the triggers stay disabled. *)
SlipStepOverTrigger(m) ==
  Then(EnableBreakpoints(m, FALSE), LAMBDA a : StepAway(a.m))
(* A core stopped by a trigger is stepped with the triggers disabled; if    *)
(* that fails they stay disabled, and are no longer listed.                 *)
StepOverTrigger(m) ==
  LET S == Then(EnableBreakpoints(m, FALSE), LAMBDA a :
           Then(StepAway(a.m), LAMBDA b :
           Then(EnableBreakpoints(b.m, TRUE), LAMBDA c : {Give(c.m, b.val)})))
  IN UNION {Unless(~o.ok /\ o.m.off # {}, {o}) : o \in S}

(* One stopped by a breakpoint instruction only has its pc advanced, if     *)
(* breakpoints are enabled, wherever the pc is by now.                      *)
Step(m) ==
  Then(Status(m), LAMBDA s :
    CASE s.val = Yes /\ s.m.why = "soft" /\ s.m.bpOn ->
           Then(ReadCsr(s.m, "pc"), LAMBDA a :
           Then(ReadCsr(a.m, "debug"), LAMBDA b :
           Unless(a.val # Own(a.m.epoch)["pc"],
             Then(WriteCsr(b.m, "pc", Past(a.val)), LAMBDA c : {Give(c.m, Past(a.val))}))))
      [] s.val = Yes /\ s.m.why = "hard" -> StepOverTrigger(s.m)
      [] OTHER -> StepAway(s.m))

Run(m) == Then(Step(m), LAMBDA o : ResumeCore(o.m))

DebugOnSwBreakpoint(m) ==
  Then(ReadCsr(m, "dcsr"), LAMBDA o : WriteCsr(o.m, "dcsr", o.val))
ResetAndHalt(m) ==
  Then(Access(m, m, Junk), LAMBDA a :
  Then(Access(a.m, [WasReset(a.m) EXCEPT !.armed = FALSE], Junk), LAMBDA b :
  Then(AwaitHalt(b.m), LAMBDA c :
  Then(Access(c.m, c.m, Junk), LAMBDA d :
  Then(DebugOnSwBreakpoint(d.m), LAMBDA e : ReadCsr(e.m, "pc"))))))
Reset(m) == Then(ResetAndHalt(m), LAMBDA o : ResumeCore(o.m))

(* When the session ends, breakpoint instructions trap again. *)
Leave(m) == DebugOnSwBreakpoint(m)
=============================================================================
