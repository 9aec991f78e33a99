------------------------------- MODULE ArmV8a -------------------------------
(***************************************************************************)
(* The driver of ARMv8-A cores                                             *)
(* (probe-rs/src/architecture/arm/core/armv8a.rs).  Like ARMv7-A it lets   *)
(* the halted core execute instructions, with x0 and x1 (s0 and s1) as     *)
(* scratch, and keeps a cache of registers.  A core in AArch32 state and   *)
(* one in AArch64 state are driven by different functions.  The core is    *)
(* halted and resumed through the cross trigger interface, and memory can  *)
(* be accessed while it runs, by halting it for the access.                *)
(*                                                                         *)
(* Driver fields of m: seen, the core status last seen; cache, a value per *)
(* register, whether there is one and whether it is dirty; is64, is the    *)
(* core in AArch64 state?                                                  *)
(***************************************************************************)
EXTENDS CoreAccess

Nothing == [in |-> FALSE, val |-> Junk, dirty |-> FALSE]
Clean(v) == [in |-> TRUE, val |-> v, dirty |-> FALSE]
Dirty(v) == [in |-> TRUE, val |-> v, dirty |-> TRUE]
EmptyCache == [r \in Regs |-> Nothing]

New(t, wide) ==
  {Ok(Driven(t, [seen |-> IF t.halted THEN "halted" ELSE "running", cache |-> EmptyCache, is64 |-> wide]))}

ResetCache(m) == [m EXCEPT !.cache = EmptyCache]
SetStatus(m, s) == [m EXCEPT !.seen = s]

(* An instruction that takes m to n and leaves v in the transfer register.  *)
(* A core that runs reports an error instead of executing it.               *)
Execute(m, n, v) ==
  IF m.seen = "running" \/ ~m.halted THEN {Err(m)} ELSE Access(m, n, v)
WithResult32(m, r) == Execute(m, m, m.regs[r])
WithResult64(m, r) == Execute(m, m, m.regs[r])
WithInput32(m, r, v) == Execute(m, [m EXCEPT !.regs[r] = v], Junk)
WithInput64(m, r, v) == Execute(m, [m EXCEPT !.regs[r] = v], Junk)
Move(m, from, to) == Execute(m, [m EXCEPT !.regs[to] = m.regs[from]], Junk)

SetRegValue(m, r, v) == IF m.is64 THEN WithInput64(m, r, v) ELSE WithInput32(m, r, v)
Result(m, r) == IF m.is64 THEN WithResult64(m, r) ELSE WithResult32(m, r)

Remember(S, r) == Then(S, LAMBDA o : {Give([o.m EXCEPT !.cache[r] = Clean(o.val)], o.val)})

ReadGpr(m, r) ==
  IF m.cache[r].in THEN {Give(m, m.cache[r].val)} ELSE Remember(Result(m, r), r)

(* The register is about to be overwritten: cache it, to be written back.   *)
PrepareForClobber(m, r) ==
  IF m.cache[r].in THEN Unless(~m.cache[r].dirty, {Ok(m)})
  ELSE Then(ReadGpr(m, r), LAMBDA o : {Ok([o.m EXCEPT !.cache[r] = Dirty(o.val)])})

(* AArch32: the program counter through r0, an FP register through r0 and   *)
(* r1.  AArch64: both through x0, the FP register in two halves.            *)
ReadCoreReg32(m, r) ==
  Then(PrepareForClobber(m, "s0"), LAMBDA a :
  IF r = "pc"
  THEN Then(Move(a.m, r, "s0"), LAMBDA b : WithResult32(b.m, "s0"))
  ELSE Then(PrepareForClobber(a.m, "s1"), LAMBDA b :
       Then(Move(b.m, r, "s0"), LAMBDA c :
       Then(Move(c.m, r, "s1"), LAMBDA d :
       Then(WithResult32(d.m, "s0"), LAMBDA e : WithResult32(e.m, "s1"))))))
ReadCoreReg64(m, r) ==
  Then(PrepareForClobber(m, "s0"), LAMBDA a :
  Then(Move(a.m, r, "s0"), LAMBDA b : WithResult64(b.m, "s0")))

ReadReg(m, r) ==
  CASE m.cache[r].in -> {Give(m, m.cache[r].val)}
    [] r \in {"s0", "s1"} /\ ~m.cache[r].in -> ReadGpr(m, r)
    [] r \in {"pc", "f"} /\ ~m.cache[r].in ->
         Remember(IF m.is64 THEN ReadCoreReg64(m, r) ELSE ReadCoreReg32(m, r), r)

WriteReg(m, r) == {Ok([m EXCEPT !.cache[r] = Dirty(User(r))])}

WriteBack32(m, r) ==
  LET v == m.cache[r].val
  IN CASE r \in {"s0", "s1"} -> WithInput32(m, r, v)
       [] r = "pc" -> Then(WithInput32(m, "s0", v), LAMBDA a : Move(a.m, "s0", "pc"))
       [] r = "f" -> Unless(~m.cache["s1"].dirty,
                       Then(WithInput32(m, "s0", v), LAMBDA a :
                       Then(WithInput32(a.m, "s1", v), LAMBDA b : Move(b.m, "s0", "f"))))
WriteBack64(m, r) ==
  LET v == m.cache[r].val
  IN IF r \in {"s0", "s1"} THEN SetRegValue(m, r, v)
     ELSE Then(SetRegValue(m, "s0", v), LAMBDA a : Move(a.m, "s0", r))

(* The registers that need the scratch registers first, then these.         *)
WriteBackOne(m, r) ==
  IF ~m.cache[r].dirty THEN {Ok(m)}
  ELSE Unless(r \in {"pc", "f"} /\ ~m.cache["s0"].dirty,
         IF m.is64 THEN WriteBack64(m, r) ELSE WriteBack32(m, r))
WriteBack(m) ==
  Then(WriteBackOne(m, "pc"), LAMBDA a :
  Then(WriteBackOne(a.m, "f"), LAMBDA b :
  Then(WriteBackOne(b.m, "s0"), LAMBDA c :
  Then(WriteBackOne(c.m, "s1"), LAMBDA d : {Ok(ResetCache(d.m))}))))

Status(m) ==
  Then(Poll(m), LAMBDA o :
    {Give(SetStatus(o.m, IF o.val = Yes THEN "halted" ELSE "running"), o.val)})

(* Opening and pulsing the halt channel, and closing it again. *)
Halt(m) ==
  LET Request == IF m.seen = "halted" THEN {Ok(m)}
                 ELSE Then(Access(m, m, Junk), LAMBDA a :
                      Then(AwaitHalt(a.m), LAMBDA b : {Ok(ResetCache(b.m))}))
  IN Then(Request, LAMBDA c :
     Then(Status(c.m), LAMBDA d :
     Then(Access(d.m, d.m, Junk), LAMBDA e : ReadReg(e.m, "pc"))))

AckCtiHalt(m) == Access(m, m, Junk)

(* A comparator that is enabled at the program counter stays so, and a      *)
(* breakpoint instruction may be there: the core stops again where it is.   *)
Resume(m) == UNION {Access(m, n, Junk) : n \in {Restarted(m)} \cup StopsAgain(m, {"self"})}
Run(m) ==
  IF m.seen = "running" THEN {Ok(m)}
  ELSE Then(WriteBack(m), LAMBDA a :
       Then(AckCtiHalt(a.m), LAMBDA b :
       Then(Resume(b.m), LAMBDA c :
       Then(Status(SetStatus(c.m, "running")), LAMBDA d : Access(d.m, d.m, Junk)))))

(* The single step bit of EDECR is set for the time of the step. *)
Step(m) ==
  Then(Access(m, [m EXCEPT !.armed = TRUE], Junk), LAMBDA a :
  Then(Run(a.m), LAMBDA b :
  Then(AwaitHalt(b.m), LAMBDA c :
  Then(Access(c.m, [c.m EXCEPT !.armed = FALSE], Junk), LAMBDA d : ReadReg(d.m, "pc")))))

(* The cache is emptied at the end, and so not if the reset fails half-way. *)
Stale(m, o) == ~o.ok /\ o.m.epoch # m.epoch /\ o.m.cache # EmptyCache
Resetting(m, S) == UNION {Unless(Stale(m, o), {o}) : o \in S}

(* The status last seen is kept. *)
Reset(m) ==
  Resetting(m, Then(Access(m, WasReset(m), Junk), LAMBDA a : {Ok(ResetCache(a.m))}))

ResetAndHalt(m) ==
  Resetting(m,
    Then(Access(m, m, Junk), LAMBDA a :
    Then(Access(a.m, WasReset(a.m), Junk), LAMBDA b :
    Then(AwaitHalt(b.m), LAMBDA c :
    Then(Status(c.m), LAMBDA d :
      ReadReg(ResetCache(d.m), "pc"))))))

(* A unit that is enabled is in use; breakpoints are always enabled.        *)
Listed(m) == m.bps
HwBreakpoints(m) == Access(m, m, Junk)
BreakpointsEnabled(m) == TRUE
EnableBreakpoints(m, b) == {Ok(m)}
(* The value of a unit and its control are written one after the other; the *)
(* value, in two halves, moves a unit that is enabled.                      *)
SetValue(m, u, x) ==
  Access(m, IF m.bps[u] = Free THEN m ELSE [m EXCEPT !.bps[u] = x], Junk)
SetControl(m, u, x) == Access(m, [m EXCEPT !.bps[u] = x], Junk)
SetHwBreakpoint(m, u, x) == Then(SetValue(m, u, x), LAMBDA a : SetControl(a.m, u, x))
ClearHwBreakpoint(m, u) == Then(SetValue(m, u, "zero"), LAMBDA a : SetControl(a.m, u, Free))

(* When the session ends what was cached is put back. *)
Leave(m) == IF m.seen = "halted" THEN WriteBack(m) ELSE {Ok(m)}

(* F on the halted core; a core that ran before runs again, whatever F      *)
(* came to.                                                                 *)
RunAgain(S) == UNION {{[m |-> r.m, ok |-> r.ok /\ o.ok, val |-> o.val] : r \in Run(o.m)} : o \in S}
WithCoreHalted(m, F(_)) ==
  IF m.seen = "halted" THEN F(m)
  ELSE Unless(m.halted, Then(Halt(m), LAMBDA a : RunAgain(F(a.m))))

(* A load and a store take the address from x0 and count it up.             *)
Load(m) ==
  LET a == m.regs["s0"].n
  IN Execute(m, [m EXCEPT !.regs["s0"] = Address(a + 2), !.regs["s1"] = Data(Word(m.mem, a))], Junk)
Store(m) ==
  LET a == m.regs["s0"].n
  IN Execute(m, [m EXCEPT !.regs["s0"] = Address(a + 2), !.mem = Patched(@, a, m.regs["s1"].n)], Junk)

SaveScratch(m) == Then(PrepareForClobber(m, "s0"), LAMBDA o : PrepareForClobber(o.m, "s1"))

ReadCpuMemory32(m, a) ==
  WithCoreHalted(m, LAMBDA h :
    Then(SaveScratch(h), LAMBDA x :
    Then(SetRegValue(x.m, "s0", Address(a)), LAMBDA y :
    Then(Load(y.m), LAMBDA z : WithResult32(z.m, "s1")))))
ReadCpuMemory64(m, a) ==
  WithCoreHalted(m, LAMBDA h :
    Then(SaveScratch(h), LAMBDA x :
    Then(SetRegValue(x.m, "s0", Address(a)), LAMBDA y :
    Then(Load(y.m), LAMBDA z : WithResult64(z.m, "s1")))))
WriteCpuMemory(m, a, k) ==
  WithCoreHalted(m, LAMBDA h :
    Then(SaveScratch(h), LAMBDA x :
    Then(SetRegValue(x.m, "s0", Address(a)), LAMBDA y :
    Then(SetRegValue(y.m, "s1", Data(k)), LAMBDA z : Store(z.m)))))

ReadWord(m, a) == IF m.is64 THEN ReadCpuMemory64(m, a) ELSE ReadCpuMemory32(m, a)
WriteWord(m, a, k) == WriteCpuMemory(m, a, k)

(* Less than a word is read from, and patched into, the word around it.     *)
ReadLane(m, l) ==
  Then(ReadWord(m, WordOf(l)), LAMBDA o : {Give(o.m, Data(LaneOf(o.val.n, l)))})
WriteLane(m, l) ==
  Then(ReadWord(m, WordOf(l)), LAMBDA o : WriteWord(o.m, WordOf(l), WithLane(o.val.n, l)))

ReadWords(m) ==
  Then(ReadWord(m, 0), LAMBDA x :
  Then(ReadWord(x.m, 2), LAMBDA y : {Give(y.m, Data(x.val.n + 4 * y.val.n))}))
WriteWords(m) == Then(WriteWord(m, 0, 3), LAMBDA o : WriteWord(o.m, 2, 3))
=============================================================================
