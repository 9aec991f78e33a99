------------------------------- MODULE ArmV7a -------------------------------
(***************************************************************************)
(* The driver of ARMv7-A cores                                             *)
(* (probe-rs/src/architecture/arm/core/armv7a.rs).  The registers of a     *)
(* halted core are read by letting it execute instructions that move them  *)
(* to a debug register, r0 and r1 (s0 and s1 here) serving as scratch.     *)
(* What was read is cached, what was written is only cached; an entry      *)
(* marked dirty is written to the core before it resumes.  Memory is       *)
(* accessed by instructions as well.                                       *)
(*                                                                         *)
(* Driver fields of m: seen, the core status last seen; cache, a value per *)
(* register, whether there is one and whether it is dirty; counted, is the *)
(* number of FP registers known?                                           *)
(***************************************************************************)
EXTENDS CoreAccess

Nothing == [in |-> FALSE, val |-> Junk, dirty |-> FALSE]
Clean(v) == [in |-> TRUE, val |-> v, dirty |-> FALSE]
Dirty(v) == [in |-> TRUE, val |-> v, dirty |-> TRUE]
EmptyCache == [r \in Regs |-> Nothing]

ResetCache(m) == [m EXCEPT !.cache = EmptyCache]
SetStatus(m, s) == [m EXCEPT !.seen = s]

(* An instruction that takes m to n and leaves v in the transfer register.  *)
(* A core that runs, or is thought to run, does not take it.                *)
Execute(m, n, v) ==
  IF m.seen = "running" \/ ~m.halted THEN {Err(m)} ELSE Access(m, n, v)
WithResult(m, r) == Execute(m, m, m.regs[r])
WithInput(m, r, v) == Execute(m, [m EXCEPT !.regs[r] = v], Junk)
Move(m, from, to) == Execute(m, [m EXCEPT !.regs[to] = m.regs[from]], Junk)

Cached(m, r) == Give(m, m.cache[r].val)
Remember(S, r) == Then(S, LAMBDA o : {Give([o.m EXCEPT !.cache[r] = Clean(o.val)], o.val)})

ReadGpr(m, r) ==
  IF m.cache[r].in THEN {Cached(m, r)} ELSE Remember(WithResult(m, r), r)

(* Slip: it is cached, but not to be written back. *)
SlipPrepareForClobber(m, r) == ReadGpr(m, r)

(* The register is about to be overwritten: cache it, to be written back.   *)
PrepareForClobber(m, r) ==
  IF m.cache[r].in THEN Unless(~m.cache[r].dirty, {Ok(m)})
  ELSE Then(ReadGpr(m, r), LAMBDA o : {Ok([o.m EXCEPT !.cache[r] = Dirty(o.val)])})

(* The program counter is read through r0, an FP register through r0 and r1.*)
ReadPc(m) ==
  Then(PrepareForClobber(m, "s0"), LAMBDA a :
  Then(Move(a.m, "pc", "s0"), LAMBDA b : WithResult(b.m, "s0")))
ReadFp(m) ==
  Then(PrepareForClobber(m, "s0"), LAMBDA a :
  Then(PrepareForClobber(a.m, "s1"), LAMBDA b :
  Then(Move(b.m, "f", "s0"), LAMBDA c :
  Then(Move(c.m, "f", "s1"), LAMBDA d :
  Then(WithResult(d.m, "s0"), LAMBDA e : WithResult(e.m, "s1"))))))

ReadReg(m, r) ==
  CASE m.cache[r].in -> {Cached(m, r)}
    [] r = "pc" /\ ~m.cache[r].in -> Remember(ReadPc(m), r)
    [] r = "f" /\ ~m.cache[r].in -> Remember(ReadFp(m), r)
    [] OTHER -> ReadGpr(m, r)

WriteReg(m, r) == {Ok([m EXCEPT !.cache[r] = Dirty(User(r))])}

(* The registers that need r0 and r1 first, then r0 and r1.                 *)
WriteBackOne(m, r) ==
  LET v == m.cache[r].val
  IN CASE ~m.cache[r].dirty -> {Ok(m)}
       [] r = "pc" /\ m.cache[r].dirty ->
            Unless(~m.cache["s0"].dirty,
              Then(WithInput(m, "s0", v), LAMBDA a : Move(a.m, "s0", "pc")))
       [] r = "f" /\ m.cache[r].dirty ->
            Unless(~(m.cache["s0"].dirty /\ m.cache["s1"].dirty),
              Then(WithInput(m, "s0", v), LAMBDA a :
              Then(WithInput(a.m, "s1", v), LAMBDA b : Move(b.m, "s0", "f"))))
       [] OTHER -> WithInput(m, r, v)
WriteBack(m) ==
  Then(WriteBackOne(m, "f"), LAMBDA a :
  Then(WriteBackOne(a.m, "pc"), LAMBDA b :
  Then(WriteBackOne(b.m, "s0"), LAMBDA c :
  Then(WriteBackOne(c.m, "s1"), LAMBDA d : {Ok(ResetCache(d.m))}))))

(* The number of FP registers is found out once, through r0.                *)
CountFpRegs(m) ==
  IF m.counted \/ m.seen = "running" THEN {Ok(m)}
  ELSE Then(PrepareForClobber(m, "s0"), LAMBDA a :
       Then(WithInput(a.m, "s0", Junk), LAMBDA b :
       Then(WithResult(b.m, "s0"), LAMBDA c : {Ok([c.m EXCEPT !.counted = TRUE])})))

New(t) ==
  CountFpRegs(Driven(t, [seen |-> IF t.halted THEN "halted" ELSE "running",
                         cache |-> EmptyCache, counted |-> FALSE]))

Status(m) ==
  Then(Poll(m), LAMBDA o :
    IF o.val = Yes
    THEN Then(CountFpRegs(SetStatus(o.m, "halted")), LAMBDA a : {Give(a.m, Yes)})
    ELSE {Give(SetStatus(o.m, "running"), o.val)})

Halt(m) ==
  LET Request == IF m.seen = "halted" THEN {Ok(m)}
                 ELSE Then(Access(m, m, Junk), LAMBDA a :
                      Then(AwaitHalt(a.m), LAMBDA b : {Ok(ResetCache(b.m))}))
  IN Then(Request, LAMBDA c : Then(Status(c.m), LAMBDA d : ReadReg(d.m, "pc")))

(* A comparator that is enabled at the program counter stays so, and a      *)
(* breakpoint instruction may be there: the core stops again where it is.   *)
Resume(m) == UNION {Access(m, n, Junk) : n \in {Restarted(m)} \cup StopsAgain(m, {"self"})}
Run(m) ==
  IF m.seen = "running" THEN {Ok(m)}
  ELSE Then(WriteBack(m), LAMBDA a :
       Then(Resume(a.m), LAMBDA b :
       Then(Access(b.m, b.m, Junk), LAMBDA c : Status(SetStatus(c.m, "running")))))

(* The value and the control register of a breakpoint unit are written one  *)
(* after the other.  The value moves a unit that is enabled, but one that   *)
(* is armed for a step stays so.                                            *)
SetValue(m, u, x) ==
  Access(m, IF m.bps[u] \in {Free, "step"} THEN m ELSE [m EXCEPT !.bps[u] = x], Junk)
SetControl(m, u, x) == Access(m, [m EXCEPT !.bps[u] = x], Junk)

(* The last unit, made to match any address but the program counter, stops  *)
(* the core after one instruction, and is then given back its own values.   *)
Step(m) ==
  Then(ReadReg(m, "pc"), LAMBDA a :
  Then(SetValue(a.m, NumUnits, "here"), LAMBDA b :
  Then(Access(b.m, [b.m EXCEPT !.bps[NumUnits] = "step", !.armed = TRUE], Junk), LAMBDA c :
  Then(Run(c.m), LAMBDA d :
  Then(AwaitHalt(d.m), LAMBDA e :
  Then(SetValue(e.m, NumUnits, m.bps[NumUnits]), LAMBDA f :
  Then(Access(f.m, [f.m EXCEPT !.bps[NumUnits] = m.bps[NumUnits], !.armed = m.armed], Junk), LAMBDA g :
    ReadReg(g.m, "pc"))))))))

(* The cache is emptied at the end, and so not if the reset fails half-way. *)
Stale(m, o) == ~o.ok /\ o.m.epoch # m.epoch /\ o.m.cache # EmptyCache
Resetting(m, S) == UNION {Unless(Stale(m, o), {o}) : o \in S}

(* The status last seen is kept. *)
Reset(m) ==
  Resetting(m, Then(Access(m, WasReset(m), Junk), LAMBDA a : {Ok(ResetCache(a.m))}))

ResetAndHalt(m) ==
  Resetting(m,
    Then(Access(m, m, Junk), LAMBDA a :
    Then(Access(a.m, WasReset(a.m), Junk), LAMBDA b :
    Then(AwaitHalt(b.m), LAMBDA c :
    Then(Status(c.m), LAMBDA d :
      Unless(d.m.counted # c.m.counted, ReadReg(ResetCache(d.m), "pc")))))))

(* A unit that is enabled is in use; breakpoints are always enabled.        *)
Listed(m) == m.bps
HwBreakpoints(m) == Access(m, m, Junk)
BreakpointsEnabled(m) == TRUE
EnableBreakpoints(m, b) == {Ok(m)}
SetHwBreakpoint(m, u, x) == Then(SetValue(m, u, x), LAMBDA a : SetControl(a.m, u, x))
ClearHwBreakpoint(m, u) == Then(SetValue(m, u, "zero"), LAMBDA a : SetControl(a.m, u, Free))

(* When the session ends what was cached is put back. *)
Leave(m) == IF m.seen = "halted" THEN WriteBack(m) ELSE {Ok(m)}

(* A load and a store take the address from r0 and count it up.             *)
Load(m) ==
  LET a == m.regs["s0"].n
  IN Execute(m, [m EXCEPT !.regs["s0"] = Address(a + 2)], Data(Word(m.mem, a)))
Store(m, k) ==
  LET a == m.regs["s0"].n
  IN Execute(m, [m EXCEPT !.regs["s0"] = Address(a + 2), !.mem = Patched(@, a, k)], Junk)

ReadWord(m, a) ==
  Then(PrepareForClobber(m, "s0"), LAMBDA x :
  Then(WithInput(x.m, "s0", Address(a)), LAMBDA y : Load(y.m)))
WriteWord(m, a, k) ==
  Then(PrepareForClobber(m, "s0"), LAMBDA x :
  Then(WithInput(x.m, "s0", Address(a)), LAMBDA y : Store(y.m, k)))

(* Less than a word is read from, and patched into, the word around it.     *)
ReadLane(m, l) ==
  Then(ReadWord(m, WordOf(l)), LAMBDA o : {Give(o.m, Data(LaneOf(o.val.n, l)))})
WriteLane(m, l) ==
  Then(ReadWord(m, WordOf(l)), LAMBDA o : WriteWord(o.m, WordOf(l), WithLane(o.val.n, l)))

ReadWords(m) ==
  Then(ReadWord(m, 0), LAMBDA x :
  Then(ReadWord(x.m, 2), LAMBDA y : {Give(y.m, Data(x.val.n + 4 * y.val.n))}))
WriteWords(m) == Then(WriteWord(m, 0, 3), LAMBDA o : WriteWord(o.m, 2, 3))
=============================================================================
