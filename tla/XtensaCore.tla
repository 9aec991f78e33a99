------------------------------ MODULE XtensaCore ------------------------------
(***************************************************************************)
(* The driver of Xtensa cores (probe-rs/src/architecture/xtensa/mod.rs,    *)
(* communication_interface.rs and the commands of xdm.rs).  The halted     *)
(* core executes the instructions it is fed, one at a time.  Special       *)
(* registers and memory are reached through a scratch register, A3 (s0     *)
(* here): the driver saves it first and restores it in the end.  Commands  *)
(* are queued and only carried out when a result is needed, so that a      *)
(* failure shows there.  Whether most of the instructions were executed is *)
(* not looked at: a running core ignores them.                             *)
(*                                                                         *)
(* Driver fields of m: sh, the core was seen to be halted; saved, is the   *)
(* scratch register on the list of saved registers ("no", or "kept" with   *)
(* its value kept, or "lost", for the results of a failed batch are lost); *)
(* pcw, the program counter was written; bset, the breakpoint units in     *)
(* use, on, those enabled in the core; bpOn, are breakpoints enabled?      *)
(***************************************************************************)
EXTENDS CoreAccess

New(t, left) ==
  {Ok(Driven([t EXCEPT !.causes = {"soft"}, !.bps = [u \in Units |-> IF u \in left THEN "x" ELSE Free]],
             [sh |-> FALSE, saved |-> "no", kept |-> Junk, pcw |-> FALSE,
              bset |-> {}, on |-> left, bpOn |-> FALSE]))}

(* An instruction that takes m to n and leaves v in the data register.      *)
Execute(m, n, v) == IF m.halted THEN Access(m, n, v) ELSE Access(m, m, Junk)

CpuRead(m, r) == Execute(m, m, m.regs[r])
CpuWrite(m, r, v) == Execute(m, [m EXCEPT !.regs[r] = v], Junk)

(* F with the scratch register saved, which is then restored.  It comes off *)
(* the list before the commands are carried out, so that a failure leaves   *)
(* nothing on it.  If it was on the list already, it is left as it is.      *)
SaveScratch(m) == CpuRead(m, "s0")
RestoreScratch(S, v) ==
  Then(S, LAMBDA o : Then(CpuWrite(o.m, "s0", v), LAMBDA p : {Give(p.m, o.val)}))
WithScratch(m, F(_)) ==
  IF m.saved # "no" THEN Unless(TRUE, F(m))
  ELSE Then(SaveScratch(m), LAMBDA a : RestoreScratch(F(a.m), a.val))

ReadSpecial(m, v) == WithScratch(m, LAMBDA x : Execute(x, [x EXCEPT !.regs["s0"] = v], v))
LoadScratch(m, v) == CpuWrite(m, "s0", v)
WriteSpecial(m, v, Set(_)) ==
  WithScratch(m, LAMBDA x : Then(LoadScratch(x, v), LAMBDA y : Execute(y.m, Set(y.m), Junk)))
(* One that is of no concern here. *)
WriteOther(m) == WriteSpecial(m, Junk, LAMBDA x : x)

IsCpu(r) == r \in {"s0", "s1"}
ReadReg(m, r) == IF IsCpu(r) THEN CpuRead(m, r) ELSE ReadSpecial(m, m.regs[r])
WriteRegister(m, r, v) ==
  IF IsCpu(r) THEN CpuWrite(m, r, v)
  ELSE WriteSpecial(m, v, LAMBDA x : [x EXCEPT !.regs[r] = v])
WriteReg(m, r) ==
  WriteRegister(IF r = "pc" THEN [m EXCEPT !.pcw = TRUE] ELSE m, r, User(r))

(* Once seen halted the core is taken to be so until it is resumed.         *)
IsHalted(m) ==
  IF m.sh THEN {Give(m, Yes)}
  ELSE Then(Poll(m), LAMBDA o : {Give([o.m EXCEPT !.sh = (o.val = Yes)], o.val)})

(* The interrupt level is lowered for debug exceptions to be taken.         *)
LowerIntlevel(m) ==
  Then(ReadSpecial(m, Junk), LAMBDA a : WriteOther(a.m))
AwaitCoreHalted(m) ==
  Then(IF m.sh THEN {Ok(m)} ELSE AwaitHalt(m), LAMBDA a : LowerIntlevel([a.m EXCEPT !.sh = TRUE]))

(* Slip: it is still taken to be halted. *)
SlipResume(m) ==
  IF m.halted THEN Access(m, Restarted(m), Junk) ELSE {Err(m)} \cup Access(m, m, Junk)
Resume(m) ==
  LET n == [m EXCEPT !.sh = FALSE]
  IN IF n.halted THEN Access(n, Restarted(n), Junk) ELSE {Err(n)} \cup Access(n, n, Junk)

ReadPc(m) == ReadReg(m, "pc")

Halt(m) ==
  Then(Access(m, m, Junk), LAMBDA a :
  Then(AwaitCoreHalted(a.m), LAMBDA b : ReadPc(b.m)))

(* The core is resumed past a breakpoint instruction that stopped it,       *)
(* unless the program counter was written.                                  *)
SkipBreakpoint(m) ==
  IF m.pcw THEN {Ok(m)}
  ELSE Then(ReadSpecial(m, Junk), LAMBDA a :
       IF a.m.why # "soft" THEN {Ok(a.m)}
       ELSE Then(ReadPc(a.m), LAMBDA b :
            WriteRegister([b.m EXCEPT !.pcw = TRUE], "pc", Past(b.val))))
Run(m) == Then(SkipBreakpoint(m), LAMBDA a : Resume(a.m))

(* The instruction counter is set to stop the core after one.               *)
Count(m, b) == WriteSpecial(m, Junk, LAMBDA x : [x EXCEPT !.armed = b])
Step(m) ==
  Then(SkipBreakpoint(m), LAMBDA a :
  Then(Count(a.m, TRUE), LAMBDA b :
  Then(WriteOther(b.m), LAMBDA c :
  Then(Resume(c.m), LAMBDA d :
  Then(AwaitCoreHalted(d.m), LAMBDA e :
  Then(Count(e.m, FALSE), LAMBDA f : ReadPc([f.m EXCEPT !.pcw = FALSE])))))))

(* The core halts when it leaves reset, but after a moment.                 *)
HaltsOnReset(m) ==
  UNION {Access(n, n, Junk) : n \in Unless(m.sh, {WasReset(m)}) \cup {Stopped(WasReset(m))}}
ResetAndHalt(m) ==
  Then(Access(m, m, Junk), LAMBDA a :
  Then(HaltsOnReset(a.m), LAMBDA b :
  Then(AwaitCoreHalted(b.m), LAMBDA c :
  Then(WriteOther(c.m), LAMBDA d : ReadPc(d.m)))))
Reset(m) == Then(ResetAndHalt(m), LAMBDA a : Resume(a.m))
-----------------------------------------------------------------------------
(* Slip: it is not resumed. *)
SlipResumeAfter(S) == S
ResumeAfter(S) == Then(S, LAMBDA o : Then(Resume(o.m), LAMBDA p : {Give(p.m, o.val)}))

(* F on a core that is halted for it if it runs, and resumed if F succeeds. *)
Briefly(m, F(_)) ==
  Then(IsHalted(m), LAMBDA a :
    IF a.val = Yes THEN F(a.m)
    ELSE Then(Access(a.m, a.m, Junk), LAMBDA b :
         Then(AwaitCoreHalted(b.m), LAMBDA c : ResumeAfter(F(c.m)))))

(* What becomes of the saved value if the batch fails: it was to be read in *)
(* that batch, or had been read before.                                     *)
LosesIt(S) == {IF o.ok THEN o ELSE Err([o.m EXCEPT !.saved = "lost"]) : o \in S}
KeepsIt(S, v) == {IF o.ok THEN o ELSE Err([o.m EXCEPT !.saved = "kept", !.kept = v]) : o \in S}

(* A load and a store take the address from the scratch register and count  *)
(* it up.                                                                   *)
Load(m) ==
  LET a == m.regs["s0"].n
  IN Execute(m, [m EXCEPT !.regs["s0"] = Address(a + 2)], Data(Word(m.mem, a)))
Store(m, k) ==
  LET a == m.regs["s0"].n
  IN Execute(m, [m EXCEPT !.regs["s0"] = Address(a + 2), !.mem = Patched(@, a, k)], Junk)

LoadAt(m, a) == Then(CpuWrite(m, "s0", Address(a)), LAMBDA x : Load(x.m))
StoreAt(m, a, k) == Then(CpuWrite(m, "s0", Address(a)), LAMBDA x : Store(x.m, k))

(* F is one batch, that begins with saving the scratch register.            *)
InOneBatch(m, F(_)) ==
  IF m.saved # "no" THEN Unless(TRUE, F(m))
  ELSE Then(LosesIt(SaveScratch(m)), LAMBDA a : RestoreScratch(LosesIt(F(a.m)), a.val))

ReadWord(m, a) == Briefly(m, LAMBDA x : InOneBatch(x, LAMBDA y : LoadAt(y, a)))
ReadLane(m, l) ==
  Then(ReadWord(m, WordOf(l)), LAMBDA o : {Give(o.m, Data(LaneOf(o.val.n, l)))})
ReadWords(m) ==
  Briefly(m, LAMBDA x : InOneBatch(x, LAMBDA y :
    Then(LoadAt(y, 0), LAMBDA a :
    Then(Load(a.m), LAMBDA b : {Give(b.m, Data(a.val.n + 4 * b.val.n))}))))

WriteWord(m, a, k) == Briefly(m, LAMBDA x : InOneBatch(x, LAMBDA y : StoreAt(y, a, k)))
WriteWords(m) ==
  Briefly(m, LAMBDA x : InOneBatch(x, LAMBDA y :
    Then(StoreAt(y, 0, 3), LAMBDA a : StoreAt(a.m, 2, 3))))

(* Less than a word is patched into the word around it, in a second batch.  *)
PatchLane(m, l, saved) ==
  Then(LosesIt(LoadAt(m, WordOf(l))), LAMBDA a :
    KeepsIt(StoreAt(a.m, WordOf(l), WithLane(a.val.n, l)), saved))
WriteLane(m, l) ==
  Briefly(m, LAMBDA x :
    IF x.saved # "no" THEN Unless(TRUE, PatchLane(x, l, x.kept))
    ELSE Then(LosesIt(CpuRead(x, "s0")), LAMBDA a :
         Then(PatchLane(a.m, l, a.val), LAMBDA b : CpuWrite(b.m, "s0", a.val))))
-----------------------------------------------------------------------------
(* At a breakpoint instruction the driver looks for a semihosting call.     *)
Status(m) ==
  Then(IsHalted(m), LAMBDA a :
    IF a.val # Yes THEN {a}
    ELSE Then(ReadSpecial(a.m, Junk), LAMBDA b :
         IF b.m.why # "soft" THEN {Give(b.m, Yes)}
         ELSE Then(ReadPc([b.m EXCEPT !.pcw = FALSE]), LAMBDA c :
              Then(ReadWord(c.m, 0), LAMBDA d : {Give(d.m, Yes)}))))

Listed(m) == [u \in Units |-> IF u \in m.on THEN m.bps[u] ELSE Free]
ReadUnit(m, u, on) == IF u \in on THEN ReadSpecial(m, Junk) ELSE {Ok(m)}
ReadUnits(m, on) == EachUnit(m, LAMBDA n, u : ReadUnit(n, u, on))
HwBreakpoints(m) == Then(ReadSpecial(m, Junk), LAMBDA a : ReadUnits(a.m, a.m.on))
BreakpointsEnabled(m) == m.bpOn

WriteMask(m, us) == WriteSpecial(m, Junk, LAMBDA x : [x EXCEPT !.on = us])
UpdateMask(m) == IF m.bpOn THEN WriteMask(m, m.bset) ELSE {Ok(m)}
EnableBreakpoints(m, b) ==
  LET n == [m EXCEPT !.bpOn = b] IN WriteMask(n, IF b THEN n.bset ELSE {})
WriteUnit(m, u, x) == WriteSpecial(m, Junk, LAMBDA y : [y EXCEPT !.bps[u] = x])
(* A breakpoint that could not be set is taken to be in use all the same.   *)
SetHwBreakpoint(m, u, x) ==
  LET S == Then(WriteUnit([m EXCEPT !.bset = @ \cup {u}], u, x), LAMBDA o : UpdateMask(o.m))
  IN UNION {Unless(~o.ok /\ o.m.bset # o.m.on, {o}) : o \in S}
(* Slip: the mask in the core is left as it is. *)
SlipClearHwBreakpoint(m, u) == {Ok([m EXCEPT !.bset = @ \ {u}])}
ClearHwBreakpoint(m, u) == UpdateMask([m EXCEPT !.bset = @ \ {u}])

(* When the session ends the saved register is restored, if there is one    *)
(* and its value was read, and the core runs on.                            *)
RestoreRegisters(m) ==
  CASE m.saved = "no" -> {Ok(m)}
    [] m.saved = "kept" -> CpuWrite([m EXCEPT !.saved = "no"], "s0", m.kept)
    [] OTHER -> {Err(m)}
Leave(m) ==
  Then(RestoreRegisters(m), LAMBDA a :
  Then(Resume(a.m), LAMBDA b : Access(b.m, b.m, Junk)))
=============================================================================
