-------------------------- MODULE DebugCore_proofs --------------------------
(***************************************************************************)
(* For any number of breakpoint units, any number of failures of the       *)
(* probe, and any of the five architectures: what the debugger is told is  *)
(* halted is, what it writes is in memory and nothing else is, and what    *)
(* needs the core halted for a moment leaves it running.  The hypothesis   *)
(* Careful leaves out the histories of the flaws that are known.           *)
(***************************************************************************)
EXTENDS DebugCore_lemmas, TLAPS

-----------------------------------------------------------------------------
(* A new target.                                                          *)

(* What the drivers make of a new target. *)
LEMMA NewTargets ==
  \A t \in {NewTarget, Stopped(NewTarget)} :
    /\ DOMAIN t = CoreFields /\ t.halted \in BOOLEAN /\ t.causes = {"self"} /\ t.epoch = 0
    /\ t.mem = [a \in Lanes |-> 0] /\ t.regs = Own(0) /\ t.bps = [u \in Units |-> Free]
<1>1. /\ DOMAIN NewTarget = CoreFields /\ NewTarget.halted = FALSE /\ NewTarget.causes = {"self"}
      /\ NewTarget.epoch = 0 /\ NewTarget.mem = [a \in Lanes |-> 0] /\ NewTarget.regs = Own(0)
      /\ NewTarget.bps = [u \in Units |-> Free]
  BY DEF NewTarget, CoreFields
<1> DEFINE n == NewTarget
<1>. HIDE DEF n
<1>2. /\ DOMAIN Stopped(n) = DOMAIN n
      /\ \A g \in DOMAIN n \ {"halted", "why"} : Stopped(n)[g] = n[g]
      /\ {"halted", "why"} \subseteq DOMAIN n => Stopped(n).halted
  BY StoppedHalted DEF Stopped
<1> QED BY <1>1, <1>2 DEF n, CoreFields

\* A new driver of Cortex-M is in order.
LEMMA CMNew ==
  \A t \in {NewTarget, Stopped(NewTarget)} : \A o \in CM!New(t) : GoodCM(o.m)
<1> SUFFICES ASSUME NEW t \in {NewTarget, Stopped(NewTarget)} PROVE \A o \in CM!New(t) : GoodCM(o.m)
  OBVIOUS
<1> DEFINE s == [t EXCEPT !.causes = {"soft"}]
           d == [seen |-> IF t.halted THEN "request" ELSE "running", bpOn |-> FALSE,
                 dfsr |-> {}, cleared |-> t.halted, masked |-> FALSE, catch |-> FALSE]
           x == CM!Driven(s, d)
<1>1. CM!New(t) = {CM!Ok(x)}
  BY DEF CM!New
<1>2. /\ DOMAIN s = CoreFields /\ s.halted \in BOOLEAN /\ s.causes = {"soft"} /\ s.epoch = 0
      /\ s.mem = [a \in Lanes |-> 0] /\ s.regs = Own(0) /\ s.bps = [u \in Units |-> Free]
  BY NewTargets DEF CoreFields
<1>3. DOMAIN d = {"seen", "bpOn", "dfsr", "cleared", "masked", "catch"} /\ d.bpOn = FALSE
  OBVIOUS
<1>. HIDE DEF s, d
<1>4. x = Driven(s, d)
  BY DEF CM!Driven, Driven
<1>. HIDE DEF x
<1>5. /\ DOMAIN x = FieldsCM /\ x.bpOn = FALSE /\ x.halted \in BOOLEAN
      /\ x.causes = {"soft"} /\ x.epoch = 0
      /\ x.mem = [a \in Lanes |-> 0] /\ x.regs = Own(0) /\ x.bps = [u \in Units |-> Free]
  <2>1. /\ DOMAIN x = DOMAIN s \cup DOMAIN d
        /\ \A g \in DOMAIN x : x[g] = IF g \in DOMAIN s THEN s[g] ELSE d[g]
    BY <1>4 DEF Driven
  <2>2. x.bpOn = FALSE
    BY <1>2, <1>3, <2>1 DEF CoreFields
  <2>3. \A g \in {"halted", "causes", "epoch", "mem", "regs", "bps"} : x[g] = s[g]
    BY <1>2, <2>1 DEF CoreFields
  <2>4. DOMAIN x = FieldsCM
    BY <1>2, <1>3, <2>1 DEF FieldsCM
  <2> QED BY <1>2, <2>2, <2>3, <2>4
<1>6. GoodCM(x)
  BY <1>5, OwnPrograms DEF GoodCM, FitCM, Own, Regs
<1> QED BY <1>1, <1>6, CMSame, OutcomesGive

\* A new target is in order for a driver with nothing in its cache.
LEMMA TargetGoodA ==
  \A t \in {NewTarget, Stopped(NewTarget)} : \A d :
    {"seen", "cache"} \subseteq DOMAIN d /\ d.cache = NoCache => GoodA(Driven(t, d))
<1> SUFFICES ASSUME NEW t \in {NewTarget, Stopped(NewTarget)}, NEW d,
                    {"seen", "cache"} \subseteq DOMAIN d, d.cache = NoCache
             PROVE  GoodA(Driven(t, d))
  OBVIOUS
<1> DEFINE x == Driven(t, d)
<1>1. /\ DOMAIN t = CoreFields /\ t.halted \in BOOLEAN /\ t.causes = {"self"} /\ t.epoch = 0
      /\ t.mem = [a \in Lanes |-> 0] /\ t.regs = Own(0) /\ t.bps = [u \in Units |-> Free]
  BY NewTargets
<1>2. /\ DOMAIN x = DOMAIN t \cup DOMAIN d
      /\ \A g \in DOMAIN x : x[g] = IF g \in DOMAIN t THEN t[g] ELSE d[g]
  BY DEF Driven
<1>. HIDE DEF x
<1>3. /\ x.halted \in BOOLEAN /\ x.causes = {"self"} /\ x.epoch = 0 /\ x.cache = NoCache
      /\ x.mem = [a \in Lanes |-> 0] /\ x.regs = Own(0) /\ x.bps = [u \in Units |-> Free]
  BY <1>1, <1>2 DEF CoreFields
<1>4. CoreFields \subseteq DOMAIN x /\ {"seen", "cache"} \subseteq DOMAIN x
  BY <1>1, <1>2
<1> QED BY <1>3, <1>4 DEF x, GoodA, FitA, Fit, Table, Own

\* A new driver of ARMv7-A is in order.
LEMMA V7New ==
  \A t \in {NewTarget, Stopped(NewTarget)} : \A o \in V7a!New(t) : GoodA(o.m)
<1> SUFFICES ASSUME NEW t \in {NewTarget, Stopped(NewTarget)} PROVE \A o \in V7a!New(t) : GoodA(o.m)
  OBVIOUS
<1> DEFINE d == [seen |-> IF t.halted THEN "halted" ELSE "running",
                 cache |-> V7a!EmptyCache, counted |-> FALSE]
           x == V7a!Driven(t, d)
<1>1. V7a!New(t) = V7a!CountFpRegs(x)
  BY DEF V7a!New
<1>2. {"seen", "cache"} \subseteq DOMAIN d /\ d.cache = NoCache
  <2>1. V7a!EmptyCache = NoCache
    BY DEF V7a!EmptyCache, V7a!Nothing, NoCache, V7a!Regs, Regs, V7a!Junk, Junk
  <2> QED BY <2>1
<1>. HIDE DEF d
<1>3. x = Driven(t, d)
  BY DEF V7a!Driven, Driven
<1>4. GoodA(x) /\ FitA(x)
  BY <1>2, <1>3, TargetGoodA DEF GoodA
<1>. HIDE DEF x
<1> QED BY <1>1, <1>4, V7CountFpRegs, QuietAKeeps

\* A new driver of ARMv8-A is in order.
LEMMA V8New ==
  \A w : \A o \in V8a!New(NewTarget, w) : GoodA(o.m)
<1> SUFFICES ASSUME NEW w PROVE \A o \in V8a!New(NewTarget, w) : GoodA(o.m)
  OBVIOUS
<1> DEFINE t == NewTarget
           d == [seen |-> IF t.halted THEN "halted" ELSE "running", cache |-> V8a!EmptyCache, is64 |-> w]
           x == V8a!Driven(t, d)
<1>0. t \in {NewTarget, Stopped(NewTarget)} /\ V8a!NewTarget = t
  BY DEF V8a!NewTarget, NewTarget, V8a!Own, Own, V8a!Regs, Regs, V8a!Lanes, Lanes, V8a!Units, Units, V8a!Free, Free
<1>1. V8a!New(t, w) = {V8a!Ok(x)}
  BY DEF V8a!New
<1>2. {"seen", "cache"} \subseteq DOMAIN d /\ d.cache = NoCache
  <2>1. V8a!EmptyCache = NoCache
    BY DEF V8a!EmptyCache, V8a!Nothing, NoCache, V8a!Regs, Regs, V8a!Junk, Junk
  <2> QED BY <2>1
<1>. HIDE DEF d
<1>3. x = Driven(t, d)
  BY DEF V8a!Driven, Driven
<1>. HIDE DEF t
<1>4. GoodA(x)
  BY <1>0, <1>2, <1>3, TargetGoodA
<1>. HIDE DEF x
<1> QED BY <1>1, <1>4, V8Same, OutcomesGive DEF t

(* What the drivers have in common, as the debugger relies on it.          *)
Five == {"cm", "v7a", "v8a", "rv", "xt"}
Good(a, n) ==
  /\ a = "cm" => GoodCM(n)
  /\ a \in {"v7a", "v8a"} => GoodA(n)
  /\ a = "rv" => FitR(n)
  /\ a = "xt" => FitX(n)

(* The core is halted, and the driver knows it if that matters to it.       *)
Ready(a, n) == n.halted /\ (a \in {"v7a", "v8a"} => n.seen = "halted")

(* The operation leaves the core as it found it, but for a halt that is not *)
(* its own; so does one that leaves memory alone as well.                   *)
Tends(a, n, o) ==
  /\ Good(a, o.m)
  /\ n.halted => o.m.halted
  /\ o.ok /\ Unforced(n) => Unforced(o.m)
Clears(a, n, o) == Tends(a, n, o) /\ o.m.mem = n.mem /\ (Ready(a, n) => Ready(a, o.m))

(* A relation of the precise kind gives the common one.                     *)
LEMMA HoldClearsCM ==
  \A n, o : GoodCM(n) /\ HoldCM(n, o.m) => o.m.mem = n.mem /\ o.m.causes = n.causes /\ (Watched(n, o.m) => Clears("cm", n, o))
<1> SUFFICES ASSUME NEW n, NEW o, GoodCM(n), HoldCM(n, o.m)
             PROVE  o.m.mem = n.mem /\ o.m.causes = n.causes /\ (Watched(n, o.m) => Clears("cm", n, o))
  OBVIOUS
<1>1. GoodCM(o.m)
  BY GoodHoldCM
<1>2. o.m.mem = n.mem /\ o.m.causes = n.causes
  BY DEF GoodCM, FitCM, HoldCM, Changed, FieldsCM, CoreFields, SightCM, Look
<1>3. "request" \notin n.causes
  BY DEF GoodCM
<1> QED BY <1>1, <1>2, <1>3 DEF Clears, Tends, Good, Ready, Unforced, Watched, HoldCM

\* To set one breakpoint unit leaves the core as it was.
LEMMA UnitsClear ==
  \A a, n, o, u, x : a \in {"cm", "v7a", "v8a"} /\ Good(a, n) /\ UnitsSet(n, o, u, x) => Clears(a, n, o)
<1> SUFFICES ASSUME NEW a, NEW n, NEW o, NEW u, NEW x,
                    a \in {"cm", "v7a", "v8a"}, Good(a, n), UnitsSet(n, o, u, x)
             PROVE  Clears(a, n, o)
  OBVIOUS
<1>1. CASE a = "cm"
  BY <1>1, GoodUnitsCM DEF Good, Clears, Tends, Ready, Unforced
<1>2. CASE a \in {"v7a", "v8a"}
  <2>1. GoodA(n) /\ FitA(n) /\ Table(n.bps)
    BY <1>2 DEF Good, GoodA, FitA, Fit
  <2>2. DOMAIN o.m = DOMAIN n /\ \A g \in DOMAIN n \ {"faults", "bps"} : o.m[g] = n[g]
    BY DEF UnitsSet, Changed
  <2>3. CoreFields \subseteq DOMAIN n /\ {"seen", "cache"} \subseteq DOMAIN n
    BY <2>1 DEF FitA, Fit
  <2>4. /\ o.m.halted = n.halted /\ o.m.why = n.why /\ o.m.mem = n.mem /\ o.m.causes = n.causes
        /\ o.m.epoch = n.epoch /\ o.m.regs = n.regs /\ o.m.seen = n.seen /\ o.m.cache = n.cache
    BY <2>2, <2>3 DEF CoreFields
  <2>5. Table(o.m.bps)
    <3>1. \A y : Table([n.bps EXCEPT ![u] = y])
      BY <2>1, TableExcept
    <3>2. \/ o.m.bps = n.bps
          \/ o.m.bps = [n.bps EXCEPT ![u] = x]
          \/ \E y : o.m.bps = [n.bps EXCEPT ![u] = y]
      BY DEF UnitsSet
    <3> QED BY <2>1, <3>1, <3>2
  <2>6. GoodA(o.m)
    BY <2>1, <2>2, <2>4, <2>5 DEF GoodA, FitA, Fit
  <2> QED BY <1>2, <2>4, <2>6 DEF Good, Clears, Tends, Ready, Unforced
<1> QED BY <1>1, <1>2

\* An operation that goes nowhere leaves the core as it was.
LEMMA QuietClearsA ==
  \A a, n, o : a \in {"v7a", "v8a"} /\ GoodA(n) /\ QuietA(n, o.m) => Clears(a, n, o)
BY QuietAKeeps DEF Good, Clears, Tends, Ready, Unforced

\* One that needs the core halted leaves it, but for memory.
LEMMA ServesTendA ==
  \A a, n, o : a \in {"v7a", "v8a"} /\ ServesA(n, o) => Tends(a, n, o)
BY DEF Good, Tends, ServesA

\* The same of RISC-V, where memory stays as well.
LEMMA ServesClearR ==
  \A n, o : ServesR(n, o) => Clears("rv", n, o)
BY DEF ServesR, MovesR, Good, Clears, Tends, Ready

\* So does a core in the same place.
LEMMA SameClearsR ==
  \A n, o : SameR(n, o.m) => Clears("rv", n, o)
BY DEF SameR, Good, Clears, Tends, Ready, Unforced

\* The same of Xtensa, where memory may change.
LEMMA ServesTendX ==
  \A n, o : ServesX(n, o) /\ FitX(o.m) => Tends("xt", n, o) /\ (o.m.mem = n.mem => Clears("xt", n, o))
BY DEF ServesX, Good, Clears, Tends, Ready

\* A core in the same place is as it was.
LEMMA SameClearsX ==
  \A n, o : SameX(n, o.m) => Clears("xt", n, o)
BY DEF SameX, Good, Clears, Tends, Ready, Unforced

\* Two operations that leave the core as it was.
LEMMA ClearsTrans ==
  \A a, n, b, o : Clears(a, n, b) /\ b.ok /\ Clears(a, b.m, o) => Clears(a, n, o)
BY DEF Clears, Tends

\* To do nothing leaves it so, too.
LEMMA ClearsItself ==
  \A a, n, o : Good(a, n) /\ o.m = n => Clears(a, n, o)
BY DEF Clears, Tends

(* Cortex-M: what only fails, or is only switched, and what is written.     *)
LEMMA SpentClearsCM ==
  \A n, o : GoodCM(n) /\ o.m \in {n, Spent(n), Spent(Spent(n))} => Clears("cm", n, o)
<1>1. \A n : GoodCM(n) => GoodCM(Spent(n)) /\ Spent(n).mem = n.mem /\ Spent(n).halted = n.halted /\ Spent(n).why = n.why
  BY GoodHoldCM, HoldCMRefl DEF GoodCM, Spent
<1> QED BY <1>1 DEF Clears, Tends, Good, Ready, Unforced

\* To switch the breakpoint unit leaves the core as it was.
LEMMA SwitchedClearsCM ==
  \A n, o : GoodCM(n) /\ SwitchedCM(n, o.m) => Clears("cm", n, o)
<1> SUFFICES ASSUME NEW n, NEW o, GoodCM(n), SwitchedCM(n, o.m) PROVE Clears("cm", n, o)
  OBVIOUS
<1>1. o.m.mem = n.mem /\ o.m.halted = n.halted /\ o.m.why = n.why
  BY DEF SwitchedCM, Changed, GoodCM, FitCM, FieldsCM, CoreFields
<1> QED BY <1>1 DEF SwitchedCM, Clears, Tends, Good, Ready, Unforced

\* So does writing memory, but for memory.
LEMMA WritesTendCM ==
  \A n, o, S : GoodCM(n) /\ Changed(n, o.m, {"faults", "mem"}) /\ Writes(n.mem, o, S) => Tends("cm", n, o)
<1> SUFFICES ASSUME NEW n, NEW o, NEW S, GoodCM(n), Changed(n, o.m, {"faults", "mem"}), Writes(n.mem, o, S)
             PROVE  Tends("cm", n, o)
  OBVIOUS
<1>1. DOMAIN o.m = FieldsCM /\ \A g \in FieldsCM \ {"faults", "mem"} : o.m[g] = n[g]
  BY DEF Changed, GoodCM, FitCM
<1>2. /\ o.m.halted = n.halted /\ o.m.why = n.why /\ o.m.regs = n.regs /\ o.m.epoch = n.epoch
      /\ o.m.causes = n.causes /\ o.m.bpOn = n.bpOn /\ o.m.bps = n.bps
  BY <1>1 DEF FieldsCM, CoreFields
<1>3. o.m.mem \in [Lanes -> {0, 1}]
  BY DEF Writes
<1>4. GoodCM(o.m)
  BY <1>1, <1>2, <1>3 DEF GoodCM, FitCM
<1> QED BY <1>2, <1>4 DEF Tends, Good, Unforced

\* So does reading registers, memory and breakpoints.
LEMMA CMReads ==
  \A n : GoodCM(n) =>
    /\ \A r : \A o \in CM!ReadReg(n, r) : Clears("cm", n, o)
    /\ \A l : \A o \in CM!ReadLane(n, l) : Clears("cm", n, o)
    /\ \A o \in CM!ReadWords(n) : Clears("cm", n, o)
    /\ \A o \in CM!HwBreakpoints(n) : Clears("cm", n, o)
<1> SUFFICES ASSUME NEW n, GoodCM(n)
             PROVE  /\ \A r : \A o \in CM!ReadReg(n, r) : Clears("cm", n, o)
                    /\ \A l : \A o \in CM!ReadLane(n, l) : Clears("cm", n, o)
                    /\ \A o \in CM!ReadWords(n) : Clears("cm", n, o)
                    /\ \A o \in CM!HwBreakpoints(n) : Clears("cm", n, o)
  OBVIOUS
<1>1. \A r : \A o \in CM!ReadReg(n, r) : Clears("cm", n, o)
  <2>1. \A r : \A o \in CM!ReadReg(n, r) : o.m \in {n, Spent(n)}
    BY CMReadReg
  <2> QED BY <2>1, SpentClearsCM
<1>2. \A l : \A o \in CM!ReadLane(n, l) : Clears("cm", n, o)
  BY CMReadMemory, SpentClearsCM
<1>3. \A o \in CM!ReadWords(n) : o.m \in {n, Spent(n), Spent(Spent(n))}
  BY AccessGives, CMSame, OutcomesGive DEF CM!ReadWords, CM!ReadWord, CM!Then
<1>4. \A o \in CM!HwBreakpoints(n) : o.m \in {n, Spent(n)}
  BY AccessGives, CMSame DEF CM!HwBreakpoints
<1> QED BY <1>1, <1>2, <1>3, <1>4, SpentClearsCM

\* So does writing a register.
LEMMA CMWriteReg ==
  \A n, r : GoodCM(n) => \A o \in CM!WriteReg(n, r) : Clears("cm", n, o)
<1> SUFFICES ASSUME NEW n, NEW r, GoodCM(n), NEW o \in CM!WriteReg(n, r) PROVE Clears("cm", n, o)
  OBVIOUS
<1> DEFINE x == Given(n, r, User(r))
<1>1. o.m \in {n, x, Spent(n), Spent(x)}
  <2>1. CM!User(r) = User(r)
    BY DEF CM!User, User
  <2>2. o \in CM!WriteRegister(n, r, User(r))
    BY <2>1 DEF CM!WriteReg
  <2> DEFINE y == [n EXCEPT !.regs[r] = User(r)]
  <2>3. IF o.ok THEN o.m = y ELSE o.m \in {n, Spent(n), Spent(y)}
    BY <2>2, CMWriteRegister
  <2>4. x = y
    BY DEF Given
  <2>. HIDE DEF x, y
  <2> QED BY <2>3, <2>4
<1>2. DOMAIN x = FieldsCM /\ \A g \in FieldsCM \ {"regs"} : x[g] = n[g]
  BY DEF GoodCM, FitCM, Given
<1>3. DOMAIN x.regs = Regs /\ x.regs["pc"] \in {n.regs["pc"], User(r)}
  BY DEF GoodCM, FitCM, FieldsCM, CoreFields, Given, Regs
<1>. HIDE DEF x
<1>4. /\ x.halted = n.halted /\ x.why = n.why /\ x.epoch = n.epoch /\ x.mem = n.mem
      /\ x.causes = n.causes /\ x.bpOn = n.bpOn /\ x.bps = n.bps
  BY <1>2 DEF FieldsCM, CoreFields
<1>5. x.regs["pc"] # Own(1 - x.epoch)["pc"]
  BY <1>3, <1>4 DEF GoodCM, Own, User, Regs
<1>6. GoodCM(x)
  BY <1>2, <1>3, <1>4, <1>5 DEF GoodCM, FitCM
<1>7. o.m \in {n, Spent(n)} => Clears("cm", n, o)
  BY SpentClearsCM
<1>8. o.m \in {x, Spent(x)} => Clears("cm", x, o)
  BY <1>6, SpentClearsCM
<1> QED BY <1>1, <1>4, <1>7, <1>8 DEF Clears, Tends, Good, Ready, Unforced

(* The core is asked for its status.                                        *)
LEMMA StatusTends ==
  ASSUME Careful
  PROVE  \A n : arch \in Five /\ Good(arch, n) => \A o \in DoStatus(n) :
           /\ Tends(arch, n, o) /\ o.m.mem = n.mem
           /\ o.ok => (o.val = Yes <=> o.m.halted)
<1> SUFFICES ASSUME Careful, NEW n, arch \in Five, Good(arch, n), NEW o \in DoStatus(n)
             PROVE  /\ Tends(arch, n, o) /\ o.m.mem = n.mem
                    /\ o.ok => (o.val = Yes <=> o.m.halted)
  OBVIOUS
<1>1. CASE arch = "cm"
  <2>1. GoodCM(n) /\ o \in CM!Status(n)
    BY <1>1 DEF Good, DoStatus
  <2>2. FitCM(n) /\ {"halted", "why"} \subseteq DOMAIN n
    BY <2>1 DEF GoodCM, FitCM, FieldsCM, CoreFields
  <2>3. /\ Changed(n, o.m, SightCM) /\ Watched(n, o.m) /\ o.m.halted \in BOOLEAN
        /\ o.ok => (o.val = Yes <=> o.m.halted)
    BY <2>1, <2>2, CMStatus DEF FitCM
  <2>4. HoldCM(n, o.m)
    BY <2>3 DEF HoldCM, Changed, Watched
  <2>5. Clears("cm", n, o)
    BY <2>1, <2>3, <2>4, HoldClearsCM
  <2> QED BY <1>1, <2>1, <2>2, <2>3, <2>4, <2>5 DEF Clears, Tends, Good
<1>2. CASE arch = "v7a"
  <2>1. GoodA(n) /\ o \in V7a!Status(n)
    BY <1>2 DEF Good, DoStatus
  <2>2. HoldsA(n, o.m) /\ Watched(n, o.m) /\ (o.ok => (o.val = Yes <=> o.m.halted)) /\ FitA(n)
    BY <2>1, V7Status DEF GoodA
  <2>3. GoodA(o.m) /\ o.m.mem = n.mem
    BY <2>1, <2>2, HoldsAKeeps, MovesKeeps DEF FitA
  <2>4. n.halted \/ "request" \notin n.causes
    BY <2>2 DEF FitA, Fit
  <2>5. (n.halted => o.m.halted) /\ (Unforced(n) => Unforced(o.m))
    BY <2>2, <2>4 DEF Watched, Unforced
  <2> QED BY <1>2, <2>1, <2>2, <2>3, <2>4, <2>5 DEF Tends, Good, Unforced
<1>3. CASE arch = "v8a"
  <2>1. GoodA(n) /\ o \in V8a!Status(n)
    BY <1>3 DEF Good, DoStatus
  <2>2. HoldsA(n, o.m) /\ Watched(n, o.m) /\ (o.ok => (o.val = Yes <=> o.m.halted)) /\ FitA(n)
    BY <2>1, V8Status DEF GoodA
  <2>3. GoodA(o.m) /\ o.m.mem = n.mem
    BY <2>1, <2>2, HoldsAKeeps, MovesKeeps DEF FitA
  <2>4. n.halted \/ "request" \notin n.causes
    BY <2>2 DEF FitA, Fit
  <2>5. (n.halted => o.m.halted) /\ (Unforced(n) => Unforced(o.m))
    BY <2>2, <2>4 DEF Watched, Unforced
  <2> QED BY <1>3, <2>1, <2>2, <2>3, <2>4, <2>5 DEF Tends, Good, Unforced
<1>4. CASE arch = "rv"
  <2>1. FitR(n) /\ o \in RV!Status(n)
    BY <1>4 DEF Good, DoStatus
  <2>2. HoldsR(n, o.m) /\ Watched(n, o.m) /\ (o.ok => (o.val = Yes <=> o.m.halted))
    BY <2>1, RVStatus DEF LooksR
  <2>3. FitR(o.m) /\ o.m.mem = n.mem /\ (n.halted => o.m.halted)
    BY <2>2 DEF HoldsR
  <2>4. Unforced(n) => Unforced(o.m)
    BY <2>1, <2>2, UnforcedR
  <2> QED BY <1>4, <2>1, <2>2, <2>3, <2>4 DEF Tends, Good
<1>5. CASE arch = "xt"
  <2>1. FitX(n) /\ o \in Xt!Status(n)
    BY <1>5 DEF Good, DoStatus
  <2>2. ServesX(n, o) /\ FitX(o.m) /\ o.m.mem = n.mem /\ (o.ok => (o.val = Yes <=> o.m.halted))
    BY <2>1, XtStatus
  <2>3. Tends("xt", n, o)
    BY <2>2, ServesTendX
  <2> QED BY <1>5, <2>1, <2>2, <2>3 DEF Tends
<1> QED BY <1>1, <1>2, <1>3, <1>4, <1>5 DEF Five

(* The core is asked whether it is halted.                                  *)
LEMMA CoreHaltedTends ==
  ASSUME Careful
  PROVE  \A n : arch \in Five /\ Good(arch, n) => \A o \in DoCoreHalted(n) :
           /\ Tends(arch, n, o) /\ o.m.mem = n.mem
           /\ o.ok => (o.val = Yes <=> o.m.halted)
<1> SUFFICES ASSUME Careful, NEW n, arch \in Five, Good(arch, n), NEW o \in DoCoreHalted(n)
             PROVE  /\ Tends(arch, n, o) /\ o.m.mem = n.mem
                    /\ o.ok => (o.val = Yes <=> o.m.halted)
  OBVIOUS
<1>1. CASE arch = "cm"
  <2>1. GoodCM(n) /\ o \in CM!Status(n)
    BY <1>1 DEF Good, DoCoreHalted
  <2>2. FitCM(n) /\ {"halted", "why"} \subseteq DOMAIN n
    BY <2>1 DEF GoodCM, FitCM, FieldsCM, CoreFields
  <2>3. /\ Changed(n, o.m, SightCM) /\ Watched(n, o.m) /\ o.m.halted \in BOOLEAN
        /\ o.ok => (o.val = Yes <=> o.m.halted)
    BY <2>1, <2>2, CMStatus DEF FitCM
  <2>4. HoldCM(n, o.m)
    BY <2>3 DEF HoldCM, Changed, Watched
  <2>5. Clears("cm", n, o)
    BY <2>1, <2>3, <2>4, HoldClearsCM
  <2> QED BY <1>1, <2>1, <2>2, <2>3, <2>4, <2>5 DEF Clears, Tends, Good
<1>2. CASE arch = "v7a"
  <2>1. GoodA(n) /\ o \in Poll(n)
    BY <1>2 DEF Good, DoCoreHalted
  <2>2. HoldsA(n, o.m) /\ Watched(n, o.m) /\ (o.ok => (o.val = Yes <=> o.m.halted)) /\ FitA(n)
    BY <2>1, PollHoldsA DEF GoodA
  <2>3. GoodA(o.m) /\ o.m.mem = n.mem
    BY <2>1, <2>2, HoldsAKeeps, MovesKeeps DEF FitA
  <2>4. n.halted \/ "request" \notin n.causes
    BY <2>2 DEF FitA, Fit
  <2>5. (n.halted => o.m.halted) /\ (Unforced(n) => Unforced(o.m))
    BY <2>2, <2>4 DEF Watched, Unforced
  <2> QED BY <1>2, <2>1, <2>2, <2>3, <2>4, <2>5 DEF Tends, Good, Unforced
<1>3. CASE arch = "v8a"
  <2>1. GoodA(n) /\ o \in Poll(n)
    BY <1>3 DEF Good, DoCoreHalted
  <2>2. HoldsA(n, o.m) /\ Watched(n, o.m) /\ (o.ok => (o.val = Yes <=> o.m.halted)) /\ FitA(n)
    BY <2>1, PollHoldsA DEF GoodA
  <2>3. GoodA(o.m) /\ o.m.mem = n.mem
    BY <2>1, <2>2, HoldsAKeeps, MovesKeeps DEF FitA
  <2>4. n.halted \/ "request" \notin n.causes
    BY <2>2 DEF FitA, Fit
  <2>5. (n.halted => o.m.halted) /\ (Unforced(n) => Unforced(o.m))
    BY <2>2, <2>4 DEF Watched, Unforced
  <2> QED BY <1>3, <2>1, <2>2, <2>3, <2>4, <2>5 DEF Tends, Good, Unforced
<1>4. CASE arch = "rv"
  <2>1. FitR(n) /\ o \in Poll(n)
    BY <1>4 DEF Good, DoCoreHalted
  <2>2. HoldsR(n, o.m) /\ Watched(n, o.m) /\ (o.ok => (o.val = Yes <=> o.m.halted))
    BY <2>1, PollR
  <2>3. FitR(o.m) /\ o.m.mem = n.mem /\ (n.halted => o.m.halted)
    BY <2>2 DEF HoldsR
  <2>4. Unforced(n) => Unforced(o.m)
    BY <2>1, <2>2, UnforcedR
  <2> QED BY <1>4, <2>1, <2>2, <2>3, <2>4 DEF Tends, Good
<1>5. CASE arch = "xt"
  <2>1. FitX(n) /\ o \in Xt!IsHalted(n)
    BY <1>5 DEF Good, DoCoreHalted
  <2>2. LooksX(n, o.m) /\ FitX(o.m) /\ (o.ok => (o.val = Yes <=> o.m.halted))
    BY <2>1, XtIsHalted
  <2>3. o.m.mem = n.mem /\ (n.halted => o.m.halted) /\ Watched(n, o.m)
    BY <2>2 DEF LooksX, HoldsX
  <2>4. Unforced(n) => Unforced(o.m)
    BY <2>1, <2>3 DEF Watched, Unforced, FitX
  <2> QED BY <1>5, <2>1, <2>2, <2>3, <2>4 DEF Tends, Good
<1> QED BY <1>1, <1>2, <1>3, <1>4, <1>5 DEF Five

(* The core is halted, and the driver knows it.                             *)
LEMMA HaltMakesReady ==
  ASSUME Careful
  PROVE  \A n : arch \in Five /\ Good(arch, n) => \A o \in DoHalt(n) :
           /\ Good(arch, o.m) /\ o.m.mem = n.mem /\ (n.halted => o.m.halted)
           /\ o.ok => Ready(arch, o.m)
<1> SUFFICES ASSUME Careful, NEW n, arch \in Five, Good(arch, n), NEW o \in DoHalt(n)
             PROVE  /\ Good(arch, o.m) /\ o.m.mem = n.mem /\ (n.halted => o.m.halted)
                    /\ o.ok => Ready(arch, o.m)
  OBVIOUS
<1>1. CASE arch = "cm"
  <2>1. GoodCM(n) /\ o \in CM!Halt(n)
    BY <1>1 DEF Good, DoHalt
  <2>2. FitCM(n) /\ {"halted", "why"} \subseteq DOMAIN n
    BY <2>1 DEF GoodCM, FitCM, FieldsCM, CoreFields
  <2>3. /\ Changed(n, o.m, SightCM) /\ o.m.halted \in BOOLEAN
        /\ n.halted => o.m.halted /\ o.m.why = n.why
        /\ o.ok => o.m.halted
    BY <2>1, <2>2, CMHalt DEF FitCM
  <2>4. HoldCM(n, o.m)
    BY <2>3 DEF HoldCM, Changed
  <2>5. GoodCM(o.m) /\ o.m.mem = n.mem
    BY <2>1, <2>4, GoodHoldCM, HoldClearsCM
  <2> QED BY <1>1, <2>1, <2>2, <2>3, <2>4, <2>5 DEF Good, Ready
<1>2. CASE arch = "v7a"
  <2>1. GoodA(n) /\ o \in V7a!Halt(n)
    BY <1>2 DEF Good, DoHalt
  <2>2. FitA(n)
    BY <2>1 DEF GoodA
  <2>3. GoodA(o.m) /\ HoldsA(n, o.m) /\ (o.ok => o.m.halted /\ o.m.seen = "halted")
    BY <2>1, V7Halt
  <2>4. o.m.mem = n.mem /\ (n.halted => o.m.halted)
    BY <2>2, <2>3, HoldsAKeeps, MovesKeeps DEF FitA
  <2> QED BY <1>2, <2>1, <2>2, <2>3, <2>4 DEF Good, Ready, Unforced
<1>3. CASE arch = "v8a"
  <2>1. GoodA(n) /\ o \in V8a!Halt(n)
    BY <1>3 DEF Good, DoHalt
  <2>2. FitA(n)
    BY <2>1 DEF GoodA
  <2>3. GoodA(o.m) /\ HoldsA(n, o.m) /\ (o.ok => o.m.halted /\ o.m.seen = "halted")
    BY <2>1, V8Halt
  <2>4. o.m.mem = n.mem /\ (n.halted => o.m.halted)
    BY <2>2, <2>3, HoldsAKeeps, MovesKeeps DEF FitA
  <2> QED BY <1>3, <2>1, <2>2, <2>3, <2>4 DEF Good, Ready, Unforced
<1>4. CASE arch = "rv"
  <2>1. FitR(n) /\ o \in RV!Halt(n)
    BY <1>4 DEF Good, DoHalt
  <2>2. HoldsR(n, o.m) /\ FitR(o.m) /\ (o.ok => o.m.halted)
    BY <2>1, RVHalt
  <2> QED BY <1>4, <2>1, <2>2 DEF Good, Ready, HoldsR
<1>5. CASE arch = "xt"
  <2>1. FitX(n) /\ o \in Xt!Halt(n)
    BY <1>5 DEF Good, DoHalt
  <2>2. HoldsX(n, o.m) /\ FitX(o.m) /\ (o.ok => o.m.halted)
    BY <2>1, XtHalt
  <2> QED BY <1>5, <2>1, <2>2 DEF Good, Ready, HoldsX
<1> QED BY <1>1, <1>2, <1>3, <1>4, <1>5 DEF Five

(* A core that the driver takes to be halted is resumed.                    *)
LEMMA RunReleases ==
  ASSUME Careful
  PROVE  \A n : arch \in Five /\ Good(arch, n) /\ (arch = "cm" => n.halted) => \A o \in DoRun(n) :
           /\ Good(arch, o.m) /\ o.m.mem = n.mem
           /\ o.ok /\ (Ready(arch, n) \/ Unforced(n)) => Unforced(o.m)
<1> SUFFICES ASSUME Careful, NEW n, arch \in Five, Good(arch, n), (arch = "cm" => n.halted), NEW o \in DoRun(n)
             PROVE  /\ Good(arch, o.m) /\ o.m.mem = n.mem
                    /\ o.ok /\ (Ready(arch, n) \/ Unforced(n)) => Unforced(o.m)
  OBVIOUS
<1>1. CASE arch = "cm"
  <2>1. GoodCM(n) /\ o \in CM!Run(n)
    BY <1>1 DEF Good, DoRun
  <2>2. RunCM(n, o.m) /\ (o.ok => ~o.m.halted)
    BY <1>1, <2>1, CMRun
  <2> QED BY <1>1, <2>1, <2>2 DEF Good, Unforced, RunCM
<1>2. CASE arch = "v7a"
  <2>1. GoodA(n) /\ o \in V7a!Run(n)
    BY <1>2 DEF Good, DoRun
  <2>2. FitA(n)
    BY <2>1 DEF GoodA
  <2>3. /\ GoodA(o.m) /\ Moves(n, o.m)
        /\ o.ok => (n.seen = "running" /\ o.m = n) \/ Unforced(o.m)
    BY <2>1, V7Run
  <2>4. o.m.mem = n.mem
    BY <2>2, <2>3, MovesKeeps DEF FitA
  <2> QED BY <1>2, <2>1, <2>2, <2>3, <2>4 DEF Good, Ready, Unforced
<1>3. CASE arch = "v8a"
  <2>1. GoodA(n) /\ o \in V8a!Run(n)
    BY <1>3 DEF Good, DoRun
  <2>2. FitA(n)
    BY <2>1 DEF GoodA
  <2>3. /\ GoodA(o.m) /\ Moves(n, o.m)
        /\ o.ok => (n.seen = "running" /\ o.m = n) \/ Unforced(o.m)
    BY <2>1, V8Run
  <2>4. o.m.mem = n.mem
    BY <2>2, <2>3, MovesKeeps DEF FitA
  <2> QED BY <1>3, <2>1, <2>2, <2>3, <2>4 DEF Good, Ready, Unforced
<1>4. CASE arch = "rv"
  <2>1. FitR(n) /\ o \in RV!Run(n)
    BY <1>4 DEF Good, DoRun
  <2>2. MovesR(n, o.m) /\ FitR(o.m) /\ (o.ok => Unforced(o.m))
    BY <2>1, RVRun
  <2> QED BY <1>4, <2>1, <2>2 DEF Good, Unforced, MovesR
<1>5. CASE arch = "xt"
  <2>1. FitX(n) /\ o \in Xt!Run(n)
    BY <1>5 DEF Good, DoRun
  <2>2. MovesX(n, o.m) /\ FitX(o.m) /\ (o.ok => ~o.m.halted)
    BY <2>1, XtRun
  <2> QED BY <1>5, <2>1, <2>2 DEF Good, Unforced, MovesX
<1> QED BY <1>1, <1>2, <1>3, <1>4, <1>5 DEF Five

(* A core is stepped, and is halted again.                                  *)
LEMMA StepHalts ==
  ASSUME Careful
  PROVE  \A n : arch \in Five /\ Good(arch, n) /\ (arch = "cm" => n.halted) => \A o \in DoStep(n) :
           /\ Good(arch, o.m) /\ o.m.mem = n.mem
           /\ o.ok => o.m.halted
<1> SUFFICES ASSUME Careful, NEW n, arch \in Five, Good(arch, n), (arch = "cm" => n.halted), NEW o \in DoStep(n)
             PROVE  /\ Good(arch, o.m) /\ o.m.mem = n.mem
                    /\ o.ok => o.m.halted
  OBVIOUS
<1>1. CASE arch = "cm"
  <2>1. GoodCM(n) /\ o \in CM!Step(n)
    BY <1>1 DEF Good, DoStep
  <2>2. StepCM(n, o.m) /\ (o.ok => o.m.halted)
    BY <1>1, <2>1, CMStep
  <2>3. o.m.mem = n.mem
    BY <2>1, <2>2, StepCMKeeps
  <2> QED BY <1>1, <2>1, <2>2, <2>3 DEF Good, StepCM
<1>2. CASE arch = "v7a"
  <2>1. GoodA(n) /\ o \in V7a!Step(n)
    BY <1>2 DEF Good, DoStep
  <2>2. StepA(n, o.m) /\ (o.ok => o.m.halted)
    BY <2>1, V7Step
  <2> QED BY <1>2, <2>1, <2>2 DEF Good, StepA
<1>3. CASE arch = "v8a"
  <2>1. GoodA(n) /\ o \in V8a!Step(n)
    BY <1>3 DEF Good, DoStep
  <2>2. GoodA(o.m) /\ o.m.mem = n.mem /\ (o.ok => o.m.halted)
    BY <2>1, V8Step
  <2> QED BY <1>3, <2>1, <2>2 DEF Good
<1>4. CASE arch = "rv"
  <2>1. FitR(n) /\ o \in RV!Step(n)
    BY <1>4 DEF Good, DoStep
  <2>2. LandsR(n, o)
    BY <2>1, RVStep
  <2> QED BY <1>4, <2>1, <2>2 DEF Good, LandsR, MovesR
<1>5. CASE arch = "xt"
  <2>1. FitX(n) /\ o \in Xt!Step(n)
    BY <1>5 DEF Good, DoStep
  <2>2. LandsX(n, o)
    BY <2>1, XtStep
  <2> QED BY <1>5, <2>1, <2>2 DEF Good, LandsX, MovesX
<1> QED BY <1>1, <1>2, <1>3, <1>4, <1>5 DEF Five

(* A core is reset, and is halted then.                                     *)
LEMMA ResetHalts ==
  ASSUME Careful
  PROVE  \A n : arch \in Five /\ Good(arch, n) => \A o \in DoResetAndHalt(n) :
           /\ Good(arch, o.m) /\ o.m.mem = n.mem
           /\ o.ok => o.m.halted
<1> SUFFICES ASSUME Careful, NEW n, arch \in Five, Good(arch, n), NEW o \in DoResetAndHalt(n)
             PROVE  /\ Good(arch, o.m) /\ o.m.mem = n.mem
                    /\ o.ok => o.m.halted
  OBVIOUS
<1>1. CASE arch = "cm"
  <2>1. GoodCM(n) /\ o \in CM!ResetAndHalt(n)
    BY <1>1 DEF Good, DoResetAndHalt
  <2>2. AnewCM(n, o.m) /\ (o.ok => o.m.halted)
    BY <2>1, CMResetAndHalt
  <2>3. o.m.mem = n.mem
    BY <2>1, <2>2 DEF AnewCM, Changed, GoodCM, FitCM, FieldsCM, CoreFields, SightCM, Look
  <2> QED BY <1>1, <2>1, <2>2, <2>3 DEF Good, AnewCM
<1>2. CASE arch = "v7a"
  <2>1. GoodA(n) /\ o \in V7a!ResetAndHalt(n)
    BY <1>2 DEF Good, DoResetAndHalt
  <2>2. FitA(n)
    BY <2>1 DEF GoodA
  <2>3. GoodA(o.m) /\ Moves(n, o.m) /\ (o.ok => o.m.halted)
    BY <2>1, V7ResetAndHalt
  <2>4. o.m.mem = n.mem
    BY <2>2, <2>3, MovesKeeps DEF FitA
  <2> QED BY <1>2, <2>1, <2>2, <2>3, <2>4 DEF Good, Ready, Unforced
<1>3. CASE arch = "v8a"
  <2>1. GoodA(n) /\ o \in V8a!ResetAndHalt(n)
    BY <1>3 DEF Good, DoResetAndHalt
  <2>2. FitA(n)
    BY <2>1 DEF GoodA
  <2>3. GoodA(o.m) /\ Moves(n, o.m) /\ (o.ok => o.m.halted)
    BY <2>1, V8ResetAndHalt
  <2>4. o.m.mem = n.mem
    BY <2>2, <2>3, MovesKeeps DEF FitA
  <2> QED BY <1>3, <2>1, <2>2, <2>3, <2>4 DEF Good, Ready, Unforced
<1>4. CASE arch = "rv"
  <2>1. FitR(n) /\ o \in RV!ResetAndHalt(n)
    BY <1>4 DEF Good, DoResetAndHalt
  <2>2. LandsR(n, o)
    BY <2>1, RVResetAndHalt
  <2> QED BY <1>4, <2>1, <2>2 DEF Good, LandsR, MovesR
<1>5. CASE arch = "xt"
  <2>1. FitX(n) /\ o \in Xt!ResetAndHalt(n)
    BY <1>5 DEF Good, DoResetAndHalt
  <2>2. LandsX(n, o)
    BY <2>1, XtResetAndHalt
  <2> QED BY <1>5, <2>1, <2>2 DEF Good, LandsX, MovesX
<1> QED BY <1>1, <1>2, <1>3, <1>4, <1>5 DEF Five

(* A core is reset.                                                         *)
LEMMA ResetKeepsGood ==
  ASSUME Careful
  PROVE  \A n : arch \in Five /\ Good(arch, n) => \A o \in DoReset(n) :
           Good(arch, o.m) /\ o.m.mem = n.mem
<1> SUFFICES ASSUME Careful, NEW n, arch \in Five, Good(arch, n), NEW o \in DoReset(n)
             PROVE  Good(arch, o.m) /\ o.m.mem = n.mem
  OBVIOUS
<1>1. CASE arch = "cm"
  <2>1. GoodCM(n) /\ o \in CM!Reset(n)
    BY <1>1 DEF Good, DoReset
  <2>2. AnewCM(n, o.m)
    BY <2>1, CMResetSystem, AnewReflCM DEF CM!Reset
  <2>3. o.m.mem = n.mem
    BY <2>1, <2>2 DEF AnewCM, Changed, GoodCM, FitCM, FieldsCM, CoreFields, SightCM, Look
  <2> QED BY <1>1, <2>1, <2>2, <2>3 DEF Good, AnewCM
<1>2. CASE arch = "v7a"
  <2>1. GoodA(n) /\ o \in V7a!Reset(n)
    BY <1>2 DEF Good, DoReset
  <2>2. FitA(n)
    BY <2>1 DEF GoodA
  <2>3. GoodA(o.m) /\ Moves(n, o.m)
    BY <2>1, V7Reset
  <2>4. o.m.mem = n.mem
    BY <2>2, <2>3, MovesKeeps DEF FitA
  <2> QED BY <1>2, <2>1, <2>2, <2>3, <2>4 DEF Good, Ready, Unforced
<1>3. CASE arch = "v8a"
  <2>1. GoodA(n) /\ o \in V8a!Reset(n)
    BY <1>3 DEF Good, DoReset
  <2>2. FitA(n)
    BY <2>1 DEF GoodA
  <2>3. GoodA(o.m) /\ Moves(n, o.m)
    BY <2>1, V8Reset
  <2>4. o.m.mem = n.mem
    BY <2>2, <2>3, MovesKeeps DEF FitA
  <2> QED BY <1>3, <2>1, <2>2, <2>3, <2>4 DEF Good, Ready, Unforced
<1>4. CASE arch = "rv"
  <2>1. FitR(n) /\ o \in RV!Reset(n)
    BY <1>4 DEF Good, DoReset
  <2>2. MovesR(n, o.m) /\ FitR(o.m)
    BY <2>1, RVReset
  <2> QED BY <1>4, <2>1, <2>2 DEF Good, MovesR
<1>5. CASE arch = "xt"
  <2>1. FitX(n) /\ o \in Xt!Reset(n)
    BY <1>5 DEF Good, DoReset
  <2>2. MovesX(n, o.m) /\ FitX(o.m)
    BY <2>1, XtResetAndHalt
  <2> QED BY <1>5, <2>1, <2>2 DEF Good, MovesX
<1> QED BY <1>1, <1>2, <1>3, <1>4, <1>5 DEF Five

(* The driver lets go of the core.                                          *)
LEMMA LeaveLeaves ==
  ASSUME Careful
  PROVE  \A n : arch \in Five /\ Good(arch, n) => \A o \in DoLeave(n) :
           /\ Good(arch, o.m) /\ o.m.mem = n.mem
           /\ o.ok /\ Unforced(n) => Unforced(o.m)
<1> SUFFICES ASSUME Careful, NEW n, arch \in Five, Good(arch, n), NEW o \in DoLeave(n)
             PROVE  /\ Good(arch, o.m) /\ o.m.mem = n.mem
                    /\ o.ok /\ Unforced(n) => Unforced(o.m)
  OBVIOUS
<1>1. CASE arch = "cm"
  <2>1. GoodCM(n) /\ o \in CM!Leave(n)
    BY <1>1 DEF Good, DoLeave
  <2>2. GoodCM(o.m) /\ o.m.mem = n.mem /\ (o.ok => ~o.m.halted)
    BY <2>1, CMLeave
  <2> QED BY <1>1, <2>1, <2>2 DEF Good, Unforced
<1>2. CASE arch = "v7a"
  <2>1. GoodA(n) /\ o \in V7a!Leave(n)
    BY <1>2 DEF Good, DoLeave
  <2>2. QuietA(n, o.m)
    BY <2>1, V7Leave
  <2>3. Clears(arch, n, o)
    BY <1>2, <2>1, <2>2, QuietClearsA
  <2> QED BY <1>2, <2>1, <2>2, <2>3 DEF Good, Clears, Tends
<1>3. CASE arch = "v8a"
  <2>1. GoodA(n) /\ o \in V8a!Leave(n)
    BY <1>3 DEF Good, DoLeave
  <2>2. QuietA(n, o.m)
    BY <2>1, V8Leave
  <2>3. Clears(arch, n, o)
    BY <1>3, <2>1, <2>2, QuietClearsA
  <2> QED BY <1>3, <2>1, <2>2, <2>3 DEF Good, Clears, Tends
<1>4. CASE arch = "rv"
  <2>1. FitR(n) /\ o \in RV!Leave(n)
    BY <1>4 DEF Good, DoLeave
  <2>2. SameR(n, o.m)
    BY <2>1, RVLeave
  <2> QED BY <1>4, <2>1, <2>2 DEF Good, SameR, Unforced
<1>5. CASE arch = "xt"
  <2>1. FitX(n) /\ o \in Xt!Leave(n)
    BY <1>5 DEF Good, DoLeave
  <2>2. MovesX(n, o.m) /\ FitX(o.m) /\ (o.ok => ~o.m.halted)
    BY <2>1, XtLeave
  <2> QED BY <1>5, <2>1, <2>2 DEF Good, Unforced, MovesX
<1> QED BY <1>1, <1>2, <1>3, <1>4, <1>5 DEF Five

(* A register is read.                                                      *)
LEMMA ReadRegClears ==
  ASSUME Careful
  PROVE  \A n, r : arch \in Five /\ Good(arch, n) /\ r \in Regs => \A o \in DoReadReg(n, r) :
           Clears(arch, n, o)
<1> SUFFICES ASSUME Careful, NEW n, NEW r, arch \in Five, Good(arch, n), r \in Regs, NEW o \in DoReadReg(n, r)
             PROVE  Clears(arch, n, o)
  OBVIOUS
<1>1. CASE arch = "cm"
  <2>1. GoodCM(n) /\ o \in CM!ReadReg(n, r)
    BY <1>1 DEF Good, DoReadReg
  <2>2. Clears("cm", n, o)
    BY <2>1, CMReads
  <2> QED BY <1>1, <2>1, <2>2
<1>2. CASE arch = "v7a"
  <2>1. GoodA(n) /\ o \in V7a!ReadReg(n, r)
    BY <1>2 DEF Good, DoReadReg
  <2>2. QuietA(n, o.m)
    BY <2>1, V7ReadReg DEF GoodA
  <2>3. Clears(arch, n, o)
    BY <1>2, <2>1, <2>2, QuietClearsA
  <2> QED BY <1>2, <2>1, <2>2, <2>3
<1>3. CASE arch = "v8a"
  <2>1. GoodA(n) /\ o \in V8a!ReadReg(n, r)
    BY <1>3 DEF Good, DoReadReg
  <2>2. QuietA(n, o.m)
    BY <2>1, V8ReadReg DEF GoodA
  <2>3. Clears(arch, n, o)
    BY <1>3, <2>1, <2>2, QuietClearsA
  <2> QED BY <1>3, <2>1, <2>2, <2>3
<1>4. CASE arch = "rv"
  <2>1. FitR(n) /\ o \in RV!ReadReg(n, r)
    BY <1>4 DEF Good, DoReadReg
  <2>2. SameR(n, o.m)
    BY <2>1, RVRegisters
  <2>3. Clears("rv", n, o)
    BY <2>2, SameClearsR
  <2> QED BY <1>4, <2>1, <2>2, <2>3
<1>5. CASE arch = "xt"
  <2>1. FitX(n) /\ o \in Xt!ReadReg(n, r)
    BY <1>5 DEF Good, DoReadReg
  <2>2. SameX(n, o.m)
    BY <2>1, XtRegisters
  <2>3. Clears("xt", n, o)
    BY <2>2, SameClearsX
  <2> QED BY <1>5, <2>1, <2>2, <2>3
<1> QED BY <1>1, <1>2, <1>3, <1>4, <1>5 DEF Five

(* A register of a halted core is written.                                  *)
LEMMA WriteRegClears ==
  ASSUME Careful
  PROVE  \A n, r : arch \in Five /\ Good(arch, n) /\ n.halted => \A o \in DoWriteReg(n, r) :
           Clears(arch, n, o)
<1> SUFFICES ASSUME Careful, NEW n, NEW r, arch \in Five, Good(arch, n), n.halted, NEW o \in DoWriteReg(n, r)
             PROVE  Clears(arch, n, o)
  OBVIOUS
<1>1. CASE arch = "cm"
  <2>1. GoodCM(n) /\ o \in CM!WriteReg(n, r)
    BY <1>1 DEF Good, DoWriteReg
  <2>2. Clears("cm", n, o)
    BY <2>1, CMWriteReg
  <2> QED BY <1>1, <2>1, <2>2
<1>2. CASE arch = "v7a"
  <2>1. GoodA(n) /\ o \in V7a!WriteReg(n, r)
    BY <1>2 DEF Good, DoWriteReg
  <2>2. QuietA(n, o.m)
    BY <2>1, V7WriteReg DEF GoodA
  <2>3. Clears(arch, n, o)
    BY <1>2, <2>1, <2>2, QuietClearsA
  <2> QED BY <1>2, <2>1, <2>2, <2>3
<1>3. CASE arch = "v8a"
  <2>1. GoodA(n) /\ o \in V8a!WriteReg(n, r)
    BY <1>3 DEF Good, DoWriteReg
  <2>2. QuietA(n, o.m)
    BY <2>1, V8WriteReg DEF GoodA
  <2>3. Clears(arch, n, o)
    BY <1>3, <2>1, <2>2, QuietClearsA
  <2> QED BY <1>3, <2>1, <2>2, <2>3
<1>4. CASE arch = "rv"
  <2>1. FitR(n) /\ o \in RV!WriteReg(n, r)
    BY <1>4 DEF Good, DoWriteReg
  <2>2. SameR(n, o.m)
    BY <2>1, RVRegisters
  <2>3. Clears("rv", n, o)
    BY <2>2, SameClearsR
  <2> QED BY <1>4, <2>1, <2>2, <2>3
<1>5. CASE arch = "xt"
  <2>1. FitX(n) /\ o \in Xt!WriteReg(n, r)
    BY <1>5 DEF Good, DoWriteReg
  <2>2. SameX(n, o.m)
    BY <2>1, XtRegisters
  <2>3. Clears("xt", n, o)
    BY <2>2, SameClearsX
  <2> QED BY <1>5, <2>1, <2>2, <2>3
<1> QED BY <1>1, <1>2, <1>3, <1>4, <1>5 DEF Five

(* A lane is read.                                                          *)
LEMMA ReadLaneTends ==
  ASSUME Careful
  PROVE  \A n, l : arch \in Five /\ Good(arch, n) => \A o \in DoReadLane(n, l) :
           Tends(arch, n, o) /\ o.m.mem = n.mem
<1> SUFFICES ASSUME Careful, NEW n, NEW l, arch \in Five, Good(arch, n), NEW o \in DoReadLane(n, l)
             PROVE  Tends(arch, n, o) /\ o.m.mem = n.mem
  OBVIOUS
<1>1. CASE arch = "cm"
  <2>1. GoodCM(n) /\ o \in CM!ReadLane(n, l)
    BY <1>1 DEF Good, DoReadLane
  <2>2. Clears("cm", n, o)
    BY <2>1, CMReads
  <2> QED BY <1>1, <2>1, <2>2 DEF Clears
<1>2. CASE arch = "v7a"
  <2>1. GoodA(n) /\ o \in V7a!ReadLane(n, l)
    BY <1>2 DEF Good, DoReadLane
  <2>2. ServesA(n, o) /\ o.m.mem = n.mem
    BY <2>1, V7ReadMemory
  <2>3. Tends(arch, n, o)
    BY <1>2, <2>2, ServesTendA
  <2> QED BY <1>2, <2>1, <2>2, <2>3
<1>3. CASE arch = "v8a"
  <2>1. GoodA(n) /\ o \in V8a!ReadLane(n, l)
    BY <1>3 DEF Good, DoReadLane
  <2>2. ServesA(n, o) /\ o.m.mem = n.mem
    BY <2>1, V8ReadMemory
  <2>3. Tends(arch, n, o)
    BY <1>3, <2>2, ServesTendA
  <2> QED BY <1>3, <2>1, <2>2, <2>3
<1>4. CASE arch = "rv"
  <2>1. FitR(n) /\ o \in RV!ReadLane(n, l)
    BY <1>4 DEF Good, DoReadLane
  <2>2. SameR(n, o.m)
    BY <2>1, RVReadMemory
  <2>3. Clears("rv", n, o)
    BY <2>2, SameClearsR
  <2> QED BY <1>4, <2>1, <2>2, <2>3 DEF Clears
<1>5. CASE arch = "xt"
  <2>1. FitX(n) /\ o \in Xt!ReadLane(n, l)
    BY <1>5 DEF Good, DoReadLane
  <2>2. ServesX(n, o) /\ FitX(o.m) /\ o.m.mem = n.mem
    BY <2>1, XtReadLane
  <2>3. Tends("xt", n, o)
    BY <2>2, ServesTendX
  <2> QED BY <1>5, <2>1, <2>2, <2>3
<1> QED BY <1>1, <1>2, <1>3, <1>4, <1>5 DEF Five

(* The memory is read.                                                      *)
LEMMA ReadWordsTends ==
  ASSUME Careful
  PROVE  \A n : arch \in Five /\ Good(arch, n) => \A o \in DoReadWords(n) :
           Tends(arch, n, o) /\ o.m.mem = n.mem
<1> SUFFICES ASSUME Careful, NEW n, arch \in Five, Good(arch, n), NEW o \in DoReadWords(n)
             PROVE  Tends(arch, n, o) /\ o.m.mem = n.mem
  OBVIOUS
<1>1. CASE arch = "cm"
  <2>1. GoodCM(n) /\ o \in CM!ReadWords(n)
    BY <1>1 DEF Good, DoReadWords
  <2>2. Clears("cm", n, o)
    BY <2>1, CMReads
  <2> QED BY <1>1, <2>1, <2>2 DEF Clears
<1>2. CASE arch = "v7a"
  <2>1. GoodA(n) /\ o \in V7a!ReadWords(n)
    BY <1>2 DEF Good, DoReadWords
  <2>2. ServesA(n, o) /\ o.m.mem = n.mem
    BY <2>1, V7ReadMemory
  <2>3. Tends(arch, n, o)
    BY <1>2, <2>2, ServesTendA
  <2> QED BY <1>2, <2>1, <2>2, <2>3
<1>3. CASE arch = "v8a"
  <2>1. GoodA(n) /\ o \in V8a!ReadWords(n)
    BY <1>3 DEF Good, DoReadWords
  <2>2. ServesA(n, o) /\ o.m.mem = n.mem
    BY <2>1, V8ReadMemory
  <2>3. Tends(arch, n, o)
    BY <1>3, <2>2, ServesTendA
  <2> QED BY <1>3, <2>1, <2>2, <2>3
<1>4. CASE arch = "rv"
  <2>1. FitR(n) /\ o \in RV!ReadWords(n)
    BY <1>4 DEF Good, DoReadWords
  <2>2. SameR(n, o.m)
    BY <2>1, RVReadMemory
  <2>3. Clears("rv", n, o)
    BY <2>2, SameClearsR
  <2> QED BY <1>4, <2>1, <2>2, <2>3 DEF Clears
<1>5. CASE arch = "xt"
  <2>1. FitX(n) /\ o \in Xt!ReadWords(n)
    BY <1>5 DEF Good, DoReadWords
  <2>2. ServesX(n, o) /\ FitX(o.m) /\ o.m.mem = n.mem
    BY <2>1, XtReadWords
  <2>3. Tends("xt", n, o)
    BY <2>2, ServesTendX
  <2> QED BY <1>5, <2>1, <2>2, <2>3
<1> QED BY <1>1, <1>2, <1>3, <1>4, <1>5 DEF Five

(* A lane is written.                                                       *)
LEMMA WriteLaneTends ==
  ASSUME Careful
  PROVE  \A n, l : arch \in Five /\ Good(arch, n) /\ l \in Lanes => \A o \in DoWriteLane(n, l) :
           Tends(arch, n, o) /\ Writes(n.mem, o, {l})
<1> SUFFICES ASSUME Careful, NEW n, NEW l, arch \in Five, Good(arch, n), l \in Lanes, NEW o \in DoWriteLane(n, l)
             PROVE  Tends(arch, n, o) /\ Writes(n.mem, o, {l})
  OBVIOUS
<1>1. CASE arch = "cm"
  <2>1. GoodCM(n) /\ o \in CM!WriteLane(n, l)
    BY <1>1 DEF Good, DoWriteLane
  <2>2. Writes(n.mem, o, {l}) /\ Changed(n, o.m, {"faults", "mem"})
    BY <2>1, CMWriteMemory
  <2>3. Tends("cm", n, o)
    BY <2>1, <2>2, WritesTendCM
  <2> QED BY <1>1, <2>1, <2>2, <2>3
<1>2. CASE arch = "v7a"
  <2>1. GoodA(n) /\ o \in V7a!WriteLane(n, l)
    BY <1>2 DEF Good, DoWriteLane
  <2>2. ServesA(n, o) /\ Writes(n.mem, o, {l})
    BY <2>1, V7WriteMemory
  <2>3. Tends(arch, n, o)
    BY <1>2, <2>2, ServesTendA
  <2> QED BY <1>2, <2>1, <2>2, <2>3
<1>3. CASE arch = "v8a"
  <2>1. GoodA(n) /\ o \in V8a!WriteLane(n, l)
    BY <1>3 DEF Good, DoWriteLane
  <2>2. ServesA(n, o) /\ Writes(n.mem, o, {l})
    BY <2>1, V8WriteMemory
  <2>3. Tends(arch, n, o)
    BY <1>3, <2>2, ServesTendA
  <2> QED BY <1>3, <2>1, <2>2, <2>3
<1>4. CASE arch = "rv"
  <2>1. FitR(n) /\ o \in RV!WriteLane(n, l)
    BY <1>4 DEF Good, DoWriteLane
  <2>2. StoresR(n, o.m) /\ Writes(n.mem, o, {l})
    BY <2>1, RVWriteMemory
  <2> QED BY <1>4, <2>1, <2>2 DEF StoresR, Tends, Good, Unforced
<1>5. CASE arch = "xt"
  <2>1. FitX(n) /\ o \in Xt!WriteLane(n, l)
    BY <1>5 DEF Good, DoWriteLane
  <2>2. ServesX(n, o) /\ FitX(o.m) /\ Writes(n.mem, o, {l})
    BY <2>1, XtWriteLane
  <2>3. Tends("xt", n, o)
    BY <2>2, ServesTendX
  <2> QED BY <1>5, <2>1, <2>2, <2>3
<1> QED BY <1>1, <1>2, <1>3, <1>4, <1>5 DEF Five

(* The memory is written.                                                   *)
LEMMA WriteWordsTends ==
  ASSUME Careful
  PROVE  \A n : arch \in Five /\ Good(arch, n) => \A o \in DoWriteWords(n) :
           Tends(arch, n, o) /\ Writes(n.mem, o, Lanes)
<1> SUFFICES ASSUME Careful, NEW n, arch \in Five, Good(arch, n), NEW o \in DoWriteWords(n)
             PROVE  Tends(arch, n, o) /\ Writes(n.mem, o, Lanes)
  OBVIOUS
<1>1. CASE arch = "cm"
  <2>1. GoodCM(n) /\ o \in CM!WriteWords(n)
    BY <1>1 DEF Good, DoWriteWords
  <2>2. Writes(n.mem, o, Lanes) /\ Changed(n, o.m, {"faults", "mem"})
    BY <2>1, CMWriteMemory
  <2>3. Tends("cm", n, o)
    BY <2>1, <2>2, WritesTendCM
  <2> QED BY <1>1, <2>1, <2>2, <2>3
<1>2. CASE arch = "v7a"
  <2>1. GoodA(n) /\ o \in V7a!WriteWords(n)
    BY <1>2 DEF Good, DoWriteWords
  <2>2. ServesA(n, o) /\ Writes(n.mem, o, Lanes)
    BY <2>1, V7WriteMemory
  <2>3. Tends(arch, n, o)
    BY <1>2, <2>2, ServesTendA
  <2> QED BY <1>2, <2>1, <2>2, <2>3
<1>3. CASE arch = "v8a"
  <2>1. GoodA(n) /\ o \in V8a!WriteWords(n)
    BY <1>3 DEF Good, DoWriteWords
  <2>2. ServesA(n, o) /\ Writes(n.mem, o, Lanes)
    BY <2>1, V8WriteMemory
  <2>3. Tends(arch, n, o)
    BY <1>3, <2>2, ServesTendA
  <2> QED BY <1>3, <2>1, <2>2, <2>3
<1>4. CASE arch = "rv"
  <2>1. FitR(n) /\ o \in RV!WriteWords(n)
    BY <1>4 DEF Good, DoWriteWords
  <2>2. StoresR(n, o.m) /\ Writes(n.mem, o, Lanes)
    BY <2>1, RVWriteMemory
  <2> QED BY <1>4, <2>1, <2>2 DEF StoresR, Tends, Good, Unforced
<1>5. CASE arch = "xt"
  <2>1. FitX(n) /\ o \in Xt!WriteWords(n)
    BY <1>5 DEF Good, DoWriteWords
  <2>2. ServesX(n, o) /\ FitX(o.m) /\ Writes(n.mem, o, Lanes)
    BY <2>1, XtWriteWords
  <2>3. Tends("xt", n, o)
    BY <2>2, ServesTendX
  <2> QED BY <1>5, <2>1, <2>2, <2>3
<1> QED BY <1>1, <1>2, <1>3, <1>4, <1>5 DEF Five

(* The breakpoint units are read.                                           *)
LEMMA HwBreakpointsClears ==
  ASSUME Careful
  PROVE  \A n : arch \in Five /\ Good(arch, n) => \A o \in DoHwBreakpoints(n) :
           Clears(arch, n, o)
<1> SUFFICES ASSUME Careful, NEW n, arch \in Five, Good(arch, n), NEW o \in DoHwBreakpoints(n)
             PROVE  Clears(arch, n, o)
  OBVIOUS
<1>1. CASE arch = "cm"
  <2>1. GoodCM(n) /\ o \in CM!HwBreakpoints(n)
    BY <1>1 DEF Good, DoHwBreakpoints
  <2>2. Clears("cm", n, o)
    BY <2>1, CMReads
  <2> QED BY <1>1, <2>1, <2>2
<1>2. CASE arch = "v7a"
  <2>1. GoodA(n) /\ o \in V7a!HwBreakpoints(n)
    BY <1>2 DEF Good, DoHwBreakpoints
  <2>2. QuietA(n, o.m)
    BY <2>1, V7Breakpoints
  <2>3. Clears(arch, n, o)
    BY <1>2, <2>1, <2>2, QuietClearsA
  <2> QED BY <1>2, <2>1, <2>2, <2>3
<1>3. CASE arch = "v8a"
  <2>1. GoodA(n) /\ o \in V8a!HwBreakpoints(n)
    BY <1>3 DEF Good, DoHwBreakpoints
  <2>2. QuietA(n, o.m)
    BY <2>1, V8Breakpoints
  <2>3. Clears(arch, n, o)
    BY <1>3, <2>1, <2>2, QuietClearsA
  <2> QED BY <1>3, <2>1, <2>2, <2>3
<1>4. CASE arch = "rv"
  <2>1. FitR(n) /\ o \in RV!HwBreakpoints(n)
    BY <1>4 DEF Good, DoHwBreakpoints
  <2>2. ServesR(n, o)
    BY <2>1, RVReadsBriefly
  <2>3. Clears("rv", n, o)
    BY <2>2, ServesClearR
  <2> QED BY <1>4, <2>1, <2>2, <2>3
<1>5. CASE arch = "xt"
  <2>1. FitX(n) /\ o \in Xt!HwBreakpoints(n)
    BY <1>5 DEF Good, DoHwBreakpoints
  <2>2. SameX(n, o.m)
    BY <2>1, XtBreakpoints
  <2>3. Clears("xt", n, o)
    BY <2>2, SameClearsX
  <2> QED BY <1>5, <2>1, <2>2, <2>3
<1> QED BY <1>1, <1>2, <1>3, <1>4, <1>5 DEF Five

(* A breakpoint unit is given an address.                                   *)
LEMMA SetClears ==
  ASSUME Careful
  PROVE  \A n, u, x : arch \in Five /\ Good(arch, n) => \A o \in DoSet(n, u, x) :
           Clears(arch, n, o)
<1> SUFFICES ASSUME Careful, NEW n, NEW u, NEW x, arch \in Five, Good(arch, n), NEW o \in DoSet(n, u, x)
             PROVE  Clears(arch, n, o)
  OBVIOUS
<1>1. CASE arch = "cm"
  <2>1. GoodCM(n) /\ o \in CM!SetHwBreakpoint(n, u, x)
    BY <1>1 DEF Good, DoSet
  <2>2. UnitsSet(n, o, u, x)
    BY <2>1, CMBreakpoints
  <2>3. Clears(arch, n, o)
    BY <1>1, <2>2, UnitsClear
  <2> QED BY <1>1, <2>1, <2>2, <2>3
<1>2. CASE arch = "v7a"
  <2>1. GoodA(n) /\ o \in V7a!SetHwBreakpoint(n, u, x)
    BY <1>2 DEF Good, DoSet
  <2>2. UnitsSet(n, o, u, x)
    BY <2>1, V7Breakpoints
  <2>3. Clears(arch, n, o)
    BY <1>2, <2>2, UnitsClear
  <2> QED BY <1>2, <2>1, <2>2, <2>3
<1>3. CASE arch = "v8a"
  <2>1. GoodA(n) /\ o \in V8a!SetHwBreakpoint(n, u, x)
    BY <1>3 DEF Good, DoSet
  <2>2. UnitsSet(n, o, u, x)
    BY <2>1, V8Breakpoints
  <2>3. Clears(arch, n, o)
    BY <1>3, <2>2, UnitsClear
  <2> QED BY <1>3, <2>1, <2>2, <2>3
<1>4. CASE arch = "rv"
  <2>1. FitR(n) /\ o \in RV!SetHwBreakpoint(n, u, x)
    BY <1>4 DEF Good, DoSet
  <2>2. SameR(n, o.m)
    BY <2>1, RVSetUnit
  <2>3. Clears("rv", n, o)
    BY <2>2, SameClearsR
  <2> QED BY <1>4, <2>1, <2>2, <2>3
<1>5. CASE arch = "xt"
  <2>1. FitX(n) /\ o \in Xt!SetHwBreakpoint(n, u, x)
    BY <1>5 DEF Good, DoSet
  <2>2. SameX(n, o.m)
    BY <2>1, XtBreakpoints
  <2>3. Clears("xt", n, o)
    BY <2>2, SameClearsX
  <2> QED BY <1>5, <2>1, <2>2, <2>3
<1> QED BY <1>1, <1>2, <1>3, <1>4, <1>5 DEF Five

(* A breakpoint unit is freed.                                              *)
LEMMA ClearClears ==
  ASSUME Careful
  PROVE  \A n, u : arch \in Five /\ Good(arch, n) => \A o \in DoClear(n, u) :
           Clears(arch, n, o)
<1> SUFFICES ASSUME Careful, NEW n, NEW u, arch \in Five, Good(arch, n), NEW o \in DoClear(n, u)
             PROVE  Clears(arch, n, o)
  OBVIOUS
<1>1. CASE arch = "cm"
  <2>1. GoodCM(n) /\ o \in CM!ClearHwBreakpoint(n, u)
    BY <1>1 DEF Good, DoClear
  <2>2. UnitsSet(n, o, u, Free)
    BY <2>1, CMBreakpoints
  <2>3. Clears(arch, n, o)
    BY <1>1, <2>2, UnitsClear
  <2> QED BY <1>1, <2>1, <2>2, <2>3
<1>2. CASE arch = "v7a"
  <2>1. GoodA(n) /\ o \in V7a!ClearHwBreakpoint(n, u)
    BY <1>2 DEF Good, DoClear
  <2>2. UnitsSet(n, o, u, Free)
    BY <2>1, V7Breakpoints
  <2>3. Clears(arch, n, o)
    BY <1>2, <2>2, UnitsClear
  <2> QED BY <1>2, <2>1, <2>2, <2>3
<1>3. CASE arch = "v8a"
  <2>1. GoodA(n) /\ o \in V8a!ClearHwBreakpoint(n, u)
    BY <1>3 DEF Good, DoClear
  <2>2. UnitsSet(n, o, u, Free)
    BY <2>1, V8Breakpoints
  <2>3. Clears(arch, n, o)
    BY <1>3, <2>2, UnitsClear
  <2> QED BY <1>3, <2>1, <2>2, <2>3
<1>4. CASE arch = "rv"
  <2>1. FitR(n) /\ o \in RV!ClearHwBreakpoint(n, u)
    BY <1>4 DEF Good, DoClear
  <2>2. ServesR(n, o)
    BY <2>1, RVClear
  <2>3. Clears("rv", n, o)
    BY <2>2, ServesClearR
  <2> QED BY <1>4, <2>1, <2>2, <2>3
<1>5. CASE arch = "xt"
  <2>1. FitX(n) /\ o \in Xt!ClearHwBreakpoint(n, u)
    BY <1>5 DEF Good, DoClear
  <2>2. SameX(n, o.m)
    BY <2>1, XtBreakpoints
  <2>3. Clears("xt", n, o)
    BY <2>2, SameClearsX
  <2> QED BY <1>5, <2>1, <2>2, <2>3
<1> QED BY <1>1, <1>2, <1>3, <1>4, <1>5 DEF Five

(* Breakpoints are enabled.                                                 *)
LEMMA EnableClears ==
  ASSUME Careful
  PROVE  \A n : arch \in Five /\ Good(arch, n) => \A o \in DoEnable(n) :
           Clears(arch, n, o)
<1> SUFFICES ASSUME Careful, NEW n, arch \in Five, Good(arch, n), NEW o \in DoEnable(n)
             PROVE  Clears(arch, n, o)
  OBVIOUS
<1>1. CASE arch = "cm"
  <2>1. GoodCM(n) /\ o \in CM!EnableBreakpoints(n, TRUE)
    BY <1>1 DEF Good, DoEnable
  <2>2. SwitchedCM(n, o.m)
    BY <2>1, CMEnableOn
  <2>3. Clears("cm", n, o)
    BY <2>1, <2>2, SwitchedClearsCM
  <2> QED BY <1>1, <2>1, <2>2, <2>3
<1>2. CASE arch = "v7a"
  <2>1. GoodA(n) /\ o \in V7a!EnableBreakpoints(n, TRUE)
    BY <1>2 DEF Good, DoEnable
  <2>2. o.m = n
    BY <2>1, V7Same, OutcomesGive DEF V7a!EnableBreakpoints
  <2> QED BY <1>2, <2>1, <2>2, ClearsItself
<1>3. CASE arch = "v8a"
  <2>1. GoodA(n) /\ o \in V8a!EnableBreakpoints(n, TRUE)
    BY <1>3 DEF Good, DoEnable
  <2>2. o.m = n
    BY <2>1, V8Same, OutcomesGive DEF V8a!EnableBreakpoints
  <2> QED BY <1>3, <2>1, <2>2, ClearsItself
<1>4. CASE arch = "rv"
  <2>1. FitR(n) /\ o \in RV!EnableBreakpoints(n, TRUE)
    BY <1>4 DEF Good, DoEnable
  <2>2. SameR(n, o.m)
    BY <2>1, RVEnable
  <2>3. Clears("rv", n, o)
    BY <2>2, SameClearsR
  <2> QED BY <1>4, <2>1, <2>2, <2>3
<1>5. CASE arch = "xt"
  <2>1. FitX(n) /\ o \in Xt!EnableBreakpoints(n, TRUE)
    BY <1>5 DEF Good, DoEnable
  <2>2. SameX(n, o.m)
    BY <2>1, XtBreakpoints
  <2>3. Clears("xt", n, o)
    BY <2>2, SameClearsX
  <2> QED BY <1>5, <2>1, <2>2, <2>3
<1> QED BY <1>1, <1>2, <1>3, <1>4, <1>5 DEF Five

(* Handlers that clear go on to others that do.                             *)
LEMMA SetBreakpointClears ==
  ASSUME Careful
  PROVE  \A n, x : arch \in Five /\ Good(arch, n) => \A o \in SetHwBreakpoint(n, x) : Clears(arch, n, o)
<1> SUFFICES ASSUME Careful, NEW n, NEW x, arch \in Five, Good(arch, n)
             PROVE  \A o \in SetHwBreakpoint(n, x) : Clears(arch, n, o)
  OBVIOUS
<1> DEFINE first == IF IsEnabled(n) THEN {Ok(n)} ELSE DoEnable(n)
           Last(c) == LET free == HolderOf(Listed(c.m), Free)
                      IN IF free = {} THEN {Err(c.m)} ELSE DoSet(c.m, First(free), x)
           Sets(b) == LET holders == HolderOf(Listed(b.m), x)
                      IN IF holders # {} THEN DoSet(b.m, First(holders), x)
                         ELSE Then(DoHwBreakpoints(b.m), Last)
           Reads(a) == Then(DoHwBreakpoints(a.m), Sets)
<1>1. SetHwBreakpoint(n, x) = Then(first, Reads)
  BY DEF SetHwBreakpoint
<1>2. \A a \in first : Clears(arch, n, a)
  BY EnableClears, ClearsItself, OutcomesGive
<1>3. \A c : Clears(arch, n, c) /\ c.ok => \A o \in Last(c) : Clears(arch, n, o)
  <2>1. \A c : Clears(arch, n, c) /\ c.ok => \A o \in {Err(c.m)} : Clears(arch, n, o)
    BY ClearsTrans, ClearsItself, OutcomesGive DEF Clears, Tends
  <2>2. \A c, u : Clears(arch, n, c) /\ c.ok => \A o \in DoSet(c.m, u, x) : Clears(arch, n, o)
    <3>1. \A c : Clears(arch, n, c) => Good(arch, c.m)
      BY DEF Clears, Tends
    <3> QED BY <3>1, SetClears, ClearsTrans
  <2> QED BY <2>1, <2>2
<1>4. \A b : Clears(arch, n, b) /\ b.ok => \A c \in DoHwBreakpoints(b.m) : Clears(arch, n, c)
  <2>1. \A c : Clears(arch, n, c) => Good(arch, c.m)
    BY DEF Clears, Tends
  <2> QED BY <2>1, HwBreakpointsClears, ClearsTrans
<1>. HIDE DEF first, Last
<1>5. \A b : Clears(arch, n, b) /\ b.ok => \A o \in Then(DoHwBreakpoints(b.m), Last) : Clears(arch, n, o)
  BY <1>3, <1>4 DEF Then
<1>6. \A b : Clears(arch, n, b) /\ b.ok => \A o \in Sets(b) : Clears(arch, n, o)
  <2>1. \A c, u : Clears(arch, n, c) /\ c.ok => \A o \in DoSet(c.m, u, x) : Clears(arch, n, o)
    <3>1. \A c : Clears(arch, n, c) => Good(arch, c.m)
      BY DEF Clears, Tends
    <3> QED BY <3>1, SetClears, ClearsTrans
  <2> QED BY <1>5, <2>1
<1>. HIDE DEF Sets
<1>7. \A a : Clears(arch, n, a) /\ a.ok => \A o \in Reads(a) : Clears(arch, n, o)
  BY <1>4, <1>6 DEF Then
<1>. HIDE DEF Reads
<1> QED BY <1>1, <1>2, <1>7 DEF Then

\* To clear the breakpoint at an address leaves the core as it was.
LEMMA ClearBreakpointClears ==
  ASSUME Careful
  PROVE  \A n, x : arch \in Five /\ Good(arch, n) => \A o \in ClearHwBreakpoint(n, x) : Clears(arch, n, o)
<1> SUFFICES ASSUME Careful, NEW n, NEW x, arch \in Five, Good(arch, n)
             PROVE  \A o \in ClearHwBreakpoint(n, x) : Clears(arch, n, o)
  OBVIOUS
<1> DEFINE Last(a) == LET holders == HolderOf(Listed(a.m), x)
                      IN IF holders = {} THEN {Err(a.m)} ELSE DoClear(a.m, First(holders))
<1>1. ClearHwBreakpoint(n, x) = Then(DoHwBreakpoints(n), Last)
  BY DEF ClearHwBreakpoint
<1>2. \A c : Clears(arch, n, c) /\ c.ok => \A o \in Last(c) : Clears(arch, n, o)
  <2>1. \A c : Clears(arch, n, c) /\ c.ok => \A o \in {Err(c.m)} : Clears(arch, n, o)
    BY ClearsTrans, ClearsItself, OutcomesGive DEF Clears, Tends
  <2>2. \A c, u : Clears(arch, n, c) /\ c.ok => \A o \in DoClear(c.m, u) : Clears(arch, n, o)
    <3>1. \A c : Clears(arch, n, c) => Good(arch, c.m)
      BY DEF Clears, Tends
    <3> QED BY <3>1, ClearClears, ClearsTrans
  <2> QED BY <2>1, <2>2
<1>3. \A a \in DoHwBreakpoints(n) : Clears(arch, n, a)
  BY HwBreakpointsClears
<1>. HIDE DEF Last
<1> QED BY <1>1, <1>2, <1>3 DEF Then

(* The units are walked one by one. *)
LEMMA ClearEachWalk ==
  \A n, list : \E w :
    /\ ClearEach(n, list) = w[NumUnits] /\ w[0] = {Ok(n)}
    /\ \A u \in 1 .. NumUnits : \A o \in w[u] :
         \E a \in w[u - 1] : (~a.ok /\ o = a) \/ (a.ok /\ o \in ClearListed(a.m, list[u]))
<1> SUFFICES ASSUME NEW n, NEW list
             PROVE  \E w : /\ ClearEach(n, list) = w[NumUnits] /\ w[0] = {Ok(n)}
                           /\ \A u \in 1 .. NumUnits : \A o \in w[u] :
                                \E a \in w[u - 1] : (~a.ok /\ o = a) \/ (a.ok /\ o \in ClearListed(a.m, list[u]))
  OBVIOUS
<1> DEFINE On(S, u) == Then(S, LAMBDA o : ClearListed(o.m, list[u]))
           first == {Ok(n)}
           Is(w, k) == w = [i \in 0 .. k |-> IF i = 0 THEN first ELSE On(w[i - 1], i)]
           Ends == {k \in Nat : \E w : Is(w, k)}
           last == ClearEach(n, list)
<1>0. NumUnits \in Nat
  BY NumUnitsAssumption
<1>1. last = (CHOOSE w : Is(w, NumUnits))[NumUnits]
  BY DEF ClearEach, EachUnit
<1>2. \A S, u : \A o \in On(S, u) :
        \E a \in S : (~a.ok /\ o = a) \/ (a.ok /\ o \in ClearListed(a.m, list[u]))
  BY DEF Then
<1>. HIDE DEF On, first, last
<1>3. 0 \in Ends
  <2>1. Is([i \in 0 .. 0 |-> first], 0)
    OBVIOUS
  <2> QED BY <2>1
<1>4. ASSUME NEW k \in Nat, k \in Ends PROVE k + 1 \in Ends
  <2>1. PICK w : Is(w, k)
    BY <1>4
  <2> DEFINE v == [i \in 0 .. k + 1 |-> IF i = k + 1 THEN On(w[k], k + 1) ELSE w[i]]
  <2>2. \A i \in 0 .. k : w[i] = IF i = 0 THEN first ELSE On(w[i - 1], i)
    BY <2>1
  <2>3. ASSUME NEW i \in 0 .. k + 1
        PROVE  v[i] = IF i = 0 THEN first ELSE On(v[i - 1], i)
    <3>1. CASE i = k + 1
      <4>1. i # 0 /\ i - 1 = k /\ v[i] = On(w[k], k + 1) /\ v[k] = w[k]
        BY <3>1
      <4> QED BY <3>1, <4>1
    <3>2. CASE i # k + 1
      <4>1. i \in 0 .. k /\ v[i] = w[i] /\ (i # 0 => v[i - 1] = w[i - 1])
        BY <3>2
      <4> HIDE DEF v
      <4> QED BY <2>2, <4>1
    <3> QED BY <3>1, <3>2
  <2>4. Is(v, k + 1)
    BY <2>3
  <2>5. \E u : Is(u, k + 1)
    <3> HIDE DEF v, Is
    <3> QED BY <2>4
  <2> QED BY <2>5, SMTT(20)
<1>5. NumUnits \in Ends
  <2>1. \A u \in 1 .. NumUnits : u - 1 \in Ends => u \in Ends
    <3> SUFFICES ASSUME NEW u \in 1 .. NumUnits, u - 1 \in Ends PROVE u \in Ends
      OBVIOUS
    <3>1. u - 1 \in Nat /\ u - 1 + 1 = u
      BY <1>0
    <3>. HIDE DEF Ends
    <3> QED BY <1>4, <3>1
  <2>2. NumUnits \in 0 .. NumUnits
    BY <1>0
  <2>. HIDE DEF Ends
  <2> QED BY <1>3, <2>1, <2>2, UnitByUnit
<1> DEFINE w == CHOOSE w : Is(w, NumUnits)
<1>6. Is(w, NumUnits)
  <2>1. \E x : Is(x, NumUnits)
    BY <1>5
  <2>. HIDE DEF Is
  <2> QED BY <2>1, Zenon
<1>7. last = w[NumUnits]
  BY <1>1
<1>. HIDE DEF w
<1>8. \A i \in 0 .. NumUnits : w[i] = IF i = 0 THEN first ELSE On(w[i - 1], i)
  BY <1>6
<1>9. w[0] = first /\ \A u \in 1 .. NumUnits : w[u] = On(w[u - 1], u)
  BY <1>0, <1>8
<1>10. \A u \in 1 .. NumUnits : \A o \in w[u] :
         \E a \in w[u - 1] : (~a.ok /\ o = a) \/ (a.ok /\ o \in ClearListed(a.m, list[u]))
  BY <1>2, <1>9
<1> QED BY <1>7, <1>9, <1>10 DEF last, first

\* So does clearing those of a list.
LEMMA ClearEachClears ==
  ASSUME Careful
  PROVE  \A n, list : arch \in Five /\ Good(arch, n) => \A o \in ClearEach(n, list) : Clears(arch, n, o)
<1> SUFFICES ASSUME Careful, NEW n, NEW list, arch \in Five, Good(arch, n)
             PROVE  \A o \in ClearEach(n, list) : Clears(arch, n, o)
  OBVIOUS
<1>1. PICK w : /\ ClearEach(n, list) = w[NumUnits] /\ w[0] = {Ok(n)}
               /\ \A u \in 1 .. NumUnits : \A o \in w[u] :
                    \E a \in w[u - 1] : (~a.ok /\ o = a) \/ (a.ok /\ o \in ClearListed(a.m, list[u]))
  BY ClearEachWalk
<1> DEFINE Done == {u \in 0 .. NumUnits : \A o \in w[u] : Clears(arch, n, o)}
<1>2. \A a : Clears(arch, n, a) /\ a.ok => \A x : \A o \in ClearListed(a.m, x) : Clears(arch, n, o)
  <2>1. \A a : Clears(arch, n, a) => Good(arch, a.m)
    BY DEF Clears, Tends
  <2>2. \A a, x : Clears(arch, n, a) => \A o \in ClearListed(a.m, x) : Clears(arch, a.m, o)
    BY <2>1, ClearBreakpointClears, ClearsItself, OutcomesGive DEF ClearListed
  <2> QED BY <2>2, ClearsTrans
<1>3. 0 \in Done
  BY <1>1, NumUnitsAssumption, ClearsItself, OutcomesGive
<1>4. \A u \in 1 .. NumUnits : u - 1 \in Done => u \in Done
  <2> SUFFICES ASSUME NEW u \in 1 .. NumUnits, u - 1 \in Done PROVE u \in Done
    OBVIOUS
  <2>1. u \in 0 .. NumUnits
    BY NumUnitsAssumption
  <2>2. \A a \in w[u - 1] : Clears(arch, n, a)
    OBVIOUS
  <2>3. ASSUME NEW o \in w[u] PROVE Clears(arch, n, o)
    <3>1. PICK a \in w[u - 1] : (~a.ok /\ o = a) \/ (a.ok /\ o \in ClearListed(a.m, list[u]))
      BY <1>1
    <3> QED BY <1>2, <2>2, <3>1
  <2> QED BY <2>1, <2>3
<1>5. NumUnits \in Done
  <2>1. NumUnits \in 0 .. NumUnits
    BY NumUnitsAssumption
  <2>. HIDE DEF Done
  <2> QED BY <1>3, <1>4, <2>1, UnitByUnit
<1> QED BY <1>1, <1>5

\* So does clearing them all.
LEMMA ClearAllClears ==
  ASSUME Careful
  PROVE  \A n : arch \in Five /\ Good(arch, n) => \A o \in ClearAllHwBreakpoints(n) : Clears(arch, n, o)
<1> SUFFICES ASSUME Careful, NEW n, arch \in Five, Good(arch, n)
             PROVE  \A o \in ClearAllHwBreakpoints(n) : Clears(arch, n, o)
  OBVIOUS
<1> DEFINE Last(a) == ClearEach(a.m, Listed(a.m))
<1>1. ClearAllHwBreakpoints(n) = Then(DoHwBreakpoints(n), Last)
  BY DEF ClearAllHwBreakpoints
<1>2. \A a : Clears(arch, n, a) /\ a.ok => \A o \in Last(a) : Clears(arch, n, o)
  <2>1. \A c : Clears(arch, n, c) => Good(arch, c.m)
    BY DEF Clears, Tends
  <2> QED BY <2>1, ClearEachClears, ClearsTrans
<1>3. \A a \in DoHwBreakpoints(n) : Clears(arch, n, a)
  BY HwBreakpointsClears
<1>. HIDE DEF Last
<1> QED BY <1>1, <1>2, <1>3 DEF Then

-----------------------------------------------------------------------------
(* The session.                                                           *)

(* Every breakpoint is cleared with the core halted, and it runs again.     *)
Visits(a, n, o) == Good(a, o.m) /\ o.m.mem = n.mem /\ (o.ok /\ Unforced(n) => Unforced(o.m))

\* A core that was halted for it runs again when its breakpoints are cleared.
LEMMA RunAgainVisits ==
  ASSUME Careful
  PROVE  \A n, c, S : arch \in Five /\ c.m.mem = n.mem /\ Ready(arch, c.m)
                      /\ (\A o \in S : Clears(arch, c.m, o)) =>
           \A p \in RunAgain(S) : Visits(arch, n, p)
<1> SUFFICES ASSUME Careful, NEW n, NEW c, NEW S, arch \in Five, c.m.mem = n.mem, Ready(arch, c.m),
                    \A o \in S : Clears(arch, c.m, o), NEW p \in RunAgain(S)
             PROVE  Visits(arch, n, p)
  OBVIOUS
<1>1. PICK o \in S : \E r \in DoRun(o.m) : p = [m |-> r.m, ok |-> r.ok /\ o.ok, val |-> r.val]
  BY DEF RunAgain
<1>0. PICK r \in DoRun(o.m) : p = [m |-> r.m, ok |-> r.ok /\ o.ok, val |-> r.val]
  BY <1>1
<1>2. Good(arch, o.m) /\ Ready(arch, o.m) /\ o.m.mem = n.mem
  BY DEF Clears, Tends
<1>3. o.m.halted
  BY <1>2 DEF Ready
<1>4. /\ Good(arch, r.m) /\ r.m.mem = o.m.mem
      /\ r.ok => Unforced(r.m)
  BY <1>2, <1>3, RunReleases
<1>5. p.m = r.m /\ (p.ok <=> r.ok /\ o.ok)
  BY <1>0
<1> QED BY <1>2, <1>4, <1>5 DEF Visits

\* The session clears every breakpoint of a core, and the core runs again.
LEMMA SessionClearAllVisits ==
  ASSUME Careful
  PROVE  \A n : arch \in Five /\ Good(arch, n) => \A o \in SessionClearAll(n) : Visits(arch, n, o)
<1> SUFFICES ASSUME Careful, NEW n, arch \in Five, Good(arch, n)
             PROVE  \A o \in SessionClearAll(n) : Visits(arch, n, o)
  OBVIOUS
<1> DEFINE Known(a) == Good(arch, a.m) /\ a.m.mem = n.mem /\ (a.ok /\ Unforced(n) => Unforced(a.m))
           Last(c) == RunAgain(ClearAllHwBreakpoints(c.m))
           AfterLook(b) == IF b.val = Yes THEN ClearAllHwBreakpoints(b.m) ELSE Then(DoHalt(b.m), Last)
           AfterStatus(a) == Then(DoCoreHalted(a.m), AfterLook)
<1>1. SessionClearAll(n) = Then(DoStatus(n), AfterStatus)
  BY DEF SessionClearAll, HaltedAccess
<1>2. \A c : Good(arch, c.m) /\ c.m.mem = n.mem /\ Ready(arch, c.m) => \A o \in Last(c) : Visits(arch, n, o)
  BY ClearAllClears, RunAgainVisits
<1>3. \A b : Known(b) => \A c \in DoHalt(b.m) :
        Good(arch, c.m) /\ c.m.mem = n.mem /\ (c.ok => Ready(arch, c.m))
  BY HaltMakesReady
<1>. HIDE DEF Last
<1>4. \A b : Known(b) => \A o \in Then(DoHalt(b.m), Last) : Visits(arch, n, o)
  <2>1. \A c : Good(arch, c.m) /\ c.m.mem = n.mem /\ ~c.ok => Visits(arch, n, c)
    BY DEF Visits
  <2>. HIDE DEF Known
  <2>2. \A b, c : Known(b) /\ c \in DoHalt(b.m) =>
          Good(arch, c.m) /\ c.m.mem = n.mem /\ (c.ok => Ready(arch, c.m))
    BY <1>3
  <2>3. \A b, c : Known(b) /\ c \in DoHalt(b.m) /\ c.ok => \A o \in Last(c) : Visits(arch, n, o)
    BY <1>2, <2>2
  <2>4. \A b, c : Known(b) /\ c \in DoHalt(b.m) /\ ~c.ok => Visits(arch, n, c)
    BY <2>1, <2>2
  <2> QED BY <2>3, <2>4 DEF Then
<1>5. \A b : Known(b) /\ b.ok => \A o \in ClearAllHwBreakpoints(b.m) : Visits(arch, n, o)
  BY ClearAllClears DEF Clears, Tends, Visits
<1>6. \A b : Known(b) /\ b.ok => \A o \in AfterLook(b) : Visits(arch, n, o)
  BY <1>4, <1>5
<1>7. \A b : Known(b) => Visits(arch, n, b)
  BY DEF Visits
<1>8. \A a : Known(a) /\ a.ok => \A b \in DoCoreHalted(a.m) : Known(b)
  BY CoreHaltedTends DEF Tends
<1>9. \A a \in DoStatus(n) : Known(a)
  BY StatusTends DEF Tends
<1>. HIDE DEF AfterLook, Known
<1>10. \A a : Known(a) /\ a.ok => \A o \in AfterStatus(a) : Visits(arch, n, o)
  BY <1>6, <1>7, <1>8 DEF Then
<1>. HIDE DEF AfterStatus
<1> QED BY <1>1, <1>7, <1>9, <1>10 DEF Then

\* So it does when the session ends.
LEMMA LeavingVisits ==
  ASSUME Careful
  PROVE  \A n : arch \in Five /\ Good(arch, n) => \A o \in Leaving(n) : Visits(arch, n, o)
<1> SUFFICES ASSUME Careful, NEW n, arch \in Five, Good(arch, n), NEW p \in Leaving(n)
             PROVE  Visits(arch, n, p)
  OBVIOUS
<1>1. PICK o \in SessionClearAll(n) : \E r \in DoLeave(o.m) : p = [m |-> r.m, ok |-> r.ok /\ o.ok, val |-> r.val]
  BY DEF Leaving
<1>0. PICK r \in DoLeave(o.m) : p = [m |-> r.m, ok |-> r.ok /\ o.ok, val |-> r.val]
  BY <1>1
<1>2. Visits(arch, n, o)
  BY SessionClearAllVisits
<1>3. /\ Good(arch, r.m) /\ r.m.mem = o.m.mem
      /\ r.ok /\ Unforced(o.m) => Unforced(r.m)
  BY <1>2, LeaveLeaves DEF Visits
<1>4. p.m = r.m /\ (p.ok <=> r.ok /\ o.ok)
  BY <1>0
<1> QED BY <1>2, <1>3, <1>4 DEF Visits

(* An operation starts from where the last one ended.                       *)
LEMMA StartIs ==
  ASSUME arch \in Five, Good(arch, m)
  PROVE  /\ Good(arch, Start) /\ Start.mem = m.mem /\ Start.halted = m.halted /\ Start.why = m.why
         /\ Start.causes = m.causes
<1> DEFINE x == Start
<1>1. DOMAIN x = DOMAIN m /\ \A g \in DOMAIN m \ {"ran"} : x[g] = m[g]
  BY DEF Start
<1>. HIDE DEF x
<1>2. CASE arch = "cm"
  <2>1. GoodCM(m) /\ DOMAIN m = FieldsCM
    BY <1>2 DEF Good, GoodCM, FitCM
  <2>2. /\ x.halted = m.halted /\ x.why = m.why /\ x.regs = m.regs /\ x.epoch = m.epoch /\ x.mem = m.mem
        /\ x.causes = m.causes /\ x.bpOn = m.bpOn /\ x.bps = m.bps
    BY <1>1, <2>1 DEF FieldsCM, CoreFields
  <2>3. GoodCM(x)
    BY <1>1, <2>1, <2>2 DEF GoodCM, FitCM
  <2> QED BY <1>2, <2>2, <2>3 DEF Good, x
<1>3. CASE arch \in {"v7a", "v8a"}
  <2>1. GoodA(m) /\ CoreFields \subseteq DOMAIN m /\ {"seen", "cache"} \subseteq DOMAIN m
    BY <1>3 DEF Good, GoodA, FitA, Fit
  <2>2. /\ x.halted = m.halted /\ x.why = m.why /\ x.regs = m.regs /\ x.epoch = m.epoch /\ x.mem = m.mem
        /\ x.causes = m.causes /\ x.bps = m.bps /\ x.cache = m.cache
    BY <1>1, <2>1 DEF CoreFields
  <2>3. GoodA(x)
    BY <1>1, <2>1, <2>2 DEF GoodA, FitA, Fit
  <2> QED BY <1>3, <2>2, <2>3 DEF Good, x
<1>4. CASE arch = "rv"
  <2>1. FitR(m) /\ FieldsR \subseteq DOMAIN m
    BY <1>4 DEF Good, FitR
  <2>2. /\ x.halted = m.halted /\ x.why = m.why /\ x.regs = m.regs /\ x.mem = m.mem
        /\ x.causes = m.causes /\ x.buf = m.buf
    BY <1>1, <2>1 DEF FieldsR, CoreFields
  <2>3. FitR(x)
    BY <1>1, <2>1, <2>2 DEF FitR
  <2> QED BY <1>4, <2>2, <2>3 DEF Good, x
<1>5. CASE arch = "xt"
  <2>1. FitX(m) /\ FieldsX \subseteq DOMAIN m
    BY <1>5 DEF Good, FitX
  <2>2. /\ x.halted = m.halted /\ x.why = m.why /\ x.regs = m.regs /\ x.mem = m.mem
        /\ x.causes = m.causes /\ x.sh = m.sh
    BY <1>1, <2>1 DEF FieldsX, CoreFields
  <2>3. FitX(x)
    BY <1>1, <2>1, <2>2 DEF FitX
  <2> QED BY <1>5, <2>2, <2>3 DEF Good, x
<1> QED BY <1>2, <1>3, <1>4, <1>5 DEF Five

(* The program stops by itself.                                             *)
LEMMA StopsGood ==
  ASSUME NEW a \in Five, NEW n, Good(a, n), ~n.halted, NEW x \in Stops(n)
  PROVE  Good(a, x) /\ x.mem = n.mem /\ x.halted /\ x.why # "request"
<1>0. CoreFields \subseteq DOMAIN n /\ "request" \notin n.causes
  BY DEF Five, Good, GoodCM, FitCM, FieldsCM, GoodA, FitA, Fit, FitR, FieldsR, FitX, FieldsX
<1>1. x.halted /\ Watched(n, x) /\ Changed(n, x, {"halted", "why"})
  BY <1>0, StopsWatched DEF CoreFields
<1>2. DOMAIN x = DOMAIN n /\ \A g \in DOMAIN n \ {"halted", "why"} : x[g] = n[g]
  BY <1>1 DEF Changed
<1>3. x.why # "request" /\ x.halted
  BY <1>0, <1>1 DEF Watched
<1>4. /\ x.regs = n.regs /\ x.epoch = n.epoch /\ x.mem = n.mem
      /\ x.causes = n.causes /\ x.bps = n.bps
  BY <1>0, <1>2 DEF CoreFields
<1>5. x.halted \in BOOLEAN
  BY StopsWatched, <1>0 DEF Stops, Stopped, CoreFields
<1>6. CASE a = "cm"
  <2>1. GoodCM(n) /\ DOMAIN n = FieldsCM
    BY <1>6 DEF Good, GoodCM, FitCM
  <2>2. x.bpOn = n.bpOn
    BY <1>2, <2>1 DEF FieldsCM, CoreFields
  <2>3. GoodCM(x)
    BY <1>2, <1>4, <1>5, <2>1, <2>2 DEF GoodCM, FitCM
  <2> QED BY <1>3, <1>4, <1>6, <2>3 DEF Good
<1>7. CASE a \in {"v7a", "v8a"}
  <2>1. GoodA(n)
    BY <1>7 DEF Good
  <2>2. GoodA(x)
    BY <1>2, <1>3, <1>4, <1>5, <2>1 DEF GoodA, FitA, Fit
  <2> QED BY <1>3, <1>4, <1>7, <2>2 DEF Good
<1>8. CASE a = "rv"
  <2>1. FitR(n)
    BY <1>8 DEF Good
  <2>2. x.buf = n.buf
    BY <1>2, <2>1 DEF FitR, FieldsR
  <2>3. FitR(x)
    BY <1>2, <1>4, <1>5, <2>1, <2>2 DEF FitR
  <2> QED BY <1>3, <1>4, <1>8, <2>3 DEF Good
<1>9. CASE a = "xt"
  <2>1. FitX(n)
    BY <1>9 DEF Good
  <2>2. x.sh = n.sh
    BY <1>2, <2>1 DEF FitX, FieldsX
  <2>3. FitX(x)
    BY <1>2, <1>3, <1>4, <1>5, <2>1, <2>2 DEF FitX
  <2> QED BY <1>3, <1>4, <1>9, <2>3 DEF Good
<1> QED BY <1>6, <1>7, <1>8, <1>9 DEF Five

(* What every operation keeps: the driver's own record of the core is in    *)
(* order, and a core that the debugger was told is halted is.               *)
CoreInv == arch \in Arches /\ Good(arch, m) /\ HaltedIsHalted

\* What the invariant says of any of the five drivers.
LEMMA CoreInvFive == CoreInv => arch \in Five /\ Good(arch, m) /\ (told = "halted" => m.halted)
BY ArchesAssumption DEF CoreInv, Five, HaltedIsHalted

(* What a step does, of which the invariant and both properties follow.     *)
Follows == CoreInv' /\ Landed /\ NotHeld

(* An operation that writes no memory.                                      *)
LEMMA Following ==
  ASSUME CoreInv, arch' = arch, Good(arch, m'), told' = "halted" => m'.halted,
         m'.mem = m.mem, answer'.op \notin {"write lane", "write words"},
         \/ answer'.op \in {"halt", "step", "reset", "reset and halt"}
         \/ answer'.ok /\ Unforced(m) => Unforced(m')
  PROVE  Follows
<1>1. CoreInv'
  BY DEF CoreInv, HaltedIsHalted
<1>2. Asked = {}
  BY DEF Asked
<1>3. Landed
  BY <1>2 DEF Landed
<1>4. NotHeld
  BY DEF NotHeld, Unforced
<1> QED BY <1>1, <1>3, <1>4 DEF Follows

\* A write of the lanes that were asked for follows.
LEMMA FollowingWrite ==
  ASSUME CoreInv, arch' = arch, Good(arch, m'), told' = "halted" => m'.halted,
         NEW S, Asked = S, NEW o, o.m = m', o.ok <=> answer'.ok, Writes(m.mem, o, S),
         answer'.ok /\ Unforced(m) => Unforced(m')
  PROVE  Follows
<1>1. CoreInv'
  BY DEF CoreInv, HaltedIsHalted
<1>2. Landed
  BY DEF Landed, Writes
<1>3. NotHeld
  BY DEF NotHeld, Unforced
<1> QED BY <1>1, <1>2, <1>3 DEF Follows

\* To reach the core leaves it and the driver in order.
LEMMA StartFollows ==
  ASSUME CoreInv
  PROVE  /\ arch \in Five /\ Good(arch, Start) /\ Start.mem = m.mem /\ Start.halted = m.halted
         /\ told = "halted" => Start.halted
         /\ Unforced(m) <=> Unforced(Start)
<1>1. arch \in Five /\ Good(arch, m) /\ (told = "halted" => m.halted)
  BY CoreInvFive
<1> QED BY <1>1, StartIs DEF Unforced

(* Halt                                                                     *)
LEMMA HaltFollows == Careful /\ CoreInv /\ Halt => Follows
<1> SUFFICES ASSUME Careful, CoreInv, Halt PROVE Follows
  OBVIOUS
<1>1. /\ arch \in Five /\ Good(arch, Start) /\ Start.mem = m.mem /\ Start.halted = m.halted
      /\ told = "halted" => Start.halted
      /\ Unforced(m) <=> Unforced(Start)
  BY StartFollows
<1>2. PICK o \in DoHalt(Start) :
        /\ m' = o.m /\ arch' = arch
        /\ told' = IF o.ok THEN "halted" ELSE "unknown"
        /\ answer' = [op |-> "halt", arg |-> Free, at |-> 0, ok |-> o.ok, val |-> o.val]
  BY DEF Operation, OperationAt, Halt
<1>3. answer'.op = "halt" /\ answer'.at = 0 /\ (answer'.ok <=> o.ok)
  BY <1>2
<1>4. Good(arch, o.m) /\ o.m.mem = m.mem /\ (o.ok => o.m.halted)
  BY <1>1, <1>2, HaltMakesReady DEF Ready
<1>5. told' = "halted" => m'.halted
  BY <1>1, <1>2, <1>4
<1> QED BY <1>1, <1>2, <1>3, <1>4, <1>5, Following

(* Status                                                                   *)
LEMMA StatusFollows == Careful /\ CoreInv /\ Status => Follows
<1> SUFFICES ASSUME Careful, CoreInv, Status PROVE Follows
  OBVIOUS
<1>1. /\ arch \in Five /\ Good(arch, Start) /\ Start.mem = m.mem /\ Start.halted = m.halted
      /\ told = "halted" => Start.halted
      /\ Unforced(m) <=> Unforced(Start)
  BY StartFollows
<1>2. PICK o \in DoStatus(Start) :
        /\ m' = o.m /\ arch' = arch
        /\ told' = IF o.ok THEN (IF o.val = Yes THEN "halted" ELSE "running") ELSE "unknown"
        /\ answer' = [op |-> "status", arg |-> Free, at |-> 0, ok |-> o.ok, val |-> o.val]
  BY DEF Operation, OperationAt, Status, StatusTold
<1>3. answer'.op = "status" /\ answer'.at = 0 /\ (answer'.ok <=> o.ok)
  BY <1>2
<1>4. Good(arch, o.m) /\ o.m.mem = m.mem /\ (Start.halted => o.m.halted) /\ (o.ok /\ Unforced(Start) => Unforced(o.m)) /\ (o.ok => (o.val = Yes <=> o.m.halted))
  BY <1>1, <1>2, StatusTends DEF Tends
<1>5. told' = "halted" => m'.halted
  BY <1>1, <1>2, <1>4
<1> QED BY <1>1, <1>2, <1>3, <1>4, <1>5, Following

(* Run                                                                      *)
LEMMA RunFollows == Careful /\ CoreInv /\ Run => Follows
<1> SUFFICES ASSUME Careful, CoreInv, Run PROVE Follows
  OBVIOUS
<1>1. /\ arch \in Five /\ Good(arch, Start) /\ Start.mem = m.mem /\ Start.halted = m.halted
      /\ told = "halted" => Start.halted
      /\ Unforced(m) <=> Unforced(Start)
  BY StartFollows
<1>2. PICK o \in DoRun(Start) :
        /\ m' = o.m /\ arch' = arch
        /\ told' = IF o.ok THEN "running" ELSE "unknown"
        /\ answer' = [op |-> "run", arg |-> Free, at |-> 0, ok |-> o.ok, val |-> o.val]
  BY DEF Operation, OperationAt, Run
<1>3. answer'.op = "run" /\ answer'.at = 0 /\ (answer'.ok <=> o.ok)
  BY <1>2
<1>4. arch = "cm" => Start.halted
  BY <1>1 DEF Run, AtRest
<1>5. Good(arch, o.m) /\ o.m.mem = m.mem /\ (o.ok /\ Unforced(Start) => Unforced(o.m))
  BY <1>1, <1>2, <1>4, RunReleases
<1>6. told' = "halted" => m'.halted
  BY <1>1, <1>2, <1>5
<1> QED BY <1>1, <1>2, <1>3, <1>5, <1>6, Following, <1>4

(* Step                                                                     *)
LEMMA StepFollows == Careful /\ CoreInv /\ Step => Follows
<1> SUFFICES ASSUME Careful, CoreInv, Step PROVE Follows
  OBVIOUS
<1>1. /\ arch \in Five /\ Good(arch, Start) /\ Start.mem = m.mem /\ Start.halted = m.halted
      /\ told = "halted" => Start.halted
      /\ Unforced(m) <=> Unforced(Start)
  BY StartFollows
<1>2. PICK o \in DoStep(Start) :
        /\ m' = o.m /\ arch' = arch
        /\ told' = IF o.ok THEN "halted" ELSE "unknown"
        /\ answer' = [op |-> "step", arg |-> Free, at |-> 0, ok |-> o.ok, val |-> o.val]
  BY DEF Operation, OperationAt, Step
<1>3. answer'.op = "step" /\ answer'.at = 0 /\ (answer'.ok <=> o.ok)
  BY <1>2
<1>4. arch = "cm" => Start.halted
  BY <1>1 DEF Step, AtRest
<1>5. Good(arch, o.m) /\ o.m.mem = m.mem /\ (o.ok => o.m.halted)
  BY <1>1, <1>2, <1>4, StepHalts
<1>6. told' = "halted" => m'.halted
  BY <1>1, <1>2, <1>5
<1> QED BY <1>1, <1>2, <1>3, <1>5, <1>6, Following, <1>4

(* Reset                                                                    *)
LEMMA ResetFollows == Careful /\ CoreInv /\ Reset => Follows
<1> SUFFICES ASSUME Careful, CoreInv, Reset PROVE Follows
  OBVIOUS
<1>1. /\ arch \in Five /\ Good(arch, Start) /\ Start.mem = m.mem /\ Start.halted = m.halted
      /\ told = "halted" => Start.halted
      /\ Unforced(m) <=> Unforced(Start)
  BY StartFollows
<1>2. PICK o \in DoReset(Start) :
        /\ m' = o.m /\ arch' = arch
        /\ told' = IF o.ok THEN "running" ELSE "unknown"
        /\ answer' = [op |-> "reset", arg |-> Free, at |-> 0, ok |-> o.ok, val |-> o.val]
  BY DEF Operation, OperationAt, Reset
<1>3. answer'.op = "reset" /\ answer'.at = 0 /\ (answer'.ok <=> o.ok)
  BY <1>2
<1>4. Good(arch, o.m) /\ o.m.mem = m.mem
  BY <1>1, <1>2, ResetKeepsGood
<1>5. told' = "halted" => m'.halted
  BY <1>1, <1>2, <1>4
<1> QED BY <1>1, <1>2, <1>3, <1>4, <1>5, Following

(* Reset and halt                                                           *)
LEMMA ResetAndHaltFollows == Careful /\ CoreInv /\ ResetAndHalt => Follows
<1> SUFFICES ASSUME Careful, CoreInv, ResetAndHalt PROVE Follows
  OBVIOUS
<1>1. /\ arch \in Five /\ Good(arch, Start) /\ Start.mem = m.mem /\ Start.halted = m.halted
      /\ told = "halted" => Start.halted
      /\ Unforced(m) <=> Unforced(Start)
  BY StartFollows
<1>2. PICK o \in DoResetAndHalt(Start) :
        /\ m' = o.m /\ arch' = arch
        /\ told' = IF o.ok THEN "halted" ELSE "unknown"
        /\ answer' = [op |-> "reset and halt", arg |-> Free, at |-> 0, ok |-> o.ok, val |-> o.val]
  BY DEF Operation, OperationAt, ResetAndHalt
<1>3. answer'.op = "reset and halt" /\ answer'.at = 0 /\ (answer'.ok <=> o.ok)
  BY <1>2
<1>4. Good(arch, o.m) /\ o.m.mem = m.mem /\ (o.ok => o.m.halted)
  BY <1>1, <1>2, ResetHalts
<1>5. told' = "halted" => m'.halted
  BY <1>1, <1>2, <1>4
<1> QED BY <1>1, <1>2, <1>3, <1>4, <1>5, Following

(* Read a register                                                          *)
LEMMA ReadRegFollows == Careful /\ CoreInv /\ ReadCoreReg => Follows
<1> SUFFICES ASSUME Careful, CoreInv, ReadCoreReg PROVE Follows
  OBVIOUS
<1>1. /\ arch \in Five /\ Good(arch, Start) /\ Start.mem = m.mem /\ Start.halted = m.halted
      /\ told = "halted" => Start.halted
      /\ Unforced(m) <=> Unforced(Start)
  BY StartFollows
<1>2. PICK r \in ReadRegs[arch] : told = "halted" /\ Operation("read", r, DoReadReg(Start, r), SameAsTold)
  BY DEF ReadCoreReg
<1>3. PICK o \in DoReadReg(Start, r) :
        /\ m' = o.m /\ arch' = arch
        /\ told' = IF o.ok THEN told ELSE "unknown"
        /\ answer' = [op |-> "read", arg |-> r, at |-> 0, ok |-> o.ok, val |-> o.val]
  BY <1>2 DEF Operation, OperationAt, SameAsTold
<1>4. answer'.op = "read" /\ answer'.at = 0 /\ (answer'.ok <=> o.ok)
  BY <1>3
<1>5. r \in Regs
  BY <1>2, RegsAssumption DEF CoreInv
<1>6. Good(arch, o.m) /\ o.m.mem = m.mem /\ (Start.halted => o.m.halted) /\ (o.ok /\ Unforced(Start) => Unforced(o.m))
  BY <1>1, <1>3, <1>5, ReadRegClears DEF Clears, Tends
<1>7. told' = "halted" => m'.halted
  BY <1>1, <1>3, <1>6
<1> QED BY <1>1, <1>3, <1>4, <1>6, <1>7, Following, <1>5

(* Write a register                                                         *)
LEMMA WriteRegFollows == Careful /\ CoreInv /\ WriteCoreReg => Follows
<1> SUFFICES ASSUME Careful, CoreInv, WriteCoreReg PROVE Follows
  OBVIOUS
<1>1. /\ arch \in Five /\ Good(arch, Start) /\ Start.mem = m.mem /\ Start.halted = m.halted
      /\ told = "halted" => Start.halted
      /\ Unforced(m) <=> Unforced(Start)
  BY StartFollows
<1>2. PICK r \in WriteRegs[arch] : told = "halted" /\ Operation("write", r, DoWriteReg(Start, r), SameAsTold)
  BY DEF WriteCoreReg
<1>3. PICK o \in DoWriteReg(Start, r) :
        /\ m' = o.m /\ arch' = arch
        /\ told' = IF o.ok THEN told ELSE "unknown"
        /\ answer' = [op |-> "write", arg |-> r, at |-> 0, ok |-> o.ok, val |-> o.val]
  BY <1>2 DEF Operation, OperationAt, SameAsTold
<1>4. answer'.op = "write" /\ answer'.at = 0 /\ (answer'.ok <=> o.ok)
  BY <1>3
<1>5. Start.halted
  BY <1>1, <1>2
<1>6. Good(arch, o.m) /\ o.m.mem = m.mem /\ (Start.halted => o.m.halted) /\ (o.ok /\ Unforced(Start) => Unforced(o.m))
  BY <1>1, <1>3, <1>5, WriteRegClears DEF Clears, Tends
<1>7. told' = "halted" => m'.halted
  BY <1>1, <1>3, <1>6
<1> QED BY <1>1, <1>3, <1>4, <1>6, <1>7, Following, <1>5

(* Set a breakpoint                                                         *)
LEMMA SetFollows == Careful /\ CoreInv /\ SetBreakpoint => Follows
<1> SUFFICES ASSUME Careful, CoreInv, SetBreakpoint PROVE Follows
  OBVIOUS
<1>1. /\ arch \in Five /\ Good(arch, Start) /\ Start.mem = m.mem /\ Start.halted = m.halted
      /\ told = "halted" => Start.halted
      /\ Unforced(m) <=> Unforced(Start)
  BY StartFollows
<1>2. PICK x \in Addresses[arch] : Operation("set", x, SetHwBreakpoint(Start, x), SameAsTold)
  BY DEF SetBreakpoint
<1>3. PICK o \in SetHwBreakpoint(Start, x) :
        /\ m' = o.m /\ arch' = arch
        /\ told' = IF o.ok THEN told ELSE "unknown"
        /\ answer' = [op |-> "set", arg |-> x, at |-> 0, ok |-> o.ok, val |-> o.val]
  BY <1>2 DEF Operation, OperationAt, SameAsTold
<1>4. answer'.op = "set" /\ answer'.at = 0 /\ (answer'.ok <=> o.ok)
  BY <1>3
<1>5. Good(arch, o.m) /\ o.m.mem = m.mem /\ (Start.halted => o.m.halted) /\ (o.ok /\ Unforced(Start) => Unforced(o.m))
  BY <1>1, <1>3, SetBreakpointClears DEF Clears, Tends
<1>6. told' = "halted" => m'.halted
  BY <1>1, <1>3, <1>5
<1> QED BY <1>1, <1>3, <1>4, <1>5, <1>6, Following

(* Clear a breakpoint                                                       *)
LEMMA ClearFollows == Careful /\ CoreInv /\ ClearBreakpoint => Follows
<1> SUFFICES ASSUME Careful, CoreInv, ClearBreakpoint PROVE Follows
  OBVIOUS
<1>1. /\ arch \in Five /\ Good(arch, Start) /\ Start.mem = m.mem /\ Start.halted = m.halted
      /\ told = "halted" => Start.halted
      /\ Unforced(m) <=> Unforced(Start)
  BY StartFollows
<1>2. PICK x \in Addresses[arch] : Operation("clear", x, ClearHwBreakpoint(Start, x), SameAsTold)
  BY DEF ClearBreakpoint
<1>3. PICK o \in ClearHwBreakpoint(Start, x) :
        /\ m' = o.m /\ arch' = arch
        /\ told' = IF o.ok THEN told ELSE "unknown"
        /\ answer' = [op |-> "clear", arg |-> x, at |-> 0, ok |-> o.ok, val |-> o.val]
  BY <1>2 DEF Operation, OperationAt, SameAsTold
<1>4. answer'.op = "clear" /\ answer'.at = 0 /\ (answer'.ok <=> o.ok)
  BY <1>3
<1>5. Good(arch, o.m) /\ o.m.mem = m.mem /\ (Start.halted => o.m.halted) /\ (o.ok /\ Unforced(Start) => Unforced(o.m))
  BY <1>1, <1>3, ClearBreakpointClears DEF Clears, Tends
<1>6. told' = "halted" => m'.halted
  BY <1>1, <1>3, <1>5
<1> QED BY <1>1, <1>3, <1>4, <1>5, <1>6, Following

(* Clear all breakpoints                                                    *)
LEMMA ClearAllFollows == Careful /\ CoreInv /\ ClearBreakpoints => Follows
<1> SUFFICES ASSUME Careful, CoreInv, ClearBreakpoints PROVE Follows
  OBVIOUS
<1>1. /\ arch \in Five /\ Good(arch, Start) /\ Start.mem = m.mem /\ Start.halted = m.halted
      /\ told = "halted" => Start.halted
      /\ Unforced(m) <=> Unforced(Start)
  BY StartFollows
<1>2. PICK o \in SessionClearAll(Start) :
        /\ m' = o.m /\ arch' = arch
        /\ told' = IF o.ok THEN "unknown" ELSE "unknown"
        /\ answer' = [op |-> "clear all", arg |-> Free, at |-> 0, ok |-> o.ok, val |-> o.val]
  BY DEF Operation, OperationAt, ClearBreakpoints
<1>3. answer'.op = "clear all" /\ answer'.at = 0 /\ (answer'.ok <=> o.ok)
  BY <1>2
<1>4. Good(arch, o.m) /\ o.m.mem = m.mem /\ (o.ok /\ Unforced(Start) => Unforced(o.m))
  BY <1>1, <1>2, SessionClearAllVisits DEF Visits
<1>5. told' = "halted" => m'.halted
  BY <1>1, <1>2, <1>4
<1> QED BY <1>1, <1>2, <1>3, <1>4, <1>5, Following

(* Detach                                                                   *)
LEMMA DetachFollows == Careful /\ CoreInv /\ Detach => Follows
<1> SUFFICES ASSUME Careful, CoreInv, Detach PROVE Follows
  OBVIOUS
<1>1. /\ arch \in Five /\ Good(arch, Start) /\ Start.mem = m.mem /\ Start.halted = m.halted
      /\ told = "halted" => Start.halted
      /\ Unforced(m) <=> Unforced(Start)
  BY StartFollows
<1>2. PICK o \in Leaving(Start) :
        /\ m' = o.m /\ arch' = arch
        /\ told' = IF o.ok THEN "unknown" ELSE "unknown"
        /\ answer' = [op |-> "detach", arg |-> Free, at |-> 0, ok |-> o.ok, val |-> o.val]
  BY DEF Operation, OperationAt, Detach
<1>3. answer'.op = "detach" /\ answer'.at = 0 /\ (answer'.ok <=> o.ok)
  BY <1>2
<1>4. Good(arch, o.m) /\ o.m.mem = m.mem /\ (o.ok /\ Unforced(Start) => Unforced(o.m))
  BY <1>1, <1>2, LeavingVisits DEF Visits
<1>5. told' = "halted" => m'.halted
  BY <1>1, <1>2, <1>4
<1> QED BY <1>1, <1>2, <1>3, <1>4, <1>5, Following

(* Read a lane                                                              *)
LEMMA ReadLaneFollows ==
  ASSUME Careful, CoreInv, NEW l, OperationAt("read lane", Free, l, DoReadLane(Start, l), SameAsTold)
  PROVE  Follows
<1>1. /\ arch \in Five /\ Good(arch, Start) /\ Start.mem = m.mem /\ Start.halted = m.halted
      /\ told = "halted" => Start.halted
      /\ Unforced(m) <=> Unforced(Start)
  BY StartFollows
<1>2. PICK o \in DoReadLane(Start, l) :
        /\ m' = o.m /\ arch' = arch
        /\ told' = IF o.ok THEN told ELSE "unknown"
        /\ answer' = [op |-> "read lane", arg |-> Free, at |-> l, ok |-> o.ok, val |-> o.val]
  BY DEF OperationAt, SameAsTold
<1>3. answer'.op = "read lane" /\ answer'.at = l /\ (answer'.ok <=> o.ok)
  BY <1>2
<1>4. Good(arch, o.m) /\ o.m.mem = m.mem /\ (Start.halted => o.m.halted) /\ (o.ok /\ Unforced(Start) => Unforced(o.m))
  BY <1>1, <1>2, ReadLaneTends DEF Tends
<1>5. told' = "halted" => m'.halted
  BY <1>1, <1>2, <1>4
<1> QED BY <1>1, <1>2, <1>3, <1>4, <1>5, Following

(* Read the words                                                           *)
LEMMA ReadWordsFollows ==
  ASSUME Careful, CoreInv, OperationAt("read words", Free, 0, DoReadWords(Start), SameAsTold)
  PROVE  Follows
<1>1. /\ arch \in Five /\ Good(arch, Start) /\ Start.mem = m.mem /\ Start.halted = m.halted
      /\ told = "halted" => Start.halted
      /\ Unforced(m) <=> Unforced(Start)
  BY StartFollows
<1>2. PICK o \in DoReadWords(Start) :
        /\ m' = o.m /\ arch' = arch
        /\ told' = IF o.ok THEN told ELSE "unknown"
        /\ answer' = [op |-> "read words", arg |-> Free, at |-> 0, ok |-> o.ok, val |-> o.val]
  BY DEF OperationAt, SameAsTold
<1>3. answer'.op = "read words" /\ answer'.at = 0 /\ (answer'.ok <=> o.ok)
  BY <1>2
<1>4. Good(arch, o.m) /\ o.m.mem = m.mem /\ (Start.halted => o.m.halted) /\ (o.ok /\ Unforced(Start) => Unforced(o.m))
  BY <1>1, <1>2, ReadWordsTends DEF Tends
<1>5. told' = "halted" => m'.halted
  BY <1>1, <1>2, <1>4
<1> QED BY <1>1, <1>2, <1>3, <1>4, <1>5, Following

(* Write a lane                                                             *)
LEMMA WriteLaneFollows ==
  ASSUME Careful, CoreInv, NEW l \in Lanes, OperationAt("write lane", Free, l, DoWriteLane(Start, l), SameAsTold)
  PROVE  Follows
<1>1. /\ arch \in Five /\ Good(arch, Start) /\ Start.mem = m.mem /\ Start.halted = m.halted
      /\ told = "halted" => Start.halted
      /\ Unforced(m) <=> Unforced(Start)
  BY StartFollows
<1>2. PICK o \in DoWriteLane(Start, l) :
        /\ m' = o.m /\ arch' = arch
        /\ told' = IF o.ok THEN told ELSE "unknown"
        /\ answer' = [op |-> "write lane", arg |-> Free, at |-> l, ok |-> o.ok, val |-> o.val]
  BY DEF OperationAt, SameAsTold
<1>3. answer'.op = "write lane" /\ answer'.at = l /\ (answer'.ok <=> o.ok)
  BY <1>2
<1>4. Good(arch, o.m) /\ Writes(m.mem, o, {l}) /\ (Start.halted => o.m.halted) /\ (o.ok /\ Unforced(Start) => Unforced(o.m))
  BY <1>1, <1>2, WriteLaneTends DEF Tends
<1>5. told' = "halted" => m'.halted
  BY <1>1, <1>2, <1>4
<1>6. Asked = {l}
  BY <1>3 DEF Asked
<1> QED BY <1>1, <1>2, <1>3, <1>4, <1>5, <1>6, FollowingWrite

(* Write the words                                                          *)
LEMMA WriteWordsFollows ==
  ASSUME Careful, CoreInv, OperationAt("write words", Free, 0, DoWriteWords(Start), SameAsTold)
  PROVE  Follows
<1>1. /\ arch \in Five /\ Good(arch, Start) /\ Start.mem = m.mem /\ Start.halted = m.halted
      /\ told = "halted" => Start.halted
      /\ Unforced(m) <=> Unforced(Start)
  BY StartFollows
<1>2. PICK o \in DoWriteWords(Start) :
        /\ m' = o.m /\ arch' = arch
        /\ told' = IF o.ok THEN told ELSE "unknown"
        /\ answer' = [op |-> "write words", arg |-> Free, at |-> 0, ok |-> o.ok, val |-> o.val]
  BY DEF OperationAt, SameAsTold
<1>3. answer'.op = "write words" /\ answer'.at = 0 /\ (answer'.ok <=> o.ok)
  BY <1>2
<1>4. Good(arch, o.m) /\ Writes(m.mem, o, Lanes) /\ (Start.halted => o.m.halted) /\ (o.ok /\ Unforced(Start) => Unforced(o.m))
  BY <1>1, <1>2, WriteWordsTends DEF Tends
<1>5. told' = "halted" => m'.halted
  BY <1>1, <1>2, <1>4
<1>6. Asked = Lanes
  BY <1>3 DEF Asked
<1> QED BY <1>1, <1>2, <1>3, <1>4, <1>5, <1>6, FollowingWrite

(* The program stops by itself.                                             *)
LEMMA CoreStopsFollows == CoreInv /\ CoreStops => Follows
<1> SUFFICES ASSUME CoreInv, CoreStops PROVE Follows
  OBVIOUS
<1>1. /\ arch \in Five /\ Good(arch, Start) /\ Start.mem = m.mem /\ Start.halted = m.halted
      /\ told = "halted" => Start.halted
      /\ Unforced(m) <=> Unforced(Start)
  BY StartFollows
<1>2. ~m.halted /\ m' \in Stops(Start) /\ arch' = arch /\ told' = told /\ answer'.op = "stops"
  BY DEF CoreStops
<1>3. Good(arch, m') /\ m'.mem = Start.mem /\ m'.halted /\ m'.why # "request"
  BY <1>1, <1>2, StopsGood
<1> QED BY <1>1, <1>2, <1>3, Following DEF Unforced

(* A step of the debugger or of the program. *)
LEMMA NextFollows == Careful /\ CoreInv /\ [Next]_vars => CoreInv' /\ [Landed]_vars /\ [NotHeld]_vars
<1> SUFFICES ASSUME Careful, CoreInv, [Next]_vars PROVE CoreInv' /\ [Landed]_vars /\ [NotHeld]_vars
  OBVIOUS
<1>1. CASE UNCHANGED vars
  BY <1>1 DEF vars, CoreInv, HaltedIsHalted
<1>2. ASSUME Next PROVE Follows
  <2>1. CASE Halt
    BY <2>1, HaltFollows
  <2>2. CASE Status
    BY <2>2, StatusFollows
  <2>3. CASE Run
    BY <2>3, RunFollows
  <2>4. CASE Step
    BY <2>4, StepFollows
  <2>5. CASE Reset
    BY <2>5, ResetFollows
  <2>6. CASE ResetAndHalt
    BY <2>6, ResetAndHaltFollows
  <2>7. CASE ReadCoreReg
    BY <2>7, ReadRegFollows
  <2>8. CASE WriteCoreReg
    BY <2>8, WriteRegFollows
  <2>9. CASE ReadMemory
    BY <2>9, ReadLaneFollows, ReadWordsFollows DEF ReadMemory
  <2>10. CASE WriteMemory
    BY <2>10, WriteLaneFollows, WriteWordsFollows, LanesAssumption DEF WriteMemory
  <2>11. CASE SetBreakpoint
    BY <2>11, SetFollows
  <2>12. CASE ClearBreakpoint
    BY <2>12, ClearFollows
  <2>13. CASE ClearBreakpoints
    BY <2>13, ClearAllFollows
  <2>14. CASE Detach
    BY <2>14, DetachFollows
  <2>15. CASE CoreStops
    BY <2>15, CoreStopsFollows
  <2> QED BY <1>2, <2>1, <2>2, <2>3, <2>4, <2>5, <2>6, <2>7, <2>8, <2>9, <2>10, <2>11, <2>12, <2>13, <2>14, <2>15 DEF Next
<1> QED BY <1>1, <1>2 DEF Follows

\* A new driver is in order, and nothing was told of its core.
LEMMA InitHolds == Careful /\ Init => CoreInv
<1> SUFFICES ASSUME Careful, Init PROVE CoreInv
  OBVIOUS
<1>0. arch \in Arches /\ arch \in Five /\ told = "unknown"
  BY ArchesAssumption DEF Init, Five
<1>1. CASE arch = "cm"
  <2>1. \E o \in CM!New(NewTarget) \cup CM!New(Stopped(NewTarget)) : m = o.m
    BY <1>1 DEF Init
  <2> QED BY <1>0, <1>1, <2>1, CMNew DEF CoreInv, Good, HaltedIsHalted
<1>2. CASE arch = "v7a"
  <2>1. \E o \in V7a!New(NewTarget) \cup V7a!New(Stopped(NewTarget)) : m = o.m
    BY <1>2 DEF Init
  <2> QED BY <1>0, <1>2, <2>1, V7New DEF CoreInv, Good, HaltedIsHalted
<1>3. CASE arch = "v8a"
  <2>1. \E w \in BOOLEAN : \E o \in V8a!New(NewTarget, w) : m = o.m
    BY <1>3 DEF Init
  <2> QED BY <1>0, <1>3, <2>1, V8New DEF CoreInv, Good, HaltedIsHalted
<1>4. CASE arch = "rv"
  <2>1. \E b \in BOOLEAN : \E o \in RV!New(NewTarget, b, b) : m = o.m
    BY <1>4 DEF Init
  <2> QED BY <1>0, <1>4, <2>1, RVNew DEF CoreInv, Good, HaltedIsHalted
<1>5. CASE arch = "xt"
  <2>1. \E o \in Xt!New(NewTarget, {}) \cup Unless(TRUE, Xt!New(NewTarget, {1})) : m = o.m
    BY <1>5 DEF Init
  <2>2. \E left : \E o \in Xt!New(NewTarget, left) : m = o.m
    BY <2>1 DEF Unless
  <2> QED BY <1>0, <1>5, <2>2, XtNew DEF CoreInv, Good, HaltedIsHalted
<1> QED BY <1>0, <1>1, <1>2, <1>3, <1>4, <1>5 DEF Five

(* A core that the debugger was told is halted, is: of all five drivers,    *)
(* any number of breakpoint units and any number of failing accesses.       *)
THEOREM HaltedMeansHalted == ASSUME Careful PROVE Spec => []HaltedIsHalted
<1>1. Init => CoreInv
  BY InitHolds
<1>2. CoreInv /\ [Next]_vars => CoreInv'
  BY NextFollows
<1>3. CoreInv => HaltedIsHalted
  BY DEF CoreInv
<1> QED BY <1>1, <1>2, <1>3, PTL DEF Spec

(* A write changes the bytes it is for and no others, and nothing else      *)
(* writes to memory.                                                        *)
THEOREM WritesOnlyLand == ASSUME Careful PROVE Spec => WritesLand
<1>1. Init => CoreInv
  BY InitHolds
<1>2. CoreInv /\ [Next]_vars => CoreInv' /\ [Landed]_vars
  BY NextFollows
<1> QED BY <1>1, <1>2, PTL DEF Spec, WritesLand

(* An operation that needs the core halted for a moment and succeeds leaves *)
(* it running, unless the program stopped by itself.                        *)
THEOREM LeavesRunning == ASSUME Careful PROVE Spec => LeftRunning
<1>1. Init => CoreInv
  BY InitHolds
<1>2. CoreInv /\ [Next]_vars => CoreInv' /\ [NotHeld]_vars
  BY NextFollows
<1> QED BY <1>1, <1>2, PTL DEF Spec, LeftRunning

=============================================================================
