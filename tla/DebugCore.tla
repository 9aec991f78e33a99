------------------------------ MODULE DebugCore ------------------------------
(***************************************************************************)
(* A debugger at work on a core (probe-rs/src/core.rs and session.rs),     *)
(* over the driver for the core's architecture.  The program on the core   *)
(* may stop by itself at any time.  An operation is one step, with any of  *)
(* the outcomes that the driver may reach; it is what the debugger is told *)
(* in the end that the next one starts from.                               *)
(***************************************************************************)
EXTENDS CoreAccess

V7a == INSTANCE ArmV7a
V8a == INSTANCE ArmV8a
RV == INSTANCE RiscV
Xt == INSTANCE XtensaCore
CM == INSTANCE CortexM

CONSTANTS Arches,      \* the architectures considered
          ReadRegs,    \* the registers that are read, of each architecture,
          WriteRegs,   \* those that are written,
          Addresses,   \* and the addresses at which breakpoints are set
          LanesUsed    \* the lanes that are read and written alone

ASSUME ArchesAssumption == Arches \subseteq {"cm", "v7a", "v8a", "rv", "xt"}
ASSUME RegsAssumption ==
  \A a \in Arches : ReadRegs[a] \subseteq Regs /\ WriteRegs[a] \subseteq Regs
ASSUME LanesAssumption == LanesUsed \subseteq Lanes

VARIABLES arch,        \* the architecture of the core
          m,           \* the target and its driver, as in CoreAccess
          told,        \* what the debugger knows: "halted", "running", "unknown"
          answer,      \* the last operation and what came of it
          open         \* is the session open?

vars == <<arch, m, told, answer, open>>

Init ==
  /\ arch \in Arches
  /\ \E o \in CASE arch = "v7a" -> V7a!New(NewTarget) \cup V7a!New(Stopped(NewTarget))
                [] arch = "v8a" -> UNION {V8a!New(NewTarget, w) : w \in BOOLEAN}
                [] arch = "rv" -> UNION {RV!New(NewTarget, b, b) : b \in BOOLEAN}
                [] arch = "xt" -> Xt!New(NewTarget, {}) \cup Unless(TRUE, Xt!New(NewTarget, {1}))
                [] arch = "cm" -> CM!New(NewTarget) \cup CM!New(Stopped(NewTarget)) :
       o.ok /\ m = o.m
  /\ told = "unknown" /\ open = TRUE
  /\ answer = [op |-> "attach", arg |-> Free, at |-> 0, ok |-> TRUE, val |-> Junk]

(* The driver's operations. *)
DoHalt(n) ==
  CASE arch = "cm" -> CM!Halt(n) [] arch = "v7a" -> V7a!Halt(n)
    [] arch = "v8a" -> V8a!Halt(n)
    [] arch = "rv" -> RV!Halt(n) [] arch = "xt" -> Xt!Halt(n)
DoRun(n) ==
  CASE arch = "cm" -> CM!Run(n) [] arch = "v7a" -> V7a!Run(n)
    [] arch = "v8a" -> V8a!Run(n)
    [] arch = "rv" -> RV!Run(n) [] arch = "xt" -> Xt!Run(n)
DoStep(n) ==
  CASE arch = "cm" -> CM!Step(n) [] arch = "v7a" -> V7a!Step(n)
    [] arch = "v8a" -> V8a!Step(n)
    [] arch = "rv" -> RV!Step(n) [] arch = "xt" -> Xt!Step(n)
DoReset(n) ==
  CASE arch = "cm" -> CM!Reset(n) [] arch = "v7a" -> V7a!Reset(n)
    [] arch = "v8a" -> V8a!Reset(n)
    [] arch = "rv" -> RV!Reset(n) [] arch = "xt" -> Xt!Reset(n)
DoResetAndHalt(n) ==
  CASE arch = "cm" -> CM!ResetAndHalt(n) [] arch = "v7a" -> V7a!ResetAndHalt(n)
    [] arch = "v8a" -> V8a!ResetAndHalt(n)
    [] arch = "rv" -> RV!ResetAndHalt(n) [] arch = "xt" -> Xt!ResetAndHalt(n)
DoStatus(n) ==
  CASE arch = "cm" -> CM!Status(n) [] arch = "v7a" -> V7a!Status(n)
    [] arch = "v8a" -> V8a!Status(n)
    [] arch = "rv" -> RV!Status(n) [] arch = "xt" -> Xt!Status(n)
DoReadReg(n, r) ==
  CASE arch = "cm" -> CM!ReadReg(n, r) [] arch = "v7a" -> V7a!ReadReg(n, r)
    [] arch = "v8a" -> V8a!ReadReg(n, r)
    [] arch = "rv" -> RV!ReadReg(n, r) [] arch = "xt" -> Xt!ReadReg(n, r)
DoWriteReg(n, r) ==
  CASE arch = "cm" -> CM!WriteReg(n, r) [] arch = "v7a" -> V7a!WriteReg(n, r)
    [] arch = "v8a" -> V8a!WriteReg(n, r)
    [] arch = "rv" -> RV!WriteReg(n, r) [] arch = "xt" -> Xt!WriteReg(n, r)
DoReadLane(n, l) ==
  CASE arch = "cm" -> CM!ReadLane(n, l) [] arch = "v7a" -> V7a!ReadLane(n, l)
    [] arch = "v8a" -> V8a!ReadLane(n, l)
    [] arch = "rv" -> RV!ReadLane(n, l) [] arch = "xt" -> Xt!ReadLane(n, l)
DoReadWords(n) ==
  CASE arch = "cm" -> CM!ReadWords(n) [] arch = "v7a" -> V7a!ReadWords(n)
    [] arch = "v8a" -> V8a!ReadWords(n)
    [] arch = "rv" -> RV!ReadWords(n) [] arch = "xt" -> Xt!ReadWords(n)
DoWriteLane(n, l) ==
  CASE arch = "cm" -> CM!WriteLane(n, l) [] arch = "v7a" -> V7a!WriteLane(n, l)
    [] arch = "v8a" -> V8a!WriteLane(n, l)
    [] arch = "rv" -> RV!WriteLane(n, l) [] arch = "xt" -> Xt!WriteLane(n, l)
DoWriteWords(n) ==
  CASE arch = "cm" -> CM!WriteWords(n) [] arch = "v7a" -> V7a!WriteWords(n)
    [] arch = "v8a" -> V8a!WriteWords(n)
    [] arch = "rv" -> RV!WriteWords(n) [] arch = "xt" -> Xt!WriteWords(n)
DoHwBreakpoints(n) ==
  CASE arch = "cm" -> CM!HwBreakpoints(n) [] arch = "v7a" -> V7a!HwBreakpoints(n)
    [] arch = "v8a" -> V8a!HwBreakpoints(n)
    [] arch = "rv" -> RV!HwBreakpoints(n) [] arch = "xt" -> Xt!HwBreakpoints(n)
DoEnable(n) ==
  CASE arch = "cm" -> CM!EnableBreakpoints(n, TRUE) [] arch = "v7a" -> V7a!EnableBreakpoints(n, TRUE)
    [] arch = "v8a" -> V8a!EnableBreakpoints(n, TRUE)
    [] arch = "rv" -> RV!EnableBreakpoints(n, TRUE) [] arch = "xt" -> Xt!EnableBreakpoints(n, TRUE)
DoSet(n, u, x) ==
  CASE arch = "cm" -> CM!SetHwBreakpoint(n, u, x) [] arch = "v7a" -> V7a!SetHwBreakpoint(n, u, x)
    [] arch = "v8a" -> V8a!SetHwBreakpoint(n, u, x)
    [] arch = "rv" -> RV!SetHwBreakpoint(n, u, x) [] arch = "xt" -> Xt!SetHwBreakpoint(n, u, x)
DoClear(n, u) ==
  CASE arch = "cm" -> CM!ClearHwBreakpoint(n, u) [] arch = "v7a" -> V7a!ClearHwBreakpoint(n, u)
    [] arch = "v8a" -> V8a!ClearHwBreakpoint(n, u)
    [] arch = "rv" -> RV!ClearHwBreakpoint(n, u) [] arch = "xt" -> Xt!ClearHwBreakpoint(n, u)
DoLeave(n) ==
  CASE arch = "cm" -> CM!Leave(n) [] arch = "v7a" -> V7a!Leave(n)
    [] arch = "v8a" -> V8a!Leave(n)
    [] arch = "rv" -> RV!Leave(n) [] arch = "xt" -> Xt!Leave(n)
Listed(n) ==
  CASE arch = "cm" -> CM!Listed(n) [] arch = "v7a" -> V7a!Listed(n)
    [] arch = "v8a" -> V8a!Listed(n)
    [] arch = "rv" -> RV!Listed(n) [] arch = "xt" -> Xt!Listed(n)
DoCoreHalted(n) ==
  CASE arch = "xt" -> Xt!IsHalted(n) [] arch = "cm" -> CM!Status(n) [] OTHER -> Poll(n)
IsEnabled(n) ==
  CASE arch = "rv" -> RV!BreakpointsEnabled(n) [] arch = "xt" -> Xt!BreakpointsEnabled(n)
    [] arch = "cm" -> CM!BreakpointsEnabled(n) [] OTHER -> TRUE
-----------------------------------------------------------------------------
(* Breakpoints, by address: the unit that has it, or else the first free.   *)
HolderOf(bps, x) == {u \in Units : bps[u] = x}
First(us) == CHOOSE u \in us : \A v \in us : u <= v

SetHwBreakpoint(n, x) ==
  Then(IF IsEnabled(n) THEN {Ok(n)} ELSE DoEnable(n), LAMBDA a :
  Then(DoHwBreakpoints(a.m), LAMBDA b :
    LET holders == HolderOf(Listed(b.m), x)
    IN IF holders # {} THEN DoSet(b.m, First(holders), x)
       ELSE Then(DoHwBreakpoints(b.m), LAMBDA c :
              LET free == HolderOf(Listed(c.m), Free)
              IN IF free = {} THEN {Err(c.m)} ELSE DoSet(c.m, First(free), x))))
ClearHwBreakpoint(n, x) ==
  Then(DoHwBreakpoints(n), LAMBDA a :
    LET holders == HolderOf(Listed(a.m), x)
    IN IF holders = {} THEN {Err(a.m)} ELSE DoClear(a.m, First(holders)))

(* Every breakpoint that is listed, address by address. *)
ClearListed(n, x) == IF x = Free THEN {Ok(n)} ELSE ClearHwBreakpoint(n, x)
ClearEach(n, list) == EachUnit(n, LAMBDA k, u : ClearListed(k, list[u]))
ClearAllHwBreakpoints(n) == Then(DoHwBreakpoints(n), LAMBDA a : ClearEach(a.m, Listed(a.m)))

(* F with the core halted, which is then resumed if it ran before, whatever *)
(* F came to.                                                               *)
RunAgain(S) == UNION {{[m |-> r.m, ok |-> r.ok /\ o.ok, val |-> r.val] : r \in DoRun(o.m)} : o \in S}
HaltedAccess(n, F(_)) ==
  Then(DoStatus(n), LAMBDA a :
  Then(DoCoreHalted(a.m), LAMBDA b :
    IF b.val = Yes THEN F(b.m)
    ELSE Then(DoHalt(b.m), LAMBDA c : RunAgain(F(c.m)))))
SessionClearAll(n) == HaltedAccess(n, ClearAllHwBreakpoints)
-----------------------------------------------------------------------------
(* An operation with one of its outcomes.  What follows from a success, the *)
(* debugger is told; after a failure it has to ask.                         *)
OperationAt(op, arg, at, S, T(_)) ==
  /\ open
  /\ \E o \in S :
       /\ m' = o.m
       /\ told' = IF o.ok THEN T(o) ELSE "unknown"
       /\ answer' = [op |-> op, arg |-> arg, at |-> at, ok |-> o.ok, val |-> o.val]
  /\ UNCHANGED arch
Operation(op, arg, S, T(_)) == OperationAt(op, arg, 0, S, T)

Start == [m EXCEPT !.ran = <<>>]
SameAsTold(o) == told
StatusTold(o) == IF o.val = Yes THEN "halted" ELSE "running"

(* The debugger works with registers when it knows the core to be halted,   *)
(* on Xtensa and Cortex-M with anything but its status and memory.          *)
AtRest == told = "halted" \/ arch \notin {"xt", "cm"}

Halt == /\ Operation("halt", Free, DoHalt(Start), LAMBDA o : "halted")
        /\ UNCHANGED open
Status == /\ Operation("status", Free, DoStatus(Start), StatusTold)
          /\ UNCHANGED open
Run == /\ AtRest /\ Operation("run", Free, DoRun(Start), LAMBDA o : "running")
       /\ UNCHANGED open
Step == /\ AtRest /\ Operation("step", Free, DoStep(Start), LAMBDA o : "halted")
        /\ UNCHANGED open
Reset == /\ Operation("reset", Free, DoReset(Start), LAMBDA o : "running")
         /\ UNCHANGED open
ResetAndHalt == /\ Operation("reset and halt", Free, DoResetAndHalt(Start), LAMBDA o : "halted")
                /\ UNCHANGED open

ReadCoreReg ==
  \E r \in ReadRegs[arch] :
    /\ told = "halted" /\ Operation("read", r, DoReadReg(Start, r), SameAsTold)
    /\ UNCHANGED open
WriteCoreReg ==
  \E r \in WriteRegs[arch] :
    /\ told = "halted" /\ Operation("write", r, DoWriteReg(Start, r), SameAsTold)
    /\ UNCHANGED open

ReadMemory ==
  /\ \/ \E l \in LanesUsed : OperationAt("read lane", Free, l, DoReadLane(Start, l), SameAsTold)
     \/ OperationAt("read words", Free, 0, DoReadWords(Start), SameAsTold)
  /\ UNCHANGED open
WriteMemory ==
  /\ \/ \E l \in LanesUsed : OperationAt("write lane", Free, l, DoWriteLane(Start, l), SameAsTold)
     \/ OperationAt("write words", Free, 0, DoWriteWords(Start), SameAsTold)
  /\ UNCHANGED open

SetBreakpoint ==
  \E x \in Addresses[arch] :
    /\ AtRest /\ Operation("set", x, SetHwBreakpoint(Start, x), SameAsTold)
    /\ UNCHANGED open
ClearBreakpoint ==
  \E x \in Addresses[arch] :
    /\ AtRest /\ Operation("clear", x, ClearHwBreakpoint(Start, x), SameAsTold)
    /\ UNCHANGED open
ClearBreakpoints ==
  /\ Operation("clear all", Free, SessionClearAll(Start), LAMBDA o : "unknown")
  /\ UNCHANGED open

(* The session is dropped: what fails is only logged, and the rest follows. *)
Leaving(n) == UNION {{[m |-> r.m, ok |-> r.ok /\ o.ok, val |-> r.val] : r \in DoLeave(o.m)} : o \in SessionClearAll(n)}
Detach ==
  /\ Operation("detach", Free, Leaving(Start), LAMBDA o : "unknown")
  /\ open' = FALSE

(* The program stops by itself. *)
CoreStops ==
  /\ ~m.halted /\ m' \in Stops(Start)
  /\ answer' = [op |-> "stops", arg |-> Free, at |-> 0, ok |-> TRUE, val |-> Junk]
  /\ UNCHANGED <<arch, told, open>>

Next == \/ Halt \/ Status \/ Run \/ Step \/ Reset \/ ResetAndHalt
        \/ ReadCoreReg \/ WriteCoreReg \/ ReadMemory \/ WriteMemory
        \/ SetBreakpoint \/ ClearBreakpoint \/ ClearBreakpoints \/ Detach \/ CoreStops

Spec == Init /\ [][Next]_vars
-----------------------------------------------------------------------------
(* The registers as the debugger sees them, and those that an operation     *)
(* which fails half-way may leave overwritten.                              *)
Shown == [r \in Regs |-> IF arch \in {"v7a", "v8a"} /\ m.cache[r].in THEN m.cache[r].val ELSE m.regs[r]]
Fragile == CASE arch = "rv" -> {"s0", "s1"} [] arch = "xt" -> {"s0"} [] OTHER -> {}

Held == INSTANCE HeldCore WITH halted <- m.halted, regs <- Shown, ran <- m.ran, fragile <- Fragile

(* What the debugger sees of a core that is held does not change behind its *)
(* back, and the program goes on with what it saw: the scratch registers,   *)
(* the caches and the temporary halts of the drivers do not show.           *)
Contract == Held!HeldSpec

(* A value that is returned is the one that is there: of a register, of the *)
(* program counter where the core stopped, of memory.                       *)
Reported ==
  CASE answer'.op = "read" -> answer'.val = Shown'[answer'.arg]
    [] answer'.op \in {"halt", "step", "reset and halt"} -> answer'.val = Shown'["pc"]
    [] answer'.op = "read lane" -> answer'.val = Data(m'.mem[answer'.at])
    [] answer'.op = "read words" -> answer'.val = Data(Word(m'.mem, 0) + 4 * Word(m'.mem, 2))
    [] OTHER -> TRUE
AnswersAreTrue == [][answer'.ok => Reported]_vars

(* A write changes the bytes it is for and no others, though a word around  *)
(* them is written; one that fails may have changed some of them; and       *)
(* nothing else writes to memory.                                           *)
Asked ==
  CASE answer'.op = "write lane" -> {answer'.at}
    [] answer'.op = "write words" -> Lanes
    [] OTHER -> {}
Landed ==
  \A l \in Lanes :
    IF l \in Asked THEN m'.mem[l] = 1 \/ (~answer'.ok /\ m'.mem[l] = m.mem[l])
    ELSE m'.mem[l] = m.mem[l]
WritesLand == [][Landed]_vars

(* A core that the debugger was told is halted, is. *)
HaltedIsHalted == told = "halted" => m.halted

(* A step that succeeds moves on, a run that succeeds runs, from any state  *)
(* in which the debugger was told that the core is halted, or a breakpoint  *)
(* stops it again where it is: on ARMv7-A and ARMv8-A any, for the drivers  *)
(* disable none; on RISC-V one that did not stop it before, or a breakpoint *)
(* instruction while the driver has not enabled breakpoints; on Cortex-M    *)
(* and Xtensa none.  Neither leaves a request to step behind, and a program *)
(* that runs has its interrupts.                                            *)
MovedOn == m'.ran # <<>> \/ Shown'["pc"] = Past(Shown["pc"])
StoppedAgain == arch \in {"v7a", "v8a", "rv"} /\ m'.halted /\ m'.why # "request"
SkipsIt == arch = "rv" /\ (m.why = "hard" \/ (m.why = "soft" /\ m.bpOn))
Progress ==
  /\ answer'.op = "step" => MovedOn \/ (StoppedAgain /\ ~(SkipsIt /\ m'.why = m.why))
  /\ answer'.op = "run" => m'.ran # <<>> \/ StoppedAgain
  /\ answer'.op = "run" /\ arch = "cm" => ~m'.masked
  /\ ~m.armed => ~m'.armed
StepsAndRunsGoOn ==
  [][answer'.op \in {"step", "run"} /\ answer'.ok /\ told = "halted" => Progress]_vars

(* The addresses in the breakpoint units, and those that are enabled.       *)
Breakpoints(n) ==
  {n.bps[u] : u \in CASE arch = "rv" -> n.on \cup n.off [] arch = "xt" -> n.bset [] OTHER -> Units}
    \ {Free, "step"}
Live(n) ==
  CASE arch = "cm" /\ "hard" \notin n.causes -> {}
    [] arch \in {"rv", "xt"} -> {n.bps[u] : u \in n.on}
    [] OTHER -> Breakpoints(n)
Expected ==
  CASE answer'.op = "set" -> Breakpoints(m) \cup {answer'.arg}
    [] answer'.op = "clear" -> Breakpoints(m) \ {answer'.arg}
    [] answer'.op \in {"clear all", "detach"} -> {}
    [] OTHER -> Breakpoints(m)

(* What a failure between the two registers of a unit may leave in it: the  *)
(* address zero, when it was being cleared, or that of the program counter, *)
(* when it was being used for a step.                                       *)
HalfWritten ==
  CASE answer'.ok \/ arch \notin {"v7a", "v8a"} -> {}
    [] ~answer'.ok /\ arch = "v7a" /\ answer'.op = "step" -> {"here"}
    [] ~answer'.ok /\ answer'.op \in {"clear", "clear all", "detach"} -> {"zero"}
    [] OTHER -> {}

(* The breakpoints are those that were set and not cleared, each in a unit  *)
(* of its own, and an operation that succeeds leaves none of them disabled, *)
(* though a step may disable them for a moment; one that fails adds none,   *)
(* but for a unit of an A-profile core that is left half-written.           *)
BreakpointsAreThoseSet ==
  [][/\ answer'.ok => /\ Breakpoints(m') = Expected
                      /\ Live(m) = Breakpoints(m) => Live(m') = Breakpoints(m')
     /\ Breakpoints(m') \subseteq Breakpoints(m) \cup Expected \cup HalfWritten]_vars

(* A core that is halted for an operation that needs it halted runs again   *)
(* when that has succeeded, unless it stopped by itself.                    *)
NotHeld ==
  answer'.ok /\ ~m.halted /\ m'.halted /\ answer'.op \notin {"halt", "step", "reset", "reset and halt"}
    => m'.why # "request"
LeftRunning == [][NotHeld]_vars
=============================================================================
