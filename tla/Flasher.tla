------------------------------ MODULE Flasher ------------------------------
(***************************************************************************)
(* Flasher::run_erase_all and Flasher::program (probe-rs/src/flashing/     *)
(* flasher.rs): a host drives the routines of a flash algorithm that runs  *)
(* on the target's core, by writing registers and RAM while the core is    *)
(* halted or, in double buffering, while it is programming the page        *)
(* before.  Host and target take their steps independently; a routine may  *)
(* fail, hang or lock the core up, and the probe may fail at any access.   *)
(*                                                                         *)
(* A byte of flash is "old", "erased", "new" or "bad"; a byte of a page    *)
(* buffer is the pair of the address it is meant for and its value, so     *)
(* that a page programmed from the wrong buffer is seen as "bad".          *)
(***************************************************************************)
EXTENDS Integers, Sequences, SequencesExt

CONSTANTS
  Size,       \* bytes of flash
  PageSize,   \* bytes of a page and of a page buffer
  Plans,      \* the layouts and options program may be called with
  Faults      \* subset of {"fail", "hang", "lockup", "probe"}

ASSUME SizesAssumption == Size \in Nat /\ PageSize \in Nat \ {0}

Addr == 0 .. Size - 1
Range2(r) == r[1] .. r[2] - 1
Covered(ranges) == UNION {Range2(ranges[i]) : i \in DOMAIN ranges}

Ranges == {r \in (0 .. Size) \X (0 .. Size) : r[1] <= r[2]}
Pages == {r \in Ranges : r[2] - r[1] = PageSize}

\* A plan: the ranges of the layout's sectors, pages and fills, the addresses of
\* the data, the options, whether the algorithm has an Init and an UnInit, and
\* whether a debug sequence of the chip does the chip erase.
PlanType == [sectors : Seq(Ranges), pages : Seq(Pages), fills : Seq(Ranges),
             staged : SUBSET Addr, restore : BOOLEAN, double : BOOLEAN,
             skip : BOOLEAN, chip : BOOLEAN, init : BOOLEAN, uninit : BOOLEAN,
             sequence : BOOLEAN]

\* What FlashBuilder::build_sectors_and_pages guarantees of a layout.
ASSUME PlansAssumption ==
  \A p \in Plans :
    /\ p \in PlanType
    /\ p.staged \subseteq Covered(p.pages)
    /\ Covered(p.pages) \subseteq Covered(p.sectors)
    /\ Covered(p.fills) \subseteq Covered(p.pages) \ p.staged
    /\ p.restore => Covered(p.sectors) \subseteq Covered(p.fills) \cup p.staged

VARIABLES
  \* host
  plan, jobs, step,
  loaded,     \* bytes of the current page already in the buffer
  buf,        \* current_buf
  data,       \* contents of the pages of the flash layout
  log,        \* progress events of the stages
  failed,     \* history: something went wrong
  result,
  \* target
  core, routine, r0, ram, flash, active

hostVars == <<plan, jobs, step, loaded, buf, data, log, result>>
targetVars == <<core, routine, r0, ram, flash, active>>
vars == <<plan, jobs, step, loaded, buf, data, log, failed, result,
          core, routine, r0, ram, flash, active>>

\* Slip: the fills are read only after the sectors are erased.
SlipJobsOf(p) ==
  (IF p.chip THEN <<[stage |-> "chip", items |-> <<<<0, Size>>>>]>> ELSE <<>>)
  \o (IF p.skip \/ p.chip THEN <<>> ELSE <<[stage |-> "erasing", items |-> p.sectors]>>)
  \o <<[stage |-> "filling", items |-> IF p.restore THEN p.fills ELSE <<>>]>>
  \o <<[stage |-> "programming", items |-> p.pages]>>

\* run_erase_all, then the stages of program; a fill needs a run of its own.
JobsOf(p) ==
  (IF p.chip THEN <<[stage |-> "chip", items |-> <<<<0, Size>>>>]>> ELSE <<>>)
  \o <<[stage |-> "filling", items |-> IF p.restore THEN p.fills ELSE <<>>]>>
  \o (IF p.skip \/ p.chip THEN <<>> ELSE <<[stage |-> "erasing", items |-> p.sectors]>>)
  \o <<[stage |-> "programming", items |-> p.pages]>>

Stage == Head(jobs).stage
Items == Head(jobs).items
Op == CASE Stage = "filling" -> "Verify" [] Stage = "programming" -> "Program" [] OTHER -> "Erase"
Event(s) == IF s = "chip" THEN "erasing" ELSE s
Double == Stage = "programming" /\ plan.double
ItemDone == jobs' = <<[stage |-> Stage, items |-> Tail(Items)]>> \o Tail(jobs)

NoRoutine == [name |-> "none", range |-> <<0, 0>>, buf |-> 0, done |-> 0]

Init ==
  /\ plan \in Plans
  /\ jobs = JobsOf(plan) /\ step = "begin" /\ loaded = 0 /\ buf = 0
  /\ data = [a \in Addr |-> IF a \in plan.staged THEN "new" ELSE "erased"]
  /\ log = <<>> /\ failed = FALSE /\ result = "none"
  /\ core = "halted" /\ r0 \in {0, 1} /\ active = "none"
  /\ routine = NoRoutine
  /\ ram = [b \in {0, 1} |-> [i \in 0 .. PageSize - 1 |-> <<0, "bad">>]]
  /\ flash = [a \in Addr |-> IF plan.skip THEN "erased" ELSE "old"]

-----------------------------------------------------------------------------
(* The host.                                                               *)

Fail ==
  /\ step' = "end" /\ result' = "error" /\ log' = Append(log, <<"failed", Event(Stage)>>)

\* wait_for_completion sees the core halted; the caller examines r0.
RoutineOver == core = "halted"

\* Slip: the result is not examined.
SlipResultOk == TRUE

ResultOk == r0 = 0

\* call_function: registers are written, then the core resumed.
Call(name, range, b) ==
  /\ core' = "running"
  /\ routine' = [name |-> name, range |-> range, buf |-> b, done |-> 0]
  /\ UNCHANGED <<r0, ram, flash, active>>

Begin ==
  /\ step = "begin"
  /\ log' = log \o (IF Stage = "filling" THEN <<<<"initialized", "filling">>>> ELSE <<>>)
                \o <<<<"started", Event(Stage)>>>>
  /\ step' = IF Stage = "filling" /\ Items = <<>> THEN "done" ELSE "enter"
  /\ UNCHANGED <<plan, jobs, loaded, buf, data, failed, result, targetVars>>

BySequence == Stage = "chip" /\ plan.sequence

\* ActiveFlasher::init
Enter ==
  /\ step = "enter" /\ ~BySequence
  /\ IF plan.init
     THEN step' = "initWait" /\ Call("init", <<0, 0>>, 0)
     ELSE step' = "work" /\ UNCHANGED targetVars
  /\ UNCHANGED <<plan, jobs, loaded, buf, data, log, failed, result>>

\* session.sequence_erase_all, then Flasher::load, which resets the core.
SequenceErase ==
  /\ step = "enter" /\ BySequence
  /\ flash' = [a \in Addr |-> "erased"]
  /\ core' = "halted" /\ r0' \in {0, 1} /\ active' = "none" /\ routine' = NoRoutine
  /\ jobs' = <<[stage |-> Stage, items |-> <<>>]>> \o Tail(jobs) /\ step' = "done"
  /\ UNCHANGED <<plan, loaded, buf, data, log, failed, result, ram>>

\* The sequence gives up somewhere.
SequenceFails ==
  /\ "fail" \in Faults /\ step = "enter" /\ BySequence
  /\ \E n \in 0 .. Size : flash' = [a \in Addr |-> IF a < n THEN "erased" ELSE flash[a]]
  /\ Fail /\ failed' = TRUE
  /\ UNCHANGED <<plan, jobs, loaded, buf, data, core, routine, r0, ram, active>>

\* fill_page reads the flash between init and uninit.
ReadFill ==
  /\ step = "work" /\ Stage = "filling"
  /\ data' = [a \in Addr |-> IF a \in Range2(Head(Items)) THEN flash[a] ELSE data[a]]
  /\ ItemDone /\ step' = "uninit"
  /\ UNCHANGED <<plan, loaded, buf, log, failed, result, targetVars>>

CallErase ==
  /\ step = "work" /\ Op = "Erase" /\ Items # <<>>
  /\ step' = "wait" /\ Call("erase", Head(Items), 0)
  /\ UNCHANGED <<plan, jobs, loaded, buf, data, log, failed, result>>

\* load_data, byte by byte; the core may be running.
LoadWord ==
  /\ step = "work" /\ Op = "Program" /\ Items # <<>> /\ loaded < PageSize
  /\ LET a == Head(Items)[1] + loaded IN ram' = [ram EXCEPT ![buf][loaded] = <<a, data[a]>>]
  /\ loaded' = loaded + 1
  /\ UNCHANGED <<plan, jobs, step, buf, data, log, failed, result>>
  /\ UNCHANGED <<core, routine, r0, flash, active>>

\* program_page, after load_data
CallProgram ==
  /\ step = "work" /\ Op = "Program" /\ ~Double /\ Items # <<>> /\ loaded = PageSize
  /\ step' = "wait" /\ Call("program", Head(Items), buf)
  /\ UNCHANGED <<plan, jobs, loaded, buf, data, log, failed, result>>

\* program_double_buffer: the routine before has halted; its result is examined.
PreviousDone ==
  /\ step = "work" /\ Double /\ Items # <<>> /\ loaded = PageSize /\ RoutineOver
  /\ IF ResultOk THEN step' = "start" /\ UNCHANGED <<result, log>> ELSE Fail
  /\ UNCHANGED <<plan, jobs, loaded, buf, data, failed, targetVars>>

\* Slip: the buffers are not swapped.
SlipStartNext ==
  /\ step = "start" /\ Call("program", Head(Items), buf)
  /\ ItemDone /\ loaded' = 0 /\ step' = "work"
  /\ UNCHANGED <<plan, buf, data, log, failed, result>>

StartNext ==
  /\ step = "start" /\ Call("program", Head(Items), buf)
  /\ ItemDone /\ loaded' = 0 /\ buf' = 1 - buf /\ step' = "work"
  /\ UNCHANGED <<plan, data, log, failed, result>>

\* The wait after the last page of double buffering.
AllStarted ==
  /\ step = "work" /\ Double /\ Items = <<>> /\ RoutineOver
  /\ IF ResultOk THEN step' = "uninit" /\ UNCHANGED <<result, log>> ELSE Fail
  /\ UNCHANGED <<plan, jobs, loaded, buf, data, failed, targetVars>>

NoItems ==
  /\ step = "work" /\ ~Double /\ Stage # "filling" /\ Items = <<>>
  /\ step' = "uninit"
  /\ UNCHANGED <<plan, jobs, loaded, buf, data, log, failed, result, targetVars>>

\* ActiveFlasher::uninit
Uninit ==
  /\ step = "uninit"
  /\ IF plan.uninit
     THEN step' = "uninitWait" /\ Call("uninit", <<0, 0>>, 0)
     ELSE step' = "left" /\ UNCHANGED targetVars
  /\ UNCHANGED <<plan, jobs, loaded, buf, data, log, failed, result>>

\* The other waits for a routine.
Halted ==
  /\ step \in {"initWait", "wait", "uninitWait"} /\ RoutineOver
  /\ IF ~ResultOk THEN Fail /\ UNCHANGED <<jobs, loaded>>
     ELSE /\ step' = IF step = "uninitWait" THEN "left" ELSE "work"
          /\ IF step = "wait"
             THEN ItemDone /\ loaded' = 0
             ELSE UNCHANGED <<jobs, loaded>>
          /\ UNCHANGED <<result, log>>
  /\ UNCHANGED <<plan, buf, data, failed, targetVars>>

Left ==
  /\ step = "left"
  /\ step' = IF Stage = "filling" /\ Items # <<>> THEN "enter" ELSE "done"
  /\ UNCHANGED <<plan, jobs, loaded, buf, data, log, failed, result, targetVars>>

Done ==
  /\ step = "done"
  /\ log' = Append(log, <<"finished", Event(Stage)>>)
  /\ IF Len(jobs) = 1 THEN step' = "end" /\ result' = "ok" /\ UNCHANGED jobs
     ELSE step' = "begin" /\ jobs' = Tail(jobs) /\ UNCHANGED result
  /\ UNCHANGED <<plan, loaded, buf, data, failed, targetVars>>

\* Slip: the waits of double buffering have no deadline.
SlipWaiting == step \in {"initWait", "wait", "uninitWait"}

\* The host is in wait_for_completion.
Waiting ==
  \/ step \in {"initWait", "wait", "uninitWait"}
  \/ step = "work" /\ Double /\ (loaded = PageSize \/ Items = <<>>)

\* The deadline passes: the routine may still be running, or halt just then.
Timeout ==
  /\ "hang" \in Faults /\ Waiting
  /\ Fail /\ failed' = TRUE
  /\ UNCHANGED <<plan, jobs, loaded, buf, data, targetVars>>

SeesLockup ==
  /\ Waiting /\ core = "lockedup"
  /\ Fail
  /\ UNCHANGED <<plan, jobs, loaded, buf, data, failed, targetVars>>

\* An access through the probe fails, wherever the host makes one.
ProbeError ==
  /\ "probe" \in Faults /\ step \notin {"begin", "left", "done", "end"}
  /\ Fail /\ failed' = TRUE
  /\ UNCHANGED <<plan, jobs, loaded, buf, data, targetVars>>

-----------------------------------------------------------------------------
(* The target.                                                             *)

Length == routine.range[2] - routine.range[1]

\* A routine erases or programs one byte.  Programming only clears bits, so
\* erased-value bytes change nothing and a byte that is not erased is spoilt.
Programmed(a, word) ==
  CASE word[2] = "erased" -> flash[a]
    [] word = <<a, word[2]>> /\ flash[a] \in {"erased", word[2]} -> word[2]
    [] OTHER -> "bad"

RoutineStep ==
  /\ core = "running" /\ routine.done < Length
  /\ LET a == routine.range[1] + routine.done IN
     flash' = [flash EXCEPT ![a] =
                 IF routine.name = "erase" THEN "erased"
                 ELSE Programmed(a, ram[routine.buf][routine.done])]
  /\ routine' = [routine EXCEPT !.done = @ + 1]
  /\ UNCHANGED <<hostVars, failed, core, r0, ram, active>>

RoutineReturns ==
  /\ core = "running" /\ routine.done = Length
  /\ core' = "halted" /\ r0' = 0
  /\ active' = CASE routine.name = "init" -> Op [] routine.name = "uninit" -> "none"
                 [] OTHER -> active
  /\ UNCHANGED <<hostVars, failed, routine, ram, flash>>

RoutineFails ==
  /\ "fail" \in Faults /\ core = "running"
  /\ core' = "halted" /\ r0' = 1 /\ failed' = TRUE
  /\ UNCHANGED <<hostVars, routine, ram, flash, active>>

LockUp ==
  /\ "lockup" \in Faults /\ core = "running"
  /\ core' = "lockedup" /\ failed' = TRUE
  /\ UNCHANGED <<hostVars, routine, r0, ram, flash, active>>

-----------------------------------------------------------------------------
Host ==
  \/ Begin \/ Enter \/ SequenceErase \/ SequenceFails \/ ReadFill \/ CallErase \/ LoadWord \/ CallProgram
  \/ PreviousDone \/ StartNext \/ AllStarted \/ NoItems \/ Uninit \/ Halted \/ Left \/ Done
  \/ Timeout \/ SeesLockup

Target == RoutineStep \/ RoutineReturns \/ RoutineFails \/ LockUp

Next == Host \/ ProbeError \/ Target

Spec == Init /\ [][Next]_vars

\* The host is one thread and every wait has a deadline; nothing is assumed of
\* the target.
LiveSpec == Spec /\ WF_vars(Host)

-----------------------------------------------------------------------------
\* While the target programs a page, its buffer holds exactly that page: the host
\* fills the other buffer meanwhile (flasher.rs 470-504).
BufferHoldsPage ==
  core = "running" /\ routine.name = "program" =>
    \A i \in 0 .. Length - 1 :
      LET a == routine.range[1] + i IN ram[routine.buf][i] = <<a, data[a]>>

Before == IF plan.skip THEN "erased" ELSE "old"

\* What the flash is to hold at a once all went well.
Expected(a) ==
  IF a \in plan.staged THEN "new"
  ELSE IF plan.restore \/ ~(plan.chip \/ a \in Covered(plan.sectors)) THEN Before
  ELSE "erased"

\* run_erase_all and program return Ok only with all staged data in flash and, but
\* for a chip erase with bytes to restore (see UnwrittenIsKept), with the bytes to be
\* restored as before, the rest of what was to be erased erased, and all sectors that
\* are not in the layout untouched.
OkMeansWritten ==
  result = "ok" =>
    /\ \A a \in plan.staged : flash[a] = "new"
    /\ ~(plan.chip /\ plan.restore) => \A a \in Addr : flash[a] = Expected(a)

\* What download.rs 144-149 says of keep_unwritten_bytes: erased portions of the flash
\* that are not overwritten "are restored afterwards, such that the old contents are
\* untouched".  It is not so with a chip erase, which comes before the fills are read.
UnwrittenIsKept ==
  result = "ok" /\ plan.restore =>
    \A a \in Covered(plan.sectors) \ plan.staged : flash[a] = Before

\* Also when it fails half-way, at any moment: a byte of flash changes only by
\* being erased in a sector of the layout, or by being programmed, once erased,
\* with what the layout has for it.  call_function never resumes a core that is
\* still in a routine, and erases and programs only between the init for that
\* operation and its uninit.
FlashChangesAsPlanned ==
  [][/\ \A a \in Addr : flash'[a] # flash[a] =>
          \/ flash'[a] = "erased" /\ (plan.chip \/ a \in Covered(plan.sectors))
          \/ flash[a] = "erased" /\ flash'[a] = Expected(a)
     /\ routine'.name # "none" /\ routine' # routine /\ routine'.done = 0 =>
          /\ core = "halted"
          /\ plan.init => CASE routine'.name = "erase" -> active = "Erase"
                            [] routine'.name = "program" -> active = "Program"
                            [] routine'.name = "init" -> active = "none" \/ ~plan.uninit
                            [] OTHER -> active = Op]_vars

\* The order of events ProgressEvent documents (progress.rs 106-119), by stage;
\* a failed stage ends it.  A chip erase comes before Initialized instead.
Documented ==
  <<<<"initialized", "filling">>, <<"started", "filling">>, <<"finished", "filling">>>>
  \o (IF plan.skip THEN <<>> ELSE <<<<"started", "erasing">>, <<"finished", "erasing">>>>)
  \o <<<<"started", "programming">>, <<"finished", "programming">>>>

EventsInOrder ==
  /\ result = "none" => IsPrefix(log, Documented)
  /\ result = "ok" => log = Documented
  /\ result = "error" =>
       /\ IsPrefix(Front(log), Documented)
       /\ Last(log) = <<"failed", Last(Front(log))[2]>> /\ Last(Front(log))[1] = "started"

\* Ok is never returned when a routine failed, locked up or did not return in
\* time, also when its result is only read one page later (flasher.rs 474-493);
\* an error means that something failed; and the events tell a front end which
\* stage it was.  The second needs an Init routine: without one the first wait of
\* double buffering (flasher.rs 476, 488) takes for a result what the reset left
\* in the register.
ResultIsHonest ==
  /\ result = "ok" => ~failed
  /\ result = "error" /\ plan.init => failed
  /\ ~plan.chip => EventsInOrder

\* However the target behaves, program returns: every wait has a deadline.
Finishes == <>(result # "none")
=============================================================================
