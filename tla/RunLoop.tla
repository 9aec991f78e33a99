------------------------------ MODULE RunLoop ------------------------------
(***************************************************************************)
(* probe-rs run (bin/probe-rs/cmd/run/): the loop that lets a program run, *)
(* answers its semihosting calls and prints what it sends over RTT, and    *)
(* the two modes that use it.  In normal mode the program runs until it    *)
(* exits.  In test mode it is asked for its tests first, and is then reset *)
(* and run once for each of them.                                          *)
(*                                                                         *)
(* The program does what it likes: it prints, makes calls, stops, crashes  *)
(* or resets itself at any time.  Of its memory, the RTT control block and *)
(* what the up channel holds survive a reset.  The channel is a queue of   *)
(* pieces (the module RttUp shows that it is one).  Two of them, 2k - 1    *)
(* and 2k, are a defmt frame, or a character of text if k is in setup.wide;*)
(* any other piece of text is a character of its own.                      *)
(***************************************************************************)
EXTENDS Integers, Sequences, SequencesExt

CONSTANTS Setups,      \* how the program was built and probe-rs was called
          Tests,       \* the tests of the program, in order
          Retries,     \* attempts to read a channel (10)
          MaxSent,     \* bound: pieces sent in a run
          MaxCalls,    \* bound: semihosting calls in a boot
          MaxFaults    \* bound: failing accesses

ASSUME RetriesAssumption == Retries \in Nat \ {0}
ASSUME SetupsAssumption ==
  Setups \subseteq {s \in [arch : {"cm", "xt", "rv"}, mode : {"normal", "test"}, format : {"string", "defmt"},
                          wide : SUBSET Nat, symbol : BOOLEAN, catching : BOOLEAN] : s.mode = "test" => s.catching}
(* The names of the tests are no words of this module. *)
ASSUME TestsAssumption == Tests \in Seq(STRING) /\ Range(Tests) \cap {"none", "normal", "list"} = {}
ASSUME BoundsAssumption == MaxSent \in Nat /\ MaxCalls \in Nat /\ MaxFaults \in Nat

VARIABLES setup,    \* one of Setups
          core,     \* the core and its program
          ram,      \* the control block and the up channel
          driver,   \* the command the core driver remembers, the vector catches
          host,     \* where run_until is, for which run, and what it decided
          late,     \* has the time of this run elapsed?
          exit,     \* has the user pressed CTRL + C?
          stream,   \* what was printed, and what went wrong with it
          results,  \* the outcome of each test
          faults    \* failing accesses so far

vars == <<setup, core, ram, driver, host, late, exit, stream, results, faults>>

Exits == {"exit0", "exit1"}
Calls == Exits \cup {"cmdline", "list", "other"}
RunList == IF setup.mode = "normal" THEN <<"normal">> ELSE <<"list">> \o Tests
Kind == RunList[host.run]
Timed == setup.mode = "test"

(* What run_until is to do, and what came of it: "none" while it runs, a    *)
(* decision of the halt handler, or another reason to return.               *)
Decisions == {"done", "tests", "pass", "panic", "refused"}
Begin(n, at) == [at |-> at, run |-> n, asked |-> FALSE, reason |-> "none",
                 decided |-> "none", rtt |-> FALSE, tries |-> 0]

Init ==
  /\ setup \in Setups
  /\ \E s \in {"halted", "running"} :
       core = [is |-> s, call |-> "none", op |-> "call",
               line |-> "none", told |-> "none", calls |-> 0, wild |-> FALSE]
  /\ ram = [block |-> "absent", queue |-> <<>>, init |-> 0, sent |-> 0]
  /\ driver = [command |-> "none", catch |-> {}]
  /\ host = Begin(1, "halt")
  /\ late = FALSE /\ exit = FALSE
  /\ stream = [out |-> <<>>, lost |-> FALSE]
  /\ results = [t \in DOMAIN Tests |-> "none"]
  /\ faults = 0
-----------------------------------------------------------------------------
(* The program. *)
Running == core.is = "running" /\ host.at # "done"
Program == UNCHANGED <<setup, driver, host, late, exit, stream, results, faults>>

(* It sets up the control block, which may still hold an earlier one. *)
Initialise ==
  /\ Running /\ setup.symbol /\ ram.init < 2
  /\ ram' = IF ram.init = 0 THEN [ram EXCEPT !.init = 1, !.block = "partial", !.queue = <<>>]
            ELSE [ram EXCEPT !.init = 2, !.block = "ready"]
  /\ UNCHANGED core /\ Program

Send ==
  /\ Running /\ ram.init = 2 /\ ram.sent < MaxSent
  /\ ram' = [ram EXCEPT !.queue = Append(@, ram.sent + 1), !.sent = @ + 1]
  /\ UNCHANGED core /\ Program

(* A call: the program stops at a breakpoint instruction with the operation *)
(* in a register, where it expects the answer.                              *)
Call ==
  \E c \in Calls :
    /\ Running /\ core.calls < MaxCalls
    /\ core' = [core EXCEPT !.is = "halted", !.call = c,
                            !.op = "call", !.calls = @ + 1]
    /\ UNCHANGED ram /\ Program

Stop ==
  /\ Running /\ core' = [core EXCEPT !.is = "halted"]
  /\ UNCHANGED ram /\ Program

Crash ==
  /\ Running
  /\ \/ "fault" \in driver.catch /\ core' = [core EXCEPT !.is = "halted"]
     \/ "fault" \notin driver.catch /\ setup.arch = "cm" /\ core' = [core EXCEPT !.is = "locked"]
  /\ UNCHANGED ram /\ Program

Booted(c, s) == [c EXCEPT !.is = s, !.call = "none", !.told = "none", !.calls = 0]
ResetItself ==
  /\ Running /\ ~core.wild
  /\ LET caught == "reset" \in driver.catch
     IN core' = [Booted(core, IF caught THEN "halted" ELSE "running") EXCEPT !.wild = ~caught]
  /\ ram' = [ram EXCEPT !.init = 0]
  /\ Program
-----------------------------------------------------------------------------
(* The core drivers.  A status is that of a call if the core is halted at   *)
(* one.  A call is decoded once, for to decode it answers it: with failure, *)
(* unless it is one to exit.  Decoded again it is another operation.        *)
AtCall(c) == c.is = "halted" /\ c.call # "none"
Command(c, d) ==
  CASE d.command # "none" -> d.command
    [] d.command = "none" /\ c.op = "call" -> c.call
    [] OTHER -> "other"
Decoded(c, d) == IF d.command # "none" \/ Command(c, d) \in Exits THEN c ELSE [c EXCEPT !.op = "failed"]
Remembers(c, d) == [d EXCEPT !.command = Command(c, d)]

(* To run the core is to go on behind the breakpoint instruction, and to    *)
(* forget what was decoded.  A RISC-V driver that has not enabled hardware  *)
(* breakpoints leaves the instruction to a single step; a hart may stop at  *)
(* it again.                                                                *)
(* Slip: it is remembered. *)
SlipForgotten(d) == d
Forgotten(d) == [d EXCEPT !.command = "none"]
GoesOn(c) == [c EXCEPT !.is = "running", !.call = "none",
                       !.told = IF c.call = "cmdline" /\ c.op = "ok" THEN c.line ELSE @]
Resumed(c) == {GoesOn(c)} \cup (IF setup.arch = "rv" /\ c.call # "none" THEN {c} ELSE {})
-----------------------------------------------------------------------------
(* The host.  An access may fail, and run_until returns the error.          *)
Aside == UNCHANGED <<setup, exit, results>>
Halted(c) == [c EXCEPT !.is = "halted"]
Goto(at) == host' = [host EXCEPT !.at = at]
Fails ==
  /\ faults < MaxFaults /\ faults' = faults + 1
  /\ host' = [host EXCEPT !.at = "return", !.reason = "error"]
  /\ UNCHANGED <<core, ram, driver, late, stream>>

NextRun(outcome) ==
  /\ results' = IF Kind \in Range(Tests) THEN [results EXCEPT ![host.run - 1] = outcome] ELSE results
  /\ host' = IF host.run = Len(RunList) THEN Begin(host.run, "done") ELSE Begin(host.run + 1, "reset")
  /\ late' = FALSE /\ exit' = FALSE
  /\ stream' = [out |-> <<>>, lost |-> FALSE]

(* run_test: the core is reset.  What the program left in its memory is     *)
(* there until it starts anew.  If the reset fails, so does the test.       *)
ResetAndHalt ==
  /\ host.at = "reset"
  /\ \/ /\ core' = [Booted(core, "halted") EXCEPT !.wild = FALSE]
        /\ ram' = [ram EXCEPT !.init = 0, !.sent = 0, !.queue = [i \in DOMAIN @ |-> 0]]
        /\ driver' = [command |-> IF setup.arch = "xt" THEN "none" ELSE driver.command,
                      catch |-> driver.catch \ {"reset"}]
        /\ Goto("halt")
        /\ UNCHANGED <<late, exit, stream, results, faults>>
     \/ /\ faults < MaxFaults /\ faults' = faults + 1
        /\ NextRun("failed")
        /\ UNCHANGED <<core, ram, driver>>
  /\ UNCHANGED setup

(* run_until: to set vector catches the core is halted.  That they cannot   *)
(* be set is no error.                                                      *)
Halt ==
  /\ host.at = "halt"
  /\ \/ /\ setup.catching /\ Goto("catch") /\ core' = Halted(core)
        /\ UNCHANGED <<ram, driver, late, stream, faults>>
     \/ /\ ~setup.catching /\ Goto("resume")
        /\ UNCHANGED <<core, ram, driver, late, stream, faults>>
     \/ setup.catching /\ Fails
  /\ Aside
CatchVectors ==
  /\ host.at = "catch" /\ Goto("resume")
  /\ \/ /\ driver' = [driver EXCEPT !.catch = IF setup.arch = "cm" THEN {"fault", "reset"} ELSE {}]
        /\ UNCHANGED faults
     \/ /\ setup.arch = "cm" /\ faults < MaxFaults /\ faults' = faults + 1
        /\ \E V \in SUBSET {"fault", "reset"} : V # {} /\ driver' = [driver EXCEPT !.catch = @ \cup V]
     \/ /\ setup.arch = "cm" /\ faults + 1 < MaxFaults /\ faults' = faults + 2
        /\ \E V \in SUBSET {"fault", "reset"} : driver' = [driver EXCEPT !.catch = @ \cup V]
  /\ UNCHANGED <<core, ram, late, stream>> /\ Aside

(* A core that is halted already, be it at a call, is resumed. *)
Resume ==
  /\ host.at = "resume"
  /\ \/ /\ LET c == IF AtCall(core) /\ setup.arch # "xt" THEN Decoded(core, driver) ELSE core
           IN core' \in IF core.is = "halted" THEN Resumed(c) ELSE {core}
        /\ driver' = IF core.is = "halted" THEN Forgotten(driver) ELSE driver
        /\ Goto("attach")
        /\ UNCHANGED <<ram, late, stream, faults>>
     \/ Fails
  /\ Aside

(* Attaching to RTT is tried until there is a control block, at most for a  *)
(* second.  One whose channels are not initialised yet may be found too;    *)
(* that it has no channel then is an error.                                 *)
AttachRtt ==
  /\ host.at = "attach"
  /\ \/ /\ ~setup.symbol /\ Goto("check")
        /\ UNCHANGED <<core, ram, driver, late, stream, faults>>
     \/ /\ setup.symbol /\ ram.block = "ready"
        /\ host' = [host EXCEPT !.at = "check", !.rtt = TRUE]
        /\ UNCHANGED <<core, ram, driver, late, stream, faults>>
     \/ /\ setup.symbol /\ ram.block = "partial"
        /\ host' = [host EXCEPT !.at = "return", !.reason = "error"]
        /\ UNCHANGED <<core, ram, driver, late, stream, faults>>
     \/ Fails
  /\ Aside
AttachTimesOut ==
  /\ host.at = "attach" /\ setup.symbol
  /\ host' = [host EXCEPT !.at = "return", !.reason = "error"]
  /\ UNCHANGED <<core, ram, driver, late, stream, faults>> /\ Aside
-----------------------------------------------------------------------------
(* The halt handlers: what they write to the program, whether it has asked  *)
(* for its command line, and what they decide.  To write it may fail.       *)
Verdict(c, asked, decided) == [core |-> c, asked |-> asked, decided |-> decided]
Answered(c, line) == [c EXCEPT !.op = "ok", !.line = line]
TellsLine(c) == {Verdict(Answered(c, Kind), TRUE, "none"), Verdict(c, TRUE, "refused")}

NormalHandler(call, c) ==
  {Verdict(c, host.asked, CASE call = "exit0" -> "done"
                            [] call \in {"exit1", "stop"} -> "refused"
                            [] OTHER -> "none")}
ListHandler(call, c) ==
  CASE call = "cmdline" /\ ~host.asked -> TellsLine(c)
    [] call = "list" /\ host.asked ->
         {Verdict(Answered(c, "none"), TRUE, "tests"), Verdict(c, TRUE, "refused")}
    [] OTHER -> {Verdict(c, host.asked, "refused")}
(* Slip: an exit is taken for that of the test though nobody asked which. *)
SlipTestHandler(call, c) ==
  CASE call = "cmdline" /\ ~host.asked -> TellsLine(c)
    [] call = "exit0" -> {Verdict(c, host.asked, "pass")}
    [] call = "exit1" -> {Verdict(c, host.asked, "panic")}
    [] OTHER -> {Verdict(c, host.asked, "refused")}
TestHandler(call, c) ==
  CASE call = "cmdline" /\ ~host.asked -> TellsLine(c)
    [] call = "exit0" /\ host.asked -> {Verdict(c, TRUE, "pass")}
    [] call = "exit1" /\ host.asked -> {Verdict(c, TRUE, "panic")}
    [] OTHER -> {Verdict(c, host.asked, "refused")}
Handler(call, c) ==
  CASE Kind = "normal" -> NormalHandler(call, c)
    [] Kind = "list" -> ListHandler(call, c)
    [] OTHER -> TestHandler(call, c)

(* The loop: is the core halted?  The handler decides, or the core runs on. *)
Check ==
  /\ host.at = "check" /\ ~exit
  /\ \/ /\ Running /\ Goto("poll")
        /\ UNCHANGED <<core, ram, driver, late, stream, faults>>
     \/ /\ core.is = "locked"
        /\ host' = [host EXCEPT !.at = "return", !.reason = "error"]
        /\ UNCHANGED <<core, ram, driver, late, stream, faults>>
     \/ /\ core.is = "halted"
        /\ LET call == IF AtCall(core) THEN Command(core, driver) ELSE "stop"
               c == IF AtCall(core) THEN Decoded(core, driver) ELSE core
               d == IF AtCall(core) THEN Remembers(core, driver) ELSE driver
           IN \E v \in Handler(call, c) :
                /\ core' \in IF v.decided = "none" THEN Resumed(v.core) ELSE {v.core}
                /\ driver' = IF v.decided = "none" THEN Forgotten(d) ELSE d
                /\ host' = [host EXCEPT !.at = "poll", !.asked = v.asked, !.decided = v.decided]
        /\ UNCHANGED <<ram, late, stream, faults>>
     \/ Fails
  /\ Aside

(* Polling reads all that the channel holds, and each poll decodes anew.    *)
(* Of defmt data only frames that are there as a whole are printed; what    *)
(* begins within a frame may be an error.  Of text a character of which     *)
(* only a half is there becomes a replacement character.                    *)
Joined(s, p) == p # 0 /\ (s.format = "defmt" \/ (p + 1) \div 2 \in s.wide)
Partner(p) == IF p % 2 = 1 THEN p + 1 ELSE p - 1
Keep(q, S) ==
  LET kept[i \in 0 .. Len(q)] ==
        IF i = 0 THEN <<>> ELSE IF q[i] \in S THEN Append(kept[i - 1], q[i]) ELSE kept[i - 1]
  IN kept[Len(q)]
Printed(q) == Keep(q, {p \in Range(q) : Joined(setup, p) => Partner(p) \in Range(q)})
Cut(q) == q # <<>> /\ q[1] % 2 = 0 /\ Joined(setup, q[1])
Fresh(q) == Keep(q, 1..MaxSent)
Held == IF ram.block = "ready" THEN ram.queue ELSE <<>>
Taken == ram' = [ram EXCEPT !.queue = IF ram.block = "ready" THEN <<>> ELSE @]

Poll ==
  /\ host.at = "poll"
  /\ \/ /\ ~host.rtt /\ Goto("timer")
        /\ UNCHANGED <<ram, stream>>
     \/ /\ host.rtt /\ Taken
        /\ host' = [host EXCEPT !.at = "timer", !.tries = 0]
        /\ stream' = [out |-> stream.out \o Fresh(Printed(Held)), lost |-> stream.lost \/ Cut(Held)]
     \/ /\ host.rtt /\ setup.format = "defmt" /\ Cut(Held) /\ Taken
        /\ host' = [host EXCEPT !.at = "return", !.reason = "error"]
        /\ UNCHANGED stream
  /\ UNCHANGED <<core, driver, late, faults>> /\ Aside

(* A read that fails is tried again, a number of times.  If it was the      *)
(* write that takes the data off the channel, and it did so, they are gone. *)
(* stream.lost says that this has happened, or that a poll has cut a frame  *)
(* or a character.                                                          *)
(* Slip: it is not tried again. *)
SlipGivesUp == TRUE
GivesUp == host.tries + 1 = Retries
PollFails ==
  /\ host.at = "poll" /\ host.rtt /\ faults < MaxFaults /\ faults' = faults + 1
  /\ host' = IF GivesUp THEN [host EXCEPT !.at = "timer", !.tries = 0] ELSE [host EXCEPT !.tries = @ + 1]
  /\ \/ UNCHANGED ram /\ stream' = [stream EXCEPT !.lost = @ \/ host.tries + 1 = Retries]
     \/ Held # <<>> /\ Taken /\ stream' = [stream EXCEPT !.lost = TRUE]
  /\ UNCHANGED <<core, driver, late>> /\ Aside

(* The time of a run is up, whatever the handler decided. *)
(* Slip: not while there is something to print. *)
SlipTimedOut == Timed /\ late /\ ~host.rtt
TimedOut == Timed /\ late
Timer ==
  /\ host.at = "timer"
  /\ \/ /\ TimedOut /\ core' = Halted(core)
        /\ host' = [host EXCEPT !.at = "return", !.reason = "timeout"]
        /\ UNCHANGED <<ram, driver, late, stream, faults>>
     \/ /\ ~TimedOut
        /\ host' = IF host.decided = "none" THEN [host EXCEPT !.at = "check"]
                   ELSE [host EXCEPT !.at = "return", !.reason = "decided"]
        /\ UNCHANGED <<core, ram, driver, late, stream, faults>>
     \/ TimedOut /\ Fails
  /\ Aside

UserStops ==
  /\ host.at = "check" /\ exit
  /\ \/ /\ core' = Halted(core)
        /\ host' = [host EXCEPT !.at = "return", !.reason = "user"]
        /\ UNCHANGED <<ram, driver, late, stream, faults>>
     \/ Fails
  /\ Aside

(* The modes: after the list come the tests.  A test that does not exit in  *)
(* time has failed; anything else that goes wrong ends the program.         *)
(* Slip: what the handler refused counts as an outcome. *)
SlipOutcome ==
  CASE host.reason = "decided" -> host.decided
    [] host.reason = "timeout" /\ Kind # "list" -> "timeout"
    [] OTHER -> "none"
Outcome ==
  CASE host.reason = "decided" /\ host.decided \in {"tests", "pass", "panic"} -> host.decided
    [] host.reason = "timeout" /\ Kind # "list" -> "timeout"
    [] OTHER -> "none"
Return ==
  /\ host.at = "return"
  /\ IF Outcome = "none"
     THEN host' = Begin(host.run, "done") /\ UNCHANGED <<results, late, exit, stream>>
     ELSE NextRun(Outcome)
  /\ UNCHANGED <<setup, core, ram, driver, faults>>

(* The stack trace, which the user may ask for each time, cannot be printed.*)
StacktraceFails ==
  /\ host.at = "return" /\ host.reason # "error"
  /\ faults < MaxFaults /\ faults' = faults + 1
  /\ host' = Begin(host.run, "done")
  /\ UNCHANGED <<core, ram, driver, late, stream>> /\ Aside
-----------------------------------------------------------------------------
(* The time passes and the user presses CTRL + C. *)
InLoop == host.at \in {"check", "poll", "timer"}
Elapse ==
  /\ Timed /\ ~late /\ (InLoop \/ host.at = "attach") /\ late' = TRUE
  /\ UNCHANGED <<setup, core, ram, driver, host, exit, stream, results, faults>>
PressCtrlC ==
  /\ InLoop /\ ~exit /\ exit' = TRUE
  /\ UNCHANGED <<setup, core, ram, driver, host, late, stream, results, faults>>

Done == host.at = "done" /\ UNCHANGED vars
Target == Initialise \/ Send \/ Call \/ Stop \/ Crash \/ ResetItself
Host == ResetAndHalt \/ Halt \/ CatchVectors \/ Resume \/ AttachRtt \/ AttachTimesOut
        \/ Check \/ Poll \/ PollFails \/ Timer \/ UserStops \/ Return \/ StacktraceFails
Next == Target \/ Host \/ Elapse \/ PressCtrlC \/ Done
Spec == Init /\ [][Next]_vars /\ WF_vars(Host) /\ WF_vars(Elapse)
-----------------------------------------------------------------------------
TypeOK ==
  /\ setup \in Setups
  /\ core \in [is : {"halted", "running", "locked"}, call : Calls \cup {"none"}, op : {"call", "failed", "ok"},
               line : {"none", "list"} \cup Range(Tests), told : {"none", "list"} \cup Range(Tests),
               calls : 0..MaxCalls, wild : BOOLEAN]
  /\ ram \in [block : {"absent", "partial", "ready"}, queue : Seq(0..MaxSent), init : 0..2, sent : 0..MaxSent]
  /\ driver \in [command : Calls \cup {"none"}, catch : SUBSET {"fault", "reset"}]
  /\ host \in [at : {"reset", "halt", "catch", "resume", "attach", "check", "poll", "timer", "return", "done"},
               run : DOMAIN RunList, asked : BOOLEAN,
               reason : {"none", "error", "timeout", "user", "decided"},
               decided : Decisions \cup {"none"}, rtt : BOOLEAN, tries : 0..Retries]
  /\ late \in BOOLEAN /\ exit \in BOOLEAN /\ faults \in 0..MaxFaults
  /\ stream \in [out : Seq(1..MaxSent), lost : BOOLEAN]
  /\ results \in [DOMAIN Tests -> {"none", "failed", "timeout", "pass", "panic"}]

(* When run_until returns what the handler decided, all that the program    *)
(* had sent by then was printed, in order, and once, but for what was lost  *)
(* and for a half at the end: the poll comes after the check.               *)
Upto(s, n) == [i \in 1..(IF n % 2 = 1 /\ Joined(s, n) THEN n - 1 ELSE n) |-> i]
Sent == Upto(setup, ram.sent)
ReturnsHaltedAndFlushed ==
  host.at = "return" /\ host.reason = "decided" =>
    /\ core.is = "halted"
    /\ host.rtt /\ ~core.wild /\ ~stream.lost => stream.out = Sent

(* A test passes or panics by an exit call of the program that was started  *)
(* for it and told to run it, never by one of an earlier run.               *)
VerdictIsTheTests ==
  [][\A t \in DOMAIN Tests :
       results'[t] # results[t] /\ results'[t] \in {"pass", "panic"} =>
         /\ core.is = "halted" /\ core.call = IF results'[t] = "pass" THEN "exit0" ELSE "exit1"
         /\ core.told = Tests[t] \/ core.wild]_vars

(* The loop lets a program go on behind a call only with an answer, which   *)
(* is failure unless it is the command line of this run.                    *)
CallsAreAnswered ==
  [][host.at = "check" /\ core.call # "none" /\ core'.call = "none" =>
       \/ core'.op = "failed" /\ core'.told = core.told
       \/ core'.op = "ok" /\ core.call = "cmdline" /\ core'.told = Kind /\ Timed]_vars

(* In test mode probe-rs comes to an end whatever the program does; in both *)
(* modes it does when the program has exited.                               *)
RunComesToAnEnd ==
  /\ setup.mode = "test" ~> host.at = "done"
  /\ (InLoop /\ core.call \in Exits) ~> host.at = "done"
=============================================================================
