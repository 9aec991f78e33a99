-------------------------- MODULE DebugCore_lemmas --------------------------
(***************************************************************************)
(* What an operation of a driver may do to a target, for any number of     *)
(* breakpoint units and of failures of the probe: the lemmas that the      *)
(* theorems of DebugCore_proofs rest on.                                   *)
(*                                                                         *)
(* The drivers are the five modules that DebugCore instantiates.  Of each  *)
(* the lemmas give a relation between the target before an operation and   *)
(* the one after it; the relations compose, so an operation is followed    *)
(* access by access, as the driver makes them.                             *)
(***************************************************************************)
EXTENDS DebugCore, WellFoundedInduction, TLAPS

-----------------------------------------------------------------------------
(* What the accesses of the probe and the state of the core come to.      *)

(* x is n but for the fields in S. *)
Changed(n, x, S) == DOMAIN x = DOMAIN n /\ \A g \in DOMAIN n \ S : x[g] = n[g]

(* One failure more. *)
Spent(n) == [n EXCEPT !.faults = @ + 1]

(* Between n and x the core may only have stopped by itself. *)
Watched(n, x) ==
  /\ n.halted => x.halted /\ x.why = n.why
  /\ ~n.halted /\ x.halted => x.why \in n.causes

(* The core is not held because the debugger stopped it. *)
Unforced(n) == n.halted => n.why # "request"

\* Nothing has changed of a record from itself.
LEMMA ChangedRefl == \A n, S : Changed(n, n, S)
BY DEF Changed

\* What two steps may change, both together may.
LEMMA ChangedTrans == \A a, b, c, S : Changed(a, b, S) /\ Changed(b, c, S) => Changed(a, c, S)
BY DEF Changed

\* What changes fewer fields changes no more than these.
LEMMA ChangedMore == \A a, b, S, T : S \subseteq T /\ Changed(a, b, S) => Changed(a, b, T)
BY DEF Changed

\* A failure is counted, and that is all.
LEMMA SpentChanged == \A n : Changed(n, Spent(n), {"faults"})
BY DEF Changed, Spent

(* An access comes to what it is for, or fails before or after that.       *)
LEMMA AccessGives ==
  \A n, x, v : \A o \in Access(n, x, v) :
    \/ o.ok /\ o.m = x /\ o.val = v
    \/ ~o.ok /\ o.m \in {Spent(n), Spent(x)}
BY DEF Access, Give, Fail, Spent

\* What each of the outcomes says.
LEMMA OutcomesGive ==
  \A n, v : /\ Give(n, v).m = n /\ Give(n, v).ok /\ Give(n, v).val = v
            /\ Ok(n).m = n /\ Ok(n).ok /\ Err(n).m = n /\ ~Err(n).ok
            /\ Fail(n).m = Spent(n) /\ ~Fail(n).ok
BY DEF Give, Ok, Err, Fail, Spent

\* Yes is the answer that is true.
LEMMA FlagIsYes == \A b \in BOOLEAN : Flag(b) = Yes <=> b
BY DEF Flag, Yes

(* What a core may be when it is looked at again. *)
LEMMA StopsWatched ==
  \A n : {"halted", "why"} \subseteq DOMAIN n =>
         \A x \in Stops(n) : x.halted /\ Watched(n, x) /\ Changed(n, x, {"halted", "why"})
BY DEF Stops, Reasons, Stopped, Watched, Changed

\* A core that the debugger stops is halted, for that reason.
LEMMA StoppedHalted ==
  \A n : {"halted", "why"} \subseteq DOMAIN n =>
         Stopped(n).halted /\ Stopped(n).why = "request" /\ Changed(n, Stopped(n), {"halted", "why"})
BY DEF Stopped, Changed

\* A core that is not looked at has not stopped.
LEMMA WatchedRefl == \A n : Watched(n, n)
BY DEF Watched

\* A core watched twice, with the same reasons to stop, is watched.
LEMMA WatchedTrans ==
  \A a, b, c : Watched(a, b) /\ Watched(b, c) /\ b.causes = a.causes => Watched(a, c)
BY DEF Watched

CoreFields == {"halted", "regs", "epoch", "causes", "why", "ran", "mem", "armed", "bps", "faults"}

(* Looked(n, x): the core was looked at, which may have failed. *)
Look == {"faults", "halted", "why"}

\* The debug registers are read: the answer, if any, is what the core is then.
LEMMA PollGives ==
  \A n : {"halted", "why"} \subseteq DOMAIN n /\ n.halted \in BOOLEAN =>
    \A o \in Poll(n) : /\ Changed(n, o.m, Look) /\ Watched(n, o.m) /\ o.m.halted \in BOOLEAN
                       /\ o.ok => (o.val = Yes <=> o.m.halted)
<1> SUFFICES ASSUME NEW n, {"halted", "why"} \subseteq DOMAIN n, n.halted \in BOOLEAN,
                    NEW k \in Stops(n) \cup {n}, NEW o \in Access(k, k, Flag(k.halted))
             PROVE  /\ Changed(n, o.m, Look) /\ Watched(n, o.m) /\ o.m.halted \in BOOLEAN
                    /\ o.ok => (o.val = Yes <=> o.m.halted)
  BY DEF Poll
<1>1. /\ Changed(n, k, {"halted", "why"}) /\ Watched(n, k) /\ k.halted \in BOOLEAN
  BY StopsWatched, ChangedRefl, WatchedRefl
<1>2. \/ o.ok /\ o.m = k /\ o.val = Flag(k.halted)
      \/ ~o.ok /\ o.m = Spent(k)
  BY AccessGives
<1>3. Changed(n, o.m, Look) /\ o.m.halted = k.halted /\ o.m.why = k.why
  BY <1>1, <1>2 DEF Changed, Spent, Look
<1> QED BY <1>1, <1>2, <1>3, FlagIsYes DEF Watched

\* The debugger waits for the core to halt: it is halted if the wait succeeds.
LEMMA AwaitGives ==
  \A n : {"halted", "why"} \subseteq DOMAIN n /\ n.halted \in BOOLEAN =>
    \A o \in AwaitHalt(n) : /\ Changed(n, o.m, Look) /\ o.m.halted \in BOOLEAN
                            /\ n.halted => o.m.halted /\ o.m.why = n.why
                            /\ o.ok => o.m.halted
<1> SUFFICES ASSUME NEW n, {"halted", "why"} \subseteq DOMAIN n, n.halted \in BOOLEAN,
                    NEW o \in AwaitHalt(n)
             PROVE  /\ Changed(n, o.m, Look) /\ o.m.halted \in BOOLEAN
                    /\ n.halted => o.m.halted /\ o.m.why = n.why
                    /\ o.ok => o.m.halted
  OBVIOUS
<1>1. CASE o = Fail(n) /\ ~n.halted
  BY <1>1, OutcomesGive DEF Changed, Spent, Look
<1>2. CASE \E k \in Stops(n) \cup (IF n.halted THEN {} ELSE {Stopped(n)}) : o \in Access(k, k, Yes)
  <2>1. PICK k \in Stops(n) \cup (IF n.halted THEN {} ELSE {Stopped(n)}) : o \in Access(k, k, Yes)
    BY <1>2
  <2>2. /\ Changed(n, k, {"halted", "why"}) /\ k.halted
        /\ n.halted => k.why = n.why
    BY <2>1, StopsWatched, StoppedHalted DEF Watched
  <2>3. o.m \in {k, Spent(k)}
    BY <2>1, AccessGives
  <2>4. Changed(n, o.m, Look) /\ o.m.halted = k.halted /\ o.m.why = k.why
    BY <2>2, <2>3 DEF Changed, Spent, Look
  <2>5. k.halted \in BOOLEAN
    BY <2>1 DEF Stops, Stopped
  <2> QED BY <2>2, <2>4, <2>5
<1> QED BY <1>1, <1>2 DEF AwaitHalt

(* What an operation may do to the registers rs that the debugger sees of   *)
(* n, if it sees ss of x: nothing, to skip the breakpoint instruction where *)
(* the program stopped, or to let the program go on with rs.                *)
Stays(n, rs, x, ss) == /\ ss = rs /\ x.ran = n.ran /\ x.epoch = n.epoch
                       /\ n.halted => x.halted
Skips(n, rs, x, ss) == /\ rs["pc"] = Own(n.epoch)["pc"]
                       /\ ss = [rs EXCEPT !["pc"] = Past(@)]
                       /\ x.ran = n.ran /\ x.epoch = n.epoch
                       /\ n.halted => x.halted
GoesOn(n, rs, x, ss) == /\ x.ran = Append(n.ran, rs) /\ x.epoch = 1 - n.epoch
                        /\ ss = Own(x.epoch)

(* The lanes in A are written, those and no others, unless it failed.      *)
Writes(mem, o, A) ==
  /\ o.m.mem \in [Lanes -> {0, 1}]
  /\ \A l \in Lanes :
       IF l \in A THEN o.m.mem[l] = 1 \/ (~o.ok /\ o.m.mem[l] = mem[l])
       ELSE o.m.mem[l] = mem[l]

\* A word of ones, in each of the two places.
LEMMA PatchedWords ==
  \A mem \in [Lanes -> {0, 1}] :
    /\ Patched(mem, 0, 3) \in [Lanes -> {0, 1}]
    /\ \A l \in Lanes : Patched(mem, 0, 3)[l] = IF l \in {0, 1} THEN 1 ELSE mem[l]
    /\ Patched(mem, 2, 3) \in [Lanes -> {0, 1}]
    /\ \A l \in Lanes : Patched(mem, 2, 3)[l] = IF l \in {2, 3} THEN 1 ELSE mem[l]
<1>1. 3 % 2 = 1 /\ 3 \div 2 = 1 /\ 0 + 1 = 1 /\ 2 + 1 = 3
  OBVIOUS
<1> QED BY <1>1 DEF Patched, Lanes

-----------------------------------------------------------------------------
(* A core that goes nowhere, that may stop, and that may move.            *)

(* What an operation of a driver may change though the core goes nowhere,   *)
(* and nothing is written to memory or to a breakpoint unit.                *)
Loose == {"faults", "regs", "cache", "counted", "buf", "pbc", "sberr", "armed", "saved", "kept", "pcw"}
Quiet(n, x) == Changed(n, x, Loose) /\ DOMAIN x.regs = DOMAIN n.regs

(* The core may stop, and the driver notes it.                              *)
Holds(n, x) == /\ Changed(n, x, Loose \cup {"halted", "why", "seen", "sh"})
               /\ x.halted \in BOOLEAN /\ DOMAIN x.regs = DOMAIN n.regs
               /\ n.halted => x.halted /\ x.why = n.why

(* The core may be resumed or reset, and stop.                              *)
Moves(n, x) == /\ Changed(n, x, Loose \cup {"halted", "why", "seen", "sh", "ran", "epoch"})
               /\ x.halted \in BOOLEAN /\ x.epoch \in {0, 1} /\ DOMAIN x.regs = Regs

(* The breakpoint units have something in them.                             *)
Table(b) == b = [u \in Units |-> b[u]]

\* One entry of the table is set, and set back.
LEMMA TableExcept ==
  \A b, u, x : Table(b) => Table([b EXCEPT ![u] = x]) /\ [b EXCEPT ![u] = b[u]] = b
                          /\ [[b EXCEPT ![u] = x] EXCEPT ![u] = b[u]] = b
<1> SUFFICES ASSUME NEW b, NEW u, NEW x, Table(b)
             PROVE  Table([b EXCEPT ![u] = x]) /\ [b EXCEPT ![u] = b[u]] = b
                          /\ [[b EXCEPT ![u] = x] EXCEPT ![u] = b[u]] = b
  OBVIOUS
<1>1. Table([b EXCEPT ![u] = x])
  BY DEF Table
<1>2. [b EXCEPT ![u] = b[u]] = b
  BY DEF Table
<1>3. [[b EXCEPT ![u] = x] EXCEPT ![u] = b[u]] = b
  BY DEF Table
<1> QED BY <1>1, <1>2, <1>3

(* What the target is, whatever the architecture.                           *)
Fit(n) ==
  /\ CoreFields \subseteq DOMAIN n
  /\ n.halted \in BOOLEAN /\ n.epoch \in {0, 1}
  /\ "request" \notin n.causes
  /\ n.mem \in [Lanes -> {0, 1}]
  /\ Table(n.bps) /\ DOMAIN n.regs = Regs

\* To do nothing, or to fail, goes nowhere.
LEMMA QuietRefl == \A n : Quiet(n, n) /\ Quiet(n, Spent(n))
<1>1. \A n : Changed(n, n, Loose) /\ Changed(n, Spent(n), {"faults"})
  BY ChangedRefl, SpentChanged
<1>2. {"faults"} \subseteq Loose
  BY DEF Loose
<1>3. \A n : Spent(n).regs = n.regs
  BY DEF Spent
<1> QED BY <1>1, <1>2, <1>3, ChangedMore DEF Quiet

\* Nor do two operations that go nowhere.
LEMMA QuietTrans == \A a, b, c : Quiet(a, b) /\ Quiet(b, c) => Quiet(a, c)
BY ChangedTrans DEF Quiet

\* What an operation that goes nowhere keeps.
LEMMA QuietKeeps ==
  \A n, x : Fit(n) /\ Quiet(n, x) =>
    /\ Fit(x) /\ DOMAIN x = DOMAIN n
    /\ x.halted = n.halted /\ x.why = n.why /\ x.causes = n.causes
    /\ x.mem = n.mem /\ x.bps = n.bps /\ x.ran = n.ran /\ x.epoch = n.epoch
<1> SUFFICES ASSUME NEW n, NEW x, Fit(n), Quiet(n, x)
             PROVE  /\ Fit(x) /\ DOMAIN x = DOMAIN n
                    /\ x.halted = n.halted /\ x.why = n.why /\ x.causes = n.causes
                    /\ x.mem = n.mem /\ x.bps = n.bps /\ x.ran = n.ran /\ x.epoch = n.epoch
  OBVIOUS
<1>1. DOMAIN x = DOMAIN n /\ \A g \in DOMAIN n \ Loose : x[g] = n[g]
  BY DEF Quiet, Changed
<1>2. {"halted", "why", "causes", "mem", "bps", "ran", "epoch"} \subseteq DOMAIN n \ Loose
  BY DEF Fit, CoreFields, Loose
<1>3. /\ x.halted = n.halted /\ x.why = n.why /\ x.causes = n.causes
      /\ x.mem = n.mem /\ x.bps = n.bps /\ x.ran = n.ran /\ x.epoch = n.epoch
  BY <1>1, <1>2
<1> QED BY <1>1, <1>3 DEF Fit, Quiet

\* An operation that goes nowhere leaves the core where it is.
LEMMA QuietHolds == \A n, x : Fit(n) /\ Quiet(n, x) => Holds(n, x)
<1> SUFFICES ASSUME NEW n, NEW x, Fit(n), Quiet(n, x) PROVE Holds(n, x)
  OBVIOUS
<1>1. Changed(n, x, Loose \cup {"halted", "why", "seen", "sh"})
  BY ChangedMore DEF Quiet
<1>2. n.halted \in BOOLEAN
  BY DEF Fit
<1> QED BY <1>1, <1>2, QuietKeeps DEF Holds, Quiet

\* So do two that leave it.
LEMMA HoldsTrans == \A a, b, c : Holds(a, b) /\ Holds(b, c) => Holds(a, c)
<1> SUFFICES ASSUME NEW a, NEW b, NEW c, Holds(a, b), Holds(b, c) PROVE Holds(a, c)
  OBVIOUS
<1>1. Changed(a, c, Loose \cup {"halted", "why", "seen", "sh"})
  BY ChangedTrans DEF Holds
<1> QED BY <1>1 DEF Holds

\* What leaves the core where it is may be called a move.
LEMMA HoldsMoves == \A n, x : Fit(n) /\ Holds(n, x) => Moves(n, x) /\ x.epoch = n.epoch
<1> SUFFICES ASSUME NEW n, NEW x, Fit(n), Holds(n, x) PROVE Moves(n, x) /\ x.epoch = n.epoch
  OBVIOUS
<1>1. Loose \cup {"halted", "why", "seen", "sh"} \subseteq Loose \cup {"halted", "why", "seen", "sh", "ran", "epoch"}
  OBVIOUS
<1>2. Changed(n, x, Loose \cup {"halted", "why", "seen", "sh", "ran", "epoch"})
  BY <1>1, ChangedMore DEF Holds
<1>3. x.epoch = n.epoch
  BY DEF Fit, CoreFields, Holds, Changed, Loose
<1> QED BY <1>2, <1>3 DEF Holds, Moves, Fit

\* Two moves are a move.
LEMMA MovesTrans == \A a, b, c : Moves(a, b) /\ Moves(b, c) => Moves(a, c)
<1> SUFFICES ASSUME NEW a, NEW b, NEW c, Moves(a, b), Moves(b, c) PROVE Moves(a, c)
  OBVIOUS
<1>1. Changed(a, c, Loose \cup {"halted", "why", "seen", "sh", "ran", "epoch"})
  BY ChangedTrans DEF Moves
<1> QED BY <1>1 DEF Moves

\* What a move keeps.
LEMMA MovesKeeps ==
  \A n, x : Fit(n) /\ Moves(n, x) =>
    /\ Fit(x) /\ DOMAIN x = DOMAIN n
    /\ x.causes = n.causes /\ x.mem = n.mem /\ x.bps = n.bps
<1> SUFFICES ASSUME NEW n, NEW x, Fit(n), Moves(n, x)
             PROVE  /\ Fit(x) /\ DOMAIN x = DOMAIN n
                    /\ x.causes = n.causes /\ x.mem = n.mem /\ x.bps = n.bps
  OBVIOUS
<1> DEFINE S == Loose \cup {"halted", "why", "seen", "sh", "ran", "epoch"}
<1>1. DOMAIN x = DOMAIN n /\ \A g \in DOMAIN n \ S : x[g] = n[g]
  BY DEF Moves, Changed
<1>2. {"causes", "mem", "bps"} \subseteq DOMAIN n \ S
  BY DEF Fit, CoreFields, Loose
<1>3. x.causes = n.causes /\ x.mem = n.mem /\ x.bps = n.bps
  BY <1>1, <1>2
<1> QED BY <1>1, <1>3 DEF Fit, Moves

(* Operations that leave the core where it is, or look at it. *)

\* To look at the core leaves it where it is.
LEMMA LookHolds ==
  \A n : Fit(n) => \A x : Changed(n, x, Look) /\ x.halted \in BOOLEAN
                            /\ (n.halted => x.halted /\ x.why = n.why) => Holds(n, x) /\ x.regs = n.regs
<1>1. Look \subseteq Loose \cup {"halted", "why", "seen", "sh"}
  BY DEF Look, Loose
<1> SUFFICES ASSUME NEW n, Fit(n), NEW x, Changed(n, x, Look), x.halted \in BOOLEAN,
                    n.halted => x.halted /\ x.why = n.why
             PROVE  Holds(n, x) /\ x.regs = n.regs
  OBVIOUS
<1>2. x.regs = n.regs
  BY DEF Fit, CoreFields, Changed, Look
<1> QED BY <1>1, <1>2, ChangedMore DEF Holds

\* So does reading its state once.
LEMMA PollHolds ==
  \A n : Fit(n) => \A o \in Poll(n) :
    /\ Holds(n, o.m) /\ Watched(n, o.m) /\ Changed(n, o.m, Look)
    /\ o.ok => (o.val = Yes <=> o.m.halted)
<1> SUFFICES ASSUME NEW n, Fit(n), NEW o \in Poll(n)
             PROVE  /\ Holds(n, o.m) /\ Watched(n, o.m) /\ Changed(n, o.m, Look)
                    /\ o.ok => (o.val = Yes <=> o.m.halted)
  OBVIOUS
<1>1. /\ Changed(n, o.m, Look) /\ Watched(n, o.m) /\ o.m.halted \in BOOLEAN
      /\ o.ok => (o.val = Yes <=> o.m.halted)
  BY PollGives DEF Fit, CoreFields
<1> QED BY <1>1, LookHolds DEF Watched

\* So does waiting for it to halt.
LEMMA AwaitHolds ==
  \A n : Fit(n) => \A o \in AwaitHalt(n) :
    Holds(n, o.m) /\ Changed(n, o.m, Look) /\ (o.ok => o.m.halted)
<1> SUFFICES ASSUME NEW n, Fit(n), NEW o \in AwaitHalt(n)
             PROVE  Holds(n, o.m) /\ Changed(n, o.m, Look) /\ (o.ok => o.m.halted)
  OBVIOUS
<1>1. /\ Changed(n, o.m, Look) /\ o.m.halted \in BOOLEAN
      /\ n.halted => o.m.halted /\ o.m.why = n.why
      /\ o.ok => o.m.halted
  BY AwaitGives DEF Fit, CoreFields
<1> QED BY <1>1, LookHolds

(* The core is resumed, or reset. *)
LEMMA RestartMoves ==
  \A n : Fit(n) => /\ Moves(n, Restarted(n)) /\ Restarted(n).halted = FALSE
                   /\ \A g \in DOMAIN n \ {"halted", "ran", "epoch", "regs"} : Restarted(n)[g] = n[g]
<1> SUFFICES ASSUME NEW n, Fit(n)
             PROVE  /\ Moves(n, Restarted(n)) /\ Restarted(n).halted = FALSE
                    /\ \A g \in DOMAIN n \ {"halted", "ran", "epoch", "regs"} : Restarted(n)[g] = n[g]
  OBVIOUS
<1>1. CASE ~n.halted
  BY <1>1, ChangedRefl DEF Restarted, Moves, Fit
<1>2. CASE n.halted
  <2> DEFINE x == Restarted(n)
  <2>1. x = [n EXCEPT !.halted = FALSE, !.ran = Append(@, n.regs), !.epoch = 1 - @, !.regs = Own(1 - n.epoch)]
    BY <1>2 DEF Restarted
  <2>2. {"halted", "ran", "epoch", "regs"} \subseteq DOMAIN n
    BY DEF Fit, CoreFields
  <2>3. /\ DOMAIN x = DOMAIN n /\ x.halted = FALSE /\ x.epoch = 1 - n.epoch
        /\ x.regs = Own(1 - n.epoch)
        /\ \A g \in DOMAIN n \ {"halted", "ran", "epoch", "regs"} : x[g] = n[g]
    BY <2>1, <2>2
  <2>. HIDE DEF x
  <2>4. x.epoch \in {0, 1} /\ DOMAIN x.regs = Regs
    BY <2>3 DEF Fit, Own
  <2>5. Changed(n, x, Loose \cup {"halted", "why", "seen", "sh", "ran", "epoch"})
    BY <2>3 DEF Changed, Loose
  <2>6. Moves(n, x)
    BY <2>3, <2>4, <2>5 DEF Moves
  <2> QED BY <2>3, <2>6 DEF x
<1> QED BY <1>1, <1>2 DEF Fit

\* A reset is a move, to the other program counter.
LEMMA ResetMoves ==
  \A n : Fit(n) => /\ Moves(n, WasReset(n)) /\ WasReset(n).halted = FALSE
                   /\ WasReset(n).epoch # n.epoch
                   /\ \A g \in DOMAIN n \ {"halted", "epoch", "regs"} : WasReset(n)[g] = n[g]
<1> SUFFICES ASSUME NEW n, Fit(n)
             PROVE  /\ Moves(n, WasReset(n)) /\ WasReset(n).halted = FALSE
                    /\ WasReset(n).epoch # n.epoch
                    /\ \A g \in DOMAIN n \ {"halted", "epoch", "regs"} : WasReset(n)[g] = n[g]
  OBVIOUS
<1> DEFINE x == WasReset(n)
<1>1. {"halted", "epoch", "regs"} \subseteq DOMAIN n
  BY DEF Fit, CoreFields
<1>2. /\ DOMAIN x = DOMAIN n /\ x.halted = FALSE /\ x.epoch = 1 - n.epoch
      /\ x.regs = Own(1 - n.epoch)
      /\ \A g \in DOMAIN n \ {"halted", "epoch", "regs"} : x[g] = n[g]
  BY <1>1 DEF WasReset
<1>. HIDE DEF x
<1>3. x.epoch \in {0, 1} /\ x.epoch # n.epoch /\ DOMAIN x.regs = Regs
  BY <1>2 DEF Fit, Own
<1>4. Changed(n, x, Loose \cup {"halted", "why", "seen", "sh", "ran", "epoch"})
  BY <1>2 DEF Changed, Loose
<1>5. Moves(n, x)
  BY <1>2, <1>3, <1>4 DEF Moves
<1> QED BY <1>2, <1>3, <1>5 DEF x

(* Breakpoints are taken to be enabled, or not.                             *)
Enables(n, b) == [n EXCEPT !.bpOn = b]

-----------------------------------------------------------------------------
(* The drivers of ARMv7-A and ARMv8-A.                                    *)

(* The drivers of ARMv7-A and ARMv8-A let a halted core execute             *)
(* instructions, and nothing comes of that on one that runs.                *)
FitA(n) == Fit(n) /\ {"seen", "cache"} \subseteq DOMAIN n
NoCache == [r \in Regs |-> [in |-> FALSE, val |-> Junk, dirty |-> FALSE]]
GoodA(n) == FitA(n) /\ (~n.halted => n.cache = NoCache)
QuietA(n, x) ==
  /\ FitA(n) /\ FitA(x) /\ Quiet(n, x)
  /\ x.halted = n.halted /\ x.seen = n.seen /\ x.why = n.why
  /\ n.halted \/ x.cache = n.cache

\* When an operation that goes nowhere does so to the cache.
LEMMA QuietIsA ==
  \A n, x : FitA(n) /\ Quiet(n, x) /\ (n.halted \/ x.cache = n.cache) => QuietA(n, x)
<1> SUFFICES ASSUME NEW n, NEW x, FitA(n), Quiet(n, x), n.halted \/ x.cache = n.cache
             PROVE  QuietA(n, x)
  OBVIOUS
<1>1. Fit(x) /\ DOMAIN x = DOMAIN n /\ x.halted = n.halted /\ x.why = n.why
  BY QuietKeeps DEF FitA
<1>2. x.seen = n.seen
  BY DEF FitA, Quiet, Changed, Loose
<1> QED BY <1>1, <1>2 DEF QuietA, FitA

\* To do nothing, or to fail, goes nowhere.
LEMMA QuietARefl == \A n : FitA(n) => QuietA(n, n) /\ QuietA(n, Spent(n))
<1> SUFFICES ASSUME NEW n, FitA(n) PROVE QuietA(n, n) /\ QuietA(n, Spent(n))
  OBVIOUS
<1>1. Spent(n).cache = n.cache
  BY DEF Spent
<1> QED BY <1>1, QuietRefl, QuietIsA

\* Nor do two operations that go nowhere.
LEMMA QuietATrans == \A a, b, c : QuietA(a, b) /\ QuietA(b, c) => QuietA(a, c)
<1> SUFFICES ASSUME NEW a, NEW b, NEW c, QuietA(a, b), QuietA(b, c) PROVE QuietA(a, c)
  OBVIOUS
<1>1. Quiet(a, c)
  BY QuietTrans DEF QuietA
<1> QED BY <1>1 DEF QuietA

\* What such an operation keeps, the empty cache of a running core among it.
LEMMA QuietAKeeps ==
  \A n, x : QuietA(n, x) =>
    /\ FitA(x) /\ (GoodA(n) => GoodA(x)) /\ DOMAIN x = DOMAIN n
    /\ x.halted = n.halted /\ x.why = n.why /\ x.causes = n.causes /\ x.seen = n.seen
    /\ x.mem = n.mem /\ x.bps = n.bps /\ x.epoch = n.epoch
    /\ ~n.halted => x.cache = n.cache
<1> SUFFICES ASSUME NEW n, NEW x, QuietA(n, x)
             PROVE  /\ FitA(x) /\ (GoodA(n) => GoodA(x)) /\ DOMAIN x = DOMAIN n
                    /\ x.halted = n.halted /\ x.why = n.why /\ x.causes = n.causes /\ x.seen = n.seen
                    /\ x.mem = n.mem /\ x.bps = n.bps /\ x.epoch = n.epoch
                    /\ ~n.halted => x.cache = n.cache
  OBVIOUS
<1>1. /\ DOMAIN x = DOMAIN n /\ x.causes = n.causes
      /\ x.mem = n.mem /\ x.bps = n.bps /\ x.epoch = n.epoch
  BY QuietKeeps DEF QuietA, FitA
<1> QED BY <1>1 DEF QuietA, GoodA

(* A register of a halted core changes, or what the driver keeps of it.    *)
Given(n, r, v) == [n EXCEPT !.regs[r] = v]

\* A register of a halted core is given a value.
LEMMA GivenQuietA ==
  \A n, r, v : FitA(n) /\ n.halted =>
    QuietA(n, Given(n, r, v)) /\ (r \in Regs => Given(n, r, v).regs[r] = v)
<1> SUFFICES ASSUME NEW n, NEW r, NEW v, FitA(n), n.halted
             PROVE  QuietA(n, Given(n, r, v)) /\ (r \in Regs => Given(n, r, v).regs[r] = v)
  OBVIOUS
<1>1. "regs" \in DOMAIN n /\ DOMAIN n.regs = Regs
  BY DEF FitA, Fit, CoreFields
<1>2. Changed(n, Given(n, r, v), Loose) /\ Given(n, r, v).regs = [n.regs EXCEPT ![r] = v]
  BY <1>1 DEF Changed, Loose, Given
<1>3. Quiet(n, Given(n, r, v))
  BY <1>2 DEF Quiet
<1> QED BY <1>1, <1>2, <1>3, QuietIsA
Entered(n, r, e) == [n EXCEPT !.cache[r] = e]

\* A register of a halted core is entered in the cache.
LEMMA EnteredQuietA ==
  \A n, r, e : FitA(n) /\ n.halted => QuietA(n, Entered(n, r, e))
<1> SUFFICES ASSUME NEW n, NEW r, NEW e, FitA(n), n.halted
             PROVE  QuietA(n, Entered(n, r, e))
  OBVIOUS
<1>1. Changed(n, Entered(n, r, e), Loose) /\ Entered(n, r, e).regs = n.regs
  BY DEF Changed, Loose, Entered
<1> QED BY <1>1, QuietIsA DEF Quiet

\* The target is still one, as halted as it was.
LEMMA QuietAFit == \A n, x : QuietA(n, x) => FitA(x) /\ x.halted = n.halted
BY DEF QuietA

(* The cache is emptied. *)
Forgot(n) == [n EXCEPT !.cache = NoCache]

\* A driver that forgets its cache is in order, whatever the core does.
LEMMA ForgotGood ==
  \A n : FitA(n) => /\ GoodA(Forgot(n)) /\ Quiet(n, Forgot(n)) /\ Forgot(n).cache = NoCache
                    /\ Forgot(n).seen = n.seen /\ (GoodA(n) => QuietA(n, Forgot(n)))
<1> SUFFICES ASSUME NEW n, FitA(n)
             PROVE  /\ GoodA(Forgot(n)) /\ Quiet(n, Forgot(n)) /\ Forgot(n).cache = NoCache
                    /\ Forgot(n).seen = n.seen /\ (GoodA(n) => QuietA(n, Forgot(n)))
  OBVIOUS
<1>1. /\ Changed(n, Forgot(n), Loose) /\ Forgot(n).regs = n.regs /\ DOMAIN Forgot(n) = DOMAIN n
      /\ Forgot(n).cache = NoCache /\ Forgot(n).seen = n.seen
  BY DEF Changed, Loose, Forgot, FitA
<1>2. Quiet(n, Forgot(n))
  BY <1>1 DEF Quiet
<1>3. Fit(Forgot(n))
  BY <1>2, QuietKeeps DEF FitA
<1> QED BY <1>1, <1>2, <1>3, QuietIsA DEF FitA, GoodA

(* The core may stop by itself.                                             *)
HoldsA(n, x) == FitA(n) /\ FitA(x) /\ Holds(n, x) /\ (x.halted \/ x.cache = n.cache)

\* An operation that goes nowhere leaves the core where it is.
LEMMA QuietHoldsA == \A n, x : QuietA(n, x) => HoldsA(n, x) /\ Watched(n, x)
<1> SUFFICES ASSUME NEW n, NEW x, QuietA(n, x) PROVE HoldsA(n, x) /\ Watched(n, x)
  OBVIOUS
<1>1. Holds(n, x)
  BY QuietHolds DEF QuietA, FitA
<1> QED BY <1>1 DEF QuietA, HoldsA, Watched

\* So do two that leave it.
LEMMA HoldsATrans == \A a, b, c : HoldsA(a, b) /\ HoldsA(b, c) => HoldsA(a, c)
<1> SUFFICES ASSUME NEW a, NEW b, NEW c, HoldsA(a, b), HoldsA(b, c) PROVE HoldsA(a, c)
  OBVIOUS
<1>1. Holds(a, c)
  BY HoldsTrans DEF HoldsA
<1> QED BY <1>1 DEF HoldsA, Holds

\* What they keep.
LEMMA HoldsAKeeps ==
  \A n, x : HoldsA(n, x) =>
    /\ FitA(x) /\ (GoodA(n) => GoodA(x)) /\ Moves(n, x) /\ x.epoch = n.epoch
    /\ n.halted => x.halted /\ x.why = n.why
<1> SUFFICES ASSUME NEW n, NEW x, HoldsA(n, x)
             PROVE  /\ FitA(x) /\ (GoodA(n) => GoodA(x)) /\ Moves(n, x) /\ x.epoch = n.epoch
                    /\ n.halted => x.halted /\ x.why = n.why
  OBVIOUS
<1>1. Moves(n, x) /\ x.epoch = n.epoch
  BY HoldsMoves DEF HoldsA, FitA
<1> QED BY <1>1 DEF HoldsA, Holds, GoodA

\* A move leaves the driver's fields there.
LEMMA MovesA == \A n, x : FitA(n) /\ Moves(n, x) => FitA(x)
BY MovesKeeps DEF FitA

(* The driver notes what it saw. *)
Noted(n, s) == [n EXCEPT !.seen = s]

\* The driver notes what it saw of the core.
LEMMA NotedHoldsA ==
  \A n, s : FitA(n) => /\ HoldsA(n, Noted(n, s)) /\ Noted(n, s).seen = s
                       /\ Noted(n, s).halted = n.halted /\ Noted(n, s).why = n.why
                       /\ Noted(n, s).cache = n.cache /\ Noted(n, s).epoch = n.epoch
<1> SUFFICES ASSUME NEW n, NEW s, FitA(n)
             PROVE  /\ HoldsA(n, Noted(n, s)) /\ Noted(n, s).seen = s
                    /\ Noted(n, s).halted = n.halted /\ Noted(n, s).why = n.why
                    /\ Noted(n, s).cache = n.cache /\ Noted(n, s).epoch = n.epoch
  OBVIOUS
<1> DEFINE x == Noted(n, s)
<1>1. /\ Changed(n, x, Loose \cup {"halted", "why", "seen", "sh"}) /\ x.seen = s
      /\ x.halted = n.halted /\ x.why = n.why /\ x.cache = n.cache /\ x.epoch = n.epoch
      /\ x.regs = n.regs
  BY DEF Changed, Loose, FitA, Noted
<1>2. Holds(n, x)
  BY <1>1 DEF Holds, FitA, Fit
<1>3. Fit(x) /\ DOMAIN x = DOMAIN n
  BY <1>2, HoldsMoves, MovesKeeps DEF FitA
<1> QED BY <1>1, <1>2, <1>3 DEF HoldsA, FitA

\* It reads the state of the core once.
LEMMA PollHoldsA ==
  \A n : FitA(n) => \A o \in Poll(n) :
    /\ HoldsA(n, o.m) /\ Watched(n, o.m) /\ o.m.cache = n.cache
    /\ o.ok => (o.val = Yes <=> o.m.halted)
<1> SUFFICES ASSUME NEW n, FitA(n), NEW o \in Poll(n)
             PROVE  /\ HoldsA(n, o.m) /\ Watched(n, o.m) /\ o.m.cache = n.cache
                    /\ o.ok => (o.val = Yes <=> o.m.halted)
  OBVIOUS
<1>1. /\ Holds(n, o.m) /\ Watched(n, o.m) /\ Changed(n, o.m, Look)
      /\ o.ok => (o.val = Yes <=> o.m.halted)
  BY PollHolds DEF FitA
<1>2. o.m.cache = n.cache
  BY <1>1 DEF FitA, Changed, Look
<1>3. FitA(o.m)
  BY <1>1, HoldsMoves, MovesA DEF FitA
<1> QED BY <1>1, <1>2, <1>3 DEF HoldsA

\* It waits for the core to halt.
LEMMA AwaitHoldsA ==
  \A n : FitA(n) => \A o \in AwaitHalt(n) : HoldsA(n, o.m) /\ o.m.cache = n.cache /\ (o.ok => o.m.halted)
<1> SUFFICES ASSUME NEW n, FitA(n), NEW o \in AwaitHalt(n)
             PROVE  HoldsA(n, o.m) /\ o.m.cache = n.cache /\ (o.ok => o.m.halted)
  OBVIOUS
<1>1. Holds(n, o.m) /\ Changed(n, o.m, Look) /\ (o.ok => o.m.halted)
  BY AwaitHolds DEF FitA
<1>2. o.m.cache = n.cache
  BY <1>1 DEF FitA, Changed, Look
<1>3. FitA(o.m)
  BY <1>1, HoldsMoves, MovesA DEF FitA
<1> QED BY <1>1, <1>2, <1>3 DEF HoldsA

\* One access of the probe, which may fail.
LEMMA AccessA ==
  \A n, v : FitA(n) => \A o \in Access(n, n, v) : QuietA(n, o.m) /\ (o.ok => o.m = n)
BY AccessGives, QuietARefl

\* A core that only stops by itself is not held by the debugger.
LEMMA UnforcedA ==
  \A n, x : FitA(n) /\ Watched(n, x) /\ Unforced(n) => Unforced(x)
BY DEF FitA, Fit, Watched, Unforced

(* One breakpoint unit is given the address x, or Free. *)
UnitsSet(n, o, u, x) ==
  /\ Changed(n, o.m, {"faults", "bps"})
  /\ \/ o.m.bps = [n.bps EXCEPT ![u] = x]
     \/ ~o.ok /\ (o.m.bps = n.bps \/ \E y : o.m.bps = [n.bps EXCEPT ![u] = y])

\* One access sets one breakpoint unit, or fails.
LEMMA AccessSetsUnit ==
  \A n, u, x : {"faults", "bps"} \subseteq DOMAIN n =>
    \A o \in Access(n, [n EXCEPT !.bps[u] = x], Junk) : UnitsSet(n, o, u, x)
<1> SUFFICES ASSUME NEW n, NEW u, NEW x, {"faults", "bps"} \subseteq DOMAIN n,
                    NEW o \in Access(n, [n EXCEPT !.bps[u] = x], Junk)
             PROVE  UnitsSet(n, o, u, x)
  OBVIOUS
<1> DEFINE y == [n EXCEPT !.bps[u] = x]
<1>1. \/ o.ok /\ o.m = y
      \/ ~o.ok /\ o.m \in {Spent(n), Spent(y)}
  BY AccessGives
<1>2. Changed(n, y, {"faults", "bps"}) /\ y.bps = [n.bps EXCEPT ![u] = x]
  BY DEF Changed
<1>. HIDE DEF y
<1>3. Changed(n, Spent(n), {"faults", "bps"}) /\ Spent(n).bps = n.bps
      /\ Changed(n, Spent(y), {"faults", "bps"}) /\ Spent(y).bps = y.bps
  BY <1>2 DEF Changed, Spent
<1> QED BY <1>1, <1>2, <1>3 DEF UnitsSet

(* A breakpoint unit is set. *)
UnitAt(n, u, x) == [n EXCEPT !.bps[u] = x]

\* An access moves the unit to y, or leaves it alone, and another one sets it.
LEMMA TwoSetUnit ==
  \A n, u, x, y, k : {"faults", "bps"} \subseteq DOMAIN n /\ k \in {n, UnitAt(n, u, y)} =>
    \A a \in Access(n, k, Junk) :
      /\ ~a.ok => UnitsSet(n, a, u, x)
      /\ a.ok => \A o \in Access(a.m, UnitAt(a.m, u, x), Junk) : UnitsSet(n, o, u, x)
<1> SUFFICES ASSUME NEW n, NEW u, NEW x, NEW y, NEW k, {"faults", "bps"} \subseteq DOMAIN n,
                    k \in {n, UnitAt(n, u, y)}, NEW a \in Access(n, k, Junk)
             PROVE  /\ ~a.ok => UnitsSet(n, a, u, x)
                    /\ a.ok => \A o \in Access(a.m, UnitAt(a.m, u, x), Junk) : UnitsSet(n, o, u, x)
  OBVIOUS
<1>1. (a.ok /\ a.m = k) \/ (~a.ok /\ a.m \in {Spent(n), Spent(k)})
  BY AccessGives
<1>2. Changed(n, k, {"faults", "bps"}) /\ k.bps \in {n.bps, [n.bps EXCEPT ![u] = y]}
  BY DEF Changed, UnitAt
<1>. HIDE DEF Changed
<1>3. ~a.ok => UnitsSet(n, a, u, x)
  <2>1. /\ Changed(n, Spent(n), {"faults", "bps"}) /\ Spent(n).bps = n.bps
        /\ Changed(n, Spent(k), {"faults", "bps"}) /\ Spent(k).bps = k.bps
    BY <1>2 DEF Changed, Spent
  <2> QED BY <1>1, <1>2, <2>1 DEF UnitsSet
<1>4. ASSUME a.ok, NEW o \in Access(k, UnitAt(k, u, x), Junk) PROVE UnitsSet(n, o, u, x)
  <2>1. UnitsSet(k, o, u, x)
    BY <1>2, <1>4, AccessSetsUnit DEF Changed, UnitAt
  <2>2. \A z : [k.bps EXCEPT ![u] = z] = [n.bps EXCEPT ![u] = z]
    BY <1>2
  <2>3. Changed(n, o.m, {"faults", "bps"})
    BY <1>2, <2>1, ChangedTrans DEF UnitsSet
  <2> QED BY <1>2, <2>1, <2>2, <2>3 DEF UnitsSet
<1> QED BY <1>1, <1>3, <1>4

(* A core that is resumed runs, or stops again where it is.                 *)
Resumes(n) == UNION {Access(n, x, Junk) : x \in {Restarted(n)} \cup StopsAgain(n, {"self"})}

\* A core with an empty cache is resumed, and is not held.
LEMMA ResumesA ==
  \A n : GoodA(n) /\ n.cache = NoCache => \A o \in Resumes(n) :
    GoodA(o.m) /\ Moves(n, o.m) /\ (o.ok => Unforced(o.m))
<1> SUFFICES ASSUME NEW n, GoodA(n), n.cache = NoCache,
                    NEW x \in {Restarted(n)} \cup StopsAgain(n, {"self"}), NEW o \in Access(n, x, Junk)
             PROVE  GoodA(o.m) /\ Moves(n, o.m) /\ (o.ok => Unforced(o.m))
  BY DEF Resumes
<1>1. FitA(n) /\ Fit(n) /\ "cache" \in DOMAIN n \ {"halted", "ran", "epoch", "regs"}
  BY DEF GoodA, FitA
<1>2. Moves(n, x) /\ x.cache = NoCache /\ Unforced(x)
  <2>1. CASE x = Restarted(n)
    BY <1>1, <2>1, RestartMoves DEF Unforced
  <2>2. CASE x \in StopsAgain(n, {"self"})
    <3>1. x = [n EXCEPT !.why = "self"] /\ {"why", "halted", "epoch", "regs"} \subseteq DOMAIN n
      BY <1>1, <2>2 DEF StopsAgain, Fit, CoreFields
    <3>2. /\ Changed(n, x, {"why"}) /\ x.why = "self" /\ x.cache = n.cache
          /\ x.halted = n.halted /\ x.epoch = n.epoch /\ x.regs = n.regs
      BY <3>1 DEF Changed
    <3>3. Changed(n, x, Loose \cup {"halted", "why", "seen", "sh", "ran", "epoch"})
      BY <3>2, ChangedMore
    <3> QED BY <1>1, <3>2, <3>3 DEF Moves, Fit, Unforced
  <2> QED BY <2>1, <2>2
<1>3. GoodA(x) /\ FitA(x)
  BY <1>1, <1>2, MovesA DEF GoodA
<1>4. (o.ok /\ o.m = x) \/ (~o.ok /\ o.m \in {Spent(n), Spent(x)})
  BY AccessGives
<1>5. \A k : GoodA(k) => GoodA(Spent(k)) /\ Moves(k, Spent(k))
  BY QuietARefl, QuietHoldsA, HoldsAKeeps DEF GoodA
<1> QED BY <1>2, <1>3, <1>4, <1>5, MovesTrans

(* A lane is patched into the word around it.                               *)
LEMMA PatchedLane ==
  \A mem \in [Lanes -> {0, 1}], l \in Lanes :
    /\ Patched(mem, WordOf(l), WithLane(Word(mem, WordOf(l)), l)) = [mem EXCEPT ![l] = 1]
    /\ WordOf(l) \in {0, 2} /\ Word(mem, WordOf(l)) \in 0 .. 3
<1> SUFFICES ASSUME NEW mem \in [Lanes -> {0, 1}], NEW l \in Lanes
             PROVE  /\ Patched(mem, WordOf(l), WithLane(Word(mem, WordOf(l)), l)) = [mem EXCEPT ![l] = 1]
                    /\ WordOf(l) \in {0, 2} /\ Word(mem, WordOf(l)) \in 0 .. 3
  OBVIOUS
<1>1. /\ 0 % 2 = 0 /\ 1 % 2 = 1 /\ 2 % 2 = 0 /\ 3 % 2 = 1
      /\ 0 \div 2 = 0 /\ 1 \div 2 = 0 /\ 2 \div 2 = 1 /\ 3 \div 2 = 1
  OBVIOUS
<1>2. l \in {0, 1, 2, 3} /\ Lanes = {0, 1, 2, 3}
  BY DEF Lanes
<1>3. WordOf(l) = IF l \in {0, 1} THEN 0 ELSE 2
  BY <1>1, <1>2 DEF WordOf
<1>4. \A a \in {0, 2} : a \in Lanes /\ a + 1 \in Lanes /\ mem[a] \in {0, 1} /\ mem[a + 1] \in {0, 1}
  BY <1>2
<1>5. \A a \in {0, 2} : Word(mem, a) \in 0 .. 3 /\ Word(mem, a) % 2 = mem[a] /\ Word(mem, a) \div 2 = mem[a + 1]
  BY <1>1, <1>4 DEF Word
<1>6. \A a \in {0, 2} : LET k == Word(mem, a) IN
        /\ (1 + 2 * (k \div 2)) % 2 = 1 /\ (1 + 2 * (k \div 2)) \div 2 = mem[a + 1]
        /\ (2 + (k % 2)) % 2 = mem[a] /\ (2 + (k % 2)) \div 2 = 1
  BY <1>1, <1>4, <1>5
<1>7. \A a, y : Patched(mem, a, y) = [mem EXCEPT ![a] = y % 2, ![a + 1] = y \div 2]
  BY DEF Patched
<1>8. ASSUME NEW a \in {0, 2}
      PROVE  /\ [mem EXCEPT ![a] = 1, ![a + 1] = mem[a + 1]] = [mem EXCEPT ![a] = 1]
             /\ [mem EXCEPT ![a] = mem[a], ![a + 1] = 1] = [mem EXCEPT ![a + 1] = 1]
  <2>1. mem = [q \in Lanes |-> mem[q]]
    OBVIOUS
  <2>2. [mem EXCEPT ![a] = 1, ![a + 1] = mem[a + 1]] = [mem EXCEPT ![a] = 1]
    <3> DEFINE b == a + 1
    <3>1. a \in Lanes /\ b \in Lanes /\ a # b
      BY <1>4
    <3>. HIDE DEF b
    <3>2. [mem EXCEPT ![a] = 1, ![b] = mem[b]] = [mem EXCEPT ![a] = 1]
      BY <2>1, <3>1
    <3> QED BY <3>2 DEF b
  <2>3. [mem EXCEPT ![a] = mem[a], ![a + 1] = 1] = [mem EXCEPT ![a + 1] = 1]
    BY <1>4, <2>1
  <2> QED BY <2>2, <2>3
<1> DEFINE a == WordOf(l)
<1>9. CASE l \in {0, 2}
  <2>1. WordOf(l) = l /\ l % 2 = 0
    BY <1>1, <1>3, <1>9
  <2> QED BY <1>5, <1>6, <1>8, <1>9, <2>1 DEF Patched, WithLane
<1>10. CASE l \in {1, 3}
  <2>1. a + 1 = l /\ a \in {0, 2} /\ l % 2 = 1
    BY <1>1, <1>3, <1>10
  <2>. HIDE DEF a
  <2>2. WithLane(Word(mem, a), l) = 2 + (Word(mem, a) % 2)
    BY <2>1 DEF WithLane
  <2>3. Patched(mem, a, WithLane(Word(mem, a), l)) = [mem EXCEPT ![a] = mem[a], ![a + 1] = 1]
    BY <1>5, <1>6, <2>1, <2>2 DEF Patched
  <2> QED BY <1>5, <1>8, <2>1, <2>3 DEF a
<1> QED BY <1>2, <1>9, <1>10

(* Memory may change, and nothing else that matters.                       *)
StoresA(n, x) ==
  /\ FitA(n) /\ FitA(x) /\ DOMAIN x = DOMAIN n
  /\ x.halted = n.halted /\ x.why = n.why /\ x.seen = n.seen /\ x.causes = n.causes
  /\ x.bps = n.bps /\ x.epoch = n.epoch
  /\ ~n.halted => x.cache = n.cache

\* An operation that goes nowhere stores nothing.
LEMMA QuietStoresA == \A n, x : QuietA(n, x) => StoresA(n, x) /\ x.mem = n.mem
BY QuietAKeeps DEF QuietA, StoresA

\* Two operations that may store may store.
LEMMA StoresATrans == \A a, b, c : StoresA(a, b) /\ StoresA(b, c) => StoresA(a, c)
BY DEF StoresA

\* To store leaves the driver in order.
LEMMA StoresAGood == \A n, x : StoresA(n, x) /\ GoodA(n) => GoodA(x)
BY DEF StoresA, GoodA

(* The word at a becomes k, unless that failed.                             *)
StoresWord(n, o, a, k) ==
  /\ StoresA(n, o.m)
  /\ o.m.mem = Patched(n.mem, a, k) \/ (~o.ok /\ o.m.mem = n.mem)
Stored(n, r, v, mem) == [n EXCEPT !.regs[r] = v, !.mem = mem]

\* The instruction that stores a register.
LEMMA StoredStoresA ==
  \A n, r, v, mem : FitA(n) /\ n.halted /\ mem \in [Lanes -> {0, 1}] =>
    StoresA(n, Stored(n, r, v, mem)) /\ Stored(n, r, v, mem).mem = mem
<1> SUFFICES ASSUME NEW n, NEW r, NEW v, NEW mem, FitA(n), n.halted, mem \in [Lanes -> {0, 1}]
             PROVE  StoresA(n, Stored(n, r, v, mem)) /\ Stored(n, r, v, mem).mem = mem
  OBVIOUS
<1> DEFINE x == Stored(n, r, v, mem)
<1>1. CoreFields \subseteq DOMAIN n /\ {"seen", "cache"} \subseteq DOMAIN n
  BY DEF FitA, Fit
<1>2. /\ DOMAIN x = DOMAIN n /\ x.mem = mem /\ x.halted = n.halted /\ x.why = n.why
      /\ x.causes = n.causes /\ x.bps = n.bps /\ x.epoch = n.epoch /\ x.seen = n.seen
      /\ x.cache = n.cache /\ x.regs = [n.regs EXCEPT ![r] = v]
  BY <1>1 DEF Stored, CoreFields
<1> QED BY <1>2 DEF StoresA, FitA, Fit

(* What an operation leaves of the core that it needs halted for a moment.  *)
ServesA(n, o) ==
  /\ GoodA(o.m) /\ o.m.bps = n.bps
  /\ n.halted => o.m.halted
  /\ o.ok /\ Unforced(n) => Unforced(o.m)

\* What may store does not move the core.
LEMMA StoresServeA == \A n, o : GoodA(n) /\ StoresA(n, o.m) => ServesA(n, o)
BY StoresAGood DEF StoresA, ServesA, Unforced

\* Two operations that need the core halted for a moment.
LEMMA ServesATrans == \A n, a, o : ServesA(n, a) /\ a.ok /\ ServesA(a.m, o) => ServesA(n, o)
BY DEF ServesA

\* A word with one lane changed is written: the other lanes are as they were.
LEMMA PatchedWord ==
  \A mem \in [Lanes -> {0, 1}], l \in Lanes :
    LET p == Patched(mem, WordOf(l), WithLane(Word(mem, WordOf(l)), l))
    IN /\ p \in [Lanes -> {0, 1}] /\ p[l] = 1
       /\ \A q \in Lanes \ {l} : p[q] = mem[q]
BY PatchedLane

(* Every nonempty set of naturals has a least element.                      *)
LEMMA SomeLeast ==
  ASSUME NEW S \in SUBSET Nat, S # {}
  PROVE  \E k \in S : \A j \in S : k <= j
<1>1. IsWellFoundedOn(OpToRel(<, Nat), Nat)
  BY NatLessThanWellFounded
<1>2. \E k \in S : \A j \in S : ~(<<j, k>> \in OpToRel(<, Nat))
  BY <1>1, WFMin, Zenon
<1>3. \E k \in S : \A j \in S : ~(j < k)
  BY <1>2, Zenon DEF OpToRel
<1> QED BY <1>3

(* What holds of no unit, and with every unit of the next, holds of all.    *)
LEMMA UnitByUnit ==
  ASSUME NEW S, 0 \in S, \A u \in 1 .. NumUnits : u - 1 \in S => u \in S
  PROVE  \A u \in 0 .. NumUnits : u \in S
<1>0. NumUnits \in Nat
  BY NumUnitsAssumption
<1> DEFINE Out == (0 .. NumUnits) \ S
<1>1. SUFFICES ASSUME Out # {} PROVE FALSE
  OBVIOUS
<1>2. Out \in SUBSET Nat
  BY <1>0
<1>3. PICK k \in Out : \A j \in Out : k <= j
  BY <1>1, <1>2, SomeLeast
<1>4. k \in 0 .. NumUnits /\ k \notin S /\ k # 0
  BY <1>3
<1>5. k \in 1 .. NumUnits /\ k - 1 \in 0 .. NumUnits /\ ~(k <= k - 1)
  BY <1>0, <1>4
<1>6. k - 1 \in S
  BY <1>3, <1>5
<1> QED BY <1>4, <1>5, <1>6

(* What a byte, and both words, leave in memory; a failure may come between *)
(* the words.                                                               *)
Byted(mem, l) == [mem EXCEPT ![l] = 1]
Half(mem) == Patched(mem, 0, 3)
Whole(mem) == Patched(Half(mem), 2, 3)
Among(mem) == {mem, Half(mem), Whole(mem)}

\* Memory that is written word by word, or a byte, is written as Writes has it.
LEMMA AmongWrites ==
  \A mem \in [Lanes -> {0, 1}] :
    /\ \A o : o.m.mem \in Among(mem) /\ (o.ok => o.m.mem = Whole(mem)) => Writes(mem, o, Lanes)
    /\ \A l \in Lanes : \A o : o.m.mem \in {mem, Byted(mem, l)} /\ (o.ok => o.m.mem = Byted(mem, l)) => Writes(mem, o, {l})
<1> SUFFICES ASSUME NEW mem \in [Lanes -> {0, 1}]
             PROVE  /\ \A o : o.m.mem \in Among(mem) /\ (o.ok => o.m.mem = Whole(mem)) => Writes(mem, o, Lanes)
                    /\ \A l \in Lanes : \A o : o.m.mem \in {mem, Byted(mem, l)} /\ (o.ok => o.m.mem = Byted(mem, l)) => Writes(mem, o, {l})
  OBVIOUS
<1>1. /\ Half(mem) \in [Lanes -> {0, 1}]
      /\ \A l \in Lanes : Half(mem)[l] = IF l \in {0, 1} THEN 1 ELSE mem[l]
  BY PatchedWords DEF Half
<1>2. /\ Whole(mem) \in [Lanes -> {0, 1}]
      /\ \A l \in Lanes : Whole(mem)[l] = 1
  <2>1. \A l \in Lanes : Whole(mem)[l] = IF l \in {2, 3} THEN 1 ELSE Half(mem)[l]
    BY <1>1, PatchedWords DEF Whole
  <2>2. \A l \in Lanes : l \in {2, 3} \/ l \in {0, 1}
    BY DEF Lanes
  <2>3. Whole(mem) \in [Lanes -> {0, 1}]
    BY <1>1, PatchedWords DEF Whole
  <2> QED BY <1>1, <2>1, <2>2, <2>3
<1>3. \A o : o.m.mem \in Among(mem) /\ (o.ok => o.m.mem = Whole(mem)) => Writes(mem, o, Lanes)
  BY <1>1, <1>2 DEF Writes, Among
<1>4. \A l \in Lanes : \A o : o.m.mem \in {mem, Byted(mem, l)} /\ (o.ok => o.m.mem = Byted(mem, l)) => Writes(mem, o, {l})
  BY DEF Writes, Byted
<1> QED BY <1>3, <1>4

-----------------------------------------------------------------------------
(* The driver of Cortex-M.                                                *)

(* The operators of CoreAccess are the same for the driver of Cortex-M. *)
LEMMA CMSame ==
  \A n, x, v :
    /\ CM!Access(n, x, v) = Access(n, x, v) /\ CM!Give(n, v) = Give(n, v)
    /\ CM!Ok(n) = Ok(n) /\ CM!Err(n) = Err(n) /\ CM!Fail(n) = Fail(n)
    /\ CM!Stops(n) = Stops(n) /\ CM!Stopped(n) = Stopped(n)
    /\ CM!Poll(n) = Poll(n) /\ CM!AwaitHalt(n) = AwaitHalt(n) /\ CM!Yes = Yes
    /\ CM!Restarted(n) = Restarted(n) /\ CM!WasReset(n) = WasReset(n)
<1>1. /\ CM!Junk = Junk /\ CM!Units = Units /\ CM!Free = Free /\ CM!Regs = Regs
      /\ \A b : CM!Flag(b) = Flag(b)
  BY DEF CM!Junk, Junk, CM!Units, Units, CM!Free, Free, CM!Regs, Regs, CM!Flag, Flag
<1>2. /\ CM!Yes = Yes /\ \A e : CM!Own(e) = Own(e)
  BY <1>1 DEF CM!Yes, Yes, CM!Own, Own
<1>3. \A n, v : CM!Give(n, v) = Give(n, v) /\ CM!Err(n) = Err(n) /\ CM!Fail(n) = Fail(n)
  BY <1>1 DEF CM!Give, Give, CM!Err, Err, CM!Fail, Fail
<1>4. \A n, x, v : CM!Access(n, x, v) = Access(n, x, v) /\ CM!Ok(n) = Ok(n)
  BY <1>1, <1>3 DEF CM!Access, Access, CM!Ok, Ok
<1>5. \A n : CM!Stopped(n) = Stopped(n) /\ CM!Reasons(n) = Reasons(n)
  BY <1>1 DEF CM!Stopped, Stopped, CM!Reasons, Reasons
<1>6. \A n : CM!Stops(n) = Stops(n)
  BY <1>5 DEF CM!Stops, Stops
<1>7. \A n : CM!Poll(n) = Poll(n)
  BY <1>1, <1>4, <1>6 DEF CM!Poll, Poll
<1>8. \A n : CM!AwaitHalt(n) = AwaitHalt(n)
  BY <1>2, <1>3, <1>4, <1>5, <1>6 DEF CM!AwaitHalt, AwaitHalt
<1>9. \A n : CM!Restarted(n) = Restarted(n) /\ CM!WasReset(n) = WasReset(n)
  BY <1>2 DEF CM!Restarted, Restarted, CM!WasReset, WasReset
<1> QED BY <1>2, <1>3, <1>4, <1>5, <1>6, <1>7, <1>8, <1>9

(* The core was looked at, and the driver noted what it saw. *)
SightCM == Look \cup {"seen", "dfsr", "cleared"}

\* A register is read through DCRDR.
LEMMA CMReadReg ==
  \A n, r : \A o \in CM!ReadReg(n, r) :
    IF o.ok THEN o.m = n /\ o.val = n.regs[r] ELSE o.m \in {n, Spent(n)}
BY AccessGives, CMSame, OutcomesGive DEF CM!ReadReg, CM!Then

\* A register is written through DCRDR.
LEMMA CMWriteRegister ==
  \A n, r, v : \A o \in CM!WriteRegister(n, r, v) :
    LET x == [n EXCEPT !.regs[r] = v]
    IN IF o.ok THEN o.m = x ELSE o.m \in {n, Spent(n), Spent(x)}
<1> SUFFICES ASSUME NEW n, NEW r, NEW v, NEW o \in CM!WriteRegister(n, r, v)
             PROVE  LET x == [n EXCEPT !.regs[r] = v]
                    IN IF o.ok THEN o.m = x ELSE o.m \in {n, Spent(n), Spent(x)}
  OBVIOUS
<1>1. CASE o = Err(n)
  BY <1>1, OutcomesGive
<1>2. ASSUME NEW a \in Access(n, n, CM!Junk),
             IF a.ok THEN o \in Access(a.m, [a.m EXCEPT !.regs[r] = v], CM!Junk) ELSE o = a
      PROVE  LET x == [n EXCEPT !.regs[r] = v]
             IN IF o.ok THEN o.m = x ELSE o.m \in {n, Spent(n), Spent(x)}
  BY <1>2, AccessGives
<1> QED BY <1>1, <1>2, CMSame DEF CM!WriteRegister, CM!Then

\* To look for a semihosting request changes nothing.
LEMMA CMCheckForSemihosting ==
  \A n : \A o \in CM!CheckForSemihosting(n) : o.m \in {n, Spent(n)}
BY AccessGives, CMReadReg, CMSame DEF CM!CheckForSemihosting, CM!Then

\* To clear the reasons of the halt changes nothing else.
LEMMA CMClearDfsr ==
  \A n : \A o \in CM!ClearDfsr(n) : Changed(n, o.m, {"faults", "dfsr", "cleared"})
<1> SUFFICES ASSUME NEW n, NEW o \in CM!ClearDfsr(n)
             PROVE  Changed(n, o.m, {"faults", "dfsr", "cleared"})
  OBVIOUS
<1> DEFINE x == [n EXCEPT !.dfsr = {}, !.cleared = TRUE]
<1>1. o.m \in {x, Spent(n), Spent(x)}
  BY AccessGives, CMSame DEF CM!ClearDfsr
<1> QED BY <1>1 DEF Changed, Spent

\* The status of the core: it answers whether the core is halted.
LEMMA CMStatus ==
  \A n : {"halted", "why"} \subseteq DOMAIN n /\ n.halted \in BOOLEAN =>
    \A o \in CM!Status(n) :
      /\ Changed(n, o.m, SightCM) /\ Watched(n, o.m) /\ o.m.halted \in BOOLEAN
      /\ o.ok => (o.val = Yes <=> o.m.halted)
<1> DEFINE Notes(a, x) == Changed(a, x, {"faults", "seen", "dfsr", "cleared"})
<1>1. \A a, s : Notes(a, CM!SetCoreStatus(a, s))
  BY DEF CM!SetCoreStatus, Changed
<1>2. \A a, b, c : Notes(a, b) /\ Notes(b, c) => Notes(a, c)
  BY ChangedTrans
<1>3. \A a : Notes(a, a) /\ Notes(a, Spent(a))
  BY DEF Changed, Spent
<1>4. \A a : \A o \in CM!ClearDfsr(a) : Notes(a, o.m)
  BY CMClearDfsr DEF Changed
<1>5. \A a : \A o \in CM!CheckForSemihosting(a) : Notes(a, o.m)
  BY <1>3, CMCheckForSemihosting
<1>6. \A a, s : \A o \in CM!CheckForSemihosting(CM!SetCoreStatus(a, s)) : Notes(a, o.m)
  BY <1>1, <1>2, <1>5
<1>7. \A a : \A o \in Access(a, a, CM!Junk) : Notes(a, o.m)
  BY <1>3, AccessGives
<1>. HIDE DEF Notes
<1> SUFFICES ASSUME NEW n, {"halted", "why"} \subseteq DOMAIN n, n.halted \in BOOLEAN, NEW o \in CM!Status(n)
             PROVE  /\ Changed(n, o.m, SightCM) /\ Watched(n, o.m) /\ o.m.halted \in BOOLEAN
                    /\ o.ok => (o.val = Yes <=> o.m.halted)
  OBVIOUS
<1>8. PICK a \in Poll(n) : /\ Notes(a.m, o.m)
                           /\ o.ok => a.ok /\ (o.val = Yes <=> a.val = Yes)
  BY <1>1, <1>2, <1>3, <1>4, <1>6, <1>7, CMSame, OutcomesGive
     DEF CM!Status, CM!Then
<1>9. /\ Changed(n, a.m, Look) /\ Watched(n, a.m) /\ a.m.halted \in BOOLEAN
      /\ a.ok => (a.val = Yes <=> a.m.halted)
  BY PollGives
<1>10. Changed(n, o.m, SightCM) /\ o.m.halted = a.m.halted /\ o.m.why = a.m.why
  BY <1>8, <1>9 DEF Notes, Changed, SightCM, Look
<1> QED BY <1>8, <1>9, <1>10 DEF Watched

\* The driver waits for the status of a halted core.
LEMMA CMAwaitStatus ==
  \A n : {"halted", "why"} \subseteq DOMAIN n /\ n.halted \in BOOLEAN =>
    \A o \in CM!AwaitStatus(n) :
      /\ Changed(n, o.m, SightCM) /\ o.m.halted \in BOOLEAN
      /\ n.halted => o.m.halted /\ o.m.why = n.why
      /\ o.ok => o.m.halted
<1> SUFFICES ASSUME NEW n, {"halted", "why"} \subseteq DOMAIN n, n.halted \in BOOLEAN,
                    NEW o \in CM!AwaitStatus(n)
             PROVE  /\ Changed(n, o.m, SightCM) /\ o.m.halted \in BOOLEAN
                    /\ n.halted => o.m.halted /\ o.m.why = n.why
                    /\ o.ok => o.m.halted
  OBVIOUS
<1>1. CASE ~n.halted /\ o = Fail(CM!SetCoreStatus(n, "running"))
  <2>1. o.m = Spent([n EXCEPT !.seen = "running"]) /\ ~o.ok
    BY <1>1, OutcomesGive DEF CM!SetCoreStatus
  <2> QED BY <1>1, <2>1 DEF Changed, Spent, SightCM, Look
<1>2. ASSUME NEW k \in Stops(n) \cup (IF n.halted THEN {} ELSE {Stopped(n)}), o \in CM!Status(k)
      PROVE  /\ Changed(n, o.m, SightCM) /\ o.m.halted \in BOOLEAN
             /\ n.halted => o.m.halted /\ o.m.why = n.why
             /\ o.ok => o.m.halted
  <2>1. /\ Changed(n, k, {"halted", "why"}) /\ k.halted /\ k.halted \in BOOLEAN
        /\ n.halted => k.why = n.why
    BY <1>2, StopsWatched, StoppedHalted DEF Watched
  <2>2. Changed(k, o.m, SightCM) /\ Watched(k, o.m) /\ o.m.halted \in BOOLEAN
    BY <1>2, <2>1, CMStatus DEF Changed
  <2> QED BY <2>1, <2>2 DEF Changed, Watched, SightCM, Look
<1> QED BY <1>1, <1>2, CMSame DEF CM!AwaitStatus

(* What halting the core and reading its program counter come to.          *)
LEMMA CMHalt ==
  \A n : {"halted", "why"} \subseteq DOMAIN n /\ n.halted \in BOOLEAN =>
    \A o \in CM!Halt(n) :
      /\ Changed(n, o.m, SightCM) /\ o.m.halted \in BOOLEAN
      /\ n.halted => o.m.halted /\ o.m.why = n.why
      /\ o.ok => o.m.halted /\ o.val = o.m.regs["pc"]
<1> DEFINE Aft(n, x) == /\ Changed(n, x, SightCM) /\ x.halted \in BOOLEAN
                        /\ n.halted => x.halted /\ x.why = n.why
           Ripe(n) == {"halted", "why"} \subseteq DOMAIN n /\ n.halted \in BOOLEAN
<1>1. \A n : Ripe(n) => Aft(n, n) /\ Aft(n, Spent(n)) /\ Ripe(Spent(n))
  BY DEF Changed, Spent, SightCM, Look
<1>2. \A a, b : Ripe(a) /\ Aft(a, b) => Ripe(b)
  BY DEF Changed
<1>3. \A a, b, c : Ripe(a) /\ Aft(a, b) /\ Aft(b, c) => Aft(a, c)
  BY DEF Changed
<1>4. \A n : Ripe(n) => \A o \in CM!AwaitStatus(n) : Aft(n, o.m) /\ (o.ok => o.m.halted)
  BY CMAwaitStatus
<1>5. \A n, r : Ripe(n) => \A o \in CM!ReadReg(n, r) :
                  Aft(n, o.m) /\ (o.ok => o.m = n /\ o.val = n.regs[r])
  BY <1>1, CMReadReg
<1>6. \A n : Ripe(n) => \A o \in Access(n, n, CM!Junk) : Aft(n, o.m)
  BY <1>1, AccessGives
<1>. HIDE DEF Aft, Ripe
<1>7. \A n : Ripe(n) => \A o \in CM!Halt(n) :
                  Aft(n, o.m) /\ (o.ok => o.m.halted /\ o.val = o.m.regs["pc"])
  BY <1>1, <1>2, <1>3, <1>4, <1>5, <1>6, CMSame DEF CM!Halt, CM!Then
<1> QED BY <1>7 DEF Aft, Ripe

(* The core, if halted, stays so, with its registers. *)
HoldCM(n, x) == /\ Changed(n, x, SightCM \cup {"masked"}) /\ x.halted \in BOOLEAN
                /\ n.halted => x.halted /\ x.why = n.why

(* The program goes on with the registers that it had. *)
Went(n, x) == GoesOn(n, n.regs, x, x.regs)
WentCM(n, x) == /\ Changed(n, x, SightCM \cup {"masked", "regs", "epoch", "ran"})
                /\ x.halted \in BOOLEAN /\ Went(n, x)

FieldsCM == CoreFields \cup {"seen", "bpOn", "dfsr", "cleared", "masked", "catch"}
FitCM(n) == DOMAIN n = FieldsCM /\ n.halted \in BOOLEAN

\* To do nothing, or to fail, leaves the core where it is.
LEMMA HoldCMRefl == \A n : FitCM(n) => HoldCM(n, n) /\ HoldCM(n, Spent(n))
BY DEF FitCM, HoldCM, Changed, Spent, SightCM, Look

\* So do two operations that leave it.
LEMMA HoldCMTrans == \A a, b, c : HoldCM(a, b) /\ HoldCM(b, c) => HoldCM(a, c)
BY DEF HoldCM, Changed

\* The core is still one, where it is or gone on.
LEMMA HoldCMFit == \A a, b : FitCM(a) /\ (HoldCM(a, b) \/ WentCM(a, b)) => FitCM(b)
BY DEF FitCM, HoldCM, WentCM, Changed

\* A core that went on is left there.
LEMMA WentHoldCM == \A a, b, c : FitCM(a) /\ WentCM(a, b) /\ HoldCM(b, c) => WentCM(a, c)
BY DEF FitCM, HoldCM, WentCM, Went, GoesOn, Changed, SightCM, Look, FieldsCM, CoreFields

\* A core that is left where it is goes on.
LEMMA HoldWentCM == \A a, b, c : FitCM(a) /\ HoldCM(a, b) /\ WentCM(b, c) => WentCM(a, c)
BY DEF FitCM, HoldCM, WentCM, Went, GoesOn, Changed, SightCM, Look, FieldsCM, CoreFields

\* The driver waits for the core to halt.
LEMMA CMAwaitHolds ==
  \A n : FitCM(n) => \A o \in CM!AwaitStatus(n) : HoldCM(n, o.m) /\ (o.ok => o.m.halted)
BY CMAwaitStatus DEF FitCM, FieldsCM, CoreFields, HoldCM, Changed

\* It reads a register.
LEMMA CMReadHolds ==
  \A n, r : FitCM(n) => \A o \in CM!ReadReg(n, r) :
    HoldCM(n, o.m) /\ (o.ok => o.m = n /\ o.val = n.regs[r])
BY CMReadReg, HoldCMRefl

\* One access of the probe.
LEMMA CMAccessHolds ==
  \A n, v : FitCM(n) => \A o \in Access(n, n, v) : HoldCM(n, o.m) /\ (o.ok => o.m = n /\ o.val = v)
BY AccessGives, HoldCMRefl

\* Interrupts are masked, or unmasked.
LEMMA CMSetMask ==
  \A n, b : FitCM(n) => \A o \in CM!SetMask(n, b) :
    HoldCM(n, o.m) /\ (o.ok => o.m.masked = b)
<1> SUFFICES ASSUME NEW n, FitCM(n), NEW b, NEW o \in CM!SetMask(n, b)
             PROVE  HoldCM(n, o.m) /\ (o.ok => o.m.masked = b)
  OBVIOUS
<1> DEFINE x == [n EXCEPT !.masked = b]
<1>1. CASE n.masked = b
  BY <1>1, CMSame, OutcomesGive, HoldCMRefl DEF CM!SetMask
<1>2. CASE n.masked # b
  <2>1. HoldCM(n, x) /\ x.masked = b /\ FitCM(x)
    BY DEF FitCM, FieldsCM, CoreFields, HoldCM, Changed
  <2>2. o \in Access(n, x, CM!Junk)
    BY <1>2, CMSame DEF CM!SetMask
  <2>. HIDE DEF x
  <2> QED BY <2>1, <2>2, AccessGives, HoldCMRefl, HoldCMTrans
<1> QED BY <1>1, <1>2

\* The core is let go, with the registers that it has.
LEMMA CMResumed ==
  \A n : FitCM(n) /\ n.halted => WentCM(n, CM!Resumed(n)) /\ ~CM!Resumed(n).halted
<1> SUFFICES ASSUME NEW n, FitCM(n), n.halted
             PROVE  WentCM(n, CM!Resumed(n)) /\ ~CM!Resumed(n).halted
  OBVIOUS
<1> DEFINE k == [n EXCEPT !.halted = FALSE, !.ran = Append(@, n.regs),
                          !.epoch = 1 - @, !.regs = Own(1 - n.epoch)]
<1>1. CM!Resumed(n) = [k EXCEPT !.dfsr = CM!Dfsr(n), !.cleared = FALSE]
  BY CMSame DEF CM!Resumed, Restarted
<1>2. DOMAIN n = FieldsCM
  BY DEF FitCM
<1> QED BY <1>1, <1>2 DEF WentCM, Went, GoesOn, Changed, FieldsCM, CoreFields, SightCM, Look

\* A core on a breakpoint instruction stays on it.
LEMMA CMStuckHeld ==
  \A a, b : FitCM(a) /\ a.halted /\ HoldCM(a, b) => (CM!Stuck(a) <=> CM!Stuck(b))
<1> SUFFICES ASSUME NEW a, NEW b, FitCM(a), a.halted, HoldCM(a, b)
             PROVE  CM!Stuck(a) <=> CM!Stuck(b)
  OBVIOUS
<1>1. b.regs = a.regs /\ b.epoch = a.epoch /\ b.why = a.why /\ b.causes = a.causes
  BY DEF FitCM, FieldsCM, CoreFields, HoldCM, Changed, SightCM, Look
<1> QED BY <1>1 DEF CM!Stuck, CM!NotMoved

\* One instruction: none comes of it on a breakpoint instruction.
LEMMA CMStepped ==
  \A n : FitCM(n) /\ n.halted =>
    /\ CM!Stuck(n) => HoldCM(n, CM!Stepped(n))
    /\ ~CM!Stuck(n) => WentCM(n, CM!Stepped(n))
    /\ FitCM(CM!Stepped(n))
<1> SUFFICES ASSUME NEW n, FitCM(n), n.halted
             PROVE  /\ CM!Stuck(n) => HoldCM(n, CM!Stepped(n))
                    /\ ~CM!Stuck(n) => WentCM(n, CM!Stepped(n))
                    /\ FitCM(CM!Stepped(n))
  OBVIOUS
<1>1. CASE CM!Stuck(n)
  <2>1. CM!Stepped(n) = [n EXCEPT !.dfsr = CM!Dfsr(n), !.cleared = FALSE]
    BY <1>1 DEF CM!Stepped
  <2> QED BY <1>1, <2>1 DEF FitCM, FieldsCM, CoreFields, HoldCM, Changed, SightCM, Look
<1>2. CASE ~CM!Stuck(n)
  <2>1. CM!Stepped(n) = CM!Resumed(n)
    BY <1>2 DEF CM!Stepped
  <2> QED BY <1>2, <2>1, CMResumed, HoldCMFit
<1> QED BY <1>1, <1>2

(* A step of the core, with the breakpoints as they are: it does not move,  *)
(* or it goes on and stops again.                                           *)
LEMMA CMStepOne ==
  \A n : FitCM(n) /\ n.halted => \A o \in CM!StepOne(n) :
    /\ HoldCM(n, o.m) \/ (~CM!Stuck(n) /\ WentCM(n, o.m))
    /\ o.ok => /\ o.m.halted /\ o.val = o.m.regs["pc"]
               /\ CM!Stuck(n) \/ WentCM(n, o.m)
<1> SUFFICES ASSUME NEW n, FitCM(n), n.halted, NEW o \in CM!StepOne(n)
             PROVE  /\ HoldCM(n, o.m) \/ (~CM!Stuck(n) /\ WentCM(n, o.m))
                    /\ o.ok => /\ o.m.halted /\ o.val = o.m.regs["pc"]
                               /\ CM!Stuck(n) \/ WentCM(n, o.m)
  OBVIOUS
<1> DEFINE Ahead(x) == HoldCM(n, x) \/ (~CM!Stuck(n) /\ WentCM(n, x))
           Moved(x) == (CM!Stuck(n) /\ HoldCM(n, x)) \/ (~CM!Stuck(n) /\ WentCM(n, x))
<1>1. \A x, y : Moved(x) /\ HoldCM(x, y) => Moved(y)
  BY HoldCMTrans, WentHoldCM
<1>2. \A x : Moved(x) => Ahead(x) /\ FitCM(x) /\ (CM!Stuck(n) \/ WentCM(n, x))
  BY HoldCMFit
<1>3. \A b : HoldCM(n, b) => \A c \in Access(b, CM!Stepped(b), CM!Junk) :
               IF c.ok THEN Moved(c.m) ELSE Ahead(c.m)
  <2> SUFFICES ASSUME NEW b, HoldCM(n, b), NEW c \in Access(b, CM!Stepped(b), CM!Junk)
               PROVE  IF c.ok THEN Moved(c.m) ELSE Ahead(c.m)
    OBVIOUS
  <2>1. FitCM(b) /\ b.halted /\ (CM!Stuck(n) <=> CM!Stuck(b))
    BY CMStuckHeld, HoldCMFit DEF HoldCM
  <2>2. Moved(CM!Stepped(b)) /\ FitCM(CM!Stepped(b))
    BY <2>1, CMStepped, HoldCMTrans, HoldWentCM
  <2>3. HoldCM(CM!Stepped(b), Spent(CM!Stepped(b))) /\ HoldCM(b, Spent(b))
    BY <2>1, <2>2, HoldCMRefl
  <2>4. \/ c.ok /\ c.m = CM!Stepped(b)
        \/ ~c.ok /\ c.m \in {Spent(b), Spent(CM!Stepped(b))}
    BY AccessGives
  <2>5. Moved(Spent(CM!Stepped(b))) /\ HoldCM(n, Spent(b))
    BY <1>1, <2>2, <2>3, HoldCMTrans
  <2> QED BY <1>2, <2>2, <2>4, <2>5
<1>4. HoldCM(n, n) /\ FitCM(n)
  BY HoldCMRefl
<1>5. \A b : HoldCM(n, b) => Ahead(b) /\ FitCM(b) /\ b.halted
  BY HoldCMFit DEF HoldCM
<1>6. \A p \in CM!Access(n, n, CM!Junk) : HoldCM(n, p.m) /\ Ahead(p.m)
  BY <1>4, <1>5, CMAccessHolds, CMSame
<1>7. \A x : HoldCM(n, x) => \A p \in CM!SetMask(x, TRUE) : HoldCM(n, p.m)
  BY <1>5, CMSetMask, HoldCMTrans
<1>8. \A x : Moved(x) => \A p \in CM!AwaitStatus(x) : Moved(p.m) /\ (p.ok => p.m.halted)
  BY <1>1, <1>2, CMAwaitHolds
<1>9. \A x : Moved(x) => \A p \in CM!ReadReg(x, "pc") : Moved(p.m) /\ (p.ok => p.m = x /\ p.val = x.regs["pc"])
  BY <1>1, <1>2, CMReadHolds
<1>10. \A b : HoldCM(n, b) => \A c \in CM!Access(b, CM!Stepped(b), CM!Junk) :
                IF c.ok THEN Moved(c.m) ELSE Ahead(c.m)
  BY <1>3, CMSame
<1>11. \A x : (HoldCM(n, x) => Ahead(x)) /\ (Moved(x) => Ahead(x))
  BY <1>2, <1>5
<1>. HIDE DEF Moved, Ahead
<1> DEFINE Ends(p) == Ahead(p.m) /\ (p.ok => p.m.halted /\ p.val = p.m.regs["pc"] /\ Moved(p.m))
           AfterWait(d) == CM!ReadReg(d.m, "pc")
           AfterGo(c) == CM!Then(CM!AwaitStatus(c.m), AfterWait)
           AfterMask(b) == CM!Then(CM!Access(b.m, CM!Stepped(b.m), CM!Junk), AfterGo)
           AfterRead(a) == CM!Then(CM!SetMask(a.m, TRUE), AfterMask)
<1>12. \A d : Moved(d.m) /\ d.m.halted => \A p \in AfterWait(d) : Ends(p)
  BY <1>9, <1>11
<1>. HIDE DEF AfterWait
<1>13. \A c : Moved(c.m) => \A p \in AfterGo(c) : Ends(p)
  BY <1>8, <1>11, <1>12 DEF CM!Then
<1>. HIDE DEF AfterGo
<1>14. \A b : HoldCM(n, b.m) => \A p \in AfterMask(b) : Ends(p)
  BY <1>10, <1>13 DEF CM!Then
<1>. HIDE DEF AfterMask
<1>15. \A a : HoldCM(n, a.m) => \A p \in AfterRead(a) : Ends(p)
  BY <1>7, <1>11, <1>14 DEF CM!Then
<1>. HIDE DEF AfterRead
<1>16. \A p \in CM!Then(CM!Access(n, n, CM!Junk), AfterRead) : Ends(p)
  BY <1>6, <1>15 DEF CM!Then
<1>17. CM!StepOne(n) = CM!Then(CM!Access(n, n, CM!Junk), AfterRead)
  BY DEF CM!StepOne, AfterRead, AfterMask, AfterGo, AfterWait
<1> QED BY <1>2, <1>16, <1>17 DEF Ahead

(* What every operation of the driver of Cortex-M keeps: breakpoints that   *)
(* the driver considers enabled are, and the program counter is not where   *)
(* the program will be when it has run the next time.                       *)
GoodCM(n) ==
  /\ FitCM(n)
  /\ n.causes \in {{"soft"}, {"soft", "hard"}}
  /\ n.bpOn => "hard" \in n.causes
  /\ n.epoch \in {0, 1}
  /\ DOMAIN n.regs = Regs
  /\ n.regs["pc"] # Own(1 - n.epoch)["pc"]
  /\ n.mem \in [Lanes -> {0, 1}]
  /\ DOMAIN n.bps = Units

\* The program counters of the two runs of the program, and the ones past them, differ.
LEMMA OwnPrograms ==
  \A e \in {0, 1} : /\ 1 - e \in {0, 1} /\ 1 - (1 - e) = e
                    /\ DOMAIN Own(e) = Regs /\ Own(e)["pc"] # Own(1 - e)["pc"]
                    /\ Past(Own(e)["pc"]) # Own(1 - e)["pc"] /\ Past(Own(e)["pc"]) # Own(e)["pc"]
BY DEF Own, Regs, Past

\* A core that stays where it is stays in order.
LEMMA GoodHoldCM == \A n, x : GoodCM(n) /\ HoldCM(n, x) => GoodCM(x)
<1> SUFFICES ASSUME NEW n, NEW x, GoodCM(n), HoldCM(n, x)
             PROVE  GoodCM(x)
  OBVIOUS
<1>1. \A f \in FieldsCM \ (SightCM \cup {"masked"}) : x[f] = n[f]
  BY DEF GoodCM, FitCM, HoldCM, Changed
<1>2. /\ x.causes = n.causes /\ x.bpOn = n.bpOn /\ x.epoch = n.epoch /\ x.regs = n.regs
      /\ x.mem = n.mem /\ x.bps = n.bps
  BY <1>1 DEF FieldsCM, CoreFields, SightCM, Look
<1> QED BY <1>2, HoldCMFit DEF GoodCM

\* So does one that goes on.
LEMMA GoodWentCM == \A n, x : GoodCM(n) /\ WentCM(n, x) => GoodCM(x)
<1> SUFFICES ASSUME NEW n, NEW x, GoodCM(n), WentCM(n, x)
             PROVE  GoodCM(x)
  OBVIOUS
<1>1. \A f \in FieldsCM \ (SightCM \cup {"masked", "regs", "epoch", "ran"}) : x[f] = n[f]
  BY DEF GoodCM, FitCM, WentCM, Changed
<1>2. x.causes = n.causes /\ x.bpOn = n.bpOn /\ x.mem = n.mem /\ x.bps = n.bps
  BY <1>1 DEF FieldsCM, CoreFields, SightCM, Look
<1>3. x.epoch = 1 - n.epoch /\ x.regs = Own(x.epoch)
  BY DEF WentCM, Went, GoesOn
<1>4. x.epoch \in {0, 1} /\ DOMAIN x.regs = Regs /\ x.regs["pc"] # Own(1 - x.epoch)["pc"]
  BY <1>3, OwnPrograms DEF GoodCM
<1> QED BY <1>2, <1>4, HoldCMFit DEF GoodCM

(* Nothing but whether breakpoints are enabled has changed. *)
SwitchedCM(n, x) == Changed(n, x, {"faults", "causes", "bpOn"}) /\ GoodCM(x)

\* The breakpoint unit is switched, and the core halts on breakpoints or does not.
LEMMA CMEnable ==
  ASSUME Careful
  PROVE  \A n : GoodCM(n) => \A b \in BOOLEAN : \A o \in CM!EnableBreakpoints(n, b) :
           /\ SwitchedCM(n, o.m)
           /\ o.ok => ("hard" \in o.m.causes <=> b) /\ o.m.bpOn = b
<1> SUFFICES ASSUME NEW n, GoodCM(n), NEW b \in BOOLEAN, NEW o \in CM!EnableBreakpoints(n, b)
             PROVE  SwitchedCM(n, o.m) /\ (o.ok => ("hard" \in o.m.causes <=> b) /\ o.m.bpOn = b)
  OBVIOUS
<1> DEFINE cs == IF b THEN n.causes \cup {"hard"} ELSE n.causes \ {"hard"}
           x == [n EXCEPT !.causes = cs]
           Misled(a) == ~a.ok /\ a.m.bpOn /\ a.m.causes # n.causes
           S == UNION {CM!Unless(Misled(a), {a}) : a \in CM!Access(n, x, CM!Junk)}
<1>0. CM!EnableBreakpoints(n, b) = CM!Then(S, LAMBDA a : {CM!Ok([a.m EXCEPT !.bpOn = b])})
  BY DEF CM!EnableBreakpoints
<1>1. \E a \in Access(n, x, CM!Junk) :
         ~Misled(a) /\ (IF a.ok THEN o = Ok([a.m EXCEPT !.bpOn = b]) ELSE o = a)
  <2>1. PICK c \in S : IF c.ok THEN o = CM!Ok([c.m EXCEPT !.bpOn = b]) ELSE o = c
    <3>. HIDE DEF S
    <3> QED BY <1>0 DEF CM!Then
  <2>2. \A a \in S : a \in CM!Access(n, x, CM!Junk) /\ ~Misled(a)
    <3>. HIDE DEF x, Misled
    <3> QED BY DEF CM!Unless
  <2>. HIDE DEF S, x, Misled
  <2> QED BY <2>1, <2>2, CMSame
<1>2. PICK a \in Access(n, x, CM!Junk) :
         ~Misled(a) /\ (IF a.ok THEN o = Ok([a.m EXCEPT !.bpOn = b]) ELSE o = a)
  BY <1>1
<1>3. DOMAIN n = FieldsCM /\ cs \in {{"soft"}, {"soft", "hard"}} /\ ("hard" \in cs <=> b)
  BY DEF GoodCM, FitCM
<1>. HIDE DEF cs
<1>4. CASE a.ok
  <2>1. o.m = [x EXCEPT !.bpOn = b]
    <3>. HIDE DEF x, Misled
    <3>1. a.m = x
      BY <1>2, <1>4, AccessGives
    <3> QED BY <1>2, <1>4, <3>1, OutcomesGive
  <2>2. DOMAIN o.m = FieldsCM /\ o.m.causes = cs /\ o.m.bpOn = b
    BY <1>3, <2>1 DEF FieldsCM, CoreFields
  <2>3. \A f \in FieldsCM \ {"faults", "causes", "bpOn"} : o.m[f] = n[f]
    BY <1>3, <2>1
  <2> QED BY <1>3, <2>2, <2>3 DEF SwitchedCM, Changed, GoodCM, FitCM, FieldsCM, CoreFields
<1>5. CASE ~a.ok
  <2>1. o.m \in {Spent(n), Spent(x)} /\ ~o.ok /\ (o.m.bpOn => o.m.causes = n.causes)
    BY <1>2, <1>5, AccessGives
  <2>2. DOMAIN o.m = FieldsCM /\ o.m.causes \in {n.causes, cs} /\ o.m.bpOn = n.bpOn
    BY <1>3, <2>1 DEF FieldsCM, CoreFields, Spent
  <2>3. \A f \in FieldsCM \ {"faults", "causes", "bpOn"} : o.m[f] = n[f]
    BY <1>3, <2>1 DEF Spent
  <2> QED BY <1>3, <2>1, <2>2, <2>3 DEF SwitchedCM, Changed, GoodCM, FitCM, FieldsCM, CoreFields
<1> QED BY <1>4, <1>5

\* It is switched on.
LEMMA CMEnableOn ==
  ASSUME Careful
  PROVE  \A n : GoodCM(n) => \A o \in CM!EnableBreakpoints(n, TRUE) :
           SwitchedCM(n, o.m) /\ (o.ok => "hard" \in o.m.causes /\ o.m.bpOn = TRUE)
BY CMEnable

\* It is switched off.
LEMMA CMEnableOff ==
  ASSUME Careful
  PROVE  \A n : GoodCM(n) => \A o \in CM!EnableBreakpoints(n, FALSE) :
           SwitchedCM(n, o.m) /\ (o.ok => "hard" \notin o.m.causes /\ o.m.bpOn = FALSE)
BY CMEnable

(* What a step leaves of n, whatever comes of it. *)
StepFrameCM == SightCM \cup {"masked", "regs", "epoch", "ran", "causes", "bpOn"}
StepCM(n, x) ==
  /\ GoodCM(x) /\ Changed(n, x, StepFrameCM)
  /\ \/ Stays(n, n.regs, x, x.regs) \/ Skips(n, n.regs, x, x.regs)
     \/ GoesOn(n, n.regs, x, x.regs)

(* Nothing that the debugger sees has changed: the core may have been       *)
(* looked at, or breakpoints enabled or disabled.                           *)
CalmCM(n, x) ==
  /\ GoodCM(x) /\ Changed(n, x, SightCM \cup {"masked", "causes", "bpOn"})
  /\ n.halted => x.halted

\* Two operations that the debugger does not see are none.
LEMMA CalmCMTrans == \A a, b, c : CalmCM(a, b) /\ CalmCM(b, c) => CalmCM(a, c)
BY DEF CalmCM, Changed

\* What they keep.
LEMMA CalmCMSame ==
  \A n, x : GoodCM(n) /\ CalmCM(n, x) =>
    /\ GoodCM(x) /\ (n.halted => x.halted)
    /\ x.regs = n.regs /\ x.ran = n.ran /\ x.epoch = n.epoch
BY DEF CalmCM, GoodCM, FitCM, Changed, FieldsCM, CoreFields, SightCM, Look

\* To look at the core is not seen in its registers.
LEMMA HoldCalmCM == \A n, x : GoodCM(n) /\ HoldCM(n, x) => CalmCM(n, x)
BY GoodHoldCM DEF CalmCM, HoldCM, Changed

\* Nor is switching the breakpoint unit.
LEMMA SwitchedCalmCM == \A n, x : GoodCM(n) /\ SwitchedCM(n, x) => CalmCM(n, x)
BY DEF CalmCM, SwitchedCM, Changed, GoodCM, FitCM, FieldsCM, CoreFields, SightCM, Look

\* What the debugger does not see comes before a step.
LEMMA CalmStepCM ==
  \A a, b, c : GoodCM(a) /\ CalmCM(a, b) /\ StepCM(b, c) => StepCM(a, c)
<1> SUFFICES ASSUME NEW a, NEW b, NEW c, GoodCM(a), CalmCM(a, b), StepCM(b, c)
             PROVE  StepCM(a, c)
  OBVIOUS
<1>1. GoodCM(c) /\ Changed(a, c, StepFrameCM)
  BY DEF CalmCM, StepCM, Changed, StepFrameCM
<1> QED BY <1>1, CalmCMSame DEF StepCM, Stays, Skips, GoesOn

\* It comes after one, too.
LEMMA StepCalmCM ==
  \A a, b, c : GoodCM(a) /\ StepCM(a, b) /\ CalmCM(b, c) => StepCM(a, c)
<1> SUFFICES ASSUME NEW a, NEW b, NEW c, GoodCM(a), StepCM(a, b), CalmCM(b, c)
             PROVE  StepCM(a, c)
  OBVIOUS
<1>1. GoodCM(c) /\ Changed(a, c, StepFrameCM)
  BY DEF CalmCM, StepCM, Changed, StepFrameCM
<1>2. /\ c.regs = b.regs /\ c.ran = b.ran /\ c.epoch = b.epoch /\ (b.halted => c.halted)
  BY CalmCMSame DEF StepCM
<1> QED BY <1>1, <1>2 DEF StepCM, Stays, Skips, GoesOn

\* To go on is a step.
LEMMA WentStepCM == \A n, x : GoodCM(n) /\ WentCM(n, x) => StepCM(n, x)
BY GoodWentCM DEF StepCM, WentCM, Went, Changed, StepFrameCM

\* To do nothing is a step that failed.
LEMMA CalmIsStepCM == \A n, x : GoodCM(n) /\ CalmCM(n, x) => StepCM(n, x)
<1> SUFFICES ASSUME NEW n, NEW x, GoodCM(n), CalmCM(n, x)
             PROVE  StepCM(n, x)
  OBVIOUS
<1>1. GoodCM(x) /\ Changed(n, x, StepFrameCM)
  BY DEF CalmCM, Changed, StepFrameCM
<1> QED BY <1>1, CalmCMSame DEF StepCM, Stays

(* Skipping the breakpoint instruction where the program stopped.          *)
LEMMA CMSkip ==
  \A n : GoodCM(n) /\ n.regs["pc"] = Own(n.epoch)["pc"] =>
    \A o \in CM!WriteRegister(n, "pc", Past(n.regs["pc"])) :
      /\ StepCM(n, o.m)
      /\ o.ok => /\ Skips(n, n.regs, o.m, o.m.regs) /\ o.m.causes = n.causes /\ o.m.bpOn = n.bpOn
<1> SUFFICES ASSUME NEW n, GoodCM(n), n.regs["pc"] = Own(n.epoch)["pc"],
                    NEW o \in CM!WriteRegister(n, "pc", Past(n.regs["pc"]))
             PROVE  /\ StepCM(n, o.m)
                    /\ o.ok => /\ Skips(n, n.regs, o.m, o.m.regs) /\ o.m.causes = n.causes
                               /\ o.m.bpOn = n.bpOn
  OBVIOUS
<1> DEFINE x == [n EXCEPT !.regs["pc"] = Past(n.regs["pc"])]
<1>1. IF o.ok THEN o.m = x ELSE o.m \in {n, Spent(n), Spent(x)}
  BY CMWriteRegister
<1>2. DOMAIN n = FieldsCM /\ DOMAIN n.regs = Regs
  BY DEF GoodCM, FitCM
<1>3. /\ x.regs = [n.regs EXCEPT !["pc"] = Past(@)]
      /\ \A f \in FieldsCM \ {"regs"} : x[f] = n[f]
      /\ DOMAIN x = FieldsCM
  BY <1>2 DEF FieldsCM, CoreFields
<1>. HIDE DEF x
<1>4. DOMAIN x.regs = Regs /\ x.regs["pc"] = Past(n.regs["pc"])
  BY <1>2, <1>3 DEF Regs
<1>5. x.regs["pc"] # Own(1 - x.epoch)["pc"]
  BY <1>3, <1>4, OwnPrograms DEF FieldsCM, CoreFields, GoodCM
<1>6. GoodCM(x) /\ Changed(n, x, StepFrameCM) /\ Skips(n, n.regs, x, x.regs)
  BY <1>3, <1>4, <1>5 DEF GoodCM, FitCM, FieldsCM, CoreFields, Skips, Changed, StepFrameCM
<1>7. StepCM(n, x) /\ StepCM(n, n) /\ CalmCM(n, Spent(n)) /\ CalmCM(x, Spent(x))
  BY <1>6, HoldCMRefl, HoldCalmCM, CalmIsStepCM DEF StepCM, GoodCM
<1>8. StepCM(n, o.m)
  BY <1>1, <1>6, <1>7, StepCalmCM, CalmIsStepCM
<1> QED BY <1>1, <1>3, <1>6, <1>8 DEF FieldsCM, CoreFields

Through(n, rs, x, ss) == Skips(n, rs, x, ss) \/ GoesOn(n, rs, x, ss)

(* A step, past the breakpoint at which the core stopped. *)
LEMMA CMStep ==
  ASSUME Careful
  PROVE  \A n : GoodCM(n) /\ n.halted => \A o \in CM!Step(n) :
           /\ StepCM(n, o.m)
           /\ o.ok => /\ o.m.halted /\ o.val = o.m.regs["pc"]
                      /\ Through(n, n.regs, o.m, o.m.regs)
                      /\ n.seen # "break" => o.m.causes = n.causes
                      /\ n.seen = "break" => "hard" \in o.m.causes
<1> SUFFICES ASSUME Careful, NEW n, GoodCM(n), n.halted
             PROVE  \A o \in CM!Step(n) :
                      /\ StepCM(n, o.m)
                      /\ o.ok => /\ o.m.halted /\ o.val = o.m.regs["pc"]
                                 /\ Through(n, n.regs, o.m, o.m.regs)
                                 /\ n.seen # "break" => o.m.causes = n.causes
                                 /\ n.seen = "break" => "hard" \in o.m.causes
  OBVIOUS
<1>0. FitCM(n)
  BY DEF GoodCM
<1>1. ASSUME n.seen # "break", NEW o \in CM!Step(n)
      PROVE  /\ StepCM(n, o.m)
             /\ o.ok => /\ o.m.halted /\ o.val = o.m.regs["pc"] /\ GoesOn(n, n.regs, o.m, o.m.regs)
                        /\ o.m.causes = n.causes
  <2>1. o \in CM!StepOne(n) /\ ~CM!Stuck(n)
    BY <1>1 DEF CM!Step, CM!Unless
  <2>2. /\ HoldCM(n, o.m) \/ WentCM(n, o.m)
        /\ o.ok => o.m.halted /\ o.val = o.m.regs["pc"] /\ WentCM(n, o.m)
    BY <1>0, <2>1, CMStepOne
  <2>3. WentCM(n, o.m) => /\ GoesOn(n, n.regs, o.m, o.m.regs)
                          /\ o.m.causes = n.causes
    BY <1>0 DEF WentCM, Went, Changed, FitCM, FieldsCM, CoreFields, SightCM, Look
  <2>4. StepCM(n, o.m)
    BY <2>2, HoldCalmCM, CalmIsStepCM, WentStepCM
  <2> QED BY <2>2, <2>3, <2>4
<1>2. ASSUME n.seen = "break"
      PROVE  \A o \in CM!Step(n) :
               /\ StepCM(n, o.m)
               /\ o.ok => /\ o.m.halted /\ o.val = o.m.regs["pc"] /\ Through(n, n.regs, o.m, o.m.regs)
                          /\ "hard" \in o.m.causes
  <2> DEFINE Past1(c) == Through(n, n.regs, c.m, c.m.regs) /\ c.m.halted /\ c.val = c.m.regs["pc"]
             Ends(p) == StepCM(n, p.m) /\ (p.ok => Past1(p))
             Done(p) == Ends(p) /\ (p.ok => "hard" \in p.m.causes)
             Here(c) == CalmCM(n, c.m) /\ n.regs["pc"] = Own(n.epoch)["pc"] /\ c.val = n.regs["pc"]
             Wrote(c, d) == CM!Then(CM!WriteRegister(d.m, "pc", CM!Past(c.val)),
                                    LAMBDA e : {CM!Give(e.m, CM!Past(c.val))})
             Skipped(c) == CM!Then(CM!HwBreakpoints(c.m), LAMBDA d : Wrote(c, d))
             AfterAll(f) == CM!Then(CM!EnableBreakpoints(f.m, TRUE), LAMBDA g : {CM!Give(g.m, f.val)})
             AfterStep(a, c) == CM!Then(IF c.val # a.val THEN {c} ELSE Skipped(c), AfterAll)
             AfterOff(a, b) == CM!Then(CM!StepOne(b.m), LAMBDA c : AfterStep(a, c))
             AfterRead(a) == CM!Then(CM!EnableBreakpoints(a.m, FALSE), LAMBDA b : AfterOff(a, b))
  <2>. HIDE DEF AfterAll, AfterStep, AfterOff, AfterRead
  <2>1. ASSUME NEW c, Here(c)
        PROVE  \A f \in Skipped(c) : Ends(f)
    <3>. HIDE DEF Skipped, Wrote
    <3>1. \A v : CM!Past(v) = Past(v)
      BY DEF CM!Past, Past
    <3>2. \A d \in CM!HwBreakpoints(c.m) : CalmCM(n, d.m) /\ (d.ok => d.m = c.m)
      <4>1. CalmCM(n, c.m) /\ GoodCM(c.m) /\ FitCM(c.m)
        BY <2>1 DEF CalmCM, GoodCM
      <4> QED BY <4>1, CMAccessHolds, CMSame, HoldCalmCM, CalmCMTrans DEF CM!HwBreakpoints
    <3>3. \A d \in CM!HwBreakpoints(c.m) : ~d.ok => Ends(d)
      BY <3>2, CalmIsStepCM
    <3>4. /\ GoodCM(c.m) /\ c.m.regs = n.regs /\ c.m.ran = n.ran /\ c.m.epoch = n.epoch /\ c.m.halted
      BY <2>1, CalmCMSame
    <3>5. \A e \in CM!WriteRegister(c.m, "pc", Past(c.val)) :
            /\ StepCM(n, e.m)
            /\ e.ok => Skips(c.m, n.regs, e.m, e.m.regs)
      BY <2>1, <3>4, CMSkip, CalmStepCM
    <3>6. \A x : Skips(c.m, n.regs, x, x.regs) =>
             /\ Skips(n, n.regs, x, x.regs) /\ x.halted /\ x.regs["pc"] = Past(c.val)
      BY <2>1, <3>4 DEF Skips, GoodCM, Regs
    <3>7. \A e \in CM!WriteRegister(c.m, "pc", Past(c.val)) :
            /\ ~e.ok => Ends(e)
            /\ e.ok => Ends(Give(e.m, Past(c.val)))
      BY <3>5, <3>6, OutcomesGive DEF Through
    <3>. HIDE DEF Ends, Past1, Here
    <3>8. \A d \in CM!HwBreakpoints(c.m) : d.ok => \A f \in Wrote(c, d) : Ends(f)
      BY <3>1, <3>2, <3>7, CMSame DEF CM!Then, Wrote
    <3> QED BY <3>3, <3>8 DEF CM!Then, Skipped
  <2>. HIDE DEF Skipped, Wrote
  <2>2. \A f : Ends(f) /\ f.ok => \A g \in AfterAll(f) : Done(g)
    <3> SUFFICES ASSUME NEW f, Ends(f), f.ok, NEW g \in AfterAll(f)
                 PROVE  Done(g)
      OBVIOUS
    <3>1. PICK e \in CM!EnableBreakpoints(f.m, TRUE) : IF e.ok THEN g = CM!Give(e.m, f.val) ELSE g = e
      BY DEF CM!Then, AfterAll
    <3>2. SwitchedCM(f.m, e.m) /\ (e.ok => "hard" \in e.m.causes)
      BY <3>1, CMEnableOn DEF StepCM, Ends
    <3>3. CalmCM(f.m, e.m) /\ StepCM(n, e.m)
      BY <3>2, SwitchedCalmCM, StepCalmCM DEF StepCM
    <3>4. e.m.halted /\ e.m.regs = f.m.regs /\ e.m.ran = f.m.ran /\ e.m.epoch = f.m.epoch
      BY <3>3, CalmCMSame DEF StepCM
    <3>5. Through(n, n.regs, e.m, e.m.regs)
      BY <3>4 DEF Through, Skips, GoesOn
    <3> QED BY <3>1, <3>2, <3>3, <3>4, <3>5, OutcomesGive, CMSame
  <2>3. \A b : CalmCM(n, b.m) => \A c \in CM!StepOne(b.m) :
           /\ ~c.ok => Done(c)
           /\ c.ok => /\ c.val # n.regs["pc"] => Ends(c)
                      /\ c.val = n.regs["pc"] => Here(c)
    <3> SUFFICES ASSUME NEW b, CalmCM(n, b.m), NEW c \in CM!StepOne(b.m)
                 PROVE  /\ ~c.ok => Done(c)
                        /\ c.ok => /\ c.val # n.regs["pc"] => Ends(c)
                                   /\ c.val = n.regs["pc"] => Here(c)
      OBVIOUS
    <3>1. /\ GoodCM(b.m) /\ FitCM(b.m) /\ b.m.halted
          /\ b.m.regs = n.regs /\ b.m.ran = n.ran /\ b.m.epoch = n.epoch
      BY CalmCMSame DEF GoodCM
    <3>2. /\ HoldCM(b.m, c.m) \/ WentCM(b.m, c.m)
          /\ c.ok => /\ c.m.halted /\ c.val = c.m.regs["pc"]
                     /\ (CM!Stuck(b.m) /\ HoldCM(b.m, c.m)) \/ WentCM(b.m, c.m)
      BY <3>1, CMStepOne
    <3>3. HoldCM(b.m, c.m) => CalmCM(n, c.m) /\ c.m.regs = n.regs /\ StepCM(n, c.m)
      BY <3>1, HoldCalmCM, CalmCMTrans, CalmCMSame, CalmIsStepCM
    <3>4. WentCM(b.m, c.m) => /\ StepCM(n, c.m) /\ GoesOn(n, n.regs, c.m, c.m.regs)
                              /\ c.m.regs["pc"] # n.regs["pc"]
      <4>1. WentCM(b.m, c.m) => StepCM(n, c.m) /\ GoesOn(n, n.regs, c.m, c.m.regs)
        BY <3>1, WentStepCM, CalmStepCM DEF WentCM, Went, GoesOn
      <4> QED BY <4>1 DEF GoesOn, GoodCM
    <3>5. CM!Stuck(b.m) => n.regs["pc"] = Own(n.epoch)["pc"]
      BY <3>1 DEF CM!Stuck, CM!NotMoved, CM!Own, Own, CM!Regs, Regs
    <3> QED BY <3>2, <3>3, <3>4, <3>5 DEF Through
  <2>5. \A b \in CM!EnableBreakpoints(n, FALSE) : CalmCM(n, b.m)
    BY CMEnableOff, SwitchedCalmCM
  <2>6. \A a \in CM!ReadReg(n, "pc") : IF a.ok THEN a.m = n /\ a.val = n.regs["pc"] ELSE Done(a)
    BY <1>0, CMReadHolds, HoldCalmCM, CalmIsStepCM
  <2>7. \A p : CalmCM(n, p.m) /\ ~p.ok => Done(p)
    BY CalmIsStepCM
  <2>. HIDE DEF Past1, Ends, Done, Here
  <2>8. \A p : Ends(p) /\ ~p.ok => Done(p)
    BY DEF Done, Ends
  <2>9. \A a, c : a.val = n.regs["pc"] /\ c.ok /\ (c.val # a.val => Ends(c)) /\ (c.val = a.val => Here(c))
             => \A p \in AfterStep(a, c) : Done(p)
    BY <2>1, <2>2, <2>8 DEF CM!Then, AfterStep
  <2>10. \A a, b : a.val = n.regs["pc"] /\ CalmCM(n, b.m) => \A p \in AfterOff(a, b) : Done(p)
    BY <2>3, <2>9 DEF CM!Then, AfterOff
  <2>11. \A a : a.m = n /\ a.val = n.regs["pc"] => \A p \in AfterRead(a) : Done(p)
    BY <2>5, <2>7, <2>10 DEF CM!Then, AfterRead
  <2>12. \A p \in CM!Then(CM!ReadReg(n, "pc"), AfterRead) : Done(p)
    BY <2>6, <2>11 DEF CM!Then
  <2>13. CM!Step(n) = CM!Then(CM!ReadReg(n, "pc"), AfterRead)
    BY <1>2 DEF CM!Step, AfterRead, AfterOff, AfterStep, Skipped, Wrote, AfterAll
  <2> QED BY <2>12, <2>13 DEF Done, Ends, Past1
<1> QED BY <1>1, <1>2 DEF Through, GoodCM

(* The core is resumed: what it runs with is what a step left. *)
RunCM(n, x) ==
  /\ GoodCM(x) /\ x.mem = n.mem /\ x.bps = n.bps /\ x.armed = n.armed
  /\ \/ StepCM(n, x)
     \/ \E y : /\ StepCM(n, y) /\ Through(n, n.regs, y, y.regs)
               /\ GoesOn(y, y.regs, x, x.regs) /\ x.causes = y.causes

\* A step writes no memory and sets no breakpoint.
LEMMA StepCMKeeps ==
  \A n, x : GoodCM(n) /\ StepCM(n, x) =>
    x.mem = n.mem /\ x.bps = n.bps /\ x.armed = n.armed /\ x.catch = n.catch
BY DEF StepCM, GoodCM, FitCM, Changed, StepFrameCM, FieldsCM, CoreFields, SightCM, Look

\* The core runs with the registers that it had, but for a step over the breakpoint.
LEMMA CMRun ==
  ASSUME Careful
  PROVE  \A n : GoodCM(n) /\ n.halted => \A o \in CM!Run(n) :
           /\ RunCM(n, o.m)
           /\ o.ok => /\ ~o.m.halted /\ ~o.m.masked
                      /\ \E y : /\ StepCM(n, y) /\ Through(n, n.regs, y, y.regs)
                                /\ GoesOn(y, y.regs, o.m, o.m.regs)
                      /\ n.seen # "break" => o.m.causes = n.causes
                      /\ n.seen = "break" => "hard" \in o.m.causes
<1> SUFFICES ASSUME Careful, NEW n, GoodCM(n), n.halted
             PROVE  \A o \in CM!Run(n) :
                      /\ RunCM(n, o.m)
                      /\ o.ok => /\ ~o.m.halted /\ ~o.m.masked
                                 /\ \E y : /\ StepCM(n, y) /\ Through(n, n.regs, y, y.regs)
                                           /\ GoesOn(y, y.regs, o.m, o.m.regs)
                                 /\ n.seen # "break" => o.m.causes = n.causes
                                 /\ n.seen = "break" => "hard" \in o.m.causes
  OBVIOUS
<1> DEFINE Live1(x) == /\ n.seen # "break" => x.causes = n.causes
                       /\ n.seen = "break" => "hard" \in x.causes
           Ready1(x) == StepCM(n, x) /\ Through(n, n.regs, x, x.regs) /\ x.halted /\ Live1(x)
           Gone(x) == /\ RunCM(n, x) /\ ~x.halted /\ Live1(x)
                      /\ \E y : /\ StepCM(n, y) /\ Through(n, n.regs, y, y.regs)
                                /\ GoesOn(y, y.regs, x, x.regs)
           Ends(o) == RunCM(n, o.m) /\ (o.ok => Gone(o.m) /\ ~o.m.masked)
           AfterGo(d) == {CM!Ok(CM!SetCoreStatus(d.m, "running"))}
           AfterMask(c) == CM!Then(CM!Access(c.m, CM!Resumed(c.m), CM!Junk), AfterGo)
           AfterRead(b) == CM!Then(CM!SetMask(b.m, FALSE), AfterMask)
           AfterStep(a) == CM!Then(CM!Access(a.m, a.m, CM!Junk), AfterRead)
<1>1. \A x : StepCM(n, x) => RunCM(n, x)
  BY StepCMKeeps DEF RunCM, StepCM
<1>2. \A a \in CM!Step(n) : StepCM(n, a.m) /\ (a.ok => Ready1(a.m))
  BY CMStep
<1>3. \A x, y : Ready1(x) /\ HoldCM(x, y) => Ready1(y)
  <2> SUFFICES ASSUME NEW x, NEW y, Ready1(x), HoldCM(x, y)
               PROVE  Ready1(y)
    OBVIOUS
  <2>1. GoodCM(x) /\ CalmCM(x, y)
    BY HoldCalmCM DEF StepCM
  <2>2. y.causes = x.causes
    BY <2>1 DEF GoodCM, FitCM, HoldCM, Changed, FieldsCM, CoreFields, SightCM, Look
  <2>3. StepCM(n, y) /\ y.halted /\ y.regs = x.regs /\ y.ran = x.ran /\ y.epoch = x.epoch
    BY <2>1, StepCalmCM, CalmCMSame
  <2> QED BY <2>2, <2>3 DEF Through, Skips, GoesOn
<1>4. \A x : Ready1(x) => FitCM(x) /\ x.halted
  BY DEF StepCM, GoodCM
<1>5. \A x : Ready1(x) => \A p \in CM!Access(x, x, CM!Junk) : Ready1(p.m)
  BY <1>3, <1>4, CMAccessHolds, CMSame
<1>6. \A x : Ready1(x) => \A p \in CM!SetMask(x, FALSE) : Ready1(p.m) /\ (p.ok => p.m.masked = FALSE)
  BY <1>3, <1>4, CMSetMask
<1>7. ASSUME NEW x, Ready1(x), ~x.masked
      PROVE  \A p \in CM!Access(x, CM!Resumed(x), CM!Junk) :
               RunCM(n, p.m) /\ (p.ok => Ends(CM!Ok(CM!SetCoreStatus(p.m, "running"))))
  <2> DEFINE y == CM!Resumed(x)
             z == CM!SetCoreStatus(y, "running")
  <2>1. WentCM(x, y) /\ ~y.halted /\ GoodCM(x) /\ FitCM(x)
    BY <1>4, <1>7, CMResumed DEF StepCM
  <2>2. y.masked = x.masked
    <3>1. "masked" \in DOMAIN x /\ DOMAIN Restarted(x) = DOMAIN x /\ Restarted(x).masked = x.masked
      BY <2>1 DEF FitCM, FieldsCM, Restarted
    <3> QED BY <3>1, CMSame DEF CM!Resumed
  <2>3. \A w : Changed(y, w, {"faults", "seen"}) => WentCM(x, w) /\ w.halted = y.halted /\ w.masked = y.masked
    <3>1. DOMAIN y = FieldsCM
      BY <2>1, HoldCMFit DEF FitCM
    <3> QED BY <2>1, <3>1 DEF WentCM, Went, GoesOn, Changed, FieldsCM, CoreFields, SightCM, Look
  <2>4. \A w : WentCM(x, w) => RunCM(n, w) /\ (~w.halted => Gone(w))
    <3> SUFFICES ASSUME NEW w, WentCM(x, w)
                 PROVE  RunCM(n, w) /\ (~w.halted => Gone(w))
      OBVIOUS
    <3>1. GoodCM(w) /\ StepCM(x, w) /\ GoesOn(x, x.regs, w, w.regs)
      BY <2>1, GoodWentCM, WentStepCM DEF WentCM, Went
    <3>2. w.causes = x.causes
      BY <2>1 DEF FitCM, WentCM, Changed, FieldsCM, CoreFields, SightCM, Look
    <3>3. w.mem = n.mem /\ w.bps = n.bps /\ w.armed = n.armed
      BY <1>7, <2>1, <3>1, StepCMKeeps
    <3> QED BY <1>7, <3>1, <3>2, <3>3 DEF RunCM
  <2>5. Changed(y, Spent(y), {"faults", "seen"}) /\ Changed(y, z, {"faults", "seen"})
        /\ Changed(y, y, {"faults", "seen"})
    BY DEF Changed, Spent, CM!SetCoreStatus
  <2>6. RunCM(n, Spent(x))
    BY <1>1, <1>3, <1>7, <2>1, HoldCMRefl
  <2>. HIDE DEF y
  <2>7. RunCM(n, y) /\ RunCM(n, Spent(y)) /\ Gone(z) /\ ~z.masked
    BY <1>7, <2>1, <2>2, <2>3, <2>4, <2>5
  <2>. HIDE DEF Gone
  <2> QED BY <2>6, <2>7, AccessGives, CMSame, OutcomesGive DEF y, Gone
<1>. HIDE DEF Ready1, Ends, AfterGo, AfterMask, AfterRead, AfterStep, Gone, Live1
<1>8. \A x : ~x.ok /\ RunCM(n, x.m) => Ends(x)
  BY DEF Ends
<1>9. \A x : Ready1(x) => RunCM(n, x)
  BY <1>1 DEF Ready1
<1>10. \A c : Ready1(c.m) /\ c.m.masked = FALSE => \A p \in AfterMask(c) : Ends(p)
  BY <1>7, <1>8 DEF AfterMask, AfterGo, CM!Then
<1>11. \A b : Ready1(b.m) => \A p \in AfterRead(b) : Ends(p)
  BY <1>6, <1>8, <1>9, <1>10 DEF AfterRead, CM!Then
<1>12. \A a : Ready1(a.m) => \A p \in AfterStep(a) : Ends(p)
  BY <1>5, <1>8, <1>9, <1>11 DEF AfterStep, CM!Then
<1>13. \A p \in CM!Then(CM!Step(n), AfterStep) : Ends(p)
  BY <1>1, <1>2, <1>8, <1>12 DEF CM!Then
<1>14. CM!Run(n) = CM!Then(CM!Step(n), AfterStep)
  BY DEF CM!Run, AfterStep, AfterRead, AfterMask, AfterGo
<1> QED BY <1>13, <1>14 DEF Ends, Gone, Live1

(* A reset: every register is new, or it did not come to that. *)
AnewCM(n, x) ==
  /\ GoodCM(x) /\ Changed(n, x, SightCM \cup {"masked", "catch", "regs", "epoch"})
  /\ Stays(n, n.regs, x, x.regs) \/ (x.ran = n.ran /\ x.regs = Own(x.epoch))
HoldsCM(n, x) == /\ Changed(n, x, SightCM \cup {"masked", "catch"}) /\ x.halted \in BOOLEAN
                 /\ n.halted => x.halted

\* Where it is, with the vector catch as it was.
LEMMA HoldIsHoldsCM == \A n, x : HoldCM(n, x) => HoldsCM(n, x)
BY DEF HoldCM, HoldsCM, Changed

\* What a core that stays where it is keeps.
LEMMA HoldsCMKeeps ==
  \A n, x : GoodCM(n) /\ HoldsCM(n, x) =>
    /\ GoodCM(x) /\ Changed(n, x, SightCM \cup {"masked", "catch", "regs", "epoch"})
    /\ x.regs = n.regs /\ x.ran = n.ran /\ x.epoch = n.epoch /\ (n.halted => x.halted)
<1> SUFFICES ASSUME NEW n, NEW x, GoodCM(n), HoldsCM(n, x)
             PROVE  /\ GoodCM(x) /\ Changed(n, x, SightCM \cup {"masked", "catch", "regs", "epoch"})
                    /\ x.regs = n.regs /\ x.ran = n.ran /\ x.epoch = n.epoch /\ (n.halted => x.halted)
  OBVIOUS
<1>1. DOMAIN x = FieldsCM /\ \A f \in FieldsCM \ (SightCM \cup {"masked", "catch"}) : x[f] = n[f]
  BY DEF GoodCM, FitCM, HoldsCM, Changed
<1>2. /\ x.causes = n.causes /\ x.bpOn = n.bpOn /\ x.mem = n.mem /\ x.bps = n.bps
      /\ x.regs = n.regs /\ x.ran = n.ran /\ x.epoch = n.epoch
  BY <1>1 DEF FieldsCM, CoreFields, SightCM, Look
<1>3. GoodCM(x)
  BY <1>1, <1>2 DEF GoodCM, FitCM, HoldsCM
<1> QED BY <1>2, <1>3 DEF HoldsCM, Changed

\* After a reset, the core is left there.
LEMMA AnewHoldsCM == \A n, x, y : GoodCM(n) /\ AnewCM(n, x) /\ HoldsCM(x, y) => AnewCM(n, y)
<1> SUFFICES ASSUME NEW n, NEW x, NEW y, GoodCM(n), AnewCM(n, x), HoldsCM(x, y)
             PROVE  AnewCM(n, y)
  OBVIOUS
<1>1. /\ GoodCM(y) /\ y.regs = x.regs /\ y.ran = x.ran /\ y.epoch = x.epoch /\ (x.halted => y.halted)
      /\ Changed(n, y, SightCM \cup {"masked", "catch", "regs", "epoch"})
  BY HoldsCMKeeps, ChangedTrans DEF AnewCM
<1> QED BY <1>1 DEF AnewCM, Stays

\* To do nothing is a reset that it did not come to.
LEMMA AnewReflCM == \A n : GoodCM(n) => AnewCM(n, n)
BY ChangedRefl DEF AnewCM, Stays

\* What the core is when the reset is over.
LEMMA AfterResetCM ==
  \A n, x : GoodCM(n) /\ AnewCM(n, x) =>
    /\ AnewCM(n, CM!AfterReset(x)) /\ (x.catch = TRUE => CM!AfterReset(x).halted)
    /\ CM!AfterReset(x).regs = Own(CM!AfterReset(x).epoch)
<1> SUFFICES ASSUME NEW n, NEW x, GoodCM(n), AnewCM(n, x)
             PROVE  /\ AnewCM(n, CM!AfterReset(x)) /\ (x.catch = TRUE => CM!AfterReset(x).halted)
                    /\ CM!AfterReset(x).regs = Own(CM!AfterReset(x).epoch)
  OBVIOUS
<1> DEFINE y == CM!AfterReset(x)
<1>1. DOMAIN x = FieldsCM /\ GoodCM(x) /\ Changed(n, x, SightCM \cup {"masked", "catch", "regs", "epoch"})
  BY DEF AnewCM, GoodCM, FitCM
<1>2. /\ DOMAIN WasReset(x) = FieldsCM /\ WasReset(x).halted = FALSE
      /\ WasReset(x).epoch = 1 - x.epoch /\ WasReset(x).regs = Own(1 - x.epoch)
      /\ \A f \in FieldsCM \ {"halted", "epoch", "regs"} : WasReset(x)[f] = x[f]
  BY <1>1 DEF WasReset, FieldsCM, CoreFields
<1>3. /\ DOMAIN y = FieldsCM /\ y.halted \in BOOLEAN /\ (x.catch = TRUE => y.halted)
      /\ y.epoch = 1 - x.epoch /\ y.regs = Own(1 - x.epoch)
      /\ \A f \in FieldsCM \ {"halted", "why", "epoch", "regs", "dfsr", "cleared"} : y[f] = x[f]
  <2> DEFINE k == [WasReset(x) EXCEPT !.dfsr = CM!Dfsr(x), !.cleared = FALSE]
  <2>1. y = IF x.catch THEN Stopped(k) ELSE k
    BY CMSame DEF CM!AfterReset
  <2>2. /\ DOMAIN k = FieldsCM /\ k.halted = FALSE /\ k.epoch = 1 - x.epoch /\ k.regs = Own(1 - x.epoch)
        /\ \A f \in FieldsCM \ {"halted", "epoch", "regs", "dfsr", "cleared"} : k[f] = x[f]
    BY <1>2 DEF FieldsCM, CoreFields
  <2>. HIDE DEF k, y
  <2>3. /\ DOMAIN Stopped(k) = FieldsCM /\ Stopped(k).halted = TRUE
        /\ Stopped(k).epoch = k.epoch /\ Stopped(k).regs = k.regs
        /\ \A f \in FieldsCM \ {"halted", "why"} : Stopped(k)[f] = k[f]
    BY <2>2 DEF Stopped, FieldsCM, CoreFields
  <2> QED BY <2>1, <2>2, <2>3
<1>. HIDE DEF y
<1>4. /\ y.causes = x.causes /\ y.bpOn = x.bpOn /\ y.mem = x.mem /\ y.bps = x.bps /\ y.ran = x.ran
  BY <1>3 DEF FieldsCM, CoreFields
<1>5. y.epoch \in {0, 1} /\ DOMAIN y.regs = Regs /\ y.regs["pc"] # Own(1 - y.epoch)["pc"]
      /\ y.regs = Own(y.epoch)
  BY <1>1, <1>3, OwnPrograms DEF GoodCM
<1>6. GoodCM(y)
  BY <1>1, <1>3, <1>4, <1>5 DEF GoodCM, FitCM
<1>7. Changed(n, y, SightCM \cup {"masked", "catch", "regs", "epoch"})
  BY <1>1, <1>3 DEF Changed, SightCM, Look
<1>8. y.ran = n.ran
  BY <1>4 DEF AnewCM, Stays
<1> QED BY <1>3, <1>5, <1>6, <1>7, <1>8 DEF y, AnewCM

\* The system is reset: the core halts at its first instruction if told to.
LEMMA CMResetSystem ==
  \A n, x : GoodCM(n) /\ AnewCM(n, x) => \A o \in CM!ResetSystem(x) :
    /\ AnewCM(n, o.m)
    /\ o.ok => o.m.regs = Own(o.m.epoch) /\ (x.catch = TRUE => o.m.halted)
<1>1. \A y : GoodCM(y) => \A p \in Poll(y) : HoldsCM(y, p.m)
  <2> SUFFICES ASSUME NEW y, GoodCM(y), NEW p \in Poll(y)
               PROVE  HoldsCM(y, p.m)
    OBVIOUS
  <2>1. Changed(y, p.m, Look) /\ Watched(y, p.m) /\ p.m.halted \in BOOLEAN
    BY PollGives DEF GoodCM, FitCM, FieldsCM, CoreFields
  <2> QED BY <2>1 DEF HoldsCM, Watched, Changed, SightCM
<1>2. \A y : GoodCM(y) => HoldsCM(y, Spent(y))
  BY HoldCMRefl, HoldIsHoldsCM DEF GoodCM
<1> SUFFICES ASSUME NEW n, NEW x, GoodCM(n), AnewCM(n, x), NEW o \in CM!ResetSystem(x)
             PROVE  /\ AnewCM(n, o.m)
                    /\ o.ok => o.m.regs = Own(o.m.epoch) /\ (x.catch = TRUE => o.m.halted)
  OBVIOUS
<1> DEFINE y == CM!AfterReset(x)
<1>3. PICK a \in Access(x, y, CM!Junk) : IF a.ok THEN o \in Poll(a.m) ELSE o = a
  BY CMSame DEF CM!ResetSystem, CM!Then
<1>. HIDE DEF y
<1>4. AnewCM(n, y) /\ (x.catch = TRUE => y.halted) /\ y.regs = Own(y.epoch)
  BY AfterResetCM DEF y
<1>5. AnewCM(n, Spent(x)) /\ AnewCM(n, Spent(y))
  BY <1>2, <1>4, AnewHoldsCM DEF AnewCM
<1>6. CASE a.ok
  <2>1. a.m = y /\ o \in Poll(y) /\ GoodCM(y)
    BY <1>3, <1>4, <1>6, AccessGives DEF AnewCM
  <2>2. HoldsCM(y, o.m)
    BY <1>1, <2>1
  <2>3. AnewCM(n, o.m) /\ o.m.regs = y.regs /\ o.m.epoch = y.epoch /\ (y.halted => o.m.halted)
    BY <1>4, <2>1, <2>2, AnewHoldsCM, HoldsCMKeeps
  <2> QED BY <1>4, <2>3
<1>7. CASE ~a.ok
  BY <1>3, <1>5, <1>7, AccessGives
<1> QED BY <1>6, <1>7

\* The vector catch is set, or cleared.
LEMMA CMSetCatch ==
  \A n, b : GoodCM(n) => \A o \in CM!SetCatch(n, b) : HoldsCM(n, o.m) /\ (o.ok => o.m.catch = b)
<1> SUFFICES ASSUME NEW n, NEW b, GoodCM(n), NEW o \in CM!SetCatch(n, b)
             PROVE  HoldsCM(n, o.m) /\ (o.ok => o.m.catch = b)
  OBVIOUS
<1> DEFINE x == [n EXCEPT !.catch = b]
<1>1. \/ o.ok /\ o.m = x
      \/ ~o.ok /\ o.m \in {Spent(n), Spent(x)}
  BY CMSame, AccessGives DEF CM!SetCatch
<1>2. DOMAIN n = FieldsCM /\ n.halted \in BOOLEAN
  BY DEF GoodCM, FitCM
<1> QED BY <1>1, <1>2 DEF HoldsCM, Changed, Spent, FieldsCM, CoreFields, SightCM, Look

\* The core is reset and halts, and the answer is its program counter.
LEMMA CMResetAndHalt ==
  \A n : GoodCM(n) => \A o \in CM!ResetAndHalt(n) :
    /\ AnewCM(n, o.m)
    /\ o.ok => o.m.regs = Own(o.m.epoch) /\ o.m.halted /\ o.val = o.m.regs["pc"]
<1> SUFFICES ASSUME NEW n, GoodCM(n)
             PROVE  \A o \in CM!ResetAndHalt(n) :
                      /\ AnewCM(n, o.m)
                      /\ o.ok => o.m.regs = Own(o.m.epoch) /\ o.m.halted /\ o.val = o.m.regs["pc"]
  OBVIOUS
<1> DEFINE New(x) == AnewCM(n, x) /\ x.regs = Own(x.epoch) /\ x.halted
           Ends(o) == AnewCM(n, o.m) /\ (o.ok => New(o.m) /\ o.val = o.m.regs["pc"])
           Last(e) == CM!ReadReg(e.m, "pc")
           AfterFp(d) == CM!Then(CM!SetCatch(d.m, FALSE), Last)
           AfterStatus(c) == CM!Then(CM!ReadReg(c.m, "f"), AfterFp)
           AfterReset(b) == CM!Then(CM!Status(b.m), AfterStatus)
           AfterCatch(a) == CM!Then(CM!ResetSystem(a.m), AfterReset)
<1>1. \A x, y : New(x) /\ HoldsCM(x, y) => New(y)
  <2> SUFFICES ASSUME NEW x, NEW y, New(x), HoldsCM(x, y)
               PROVE  New(y)
    OBVIOUS
  <2>1. GoodCM(x)
    BY DEF AnewCM
  <2> QED BY <2>1, AnewHoldsCM, HoldsCMKeeps
<1>2. \A x, r : New(x) => \A p \in CM!ReadReg(x, r) : New(p.m) /\ (p.ok => p.m = x /\ p.val = x.regs[r])
  <2>1. \A x : New(x) => FitCM(x)
    BY DEF AnewCM, GoodCM
  <2>. HIDE DEF New
  <2> QED BY <1>1, <2>1, CMReadHolds, HoldIsHoldsCM
<1>3. \A x : New(x) => \A p \in CM!SetCatch(x, FALSE) : New(p.m)
  BY <1>1, CMSetCatch DEF AnewCM
<1>4. \A x : New(x) => \A q \in CM!Status(x) : New(q.m)
  <2> SUFFICES ASSUME NEW x, New(x), NEW q \in CM!Status(x)
               PROVE  New(q.m)
    OBVIOUS
  <2>1. Changed(x, q.m, SightCM) /\ Watched(x, q.m) /\ q.m.halted \in BOOLEAN
    BY CMStatus DEF AnewCM, GoodCM, FitCM, FieldsCM, CoreFields
  <2>2. HoldsCM(x, q.m)
    BY <2>1 DEF HoldsCM, Changed, Watched
  <2> QED BY <1>1, <2>2
<1>5. \A a \in CM!SetCatch(n, TRUE) : AnewCM(n, a.m) /\ (a.ok => a.m.catch = TRUE)
  BY CMSetCatch, AnewReflCM, AnewHoldsCM
<1>6. \A x : AnewCM(n, x) /\ x.catch = TRUE => \A p \in CM!ResetSystem(x) :
               AnewCM(n, p.m) /\ (p.ok => New(p.m))
  BY CMResetSystem
<1>7. \A x : New(x) => AnewCM(n, x)
  OBVIOUS
<1>. HIDE DEF New, AfterCatch, AfterReset, AfterStatus, AfterFp, Last
<1>8. \A e : New(e.m) => \A p \in Last(e) : Ends(p)
  BY <1>2, <1>7 DEF Last
<1>9. \A d : New(d.m) => \A p \in AfterFp(d) : Ends(p)
  BY <1>3, <1>7, <1>8 DEF AfterFp, CM!Then
<1>10. \A c : New(c.m) => \A p \in AfterStatus(c) : Ends(p)
  BY <1>2, <1>7, <1>9 DEF AfterStatus, CM!Then
<1>11. \A b : New(b.m) => \A p \in AfterReset(b) : Ends(p)
  BY <1>4, <1>7, <1>10 DEF AfterReset, CM!Then
<1>12. \A a : AnewCM(n, a.m) /\ a.m.catch = TRUE => \A p \in AfterCatch(a) : Ends(p)
  BY <1>6, <1>11 DEF AfterCatch, CM!Then
<1>13. \A p \in CM!Then(CM!SetCatch(n, TRUE), AfterCatch) : Ends(p)
  BY <1>5, <1>12 DEF CM!Then
<1>14. CM!ResetAndHalt(n) = CM!Then(CM!SetCatch(n, TRUE), AfterCatch)
  BY DEF CM!ResetAndHalt, AfterCatch, AfterReset, AfterStatus, AfterFp, Last
<1> QED BY <1>13, <1>14 DEF New

(* What is read of memory is what is there.                                *)
LEMMA CMReadMemory ==
  \A n : GoodCM(n) =>
    /\ \A l : \A o \in CM!ReadLane(n, l) :
         o.m \in {n, Spent(n)} /\ (o.ok => o.val = Data(o.m.mem[l]))
    /\ \A o \in CM!ReadWords(n) :
         /\ HoldCM(n, o.m)
         /\ o.ok => o.val = Data(Word(o.m.mem, 0) + 4 * Word(o.m.mem, 2))
<1> SUFFICES ASSUME NEW n, GoodCM(n)
             PROVE  /\ \A l : \A o \in CM!ReadLane(n, l) :
                         o.m \in {n, Spent(n)} /\ (o.ok => o.val = Data(o.m.mem[l]))
                    /\ \A o \in CM!ReadWords(n) :
                         /\ HoldCM(n, o.m)
                         /\ o.ok => o.val = Data(Word(o.m.mem, 0) + 4 * Word(o.m.mem, 2))
  OBVIOUS
<1>1. \A k : CM!Data(k) = Data(k) /\ Data(k).n = k
  BY DEF CM!Data, Data
<1>2. \A mem, a : CM!Word(mem, a) = Word(mem, a)
  BY DEF CM!Word, Word
<1>3. \A l : \A o \in CM!ReadLane(n, l) :
        o.m \in {n, Spent(n)} /\ (o.ok => o.val = Data(o.m.mem[l]))
  BY <1>1, CMSame, AccessGives DEF CM!ReadLane
<1>4. \A x, a : \A o \in CM!ReadWord(x, a) :
        IF o.ok THEN o.m = x /\ o.val.n = Word(x.mem, a) ELSE o.m \in {x, Spent(x)}
  BY <1>1, <1>2, CMSame, AccessGives DEF CM!ReadWord
<1>5. HoldCM(n, n) /\ HoldCM(n, Spent(n))
  BY HoldCMRefl DEF GoodCM
<1>6. ASSUME NEW o \in CM!ReadWords(n)
      PROVE  /\ HoldCM(n, o.m)
             /\ o.ok => o.val = Data(Word(o.m.mem, 0) + 4 * Word(o.m.mem, 2))
  <2>1. PICK x \in CM!ReadWord(n, 0) :
          IF x.ok THEN \E y \in CM!ReadWord(x.m, 2) :
                         IF y.ok THEN o = CM!Give(y.m, CM!Data(x.val.n + 4 * y.val.n)) ELSE o = y
          ELSE o = x
    BY <1>6 DEF CM!ReadWords, CM!Then
  <2>2. CASE ~x.ok
    BY <1>4, <1>5, <2>1, <2>2
  <2>3. CASE x.ok
    <3>1. x.m = n /\ x.val.n = Word(n.mem, 0)
      BY <1>4, <2>3
    <3>2. PICK y \in CM!ReadWord(n, 2) :
            IF y.ok THEN o = CM!Give(y.m, CM!Data(x.val.n + 4 * y.val.n)) ELSE o = y
      BY <2>1, <2>3, <3>1
    <3>3. IF y.ok THEN y.m = n /\ y.val.n = Word(n.mem, 2) ELSE y.m \in {n, Spent(n)}
      BY <1>4
    <3> QED BY <1>1, <1>5, <3>1, <3>2, <3>3, CMSame, OutcomesGive
  <2> QED BY <2>2, <2>3
<1> QED BY <1>3, <1>6

(* Memory is written where it is to be written, and nothing else changes.  *)
LEMMA CMWriteMemory ==
  \A n : GoodCM(n) =>
    /\ \A l \in Lanes : \A o \in CM!WriteLane(n, l) :
         Writes(n.mem, o, {l}) /\ Changed(n, o.m, {"faults", "mem"})
    /\ \A o \in CM!WriteWords(n) :
         Writes(n.mem, o, Lanes) /\ Changed(n, o.m, {"faults", "mem"})
<1> DEFINE Filled(n, x) == Changed(n, x, {"faults", "mem"}) /\ x.mem \in [Lanes -> {0, 1}]
           Roomy(n) == DOMAIN n = FieldsCM /\ n.mem \in [Lanes -> {0, 1}]
           Put(n, mem) == [n EXCEPT !.mem = mem]
<1>a. \A n, mem : Roomy(n) => /\ Changed(n, Put(n, mem), {"faults", "mem"})
                            /\ DOMAIN Put(n, mem) = DOMAIN n /\ Put(n, mem).mem = mem
  BY DEF Changed, FieldsCM, CoreFields
<1>b. \A n : Roomy(n) => /\ Changed(n, Spent(n), {"faults", "mem"})
                       /\ DOMAIN Spent(n) = DOMAIN n /\ Spent(n).mem = n.mem
  BY DEF Changed, Spent, FieldsCM, CoreFields
<1>1. \A n, mem : Roomy(n) /\ mem \in [Lanes -> {0, 1}] =>
         /\ Filled(n, n) /\ Filled(n, Spent(n)) /\ Filled(n, Put(n, mem)) /\ Filled(n, Spent(Put(n, mem)))
         /\ Roomy(Put(n, mem)) /\ Put(n, mem).mem = mem /\ Spent(n).mem = n.mem
         /\ Spent(Put(n, mem)).mem = mem
  <2>. HIDE DEF Put
  <2> SUFFICES ASSUME NEW n, NEW mem, Roomy(n), mem \in [Lanes -> {0, 1}]
               PROVE  /\ Filled(n, n) /\ Filled(n, Spent(n)) /\ Filled(n, Put(n, mem)) /\ Filled(n, Spent(Put(n, mem)))
                      /\ Roomy(Put(n, mem)) /\ Put(n, mem).mem = mem /\ Spent(n).mem = n.mem
                      /\ Spent(Put(n, mem)).mem = mem
    OBVIOUS
  <2>1. Roomy(Put(n, mem))
    BY <1>a
  <2>2. Changed(n, Spent(Put(n, mem)), {"faults", "mem"})
    BY <1>a, <1>b, <2>1, ChangedTrans
  <2>3. Changed(n, n, {"faults", "mem"})
    BY ChangedRefl
  <2> QED BY <1>a, <1>b, <2>1, <2>2, <2>3
<1>2. \A n, a, k : \A o \in CM!WriteWord(n, a, k) :
         LET mem == Patched(n.mem, a, k)
         IN IF o.ok THEN o.m = Put(n, mem) ELSE o.m \in {Spent(n), Spent(Put(n, mem))}
  BY CMSame, AccessGives DEF CM!WriteWord, CM!Patched, Patched
<1>3. \A n, l : \A o \in CM!WriteLane(n, l) :
         LET mem == [n.mem EXCEPT ![l] = 1]
         IN IF o.ok THEN o.m = Put(n, mem) ELSE o.m \in {Spent(n), Spent(Put(n, mem))}
  BY CMSame, AccessGives DEF CM!WriteLane
<1>4. \A n : GoodCM(n) => Roomy(n)
  BY DEF GoodCM, FitCM
<1>. HIDE DEF Roomy, Put
<1>5. \A n : Roomy(n) => n.mem \in [Lanes -> {0, 1}]
  BY DEF Roomy
<1>6. ASSUME NEW n, GoodCM(n), NEW l \in Lanes, NEW o \in CM!WriteLane(n, l)
      PROVE  Writes(n.mem, o, {l}) /\ Changed(n, o.m, {"faults", "mem"})
  <2> DEFINE mem == [n.mem EXCEPT ![l] = 1]
  <2>1. mem \in [Lanes -> {0, 1}] /\ \A j \in Lanes : mem[j] = IF j = l THEN 1 ELSE n.mem[j]
    BY <1>4, <1>5, <1>6
  <2>2. IF o.ok THEN o.m = Put(n, mem) ELSE o.m \in {Spent(n), Spent(Put(n, mem))}
    BY <1>3, <1>6
  <2>. HIDE DEF mem
  <2>4. /\ Filled(n, n) /\ Filled(n, Spent(n)) /\ Filled(n, Put(n, mem)) /\ Filled(n, Spent(Put(n, mem)))
        /\ Put(n, mem).mem = mem /\ Spent(n).mem = n.mem /\ Spent(Put(n, mem)).mem = mem
    BY <1>1, <1>4, <1>6, <2>1
  <2>3. Filled(n, o.m) /\ (o.m.mem = mem \/ (~o.ok /\ o.m.mem = n.mem))
    <3>. HIDE DEF Filled
    <3> QED BY <2>2, <2>4
  <2> QED BY <2>1, <2>3 DEF Writes
<1>7. ASSUME NEW n, GoodCM(n), NEW o \in CM!WriteWords(n)
      PROVE  Writes(n.mem, o, Lanes) /\ Changed(n, o.m, {"faults", "mem"})
  <2> DEFINE one == Patched(n.mem, 0, 3)
             two == Patched(one, 2, 3)
  <2>1. n.mem \in [Lanes -> {0, 1}]
    BY <1>4, <1>5, <1>7
  <2>2. one \in [Lanes -> {0, 1}] /\ \A j \in Lanes : one[j] = IF j \in {0, 1} THEN 1 ELSE n.mem[j]
    BY <2>1, PatchedWords
  <2>. HIDE DEF one
  <2>3. two \in [Lanes -> {0, 1}] /\ \A j \in Lanes : two[j] = IF j \in {2, 3} THEN 1 ELSE one[j]
    BY <2>2, PatchedWords
  <2>4. PICK a \in CM!WriteWord(n, 0, 3) : IF a.ok THEN o \in CM!WriteWord(a.m, 2, 3) ELSE o = a
    BY <1>7 DEF CM!WriteWords, CM!Then
  <2>5. IF a.ok THEN a.m = Put(n, one) ELSE a.m \in {Spent(n), Spent(Put(n, one))}
    BY <1>2 DEF one
  <2>6. Put(n, one).mem = one /\ Roomy(n) /\ Roomy(Put(n, one))
    BY <1>1, <1>4, <1>7, <2>2
  <2>. HIDE DEF two
  <2>7. CASE a.ok
    <3>1. IF o.ok THEN o.m = Put(Put(n, one), two)
          ELSE o.m \in {Spent(Put(n, one)), Spent(Put(Put(n, one), two))}
      BY <1>2, <2>4, <2>5, <2>6, <2>7 DEF two
    <3>2. Filled(Put(n, one), o.m) /\ (o.m.mem = two \/ (~o.ok /\ o.m.mem = one))
      BY <1>1, <2>2, <2>3, <2>6, <3>1
    <3>3. Filled(n, Put(n, one))
      BY <1>1, <2>2, <2>6
    <3>4. Filled(n, o.m)
      BY <3>2, <3>3, ChangedTrans
    <3> QED BY <2>2, <2>3, <3>2, <3>4 DEF Writes, Lanes
  <2>8. CASE ~a.ok
    <3>1. Filled(n, o.m) /\ o.m.mem \in {n.mem, one} /\ ~o.ok
      BY <1>1, <2>2, <2>4, <2>5, <2>6, <2>8
    <3> QED BY <2>2, <3>1 DEF Writes, Lanes
  <2> QED BY <2>7, <2>8
<1> QED BY <1>6, <1>7

(* The breakpoint units. *)
LEMMA CMBreakpoints ==
  \A n : GoodCM(n) =>
    /\ \A o \in CM!HwBreakpoints(n) : HoldCM(n, o.m)
    /\ \A u, x : \A o \in CM!SetHwBreakpoint(n, u, x) : UnitsSet(n, o, u, x)
    /\ \A u : \A o \in CM!ClearHwBreakpoint(n, u) : UnitsSet(n, o, u, Free)
    /\ CM!Listed(n) = n.bps
<1> SUFFICES ASSUME NEW n, GoodCM(n)
             PROVE  /\ \A o \in CM!HwBreakpoints(n) : HoldCM(n, o.m)
                    /\ \A u, x : \A o \in CM!SetHwBreakpoint(n, u, x) : UnitsSet(n, o, u, x)
                    /\ \A u : \A o \in CM!ClearHwBreakpoint(n, u) : UnitsSet(n, o, u, Free)
                    /\ CM!Listed(n) = n.bps
  OBVIOUS
<1>1. FitCM(n) /\ {"faults", "bps"} \subseteq DOMAIN n
  BY DEF GoodCM, FitCM, FieldsCM, CoreFields
<1>2. CM!Junk = Junk /\ CM!Free = Free
  BY DEF CM!Junk, Junk, CM!Free, Free
<1>3. \A o \in CM!HwBreakpoints(n) : HoldCM(n, o.m)
  BY <1>1, CMAccessHolds, CMSame DEF CM!HwBreakpoints
<1>4. \A u, x : \A o \in CM!SetHwBreakpoint(n, u, x) : UnitsSet(n, o, u, x)
  BY <1>1, <1>2, AccessSetsUnit, CMSame DEF CM!SetHwBreakpoint
<1>5. \A u : \A o \in CM!ClearHwBreakpoint(n, u) : UnitsSet(n, o, u, Free)
  BY <1>1, <1>2, AccessSetsUnit, CMSame DEF CM!ClearHwBreakpoint
<1>6. CM!Listed(n) = n.bps
  BY DEF CM!Listed
<1> QED BY <1>3, <1>4, <1>5, <1>6

\* To set one breakpoint unit leaves the driver in order.
LEMMA GoodUnitsCM ==
  \A n, o, u, x : GoodCM(n) /\ UnitsSet(n, o, u, x) =>
    /\ GoodCM(o.m) /\ o.m.mem = n.mem /\ o.m.halted = n.halted /\ o.m.why = n.why
    /\ o.m.regs = n.regs /\ o.m.ran = n.ran /\ o.m.epoch = n.epoch /\ o.m.causes = n.causes
    /\ o.m.armed = n.armed
<1> SUFFICES ASSUME NEW n, NEW o, NEW u, NEW x, GoodCM(n), UnitsSet(n, o, u, x)
             PROVE  /\ GoodCM(o.m) /\ o.m.mem = n.mem /\ o.m.halted = n.halted /\ o.m.why = n.why
                    /\ o.m.regs = n.regs /\ o.m.ran = n.ran /\ o.m.epoch = n.epoch
                    /\ o.m.causes = n.causes /\ o.m.armed = n.armed
  OBVIOUS
<1>1. DOMAIN o.m = FieldsCM /\ \A f \in FieldsCM \ {"faults", "bps"} : o.m[f] = n[f]
  BY DEF UnitsSet, Changed, GoodCM, FitCM
<1>2. /\ o.m.mem = n.mem /\ o.m.halted = n.halted /\ o.m.why = n.why
      /\ o.m.regs = n.regs /\ o.m.ran = n.ran /\ o.m.epoch = n.epoch /\ o.m.causes = n.causes
      /\ o.m.armed = n.armed /\ o.m.bpOn = n.bpOn /\ DOMAIN o.m.bps = Units
  BY <1>1 DEF FieldsCM, CoreFields, UnitsSet, GoodCM
<1> QED BY <1>1, <1>2 DEF GoodCM, FitCM

(* When the session ends the core runs on. *)
LEMMA CMLeave ==
  \A n : GoodCM(n) => \A o \in CM!Leave(n) :
    /\ GoodCM(o.m) /\ o.m.mem = n.mem /\ o.m.bps = n.bps /\ o.m.causes = n.causes
    /\ IF n.halted THEN Stays(n, n.regs, o.m, o.m.regs) \/ GoesOn(n, n.regs, o.m, o.m.regs)
                   ELSE Stays(n, n.regs, o.m, o.m.regs)
    /\ o.ok => ~o.m.halted
<1> SUFFICES ASSUME NEW n, GoodCM(n)
             PROVE  \A o \in CM!Leave(n) :
                      /\ GoodCM(o.m) /\ o.m.mem = n.mem /\ o.m.bps = n.bps /\ o.m.causes = n.causes
                      /\ IF n.halted
                         THEN Stays(n, n.regs, o.m, o.m.regs) \/ GoesOn(n, n.regs, o.m, o.m.regs)
                         ELSE Stays(n, n.regs, o.m, o.m.regs)
                      /\ o.ok => ~o.m.halted
  OBVIOUS
<1> DEFINE y == [CM!Resumed(n) EXCEPT !.masked = FALSE]
           Left(x) == /\ GoodCM(x) /\ x.mem = n.mem /\ x.bps = n.bps /\ x.causes = n.causes
                      /\ IF n.halted THEN Stays(n, n.regs, x, x.regs) \/ GoesOn(n, n.regs, x, x.regs)
                                     ELSE Stays(n, n.regs, x, x.regs)
           Off(a) == CM!Access(a.m, [a.m EXCEPT !.catch = FALSE], CM!Junk)
<1>1. FitCM(n)
  BY DEF GoodCM
<1>2. (IF n.halted THEN WentCM(n, y) ELSE HoldCM(n, y)) /\ ~y.halted
  <2>1. CASE n.halted
    <3> DEFINE z == CM!Resumed(n)
    <3>1. WentCM(n, z) /\ ~z.halted
      BY <1>1, <2>1, CMResumed
    <3>2. DOMAIN z = FieldsCM
      BY <1>1, <3>1, HoldCMFit DEF FitCM
    <3>. HIDE DEF z
    <3>3. HoldCM(z, [z EXCEPT !.masked = FALSE]) /\ ~[z EXCEPT !.masked = FALSE].halted
      BY <3>1, <3>2 DEF HoldCM, Changed, FieldsCM, CoreFields, WentCM
    <3> QED BY <1>1, <2>1, <3>1, <3>3, WentHoldCM DEF z
  <2>2. CASE ~n.halted
    <3>1. y = [[n EXCEPT !.dfsr = CM!Dfsr(n), !.cleared = FALSE] EXCEPT !.masked = FALSE]
      BY <2>2, CMSame DEF CM!Resumed, Restarted
    <3> QED BY <1>1, <2>2, <3>1 DEF HoldCM, Changed, FieldsCM, CoreFields, FitCM, SightCM, Look
  <2> QED BY <2>1, <2>2
<1>. HIDE DEF y
<1>3. \A x : HoldsCM(n, x) => Left(x)
  BY HoldsCMKeeps DEF Stays, Changed, GoodCM, FitCM, FieldsCM, CoreFields, SightCM, Look
<1>4. \A x : WentCM(n, x) /\ n.halted => Left(x)
  BY <1>1, GoodWentCM DEF WentCM, Went, Changed, FitCM, FieldsCM, CoreFields, SightCM, Look
<1>5. \A a, b : HoldsCM(a, b) /\ GoodCM(a) => HoldsCM(a, b) /\ b.regs = a.regs /\ b.ran = a.ran
                  /\ b.epoch = a.epoch /\ (a.halted => b.halted)
                  /\ b.mem = a.mem /\ b.bps = a.bps /\ b.causes = a.causes /\ GoodCM(b)
  BY HoldsCMKeeps DEF Changed, GoodCM, FitCM, FieldsCM, CoreFields, SightCM, Look
<1>6. \A a, b : Left(a) /\ HoldsCM(a, b) => Left(b)
  BY <1>5 DEF Stays, GoesOn
<1>7. \A a : GoodCM(a) => HoldsCM(a, Spent(a)) /\ HoldsCM(a, a)
  BY HoldCMRefl, HoldIsHoldsCM DEF GoodCM
<1>8. Left(y) /\ Left(Spent(y)) /\ Left(Spent(n))
  <2>1. Left(y)
    BY <1>2, <1>3, <1>4, HoldIsHoldsCM
  <2>2. GoodCM(y)
    BY <2>1
  <2>. HIDE DEF Left
  <2> QED BY <1>3, <1>6, <1>7, <2>1, <2>2
<1>9. \A x : GoodCM(x) => LET z == [x EXCEPT !.catch = FALSE]
                          IN HoldsCM(x, z) /\ HoldsCM(x, Spent(z)) /\ (~x.halted => ~z.halted)
  BY DEF HoldsCM, Changed, GoodCM, FitCM, FieldsCM, CoreFields, Spent, SightCM, Look
<1>10. \A a : Left(a.m) => GoodCM(a.m)
  OBVIOUS
<1>. HIDE DEF Left
<1>11. \A a : Left(a.m) /\ ~a.m.halted => \A o \in Off(a) : Left(o.m) /\ (o.ok => ~o.m.halted)
  <2> SUFFICES ASSUME NEW a, Left(a.m), ~a.m.halted, NEW o \in Off(a)
               PROVE  Left(o.m) /\ (o.ok => ~o.m.halted)
    OBVIOUS
  <2> DEFINE z == [a.m EXCEPT !.catch = FALSE]
  <2>1. \/ o.ok /\ o.m = z
        \/ ~o.ok /\ o.m \in {Spent(a.m), Spent(z)}
    BY AccessGives, CMSame
  <2>2. HoldsCM(a.m, z) /\ HoldsCM(a.m, Spent(z)) /\ HoldsCM(a.m, Spent(a.m)) /\ ~z.halted
    BY <1>7, <1>9, <1>10
  <2>. HIDE DEF z
  <2> QED BY <1>6, <2>1, <2>2
<1>12. \A a \in CM!Access(n, y, CM!Junk) : Left(a.m) /\ (a.ok => ~a.m.halted)
  BY <1>2, <1>8, AccessGives, CMSame
<1>. HIDE DEF Off
<1>13. \A o \in CM!Then(CM!Access(n, y, CM!Junk), Off) : Left(o.m) /\ (o.ok => ~o.m.halted)
  BY <1>11, <1>12 DEF CM!Then
<1>14. CM!Leave(n) = CM!Then(CM!Access(n, y, CM!Junk), Off)
  BY DEF CM!Leave, y, Off
<1> QED BY <1>13, <1>14 DEF Left

-----------------------------------------------------------------------------
(* The driver of ARMv7-A.                                                 *)

(* The operators of CoreAccess are the same for the driver of ARMv7-A. *)
LEMMA V7Same ==
  \A n, x, v :
    /\ V7a!Access(n, x, v) = Access(n, x, v) /\ V7a!Give(n, v) = Give(n, v)
    /\ V7a!Ok(n) = Ok(n) /\ V7a!Err(n) = Err(n) /\ V7a!Fail(n) = Fail(n)
    /\ V7a!Stops(n) = Stops(n) /\ V7a!Stopped(n) = Stopped(n)
    /\ V7a!Poll(n) = Poll(n) /\ V7a!AwaitHalt(n) = AwaitHalt(n) /\ V7a!Yes = Yes
    /\ V7a!Restarted(n) = Restarted(n) /\ V7a!WasReset(n) = WasReset(n)
    /\ \A W : V7a!StopsAgain(n, W) = StopsAgain(n, W)
<1>1. /\ V7a!Junk = Junk /\ V7a!Units = Units /\ V7a!Free = Free /\ V7a!Regs = Regs
      /\ \A b : V7a!Flag(b) = Flag(b)
  BY DEF V7a!Junk, Junk, V7a!Units, Units, V7a!Free, Free, V7a!Regs, Regs, V7a!Flag, Flag
<1>2. /\ V7a!Yes = Yes /\ \A e : V7a!Own(e) = Own(e)
  BY <1>1 DEF V7a!Yes, Yes, V7a!Own, Own
<1>3. \A n, v : V7a!Give(n, v) = Give(n, v) /\ V7a!Err(n) = Err(n) /\ V7a!Fail(n) = Fail(n)
  BY <1>1 DEF V7a!Give, Give, V7a!Err, Err, V7a!Fail, Fail
<1>4. \A n, x, v : V7a!Access(n, x, v) = Access(n, x, v) /\ V7a!Ok(n) = Ok(n)
  BY <1>1, <1>3 DEF V7a!Access, Access, V7a!Ok, Ok
<1>5. \A n : V7a!Stopped(n) = Stopped(n) /\ V7a!Reasons(n) = Reasons(n)
  BY <1>1 DEF V7a!Stopped, Stopped, V7a!Reasons, Reasons
<1>6. \A n : V7a!Stops(n) = Stops(n)
  BY <1>5 DEF V7a!Stops, Stops
<1>7. \A n : V7a!Poll(n) = Poll(n)
  BY <1>1, <1>4, <1>6 DEF V7a!Poll, Poll
<1>8. \A n : V7a!AwaitHalt(n) = AwaitHalt(n)
  BY <1>2, <1>3, <1>4, <1>5, <1>6 DEF V7a!AwaitHalt, AwaitHalt
<1>9. \A n : V7a!Restarted(n) = Restarted(n) /\ V7a!WasReset(n) = WasReset(n)
  BY <1>2 DEF V7a!Restarted, Restarted, V7a!WasReset, WasReset
<1>10. \A n, W : V7a!StopsAgain(n, W) = StopsAgain(n, W)
  BY DEF V7a!StopsAgain, StopsAgain
<1> QED BY <1>2, <1>3, <1>4, <1>5, <1>6, <1>7, <1>8, <1>9, <1>10

(* An instruction takes a halted core to x, and does nothing to one that    *)
(* runs.                                                                    *)
LEMMA V7Execute ==
  \A n, x, v : FitA(n) /\ (n.halted => QuietA(n, x)) => \A o \in V7a!Execute(n, x, v) :
    QuietA(n, o.m) /\ (o.ok => n.halted /\ o.m = x /\ o.val = v)
<1> SUFFICES ASSUME NEW n, NEW x, NEW v, FitA(n), n.halted => QuietA(n, x),
                    NEW o \in V7a!Execute(n, x, v)
             PROVE  QuietA(n, o.m) /\ (o.ok => n.halted /\ o.m = x /\ o.val = v)
  OBVIOUS
<1>1. CASE n.seen = "running" \/ ~n.halted
  BY <1>1, V7Same, OutcomesGive, QuietARefl DEF V7a!Execute
<1>2. CASE ~(n.seen = "running" \/ ~n.halted)
  <2>1. \/ o.ok /\ o.m = x /\ o.val = v
        \/ ~o.ok /\ o.m \in {Spent(n), Spent(x)}
    BY <1>2, V7Same, AccessGives DEF V7a!Execute
  <2>2. QuietA(n, Spent(n)) /\ QuietA(x, Spent(x))
    BY <1>2, QuietARefl DEF QuietA
  <2> QED BY <1>2, <2>1, <2>2, QuietATrans
<1> QED BY <1>1, <1>2

\* An instruction that leaves a register in DTRTX.
LEMMA V7WithResult ==
  \A n, r : FitA(n) => \A o \in V7a!WithResult(n, r) :
    QuietA(n, o.m) /\ (o.ok => n.halted /\ o.m = n /\ o.val = n.regs[r])
BY V7Execute, QuietARefl DEF V7a!WithResult

\* One that takes a register from DTRRX.
LEMMA V7WithInput ==
  \A n, r, v : FitA(n) => \A o \in V7a!WithInput(n, r, v) :
    QuietA(n, o.m) /\ (o.ok => n.halted /\ o.m = Given(n, r, v))
<1> SUFFICES ASSUME NEW n, NEW r, NEW v, FitA(n), NEW o \in V7a!WithInput(n, r, v)
             PROVE  QuietA(n, o.m) /\ (o.ok => n.halted /\ o.m = Given(n, r, v))
  OBVIOUS
<1>1. n.halted => QuietA(n, Given(n, r, v))
  BY GivenQuietA
<1>2. V7a!WithInput(n, r, v) = V7a!Execute(n, Given(n, r, v), V7a!Junk)
  BY DEF V7a!WithInput, Given
<1> QED BY <1>1, <1>2, V7Execute

\* One that moves a register to another.
LEMMA V7Move ==
  \A n, p, q : FitA(n) => \A o \in V7a!Move(n, p, q) : QuietA(n, o.m) /\ (o.ok => n.halted)
<1> SUFFICES ASSUME NEW n, NEW p, NEW q, FitA(n), NEW o \in V7a!Move(n, p, q)
             PROVE  QuietA(n, o.m) /\ (o.ok => n.halted)
  OBVIOUS
<1>1. n.halted => QuietA(n, Given(n, q, n.regs[p]))
  BY GivenQuietA
<1>2. V7a!Move(n, p, q) = V7a!Execute(n, Given(n, q, n.regs[p]), V7a!Junk)
  BY DEF V7a!Move, Given
<1> QED BY <1>1, <1>2, V7Execute

(* A register is read, and cached. *)
LEMMA V7ReadGpr ==
  \A n, r : FitA(n) => \A o \in V7a!ReadGpr(n, r) :
    QuietA(n, o.m) /\ (o.ok => n.halted \/ n.cache[r].in)
<1> SUFFICES ASSUME NEW n, NEW r, FitA(n), NEW o \in V7a!ReadGpr(n, r)
             PROVE  QuietA(n, o.m) /\ (o.ok => n.halted \/ n.cache[r].in)
  OBVIOUS
<1>1. CASE n.cache[r].in
  BY <1>1, V7Same, OutcomesGive, QuietARefl DEF V7a!ReadGpr, V7a!Cached
<1>2. CASE ~n.cache[r].in
  <2>1. PICK a \in V7a!WithResult(n, r) :
          IF a.ok THEN o.m = Entered(a.m, r, V7a!Clean(a.val)) ELSE o = a
    <3>1. \A a : V7a!Give([a.m EXCEPT !.cache[r] = V7a!Clean(a.val)], a.val).m = Entered(a.m, r, V7a!Clean(a.val))
      BY V7Same, OutcomesGive DEF Entered
    <3> QED BY <1>2, <3>1 DEF V7a!ReadGpr, V7a!Remember, V7a!Then
  <2>2. QuietA(n, a.m) /\ (a.ok => n.halted)
    BY <2>1, V7WithResult
  <2>3. a.ok => QuietA(a.m, o.m)
    BY <2>1, <2>2, EnteredQuietA DEF QuietA
  <2> QED BY <2>1, <2>2, <2>3, QuietATrans
<1> QED BY <1>1, <1>2

\* A register is saved before it is clobbered.
LEMMA V7PrepareForClobber ==
  \A n, r : FitA(n) => \A o \in V7a!PrepareForClobber(n, r) :
    QuietA(n, o.m) /\ (o.ok => n.halted \/ n.cache[r].in)
<1> SUFFICES ASSUME NEW n, NEW r, FitA(n), NEW o \in V7a!PrepareForClobber(n, r)
             PROVE  QuietA(n, o.m) /\ (o.ok => n.halted \/ n.cache[r].in)
  OBVIOUS
<1>1. CASE n.cache[r].in
  <2>1. o \in {Ok(n)}
    BY <1>1, V7Same DEF V7a!PrepareForClobber, V7a!Unless
  <2> QED BY <1>1, <2>1, OutcomesGive, QuietARefl
<1>2. CASE ~n.cache[r].in
  <2>1. PICK a \in V7a!ReadGpr(n, r) :
          IF a.ok THEN o.m = Entered(a.m, r, V7a!Dirty(a.val)) ELSE o = a
    <3>1. \A a : V7a!Ok([a.m EXCEPT !.cache[r] = V7a!Dirty(a.val)]).m = Entered(a.m, r, V7a!Dirty(a.val))
      BY V7Same, OutcomesGive DEF Entered
    <3> QED BY <1>2, <3>1 DEF V7a!PrepareForClobber, V7a!Then
  <2>2. QuietA(n, a.m) /\ (a.ok => n.halted)
    BY <1>2, <2>1, V7ReadGpr
  <2>3. a.ok => QuietA(a.m, o.m)
    BY <2>1, <2>2, EnteredQuietA DEF QuietA
  <2> QED BY <2>1, <2>2, <2>3, QuietATrans
<1> QED BY <1>1, <1>2

(* The registers that are reached through s0 and s1.                        *)
LEMMA V7ReadPc ==
  \A n : FitA(n) => \A o \in V7a!ReadPc(n) : QuietA(n, o.m) /\ (o.ok => n.halted)
BY QuietAFit, QuietATrans, V7PrepareForClobber, V7Move, V7WithResult DEF V7a!ReadPc, V7a!Then

\* The floating point registers are read through the core registers.
LEMMA V7ReadFp ==
  \A n : FitA(n) => \A o \in V7a!ReadFp(n) : QuietA(n, o.m) /\ (o.ok => n.halted)
BY QuietAFit, QuietATrans, V7PrepareForClobber, V7Move, V7WithResult DEF V7a!ReadFp, V7a!Then

(* Any register. *)
LEMMA V7Remember ==
  \A n, S, r : (\A a \in S : QuietA(n, a.m) /\ (a.ok => n.halted)) =>
    \A o \in V7a!Remember(S, r) : QuietA(n, o.m) /\ (o.ok => n.halted)
<1> SUFFICES ASSUME NEW n, NEW S, NEW r, \A a \in S : QuietA(n, a.m) /\ (a.ok => n.halted),
                    NEW o \in V7a!Remember(S, r)
             PROVE  QuietA(n, o.m) /\ (o.ok => n.halted)
  OBVIOUS
<1>1. PICK a \in S : IF a.ok THEN o.m = Entered(a.m, r, V7a!Clean(a.val)) ELSE o = a
  <2>1. \A a : V7a!Give([a.m EXCEPT !.cache[r] = V7a!Clean(a.val)], a.val).m = Entered(a.m, r, V7a!Clean(a.val))
    BY V7Same, OutcomesGive DEF Entered
  <2> QED BY <2>1 DEF V7a!Remember, V7a!Then
<1>2. QuietA(n, a.m) /\ (a.ok => n.halted)
  BY <1>1
<1> QED BY <1>1, <1>2, EnteredQuietA, QuietATrans, QuietAFit

\* A register is read from the cache, or from a halted core.
LEMMA V7ReadReg ==
  \A n, r : FitA(n) => \A o \in V7a!ReadReg(n, r) :
    QuietA(n, o.m) /\ (o.ok => n.halted \/ n.cache[r].in)
<1> SUFFICES ASSUME NEW n, NEW r, FitA(n), NEW o \in V7a!ReadReg(n, r)
             PROVE  QuietA(n, o.m) /\ (o.ok => n.halted \/ n.cache[r].in)
  OBVIOUS
<1>1. \/ n.cache[r].in /\ o \in {V7a!Cached(n, r)}
      \/ o \in V7a!Remember(V7a!ReadPc(n), r)
      \/ o \in V7a!Remember(V7a!ReadFp(n), r)
      \/ o \in V7a!ReadGpr(n, r)
  BY DEF V7a!ReadReg
<1>2. V7a!Cached(n, r).m = n
  BY V7Same, OutcomesGive DEF V7a!Cached
<1> QED BY <1>1, <1>2, QuietARefl, V7Remember, V7ReadPc, V7ReadFp, V7ReadGpr

\* A register is written to the cache.
LEMMA V7WriteReg ==
  \A n, r : FitA(n) /\ n.halted => \A o \in V7a!WriteReg(n, r) : QuietA(n, o.m)
<1>1. \A n, r : V7a!Ok([n EXCEPT !.cache[r] = V7a!Dirty(V7a!User(r))]).m = Entered(n, r, V7a!Dirty(V7a!User(r)))
  BY V7Same, OutcomesGive DEF Entered
<1> QED BY <1>1, EnteredQuietA DEF V7a!WriteReg

(* What was only cached is written to the core. *)
LEMMA V7WriteBackOne ==
  \A n, r : FitA(n) => \A o \in V7a!WriteBackOne(n, r) : QuietA(n, o.m)
<1> SUFFICES ASSUME NEW n, NEW r, FitA(n), NEW o \in V7a!WriteBackOne(n, r)
             PROVE  QuietA(n, o.m)
  OBVIOUS
<1> DEFINE v == n.cache[r].val
<1>1. \/ o \in {V7a!Ok(n)}
      \/ o \in V7a!Then(V7a!WithInput(n, "s0", v), LAMBDA a : V7a!Move(a.m, "s0", "pc"))
      \/ o \in V7a!Then(V7a!WithInput(n, "s0", v), LAMBDA a :
               V7a!Then(V7a!WithInput(a.m, "s1", v), LAMBDA b : V7a!Move(b.m, "s0", "f")))
      \/ o \in V7a!WithInput(n, r, v)
  BY DEF V7a!WriteBackOne, V7a!Unless
<1>. HIDE DEF v
<1>2. V7a!Ok(n).m = n
  BY V7Same, OutcomesGive
<1>3. /\ \A k, q, w : QuietA(n, k) => \A p \in V7a!WithInput(k, q, w) : QuietA(n, p.m)
      /\ \A k, p, q : QuietA(n, k) => \A a \in V7a!Move(k, p, q) : QuietA(n, a.m)
  BY QuietAFit, QuietATrans, V7WithInput, V7Move
<1>4. CASE o \in V7a!Then(V7a!WithInput(n, "s0", v), LAMBDA a : V7a!Move(a.m, "s0", "pc"))
  BY <1>3, <1>4, QuietARefl DEF V7a!Then
<1>5. CASE o \in V7a!Then(V7a!WithInput(n, "s0", v), LAMBDA a :
                V7a!Then(V7a!WithInput(a.m, "s1", v), LAMBDA b : V7a!Move(b.m, "s0", "f")))
  BY <1>3, <1>5, QuietARefl DEF V7a!Then
<1> QED BY <1>1, <1>2, <1>3, <1>4, <1>5, QuietARefl

\* The cache is reset: nothing is in it.
LEMMA V7ResetCache == \A n : V7a!ResetCache(n) = Forgot(n)
BY V7Same DEF V7a!ResetCache, Forgot, V7a!EmptyCache, NoCache, V7a!Nothing, V7a!Junk, Junk, V7a!Regs, Regs

\* The cache is written back, and nothing is in it if that succeeds.
LEMMA V7WriteBack ==
  \A n : GoodA(n) => \A o \in V7a!WriteBack(n) :
    QuietA(n, o.m) /\ (o.ok => o.m.cache = NoCache)
<1>1. \A n : V7a!Ok(n).m = n /\ V7a!Ok(n).ok
  BY V7Same, OutcomesGive
<1>2. \A n, x : GoodA(n) /\ QuietA(n, x) =>
        QuietA(n, V7a!ResetCache(x)) /\ V7a!ResetCache(x).cache = NoCache
  BY QuietAKeeps, QuietATrans, ForgotGood, V7ResetCache
<1>3. \A n : GoodA(n) => FitA(n)
  BY DEF GoodA
<1>4. \A n : GoodA(n) => \A o \in V7a!WriteBack(n) :
        \/ ~o.ok /\ QuietA(n, o.m)
        \/ \E x : QuietA(n, x) /\ o.m = V7a!ResetCache(x)
  BY <1>1, <1>3, QuietAFit, QuietATrans, V7WriteBackOne DEF V7a!WriteBack, V7a!Then
<1> QED BY <1>2, <1>4

(* How many FP registers there are is found out. *)
Counted(n) == [n EXCEPT !.counted = TRUE]

\* The driver knows how many floating point registers there are.
LEMMA CountedQuietA == \A n : FitA(n) => QuietA(n, Counted(n))
<1> SUFFICES ASSUME NEW n, FitA(n) PROVE QuietA(n, Counted(n))
  OBVIOUS
<1>1. Changed(n, Counted(n), Loose) /\ Counted(n).regs = n.regs /\ Counted(n).cache = n.cache
  BY DEF Changed, Loose, Counted
<1> QED BY <1>1, QuietIsA DEF Quiet

\* It counts them.
LEMMA V7CountFpRegs ==
  \A n : FitA(n) => \A o \in V7a!CountFpRegs(n) : QuietA(n, o.m)
<1>1. \A n, c : V7a!Ok(n).m = n /\ V7a!Ok([c.m EXCEPT !.counted = TRUE]).m = Counted(c.m)
  BY V7Same, OutcomesGive DEF Counted
<1>2. \A n, k : QuietA(n, k) =>
        /\ QuietA(n, Counted(k))
        /\ \A q : \A p \in V7a!PrepareForClobber(k, q) : QuietA(n, p.m)
        /\ \A q, w : \A p \in V7a!WithInput(k, q, w) : QuietA(n, p.m)
        /\ \A q : \A p \in V7a!WithResult(k, q) : QuietA(n, p.m)
  BY QuietAFit, QuietATrans, CountedQuietA, V7PrepareForClobber, V7WithInput, V7WithResult
<1> SUFFICES ASSUME NEW n, FitA(n), NEW o \in V7a!CountFpRegs(n) PROVE QuietA(n, o.m)
  OBVIOUS
<1>3. CASE n.counted \/ n.seen = "running"
  BY <1>1, <1>3, QuietARefl DEF V7a!CountFpRegs
<1>4. CASE ~(n.counted \/ n.seen = "running")
  <2>1. PICK a \in V7a!PrepareForClobber(n, "s0") :
          \/ o = a
          \/ \E b \in V7a!WithInput(a.m, "s0", V7a!Junk) :
               \/ o = b
               \/ \E c \in V7a!WithResult(b.m, "s0") : o = c \/ o.m = Counted(c.m)
    <3> DEFINE Last(c) == {V7a!Ok([c.m EXCEPT !.counted = TRUE])}
    <3>1. o \in V7a!Then(V7a!PrepareForClobber(n, "s0"), LAMBDA a :
                V7a!Then(V7a!WithInput(a.m, "s0", V7a!Junk), LAMBDA b :
                V7a!Then(V7a!WithResult(b.m, "s0"), Last)))
      BY <1>4 DEF V7a!CountFpRegs
    <3>2. \A c : \A p \in Last(c) : p.m = Counted(c.m)
      BY <1>1
    <3>. HIDE DEF Last
    <3> QED BY <3>1, <3>2 DEF V7a!Then
  <2>2. QuietA(n, a.m)
    BY <1>2, <2>1, QuietARefl
  <2> QED BY <1>2, <2>1, <2>2
<1> QED BY <1>3, <1>4

(* The core is looked at, and the driver notes what it sees.               *)
LEMMA V7Status ==
  \A n : FitA(n) => \A o \in V7a!Status(n) :
    /\ HoldsA(n, o.m) /\ Watched(n, o.m)
    /\ o.ok => (o.val = Yes <=> o.m.halted) /\ (o.m.halted => o.m.seen = "halted")
<1> SUFFICES ASSUME NEW n, FitA(n), NEW o \in V7a!Status(n)
             PROVE  /\ HoldsA(n, o.m) /\ Watched(n, o.m)
                    /\ o.ok => (o.val = Yes <=> o.m.halted) /\ (o.m.halted => o.m.seen = "halted")
  OBVIOUS
<1>1. PICK a \in Poll(n) :
        \/ ~a.ok /\ o = a
        \/ a.ok /\ a.val # Yes /\ o.m = Noted(a.m, "running") /\ o.val = a.val
        \/ /\ a.ok /\ a.val = Yes
           /\ \E b \in V7a!CountFpRegs(Noted(a.m, "halted")) :
                o.m = b.m /\ (o.ok <=> b.ok) /\ (b.ok => o.val = Yes)
  <2>1. /\ V7a!Poll(n) = Poll(n) /\ V7a!Yes = Yes
        /\ \A k, s : V7a!SetStatus(k, s) = Noted(k, s)
        /\ \A k, v : V7a!Give(k, v).m = k /\ V7a!Give(k, v).ok /\ V7a!Give(k, v).val = v
    BY V7Same, OutcomesGive DEF V7a!SetStatus, Noted
  <2> QED BY <2>1 DEF V7a!Status, V7a!Then
<1>2. /\ HoldsA(n, a.m) /\ Watched(n, a.m) /\ FitA(a.m) /\ a.m.halted \in BOOLEAN
      /\ a.ok => (a.val = Yes <=> a.m.halted)
  BY <1>1, PollHoldsA, HoldsAKeeps DEF FitA, Fit
<1>3. \A s : HoldsA(n, Noted(a.m, s)) /\ Watched(n, Noted(a.m, s)) /\ Noted(a.m, s).seen = s
             /\ Noted(a.m, s).halted = a.m.halted /\ FitA(Noted(a.m, s))
  BY <1>2, NotedHoldsA, HoldsATrans, HoldsAKeeps DEF Watched
<1>4. CASE a.ok /\ a.val # Yes /\ o.m = Noted(a.m, "running") /\ o.val = a.val
  BY <1>2, <1>3, <1>4
<1>5. CASE /\ a.ok /\ a.val = Yes
           /\ \E b \in V7a!CountFpRegs(Noted(a.m, "halted")) :
                o.m = b.m /\ (o.ok <=> b.ok) /\ (b.ok => o.val = Yes)
  <2>1. QuietA(Noted(a.m, "halted"), o.m)
    BY <1>3, <1>5, V7CountFpRegs
  <2>2. HoldsA(Noted(a.m, "halted"), o.m)
    BY <2>1, QuietHoldsA
  <2> QED BY <1>2, <1>3, <1>5, <2>1, <2>2, HoldsATrans, QuietAKeeps DEF Watched
<1> QED BY <1>1, <1>2, <1>4, <1>5

(* The core is halted, and its program counter read.                        *)
LEMMA V7Halt ==
  \A n : GoodA(n) => \A o \in V7a!Halt(n) :
    GoodA(o.m) /\ HoldsA(n, o.m) /\ (o.ok => o.m.halted /\ o.m.seen = "halted")
<1> SUFFICES ASSUME NEW n, GoodA(n), NEW o \in V7a!Halt(n)
             PROVE  HoldsA(n, o.m) /\ (o.ok => o.m.halted /\ o.m.seen = "halted")
  BY HoldsAKeeps
<1> DEFINE After3(d) == V7a!ReadReg(d.m, "pc")
           After2(c) == V7a!Then(V7a!Status(c.m), After3)
           Last(b) == {V7a!Ok(V7a!ResetCache(b.m))}
           After1(a) == V7a!Then(V7a!AwaitHalt(a.m), Last)
           Request == IF n.seen = "halted" THEN {V7a!Ok(n)} ELSE V7a!Then(V7a!Access(n, n, V7a!Junk), After1)
<1>0. FitA(n)
  BY DEF GoodA
<1>2. \A d : HoldsA(n, d.m) /\ (d.m.halted => d.m.seen = "halted") => \A p \in After3(d) :
        HoldsA(n, p.m) /\ (p.ok => p.m.halted /\ p.m.seen = "halted")
  <2>1. \A d, p : HoldsA(n, d.m) /\ QuietA(d.m, p.m) => HoldsA(n, p.m) /\ GoodA(d.m)
    BY QuietHoldsA, HoldsATrans, HoldsAKeeps
  <2>2. \A d : GoodA(d.m) /\ ~d.m.halted => ~d.m.cache["pc"].in
    BY DEF GoodA, NoCache, Regs
  <2>3. \A d : HoldsA(n, d.m) => \A p \in V7a!ReadReg(d.m, "pc") :
          QuietA(d.m, p.m) /\ (p.ok => d.m.halted \/ d.m.cache["pc"].in)
    BY V7ReadReg, HoldsAKeeps
  <2> QED BY <2>1, <2>2, <2>3, QuietAFit DEF QuietA
<1>3. \A c : HoldsA(n, c.m) => \A p \in After2(c) :
        HoldsA(n, p.m) /\ (p.ok => p.m.halted /\ p.m.seen = "halted")
  <2>. HIDE DEF After3
  <2>1. \A c : HoldsA(n, c.m) => \A d \in V7a!Status(c.m) :
          HoldsA(n, d.m) /\ (d.ok => (d.m.halted => d.m.seen = "halted"))
    BY V7Status, HoldsATrans, HoldsAKeeps
  <2> QED BY <1>2, <2>1 DEF V7a!Then
<1>4. \A b : HoldsA(n, b.m) /\ b.m.halted => \A p \in Last(b) : HoldsA(n, p.m)
  <2>1. \A b : V7a!Ok(V7a!ResetCache(b.m)).m = Forgot(b.m)
    BY V7Same, V7ResetCache, OutcomesGive
  <2>2. \A k : HoldsA(n, k) /\ k.halted => HoldsA(n, Forgot(k))
    BY ForgotGood, QuietIsA, QuietHoldsA, HoldsATrans, HoldsAKeeps
  <2> QED BY <2>1, <2>2
<1>5. \A a : HoldsA(n, a.m) => \A p \in After1(a) : HoldsA(n, p.m)
  <2>. HIDE DEF Last
  <2>1. \A a : HoldsA(n, a.m) => \A b \in V7a!AwaitHalt(a.m) : HoldsA(n, b.m) /\ (b.ok => b.m.halted)
    BY V7Same, AwaitHoldsA, HoldsATrans, HoldsAKeeps
  <2> QED BY <1>4, <2>1 DEF V7a!Then
<1>6. \A p \in Request : HoldsA(n, p.m)
  <2>. HIDE DEF After1
  <2>1. HoldsA(n, n)
    BY <1>0, QuietARefl, QuietHoldsA
  <2>2. \A a \in V7a!Access(n, n, V7a!Junk) : HoldsA(n, a.m)
    BY <1>0, V7Same, AccessA, QuietHoldsA
  <2>3. V7a!Ok(n).m = n
    BY V7Same, OutcomesGive
  <2> QED BY <1>5, <2>1, <2>2, <2>3 DEF V7a!Then
<1>7. V7a!Halt(n) = V7a!Then(Request, After2)
  BY DEF V7a!Halt
<1>. HIDE DEF Request, After2
<1> QED BY <1>3, <1>6, <1>7 DEF V7a!Then

(* The core is reset.  It fails half-way only before anything changed, or   *)
(* with nothing cached.                                                     *)
LEMMA V7Resetting ==
  ASSUME Careful
  PROVE  \A n, S : (\A o \in S : /\ FitA(o.m) /\ Moves(n, o.m)
                                 /\ GoodA(o.m) \/ (~o.ok /\ o.m.epoch # n.epoch)) =>
           \A o \in V7a!Resetting(n, S) : o \in S /\ GoodA(o.m) /\ Moves(n, o.m)
<1>1. V7a!EmptyCache = NoCache
  BY DEF V7a!EmptyCache, NoCache, V7a!Nothing, V7a!Junk, Junk, V7a!Regs, Regs
<1> QED BY <1>1 DEF V7a!Resetting, V7a!Stale, V7a!Unless, GoodA

\* A reset: the driver is in order, whether it succeeds or not.
LEMMA V7Reset ==
  ASSUME Careful
  PROVE  \A n : GoodA(n) => \A o \in V7a!Reset(n) : GoodA(o.m) /\ Moves(n, o.m)
<1> SUFFICES ASSUME NEW n, GoodA(n)
             PROVE  \A o \in V7a!Reset(n) : GoodA(o.m) /\ Moves(n, o.m)
  OBVIOUS
<1> DEFINE Last(a) == {V7a!Ok(V7a!ResetCache(a.m))}
           x == WasReset(n)
           S == V7a!Then(V7a!Access(n, x, V7a!Junk), Last)
<1>1. FitA(n) /\ Moves(n, n) /\ Moves(n, Spent(n)) /\ GoodA(Spent(n))
  BY QuietARefl, QuietHoldsA, HoldsAKeeps DEF GoodA
<1>2. Moves(n, x) /\ x.epoch # n.epoch /\ FitA(x)
  BY <1>1, ResetMoves, MovesA DEF FitA
<1>. HIDE DEF x
<1>3. Moves(n, Spent(x)) /\ Spent(x).epoch # n.epoch /\ FitA(Spent(x))
  BY <1>2, QuietARefl, QuietHoldsA, HoldsAKeeps, MovesTrans
<1>4. Moves(n, Forgot(x)) /\ GoodA(Forgot(x))
  <2>1. GoodA(Forgot(x)) /\ Quiet(x, Forgot(x))
    BY <1>2, ForgotGood
  <2>2. Moves(x, Forgot(x))
    BY <1>2, <2>1, QuietHolds, HoldsMoves DEF FitA
  <2> QED BY <1>2, <2>1, <2>2, MovesTrans
<1>5. \A a : \A p \in Last(a) : p.m = Forgot(a.m)
  BY V7Same, V7ResetCache, OutcomesGive
<1>. HIDE DEF Last
<1>6. \A o \in S : FitA(o.m) /\ Moves(n, o.m) /\ (GoodA(o.m) \/ (~o.ok /\ o.m.epoch # n.epoch))
  <2>1. \A a \in Access(n, x, Junk) : (a.ok /\ a.m = x) \/ (~a.ok /\ a.m \in {Spent(n), Spent(x)})
    BY AccessGives
  <2>2. S = V7a!Then(Access(n, x, Junk), Last)
    BY V7Same DEF V7a!Junk, Junk
  <2> QED BY <1>1, <1>2, <1>3, <1>4, <1>5, <2>1, <2>2 DEF V7a!Then, GoodA
<1>7. V7a!Reset(n) = V7a!Resetting(n, S)
  BY V7Same DEF V7a!Reset, x, Last
<1>. HIDE DEF S
<1> QED BY <1>6, <1>7, V7Resetting

(* When the session ends what was cached is put back. *)
LEMMA V7Leave ==
  \A n : GoodA(n) => \A o \in V7a!Leave(n) : QuietA(n, o.m)
<1>1. \A n : V7a!Ok(n).m = n
  BY V7Same, OutcomesGive
<1> QED BY <1>1, QuietARefl, V7WriteBack DEF V7a!Leave, GoodA

(* The core is resumed: it runs, or has stopped by itself since.           *)
LEMMA V7Run ==
  \A n : GoodA(n) => \A o \in V7a!Run(n) :
    /\ GoodA(o.m) /\ Moves(n, o.m)
    /\ o.ok => (n.seen = "running" /\ o.m = n) \/ Unforced(o.m)
<1> SUFFICES ASSUME NEW n, GoodA(n)
             PROVE  \A o \in V7a!Run(n) :
                      /\ GoodA(o.m) /\ Moves(n, o.m)
                      /\ o.ok => (n.seen = "running" /\ o.m = n) \/ Unforced(o.m)
  OBVIOUS
<1> DEFINE Ends(p) == GoodA(p.m) /\ Moves(n, p.m) /\ (p.ok => Unforced(p.m))
           After3(c) == V7a!Status(V7a!SetStatus(c.m, "running"))
           After2(b) == V7a!Then(V7a!Access(b.m, b.m, V7a!Junk), After3)
           After1(a) == V7a!Then(V7a!Resume(a.m), After2)
<1>1. FitA(n) /\ Moves(n, n)
  BY QuietARefl, QuietHoldsA, HoldsAKeeps DEF GoodA
<1>2. \A k, x : GoodA(k) /\ Moves(n, k) /\ HoldsA(k, x) => GoodA(x) /\ Moves(n, x)
  BY HoldsAKeeps, MovesTrans
<1>3. \A c : GoodA(c.m) /\ Unforced(c.m) /\ Moves(n, c.m) => \A p \in After3(c) : Ends(p)
  <2>1. \A c : V7a!SetStatus(c.m, "running") = Noted(c.m, "running")
    BY DEF V7a!SetStatus, Noted
  <2>2. \A k : GoodA(k) /\ Unforced(k) /\ Moves(n, k) =>
          LET y == Noted(k, "running") IN FitA(y) /\ GoodA(y) /\ Moves(n, y) /\ Unforced(y)
    BY <1>2, NotedHoldsA, HoldsAKeeps DEF GoodA, Unforced
  <2>3. \A y : FitA(y) /\ GoodA(y) /\ Moves(n, y) /\ Unforced(y) => \A p \in V7a!Status(y) : Ends(p)
    BY <1>2, V7Status, UnforcedA
  <2>. HIDE DEF Ends
  <2> QED BY <2>1, <2>2, <2>3
<1>4. \A b : GoodA(b.m) /\ Unforced(b.m) /\ Moves(n, b.m) => \A p \in After2(b) : Ends(p)
  <2>1. \A b : GoodA(b.m) /\ Unforced(b.m) /\ Moves(n, b.m) => \A c \in V7a!Access(b.m, b.m, V7a!Junk) :
          GoodA(c.m) /\ Unforced(c.m) /\ Moves(n, c.m)
    <3>1. \A b : GoodA(b.m) => \A c \in V7a!Access(b.m, b.m, V7a!Junk) :
            FitA(b.m) /\ HoldsA(b.m, c.m) /\ Watched(b.m, c.m)
      BY V7Same, AccessA, QuietHoldsA DEF GoodA
    <3> QED BY <1>2, <3>1, UnforcedA
  <2>. HIDE DEF After3
  <2> QED BY <1>3, <2>1 DEF V7a!Then
<1>5. \A a : GoodA(a.m) /\ a.m.cache = NoCache /\ Moves(n, a.m) => \A p \in After1(a) : Ends(p)
  <2>1. \A a : V7a!Resume(a.m) = Resumes(a.m)
    BY V7Same DEF V7a!Resume, Resumes, V7a!Junk, Junk
  <2>2. \A a : GoodA(a.m) /\ a.m.cache = NoCache /\ Moves(n, a.m) => \A b \in Resumes(a.m) :
          GoodA(b.m) /\ Moves(n, b.m) /\ (b.ok => Unforced(b.m))
    BY ResumesA, MovesTrans
  <2>. HIDE DEF After2
  <2> QED BY <1>4, <2>1, <2>2 DEF V7a!Then
<1>6. \A p \in V7a!Then(V7a!WriteBack(n), After1) : Ends(p)
  <2>1. \A a \in V7a!WriteBack(n) : GoodA(a.m) /\ Moves(n, a.m) /\ (a.ok => a.m.cache = NoCache)
    BY V7WriteBack, QuietHoldsA, HoldsAKeeps
  <2>. HIDE DEF After1
  <2> QED BY <1>5, <2>1 DEF V7a!Then
<1>7. V7a!Ok(n).m = n
  BY V7Same, OutcomesGive
<1>8. V7a!Run(n) = IF n.seen = "running" THEN {V7a!Ok(n)} ELSE V7a!Then(V7a!WriteBack(n), After1)
  BY DEF V7a!Run
<1>. HIDE DEF After1
<1> QED BY <1>1, <1>6, <1>7, <1>8

(* A step uses the last breakpoint unit, and gives it back its own values.  *)
ButLast(n, x) == \E y : x.bps = [n.bps EXCEPT ![NumUnits] = y]
StepA(n, x) ==
  /\ GoodA(x) /\ x.mem = n.mem /\ x.causes = n.causes
  /\ ButLast(n, x)

SetsLast(k, x, y) == Changed(k, x, {"bps", "armed"}) /\ x.bps = [k.bps EXCEPT ![NumUnits] = y]

\* The last breakpoint unit is set.
LEMMA UnitStepA ==
  \A n, k, x, y : GoodA(n) /\ StepA(n, k) /\ SetsLast(k, x, y) =>
    StepA(n, x) /\ x.halted = k.halted /\ (y = n.bps[NumUnits] => x.bps = n.bps)
<1> SUFFICES ASSUME NEW n, NEW k, NEW x, NEW y, GoodA(n), StepA(n, k), SetsLast(k, x, y)
             PROVE  StepA(n, x) /\ x.halted = k.halted /\ (y = n.bps[NumUnits] => x.bps = n.bps)
  OBVIOUS
<1>1. Table(n.bps) /\ GoodA(k)
  BY DEF GoodA, FitA, Fit, StepA
<1>2. x.bps = [n.bps EXCEPT ![NumUnits] = y]
  BY DEF StepA, ButLast, SetsLast
<1>3. Table(x.bps) /\ (y = n.bps[NumUnits] => x.bps = n.bps)
  BY <1>1, <1>2, TableExcept
<1>4. /\ DOMAIN x = DOMAIN k /\ x.mem = k.mem /\ x.causes = k.causes
      /\ x.halted = k.halted /\ x.epoch = k.epoch /\ x.regs = k.regs /\ x.cache = k.cache
  BY <1>1 DEF GoodA, FitA, Fit, CoreFields, Changed, SetsLast
<1>5. GoodA(x)
  BY <1>1, <1>3, <1>4 DEF GoodA, FitA, Fit
<1>6. ButLast(n, x)
  BY <1>2 DEF ButLast
<1> QED BY <1>3, <1>4, <1>5, <1>6 DEF StepA

\* A step may move the core.
LEMMA MovesStepA ==
  \A n, k, x : StepA(n, k) /\ Moves(k, x) /\ GoodA(x) => StepA(n, x) /\ x.bps = k.bps
BY MovesKeeps DEF StepA, ButLast, GoodA, FitA

\* One access sets the last breakpoint unit.
LEMMA UnitAccessA ==
  \A n, k, x, y, v : GoodA(n) /\ StepA(n, k) /\ SetsLast(k, x, y) =>
    \A o \in Access(k, x, v) : StepA(n, o.m) /\ (o.ok => o.m = x)
<1>1. \A n, k : StepA(n, k) => StepA(n, Spent(k))
  <2>1. \A n, k : StepA(n, k) => GoodA(k) /\ FitA(k)
    BY DEF StepA, GoodA
  <2> QED BY <2>1, QuietARefl, QuietHoldsA, HoldsAKeeps, MovesStepA
<1> QED BY <1>1, UnitStepA, AccessGives

\* A step: if it succeeds the core is halted, with the breakpoints that it had.
LEMMA V7Step ==
  \A n : GoodA(n) => \A o \in V7a!Step(n) : StepA(n, o.m) /\ (o.ok => o.m.halted /\ o.m.bps = n.bps)
<1> SUFFICES ASSUME NEW n, GoodA(n)
             PROVE  \A o \in V7a!Step(n) : StepA(n, o.m) /\ (o.ok => o.m.halted /\ o.m.bps = n.bps)
  OBVIOUS
<1> DEFINE Ends(p) == StepA(n, p.m) /\ (p.ok => p.m.halted /\ p.m.bps = n.bps)
           own == n.bps[NumUnits]
           Put(k, y, t) == [k EXCEPT !.bps[NumUnits] = y, !.armed = t]
           On(k) == Put(k, "step", TRUE)
           Off(k) == Put(k, own, n.armed)
           After7(g) == V7a!ReadReg(g.m, "pc")
           After6(f) == V7a!Then(V7a!Access(f.m, Off(f.m), V7a!Junk), After7)
           After5(e) == V7a!Then(V7a!SetValue(e.m, NumUnits, own), After6)
           After4(d) == V7a!Then(V7a!AwaitHalt(d.m), After5)
           After3(c) == V7a!Then(V7a!Run(c.m), After4)
           After2(b) == V7a!Then(V7a!Access(b.m, On(b.m), V7a!Junk), After3)
           After1(a) == V7a!Then(V7a!SetValue(a.m, NumUnits, "here"), After2)
<1>1. V7a!Step(n) = V7a!Then(V7a!ReadReg(n, "pc"), After1)
  BY DEF V7a!Step
<1>2. /\ \A k : StepA(n, k) => GoodA(k) /\ FitA(k)
      /\ StepA(n, n) /\ [n.bps EXCEPT ![NumUnits] = own] = n.bps
  <2>1. Table(n.bps)
    BY DEF GoodA, FitA, Fit
  <2>2. [n.bps EXCEPT ![NumUnits] = own] = n.bps
    BY <2>1, TableExcept
  <2>3. ButLast(n, n)
    BY <2>2 DEF ButLast
  <2> QED BY <2>2, <2>3 DEF StepA, GoodA
<1>3. \A k, x : StepA(n, k) /\ HoldsA(k, x) => StepA(n, x) /\ x.bps = k.bps
  BY <1>2, HoldsAKeeps, MovesStepA
<1>4. \A k, y : StepA(n, k) => \A o \in V7a!SetValue(k, NumUnits, y) :
        StepA(n, o.m) /\ (o.ok => o.m.halted = k.halted)
  <2> SUFFICES ASSUME NEW k, NEW y, StepA(n, k), NEW o \in V7a!SetValue(k, NumUnits, y)
               PROVE  StepA(n, o.m) /\ (o.ok => o.m.halted = k.halted)
    OBVIOUS
  <2>1. Table(k.bps) /\ "bps" \in DOMAIN k
    BY <1>2 DEF FitA, Fit, CoreFields
  <2>2. CASE k.bps[NumUnits] \in {V7a!Free, "step"}
    <3>1. o \in Access(k, k, V7a!Junk)
      BY <2>2, V7Same DEF V7a!SetValue
    <3>2. HoldsA(k, o.m) /\ (o.ok => o.m = k)
      BY <1>2, <3>1, AccessA, QuietHoldsA
    <3> QED BY <1>3, <3>2
  <2>3. CASE k.bps[NumUnits] \notin {V7a!Free, "step"}
    <3> DEFINE x == [k EXCEPT !.bps[NumUnits] = y]
    <3>1. o \in Access(k, x, V7a!Junk)
      BY <2>3, V7Same DEF V7a!SetValue
    <3>2. SetsLast(k, x, y)
      BY <2>1 DEF Changed, SetsLast
    <3>. HIDE DEF x
    <3> QED BY <3>1, <3>2, UnitAccessA, UnitStepA
  <2> QED BY <2>2, <2>3
<1>5. \A k, y, t : StepA(n, k) => \A o \in V7a!Access(k, Put(k, y, t), V7a!Junk) :
        StepA(n, o.m) /\ (o.ok => o.m.halted = k.halted /\ (y = own => o.m.bps = n.bps))
  <2> SUFFICES ASSUME NEW k, NEW y, NEW t, StepA(n, k)
               PROVE  \A o \in V7a!Access(k, Put(k, y, t), V7a!Junk) :
                        StepA(n, o.m) /\ (o.ok => o.m.halted = k.halted /\ (y = own => o.m.bps = n.bps))
    OBVIOUS
  <2>1. SetsLast(k, Put(k, y, t), y)
    BY <1>2 DEF FitA, Fit, CoreFields, Changed, SetsLast
  <2>. HIDE DEF Put
  <2> QED BY <2>1, V7Same, UnitAccessA, UnitStepA
<1>. HIDE DEF Put
<1>6. \A e : StepA(n, e.m) /\ e.m.halted /\ e.m.bps = n.bps => \A p \in After7(e) : Ends(p)
  <2>1. \A e : StepA(n, e.m) => \A p \in After7(e) : QuietA(e.m, p.m) /\ HoldsA(e.m, p.m)
    BY V7ReadReg, QuietHoldsA DEF StepA, GoodA
  <2> QED BY <1>3, <2>1, QuietAFit
<1>7. \A f : StepA(n, f.m) /\ f.m.halted => \A p \in After6(f) : Ends(p)
  <2>1. \A f : StepA(n, f.m) /\ f.m.halted => \A p \in V7a!Access(f.m, Off(f.m), V7a!Junk) :
          StepA(n, p.m) /\ (p.ok => p.m.halted /\ p.m.bps = n.bps)
    BY <1>5 DEF Off
  <2>. HIDE DEF After7, Off, own
  <2> QED BY <1>6, <2>1 DEF V7a!Then
<1>8. \A e : StepA(n, e.m) /\ e.m.halted => \A p \in After5(e) : Ends(p)
  <2>. HIDE DEF After6, own
  <2> QED BY <1>4, <1>7 DEF V7a!Then
<1>9. \A d : StepA(n, d.m) => \A p \in After4(d) : Ends(p)
  <2>1. \A d : StepA(n, d.m) => \A e \in V7a!AwaitHalt(d.m) : StepA(n, e.m) /\ (e.ok => e.m.halted)
    BY <1>2, <1>3, V7Same, AwaitHoldsA
  <2>. HIDE DEF After5
  <2> QED BY <1>8, <2>1 DEF V7a!Then
<1>10. \A c : StepA(n, c.m) => \A p \in After3(c) : Ends(p)
  <2>1. \A c : StepA(n, c.m) => \A d \in V7a!Run(c.m) : StepA(n, d.m)
    BY <1>2, V7Run, MovesStepA
  <2>. HIDE DEF After4
  <2> QED BY <1>9, <2>1 DEF V7a!Then
<1>11. \A b : StepA(n, b.m) => \A p \in After2(b) : Ends(p)
  <2>1. \A b : StepA(n, b.m) => \A c \in V7a!Access(b.m, On(b.m), V7a!Junk) : StepA(n, c.m)
    BY <1>5
  <2>. HIDE DEF After3, On
  <2> QED BY <1>10, <2>1 DEF V7a!Then
<1>12. \A a : StepA(n, a.m) => \A p \in After1(a) : Ends(p)
  <2>. HIDE DEF After2
  <2> QED BY <1>4, <1>11 DEF V7a!Then
<1>13. \A a \in V7a!ReadReg(n, "pc") : StepA(n, a.m)
  BY <1>2, <1>3, V7ReadReg, QuietHoldsA DEF GoodA
<1>. HIDE DEF After1
<1> QED BY <1>1, <1>12, <1>13 DEF V7a!Then

(* The core is reset and halted, and its program counter read.              *)
LEMMA V7ResetAndHalt ==
  ASSUME Careful
  PROVE  \A n : GoodA(n) => \A o \in V7a!ResetAndHalt(n) :
           GoodA(o.m) /\ Moves(n, o.m) /\ (o.ok => o.m.halted)
<1> SUFFICES ASSUME NEW n, GoodA(n)
             PROVE  \A o \in V7a!ResetAndHalt(n) : GoodA(o.m) /\ Moves(n, o.m) /\ (o.ok => o.m.halted)
  OBVIOUS
<1> DEFINE Reached(k) == FitA(k) /\ Moves(n, k) /\ k.epoch # n.epoch
           Ends(p) == /\ FitA(p.m) /\ Moves(n, p.m) /\ (p.ok => p.m.halted)
                      /\ GoodA(p.m) \/ (~p.ok /\ p.m.epoch # n.epoch)
           After4(c, d) == V7a!Unless(d.m.counted # c.m.counted, V7a!ReadReg(V7a!ResetCache(d.m), "pc"))
           After3(c) == V7a!Then(V7a!Status(c.m), LAMBDA d : After4(c, d))
           After2(b) == V7a!Then(V7a!AwaitHalt(b.m), After3)
           After1(a) == V7a!Then(V7a!Access(a.m, V7a!WasReset(a.m), V7a!Junk), After2)
           S == V7a!Then(V7a!Access(n, n, V7a!Junk), After1)
<1>1. \A c, d : Reached(d.m) => \A p \in After4(c, d) : Ends(p)
  <2>1. \A d : \A f, p : p \in V7a!Unless(f, V7a!ReadReg(V7a!ResetCache(d.m), "pc"))
                       \/ p \in V7a!ReadReg(V7a!ResetCache(d.m), "pc")
                        => p \in V7a!ReadReg(Forgot(d.m), "pc")
    BY V7ResetCache DEF V7a!Unless
  <2>2. \A k : Reached(k) => GoodA(Forgot(k)) /\ Moves(n, Forgot(k)) /\ ~Forgot(k).cache["pc"].in
    <3>1. \A k : FitA(k) => Moves(k, Forgot(k))
      BY ForgotGood, QuietHolds, HoldsMoves DEF FitA
    <3> QED BY <3>1, ForgotGood, MovesTrans DEF NoCache, Regs
  <2>3. \A k : GoodA(k) /\ Moves(n, k) /\ ~k.cache["pc"].in => \A p \in V7a!ReadReg(k, "pc") :
          GoodA(p.m) /\ Moves(n, p.m) /\ (p.ok => p.m.halted) /\ FitA(p.m)
    <3>1. \A k : GoodA(k) /\ ~k.cache["pc"].in => \A p \in V7a!ReadReg(k, "pc") :
            QuietA(k, p.m) /\ (p.ok => k.halted)
      BY V7ReadReg DEF GoodA
    <3> QED BY <3>1, QuietHoldsA, QuietAFit, HoldsAKeeps, MovesTrans
  <2>. HIDE DEF Reached
  <2> QED BY <2>1, <2>2, <2>3
<1>2. \A k, x : Reached(k) /\ HoldsA(k, x) => Reached(x)
  BY HoldsAKeeps, MovesTrans
<1>3. \A c : Reached(c.m) => \A p \in After3(c) : Ends(p)
  <2>1. \A c : Reached(c.m) => \A d \in V7a!Status(c.m) : Reached(d.m)
    BY <1>2, V7Status
  <2>2. \A d : Reached(d.m) /\ ~d.ok => Ends(d)
    OBVIOUS
  <2>. HIDE DEF After4, Reached, Ends
  <2> QED BY <1>1, <2>1, <2>2 DEF V7a!Then
<1>4. \A b : Reached(b.m) => \A p \in After2(b) : Ends(p)
  <2>1. \A b : Reached(b.m) => \A c \in V7a!AwaitHalt(b.m) : Reached(c.m)
    BY <1>2, V7Same, AwaitHoldsA
  <2>2. \A d : Reached(d.m) /\ ~d.ok => Ends(d)
    OBVIOUS
  <2>. HIDE DEF After3, Reached, Ends
  <2> QED BY <1>3, <2>1, <2>2 DEF V7a!Then
<1>5. \A k : GoodA(k) /\ Moves(n, k) /\ k.epoch = n.epoch => Reached(WasReset(k)) /\ Reached(Spent(WasReset(k)))
  <2>1. \A k : GoodA(k) /\ Moves(n, k) /\ k.epoch = n.epoch => Reached(WasReset(k))
    BY ResetMoves, MovesA, MovesTrans DEF GoodA, FitA
  <2> QED BY <1>2, <2>1, QuietARefl, QuietHoldsA
<1>6. \A a : GoodA(a.m) /\ Moves(n, a.m) /\ a.m.epoch = n.epoch => \A p \in After1(a) : Ends(p)
  <2>1. \A a : \A b \in V7a!Access(a.m, V7a!WasReset(a.m), V7a!Junk) :
          (b.ok /\ b.m = WasReset(a.m)) \/ (~b.ok /\ b.m \in {Spent(a.m), Spent(WasReset(a.m))})
    BY V7Same, AccessGives
  <2>2. \A k : GoodA(k) /\ Moves(n, k) => GoodA(Spent(k)) /\ Moves(n, Spent(k)) /\ FitA(Spent(k))
    BY QuietARefl, QuietHoldsA, HoldsAKeeps, MovesTrans DEF GoodA
  <2>3. \A d : (Reached(d.m) \/ (GoodA(d.m) /\ Moves(n, d.m) /\ FitA(d.m))) /\ ~d.ok => Ends(d)
    OBVIOUS
  <2>. HIDE DEF After2, Reached, Ends
  <2> QED BY <1>4, <1>5, <2>1, <2>2, <2>3 DEF V7a!Then
<1>7. \A p \in S : Ends(p)
  <2>1. \A a \in V7a!Access(n, n, V7a!Junk) : GoodA(a.m) /\ Moves(n, a.m) /\ a.m.epoch = n.epoch /\ FitA(a.m)
    BY V7Same, AccessA, QuietHoldsA, HoldsAKeeps DEF GoodA
  <2>2. \A d : (GoodA(d.m) /\ Moves(n, d.m) /\ FitA(d.m)) /\ ~d.ok => Ends(d)
    OBVIOUS
  <2>. HIDE DEF After1, Ends
  <2> QED BY <1>6, <2>1, <2>2 DEF V7a!Then
<1>8. V7a!ResetAndHalt(n) = V7a!Resetting(n, S)
  BY DEF V7a!ResetAndHalt
<1>. HIDE DEF S
<1> QED BY <1>7, <1>8, V7Resetting

(* Breakpoint units are written while the core runs, or not.               *)
LEMMA V7Breakpoints ==
  \A n : GoodA(n) =>
    /\ \A o \in V7a!HwBreakpoints(n) : QuietA(n, o.m)
    /\ \A u, x : \A o \in V7a!SetHwBreakpoint(n, u, x) : UnitsSet(n, o, u, x)
    /\ \A u : \A o \in V7a!ClearHwBreakpoint(n, u) : UnitsSet(n, o, u, Free)
    /\ V7a!Listed(n) = n.bps
<1> SUFFICES ASSUME NEW n, GoodA(n)
             PROVE  /\ \A o \in V7a!HwBreakpoints(n) : QuietA(n, o.m)
                    /\ \A u, x : \A o \in V7a!SetHwBreakpoint(n, u, x) : UnitsSet(n, o, u, x)
                    /\ \A u : \A o \in V7a!ClearHwBreakpoint(n, u) : UnitsSet(n, o, u, Free)
                    /\ V7a!Listed(n) = n.bps
  OBVIOUS
<1>1. FitA(n) /\ {"faults", "bps"} \subseteq DOMAIN n
  BY DEF GoodA, FitA, Fit, CoreFields
<1>2. \A o \in V7a!HwBreakpoints(n) : QuietA(n, o.m)
  BY <1>1, V7Same, AccessA DEF V7a!HwBreakpoints
<1>3. \A u, x, y : \A a \in V7a!SetValue(n, u, y) :
        /\ ~a.ok => UnitsSet(n, a, u, x)
        /\ a.ok => \A o \in V7a!SetControl(a.m, u, x) : UnitsSet(n, o, u, x)
  <2>1. V7a!Junk = Junk
    BY DEF V7a!Junk, Junk
  <2>2. \A u, y : \E k \in {n, UnitAt(n, u, y)} : V7a!SetValue(n, u, y) = Access(n, k, Junk)
    BY <2>1, V7Same DEF V7a!SetValue, UnitAt
  <2>3. \A k, u, x : V7a!SetControl(k, u, x) = Access(k, UnitAt(k, u, x), Junk)
    BY <2>1, V7Same DEF V7a!SetControl, UnitAt
  <2>4. ASSUME NEW u, NEW x, NEW y
        PROVE  \A a \in V7a!SetValue(n, u, y) :
                 /\ ~a.ok => UnitsSet(n, a, u, x)
                 /\ a.ok => \A o \in V7a!SetControl(a.m, u, x) : UnitsSet(n, o, u, x)
    <3>1. PICK k \in {n, UnitAt(n, u, y)} : V7a!SetValue(n, u, y) = Access(n, k, Junk)
      BY <2>2
    <3> QED BY <1>1, <2>3, <3>1, TwoSetUnit
  <2> QED BY <2>4
<1>4. /\ \A u, x : \A o \in V7a!SetHwBreakpoint(n, u, x) : UnitsSet(n, o, u, x)
      /\ \A u : \A o \in V7a!ClearHwBreakpoint(n, u) : UnitsSet(n, o, u, Free)
  BY <1>3 DEF V7a!SetHwBreakpoint, V7a!ClearHwBreakpoint, V7a!Then, V7a!Free, Free
<1> QED BY <1>2, <1>4 DEF V7a!Listed

(* A word of memory is read, and written, by way of s0. *)
LEMMA V7At ==
  \A n : FitA(n) => \A a : \A y \in V7a!Then(V7a!PrepareForClobber(n, "s0"),
                                    LAMBDA x : V7a!WithInput(x.m, "s0", V7a!Address(a))) :
    QuietA(n, y.m) /\ (y.ok => y.m.regs["s0"] = Address(a))
<1> SUFFICES ASSUME NEW n, FitA(n), NEW a,
                    NEW y \in V7a!Then(V7a!PrepareForClobber(n, "s0"),
                                LAMBDA x : V7a!WithInput(x.m, "s0", V7a!Address(a)))
             PROVE  QuietA(n, y.m) /\ (y.ok => y.m.regs["s0"] = Address(a))
  OBVIOUS
<1>1. PICK x \in V7a!PrepareForClobber(n, "s0") :
        IF x.ok THEN y \in V7a!WithInput(x.m, "s0", V7a!Address(a)) ELSE y = x
  BY DEF V7a!Then
<1> DEFINE k == x.m
           v == Address(a)
<1>2. QuietA(n, k) /\ V7a!Address(a) = v
  BY <1>1, V7PrepareForClobber DEF V7a!Address, Address
<1>. HIDE DEF k, v
<1>3. y \in V7a!WithInput(k, "s0", v) => QuietA(k, y.m) /\ (y.ok => k.halted /\ y.m = Given(k, "s0", v))
  BY <1>2, V7WithInput, QuietAFit
<1>4. FitA(k) /\ k.halted => Given(k, "s0", v).regs["s0"] = v
  BY GivenQuietA DEF Regs
<1>5. x.ok => y \in V7a!WithInput(k, "s0", v)
  BY <1>1, <1>2 DEF k
<1>6. ~x.ok => y.m = k /\ ~y.ok
  BY <1>1 DEF k
<1>7. QuietA(n, y.m) /\ (y.ok => y.m.regs["s0"] = v)
  BY <1>2, <1>3, <1>4, <1>5, <1>6, QuietATrans, QuietAFit
<1> QED BY <1>7 DEF v

\* The instruction that loads the word at the address in the scratch register.
LEMMA V7Load ==
  \A n, a : FitA(n) /\ n.regs["s0"] = Address(a) => \A o \in V7a!Load(n) :
    QuietA(n, o.m) /\ (o.ok => o.val = Data(Word(n.mem, a)))
<1> SUFFICES ASSUME NEW n, NEW a, FitA(n), n.regs["s0"] = Address(a), NEW o \in V7a!Load(n)
             PROVE  QuietA(n, o.m) /\ (o.ok => o.val = Data(Word(n.mem, a)))
  OBVIOUS
<1> DEFINE v == V7a!Address(a + 2)
           x == Given(n, "s0", v)
           w == Data(Word(n.mem, a))
<1>1. n.regs["s0"].n = a
  BY DEF Address
<1>2. V7a!Load(n) = V7a!Execute(n, x, w)
  BY <1>1 DEF V7a!Load, V7a!Data, Data, V7a!Word, Word, Given
<1>. HIDE DEF v, w
<1>3. n.halted => QuietA(n, x)
  BY GivenQuietA
<1>. HIDE DEF x
<1>4. QuietA(n, o.m) /\ (o.ok => o.val = w)
  BY <1>2, <1>3, V7Execute
<1> QED BY <1>4 DEF w

\* The one that stores it.
LEMMA V7Store ==
  \A n, a, k : FitA(n) /\ n.regs["s0"] = Address(a) /\ Patched(n.mem, a, k) \in [Lanes -> {0, 1}] =>
    \A o \in V7a!Store(n, k) : StoresWord(n, o, a, k)
<1> SUFFICES ASSUME NEW n, NEW a, NEW k, FitA(n), n.regs["s0"] = Address(a),
                    Patched(n.mem, a, k) \in [Lanes -> {0, 1}], NEW o \in V7a!Store(n, k)
             PROVE  StoresWord(n, o, a, k)
  OBVIOUS
<1> DEFINE v == V7a!Address(a + 2)
           p == Patched(n.mem, a, k)
           x == Stored(n, "s0", v, p)
<1>1. n.regs["s0"].n = a
  BY DEF Address
<1>2. V7a!Store(n, k) = V7a!Execute(n, x, V7a!Junk)
  BY <1>1 DEF V7a!Store, V7a!Patched, Patched, Stored
<1>3. /\ StoresA(n, n) /\ StoresA(n, Spent(n)) /\ Spent(n).mem = n.mem
  BY QuietARefl, QuietStoresA
<1>. HIDE DEF v, p
<1>4. n.halted => StoresA(n, x) /\ x.mem = p
  BY StoredStoresA DEF p
<1>. HIDE DEF x
<1>5. n.halted => StoresA(n, Spent(x)) /\ Spent(x).mem = p
  <2>1. \A y : StoresA(n, y) => FitA(y)
    BY DEF StoresA
  <2> QED BY <1>4, <2>1, QuietARefl, QuietStoresA, StoresATrans
<1>6. \/ o.m = n /\ ~o.ok
      \/ n.halted /\ o.ok /\ o.m = x
      \/ n.halted /\ ~o.ok /\ o.m \in {Spent(n), Spent(x)}
  BY <1>2, V7Same, OutcomesGive, AccessGives DEF V7a!Execute
<1> QED BY <1>3, <1>4, <1>5, <1>6 DEF StoresWord, p

\* A word is read, and the answer is the memory.
LEMMA V7ReadWord ==
  \A n, a : FitA(n) => \A o \in V7a!ReadWord(n, a) :
    QuietA(n, o.m) /\ (o.ok => o.val = Data(Word(n.mem, a)))
<1> SUFFICES ASSUME NEW n, NEW a, FitA(n), NEW o \in V7a!ReadWord(n, a)
             PROVE  QuietA(n, o.m) /\ (o.ok => o.val = Data(Word(n.mem, a)))
  OBVIOUS
<1> DEFINE S == V7a!Then(V7a!PrepareForClobber(n, "s0"), LAMBDA x : V7a!WithInput(x.m, "s0", V7a!Address(a)))
<1>1. PICK y \in S : IF y.ok THEN o \in V7a!Load(y.m) ELSE o = y
  BY DEF V7a!ReadWord, V7a!Then
<1>2. QuietA(n, y.m) /\ (y.ok => y.m.regs["s0"] = Address(a))
  BY <1>1, V7At
<1>. HIDE DEF S
<1>3. y.ok => QuietA(y.m, o.m) /\ (o.ok => o.val = Data(Word(y.m.mem, a)))
  BY <1>1, <1>2, V7Load, QuietAFit
<1> QED BY <1>1, <1>2, <1>3, QuietATrans, QuietAKeeps

\* A word is written, and no other lane.
LEMMA V7WriteWord ==
  \A n, a, k : FitA(n) /\ Patched(n.mem, a, k) \in [Lanes -> {0, 1}] =>
    \A o \in V7a!WriteWord(n, a, k) : StoresWord(n, o, a, k)
<1> SUFFICES ASSUME NEW n, NEW a, NEW k, FitA(n), Patched(n.mem, a, k) \in [Lanes -> {0, 1}],
                    NEW o \in V7a!WriteWord(n, a, k)
             PROVE  StoresWord(n, o, a, k)
  OBVIOUS
<1> DEFINE S == V7a!Then(V7a!PrepareForClobber(n, "s0"), LAMBDA x : V7a!WithInput(x.m, "s0", V7a!Address(a)))
<1>1. PICK y \in S : IF y.ok THEN o \in V7a!Store(y.m, k) ELSE o = y
  BY DEF V7a!WriteWord, V7a!Then
<1>2. QuietA(n, y.m) /\ (y.ok => y.m.regs["s0"] = Address(a))
  BY <1>1, V7At
<1>. HIDE DEF S
<1>3. StoresA(n, y.m) /\ y.m.mem = n.mem /\ FitA(y.m)
  BY <1>2, QuietStoresA, QuietAFit
<1>4. y.ok => StoresWord(y.m, o, a, k)
  BY <1>1, <1>2, <1>3, V7Store
<1> QED BY <1>1, <1>3, <1>4, StoresATrans DEF StoresWord

\* A word is read with the core halted for it.
LEMMA V7ReadWordServes ==
  \A n, a : GoodA(n) => \A o \in V7a!ReadWord(n, a) :
    ServesA(n, o) /\ o.m.mem = n.mem /\ (o.ok => o.val = Data(Word(n.mem, a)))
BY V7ReadWord, QuietStoresA, StoresServeA DEF GoodA

\* A word is written with the core halted for it.
LEMMA V7WriteWordServes ==
  \A n, a, k : GoodA(n) /\ Patched(n.mem, a, k) \in [Lanes -> {0, 1}] =>
    \A o \in V7a!WriteWord(n, a, k) :
      ServesA(n, o) /\ (o.m.mem = Patched(n.mem, a, k) \/ (~o.ok /\ o.m.mem = n.mem))
BY V7WriteWord, StoresServeA DEF GoodA, StoresWord

(* Memory is read, and written where it is to be written.                   *)
LEMMA V7ReadMemory ==
  \A n : GoodA(n) =>
    /\ \A l : \A o \in V7a!ReadLane(n, l) : ServesA(n, o) /\ o.m.mem = n.mem
    /\ \A o \in V7a!ReadWords(n) : ServesA(n, o) /\ o.m.mem = n.mem
<1>1. \A k, v : V7a!Give(k, v).m = k /\ V7a!Give(k, v).ok
  BY V7Same, OutcomesGive
<1>2. \A n : GoodA(n) => \A l : \A o \in V7a!ReadLane(n, l) : ServesA(n, o) /\ o.m.mem = n.mem
  <2> SUFFICES ASSUME NEW n, GoodA(n), NEW l, NEW o \in V7a!ReadLane(n, l)
               PROVE  ServesA(n, o) /\ o.m.mem = n.mem
    OBVIOUS
  <2>1. PICK a \in V7a!ReadWord(n, V7a!WordOf(l)) : o.m = a.m /\ (o.ok <=> a.ok)
    BY <1>1 DEF V7a!ReadLane, V7a!Then
  <2>2. ServesA(n, a) /\ a.m.mem = n.mem
    BY <2>1, V7ReadWordServes
  <2> QED BY <2>1, <2>2 DEF ServesA
<1>3. \A n : GoodA(n) => \A o \in V7a!ReadWords(n) : ServesA(n, o) /\ o.m.mem = n.mem
  <2> SUFFICES ASSUME NEW n, GoodA(n), NEW o \in V7a!ReadWords(n)
               PROVE  ServesA(n, o) /\ o.m.mem = n.mem
    OBVIOUS
  <2>1. PICK a \in V7a!ReadWord(n, 0) :
          IF a.ok THEN \E b \in V7a!ReadWord(a.m, 2) : o.m = b.m /\ (o.ok <=> b.ok) ELSE o = a
    BY <1>1 DEF V7a!ReadWords, V7a!Then
  <2>2. ServesA(n, a) /\ a.m.mem = n.mem /\ GoodA(a.m)
    BY <2>1, V7ReadWordServes DEF ServesA
  <2>3. CASE ~a.ok
    BY <2>1, <2>2, <2>3
  <2>4. CASE a.ok
    <3>1. PICK b \in V7a!ReadWord(a.m, 2) : o.m = b.m /\ (o.ok <=> b.ok)
      BY <2>1, <2>4
    <3>2. ServesA(n, b) /\ b.m.mem = n.mem
      BY <2>2, <2>4, <3>1, V7ReadWordServes, ServesATrans
    <3> QED BY <3>1, <3>2 DEF ServesA
  <2> QED BY <2>3, <2>4
<1> QED BY <1>2, <1>3

\* Memory is written, a byte or two words: those lanes and no others.
LEMMA V7WriteMemory ==
  \A n : GoodA(n) =>
    /\ \A l \in Lanes : \A o \in V7a!WriteLane(n, l) : ServesA(n, o) /\ Writes(n.mem, o, {l})
    /\ \A o \in V7a!WriteWords(n) : ServesA(n, o) /\ Writes(n.mem, o, Lanes)
<1>1. \A l, k : V7a!WordOf(l) = WordOf(l) /\ V7a!WithLane(k, l) = WithLane(k, l) /\ Data(k).n = k
  BY DEF V7a!WordOf, WordOf, V7a!WithLane, WithLane, Data
<1>2. ASSUME NEW n, GoodA(n), NEW l \in Lanes, NEW o \in V7a!WriteLane(n, l)
      PROVE  ServesA(n, o) /\ Writes(n.mem, o, {l})
  <2> DEFINE w == WordOf(l)
             k == WithLane(Word(n.mem, w), l)
             p == Patched(n.mem, w, k)
  <2>1. n.mem \in [Lanes -> {0, 1}]
    BY <1>2 DEF GoodA, FitA, Fit
  <2>2. /\ p \in [Lanes -> {0, 1}] /\ p[l] = 1
        /\ \A q \in Lanes \ {l} : p[q] = n.mem[q]
    BY <2>1, PatchedWord
  <2>3. PICK a \in V7a!ReadWord(n, w) :
          IF a.ok THEN o \in V7a!WriteWord(a.m, w, WithLane(a.val.n, l)) ELSE o = a
    BY <1>1, <1>2 DEF V7a!WriteLane, V7a!Then
  <2>4. ServesA(n, a) /\ a.m.mem = n.mem /\ GoodA(a.m) /\ (a.ok => a.val.n = Word(n.mem, w))
    BY <1>1, <1>2, <2>3, V7ReadWordServes DEF ServesA
  <2>5. a.ok => o \in V7a!WriteWord(a.m, w, k)
    BY <2>3, <2>4
  <2>. HIDE DEF p, k, w
  <2>6. a.ok => ServesA(a.m, o) /\ (o.m.mem = p \/ (~o.ok /\ o.m.mem = n.mem))
    BY <2>2, <2>4, <2>5, V7WriteWordServes DEF p
  <2>7. ServesA(n, o) /\ (o.m.mem = p \/ (~o.ok /\ o.m.mem = n.mem))
    BY <2>3, <2>4, <2>6, ServesATrans
  <2> QED BY <2>1, <2>2, <2>7 DEF Writes
<1>3. ASSUME NEW n, GoodA(n), NEW o \in V7a!WriteWords(n)
      PROVE  ServesA(n, o) /\ Writes(n.mem, o, Lanes)
  <2> DEFINE p == Patched(n.mem, 0, 3)
             q == Patched(p, 2, 3)
  <2>1. n.mem \in [Lanes -> {0, 1}]
    BY <1>3 DEF GoodA, FitA, Fit
  <2>2. p \in [Lanes -> {0, 1}] /\ \A l \in Lanes : p[l] = IF l \in {0, 1} THEN 1 ELSE n.mem[l]
    BY <2>1, PatchedWords
  <2>. HIDE DEF p
  <2>3. q \in [Lanes -> {0, 1}] /\ \A l \in Lanes : q[l] = IF l \in {2, 3} THEN 1 ELSE p[l]
    BY <2>2, PatchedWords
  <2>. HIDE DEF q
  <2>4. PICK a \in V7a!WriteWord(n, 0, 3) :
          IF a.ok THEN o \in V7a!WriteWord(a.m, 2, 3) ELSE o = a
    BY <1>3 DEF V7a!WriteWords, V7a!Then
  <2>5. ServesA(n, a) /\ GoodA(a.m) /\ (a.m.mem = p \/ (~a.ok /\ a.m.mem = n.mem))
    BY <1>3, <2>2, <2>4, V7WriteWordServes DEF ServesA, p
  <2>6. a.ok => ServesA(a.m, o) /\ (o.m.mem = q \/ (~o.ok /\ o.m.mem = p))
    BY <2>3, <2>4, <2>5, V7WriteWordServes DEF q
  <2>7. ServesA(n, o) /\ (o.m.mem = q \/ (~o.ok /\ o.m.mem \in {n.mem, p}))
    BY <2>4, <2>5, <2>6, ServesATrans
  <2>8. \A l \in Lanes : q[l] = 1
    BY <2>2, <2>3 DEF Lanes
  <2> QED BY <2>1, <2>2, <2>3, <2>7, <2>8 DEF Writes
<1> QED BY <1>2, <1>3

-----------------------------------------------------------------------------
(* The driver of ARMv8-A.                                                 *)

(* The operators of CoreAccess are the same for the driver of ARMv8-A. *)
LEMMA V8Same ==
  \A n, x, v :
    /\ V8a!Access(n, x, v) = Access(n, x, v) /\ V8a!Give(n, v) = Give(n, v)
    /\ V8a!Ok(n) = Ok(n) /\ V8a!Err(n) = Err(n) /\ V8a!Fail(n) = Fail(n)
    /\ V8a!Stops(n) = Stops(n) /\ V8a!Stopped(n) = Stopped(n)
    /\ V8a!Poll(n) = Poll(n) /\ V8a!AwaitHalt(n) = AwaitHalt(n) /\ V8a!Yes = Yes
    /\ V8a!Restarted(n) = Restarted(n) /\ V8a!WasReset(n) = WasReset(n)
    /\ \A W : V8a!StopsAgain(n, W) = StopsAgain(n, W)
<1>1. /\ V8a!Junk = Junk /\ V8a!Units = Units /\ V8a!Free = Free /\ V8a!Regs = Regs
      /\ \A b : V8a!Flag(b) = Flag(b)
  BY DEF V8a!Junk, Junk, V8a!Units, Units, V8a!Free, Free, V8a!Regs, Regs, V8a!Flag, Flag
<1>2. /\ V8a!Yes = Yes /\ \A e : V8a!Own(e) = Own(e)
  BY <1>1 DEF V8a!Yes, Yes, V8a!Own, Own
<1>3. \A n, v : V8a!Give(n, v) = Give(n, v) /\ V8a!Err(n) = Err(n) /\ V8a!Fail(n) = Fail(n)
  BY <1>1 DEF V8a!Give, Give, V8a!Err, Err, V8a!Fail, Fail
<1>4. \A n, x, v : V8a!Access(n, x, v) = Access(n, x, v) /\ V8a!Ok(n) = Ok(n)
  BY <1>1, <1>3 DEF V8a!Access, Access, V8a!Ok, Ok
<1>5. \A n : V8a!Stopped(n) = Stopped(n) /\ V8a!Reasons(n) = Reasons(n)
  BY <1>1 DEF V8a!Stopped, Stopped, V8a!Reasons, Reasons
<1>6. \A n : V8a!Stops(n) = Stops(n)
  BY <1>5 DEF V8a!Stops, Stops
<1>7. \A n : V8a!Poll(n) = Poll(n)
  BY <1>1, <1>4, <1>6 DEF V8a!Poll, Poll
<1>8. \A n : V8a!AwaitHalt(n) = AwaitHalt(n)
  BY <1>2, <1>3, <1>4, <1>5, <1>6 DEF V8a!AwaitHalt, AwaitHalt
<1>9. \A n : V8a!Restarted(n) = Restarted(n) /\ V8a!WasReset(n) = WasReset(n)
  BY <1>2 DEF V8a!Restarted, Restarted, V8a!WasReset, WasReset
<1>10. \A n, W : V8a!StopsAgain(n, W) = StopsAgain(n, W)
  BY DEF V8a!StopsAgain, StopsAgain
<1> QED BY <1>2, <1>3, <1>4, <1>5, <1>6, <1>7, <1>8, <1>9, <1>10

(* An instruction takes a halted core to x, and does nothing to one that    *)
(* runs.                                                                    *)
LEMMA V8Execute ==
  \A n, x, v : FitA(n) /\ (n.halted => QuietA(n, x)) => \A o \in V8a!Execute(n, x, v) :
    QuietA(n, o.m) /\ (o.ok => n.halted /\ o.m = x /\ o.val = v)
<1> SUFFICES ASSUME NEW n, NEW x, NEW v, FitA(n), n.halted => QuietA(n, x),
                    NEW o \in V8a!Execute(n, x, v)
             PROVE  QuietA(n, o.m) /\ (o.ok => n.halted /\ o.m = x /\ o.val = v)
  OBVIOUS
<1>1. CASE n.seen = "running" \/ ~n.halted
  BY <1>1, V8Same, OutcomesGive, QuietARefl DEF V8a!Execute
<1>2. CASE ~(n.seen = "running" \/ ~n.halted)
  <2>1. \/ o.ok /\ o.m = x /\ o.val = v
        \/ ~o.ok /\ o.m \in {Spent(n), Spent(x)}
    BY <1>2, V8Same, AccessGives DEF V8a!Execute
  <2>2. QuietA(n, Spent(n)) /\ QuietA(x, Spent(x))
    BY <1>2, QuietARefl DEF QuietA
  <2> QED BY <1>2, <2>1, <2>2, QuietATrans
<1> QED BY <1>1, <1>2

\* An instruction that leaves a register in DBGDTRTX.
LEMMA V8WithResult ==
  \A n, r : FitA(n) => \A o \in V8a!Result(n, r) :
    QuietA(n, o.m) /\ (o.ok => n.halted /\ o.m = n /\ o.val = n.regs[r])
BY V8Execute, QuietARefl DEF V8a!Result, V8a!WithResult32, V8a!WithResult64

\* One that takes a register from DBGDTRRX.
LEMMA V8WithInput ==
  \A n, r, v : FitA(n) => \A o \in V8a!SetRegValue(n, r, v) :
    QuietA(n, o.m) /\ (o.ok => n.halted /\ o.m = Given(n, r, v))
<1> SUFFICES ASSUME NEW n, NEW r, NEW v, FitA(n), NEW o \in V8a!SetRegValue(n, r, v)
             PROVE  QuietA(n, o.m) /\ (o.ok => n.halted /\ o.m = Given(n, r, v))
  OBVIOUS
<1>1. n.halted => QuietA(n, Given(n, r, v))
  BY GivenQuietA
<1>2. V8a!SetRegValue(n, r, v) = V8a!Execute(n, Given(n, r, v), V8a!Junk)
  BY DEF V8a!SetRegValue, V8a!WithInput32, V8a!WithInput64, Given
<1> QED BY <1>1, <1>2, V8Execute

\* One that moves a register to another.
LEMMA V8Move ==
  \A n, p, q : FitA(n) => \A o \in V8a!Move(n, p, q) : QuietA(n, o.m) /\ (o.ok => n.halted)
<1> SUFFICES ASSUME NEW n, NEW p, NEW q, FitA(n), NEW o \in V8a!Move(n, p, q)
             PROVE  QuietA(n, o.m) /\ (o.ok => n.halted)
  OBVIOUS
<1>1. n.halted => QuietA(n, Given(n, q, n.regs[p]))
  BY GivenQuietA
<1>2. V8a!Move(n, p, q) = V8a!Execute(n, Given(n, q, n.regs[p]), V8a!Junk)
  BY DEF V8a!Move, Given
<1> QED BY <1>1, <1>2, V8Execute

(* A register is read, and cached. *)
LEMMA V8ReadGpr ==
  \A n, r : FitA(n) => \A o \in V8a!ReadGpr(n, r) :
    QuietA(n, o.m) /\ (o.ok => n.halted \/ n.cache[r].in)
<1> SUFFICES ASSUME NEW n, NEW r, FitA(n), NEW o \in V8a!ReadGpr(n, r)
             PROVE  QuietA(n, o.m) /\ (o.ok => n.halted \/ n.cache[r].in)
  OBVIOUS
<1>1. CASE n.cache[r].in
  BY <1>1, V8Same, OutcomesGive, QuietARefl DEF V8a!ReadGpr
<1>2. CASE ~n.cache[r].in
  <2>1. PICK a \in V8a!Result(n, r) :
          IF a.ok THEN o.m = Entered(a.m, r, V8a!Clean(a.val)) ELSE o = a
    <3>1. \A a : V8a!Give([a.m EXCEPT !.cache[r] = V8a!Clean(a.val)], a.val).m = Entered(a.m, r, V8a!Clean(a.val))
      BY V8Same, OutcomesGive DEF Entered
    <3> QED BY <1>2, <3>1 DEF V8a!ReadGpr, V8a!Remember, V8a!Then
  <2>2. QuietA(n, a.m) /\ (a.ok => n.halted)
    BY <2>1, V8WithResult
  <2>3. a.ok => QuietA(a.m, o.m)
    BY <2>1, <2>2, EnteredQuietA DEF QuietA
  <2> QED BY <2>1, <2>2, <2>3, QuietATrans
<1> QED BY <1>1, <1>2

\* A register is saved before it is clobbered.
LEMMA V8PrepareForClobber ==
  \A n, r : FitA(n) => \A o \in V8a!PrepareForClobber(n, r) :
    QuietA(n, o.m) /\ (o.ok => n.halted \/ n.cache[r].in)
<1> SUFFICES ASSUME NEW n, NEW r, FitA(n), NEW o \in V8a!PrepareForClobber(n, r)
             PROVE  QuietA(n, o.m) /\ (o.ok => n.halted \/ n.cache[r].in)
  OBVIOUS
<1>1. CASE n.cache[r].in
  <2>1. o \in {Ok(n)}
    BY <1>1, V8Same DEF V8a!PrepareForClobber, V8a!Unless
  <2> QED BY <1>1, <2>1, OutcomesGive, QuietARefl
<1>2. CASE ~n.cache[r].in
  <2>1. PICK a \in V8a!ReadGpr(n, r) :
          IF a.ok THEN o.m = Entered(a.m, r, V8a!Dirty(a.val)) ELSE o = a
    <3>1. \A a : V8a!Ok([a.m EXCEPT !.cache[r] = V8a!Dirty(a.val)]).m = Entered(a.m, r, V8a!Dirty(a.val))
      BY V8Same, OutcomesGive DEF Entered
    <3> QED BY <1>2, <3>1 DEF V8a!PrepareForClobber, V8a!Then
  <2>2. QuietA(n, a.m) /\ (a.ok => n.halted)
    BY <1>2, <2>1, V8ReadGpr
  <2>3. a.ok => QuietA(a.m, o.m)
    BY <2>1, <2>2, EnteredQuietA DEF QuietA
  <2> QED BY <2>1, <2>2, <2>3, QuietATrans
<1> QED BY <1>1, <1>2

(* The registers that are reached through s0 and s1.                        *)
LEMMA V8Words ==
  \A n, r : FitA(n) =>
    /\ \A o \in V8a!WithResult32(n, r) : QuietA(n, o.m) /\ (o.ok => n.halted /\ o.m = n /\ o.val = n.regs[r])
    /\ \A o \in V8a!WithResult64(n, r) : QuietA(n, o.m) /\ (o.ok => n.halted /\ o.m = n /\ o.val = n.regs[r])
BY V8Execute, QuietARefl DEF V8a!WithResult32, V8a!WithResult64

\* A value is put in a register with 32 bit instructions.
LEMMA V8Input32 ==
  \A n, r, v : FitA(n) => \A o \in V8a!WithInput32(n, r, v) : QuietA(n, o.m) /\ (o.ok => n.halted)
<1> SUFFICES ASSUME NEW n, NEW r, NEW v, FitA(n), NEW o \in V8a!WithInput32(n, r, v)
             PROVE  QuietA(n, o.m) /\ (o.ok => n.halted)
  OBVIOUS
<1>1. n.halted => QuietA(n, Given(n, r, v))
  BY GivenQuietA
<1>2. V8a!WithInput32(n, r, v) = V8a!Execute(n, Given(n, r, v), V8a!Junk)
  BY DEF V8a!WithInput32, Given
<1> QED BY <1>1, <1>2, V8Execute

\* A register is read from a core in AArch32.
LEMMA V8ReadCoreReg32 ==
  \A n, r : FitA(n) => \A o \in V8a!ReadCoreReg32(n, r) : QuietA(n, o.m) /\ (o.ok => n.halted)
BY QuietAFit, QuietATrans, V8PrepareForClobber, V8Move, V8Words DEF V8a!ReadCoreReg32, V8a!Then

\* A register is read from a core in AArch64.
LEMMA V8ReadCoreReg64 ==
  \A n, r : FitA(n) => \A o \in V8a!ReadCoreReg64(n, r) : QuietA(n, o.m) /\ (o.ok => n.halted)
BY QuietAFit, QuietATrans, V8PrepareForClobber, V8Move, V8Words DEF V8a!ReadCoreReg64, V8a!Then

(* Any register. *)
LEMMA V8Remember ==
  \A n, S, r : (\A a \in S : QuietA(n, a.m) /\ (a.ok => n.halted)) =>
    \A o \in V8a!Remember(S, r) : QuietA(n, o.m) /\ (o.ok => n.halted)
<1> SUFFICES ASSUME NEW n, NEW S, NEW r, \A a \in S : QuietA(n, a.m) /\ (a.ok => n.halted),
                    NEW o \in V8a!Remember(S, r)
             PROVE  QuietA(n, o.m) /\ (o.ok => n.halted)
  OBVIOUS
<1>1. PICK a \in S : IF a.ok THEN o.m = Entered(a.m, r, V8a!Clean(a.val)) ELSE o = a
  <2>1. \A a : V8a!Give([a.m EXCEPT !.cache[r] = V8a!Clean(a.val)], a.val).m = Entered(a.m, r, V8a!Clean(a.val))
    BY V8Same, OutcomesGive DEF Entered
  <2> QED BY <2>1 DEF V8a!Remember, V8a!Then
<1>2. QuietA(n, a.m) /\ (a.ok => n.halted)
  BY <1>1
<1> QED BY <1>1, <1>2, EnteredQuietA, QuietATrans, QuietAFit

\* A register is read from the cache, or from a halted core.
LEMMA V8ReadReg ==
  \A n, r : FitA(n) /\ r \in Regs => \A o \in V8a!ReadReg(n, r) :
    QuietA(n, o.m) /\ (o.ok => n.halted \/ n.cache[r].in)
<1> SUFFICES ASSUME NEW n, NEW r \in Regs, FitA(n), NEW o \in V8a!ReadReg(n, r)
             PROVE  QuietA(n, o.m) /\ (o.ok => n.halted \/ n.cache[r].in)
  OBVIOUS
<1>1. \/ n.cache[r].in /\ o.m = n
      \/ o \in V8a!Remember(V8a!ReadCoreReg64(n, r), r)
      \/ o \in V8a!Remember(V8a!ReadCoreReg32(n, r), r)
      \/ o \in V8a!ReadGpr(n, r)
  BY V8Same, OutcomesGive DEF V8a!ReadReg, Regs
<1> QED BY <1>1, QuietARefl, V8Remember, V8ReadCoreReg32, V8ReadCoreReg64, V8ReadGpr

\* So is the program counter.
LEMMA V8ReadPc ==
  \A n : FitA(n) => \A o \in V8a!ReadReg(n, "pc") :
    QuietA(n, o.m) /\ (o.ok => n.halted \/ n.cache["pc"].in)
BY V8ReadReg DEF Regs

\* A register is written to the cache.
LEMMA V8WriteReg ==
  \A n, r : FitA(n) /\ n.halted => \A o \in V8a!WriteReg(n, r) : QuietA(n, o.m)
<1>1. \A n, r : V8a!Ok([n EXCEPT !.cache[r] = V8a!Dirty(V8a!User(r))]).m = Entered(n, r, V8a!Dirty(V8a!User(r)))
  BY V8Same, OutcomesGive DEF Entered
<1> QED BY <1>1, EnteredQuietA DEF V8a!WriteReg

(* What was only cached is written to the core. *)
LEMMA V8WriteBack32 ==
  \A n, r : FitA(n) /\ r \in Regs => \A o \in V8a!WriteBack32(n, r) : QuietA(n, o.m)
<1> SUFFICES ASSUME NEW n, NEW r \in Regs, FitA(n), NEW o \in V8a!WriteBack32(n, r)
             PROVE  QuietA(n, o.m)
  OBVIOUS
<1> DEFINE v == n.cache[r].val
<1>1. \/ o \in V8a!WithInput32(n, r, v)
      \/ o \in V8a!Then(V8a!WithInput32(n, "s0", v), LAMBDA a : V8a!Move(a.m, "s0", "pc"))
      \/ o \in V8a!Then(V8a!WithInput32(n, "s0", v), LAMBDA a :
               V8a!Then(V8a!WithInput32(a.m, "s1", v), LAMBDA b : V8a!Move(b.m, "s0", "f")))
  BY DEF V8a!WriteBack32, V8a!Unless, Regs
<1>. HIDE DEF v
<1>2. /\ \A k, q, w : QuietA(n, k) => \A p \in V8a!WithInput32(k, q, w) : QuietA(n, p.m)
      /\ \A k, p, q : QuietA(n, k) => \A a \in V8a!Move(k, p, q) : QuietA(n, a.m)
  BY QuietAFit, QuietATrans, V8Input32, V8Move
<1>3. CASE o \in V8a!Then(V8a!WithInput32(n, "s0", v), LAMBDA a : V8a!Move(a.m, "s0", "pc"))
  BY <1>2, <1>3, QuietARefl DEF V8a!Then
<1>4. CASE o \in V8a!Then(V8a!WithInput32(n, "s0", v), LAMBDA a :
                V8a!Then(V8a!WithInput32(a.m, "s1", v), LAMBDA b : V8a!Move(b.m, "s0", "f")))
  BY <1>2, <1>4, QuietARefl DEF V8a!Then
<1> QED BY <1>1, <1>2, <1>3, <1>4, QuietARefl

\* A register is written back to a core in AArch64.
LEMMA V8WriteBack64 ==
  \A n, r : FitA(n) => \A o \in V8a!WriteBack64(n, r) : QuietA(n, o.m)
<1> SUFFICES ASSUME NEW n, NEW r, FitA(n), NEW o \in V8a!WriteBack64(n, r)
             PROVE  QuietA(n, o.m)
  OBVIOUS
<1> DEFINE v == n.cache[r].val
<1>1. \/ o \in V8a!SetRegValue(n, r, v)
      \/ o \in V8a!Then(V8a!SetRegValue(n, "s0", v), LAMBDA a : V8a!Move(a.m, "s0", r))
  BY DEF V8a!WriteBack64
<1>. HIDE DEF v
<1>2. /\ \A k, q, w : QuietA(n, k) => \A p \in V8a!SetRegValue(k, q, w) : QuietA(n, p.m)
      /\ \A k, p, q : QuietA(n, k) => \A a \in V8a!Move(k, p, q) : QuietA(n, a.m)
  BY QuietAFit, QuietATrans, V8WithInput, V8Move
<1>3. CASE o \in V8a!Then(V8a!SetRegValue(n, "s0", v), LAMBDA a : V8a!Move(a.m, "s0", r))
  BY <1>2, <1>3, QuietARefl DEF V8a!Then
<1> QED BY <1>1, <1>2, <1>3, QuietARefl

\* A register is written back to a core in AArch32.
LEMMA V8WriteBackOne ==
  \A n, r : FitA(n) /\ r \in Regs => \A o \in V8a!WriteBackOne(n, r) : QuietA(n, o.m)
<1>1. \A n : V8a!Ok(n).m = n
  BY V8Same, OutcomesGive
<1> QED BY <1>1, QuietARefl, V8WriteBack32, V8WriteBack64 DEF V8a!WriteBackOne, V8a!Unless

\* The cache is reset: nothing is in it.
LEMMA V8ResetCache == \A n : V8a!ResetCache(n) = Forgot(n)
BY V8Same DEF V8a!ResetCache, Forgot, V8a!EmptyCache, NoCache, V8a!Nothing, V8a!Junk, Junk, V8a!Regs, Regs

\* The cache is written back, and nothing is in it if that succeeds.
LEMMA V8WriteBack ==
  \A n : GoodA(n) => \A o \in V8a!WriteBack(n) :
    QuietA(n, o.m) /\ (o.ok => o.m.cache = NoCache)
<1>1. \A n : V8a!Ok(n).m = n /\ V8a!Ok(n).ok
  BY V8Same, OutcomesGive
<1>2. \A n, x : GoodA(n) /\ QuietA(n, x) =>
        QuietA(n, V8a!ResetCache(x)) /\ V8a!ResetCache(x).cache = NoCache
  BY QuietAKeeps, QuietATrans, ForgotGood, V8ResetCache
<1>3. \A n : GoodA(n) => FitA(n)
  BY DEF GoodA
<1>4. \A n, r : FitA(n) /\ r \in {"pc", "f", "s0", "s1"} => \A o \in V8a!WriteBackOne(n, r) : QuietA(n, o.m)
  BY V8WriteBackOne DEF Regs
<1>5. \A n : GoodA(n) => \A o \in V8a!WriteBack(n) :
        \/ ~o.ok /\ QuietA(n, o.m)
        \/ \E x : QuietA(n, x) /\ o.m = V8a!ResetCache(x)
  BY <1>1, <1>3, <1>4, QuietAFit, QuietATrans DEF V8a!WriteBack, V8a!Then
<1> QED BY <1>2, <1>5

(* The core is looked at, and the driver notes what it sees.               *)
LEMMA V8Status ==
  \A n : FitA(n) => \A o \in V8a!Status(n) :
    /\ HoldsA(n, o.m) /\ Watched(n, o.m)
    /\ o.ok => (o.val = Yes <=> o.m.halted) /\ (o.m.halted => o.m.seen = "halted")
<1> SUFFICES ASSUME NEW n, FitA(n), NEW o \in V8a!Status(n)
             PROVE  /\ HoldsA(n, o.m) /\ Watched(n, o.m)
                    /\ o.ok => (o.val = Yes <=> o.m.halted) /\ (o.m.halted => o.m.seen = "halted")
  OBVIOUS
<1>1. PICK a \in Poll(n) :
        \/ ~a.ok /\ o = a
        \/ a.ok /\ a.val # Yes /\ o.m = Noted(a.m, "running") /\ o.val = a.val
        \/ a.ok /\ a.val = Yes /\ o.m = Noted(a.m, "halted") /\ o.val = a.val
  <2>1. /\ V8a!Poll(n) = Poll(n) /\ V8a!Yes = Yes
        /\ \A k, s : V8a!SetStatus(k, s) = Noted(k, s)
        /\ \A k, v : V8a!Give(k, v).m = k /\ V8a!Give(k, v).ok /\ V8a!Give(k, v).val = v
    BY V8Same, OutcomesGive DEF V8a!SetStatus, Noted
  <2> QED BY <2>1 DEF V8a!Status, V8a!Then
<1>2. /\ HoldsA(n, a.m) /\ Watched(n, a.m) /\ FitA(a.m) /\ a.m.halted \in BOOLEAN
      /\ a.ok => (a.val = Yes <=> a.m.halted)
  BY <1>1, PollHoldsA, HoldsAKeeps DEF FitA, Fit
<1>3. \A s : HoldsA(n, Noted(a.m, s)) /\ Watched(n, Noted(a.m, s)) /\ Noted(a.m, s).seen = s
             /\ Noted(a.m, s).halted = a.m.halted /\ FitA(Noted(a.m, s))
  BY <1>2, NotedHoldsA, HoldsATrans, HoldsAKeeps DEF Watched
<1> QED BY <1>1, <1>2, <1>3

(* The core is halted, and its program counter read.                        *)
LEMMA V8Halt ==
  \A n : GoodA(n) => \A o \in V8a!Halt(n) :
    GoodA(o.m) /\ HoldsA(n, o.m) /\ (o.ok => o.m.halted /\ o.m.seen = "halted")
<1> SUFFICES ASSUME NEW n, GoodA(n), NEW o \in V8a!Halt(n)
             PROVE  HoldsA(n, o.m) /\ (o.ok => o.m.halted /\ o.m.seen = "halted")
  BY HoldsAKeeps
<1> DEFINE After3(d) == V8a!Then(V8a!Access(d.m, d.m, V8a!Junk), LAMBDA e : V8a!ReadReg(e.m, "pc"))
           After2(c) == V8a!Then(V8a!Status(c.m), After3)
           Last(b) == {V8a!Ok(V8a!ResetCache(b.m))}
           After1(a) == V8a!Then(V8a!AwaitHalt(a.m), Last)
           Request == IF n.seen = "halted" THEN {V8a!Ok(n)} ELSE V8a!Then(V8a!Access(n, n, V8a!Junk), After1)
<1>0. FitA(n)
  BY DEF GoodA
<1>2. \A d : HoldsA(n, d.m) /\ (d.m.halted => d.m.seen = "halted") => \A p \in After3(d) :
        HoldsA(n, p.m) /\ (p.ok => p.m.halted /\ p.m.seen = "halted")
  <2>1. \A d, p : HoldsA(n, d.m) /\ QuietA(d.m, p.m) => HoldsA(n, p.m) /\ GoodA(d.m)
    BY QuietHoldsA, HoldsATrans, HoldsAKeeps
  <2>2. \A d : GoodA(d.m) /\ ~d.m.halted => ~d.m.cache["pc"].in
    BY DEF GoodA, NoCache, Regs
  <2>3. \A d : HoldsA(n, d.m) => \A p \in V8a!ReadReg(d.m, "pc") :
          QuietA(d.m, p.m) /\ (p.ok => d.m.halted \/ d.m.cache["pc"].in)
    BY V8ReadPc, HoldsAKeeps
  <2>4. \A k, v : \A e \in V8a!Access(k, k, v) : FitA(k) => QuietA(k, e.m)
    BY V8Same, AccessA
  <2>5. \A d : HoldsA(n, d.m) => \A e \in V8a!Access(d.m, d.m, V8a!Junk) : QuietA(d.m, e.m) /\ HoldsA(n, e.m)
    BY <2>1, <2>4, HoldsAKeeps
  <2> QED BY <2>1, <2>2, <2>3, <2>5, QuietAFit DEF QuietA, V8a!Then
<1>3. \A c : HoldsA(n, c.m) => \A p \in After2(c) :
        HoldsA(n, p.m) /\ (p.ok => p.m.halted /\ p.m.seen = "halted")
  <2>. HIDE DEF After3
  <2>1. \A c : HoldsA(n, c.m) => \A d \in V8a!Status(c.m) :
          HoldsA(n, d.m) /\ (d.ok => (d.m.halted => d.m.seen = "halted"))
    BY V8Status, HoldsATrans, HoldsAKeeps
  <2> QED BY <1>2, <2>1 DEF V8a!Then
<1>4. \A b : HoldsA(n, b.m) /\ b.m.halted => \A p \in Last(b) : HoldsA(n, p.m)
  <2>1. \A b : V8a!Ok(V8a!ResetCache(b.m)).m = Forgot(b.m)
    BY V8Same, V8ResetCache, OutcomesGive
  <2>2. \A k : HoldsA(n, k) /\ k.halted => HoldsA(n, Forgot(k))
    BY ForgotGood, QuietIsA, QuietHoldsA, HoldsATrans, HoldsAKeeps
  <2> QED BY <2>1, <2>2
<1>5. \A a : HoldsA(n, a.m) => \A p \in After1(a) : HoldsA(n, p.m)
  <2>. HIDE DEF Last
  <2>1. \A a : HoldsA(n, a.m) => \A b \in V8a!AwaitHalt(a.m) : HoldsA(n, b.m) /\ (b.ok => b.m.halted)
    BY V8Same, AwaitHoldsA, HoldsATrans, HoldsAKeeps
  <2> QED BY <1>4, <2>1 DEF V8a!Then
<1>6. \A p \in Request : HoldsA(n, p.m)
  <2>. HIDE DEF After1
  <2>1. HoldsA(n, n)
    BY <1>0, QuietARefl, QuietHoldsA
  <2>2. \A a \in V8a!Access(n, n, V8a!Junk) : HoldsA(n, a.m)
    BY <1>0, V8Same, AccessA, QuietHoldsA
  <2>3. V8a!Ok(n).m = n
    BY V8Same, OutcomesGive
  <2> QED BY <1>5, <2>1, <2>2, <2>3 DEF V8a!Then
<1>7. V8a!Halt(n) = V8a!Then(Request, After2)
  BY DEF V8a!Halt
<1>. HIDE DEF Request, After2
<1> QED BY <1>3, <1>6, <1>7 DEF V8a!Then

(* The core is reset.  It fails half-way only before anything changed, or   *)
(* with nothing cached.                                                     *)
LEMMA V8Resetting ==
  ASSUME Careful
  PROVE  \A n, S : (\A o \in S : /\ FitA(o.m) /\ Moves(n, o.m)
                                 /\ GoodA(o.m) \/ (~o.ok /\ o.m.epoch # n.epoch)) =>
           \A o \in V8a!Resetting(n, S) : o \in S /\ GoodA(o.m) /\ Moves(n, o.m)
<1>1. V8a!EmptyCache = NoCache
  BY DEF V8a!EmptyCache, NoCache, V8a!Nothing, V8a!Junk, Junk, V8a!Regs, Regs
<1> QED BY <1>1 DEF V8a!Resetting, V8a!Stale, V8a!Unless, GoodA

\* A reset: the driver is in order, whether it succeeds or not.
LEMMA V8Reset ==
  ASSUME Careful
  PROVE  \A n : GoodA(n) => \A o \in V8a!Reset(n) : GoodA(o.m) /\ Moves(n, o.m)
<1> SUFFICES ASSUME NEW n, GoodA(n)
             PROVE  \A o \in V8a!Reset(n) : GoodA(o.m) /\ Moves(n, o.m)
  OBVIOUS
<1> DEFINE Last(a) == {V8a!Ok(V8a!ResetCache(a.m))}
           x == WasReset(n)
           S == V8a!Then(V8a!Access(n, x, V8a!Junk), Last)
<1>1. FitA(n) /\ Moves(n, n) /\ Moves(n, Spent(n)) /\ GoodA(Spent(n))
  BY QuietARefl, QuietHoldsA, HoldsAKeeps DEF GoodA
<1>2. Moves(n, x) /\ x.epoch # n.epoch /\ FitA(x)
  BY <1>1, ResetMoves, MovesA DEF FitA
<1>. HIDE DEF x
<1>3. Moves(n, Spent(x)) /\ Spent(x).epoch # n.epoch /\ FitA(Spent(x))
  BY <1>2, QuietARefl, QuietHoldsA, HoldsAKeeps, MovesTrans
<1>4. Moves(n, Forgot(x)) /\ GoodA(Forgot(x))
  <2>1. GoodA(Forgot(x)) /\ Quiet(x, Forgot(x))
    BY <1>2, ForgotGood
  <2>2. Moves(x, Forgot(x))
    BY <1>2, <2>1, QuietHolds, HoldsMoves DEF FitA
  <2> QED BY <1>2, <2>1, <2>2, MovesTrans
<1>5. \A a : \A p \in Last(a) : p.m = Forgot(a.m)
  BY V8Same, V8ResetCache, OutcomesGive
<1>. HIDE DEF Last
<1>6. \A o \in S : FitA(o.m) /\ Moves(n, o.m) /\ (GoodA(o.m) \/ (~o.ok /\ o.m.epoch # n.epoch))
  <2>1. \A a \in Access(n, x, Junk) : (a.ok /\ a.m = x) \/ (~a.ok /\ a.m \in {Spent(n), Spent(x)})
    BY AccessGives
  <2>2. S = V8a!Then(Access(n, x, Junk), Last)
    BY V8Same DEF V8a!Junk, Junk
  <2> QED BY <1>1, <1>2, <1>3, <1>4, <1>5, <2>1, <2>2 DEF V8a!Then, GoodA
<1>7. V8a!Reset(n) = V8a!Resetting(n, S)
  BY V8Same DEF V8a!Reset, x, Last
<1>. HIDE DEF S
<1> QED BY <1>6, <1>7, V8Resetting

(* When the session ends what was cached is put back. *)
LEMMA V8Leave ==
  \A n : GoodA(n) => \A o \in V8a!Leave(n) : QuietA(n, o.m)
<1>1. \A n : V8a!Ok(n).m = n
  BY V8Same, OutcomesGive
<1> QED BY <1>1, QuietARefl, V8WriteBack DEF V8a!Leave, GoodA

(* The core is resumed: it runs, or has stopped by itself since.           *)
LEMMA V8Run ==
  \A n : GoodA(n) => \A o \in V8a!Run(n) :
    /\ GoodA(o.m) /\ Moves(n, o.m)
    /\ o.ok => (n.seen = "running" /\ o.m = n) \/ Unforced(o.m)
<1> SUFFICES ASSUME NEW n, GoodA(n)
             PROVE  \A o \in V8a!Run(n) :
                      /\ GoodA(o.m) /\ Moves(n, o.m)
                      /\ o.ok => (n.seen = "running" /\ o.m = n) \/ Unforced(o.m)
  OBVIOUS
<1> DEFINE Ends(p) == GoodA(p.m) /\ Moves(n, p.m) /\ (p.ok => Unforced(p.m))
           Last(d) == V8a!Access(d.m, d.m, V8a!Junk)
           After3(c) == V8a!Then(V8a!Status(V8a!SetStatus(c.m, "running")), Last)
           After2(b) == V8a!Then(V8a!Resume(b.m), After3)
           After1(a) == V8a!Then(V8a!Access(a.m, a.m, V8a!Junk), After2)
<1>1. FitA(n) /\ Moves(n, n)
  BY QuietARefl, QuietHoldsA, HoldsAKeeps DEF GoodA
<1>2. \A k, x : GoodA(k) /\ Moves(n, k) /\ HoldsA(k, x) => GoodA(x) /\ Moves(n, x)
  BY HoldsAKeeps, MovesTrans
<1>0. \A d : GoodA(d.m) /\ Moves(n, d.m) /\ Unforced(d.m) => \A p \in Last(d) : Ends(p)
  <2>1. \A d : GoodA(d.m) => \A p \in Last(d) : HoldsA(d.m, p.m) /\ Watched(d.m, p.m) /\ FitA(d.m)
    BY V8Same, AccessA, QuietHoldsA DEF GoodA
  <2>. HIDE DEF Last
  <2> QED BY <1>2, <2>1, UnforcedA
<1>3. \A c : GoodA(c.m) /\ Unforced(c.m) /\ Moves(n, c.m) => \A p \in After3(c) : Ends(p)
  <2>1. \A c : V8a!SetStatus(c.m, "running") = Noted(c.m, "running")
    BY DEF V8a!SetStatus, Noted
  <2>2. \A k : GoodA(k) /\ Unforced(k) /\ Moves(n, k) =>
          LET y == Noted(k, "running") IN FitA(y) /\ GoodA(y) /\ Moves(n, y) /\ Unforced(y)
    BY <1>2, NotedHoldsA, HoldsAKeeps DEF GoodA, Unforced
  <2>3. \A y : FitA(y) /\ GoodA(y) /\ Moves(n, y) /\ Unforced(y) => \A d \in V8a!Status(y) :
          GoodA(d.m) /\ Moves(n, d.m) /\ Unforced(d.m)
    BY <1>2, V8Status, UnforcedA
  <2>4. \A d : GoodA(d.m) /\ Moves(n, d.m) /\ Unforced(d.m) /\ ~d.ok => Ends(d)
    OBVIOUS
  <2>5. \A c : GoodA(c.m) /\ Unforced(c.m) /\ Moves(n, c.m) => \A d \in V8a!Status(V8a!SetStatus(c.m, "running")) :
          GoodA(d.m) /\ Moves(n, d.m) /\ Unforced(d.m)
    BY <2>1, <2>2, <2>3
  <2>. HIDE DEF Ends, Last
  <2> QED BY <1>0, <2>4, <2>5 DEF V8a!Then
<1>4. \A b : GoodA(b.m) /\ b.m.cache = NoCache /\ Moves(n, b.m) => \A p \in After2(b) : Ends(p)
  <2>1. \A b : V8a!Resume(b.m) = Resumes(b.m)
    BY V8Same DEF V8a!Resume, Resumes, V8a!Junk, Junk
  <2>2. \A b : GoodA(b.m) /\ b.m.cache = NoCache /\ Moves(n, b.m) => \A c \in Resumes(b.m) :
          GoodA(c.m) /\ Moves(n, c.m) /\ (c.ok => Unforced(c.m))
    BY ResumesA, MovesTrans
  <2>. HIDE DEF After3
  <2> QED BY <1>3, <2>1, <2>2 DEF V8a!Then
<1>5. \A a : GoodA(a.m) /\ a.m.cache = NoCache /\ Moves(n, a.m) => \A p \in After1(a) : Ends(p)
  <2>1. \A a : GoodA(a.m) /\ a.m.cache = NoCache /\ Moves(n, a.m) => \A b \in V8a!Access(a.m, a.m, V8a!Junk) :
          GoodA(b.m) /\ Moves(n, b.m) /\ (b.ok => b.m.cache = NoCache)
    BY <1>2, V8Same, AccessA, QuietHoldsA DEF GoodA
  <2>. HIDE DEF After2
  <2> QED BY <1>4, <2>1 DEF V8a!Then
<1>6. \A p \in V8a!Then(V8a!WriteBack(n), After1) : Ends(p)
  <2>1. \A a \in V8a!WriteBack(n) : GoodA(a.m) /\ Moves(n, a.m) /\ (a.ok => a.m.cache = NoCache)
    BY V8WriteBack, QuietHoldsA, HoldsAKeeps
  <2>. HIDE DEF After1
  <2> QED BY <1>5, <2>1 DEF V8a!Then
<1>7. V8a!Ok(n).m = n
  BY V8Same, OutcomesGive
<1>8. V8a!Run(n) = IF n.seen = "running" THEN {V8a!Ok(n)} ELSE V8a!Then(V8a!WriteBack(n), After1)
  BY DEF V8a!Run, V8a!AckCtiHalt
<1>. HIDE DEF After1
<1> QED BY <1>1, <1>6, <1>7, <1>8

(* A step makes the core stop after one instruction.                        *)
LEMMA V8Step ==
  \A n : GoodA(n) => \A o \in V8a!Step(n) :
    GoodA(o.m) /\ o.m.mem = n.mem /\ o.m.bps = n.bps /\ (o.ok => o.m.halted)
<1> SUFFICES ASSUME NEW n, GoodA(n)
             PROVE  \A o \in V8a!Step(n) : GoodA(o.m) /\ o.m.mem = n.mem /\ o.m.bps = n.bps /\ (o.ok => o.m.halted)
  OBVIOUS
<1> DEFINE Ends(p) == GoodA(p.m) /\ Moves(n, p.m) /\ (p.ok => p.m.halted)
           On(a) == [a EXCEPT !.armed = TRUE]
           Off(d) == [d EXCEPT !.armed = FALSE]
           After4(e) == V8a!ReadReg(e.m, "pc")
           After3(d) == V8a!Then(V8a!Access(d.m, Off(d.m), V8a!Junk), After4)
           After2(c) == V8a!Then(V8a!AwaitHalt(c.m), After3)
           After1(b) == V8a!Then(V8a!Run(b.m), After2)
           All == V8a!Then(V8a!Access(n, On(n), V8a!Junk), After1)
<1>1. \A k, x : GoodA(k) /\ Moves(n, k) /\ HoldsA(k, x) => GoodA(x) /\ Moves(n, x)
  BY HoldsAKeeps, MovesTrans
<1>2. \A k : GoodA(k) => QuietA(k, On(k)) /\ QuietA(k, Off(k))
  <2>1. \A k : FitA(k) => QuietA(k, On(k)) /\ QuietA(k, Off(k))
    <3> SUFFICES ASSUME NEW k, FitA(k) PROVE QuietA(k, On(k)) /\ QuietA(k, Off(k))
      OBVIOUS
    <3>1. /\ Changed(k, On(k), Loose) /\ On(k).regs = k.regs /\ On(k).cache = k.cache
          /\ Changed(k, Off(k), Loose) /\ Off(k).regs = k.regs /\ Off(k).cache = k.cache
      BY DEF Changed, Loose
    <3> QED BY <3>1, QuietIsA DEF Quiet
  <2> QED BY <2>1 DEF GoodA
<1>. HIDE DEF On, Off
<1>3. \A k, x : QuietA(k, x) => \A e \in V8a!Access(k, x, V8a!Junk) : QuietA(k, e.m)
  BY V8Same, AccessGives, QuietARefl, QuietATrans, QuietAFit DEF QuietA
<1>4. \A e : GoodA(e.m) /\ Moves(n, e.m) /\ e.m.halted => \A p \in After4(e) : Ends(p)
  <2>1. \A e : GoodA(e.m) => \A p \in After4(e) : QuietA(e.m, p.m) /\ HoldsA(e.m, p.m)
    BY V8ReadPc, QuietHoldsA DEF GoodA
  <2> QED BY <1>1, <2>1, QuietAFit
<1>5. \A d : GoodA(d.m) /\ Moves(n, d.m) /\ d.m.halted => \A p \in After3(d) : Ends(p)
  <2>1. \A d : GoodA(d.m) /\ Moves(n, d.m) /\ d.m.halted => \A e \in V8a!Access(d.m, Off(d.m), V8a!Junk) :
          GoodA(e.m) /\ Moves(n, e.m) /\ e.m.halted
    BY <1>1, <1>2, <1>3, QuietHoldsA, QuietAFit
  <2>. HIDE DEF After4
  <2> QED BY <1>4, <2>1 DEF V8a!Then
<1>6. \A c : GoodA(c.m) /\ Moves(n, c.m) => \A p \in After2(c) : Ends(p)
  <2>1. \A c : GoodA(c.m) /\ Moves(n, c.m) => \A d \in V8a!AwaitHalt(c.m) :
          GoodA(d.m) /\ Moves(n, d.m) /\ (d.ok => d.m.halted)
    BY <1>1, V8Same, AwaitHoldsA DEF GoodA
  <2>. HIDE DEF After3
  <2> QED BY <1>5, <2>1 DEF V8a!Then
<1>7. \A b : GoodA(b.m) /\ Moves(n, b.m) => \A p \in After1(b) : Ends(p)
  <2>1. \A b : GoodA(b.m) /\ Moves(n, b.m) => \A c \in V8a!Run(b.m) : GoodA(c.m) /\ Moves(n, c.m)
    BY V8Run, MovesTrans
  <2>. HIDE DEF After2
  <2> QED BY <1>6, <2>1 DEF V8a!Then
<1>8. \A p \in All : Ends(p)
  <2>1. \A b \in V8a!Access(n, On(n), V8a!Junk) : GoodA(b.m) /\ Moves(n, b.m)
    BY <1>2, <1>3, QuietHoldsA, HoldsAKeeps
  <2>. HIDE DEF After1
  <2> QED BY <1>7, <2>1 DEF V8a!Then
<1>9. V8a!Step(n) = All
  BY DEF V8a!Step, On, Off
<1>. HIDE DEF All
<1> QED BY <1>8, <1>9, MovesKeeps DEF GoodA, FitA

(* The core is reset and halted, and its program counter read.              *)
LEMMA V8ResetAndHalt ==
  ASSUME Careful
  PROVE  \A n : GoodA(n) => \A o \in V8a!ResetAndHalt(n) :
           GoodA(o.m) /\ Moves(n, o.m) /\ (o.ok => o.m.halted)
<1> SUFFICES ASSUME NEW n, GoodA(n)
             PROVE  \A o \in V8a!ResetAndHalt(n) : GoodA(o.m) /\ Moves(n, o.m) /\ (o.ok => o.m.halted)
  OBVIOUS
<1> DEFINE Reached(k) == FitA(k) /\ Moves(n, k) /\ k.epoch # n.epoch
           Ends(p) == /\ FitA(p.m) /\ Moves(n, p.m) /\ (p.ok => p.m.halted)
                      /\ GoodA(p.m) \/ (~p.ok /\ p.m.epoch # n.epoch)
           After4(c, d) == V8a!ReadReg(V8a!ResetCache(d.m), "pc")
           After3(c) == V8a!Then(V8a!Status(c.m), LAMBDA d : After4(c, d))
           After2(b) == V8a!Then(V8a!AwaitHalt(b.m), After3)
           After1(a) == V8a!Then(V8a!Access(a.m, V8a!WasReset(a.m), V8a!Junk), After2)
           S == V8a!Then(V8a!Access(n, n, V8a!Junk), After1)
<1>1. \A c, d : Reached(d.m) => \A p \in After4(c, d) : Ends(p)
  <2>1. \A d : \A f, p : p \in V8a!Unless(f, V8a!ReadReg(V8a!ResetCache(d.m), "pc"))
                       \/ p \in V8a!ReadReg(V8a!ResetCache(d.m), "pc")
                        => p \in V8a!ReadReg(Forgot(d.m), "pc")
    BY V8ResetCache DEF V8a!Unless
  <2>2. \A k : Reached(k) => GoodA(Forgot(k)) /\ Moves(n, Forgot(k)) /\ ~Forgot(k).cache["pc"].in
    <3>1. \A k : FitA(k) => Moves(k, Forgot(k))
      BY ForgotGood, QuietHolds, HoldsMoves DEF FitA
    <3> QED BY <3>1, ForgotGood, MovesTrans DEF NoCache, Regs
  <2>3. \A k : GoodA(k) /\ Moves(n, k) /\ ~k.cache["pc"].in => \A p \in V8a!ReadReg(k, "pc") :
          GoodA(p.m) /\ Moves(n, p.m) /\ (p.ok => p.m.halted) /\ FitA(p.m)
    <3>1. \A k : GoodA(k) /\ ~k.cache["pc"].in => \A p \in V8a!ReadReg(k, "pc") :
            QuietA(k, p.m) /\ (p.ok => k.halted)
      BY V8ReadPc DEF GoodA
    <3> QED BY <3>1, QuietHoldsA, QuietAFit, HoldsAKeeps, MovesTrans
  <2>. HIDE DEF Reached
  <2> QED BY <2>1, <2>2, <2>3
<1>2. \A k, x : Reached(k) /\ HoldsA(k, x) => Reached(x)
  BY HoldsAKeeps, MovesTrans
<1>3. \A c : Reached(c.m) => \A p \in After3(c) : Ends(p)
  <2>1. \A c : Reached(c.m) => \A d \in V8a!Status(c.m) : Reached(d.m)
    BY <1>2, V8Status
  <2>2. \A d : Reached(d.m) /\ ~d.ok => Ends(d)
    OBVIOUS
  <2>. HIDE DEF After4, Reached, Ends
  <2> QED BY <1>1, <2>1, <2>2 DEF V8a!Then
<1>4. \A b : Reached(b.m) => \A p \in After2(b) : Ends(p)
  <2>1. \A b : Reached(b.m) => \A c \in V8a!AwaitHalt(b.m) : Reached(c.m)
    BY <1>2, V8Same, AwaitHoldsA
  <2>2. \A d : Reached(d.m) /\ ~d.ok => Ends(d)
    OBVIOUS
  <2>. HIDE DEF After3, Reached, Ends
  <2> QED BY <1>3, <2>1, <2>2 DEF V8a!Then
<1>5. \A k : GoodA(k) /\ Moves(n, k) /\ k.epoch = n.epoch => Reached(WasReset(k)) /\ Reached(Spent(WasReset(k)))
  <2>1. \A k : GoodA(k) /\ Moves(n, k) /\ k.epoch = n.epoch => Reached(WasReset(k))
    BY ResetMoves, MovesA, MovesTrans DEF GoodA, FitA
  <2> QED BY <1>2, <2>1, QuietARefl, QuietHoldsA
<1>6. \A a : GoodA(a.m) /\ Moves(n, a.m) /\ a.m.epoch = n.epoch => \A p \in After1(a) : Ends(p)
  <2>1. \A a : \A b \in V8a!Access(a.m, V8a!WasReset(a.m), V8a!Junk) :
          (b.ok /\ b.m = WasReset(a.m)) \/ (~b.ok /\ b.m \in {Spent(a.m), Spent(WasReset(a.m))})
    BY V8Same, AccessGives
  <2>2. \A k : GoodA(k) /\ Moves(n, k) => GoodA(Spent(k)) /\ Moves(n, Spent(k)) /\ FitA(Spent(k))
    BY QuietARefl, QuietHoldsA, HoldsAKeeps, MovesTrans DEF GoodA
  <2>3. \A d : (Reached(d.m) \/ (GoodA(d.m) /\ Moves(n, d.m) /\ FitA(d.m))) /\ ~d.ok => Ends(d)
    OBVIOUS
  <2>. HIDE DEF After2, Reached, Ends
  <2> QED BY <1>4, <1>5, <2>1, <2>2, <2>3 DEF V8a!Then
<1>7. \A p \in S : Ends(p)
  <2>1. \A a \in V8a!Access(n, n, V8a!Junk) : GoodA(a.m) /\ Moves(n, a.m) /\ a.m.epoch = n.epoch /\ FitA(a.m)
    BY V8Same, AccessA, QuietHoldsA, HoldsAKeeps DEF GoodA
  <2>2. \A d : (GoodA(d.m) /\ Moves(n, d.m) /\ FitA(d.m)) /\ ~d.ok => Ends(d)
    OBVIOUS
  <2>. HIDE DEF After1, Ends
  <2> QED BY <1>6, <2>1, <2>2 DEF V8a!Then
<1>8. V8a!ResetAndHalt(n) = V8a!Resetting(n, S)
  BY DEF V8a!ResetAndHalt
<1>. HIDE DEF S
<1> QED BY <1>7, <1>8, V8Resetting

(* Breakpoint units are written while the core runs, or not.               *)
LEMMA V8Breakpoints ==
  \A n : GoodA(n) =>
    /\ \A o \in V8a!HwBreakpoints(n) : QuietA(n, o.m)
    /\ \A u, x : \A o \in V8a!SetHwBreakpoint(n, u, x) : UnitsSet(n, o, u, x)
    /\ \A u : \A o \in V8a!ClearHwBreakpoint(n, u) : UnitsSet(n, o, u, Free)
    /\ V8a!Listed(n) = n.bps
<1> SUFFICES ASSUME NEW n, GoodA(n)
             PROVE  /\ \A o \in V8a!HwBreakpoints(n) : QuietA(n, o.m)
                    /\ \A u, x : \A o \in V8a!SetHwBreakpoint(n, u, x) : UnitsSet(n, o, u, x)
                    /\ \A u : \A o \in V8a!ClearHwBreakpoint(n, u) : UnitsSet(n, o, u, Free)
                    /\ V8a!Listed(n) = n.bps
  OBVIOUS
<1>1. FitA(n) /\ {"faults", "bps"} \subseteq DOMAIN n
  BY DEF GoodA, FitA, Fit, CoreFields
<1>2. \A o \in V8a!HwBreakpoints(n) : QuietA(n, o.m)
  BY <1>1, V8Same, AccessA DEF V8a!HwBreakpoints
<1>3. \A u, x, y : \A a \in V8a!SetValue(n, u, y) :
        /\ ~a.ok => UnitsSet(n, a, u, x)
        /\ a.ok => \A o \in V8a!SetControl(a.m, u, x) : UnitsSet(n, o, u, x)
  <2>1. V8a!Junk = Junk
    BY DEF V8a!Junk, Junk
  <2>2. \A u, y : \E k \in {n, UnitAt(n, u, y)} : V8a!SetValue(n, u, y) = Access(n, k, Junk)
    BY <2>1, V8Same DEF V8a!SetValue, UnitAt
  <2>3. \A k, u, x : V8a!SetControl(k, u, x) = Access(k, UnitAt(k, u, x), Junk)
    BY <2>1, V8Same DEF V8a!SetControl, UnitAt
  <2>4. ASSUME NEW u, NEW x, NEW y
        PROVE  \A a \in V8a!SetValue(n, u, y) :
                 /\ ~a.ok => UnitsSet(n, a, u, x)
                 /\ a.ok => \A o \in V8a!SetControl(a.m, u, x) : UnitsSet(n, o, u, x)
    <3>1. PICK k \in {n, UnitAt(n, u, y)} : V8a!SetValue(n, u, y) = Access(n, k, Junk)
      BY <2>2
    <3> QED BY <1>1, <2>3, <3>1, TwoSetUnit
  <2> QED BY <2>4
<1>4. /\ \A u, x : \A o \in V8a!SetHwBreakpoint(n, u, x) : UnitsSet(n, o, u, x)
      /\ \A u : \A o \in V8a!ClearHwBreakpoint(n, u) : UnitsSet(n, o, u, Free)
  BY <1>3 DEF V8a!SetHwBreakpoint, V8a!ClearHwBreakpoint, V8a!Then, V8a!Free, Free
<1> QED BY <1>2, <1>4 DEF V8a!Listed

(* The scratch registers are put aside, and the address goes to s0.        *)
LEMMA V8SaveScratch ==
  \A n : FitA(n) => \A o \in V8a!SaveScratch(n) : QuietA(n, o.m)
BY QuietAFit, QuietATrans, V8PrepareForClobber DEF V8a!SaveScratch, V8a!Then

\* A scratch register is given a value, and no other register.
LEMMA V8Sets ==
  \A n, r, v : FitA(n) /\ r \in {"s0", "s1"} => \A o \in V8a!SetRegValue(n, r, v) :
    /\ QuietA(n, o.m)
    /\ o.ok => /\ n.halted /\ o.m.regs[r] = v
               /\ \A q \in Regs \ {r} : o.m.regs[q] = n.regs[q]
<1> SUFFICES ASSUME NEW n, NEW r, NEW v, FitA(n), r \in {"s0", "s1"},
                    NEW o \in V8a!SetRegValue(n, r, v)
             PROVE  /\ QuietA(n, o.m)
                    /\ o.ok => /\ n.halted /\ o.m.regs[r] = v
                               /\ \A q \in Regs \ {r} : o.m.regs[q] = n.regs[q]
  OBVIOUS
<1>1. r \in Regs /\ DOMAIN n.regs = Regs
  BY DEF Regs, FitA, Fit
<1>2. QuietA(n, o.m) /\ (o.ok => n.halted /\ o.m = Given(n, r, v))
  BY V8WithInput
<1>3. n.halted => Given(n, r, v).regs[r] = v
  BY <1>1, GivenQuietA
<1>4. "regs" \in DOMAIN n
  BY DEF FitA, Fit, CoreFields
<1>5. Given(n, r, v).regs = [n.regs EXCEPT ![r] = v]
  BY <1>4 DEF Given
<1>6. \A q \in Regs \ {r} : Given(n, r, v).regs[q] = n.regs[q]
  BY <1>1, <1>5
<1> QED BY <1>2, <1>3, <1>6

\* The instruction that loads the word at the address in the first scratch register.
LEMMA V8Load ==
  \A n, a : FitA(n) /\ n.regs["s0"] = Address(a) => \A o \in V8a!Load(n) :
    QuietA(n, o.m) /\ (o.ok => o.m.regs["s1"] = Data(Word(n.mem, a)))
<1> SUFFICES ASSUME NEW n, NEW a, FitA(n), n.regs["s0"] = Address(a), NEW o \in V8a!Load(n)
             PROVE  QuietA(n, o.m) /\ (o.ok => o.m.regs["s1"] = Data(Word(n.mem, a)))
  OBVIOUS
<1> DEFINE v == V8a!Address(a + 2)
           w == Data(Word(n.mem, a))
           y == Given(n, "s0", v)
           x == Given(y, "s1", w)
<1>1. n.regs["s0"].n = a
  BY DEF Address
<1>2. V8a!Load(n) = V8a!Execute(n, x, V8a!Junk)
  <2>1. V8a!Data(V8a!Word(n.mem, a)) = w
    BY DEF V8a!Data, Data, V8a!Word, Word
  <2>. HIDE DEF w, v
  <2>2. [n EXCEPT !.regs["s0"] = v, !.regs["s1"] = w] = x
    BY DEF Given
  <2> QED BY <1>1, <2>1, <2>2 DEF V8a!Load, v
<1>. HIDE DEF v, w
<1>3. n.halted => QuietA(n, y)
  BY GivenQuietA
<1>. HIDE DEF y
<1>4. n.halted => QuietA(n, x) /\ x.regs["s1"] = w
  BY <1>3, GivenQuietA, QuietATrans, QuietAFit DEF Regs
<1>. HIDE DEF x
<1>5. QuietA(n, o.m) /\ (o.ok => n.halted /\ o.m = x)
  BY <1>2, <1>4, V8Execute
<1> QED BY <1>4, <1>5 DEF w

\* The one that stores the second there.
LEMMA V8Store ==
  \A n, a, k : FitA(n) /\ n.regs["s0"] = Address(a) /\ n.regs["s1"] = Data(k)
               /\ Patched(n.mem, a, k) \in [Lanes -> {0, 1}] =>
    \A o \in V8a!Store(n) : StoresWord(n, o, a, k)
<1> SUFFICES ASSUME NEW n, NEW a, NEW k, FitA(n), n.regs["s0"] = Address(a), n.regs["s1"] = Data(k),
                    Patched(n.mem, a, k) \in [Lanes -> {0, 1}], NEW o \in V8a!Store(n)
             PROVE  StoresWord(n, o, a, k)
  OBVIOUS
<1> DEFINE v == V8a!Address(a + 2)
           p == Patched(n.mem, a, k)
           x == Stored(n, "s0", v, p)
<1>1. n.regs["s0"].n = a /\ n.regs["s1"].n = k
  BY DEF Address, Data
<1>2. V8a!Store(n) = V8a!Execute(n, x, V8a!Junk)
  BY <1>1 DEF V8a!Store, V8a!Patched, Patched, Stored
<1>3. /\ StoresA(n, n) /\ StoresA(n, Spent(n)) /\ Spent(n).mem = n.mem
  BY QuietARefl, QuietStoresA
<1>. HIDE DEF v, p
<1>4. n.halted => StoresA(n, x) /\ x.mem = p
  BY StoredStoresA DEF p
<1>. HIDE DEF x
<1>5. n.halted => StoresA(n, Spent(x)) /\ Spent(x).mem = p
  <2>1. \A y : StoresA(n, y) => FitA(y)
    BY DEF StoresA
  <2> QED BY <1>4, <2>1, QuietARefl, QuietStoresA, StoresATrans
<1>6. \/ o.m = n /\ ~o.ok
      \/ n.halted /\ o.ok /\ o.m = x
      \/ n.halted /\ ~o.ok /\ o.m \in {Spent(n), Spent(x)}
  BY <1>2, V8Same, OutcomesGive, AccessGives DEF V8a!Execute
<1> QED BY <1>3, <1>4, <1>5, <1>6 DEF StoresWord, p

(* On the halted core a word is read and written by way of s0 and s1.      *)
LEMMA V8ReadsWord ==
  \A n, a : FitA(n) =>
    \A o \in V8a!Then(V8a!SaveScratch(n), LAMBDA x :
             V8a!Then(V8a!SetRegValue(x.m, "s0", V8a!Address(a)), LAMBDA y :
             V8a!Then(V8a!Load(y.m), LAMBDA z : V8a!WithResult32(z.m, "s1"))))
        \cup V8a!Then(V8a!SaveScratch(n), LAMBDA x :
             V8a!Then(V8a!SetRegValue(x.m, "s0", V8a!Address(a)), LAMBDA y :
             V8a!Then(V8a!Load(y.m), LAMBDA z : V8a!WithResult64(z.m, "s1")))) :
      QuietA(n, o.m) /\ (o.ok => o.val = Data(Word(n.mem, a)))
<1> SUFFICES ASSUME NEW n, NEW a, FitA(n)
             PROVE  /\ \A o \in V8a!Then(V8a!SaveScratch(n), LAMBDA x :
                                V8a!Then(V8a!SetRegValue(x.m, "s0", V8a!Address(a)), LAMBDA y :
                                V8a!Then(V8a!Load(y.m), LAMBDA z : V8a!WithResult32(z.m, "s1")))) :
                         QuietA(n, o.m) /\ (o.ok => o.val = Data(Word(n.mem, a)))
                    /\ \A o \in V8a!Then(V8a!SaveScratch(n), LAMBDA x :
                                V8a!Then(V8a!SetRegValue(x.m, "s0", V8a!Address(a)), LAMBDA y :
                                V8a!Then(V8a!Load(y.m), LAMBDA z : V8a!WithResult64(z.m, "s1")))) :
                         QuietA(n, o.m) /\ (o.ok => o.val = Data(Word(n.mem, a)))
  OBVIOUS
<1> DEFINE v == Address(a)
           w == Data(Word(n.mem, a))
<1>1. V8a!Address(a) = v
  BY DEF V8a!Address, Address
<1>2. \A y : QuietA(n, y) /\ y.regs["s0"] = v => \A z \in V8a!Load(y) :
        QuietA(n, z.m) /\ (z.ok => z.m.regs["s1"] = w)
  BY V8Load, QuietAFit, QuietATrans, QuietAKeeps
<1>. HIDE DEF v, w
<1>3. \A k : QuietA(n, k) => \A y \in V8a!SetRegValue(k, "s0", v) :
        QuietA(n, y.m) /\ (y.ok => y.m.regs["s0"] = v)
  BY V8Sets, QuietAFit, QuietATrans
<1>4. \A x \in V8a!SaveScratch(n) : QuietA(n, x.m)
  BY V8SaveScratch
<1>5. \A k : QuietA(n, k) => /\ \A o \in V8a!WithResult32(k, "s1") : QuietA(n, o.m) /\ (o.ok => o.val = k.regs["s1"])
                             /\ \A o \in V8a!WithResult64(k, "s1") : QuietA(n, o.m) /\ (o.ok => o.val = k.regs["s1"])
  BY V8Words, QuietAFit, QuietATrans
<1>6. \A o \in V8a!Then(V8a!SaveScratch(n), LAMBDA x :
               V8a!Then(V8a!SetRegValue(x.m, "s0", v), LAMBDA y :
               V8a!Then(V8a!Load(y.m), LAMBDA z : V8a!WithResult32(z.m, "s1")))) :
        QuietA(n, o.m) /\ (o.ok => o.val = w)
  BY <1>2, <1>3, <1>4, <1>5 DEF V8a!Then
<1>7. \A o \in V8a!Then(V8a!SaveScratch(n), LAMBDA x :
               V8a!Then(V8a!SetRegValue(x.m, "s0", v), LAMBDA y :
               V8a!Then(V8a!Load(y.m), LAMBDA z : V8a!WithResult64(z.m, "s1")))) :
        QuietA(n, o.m) /\ (o.ok => o.val = w)
  BY <1>2, <1>3, <1>4, <1>5 DEF V8a!Then
<1> QED BY <1>6, <1>7 DEF w, v, V8a!Address, Address

\* The scratch registers are saved, set, and used to store.
LEMMA V8WritesWord ==
  \A n, a, k : FitA(n) /\ Patched(n.mem, a, k) \in [Lanes -> {0, 1}] =>
    \A o \in V8a!Then(V8a!SaveScratch(n), LAMBDA x :
             V8a!Then(V8a!SetRegValue(x.m, "s0", V8a!Address(a)), LAMBDA y :
             V8a!Then(V8a!SetRegValue(y.m, "s1", V8a!Data(k)), LAMBDA z : V8a!Store(z.m)))) :
      StoresWord(n, o, a, k)
<1> SUFFICES ASSUME NEW n, NEW a, NEW k, FitA(n), Patched(n.mem, a, k) \in [Lanes -> {0, 1}]
             PROVE  \A o \in V8a!Then(V8a!SaveScratch(n), LAMBDA x :
                             V8a!Then(V8a!SetRegValue(x.m, "s0", V8a!Address(a)), LAMBDA y :
                             V8a!Then(V8a!SetRegValue(y.m, "s1", V8a!Data(k)), LAMBDA z : V8a!Store(z.m)))) :
                      StoresWord(n, o, a, k)
  OBVIOUS
<1> DEFINE v == Address(a)
           w == Data(k)
           p == Patched(n.mem, a, k)
<1>1. V8a!Address(a) = v /\ V8a!Data(k) = w
  BY DEF V8a!Address, Address, V8a!Data, Data
<1>2. \A z : QuietA(n, z) /\ z.regs["s0"] = v /\ z.regs["s1"] = w => \A o \in V8a!Store(z) :
        StoresA(n, o.m) /\ (o.m.mem = p \/ (~o.ok /\ o.m.mem = n.mem))
  <2>1. \A z : QuietA(n, z) => FitA(z) /\ StoresA(n, z) /\ z.mem = n.mem
    BY QuietStoresA, QuietAFit
  <2>2. \A z : QuietA(n, z) /\ z.regs["s0"] = v /\ z.regs["s1"] = w => \A o \in V8a!Store(z) : StoresWord(z, o, a, k)
    BY <2>1, V8Store
  <2> QED BY <2>1, <2>2, StoresATrans DEF StoresWord
<1>. HIDE DEF v, w, p
<1>3. \A y : QuietA(n, y) /\ y.regs["s0"] = v => \A z \in V8a!SetRegValue(y, "s1", w) :
        QuietA(n, z.m) /\ (z.ok => z.m.regs["s0"] = v /\ z.m.regs["s1"] = w)
  <2>1. "s0" \in Regs \ {"s1"}
    BY DEF Regs
  <2> QED BY <2>1, V8Sets, QuietAFit, QuietATrans
<1>4. \A x : QuietA(n, x) => \A y \in V8a!SetRegValue(x, "s0", v) :
        QuietA(n, y.m) /\ (y.ok => y.m.regs["s0"] = v)
  BY V8Sets, QuietAFit, QuietATrans
<1>5. \A x \in V8a!SaveScratch(n) : QuietA(n, x.m)
  BY V8SaveScratch
<1>6. \A x : QuietA(n, x) => StoresA(n, x) /\ x.mem = n.mem
  BY QuietStoresA
<1>7. \A o \in V8a!Then(V8a!SaveScratch(n), LAMBDA x :
               V8a!Then(V8a!SetRegValue(x.m, "s0", v), LAMBDA y :
               V8a!Then(V8a!SetRegValue(y.m, "s1", w), LAMBDA z : V8a!Store(z.m)))) :
        StoresA(n, o.m) /\ (o.m.mem = p \/ (~o.ok /\ o.m.mem = n.mem))
  BY <1>2, <1>3, <1>4, <1>5, <1>6 DEF V8a!Then
<1> QED BY <1>7 DEF StoresWord, p, v, w, V8a!Address, Address, V8a!Data, Data

(* A core that ran is halted for that, and runs again.                      *)
LEMMA V8RunAgain ==
  \A n, a, S : GoodA(n) /\ ~n.halted /\ a \in V8a!Halt(n) /\ a.ok /\ (\A o \in S : StoresA(a.m, o.m)) =>
    \A p \in V8a!RunAgain(S) :
      ServesA(n, p) /\ \E o \in S : p.m.mem = o.m.mem /\ p.val = o.val /\ (p.ok => o.ok)
<1> SUFFICES ASSUME NEW n, NEW a, NEW S, GoodA(n), ~n.halted, a \in V8a!Halt(n), a.ok,
                    \A o \in S : StoresA(a.m, o.m), NEW p \in V8a!RunAgain(S)
             PROVE  ServesA(n, p) /\ \E o \in S : p.m.mem = o.m.mem /\ p.val = o.val /\ (p.ok => o.ok)
  OBVIOUS
<1>1. PICK o \in S : \E r \in V8a!Run(o.m) : p = [m |-> r.m, ok |-> r.ok /\ o.ok, val |-> o.val]
  BY DEF V8a!RunAgain
<1>2. PICK r \in V8a!Run(o.m) : p = [m |-> r.m, ok |-> r.ok /\ o.ok, val |-> o.val]
  BY <1>1
<1>4. p.m = r.m /\ (p.ok <=> r.ok /\ o.ok) /\ p.val = o.val
  BY <1>2
<1>5. GoodA(a.m) /\ HoldsA(n, a.m) /\ a.m.seen = "halted"
  BY V8Halt
<1>6. GoodA(o.m) /\ o.m.seen = "halted" /\ o.m.bps = a.m.bps
  BY <1>1, <1>5, StoresAGood DEF StoresA
<1>7. GoodA(r.m) /\ Moves(o.m, r.m) /\ (r.ok => Unforced(r.m))
  BY <1>2, <1>6, V8Run
<1>8. a.m.bps = n.bps
  BY <1>5, HoldsAKeeps, MovesKeeps DEF GoodA, FitA
<1>9. r.m.bps = o.m.bps /\ r.m.mem = o.m.mem
  BY <1>6, <1>7, MovesKeeps DEF GoodA, FitA
<1> QED BY <1>1, <1>4, <1>6, <1>7, <1>8, <1>9 DEF ServesA

\* A word is read with the core halted for it.
LEMMA V8ReadWordServes ==
  ASSUME Careful
  PROVE  \A n, a : GoodA(n) => \A o \in V8a!ReadWord(n, a) :
           ServesA(n, o) /\ o.m.mem = n.mem /\ (o.ok => o.val = Data(Word(n.mem, a)))
<1> SUFFICES ASSUME NEW n, NEW a, GoodA(n), NEW o \in V8a!ReadWord(n, a)
             PROVE  ServesA(n, o) /\ o.m.mem = n.mem /\ (o.ok => o.val = Data(Word(n.mem, a)))
  OBVIOUS
<1> DEFINE F32(h) == V8a!Then(V8a!SaveScratch(h), LAMBDA x :
                     V8a!Then(V8a!SetRegValue(x.m, "s0", V8a!Address(a)), LAMBDA y :
                     V8a!Then(V8a!Load(y.m), LAMBDA z : V8a!WithResult32(z.m, "s1"))))
           F64(h) == V8a!Then(V8a!SaveScratch(h), LAMBDA x :
                     V8a!Then(V8a!SetRegValue(x.m, "s0", V8a!Address(a)), LAMBDA y :
                     V8a!Then(V8a!Load(y.m), LAMBDA z : V8a!WithResult64(z.m, "s1"))))
           w == Data(Word(n.mem, a))
<1>1. V8a!ReadWord(n, a) = IF n.is64 THEN V8a!ReadCpuMemory64(n, a) ELSE V8a!ReadCpuMemory32(n, a)
  BY DEF V8a!ReadWord
<1>2. V8a!ReadCpuMemory32(n, a) =
        IF n.seen = "halted" THEN F32(n)
        ELSE V8a!Unless(n.halted, V8a!Then(V8a!Halt(n), LAMBDA b : V8a!RunAgain(F32(b.m))))
  BY DEF V8a!ReadCpuMemory32, V8a!WithCoreHalted
<1>3. V8a!ReadCpuMemory64(n, a) =
        IF n.seen = "halted" THEN F64(n)
        ELSE V8a!Unless(n.halted, V8a!Then(V8a!Halt(n), LAMBDA b : V8a!RunAgain(F64(b.m))))
  BY DEF V8a!ReadCpuMemory64, V8a!WithCoreHalted
<1>4. \A h : FitA(h) => /\ \A p \in F32(h) : QuietA(h, p.m) /\ (p.ok => p.val = Data(Word(h.mem, a)))
                        /\ \A p \in F64(h) : QuietA(h, p.m) /\ (p.ok => p.val = Data(Word(h.mem, a)))
  BY V8ReadsWord
<1>. HIDE DEF F32, F64
<1>5. ASSUME NEW b \in V8a!Halt(n), ~n.halted
      PROVE  /\ ~b.ok => ServesA(n, b) /\ b.m.mem = n.mem
             /\ b.ok => \A p \in V8a!RunAgain(F32(b.m)) \cup V8a!RunAgain(F64(b.m)) :
                          ServesA(n, p) /\ p.m.mem = n.mem /\ (p.ok => p.val = w)
  <2>1. GoodA(b.m) /\ HoldsA(n, b.m)
    BY <1>5, V8Halt
  <2>2. b.m.mem = n.mem /\ b.m.bps = n.bps
    BY <2>1, HoldsAKeeps, MovesKeeps DEF GoodA, FitA
  <2>3. \A p \in F32(b.m) \cup F64(b.m) : StoresA(b.m, p.m) /\ p.m.mem = n.mem /\ (p.ok => p.val = w)
    BY <1>4, <2>1, <2>2, QuietStoresA DEF GoodA
  <2>. HIDE DEF w
  <2>4. ~b.ok => ServesA(n, b) /\ b.m.mem = n.mem
    BY <1>5, <2>1, <2>2 DEF ServesA
  <2> QED BY <1>5, <2>3, <2>4, V8RunAgain
<1>6. n.seen = "halted" => \A p \in F32(n) \cup F64(n) :
        ServesA(n, p) /\ p.m.mem = n.mem /\ (p.ok => p.val = w)
  BY <1>4, QuietStoresA, StoresServeA DEF GoodA
<1>. HIDE DEF w
<1> QED BY <1>1, <1>2, <1>3, <1>5, <1>6 DEF V8a!Unless, V8a!Then, w

\* A word is written with the core halted for it.
LEMMA V8WriteWordServes ==
  ASSUME Careful
  PROVE  \A n, a, k : GoodA(n) /\ Patched(n.mem, a, k) \in [Lanes -> {0, 1}] =>
           \A o \in V8a!WriteWord(n, a, k) :
             ServesA(n, o) /\ (o.m.mem = Patched(n.mem, a, k) \/ (~o.ok /\ o.m.mem = n.mem))
<1> SUFFICES ASSUME NEW n, NEW a, NEW k, GoodA(n), Patched(n.mem, a, k) \in [Lanes -> {0, 1}],
                    NEW o \in V8a!WriteWord(n, a, k)
             PROVE  ServesA(n, o) /\ (o.m.mem = Patched(n.mem, a, k) \/ (~o.ok /\ o.m.mem = n.mem))
  OBVIOUS
<1> DEFINE F(h) == V8a!Then(V8a!SaveScratch(h), LAMBDA x :
                   V8a!Then(V8a!SetRegValue(x.m, "s0", V8a!Address(a)), LAMBDA y :
                   V8a!Then(V8a!SetRegValue(y.m, "s1", V8a!Data(k)), LAMBDA z : V8a!Store(z.m))))
           w == Patched(n.mem, a, k)
<1>1. V8a!WriteWord(n, a, k) =
        IF n.seen = "halted" THEN F(n)
        ELSE V8a!Unless(n.halted, V8a!Then(V8a!Halt(n), LAMBDA b : V8a!RunAgain(F(b.m))))
  BY DEF V8a!WriteWord, V8a!WriteCpuMemory, V8a!WithCoreHalted
<1>2. \A h : FitA(h) /\ h.mem = n.mem => \A p \in F(h) : StoresA(h, p.m) /\ (p.m.mem = w \/ (~p.ok /\ p.m.mem = n.mem))
  <2>1. \A h : FitA(h) /\ h.mem = n.mem => \A p \in F(h) : StoresWord(h, p, a, k)
    BY V8WritesWord
  <2> QED BY <2>1 DEF StoresWord
<1>. HIDE DEF F
<1>3. ASSUME NEW b \in V8a!Halt(n), ~n.halted
      PROVE  /\ ~b.ok => ServesA(n, b) /\ b.m.mem = n.mem
             /\ b.ok => \A p \in V8a!RunAgain(F(b.m)) :
                          ServesA(n, p) /\ (p.m.mem = w \/ (~p.ok /\ p.m.mem = n.mem))
  <2>1. GoodA(b.m) /\ HoldsA(n, b.m)
    BY <1>3, V8Halt
  <2>2. b.m.mem = n.mem /\ b.m.bps = n.bps
    BY <2>1, HoldsAKeeps, MovesKeeps DEF GoodA, FitA
  <2>3. \A p \in F(b.m) : StoresA(b.m, p.m) /\ (p.m.mem = w \/ (~p.ok /\ p.m.mem = n.mem))
    BY <1>2, <2>1, <2>2 DEF GoodA
  <2>. HIDE DEF w
  <2>4. ~b.ok => ServesA(n, b) /\ b.m.mem = n.mem
    BY <1>3, <2>1, <2>2 DEF ServesA
  <2>5. b.ok => \A p \in V8a!RunAgain(F(b.m)) :
          ServesA(n, p) /\ \E q \in F(b.m) : p.m.mem = q.m.mem /\ p.val = q.val /\ (p.ok => q.ok)
    BY <1>3, <2>3, V8RunAgain
  <2> QED BY <2>3, <2>4, <2>5
<1>4. n.seen = "halted" => \A p \in F(n) : ServesA(n, p) /\ (p.m.mem = w \/ (~p.ok /\ p.m.mem = n.mem))
  BY <1>2, StoresServeA DEF GoodA
<1>. HIDE DEF w
<1>5. o \in V8a!WriteWord(n, a, k)
  OBVIOUS
<1> QED BY <1>1, <1>3, <1>4, <1>5 DEF V8a!Unless, V8a!Then, w

(* Memory is read, and written where it is to be written.                   *)
LEMMA V8ReadMemory ==
  ASSUME Careful
  PROVE  \A n : GoodA(n) =>
           /\ \A l : \A o \in V8a!ReadLane(n, l) : ServesA(n, o) /\ o.m.mem = n.mem
           /\ \A o \in V8a!ReadWords(n) : ServesA(n, o) /\ o.m.mem = n.mem
<1>1. \A k, v : V8a!Give(k, v).m = k /\ V8a!Give(k, v).ok
  BY V8Same, OutcomesGive
<1>2. \A n : GoodA(n) => \A l : \A o \in V8a!ReadLane(n, l) : ServesA(n, o) /\ o.m.mem = n.mem
  <2> SUFFICES ASSUME NEW n, GoodA(n), NEW l, NEW o \in V8a!ReadLane(n, l)
               PROVE  ServesA(n, o) /\ o.m.mem = n.mem
    OBVIOUS
  <2>1. PICK a \in V8a!ReadWord(n, V8a!WordOf(l)) : o.m = a.m /\ (o.ok <=> a.ok)
    BY <1>1 DEF V8a!ReadLane, V8a!Then
  <2>2. ServesA(n, a) /\ a.m.mem = n.mem
    BY <2>1, V8ReadWordServes
  <2> QED BY <2>1, <2>2 DEF ServesA
<1>3. \A n : GoodA(n) => \A o \in V8a!ReadWords(n) : ServesA(n, o) /\ o.m.mem = n.mem
  <2> SUFFICES ASSUME NEW n, GoodA(n), NEW o \in V8a!ReadWords(n)
               PROVE  ServesA(n, o) /\ o.m.mem = n.mem
    OBVIOUS
  <2>1. PICK a \in V8a!ReadWord(n, 0) :
          IF a.ok THEN \E b \in V8a!ReadWord(a.m, 2) : o.m = b.m /\ (o.ok <=> b.ok) ELSE o = a
    BY <1>1 DEF V8a!ReadWords, V8a!Then
  <2>2. ServesA(n, a) /\ a.m.mem = n.mem /\ GoodA(a.m)
    BY <2>1, V8ReadWordServes DEF ServesA
  <2>3. CASE ~a.ok
    BY <2>1, <2>2, <2>3
  <2>4. CASE a.ok
    <3>1. PICK b \in V8a!ReadWord(a.m, 2) : o.m = b.m /\ (o.ok <=> b.ok)
      BY <2>1, <2>4
    <3>2. ServesA(n, b) /\ b.m.mem = n.mem
      BY <2>2, <2>4, <3>1, V8ReadWordServes, ServesATrans
    <3> QED BY <3>1, <3>2 DEF ServesA
  <2> QED BY <2>3, <2>4
<1> QED BY <1>2, <1>3

\* Memory is written, a byte or two words: those lanes and no others.
LEMMA V8WriteMemory ==
  ASSUME Careful
  PROVE  \A n : GoodA(n) =>
           /\ \A l \in Lanes : \A o \in V8a!WriteLane(n, l) : ServesA(n, o) /\ Writes(n.mem, o, {l})
           /\ \A o \in V8a!WriteWords(n) : ServesA(n, o) /\ Writes(n.mem, o, Lanes)
<1>1. \A l, k : V8a!WordOf(l) = WordOf(l) /\ V8a!WithLane(k, l) = WithLane(k, l) /\ Data(k).n = k
  BY DEF V8a!WordOf, WordOf, V8a!WithLane, WithLane, Data
<1>2. ASSUME NEW n, GoodA(n), NEW l \in Lanes, NEW o \in V8a!WriteLane(n, l)
      PROVE  ServesA(n, o) /\ Writes(n.mem, o, {l})
  <2> DEFINE w == WordOf(l)
             k == WithLane(Word(n.mem, w), l)
             p == Patched(n.mem, w, k)
  <2>1. n.mem \in [Lanes -> {0, 1}]
    BY <1>2 DEF GoodA, FitA, Fit
  <2>2. /\ p \in [Lanes -> {0, 1}] /\ p[l] = 1
        /\ \A q \in Lanes \ {l} : p[q] = n.mem[q]
    BY <2>1, PatchedWord
  <2>3. PICK a \in V8a!ReadWord(n, w) :
          IF a.ok THEN o \in V8a!WriteWord(a.m, w, WithLane(a.val.n, l)) ELSE o = a
    BY <1>1, <1>2 DEF V8a!WriteLane, V8a!Then
  <2>4. ServesA(n, a) /\ a.m.mem = n.mem /\ GoodA(a.m) /\ (a.ok => a.val.n = Word(n.mem, w))
    BY <1>1, <1>2, <2>3, V8ReadWordServes DEF ServesA
  <2>5. a.ok => o \in V8a!WriteWord(a.m, w, k)
    BY <2>3, <2>4
  <2>. HIDE DEF p, k, w
  <2>6. a.ok => ServesA(a.m, o) /\ (o.m.mem = p \/ (~o.ok /\ o.m.mem = n.mem))
    BY <2>2, <2>4, <2>5, V8WriteWordServes DEF p
  <2>7. ServesA(n, o) /\ (o.m.mem = p \/ (~o.ok /\ o.m.mem = n.mem))
    BY <2>3, <2>4, <2>6, ServesATrans
  <2> QED BY <2>1, <2>2, <2>7 DEF Writes
<1>3. ASSUME NEW n, GoodA(n), NEW o \in V8a!WriteWords(n)
      PROVE  ServesA(n, o) /\ Writes(n.mem, o, Lanes)
  <2> DEFINE p == Patched(n.mem, 0, 3)
             q == Patched(p, 2, 3)
  <2>1. n.mem \in [Lanes -> {0, 1}]
    BY <1>3 DEF GoodA, FitA, Fit
  <2>2. p \in [Lanes -> {0, 1}] /\ \A l \in Lanes : p[l] = IF l \in {0, 1} THEN 1 ELSE n.mem[l]
    BY <2>1, PatchedWords
  <2>. HIDE DEF p
  <2>3. q \in [Lanes -> {0, 1}] /\ \A l \in Lanes : q[l] = IF l \in {2, 3} THEN 1 ELSE p[l]
    BY <2>2, PatchedWords
  <2>. HIDE DEF q
  <2>4. PICK a \in V8a!WriteWord(n, 0, 3) :
          IF a.ok THEN o \in V8a!WriteWord(a.m, 2, 3) ELSE o = a
    BY <1>3 DEF V8a!WriteWords, V8a!Then
  <2>5. ServesA(n, a) /\ GoodA(a.m) /\ (a.m.mem = p \/ (~a.ok /\ a.m.mem = n.mem))
    BY <1>3, <2>2, <2>4, V8WriteWordServes DEF ServesA, p
  <2>6. a.ok => ServesA(a.m, o) /\ (o.m.mem = q \/ (~o.ok /\ o.m.mem = p))
    BY <2>3, <2>4, <2>5, V8WriteWordServes DEF q
  <2>7. ServesA(n, o) /\ (o.m.mem = q \/ (~o.ok /\ o.m.mem \in {n.mem, p}))
    BY <2>4, <2>5, <2>6, ServesATrans
  <2>8. \A l \in Lanes : q[l] = 1
    BY <2>2, <2>3 DEF Lanes
  <2> QED BY <2>1, <2>2, <2>3, <2>7, <2>8 DEF Writes
<1> QED BY <1>2, <1>3

-----------------------------------------------------------------------------
(* The driver of RISC-V.                                                  *)

(* The operators of CoreAccess are the same for the driver of RISC-V. *)
LEMMA RVSame ==
  \A n, x, v :
    /\ RV!Access(n, x, v) = Access(n, x, v) /\ RV!Give(n, v) = Give(n, v)
    /\ RV!Ok(n) = Ok(n) /\ RV!Err(n) = Err(n) /\ RV!Fail(n) = Fail(n)
    /\ RV!Stops(n) = Stops(n) /\ RV!Stopped(n) = Stopped(n)
    /\ RV!Poll(n) = Poll(n) /\ RV!AwaitHalt(n) = AwaitHalt(n) /\ RV!Yes = Yes
    /\ RV!Restarted(n) = Restarted(n) /\ RV!WasReset(n) = WasReset(n)
    /\ \A W : RV!StopsAgain(n, W) = StopsAgain(n, W)
<1>1. /\ RV!Junk = Junk /\ RV!Units = Units /\ RV!Free = Free /\ RV!Regs = Regs
      /\ \A b : RV!Flag(b) = Flag(b)
  BY DEF RV!Junk, Junk, RV!Units, Units, RV!Free, Free, RV!Regs, Regs, RV!Flag, Flag
<1>2. /\ RV!Yes = Yes /\ \A e : RV!Own(e) = Own(e)
  BY <1>1 DEF RV!Yes, Yes, RV!Own, Own
<1>3. \A n, v : RV!Give(n, v) = Give(n, v) /\ RV!Err(n) = Err(n) /\ RV!Fail(n) = Fail(n)
  BY <1>1 DEF RV!Give, Give, RV!Err, Err, RV!Fail, Fail
<1>4. \A n, x, v : RV!Access(n, x, v) = Access(n, x, v) /\ RV!Ok(n) = Ok(n)
  BY <1>1, <1>3 DEF RV!Access, Access, RV!Ok, Ok
<1>5. \A n : RV!Stopped(n) = Stopped(n) /\ RV!Reasons(n) = Reasons(n)
  BY <1>1 DEF RV!Stopped, Stopped, RV!Reasons, Reasons
<1>6. \A n : RV!Stops(n) = Stops(n)
  BY <1>5 DEF RV!Stops, Stops
<1>7. \A n : RV!Poll(n) = Poll(n)
  BY <1>1, <1>4, <1>6 DEF RV!Poll, Poll
<1>8. \A n : RV!AwaitHalt(n) = AwaitHalt(n)
  BY <1>2, <1>3, <1>4, <1>5, <1>6 DEF RV!AwaitHalt, AwaitHalt
<1>9. \A n : RV!Restarted(n) = Restarted(n) /\ RV!WasReset(n) = WasReset(n)
  BY <1>2 DEF RV!Restarted, Restarted, RV!WasReset, WasReset
<1>10. \A n, W : RV!StopsAgain(n, W) = StopsAgain(n, W)
  BY DEF RV!StopsAgain, StopsAgain
<1> QED BY <1>2, <1>3, <1>4, <1>5, <1>6, <1>7, <1>8, <1>9, <1>10

(* What the driver of RISC-V relies on.  No program that it leaves in the   *)
(* buffer has a store for its second instruction.                          *)
FieldsR == CoreFields \cup {"buf", "pbc", "sberr", "on", "off", "bpOn"}
FitR(n) ==
  /\ FieldsR \subseteq DOMAIN n
  /\ n.halted \in BOOLEAN /\ "request" \notin n.causes
  /\ n.mem \in [Lanes -> {0, 1}] /\ DOMAIN n.regs = Regs
  /\ n.buf = <<n.buf[1], n.buf[2]>> /\ n.buf[2] \in {RV!Ebreak, RV!Ins("addi", "s0")}

(* The core stays where it is, may stop by itself, or may have run.        *)
SameR(n, x) ==
  /\ FitR(n) /\ FitR(x) /\ x.causes = n.causes /\ x.mem = n.mem
  /\ x.halted = n.halted /\ x.why = n.why
HoldsR(n, x) ==
  /\ FitR(n) /\ FitR(x) /\ x.causes = n.causes /\ x.mem = n.mem
  /\ n.halted => x.halted /\ x.why = n.why
MovesR(n, x) == FitR(n) /\ FitR(x) /\ x.causes = n.causes /\ x.mem = n.mem

\* Twice in the same place is in the same place.
LEMMA SameRTrans == \A a, b, c : SameR(a, b) /\ SameR(b, c) => SameR(a, c)
BY DEF SameR

\* So is twice where it was.
LEMMA HoldsRTrans == \A a, b, c : HoldsR(a, b) /\ HoldsR(b, c) => HoldsR(a, c)
BY DEF HoldsR

\* Two moves are a move.
LEMMA MovesRTrans == \A a, b, c : MovesR(a, b) /\ MovesR(b, c) => MovesR(a, c)
BY DEF MovesR

\* A core in the same place is where it was.
LEMMA SameRHolds == \A n, x : SameR(n, x) => HoldsR(n, x) /\ Watched(n, x) /\ FitR(x) /\ x.halted = n.halted
BY DEF SameR, HoldsR, Watched

\* What leaves the core where it is may be called a move.
LEMMA HoldsRMoves == \A n, x : HoldsR(n, x) => MovesR(n, x)
BY DEF HoldsR, MovesR

(* Fields that say nothing of the core, but for the program buffer.        *)
SlackR == {"faults", "regs", "pbc", "sberr", "armed", "on", "off", "bps", "bpOn"}

\* The fields that say nothing of the core change.
LEMMA SlackSameR ==
  \A n, x : FitR(n) /\ Changed(n, x, SlackR) /\ DOMAIN x.regs = Regs => SameR(n, x) /\ x.buf = n.buf
<1> SUFFICES ASSUME NEW n, NEW x, FitR(n), Changed(n, x, SlackR), DOMAIN x.regs = Regs
             PROVE  SameR(n, x) /\ x.buf = n.buf
  OBVIOUS
<1>1. {"halted", "causes", "mem", "why", "buf"} \subseteq DOMAIN n \ SlackR
  BY DEF FitR, FieldsR, CoreFields, SlackR
<1>2. \A g \in {"halted", "causes", "mem", "why", "buf"} : x[g] = n[g]
  BY <1>1 DEF Changed
<1>3. x.halted = n.halted /\ x.causes = n.causes /\ x.mem = n.mem /\ x.why = n.why /\ x.buf = n.buf
  BY <1>2
<1>4. DOMAIN x = DOMAIN n
  BY DEF Changed
<1> QED BY <1>3, <1>4 DEF SameR, FitR

\* To do nothing, or to fail, leaves the core in the same place.
LEMMA SameRRefl == \A n : FitR(n) => SameR(n, n) /\ SameR(n, Spent(n)) /\ Spent(n).buf = n.buf /\ Spent(n).regs = n.regs
<1> SUFFICES ASSUME NEW n, FitR(n) PROVE SameR(n, Spent(n)) /\ Spent(n).buf = n.buf /\ Spent(n).regs = n.regs
  BY DEF SameR
<1>1. Changed(n, Spent(n), SlackR) /\ Spent(n).regs = n.regs
  BY SpentChanged, ChangedMore DEF SlackR, Spent
<1> QED BY <1>1, SlackSameR DEF FitR

\* One access of the probe leaves it where the operation does.
LEMMA AccessR ==
  \A n, x, v : SameR(n, x) => \A o \in Access(n, x, v) : SameR(n, o.m) /\ (o.ok => o.m = x /\ o.val = v)
<1> SUFFICES ASSUME NEW n, NEW x, NEW v, SameR(n, x), NEW o \in Access(n, x, v)
             PROVE  SameR(n, o.m) /\ (o.ok => o.m = x /\ o.val = v)
  OBVIOUS
<1>1. (o.ok /\ o.m = x /\ o.val = v) \/ (~o.ok /\ o.m \in {Spent(n), Spent(x)})
  BY AccessGives
<1>2. FitR(n) /\ FitR(x)
  BY DEF SameR
<1> QED BY <1>1, <1>2, SameRRefl, SameRTrans

\* To look at the core may find that it stopped.
LEMMA LookR ==
  \A n, x : FitR(n) /\ Changed(n, x, Look) /\ x.halted \in BOOLEAN => MovesR(n, x) /\ x.regs = n.regs
<1> SUFFICES ASSUME NEW n, NEW x, FitR(n), Changed(n, x, Look), x.halted \in BOOLEAN
             PROVE  MovesR(n, x) /\ x.regs = n.regs
  OBVIOUS
<1>1. {"causes", "mem", "buf", "regs"} \subseteq DOMAIN n \ Look
  BY DEF FitR, FieldsR, CoreFields, Look
<1>2. \A g \in {"causes", "mem", "buf", "regs"} : x[g] = n[g]
  BY <1>1 DEF Changed
<1>3. x.causes = n.causes /\ x.mem = n.mem /\ x.buf = n.buf /\ x.regs = n.regs
  BY <1>2
<1>4. DOMAIN x = DOMAIN n
  BY DEF Changed
<1> QED BY <1>3, <1>4 DEF MovesR, FitR

\* The state of the core is read once.
LEMMA PollR ==
  \A n : FitR(n) => \A o \in Poll(n) :
    HoldsR(n, o.m) /\ Watched(n, o.m) /\ (o.ok => (o.val = Yes <=> o.m.halted))
<1> SUFFICES ASSUME NEW n, FitR(n), NEW o \in Poll(n)
             PROVE  HoldsR(n, o.m) /\ Watched(n, o.m) /\ (o.ok => (o.val = Yes <=> o.m.halted))
  OBVIOUS
<1>1. /\ Changed(n, o.m, Look) /\ Watched(n, o.m) /\ o.m.halted \in BOOLEAN
      /\ o.ok => (o.val = Yes <=> o.m.halted)
  BY PollGives DEF FitR, FieldsR, CoreFields
<1>2. MovesR(n, o.m)
  BY <1>1, LookR
<1> QED BY <1>1, <1>2 DEF MovesR, HoldsR, Watched

\* The driver waits for it to halt.
LEMMA AwaitR ==
  \A n : FitR(n) => \A o \in AwaitHalt(n) : HoldsR(n, o.m) /\ (o.ok => o.m.halted)
<1> SUFFICES ASSUME NEW n, FitR(n), NEW o \in AwaitHalt(n)
             PROVE  HoldsR(n, o.m) /\ (o.ok => o.m.halted)
  OBVIOUS
<1>1. /\ Changed(n, o.m, Look) /\ o.m.halted \in BOOLEAN
      /\ n.halted => o.m.halted /\ o.m.why = n.why
      /\ o.ok => o.m.halted
  BY AwaitGives DEF FitR, FieldsR, CoreFields
<1>2. MovesR(n, o.m)
  BY <1>1, LookR
<1> QED BY <1>1, <1>2 DEF MovesR, HoldsR

\* A core that only stops by itself is not held by the debugger.
LEMMA UnforcedR == \A n, x : FitR(n) /\ Watched(n, x) /\ Unforced(n) => Unforced(x)
BY DEF FitR, Watched, Unforced

(* Commands for the halted core. *)
LEMMA RVCommand ==
  \A n, x, v : SameR(n, x) => \A o \in RV!Command(n, x, v) :
    SameR(n, o.m) /\ (o.ok => n.halted /\ o.m = x /\ o.val = v)
<1> SUFFICES ASSUME NEW n, NEW x, NEW v, SameR(n, x), NEW o \in RV!Command(n, x, v)
             PROVE  SameR(n, o.m) /\ (o.ok => n.halted /\ o.m = x /\ o.val = v)
  OBVIOUS
<1>1. CASE n.halted
  BY <1>1, RVSame, AccessR DEF RV!Command
<1>2. CASE ~n.halted
  <2>1. FitR(n)
    BY DEF SameR
  <2>2. RV!Err(n).m = n /\ ~RV!Err(n).ok
    BY RVSame, OutcomesGive
  <2>3. o.m = n /\ ~o.ok
    BY <1>2, <2>2 DEF RV!Command
  <2> QED BY <2>1, <2>3, SameRRefl
<1> QED BY <1>1, <1>2

\* A register is given a value, and no other.
LEMMA GivenR ==
  \A n, r, v : FitR(n) => /\ SameR(n, Given(n, r, v)) /\ Given(n, r, v).buf = n.buf
                          /\ r \in Regs => Given(n, r, v).regs[r] = v
                          /\ \A q \in Regs \ {r} : Given(n, r, v).regs[q] = n.regs[q]
<1> SUFFICES ASSUME NEW n, NEW r, NEW v, FitR(n)
             PROVE  /\ SameR(n, Given(n, r, v)) /\ Given(n, r, v).buf = n.buf
                    /\ r \in Regs => Given(n, r, v).regs[r] = v
                    /\ \A q \in Regs \ {r} : Given(n, r, v).regs[q] = n.regs[q]
  OBVIOUS
<1>1. "regs" \in DOMAIN n /\ DOMAIN n.regs = Regs
  BY DEF FitR, FieldsR, CoreFields
<1>2. Changed(n, Given(n, r, v), SlackR) /\ Given(n, r, v).regs = [n.regs EXCEPT ![r] = v]
  BY <1>1 DEF Changed, SlackR, Given
<1> QED BY <1>1, <1>2, SlackSameR

\* A register, or one outside the model, is given a value.
LEMMA RVSet ==
  \A n, c, v : FitR(n) => SameR(n, RV!Set(n, c, v)) /\ RV!Set(n, c, v).buf = n.buf
<1> SUFFICES ASSUME NEW n, NEW c, NEW v, FitR(n)
             PROVE  SameR(n, RV!Set(n, c, v)) /\ RV!Set(n, c, v).buf = n.buf
  OBVIOUS
<1>1. CASE c \in Regs
  BY <1>1, RVSame, GivenR DEF RV!Set, Given, RV!Regs, Regs
<1>2. CASE c \notin Regs
  <2> DEFINE t == RV!Set(n, c, v)
             y == [n EXCEPT !.armed = (v = RV!Yes)]
  <2>1. t \in {n, y}
    BY <1>2 DEF RV!Set, RV!Regs, Regs
  <2>2. \A b : Changed(n, [n EXCEPT !.armed = b], SlackR) /\ [n EXCEPT !.armed = b].regs = n.regs
    BY DEF Changed, SlackR
  <2>3. \A b : SameR(n, [n EXCEPT !.armed = b]) /\ [n EXCEPT !.armed = b].buf = n.buf
    BY <2>2, SlackSameR DEF FitR
  <2>4. SameR(n, n) /\ SameR(n, y) /\ y.buf = n.buf
    BY <2>3, SameRRefl
  <2>5. SameR(n, t) /\ t.buf = n.buf
    <3>. HIDE DEF t, y
    <3> QED BY <2>1, <2>4
  <2> QED BY <2>5
<1> QED BY <1>1, <1>2

\* An abstract command reads or writes a register of a halted core.
LEMMA RVRegister ==
  \A n, r : FitR(n) =>
    /\ \A o \in RV!RegisterRead(n, r) :
         SameR(n, o.m) /\ (o.ok => n.halted /\ o.m = n /\ (r \in Regs => o.val = n.regs[r]))
    /\ \A v : \A o \in RV!RegisterWrite(n, r, v) :
         SameR(n, o.m) /\ (o.ok => n.halted /\ o.m = RV!Set(n, r, v))
<1>1. \A n, r : r \in Regs => RV!Get(n, r) = n.regs[r]
  BY DEF RV!Get, RV!Regs, Regs
<1> QED BY <1>1, RVCommand, RVSet, SameRRefl DEF RV!RegisterRead, RV!RegisterWrite

(* What a program in the buffer does. *)
Store == {"sw", "sb"}

\* An instruction of the program buffer that stores nothing moves nothing.
LEMMA RVRunOne ==
  \A n, i : FitR(n) /\ i.do \notin Store => SameR(n, RV!RunOne(n, i)) /\ RV!RunOne(n, i).buf = n.buf
<1> SUFFICES ASSUME NEW n, NEW i, FitR(n), i.do \notin Store
             PROVE  SameR(n, RV!RunOne(n, i)) /\ RV!RunOne(n, i).buf = n.buf
  OBVIOUS
<1> DEFINE Next2 == [n EXCEPT !.regs["s0"].n = n.regs["s0"].n + 2]
<1>1. \/ \E r, v : RV!RunOne(n, i) = Given(n, r, v)
      \/ RV!RunOne(n, i) = Next2
      \/ RV!RunOne(n, i) = RV!Set(n, i.reg, n.regs["s0"])
      \/ RV!RunOne(n, i) = n
  BY DEF RV!RunOne, Given, Store
<1>2. Next2 = Given(n, "s0", [n.regs["s0"] EXCEPT !.n = n.regs["s0"].n + 2])
  BY DEF Given
<1>. HIDE DEF Next2
<1> QED BY <1>1, <1>2, GivenR, RVSet, SameRRefl

\* Nor does a buffer that begins with one.
LEMMA RVRunBuffer ==
  \A n : FitR(n) /\ n.buf[1].do \notin Store => SameR(n, RV!RunBuffer(n)) /\ RV!RunBuffer(n).buf = n.buf
<1> SUFFICES ASSUME NEW n, FitR(n), n.buf[1].do \notin Store
             PROVE  SameR(n, RV!RunBuffer(n)) /\ RV!RunBuffer(n).buf = n.buf
  OBVIOUS
<1>1. n.buf[2].do \notin Store
  BY DEF FitR, RV!Ebreak, RV!Ins, Store
<1>2. SameR(n, RV!RunOne(n, n.buf[1])) /\ RV!RunOne(n, n.buf[1]).buf = n.buf /\ FitR(RV!RunOne(n, n.buf[1]))
  BY RVRunOne DEF SameR
<1>3. SameR(RV!RunOne(n, n.buf[1]), RV!RunOne(RV!RunOne(n, n.buf[1]), n.buf[2]))
      /\ RV!RunOne(RV!RunOne(n, n.buf[1]), n.buf[2]).buf = n.buf
  BY <1>1, <1>2, RVRunOne
<1>4. RV!RunBuffer(n) \in {n, RV!RunOne(n, n.buf[1]), RV!RunOne(RV!RunOne(n, n.buf[1]), n.buf[2])}
  BY DEF RV!RunBuffer
<1> QED BY <1>2, <1>3, <1>4, SameRRefl, SameRTrans

(* A program is put into the buffer, as far as it is not there.            *)
LEMMA RVBuffer ==
  \A n, b : FitR(n) /\ b = <<b[1], b[2]>> /\ b[2] \in {RV!Ebreak, RV!Ins("addi", "s0")} =>
    SameR(n, [n EXCEPT !.buf = b]) /\ [n EXCEPT !.buf = b].regs = n.regs /\ [n EXCEPT !.buf = b].buf = b
<1> SUFFICES ASSUME NEW n, NEW b, FitR(n), b = <<b[1], b[2]>>, b[2] \in {RV!Ebreak, RV!Ins("addi", "s0")}
             PROVE  SameR(n, [n EXCEPT !.buf = b]) /\ [n EXCEPT !.buf = b].regs = n.regs /\ [n EXCEPT !.buf = b].buf = b
  OBVIOUS
<1> DEFINE x == [n EXCEPT !.buf = b]
<1>1. /\ DOMAIN x = DOMAIN n /\ x.buf = b /\ x.regs = n.regs /\ x.halted = n.halted /\ x.why = n.why
      /\ x.causes = n.causes /\ x.mem = n.mem
  BY DEF FitR, FieldsR, CoreFields
<1>. HIDE DEF x
<1>2. SameR(n, x) /\ x.regs = n.regs /\ x.buf = b
  BY <1>1 DEF SameR, FitR
<1> QED BY <1>2 DEF x

\* A program of one instruction is in the buffer, behind the driver's cache of it or written.
LEMMA RVSetup1 ==
  ASSUME Careful
  PROVE  \A n, i : FitR(n) => \A o \in RV!SetupProgramBuffer(n, <<i>>) :
           SameR(n, o.m) /\ o.m.regs = n.regs /\ (o.ok => o.m.buf[1] = i)
<1> SUFFICES ASSUME NEW n, NEW i, FitR(n), NEW o \in RV!SetupProgramBuffer(n, <<i>>)
             PROVE  SameR(n, o.m) /\ o.m.regs = n.regs /\ (o.ok => o.m.buf[1] = i)
  OBVIOUS
<1> DEFINE p == <<i>>
           c == [n EXCEPT !.pbc = p \o SubSeq(@, Len(p) + 1, 2)]
           b == <<i, RV!Ebreak>>
<1>0. Len(p) = 1 /\ p[1] = i
  OBVIOUS
<1>1. CASE p = SubSeq(n.pbc, 1, Len(p))
  <2>1. SubSeq(n.buf, 1, 1) = p /\ o.m = n
    BY <1>0, <1>1, RVSame, OutcomesGive DEF RV!SetupProgramBuffer, RV!Unless
  <2>2. n.buf = <<n.buf[1], n.buf[2]>>
    BY DEF FitR
  <2>3. \A x, y : SubSeq(<<x, y>>, 1, 1)[1] = x
    OBVIOUS
  <2>4. n.buf[1] = i
    <3>1. SubSeq(n.buf, 1, 1)[1] = n.buf[1]
      BY <2>2, <2>3
    <3> QED BY <1>0, <2>1, <3>1
  <2> QED BY <2>1, <2>4, SameRRefl
<1>2. CASE p # SubSeq(n.pbc, 1, Len(p))
  <2>1. Changed(n, c, SlackR) /\ c.regs = n.regs
    BY DEF Changed, SlackR
  <2>2. SameR(n, c)
    BY <2>1, SlackSameR DEF FitR
  <2>3. RV!SetupProgramBuffer(n, p) = Access(c, [c EXCEPT !.buf = b], RV!Junk)
    <3>1. RV!SetupProgramBuffer(n, p) = RV!Access(c, [c EXCEPT !.buf = IF Len(p) = 2 THEN p ELSE <<p[1], RV!Ebreak>>], RV!Junk)
      BY <1>2 DEF RV!SetupProgramBuffer
    <3>2. (IF Len(p) = 2 THEN p ELSE <<p[1], RV!Ebreak>>) = b
      BY <1>0
    <3>. HIDE DEF p, c, b
    <3> QED BY <3>1, <3>2, RVSame
  <2>. HIDE DEF c
  <2>4. b = <<b[1], b[2]>> /\ b[2] = RV!Ebreak /\ b[1] = i
    OBVIOUS
  <2>. HIDE DEF b
  <2> DEFINE x == [c EXCEPT !.buf = b]
  <2>5. SameR(c, x) /\ x.regs = c.regs /\ x.buf = b
    BY <2>2, <2>4, RVBuffer DEF SameR
  <2>. HIDE DEF x
  <2>6. (o.ok /\ o.m = x) \/ (~o.ok /\ o.m \in {Spent(c), Spent(x)})
    BY <2>3, AccessGives DEF x
  <2>7. /\ SameR(c, Spent(c)) /\ Spent(c).regs = c.regs
        /\ SameR(x, Spent(x)) /\ Spent(x).regs = x.regs
    BY <2>2, <2>5, SameRRefl DEF SameR
  <2> QED BY <2>1, <2>2, <2>4, <2>5, <2>6, <2>7, SameRTrans
<1> QED BY <1>1, <1>2

\* So is one of two.
LEMMA RVSetup2 ==
  ASSUME Careful
  PROVE  \A n, i, j : FitR(n) /\ j = RV!Ins("addi", "s0") => \A o \in RV!SetupProgramBuffer(n, <<i, j>>) :
           SameR(n, o.m) /\ o.m.regs = n.regs /\ (o.ok => o.m.buf[1] = i /\ o.m.buf[2] = j)
<1> SUFFICES ASSUME NEW n, NEW i, NEW j, FitR(n), j = RV!Ins("addi", "s0"),
                    NEW o \in RV!SetupProgramBuffer(n, <<i, j>>)
             PROVE  SameR(n, o.m) /\ o.m.regs = n.regs /\ (o.ok => o.m.buf[1] = i /\ o.m.buf[2] = j)
  OBVIOUS
<1> DEFINE p == <<i, j>>
           c == [n EXCEPT !.pbc = p \o SubSeq(@, Len(p) + 1, 2)]
<1>0. Len(p) = 2 /\ p[1] = i /\ p[2] = j /\ p = <<p[1], p[2]>>
  OBVIOUS
<1>1. CASE p = SubSeq(n.pbc, 1, Len(p))
  <2>1. SubSeq(n.buf, 1, 2) = p /\ o.m = n
    BY <1>0, <1>1, RVSame, OutcomesGive DEF RV!SetupProgramBuffer, RV!Unless
  <2>2. n.buf = <<n.buf[1], n.buf[2]>>
    BY DEF FitR
  <2>3. \A x, y : SubSeq(<<x, y>>, 1, 2)[1] = x /\ SubSeq(<<x, y>>, 1, 2)[2] = y
    OBVIOUS
  <2>4. n.buf[1] = i /\ n.buf[2] = j
    <3>1. SubSeq(n.buf, 1, 2)[1] = n.buf[1] /\ SubSeq(n.buf, 1, 2)[2] = n.buf[2]
      BY <2>2, <2>3
    <3> QED BY <1>0, <2>1, <3>1
  <2> QED BY <2>1, <2>4, SameRRefl
<1>2. CASE p # SubSeq(n.pbc, 1, Len(p))
  <2>1. Changed(n, c, SlackR) /\ c.regs = n.regs
    BY DEF Changed, SlackR
  <2>2. SameR(n, c)
    BY <2>1, SlackSameR DEF FitR
  <2>3. RV!SetupProgramBuffer(n, p) = Access(c, [c EXCEPT !.buf = p], RV!Junk)
    <3>1. RV!SetupProgramBuffer(n, p) = RV!Access(c, [c EXCEPT !.buf = IF Len(p) = 2 THEN p ELSE <<p[1], RV!Ebreak>>], RV!Junk)
      BY <1>2 DEF RV!SetupProgramBuffer
    <3>2. (IF Len(p) = 2 THEN p ELSE <<p[1], RV!Ebreak>>) = p
      BY <1>0
    <3>. HIDE DEF p, c
    <3> QED BY <3>1, <3>2, RVSame
  <2>. HIDE DEF c
  <2>4. p = <<p[1], p[2]>> /\ p[2] = RV!Ins("addi", "s0") /\ p[1] = i /\ p[2] = j
    BY <1>0
  <2>. HIDE DEF p
  <2> DEFINE x == [c EXCEPT !.buf = p]
  <2>5. SameR(c, x) /\ x.regs = c.regs /\ x.buf = p
    BY <2>2, <2>4, RVBuffer DEF SameR
  <2>. HIDE DEF x
  <2>6. (o.ok /\ o.m = x) \/ (~o.ok /\ o.m \in {Spent(c), Spent(x)})
    BY <2>3, AccessGives DEF x, p
  <2>7. /\ SameR(c, Spent(c)) /\ Spent(c).regs = c.regs
        /\ SameR(x, Spent(x)) /\ Spent(x).regs = x.regs
    BY <2>2, <2>5, SameRRefl DEF SameR
  <2> QED BY <2>1, <2>2, <2>4, <2>5, <2>6, <2>7, SameRTrans
<1> QED BY <1>1, <1>2

(* Commands that run the buffer.                                            *)
LEMMA RVExec ==
  \A n : FitR(n) /\ n.buf[1].do \notin Store =>
    /\ \A o \in RV!PostExec(n) : SameR(n, o.m) /\ (o.ok => n.halted)
    /\ \A r, v : \A o \in RV!WriteAndExec(n, r, v) :
         SameR(n, o.m) /\ (o.ok => n.halted /\ o.m.buf = n.buf)
<1> SUFFICES ASSUME NEW n, FitR(n), n.buf[1].do \notin Store
             PROVE  /\ \A o \in RV!PostExec(n) : SameR(n, o.m) /\ (o.ok => n.halted)
                    /\ \A r, v : \A o \in RV!WriteAndExec(n, r, v) :
                         SameR(n, o.m) /\ (o.ok => n.halted /\ o.m.buf = n.buf)
  OBVIOUS
<1>1. \A o \in RV!PostExec(n) : SameR(n, o.m) /\ (o.ok => n.halted)
  BY RVRunBuffer, RVCommand DEF RV!PostExec
<1>2. ASSUME NEW r, NEW v, NEW o \in RV!WriteAndExec(n, r, v)
      PROVE  SameR(n, o.m) /\ (o.ok => n.halted /\ o.m.buf = n.buf)
  <2> DEFINE w == Given(n, r, v)
             x == RV!RunBuffer(w)
  <2>1. SameR(n, w) /\ w.buf = n.buf /\ FitR(w)
    BY GivenR DEF SameR
  <2>2. o \in RV!Command(n, x, RV!Junk) \cup {RV!Fail(w)}
    BY <1>2 DEF RV!WriteAndExec, Given
  <2>. HIDE DEF w
  <2>3. SameR(w, x) /\ x.buf = n.buf
    BY <2>1, RVRunBuffer
  <2>. HIDE DEF x
  <2>4. SameR(n, x)
    BY <2>1, <2>3, SameRTrans
  <2>5. o \in RV!Command(n, x, RV!Junk) => SameR(n, o.m) /\ (o.ok => n.halted /\ o.m = x)
    BY <2>4, RVCommand
  <2>6. RV!Fail(w).m = Spent(w) /\ ~RV!Fail(w).ok /\ SameR(n, Spent(w))
    BY <2>1, RVSame, OutcomesGive, SameRRefl, SameRTrans
  <2> QED BY <2>2, <2>3, <2>5, <2>6
<1> QED BY <1>1, <1>2

(* The scratch registers are restored.                                      *)
LEMMA RVRestore ==
  \A S, v :
    /\ \A o \in RV!RestoreS0(S, v) :
         \E a \in S : (FitR(a.m) => SameR(a.m, o.m)) /\ (o.ok => a.ok /\ o.val = a.val /\ (FitR(a.m) => a.m.halted))
    /\ \A o \in RV!RestoreS1(S, v) :
         \E a \in S : (FitR(a.m) => SameR(a.m, o.m)) /\ (o.ok => a.ok /\ o.val = a.val /\ (FitR(a.m) => a.m.halted))
<1> SUFFICES ASSUME NEW S, NEW v
             PROVE  /\ \A o \in RV!RestoreS0(S, v) :
                         \E a \in S : (FitR(a.m) => SameR(a.m, o.m)) /\ (o.ok => a.ok /\ o.val = a.val /\ (FitR(a.m) => a.m.halted))
                    /\ \A o \in RV!RestoreS1(S, v) :
                         \E a \in S : (FitR(a.m) => SameR(a.m, o.m)) /\ (o.ok => a.ok /\ o.val = a.val /\ (FitR(a.m) => a.m.halted))
  OBVIOUS
<1>1. \A k, w : RV!Give(k, w).m = k /\ RV!Give(k, w).ok /\ RV!Give(k, w).val = w
  BY RVSame, OutcomesGive
<1>2. \A a, r : FitR(a.m) => SameR(a.m, a.m) /\ \A p \in RV!RegisterWrite(a.m, r, v) : SameR(a.m, p.m) /\ (p.ok => a.m.halted)
  BY RVRegister, SameRRefl
<1>3. \A o \in RV!RestoreS0(S, v) :
        \E a \in S : \/ ~a.ok /\ o = a
                     \/ a.ok /\ \E p \in RV!RegisterWrite(a.m, "s0", v) : (~p.ok /\ o = p) \/ (p.ok /\ o = RV!Give(p.m, a.val))
  <2> DEFINE Inner(a) == RV!Then(RV!RegisterWrite(a.m, "s0", v), LAMBDA p : {RV!Give(p.m, a.val)})
  <2>1. \A a : \A o \in Inner(a) :
          \E p \in RV!RegisterWrite(a.m, "s0", v) : (~p.ok /\ o = p) \/ (p.ok /\ o = RV!Give(p.m, a.val))
    BY DEF RV!Then
  <2>2. RV!RestoreS0(S, v) = RV!Then(S, Inner)
    BY DEF RV!RestoreS0
  <2>. HIDE DEF Inner
  <2> QED BY <2>1, <2>2 DEF RV!Then
<1>4. \A o \in RV!RestoreS1(S, v) :
        \E a \in S : \/ ~a.ok /\ o = a
                     \/ a.ok /\ \E p \in RV!RegisterWrite(a.m, "s1", v) : (~p.ok /\ o = p) \/ (p.ok /\ o = RV!Give(p.m, a.val))
  <2> DEFINE Inner(a) == RV!Then(RV!RegisterWrite(a.m, "s1", v), LAMBDA p : {RV!Give(p.m, a.val)})
  <2>1. \A a : \A o \in Inner(a) :
          \E p \in RV!RegisterWrite(a.m, "s1", v) : (~p.ok /\ o = p) \/ (p.ok /\ o = RV!Give(p.m, a.val))
    BY DEF RV!Then
  <2>2. RV!RestoreS1(S, v) = RV!Then(S, Inner)
    BY DEF RV!RestoreS1
  <2>. HIDE DEF Inner
  <2> QED BY <2>1, <2>2 DEF RV!Then
<1>5. ASSUME NEW o, NEW r,
             \E a \in S : \/ ~a.ok /\ o = a
                          \/ a.ok /\ \E p \in RV!RegisterWrite(a.m, r, v) : (~p.ok /\ o = p) \/ (p.ok /\ o = RV!Give(p.m, a.val))
      PROVE  \E a \in S : (FitR(a.m) => SameR(a.m, o.m)) /\ (o.ok => a.ok /\ o.val = a.val /\ (FitR(a.m) => a.m.halted))
  <2>1. PICK a \in S : \/ ~a.ok /\ o = a
                       \/ a.ok /\ \E p \in RV!RegisterWrite(a.m, r, v) : (~p.ok /\ o = p) \/ (p.ok /\ o = RV!Give(p.m, a.val))
    BY <1>5
  <2>2. CASE ~a.ok /\ o = a
    BY <1>2, <2>1, <2>2
  <2>3. CASE a.ok /\ \E p \in RV!RegisterWrite(a.m, r, v) : (~p.ok /\ o = p) \/ (p.ok /\ o = RV!Give(p.m, a.val))
    <3>1. PICK p \in RV!RegisterWrite(a.m, r, v) : (~p.ok /\ o = p) \/ (p.ok /\ o = RV!Give(p.m, a.val))
      BY <2>3
    <3>2. o.m = p.m /\ (o.ok => p.ok /\ o.val = a.val)
      BY <1>1, <3>1
    <3> QED BY <1>2, <2>1, <2>3, <3>1, <3>2
  <2> QED BY <2>1, <2>2, <2>3
<1> QED BY <1>3, <1>4, <1>5

(* Control and status registers, by command or by program.                 *)
LEMMA RVReadCsrProgbuf ==
  ASSUME Careful
  PROVE  \A n, c : FitR(n) => \A o \in RV!ReadCsrProgbuf(n, c) : SameR(n, o.m) /\ (o.ok => n.halted)
<1> SUFFICES ASSUME NEW n, NEW c, FitR(n), NEW o \in RV!ReadCsrProgbuf(n, c)
             PROVE  SameR(n, o.m) /\ (o.ok => n.halted)
  OBVIOUS
<1> DEFINE i == RV!Ins("csrr", c)
           F(x) == RV!Then(RV!SetupProgramBuffer(x, <<i>>), LAMBDA y :
                   RV!Then(RV!PostExec(y.m), LAMBDA z : RV!RegisterRead(z.m, "s0")))
           Last(a) == RV!RestoreS0(F(a.m), a.val)
<1>1. i.do \notin Store
  BY DEF RV!Ins, Store
<1>2. RV!ReadCsrProgbuf(n, c) = RV!Then(RV!SaveS0(n), Last)
  BY DEF RV!ReadCsrProgbuf, RV!WithS0
<1>. HIDE DEF i
<1>3. \A x : FitR(x) => \A p \in F(x) : SameR(x, p.m)
  <2>1. \A x : FitR(x) => \A y \in RV!SetupProgramBuffer(x, <<i>>) : SameR(x, y.m) /\ FitR(y.m) /\ (y.ok => y.m.buf[1] = i)
    BY RVSetup1 DEF SameR
  <2>2. \A x, k : SameR(x, k) /\ k.buf[1] = i => \A z \in RV!PostExec(k) : SameR(x, z.m) /\ FitR(z.m)
    BY <1>1, RVExec, SameRTrans DEF SameR
  <2>3. \A x, k : SameR(x, k) => \A z \in RV!RegisterRead(k, "s0") : SameR(x, z.m)
    BY RVRegister, SameRTrans DEF SameR
  <2> QED BY <2>1, <2>2, <2>3 DEF RV!Then
<1>. HIDE DEF F
<1>4. \A a \in RV!SaveS0(n) : SameR(n, a.m) /\ FitR(a.m) /\ (a.ok => n.halted)
  BY RVRegister DEF RV!SaveS0, SameR
<1>5. \A a : FitR(a.m) => \A p \in Last(a) : SameR(a.m, p.m)
  <2> SUFFICES ASSUME NEW a, FitR(a.m), NEW p \in Last(a) PROVE SameR(a.m, p.m)
    OBVIOUS
  <2>1. PICK b \in F(a.m) : FitR(b.m) => SameR(b.m, p.m)
    BY RVRestore
  <2>2. SameR(a.m, b.m) /\ FitR(b.m)
    BY <1>3, <2>1 DEF SameR
  <2> QED BY <2>1, <2>2, SameRTrans
<1>. HIDE DEF Last
<1> QED BY <1>2, <1>4, <1>5, SameRTrans DEF RV!Then

\* A CSR is written by a program.
LEMMA RVWriteCsrProgbuf ==
  ASSUME Careful
  PROVE  \A n, c, v : FitR(n) => \A o \in RV!WriteCsrProgbuf(n, c, v) : SameR(n, o.m) /\ (o.ok => n.halted)
<1> SUFFICES ASSUME NEW n, NEW c, NEW v, FitR(n), NEW o \in RV!WriteCsrProgbuf(n, c, v)
             PROVE  SameR(n, o.m) /\ (o.ok => n.halted)
  OBVIOUS
<1> DEFINE i == RV!Ins("csrw", c)
           F(x) == RV!Then(RV!RegisterWrite(x, "s0", v), LAMBDA y :
                   RV!Then(RV!SetupProgramBuffer(y.m, <<i>>), LAMBDA z : RV!PostExec(z.m)))
           Last(a) == RV!RestoreS0(F(a.m), a.val)
<1>1. i.do \notin Store
  BY DEF RV!Ins, Store
<1>2. RV!WriteCsrProgbuf(n, c, v) = RV!Then(RV!SaveS0(n), Last)
  BY DEF RV!WriteCsrProgbuf, RV!WithS0
<1>. HIDE DEF i
<1>3. \A x : FitR(x) => \A p \in F(x) : SameR(x, p.m)
  <2>1. \A x : FitR(x) => \A y \in RV!RegisterWrite(x, "s0", v) : SameR(x, y.m) /\ FitR(y.m)
    BY RVRegister, SameRHolds
  <2>2. \A x, k : SameR(x, k) => \A y \in RV!SetupProgramBuffer(k, <<i>>) : SameR(x, y.m) /\ (y.ok => y.m.buf[1] = i)
    BY RVSetup1, SameRTrans DEF SameR
  <2>3. \A x, k : SameR(x, k) /\ k.buf[1] = i => \A z \in RV!PostExec(k) : SameR(x, z.m)
    BY <1>1, RVExec, SameRTrans DEF SameR
  <2> QED BY <2>1, <2>2, <2>3 DEF RV!Then
<1>. HIDE DEF F
<1>4. \A a \in RV!SaveS0(n) : SameR(n, a.m) /\ FitR(a.m) /\ (a.ok => n.halted)
  BY RVRegister DEF RV!SaveS0, SameR
<1>5. \A a : FitR(a.m) => \A p \in Last(a) : SameR(a.m, p.m)
  <2> SUFFICES ASSUME NEW a, FitR(a.m), NEW p \in Last(a) PROVE SameR(a.m, p.m)
    OBVIOUS
  <2>1. PICK b \in F(a.m) : FitR(b.m) => SameR(b.m, p.m)
    BY RVRestore
  <2>2. SameR(a.m, b.m) /\ FitR(b.m)
    BY <1>3, <2>1 DEF SameR
  <2> QED BY <2>1, <2>2, SameRTrans
<1>. HIDE DEF Last
<1> QED BY <1>2, <1>4, <1>5, SameRTrans DEF RV!Then

\* A CSR is read or written by a command, or by a program.
LEMMA RVCsr ==
  ASSUME Careful
  PROVE  \A n, c : FitR(n) =>
           /\ \A o \in RV!ReadCsr(n, c) : SameR(n, o.m) /\ FitR(o.m) /\ (o.ok => n.halted)
           /\ \A v : \A o \in RV!WriteCsr(n, c, v) : SameR(n, o.m) /\ FitR(o.m) /\ (o.ok => n.halted)
BY RVRegister, RVReadCsrProgbuf, RVWriteCsrProgbuf, SameRHolds DEF RV!ReadCsr, RV!WriteCsr

(* A trigger is written while the core is halted.                          *)
Triggered(n, k) == [n EXCEPT !.on = k.on, !.off = k.off, !.bps = k.bps]

\* The trigger unit is written, or breakpoints are noted as enabled.
LEMMA RVTriggers ==
  \A n, k : FitR(n) => SameR(n, Triggered(n, k)) /\ SameR(n, Enables(n, k))
<1> SUFFICES ASSUME NEW n, NEW k, FitR(n) PROVE SameR(n, Triggered(n, k)) /\ SameR(n, Enables(n, k))
  OBVIOUS
<1>1. Changed(n, Enables(n, k), SlackR) /\ Enables(n, k).regs = n.regs
  BY DEF Changed, SlackR, Enables
<1>2. /\ DOMAIN Triggered(n, k) = DOMAIN n
      /\ \A g \in DOMAIN n : g \notin {"on", "off", "bps"} => Triggered(n, k)[g] = n[g]
  <2> DEFINE p == k.on
             q == k.off
             r == k.bps
  <2>1. Triggered(n, k) = [n EXCEPT !.on = p, !.off = q, !.bps = r]
    BY DEF Triggered
  <2>. HIDE DEF p, q, r
  <2> QED BY <2>1
<1>3. Changed(n, Triggered(n, k), SlackR) /\ Triggered(n, k).regs = n.regs
  BY <1>2 DEF Changed, SlackR, FitR, FieldsR, CoreFields
<1> QED BY <1>1, <1>3, SlackSameR DEF FitR

\* A trigger is written.
LEMMA RVWriteTrigger ==
  ASSUME Careful
  PROVE  \A n, k : FitR(n) => \A o \in RV!WriteTrigger(n, k) : SameR(n, o.m)
<1> SUFFICES ASSUME NEW n, NEW k, FitR(n), NEW o \in RV!WriteTrigger(n, k) PROVE SameR(n, o.m)
  OBVIOUS
<1> DEFINE Last(a) == {RV!Ok([a.m EXCEPT !.on = k.on, !.off = k.off, !.bps = k.bps])}
<1>1. \A a : FitR(a.m) => \A p \in Last(a) : SameR(a.m, p.m)
  <2>1. \A a : RV!Ok([a.m EXCEPT !.on = k.on, !.off = k.off, !.bps = k.bps]).m = Triggered(a.m, k)
    BY RVSame, OutcomesGive DEF Triggered
  <2> QED BY <2>1, RVTriggers
<1>2. RV!WriteTrigger(n, k) = RV!Then(RV!WriteCsr(n, "debug", RV!Junk), Last)
  BY DEF RV!WriteTrigger
<1>. HIDE DEF Last
<1>3. \A a \in RV!WriteCsr(n, "debug", RV!Junk) : SameR(n, a.m) /\ FitR(a.m)
  BY RVCsr
<1> QED BY <1>1, <1>2, <1>3, SameRTrans DEF RV!Then

\* A trigger is selected.
LEMMA RVSelect ==
  ASSUME Careful
  PROVE  \A n : FitR(n) => \A o \in RV!SelectTrigger(n) : SameR(n, o.m) /\ FitR(o.m)
BY RVCsr DEF RV!SelectTrigger

(* The triggers are read in turn. *)
LEMMA RVReadTriggersWalk ==
  \A n : \E w :
    /\ RV!ReadTriggers(n) = w[NumUnits] /\ w[0] = {RV!Ok(n)}
    /\ \A u \in 1 .. NumUnits : \A o \in w[u] :
         \E a \in w[u - 1] : (~a.ok /\ o = a) \/ (a.ok /\ o \in RV!ReadTrigger(a.m))
<1> SUFFICES ASSUME NEW n
             PROVE  \E w : /\ RV!ReadTriggers(n) = w[NumUnits] /\ w[0] = {RV!Ok(n)}
                           /\ \A u \in 1 .. NumUnits : \A o \in w[u] :
                                \E a \in w[u - 1] : (~a.ok /\ o = a) \/ (a.ok /\ o \in RV!ReadTrigger(a.m))
  OBVIOUS
<1> DEFINE On(S, u) == RV!Then(S, LAMBDA o : RV!ReadTrigger(o.m))
           first == {RV!Ok(n)}
           Is(w, k) == w = [i \in 0 .. k |-> IF i = 0 THEN first ELSE On(w[i - 1], i)]
           Ends == {k \in Nat : \E w : Is(w, k)}
           last == RV!ReadTriggers(n)
<1>0. NumUnits \in Nat
  BY NumUnitsAssumption
<1>1. last = (CHOOSE w : Is(w, NumUnits))[NumUnits]
  BY DEF RV!ReadTriggers, RV!EachUnit
<1>2. \A S, u : \A o \in On(S, u) :
        \E a \in S : (~a.ok /\ o = a) \/ (a.ok /\ o \in RV!ReadTrigger(a.m))
  BY DEF RV!Then
<1>. HIDE DEF On, first, last
<1>3. 0 \in Ends
  <2>1. Is([i \in 0 .. 0 |-> first], 0)
    OBVIOUS
  <2> QED BY <2>1
<1>4. ASSUME NEW k \in Nat, k \in Ends PROVE k + 1 \in Ends
  <2>1. PICK w : Is(w, k)
    BY <1>4
  <2> DEFINE v == [i \in 0 .. k + 1 |-> IF i = k + 1 THEN On(w[k], k + 1) ELSE w[i]]
  <2>2. \A i \in 0 .. k : w[i] = IF i = 0 THEN first ELSE On(w[i - 1], i)
    BY <2>1
  <2>3. ASSUME NEW i \in 0 .. k + 1
        PROVE  v[i] = IF i = 0 THEN first ELSE On(v[i - 1], i)
    <3>1. CASE i = k + 1
      <4>1. i # 0 /\ i - 1 = k /\ v[i] = On(w[k], k + 1) /\ v[k] = w[k]
        BY <3>1
      <4> QED BY <3>1, <4>1
    <3>2. CASE i # k + 1
      <4>1. i \in 0 .. k /\ v[i] = w[i] /\ (i # 0 => v[i - 1] = w[i - 1])
        BY <3>2
      <4> HIDE DEF v
      <4> QED BY <2>2, <4>1
    <3> QED BY <3>1, <3>2
  <2>4. Is(v, k + 1)
    BY <2>3
  <2>5. \E u : Is(u, k + 1)
    <3> HIDE DEF v, Is
    <3> QED BY <2>4
  <2> QED BY <2>5, SMTT(20)
<1>5. NumUnits \in Ends
  <2>1. \A u \in 1 .. NumUnits : u - 1 \in Ends => u \in Ends
    <3> SUFFICES ASSUME NEW u \in 1 .. NumUnits, u - 1 \in Ends PROVE u \in Ends
      OBVIOUS
    <3>1. u - 1 \in Nat /\ u - 1 + 1 = u
      BY <1>0
    <3>. HIDE DEF Ends
    <3> QED BY <1>4, <3>1
  <2>2. NumUnits \in 0 .. NumUnits
    BY <1>0
  <2>. HIDE DEF Ends
  <2> QED BY <1>3, <2>1, <2>2, UnitByUnit
<1> DEFINE w == CHOOSE w : Is(w, NumUnits)
<1>6. Is(w, NumUnits)
  <2>1. \E x : Is(x, NumUnits)
    BY <1>5
  <2>. HIDE DEF Is
  <2> QED BY <2>1, Zenon
<1>7. last = w[NumUnits]
  BY <1>1
<1>. HIDE DEF w
<1>8. \A i \in 0 .. NumUnits : w[i] = IF i = 0 THEN first ELSE On(w[i - 1], i)
  BY <1>6
<1>9. w[0] = first /\ \A u \in 1 .. NumUnits : w[u] = On(w[u - 1], u)
  BY <1>0, <1>8
<1>10. \A u \in 1 .. NumUnits : \A o \in w[u] :
         \E a \in w[u - 1] : (~a.ok /\ o = a) \/ (a.ok /\ o \in RV!ReadTrigger(a.m))
  BY <1>2, <1>9
<1> QED BY <1>7, <1>9, <1>10 DEF last, first

\* Every trigger is read.
LEMMA RVReadTriggers ==
  ASSUME Careful
  PROVE  \A n : FitR(n) => \A o \in RV!ReadTriggers(n) : SameR(n, o.m) /\ FitR(o.m)
<1>0. NumUnits \in 0 .. NumUnits
  BY NumUnitsAssumption
<1> SUFFICES ASSUME NEW n, FitR(n) PROVE \A o \in RV!ReadTriggers(n) : SameR(n, o.m) /\ FitR(o.m)
  OBVIOUS
<1>1. PICK w : /\ RV!ReadTriggers(n) = w[NumUnits] /\ w[0] = {RV!Ok(n)}
               /\ \A u \in 1 .. NumUnits : \A o \in w[u] :
                    \E a \in w[u - 1] : (~a.ok /\ o = a) \/ (a.ok /\ o \in RV!ReadTrigger(a.m))
  BY RVReadTriggersWalk
<1>2. \A x : FitR(x) => \A o \in RV!ReadTrigger(x) : SameR(x, o.m)
  BY RVSelect, RVCsr, SameRTrans DEF RV!ReadTrigger, RV!Then
<1> DEFINE S == {u \in 0 .. NumUnits : \A o \in w[u] : SameR(n, o.m)}
<1>3. 0 \in S
  BY <1>0, <1>1, RVSame, OutcomesGive, SameRRefl, NumUnitsAssumption
<1>4. \A u \in 1 .. NumUnits : u - 1 \in S => u \in S
  <2> SUFFICES ASSUME NEW u \in 1 .. NumUnits, u - 1 \in S PROVE u \in S
    OBVIOUS
  <2>1. u \in 0 .. NumUnits
    BY NumUnitsAssumption
  <2>2. \A a \in w[u - 1] : SameR(n, a.m) /\ FitR(a.m)
    BY SameRHolds
  <2>3. \A o \in w[u] : SameR(n, o.m)
    BY <1>1, <1>2, <2>2, SameRTrans
  <2> QED BY <2>1, <2>3
<1>5. NumUnits \in S
  <2>. HIDE DEF S
  <2> QED BY <1>0, <1>3, <1>4, UnitByUnit
<1> QED BY <1>1, <1>5, SameRHolds

(* Each of them is enabled, or disabled. *)
LEMMA RVEnableWalk ==
  \A n, b : \E w :
    /\ RV!EnableEach(n, b) = w[NumUnits] /\ w[0] = {RV!Ok(n)}
    /\ \A u \in 1 .. NumUnits : \A o \in w[u] :
         \E a \in w[u - 1] : (~a.ok /\ o = a) \/ (a.ok /\ o \in RV!EnableOne(a.m, u, b))
<1> SUFFICES ASSUME NEW n, NEW b
             PROVE  \E w : /\ RV!EnableEach(n, b) = w[NumUnits] /\ w[0] = {RV!Ok(n)}
                           /\ \A u \in 1 .. NumUnits : \A o \in w[u] :
                                \E a \in w[u - 1] : (~a.ok /\ o = a) \/ (a.ok /\ o \in RV!EnableOne(a.m, u, b))
  OBVIOUS
<1> DEFINE On(S, u) == RV!Then(S, LAMBDA o : RV!EnableOne(o.m, u, b))
           first == {RV!Ok(n)}
           Is(w, k) == w = [i \in 0 .. k |-> IF i = 0 THEN first ELSE On(w[i - 1], i)]
           Ends == {k \in Nat : \E w : Is(w, k)}
           last == RV!EnableEach(n, b)
<1>0. NumUnits \in Nat
  BY NumUnitsAssumption
<1>1. last = (CHOOSE w : Is(w, NumUnits))[NumUnits]
  BY DEF RV!EnableEach, RV!EachUnit
<1>2. \A S, u : \A o \in On(S, u) :
        \E a \in S : (~a.ok /\ o = a) \/ (a.ok /\ o \in RV!EnableOne(a.m, u, b))
  BY DEF RV!Then
<1>. HIDE DEF On, first, last
<1>3. 0 \in Ends
  <2>1. Is([i \in 0 .. 0 |-> first], 0)
    OBVIOUS
  <2> QED BY <2>1
<1>4. ASSUME NEW k \in Nat, k \in Ends PROVE k + 1 \in Ends
  <2>1. PICK w : Is(w, k)
    BY <1>4
  <2> DEFINE v == [i \in 0 .. k + 1 |-> IF i = k + 1 THEN On(w[k], k + 1) ELSE w[i]]
  <2>2. \A i \in 0 .. k : w[i] = IF i = 0 THEN first ELSE On(w[i - 1], i)
    BY <2>1
  <2>3. ASSUME NEW i \in 0 .. k + 1
        PROVE  v[i] = IF i = 0 THEN first ELSE On(v[i - 1], i)
    <3>1. CASE i = k + 1
      <4>1. i # 0 /\ i - 1 = k /\ v[i] = On(w[k], k + 1) /\ v[k] = w[k]
        BY <3>1
      <4> QED BY <3>1, <4>1
    <3>2. CASE i # k + 1
      <4>1. i \in 0 .. k /\ v[i] = w[i] /\ (i # 0 => v[i - 1] = w[i - 1])
        BY <3>2
      <4> HIDE DEF v
      <4> QED BY <2>2, <4>1
    <3> QED BY <3>1, <3>2
  <2>4. Is(v, k + 1)
    BY <2>3
  <2>5. \E u : Is(u, k + 1)
    <3> HIDE DEF v, Is
    <3> QED BY <2>4
  <2> QED BY <2>5, SMTT(20)
<1>5. NumUnits \in Ends
  <2>1. \A u \in 1 .. NumUnits : u - 1 \in Ends => u \in Ends
    <3> SUFFICES ASSUME NEW u \in 1 .. NumUnits, u - 1 \in Ends PROVE u \in Ends
      OBVIOUS
    <3>1. u - 1 \in Nat /\ u - 1 + 1 = u
      BY <1>0
    <3>. HIDE DEF Ends
    <3> QED BY <1>4, <3>1
  <2>2. NumUnits \in 0 .. NumUnits
    BY <1>0
  <2>. HIDE DEF Ends
  <2> QED BY <1>3, <2>1, <2>2, UnitByUnit
<1> DEFINE w == CHOOSE w : Is(w, NumUnits)
<1>6. Is(w, NumUnits)
  <2>1. \E x : Is(x, NumUnits)
    BY <1>5
  <2>. HIDE DEF Is
  <2> QED BY <2>1, Zenon
<1>7. last = w[NumUnits]
  BY <1>1
<1>. HIDE DEF w
<1>8. \A i \in 0 .. NumUnits : w[i] = IF i = 0 THEN first ELSE On(w[i - 1], i)
  BY <1>6
<1>9. w[0] = first /\ \A u \in 1 .. NumUnits : w[u] = On(w[u - 1], u)
  BY <1>0, <1>8
<1>10. \A u \in 1 .. NumUnits : \A o \in w[u] :
         \E a \in w[u - 1] : (~a.ok /\ o = a) \/ (a.ok /\ o \in RV!EnableOne(a.m, u, b))
  BY <1>2, <1>9
<1> QED BY <1>7, <1>9, <1>10 DEF last, first

\* Every trigger is enabled, or disabled.
LEMMA RVEnableEach ==
  ASSUME Careful
  PROVE  \A n, b : FitR(n) => \A o \in RV!EnableEach(n, b) :
           SameR(n, o.m) /\ FitR(o.m)
<1>0. NumUnits \in 0 .. NumUnits
  BY NumUnitsAssumption
<1> SUFFICES ASSUME NEW n, NEW b, FitR(n)
             PROVE  \A o \in RV!EnableEach(n, b) : SameR(n, o.m) /\ FitR(o.m)
  OBVIOUS
<1> DEFINE all == RV!EnableEach(n, b)
<1>1. PICK w : /\ all = w[NumUnits] /\ w[0] = {RV!Ok(n)}
               /\ \A u \in 1 .. NumUnits : \A o \in w[u] :
                    \E a \in w[u - 1] : (~a.ok /\ o = a) \/ (a.ok /\ o \in RV!EnableOne(a.m, u, b))
  BY RVEnableWalk
<1>. HIDE DEF all
<1>2. \A x, u : FitR(x) => \A o \in RV!EnableOne(x, u, b) : SameR(x, o.m)
  <2>1. \A x : RV!Ok(x).m = x
    BY RVSame, OutcomesGive
  <2> QED BY <2>1, RVSelect, RVCsr, RVWriteTrigger, SameRTrans, SameRRefl DEF RV!EnableOne, RV!Then
<1> DEFINE S == {u \in 0 .. NumUnits : \A o \in w[u] : SameR(n, o.m)}
<1>3. 0 \in S
  BY <1>0, <1>1, RVSame, OutcomesGive, SameRRefl, NumUnitsAssumption
<1>4. \A u \in 1 .. NumUnits : u - 1 \in S => u \in S
  <2> SUFFICES ASSUME NEW u \in 1 .. NumUnits, u - 1 \in S PROVE u \in S
    OBVIOUS
  <2>1. u \in 0 .. NumUnits
    BY NumUnitsAssumption
  <2>2. \A a \in w[u - 1] : SameR(n, a.m) /\ FitR(a.m)
    BY SameRHolds
  <2>3. \A o \in w[u] : SameR(n, o.m)
    BY <1>1, <1>2, <2>2, SameRTrans
  <2> QED BY <2>1, <2>3
<1>5. NumUnits \in S
  <2>. HIDE DEF S
  <2> QED BY <1>0, <1>3, <1>4, UnitByUnit
<1>6. \A o \in all : SameR(n, o.m) /\ FitR(o.m)
  BY <1>1, <1>5, SameRHolds
<1> QED BY <1>6 DEF all

\* So are breakpoints.
LEMMA RVEnable ==
  ASSUME Careful
  PROVE  \A n : FitR(n) =>
           /\ \A o \in RV!EnableBreakpoints(n, TRUE) : SameR(n, o.m) /\ FitR(o.m)
           /\ \A o \in RV!EnableBreakpoints(n, FALSE) : SameR(n, o.m) /\ FitR(o.m)
<1>1. ASSUME NEW n, FitR(n), NEW b, NEW o \in RV!EnableBreakpoints(n, b)
      PROVE  SameR(n, o.m) /\ FitR(o.m)
  <2> DEFINE Last(y) == {RV!Ok([y.m EXCEPT !.bpOn = b])}
             Mid(x) == RV!Then(RV!EnableEach(x.m, b), Last)
  <2>1. \A y : FitR(y.m) => \A p \in Last(y) : SameR(y.m, p.m)
    <3>1. \A y : RV!Ok([y.m EXCEPT !.bpOn = b]).m = Enables(y.m, b)
      BY RVSame, OutcomesGive DEF Enables
    <3> QED BY <3>1, RVTriggers
  <2>2. RV!EnableBreakpoints(n, b) = RV!Then(RV!AvailableUnits(n), Mid)
    BY DEF RV!EnableBreakpoints
  <2>. HIDE DEF Last
  <2>3. \A x : FitR(x.m) => \A p \in Mid(x) : SameR(x.m, p.m)
    <3>1. \A x : FitR(x.m) => \A p \in RV!EnableEach(x.m, b) : SameR(x.m, p.m) /\ FitR(p.m)
      BY RVEnableEach
    <3> QED BY <2>1, <3>1, SameRTrans DEF RV!Then
  <2>. HIDE DEF Mid
  <2>4. \A p \in RV!AvailableUnits(n) : SameR(n, p.m) /\ FitR(p.m)
    BY <1>1, RVReadTriggers DEF RV!AvailableUnits
  <2>5. SameR(n, o.m)
    BY <1>1, <2>2, <2>3, <2>4, SameRTrans DEF RV!Then
  <2> QED BY <2>5, SameRHolds
<1> QED BY <1>1

(* Memory is read by a program in the buffer, or over the system bus.       *)
LEMMA RVReadProgbuf ==
  ASSUME Careful
  PROVE  \A n, do, a : FitR(n) /\ do \notin Store => \A o \in RV!ReadProgbuf(n, do, a) : SameR(n, o.m) /\ (o.ok => n.halted)
<1> SUFFICES ASSUME NEW n, NEW do, NEW a, FitR(n), do \notin Store, NEW o \in RV!ReadProgbuf(n, do, a)
             PROVE  SameR(n, o.m) /\ (o.ok => n.halted)
  OBVIOUS
<1> DEFINE i == RV!Ins(do, "s0")
           F(x) == RV!Then(RV!SetupProgramBuffer(x, <<i>>), LAMBDA y :
                   RV!Then(RV!WriteAndExec(y.m, "s0", RV!Address(a)), LAMBDA z : RV!RegisterRead(z.m, "s0")))
           Last(b) == RV!RestoreS0(F(b.m), b.val)
<1>1. i.do \notin Store
  BY DEF RV!Ins
<1>2. RV!ReadProgbuf(n, do, a) = RV!Then(RV!SaveS0(n), Last)
  BY DEF RV!ReadProgbuf, RV!WithS0
<1>. HIDE DEF i
<1>3. \A x : FitR(x) => \A p \in F(x) : SameR(x, p.m)
  <2>1. \A x : FitR(x) => \A y \in RV!SetupProgramBuffer(x, <<i>>) : SameR(x, y.m) /\ FitR(y.m) /\ (y.ok => y.m.buf[1] = i)
    BY RVSetup1 DEF SameR
  <2>2. \A x, k, v : SameR(x, k) /\ k.buf[1] = i => \A z \in RV!WriteAndExec(k, "s0", v) : SameR(x, z.m) /\ FitR(z.m)
    BY <1>1, RVExec, SameRTrans DEF SameR
  <2>3. \A x, k : SameR(x, k) => \A z \in RV!RegisterRead(k, "s0") : SameR(x, z.m)
    BY RVRegister, SameRTrans DEF SameR
  <2> QED BY <2>1, <2>2, <2>3 DEF RV!Then
<1>. HIDE DEF F
<1>4. \A b \in RV!SaveS0(n) : SameR(n, b.m) /\ FitR(b.m) /\ (b.ok => n.halted)
  BY RVRegister DEF RV!SaveS0, SameR
<1>5. \A b : FitR(b.m) => \A p \in Last(b) : SameR(b.m, p.m)
  <2> SUFFICES ASSUME NEW b, FitR(b.m), NEW p \in Last(b) PROVE SameR(b.m, p.m)
    OBVIOUS
  <2>1. PICK c \in F(b.m) : FitR(c.m) => SameR(c.m, p.m)
    BY RVRestore
  <2>2. SameR(b.m, c.m) /\ FitR(c.m)
    BY <1>3, <2>1 DEF SameR
  <2> QED BY <2>1, <2>2, SameRTrans
<1>. HIDE DEF Last
<1> QED BY <1>2, <1>4, <1>5, SameRTrans DEF RV!Then

\* Words are read by a program.
LEMMA RVReadMultiple ==
  ASSUME Careful
  PROVE  \A n : FitR(n) => \A o \in RV!ReadMultipleProgbuf(n) : SameR(n, o.m) /\ (o.ok => n.halted)
<1> SUFFICES ASSUME NEW n, FitR(n), NEW o \in RV!ReadMultipleProgbuf(n)
             PROVE  SameR(n, o.m) /\ (o.ok => n.halted)
  OBVIOUS
<1> DEFINE i == RV!Ins("lw", "s1")
           j == RV!Ins("addi", "s0")
           Ends(a) == RV!Then(RV!RegisterRead(a.m, "s1"), LAMBDA b :
                      {RV!Give(b.m, RV!Data(a.val.n + 4 * b.val.n))})
           More(z) == RV!Then(RV!Command(z.m, RV!RunBuffer(z.m), z.m.regs["s1"])
                                \cup RV!Overlooked(z.m, z.m, z.m.regs["s1"]), Ends)
           Starts(y) == RV!Then(RV!WriteAndExec(y.m, "s0", RV!Address(0))
                             \cup RV!Overlooked(y.m, [y.m EXCEPT !.regs["s0"] = RV!Address(0)], RV!Junk), More)
           F(x) == RV!Then(RV!SetupProgramBuffer(x, <<i, j>>), Starts)
           Last(a, b) == RV!RestoreS1(RV!RestoreS0(F(b.m), a.val), b.val)
           Mid(a) == RV!Then(RV!SaveS1(a.m), LAMBDA b : Last(a, b))
<1>1. i.do \notin Store /\ j = RV!Ins("addi", "s0")
  BY DEF RV!Ins, Store
<1>2. RV!ReadMultipleProgbuf(n) = RV!Then(RV!SaveS0(n), Mid)
  BY DEF RV!ReadMultipleProgbuf, RV!WithS0S1
<1>0. \A k, x, v : RV!Overlooked(k, x, v) = {}
  BY DEF RV!Overlooked, RV!Unless
<1>. HIDE DEF i, j
<1>3. \A a : FitR(a.m) => \A p \in Ends(a) : SameR(a.m, p.m)
  <2>1. \A b, v : RV!Give(b.m, v).m = b.m
    BY RVSame, OutcomesGive
  <2> QED BY <2>1, RVRegister DEF RV!Then
<1>. HIDE DEF Ends
<1>4. \A z : FitR(z.m) /\ z.m.buf[1] = i => \A p \in More(z) : SameR(z.m, p.m)
  <2>1. \A k, v : FitR(k) /\ k.buf[1] = i => \A p \in RV!Command(k, RV!RunBuffer(k), v) : SameR(k, p.m) /\ FitR(p.m)
    BY <1>1, RVRunBuffer, RVCommand, SameRHolds
  <2> QED BY <1>0, <1>3, <2>1, SameRTrans DEF RV!Then
<1>. HIDE DEF More
<1>5. \A x : FitR(x) => \A p \in F(x) : SameR(x, p.m)
  <2>1. \A x : FitR(x) => \A y \in RV!SetupProgramBuffer(x, <<i, j>>) : SameR(x, y.m) /\ FitR(y.m) /\ (y.ok => y.m.buf[1] = i)
    BY <1>1, RVSetup2, SameRHolds
  <2>2. \A k, v : FitR(k) /\ k.buf[1] = i =>
          \A z \in RV!WriteAndExec(k, "s0", v) : SameR(k, z.m) /\ FitR(z.m) /\ (z.ok => z.m.buf[1] = i)
    BY <1>1, RVExec, SameRHolds
  <2>3. \A y : FitR(y.m) /\ y.m.buf[1] = i => \A p \in Starts(y) : SameR(y.m, p.m)
    BY <1>0, <1>4, <2>2, SameRTrans DEF RV!Then
  <2>. HIDE DEF Starts
  <2> QED BY <2>1, <2>3, SameRTrans DEF RV!Then
<1>. HIDE DEF F
<1>6. \A b : FitR(b.m) => \A a : \A p \in Last(a, b) : SameR(b.m, p.m)
  <2> SUFFICES ASSUME NEW b, FitR(b.m), NEW a, NEW p \in Last(a, b) PROVE SameR(b.m, p.m)
    OBVIOUS
  <2>1. PICK d \in RV!RestoreS0(F(b.m), a.val) : FitR(d.m) => SameR(d.m, p.m)
    BY RVRestore
  <2>2. PICK c \in F(b.m) : FitR(c.m) => SameR(c.m, d.m)
    BY RVRestore
  <2>3. SameR(b.m, c.m) /\ FitR(c.m)
    BY <1>5, <2>2, SameRHolds
  <2>4. SameR(c.m, d.m) /\ FitR(d.m)
    BY <2>2, <2>3, SameRHolds
  <2> QED BY <2>1, <2>3, <2>4, SameRTrans
<1>. HIDE DEF Last
<1>7. \A a : FitR(a.m) => \A p \in Mid(a) : SameR(a.m, p.m)
  <2>1. \A k : FitR(k) => \A b \in RV!SaveS1(k) : SameR(k, b.m) /\ FitR(b.m)
    BY RVRegister, SameRHolds DEF RV!SaveS1
  <2> QED BY <1>6, <2>1, SameRTrans DEF RV!Then
<1>. HIDE DEF Mid
<1>8. \A a \in RV!SaveS0(n) : SameR(n, a.m) /\ FitR(a.m) /\ (a.ok => n.halted)
  BY RVRegister, SameRHolds DEF RV!SaveS0
<1> QED BY <1>2, <1>7, <1>8, SameRTrans DEF RV!Then

(* An access over the bus may leave its error behind.                       *)
LEMMA RVErrs ==
  \A n : FitR(n) => SameR(n, [n EXCEPT !.sberr = TRUE])
<1> SUFFICES ASSUME NEW n, FitR(n) PROVE SameR(n, [n EXCEPT !.sberr = TRUE])
  OBVIOUS
<1>1. Changed(n, [n EXCEPT !.sberr = TRUE], SlackR) /\ [n EXCEPT !.sberr = TRUE].regs = n.regs
  BY DEF Changed, SlackR
<1> QED BY <1>1, SlackSameR DEF FitR

\* An access of the system bus happens, or does not.
LEMMA RVBus ==
  \A n, x, v : FitR(n) => \A o \in RV!Bus(n, x, v) :
    \/ SameR(n, o.m) /\ ~o.ok
    \/ o.m = x /\ o.ok
    \/ o.m = Spent(x) /\ ~o.ok
<1> SUFFICES ASSUME NEW n, NEW x, NEW v, FitR(n), NEW o \in RV!Bus(n, x, v)
             PROVE  \/ SameR(n, o.m) /\ ~o.ok
                    \/ o.m = x /\ o.ok
                    \/ o.m = Spent(x) /\ ~o.ok
  OBVIOUS
<1>1. \/ o \in RV!Access(n, x, v) \/ o = RV!Err(n) \/ o = RV!Fail([n EXCEPT !.sberr = TRUE])
  BY DEF RV!Bus
<1>2. \A k : RV!Err(k).m = k /\ ~RV!Err(k).ok /\ RV!Fail(k).m = Spent(k) /\ ~RV!Fail(k).ok
  BY RVSame, OutcomesGive
<1> DEFINE e == [n EXCEPT !.sberr = TRUE]
<1>3. SameR(n, e) /\ SameR(n, n) /\ SameR(n, Spent(n))
  BY RVErrs, SameRRefl
<1>. HIDE DEF e
<1>4. SameR(n, Spent(e))
  BY <1>3, SameRRefl, SameRTrans, SameRHolds
<1>5. RV!Fail(e).m = Spent(e) /\ ~RV!Fail(e).ok
  BY <1>2
<1>6. o \in RV!Access(n, x, v) => (o.ok /\ o.m = x) \/ (~o.ok /\ o.m \in {Spent(n), Spent(x)})
  BY RVSame, AccessGives
<1> QED BY <1>1, <1>2, <1>3, <1>4, <1>5, <1>6 DEF e

\* Memory is read, in bytes or in words.
LEMMA RVReadMemory ==
  ASSUME Careful
  PROVE  \A n : FitR(n) => /\ \A o \in RV!ReadWords(n) : SameR(n, o.m) /\ FitR(o.m)
                           /\ \A l : \A o \in RV!ReadLane(n, l) : SameR(n, o.m) /\ FitR(o.m)
<1>1. \A n, v : FitR(n) => \A o \in RV!Bus(n, n, v) : SameR(n, o.m)
  BY RVBus, SameRRefl
<1>2. "lb" \notin Store
  BY DEF Store
<1> QED BY <1>1, <1>2, RVReadMultiple, RVReadProgbuf, SameRHolds DEF RV!ReadWords, RV!ReadLane

(* Memory is written: nothing else changes of the target.                   *)
StoresR(n, x) == /\ FitR(n) /\ FitR(x) /\ x.causes = n.causes
                 /\ x.halted = n.halted /\ x.why = n.why
Fills(n, mem) == [n EXCEPT !.mem = mem]

\* A core in the same place stores nothing.
LEMMA SameRStores == \A n, x : SameR(n, x) => StoresR(n, x) /\ x.mem = n.mem
BY DEF SameR, StoresR

\* Two operations that may store may store.
LEMMA StoresRTrans == \A a, b, c : StoresR(a, b) /\ StoresR(b, c) => StoresR(a, c)
BY DEF StoresR

\* Memory is given a value.
LEMMA FillsR ==
  \A n, mem : FitR(n) /\ mem \in [Lanes -> {0, 1}] =>
    StoresR(n, Fills(n, mem)) /\ Fills(n, mem).mem = mem /\ Fills(n, mem).buf = n.buf /\ Fills(n, mem).regs = n.regs
<1> SUFFICES ASSUME NEW n, NEW mem, FitR(n), mem \in [Lanes -> {0, 1}]
             PROVE  StoresR(n, Fills(n, mem)) /\ Fills(n, mem).mem = mem /\ Fills(n, mem).buf = n.buf /\ Fills(n, mem).regs = n.regs
  OBVIOUS
<1> DEFINE x == Fills(n, mem)
<1>1. /\ DOMAIN x = DOMAIN n /\ x.buf = n.buf /\ x.regs = n.regs /\ x.halted = n.halted /\ x.why = n.why
      /\ x.causes = n.causes /\ x.mem = mem
  BY DEF FitR, FieldsR, CoreFields, Fills
<1>. HIDE DEF x
<1>2. StoresR(n, x) /\ x.mem = mem /\ x.buf = n.buf /\ x.regs = n.regs
  BY <1>1 DEF StoresR, FitR
<1> QED BY <1>2 DEF x

\* The driver of RISC-V writes words as all drivers do.
LEMMA RVPatched == /\ \A mem, a, k : RV!Patched(mem, a, k) = Patched(mem, a, k)
                   /\ RV!Lanes = Lanes /\ RV!Words = Words
BY DEF RV!Patched, Patched, RV!Lanes, Lanes, RV!Words, Words

(* The buffer stores a byte, or a word and goes on to the next.             *)
LEMMA RVStoreByte ==
  \A n, l : FitR(n) /\ l \in Lanes /\ n.buf[1] = RV!Ins("sb", "s1")
            /\ n.regs["s0"] = RV!Address(l) /\ n.regs["s1"] = RV!Data(1) =>
    StoresR(n, RV!RunBuffer(n)) /\ RV!RunBuffer(n).mem = [n.mem EXCEPT ![l] = 1]
<1> SUFFICES ASSUME NEW n, NEW l \in Lanes, FitR(n), n.buf[1] = RV!Ins("sb", "s1"),
                    n.regs["s0"] = RV!Address(l), n.regs["s1"] = RV!Data(1)
             PROVE  StoresR(n, RV!RunBuffer(n)) /\ RV!RunBuffer(n).mem = [n.mem EXCEPT ![l] = 1]
  OBVIOUS
<1> DEFINE mem == [n.mem EXCEPT ![l] = 1]
           x == RV!RunOne(n, n.buf[1])
           y == RV!RunOne(x, n.buf[2])
<1>1. x = Fills(n, mem)
  <2>1. n.regs["s0"].of = "address" /\ n.regs["s0"].n = l /\ n.regs["s1"].n = 1
    BY DEF RV!Address, RV!Data
  <2>2. n.buf[1].do = "sb"
    BY DEF RV!Ins
  <2>3. x = [n EXCEPT !.mem[l] = 1]
    BY <2>1, <2>2, RVPatched DEF RV!RunOne
  <2> QED BY <2>3 DEF Fills
<1>2. mem \in [Lanes -> {0, 1}]
  BY DEF FitR
<1>. HIDE DEF mem, x
<1>3. StoresR(n, x) /\ x.mem = mem /\ x.buf = n.buf
  BY <1>1, <1>2, FillsR
<1>4. SameR(x, y)
  <2>1. n.buf[2].do \notin Store
    BY DEF FitR, RV!Ebreak, RV!Ins, Store
  <2> QED BY <1>3, <2>1, RVRunOne DEF StoresR
<1>. HIDE DEF y
<1>5. RV!RunBuffer(n) \in {x, y}
  <2>1. n.buf[1] # RV!Ebreak
    BY DEF RV!Ins, RV!Ebreak
  <2> QED BY <2>1 DEF RV!RunBuffer, x, y
<1> QED BY <1>3, <1>4, <1>5, SameRStores, StoresRTrans DEF mem

\* The program that stores a word, and advances the address.
LEMMA RVStoreWord ==
  \A n, a : FitR(n) /\ a \in Words /\ n.buf[1] = RV!Ins("sw", "s1") /\ n.buf[2] = RV!Ins("addi", "s0")
            /\ n.regs["s0"] = RV!Address(a) /\ n.regs["s1"] = RV!Data(3) =>
    /\ StoresR(n, RV!RunBuffer(n)) /\ RV!RunBuffer(n).mem = Patched(n.mem, a, 3)
    /\ RV!RunBuffer(n).buf = n.buf /\ RV!RunBuffer(n).regs["s0"] = RV!Address(a + 2)
<1> SUFFICES ASSUME NEW n, NEW a \in Words, FitR(n),
                    n.buf[1] = RV!Ins("sw", "s1"), n.buf[2] = RV!Ins("addi", "s0"),
                    n.regs["s0"] = RV!Address(a), n.regs["s1"] = RV!Data(3)
             PROVE  /\ StoresR(n, RV!RunBuffer(n)) /\ RV!RunBuffer(n).mem = Patched(n.mem, a, 3)
                    /\ RV!RunBuffer(n).buf = n.buf /\ RV!RunBuffer(n).regs["s0"] = RV!Address(a + 2)
  OBVIOUS
<1> DEFINE mem == Patched(n.mem, a, 3)
           x == RV!RunOne(n, n.buf[1])
           y == RV!RunOne(x, n.buf[2])
<1>1. x = Fills(n, mem)
  <2>1. n.regs["s0"].of = "address" /\ n.regs["s0"].n = a /\ n.regs["s1"].n = 3
    BY DEF RV!Address, RV!Data
  <2>2. n.buf[1].do = "sw"
    BY DEF RV!Ins
  <2>3. x = [n EXCEPT !.mem = Patched(n.mem, a, 3)]
    BY <2>1, <2>2, RVPatched DEF RV!RunOne
  <2> QED BY <2>3 DEF Fills
<1>2. mem \in [Lanes -> {0, 1}]
  BY PatchedWords DEF FitR, Words
<1>. HIDE DEF mem, x
<1>3. StoresR(n, x) /\ x.mem = mem /\ x.buf = n.buf /\ x.regs = n.regs /\ FitR(x)
  BY <1>1, <1>2, FillsR DEF StoresR
<1>4. y = Given(x, "s0", [x.regs["s0"] EXCEPT !.n = @ + 2])
  <2>1. n.buf[2].do = "addi"
    BY DEF RV!Ins
  <2> QED BY <2>1 DEF RV!RunOne, Given
<1>5. [x.regs["s0"] EXCEPT !.n = @ + 2] = RV!Address(a + 2)
  BY <1>3 DEF RV!Address
<1>. HIDE DEF y
<1>6. SameR(x, y) /\ y.buf = x.buf /\ y.regs["s0"] = RV!Address(a + 2)
  BY <1>3, <1>4, <1>5, GivenR DEF Regs
<1>7. RV!RunBuffer(n) = y
  <2>1. n.buf[1] # RV!Ebreak /\ n.buf[2] # RV!Ebreak
    BY DEF RV!Ins, RV!Ebreak
  <2> QED BY <2>1 DEF RV!RunBuffer, x, y
<1> QED BY <1>3, <1>6, <1>7, SameRStores, StoresRTrans DEF mem

(* What comes of a command that writes a register and runs the buffer.      *)
LEMMA RVExecGives ==
  \A n, r, v : \A o \in RV!WriteAndExec(n, r, v) :
    LET w == Given(n, r, v) IN
      \/ o.ok /\ o.m = RV!RunBuffer(w)
      \/ ~o.ok /\ o.m \in {n, Spent(n), Spent(w), Spent(RV!RunBuffer(w))}
<1> SUFFICES ASSUME NEW n, NEW r, NEW v, NEW o \in RV!WriteAndExec(n, r, v)
             PROVE  LET w == Given(n, r, v) IN
                      \/ o.ok /\ o.m = RV!RunBuffer(w)
                      \/ ~o.ok /\ o.m \in {n, Spent(n), Spent(w), Spent(RV!RunBuffer(w))}
  OBVIOUS
<1> DEFINE w == Given(n, r, v)
           x == RV!RunBuffer(w)
<1>1. o \in RV!Command(n, x, RV!Junk) \/ o = RV!Fail(w)
  BY DEF RV!WriteAndExec, Given
<1>. HIDE DEF x, w
<1>2. o \in RV!Access(n, x, RV!Junk) \/ o = RV!Err(n) \/ o = RV!Fail(w)
  BY <1>1 DEF RV!Command
<1>3. RV!Err(n).m = n /\ ~RV!Err(n).ok /\ RV!Fail(w).m = Spent(w) /\ ~RV!Fail(w).ok
  BY RVSame, OutcomesGive
<1>4. o \in RV!Access(n, x, RV!Junk) => (o.ok /\ o.m = x) \/ (~o.ok /\ o.m \in {Spent(n), Spent(x)})
  BY RVSame, AccessGives
<1>5. (o.ok /\ o.m = x) \/ (~o.ok /\ o.m \in {n, Spent(n), Spent(w), Spent(x)})
  BY <1>2, <1>3, <1>4
<1> QED BY <1>5 DEF x, w

\* The program that stores a byte is executed, or not.
LEMMA RVExecByte ==
  \A n, l : FitR(n) /\ l \in Lanes /\ n.buf[1] = RV!Ins("sb", "s1") /\ n.regs["s0"] = RV!Address(l) =>
    \A o \in RV!WriteAndExec(n, "s1", RV!Data(1)) :
      /\ StoresR(n, o.m) /\ o.m.mem \in {n.mem, [n.mem EXCEPT ![l] = 1]}
      /\ o.ok => o.m.mem = [n.mem EXCEPT ![l] = 1]
<1> SUFFICES ASSUME NEW n, NEW l \in Lanes, FitR(n),
                    n.buf[1] = RV!Ins("sb", "s1"), n.regs["s0"] = RV!Address(l),
                    NEW o \in RV!WriteAndExec(n, "s1", RV!Data(1))
             PROVE  /\ StoresR(n, o.m) /\ o.m.mem \in {n.mem, [n.mem EXCEPT ![l] = 1]}
                    /\ o.ok => o.m.mem = [n.mem EXCEPT ![l] = 1]
  OBVIOUS
<1> DEFINE w == Given(n, "s1", RV!Data(1))
           x == RV!RunBuffer(w)
<1>1. \/ o.ok /\ o.m = x
      \/ ~o.ok /\ o.m \in {n, Spent(n), Spent(w), Spent(x)}
  BY RVExecGives
<1>2. SameR(n, w) /\ w.buf = n.buf /\ w.regs["s1"] = RV!Data(1) /\ w.regs["s0"] = n.regs["s0"] /\ FitR(w)
  BY GivenR, SameRHolds DEF Regs
<1>. HIDE DEF w
<1>3. StoresR(w, x) /\ x.mem = [w.mem EXCEPT ![l] = 1] /\ FitR(x)
  BY <1>2, RVStoreByte DEF StoresR
<1>. HIDE DEF x
<1>4. SameR(n, n) /\ SameR(n, Spent(n)) /\ SameR(w, Spent(w)) /\ SameR(x, Spent(x))
  BY <1>2, <1>3, SameRRefl
<1>5. w.mem = n.mem /\ StoresR(n, w)
  BY <1>2, SameRStores
<1> QED BY <1>1, <1>3, <1>4, <1>5, SameRStores, StoresRTrans

\* The one that stores a word is executed, or not.
LEMMA RVExecWord ==
  \A n, a : FitR(n) /\ a \in Words /\ n.buf[1] = RV!Ins("sw", "s1") /\ n.buf[2] = RV!Ins("addi", "s0")
            /\ n.regs["s0"] = RV!Address(a) =>
    \A o \in RV!WriteAndExec(n, "s1", RV!Data(3)) :
      /\ StoresR(n, o.m) /\ o.m.mem \in {n.mem, Patched(n.mem, a, 3)}
      /\ o.ok => /\ o.m.mem = Patched(n.mem, a, 3)
                 /\ o.m.buf = n.buf /\ o.m.regs["s0"] = RV!Address(a + 2)
<1> SUFFICES ASSUME NEW n, NEW a \in Words, FitR(n),
                    n.buf[1] = RV!Ins("sw", "s1"), n.buf[2] = RV!Ins("addi", "s0"),
                    n.regs["s0"] = RV!Address(a),
                    NEW o \in RV!WriteAndExec(n, "s1", RV!Data(3))
             PROVE  /\ StoresR(n, o.m) /\ o.m.mem \in {n.mem, Patched(n.mem, a, 3)}
                    /\ o.ok => /\ o.m.mem = Patched(n.mem, a, 3)
                               /\ o.m.buf = n.buf /\ o.m.regs["s0"] = RV!Address(a + 2)
  OBVIOUS
<1> DEFINE w == Given(n, "s1", RV!Data(3))
           x == RV!RunBuffer(w)
<1>1. \/ o.ok /\ o.m = x
      \/ ~o.ok /\ o.m \in {n, Spent(n), Spent(w), Spent(x)}
  BY RVExecGives
<1>2. SameR(n, w) /\ w.buf = n.buf /\ w.regs["s1"] = RV!Data(3) /\ w.regs["s0"] = n.regs["s0"] /\ FitR(w)
  BY GivenR, SameRHolds DEF Regs
<1>. HIDE DEF w
<1>3. /\ StoresR(w, x) /\ x.mem = Patched(w.mem, a, 3) /\ FitR(x)
      /\ x.buf = n.buf /\ x.regs["s0"] = RV!Address(a + 2)
  BY <1>2, RVStoreWord DEF StoresR
<1>. HIDE DEF x
<1>4. SameR(n, n) /\ SameR(n, Spent(n)) /\ SameR(w, Spent(w)) /\ SameR(x, Spent(x))
  BY <1>2, <1>3, SameRRefl
<1>5. w.mem = n.mem /\ StoresR(n, w)
  BY <1>2, SameRStores
<1> QED BY <1>1, <1>3, <1>4, <1>5, SameRStores, StoresRTrans

(* A byte is written by a program.                                          *)
LEMMA RVWriteProgbuf ==
  ASSUME Careful
  PROVE  \A n, l : FitR(n) /\ l \in Lanes => \A o \in RV!WriteProgbuf(n, "sb", l, 1) :
           /\ StoresR(n, o.m) /\ o.m.mem \in {n.mem, Byted(n.mem, l)}
           /\ o.ok => o.m.mem = Byted(n.mem, l)
<1> SUFFICES ASSUME NEW n, NEW l \in Lanes, FitR(n), NEW o \in RV!WriteProgbuf(n, "sb", l, 1)
             PROVE  /\ StoresR(n, o.m) /\ o.m.mem \in {n.mem, Byted(n.mem, l)}
                    /\ o.ok => o.m.mem = Byted(n.mem, l)
  OBVIOUS
<1> DEFINE i == RV!Ins("sb", "s1")
           B(k, p) == /\ StoresR(k, p.m) /\ p.m.mem \in {k.mem, Byted(k.mem, l)}
                      /\ p.ok => p.m.mem = Byted(k.mem, l)
           Ends(z) == RV!WriteAndExec(z.m, "s1", RV!Data(1))
           Mid(y) == RV!Then(RV!RegisterWrite(y.m, "s0", RV!Address(l)), Ends)
           F(x) == RV!Then(RV!SetupProgramBuffer(x, <<i>>), Mid)
           Last(a, b) == RV!RestoreS1(RV!RestoreS0(F(b.m), a.val), b.val)
           Saved(a) == RV!Then(RV!SaveS1(a.m), LAMBDA b : Last(a, b))
<1>1. RV!WriteProgbuf(n, "sb", l, 1) = RV!Then(RV!SaveS0(n), Saved)
  BY DEF RV!WriteProgbuf, RV!WithS0S1
<1>2. \A z : FitR(z.m) /\ z.m.buf[1] = i /\ z.m.regs["s0"] = RV!Address(l) => \A p \in Ends(z) : B(z.m, p)
  BY RVExecByte DEF Byted
<1>. HIDE DEF i, Ends
<1>3. /\ \A k, x, p : SameR(k, x) /\ B(x, p) => B(k, p)
      /\ \A k, p : SameR(k, p.m) /\ ~p.ok => B(k, p)
      /\ \A k, d, p : B(k, d) /\ SameR(d.m, p.m) /\ (p.ok => d.ok) => B(k, p)
      /\ \A k, p : B(k, p) => FitR(p.m)
  BY SameRStores, StoresRTrans DEF StoresR
<1>. HIDE DEF B
<1>4. \A y : FitR(y.m) /\ y.m.buf[1] = i => \A p \in Mid(y) : B(y.m, p)
  <2>1. \A k : FitR(k) /\ k.buf[1] = i => \A z \in RV!RegisterWrite(k, "s0", RV!Address(l)) :
          SameR(k, z.m) /\ FitR(z.m) /\ (z.ok => z.m.buf[1] = i /\ z.m.regs["s0"] = RV!Address(l))
    <3>1. \A k, v : FitR(k) => RV!Set(k, "s0", v) = Given(k, "s0", v)
      BY DEF RV!Set, Given, RV!Regs
    <3> QED BY <3>1, RVRegister, GivenR, SameRHolds DEF Regs
  <2> QED BY <1>2, <1>3, <2>1 DEF RV!Then
<1>. HIDE DEF Mid
<1>5. \A x : FitR(x) => \A p \in F(x) : B(x, p)
  <2>1. \A x : FitR(x) => \A y \in RV!SetupProgramBuffer(x, <<i>>) : SameR(x, y.m) /\ FitR(y.m) /\ (y.ok => y.m.buf[1] = i)
    BY RVSetup1, SameRHolds
  <2> QED BY <1>3, <1>4, <2>1 DEF RV!Then
<1>. HIDE DEF F
<1>6. \A b : FitR(b.m) => \A a : \A p \in Last(a, b) : B(b.m, p)
  <2> SUFFICES ASSUME NEW b, FitR(b.m), NEW a, NEW p \in Last(a, b) PROVE B(b.m, p)
    OBVIOUS
  <2>1. PICK d \in RV!RestoreS0(F(b.m), a.val) : (FitR(d.m) => SameR(d.m, p.m)) /\ (p.ok => d.ok)
    BY RVRestore
  <2>2. PICK c \in F(b.m) : (FitR(c.m) => SameR(c.m, d.m)) /\ (d.ok => c.ok)
    BY RVRestore
  <2>3. B(b.m, c) /\ FitR(c.m)
    BY <1>3, <1>5, <2>2
  <2>4. B(b.m, d) /\ FitR(d.m)
    BY <1>3, <2>2, <2>3
  <2> QED BY <1>3, <2>1, <2>4
<1>. HIDE DEF Last
<1>7. \A a : FitR(a.m) => \A p \in Saved(a) : B(a.m, p)
  <2>1. \A k : FitR(k) => \A b \in RV!SaveS1(k) : SameR(k, b.m) /\ FitR(b.m)
    BY RVRegister, SameRHolds DEF RV!SaveS1
  <2> QED BY <1>3, <1>6, <2>1 DEF RV!Then
<1>. HIDE DEF Saved
<1>8. \A a \in RV!SaveS0(n) : SameR(n, a.m) /\ FitR(a.m)
  BY RVRegister, SameRHolds DEF RV!SaveS0
<1>9. B(n, o)
  BY <1>1, <1>3, <1>7, <1>8 DEF RV!Then
<1> QED BY <1>9 DEF B

(* Both words are written by a program that is executed twice.              *)
LEMMA RVWriteMultiple ==
  ASSUME Careful
  PROVE  \A n : FitR(n) => \A o \in RV!WriteMultipleProgbuf(n) :
           /\ StoresR(n, o.m) /\ o.m.mem \in Among(n.mem)
           /\ o.ok => o.m.mem = Whole(n.mem)
<1> SUFFICES ASSUME NEW n, FitR(n), NEW o \in RV!WriteMultipleProgbuf(n)
             PROVE  /\ StoresR(n, o.m) /\ o.m.mem \in Among(n.mem)
                    /\ o.ok => o.m.mem = Whole(n.mem)
  OBVIOUS
<1> DEFINE i == RV!Ins("sw", "s1")
           j == RV!Ins("addi", "s0")
           B(k, p) == /\ StoresR(k, p.m) /\ p.m.mem \in Among(k.mem)
                      /\ p.ok => p.m.mem = Whole(k.mem)
           H(k, p) == /\ StoresR(k, p.m) /\ p.m.mem \in {k.mem, Patched(k.mem, 2, 3)}
                      /\ p.ok => p.m.mem = Patched(k.mem, 2, 3)
           Ready(k) == FitR(k) /\ k.buf[1] = i /\ k.buf[2] = j
           Ends(z) == RV!WriteAndExec(z.m, "s1", RV!Data(3))
           Twice(z) == RV!Then(RV!WriteAndExec(z.m, "s1", RV!Data(3)), Ends)
           Mid(y) == RV!Then(RV!RegisterWrite(y.m, "s0", RV!Address(0)), Twice)
           F(x) == RV!Then(RV!SetupProgramBuffer(x, <<i, j>>), Mid)
           Last(a, b) == RV!RestoreS1(RV!RestoreS0(F(b.m), a.val), b.val)
           Saved(a) == RV!Then(RV!SaveS1(a.m), LAMBDA b : Last(a, b))
<1>1. RV!WriteMultipleProgbuf(n) = RV!Then(RV!SaveS0(n), Saved)
  BY DEF RV!WriteMultipleProgbuf, RV!WithS0S1
<1>2. \A z : Ready(z.m) /\ z.m.regs["s0"] = RV!Address(2) => \A p \in Ends(z) : H(z.m, p)
  BY RVExecWord DEF Words
<1>0. \A z : Ready(z.m) /\ z.m.regs["s0"] = RV!Address(0) => \A p \in Twice(z) : B(z.m, p)
  <2>1. \A k : Ready(k) /\ k.regs["s0"] = RV!Address(0) =>
          \A p \in RV!WriteAndExec(k, "s1", RV!Data(3)) :
            /\ StoresR(k, p.m) /\ p.m.mem \in {k.mem, Half(k.mem)}
            /\ p.ok => p.m.mem = Half(k.mem) /\ Ready(p.m) /\ p.m.regs["s0"] = RV!Address(2)
    <3>1. 0 + 2 = 2 /\ 0 \in Words
      BY DEF Words
    <3>2. \A k, x : StoresR(k, x) => FitR(x)
      BY DEF StoresR
    <3>. HIDE DEF i, j
    <3> QED BY <3>1, <3>2, RVExecWord DEF Half, i, j
  <2>2. \A k, p : StoresR(k, p.m) /\ p.m.mem \in {k.mem, Half(k.mem)} /\ ~p.ok => B(k, p)
    BY DEF Among
  <2>3. \A k, x, p : StoresR(k, x) /\ x.mem = Half(k.mem) /\ H(x, p) => B(k, p)
    BY StoresRTrans DEF Among, Whole
  <2>. HIDE DEF B, H, Ready, Ends
  <2> QED BY <1>2, <2>1, <2>2, <2>3 DEF RV!Then
<1>. HIDE DEF i, Ends, H, Twice
<1>3. /\ \A k, x, p : SameR(k, x) /\ B(x, p) => B(k, p)
      /\ \A k, p : SameR(k, p.m) /\ ~p.ok => B(k, p)
      /\ \A k, d, p : B(k, d) /\ SameR(d.m, p.m) /\ (p.ok => d.ok) => B(k, p)
      /\ \A k, p : B(k, p) => FitR(p.m)
  BY SameRStores, StoresRTrans DEF StoresR, Among
<1>. HIDE DEF B
<1>4. \A y : Ready(y.m) => \A p \in Mid(y) : B(y.m, p)
  <2>1. \A k : Ready(k) => \A z \in RV!RegisterWrite(k, "s0", RV!Address(0)) :
          SameR(k, z.m) /\ (z.ok => Ready(z.m) /\ z.m.regs["s0"] = RV!Address(0))
    <3>1. \A k, v : FitR(k) => RV!Set(k, "s0", v) = Given(k, "s0", v)
      BY DEF RV!Set, Given, RV!Regs
    <3> QED BY <3>1, RVRegister, GivenR, SameRHolds DEF Regs
  <2>. HIDE DEF Ready
  <2> QED BY <1>0, <1>3, <2>1 DEF RV!Then
<1>. HIDE DEF Mid
<1>5. \A x : FitR(x) => \A p \in F(x) : B(x, p)
  <2>1. \A x : FitR(x) => \A y \in RV!SetupProgramBuffer(x, <<i, j>>) : SameR(x, y.m) /\ (y.ok => Ready(y.m))
    BY RVSetup2, SameRHolds
  <2>. HIDE DEF Ready
  <2> QED BY <1>3, <1>4, <2>1 DEF RV!Then
<1>. HIDE DEF F
<1>6. \A b : FitR(b.m) => \A a : \A p \in Last(a, b) : B(b.m, p)
  <2> SUFFICES ASSUME NEW b, FitR(b.m), NEW a, NEW p \in Last(a, b) PROVE B(b.m, p)
    OBVIOUS
  <2>1. PICK d \in RV!RestoreS0(F(b.m), a.val) : (FitR(d.m) => SameR(d.m, p.m)) /\ (p.ok => d.ok)
    BY RVRestore
  <2>2. PICK c \in F(b.m) : (FitR(c.m) => SameR(c.m, d.m)) /\ (d.ok => c.ok)
    BY RVRestore
  <2>3. B(b.m, c) /\ FitR(c.m)
    BY <1>3, <1>5, <2>2
  <2>4. B(b.m, d) /\ FitR(d.m)
    BY <1>3, <2>2, <2>3
  <2> QED BY <1>3, <2>1, <2>4
<1>. HIDE DEF Last
<1>7. \A a : FitR(a.m) => \A p \in Saved(a) : B(a.m, p)
  <2>1. \A k : FitR(k) => \A b \in RV!SaveS1(k) : SameR(k, b.m) /\ FitR(b.m)
    BY RVRegister, SameRHolds DEF RV!SaveS1
  <2> QED BY <1>3, <1>6, <2>1 DEF RV!Then
<1>. HIDE DEF Saved
<1>8. \A a \in RV!SaveS0(n) : SameR(n, a.m) /\ FitR(a.m)
  BY RVRegister, SameRHolds DEF RV!SaveS0
<1>9. B(n, o)
  BY <1>1, <1>3, <1>7, <1>8 DEF RV!Then
<1> QED BY <1>9 DEF B

\* Memory is written, a byte or two words: those lanes and no others.
LEMMA RVWriteMemory ==
  ASSUME Careful
  PROVE  \A n : FitR(n) =>
           /\ \A o \in RV!WriteWords(n) : StoresR(n, o.m) /\ Writes(n.mem, o, Lanes)
           /\ \A l \in Lanes : \A o \in RV!WriteLane(n, l) : StoresR(n, o.m) /\ Writes(n.mem, o, {l})
<1> SUFFICES ASSUME NEW n, FitR(n)
             PROVE  /\ \A o \in RV!WriteWords(n) : StoresR(n, o.m) /\ Writes(n.mem, o, Lanes)
                    /\ \A l \in Lanes : \A o \in RV!WriteLane(n, l) : StoresR(n, o.m) /\ Writes(n.mem, o, {l})
  OBVIOUS
<1>0. n.mem \in [Lanes -> {0, 1}]
  BY DEF FitR
<1>b. \A k, mem : FitR(k) /\ mem \in [Lanes -> {0, 1}] => \A p \in RV!Bus(k, Fills(k, mem), RV!Junk) :
        StoresR(k, p.m) /\ p.m.mem \in {k.mem, mem} /\ (p.ok => p.m.mem = mem)
  <2> SUFFICES ASSUME NEW k, NEW mem, FitR(k), mem \in [Lanes -> {0, 1}], NEW p \in RV!Bus(k, Fills(k, mem), RV!Junk)
               PROVE  StoresR(k, p.m) /\ p.m.mem \in {k.mem, mem} /\ (p.ok => p.m.mem = mem)
    OBVIOUS
  <2> DEFINE x == Fills(k, mem)
  <2>1. (SameR(k, p.m) /\ ~p.ok) \/ (p.m = x /\ p.ok) \/ (p.m = Spent(x) /\ ~p.ok)
    BY RVBus
  <2>2. StoresR(k, x) /\ x.mem = mem
    BY FillsR
  <2>. HIDE DEF x
  <2>3. SameR(x, Spent(x))
    BY <2>2, SameRRefl DEF StoresR
  <2> QED BY <2>1, <2>2, <2>3, SameRStores, StoresRTrans
<1>1. ASSUME NEW o \in RV!WriteWords(n) PROVE StoresR(n, o.m) /\ Writes(n.mem, o, Lanes)
  <2>1. CASE n.sysbus
    <3> DEFINE Last(p) == RV!Bus(p.m, RV!StoreWord(p.m, 2, 3), RV!Junk)
    <3>1. o \in RV!Then(RV!Bus(n, RV!StoreWord(n, 0, 3), RV!Junk), Last)
      BY <1>1, <2>1 DEF RV!WriteWords
    <3>2. \A k, a : RV!StoreWord(k, a, 3) = Fills(k, Patched(k.mem, a, 3))
      BY RVPatched DEF RV!StoreWord, Fills
    <3>3. \A mem \in [Lanes -> {0, 1}] : Patched(mem, 0, 3) \in [Lanes -> {0, 1}] /\ Patched(mem, 2, 3) \in [Lanes -> {0, 1}]
      BY PatchedWords
    <3>4. \A p : FitR(p.m) => \A q \in Last(p) :
            StoresR(p.m, q.m) /\ q.m.mem \in {p.m.mem, Patched(p.m.mem, 2, 3)} /\ (q.ok => q.m.mem = Patched(p.m.mem, 2, 3))
      BY <1>b, <3>2, <3>3 DEF FitR
    <3>. HIDE DEF Last
    <3>5. \A p \in RV!Bus(n, RV!StoreWord(n, 0, 3), RV!Junk) :
            StoresR(n, p.m) /\ FitR(p.m) /\ p.m.mem \in {n.mem, Half(n.mem)} /\ (p.ok => p.m.mem = Half(n.mem))
      BY <1>0, <1>b, <3>2, <3>3 DEF Half, StoresR
    <3>6. StoresR(n, o.m) /\ o.m.mem \in Among(n.mem) /\ (o.ok => o.m.mem = Whole(n.mem))
      BY <3>1, <3>4, <3>5, StoresRTrans DEF RV!Then, Among, Whole
    <3> QED BY <1>0, <3>6, AmongWrites
  <2>2. CASE ~n.sysbus
    BY <1>0, <1>1, <2>2, RVWriteMultiple, AmongWrites DEF RV!WriteWords
  <2> QED BY <2>1, <2>2
<1>2. ASSUME NEW l \in Lanes, NEW o \in RV!WriteLane(n, l) PROVE StoresR(n, o.m) /\ Writes(n.mem, o, {l})
  <2>1. CASE n.sysbus
    <3>1. o \in RV!Bus(n, Fills(n, Byted(n.mem, l)), RV!Junk)
      BY <1>2, <2>1 DEF RV!WriteLane, Fills, Byted
    <3>2. Byted(n.mem, l) \in [Lanes -> {0, 1}]
      BY <1>0 DEF Byted
    <3>3. StoresR(n, o.m) /\ o.m.mem \in {n.mem, Byted(n.mem, l)} /\ (o.ok => o.m.mem = Byted(n.mem, l))
      BY <1>b, <3>1, <3>2
    <3> QED BY <1>0, <3>3, AmongWrites
  <2>2. CASE ~n.sysbus
    BY <1>0, <1>2, <2>2, RVWriteProgbuf, AmongWrites DEF RV!WriteLane
  <2> QED BY <2>1, <2>2
<1> QED BY <1>1, <1>2

(* What the core is, and why it stopped.                                    *)
LooksR(n, x) == HoldsR(n, x) /\ Watched(n, x)

\* How looking at a core goes with what leaves it in place.
LEMMA LooksSameR == /\ \A a, b, c : LooksR(a, b) /\ SameR(b, c) => LooksR(a, c)
                    /\ \A a, b : LooksR(a, b) => HoldsR(a, b) /\ FitR(b) /\ Watched(a, b)
                    /\ \A a, b : SameR(a, b) => LooksR(a, b)
BY DEF LooksR, HoldsR, SameR, Watched

\* The status of the core: it answers whether the core is halted.
LEMMA RVStatus ==
  ASSUME Careful
  PROVE  \A n : FitR(n) => \A o \in RV!Status(n) : LooksR(n, o.m) /\ (o.ok => (o.val = Yes <=> o.m.halted))
<1> SUFFICES ASSUME NEW n, FitR(n), NEW o \in RV!Status(n)
             PROVE  LooksR(n, o.m) /\ (o.ok => (o.val = Yes <=> o.m.halted))
  OBVIOUS
<1> DEFINE Calls(b) == RV!Then(RV!CheckForSemihosting(b.m), LAMBDA c : {RV!Give(c.m, RV!Yes)})
           Why(b) == IF b.m.why # "soft" THEN {RV!Give(b.m, RV!Yes)} ELSE Calls(b)
           Told(a) == IF a.val # RV!Yes THEN {a} ELSE RV!Then(RV!ReadCsr(a.m, "dcsr"), Why)
           Ends(k, p) == SameR(k, p.m) /\ (p.ok => p.val = Yes)
<1>0. \A k : RV!Give(k, RV!Yes).m = k /\ RV!Give(k, RV!Yes).val = Yes
  BY RVSame, OutcomesGive
<1>1. RV!Status(n) = RV!Then(Poll(n), Told)
  BY RVSame DEF RV!Status
<1>2. \A k : FitR(k) => \A p \in RV!CheckForSemihosting(k) : SameR(k, p.m)
  BY RVCsr, RVReadMemory, SameRTrans DEF RV!CheckForSemihosting, RV!Then
<1>3. \A b : FitR(b.m) => \A p \in Calls(b) : Ends(b.m, p)
  BY <1>0, <1>2 DEF RV!Then
<1>. HIDE DEF Calls
<1>4. \A b : FitR(b.m) => \A p \in Why(b) : Ends(b.m, p)
  BY <1>0, <1>3, SameRRefl
<1>. HIDE DEF Why
<1>5. \A a : FitR(a.m) /\ a.val = Yes => \A p \in Told(a) : Ends(a.m, p)
  <2>1. \A k : FitR(k) => \A p \in RV!ReadCsr(k, "dcsr") : SameR(k, p.m) /\ FitR(p.m)
    BY RVCsr
  <2>2. \A k, x, p : SameR(k, x) /\ Ends(x, p) => Ends(k, p)
    BY SameRTrans
  <2>3. \A a : FitR(a.m) /\ a.val = Yes => \A p \in Told(a) :
          \E b \in RV!ReadCsr(a.m, "dcsr") : (~b.ok /\ p = b) \/ (b.ok /\ p \in Why(b))
    BY RVSame DEF RV!Then
  <2>4. \A a, b, p : SameR(a.m, b.m) /\ ~b.ok /\ p = b => Ends(a.m, p)
    OBVIOUS
  <2>. HIDE DEF Ends, Told
  <2> QED BY <1>4, <2>1, <2>2, <2>3, <2>4
<1>6. \A a : a.val # Yes => Told(a) = {a}
  BY RVSame
<1>. HIDE DEF Told
<1>7. PICK a \in Poll(n) : (~a.ok /\ o = a) \/ (a.ok /\ o \in Told(a))
  BY <1>1 DEF RV!Then
<1>8. LooksR(n, a.m) /\ (a.ok => (a.val = Yes <=> a.m.halted)) /\ FitR(a.m)
  BY PollR DEF LooksR, HoldsR
<1>9. CASE ~a.ok \/ a.val # Yes
  BY <1>6, <1>7, <1>8, <1>9
<1>10. CASE a.ok /\ a.val = Yes
  <2>1. SameR(a.m, o.m) /\ (o.ok => o.val = Yes)
    BY <1>5, <1>7, <1>8, <1>10
  <2>2. o.m.halted = a.m.halted /\ a.m.halted
    BY <1>8, <1>10, <2>1, SameRHolds
  <2> QED BY <1>8, <2>1, <2>2, LooksSameR
<1> QED BY <1>9, <1>10

(* It is halted, and resumed.                                               *)
LEMMA RVHalt ==
  ASSUME Careful
  PROVE  \A n : FitR(n) => \A o \in RV!Halt(n) : HoldsR(n, o.m) /\ FitR(o.m) /\ (o.ok => o.m.halted)
<1> SUFFICES ASSUME NEW n, FitR(n), NEW o \in RV!Halt(n)
             PROVE  HoldsR(n, o.m) /\ FitR(o.m) /\ (o.ok => o.m.halted)
  OBVIOUS
<1> DEFINE Reads(c) == RV!ReadCsr(c.m, "pc")
           Clears(b) == RV!Then(RV!Access(b.m, b.m, RV!Junk), Reads)
           Waits(a) == RV!Then(RV!AwaitHalt(a.m), Clears)
<1>1. RV!Halt(n) = RV!Then(RV!Access(n, n, RV!Junk), Waits)
  BY DEF RV!Halt
<1>2. \A k : FitR(k) => \A p \in RV!Access(k, k, RV!Junk) : SameR(k, p.m) /\ FitR(p.m)
  BY RVSame, AccessR, SameRRefl, SameRHolds
<1>3. \A b : FitR(b.m) => \A p \in Clears(b) : SameR(b.m, p.m)
  BY <1>2, RVCsr, SameRTrans DEF RV!Then
<1>. HIDE DEF Clears
<1>4. \A a : FitR(a.m) => \A p \in Waits(a) : HoldsR(a.m, p.m) /\ FitR(p.m) /\ (p.ok => p.m.halted)
  <2>1. \A k : FitR(k) => \A p \in RV!AwaitHalt(k) : HoldsR(k, p.m) /\ FitR(p.m) /\ (p.ok => p.m.halted)
    BY RVSame, AwaitR DEF HoldsR
  <2>2. \A k, x, y : HoldsR(k, x) /\ SameR(x, y) => HoldsR(k, y) /\ FitR(y) /\ (x.halted => y.halted)
    BY SameRHolds, HoldsRTrans
  <2> QED BY <1>3, <2>1, <2>2 DEF RV!Then
<1>. HIDE DEF Waits
<1> QED BY <1>1, <1>2, <1>4, SameRHolds, HoldsRTrans DEF RV!Then

\* A core that is resumed runs.
LEMMA RestartedR == \A n : FitR(n) => MovesR(n, Restarted(n)) /\ Restarted(n).halted = FALSE
<1> SUFFICES ASSUME NEW n, FitR(n) PROVE MovesR(n, Restarted(n)) /\ Restarted(n).halted = FALSE
  OBVIOUS
<1>1. CASE ~n.halted
  BY <1>1 DEF Restarted, MovesR, FitR
<1>2. CASE n.halted
  <2> DEFINE x == Restarted(n)
  <2>1. x = [n EXCEPT !.halted = FALSE, !.ran = Append(@, n.regs), !.epoch = 1 - @, !.regs = Own(1 - n.epoch)]
    BY <1>2 DEF Restarted
  <2>2. /\ DOMAIN x = DOMAIN n /\ x.halted = FALSE /\ x.causes = n.causes /\ x.mem = n.mem
        /\ x.buf = n.buf /\ x.regs = Own(1 - n.epoch)
    BY <2>1 DEF FitR, FieldsR, CoreFields
  <2>3. DOMAIN Own(1 - n.epoch) = Regs
    BY DEF Own
  <2>. HIDE DEF x
  <2>4. MovesR(n, x) /\ x.halted = FALSE
    BY <2>2, <2>3 DEF MovesR, FitR
  <2> QED BY <2>4 DEF x
<1> QED BY <1>1, <1>2

\* A core that is resumed runs, or a breakpoint stops it again where it is.
LEMMA ResumesR == \A n : FitR(n) => \A x \in RV!ResumesTo(n) : MovesR(n, x) /\ Unforced(x)
<1> SUFFICES ASSUME NEW n, FitR(n), NEW x \in RV!ResumesTo(n) PROVE MovesR(n, x) /\ Unforced(x)
  OBVIOUS
<1>1. x = Restarted(n) \/ x \in StopsAgain(n, {"soft", "hard"})
  BY RVSame DEF RV!ResumesTo, StopsAgain
<1>2. CASE x = Restarted(n)
  BY <1>2, RestartedR DEF Unforced
<1>3. CASE x \in StopsAgain(n, {"soft", "hard"})
  <2>1. PICK w \in {"soft", "hard"} : x = [n EXCEPT !.why = w]
    BY <1>3 DEF StopsAgain
  <2>2. DOMAIN x = DOMAIN n /\ x.why = w /\ \A g \in DOMAIN n \ {"why"} : x[g] = n[g]
    BY <2>1 DEF FitR, FieldsR, CoreFields
  <2>3. x.halted = n.halted /\ x.causes = n.causes /\ x.mem = n.mem /\ x.buf = n.buf /\ x.regs = n.regs
    BY <2>2 DEF FitR, FieldsR, CoreFields
  <2> QED BY <2>2, <2>3 DEF MovesR, FitR, Unforced
<1> QED BY <1>1, <1>2, <1>3

\* A reset is a move.
LEMMA ResetR == \A n : FitR(n) => MovesR(n, WasReset(n)) /\ MovesR(n, [WasReset(n) EXCEPT !.armed = FALSE])
<1> SUFFICES ASSUME NEW n, FitR(n) PROVE MovesR(n, WasReset(n)) /\ MovesR(n, [WasReset(n) EXCEPT !.armed = FALSE])
  OBVIOUS
<1> DEFINE x == WasReset(n)
<1>1. /\ DOMAIN x = DOMAIN n /\ x.halted = FALSE /\ x.causes = n.causes /\ x.mem = n.mem
      /\ x.buf = n.buf /\ x.regs = Own(1 - n.epoch)
  BY DEF FitR, FieldsR, CoreFields, WasReset
<1>2. DOMAIN Own(1 - n.epoch) = Regs
  BY DEF Own
<1>. HIDE DEF x
<1>3. MovesR(n, x) /\ FitR(x)
  BY <1>1, <1>2 DEF MovesR, FitR
<1>4. Changed(x, [x EXCEPT !.armed = FALSE], SlackR) /\ [x EXCEPT !.armed = FALSE].regs = x.regs
  BY DEF Changed, SlackR
<1>5. SameR(x, [x EXCEPT !.armed = FALSE])
  BY <1>3, <1>4, SlackSameR DEF FitR
<1> QED BY <1>3, <1>5, SameRHolds, HoldsRMoves, MovesRTrans DEF x

\* One access of the probe moves the core, or fails.
LEMMA AccessMovesR ==
  \A n, x, v : FitR(n) /\ MovesR(n, x) => \A o \in Access(n, x, v) : MovesR(n, o.m) /\ FitR(o.m) /\ (o.ok => o.m = x)
<1> SUFFICES ASSUME NEW n, NEW x, NEW v, FitR(n), MovesR(n, x), NEW o \in Access(n, x, v)
             PROVE  MovesR(n, o.m) /\ FitR(o.m) /\ (o.ok => o.m = x)
  OBVIOUS
<1>1. (o.ok /\ o.m = x /\ o.val = v) \/ (~o.ok /\ o.m \in {Spent(n), Spent(x)})
  BY AccessGives
<1>2. FitR(x) /\ SameR(n, Spent(n)) /\ SameR(x, Spent(x))
  BY SameRRefl DEF MovesR
<1> QED BY <1>1, <1>2, SameRHolds, HoldsRMoves, MovesRTrans

\* The core is resumed, and is not held if that succeeds.
LEMMA RVResume ==
  \A n : FitR(n) => \A o \in RV!ResumeCore(n) : MovesR(n, o.m) /\ FitR(o.m) /\ (o.ok => Unforced(o.m))
<1> SUFFICES ASSUME NEW n, FitR(n), NEW o \in RV!ResumeCore(n)
             PROVE  MovesR(n, o.m) /\ FitR(o.m) /\ (o.ok => Unforced(o.m))
  OBVIOUS
<1> DEFINE Last(a) == RV!Access(a.m, a.m, RV!Junk)
<1>1. PICK x \in RV!ResumesTo(n) : o \in RV!Then(Access(n, x, RV!Junk), Last)
  BY RVSame DEF RV!ResumeCore, RV!Then
<1>2. \A a : FitR(a.m) => \A p \in Last(a) : SameR(a.m, p.m)
  BY RVSame, AccessR, SameRRefl
<1>. HIDE DEF Last
<1>3. \A a \in Access(n, x, RV!Junk) : MovesR(n, a.m) /\ FitR(a.m) /\ (a.ok => Unforced(a.m))
  BY ResumesR, AccessMovesR
<1>4. \A k, y, z : MovesR(k, y) /\ SameR(y, z) => MovesR(k, z) /\ FitR(z) /\ (Unforced(y) => Unforced(z))
  BY SameRHolds, HoldsRMoves, MovesRTrans DEF SameR, Unforced
<1> QED BY <1>1, <1>2, <1>3, <1>4 DEF RV!Then

(* A core that is needed halted is halted for it.                           *)
ServesR(n, o) ==
  /\ MovesR(n, o.m)
  /\ n.halted => o.m.halted
  /\ o.ok /\ Unforced(n) => Unforced(o.m)

\* The breakpoints are read with the core halted for it.
LEMMA RVReadsBriefly ==
  ASSUME Careful
  PROVE  \A n : FitR(n) => \A o \in RV!HwBreakpoints(n) : ServesR(n, o) /\ FitR(o.m)
<1> SUFFICES ASSUME NEW n, FitR(n), NEW o \in RV!HwBreakpoints(n) PROVE ServesR(n, o) /\ FitR(o.m)
  OBVIOUS
<1> DEFINE F(x) == RV!Then(RV!AvailableUnits(x), LAMBDA y : RV!ReadTriggers(y.m))
           Again(b) == RV!Then(F(b.m), LAMBDA p : RV!ResumeCore(p.m))
           Told(a) == IF a.val = RV!Yes THEN F(a.m) ELSE RV!Then(RV!Halt(a.m), Again)
<1>1. RV!HwBreakpoints(n) = RV!Then(RV!Poll(n), Told)
  BY DEF RV!HwBreakpoints, RV!Briefly, RV!ResumeAfter
<1>2. \A x : FitR(x) => \A p \in F(x) : SameR(x, p.m) /\ FitR(p.m)
  BY RVReadTriggers, SameRTrans DEF RV!Then, RV!AvailableUnits
<1>. HIDE DEF F
<1>3. \A b : FitR(b.m) => \A p \in Again(b) : MovesR(b.m, p.m) /\ (p.ok => Unforced(p.m))
  <2>1. \A k, x : SameR(k, x) => MovesR(k, x)
    BY SameRHolds, HoldsRMoves
  <2> QED BY <1>2, <2>1, RVResume, MovesRTrans DEF RV!Then
<1>. HIDE DEF Again
<1>4. \A a : FitR(a.m) /\ a.val # Yes => \A p \in Told(a) : MovesR(a.m, p.m) /\ (p.ok => Unforced(p.m))
  <2>1. \A b : \A c \in RV!Halt(b) : FitR(b) => MovesR(b, c.m) /\ FitR(c.m)
    BY RVHalt, HoldsRMoves
  <2>2. \A a : a.val # Yes => \A p \in Told(a) : \E b \in RV!Halt(a.m) : (~b.ok /\ p = b) \/ (b.ok /\ p \in Again(b))
    BY RVSame DEF RV!Then
  <2>. HIDE DEF Told
  <2> QED BY <1>3, <2>1, <2>2, MovesRTrans
<1>5. \A a : FitR(a.m) /\ a.val = Yes => \A p \in Told(a) : SameR(a.m, p.m)
  BY <1>2, RVSame
<1>. HIDE DEF Told
<1>6. PICK a \in Poll(n) : (~a.ok /\ o = a) \/ (a.ok /\ o \in Told(a))
  BY <1>1, RVSame DEF RV!Then
<1>7. HoldsR(n, a.m) /\ Watched(n, a.m) /\ (a.ok => (a.val = Yes <=> a.m.halted)) /\ FitR(a.m)
  BY PollR DEF HoldsR
<1>8. MovesR(n, a.m) /\ (n.halted => a.m.halted) /\ (Unforced(n) => Unforced(a.m))
  BY <1>7, HoldsRMoves, UnforcedR DEF HoldsR
<1>9. CASE ~a.ok
  BY <1>6, <1>7, <1>8, <1>9 DEF ServesR
<1>10. CASE a.ok /\ a.val = Yes
  <2>1. SameR(a.m, o.m)
    BY <1>5, <1>6, <1>7, <1>10
  <2>2. MovesR(n, o.m) /\ o.m.halted = a.m.halted /\ o.m.why = a.m.why /\ FitR(o.m)
    BY <1>8, <2>1, SameRHolds, HoldsRMoves, MovesRTrans DEF SameR
  <2> QED BY <1>8, <2>2 DEF ServesR, Unforced
<1>11. CASE a.ok /\ a.val # Yes
  <2>1. MovesR(a.m, o.m) /\ (o.ok => Unforced(o.m)) /\ ~a.m.halted
    BY <1>4, <1>6, <1>7, <1>11
  <2>2. ~n.halted
    BY <1>8, <2>1
  <2>3. MovesR(n, o.m) /\ FitR(o.m)
    BY <1>8, <2>1, MovesRTrans DEF MovesR
  <2> QED BY <2>1, <2>2, <2>3 DEF ServesR, Unforced
<1> QED BY <1>9, <1>10, <1>11

\* A breakpoint is cleared with the core halted for it.
LEMMA RVClear ==
  ASSUME Careful
  PROVE  \A n, u : FitR(n) => \A o \in RV!ClearHwBreakpoint(n, u) : ServesR(n, o) /\ FitR(o.m)
<1> SUFFICES ASSUME NEW n, NEW u, FitR(n), NEW o \in RV!ClearHwBreakpoint(n, u) PROVE ServesR(n, o) /\ FitR(o.m)
  OBVIOUS
<1> DEFINE Frees(c) == RV!WriteTrigger(c.m, [c.m EXCEPT !.bps[u] = RV!Free])
           Off(k) == [k EXCEPT !.on = @ \ {u}, !.off = @ \ {u}]
           Mid(x) == RV!Then(RV!WriteTrigger(x.m, Off(x.m)), Frees)
           F(x) == RV!Then(RV!SelectTrigger(x), Mid)
           Again(b) == RV!Then(F(b.m), LAMBDA p : RV!ResumeCore(p.m))
           Told(a) == IF a.val = RV!Yes THEN F(a.m) ELSE RV!Then(RV!Halt(a.m), Again)
<1>1. RV!ClearHwBreakpoint(n, u) = RV!Then(RV!Poll(n), Told)
  BY DEF RV!ClearHwBreakpoint, RV!Briefly, RV!ResumeAfter
<1>2. \A x : FitR(x) => \A p \in F(x) : SameR(x, p.m) /\ FitR(p.m)
  <2>0. \A k, x : FitR(k) => \A p \in RV!WriteTrigger(k, x) : SameR(k, p.m) /\ FitR(p.m)
    BY RVWriteTrigger, SameRHolds
  <2>f. \A c : FitR(c.m) => \A p \in Frees(c) : SameR(c.m, p.m)
    BY <2>0
  <2>. HIDE DEF Frees, Off
  <2>1. \A x : FitR(x.m) => \A p \in Mid(x) : SameR(x.m, p.m)
    <3>1. \A x : \A p \in Mid(x) :
            \E c \in RV!WriteTrigger(x.m, Off(x.m)) : p = c \/ p \in Frees(c)
      BY DEF RV!Then
    <3>. HIDE DEF Mid
    <3> QED BY <2>0, <2>f, <3>1, SameRTrans
  <2>. HIDE DEF Mid
  <2> QED BY <2>1, RVSelect, SameRHolds, SameRTrans DEF RV!Then
<1>. HIDE DEF F
<1>3. \A b : FitR(b.m) => \A p \in Again(b) : MovesR(b.m, p.m) /\ (p.ok => Unforced(p.m))
  <2>1. \A k, x : SameR(k, x) => MovesR(k, x)
    BY SameRHolds, HoldsRMoves
  <2> QED BY <1>2, <2>1, RVResume, MovesRTrans DEF RV!Then
<1>. HIDE DEF Again
<1>4. \A a : FitR(a.m) /\ a.val # Yes => \A p \in Told(a) : MovesR(a.m, p.m) /\ (p.ok => Unforced(p.m))
  <2>1. \A b : \A c \in RV!Halt(b) : FitR(b) => MovesR(b, c.m) /\ FitR(c.m)
    BY RVHalt, HoldsRMoves
  <2>2. \A a : a.val # Yes => \A p \in Told(a) : \E b \in RV!Halt(a.m) : (~b.ok /\ p = b) \/ (b.ok /\ p \in Again(b))
    BY RVSame DEF RV!Then
  <2>. HIDE DEF Told
  <2> QED BY <1>3, <2>1, <2>2, MovesRTrans
<1>5. \A a : FitR(a.m) /\ a.val = Yes => \A p \in Told(a) : SameR(a.m, p.m)
  BY <1>2, RVSame
<1>. HIDE DEF Told
<1>6. PICK a \in Poll(n) : (~a.ok /\ o = a) \/ (a.ok /\ o \in Told(a))
  BY <1>1, RVSame DEF RV!Then
<1>7. HoldsR(n, a.m) /\ Watched(n, a.m) /\ (a.ok => (a.val = Yes <=> a.m.halted)) /\ FitR(a.m)
  BY PollR DEF HoldsR
<1>8. MovesR(n, a.m) /\ (n.halted => a.m.halted) /\ (Unforced(n) => Unforced(a.m))
  BY <1>7, HoldsRMoves, UnforcedR DEF HoldsR
<1>9. CASE ~a.ok
  BY <1>6, <1>7, <1>8, <1>9 DEF ServesR
<1>10. CASE a.ok /\ a.val = Yes
  <2>1. SameR(a.m, o.m)
    BY <1>5, <1>6, <1>7, <1>10
  <2>2. MovesR(n, o.m) /\ o.m.halted = a.m.halted /\ o.m.why = a.m.why /\ FitR(o.m)
    BY <1>8, <2>1, SameRHolds, HoldsRMoves, MovesRTrans DEF SameR
  <2> QED BY <1>8, <2>2 DEF ServesR, Unforced
<1>11. CASE a.ok /\ a.val # Yes
  <2>1. MovesR(a.m, o.m) /\ (o.ok => Unforced(o.m)) /\ ~a.m.halted
    BY <1>4, <1>6, <1>7, <1>11
  <2>2. ~n.halted
    BY <1>8, <2>1
  <2>3. MovesR(n, o.m) /\ FitR(o.m)
    BY <1>8, <2>1, MovesRTrans DEF MovesR
  <2> QED BY <2>1, <2>2, <2>3 DEF ServesR, Unforced
<1> QED BY <1>9, <1>10, <1>11

\* A breakpoint is set.
LEMMA RVSetUnit ==
  ASSUME Careful
  PROVE  \A n, u, x : FitR(n) => \A o \in RV!SetHwBreakpoint(n, u, x) : SameR(n, o.m) /\ FitR(o.m)
<1> SUFFICES ASSUME NEW n, NEW u, NEW x, FitR(n), NEW o \in RV!SetHwBreakpoint(n, u, x)
             PROVE  SameR(n, o.m) /\ FitR(o.m)
  OBVIOUS
<1> DEFINE Puts(c) == RV!WriteTrigger(c.m, [c.m EXCEPT !.bps[u] = x])
           On(k) == [k EXCEPT !.on = @ \cup {u}, !.off = @ \ {u}]
           Enables1(b) == RV!Then(RV!WriteTrigger(b.m, On(b.m)), Puts)
           Reads(k) == RV!Then(RV!ReadCsr(k.m, "debug"), Enables1)
           Selects(a) == RV!Then(RV!SelectTrigger(a.m), Reads)
<1>1. RV!SetHwBreakpoint(n, u, x) = RV!Then(IF n.bpOn THEN {RV!Ok(n)} ELSE RV!EnableBreakpoints(n, TRUE), Selects)
  BY DEF RV!SetHwBreakpoint
<1>2. \A b : FitR(b.m) => \A p \in Enables1(b) : SameR(b.m, p.m)
  <2>0. \A k, y : FitR(k) => \A p \in RV!WriteTrigger(k, y) : SameR(k, p.m) /\ FitR(p.m)
    BY RVWriteTrigger, SameRHolds
  <2>1. \A c : FitR(c.m) => \A p \in Puts(c) : SameR(c.m, p.m)
    BY <2>0
  <2>. HIDE DEF Puts, On
  <2>2. \A b : \A p \in Enables1(b) :
          \E c \in RV!WriteTrigger(b.m, On(b.m)) : p = c \/ p \in Puts(c)
    BY DEF RV!Then
  <2>. HIDE DEF Enables1
  <2> QED BY <2>0, <2>1, <2>2, SameRTrans
<1>. HIDE DEF Enables1
<1>3. \A k : FitR(k.m) => \A p \in Reads(k) : SameR(k.m, p.m)
  BY <1>2, RVCsr, SameRTrans DEF RV!Then
<1>. HIDE DEF Reads
<1>4. \A a : FitR(a.m) => \A p \in Selects(a) : SameR(a.m, p.m)
  BY <1>3, RVSelect, SameRTrans DEF RV!Then
<1>. HIDE DEF Selects
<1> DEFINE first == IF n.bpOn THEN {RV!Ok(n)} ELSE RV!EnableBreakpoints(n, TRUE)
<1>5. \A a \in first : SameR(n, a.m) /\ FitR(a.m)
  <2>1. RV!Ok(n).m = n /\ SameR(n, n)
    BY RVSame, OutcomesGive, SameRRefl
  <2>2. FitR(n)
    OBVIOUS
  <2> QED BY <2>1, <2>2, RVEnable
<1>6. SameR(n, o.m)
  <2>1. o \in RV!Then(first, Selects)
    BY <1>1
  <2>. HIDE DEF first
  <2> QED BY <1>4, <1>5, <2>1, SameRTrans DEF RV!Then
<1> QED BY <1>6, SameRHolds

(* It is stepped, with the step bit set for it.                             *)
LEMMA RVSetStep ==
  ASSUME Careful
  PROVE  \A n : FitR(n) => /\ \A o \in RV!SetStep(n, TRUE) : SameR(n, o.m) /\ FitR(o.m)
                           /\ \A o \in RV!SetStep(n, FALSE) : SameR(n, o.m) /\ FitR(o.m)
<1>1. ASSUME NEW n, FitR(n), NEW b, NEW o \in RV!SetStep(n, b) PROVE SameR(n, o.m) /\ FitR(o.m)
  <2> DEFINE Last(a) == RV!WriteCsr(a.m, "dcsr", RV!Flag(b))
  <2>1. o \in RV!Then(RV!ReadCsr(n, "dcsr"), Last)
    BY <1>1 DEF RV!SetStep
  <2>2. \A a : FitR(a.m) => \A p \in Last(a) : SameR(a.m, p.m)
    BY RVCsr
  <2>. HIDE DEF Last
  <2>3. SameR(n, o.m)
    BY <1>1, <2>1, <2>2, RVCsr, SameRTrans DEF RV!Then
  <2> QED BY <2>3, SameRHolds
<1> QED BY <1>1

\* A core in the same place has not moved.
LEMMA SameRMoves == \A n, x : SameR(n, x) => MovesR(n, x) /\ FitR(x) /\ (n.halted => x.halted)
BY SameRHolds, HoldsRMoves

(* The core has moved, and is halted again if o.ok. *)
LandsR(n, o) == MovesR(n, o.m) /\ FitR(o.m) /\ (o.ok => o.m.halted)

\* When a core that has moved is halted again.
LEMMA LandsRIs ==
  /\ \A n, o : MovesR(n, o.m) /\ ~o.ok => LandsR(n, o)
  /\ \A n, o : MovesR(n, o.m) /\ o.m.halted => LandsR(n, o)
  /\ \A n, x, o : MovesR(n, x) /\ LandsR(x, o) => LandsR(n, o)
  /\ \A n, a, o : LandsR(n, a) /\ a.ok /\ SameR(a.m, o.m) => LandsR(n, o)
  /\ \A n, o : LandsR(n, o) => MovesR(n, o.m) /\ FitR(o.m)
<1>1. \A n, x : MovesR(n, x) => FitR(x)
  BY DEF MovesR
<1> QED BY <1>1, MovesRTrans, SameRMoves DEF LandsR

\* A step with interrupts masked ends halted.
LEMMA RVStepAway ==
  ASSUME Careful
  PROVE  \A n : FitR(n) => \A o \in RV!StepAway(n) : LandsR(n, o)
<1> SUFFICES ASSUME NEW n, FitR(n), NEW o \in RV!StepAway(n) PROVE LandsR(n, o)
  OBVIOUS
<1> DEFINE Off(k) == RV!SetStep(k, FALSE)
           On(k) == RV!SetStep(k, TRUE)
           Ends(d) == RV!Then(Off(d.m), LAMBDA e : {RV!Give(e.m, d.val)})
           Reads(c) == RV!Then(RV!ReadCsr(c.m, "pc"), Ends)
           Waits(b) == RV!Then(RV!AwaitHalt(b.m), Reads)
           Goes(a) == RV!Then(RV!ResumeCore(a.m), Waits)
<1>1. RV!StepAway(n) = RV!Then(On(n), Goes)
  BY DEF RV!StepAway
<1>0. \A k : FitR(k) => /\ \A p \in Off(k) : SameR(k, p.m)
                        /\ \A p \in On(k) : MovesR(k, p.m) /\ FitR(p.m)
  BY RVSetStep, SameRMoves
<1>. HIDE DEF Off, On
<1>2. \A d : FitR(d.m) => \A p \in Ends(d) : SameR(d.m, p.m)
  <2>1. \A k, v : RV!Give(k, v).m = k
    BY RVSame, OutcomesGive
  <2> QED BY <1>0, <2>1 DEF RV!Then
<1>. HIDE DEF Ends
<1>3. \A c : FitR(c.m) => \A p \in Reads(c) : SameR(c.m, p.m)
  BY <1>2, RVCsr, SameRTrans DEF RV!Then
<1>. HIDE DEF Reads
<1>4. \A b : FitR(b.m) => \A p \in Waits(b) : LandsR(b.m, p)
  <2>1. \A k : FitR(k) => \A p \in RV!AwaitHalt(k) : LandsR(k, p)
    BY RVSame, AwaitR, HoldsRMoves DEF LandsR, HoldsR
  <2> QED BY <1>3, <2>1, LandsRIs DEF RV!Then
<1>. HIDE DEF Waits
<1>5. \A a : FitR(a.m) => \A p \in Goes(a) : LandsR(a.m, p)
  BY <1>4, RVResume, LandsRIs DEF RV!Then
<1>. HIDE DEF Goes
<1> QED BY <1>0, <1>1, <1>5, LandsRIs DEF RV!Then

\* A step with the trigger taken away ends halted.
LEMMA RVStepOver ==
  ASSUME Careful
  PROVE  \A n : FitR(n) => \A o \in RV!StepOverTrigger(n) : LandsR(n, o)
<1> SUFFICES ASSUME NEW n, FitR(n), NEW o \in RV!StepOverTrigger(n) PROVE LandsR(n, o)
  OBVIOUS
<1> DEFINE On(k) == RV!EnableBreakpoints(k, TRUE)
           Off(k) == RV!EnableBreakpoints(k, FALSE)
           Ends(b) == RV!Then(On(b.m), LAMBDA c : {RV!Give(c.m, b.val)})
           Steps(a) == RV!Then(RV!StepAway(a.m), Ends)
<1>1. o \in RV!Then(Off(n), Steps)
  BY DEF RV!StepOverTrigger, RV!Unless
<1>0. \A k : FitR(k) => /\ \A p \in On(k) : SameR(k, p.m)
                        /\ \A p \in Off(k) : MovesR(k, p.m) /\ FitR(p.m)
  BY RVEnable, SameRMoves
<1>. HIDE DEF Off, On
<1>2. \A b : FitR(b.m) => \A p \in Ends(b) : SameR(b.m, p.m)
  <2>1. \A k, v : RV!Give(k, v).m = k
    BY RVSame, OutcomesGive
  <2> QED BY <1>0, <2>1 DEF RV!Then
<1>. HIDE DEF Ends
<1>3. \A a : FitR(a.m) => \A p \in Steps(a) : LandsR(a.m, p)
  BY <1>2, RVStepAway, LandsRIs DEF RV!Then
<1>. HIDE DEF Steps
<1> QED BY <1>0, <1>1, <1>3, LandsRIs DEF RV!Then

\* A step ends halted.
LEMMA RVStep ==
  ASSUME Careful
  PROVE  \A n : FitR(n) => \A o \in RV!Step(n) : LandsR(n, o)
<1> SUFFICES ASSUME NEW n, FitR(n), NEW o \in RV!Step(n) PROVE LandsR(n, o)
  OBVIOUS
<1> DEFINE Last(a, c) == {RV!Give(c.m, RV!Past(a.val))}
           Ends2(a, b) == RV!Then(RV!WriteCsr(b.m, "pc", RV!Past(a.val)), LAMBDA c : Last(a, c))
           Looks(a) == RV!Then(RV!ReadCsr(a.m, "debug"), LAMBDA b :
                         RV!Unless(a.val # RV!Own(a.m.epoch)["pc"], Ends2(a, b)))
           Skips1(s) == RV!Then(RV!ReadCsr(s.m, "pc"), Looks)
           Told(s) == CASE s.val = RV!Yes /\ s.m.why = "soft" /\ s.m.bpOn -> Skips1(s)
                        [] s.val = RV!Yes /\ s.m.why = "hard" -> RV!StepOverTrigger(s.m)
                        [] OTHER -> RV!StepAway(s.m)
<1>1. RV!Step(n) = RV!Then(RV!Status(n), Told)
  BY DEF RV!Step
<1>2. \A a, b : FitR(b.m) => \A p \in Ends2(a, b) : SameR(b.m, p.m)
  <2>1. \A k, v : RV!Give(k, v).m = k
    BY RVSame, OutcomesGive
  <2>2. \A a, c : \A p \in Last(a, c) : p.m = c.m
    BY <2>1
  <2>3. \A k, v : FitR(k) => \A p \in RV!WriteCsr(k, "pc", v) : SameR(k, p.m)
    BY RVCsr
  <2>. HIDE DEF Last
  <2> QED BY <2>2, <2>3 DEF RV!Then
<1>. HIDE DEF Ends2
<1>3. \A a : FitR(a.m) => \A p \in Looks(a) : SameR(a.m, p.m)
  <2>1. \A S, f : RV!Unless(f, S) \subseteq S
    BY DEF RV!Unless
  <2>2. \A a : \A p \in Looks(a) : \E b \in RV!ReadCsr(a.m, "debug") : p = b \/ p \in Ends2(a, b)
    BY <2>1 DEF RV!Then
  <2>. HIDE DEF Looks
  <2> QED BY <1>2, <2>2, RVCsr, SameRTrans
<1>. HIDE DEF Looks
<1>4. \A s : FitR(s.m) => \A p \in Skips1(s) : SameR(s.m, p.m)
  BY <1>3, RVCsr, SameRTrans DEF RV!Then
<1>. HIDE DEF Skips1
<1>5. \A s : FitR(s.m) /\ (s.val = Yes => s.m.halted) => \A p \in Told(s) : LandsR(s.m, p)
  <2>1. \A s : \A p \in Told(s) : (s.val = Yes /\ p \in Skips1(s)) \/ p \in RV!StepOverTrigger(s.m) \/ p \in RV!StepAway(s.m)
    BY RVSame
  <2>2. \A k, p : SameR(k, p.m) /\ k.halted => LandsR(k, p)
    BY SameRMoves, LandsRIs
  <2>. HIDE DEF Told
  <2> QED BY <1>4, <2>1, <2>2, RVStepOver, RVStepAway
<1>. HIDE DEF Told
<1>6. \A s \in RV!Status(n) : MovesR(n, s.m) /\ FitR(s.m) /\ (s.ok => (s.val = Yes => s.m.halted))
  BY RVStatus, LooksSameR, HoldsRMoves
<1> QED BY <1>1, <1>5, <1>6, LandsRIs DEF RV!Then

(* It is run, reset, and left.                                              *)
LEMMA RVRun ==
  ASSUME Careful
  PROVE  \A n : FitR(n) => \A o \in RV!Run(n) : MovesR(n, o.m) /\ FitR(o.m) /\ (o.ok => Unforced(o.m))
BY RVStep, LandsRIs, RVResume, MovesRTrans DEF RV!Run, RV!Then

\* Breakpoint instructions are made to halt the core.
LEMMA RVTraps ==
  ASSUME Careful
  PROVE  \A n : FitR(n) => \A o \in RV!DebugOnSwBreakpoint(n) : SameR(n, o.m) /\ FitR(o.m)
<1> SUFFICES ASSUME NEW n, FitR(n), NEW o \in RV!DebugOnSwBreakpoint(n) PROVE SameR(n, o.m) /\ FitR(o.m)
  OBVIOUS
<1> DEFINE Last(a) == RV!WriteCsr(a.m, "dcsr", a.val)
<1>1. o \in RV!Then(RV!ReadCsr(n, "dcsr"), Last)
  BY DEF RV!DebugOnSwBreakpoint
<1>2. \A a : FitR(a.m) => \A p \in Last(a) : SameR(a.m, p.m)
  BY RVCsr
<1>. HIDE DEF Last
<1>3. SameR(n, o.m)
  BY <1>1, <1>2, RVCsr, SameRTrans DEF RV!Then
<1> QED BY <1>3, SameRHolds

\* The core is reset and halts.
LEMMA RVResetAndHalt ==
  ASSUME Careful
  PROVE  \A n : FitR(n) => \A o \in RV!ResetAndHalt(n) : LandsR(n, o)
<1> SUFFICES ASSUME NEW n, FitR(n), NEW o \in RV!ResetAndHalt(n) PROVE LandsR(n, o)
  OBVIOUS
<1> DEFINE Again(k) == RV!Access(k, k, RV!Junk)
           Anew(k) == RV!Access(k, [RV!WasReset(k) EXCEPT !.armed = FALSE], RV!Junk)
           Reads(e) == RV!ReadCsr(e.m, "pc")
           Traps(d) == RV!Then(RV!DebugOnSwBreakpoint(d.m), Reads)
           Acks(c) == RV!Then(Again(c.m), Traps)
           Waits(b) == RV!Then(RV!AwaitHalt(b.m), Acks)
           Pulses(a) == RV!Then(Anew(a.m), Waits)
<1>1. RV!ResetAndHalt(n) = RV!Then(Again(n), Pulses)
  BY DEF RV!ResetAndHalt
<1>2. \A k : FitR(k) => /\ \A p \in Again(k) : SameR(k, p.m) /\ FitR(p.m)
                        /\ \A p \in Anew(k) : MovesR(k, p.m) /\ FitR(p.m)
  BY RVSame, AccessR, SameRRefl, SameRHolds, ResetR, AccessMovesR
<1>. HIDE DEF Again, Anew
<1>3. \A k : FitR(k) => \A p \in RV!DebugOnSwBreakpoint(k) : SameR(k, p.m) /\ FitR(p.m)
  BY RVTraps
<1>4. \A d : FitR(d.m) => \A p \in Traps(d) : SameR(d.m, p.m)
  BY <1>3, RVCsr, SameRTrans DEF RV!Then
<1>. HIDE DEF Traps
<1>5. \A c : FitR(c.m) => \A p \in Acks(c) : SameR(c.m, p.m)
  BY <1>2, <1>4, SameRTrans DEF RV!Then
<1>. HIDE DEF Acks
<1>6. \A b : FitR(b.m) => \A p \in Waits(b) : LandsR(b.m, p)
  <2>1. \A k : FitR(k) => \A p \in RV!AwaitHalt(k) : LandsR(k, p)
    BY RVSame, AwaitR, HoldsRMoves DEF LandsR, HoldsR
  <2> QED BY <1>5, <2>1, LandsRIs DEF RV!Then
<1>. HIDE DEF Waits
<1>7. \A a : FitR(a.m) => \A p \in Pulses(a) : LandsR(a.m, p)
  BY <1>2, <1>6, LandsRIs DEF RV!Then
<1>. HIDE DEF Pulses
<1> QED BY <1>1, <1>2, <1>7, SameRMoves, LandsRIs DEF RV!Then

\* The core is reset and runs.
LEMMA RVReset ==
  ASSUME Careful
  PROVE  \A n : FitR(n) => \A o \in RV!Reset(n) : MovesR(n, o.m) /\ FitR(o.m) /\ (o.ok => Unforced(o.m))
BY RVResetAndHalt, LandsRIs, RVResume, MovesRTrans DEF RV!Reset, RV!Then

\* The debugger leaves the core.
LEMMA RVLeave ==
  ASSUME Careful
  PROVE  \A n : FitR(n) => \A o \in RV!Leave(n) : SameR(n, o.m) /\ FitR(o.m)
BY RVTraps DEF RV!Leave

\* A register is read, or written.
LEMMA RVRegisters ==
  ASSUME Careful
  PROVE  \A n, r : FitR(n) => /\ \A o \in RV!ReadReg(n, r) : SameR(n, o.m) /\ FitR(o.m)
                              /\ \A o \in RV!WriteReg(n, r) : SameR(n, o.m) /\ FitR(o.m)
BY RVCsr DEF RV!ReadReg, RV!WriteReg

\* A new driver is in order.
LEMMA RVNew ==
  \A b, c : \A o \in RV!New(NewTarget, b, c) : FitR(o.m)
<1> SUFFICES ASSUME NEW b, NEW c PROVE \A o \in RV!New(NewTarget, b, c) : FitR(o.m)
  OBVIOUS
<1> DEFINE t == [NewTarget EXCEPT !.causes = {"soft", "hard"}]
           d == [buf |-> <<RV!Ebreak, RV!Ebreak>>, pbc |-> <<RV!Ins("none", "s0"), RV!Ins("none", "s0")>>,
                 sysbus |-> b, csrCmd |-> c, sberr |-> FALSE, on |-> {}, off |-> {}, bpOn |-> FALSE]
           x == RV!Driven(t, d)
<1>1. RV!New(NewTarget, b, c) = {RV!Ok(x)}
  BY DEF RV!New
<1>2. DOMAIN x = DOMAIN t \cup DOMAIN d /\ \A g \in DOMAIN x : x[g] = IF g \in DOMAIN t THEN t[g] ELSE d[g]
  <2>. HIDE DEF t, d
  <2> QED BY DEF RV!Driven
<1>3. /\ DOMAIN t = CoreFields
      /\ t.halted = FALSE /\ t.causes = {"soft", "hard"}
      /\ t.mem = [a \in Lanes |-> 0] /\ t.regs = Own(0)
  BY DEF NewTarget, CoreFields
<1>4. DOMAIN d = {"buf", "pbc", "sysbus", "csrCmd", "sberr", "on", "off", "bpOn"} /\ d.buf = <<RV!Ebreak, RV!Ebreak>>
  OBVIOUS
<1>. HIDE DEF x, t, d
<1>5. /\ FieldsR \subseteq DOMAIN x
      /\ x.halted = FALSE /\ x.causes = {"soft", "hard"}
      /\ x.mem = [a \in Lanes |-> 0] /\ x.regs = Own(0)
      /\ x.buf = <<RV!Ebreak, RV!Ebreak>>
  BY <1>2, <1>3, <1>4 DEF FieldsR, CoreFields
<1>6. x.buf = <<x.buf[1], x.buf[2]>> /\ x.buf[2] = RV!Ebreak
  BY <1>5
<1>7. FitR(x)
  BY <1>5, <1>6 DEF FitR, Own
<1> QED BY <1>1, <1>7, RVSame, OutcomesGive

-----------------------------------------------------------------------------
(* The driver of Xtensa.                                                  *)

(* The operators of CoreAccess are the same for the driver of Xtensa. *)
LEMMA XtSame ==
  \A n, x, v :
    /\ Xt!Access(n, x, v) = Access(n, x, v) /\ Xt!Give(n, v) = Give(n, v)
    /\ Xt!Ok(n) = Ok(n) /\ Xt!Err(n) = Err(n) /\ Xt!Fail(n) = Fail(n)
    /\ Xt!Stops(n) = Stops(n) /\ Xt!Stopped(n) = Stopped(n)
    /\ Xt!Poll(n) = Poll(n) /\ Xt!AwaitHalt(n) = AwaitHalt(n) /\ Xt!Yes = Yes
    /\ Xt!Restarted(n) = Restarted(n) /\ Xt!WasReset(n) = WasReset(n)
<1>1. /\ Xt!Junk = Junk /\ Xt!Units = Units /\ Xt!Free = Free /\ Xt!Regs = Regs
      /\ \A b : Xt!Flag(b) = Flag(b)
  BY DEF Xt!Junk, Junk, Xt!Units, Units, Xt!Free, Free, Xt!Regs, Regs, Xt!Flag, Flag
<1>2. /\ Xt!Yes = Yes /\ \A e : Xt!Own(e) = Own(e)
  BY <1>1 DEF Xt!Yes, Yes, Xt!Own, Own
<1>3. \A n, v : Xt!Give(n, v) = Give(n, v) /\ Xt!Err(n) = Err(n) /\ Xt!Fail(n) = Fail(n)
  BY <1>1 DEF Xt!Give, Give, Xt!Err, Err, Xt!Fail, Fail
<1>4. \A n, x, v : Xt!Access(n, x, v) = Access(n, x, v) /\ Xt!Ok(n) = Ok(n)
  BY <1>1, <1>3 DEF Xt!Access, Access, Xt!Ok, Ok
<1>5. \A n : Xt!Stopped(n) = Stopped(n) /\ Xt!Reasons(n) = Reasons(n)
  BY <1>1 DEF Xt!Stopped, Stopped, Xt!Reasons, Reasons
<1>6. \A n : Xt!Stops(n) = Stops(n)
  BY <1>5 DEF Xt!Stops, Stops
<1>7. \A n : Xt!Poll(n) = Poll(n)
  BY <1>1, <1>4, <1>6 DEF Xt!Poll, Poll
<1>8. \A n : Xt!AwaitHalt(n) = AwaitHalt(n)
  BY <1>2, <1>3, <1>4, <1>5, <1>6 DEF Xt!AwaitHalt, AwaitHalt
<1>9. \A n : Xt!Restarted(n) = Restarted(n) /\ Xt!WasReset(n) = WasReset(n)
  BY <1>2 DEF Xt!Restarted, Restarted, Xt!WasReset, WasReset
<1> QED BY <1>2, <1>3, <1>4, <1>5, <1>6, <1>7, <1>8, <1>9

(* What the driver of Xtensa relies on: a core that it takes to be halted   *)
(* is, for it resumes it by itself only.                                    *)
FieldsX == CoreFields \cup {"sh", "saved", "kept", "pcw", "bset", "on", "bpOn"}
FitX(n) ==
  /\ FieldsX \subseteq DOMAIN n
  /\ n.halted \in BOOLEAN /\ "request" \notin n.causes
  /\ n.mem \in [Lanes -> {0, 1}] /\ DOMAIN n.regs = Regs
  /\ n.sh \in BOOLEAN
  /\ n.sh => n.halted

(* The core stays where it is, may stop by itself, or may have run.        *)
SameX(n, x) ==
  /\ FitX(n) /\ FitX(x) /\ x.causes = n.causes /\ x.mem = n.mem
  /\ x.halted = n.halted /\ x.why = n.why /\ x.sh = n.sh
HoldsX(n, x) ==
  /\ FitX(n) /\ FitX(x) /\ x.causes = n.causes /\ x.mem = n.mem
  /\ n.halted => x.halted /\ x.why = n.why
MovesX(n, x) == FitX(n) /\ FitX(x) /\ x.causes = n.causes /\ x.mem = n.mem

\* Twice in the same place is in the same place.
LEMMA SameXTrans == \A a, b, c : SameX(a, b) /\ SameX(b, c) => SameX(a, c)
BY DEF SameX

\* So is twice where it was.
LEMMA HoldsXTrans == \A a, b, c : HoldsX(a, b) /\ HoldsX(b, c) => HoldsX(a, c)
BY DEF HoldsX

\* Two moves are a move.
LEMMA MovesXTrans == \A a, b, c : MovesX(a, b) /\ MovesX(b, c) => MovesX(a, c)
BY DEF MovesX

\* A core in the same place is where it was.
LEMMA SameXHolds == \A n, x : SameX(n, x) => HoldsX(n, x) /\ Watched(n, x) /\ FitX(x) /\ x.halted = n.halted
BY DEF SameX, HoldsX, Watched

\* What leaves the core where it is may be called a move.
LEMMA HoldsXMoves == \A n, x : HoldsX(n, x) => MovesX(n, x)
BY DEF HoldsX, MovesX

(* Fields that say nothing of the core.                                     *)
SlackX == {"faults", "regs", "armed", "bps", "saved", "kept", "pcw", "bset", "on", "bpOn"}

\* The fields that say nothing of the core change.
LEMMA SlackSameX ==
  \A n, x : FitX(n) /\ Changed(n, x, SlackX) /\ DOMAIN x.regs = Regs => SameX(n, x)
<1> SUFFICES ASSUME NEW n, NEW x, FitX(n), Changed(n, x, SlackX), DOMAIN x.regs = Regs
             PROVE  SameX(n, x)
  OBVIOUS
<1>1. {"halted", "causes", "mem", "why", "sh"} \subseteq DOMAIN n \ SlackX
  BY DEF FitX, FieldsX, CoreFields, SlackX
<1>2. \A g \in {"halted", "causes", "mem", "why", "sh"} : x[g] = n[g]
  BY <1>1 DEF Changed
<1>3. x.halted = n.halted /\ x.causes = n.causes /\ x.mem = n.mem /\ x.why = n.why /\ x.sh = n.sh
  BY <1>2
<1>4. DOMAIN x = DOMAIN n
  BY DEF Changed
<1> QED BY <1>3, <1>4 DEF SameX, FitX

\* To do nothing, or to fail, leaves the core in the same place.
LEMMA SameXRefl == \A n : FitX(n) => SameX(n, n) /\ SameX(n, Spent(n)) /\ Spent(n).regs = n.regs
<1> SUFFICES ASSUME NEW n, FitX(n) PROVE SameX(n, Spent(n)) /\ Spent(n).regs = n.regs
  BY DEF SameX
<1>1. Changed(n, Spent(n), SlackX) /\ Spent(n).regs = n.regs
  BY SpentChanged, ChangedMore DEF SlackX, Spent
<1> QED BY <1>1, SlackSameX DEF FitX

\* One access of the probe leaves it where the operation does.
LEMMA AccessX ==
  \A n, x, v : SameX(n, x) => \A o \in Access(n, x, v) : SameX(n, o.m) /\ (o.ok => o.m = x /\ o.val = v)
<1> SUFFICES ASSUME NEW n, NEW x, NEW v, SameX(n, x), NEW o \in Access(n, x, v)
             PROVE  SameX(n, o.m) /\ (o.ok => o.m = x /\ o.val = v)
  OBVIOUS
<1>1. (o.ok /\ o.m = x /\ o.val = v) \/ (~o.ok /\ o.m \in {Spent(n), Spent(x)})
  BY AccessGives
<1>2. FitX(n) /\ FitX(x)
  BY DEF SameX
<1> QED BY <1>1, <1>2, SameXRefl, SameXTrans

\* To look at the core may find that it stopped.
LEMMA LookX ==
  \A n, x : FitX(n) /\ Changed(n, x, Look) /\ x.halted \in BOOLEAN /\ (n.halted => x.halted)
              => MovesX(n, x) /\ x.regs = n.regs
<1> SUFFICES ASSUME NEW n, NEW x, FitX(n), Changed(n, x, Look), x.halted \in BOOLEAN, n.halted => x.halted
             PROVE  MovesX(n, x) /\ x.regs = n.regs
  OBVIOUS
<1>1. {"causes", "mem", "sh", "regs"} \subseteq DOMAIN n \ Look
  BY DEF FitX, FieldsX, CoreFields, Look
<1>2. \A g \in {"causes", "mem", "sh", "regs"} : x[g] = n[g]
  BY <1>1 DEF Changed
<1>3. x.causes = n.causes /\ x.mem = n.mem /\ x.regs = n.regs /\ x.sh = n.sh
  BY <1>2
<1>4. DOMAIN x = DOMAIN n
  BY DEF Changed
<1> QED BY <1>3, <1>4 DEF MovesX, FitX

\* The state of the core is read once.
LEMMA PollX ==
  \A n : FitX(n) => \A o \in Poll(n) :
    HoldsX(n, o.m) /\ Watched(n, o.m) /\ (o.ok => (o.val = Yes <=> o.m.halted))
<1> SUFFICES ASSUME NEW n, FitX(n), NEW o \in Poll(n)
             PROVE  HoldsX(n, o.m) /\ Watched(n, o.m) /\ (o.ok => (o.val = Yes <=> o.m.halted))
  OBVIOUS
<1>1. /\ Changed(n, o.m, Look) /\ Watched(n, o.m) /\ o.m.halted \in BOOLEAN
      /\ o.ok => (o.val = Yes <=> o.m.halted)
  BY PollGives DEF FitX, FieldsX, CoreFields
<1>2. MovesX(n, o.m)
  BY <1>1, LookX DEF Watched
<1> QED BY <1>1, <1>2 DEF MovesX, HoldsX, Watched

\* The driver waits for it to halt.
LEMMA AwaitX ==
  \A n : FitX(n) => \A o \in AwaitHalt(n) : HoldsX(n, o.m) /\ (o.ok => o.m.halted)
<1> SUFFICES ASSUME NEW n, FitX(n), NEW o \in AwaitHalt(n)
             PROVE  HoldsX(n, o.m) /\ (o.ok => o.m.halted)
  OBVIOUS
<1>1. /\ Changed(n, o.m, Look) /\ o.m.halted \in BOOLEAN
      /\ n.halted => o.m.halted /\ o.m.why = n.why
      /\ o.ok => o.m.halted
  BY AwaitGives DEF FitX, FieldsX, CoreFields
<1>2. MovesX(n, o.m)
  BY <1>1, LookX
<1> QED BY <1>1, <1>2 DEF MovesX, HoldsX

\* A core that only stops by itself is not held by the debugger.
LEMMA UnforcedX == \A n, x : FitX(n) /\ Watched(n, x) /\ Unforced(n) => Unforced(x)
BY DEF FitX, Watched, Unforced

(* An instruction is carried out by a halted core, and not by another.     *)
LEMMA XtExecute ==
  \A n, x, v : FitX(n) /\ SameX(n, x) => \A o \in Xt!Execute(n, x, v) :
    /\ SameX(n, o.m) /\ FitX(o.m)
    /\ o.ok /\ n.halted => o.m = x /\ o.val = v
<1> SUFFICES ASSUME NEW n, NEW x, NEW v, FitX(n), SameX(n, x), NEW o \in Xt!Execute(n, x, v)
             PROVE  /\ SameX(n, o.m) /\ FitX(o.m)
                    /\ o.ok /\ n.halted => o.m = x /\ o.val = v
  OBVIOUS
<1>1. SameX(n, n)
  BY SameXRefl
<1>2. CASE n.halted
  <2>1. o \in Access(n, x, v)
    BY <1>2, XtSame DEF Xt!Execute
  <2> QED BY <2>1, AccessX, SameXHolds
<1>3. CASE ~n.halted
  <2>1. o \in Access(n, n, Xt!Junk)
    BY <1>3, XtSame DEF Xt!Execute
  <2> QED BY <1>1, <1>3, <2>1, AccessX, SameXHolds
<1> QED BY <1>2, <1>3

\* A register is given a value.
LEMMA GivenX ==
  \A n, r, v : FitX(n) => /\ SameX(n, Given(n, r, v)) /\ FitX(Given(n, r, v))
                          /\ r \in Regs => Given(n, r, v).regs[r] = v
<1> SUFFICES ASSUME NEW n, NEW r, NEW v, FitX(n)
             PROVE  /\ SameX(n, Given(n, r, v)) /\ FitX(Given(n, r, v))
                    /\ r \in Regs => Given(n, r, v).regs[r] = v
  OBVIOUS
<1>1. "regs" \in DOMAIN n /\ DOMAIN n.regs = Regs
  BY DEF FitX, FieldsX, CoreFields
<1>2. Changed(n, Given(n, r, v), SlackX) /\ Given(n, r, v).regs = [n.regs EXCEPT ![r] = v]
  BY <1>1 DEF Changed, SlackX, Given
<1> QED BY <1>1, <1>2, SlackSameX, SameXHolds

(* Fields that a driver may write while nothing moves.                      *)
Arms(n, b) == [n EXCEPT !.armed = b]
Lets(n, us) == [n EXCEPT !.on = us]
Puts(n, u, x) == [n EXCEPT !.bps[u] = x]
Uses(n, us) == [n EXCEPT !.bset = us]
Knows(n, b) == [n EXCEPT !.pcw = b]
Keeps(n, s) == [n EXCEPT !.saved = s]
KeepsValue(n, s, v) == [n EXCEPT !.saved = s, !.kept = v]

\* Each of the fields that say nothing of the core is set.
LEMMA FieldsOfX ==
  \A n, a, b : FitX(n) =>
    /\ SameX(n, Arms(n, a)) /\ SameX(n, Lets(n, a)) /\ SameX(n, Puts(n, a, b))
    /\ SameX(n, Uses(n, a)) /\ SameX(n, Knows(n, a)) /\ SameX(n, Keeps(n, a))
    /\ SameX(n, KeepsValue(n, a, b)) /\ SameX(n, Enables(n, a))
<1> SUFFICES ASSUME NEW n, NEW a, NEW b, FitX(n)
             PROVE  /\ SameX(n, Arms(n, a)) /\ SameX(n, Lets(n, a)) /\ SameX(n, Puts(n, a, b))
                    /\ SameX(n, Uses(n, a)) /\ SameX(n, Knows(n, a)) /\ SameX(n, Keeps(n, a))
                    /\ SameX(n, KeepsValue(n, a, b)) /\ SameX(n, Enables(n, a))
  OBVIOUS
<1>0. DOMAIN n.regs = Regs
  BY DEF FitX
<1>1. Changed(n, Arms(n, a), SlackX) /\ Arms(n, a).regs = n.regs
  BY DEF Changed, SlackX, Arms
<1>2. Changed(n, Lets(n, a), SlackX) /\ Lets(n, a).regs = n.regs
  BY DEF Changed, SlackX, Lets
<1>3. Changed(n, Puts(n, a, b), SlackX) /\ Puts(n, a, b).regs = n.regs
  BY DEF Changed, SlackX, Puts
<1>4. Changed(n, Uses(n, a), SlackX) /\ Uses(n, a).regs = n.regs
  BY DEF Changed, SlackX, Uses
<1>5. Changed(n, Knows(n, a), SlackX) /\ Knows(n, a).regs = n.regs
  BY DEF Changed, SlackX, Knows
<1>6. Changed(n, Keeps(n, a), SlackX) /\ Keeps(n, a).regs = n.regs
  BY DEF Changed, SlackX, Keeps
<1>7. Changed(n, KeepsValue(n, a, b), SlackX) /\ KeepsValue(n, a, b).regs = n.regs
  <2>1. /\ DOMAIN KeepsValue(n, a, b) = DOMAIN n
        /\ \A g \in DOMAIN n : g \notin {"saved", "kept"} => KeepsValue(n, a, b)[g] = n[g]
    BY DEF KeepsValue
  <2> QED BY <2>1 DEF Changed, SlackX, FitX, FieldsX, CoreFields
<1>8. Changed(n, Enables(n, a), SlackX) /\ Enables(n, a).regs = n.regs
  BY DEF Changed, SlackX, Enables
<1> QED BY <1>0, <1>1, <1>2, <1>3, <1>4, <1>5, <1>6, <1>7, <1>8, SlackSameX

\* A register of the CPU is read or written by an instruction of a halted core.
LEMMA XtCpu ==
  \A n, r : FitX(n) =>
    /\ \A o \in Xt!CpuRead(n, r) : SameX(n, o.m) /\ FitX(o.m) /\ (o.ok /\ n.halted => o.m = n)
    /\ \A v : \A o \in Xt!CpuWrite(n, r, v) :
         SameX(n, o.m) /\ FitX(o.m) /\ (o.ok /\ n.halted => o.m = Given(n, r, v))
BY XtExecute, GivenX, SameXRefl DEF Xt!CpuRead, Xt!CpuWrite, Given

(* The scratch register is restored.                                        *)
LEMMA XtRestore ==
  \A S, v : \A o \in Xt!RestoreScratch(S, v) :
    \E a \in S : (FitX(a.m) => SameX(a.m, o.m)) /\ (o.ok => a.ok /\ o.val = a.val)
<1> SUFFICES ASSUME NEW S, NEW v, NEW o \in Xt!RestoreScratch(S, v)
             PROVE  \E a \in S : (FitX(a.m) => SameX(a.m, o.m)) /\ (o.ok => a.ok /\ o.val = a.val)
  OBVIOUS
<1>1. \A k, w : Xt!Give(k, w).m = k /\ Xt!Give(k, w).ok /\ Xt!Give(k, w).val = w
  BY XtSame, OutcomesGive
<1> DEFINE Inner(a) == Xt!Then(Xt!CpuWrite(a.m, "s0", v), LAMBDA p : {Xt!Give(p.m, a.val)})
<1>2. \A a : \A q \in Inner(a) :
        \E p \in Xt!CpuWrite(a.m, "s0", v) : (~p.ok /\ q = p) \/ (p.ok /\ q = Xt!Give(p.m, a.val))
  BY DEF Xt!Then
<1>3. Xt!RestoreScratch(S, v) = Xt!Then(S, Inner)
  BY DEF Xt!RestoreScratch
<1>. HIDE DEF Inner
<1>4. PICK a \in S : (~a.ok /\ o = a) \/ (a.ok /\ o \in Inner(a))
  BY <1>3 DEF Xt!Then
<1>5. CASE ~a.ok /\ o = a
  BY <1>5, SameXRefl
<1>6. CASE a.ok /\ o \in Inner(a)
  <2>1. PICK p \in Xt!CpuWrite(a.m, "s0", v) : (~p.ok /\ o = p) \/ (p.ok /\ o = Xt!Give(p.m, a.val))
    BY <1>2, <1>6
  <2>2. o.m = p.m /\ (o.ok => p.ok /\ o.val = a.val)
    BY <1>1, <2>1
  <2>3. FitX(a.m) => SameX(a.m, p.m)
    BY XtCpu
  <2> QED BY <1>6, <2>2, <2>3
<1> QED BY <1>4, <1>5, <1>6

(* Special registers are read and written through the scratch register.     *)
LEMMA XtReadSpecial ==
  ASSUME Careful
  PROVE  \A n, v : FitX(n) => \A o \in Xt!ReadSpecial(n, v) : SameX(n, o.m) /\ FitX(o.m)
<1> SUFFICES ASSUME NEW n, NEW v, FitX(n), NEW o \in Xt!ReadSpecial(n, v)
             PROVE  SameX(n, o.m) /\ FitX(o.m)
  OBVIOUS
<1> DEFINE E(x) == [x EXCEPT !.regs["s0"] = v]
           F(x) == Xt!Execute(x, E(x), v)
           Last(a) == Xt!RestoreScratch(F(a.m), a.val)
<1>1. o \in Xt!Then(Xt!SaveScratch(n), Last)
  BY DEF Xt!ReadSpecial, Xt!WithScratch, Xt!Unless
<1>2. \A x : FitX(x) => \A p \in F(x) : SameX(x, p.m) /\ FitX(p.m)
  <2>1. \A k : E(k) = Given(k, "s0", v)
    BY DEF Given
  <2>. HIDE DEF E
  <2> QED BY <2>1, GivenX, XtExecute
<1>. HIDE DEF F
<1>3. \A a : FitX(a.m) => \A p \in Last(a) : SameX(a.m, p.m) /\ FitX(p.m)
  <2> SUFFICES ASSUME NEW a, FitX(a.m), NEW p \in Last(a) PROVE SameX(a.m, p.m) /\ FitX(p.m)
    OBVIOUS
  <2>1. PICK b \in F(a.m) : FitX(b.m) => SameX(b.m, p.m)
    BY XtRestore
  <2>2. SameX(a.m, b.m) /\ FitX(b.m)
    BY <1>2, <2>1
  <2> QED BY <2>1, <2>2, SameXTrans, SameXHolds
<1>. HIDE DEF Last
<1>4. \A a \in Xt!SaveScratch(n) : SameX(n, a.m) /\ FitX(a.m)
  BY XtCpu DEF Xt!SaveScratch
<1> QED BY <1>1, <1>3, <1>4, SameXTrans DEF Xt!Then

\* A register outside the CPU is written through the scratch register.
LEMMA XtWriteFar ==
  ASSUME Careful
  PROVE  \A n, r, v : FitX(n) /\ ~Xt!IsCpu(r) => \A o \in Xt!WriteRegister(n, r, v) : SameX(n, o.m) /\ FitX(o.m)
<1> SUFFICES ASSUME NEW n, NEW r, NEW v, FitX(n), ~Xt!IsCpu(r), NEW o \in Xt!WriteRegister(n, r, v)
             PROVE  SameX(n, o.m) /\ FitX(o.m)
  OBVIOUS
<1> DEFINE E(x) == [x EXCEPT !.regs[r] = v]
           Ends(y) == Xt!Execute(y.m, E(y.m), Xt!Junk)
           F(x) == Xt!Then(Xt!LoadScratch(x, v), Ends)
           Last(a) == Xt!RestoreScratch(F(a.m), a.val)
<1>1. o \in Xt!Then(Xt!SaveScratch(n), Last)
  BY DEF Xt!WriteRegister, Xt!WriteSpecial, Xt!WithScratch, Xt!Unless
<1>e. \A y : FitX(y.m) => \A p \in Ends(y) : SameX(y.m, p.m) /\ FitX(p.m)
  <2>1. \A k : E(k) = Given(k, r, v)
    BY DEF Given
  <2>. HIDE DEF E
  <2>2. \A k : FitX(k) => SameX(k, Given(k, r, v))
    BY GivenX
  <2> QED BY <2>1, <2>2, XtExecute
<1>. HIDE DEF Ends
<1>2. \A x : FitX(x) => \A p \in F(x) : SameX(x, p.m) /\ FitX(p.m)
  <2>1. \A x, w : FitX(x) => \A y \in Xt!LoadScratch(x, w) : SameX(x, y.m) /\ FitX(y.m)
    BY XtCpu DEF Xt!LoadScratch
  <2> QED BY <1>e, <2>1, SameXTrans DEF Xt!Then
<1>. HIDE DEF F
<1>3. \A a : FitX(a.m) => \A p \in Last(a) : SameX(a.m, p.m) /\ FitX(p.m)
  <2> SUFFICES ASSUME NEW a, FitX(a.m), NEW p \in Last(a) PROVE SameX(a.m, p.m) /\ FitX(p.m)
    OBVIOUS
  <2>1. PICK b \in F(a.m) : FitX(b.m) => SameX(b.m, p.m)
    BY XtRestore
  <2>2. SameX(a.m, b.m) /\ FitX(b.m)
    BY <1>2, <2>1
  <2> QED BY <2>1, <2>2, SameXTrans, SameXHolds
<1>. HIDE DEF Last
<1>4. \A a \in Xt!SaveScratch(n) : SameX(n, a.m) /\ FitX(a.m)
  BY XtCpu DEF Xt!SaveScratch
<1> QED BY <1>1, <1>3, <1>4, SameXTrans DEF Xt!Then

\* So is one that the debugger does not see.
LEMMA XtWriteOther ==
  ASSUME Careful
  PROVE  \A n : FitX(n) => \A o \in Xt!WriteOther(n) : SameX(n, o.m) /\ FitX(o.m)
<1> SUFFICES ASSUME NEW n, FitX(n), NEW o \in Xt!WriteOther(n)
             PROVE  SameX(n, o.m) /\ FitX(o.m)
  OBVIOUS
<1> DEFINE E(x) == x
           Ends(y) == Xt!Execute(y.m, E(y.m), Xt!Junk)
           F(x) == Xt!Then(Xt!LoadScratch(x, Xt!Junk), Ends)
           Last(a) == Xt!RestoreScratch(F(a.m), a.val)
<1>1. o \in Xt!Then(Xt!SaveScratch(n), Last)
  BY DEF Xt!WriteOther, Xt!WriteSpecial, Xt!WithScratch, Xt!Unless
<1>e. \A y : FitX(y.m) => \A p \in Ends(y) : SameX(y.m, p.m) /\ FitX(p.m)
  <2>1. \A k : E(k) = k
    OBVIOUS
  <2>. HIDE DEF E
  <2>2. \A k : FitX(k) => SameX(k, k)
    BY SameXRefl
  <2> QED BY <2>1, <2>2, XtExecute
<1>. HIDE DEF Ends
<1>2. \A x : FitX(x) => \A p \in F(x) : SameX(x, p.m) /\ FitX(p.m)
  <2>1. \A x, w : FitX(x) => \A y \in Xt!LoadScratch(x, w) : SameX(x, y.m) /\ FitX(y.m)
    BY XtCpu DEF Xt!LoadScratch
  <2> QED BY <1>e, <2>1, SameXTrans DEF Xt!Then
<1>. HIDE DEF F
<1>3. \A a : FitX(a.m) => \A p \in Last(a) : SameX(a.m, p.m) /\ FitX(p.m)
  <2> SUFFICES ASSUME NEW a, FitX(a.m), NEW p \in Last(a) PROVE SameX(a.m, p.m) /\ FitX(p.m)
    OBVIOUS
  <2>1. PICK b \in F(a.m) : FitX(b.m) => SameX(b.m, p.m)
    BY XtRestore
  <2>2. SameX(a.m, b.m) /\ FitX(b.m)
    BY <1>2, <2>1
  <2> QED BY <2>1, <2>2, SameXTrans, SameXHolds
<1>. HIDE DEF Last
<1>4. \A a \in Xt!SaveScratch(n) : SameX(n, a.m) /\ FitX(a.m)
  BY XtCpu DEF Xt!SaveScratch
<1> QED BY <1>1, <1>3, <1>4, SameXTrans DEF Xt!Then

\* The instruction counter is set, or switched off.
LEMMA XtCount ==
  ASSUME Careful
  PROVE  \A n, b : FitX(n) => \A o \in Xt!Count(n, b) : SameX(n, o.m) /\ FitX(o.m)
<1> SUFFICES ASSUME NEW n, NEW f, FitX(n), NEW o \in Xt!Count(n, f)
             PROVE  SameX(n, o.m) /\ FitX(o.m)
  OBVIOUS
<1> DEFINE E(x) == [x EXCEPT !.armed = f]
           Ends(y) == Xt!Execute(y.m, E(y.m), Xt!Junk)
           F(x) == Xt!Then(Xt!LoadScratch(x, Xt!Junk), Ends)
           Last(a) == Xt!RestoreScratch(F(a.m), a.val)
<1>1. o \in Xt!Then(Xt!SaveScratch(n), Last)
  BY DEF Xt!Count, Xt!WriteSpecial, Xt!WithScratch, Xt!Unless
<1>e. \A y : FitX(y.m) => \A p \in Ends(y) : SameX(y.m, p.m) /\ FitX(p.m)
  <2>1. \A k : E(k) = Arms(k, f)
    BY DEF Arms
  <2>. HIDE DEF E
  <2>2. \A k : FitX(k) => SameX(k, Arms(k, f))
    BY FieldsOfX
  <2> QED BY <2>1, <2>2, XtExecute
<1>. HIDE DEF Ends
<1>2. \A x : FitX(x) => \A p \in F(x) : SameX(x, p.m) /\ FitX(p.m)
  <2>1. \A x, w : FitX(x) => \A y \in Xt!LoadScratch(x, w) : SameX(x, y.m) /\ FitX(y.m)
    BY XtCpu DEF Xt!LoadScratch
  <2> QED BY <1>e, <2>1, SameXTrans DEF Xt!Then
<1>. HIDE DEF F
<1>3. \A a : FitX(a.m) => \A p \in Last(a) : SameX(a.m, p.m) /\ FitX(p.m)
  <2> SUFFICES ASSUME NEW a, FitX(a.m), NEW p \in Last(a) PROVE SameX(a.m, p.m) /\ FitX(p.m)
    OBVIOUS
  <2>1. PICK b \in F(a.m) : FitX(b.m) => SameX(b.m, p.m)
    BY XtRestore
  <2>2. SameX(a.m, b.m) /\ FitX(b.m)
    BY <1>2, <2>1
  <2> QED BY <2>1, <2>2, SameXTrans, SameXHolds
<1>. HIDE DEF Last
<1>4. \A a \in Xt!SaveScratch(n) : SameX(n, a.m) /\ FitX(a.m)
  BY XtCpu DEF Xt!SaveScratch
<1> QED BY <1>1, <1>3, <1>4, SameXTrans DEF Xt!Then

\* The mask of the breakpoint units is written.
LEMMA XtWriteMask ==
  ASSUME Careful
  PROVE  \A n, us : FitX(n) => \A o \in Xt!WriteMask(n, us) : SameX(n, o.m) /\ FitX(o.m)
<1> SUFFICES ASSUME NEW n, NEW us, FitX(n), NEW o \in Xt!WriteMask(n, us)
             PROVE  SameX(n, o.m) /\ FitX(o.m)
  OBVIOUS
<1> DEFINE E(x) == [x EXCEPT !.on = us]
           Ends(y) == Xt!Execute(y.m, E(y.m), Xt!Junk)
           F(x) == Xt!Then(Xt!LoadScratch(x, Xt!Junk), Ends)
           Last(a) == Xt!RestoreScratch(F(a.m), a.val)
<1>1. o \in Xt!Then(Xt!SaveScratch(n), Last)
  BY DEF Xt!WriteMask, Xt!WriteSpecial, Xt!WithScratch, Xt!Unless
<1>e. \A y : FitX(y.m) => \A p \in Ends(y) : SameX(y.m, p.m) /\ FitX(p.m)
  <2>1. \A k : E(k) = Lets(k, us)
    BY DEF Lets
  <2>. HIDE DEF E
  <2>2. \A k : FitX(k) => SameX(k, Lets(k, us))
    BY FieldsOfX
  <2> QED BY <2>1, <2>2, XtExecute
<1>. HIDE DEF Ends
<1>2. \A x : FitX(x) => \A p \in F(x) : SameX(x, p.m) /\ FitX(p.m)
  <2>1. \A x, w : FitX(x) => \A y \in Xt!LoadScratch(x, w) : SameX(x, y.m) /\ FitX(y.m)
    BY XtCpu DEF Xt!LoadScratch
  <2> QED BY <1>e, <2>1, SameXTrans DEF Xt!Then
<1>. HIDE DEF F
<1>3. \A a : FitX(a.m) => \A p \in Last(a) : SameX(a.m, p.m) /\ FitX(p.m)
  <2> SUFFICES ASSUME NEW a, FitX(a.m), NEW p \in Last(a) PROVE SameX(a.m, p.m) /\ FitX(p.m)
    OBVIOUS
  <2>1. PICK b \in F(a.m) : FitX(b.m) => SameX(b.m, p.m)
    BY XtRestore
  <2>2. SameX(a.m, b.m) /\ FitX(b.m)
    BY <1>2, <2>1
  <2> QED BY <2>1, <2>2, SameXTrans, SameXHolds
<1>. HIDE DEF Last
<1>4. \A a \in Xt!SaveScratch(n) : SameX(n, a.m) /\ FitX(a.m)
  BY XtCpu DEF Xt!SaveScratch
<1> QED BY <1>1, <1>3, <1>4, SameXTrans DEF Xt!Then

\* A breakpoint unit is written.
LEMMA XtWriteUnit ==
  ASSUME Careful
  PROVE  \A n, u, z : FitX(n) => \A o \in Xt!WriteUnit(n, u, z) : SameX(n, o.m) /\ FitX(o.m)
<1> SUFFICES ASSUME NEW n, NEW u, NEW z, FitX(n), NEW o \in Xt!WriteUnit(n, u, z)
             PROVE  SameX(n, o.m) /\ FitX(o.m)
  OBVIOUS
<1> DEFINE E(x) == [x EXCEPT !.bps[u] = z]
           Ends(y) == Xt!Execute(y.m, E(y.m), Xt!Junk)
           F(x) == Xt!Then(Xt!LoadScratch(x, Xt!Junk), Ends)
           Last(a) == Xt!RestoreScratch(F(a.m), a.val)
<1>1. o \in Xt!Then(Xt!SaveScratch(n), Last)
  BY DEF Xt!WriteUnit, Xt!WriteSpecial, Xt!WithScratch, Xt!Unless
<1>e. \A y : FitX(y.m) => \A p \in Ends(y) : SameX(y.m, p.m) /\ FitX(p.m)
  <2>1. \A k : E(k) = Puts(k, u, z)
    BY DEF Puts
  <2>. HIDE DEF E
  <2>2. \A k : FitX(k) => SameX(k, Puts(k, u, z))
    BY FieldsOfX
  <2> QED BY <2>1, <2>2, XtExecute
<1>. HIDE DEF Ends
<1>2. \A x : FitX(x) => \A p \in F(x) : SameX(x, p.m) /\ FitX(p.m)
  <2>1. \A x, w : FitX(x) => \A y \in Xt!LoadScratch(x, w) : SameX(x, y.m) /\ FitX(y.m)
    BY XtCpu DEF Xt!LoadScratch
  <2> QED BY <1>e, <2>1, SameXTrans DEF Xt!Then
<1>. HIDE DEF F
<1>3. \A a : FitX(a.m) => \A p \in Last(a) : SameX(a.m, p.m) /\ FitX(p.m)
  <2> SUFFICES ASSUME NEW a, FitX(a.m), NEW p \in Last(a) PROVE SameX(a.m, p.m) /\ FitX(p.m)
    OBVIOUS
  <2>1. PICK b \in F(a.m) : FitX(b.m) => SameX(b.m, p.m)
    BY XtRestore
  <2>2. SameX(a.m, b.m) /\ FitX(b.m)
    BY <1>2, <2>1
  <2> QED BY <2>1, <2>2, SameXTrans, SameXHolds
<1>. HIDE DEF Last
<1>4. \A a \in Xt!SaveScratch(n) : SameX(n, a.m) /\ FitX(a.m)
  BY XtCpu DEF Xt!SaveScratch
<1> QED BY <1>1, <1>3, <1>4, SameXTrans DEF Xt!Then

\* A register is read, or written.
LEMMA XtRegisters ==
  ASSUME Careful
  PROVE  \A n, r : FitX(n) =>
           /\ \A o \in Xt!ReadReg(n, r) : SameX(n, o.m) /\ FitX(o.m)
           /\ \A v : \A o \in Xt!WriteRegister(n, r, v) : SameX(n, o.m) /\ FitX(o.m)
           /\ \A o \in Xt!WriteReg(n, r) : SameX(n, o.m) /\ FitX(o.m)
           /\ \A o \in Xt!ReadPc(n) : SameX(n, o.m) /\ FitX(o.m)
<1>1. ASSUME NEW n, NEW r, FitX(n), NEW o \in Xt!ReadReg(n, r) PROVE SameX(n, o.m) /\ FitX(o.m)
  BY <1>1, XtCpu, XtReadSpecial DEF Xt!ReadReg
<1>2. ASSUME NEW n, NEW r, FitX(n), NEW v, NEW o \in Xt!WriteRegister(n, r, v) PROVE SameX(n, o.m) /\ FitX(o.m)
  <2>1. CASE Xt!IsCpu(r)
    <3>1. o \in Xt!CpuWrite(n, r, v)
      BY <1>2, <2>1 DEF Xt!WriteRegister
    <3> QED BY <1>2, <3>1, XtCpu
  <2> QED BY <1>2, <2>1, XtWriteFar
<1>3. ASSUME NEW n, NEW r, FitX(n), NEW o \in Xt!WriteReg(n, r) PROVE SameX(n, o.m) /\ FitX(o.m)
  <2> DEFINE x == IF r = "pc" THEN [n EXCEPT !.pcw = TRUE] ELSE n
  <2>1. SameX(n, x) /\ FitX(x)
    <3>1. SameX(n, n) /\ SameX(n, Knows(n, TRUE))
      BY <1>3, SameXRefl, FieldsOfX
    <3> QED BY <3>1, SameXHolds DEF Knows
  <2>2. o \in Xt!WriteRegister(x, r, Xt!User(r))
    BY <1>3 DEF Xt!WriteReg
  <2>. HIDE DEF x
  <2> QED BY <1>2, <2>1, <2>2, SameXTrans
<1> QED BY <1>1, <1>2, <1>3 DEF Xt!ReadPc

(* Is the core halted? *)
Sees(n, b) == [n EXCEPT !.sh = b]

\* The driver notes whether the core is halted.
LEMMA SeesX ==
  \A n, b : FitX(n) /\ b \in BOOLEAN /\ (b => n.halted) =>
    HoldsX(n, Sees(n, b)) /\ FitX(Sees(n, b)) /\ Watched(n, Sees(n, b)) /\ Sees(n, b).halted = n.halted
<1> SUFFICES ASSUME NEW n, NEW b \in BOOLEAN, FitX(n), b => n.halted
             PROVE  HoldsX(n, Sees(n, b)) /\ FitX(Sees(n, b)) /\ Watched(n, Sees(n, b)) /\ Sees(n, b).halted = n.halted
  OBVIOUS
<1> DEFINE x == Sees(n, b)
<1>1. /\ DOMAIN x = DOMAIN n /\ x.sh = b /\ x.halted = n.halted /\ x.causes = n.causes
      /\ x.mem = n.mem /\ x.regs = n.regs /\ x.why = n.why
  BY DEF Sees, FitX, FieldsX, CoreFields
<1>. HIDE DEF x
<1>2. HoldsX(n, x) /\ FitX(x) /\ Watched(n, x) /\ x.halted = n.halted
  BY <1>1 DEF HoldsX, FitX, Watched
<1> QED BY <1>2 DEF x
LooksX(n, x) == HoldsX(n, x) /\ Watched(n, x)

\* What looking at a core leaves of it.
LEMMA LooksXFit == \A n, x : LooksX(n, x) => FitX(n) /\ FitX(x) /\ HoldsX(n, x) /\ MovesX(n, x) /\ (Unforced(n) => Unforced(x))
BY HoldsXMoves, UnforcedX DEF LooksX, HoldsX

\* To look at it twice is to look at it.
LEMMA LooksXTrans == \A a, b, c : LooksX(a, b) /\ LooksX(b, c) => LooksX(a, c)
BY WatchedTrans, HoldsXTrans DEF LooksX, HoldsX

\* A core in the same place has not been seen to stop.
LEMMA SameLooksX == \A n, x : SameX(n, x) => LooksX(n, x)
BY SameXHolds DEF LooksX

\* Whether the core is halted: the answer is what it is.
LEMMA XtIsHalted ==
  \A n : FitX(n) => \A o \in Xt!IsHalted(n) :
    LooksX(n, o.m) /\ FitX(o.m) /\ (o.ok => (o.val = Yes <=> o.m.halted))
<1> SUFFICES ASSUME NEW n, FitX(n), NEW o \in Xt!IsHalted(n)
             PROVE  LooksX(n, o.m) /\ FitX(o.m) /\ (o.ok => (o.val = Yes <=> o.m.halted))
  OBVIOUS
<1>0. \A k, w : Xt!Give(k, w).m = k /\ Xt!Give(k, w).ok /\ Xt!Give(k, w).val = w
  BY XtSame, OutcomesGive
<1>1. CASE n.sh
  <2>1. o = Xt!Give(n, Yes)
    BY <1>1, XtSame DEF Xt!IsHalted
  <2>2. SameX(n, n)
    BY SameXRefl
  <2>3. o.m = n /\ o.val = Yes /\ n.halted
    BY <1>0, <1>1, <2>1 DEF FitX
  <2> QED BY <2>2, <2>3, SameLooksX
<1>2. CASE ~n.sh
  <2> DEFINE Last(p) == {Xt!Give([p.m EXCEPT !.sh = (p.val = Xt!Yes)], p.val)}
  <2>1. Xt!IsHalted(n) = Xt!Then(Xt!Poll(n), Last)
    BY <1>2 DEF Xt!IsHalted
  <2>2. \A p : \A q \in Last(p) : q.m = Sees(p.m, p.val = Yes) /\ q.ok /\ q.val = p.val
    BY <1>0, XtSame DEF Sees
  <2>. HIDE DEF Last
  <2>3. PICK p \in Poll(n) : (~p.ok /\ o = p) \/ (p.ok /\ o \in Last(p))
    BY <2>1, XtSame DEF Xt!Then
  <2>4. LooksX(n, p.m) /\ FitX(p.m) /\ (p.ok => (p.val = Yes <=> p.m.halted))
    BY PollX DEF LooksX, HoldsX
  <2>5. CASE ~p.ok
    BY <2>3, <2>4, <2>5
  <2>6. CASE p.ok
    <3>1. o.m = Sees(p.m, p.val = Yes) /\ o.val = p.val
      BY <2>2, <2>3, <2>6
    <3> DEFINE b == p.val = Yes
    <3>2. b \in BOOLEAN /\ (b => p.m.halted) /\ (b <=> p.m.halted)
      BY <2>4, <2>6
    <3>3. o.m = Sees(p.m, b) /\ (o.val = Yes <=> b)
      BY <3>1
    <3>. HIDE DEF b
    <3>4. LooksX(p.m, o.m) /\ FitX(o.m) /\ o.m.halted = p.m.halted
      BY <2>4, <3>2, <3>3, SeesX DEF LooksX
    <3> QED BY <2>4, <3>2, <3>3, <3>4, LooksXTrans
  <2> QED BY <2>5, <2>6
<1> QED BY <1>1, <1>2 DEF FitX

(* The driver waits for the core to halt.                                   *)
LEMMA XtLowerIntlevel ==
  ASSUME Careful
  PROVE  \A n : FitX(n) => \A o \in Xt!LowerIntlevel(n) : SameX(n, o.m) /\ FitX(o.m)
BY XtReadSpecial, XtWriteOther, SameXTrans DEF Xt!LowerIntlevel, Xt!Then

\* The driver waits for the core to halt.
LEMMA XtAwait ==
  ASSUME Careful
  PROVE  \A n : FitX(n) => \A o \in Xt!AwaitCoreHalted(n) :
           HoldsX(n, o.m) /\ FitX(o.m) /\ (o.ok => o.m.halted)
<1> SUFFICES ASSUME NEW n, FitX(n), NEW o \in Xt!AwaitCoreHalted(n)
             PROVE  HoldsX(n, o.m) /\ FitX(o.m) /\ (o.ok => o.m.halted)
  OBVIOUS
<1> DEFINE first == IF n.sh THEN {Xt!Ok(n)} ELSE Xt!AwaitHalt(n)
           On(k) == [k EXCEPT !.sh = TRUE]
           Last(a) == Xt!LowerIntlevel(On(a.m))
<1>1. o \in Xt!Then(first, Last)
  BY DEF Xt!AwaitCoreHalted
<1>2. \A a \in first : HoldsX(n, a.m) /\ FitX(a.m) /\ (a.ok => a.m.halted)
  <2>1. CASE n.sh
    <3>1. \A a \in first : a.m = n
      BY <2>1, XtSame, OutcomesGive
    <3>2. HoldsX(n, n)
      BY SameXRefl, SameXHolds
    <3>3. n.halted
      BY <2>1 DEF FitX
    <3>. HIDE DEF first
    <3> QED BY <3>1, <3>2, <3>3
  <2>2. CASE ~n.sh
    BY <2>2, XtSame, AwaitX DEF HoldsX
  <2> QED BY <2>1, <2>2 DEF FitX
<1>3. \A k : FitX(k) /\ k.halted => HoldsX(k, On(k)) /\ FitX(On(k)) /\ On(k).halted
  <2> DEFINE b == TRUE
  <2>1. \A k : On(k) = Sees(k, b) /\ b = TRUE /\ b \in BOOLEAN
    BY DEF Sees
  <2>. HIDE DEF b, On
  <2> QED BY <2>1, SeesX
<1>. HIDE DEF On, first
<1>4. \A a : FitX(a.m) /\ a.m.halted => \A p \in Last(a) : HoldsX(a.m, p.m) /\ FitX(p.m) /\ p.m.halted
  BY <1>3, XtLowerIntlevel, SameXHolds, HoldsXTrans
<1>. HIDE DEF Last
<1> QED BY <1>1, <1>2, <1>4, HoldsXTrans DEF Xt!Then

\* The core is halted if the halt succeeds.
LEMMA XtHalt ==
  ASSUME Careful
  PROVE  \A n : FitX(n) => \A o \in Xt!Halt(n) : HoldsX(n, o.m) /\ FitX(o.m) /\ (o.ok => o.m.halted)
<1>1. \A n : FitX(n) => \A a \in Xt!Access(n, n, Xt!Junk) : HoldsX(n, a.m) /\ FitX(a.m)
  BY XtSame, AccessX, SameXRefl, SameXHolds
<1>2. \A n : FitX(n) => \A a \in Xt!ReadPc(n) : HoldsX(n, a.m) /\ FitX(a.m) /\ a.m.halted = n.halted
  BY XtRegisters, SameXHolds
<1> QED BY <1>1, <1>2, XtAwait, HoldsXTrans DEF Xt!Halt, Xt!Then

(* The core runs on. *)
LEMMA RestartedX ==
  \A n : FitX(n) /\ ~n.sh => MovesX(n, Restarted(n)) /\ FitX(Restarted(n)) /\ Restarted(n).halted = FALSE
<1> SUFFICES ASSUME NEW n, FitX(n), ~n.sh
             PROVE  MovesX(n, Restarted(n)) /\ FitX(Restarted(n)) /\ Restarted(n).halted = FALSE
  OBVIOUS
<1>1. CASE ~n.halted
  BY <1>1 DEF Restarted, MovesX, FitX
<1>2. CASE n.halted
  <2> DEFINE x == Restarted(n)
  <2>1. x = [n EXCEPT !.halted = FALSE, !.ran = Append(@, n.regs), !.epoch = 1 - @, !.regs = Own(1 - n.epoch)]
    BY <1>2 DEF Restarted
  <2>2. /\ DOMAIN x = DOMAIN n /\ x.halted = FALSE /\ x.causes = n.causes /\ x.mem = n.mem
        /\ x.sh = n.sh /\ x.regs = Own(1 - n.epoch)
    BY <2>1 DEF FitX, FieldsX, CoreFields
  <2>3. DOMAIN Own(1 - n.epoch) = Regs
    BY DEF Own
  <2>. HIDE DEF x
  <2>4. MovesX(n, x) /\ FitX(x) /\ x.halted = FALSE
    BY <2>2, <2>3 DEF MovesX, FitX
  <2> QED BY <2>4 DEF x
<1> QED BY <1>1, <1>2

\* One access of the probe moves the core, or fails.
LEMMA AccessMovesX ==
  \A n, x, v : FitX(n) /\ MovesX(n, x) => \A o \in Access(n, x, v) : MovesX(n, o.m) /\ FitX(o.m) /\ (o.ok => o.m = x)
<1> SUFFICES ASSUME NEW n, NEW x, NEW v, FitX(n), MovesX(n, x), NEW o \in Access(n, x, v)
             PROVE  MovesX(n, o.m) /\ FitX(o.m) /\ (o.ok => o.m = x)
  OBVIOUS
<1>1. (o.ok /\ o.m = x /\ o.val = v) \/ (~o.ok /\ o.m \in {Spent(n), Spent(x)})
  BY AccessGives
<1>2. FitX(x) /\ SameX(n, Spent(n)) /\ SameX(x, Spent(x))
  BY SameXRefl DEF MovesX
<1> QED BY <1>1, <1>2, SameXHolds, HoldsXMoves, MovesXTrans

\* The core is resumed: it runs if that succeeds.
LEMMA XtResume ==
  \A n : FitX(n) => \A o \in Xt!Resume(n) : MovesX(n, o.m) /\ FitX(o.m) /\ (o.ok => ~o.m.halted)
<1> SUFFICES ASSUME NEW n, FitX(n), NEW o \in Xt!Resume(n)
             PROVE  MovesX(n, o.m) /\ FitX(o.m) /\ (o.ok => ~o.m.halted)
  OBVIOUS
<1> DEFINE b == FALSE
           k == Sees(n, b)
<1>1. o \in (IF k.halted THEN Access(k, Restarted(k), Xt!Junk) ELSE {Err(k)} \cup Access(k, k, Xt!Junk))
  BY XtSame DEF Xt!Resume, Sees
<1>2. b = FALSE /\ b \in BOOLEAN
  OBVIOUS
<1>3. k.sh = FALSE
  BY DEF Sees, FitX, FieldsX, CoreFields
<1>. HIDE DEF b
<1>4. MovesX(n, k) /\ FitX(k)
  BY <1>2, SeesX, HoldsXMoves
<1>. HIDE DEF k
<1>5. CASE k.halted
  <2>1. o \in Access(k, Restarted(k), Xt!Junk)
    BY <1>1, <1>5
  <2>2. MovesX(k, Restarted(k)) /\ Restarted(k).halted = FALSE
    BY <1>3, <1>4, RestartedX
  <2> QED BY <1>4, <2>1, <2>2, AccessMovesX, MovesXTrans
<1>6. CASE ~k.halted
  <2>1. (o.m = k /\ ~o.ok) \/ o \in Access(k, k, Xt!Junk)
    BY <1>1, <1>6, OutcomesGive
  <2>2. MovesX(k, k)
    BY <1>4 DEF MovesX
  <2> QED BY <1>4, <1>6, <2>1, <2>2, AccessMovesX, MovesXTrans
<1> QED BY <1>5, <1>6

\* The breakpoint instruction is skipped, and the core is in the same place.
LEMMA XtSkip ==
  ASSUME Careful
  PROVE  \A n : FitX(n) => \A o \in Xt!SkipBreakpoint(n) : SameX(n, o.m) /\ FitX(o.m)
<1> SUFFICES ASSUME NEW n, FitX(n), NEW o \in Xt!SkipBreakpoint(n) PROVE SameX(n, o.m) /\ FitX(o.m)
  OBVIOUS
<1>0. \A k : Xt!Ok(k).m = k
  BY XtSame, OutcomesGive
<1> DEFINE W(k) == [k EXCEPT !.pcw = TRUE]
           Puts1(b) == Xt!WriteRegister(W(b.m), "pc", Xt!Past(b.val))
           Soft(a) == Xt!Then(Xt!ReadPc(a.m), Puts1)
           Skips1(a) == IF a.m.why # "soft" THEN {Xt!Ok(a.m)} ELSE Soft(a)
<1>1. n.pcw \/ Xt!SkipBreakpoint(n) = Xt!Then(Xt!ReadSpecial(n, Xt!Junk), Skips1)
  BY DEF Xt!SkipBreakpoint
<1>2. \A k : FitX(k) => SameX(k, W(k)) /\ FitX(W(k))
  <2> DEFINE b == TRUE
  <2>1. \A k : W(k) = Knows(k, b)
    BY DEF Knows
  <2>. HIDE DEF b, W
  <2> QED BY <2>1, FieldsOfX, SameXHolds
<1>. HIDE DEF W
<1>3. \A b : FitX(b.m) => \A p \in Puts1(b) : SameX(b.m, p.m)
  BY <1>2, XtRegisters, SameXTrans
<1>. HIDE DEF Puts1
<1>4. \A a : FitX(a.m) => \A p \in Soft(a) : SameX(a.m, p.m)
  BY <1>3, XtRegisters, SameXTrans DEF Xt!Then
<1>. HIDE DEF Soft
<1>5. \A a : FitX(a.m) => \A p \in Skips1(a) : SameX(a.m, p.m)
  BY <1>0, <1>4, SameXRefl
<1>. HIDE DEF Skips1
<1>6. CASE n.pcw
  BY <1>0, <1>6, SameXRefl, SameXHolds DEF Xt!SkipBreakpoint
<1>7. CASE ~n.pcw
  BY <1>1, <1>5, <1>7, XtReadSpecial, SameXTrans, SameXHolds DEF Xt!Then
<1> QED BY <1>6, <1>7

\* The core runs if that succeeds.
LEMMA XtRun ==
  ASSUME Careful
  PROVE  \A n : FitX(n) => \A o \in Xt!Run(n) : MovesX(n, o.m) /\ FitX(o.m) /\ (o.ok => ~o.m.halted)
<1>1. \A n : FitX(n) => \A o \in Xt!SkipBreakpoint(n) : MovesX(n, o.m) /\ FitX(o.m)
  BY XtSkip, SameXHolds, HoldsXMoves
<1> QED BY <1>1, XtResume, MovesXTrans DEF Xt!Run, Xt!Then

(* Operations that leave the core halted. *)
LandsX(n, o) == MovesX(n, o.m) /\ FitX(o.m) /\ (o.ok => o.m.halted)

\* A step ends halted.
LEMMA XtStep ==
  ASSUME Careful
  PROVE  \A n : FitX(n) => \A o \in Xt!Step(n) : LandsX(n, o)
<1> SUFFICES ASSUME NEW n, FitX(n), NEW o \in Xt!Step(n) PROVE LandsX(n, o)
  OBVIOUS
<1> DEFINE W(k) == [k EXCEPT !.pcw = FALSE]
           Ends(f) == Xt!ReadPc(W(f.m))
           Off(k) == Xt!Count(k, FALSE)
           Up(k) == Xt!Count(k, TRUE)
           Waited(e) == Xt!Then(Off(e.m), Ends)
           Ran(d) == Xt!Then(Xt!AwaitCoreHalted(d.m), Waited)
           Ready(c) == Xt!Then(Xt!Resume(c.m), Ran)
           Set1(b) == Xt!Then(Xt!WriteOther(b.m), Ready)
           Skipped(a) == Xt!Then(Up(a.m), Set1)
<1>1. Xt!Step(n) = Xt!Then(Xt!SkipBreakpoint(n), Skipped)
  BY DEF Xt!Step
<1>2. \A k : FitX(k) => SameX(k, W(k)) /\ FitX(W(k))
  <2> DEFINE b == FALSE
  <2>1. \A k : W(k) = Knows(k, b)
    BY DEF Knows
  <2>. HIDE DEF b, W
  <2> QED BY <2>1, FieldsOfX, SameXHolds
<1>. HIDE DEF W
<1>0. \A k, x : SameX(k, x) => MovesX(k, x) /\ FitX(x) /\ x.halted = k.halted
  BY SameXHolds, HoldsXMoves
<1>c. /\ \A k : FitX(k) => \A p \in Off(k) : MovesX(k, p.m) /\ FitX(p.m) /\ p.m.halted = k.halted
      /\ \A k : FitX(k) => \A p \in Up(k) : MovesX(k, p.m) /\ FitX(p.m) /\ p.m.halted = k.halted
  BY <1>0, XtCount
<1>. HIDE DEF Off, Up
<1>r. \A k : FitX(k) => \A p \in Xt!ReadPc(k) : MovesX(k, p.m) /\ FitX(p.m) /\ p.m.halted = k.halted
  BY <1>0, XtRegisters
<1>3. \A f : FitX(f.m) => \A p \in Ends(f) : MovesX(f.m, p.m) /\ FitX(p.m) /\ p.m.halted = f.m.halted
  BY <1>0, <1>2, <1>r, MovesXTrans
<1>. HIDE DEF Ends
<1>4. \A e : FitX(e.m) => \A p \in Waited(e) : MovesX(e.m, p.m) /\ FitX(p.m) /\ p.m.halted = e.m.halted
  BY <1>3, <1>c, MovesXTrans DEF Xt!Then
<1>. HIDE DEF Waited
<1>5. \A d : FitX(d.m) => \A p \in Ran(d) : LandsX(d.m, p)
  <2>1. \A k : FitX(k) => \A p \in Xt!AwaitCoreHalted(k) : MovesX(k, p.m) /\ FitX(p.m) /\ (p.ok => p.m.halted)
    BY XtAwait, HoldsXMoves
  <2> QED BY <1>4, <2>1, MovesXTrans DEF Xt!Then, LandsX
<1>. HIDE DEF Ran
<1>t. \A k, x, p : MovesX(k, x) /\ LandsX(x, p) => LandsX(k, p)
  BY MovesXTrans DEF LandsX
<1>f. \A k, p : MovesX(k, p.m) /\ FitX(p.m) /\ ~p.ok => LandsX(k, p)
  BY DEF LandsX
<1>6. \A c : FitX(c.m) => \A p \in Ready(c) : LandsX(c.m, p)
  BY <1>5, <1>t, <1>f, XtResume DEF Xt!Then
<1>. HIDE DEF Ready
<1>7. \A b : FitX(b.m) => \A p \in Set1(b) : LandsX(b.m, p)
  BY <1>0, <1>6, <1>t, <1>f, XtWriteOther DEF Xt!Then
<1>. HIDE DEF Set1
<1>8. \A a : FitX(a.m) => \A p \in Skipped(a) : LandsX(a.m, p)
  BY <1>c, <1>7, <1>t, <1>f DEF Xt!Then
<1>. HIDE DEF Skipped
<1> QED BY <1>0, <1>1, <1>8, <1>t, <1>f, XtSkip DEF Xt!Then

\* A reset is a move, of a core that the driver does not think halted or that is stopped.
LEMMA ResetX == \A n : FitX(n) => /\ ~n.sh => MovesX(n, WasReset(n))
                                  /\ MovesX(n, Stopped(WasReset(n)))
<1> SUFFICES ASSUME NEW n, FitX(n)
             PROVE  /\ ~n.sh => MovesX(n, WasReset(n))
                    /\ MovesX(n, Stopped(WasReset(n)))
  OBVIOUS
<1> DEFINE x == WasReset(n)
<1>1. /\ DOMAIN x = DOMAIN n /\ x.halted = FALSE /\ x.causes = n.causes /\ x.mem = n.mem
      /\ x.sh = n.sh /\ x.regs = Own(1 - n.epoch)
  BY DEF FitX, FieldsX, CoreFields, WasReset
<1>2. DOMAIN Own(1 - n.epoch) = Regs
  BY DEF Own
<1>. HIDE DEF x
<1>3. ~n.sh => MovesX(n, x)
  BY <1>1, <1>2 DEF MovesX, FitX
<1> DEFINE y == Stopped(x)
<1>4. /\ DOMAIN y = DOMAIN x /\ y.halted = TRUE /\ y.causes = x.causes /\ y.mem = x.mem
      /\ y.sh = x.sh /\ y.regs = x.regs
  BY <1>1 DEF Stopped, FitX, FieldsX, CoreFields
<1>. HIDE DEF y
<1>5. MovesX(n, y)
  BY <1>1, <1>2, <1>4 DEF MovesX, FitX
<1> QED BY <1>3, <1>5 DEF x, y

\* The core is reset, and halts or runs.
LEMMA XtResetAndHalt ==
  ASSUME Careful
  PROVE  \A n : FitX(n) =>
           /\ \A o \in Xt!ResetAndHalt(n) : LandsX(n, o)
           /\ \A o \in Xt!Reset(n) : MovesX(n, o.m) /\ FitX(o.m) /\ (o.ok => ~o.m.halted)
<1>0. \A k, x : SameX(k, x) => MovesX(k, x) /\ FitX(x) /\ x.halted = k.halted
  BY SameXHolds, HoldsXMoves
<1>1. ASSUME NEW n, FitX(n), NEW o \in Xt!HaltsOnReset(n) PROVE MovesX(n, o.m) /\ FitX(o.m)
  <2>1. PICK k \in Xt!Unless(n.sh, {WasReset(n)}) \cup {Stopped(WasReset(n))} : o \in Access(k, k, Xt!Junk)
    BY <1>1, XtSame DEF Xt!HaltsOnReset
  <2>2. MovesX(n, k)
    BY <1>1, <2>1, ResetX DEF Xt!Unless
  <2>3. FitX(k) /\ MovesX(k, k)
    BY <2>2 DEF MovesX
  <2> QED BY <2>1, <2>2, <2>3, AccessMovesX, MovesXTrans
<1>2. ASSUME NEW n, FitX(n), NEW o \in Xt!ResetAndHalt(n) PROVE LandsX(n, o)
  <2> DEFINE Ends(d) == Xt!ReadPc(d.m)
             Waited(c) == Xt!Then(Xt!WriteOther(c.m), Ends)
             Left(b) == Xt!Then(Xt!AwaitCoreHalted(b.m), Waited)
             Asked1(a) == Xt!Then(Xt!HaltsOnReset(a.m), Left)
  <2>1. o \in Xt!Then(Xt!Access(n, n, Xt!Junk), Asked1)
    BY <1>2 DEF Xt!ResetAndHalt
  <2>2. \A d : FitX(d.m) => \A p \in Ends(d) : MovesX(d.m, p.m) /\ FitX(p.m) /\ p.m.halted = d.m.halted
    BY <1>0, XtRegisters
  <2>. HIDE DEF Ends
  <2>3. \A c : FitX(c.m) => \A p \in Waited(c) : MovesX(c.m, p.m) /\ FitX(p.m) /\ p.m.halted = c.m.halted
    BY <1>0, <2>2, XtWriteOther, MovesXTrans DEF Xt!Then
  <2>. HIDE DEF Waited
  <2>t. \A k, x, p : MovesX(k, x) /\ LandsX(x, p) => LandsX(k, p)
    BY MovesXTrans DEF LandsX
  <2>f. \A k, p : MovesX(k, p.m) /\ FitX(p.m) /\ ~p.ok => LandsX(k, p)
    BY DEF LandsX
  <2>4. \A b : FitX(b.m) => \A p \in Left(b) : LandsX(b.m, p)
    <3>1. \A k : FitX(k) => \A p \in Xt!AwaitCoreHalted(k) : MovesX(k, p.m) /\ FitX(p.m) /\ (p.ok => p.m.halted)
      BY XtAwait, HoldsXMoves
    <3> QED BY <2>3, <3>1, MovesXTrans DEF Xt!Then, LandsX
  <2>. HIDE DEF Left
  <2>5. \A a : FitX(a.m) => \A p \in Asked1(a) : LandsX(a.m, p)
    BY <1>1, <2>4, <2>t, <2>f DEF Xt!Then
  <2>. HIDE DEF Asked1
  <2>6. \A a \in Xt!Access(n, n, Xt!Junk) : MovesX(n, a.m) /\ FitX(a.m)
    BY <1>0, <1>2, XtSame, AccessX, SameXRefl
  <2> QED BY <2>1, <2>5, <2>6, <2>t, <2>f DEF Xt!Then
<1>3. ASSUME NEW n, FitX(n), NEW o \in Xt!Reset(n) PROVE MovesX(n, o.m) /\ FitX(o.m) /\ (o.ok => ~o.m.halted)
  BY <1>2, <1>3, XtResume, MovesXTrans DEF Xt!Reset, Xt!Then, LandsX
<1> QED BY <1>2, <1>3

(* Memory may be written, or the core may be resumed meanwhile.            *)
StoresX(n, x) ==
  /\ FitX(n) /\ FitX(x) /\ x.causes = n.causes
  /\ x.halted = n.halted /\ x.why = n.why
LeapsX(n, x) == FitX(n) /\ FitX(x) /\ x.causes = n.causes

\* A core in the same place stores nothing.
LEMMA SameXStores == \A n, x : SameX(n, x) => StoresX(n, x) /\ x.mem = n.mem
BY DEF SameX, StoresX

\* Two operations that may store may store.
LEMMA StoresXTrans == \A a, b, c : StoresX(a, b) /\ StoresX(b, c) => StoresX(a, c)
BY DEF StoresX

\* What they keep.
LEMMA StoresXFit == \A n, x : StoresX(n, x) => FitX(n) /\ FitX(x) /\ LeapsX(n, x) /\ x.halted = n.halted
BY DEF StoresX, LeapsX

\* A move may come with a store.
LEMMA MovesXLeaps == \A n, x : MovesX(n, x) => LeapsX(n, x) /\ FitX(x) /\ x.mem = n.mem
BY DEF MovesX, LeapsX

\* Two moves that may store are one.
LEMMA LeapsXTrans == \A a, b, c : LeapsX(a, b) /\ LeapsX(b, c) => LeapsX(a, c)
BY DEF LeapsX

(* A core that is needed halted is halted for it, and resumed.              *)
ServesX(n, o) ==
  /\ LeapsX(n, o.m)
  /\ n.halted => o.m.halted
  /\ o.ok /\ Unforced(n) => Unforced(o.m)

\* What may store does not move the core.
LEMMA StoresServesX == \A n, o : StoresX(n, o.m) => ServesX(n, o)
BY DEF StoresX, ServesX, LeapsX, Unforced

(* What is left behind by a batch that fails.                               *)
LEMMA XtLoses ==
  \A S, v :
    /\ \A o \in Xt!LosesIt(S) : \E a \in S : (o.ok <=> a.ok) /\ (o.ok => o = a) /\ (FitX(a.m) => SameX(a.m, o.m))
    /\ \A o \in Xt!KeepsIt(S, v) : \E a \in S : (o.ok <=> a.ok) /\ (o.ok => o = a) /\ (FitX(a.m) => SameX(a.m, o.m))
<1> SUFFICES ASSUME NEW S, NEW v
             PROVE  /\ \A o \in Xt!LosesIt(S) : \E a \in S : (o.ok <=> a.ok) /\ (o.ok => o = a) /\ (FitX(a.m) => SameX(a.m, o.m))
                    /\ \A o \in Xt!KeepsIt(S, v) : \E a \in S : (o.ok <=> a.ok) /\ (o.ok => o = a) /\ (FitX(a.m) => SameX(a.m, o.m))
  OBVIOUS
<1> DEFINE Lost(k) == [k EXCEPT !.saved = "lost"]
           Kept(k) == [k EXCEPT !.saved = "kept", !.kept = v]
<1>1. \A k : Xt!Err(k).m = k /\ ~Xt!Err(k).ok
  BY XtSame, OutcomesGive
<1>2. \A k : FitX(k) => SameX(k, Lost(k)) /\ SameX(k, Kept(k)) /\ SameX(k, k)
  BY FieldsOfX, SameXRefl DEF Keeps, KeepsValue
<1>3. /\ \A o \in Xt!LosesIt(S) : \E a \in S : (a.ok /\ o = a) \/ (~a.ok /\ o = Xt!Err(Lost(a.m)))
      /\ \A o \in Xt!KeepsIt(S, v) : \E a \in S : (a.ok /\ o = a) \/ (~a.ok /\ o = Xt!Err(Kept(a.m)))
  BY DEF Xt!LosesIt, Xt!KeepsIt
<1>. HIDE DEF Lost, Kept
<1>4. ASSUME NEW o, NEW a \in S,
             (a.ok /\ o = a) \/ (~a.ok /\ o = Xt!Err(Lost(a.m))) \/ (~a.ok /\ o = Xt!Err(Kept(a.m)))
      PROVE  (o.ok <=> a.ok) /\ (o.ok => o = a) /\ (FitX(a.m) => SameX(a.m, o.m))
  <2>1. CASE a.ok /\ o = a
    BY <1>2, <2>1
  <2>2. CASE ~a.ok /\ o = Xt!Err(Lost(a.m))
    BY <1>1, <1>2, <2>2
  <2>3. CASE ~a.ok /\ o = Xt!Err(Kept(a.m))
    BY <1>1, <1>2, <2>3
  <2> QED BY <1>4, <2>1, <2>2, <2>3
<1> QED BY <1>3, <1>4

(* The memory that a load or a store finds at an address.                   *)
LEMMA XtPatched ==
  /\ \A mem, a, k : Xt!Patched(mem, a, k) = Patched(mem, a, k) /\ Xt!Word(mem, a) = Word(mem, a)
  /\ Xt!Lanes = Lanes /\ Xt!Words = Words
  /\ \A l, k : Xt!WordOf(l) = WordOf(l) /\ Xt!LaneOf(k, l) = LaneOf(k, l) /\ Xt!WithLane(k, l) = WithLane(k, l)
  /\ \A k : Xt!Data(k) = Data(k) /\ Xt!Address(k) = Address(k)
BY DEF Xt!Patched, Patched, Xt!Lanes, Lanes, Xt!Words, Words, Xt!Word, Word, Xt!WordOf, WordOf, Xt!LaneOf, LaneOf,
       Xt!WithLane, WithLane, Xt!Data, Data, Xt!Address, Address

\* The instruction that stores a register, and the value is still there.
LEMMA StoredX ==
  \A n, v, mem : FitX(n) /\ mem \in [Lanes -> {0, 1}] =>
    /\ StoresX(n, Stored(n, "s0", v, mem)) /\ Stored(n, "s0", v, mem).mem = mem
    /\ Stored(n, "s0", v, mem).regs["s0"] = v /\ FitX(Stored(n, "s0", v, mem))
<1> SUFFICES ASSUME NEW n, NEW v, NEW mem \in [Lanes -> {0, 1}], FitX(n)
             PROVE  /\ StoresX(n, Stored(n, "s0", v, mem)) /\ Stored(n, "s0", v, mem).mem = mem
                    /\ Stored(n, "s0", v, mem).regs["s0"] = v /\ FitX(Stored(n, "s0", v, mem))
  OBVIOUS
<1> DEFINE x == Stored(n, "s0", v, mem)
<1>1. /\ DOMAIN x = DOMAIN n /\ x.mem = mem /\ x.regs = [n.regs EXCEPT !["s0"] = v]
      /\ x.halted = n.halted /\ x.why = n.why /\ x.causes = n.causes /\ x.sh = n.sh
  <2>1. x = [n EXCEPT !.regs["s0"] = v, !.mem = mem]
    BY DEF Stored
  <2> QED BY <2>1 DEF FitX, FieldsX, CoreFields
<1>. HIDE DEF x
<1>2. DOMAIN x.regs = Regs /\ x.regs["s0"] = v
  BY <1>1 DEF FitX, Regs
<1>3. StoresX(n, x) /\ FitX(x)
  BY <1>1, <1>2 DEF StoresX, FitX
<1> QED BY <1>1, <1>2, <1>3 DEF x

(* A word is loaded, or stored, from a scratch register that counts on.     *)
LEMMA XtLoad ==
  \A n : FitX(n) => \A o \in Xt!Load(n) :
    /\ SameX(n, o.m) /\ FitX(o.m)
    /\ \A a : n.halted /\ o.ok /\ n.regs["s0"] = Address(a) => o.val = Data(Word(n.mem, a))
<1> SUFFICES ASSUME NEW n, FitX(n), NEW o \in Xt!Load(n)
             PROVE  /\ SameX(n, o.m) /\ FitX(o.m)
                    /\ \A a : n.halted /\ o.ok /\ n.regs["s0"] = Address(a) => o.val = Data(Word(n.mem, a))
  OBVIOUS
<1> DEFINE b == n.regs["s0"].n
           x == Given(n, "s0", Xt!Address(b + 2))
<1>1. o \in Xt!Execute(n, x, Xt!Data(Xt!Word(n.mem, b)))
  BY DEF Xt!Load, Given
<1>2. SameX(n, x)
  BY GivenX
<1>3. \A a : n.regs["s0"] = Address(a) => b = a
  BY DEF Address
<1>. HIDE DEF x, b
<1> QED BY <1>1, <1>2, <1>3, XtExecute, XtPatched

\* The word at an address is loaded.
LEMMA XtLoadAt ==
  \A n, a : FitX(n) => \A o \in Xt!LoadAt(n, a) :
    /\ SameX(n, o.m) /\ FitX(o.m)
    /\ n.halted /\ o.ok => o.val = Data(Word(n.mem, a))
<1> SUFFICES ASSUME NEW n, NEW a, FitX(n), NEW o \in Xt!LoadAt(n, a)
             PROVE  /\ SameX(n, o.m) /\ FitX(o.m)
                    /\ n.halted /\ o.ok => o.val = Data(Word(n.mem, a))
  OBVIOUS
<1>1. PICK x \in Xt!CpuWrite(n, "s0", Address(a)) : (~x.ok /\ o = x) \/ (x.ok /\ o \in Xt!Load(x.m))
  BY XtPatched DEF Xt!LoadAt, Xt!Then
<1>2. SameX(n, x.m) /\ FitX(x.m) /\ (x.ok /\ n.halted => x.m = Given(n, "s0", Address(a)))
  BY XtCpu
<1>3. Given(n, "s0", Address(a)).regs["s0"] = Address(a)
  BY GivenX DEF Regs
<1>4. CASE ~x.ok
  BY <1>1, <1>2, <1>4
<1>5. CASE x.ok
  <2>1. SameX(x.m, o.m) /\ FitX(o.m)
    BY <1>1, <1>2, <1>5, XtLoad
  <2>2. ASSUME n.halted, o.ok PROVE o.val = Data(Word(n.mem, a))
    <3>1. x.m.halted /\ x.m.mem = n.mem /\ x.m.regs["s0"] = Address(a)
      BY <1>2, <1>3, <1>5, <2>2 DEF SameX
    <3> QED BY <1>1, <1>2, <1>5, <2>2, <3>1, XtLoad
  <2> QED BY <1>2, <2>1, <2>2, SameXTrans
<1> QED BY <1>4, <1>5

\* The word at the address in the scratch register is stored.
LEMMA XtStore ==
  \A n, a, k : FitX(n) /\ n.halted /\ n.regs["s0"] = Address(a) /\ Patched(n.mem, a, k) \in [Lanes -> {0, 1}] =>
    \A o \in Xt!Store(n, k) :
      /\ StoresX(n, o.m) /\ FitX(o.m)
      /\ o.m.mem \in {n.mem, Patched(n.mem, a, k)} /\ (o.ok => o.m.mem = Patched(n.mem, a, k))
<1> SUFFICES ASSUME NEW n, NEW a, NEW k, FitX(n), n.halted, n.regs["s0"] = Address(a),
                    Patched(n.mem, a, k) \in [Lanes -> {0, 1}], NEW o \in Xt!Store(n, k)
             PROVE  /\ StoresX(n, o.m) /\ FitX(o.m)
                    /\ o.m.mem \in {n.mem, Patched(n.mem, a, k)} /\ (o.ok => o.m.mem = Patched(n.mem, a, k))
  OBVIOUS
<1> DEFINE p == Patched(n.mem, a, k)
           b == n.regs["s0"].n
           x == Stored(n, "s0", Xt!Address(a + 2), p)
<1>1. b = a
  BY DEF Address
<1>2. o \in Xt!Execute(n, x, Xt!Junk)
  BY <1>1, XtPatched DEF Xt!Store, Stored
<1>. HIDE DEF p
<1>3. StoresX(n, x) /\ x.mem = p /\ FitX(x)
  BY StoredX DEF p
<1>. HIDE DEF x
<1>4. o \in Access(n, x, Xt!Junk)
  BY <1>2, XtSame DEF Xt!Execute
<1>5. (o.ok /\ o.m = x) \/ (~o.ok /\ o.m \in {Spent(n), Spent(x)})
  BY <1>4, AccessGives
<1>6. SameX(n, Spent(n)) /\ SameX(x, Spent(x))
  BY <1>3, SameXRefl
<1>7. StoresX(n, o.m) /\ o.m.mem \in {n.mem, p} /\ (o.ok => o.m.mem = p)
  BY <1>3, <1>5, <1>6, SameXStores, StoresXTrans
<1> QED BY <1>7, StoresXFit DEF p

\* A word is stored at an address.
LEMMA XtStoreAt ==
  \A n, a, k : FitX(n) /\ n.halted /\ Patched(n.mem, a, k) \in [Lanes -> {0, 1}] =>
    \A o \in Xt!StoreAt(n, a, k) :
      /\ StoresX(n, o.m) /\ FitX(o.m)
      /\ o.m.mem \in {n.mem, Patched(n.mem, a, k)} /\ (o.ok => o.m.mem = Patched(n.mem, a, k))
<1> SUFFICES ASSUME NEW n, NEW a, NEW k, FitX(n), n.halted,
                    Patched(n.mem, a, k) \in [Lanes -> {0, 1}], NEW o \in Xt!StoreAt(n, a, k)
             PROVE  /\ StoresX(n, o.m) /\ FitX(o.m)
                    /\ o.m.mem \in {n.mem, Patched(n.mem, a, k)} /\ (o.ok => o.m.mem = Patched(n.mem, a, k))
  OBVIOUS
<1>1. PICK x \in Xt!CpuWrite(n, "s0", Address(a)) : (~x.ok /\ o = x) \/ (x.ok /\ o \in Xt!Store(x.m, k))
  BY XtPatched DEF Xt!StoreAt, Xt!Then
<1>2. SameX(n, x.m) /\ FitX(x.m) /\ (x.ok => x.m = Given(n, "s0", Address(a)))
  BY XtCpu
<1>3. Given(n, "s0", Address(a)).regs["s0"] = Address(a)
  BY GivenX DEF Regs
<1>4. StoresX(n, x.m) /\ x.m.mem = n.mem /\ x.m.halted
  BY <1>2, SameXStores, SameXHolds
<1>5. CASE ~x.ok
  BY <1>1, <1>2, <1>4, <1>5
<1>6. CASE x.ok
  <2>1. x.m.regs["s0"] = Address(a)
    BY <1>2, <1>3, <1>6
  <2>2. /\ StoresX(x.m, o.m) /\ FitX(o.m)
        /\ o.m.mem \in {n.mem, Patched(n.mem, a, k)} /\ (o.ok => o.m.mem = Patched(n.mem, a, k))
    BY <1>1, <1>2, <1>4, <1>6, <2>1, XtStore
  <2> QED BY <1>4, <2>2, StoresXTrans
<1> QED BY <1>5, <1>6

(* What is done on a core that is resumed for it. *)
LEMMA XtResumeAfter ==
  \A S : \A o \in Xt!ResumeAfter(S) : \E d \in S :
    FitX(d.m) => MovesX(d.m, o.m) /\ (o.ok => d.ok /\ ~o.m.halted)
<1> SUFFICES ASSUME NEW S, NEW o \in Xt!ResumeAfter(S)
             PROVE  \E d \in S : FitX(d.m) => MovesX(d.m, o.m) /\ (o.ok => d.ok /\ ~o.m.halted)
  OBVIOUS
<1> DEFINE Last(d) == Xt!Then(Xt!Resume(d.m), LAMBDA p : {Xt!Give(p.m, d.val)})
<1>1. Xt!ResumeAfter(S) = Xt!Then(S, Last)
  BY DEF Xt!ResumeAfter
<1>2. \A d : \A q \in Last(d) : \E p \in Xt!Resume(d.m) : q.m = p.m /\ (q.ok => p.ok)
  <2>1. \A d : \A q \in Last(d) : \E p \in Xt!Resume(d.m) : (~p.ok /\ q = p) \/ (p.ok /\ q = Xt!Give(p.m, d.val))
    BY DEF Xt!Then
  <2>2. \A k, w : Xt!Give(k, w).m = k
    BY XtSame, OutcomesGive
  <2>. HIDE DEF Last
  <2> QED BY <2>1, <2>2
<1>. HIDE DEF Last
<1>3. PICK d \in S : (~d.ok /\ o = d) \/ (d.ok /\ o \in Last(d))
  BY <1>1 DEF Xt!Then
<1>4. CASE ~d.ok
  BY <1>3, <1>4, SameXRefl, SameXHolds, HoldsXMoves
<1>5. CASE d.ok
  <2>1. PICK p \in Xt!Resume(d.m) : o.m = p.m /\ (o.ok => p.ok)
    BY <1>2, <1>3, <1>5
  <2>2. FitX(d.m) => MovesX(d.m, p.m) /\ (p.ok => ~p.m.halted)
    BY XtResume
  <2> QED BY <1>5, <2>1, <2>2
<1> QED BY <1>4, <1>5

\* A word is read with the core halted for it.
LEMMA XtReadWord ==
  ASSUME Careful
  PROVE  \A n, a : FitX(n) => \A o \in Xt!ReadWord(n, a) :
           ServesX(n, o) /\ FitX(o.m) /\ o.m.mem = n.mem
<1> SUFFICES ASSUME NEW n, NEW at, FitX(n), NEW o \in Xt!ReadWord(n, at)
             PROVE  ServesX(n, o) /\ FitX(o.m) /\ o.m.mem = n.mem
  OBVIOUS
<1> DEFINE Mem(old, p) == p.m.mem = old
           B(k, p) == StoresX(k, p.m) /\ Mem(k.mem, p)
           G(y) == Xt!LoadAt(y, at)
           In(a) == Xt!RestoreScratch(Xt!LosesIt(G(a.m)), a.val)
           F(x) == Xt!InOneBatch(x, G)
           Again(c) == Xt!ResumeAfter(F(c.m))
           Awaited(b) == Xt!Then(Xt!AwaitCoreHalted(b.m), Again)
           Other(a) == Xt!Then(Xt!Access(a.m, a.m, Xt!Junk), Awaited)
           Told(a) == IF a.val = Xt!Yes THEN F(a.m) ELSE Other(a)
<1>b. Xt!ReadWord(n, at) = Xt!Then(Xt!IsHalted(n), Told)
  BY DEF Xt!ReadWord, Xt!Briefly
<1>m. /\ \A old, p : p.m.mem = old /\ ~p.ok => Mem(old, p)
      /\ \A old, d, p : Mem(old, d) /\ p.m.mem = d.m.mem /\ (p.ok => d.ok) => Mem(old, p)
  OBVIOUS
<1>t. /\ \A k, d, p : B(k, d) /\ SameX(d.m, p.m) /\ (p.ok => d.ok) => B(k, p)
      /\ \A k, x, p : SameX(k, x) /\ B(x, p) => B(k, p)
      /\ \A k, p : SameX(k, p.m) /\ ~p.ok => B(k, p)
      /\ \A k, p : B(k, p) => FitX(p.m) /\ StoresX(k, p.m) /\ Mem(k.mem, p)
  <2>. HIDE DEF Mem
  <2> QED BY <1>m, SameXStores, StoresXTrans, StoresXFit
<1>g. \A y : FitX(y) /\ y.halted => \A p \in G(y) : B(y, p)
  BY XtLoadAt, SameXStores
<1>. HIDE DEF Mem, B
<1>. HIDE DEF G
<1>n. \A x : \A p \in F(x) : p \in Xt!Then(Xt!LosesIt(Xt!SaveScratch(x)), In)
  BY DEF Xt!InOneBatch, Xt!Unless
<1>i. \A a : FitX(a.m) /\ a.m.halted => \A p \in In(a) : B(a.m, p)
  <2> SUFFICES ASSUME NEW a, FitX(a.m), a.m.halted, NEW p \in In(a) PROVE B(a.m, p)
    OBVIOUS
  <2>1. PICK d \in Xt!LosesIt(G(a.m)) : (FitX(d.m) => SameX(d.m, p.m)) /\ (p.ok => d.ok)
    BY XtRestore
  <2>2. PICK c \in G(a.m) : (d.ok <=> c.ok) /\ (FitX(c.m) => SameX(c.m, d.m))
    BY XtLoses
  <2>3. B(a.m, c) /\ FitX(c.m)
    BY <1>g, <1>t, <2>2
  <2>4. B(a.m, d) /\ FitX(d.m)
    BY <1>t, <2>2, <2>3
  <2> QED BY <1>t, <2>1, <2>4
<1>. HIDE DEF In
<1>f. \A x : FitX(x) /\ x.halted => \A p \in F(x) : B(x, p)
  <2> SUFFICES ASSUME NEW x, FitX(x), x.halted, NEW p \in F(x) PROVE B(x, p)
    OBVIOUS
  <2>1. p \in Xt!Then(Xt!LosesIt(Xt!SaveScratch(x)), In)
    BY <1>n
  <2>2. \A a \in Xt!LosesIt(Xt!SaveScratch(x)) : SameX(x, a.m) /\ FitX(a.m) /\ a.m.halted
    <3> SUFFICES ASSUME NEW a \in Xt!LosesIt(Xt!SaveScratch(x)) PROVE SameX(x, a.m) /\ FitX(a.m) /\ a.m.halted
      OBVIOUS
    <3>1. PICK c \in Xt!SaveScratch(x) : FitX(c.m) => SameX(c.m, a.m)
      BY XtLoses
    <3>2. SameX(x, c.m) /\ FitX(c.m)
      BY XtCpu DEF Xt!SaveScratch
    <3> QED BY <3>1, <3>2, SameXTrans, SameXHolds
  <2> QED BY <1>i, <1>t, <2>1, <2>2 DEF Xt!Then
<1>. HIDE DEF F
<1>1. \A c : FitX(c.m) /\ c.m.halted => \A p \in Again(c) : LeapsX(c.m, p.m) /\ Mem(c.m.mem, p) /\ (p.ok => ~p.m.halted)
  <2> SUFFICES ASSUME NEW c, FitX(c.m), c.m.halted, NEW p \in Again(c)
               PROVE  LeapsX(c.m, p.m) /\ Mem(c.m.mem, p) /\ (p.ok => ~p.m.halted)
    OBVIOUS
  <2>1. PICK d \in F(c.m) : FitX(d.m) => MovesX(d.m, p.m) /\ (p.ok => d.ok /\ ~p.m.halted)
    BY XtResumeAfter
  <2>2. StoresX(c.m, d.m) /\ Mem(c.m.mem, d) /\ FitX(d.m)
    BY <1>f, <1>t, <2>1
  <2> QED BY <1>m, <2>1, <2>2, MovesXLeaps, LeapsXTrans, StoresXFit
<1>. HIDE DEF Again
<1>2. \A b : FitX(b.m) => \A p \in Awaited(b) : LeapsX(b.m, p.m) /\ Mem(b.m.mem, p) /\ (p.ok => ~p.m.halted)
  <2>1. \A k : FitX(k) => \A p \in Xt!AwaitCoreHalted(k) :
          LeapsX(k, p.m) /\ p.m.mem = k.mem /\ FitX(p.m) /\ (p.ok => p.m.halted)
    BY XtAwait, HoldsXMoves, MovesXLeaps
  <2> QED BY <1>1, <1>m, <2>1, LeapsXTrans DEF Xt!Then
<1>. HIDE DEF Awaited
<1>3. \A a : FitX(a.m) => \A p \in Other(a) : LeapsX(a.m, p.m) /\ Mem(a.m.mem, p) /\ (p.ok => ~p.m.halted)
  <2>1. \A k : FitX(k) => \A p \in Xt!Access(k, k, Xt!Junk) : LeapsX(k, p.m) /\ p.m.mem = k.mem /\ FitX(p.m)
    BY XtSame, AccessX, SameXRefl, SameXStores, StoresXFit
  <2> QED BY <1>2, <1>m, <2>1, LeapsXTrans DEF Xt!Then
<1>. HIDE DEF Other
<1>4. \A a : \A p \in Told(a) : (a.val = Yes /\ p \in F(a.m)) \/ (a.val # Yes /\ p \in Other(a))
  BY XtSame
<1>. HIDE DEF Told
<1>6. PICK a \in Xt!IsHalted(n) : (~a.ok /\ o = a) \/ (a.ok /\ o \in Told(a))
  BY <1>b DEF Xt!Then
<1>7. LooksX(n, a.m) /\ FitX(a.m) /\ (a.ok => (a.val = Yes <=> a.m.halted))
  BY XtIsHalted
<1>8. MovesX(n, a.m) /\ (n.halted => a.m.halted) /\ (Unforced(n) => Unforced(a.m))
  BY <1>7, LooksXFit DEF HoldsX
<1>s. LeapsX(n, a.m) /\ a.m.mem = n.mem
  BY <1>8, MovesXLeaps
<1>9. CASE ~a.ok
  BY <1>6, <1>7, <1>8, <1>9, <1>s DEF ServesX
<1>10. CASE a.ok /\ a.m.halted
  <2>1. B(a.m, o)
    BY <1>4, <1>6, <1>7, <1>10, <1>f
  <2>2. StoresX(a.m, o.m) /\ Mem(n.mem, o) /\ FitX(o.m)
    BY <1>s, <1>t, <2>1
  <2>3. o.m.halted /\ o.m.why = a.m.why /\ LeapsX(n, o.m)
    BY <1>10, <1>s, <2>2, StoresXFit, LeapsXTrans DEF StoresX
  <2>4. ServesX(n, o)
    BY <1>8, <1>10, <2>3 DEF ServesX, Unforced
  <2> QED BY <2>2, <2>4 DEF Mem
<1>11. CASE a.ok /\ ~a.m.halted
  <2>1. LeapsX(a.m, o.m) /\ Mem(n.mem, o) /\ (o.ok => ~o.m.halted)
    BY <1>3, <1>4, <1>6, <1>7, <1>11, <1>s
  <2>2. LeapsX(n, o.m) /\ FitX(o.m) /\ ~n.halted
    BY <1>8, <1>11, <1>s, <2>1, LeapsXTrans DEF LeapsX
  <2> QED BY <2>1, <2>2 DEF ServesX, Unforced, Mem
<1> QED BY <1>7, <1>9, <1>10, <1>11

\* So are all of them.
LEMMA XtReadWords ==
  ASSUME Careful
  PROVE  \A n : FitX(n) => \A o \in Xt!ReadWords(n) :
           ServesX(n, o) /\ FitX(o.m) /\ o.m.mem = n.mem
<1> SUFFICES ASSUME NEW n, FitX(n), NEW o \in Xt!ReadWords(n)
             PROVE  ServesX(n, o) /\ FitX(o.m) /\ o.m.mem = n.mem
  OBVIOUS
<1> DEFINE Mem(old, p) == p.m.mem = old
           B(k, p) == StoresX(k, p.m) /\ Mem(k.mem, p)
           Mid(a) == Xt!Then(Xt!Load(a.m), LAMBDA b : {Xt!Give(b.m, Xt!Data(a.val.n + 4 * b.val.n))})
           G(y) == Xt!Then(Xt!LoadAt(y, 0), Mid)
           In(a) == Xt!RestoreScratch(Xt!LosesIt(G(a.m)), a.val)
           F(x) == Xt!InOneBatch(x, G)
           Again(c) == Xt!ResumeAfter(F(c.m))
           Awaited(b) == Xt!Then(Xt!AwaitCoreHalted(b.m), Again)
           Other(a) == Xt!Then(Xt!Access(a.m, a.m, Xt!Junk), Awaited)
           Told(a) == IF a.val = Xt!Yes THEN F(a.m) ELSE Other(a)
<1>b. Xt!ReadWords(n) = Xt!Then(Xt!IsHalted(n), Told)
  BY DEF Xt!ReadWords, Xt!Briefly
<1>m. /\ \A old, p : p.m.mem = old /\ ~p.ok => Mem(old, p)
      /\ \A old, d, p : Mem(old, d) /\ p.m.mem = d.m.mem /\ (p.ok => d.ok) => Mem(old, p)
  OBVIOUS
<1>t. /\ \A k, d, p : B(k, d) /\ SameX(d.m, p.m) /\ (p.ok => d.ok) => B(k, p)
      /\ \A k, x, p : SameX(k, x) /\ B(x, p) => B(k, p)
      /\ \A k, p : SameX(k, p.m) /\ ~p.ok => B(k, p)
      /\ \A k, p : B(k, p) => FitX(p.m) /\ StoresX(k, p.m) /\ Mem(k.mem, p)
  <2>. HIDE DEF Mem
  <2> QED BY <1>m, SameXStores, StoresXTrans, StoresXFit
<1>g. \A y : FitX(y) /\ y.halted => \A p \in G(y) : B(y, p)
  <2>1. \A a : FitX(a.m) => \A p \in Mid(a) : SameX(a.m, p.m)
    <3>1. \A k, v : Xt!Give(k, v).m = k
      BY XtSame, OutcomesGive
    <3>2. \A a : \A p \in Mid(a) : \E c \in Xt!Load(a.m) : p.m = c.m
      BY <3>1 DEF Xt!Then
    <3>. HIDE DEF Mid
    <3> QED BY <3>2, XtLoad
  <2>. HIDE DEF Mid
  <2>2. \A y : FitX(y) => \A p \in G(y) : SameX(y, p.m)
    <3>1. \A y, b : FitX(y) => \A p \in Xt!LoadAt(y, b) : SameX(y, p.m) /\ FitX(p.m)
      BY XtLoadAt
    <3> QED BY <2>1, <3>1, SameXTrans DEF Xt!Then
  <2>. HIDE DEF G
  <2> QED BY <2>2, SameXStores
<1>. HIDE DEF Mem, B
<1>. HIDE DEF G
<1>n. \A x : \A p \in F(x) : p \in Xt!Then(Xt!LosesIt(Xt!SaveScratch(x)), In)
  BY DEF Xt!InOneBatch, Xt!Unless
<1>i. \A a : FitX(a.m) /\ a.m.halted => \A p \in In(a) : B(a.m, p)
  <2> SUFFICES ASSUME NEW a, FitX(a.m), a.m.halted, NEW p \in In(a) PROVE B(a.m, p)
    OBVIOUS
  <2>1. PICK d \in Xt!LosesIt(G(a.m)) : (FitX(d.m) => SameX(d.m, p.m)) /\ (p.ok => d.ok)
    BY XtRestore
  <2>2. PICK c \in G(a.m) : (d.ok <=> c.ok) /\ (FitX(c.m) => SameX(c.m, d.m))
    BY XtLoses
  <2>3. B(a.m, c) /\ FitX(c.m)
    BY <1>g, <1>t, <2>2
  <2>4. B(a.m, d) /\ FitX(d.m)
    BY <1>t, <2>2, <2>3
  <2> QED BY <1>t, <2>1, <2>4
<1>. HIDE DEF In
<1>f. \A x : FitX(x) /\ x.halted => \A p \in F(x) : B(x, p)
  <2> SUFFICES ASSUME NEW x, FitX(x), x.halted, NEW p \in F(x) PROVE B(x, p)
    OBVIOUS
  <2>1. p \in Xt!Then(Xt!LosesIt(Xt!SaveScratch(x)), In)
    BY <1>n
  <2>2. \A a \in Xt!LosesIt(Xt!SaveScratch(x)) : SameX(x, a.m) /\ FitX(a.m) /\ a.m.halted
    <3> SUFFICES ASSUME NEW a \in Xt!LosesIt(Xt!SaveScratch(x)) PROVE SameX(x, a.m) /\ FitX(a.m) /\ a.m.halted
      OBVIOUS
    <3>1. PICK c \in Xt!SaveScratch(x) : FitX(c.m) => SameX(c.m, a.m)
      BY XtLoses
    <3>2. SameX(x, c.m) /\ FitX(c.m)
      BY XtCpu DEF Xt!SaveScratch
    <3> QED BY <3>1, <3>2, SameXTrans, SameXHolds
  <2> QED BY <1>i, <1>t, <2>1, <2>2 DEF Xt!Then
<1>. HIDE DEF F
<1>1. \A c : FitX(c.m) /\ c.m.halted => \A p \in Again(c) : LeapsX(c.m, p.m) /\ Mem(c.m.mem, p) /\ (p.ok => ~p.m.halted)
  <2> SUFFICES ASSUME NEW c, FitX(c.m), c.m.halted, NEW p \in Again(c)
               PROVE  LeapsX(c.m, p.m) /\ Mem(c.m.mem, p) /\ (p.ok => ~p.m.halted)
    OBVIOUS
  <2>1. PICK d \in F(c.m) : FitX(d.m) => MovesX(d.m, p.m) /\ (p.ok => d.ok /\ ~p.m.halted)
    BY XtResumeAfter
  <2>2. StoresX(c.m, d.m) /\ Mem(c.m.mem, d) /\ FitX(d.m)
    BY <1>f, <1>t, <2>1
  <2> QED BY <1>m, <2>1, <2>2, MovesXLeaps, LeapsXTrans, StoresXFit
<1>. HIDE DEF Again
<1>2. \A b : FitX(b.m) => \A p \in Awaited(b) : LeapsX(b.m, p.m) /\ Mem(b.m.mem, p) /\ (p.ok => ~p.m.halted)
  <2>1. \A k : FitX(k) => \A p \in Xt!AwaitCoreHalted(k) :
          LeapsX(k, p.m) /\ p.m.mem = k.mem /\ FitX(p.m) /\ (p.ok => p.m.halted)
    BY XtAwait, HoldsXMoves, MovesXLeaps
  <2> QED BY <1>1, <1>m, <2>1, LeapsXTrans DEF Xt!Then
<1>. HIDE DEF Awaited
<1>3. \A a : FitX(a.m) => \A p \in Other(a) : LeapsX(a.m, p.m) /\ Mem(a.m.mem, p) /\ (p.ok => ~p.m.halted)
  <2>1. \A k : FitX(k) => \A p \in Xt!Access(k, k, Xt!Junk) : LeapsX(k, p.m) /\ p.m.mem = k.mem /\ FitX(p.m)
    BY XtSame, AccessX, SameXRefl, SameXStores, StoresXFit
  <2> QED BY <1>2, <1>m, <2>1, LeapsXTrans DEF Xt!Then
<1>. HIDE DEF Other
<1>4. \A a : \A p \in Told(a) : (a.val = Yes /\ p \in F(a.m)) \/ (a.val # Yes /\ p \in Other(a))
  BY XtSame
<1>. HIDE DEF Told
<1>6. PICK a \in Xt!IsHalted(n) : (~a.ok /\ o = a) \/ (a.ok /\ o \in Told(a))
  BY <1>b DEF Xt!Then
<1>7. LooksX(n, a.m) /\ FitX(a.m) /\ (a.ok => (a.val = Yes <=> a.m.halted))
  BY XtIsHalted
<1>8. MovesX(n, a.m) /\ (n.halted => a.m.halted) /\ (Unforced(n) => Unforced(a.m))
  BY <1>7, LooksXFit DEF HoldsX
<1>s. LeapsX(n, a.m) /\ a.m.mem = n.mem
  BY <1>8, MovesXLeaps
<1>9. CASE ~a.ok
  BY <1>6, <1>7, <1>8, <1>9, <1>s DEF ServesX
<1>10. CASE a.ok /\ a.m.halted
  <2>1. B(a.m, o)
    BY <1>4, <1>6, <1>7, <1>10, <1>f
  <2>2. StoresX(a.m, o.m) /\ Mem(n.mem, o) /\ FitX(o.m)
    BY <1>s, <1>t, <2>1
  <2>3. o.m.halted /\ o.m.why = a.m.why /\ LeapsX(n, o.m)
    BY <1>10, <1>s, <2>2, StoresXFit, LeapsXTrans DEF StoresX
  <2>4. ServesX(n, o)
    BY <1>8, <1>10, <2>3 DEF ServesX, Unforced
  <2> QED BY <2>2, <2>4 DEF Mem
<1>11. CASE a.ok /\ ~a.m.halted
  <2>1. LeapsX(a.m, o.m) /\ Mem(n.mem, o) /\ (o.ok => ~o.m.halted)
    BY <1>3, <1>4, <1>6, <1>7, <1>11, <1>s
  <2>2. LeapsX(n, o.m) /\ FitX(o.m) /\ ~n.halted
    BY <1>8, <1>11, <1>s, <2>1, LeapsXTrans DEF LeapsX
  <2> QED BY <2>1, <2>2 DEF ServesX, Unforced, Mem
<1> QED BY <1>7, <1>9, <1>10, <1>11

\* Words are written with the core halted for it: every lane.
LEMMA XtWriteWords ==
  ASSUME Careful
  PROVE  \A n : FitX(n) => \A o \in Xt!WriteWords(n) :
           ServesX(n, o) /\ FitX(o.m) /\ Writes(n.mem, o, Lanes)
<1> SUFFICES ASSUME NEW n, FitX(n), NEW o \in Xt!WriteWords(n)
             PROVE  ServesX(n, o) /\ FitX(o.m) /\ Writes(n.mem, o, Lanes)
  OBVIOUS
<1> DEFINE Mem(old, p) == p.m.mem \in Among(old) /\ (p.ok => p.m.mem = Whole(old))
           B(k, p) == StoresX(k, p.m) /\ Mem(k.mem, p)
           Mid(a) == Xt!StoreAt(a.m, 2, 3)
           G(y) == Xt!Then(Xt!StoreAt(y, 0, 3), Mid)
           In(a) == Xt!RestoreScratch(Xt!LosesIt(G(a.m)), a.val)
           F(x) == Xt!InOneBatch(x, G)
           Again(c) == Xt!ResumeAfter(F(c.m))
           Awaited(b) == Xt!Then(Xt!AwaitCoreHalted(b.m), Again)
           Other(a) == Xt!Then(Xt!Access(a.m, a.m, Xt!Junk), Awaited)
           Told(a) == IF a.val = Xt!Yes THEN F(a.m) ELSE Other(a)
<1>b. Xt!WriteWords(n) = Xt!Then(Xt!IsHalted(n), Told)
  BY DEF Xt!WriteWords, Xt!Briefly
<1>m. /\ \A old, p : p.m.mem = old /\ ~p.ok => Mem(old, p)
      /\ \A old, d, p : Mem(old, d) /\ p.m.mem = d.m.mem /\ (p.ok => d.ok) => Mem(old, p)
  BY DEF Among
<1>w. \A p : Mem(n.mem, p) => Writes(n.mem, p, Lanes)
  BY AmongWrites DEF FitX
<1>t. /\ \A k, d, p : B(k, d) /\ SameX(d.m, p.m) /\ (p.ok => d.ok) => B(k, p)
      /\ \A k, x, p : SameX(k, x) /\ B(x, p) => B(k, p)
      /\ \A k, p : SameX(k, p.m) /\ ~p.ok => B(k, p)
      /\ \A k, p : B(k, p) => FitX(p.m) /\ StoresX(k, p.m) /\ Mem(k.mem, p)
  <2>. HIDE DEF Mem
  <2> QED BY <1>m, SameXStores, StoresXTrans, StoresXFit
<1>g. \A y : FitX(y) /\ y.halted => \A p \in G(y) : B(y, p)
  <2>1. \A k : FitX(k) => Half(k.mem) \in [Lanes -> {0, 1}] /\ Patched(k.mem, 2, 3) \in [Lanes -> {0, 1}]
    BY PatchedWords DEF FitX, Half
  <2>2. \A k : FitX(k) /\ k.halted => \A p \in Xt!StoreAt(k, 0, 3) :
          StoresX(k, p.m) /\ FitX(p.m) /\ p.m.mem \in {k.mem, Half(k.mem)} /\ (p.ok => p.m.mem = Half(k.mem))
    BY <2>1, XtStoreAt DEF Half
  <2>3. \A a : FitX(a.m) /\ a.m.halted => \A p \in Mid(a) :
          StoresX(a.m, p.m) /\ p.m.mem \in {a.m.mem, Patched(a.m.mem, 2, 3)} /\ (p.ok => p.m.mem = Patched(a.m.mem, 2, 3))
    BY <2>1, XtStoreAt
  <2>. HIDE DEF Mid
  <2>4. \A y, a, p : StoresX(y, a) /\ a.mem = Half(y.mem) /\ StoresX(a, p.m)
          /\ p.m.mem \in {a.mem, Patched(a.mem, 2, 3)} /\ (p.ok => p.m.mem = Patched(a.mem, 2, 3)) => B(y, p)
    BY StoresXTrans DEF Among, Whole
  <2>5. \A y, p : StoresX(y, p.m) /\ p.m.mem \in {y.mem, Half(y.mem)} /\ ~p.ok => B(y, p)
    BY DEF Among
  <2>. HIDE DEF B
  <2> SUFFICES ASSUME NEW y, FitX(y), y.halted, NEW p \in G(y) PROVE B(y, p)
    OBVIOUS
  <2>6. PICK a \in Xt!StoreAt(y, 0, 3) : (~a.ok /\ p = a) \/ (a.ok /\ p \in Mid(a))
    BY DEF Xt!Then
  <2>7. a.m.halted
    BY <2>2, StoresXFit
  <2> QED BY <2>2, <2>3, <2>4, <2>5, <2>6, <2>7
<1>. HIDE DEF Mem, B
<1>. HIDE DEF G
<1>n. \A x : \A p \in F(x) : p \in Xt!Then(Xt!LosesIt(Xt!SaveScratch(x)), In)
  BY DEF Xt!InOneBatch, Xt!Unless
<1>i. \A a : FitX(a.m) /\ a.m.halted => \A p \in In(a) : B(a.m, p)
  <2> SUFFICES ASSUME NEW a, FitX(a.m), a.m.halted, NEW p \in In(a) PROVE B(a.m, p)
    OBVIOUS
  <2>1. PICK d \in Xt!LosesIt(G(a.m)) : (FitX(d.m) => SameX(d.m, p.m)) /\ (p.ok => d.ok)
    BY XtRestore
  <2>2. PICK c \in G(a.m) : (d.ok <=> c.ok) /\ (FitX(c.m) => SameX(c.m, d.m))
    BY XtLoses
  <2>3. B(a.m, c) /\ FitX(c.m)
    BY <1>g, <1>t, <2>2
  <2>4. B(a.m, d) /\ FitX(d.m)
    BY <1>t, <2>2, <2>3
  <2> QED BY <1>t, <2>1, <2>4
<1>. HIDE DEF In
<1>f. \A x : FitX(x) /\ x.halted => \A p \in F(x) : B(x, p)
  <2> SUFFICES ASSUME NEW x, FitX(x), x.halted, NEW p \in F(x) PROVE B(x, p)
    OBVIOUS
  <2>1. p \in Xt!Then(Xt!LosesIt(Xt!SaveScratch(x)), In)
    BY <1>n
  <2>2. \A a \in Xt!LosesIt(Xt!SaveScratch(x)) : SameX(x, a.m) /\ FitX(a.m) /\ a.m.halted
    <3> SUFFICES ASSUME NEW a \in Xt!LosesIt(Xt!SaveScratch(x)) PROVE SameX(x, a.m) /\ FitX(a.m) /\ a.m.halted
      OBVIOUS
    <3>1. PICK c \in Xt!SaveScratch(x) : FitX(c.m) => SameX(c.m, a.m)
      BY XtLoses
    <3>2. SameX(x, c.m) /\ FitX(c.m)
      BY XtCpu DEF Xt!SaveScratch
    <3> QED BY <3>1, <3>2, SameXTrans, SameXHolds
  <2> QED BY <1>i, <1>t, <2>1, <2>2 DEF Xt!Then
<1>. HIDE DEF F
<1>1. \A c : FitX(c.m) /\ c.m.halted => \A p \in Again(c) : LeapsX(c.m, p.m) /\ Mem(c.m.mem, p) /\ (p.ok => ~p.m.halted)
  <2> SUFFICES ASSUME NEW c, FitX(c.m), c.m.halted, NEW p \in Again(c)
               PROVE  LeapsX(c.m, p.m) /\ Mem(c.m.mem, p) /\ (p.ok => ~p.m.halted)
    OBVIOUS
  <2>1. PICK d \in F(c.m) : FitX(d.m) => MovesX(d.m, p.m) /\ (p.ok => d.ok /\ ~p.m.halted)
    BY XtResumeAfter
  <2>2. StoresX(c.m, d.m) /\ Mem(c.m.mem, d) /\ FitX(d.m)
    BY <1>f, <1>t, <2>1
  <2> QED BY <1>m, <2>1, <2>2, MovesXLeaps, LeapsXTrans, StoresXFit
<1>. HIDE DEF Again
<1>2. \A b : FitX(b.m) => \A p \in Awaited(b) : LeapsX(b.m, p.m) /\ Mem(b.m.mem, p) /\ (p.ok => ~p.m.halted)
  <2>1. \A k : FitX(k) => \A p \in Xt!AwaitCoreHalted(k) :
          LeapsX(k, p.m) /\ p.m.mem = k.mem /\ FitX(p.m) /\ (p.ok => p.m.halted)
    BY XtAwait, HoldsXMoves, MovesXLeaps
  <2> QED BY <1>1, <1>m, <2>1, LeapsXTrans DEF Xt!Then
<1>. HIDE DEF Awaited
<1>3. \A a : FitX(a.m) => \A p \in Other(a) : LeapsX(a.m, p.m) /\ Mem(a.m.mem, p) /\ (p.ok => ~p.m.halted)
  <2>1. \A k : FitX(k) => \A p \in Xt!Access(k, k, Xt!Junk) : LeapsX(k, p.m) /\ p.m.mem = k.mem /\ FitX(p.m)
    BY XtSame, AccessX, SameXRefl, SameXStores, StoresXFit
  <2> QED BY <1>2, <1>m, <2>1, LeapsXTrans DEF Xt!Then
<1>. HIDE DEF Other
<1>4. \A a : \A p \in Told(a) : (a.val = Yes /\ p \in F(a.m)) \/ (a.val # Yes /\ p \in Other(a))
  BY XtSame
<1>. HIDE DEF Told
<1>6. PICK a \in Xt!IsHalted(n) : (~a.ok /\ o = a) \/ (a.ok /\ o \in Told(a))
  BY <1>b DEF Xt!Then
<1>7. LooksX(n, a.m) /\ FitX(a.m) /\ (a.ok => (a.val = Yes <=> a.m.halted))
  BY XtIsHalted
<1>8. MovesX(n, a.m) /\ (n.halted => a.m.halted) /\ (Unforced(n) => Unforced(a.m))
  BY <1>7, LooksXFit DEF HoldsX
<1>s. LeapsX(n, a.m) /\ a.m.mem = n.mem
  BY <1>8, MovesXLeaps
<1>9. CASE ~a.ok
  BY <1>6, <1>7, <1>8, <1>9, <1>m, <1>s, <1>w DEF ServesX
<1>10. CASE a.ok /\ a.m.halted
  <2>1. B(a.m, o)
    BY <1>4, <1>6, <1>7, <1>10, <1>f
  <2>2. StoresX(a.m, o.m) /\ Mem(n.mem, o) /\ FitX(o.m)
    BY <1>s, <1>t, <2>1
  <2>3. o.m.halted /\ o.m.why = a.m.why /\ LeapsX(n, o.m)
    BY <1>10, <1>s, <2>2, StoresXFit, LeapsXTrans DEF StoresX
  <2>4. ServesX(n, o)
    BY <1>8, <1>10, <2>3 DEF ServesX, Unforced
  <2> QED BY <1>w, <2>2, <2>4
<1>11. CASE a.ok /\ ~a.m.halted
  <2>1. LeapsX(a.m, o.m) /\ Mem(n.mem, o) /\ (o.ok => ~o.m.halted)
    BY <1>3, <1>4, <1>6, <1>7, <1>11, <1>s
  <2>2. LeapsX(n, o.m) /\ FitX(o.m) /\ ~n.halted
    BY <1>8, <1>11, <1>s, <2>1, LeapsXTrans DEF LeapsX
  <2> QED BY <1>w, <2>1, <2>2 DEF ServesX, Unforced
<1> QED BY <1>7, <1>9, <1>10, <1>11

(* Less than a word is patched into the word around it.                     *)
LEMMA XtPatchLane ==
  \A n, l, v : FitX(n) /\ n.halted /\ l \in Lanes => \A o \in Xt!PatchLane(n, l, v) :
    /\ StoresX(n, o.m) /\ FitX(o.m)
    /\ o.m.mem \in {n.mem, Byted(n.mem, l)} /\ (o.ok => o.m.mem = Byted(n.mem, l))
<1> SUFFICES ASSUME NEW n, NEW l \in Lanes, NEW v, FitX(n), n.halted, NEW o \in Xt!PatchLane(n, l, v)
             PROVE  /\ StoresX(n, o.m) /\ FitX(o.m)
                    /\ o.m.mem \in {n.mem, Byted(n.mem, l)} /\ (o.ok => o.m.mem = Byted(n.mem, l))
  OBVIOUS
<1> DEFINE w == Xt!WordOf(l)
           Last(a) == Xt!KeepsIt(Xt!StoreAt(a.m, w, Xt!WithLane(a.val.n, l)), v)
<1>1. Xt!PatchLane(n, l, v) = Xt!Then(Xt!LosesIt(Xt!LoadAt(n, w)), Last)
  BY DEF Xt!PatchLane
<1>2. n.mem \in [Lanes -> {0, 1}]
  BY DEF FitX
<1>3. Patched(n.mem, w, WithLane(Word(n.mem, w), l)) = Byted(n.mem, l)
  BY <1>2, PatchedLane, XtPatched DEF Byted
<1>4. Byted(n.mem, l) \in [Lanes -> {0, 1}]
  BY <1>2 DEF Byted
<1>. HIDE DEF w
<1>5. \A a : FitX(a.m) /\ a.m.halted /\ a.m.mem = n.mem /\ a.val = Data(Word(n.mem, w)) => \A p \in Last(a) :
        /\ StoresX(a.m, p.m) /\ FitX(p.m)
        /\ p.m.mem \in {n.mem, Byted(n.mem, l)} /\ (p.ok => p.m.mem = Byted(n.mem, l))
  <2> SUFFICES ASSUME NEW a, FitX(a.m), a.m.halted, a.m.mem = n.mem, a.val = Data(Word(n.mem, w)), NEW p \in Last(a)
               PROVE  /\ StoresX(a.m, p.m) /\ FitX(p.m)
                      /\ p.m.mem \in {n.mem, Byted(n.mem, l)} /\ (p.ok => p.m.mem = Byted(n.mem, l))
    OBVIOUS
  <2>1. a.val.n = Word(n.mem, w)
    BY DEF Data
  <2> DEFINE k == WithLane(a.val.n, l)
  <2>2. Patched(a.m.mem, w, k) = Byted(n.mem, l)
    BY <1>3, <2>1
  <2>3. p \in Xt!KeepsIt(Xt!StoreAt(a.m, w, k), v)
    BY XtPatched
  <2>. HIDE DEF k, Last
  <2>4. PICK c \in Xt!StoreAt(a.m, w, k) : (p.ok <=> c.ok) /\ (FitX(c.m) => SameX(c.m, p.m))
    BY <2>3, XtLoses
  <2>5. /\ StoresX(a.m, c.m) /\ FitX(c.m)
        /\ c.m.mem \in {n.mem, Byted(n.mem, l)} /\ (c.ok => c.m.mem = Byted(n.mem, l))
    BY <1>4, <2>2, XtStoreAt
  <2> QED BY <2>4, <2>5, SameXStores, StoresXTrans, StoresXFit
<1>. HIDE DEF Last
<1>6. \A a \in Xt!LosesIt(Xt!LoadAt(n, w)) : SameX(n, a.m) /\ FitX(a.m) /\ (a.ok => a.val = Data(Word(n.mem, w)))
  <2> SUFFICES ASSUME NEW a \in Xt!LosesIt(Xt!LoadAt(n, w))
               PROVE  SameX(n, a.m) /\ FitX(a.m) /\ (a.ok => a.val = Data(Word(n.mem, w)))
    OBVIOUS
  <2>1. PICK c \in Xt!LoadAt(n, w) : (a.ok <=> c.ok) /\ (a.ok => a = c) /\ (FitX(c.m) => SameX(c.m, a.m))
    BY XtLoses
  <2>2. SameX(n, c.m) /\ FitX(c.m) /\ (c.ok => c.val = Data(Word(n.mem, w)))
    BY XtLoadAt
  <2> QED BY <2>1, <2>2, SameXTrans, SameXHolds
<1>7. \A a : SameX(n, a) => StoresX(n, a) /\ a.mem = n.mem /\ a.halted
  BY SameXStores, SameXHolds
<1> QED BY <1>1, <1>5, <1>6, <1>7, StoresXTrans DEF Xt!Then

\* A byte is written with the core halted for it: that lane and no other.
LEMMA XtWriteLane ==
  ASSUME Careful
  PROVE  \A n, l : FitX(n) /\ l \in Lanes => \A o \in Xt!WriteLane(n, l) :
           ServesX(n, o) /\ FitX(o.m) /\ Writes(n.mem, o, {l})
<1> SUFFICES ASSUME NEW n, NEW l, FitX(n), l \in Lanes, NEW o \in Xt!WriteLane(n, l)
             PROVE  ServesX(n, o) /\ FitX(o.m) /\ Writes(n.mem, o, {l})
  OBVIOUS
<1> DEFINE Mem(old, p) == p.m.mem \in {old, Byted(old, l)} /\ (p.ok => p.m.mem = Byted(old, l))
           B(k, p) == StoresX(k, p.m) /\ Mem(k.mem, p)
           G(a) == Xt!PatchLane(a.m, l, a.val)
           Back(a, b) == Xt!CpuWrite(b.m, "s0", a.val)
           In(a) == Xt!Then(G(a), LAMBDA b : Back(a, b))
           F(x) == IF x.saved # "no" THEN Xt!Unless(TRUE, Xt!PatchLane(x, l, x.kept))
                   ELSE Xt!Then(Xt!LosesIt(Xt!CpuRead(x, "s0")), In)
           Again(c) == Xt!ResumeAfter(F(c.m))
           Awaited(b) == Xt!Then(Xt!AwaitCoreHalted(b.m), Again)
           Other(a) == Xt!Then(Xt!Access(a.m, a.m, Xt!Junk), Awaited)
           Told(a) == IF a.val = Xt!Yes THEN F(a.m) ELSE Other(a)
<1>b. Xt!WriteLane(n, l) = Xt!Then(Xt!IsHalted(n), Told)
  BY DEF Xt!WriteLane, Xt!Briefly
<1>m. /\ \A old, p : p.m.mem = old /\ ~p.ok => Mem(old, p)
      /\ \A old, d, p : Mem(old, d) /\ p.m.mem = d.m.mem /\ (p.ok => d.ok) => Mem(old, p)
  OBVIOUS
<1>w. \A p : Mem(n.mem, p) => Writes(n.mem, p, {l})
  BY AmongWrites DEF FitX
<1>t. /\ \A k, d, p : B(k, d) /\ SameX(d.m, p.m) /\ (p.ok => d.ok) => B(k, p)
      /\ \A k, x, p : SameX(k, x) /\ B(x, p) => B(k, p)
      /\ \A k, p : SameX(k, p.m) /\ ~p.ok => B(k, p)
      /\ \A k, p : B(k, p) => FitX(p.m) /\ StoresX(k, p.m) /\ Mem(k.mem, p)
  <2>. HIDE DEF Mem
  <2> QED BY <1>m, SameXStores, StoresXTrans, StoresXFit
<1>g. \A a : FitX(a.m) /\ a.m.halted => \A p \in G(a) : B(a.m, p)
  BY XtPatchLane, StoresXFit
<1>. HIDE DEF Mem, B
<1>n. \A x : \A p \in F(x) : p \in Xt!Then(Xt!LosesIt(Xt!CpuRead(x, "s0")), In)
  BY DEF Xt!Unless
<1>i. \A a : FitX(a.m) /\ a.m.halted => \A p \in In(a) : B(a.m, p)
  <2>1. \A a, b : FitX(b.m) => \A p \in Back(a, b) : SameX(b.m, p.m)
    BY XtCpu
  <2>2. \A a : \A p \in In(a) : \E b \in G(a) : (~b.ok /\ p = b) \/ (b.ok /\ p \in Back(a, b))
    BY DEF Xt!Then
  <2>. HIDE DEF G, In, Back
  <2> QED BY <1>g, <1>t, <2>1, <2>2
<1>. HIDE DEF In
<1>f. \A x : FitX(x) /\ x.halted => \A p \in F(x) : B(x, p)
  <2> SUFFICES ASSUME NEW x, FitX(x), x.halted, NEW p \in F(x) PROVE B(x, p)
    OBVIOUS
  <2>1. p \in Xt!Then(Xt!LosesIt(Xt!CpuRead(x, "s0")), In)
    BY <1>n
  <2>2. \A a \in Xt!LosesIt(Xt!CpuRead(x, "s0")) : SameX(x, a.m) /\ FitX(a.m) /\ a.m.halted
    <3> SUFFICES ASSUME NEW a \in Xt!LosesIt(Xt!CpuRead(x, "s0")) PROVE SameX(x, a.m) /\ FitX(a.m) /\ a.m.halted
      OBVIOUS
    <3>1. PICK c \in Xt!CpuRead(x, "s0") : FitX(c.m) => SameX(c.m, a.m)
      BY XtLoses
    <3>2. SameX(x, c.m) /\ FitX(c.m)
      BY XtCpu
    <3> QED BY <3>1, <3>2, SameXTrans, SameXHolds
  <2> QED BY <1>i, <1>t, <2>1, <2>2 DEF Xt!Then
<1>. HIDE DEF F
<1>1. \A c : FitX(c.m) /\ c.m.halted => \A p \in Again(c) : LeapsX(c.m, p.m) /\ Mem(c.m.mem, p) /\ (p.ok => ~p.m.halted)
  <2> SUFFICES ASSUME NEW c, FitX(c.m), c.m.halted, NEW p \in Again(c)
               PROVE  LeapsX(c.m, p.m) /\ Mem(c.m.mem, p) /\ (p.ok => ~p.m.halted)
    OBVIOUS
  <2>1. PICK d \in F(c.m) : FitX(d.m) => MovesX(d.m, p.m) /\ (p.ok => d.ok /\ ~p.m.halted)
    BY XtResumeAfter
  <2>2. StoresX(c.m, d.m) /\ Mem(c.m.mem, d) /\ FitX(d.m)
    BY <1>f, <1>t, <2>1
  <2> QED BY <1>m, <2>1, <2>2, MovesXLeaps, LeapsXTrans, StoresXFit
<1>. HIDE DEF Again
<1>2. \A b : FitX(b.m) => \A p \in Awaited(b) : LeapsX(b.m, p.m) /\ Mem(b.m.mem, p) /\ (p.ok => ~p.m.halted)
  <2>1. \A k : FitX(k) => \A p \in Xt!AwaitCoreHalted(k) :
          LeapsX(k, p.m) /\ p.m.mem = k.mem /\ FitX(p.m) /\ (p.ok => p.m.halted)
    BY XtAwait, HoldsXMoves, MovesXLeaps
  <2> QED BY <1>1, <1>m, <2>1, LeapsXTrans DEF Xt!Then
<1>. HIDE DEF Awaited
<1>3. \A a : FitX(a.m) => \A p \in Other(a) : LeapsX(a.m, p.m) /\ Mem(a.m.mem, p) /\ (p.ok => ~p.m.halted)
  <2>1. \A k : FitX(k) => \A p \in Xt!Access(k, k, Xt!Junk) : LeapsX(k, p.m) /\ p.m.mem = k.mem /\ FitX(p.m)
    BY XtSame, AccessX, SameXRefl, SameXStores, StoresXFit
  <2> QED BY <1>2, <1>m, <2>1, LeapsXTrans DEF Xt!Then
<1>. HIDE DEF Other
<1>4. \A a : \A p \in Told(a) : (a.val = Yes /\ p \in F(a.m)) \/ (a.val # Yes /\ p \in Other(a))
  BY XtSame
<1>. HIDE DEF Told
<1>6. PICK a \in Xt!IsHalted(n) : (~a.ok /\ o = a) \/ (a.ok /\ o \in Told(a))
  BY <1>b DEF Xt!Then
<1>7. LooksX(n, a.m) /\ FitX(a.m) /\ (a.ok => (a.val = Yes <=> a.m.halted))
  BY XtIsHalted
<1>8. MovesX(n, a.m) /\ (n.halted => a.m.halted) /\ (Unforced(n) => Unforced(a.m))
  BY <1>7, LooksXFit DEF HoldsX
<1>s. LeapsX(n, a.m) /\ a.m.mem = n.mem
  BY <1>8, MovesXLeaps
<1>9. CASE ~a.ok
  BY <1>6, <1>7, <1>8, <1>9, <1>m, <1>s, <1>w DEF ServesX
<1>10. CASE a.ok /\ a.m.halted
  <2>1. B(a.m, o)
    BY <1>4, <1>6, <1>7, <1>10, <1>f
  <2>2. StoresX(a.m, o.m) /\ Mem(n.mem, o) /\ FitX(o.m)
    BY <1>s, <1>t, <2>1
  <2>3. o.m.halted /\ o.m.why = a.m.why /\ LeapsX(n, o.m)
    BY <1>10, <1>s, <2>2, StoresXFit, LeapsXTrans DEF StoresX
  <2>4. ServesX(n, o)
    BY <1>8, <1>10, <2>3 DEF ServesX, Unforced
  <2> QED BY <1>w, <2>2, <2>4
<1>11. CASE a.ok /\ ~a.m.halted
  <2>1. LeapsX(a.m, o.m) /\ Mem(n.mem, o) /\ (o.ok => ~o.m.halted)
    BY <1>3, <1>4, <1>6, <1>7, <1>11, <1>s
  <2>2. LeapsX(n, o.m) /\ FitX(o.m) /\ ~n.halted
    BY <1>8, <1>11, <1>s, <2>1, LeapsXTrans DEF LeapsX
  <2> QED BY <1>w, <2>1, <2>2 DEF ServesX, Unforced
<1> QED BY <1>7, <1>9, <1>10, <1>11

\* A byte is read with the core halted for it.
LEMMA XtReadLane ==
  ASSUME Careful
  PROVE  \A n, l : FitX(n) => \A o \in Xt!ReadLane(n, l) : ServesX(n, o) /\ FitX(o.m) /\ o.m.mem = n.mem
<1> SUFFICES ASSUME NEW n, NEW l, FitX(n), NEW o \in Xt!ReadLane(n, l)
             PROVE  ServesX(n, o) /\ FitX(o.m) /\ o.m.mem = n.mem
  OBVIOUS
<1>1. \A k, w : Xt!Give(k, w).m = k /\ Xt!Give(k, w).ok
  BY XtSame, OutcomesGive
<1>2. \E a \in Xt!ReadWord(n, Xt!WordOf(l)) : o.m = a.m /\ (o.ok <=> a.ok)
  BY <1>1 DEF Xt!ReadLane, Xt!Then
<1>3. \A b : \A a \in Xt!ReadWord(n, b) : ServesX(n, a) /\ FitX(a.m) /\ a.m.mem = n.mem
  BY XtReadWord
<1> QED BY <1>2, <1>3 DEF ServesX

(* The status of a core that stopped at a breakpoint instruction takes a    *)
(* look at the memory there.                                                *)
LEMMA XtStatus ==
  ASSUME Careful
  PROVE  \A n : FitX(n) => \A o \in Xt!Status(n) :
           /\ ServesX(n, o) /\ FitX(o.m) /\ o.m.mem = n.mem
           /\ o.ok => (o.val = Yes <=> o.m.halted)
<1> SUFFICES ASSUME NEW n, FitX(n), NEW o \in Xt!Status(n)
             PROVE  /\ ServesX(n, o) /\ FitX(o.m) /\ o.m.mem = n.mem
                    /\ o.ok => (o.val = Yes <=> o.m.halted)
  OBVIOUS
<1>0. \A k, w : Xt!Give(k, w).m = k /\ Xt!Give(k, w).ok /\ Xt!Give(k, w).val = w
  BY XtSame, OutcomesGive
<1> DEFINE R(k, p) == /\ ServesX(k, p) /\ FitX(p.m) /\ p.m.mem = k.mem
                      /\ p.ok => p.val = Yes
           W(k) == [k EXCEPT !.pcw = FALSE]
           Ends(c) == Xt!Then(Xt!ReadWord(c.m, 0), LAMBDA d : {Xt!Give(d.m, Xt!Yes)})
           Soft(b) == Xt!Then(Xt!ReadPc(W(b.m)), Ends)
           Caused(b) == IF b.m.why # "soft" THEN {Xt!Give(b.m, Xt!Yes)} ELSE Soft(b)
           Looks1(a) == Xt!Then(Xt!ReadSpecial(a.m, Xt!Junk), Caused)
           Told(a) == IF a.val # Xt!Yes THEN {a} ELSE Looks1(a)
<1>1. Xt!Status(n) = Xt!Then(Xt!IsHalted(n), Told)
  BY DEF Xt!Status
<1>2. \A c : FitX(c.m) => \A p \in Ends(c) : R(c.m, p)
  <2>1. \A c : \A p \in Ends(c) : \E d \in Xt!ReadWord(c.m, 0) : p.m = d.m /\ (p.ok <=> d.ok) /\ (p.ok => p.val = Yes)
    BY <1>0, XtSame DEF Xt!Then
  <2>2. \A k, b : FitX(k) => \A d \in Xt!ReadWord(k, b) : ServesX(k, d) /\ FitX(d.m) /\ d.m.mem = k.mem
    BY XtReadWord
  <2>. HIDE DEF Ends
  <2> QED BY <2>1, <2>2 DEF ServesX
<1>t. /\ \A k, x, p : SameX(k, x) /\ R(x, p) => R(k, p)
      /\ \A k, p : SameX(k, p.m) /\ (p.ok => p.val = Yes) => R(k, p)
  <2>1. \A k, x, p : SameX(k, x) /\ ServesX(x, p) => ServesX(k, p)
    BY DEF SameX, ServesX, LeapsX, Unforced
  <2>2. \A k, p : SameX(k, p.m) => ServesX(k, p) /\ FitX(p.m) /\ p.m.mem = k.mem
    BY SameXStores, StoresServesX, StoresXFit
  <2>3. \A k, x : SameX(k, x) => x.mem = k.mem
    BY SameXStores
  <2> QED BY <2>1, <2>2, <2>3
<1>w. \A k : FitX(k) => SameX(k, W(k)) /\ FitX(W(k))
  <2> DEFINE b == FALSE
  <2>1. \A k : W(k) = Knows(k, b)
    BY DEF Knows
  <2>. HIDE DEF b, W
  <2> QED BY <2>1, FieldsOfX, SameXHolds
<1>. HIDE DEF W, Ends, R
<1>3. \A b : FitX(b.m) => \A p \in Soft(b) : R(b.m, p)
  <2>1. \A k : FitX(k) => \A p \in Xt!ReadPc(k) : SameX(k, p.m) /\ FitX(p.m)
    BY XtRegisters
  <2> QED BY <1>2, <1>t, <1>w, <2>1, SameXTrans DEF Xt!Then
<1>. HIDE DEF Soft
<1>4. \A b : FitX(b.m) => \A p \in Caused(b) : R(b.m, p)
  BY <1>0, <1>3, <1>t, XtSame, SameXRefl
<1>. HIDE DEF Caused
<1>5. \A a : FitX(a.m) => \A p \in Looks1(a) : R(a.m, p)
  BY <1>4, <1>t, XtReadSpecial DEF Xt!Then
<1>. HIDE DEF Looks1
<1>6. PICK a \in Xt!IsHalted(n) : (~a.ok /\ o = a) \/ (a.ok /\ o \in Told(a))
  BY <1>1 DEF Xt!Then
<1>7. LooksX(n, a.m) /\ FitX(a.m) /\ (a.ok => (a.val = Yes <=> a.m.halted))
  BY XtIsHalted
<1>8. LeapsX(n, a.m) /\ a.m.mem = n.mem /\ (n.halted => a.m.halted) /\ (Unforced(n) => Unforced(a.m))
  BY <1>7, LooksXFit, MovesXLeaps DEF HoldsX
<1>9. CASE ~a.ok \/ a.val # Yes
  BY <1>6, <1>7, <1>8, <1>9, XtSame DEF ServesX
<1>10. CASE a.ok /\ a.val = Yes
  <2>1. R(a.m, o)
    BY <1>5, <1>6, <1>7, <1>10, XtSame
  <2>2. ServesX(a.m, o) /\ FitX(o.m) /\ o.m.mem = a.m.mem /\ (o.ok => o.val = Yes)
    BY <2>1 DEF R
  <2> QED BY <1>7, <1>8, <1>10, <2>2, LeapsXTrans DEF ServesX
<1> QED BY <1>9, <1>10

(* The units that are enabled are read in turn. *)
LEMMA XtReadUnitsWalk ==
  \A n, on : \E w :
    /\ Xt!ReadUnits(n, on) = w[NumUnits] /\ w[0] = {Xt!Ok(n)}
    /\ \A u \in 1 .. NumUnits : \A o \in w[u] :
         \E a \in w[u - 1] : (~a.ok /\ o = a) \/ (a.ok /\ o \in Xt!ReadUnit(a.m, u, on))
<1> SUFFICES ASSUME NEW n, NEW on
             PROVE  \E w : /\ Xt!ReadUnits(n, on) = w[NumUnits] /\ w[0] = {Xt!Ok(n)}
                           /\ \A u \in 1 .. NumUnits : \A o \in w[u] :
                                \E a \in w[u - 1] : (~a.ok /\ o = a) \/ (a.ok /\ o \in Xt!ReadUnit(a.m, u, on))
  OBVIOUS
<1> DEFINE On(S, u) == Xt!Then(S, LAMBDA o : Xt!ReadUnit(o.m, u, on))
           first == {Xt!Ok(n)}
           Is(w, k) == w = [i \in 0 .. k |-> IF i = 0 THEN first ELSE On(w[i - 1], i)]
           Ends == {k \in Nat : \E w : Is(w, k)}
           last == Xt!ReadUnits(n, on)
<1>0. NumUnits \in Nat
  BY NumUnitsAssumption
<1>1. last = (CHOOSE w : Is(w, NumUnits))[NumUnits]
  BY DEF Xt!ReadUnits, Xt!EachUnit
<1>2. \A S, u : \A o \in On(S, u) :
        \E a \in S : (~a.ok /\ o = a) \/ (a.ok /\ o \in Xt!ReadUnit(a.m, u, on))
  BY DEF Xt!Then
<1>. HIDE DEF On, first, last
<1>3. 0 \in Ends
  <2>1. Is([i \in 0 .. 0 |-> first], 0)
    OBVIOUS
  <2> QED BY <2>1
<1>4. ASSUME NEW k \in Nat, k \in Ends PROVE k + 1 \in Ends
  <2>1. PICK w : Is(w, k)
    BY <1>4
  <2> DEFINE v == [i \in 0 .. k + 1 |-> IF i = k + 1 THEN On(w[k], k + 1) ELSE w[i]]
  <2>2. \A i \in 0 .. k : w[i] = IF i = 0 THEN first ELSE On(w[i - 1], i)
    BY <2>1
  <2>3. ASSUME NEW i \in 0 .. k + 1
        PROVE  v[i] = IF i = 0 THEN first ELSE On(v[i - 1], i)
    <3>1. CASE i = k + 1
      <4>1. i # 0 /\ i - 1 = k /\ v[i] = On(w[k], k + 1) /\ v[k] = w[k]
        BY <3>1
      <4> QED BY <3>1, <4>1
    <3>2. CASE i # k + 1
      <4>1. i \in 0 .. k /\ v[i] = w[i] /\ (i # 0 => v[i - 1] = w[i - 1])
        BY <3>2
      <4> HIDE DEF v
      <4> QED BY <2>2, <4>1
    <3> QED BY <3>1, <3>2
  <2>4. Is(v, k + 1)
    BY <2>3
  <2>5. \E u : Is(u, k + 1)
    <3> HIDE DEF v, Is
    <3> QED BY <2>4
  <2> QED BY <2>5, SMTT(20)
<1>5. NumUnits \in Ends
  <2>1. \A u \in 1 .. NumUnits : u - 1 \in Ends => u \in Ends
    <3> SUFFICES ASSUME NEW u \in 1 .. NumUnits, u - 1 \in Ends PROVE u \in Ends
      OBVIOUS
    <3>1. u - 1 \in Nat /\ u - 1 + 1 = u
      BY <1>0
    <3>. HIDE DEF Ends
    <3> QED BY <1>4, <3>1
  <2>2. NumUnits \in 0 .. NumUnits
    BY <1>0
  <2>. HIDE DEF Ends
  <2> QED BY <1>3, <2>1, <2>2, UnitByUnit
<1> DEFINE w == CHOOSE w : Is(w, NumUnits)
<1>6. Is(w, NumUnits)
  <2>1. \E x : Is(x, NumUnits)
    BY <1>5
  <2>. HIDE DEF Is
  <2> QED BY <2>1, Zenon
<1>7. last = w[NumUnits]
  BY <1>1
<1>. HIDE DEF w
<1>8. \A i \in 0 .. NumUnits : w[i] = IF i = 0 THEN first ELSE On(w[i - 1], i)
  BY <1>6
<1>9. w[0] = first /\ \A u \in 1 .. NumUnits : w[u] = On(w[u - 1], u)
  BY <1>0, <1>8
<1>10. \A u \in 1 .. NumUnits : \A o \in w[u] :
         \E a \in w[u - 1] : (~a.ok /\ o = a) \/ (a.ok /\ o \in Xt!ReadUnit(a.m, u, on))
  BY <1>2, <1>9
<1> QED BY <1>7, <1>9, <1>10 DEF last, first

\* The breakpoint units are read, and the core is in the same place.
LEMMA XtReadUnits ==
  ASSUME Careful
  PROVE  \A n, on : FitX(n) => \A o \in Xt!ReadUnits(n, on) : SameX(n, o.m) /\ FitX(o.m)
<1>0. NumUnits \in 0 .. NumUnits
  BY NumUnitsAssumption
<1> SUFFICES ASSUME NEW n, NEW on, FitX(n) PROVE \A o \in Xt!ReadUnits(n, on) : SameX(n, o.m) /\ FitX(o.m)
  OBVIOUS
<1>1. PICK w : /\ Xt!ReadUnits(n, on) = w[NumUnits] /\ w[0] = {Xt!Ok(n)}
               /\ \A u \in 1 .. NumUnits : \A o \in w[u] :
                    \E a \in w[u - 1] : (~a.ok /\ o = a) \/ (a.ok /\ o \in Xt!ReadUnit(a.m, u, on))
  BY XtReadUnitsWalk
<1>2. \A x, u : FitX(x) => \A o \in Xt!ReadUnit(x, u, on) : SameX(x, o.m)
  BY XtReadSpecial, XtSame, OutcomesGive, SameXRefl DEF Xt!ReadUnit
<1> DEFINE S == {u \in 0 .. NumUnits : \A o \in w[u] : SameX(n, o.m)}
<1>3. 0 \in S
  BY <1>0, <1>1, XtSame, OutcomesGive, SameXRefl, NumUnitsAssumption
<1>4. \A u \in 1 .. NumUnits : u - 1 \in S => u \in S
  <2> SUFFICES ASSUME NEW u \in 1 .. NumUnits, u - 1 \in S PROVE u \in S
    OBVIOUS
  <2>1. u \in 0 .. NumUnits
    BY NumUnitsAssumption
  <2>2. \A a \in w[u - 1] : SameX(n, a.m) /\ FitX(a.m)
    BY SameXHolds
  <2>3. \A o \in w[u] : SameX(n, o.m)
    BY <1>1, <1>2, <2>2, SameXTrans
  <2> QED BY <2>1, <2>3
<1>5. NumUnits \in S
  <2>. HIDE DEF S
  <2> QED BY <1>0, <1>3, <1>4, UnitByUnit
<1> QED BY <1>1, <1>5, SameXHolds

(* Breakpoint units are read, enabled, set and cleared. *)
LEMMA XtBreakpoints ==
  ASSUME Careful
  PROVE  \A n : FitX(n) =>
           /\ \A o \in Xt!HwBreakpoints(n) : SameX(n, o.m) /\ FitX(o.m)
           /\ \A b : \A o \in Xt!EnableBreakpoints(n, b) : SameX(n, o.m) /\ FitX(o.m)
           /\ \A u, x : \A o \in Xt!SetHwBreakpoint(n, u, x) : SameX(n, o.m) /\ FitX(o.m)
           /\ \A u : \A o \in Xt!ClearHwBreakpoint(n, u) : SameX(n, o.m) /\ FitX(o.m)
<1>1. ASSUME NEW n, FitX(n), NEW o \in Xt!HwBreakpoints(n) PROVE SameX(n, o.m) /\ FitX(o.m)
  BY <1>1, XtReadSpecial, XtReadUnits, SameXTrans DEF Xt!HwBreakpoints, Xt!Then
<1>2. ASSUME NEW n, FitX(n), NEW b, NEW o \in Xt!EnableBreakpoints(n, b) PROVE SameX(n, o.m) /\ FitX(o.m)
  <2> DEFINE k == Enables(n, b)
             us == IF b THEN k.bset ELSE {}
  <2>1. o \in Xt!WriteMask(k, us)
    BY <1>2 DEF Xt!EnableBreakpoints, Enables
  <2>2. SameX(n, k) /\ FitX(k)
    BY <1>2, FieldsOfX, SameXHolds
  <2>. HIDE DEF k, us
  <2> QED BY <2>1, <2>2, XtWriteMask, SameXTrans
<1>3. \A n : FitX(n) => \A o \in Xt!UpdateMask(n) : SameX(n, o.m) /\ FitX(o.m)
  BY XtWriteMask, XtSame, OutcomesGive, SameXRefl DEF Xt!UpdateMask
<1>4. ASSUME NEW n, FitX(n), NEW u, NEW o \in Xt!ClearHwBreakpoint(n, u) PROVE SameX(n, o.m) /\ FitX(o.m)
  <2> DEFINE k == Uses(n, n.bset \ {u})
  <2>1. o \in Xt!UpdateMask(k)
    BY <1>4 DEF Xt!ClearHwBreakpoint, Uses
  <2>2. SameX(n, k) /\ FitX(k)
    BY <1>4, FieldsOfX, SameXHolds
  <2>. HIDE DEF k
  <2> QED BY <1>3, <2>1, <2>2, SameXTrans
<1>5. ASSUME NEW n, FitX(n), NEW u, NEW x, NEW o \in Xt!SetHwBreakpoint(n, u, x) PROVE SameX(n, o.m) /\ FitX(o.m)
  <2> DEFINE k == Uses(n, n.bset \cup {u})
             S == Xt!Then(Xt!WriteUnit(k, u, x), LAMBDA p : Xt!UpdateMask(p.m))
  <2>1. Xt!SetHwBreakpoint(n, u, x) = UNION {Xt!Unless(~p.ok /\ p.m.bset # p.m.on, {p}) : p \in S}
    BY DEF Xt!SetHwBreakpoint, Uses
  <2>2. SameX(n, k) /\ FitX(k)
    BY <1>5, FieldsOfX, SameXHolds
  <2>. HIDE DEF k
  <2>3. \A p \in S : SameX(n, p.m)
    BY <1>3, <2>2, XtWriteUnit, SameXTrans DEF Xt!Then
  <2>. HIDE DEF S
  <2>4. o \in S
    BY <1>5, <2>1 DEF Xt!Unless
  <2> QED BY <2>3, <2>4, SameXHolds
<1> QED BY <1>1, <1>2, <1>4, <1>5

(* When the session ends the core runs on. *)
LEMMA XtLeave ==
  ASSUME Careful
  PROVE  \A n : FitX(n) => \A o \in Xt!Leave(n) : MovesX(n, o.m) /\ FitX(o.m) /\ (o.ok => ~o.m.halted)
<1>1. \A n : FitX(n) => \A o \in Xt!RestoreRegisters(n) : SameX(n, o.m) /\ FitX(o.m)
  <2> SUFFICES ASSUME NEW n, FitX(n), NEW o \in Xt!RestoreRegisters(n) PROVE SameX(n, o.m) /\ FitX(o.m)
    OBVIOUS
  <2> DEFINE s == "no"
             k == Keeps(n, s)
  <2>1. o \in {Xt!Ok(n), Xt!Err(n)} \/ o \in Xt!CpuWrite(k, "s0", n.kept)
    BY DEF Xt!RestoreRegisters, Keeps
  <2>. HIDE DEF s
  <2>2. SameX(n, k) /\ FitX(k) /\ SameX(n, n)
    BY FieldsOfX, SameXRefl, SameXHolds
  <2>. HIDE DEF k
  <2>3. CASE o \in {Xt!Ok(n), Xt!Err(n)}
    BY <2>2, <2>3, XtSame, OutcomesGive
  <2>4. CASE o \in Xt!CpuWrite(k, "s0", n.kept)
    BY <2>2, <2>4, XtCpu, SameXTrans
  <2> QED BY <2>1, <2>3, <2>4
<1>2. \A n, x : SameX(n, x) => MovesX(n, x) /\ FitX(x) /\ x.halted = n.halted
  BY SameXHolds, HoldsXMoves
<1>3. \A n : FitX(n) => \A o \in Xt!Access(n, n, Xt!Junk) : MovesX(n, o.m) /\ FitX(o.m) /\ o.m.halted = n.halted
  BY <1>2, XtSame, AccessX, SameXRefl
<1> QED BY <1>1, <1>2, <1>3, XtResume, MovesXTrans DEF Xt!Leave, Xt!Then

\* A new driver is in order.
LEMMA XtNew ==
  \A left : \A o \in Xt!New(NewTarget, left) : FitX(o.m)
<1> SUFFICES ASSUME NEW left PROVE \A o \in Xt!New(NewTarget, left) : FitX(o.m)
  OBVIOUS
<1> DEFINE bp == [u \in Xt!Units |-> IF u \in left THEN "x" ELSE Xt!Free]
           t == [NewTarget EXCEPT !.causes = {"soft"}, !.bps = bp]
           d == [sh |-> FALSE, saved |-> "no", kept |-> Xt!Junk, pcw |-> FALSE,
                 bset |-> {}, on |-> left, bpOn |-> FALSE]
           x == Xt!Driven(t, d)
<1>1. Xt!New(NewTarget, left) = {Xt!Ok(x)}
  BY DEF Xt!New
<1>2. DOMAIN x = DOMAIN t \cup DOMAIN d /\ \A g \in DOMAIN x : x[g] = IF g \in DOMAIN t THEN t[g] ELSE d[g]
  <2>. HIDE DEF t, d
  <2> QED BY DEF Xt!Driven
<1>. HIDE DEF bp
<1>3. /\ DOMAIN t = CoreFields
      /\ t.halted = FALSE /\ t.causes = {"soft"}
      /\ t.mem = [a \in Lanes |-> 0] /\ t.regs = Own(0)
  BY DEF NewTarget, CoreFields
<1>4. DOMAIN d = {"sh", "saved", "kept", "pcw", "bset", "on", "bpOn"} /\ d.sh = FALSE
  OBVIOUS
<1>. HIDE DEF x, t, d
<1>5. /\ FieldsX \subseteq DOMAIN x
      /\ x.halted = FALSE /\ x.causes = {"soft"}
      /\ x.mem = [a \in Lanes |-> 0] /\ x.regs = Own(0) /\ x.sh = FALSE
  BY <1>2, <1>3, <1>4 DEF FieldsX, CoreFields
<1>6. FitX(x)
  BY <1>5 DEF FitX, Own
<1> QED BY <1>1, <1>6, XtSame, OutcomesGive
=============================================================================
