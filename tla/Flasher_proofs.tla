--------------------------- MODULE Flasher_proofs ---------------------------
(***************************************************************************)
(* For every layout, page size, algorithm and set of faults: the buffer a  *)
(* routine programs from is left alone, flash changes only as the layout   *)
(* has it, and what Flasher::program returns and reports is the truth.     *)
(***************************************************************************)
EXTENDS Flasher, SequenceTheorems, TLAPS

Waits == {"initWait", "wait", "uninitWait"}
Steps == Waits \cup {"begin", "enter", "work", "start", "uninit", "left", "done", "end"}
Stages == {"chip", "filling", "erasing", "programming"}
Values == {"old", "erased", "new", "bad"}
Offsets == 0 .. PageSize - 1
Routine == [name : {"none", "init", "erase", "program", "uninit"}, range : Ranges,
            buf : {0, 1}, done : Nat]
Events == {"initialized", "started", "finished", "failed"} \X Stages
Buffer == [Offsets -> Nat \X Values]
Contents == [Addr -> Values]

HostTypes ==
  /\ plan \in Plans /\ step \in Steps /\ loaded \in 0 .. PageSize /\ buf \in {0, 1}
  /\ data \in Contents /\ failed \in BOOLEAN /\ result \in {"none", "ok", "error"}
  /\ log \in Seq(Events)

TargetTypes ==
  /\ core \in {"halted", "running", "lockedup"} /\ routine \in Routine /\ r0 \in {0, 1}
  /\ ram \in [{0, 1} -> Buffer] /\ flash \in Contents
  /\ active \in {"none", "Erase", "Program", "Verify"}

Jobs == [stage : Stages, items : Seq(Ranges)]

TypeOK == HostTypes /\ TargetTypes

-----------------------------------------------------------------------------
(* What is left to do.                                                     *)

Fills == IF plan.restore THEN plan.fills ELSE <<>>
Wiped == plan.skip \/ plan.chip

\* The ranges of a stage, and the stages after it.
All(stage) ==
  CASE stage = "chip" -> <<<<0, Size>>>>
    [] stage = "filling" -> Fills
    [] stage = "erasing" -> plan.sectors
    [] OTHER -> plan.pages

After(stage) ==
  CASE stage = "chip" -> <<[stage |-> "filling", items |-> Fills],
                           [stage |-> "programming", items |-> plan.pages]>>
    [] stage = "filling" /\ ~Wiped -> <<[stage |-> "erasing", items |-> plan.sectors],
                                        [stage |-> "programming", items |-> plan.pages]>>
    [] stage = "programming" -> <<>>
    [] OTHER -> <<[stage |-> "programming", items |-> plan.pages]>>

Remaining == Covered(Items)
Whole == Covered(All(Stage))

Queue ==
  /\ jobs \in Seq(Jobs) /\ jobs # <<>> /\ Stage \in Stages /\ Tail(jobs) = After(Stage)
  /\ Items \in Seq(Ranges) /\ (Stage = "programming" => Items \in Seq(Pages))
  /\ Remaining \subseteq Whole
  /\ Stage = "chip" => plan.chip
  /\ Stage = "erasing" => ~Wiped

\* Where the host is, and what the core does meanwhile.
Flow ==
  /\ (step = "end") <=> (result # "none")
  /\ core # "halted" => \/ step \in Waits \cup {"end"}
                        \/ step = "work" /\ Double /\ routine.name = "program" /\ routine.buf # buf
  /\ step = "initWait" => routine.name = "init"
  /\ step = "uninitWait" => routine.name = "uninit"
  /\ step = "wait" => /\ Stage # "filling" /\ ~Double /\ Items # <<>> /\ routine.range = Head(Items)
                      /\ routine.name = IF Op = "Erase" THEN "erase" ELSE "program"
  /\ step = "start" => Double /\ loaded = PageSize /\ Items # <<>>
  /\ step \in {"uninit", "uninitWait", "left"} /\ Stage # "filling" => Items = <<>>
  /\ step = "done" => Items = <<>>
  /\ step \in {"enter", "initWait", "work"} /\ Stage = "filling" => Items # <<>>
  /\ result = "ok" => core = "halted" /\ Stage = "programming"

\* What the core runs belongs to the stage, and its result to what it did.
Runs ==
  /\ routine.done <= Length
  /\ core = "halted" /\ r0 = 0 => routine.done = Length
  /\ routine.name \notin {"erase", "program"} => Length = 0
  /\ routine.name = "init" => plan.init
  /\ routine.name = "program" => /\ Stage = "programming" /\ routine.range \in Pages
                                 /\ Range2(routine.range) \subseteq Whole
  /\ routine.name = "erase" /\ core = "running" => /\ Op = "Erase" /\ step \in {"wait", "end"}
                                                   /\ Range2(routine.range) \subseteq Whole

\* The buffer being filled holds the beginning of the next page.
Loading ==
  step # "end" /\ loaded > 0 =>
    /\ Stage = "programming" /\ Items # <<>>
    /\ \A i \in 0 .. loaded - 1 :
         LET a == Head(Items)[1] + i IN ram[buf][i] = <<a, data[a]>>

-----------------------------------------------------------------------------
(* The contents.                                                           *)

\* What is in flash in the end, and what is there when programming begins.  With a
\* chip erase the fills are erased when they are read.
Outcome(a) ==
  IF a \in plan.staged THEN "new"
  ELSE IF plan.chip \/ plan.skip \/ (a \in Covered(plan.sectors) /\ ~plan.restore) THEN "erased"
  ELSE "old"
Goal == [a \in Addr |-> Outcome(a)]
Kept == IF Wiped THEN "erased" ELSE "old"
Blank == [a \in Addr |-> IF Wiped \/ a \in Covered(plan.sectors) THEN "erased" ELSE "old"]

\* The pages hold the data, and around it what was read from flash.
Filled ==
  \A a \in Addr :
    /\ a \in plan.staged => data[a] = "new"
    /\ a \notin plan.staged => data[a] \in {"erased", Kept}
    /\ a \notin plan.staged /\ a \notin Covered(Fills) => data[a] = "erased"
    /\ a \in Covered(Fills) =>
         \/ Stage = "chip"
         \/ Stage = "filling" /\ a \in Remaining
         \/ data[a] = Kept

\* What the routine has already erased or programmed.
Reached(a) == a \in Range2(routine.range) /\ a - routine.range[1] < routine.done

\* Flash before it is programmed.
Erased ==
  /\ Stage = "chip" =>
       \A a \in Addr : /\ flash[a] \in {"old", "erased"}
                       /\ plan.skip \/ a \notin Remaining => flash[a] = "erased"
  /\ Stage = "filling" => \A a \in Addr : flash[a] = Kept
  /\ Stage = "erasing" =>
       \A a \in Addr : /\ flash[a] \in {Kept, Blank[a]}
                       /\ a \notin Remaining => flash[a] = Blank[a]
  /\ step = "wait" /\ routine.name = "erase" =>
       \A a \in Addr : Reached(a) => flash[a] = "erased"

\* No page is being programmed.
Idle == step \notin {"wait", "end"} /\ (step = "work" => ~Double)

\* Flash while it is programmed: a page that is not left to do is there, or under way.
Programming ==
  /\ Stage = "programming" =>
       \A a \in Addr :
         /\ flash[a] \in {Blank[a], Goal[a]}
         /\ a \notin Remaining => \/ flash[a] = Goal[a]
                                  \/ routine.name = "program" /\ a \in Range2(routine.range)
  /\ routine.name = "program" => \A a \in Addr : Reached(a) => flash[a] = Goal[a]
  /\ routine.name = "program" /\ Idle => routine.done = Length

-----------------------------------------------------------------------------
(* The outcome.                                                            *)

OkIsThere == result = "ok" => \A a \in Addr : flash[a] = Outcome(a)

\* The algorithm is initialised for what it is asked to do.
Initialised ==
  /\ plan.init /\ step \in {"work", "wait", "start", "uninit"} => active = Op
  /\ plan.init /\ step = "initWait" /\ core = "halted" /\ r0 = 0 => active = Op
  /\ plan.uninit /\ step \in {"begin", "enter", "left", "done"} => active = "none"
  /\ step = "uninitWait" /\ core = "halted" /\ r0 = 0 => active = "none"
  /\ ~plan.init => active = "none"

\* A failure is in the core until the host has seen it.
Honest ==
  /\ failed => \/ step = "end" /\ result = "error"
               \/ /\ step \in Waits \/ (step = "work" /\ Double)
                  /\ core = "lockedup" \/ (core = "halted" /\ r0 = 1)
  /\ core = "lockedup" => failed
  /\ plan.init /\ core = "halted" /\ r0 = 1 =>
       failed \/ step \in {"begin", "enter"} \/ (step = "done" /\ Stage \in {"chip", "filling"})
  /\ plan.init /\ result = "error" => failed

\* How many of the documented events have been reported.
Reported ==
  (IF Stage = "filling" THEN 0 ELSE IF Stage = "erasing" \/ plan.skip THEN 3 ELSE 5)
  + (IF step = "begin" THEN 0 ELSE IF result = "ok" \/ Stage = "filling" THEN 2 ELSE 1)

Logged ==
  ~plan.chip =>
    /\ Len(log) = Reported + (IF result = "error" THEN 1 ELSE 0)
    /\ \A i \in 1 .. Reported : log[i] = Documented[i]
    /\ result = "error" => log[Reported + 1] = <<"failed", Stage>>

IndInv ==
  /\ TypeOK
  /\ Queue
  /\ Flow
  /\ Runs
  /\ Loading
  /\ BufferHoldsPage
  /\ Filled
  /\ Erased
  /\ Programming
  /\ OkIsThere
  /\ Initialised
  /\ Honest
  /\ Logged

-----------------------------------------------------------------------------
(* The queue of stages.                                                    *)

\* A stage is put in front of those that follow it.
LEMMA InFront ==
  ASSUME NEW S, NEW x \in S, NEW s \in Seq(S)
  PROVE  /\ <<x>> \o s \in Seq(S) /\ <<x>> \o s # <<>>
         /\ Head(<<x>> \o s) = x /\ Tail(<<x>> \o s) = s
<1> DEFINE c == <<x>> \o s
<1>1. /\ c \in Seq(S) /\ Len(c) = 1 + Len(s) /\ Len(s) \in Nat
      /\ \A i \in 1 .. 1 + Len(s) : c[i] = IF i <= 1 THEN <<x>>[i] ELSE s[i - 1]
  <2>1. <<x>> \in Seq(S) /\ Len(<<x>>) = 1
    OBVIOUS
  <2> QED BY <2>1, ConcatProperties
<1> HIDE DEF c
<1>2. c # <<>> /\ Head(c) = x
  BY <1>1
<1>3. Tail(c) \in Seq(S) /\ Len(Tail(c)) = Len(s) /\ \A i \in 1 .. Len(Tail(c)) : Tail(c)[i] = c[i + 1]
  BY <1>1, <1>2, HeadTailProperties
<1>4. \A i \in 1 .. Len(s) : Tail(c)[i] = s[i]
  BY <1>1, <1>3
<1>5. Tail(c) = s
  BY <1>3, <1>4, SeqEqual
<1> QED BY <1>1, <1>2, <1>5 DEF c

\* Sequences of one and two are put together.
LEMMA Tuples ==
  ASSUME NEW S, NEW x \in S, NEW y \in S, NEW z \in S
  PROVE  <<x>> \o <<y>> = <<x, y>> /\ <<x, y>> \o <<z>> = <<x, y, z>>
<1>1. ASSUME NEW c \in Seq(S), NEW d \in Seq(S), Len(c) = Len(d), \A i \in 1 .. Len(c) : c[i] = d[i]
      PROVE  c = d
  BY <1>1, SeqEqual
<1>2. <<x>> \o <<y>> = <<x, y>>
  <2> DEFINE c == <<x>> \o <<y>>
             d == <<x, y>>
  <2>1. c \in Seq(S) /\ Len(c) = 2 /\ c[1] = x /\ c[2] = y
    OBVIOUS
  <2>2. d \in Seq(S) /\ Len(d) = 2 /\ d[1] = x /\ d[2] = y
    OBVIOUS
  <2> HIDE DEF c, d
  <2>3. \A i \in 1 .. Len(c) : c[i] = d[i]
    BY <2>1, <2>2
  <2>4. c = d
    BY <1>1, <2>1, <2>2, <2>3
  <2> QED BY <2>4 DEF c, d
<1>3. <<x, y>> \o <<z>> = <<x, y, z>>
  <2> DEFINE c == <<x, y>> \o <<z>>
             d == <<x, y, z>>
  <2>1. c \in Seq(S) /\ Len(c) = 3 /\ c[1] = x /\ c[2] = y /\ c[3] = z
    OBVIOUS
  <2>2. d \in Seq(S) /\ Len(d) = 3 /\ d[1] = x /\ d[2] = y /\ d[3] = z
    OBVIOUS
  <2> HIDE DEF c, d
  <2>3. \A i \in 1 .. Len(c) : c[i] = d[i]
    BY <2>1, <2>2
  <2>4. c = d
    BY <1>1, <2>1, <2>2, <2>3
  <2> QED BY <2>4 DEF c, d
<1> QED BY <1>2, <1>3

\* The last stage is the one with none after it.
LEMMA Single == ASSUME NEW S, NEW s \in Seq(S), s # <<>> PROVE Len(s) = 1 <=> Tail(s) = <<>>
<1>1. Tail(s) \in Seq(S) /\ Len(Tail(s)) = Len(s) - 1 /\ Len(s) \in Nat
  BY HeadTailProperties, LenProperties
<1>2. Tail(s) # <<>> => Len(Tail(s)) \in Nat \ {0}
  BY <1>1, EmptySeq
<1>3. Tail(s) = <<>> => Len(Tail(s)) = 0
  BY EmptySeq, Zenon
<1> QED BY <1>1, <1>2, <1>3

\* A plan is what PlansAssumption says.
LEMMA PlanIs ==
  ASSUME plan \in Plans
  PROVE  /\ plan.sectors \in Seq(Ranges) /\ plan.pages \in Seq(Pages) /\ plan.pages \in Seq(Ranges)
         /\ plan.fills \in Seq(Ranges) /\ Fills \in Seq(Ranges) /\ plan.staged \subseteq Addr
         /\ plan.chip \in BOOLEAN /\ plan.skip \in BOOLEAN /\ plan.double \in BOOLEAN
         /\ plan.restore \in BOOLEAN /\ plan.init \in BOOLEAN /\ plan.uninit \in BOOLEAN
<1>1. plan \in PlanType
  BY PlansAssumption
<1>2. plan.pages \in Seq(Pages) /\ Pages \subseteq Ranges
  BY <1>1 DEF PlanType, Pages
<1>3. plan.pages \in Seq(Ranges)
  BY <1>2, SeqMonotonic
<1>4. <<>> \in Seq(Ranges)
  OBVIOUS
<1> QED BY <1>1, <1>2, <1>3, <1>4 DEF PlanType, Fills

\* A sequence covers its first range and what the others cover.
LEMMA CoveredIs ==
  /\ Covered(<<>>) = {}
  /\ \A s \in Seq(Ranges) : s # <<>> => Covered(s) = Range2(Head(s)) \cup Covered(Tail(s))
<1>1. Covered(<<>>) = {}
  BY DEF Covered
<1>2. ASSUME NEW s \in Seq(Ranges), s # <<>>
      PROVE  Covered(s) = Range2(Head(s)) \cup Covered(Tail(s))
  <2>1. /\ Tail(s) \in Seq(Ranges) /\ Len(Tail(s)) = Len(s) - 1 /\ Len(s) \in Nat \ {0}
        /\ \A i \in 1 .. Len(Tail(s)) : Tail(s)[i] = s[i + 1]
        /\ Head(s) = s[1]
    BY <1>2, HeadTailProperties, EmptySeq
  <2>2. DOMAIN s = 1 .. Len(s) /\ DOMAIN Tail(s) = 1 .. Len(s) - 1
    BY <2>1, LenProperties
  <2>3. ASSUME NEW a \in Covered(s) PROVE a \in Range2(Head(s)) \cup Covered(Tail(s))
    <3>1. PICK i \in 1 .. Len(s) : a \in Range2(s[i])
      BY <2>2 DEF Covered
    <3>2. CASE i = 1
      BY <2>1, <3>1, <3>2
    <3>3. CASE i # 1
      <4>1. i - 1 \in 1 .. Len(s) - 1 /\ i - 1 + 1 = i
        BY <2>1, <3>3
      <4>2. Tail(s)[i - 1] = s[i]
        BY <2>1, <4>1
      <4> QED BY <2>2, <3>1, <4>1, <4>2 DEF Covered
    <3> QED BY <3>2, <3>3
  <2>4. Range2(Head(s)) \subseteq Covered(s)
    BY <2>1, <2>2 DEF Covered
  <2>5. ASSUME NEW a \in Covered(Tail(s)) PROVE a \in Covered(s)
    <3>1. PICK i \in 1 .. Len(s) - 1 : a \in Range2(Tail(s)[i])
      BY <2>2 DEF Covered
    <3>2. i + 1 \in 1 .. Len(s) /\ Tail(s)[i] = s[i + 1]
      BY <2>1, <3>1
    <3> QED BY <2>2, <3>1, <3>2 DEF Covered
  <2> QED BY <2>3, <2>4, <2>5
<1> QED BY <1>1, <1>2

\* What depends on the plan alone stays with it.
LEMMA SamePlan ==
  ASSUME plan' = plan
  PROVE  /\ Fills' = Fills /\ Wiped' = Wiped /\ Goal' = Goal /\ Kept' = Kept /\ Blank' = Blank
         /\ Documented' = Documented
BY DEF Fills, Wiped, Goal, Kept, Blank, Documented, Outcome

\* So does what depends on the queue.
LEMMA SameJob ==
  ASSUME UNCHANGED <<plan, jobs>>
  PROVE  /\ Stage' = Stage /\ Items' = Items /\ Op' = Op /\ Double' = Double
         /\ Remaining' = Remaining /\ Whole' = Whole /\ Queue' = Queue
<1>1. Stage' = Stage /\ Items' = Items
  BY DEF Stage, Items
<1>2. Op' = Op /\ Double' = Double /\ Remaining' = Remaining
  BY <1>1 DEF Op, Double, Remaining, Covered, Range2
<1>3. Fills' = Fills /\ Wiped' = Wiped
  BY SamePlan
<1>4. Whole' = Whole
  BY <1>1, <1>3 DEF Whole, All, Covered, Range2
<1>5. Queue' = Queue
  BY <1>1, <1>2, <1>3, <1>4 DEF Queue, After
<1> QED BY <1>1, <1>2, <1>4, <1>5

\* The stages after one are jobs, and each is followed by those after it.
LEMMA AfterIs ==
  ASSUME plan \in Plans, NEW stage \in Stages, stage = "chip" => plan.chip
  PROVE  /\ After(stage) \in Seq(Jobs)
         /\ After(stage) = <<>> <=> stage = "programming"
         /\ stage # "programming" =>
              LET next == Head(After(stage))
              IN /\ next.stage \in Stages /\ next.items = All(next.stage)
                 /\ Tail(After(stage)) = After(next.stage)
                 /\ next.stage # "chip" /\ (next.stage = "erasing" => ~Wiped /\ stage = "filling")
                 /\ stage = "chip" <=> next.stage = "filling"
<1> DEFINE fill == [stage |-> "filling", items |-> Fills]
           erase == [stage |-> "erasing", items |-> plan.sectors]
           prog == [stage |-> "programming", items |-> plan.pages]
<1>1. fill \in Jobs /\ erase \in Jobs /\ prog \in Jobs
  BY PlanIs DEF Jobs, Stages
<1>2. /\ fill.stage = "filling" /\ fill.items = Fills
      /\ erase.stage = "erasing" /\ erase.items = plan.sectors
      /\ prog.stage = "programming" /\ prog.items = plan.pages
  OBVIOUS
<1> HIDE DEF fill, erase, prog
<1>3. /\ stage = "chip" => After(stage) = <<fill, prog>>
      /\ stage = "filling" => After(stage) = IF Wiped THEN <<prog>> ELSE <<erase, prog>>
      /\ stage = "erasing" => After(stage) = <<prog>>
      /\ stage = "programming" => After(stage) = <<>>
  BY DEF After, fill, erase, prog
<1>4. /\ <<>> \in Seq(Jobs) /\ <<prog>> \in Seq(Jobs)
      /\ <<fill, prog>> \in Seq(Jobs) /\ <<erase, prog>> \in Seq(Jobs)
  BY <1>1
<1>5. /\ Head(<<prog>>) = prog /\ Tail(<<prog>>) = <<>> /\ <<prog>> # <<>>
      /\ Head(<<fill, prog>>) = fill /\ Tail(<<fill, prog>>) = <<prog>> /\ <<fill, prog>> # <<>>
      /\ Head(<<erase, prog>>) = erase /\ Tail(<<erase, prog>>) = <<prog>> /\ <<erase, prog>> # <<>>
  OBVIOUS
<1>6. /\ All("filling") = Fills /\ All("erasing") = plan.sectors /\ All("programming") = plan.pages
      /\ After("programming") = <<>> /\ After("erasing") = <<prog>>
      /\ Wiped => After("filling") = <<prog>>
  BY DEF All, After, prog
<1>7. CASE stage = "chip"
  BY <1>2, <1>3, <1>4, <1>5, <1>6, <1>7 DEF Wiped, Stages
<1>8. CASE stage = "filling"
  BY <1>2, <1>3, <1>4, <1>5, <1>6, <1>8 DEF Stages
<1>9. CASE stage = "erasing"
  BY <1>2, <1>3, <1>4, <1>5, <1>6, <1>9 DEF Stages
<1>10. CASE stage = "programming"
  BY <1>3, <1>4, <1>10
<1> QED BY <1>7, <1>8, <1>9, <1>10 DEF Stages

\* The whole of a stage.
LEMMA AllIs ==
  ASSUME plan \in Plans
  PROVE  /\ \A stage \in Stages : All(stage) \in Seq(Ranges)
         /\ All("programming") \in Seq(Pages)
         /\ Covered(All("chip")) = Addr
         /\ \A stage \in Stages : Covered(All(stage)) \subseteq Addr
<1>1. <<<<0, Size>>>> \in Seq(Ranges) /\ Head(<<<<0, Size>>>>) = <<0, Size>> /\ Tail(<<<<0, Size>>>>) = <<>>
      /\ <<<<0, Size>>>> # <<>>
  BY SizesAssumption DEF Ranges
<1>2. Covered(<<<<0, Size>>>>) = Addr
  <2>1. Covered(<<<<0, Size>>>>) = Range2(<<0, Size>>) \cup {}
    BY <1>1, CoveredIs
  <2>2. Range2(<<0, Size>>) = 0 .. Size - 1
    BY DEF Range2
  <2> QED BY <2>1, <2>2 DEF Addr
<1>3. ASSUME NEW s \in Seq(Ranges) PROVE Covered(s) \subseteq Addr
  <2>1. \A i \in DOMAIN s : s[i] \in Ranges
    BY ElementOfSeq, LenProperties
  <2>2. \A r \in Ranges : Range2(r) \subseteq Addr
    BY SizesAssumption DEF Ranges, Range2, Addr
  <2> QED BY <2>1, <2>2 DEF Covered
<1>4. ASSUME NEW stage \in Stages PROVE All(stage) \in Seq(Ranges)
  BY <1>1, PlanIs DEF All, Stages
<1>5. All("programming") \in Seq(Pages) /\ All("chip") = <<<<0, Size>>>>
  BY PlanIs DEF All
<1> QED BY <1>2, <1>3, <1>4, <1>5

\* Program begins with the whole of its first stage, and the others follow.
LEMMA FirstJob ==
  ASSUME plan \in Plans, jobs = JobsOf(plan)
  PROVE  /\ Queue /\ Items = All(Stage) /\ Stage \in {"chip", "filling"}
         /\ Stage = "chip" <=> plan.chip
<1> DEFINE chip == [stage |-> "chip", items |-> <<<<0, Size>>>>]
           fill == [stage |-> "filling", items |-> Fills]
           erase == [stage |-> "erasing", items |-> plan.sectors]
           prog == [stage |-> "programming", items |-> plan.pages]
<1>1. <<<<0, Size>>>> \in Seq(Ranges)
  BY SizesAssumption DEF Ranges
<1>2. chip \in Jobs /\ fill \in Jobs /\ erase \in Jobs /\ prog \in Jobs
  BY <1>1, PlanIs DEF Jobs, Stages
<1>3. /\ chip.stage = "chip" /\ chip.items = All("chip")
      /\ fill.stage = "filling" /\ fill.items = All("filling")
  BY DEF All
<1>4. jobs = (((IF plan.chip THEN <<chip>> ELSE <<>>) \o <<fill>>)
              \o (IF Wiped THEN <<>> ELSE <<erase>>)) \o <<prog>>
  BY DEF JobsOf, Fills, Wiped
<1>5. /\ plan.chip => After("chip") = <<fill, prog>> /\ Wiped
      /\ After("filling") = IF Wiped THEN <<prog>> ELSE <<erase, prog>>
  BY DEF After, Wiped
<1> HIDE DEF chip, fill, erase, prog
<1>6. jobs = IF plan.chip THEN <<chip, fill, prog>>
             ELSE IF Wiped THEN <<fill, prog>> ELSE <<fill, erase, prog>>
  <2>1. <<fill>> \in Seq(Jobs) /\ <<chip, fill>> \in Seq(Jobs)
    BY <1>2
  <2>2. /\ <<>> \o <<fill>> = <<fill>>
        /\ <<fill>> \o <<>> = <<fill>> /\ <<chip, fill>> \o <<>> = <<chip, fill>>
    BY <2>1, ConcatEmptySeq
  <2>3. /\ <<chip>> \o <<fill>> = <<chip, fill>> /\ <<fill>> \o <<erase>> = <<fill, erase>>
        /\ <<fill>> \o <<prog>> = <<fill, prog>>
        /\ <<chip, fill>> \o <<prog>> = <<chip, fill, prog>>
        /\ <<fill, erase>> \o <<prog>> = <<fill, erase, prog>>
    BY <1>2, Tuples
  <2> QED BY <1>4, <1>5, <2>2, <2>3, Zenon
<1>7. /\ <<chip, fill, prog>> \in Seq(Jobs) /\ <<fill, prog>> \in Seq(Jobs)
      /\ <<fill, erase, prog>> \in Seq(Jobs)
  BY <1>2
<1>8. /\ jobs \in Seq(Jobs) /\ jobs # <<>>
      /\ IF plan.chip THEN Head(jobs) = chip /\ Tail(jobs) = After("chip")
         ELSE Head(jobs) = fill /\ Tail(jobs) = After("filling")
  <2>1. CASE plan.chip
    BY <1>5, <1>6, <1>7, <2>1
  <2>2. CASE ~plan.chip /\ Wiped
    BY <1>5, <1>6, <1>7, <2>2
  <2>3. CASE ~plan.chip /\ ~Wiped
    BY <1>5, <1>6, <1>7, <2>3
  <2> QED BY <2>1, <2>2, <2>3
<1>9. /\ Stage = (IF plan.chip THEN "chip" ELSE "filling") /\ Items = All(Stage)
      /\ Tail(jobs) = After(Stage)
  BY <1>3, <1>8 DEF Stage, Items
<1>10. Items \in Seq(Ranges) /\ Remaining \subseteq Whole /\ Stage \in {"chip", "filling"}
  BY <1>9, AllIs DEF Remaining, Whole, Stages
<1> QED BY <1>8, <1>9, <1>10 DEF Queue, Stages

\* A range is done: the others of the stage remain.
LEMMA ItemDoneIs ==
  ASSUME plan \in Plans, Queue, Items # <<>>, plan' = plan, ItemDone
  PROVE  /\ Queue' /\ Stage' = Stage /\ Op' = Op /\ Double' = Double /\ Whole' = Whole
         /\ Items' = Tail(Items)
         /\ Remaining = Range2(Head(Items)) \cup Remaining'
         /\ Head(Items) \in Ranges /\ (Stage = "programming" => Head(Items) \in Pages)
<1> DEFINE rest == [stage |-> Stage, items |-> Tail(Items)]
<1>1. /\ Items \in Seq(Ranges) /\ Tail(Items) \in Seq(Ranges) /\ Head(Items) \in Ranges
      /\ Stage = "programming" => Tail(Items) \in Seq(Pages) /\ Head(Items) \in Pages
  BY HeadTailProperties DEF Queue
<1>2. rest \in Jobs /\ Tail(jobs) \in Seq(Jobs) /\ jobs' = <<rest>> \o Tail(jobs)
  BY <1>1, HeadTailProperties DEF Queue, Jobs, ItemDone
<1>3. rest.stage = Stage /\ rest.items = Tail(Items)
  OBVIOUS
<1> HIDE DEF rest
<1>4. jobs' \in Seq(Jobs) /\ jobs' # <<>> /\ Head(jobs') = rest /\ Tail(jobs') = Tail(jobs)
  BY <1>2, InFront
<1>5. Stage' = Stage /\ Items' = Tail(Items)
  BY <1>3, <1>4 DEF Stage, Items
<1>6. Op' = Op /\ Double' = Double
  BY <1>5 DEF Op, Double
<1>7. Fills' = Fills /\ Wiped' = Wiped
  BY SamePlan
<1>8. Whole' = Whole
  BY <1>5, <1>7 DEF Whole, All, Covered, Range2
<1>9. Remaining' = Covered(Tail(Items)) /\ Remaining = Covered(Items)
  BY <1>5 DEF Remaining, Covered, Range2
<1>10. Remaining = Range2(Head(Items)) \cup Remaining'
  BY <1>1, <1>9, CoveredIs
<1>11. Queue'
  BY <1>1, <1>4, <1>5, <1>7, <1>8, <1>10 DEF Queue, After
<1> QED BY <1>1, <1>5, <1>6, <1>8, <1>10, <1>11

\* A stage is done: the next one begins with the whole of its ranges.
LEMMA NextJob ==
  ASSUME plan \in Plans, Queue, plan' = plan, jobs' = Tail(jobs), Len(jobs) # 1
  PROVE  /\ Queue' /\ Items' = All(Stage)' /\ Remaining' = Whole'
         /\ Stage # "programming" /\ (Stage = "chip" <=> Stage' = "filling")
         /\ Stage' \in Stages \ {"chip"}
         /\ Stage' = "erasing" => Stage = "filling" /\ ~Wiped
         /\ Stage = "filling" /\ ~Wiped => Stage' = "erasing"
<1> DEFINE next == Head(After(Stage))
<1>1. jobs' = After(Stage) /\ Stage \in Stages /\ (Stage = "chip" => plan.chip)
  BY DEF Queue
<1>2. Stage # "programming" /\ jobs' # <<>> /\ jobs' \in Seq(Jobs)
  <2>1. jobs \in Seq(Jobs) /\ jobs # <<>>
    BY DEF Queue
  <2>2. jobs' # <<>> /\ jobs' \in Seq(Jobs)
    BY <2>1, Single, HeadTailProperties
  <2> QED BY <1>1, <2>2, AfterIs
<1>3. /\ next.stage \in Stages /\ next.items = All(next.stage)
      /\ Tail(After(Stage)) = After(next.stage)
      /\ next.stage # "chip" /\ (next.stage = "erasing" => ~Wiped /\ Stage = "filling")
      /\ Stage = "chip" <=> next.stage = "filling"
  BY <1>1, <1>2, AfterIs
<1>4. Stage' = next.stage /\ Items' = next.items
  BY <1>1 DEF Stage, Items
<1> HIDE DEF next
<1>5. Fills' = Fills /\ Wiped' = Wiped
  BY SamePlan
<1>6. Items' = All(Stage)'
  BY <1>3, <1>4, <1>5 DEF All
<1>7. Tail(jobs') = After(Stage)'
  BY <1>1, <1>3, <1>4, <1>5 DEF After
<1>8. Remaining' = Whole'
  BY <1>6 DEF Remaining, Whole
<1>9. Queue'
  <2>1. jobs' \in Seq(Jobs) /\ jobs' # <<>> /\ Stage' \in Stages /\ Tail(jobs') = After(Stage)'
    BY <1>2, <1>3, <1>4, <1>7
  <2>2. All(Stage') \in Seq(Ranges) /\ (Stage' = "programming" => All(Stage)' = plan'.pages)
    BY <1>3, <1>4, AllIs DEF All
  <2>3. Items' \in Seq(Ranges) /\ (Stage' = "programming" => Items' \in Seq(Pages))
    BY <1>3, <1>4, <2>2, AllIs
  <2>4. Stage' # "chip" /\ (Stage' = "erasing" => ~Wiped')
    BY <1>3, <1>4, <1>5
  <2> QED BY <1>8, <2>1, <2>3, <2>4 DEF Queue
<1>10. Stage = "filling" /\ ~Wiped => Stage' = "erasing"
  BY <1>4 DEF After, next
<1> QED BY <1>2, <1>3, <1>4, <1>6, <1>8, <1>9, <1>10

-----------------------------------------------------------------------------
(* The beginning.                                                          *)

\* Before program begins.
THEOREM InitIndInv == Init => IndInv
<1> SUFFICES ASSUME Init PROVE IndInv
  OBVIOUS
<1>0. /\ plan \in Plans /\ jobs = JobsOf(plan) /\ step = "begin" /\ loaded = 0 /\ buf = 0
      /\ log = <<>> /\ failed = FALSE /\ result = "none" /\ core = "halted" /\ r0 \in {0, 1}
      /\ active = "none"
      /\ routine = [name |-> "none", range |-> <<0, 0>>, buf |-> 0, done |-> 0]
      /\ data = [a \in Addr |-> IF a \in plan.staged THEN "new" ELSE "erased"]
      /\ flash = [a \in Addr |-> IF plan.skip THEN "erased" ELSE "old"]
  BY DEF Init, NoRoutine
<1>1. /\ Queue /\ Items = All(Stage) /\ Stage \in {"chip", "filling"}
      /\ Stage = "chip" <=> plan.chip
  BY <1>0, FirstJob
<1>2. TypeOK
  <2>1. HostTypes
    <3>1. data \in Contents
      BY <1>0 DEF Contents, Values
    <3>2. step \in Steps /\ loaded \in 0 .. PageSize
      BY <1>0, SizesAssumption DEF Steps
    <3>3. log \in Seq(Events)
      BY <1>0
    <3> QED BY <1>0, <3>1, <3>2, <3>3 DEF HostTypes
  <2>2. TargetTypes
    <3>1. flash \in Contents
      BY <1>0 DEF Contents, Values
    <3>2. routine \in Routine
      BY <1>0, SizesAssumption DEF Routine, Ranges
    <3>3. ram \in [{0, 1} -> Buffer]
      <4>1. ram = [b \in {0, 1} |-> [i \in 0 .. PageSize - 1 |-> <<0, "bad">>]]
        BY DEF Init
      <4>2. [i \in 0 .. PageSize - 1 |-> <<0, "bad">>] \in Buffer
        BY DEF Buffer, Offsets, Values
      <4> QED BY <4>1, <4>2
    <3> QED BY <1>0, <3>1, <3>2, <3>3 DEF TargetTypes
  <2> QED BY <2>1, <2>2 DEF TypeOK
<1>3. Flow
  BY <1>0 DEF Flow, Waits
<1>4. Runs
  BY <1>0 DEF Runs, Length
<1>5. Loading /\ BufferHoldsPage /\ OkIsThere /\ Initialised /\ Honest
  BY <1>0 DEF Loading, BufferHoldsPage, OkIsThere, Initialised, Honest
<1>6. Remaining = Whole
  BY <1>1 DEF Remaining, Whole
<1>7. Filled
  <2>1. Stage = "filling" => Remaining = Covered(Fills)
    BY <1>1 DEF Remaining, All
  <2> QED BY <1>0, <1>1, <2>1 DEF Filled
<1>8. Erased
  <2>1. Stage = "chip" => Remaining = Addr
    BY <1>0, <1>1, <1>6, AllIs DEF Whole
  <2>2. Stage = "filling" => (Wiped <=> plan.skip)
    BY <1>0, <1>1, PlanIs DEF Wiped
  <2> QED BY <1>0, <1>1, <2>1, <2>2 DEF Erased, Kept
<1>9. Programming
  BY <1>0, <1>1 DEF Programming
<1>10. Logged
  <2>1. ~plan.chip => Reported = 0
    BY <1>0, <1>1 DEF Reported
  <2> QED BY <1>0, <2>1 DEF Logged
<1> QED BY <1>1, <1>2, <1>3, <1>4, <1>5, <1>7, <1>8, <1>9, <1>10 DEF IndInv

-----------------------------------------------------------------------------
(* What stays when only the host moves on.                                 *)

\* The facts every step starts from.
LEMMA Facts ==
  ASSUME IndInv
  PROVE  /\ plan \in Plans /\ step \in Steps /\ loaded \in 0 .. PageSize /\ buf \in {0, 1}
         /\ data \in Contents /\ failed \in BOOLEAN /\ result \in {"none", "ok", "error"}
         /\ log \in Seq(Events)
         /\ core \in {"halted", "running", "lockedup"} /\ routine \in Routine /\ r0 \in {0, 1}
         /\ ram \in [{0, 1} -> Buffer] /\ flash \in Contents
         /\ active \in {"none", "Erase", "Program", "Verify"}
         /\ Stage \in Stages /\ Items \in Seq(Ranges) /\ Op \in {"Erase", "Program", "Verify"}
         /\ Op = "Erase" <=> Stage \in {"chip", "erasing"}
         /\ Op = "Program" <=> Stage = "programming"
         /\ Op = "Verify" <=> Stage = "filling"
         /\ Double <=> Stage = "programming" /\ plan.double
<1>1. TypeOK /\ Queue
  BY DEF IndInv
<1>2. Stage \in Stages /\ Items \in Seq(Ranges)
  BY <1>1 DEF Queue
<1> QED BY <1>1, <1>2 DEF TypeOK, HostTypes, TargetTypes, Op, Double, Stages

\* A routine has a range, a buffer and a progress.
LEMMA RoutineIs ==
  /\ \A r \in Routine : /\ r.name \in {"none", "init", "erase", "program", "uninit"}
                        /\ r.range \in Ranges /\ r.buf \in {0, 1} /\ r.done \in Nat
  /\ \A n \in {"init", "erase", "program", "uninit"}, r \in Ranges, b \in {0, 1} :
       [name |-> n, range |-> r, buf |-> b, done |-> 0] \in Routine
BY DEF Routine

\* While the host alone moves, and calls nothing.
LEMMA HostMoves ==
  ASSUME IndInv, UNCHANGED <<plan, jobs, loaded, buf, data, targetVars>>,
         step # "end", step' # "wait", core = "halted" \/ step' = "end", result' # "ok" \/ \A a \in Addr : flash[a] = Goal[a],
         routine.name = "program" /\ Idle' => routine.done = Length
  PROVE  /\ Queue' /\ Runs' /\ Loading' /\ BufferHoldsPage' /\ Filled' /\ Erased'
         /\ Programming' /\ OkIsThere'
<1> USE DEF targetVars
<1>1. /\ Stage' = Stage /\ Items' = Items /\ Op' = Op /\ Double' = Double
      /\ Remaining' = Remaining /\ Whole' = Whole /\ Queue' = Queue
  BY SameJob
<1>2. Fills' = Fills /\ Wiped' = Wiped /\ Goal' = Goal /\ Kept' = Kept /\ Blank' = Blank
  BY SamePlan
<1>3. Queue'
  BY <1>1 DEF IndInv
<1>4. Runs'
  BY <1>1 DEF IndInv, Runs, Length
<1>5. Loading' /\ BufferHoldsPage'
  BY <1>1 DEF IndInv, Loading, BufferHoldsPage, Length
<1>6. Filled'
  BY <1>1, <1>2 DEF IndInv, Filled
<1>7. Erased'
  BY <1>1, <1>2 DEF IndInv, Erased
<1>8. Programming'
  BY <1>1, <1>2 DEF IndInv, Programming, Reached, Length
<1>9. OkIsThere'
  <2>1. \A a \in Addr : Goal'[a] = Outcome(a)'
    BY DEF Goal
  <2> QED BY <1>2, <2>1 DEF OkIsThere
<1> QED BY <1>3, <1>4, <1>5, <1>6, <1>7, <1>8, <1>9

\* What is reported belongs to a stage.
LEMMA EventsAre ==
  /\ \A stage \in Stages : Event(stage) \in Stages
  /\ \A w \in {"initialized", "started", "finished", "failed"}, stage \in Stages :
       <<w, stage>> \in Events
BY DEF Event, Events, Stages

\* The byte a routine is at is in its range, in flash, and meant for it.
LEMMA RoutineStepIs ==
  ASSUME IndInv, RoutineStep
  PROVE  /\ routine.name \in {"erase", "program"}
         /\ routine.range[1] + routine.done \in Range2(routine.range) \cap Addr \cap Whole
         /\ LET a == routine.range[1] + routine.done
            IN /\ routine.name = "erase" => flash' = [flash EXCEPT ![a] = "erased"]
               /\ routine.name = "program" =>
                    flash' = [flash EXCEPT ![a] = Programmed(a, <<a, data[a]>>)]
         /\ routine' = [routine EXCEPT !.done = routine.done + 1] /\ core = "running"
<1>0. /\ Runs /\ BufferHoldsPage /\ core = "running" /\ routine.done < Length
      /\ routine.range \in Ranges /\ routine.done \in Nat
      /\ routine.name \in {"none", "init", "erase", "program", "uninit"}
  BY Facts, RoutineIs DEF IndInv, RoutineStep
<1>1. routine.name \in {"erase", "program"}
  BY <1>0 DEF Runs
<1>2. routine.range[1] + routine.done \in Range2(routine.range) \cap Addr
  BY <1>0, SizesAssumption DEF Ranges, Range2, Addr, Length
<1>3. Range2(routine.range) \subseteq Whole
  BY <1>0, <1>1 DEF Runs
<1>4. /\ flash' = [flash EXCEPT ![routine.range[1] + routine.done] =
                     IF routine.name = "erase" THEN "erased"
                     ELSE Programmed(routine.range[1] + routine.done, ram[routine.buf][routine.done])]
      /\ routine' = [routine EXCEPT !.done = routine.done + 1]
  BY DEF RoutineStep
<1>5. routine.name = "program" =>
        ram[routine.buf][routine.done] = <<routine.range[1] + routine.done,
                                           data[routine.range[1] + routine.done]>>
  <2>1. Length \in Nat
    BY <1>0, SizesAssumption DEF Ranges, Length
  <2>2. routine.done \in 0 .. Length - 1
    BY <1>0, <2>1
  <2> QED BY <1>0, <2>2 DEF BufferHoldsPage
<1> QED BY <1>0, <1>1, <1>2, <1>3, <1>4, <1>5

\* No step takes a variable out of its type.
LEMMA TypeStep == IndInv /\ [Next]_vars => TypeOK'
<1> SUFFICES ASSUME IndInv, [Next]_vars PROVE TypeOK'
  OBVIOUS
<1> USE DEF targetVars, hostVars
<1>0. TypeOK /\ Queue /\ Flow /\ Runs
  BY DEF IndInv
<1>1. Event(Stage) \in Stages /\ \A s \in Seq(Events), e \in Events : Append(s, e) \in Seq(Events)
  BY Facts, EventsAre, AppendProperties
<1>2. ASSUME Fail \/ (UNCHANGED <<result, log>> /\ step' \in Steps)
      PROVE  log' \in Seq(Events) /\ step' \in Steps /\ result' \in {"none", "ok", "error"}
  BY <1>1, <1>2, Facts, EventsAre DEF Fail, Steps
<1>3. ASSUME NEW name \in {"init", "erase", "program", "uninit"}, NEW range \in Ranges, NEW b \in {0, 1},
             Call(name, range, b)
      PROVE  TargetTypes'
  BY <1>0, <1>3, RoutineIs DEF TypeOK, TargetTypes, Call
<1>4. ASSUME UNCHANGED targetVars PROVE TargetTypes'
  BY <1>0, <1>4 DEF TypeOK, TargetTypes
<1>5. <<0, 0>> \in Ranges /\ (Items # <<>> => Head(Items) \in Ranges)
  BY SizesAssumption, Facts, HeadTailProperties DEF Ranges
<1>6. CASE Begin
  <2>1. log' \in Seq(Events)
    <3>1. \A e \in Events : <<e>> \in Seq(Events)
      OBVIOUS
    <3>2. /\ <<"initialized", "filling">> \in Events /\ <<"started", Event(Stage)>> \in Events
          /\ <<>> \in Seq(Events)
      BY <1>1, EventsAre DEF Stages
    <3> QED BY <1>6, <3>1, <3>2, Facts, ConcatProperties DEF Begin
  <2>2. HostTypes'
    BY <1>0, <1>6, <2>1 DEF TypeOK, HostTypes, Begin, Steps
  <2> QED BY <1>4, <1>6, <2>2 DEF TypeOK, Begin
<1>7. CASE Enter \/ Uninit
  <2>1. HostTypes'
    BY <1>0, <1>7 DEF TypeOK, HostTypes, Enter, Uninit, Steps, Waits
  <2>2. TargetTypes'
    BY <1>3, <1>4, <1>5, <1>7 DEF Enter, Uninit
  <2> QED BY <2>1, <2>2 DEF TypeOK
<1>8. CASE ReadFill
  <2>1. data' \in Contents
    BY <1>0, <1>8 DEF TypeOK, HostTypes, TargetTypes, ReadFill, Contents
  <2>2. HostTypes'
    BY <1>0, <1>8, <2>1 DEF TypeOK, HostTypes, ReadFill, Steps
  <2> QED BY <1>4, <1>8, <2>2 DEF TypeOK, ReadFill
<1>9. CASE CallErase \/ CallProgram
  <2>1. HostTypes'
    BY <1>0, <1>9 DEF TypeOK, HostTypes, CallErase, CallProgram, Steps, Waits
  <2>2. TargetTypes'
    BY <1>3, <1>5, <1>9, Facts DEF CallErase, CallProgram
  <2> QED BY <2>1, <2>2 DEF TypeOK
<1>10. CASE LoadWord
  <2>1. loaded \in Offsets /\ Head(Items)[1] + loaded \in Addr /\ Head(Items)[1] + loaded \in Nat
    <3>1. Head(Items) \in Pages
      BY <1>0, <1>10, Facts, HeadTailProperties DEF LoadWord, Queue
    <3> QED BY <1>10, <3>1, Facts, SizesAssumption, SMTT(20) DEF LoadWord, Offsets, Addr, Pages, Ranges
  <2>2. ram' \in [{0, 1} -> Buffer]
    <3>1. <<Head(Items)[1] + loaded, data[Head(Items)[1] + loaded]>> \in Nat \X Values
      BY <2>1, Facts DEF Contents
    <3>2. [ram[buf] EXCEPT ![loaded] = <<Head(Items)[1] + loaded, data[Head(Items)[1] + loaded]>>]
            \in Buffer
      BY <2>1, <3>1, Facts DEF Buffer
    <3>3. ram' = [ram EXCEPT ![buf] = [ram[buf] EXCEPT ![loaded] =
                    <<Head(Items)[1] + loaded, data[Head(Items)[1] + loaded]>>]]
      BY <1>10 DEF LoadWord
    <3> QED BY <3>2, <3>3, Facts
  <2>3. loaded' \in 0 .. PageSize
    BY <1>10, <2>1, SizesAssumption DEF LoadWord, Offsets
  <2>4. HostTypes'
    BY <1>0, <1>10, <2>3 DEF TypeOK, HostTypes, LoadWord
  <2>5. TargetTypes'
    BY <1>0, <1>10, <2>2 DEF TypeOK, TargetTypes, LoadWord
  <2> QED BY <2>4, <2>5 DEF TypeOK
<1>11. CASE PreviousDone \/ AllStarted
  <2>1. HostTypes'
    BY <1>0, <1>2, <1>11 DEF TypeOK, HostTypes, PreviousDone, AllStarted, Steps
  <2> QED BY <1>4, <1>11, <2>1 DEF TypeOK, PreviousDone, AllStarted
<1>12. CASE StartNext
  <2>1. HostTypes'
    BY <1>0, <1>12, SizesAssumption DEF TypeOK, HostTypes, StartNext, Steps
  <2>2. Items # <<>>
    BY <1>0, <1>12 DEF Flow, StartNext
  <2>3. TargetTypes'
    BY <1>3, <1>5, <1>12, <2>2, Facts DEF StartNext
  <2> QED BY <2>1, <2>3 DEF TypeOK
<1>13. CASE NoItems \/ Left \/ Done
  <2>1. log' \in Seq(Events)
    BY <1>0, <1>1, <1>13, EventsAre, Facts DEF NoItems, Left, Done
  <2>2. HostTypes'
    BY <1>0, <1>13, <2>1 DEF TypeOK, HostTypes, NoItems, Left, Done, Steps
  <2> QED BY <1>4, <1>13, <2>2 DEF TypeOK, NoItems, Left, Done
<1>14. CASE Halted
  <2>1. loaded' \in 0 .. PageSize
    BY <1>0, <1>14, SizesAssumption DEF TypeOK, HostTypes, Halted
  <2>2. log' \in Seq(Events) /\ step' \in Steps /\ result' \in {"none", "ok", "error"}
    BY <1>2, <1>14 DEF Halted, Steps
  <2>3. HostTypes'
    BY <1>0, <1>14, <2>1, <2>2 DEF TypeOK, HostTypes, Halted
  <2> QED BY <1>4, <1>14, <2>3 DEF TypeOK, Halted
<1>15. CASE Timeout \/ SeesLockup \/ ProbeError
  <2>1. HostTypes'
    BY <1>0, <1>2, <1>15 DEF TypeOK, HostTypes, Timeout, SeesLockup, ProbeError
  <2> QED BY <1>4, <1>15, <2>1 DEF TypeOK, Timeout, SeesLockup, ProbeError
<1>18. CASE SequenceErase \/ SequenceFails
  <2>1. HostTypes'
    BY <1>0, <1>2, <1>18 DEF TypeOK, HostTypes, SequenceErase, SequenceFails, Steps
  <2>2. flash' \in Contents
    BY <1>18, Facts DEF SequenceErase, SequenceFails, Contents, Values
  <2>3. NoRoutine \in Routine
    BY SizesAssumption DEF NoRoutine, Routine, Ranges
  <2>4. TargetTypes'
    BY <1>0, <1>18, <2>2, <2>3 DEF TypeOK, TargetTypes, SequenceErase, SequenceFails
  <2> QED BY <2>1, <2>4 DEF TypeOK
<1>16. CASE Target
  <2>1. HostTypes'
    BY <1>0, <1>16 DEF TypeOK, HostTypes, Target, RoutineStep, RoutineReturns, RoutineFails, LockUp
  <2>2. flash' \in Contents
    <3>1. CASE RoutineStep
      <4>1. \A a \in Addr : Programmed(a, <<a, data[a]>>) \in Values
        BY Facts DEF Programmed, Contents, Values
      <4> QED BY <3>1, <4>1, RoutineStepIs, Facts DEF Contents, Values
    <3>2. CASE ~RoutineStep
      BY <1>16, <3>2, Facts DEF Target, RoutineReturns, RoutineFails, LockUp
    <3> QED BY <3>1, <3>2
  <2>3. routine' \in Routine
    <3>1. CASE RoutineStep
      BY <3>1, RoutineStepIs, Facts DEF Routine
    <3>2. CASE ~RoutineStep
      BY <1>16, <3>2, Facts DEF Target, RoutineReturns, RoutineFails, LockUp
    <3> QED BY <3>1, <3>2
  <2>4. active' \in {"none", "Erase", "Program", "Verify"}
    BY <1>16, Facts DEF Target, RoutineStep, RoutineReturns, RoutineFails, LockUp
  <2>5. TargetTypes'
    BY <1>0, <1>16, <2>2, <2>3, <2>4
    DEF TypeOK, TargetTypes, Target, RoutineStep, RoutineReturns, RoutineFails, LockUp
  <2> QED BY <2>1, <2>5 DEF TypeOK
<1>17. CASE UNCHANGED vars
  BY <1>0, <1>17 DEF TypeOK, HostTypes, TargetTypes, vars
<1> QED BY <1>6, <1>7, <1>8, <1>9, <1>10, <1>11, <1>12, <1>13, <1>14, <1>15, <1>16, <1>17, <1>18 DEF Next, Host

\* A failure ends it, and nothing else changes.
LEMMA FailKeeps ==
  ASSUME IndInv, TypeOK', Fail, step \notin {"begin", "end"},
         UNCHANGED <<plan, jobs, loaded, buf, data, targetVars>>,
         failed => failed', plan.init => failed'
  PROVE  IndInv'
<1> USE DEF targetVars
<1>1. step' = "end" /\ result' = "error" /\ log' = Append(log, <<"failed", Event(Stage)>>)
  BY DEF Fail
<1>2. /\ Queue' /\ Runs' /\ Loading' /\ BufferHoldsPage' /\ Filled' /\ Erased'
      /\ Programming' /\ OkIsThere'
  BY <1>1, HostMoves DEF Idle
<1>3. Stage' = Stage /\ Items' = Items /\ Op' = Op /\ Double' = Double
  BY SameJob
<1>4. Flow'
  BY <1>1 DEF Flow, Waits
<1>5. Initialised'
  BY <1>1 DEF IndInv, Initialised
<1>6. Honest'
  BY <1>1 DEF IndInv, Honest
<1>7. Logged'
  <2> SUFFICES ASSUME ~plan.chip PROVE Logged'
    BY DEF Logged
  <2>1. result = "none" /\ Documented' = Documented
    BY SamePlan DEF IndInv, Flow
  <2>2. Reported' = Reported
    BY <1>1, <1>3, <2>1, Facts DEF Reported
  <2>3. Reported \in Nat
    BY DEF Reported
  <2>4. Len(log) = Reported /\ \A i \in 1 .. Reported : log[i] = Documented[i]
    BY <2>1, <2>3 DEF IndInv, Logged
  <2>5. /\ Len(log') = Reported + 1 /\ log'[Reported + 1] = <<"failed", Stage>>
        /\ \A i \in 1 .. Reported : log'[i] = log[i]
    <3>1. Event(Stage) = Stage /\ <<"failed", Stage>> \in Events
      BY Facts, EventsAre DEF Event, IndInv, Queue
    <3> QED BY <1>1, <2>4, <3>1, Facts, AppendProperties
  <2> QED BY <1>1, <1>3, <2>1, <2>2, <2>3, <2>4, <2>5 DEF Logged
<1> QED BY <1>2, <1>4, <1>5, <1>6, <1>7 DEF IndInv

-----------------------------------------------------------------------------
(* The contents.                                                           *)

\* Outside the pages nothing is to change but what is erased.
LEMMA GoalOutside ==
  ASSUME plan \in Plans, NEW a \in Addr, a \notin Covered(plan.pages)
  PROVE  Goal[a] = Blank[a] /\ a \notin plan.staged /\ a \notin Covered(Fills)
<1>1. a \notin plan.staged /\ a \notin Covered(plan.fills)
  BY PlansAssumption
<1>2. a \notin Covered(Fills)
  BY <1>1, CoveredIs DEF Fills
<1>3. plan.restore => a \notin Covered(plan.sectors)
  BY <1>1, PlansAssumption
<1>4. Goal[a] = Blank[a]
  BY <1>1, <1>3, PlanIs DEF Goal, Outcome, Blank, Wiped
<1> QED BY <1>1, <1>2, <1>4

\* Once the fills are read a page holds what is to be in flash.
LEMMA DataIs ==
  ASSUME IndInv, Stage = "programming", NEW a \in Addr
  PROVE  /\ data[a] = "erased" => Goal[a] = Blank[a]
         /\ data[a] # "erased" => data[a] = Goal[a] /\ Blank[a] = "erased"
<1>0. /\ plan \in Plans /\ plan.chip \in BOOLEAN /\ plan.skip \in BOOLEAN /\ plan.restore \in BOOLEAN
      /\ a \in plan.staged => data[a] = "new"
      /\ a \notin plan.staged => data[a] \in {"erased", Kept}
      /\ a \notin plan.staged /\ a \notin Covered(Fills) => data[a] = "erased"
      /\ a \in Covered(Fills) => data[a] = Kept
  BY PlanIs, Facts DEF IndInv, Filled
<1>1. /\ a \in plan.staged => a \in Covered(plan.sectors)
      /\ a \in Covered(plan.fills) => a \in Covered(plan.sectors) /\ a \notin plan.staged
      /\ plan.restore /\ a \in Covered(plan.sectors) => a \in Covered(plan.fills) \cup plan.staged
  BY <1>0, PlansAssumption
<1>2. Covered(Fills) = IF plan.restore THEN Covered(plan.fills) ELSE {}
  BY CoveredIs DEF Fills
<1>3. Goal[a] = Outcome(a) /\ Blank[a] = IF Wiped \/ a \in Covered(plan.sectors) THEN "erased" ELSE "old"
  BY DEF Goal, Blank
<1>4. CASE a \in plan.staged
  BY <1>0, <1>1, <1>3, <1>4 DEF Outcome
<1>5. CASE a \notin plan.staged /\ Wiped
  BY <1>0, <1>3, <1>5 DEF Outcome, Kept, Wiped
<1>6. CASE a \notin plan.staged /\ ~Wiped
  BY <1>0, <1>1, <1>2, <1>3, <1>6 DEF Outcome, Kept, Wiped
<1> QED BY <1>4, <1>5, <1>6

\* The byte programmed then holds what is to be there.
LEMMA ProgrammedIs ==
  ASSUME IndInv, Stage = "programming", NEW a \in Addr
  PROVE  /\ Programmed(a, <<a, data[a]>>) = Goal[a]
         /\ flash[a] # Goal[a] => flash[a] = "erased"
<1>1. flash[a] \in {Blank[a], Goal[a]}
  BY DEF IndInv, Programming
<1>2. CASE data[a] = "erased"
  BY <1>1, <1>2, DataIs DEF Programmed, Blank
<1>3. CASE data[a] # "erased"
  BY <1>1, <1>3, DataIs DEF Programmed
<1> QED BY <1>2, <1>3

\* A page whose routine has run to its end is reached everywhere.
LEMMA AllReached ==
  ASSUME IndInv, routine.done = Length, NEW a \in Range2(routine.range)
  PROVE  Reached(a)
BY Facts, RoutineIs, SizesAssumption DEF Reached, Range2, Length, Ranges

\* While no page is being programmed those that do not remain are there.
LEMMA PagesDone ==
  ASSUME IndInv, Stage = "programming", routine.name = "program" => routine.done = Length,
         NEW a \in Addr, a \notin Remaining
  PROVE  flash[a] = Goal[a]
BY AllReached DEF IndInv, Programming

-----------------------------------------------------------------------------
(* The events.                                                             *)

\* The elements of two sequences put together.
LEMMA Joined ==
  ASSUME NEW S, NEW s \in Seq(S), NEW t \in Seq(S)
  PROVE  /\ s \o t \in Seq(S) /\ Len(s \o t) = Len(s) + Len(t)
         /\ \A i \in 1 .. Len(s) : (s \o t)[i] = s[i]
         /\ \A i \in 1 .. Len(t) : (s \o t)[Len(s) + i] = t[i]
<1>1. /\ s \o t \in Seq(S) /\ Len(s \o t) = Len(s) + Len(t)
      /\ \A i \in 1 .. Len(s) + Len(t) : (s \o t)[i] = IF i <= Len(s) THEN s[i] ELSE t[i - Len(s)]
  BY ConcatProperties
<1>2. Len(s) \in Nat /\ Len(t) \in Nat
  BY LenProperties
<1>3. ASSUME NEW i \in 1 .. Len(s) PROVE (s \o t)[i] = s[i]
  <2>1. i \in 1 .. Len(s) + Len(t) /\ i <= Len(s)
    BY <1>2
  <2> QED BY <1>1, <2>1
<1>4. ASSUME NEW i \in 1 .. Len(t) PROVE (s \o t)[Len(s) + i] = t[i]
  <2>1. Len(s) + i \in 1 .. Len(s) + Len(t) /\ ~(Len(s) + i <= Len(s)) /\ (Len(s) + i) - Len(s) = i
    BY <1>2
  <2> QED BY <1>1, <2>1
<1> QED BY <1>1, <1>3, <1>4

\* The documented order, event by event.
LEMMA DocumentedIs ==
  ASSUME plan.skip \in BOOLEAN
  PROVE  /\ Documented \in Seq(Events) /\ Len(Documented) = IF plan.skip THEN 5 ELSE 7
         /\ Documented[1] = <<"initialized", "filling">> /\ Documented[2] = <<"started", "filling">>
         /\ Documented[3] = <<"finished", "filling">>
         /\ ~plan.skip => /\ Documented[4] = <<"started", "erasing">>
                          /\ Documented[5] = <<"finished", "erasing">>
         /\ LET n == IF plan.skip THEN 3 ELSE 5
            IN /\ Documented[n + 1] = <<"started", "programming">>
               /\ Documented[n + 2] = <<"finished", "programming">>
<1> DEFINE fill == <<<<"initialized", "filling">>, <<"started", "filling">>, <<"finished", "filling">>>>
           erase == <<<<"started", "erasing">>, <<"finished", "erasing">>>>
           prog == <<<<"started", "programming">>, <<"finished", "programming">>>>
<1>1. /\ fill \in Seq(Events) /\ erase \in Seq(Events) /\ prog \in Seq(Events)
      /\ <<>> \in Seq(Events)
  BY EventsAre DEF Stages
<1>2. /\ Len(fill) = 3 /\ fill[1] = <<"initialized", "filling">>
      /\ fill[2] = <<"started", "filling">> /\ fill[3] = <<"finished", "filling">>
      /\ Len(erase) = 2 /\ erase[1] = <<"started", "erasing">> /\ erase[2] = <<"finished", "erasing">>
      /\ Len(prog) = 2 /\ prog[1] = <<"started", "programming">>
      /\ prog[2] = <<"finished", "programming">>
  OBVIOUS
<1>3. Documented = (fill \o (IF plan.skip THEN <<>> ELSE erase)) \o prog
  BY DEF Documented
<1> HIDE DEF fill, erase, prog
<1>4. CASE plan.skip
  <2>1. Documented = fill \o prog
    BY <1>1, <1>3, <1>4, ConcatEmptySeq
  <2>2. /\ Documented \in Seq(Events) /\ Len(Documented) = 3 + 2
        /\ \A i \in 1 .. 3 : Documented[i] = fill[i]
        /\ \A i \in 1 .. 2 : Documented[3 + i] = prog[i]
    <3>1. /\ fill \o prog \in Seq(Events) /\ Len(fill \o prog) = Len(fill) + Len(prog)
          /\ \A i \in 1 .. Len(fill) : (fill \o prog)[i] = fill[i]
          /\ \A i \in 1 .. Len(prog) : (fill \o prog)[Len(fill) + i] = prog[i]
      BY <1>1, Joined
    <3> QED BY <1>2, <2>1, <3>1
  <2>3. /\ Documented[1] = fill[1] /\ Documented[2] = fill[2] /\ Documented[3] = fill[3]
        /\ Documented[3 + 1] = prog[1] /\ Documented[3 + 2] = prog[2]
    BY <2>2
  <2> QED BY <1>2, <1>4, <2>2, <2>3
<1>5. CASE ~plan.skip
  <2> DEFINE both == fill \o erase
  <2>1. /\ both \in Seq(Events) /\ Len(both) = 3 + 2
        /\ \A i \in 1 .. 3 : both[i] = fill[i]
        /\ \A i \in 1 .. 2 : both[3 + i] = erase[i]
    <3>1. /\ fill \o erase \in Seq(Events) /\ Len(fill \o erase) = Len(fill) + Len(erase)
          /\ \A i \in 1 .. Len(fill) : (fill \o erase)[i] = fill[i]
          /\ \A i \in 1 .. Len(erase) : (fill \o erase)[Len(fill) + i] = erase[i]
      BY <1>1, Joined
    <3> QED BY <1>2, <3>1
  <2>2. Documented = both \o prog
    BY <1>3, <1>5
  <2> HIDE DEF both
  <2>3. Len(both) = 5 /\ Len(prog) = 2
    BY <1>2, <2>1
  <2>4. /\ both[1] = fill[1] /\ both[2] = fill[2] /\ both[3] = fill[3]
        /\ both[3 + 1] = erase[1] /\ both[3 + 2] = erase[2]
    BY <2>1
  <2>5. /\ Documented \in Seq(Events) /\ Len(Documented) = 5 + 2
        /\ \A i \in 1 .. 5 : Documented[i] = both[i]
        /\ \A i \in 1 .. 2 : Documented[5 + i] = prog[i]
    <3>1. /\ both \o prog \in Seq(Events) /\ Len(both \o prog) = Len(both) + Len(prog)
          /\ \A i \in 1 .. Len(both) : (both \o prog)[i] = both[i]
          /\ \A i \in 1 .. Len(prog) : (both \o prog)[Len(both) + i] = prog[i]
      <4>1. both \in Seq(Events) /\ prog \in Seq(Events)
        BY <1>1, <2>1
      <4> QED BY <4>1, Joined
    <3> QED BY <2>2, <2>3, <3>1
  <2>6. /\ Documented[1] = both[1] /\ Documented[2] = both[2] /\ Documented[3] = both[3]
        /\ Documented[4] = both[4] /\ Documented[5] = both[5]
        /\ Documented[5 + 1] = prog[1] /\ Documented[5 + 2] = prog[2]
    BY <2>5
  <2> QED BY <1>2, <1>5, <2>4, <2>5, <2>6
<1> QED BY <1>4, <1>5

\* The log stays in order while nothing is reported.
LEMMA ReportsNothing ==
  ASSUME IndInv, UNCHANGED <<plan, log>>, ~plan.chip => Stage' = Stage,
         step \notin {"begin", "end"}, step' \notin {"begin", "end"}, result' = result
  PROVE  Logged'
<1> SUFFICES ASSUME ~plan.chip PROVE Logged'
  BY DEF Logged
<1>1. result = "none" /\ Documented' = Documented
  BY SamePlan DEF IndInv, Flow
<1>2. Reported' = Reported
  BY <1>1 DEF Reported
<1> QED BY <1>1, <1>2 DEF IndInv, Logged

\* The log stays as it is while the host does nothing.
LEMMA StepLogged ==
  ASSUME IndInv, UNCHANGED <<plan, jobs, step, log, result>>
  PROVE  Logged'
<1>1. Stage' = Stage /\ Documented' = Documented
  BY SameJob, SamePlan DEF Stage
<1>2. Reported' = Reported
  BY <1>1 DEF Reported
<1> QED BY <1>1, <1>2 DEF IndInv, Logged

\* The next event is reported.
LEMMA ReportsNext ==
  ASSUME IndInv, plan' = plan, ~plan.chip, result = "none", result' # "error",
         NEW e \in Events, log' = Append(log, e), Reported' = Reported + 1,
         Reported \in Nat, e = Documented[Reported + 1]
  PROVE  Logged'
<1>1. Documented' = Documented
  BY SamePlan
<1>2. Len(log) = Reported /\ \A i \in 1 .. Reported : log[i] = Documented[i]
  BY DEF IndInv, Logged
<1>3. /\ Len(log') = Reported + 1 /\ log'[Reported + 1] = e
      /\ \A i \in 1 .. Reported : log'[i] = log[i]
  BY <1>2, Facts, AppendProperties
<1>4. \A i \in 1 .. Reported' : log'[i] = Documented[i]
  BY <1>2, <1>3
<1> QED BY <1>1, <1>3, <1>4 DEF Logged

-----------------------------------------------------------------------------
(* The steps of the host.                                                  *)

\* A stage begins and is reported.
LEMMA BeginKeeps == ASSUME IndInv, TypeOK', Begin PROVE IndInv'
<1> USE DEF targetVars
<1>0. /\ Queue /\ Flow /\ Runs /\ Initialised /\ Honest
      /\ step = "begin" /\ core = "halted" /\ ~failed /\ result = "none" /\ result' = result
      /\ UNCHANGED <<plan, jobs, loaded, buf, data, failed, targetVars>>
      /\ step' = IF Stage = "filling" /\ Items = <<>> THEN "done" ELSE "enter"
  BY DEF IndInv, Begin, Flow, Honest, Waits
<1>1. /\ Queue' /\ Runs' /\ Loading' /\ BufferHoldsPage' /\ Filled' /\ Erased'
      /\ Programming' /\ OkIsThere'
  <2>1. Idle
    BY <1>0 DEF Idle
  <2> QED BY <1>0, <2>1, HostMoves DEF IndInv, Programming
<1>2. Stage' = Stage /\ Items' = Items /\ Op' = Op /\ Double' = Double
  BY <1>0, SameJob
<1>3. Flow'
  <2>1. step' = "done" => Items = <<>>
    BY <1>0
  <2> QED BY <1>0, <1>2, <2>1 DEF Flow, Waits
<1>4. Initialised'
  BY <1>0 DEF Initialised
<1>5. Honest'
  BY <1>0, <1>2 DEF Honest
<1>6. Logged'
  <2> SUFFICES ASSUME ~plan.chip PROVE Logged'
    BY <1>0 DEF Logged
  <2>1. /\ Documented' = Documented /\ plan.skip \in BOOLEAN /\ Stage \in Stages \ {"chip"}
        /\ Stage = "erasing" => ~plan.skip
    BY <1>0, SamePlan, PlanIs, Facts DEF Queue, Wiped
  <2>2. CASE Stage = "filling"
    <3>1. Reported = 0 /\ Reported' = 2
      BY <1>0, <1>2, <2>2 DEF Reported
    <3>2. log = <<>>
      BY <1>0, <3>1, Facts, EmptySeq DEF IndInv, Logged
    <3>3. log' = <<<<"initialized", "filling">>, <<"started", "filling">>>>
      <4>1. log' = (log \o <<<<"initialized", "filling">>>>) \o <<<<"started", "filling">>>>
        BY <2>2 DEF Begin, Event
      <4>2. <<"initialized", "filling">> \in Events /\ <<"started", "filling">> \in Events
        BY EventsAre DEF Stages
      <4>3. log \o <<<<"initialized", "filling">>>> = <<<<"initialized", "filling">>>>
        BY <3>2, <4>2, ConcatEmptySeq
      <4> QED BY <4>1, <4>2, <4>3, Tuples
    <3>4. Len(log') = 2 /\ log'[1] = Documented[1] /\ log'[2] = Documented[2]
      BY <2>1, <3>3, DocumentedIs
    <3>5. \A i \in 1 .. 2 : log'[i] = Documented[i]
      BY <3>4
    <3> QED BY <1>0, <2>1, <3>1, <3>4, <3>5 DEF Logged
  <2>3. CASE Stage # "filling"
    <3> DEFINE e == <<"started", Stage>>
    <3>1. e \in Events /\ Event(Stage) = Stage
      BY <2>1, EventsAre DEF Event
    <3>2. log' = Append(log, e)
      <4>1. log' = (log \o <<>>) \o <<e>>
        BY <2>3, <3>1 DEF Begin
      <4>2. log \o <<>> = log
        BY Facts, ConcatEmptySeq
      <4> QED BY <3>1, <4>1, <4>2, Facts, AppendIsConcat
    <3>3. /\ Reported = (IF Stage = "erasing" \/ plan.skip THEN 3 ELSE 5)
          /\ Reported' = Reported + 1 /\ Reported \in Nat
      BY <1>0, <1>2, <2>3 DEF Reported
    <3>4. e = Documented[Reported + 1]
      <4>1. CASE Stage = "erasing"
        BY <2>1, <3>3, <4>1, DocumentedIs
      <4>2. CASE Stage = "programming"
        BY <2>1, <3>3, <4>2, DocumentedIs
      <4> QED BY <2>1, <2>3, <4>1, <4>2 DEF Stages
    <3> QED BY <1>0, <3>1, <3>2, <3>3, <3>4, ReportsNext
  <2> QED BY <2>2, <2>3
<1> QED BY <1>1, <1>3, <1>4, <1>5, <1>6 DEF IndInv

\* A routine without a range, that changes no flash, is called.
LEMMA CallEmpty ==
  ASSUME IndInv, UNCHANGED <<plan, jobs, loaded, buf, data>>, Idle, core = "halted",
         NEW name \in {"init", "uninit"}, Call(name, <<0, 0>>, 0), name = "init" => plan.init,
         step' \notin {"wait", "end"}, result' # "ok"
  PROVE  /\ Runs' /\ Loading' /\ BufferHoldsPage' /\ Filled' /\ Erased'
         /\ Programming' /\ OkIsThere'
<1>0. /\ core' = "running" /\ UNCHANGED <<r0, ram, flash, active>>
      /\ routine' = [name |-> name, range |-> <<0, 0>>, buf |-> 0, done |-> 0]
  BY DEF Call
<1>1. /\ Stage' = Stage /\ Items' = Items /\ Op' = Op /\ Remaining' = Remaining /\ Whole' = Whole
      /\ Fills' = Fills /\ Goal' = Goal /\ Kept' = Kept /\ Blank' = Blank
  BY SameJob, SamePlan
<1>2. Runs' /\ BufferHoldsPage'
  BY <1>0 DEF Runs, BufferHoldsPage, Length
<1>3. Loading'
  BY <1>0, <1>1 DEF IndInv, Loading, Idle
<1>4. Filled'
  BY <1>1 DEF IndInv, Filled
<1>5. Erased'
  BY <1>0, <1>1 DEF IndInv, Erased
<1>6. Programming'
  <2>1. routine.name = "program" => routine.done = Length
    BY DEF IndInv, Programming
  <2>2. Stage = "programming" =>
          \A a \in Addr : /\ flash[a] \in {Blank[a], Goal[a]}
                          /\ a \notin Remaining => flash[a] = Goal[a]
    BY <2>1, PagesDone DEF IndInv, Programming
  <2>3. routine'.name # "program" /\ flash' = flash
    BY <1>0
  <2>4. Stage' = "programming" =>
          \A a \in Addr : /\ flash'[a] \in {Blank'[a], Goal'[a]}
                          /\ a \notin Remaining' => flash'[a] = Goal'[a]
    BY <1>1, <2>2, <2>3
  <2>5. routine'.name = "program" => \A a \in Addr : Reached(a)' => flash'[a] = Goal'[a]
    BY <2>3
  <2>6. Stage' = "programming" =>
          \A a \in Addr :
            /\ flash'[a] \in {Blank'[a], Goal'[a]}
            /\ a \notin Remaining' => \/ flash'[a] = Goal'[a]
                                      \/ routine'.name = "program" /\ a \in Range2(routine.range)'
    BY <2>4
  <2> QED BY <2>3, <2>5, <2>6 DEF Programming
<1>7. OkIsThere'
  BY DEF OkIsThere
<1> QED BY <1>2, <1>3, <1>4, <1>5, <1>6, <1>7

\* The algorithm is initialised.
LEMMA EnterKeeps == ASSUME IndInv, TypeOK', Enter PROVE IndInv'
<1> USE DEF targetVars
<1>0. /\ Queue /\ Flow /\ Runs /\ Initialised /\ Honest
      /\ step = "enter" /\ core = "halted" /\ ~failed /\ result = "none"
      /\ UNCHANGED <<plan, jobs, loaded, buf, data, log, failed, result>>
  BY DEF IndInv, Enter, Flow, Honest, Waits
<1>1. /\ Stage' = Stage /\ Items' = Items /\ Op' = Op /\ Double' = Double
      /\ Remaining' = Remaining /\ Whole' = Whole /\ Queue'
  BY <1>0, SameJob
<1>2. Logged'
  BY <1>0, <1>1, ReportsNothing DEF Enter
<1>3. CASE plan.init
  <2>1. step' = "initWait" /\ Call("init", <<0, 0>>, 0)
    BY <1>3 DEF Enter
  <2>2. /\ core' = "running" /\ UNCHANGED <<r0, ram, flash, active>>
        /\ routine' = [name |-> "init", range |-> <<0, 0>>, buf |-> 0, done |-> 0]
    BY <2>1 DEF Call
  <2>3. /\ Runs' /\ Loading' /\ BufferHoldsPage' /\ Filled' /\ Erased'
        /\ Programming' /\ OkIsThere'
    BY <1>0, <1>3, <2>1, CallEmpty DEF Idle
  <2>4. Flow'
    BY <1>0, <1>1, <2>1, <2>2 DEF Flow, Waits
  <2>5. Initialised' /\ Honest'
    BY <1>0, <1>3, <2>1, <2>2 DEF Initialised, Honest
  <2> QED BY <1>1, <1>2, <2>3, <2>4, <2>5 DEF IndInv
<1>4. CASE ~plan.init
  <2>1. step' = "work" /\ UNCHANGED targetVars
    BY <1>4 DEF Enter
  <2>2. /\ Queue' /\ Runs' /\ Loading' /\ BufferHoldsPage' /\ Filled' /\ Erased'
        /\ Programming' /\ OkIsThere'
    <3>1. Idle
      BY <1>0 DEF Idle
    <3> QED BY <1>0, <2>1, <3>1, HostMoves DEF IndInv, Programming
  <2>3. Flow'
    BY <1>0, <1>1, <2>1 DEF Flow, Waits
  <2>4. Initialised' /\ Honest'
    BY <1>0, <1>4, <2>1 DEF Initialised, Honest
  <2> QED BY <1>2, <2>2, <2>3, <2>4 DEF IndInv
<1> QED BY <1>3, <1>4

\* A chip erase by a debug sequence, whether it gets to its end or not.
LEMMA SequenceKeeps == ASSUME IndInv, TypeOK', SequenceErase \/ SequenceFails PROVE IndInv'
<1>0. /\ Queue /\ Flow /\ Runs /\ Loading /\ Filled /\ Erased /\ Initialised /\ Honest /\ Programming
      /\ step = "enter" /\ core = "halted" /\ ~failed /\ result = "none" /\ Stage = "chip" /\ plan.chip
      /\ plan \in Plans /\ flash \in Contents /\ routine.name # "program" /\ plan.skip \in BOOLEAN
  BY Facts, PlanIs DEF IndInv, SequenceErase, SequenceFails, BySequence, Flow, Queue, Honest, Waits, Runs
<1>1. UNCHANGED <<plan, loaded, buf, data, ram>> /\ core' = "halted"
  BY <1>0 DEF SequenceErase, SequenceFails
<1>2. /\ Fills' = Fills /\ Goal' = Goal /\ Kept' = Kept /\ Blank' = Blank
  BY <1>1, SamePlan
<1>3. Logged' /\ loaded = 0
  BY <1>0, <1>1, Facts, SizesAssumption DEF Logged, Loading
<1>4. \A a \in Addr : flash[a] \in {"old", "erased"}
  BY <1>0 DEF Erased
<1>5. CASE SequenceErase
  <2> DEFINE rest == [stage |-> Stage, items |-> <<>>]
  <2>1. rest \in Jobs /\ rest.stage = "chip" /\ rest.items = <<>> /\ Tail(jobs) \in Seq(Jobs)
        /\ <<>> \in Seq(Ranges)
    BY <1>0, HeadTailProperties DEF Queue, Jobs, Stages
  <2>2. jobs' = <<rest>> \o Tail(jobs)
    BY <1>5 DEF SequenceErase
  <2> HIDE DEF rest
  <2>3. jobs' \in Seq(Jobs) /\ jobs' # <<>> /\ Head(jobs') = rest /\ Tail(jobs') = Tail(jobs)
    BY <2>1, <2>2, InFront
  <2>4. Stage' = "chip" /\ Items' = <<>>
    BY <2>1, <2>3 DEF Stage, Items
  <2>5. Remaining' = {}
    BY <2>4 DEF Remaining, Covered
  <2>6. /\ step' = "done" /\ flash' = [a \in Addr |-> "erased"] /\ routine' = NoRoutine
        /\ failed' = failed /\ result' = result /\ active' = "none"
    BY <1>5 DEF SequenceErase
  <2>7. routine'.name = "none" /\ routine'.done = 0 /\ Length' = 0
    BY <2>6 DEF NoRoutine, Length
  <2>8. Queue'
    <3>1. Tail(jobs') = After(Stage)'
      BY <1>0, <1>1, <1>2, <2>3, <2>4, SamePlan DEF Queue, After
    <3> QED BY <1>0, <1>1, <2>1, <2>3, <2>4, <2>5, <3>1 DEF Queue, Stages
  <2>9. Flow' /\ Initialised' /\ Honest'
    BY <1>0, <1>1, <2>4, <2>6 DEF Flow, Initialised, Honest, Waits
  <2>10. Runs' /\ Loading' /\ BufferHoldsPage' /\ OkIsThere'
    BY <1>0, <1>1, <1>3, <2>6, <2>7 DEF Runs, Loading, BufferHoldsPage, OkIsThere
  <2>11. Filled'
    BY <1>0, <1>1, <1>2, <2>4 DEF Filled
  <2>12. Erased' /\ Programming'
    BY <2>4, <2>6, <2>7 DEF Erased, Programming
  <2> QED BY <1>3, <2>8, <2>9, <2>10, <2>11, <2>12 DEF IndInv
<1>6. CASE SequenceFails
  <2>1. /\ step' = "end" /\ result' = "error" /\ failed'
        /\ UNCHANGED <<jobs, core, routine, r0, active>>
        /\ \A a \in Addr : flash'[a] \in {"erased", flash[a]}
    BY <1>6 DEF SequenceFails, Fail
  <2>2. /\ Stage' = Stage /\ Items' = Items /\ Op' = Op /\ Double' = Double
        /\ Remaining' = Remaining /\ Whole' = Whole /\ Queue'
    BY <1>0, <1>1, <2>1, SameJob
  <2>3. Flow' /\ Initialised' /\ Honest'
    BY <1>0, <1>1, <2>1, <2>2 DEF Flow, Initialised, Honest, Waits
  <2>4. Runs' /\ Loading' /\ BufferHoldsPage' /\ OkIsThere'
    BY <1>0, <1>1, <2>1, <2>2 DEF Runs, Loading, BufferHoldsPage, OkIsThere, Length
  <2>5. Filled'
    BY <1>0, <1>1, <1>2, <2>2 DEF Filled
  <2>6. Erased' /\ Programming'
    BY <1>0, <1>1, <1>2, <1>4, <2>1, <2>2 DEF Erased, Programming
  <2> QED BY <1>3, <2>2, <2>3, <2>4, <2>5, <2>6 DEF IndInv
<1> QED BY <1>5, <1>6

\* And uninitialised.
LEMMA UninitKeeps == ASSUME IndInv, TypeOK', Uninit PROVE IndInv'
<1> USE DEF targetVars
<1>0. /\ Queue /\ Flow /\ Runs /\ Initialised /\ Honest
      /\ step = "uninit" /\ core = "halted" /\ ~failed /\ result = "none"
      /\ UNCHANGED <<plan, jobs, loaded, buf, data, log, failed, result>>
  BY DEF IndInv, Uninit, Flow, Honest, Waits
<1>1. /\ Stage' = Stage /\ Items' = Items /\ Op' = Op /\ Double' = Double
      /\ Remaining' = Remaining /\ Whole' = Whole /\ Queue'
  BY <1>0, SameJob
<1>2. Logged'
  BY <1>0, <1>1, ReportsNothing DEF Uninit
<1>3. CASE plan.uninit
  <2>1. step' = "uninitWait" /\ Call("uninit", <<0, 0>>, 0)
    BY <1>3 DEF Uninit
  <2>2. /\ core' = "running" /\ UNCHANGED <<r0, ram, flash, active>>
        /\ routine' = [name |-> "uninit", range |-> <<0, 0>>, buf |-> 0, done |-> 0]
    BY <2>1 DEF Call
  <2>3. /\ Runs' /\ Loading' /\ BufferHoldsPage' /\ Filled' /\ Erased'
        /\ Programming' /\ OkIsThere'
    BY <1>0, <2>1, CallEmpty DEF Idle
  <2>4. Flow'
    BY <1>0, <1>1, <2>1, <2>2 DEF Flow, Waits
  <2>5. Initialised' /\ Honest'
    BY <1>0, <2>1, <2>2 DEF Initialised, Honest
  <2> QED BY <1>1, <1>2, <2>3, <2>4, <2>5 DEF IndInv
<1>4. CASE ~plan.uninit
  <2>1. step' = "left" /\ UNCHANGED targetVars
    BY <1>4 DEF Uninit
  <2>2. /\ Queue' /\ Runs' /\ Loading' /\ BufferHoldsPage' /\ Filled' /\ Erased'
        /\ Programming' /\ OkIsThere'
    <3>1. Idle
      BY <1>0 DEF Idle
    <3> QED BY <1>0, <2>1, <3>1, HostMoves DEF IndInv, Programming
  <2>3. Flow'
    BY <1>0, <1>1, <2>1 DEF Flow, Waits
  <2>4. Initialised' /\ Honest'
    BY <1>0, <1>4, <2>1 DEF Initialised, Honest
  <2> QED BY <1>2, <2>2, <2>3, <2>4 DEF IndInv
<1> QED BY <1>3, <1>4

\* A fill is read: the pages have it, and it was not changed before.
LEMMA ReadFillKeeps == ASSUME IndInv, TypeOK', ReadFill PROVE IndInv'
<1> USE DEF targetVars
<1>0. /\ Queue /\ Flow /\ Runs /\ Initialised /\ Honest /\ plan \in Plans
      /\ step = "work" /\ step' = "uninit" /\ Stage = "filling" /\ core = "halted" /\ ~failed
      /\ Items # <<>> /\ result = "none" /\ routine.name # "program" /\ ~Double
      /\ data' = [a \in Addr |-> IF a \in Range2(Head(Items)) THEN flash[a] ELSE data[a]]
      /\ ItemDone /\ UNCHANGED <<plan, loaded, buf, log, failed, result, targetVars>>
  BY Facts DEF IndInv, ReadFill, Flow, Honest, Runs, Waits
<1>1. /\ Queue' /\ Stage' = Stage /\ Op' = Op /\ Double' = Double /\ Whole' = Whole
      /\ Remaining = Range2(Head(Items)) \cup Remaining' /\ Remaining \subseteq Whole
  BY <1>0, ItemDoneIs DEF Queue
<1>2. /\ Fills' = Fills /\ Goal' = Goal /\ Kept' = Kept /\ Blank' = Blank
  BY <1>0, SamePlan
<1>3. Flow'
  BY <1>0, <1>1 DEF Flow, Waits
<1>4. Runs'
  BY <1>0, <1>1 DEF Runs, Length
<1>5. Loading' /\ BufferHoldsPage'
  BY <1>0 DEF IndInv, Loading, BufferHoldsPage
<1>6. Filled'
  <2>1. Range2(Head(Items)) \subseteq Covered(Fills) /\ \A a \in Addr : flash[a] = Kept
    BY <1>0, <1>1 DEF Whole, All, IndInv, Erased
  <2>2. Covered(Fills) \cap plan.staged = {}
    BY <1>0, PlansAssumption, CoveredIs DEF Fills
  <2>3. ASSUME NEW a \in Addr
        PROVE  /\ a \in plan.staged => data'[a] = "new"
               /\ a \notin plan.staged => data'[a] \in {"erased", Kept}
               /\ a \notin plan.staged /\ a \notin Covered(Fills) => data'[a] = "erased"
               /\ a \in Covered(Fills) => a \in Remaining' \/ data'[a] = Kept
    <3>1. /\ a \in plan.staged => data[a] = "new"
          /\ a \notin plan.staged => data[a] \in {"erased", Kept}
          /\ a \notin plan.staged /\ a \notin Covered(Fills) => data[a] = "erased"
          /\ a \in Covered(Fills) => a \in Remaining \/ data[a] = Kept
      BY <1>0 DEF IndInv, Filled
    <3>2. CASE a \in Range2(Head(Items))
      BY <1>0, <2>1, <2>2, <3>2
    <3>3. CASE a \notin Range2(Head(Items))
      BY <1>0, <1>1, <3>1, <3>3
    <3> QED BY <3>2, <3>3
  <2> QED BY <1>0, <1>1, <1>2, <2>3 DEF Filled
<1>7. Erased'
  BY <1>0, <1>1, <1>2 DEF IndInv, Erased
<1>8. Programming' /\ OkIsThere'
  BY <1>0, <1>1 DEF Programming, OkIsThere
<1>9. Initialised' /\ Honest'
  BY <1>0, <1>1 DEF Initialised, Honest
<1>10. Logged'
  BY <1>0, <1>1, ReportsNothing
<1> QED BY <1>1, <1>3, <1>4, <1>5, <1>6, <1>7, <1>8, <1>9, <1>10 DEF IndInv

\* The erase routine is called for the next sector.
LEMMA CallEraseKeeps == ASSUME IndInv, TypeOK', CallErase PROVE IndInv'
<1> USE DEF targetVars
<1>0. /\ Queue /\ Flow /\ Runs /\ Initialised /\ Honest
      /\ step = "work" /\ step' = "wait" /\ Op = "Erase" /\ core = "halted" /\ ~failed
      /\ Items # <<>> /\ result = "none" /\ routine.name # "program" /\ ~Double
      /\ UNCHANGED <<plan, jobs, loaded, buf, data, log, failed, result, r0, ram, flash, active>>
      /\ core' = "running"
      /\ routine' = [name |-> "erase", range |-> Head(Items), buf |-> 0, done |-> 0]
  BY Facts DEF IndInv, CallErase, Call, Flow, Honest, Runs, Waits
<1>1. /\ Stage' = Stage /\ Items' = Items /\ Op' = Op /\ Double' = Double
      /\ Remaining' = Remaining /\ Whole' = Whole /\ Queue'
  BY <1>0, SameJob
<1>2. /\ Fills' = Fills /\ Goal' = Goal /\ Kept' = Kept /\ Blank' = Blank
  BY <1>0, SamePlan
<1>3. /\ Head(Items) \in Ranges /\ Range2(Head(Items)) \subseteq Whole
  BY <1>0, Facts, HeadTailProperties, CoveredIs DEF Queue, Remaining
<1>4. Flow'
  BY <1>0, <1>1, Facts DEF Flow, Waits
<1>5. Runs'
  BY <1>0, <1>1, <1>3, SizesAssumption DEF Runs, Length, Ranges
<1>6. Loading' /\ BufferHoldsPage' /\ OkIsThere'
  BY <1>0, <1>1 DEF IndInv, Loading, BufferHoldsPage, OkIsThere
<1>7. Filled'
  BY <1>0, <1>1, <1>2 DEF IndInv, Filled
<1>8. Erased'
  <2>1. \A a \in Addr : ~(a \in Range2(Head(Items)) /\ a - Head(Items)[1] < 0)
    BY <1>3, SizesAssumption DEF Range2, Ranges, Addr
  <2> QED BY <1>0, <1>1, <1>2, <2>1 DEF IndInv, Erased, Reached
<1>9. Programming'
  BY <1>0, <1>1, Facts DEF Programming
<1>10. Initialised' /\ Honest'
  BY <1>0, <1>1 DEF Initialised, Honest
<1>11. Logged'
  BY <1>0, <1>1, ReportsNothing
<1> QED BY <1>1, <1>4, <1>5, <1>6, <1>7, <1>8, <1>9, <1>10, <1>11 DEF IndInv

\* A byte is written into the buffer that the core does not program from.
LEMMA LoadWordKeeps == ASSUME IndInv, TypeOK', LoadWord PROVE IndInv'
<1> USE DEF targetVars
<1>0. /\ Queue /\ Flow /\ Runs /\ Initialised /\ Honest /\ Loading /\ BufferHoldsPage
      /\ step = "work" /\ Stage = "programming" /\ Items # <<>> /\ result = "none"
      /\ loaded \in Offsets /\ loaded' = loaded + 1 /\ buf \in {0, 1}
      /\ ram \in [{0, 1} -> Buffer]
      /\ LET a == Head(Items)[1] + loaded IN ram' = [ram EXCEPT ![buf][loaded] = <<a, data[a]>>]
      /\ UNCHANGED <<plan, jobs, step, buf, data, log, failed, result>>
      /\ UNCHANGED <<core, routine, r0, flash, active>>
  BY Facts, SizesAssumption DEF IndInv, LoadWord, Flow, Offsets
<1>1. /\ Stage' = Stage /\ Items' = Items /\ Op' = Op /\ Double' = Double
      /\ Remaining' = Remaining /\ Whole' = Whole /\ Queue'
  BY <1>0, SameJob
<1>2. /\ Fills' = Fills /\ Goal' = Goal /\ Kept' = Kept /\ Blank' = Blank
  BY <1>0, SamePlan
<1>3. Flow' /\ Initialised' /\ Honest'
  BY <1>0, <1>1 DEF Flow, Initialised, Honest
<1>4. Runs'
  BY <1>0, <1>1 DEF Runs, Length
<1>5. Loading'
  <2> DEFINE a(i) == Head(Items)[1] + i
  <2>1. ram'[buf] = [ram[buf] EXCEPT ![loaded] = <<a(loaded), data[a(loaded)]>>]
    BY <1>0
  <2>2. ASSUME NEW i \in 0 .. loaded PROVE ram'[buf][i] = <<a(i), data[a(i)]>>
    <3>1. i \in Offsets /\ ram[buf] \in Buffer
      BY <1>0, SizesAssumption DEF Offsets
    <3>2. CASE i = loaded
      BY <2>1, <3>1, <3>2 DEF Buffer
    <3>3. CASE i # loaded
      <4>1. i \in 0 .. loaded - 1 /\ loaded > 0
        BY <1>0, <3>3, SizesAssumption DEF Offsets
      <4>2. ram[buf][i] = <<a(i), data[a(i)]>>
        BY <1>0, <4>1 DEF Loading
      <4> QED BY <2>1, <3>1, <3>3, <4>2 DEF Buffer
    <3> QED BY <3>2, <3>3
  <2>3. 0 .. loaded' - 1 = 0 .. loaded
    BY <1>0, SizesAssumption DEF Offsets
  <2> QED BY <1>0, <1>1, <2>2, <2>3 DEF Loading
<1>6. BufferHoldsPage'
  <2>1. core = "running" => routine.buf # buf /\ routine.buf \in {0, 1}
    BY <1>0, Facts, RoutineIs DEF Flow, Waits
  <2>2. core = "running" => ram'[routine.buf] = ram[routine.buf]
    BY <1>0, <2>1
  <2> QED BY <1>0, <2>2 DEF BufferHoldsPage, Length
<1>7. Filled' /\ Erased'
  BY <1>0, <1>1, <1>2 DEF IndInv, Filled, Erased
<1>8. Programming'
  BY <1>0, <1>1, <1>2 DEF IndInv, Programming, Reached, Length, Idle
<1>9. OkIsThere'
  BY <1>0 DEF OkIsThere
<1>10. Logged'
  BY <1>0, <1>1, ReportsNothing
<1> QED BY <1>1, <1>3, <1>4, <1>5, <1>6, <1>7, <1>8, <1>9, <1>10 DEF IndInv

\* A full buffer holds the next page.
LEMMA PageInBuffer ==
  ASSUME IndInv, Stage = "programming", Items # <<>>, loaded = PageSize, step # "end"
  PROVE  /\ Head(Items) \in Pages /\ Range2(Head(Items)) \subseteq Whole
         /\ Range2(Head(Items)) \subseteq Remaining
         /\ \A i \in 0 .. PageSize - 1 :
              LET a == Head(Items)[1] + i IN ram[buf][i] = <<a, data[a]>>
         /\ \A a \in Addr : ~(a \in Range2(Head(Items)) /\ a - Head(Items)[1] < 0)
<1>1. Queue /\ Items \in Seq(Ranges) /\ Items \in Seq(Pages)
  BY DEF IndInv, Queue
<1>2. Head(Items) \in Pages
  BY <1>1, HeadTailProperties
<1>3. Range2(Head(Items)) \subseteq Remaining
  BY <1>1, CoveredIs DEF Remaining
<1>4. Range2(Head(Items)) \subseteq Whole
  BY <1>1, <1>3 DEF Queue
<1>5. \A i \in 0 .. PageSize - 1 :
        LET a == Head(Items)[1] + i IN ram[buf][i] = <<a, data[a]>>
  BY SizesAssumption DEF IndInv, Loading
<1>6. \A a \in Addr : ~(a \in Range2(Head(Items)) /\ a - Head(Items)[1] < 0)
  BY <1>2, SizesAssumption DEF Range2, Pages, Ranges, Addr
<1> QED BY <1>2, <1>3, <1>4, <1>5, <1>6

\* The program routine is called for the page in the buffer.
LEMMA CallProgramKeeps == ASSUME IndInv, TypeOK', CallProgram PROVE IndInv'
<1> USE DEF targetVars
<1>0. /\ Queue /\ Flow /\ Runs /\ Initialised /\ Honest /\ Programming /\ Loading
      /\ step = "work" /\ step' = "wait" /\ Stage = "programming" /\ core = "halted" /\ ~failed
      /\ Items # <<>> /\ result = "none" /\ ~Double /\ loaded = PageSize
      /\ UNCHANGED <<plan, jobs, loaded, buf, data, log, failed, result, r0, ram, flash, active>>
      /\ core' = "running"
      /\ routine' = [name |-> "program", range |-> Head(Items), buf |-> buf, done |-> 0]
  BY Facts DEF IndInv, CallProgram, Call, Flow, Honest, Waits
<1>1. /\ Stage' = Stage /\ Items' = Items /\ Op' = Op /\ Double' = Double
      /\ Remaining' = Remaining /\ Whole' = Whole /\ Queue'
  BY <1>0, SameJob
<1>2. /\ Fills' = Fills /\ Goal' = Goal /\ Kept' = Kept /\ Blank' = Blank
  BY <1>0, SamePlan
<1>3. /\ Head(Items) \in Pages /\ Range2(Head(Items)) \subseteq Whole
      /\ \A i \in 0 .. PageSize - 1 :
           LET a == Head(Items)[1] + i IN ram[buf][i] = <<a, data[a]>>
      /\ \A a \in Addr : ~(a \in Range2(Head(Items)) /\ a - Head(Items)[1] < 0)
  BY <1>0, PageInBuffer
<1>4. Flow'
  BY <1>0, <1>1, Facts DEF Flow, Waits
<1>5. Runs'
  BY <1>0, <1>1, <1>3, SizesAssumption DEF Runs, Length, Pages
<1>6. BufferHoldsPage'
  <2>1. Length' = PageSize
    BY <1>0, <1>3 DEF Length, Pages
  <2> QED BY <1>0, <1>3, <2>1 DEF BufferHoldsPage
<1>7. Loading' /\ OkIsThere'
  BY <1>0, <1>1 DEF Loading, OkIsThere
<1>8. Filled' /\ Erased'
  BY <1>0, <1>1, <1>2, Facts DEF IndInv, Filled, Erased
<1>9. Programming'
  <2>1. \A a \in Addr : /\ flash'[a] \in {Blank'[a], Goal'[a]}
                        /\ a \notin Remaining' => flash'[a] = Goal'[a]
    <3>1. routine.name = "program" => routine.done = Length
      BY <1>0 DEF Programming, Idle
    <3> QED BY <1>0, <1>1, <1>2, <3>1, PagesDone DEF Programming
  <2>2. \A a \in Addr : ~Reached(a)'
    BY <1>0, <1>3 DEF Reached
  <2>3. ~Idle'
    BY <1>0 DEF Idle
  <2> QED BY <2>1, <2>2, <2>3 DEF Programming, Reached
<1>10. Initialised' /\ Honest'
  BY <1>0, <1>1 DEF Initialised, Honest
<1>11. Logged'
  BY <1>0, <1>1, ReportsNothing
<1> QED BY <1>1, <1>4, <1>5, <1>6, <1>7, <1>8, <1>9, <1>10, <1>11 DEF IndInv

\* The routine before has halted: its result decides.
LEMMA PreviousDoneKeeps == ASSUME IndInv, TypeOK', PreviousDone PROVE IndInv'
<1> USE DEF targetVars
<1>0. /\ Queue /\ Flow /\ Runs /\ Initialised /\ Honest
      /\ step = "work" /\ Double /\ core = "halted" /\ loaded = PageSize /\ Items # <<>>
      /\ UNCHANGED <<plan, jobs, loaded, buf, data, failed, targetVars>> /\ result = "none"
      /\ r0 \in {0, 1} /\ failed \in BOOLEAN
  BY Facts DEF IndInv, PreviousDone, RoutineOver, Flow
<1>1. CASE r0 # 0
  <2>1. Fail
    BY <1>1 DEF PreviousDone, ResultOk
  <2>2. plan.init => failed
    BY <1>0, <1>1 DEF Honest
  <2> QED BY <1>0, <2>1, <2>2, FailKeeps
<1>2. CASE r0 = 0
  <2>1. step' = "start" /\ UNCHANGED <<result, log>>
    BY <1>2 DEF PreviousDone, ResultOk
  <2>2. ~failed
    BY <1>0, <1>2 DEF Honest, Waits
  <2>3. routine.done = Length
    BY <1>0, <1>2 DEF Runs
  <2>4. /\ Queue' /\ Runs' /\ Loading' /\ BufferHoldsPage' /\ Filled' /\ Erased'
        /\ Programming' /\ OkIsThere'
    BY <1>0, <2>1, <2>3, HostMoves
  <2>5. Stage' = Stage /\ Items' = Items /\ Op' = Op /\ Double' = Double
    BY <1>0, SameJob
  <2>6. Flow' /\ Initialised' /\ Honest'
    BY <1>0, <2>1, <2>2, <2>5 DEF Flow, Initialised, Honest, Waits
  <2>7. Logged'
    BY <1>0, <2>1, <2>5, ReportsNothing
  <2> QED BY <2>4, <2>6, <2>7 DEF IndInv
<1> QED BY <1>1, <1>2

\* The next page is programmed from the buffer just filled, and the other is filled.
LEMMA StartNextKeeps == ASSUME IndInv, TypeOK', StartNext PROVE IndInv'
<1> USE DEF targetVars
<1>0. /\ Queue /\ Flow /\ Runs /\ Initialised /\ Honest /\ Programming /\ plan \in Plans
      /\ step = "start" /\ step' = "work" /\ Stage = "programming" /\ core = "halted" /\ ~failed
      /\ Items # <<>> /\ result = "none" /\ Double /\ loaded = PageSize /\ buf \in {0, 1}
      /\ ItemDone /\ loaded' = 0 /\ buf' = 1 - buf
      /\ UNCHANGED <<plan, data, log, failed, result, r0, ram, flash, active>>
      /\ core' = "running"
      /\ routine' = [name |-> "program", range |-> Head(Items), buf |-> buf, done |-> 0]
  BY Facts DEF IndInv, StartNext, Call, Flow, Honest, Waits
<1>1. /\ Queue' /\ Stage' = Stage /\ Op' = Op /\ Double' = Double /\ Whole' = Whole
      /\ Remaining = Range2(Head(Items)) \cup Remaining'
  BY <1>0, ItemDoneIs
<1>2. /\ Fills' = Fills /\ Goal' = Goal /\ Kept' = Kept /\ Blank' = Blank
  BY <1>0, SamePlan
<1>3. /\ Head(Items) \in Pages /\ Range2(Head(Items)) \subseteq Whole
      /\ \A i \in 0 .. PageSize - 1 :
           LET a == Head(Items)[1] + i IN ram[buf][i] = <<a, data[a]>>
      /\ \A a \in Addr : ~(a \in Range2(Head(Items)) /\ a - Head(Items)[1] < 0)
  BY <1>0, PageInBuffer
<1>4. Flow'
  BY <1>0, <1>1 DEF Flow, Waits
<1>5. Runs'
  BY <1>0, <1>1, <1>3, SizesAssumption DEF Runs, Length, Pages
<1>6. BufferHoldsPage'
  <2>1. Length' = PageSize
    BY <1>0, <1>3 DEF Length, Pages
  <2> QED BY <1>0, <1>3, <2>1 DEF BufferHoldsPage
<1>7. Loading' /\ OkIsThere'
  BY <1>0 DEF Loading, OkIsThere
<1>8. Filled' /\ Erased'
  BY <1>0, <1>1, <1>2 DEF IndInv, Filled, Erased
<1>9. Programming'
  <2>1. routine.name = "program" => routine.done = Length
    BY <1>0 DEF Programming, Idle
  <2>2. ASSUME NEW a \in Addr
        PROVE  /\ flash'[a] \in {Blank'[a], Goal'[a]}
               /\ a \notin Remaining' => flash'[a] = Goal'[a] \/ a \in Range2(Head(Items))
    BY <1>0, <1>1, <1>2, <2>1, PagesDone DEF Programming
  <2>3. \A a \in Addr : ~Reached(a)'
    BY <1>0, <1>3 DEF Reached
  <2>4. ~Idle'
    BY <1>0, <1>1 DEF Idle
  <2>5. routine'.name = "program" /\ routine'.range = Head(Items)
    BY <1>0
  <2> QED BY <2>2, <2>3, <2>4, <2>5 DEF Programming, Reached, Range2
<1>10. Initialised' /\ Honest'
  BY <1>0, <1>1 DEF Initialised, Honest
<1>11. Logged'
  BY <1>0, <1>1, ReportsNothing
<1> QED BY <1>1, <1>4, <1>5, <1>6, <1>7, <1>8, <1>9, <1>10, <1>11 DEF IndInv

\* The last routine of double buffering has halted: its result decides.
LEMMA AllStartedKeeps == ASSUME IndInv, TypeOK', AllStarted PROVE IndInv'
<1> USE DEF targetVars
<1>0. /\ Queue /\ Flow /\ Runs /\ Initialised /\ Honest
      /\ step = "work" /\ Double /\ core = "halted" /\ Items = <<>>
      /\ UNCHANGED <<plan, jobs, loaded, buf, data, failed, targetVars>> /\ result = "none"
      /\ r0 \in {0, 1} /\ failed \in BOOLEAN
  BY Facts DEF IndInv, AllStarted, RoutineOver, Flow
<1>1. CASE r0 # 0
  <2>1. Fail
    BY <1>1 DEF AllStarted, ResultOk
  <2>2. plan.init => failed
    BY <1>0, <1>1 DEF Honest
  <2> QED BY <1>0, <2>1, <2>2, FailKeeps
<1>2. CASE r0 = 0
  <2>1. step' = "uninit" /\ UNCHANGED <<result, log>>
    BY <1>2 DEF AllStarted, ResultOk
  <2>2. ~failed
    BY <1>0, <1>2 DEF Honest, Waits
  <2>3. routine.done = Length
    BY <1>0, <1>2 DEF Runs
  <2>4. /\ Queue' /\ Runs' /\ Loading' /\ BufferHoldsPage' /\ Filled' /\ Erased'
        /\ Programming' /\ OkIsThere'
    BY <1>0, <2>1, <2>3, HostMoves
  <2>5. Stage' = Stage /\ Items' = Items /\ Op' = Op /\ Double' = Double
    BY <1>0, SameJob
  <2>6. Flow' /\ Initialised' /\ Honest'
    BY <1>0, <2>1, <2>2, <2>5 DEF Flow, Initialised, Honest, Waits
  <2>7. Logged'
    BY <1>0, <2>1, <2>5, ReportsNothing
  <2> QED BY <2>4, <2>6, <2>7 DEF IndInv
<1> QED BY <1>1, <1>2

\* Nothing is left of the stage.
LEMMA NoItemsKeeps == ASSUME IndInv, TypeOK', NoItems PROVE IndInv'
<1> USE DEF targetVars
<1>0. /\ Queue /\ Flow /\ Runs /\ Initialised /\ Honest /\ Programming
      /\ step = "work" /\ ~Double /\ core = "halted" /\ Items = <<>> /\ Stage # "filling"
      /\ UNCHANGED <<plan, jobs, loaded, buf, data, log, failed, result, targetVars>>
      /\ result = "none" /\ step' = "uninit" /\ ~failed
  BY DEF IndInv, NoItems, Flow, Honest, Waits
<1>1. Idle
  BY <1>0 DEF Idle
<1>2. /\ Queue' /\ Runs' /\ Loading' /\ BufferHoldsPage' /\ Filled' /\ Erased'
      /\ Programming' /\ OkIsThere'
  BY <1>0, <1>1, HostMoves DEF Programming
<1>3. Stage' = Stage /\ Items' = Items /\ Op' = Op /\ Double' = Double
  BY <1>0, SameJob
<1>4. Flow' /\ Initialised' /\ Honest'
  BY <1>0, <1>3 DEF Flow, Initialised, Honest, Waits
<1>5. Logged'
  BY <1>0, <1>3, ReportsNothing
<1> QED BY <1>2, <1>4, <1>5 DEF IndInv

\* A routine has halted: its result decides, and its range is done.
LEMMA HaltedKeeps == ASSUME IndInv, TypeOK', Halted PROVE IndInv'
<1> USE DEF targetVars
<1>0. /\ Queue /\ Flow /\ Runs /\ Initialised /\ Honest /\ Programming /\ plan \in Plans
      /\ step \in Waits /\ core = "halted" /\ result = "none"
      /\ UNCHANGED <<plan, buf, data, failed, targetVars>>
      /\ r0 \in {0, 1} /\ failed \in BOOLEAN
  BY Facts DEF IndInv, Halted, RoutineOver, Flow, Waits
<1>1. CASE r0 # 0
  <2>1. Fail /\ UNCHANGED <<jobs, loaded>>
    BY <1>1 DEF Halted, ResultOk
  <2>2. plan.init => failed
    BY <1>0, <1>1 DEF Honest, Waits
  <2>3. step \notin {"begin", "end"}
    BY <1>0 DEF Waits
  <2> QED BY <1>0, <2>1, <2>2, <2>3, FailKeeps
<1>2. CASE r0 = 0
  <2>1. /\ UNCHANGED <<result, log>> /\ step' = (IF step = "uninitWait" THEN "left" ELSE "work")
        /\ IF step = "wait" THEN ItemDone /\ loaded' = 0 ELSE UNCHANGED <<jobs, loaded>>
    BY <1>2 DEF Halted, ResultOk
  <2>2. ~failed /\ routine.done = Length
    BY <1>0, <1>2 DEF Honest, Runs, Waits
  <2>3. CASE step # "wait"
    <3>1. /\ Queue' /\ Runs' /\ Loading' /\ BufferHoldsPage' /\ Filled' /\ Erased'
          /\ Programming' /\ OkIsThere'
      BY <1>0, <2>1, <2>2, <2>3, HostMoves DEF Waits
    <3>2. Stage' = Stage /\ Items' = Items /\ Op' = Op /\ Double' = Double
      BY <1>0, <2>1, <2>3, SameJob
    <3>3. Flow'
      BY <1>0, <2>1, <2>3, <3>2 DEF Flow, Waits
    <3>4. Initialised'
      BY <1>0, <1>2, <2>1, <2>3, <3>2 DEF Initialised, Waits
    <3>5. Honest'
      BY <1>0, <1>2, <2>1, <2>2, <3>2 DEF Honest
    <3>6. Logged'
      BY <1>0, <2>1, <2>3, <3>2, ReportsNothing DEF Waits
    <3> QED BY <3>1, <3>3, <3>4, <3>5, <3>6 DEF IndInv
  <2>4. CASE step = "wait"
    <3>0. /\ Stage # "filling" /\ ~Double /\ Items # <<>> /\ routine.range = Head(Items)
          /\ routine.name = IF Op = "Erase" THEN "erase" ELSE "program"
          /\ step' = "work" /\ ItemDone /\ loaded' = 0
      BY <1>0, <2>1, <2>4 DEF Flow
    <3>1. /\ Queue' /\ Stage' = Stage /\ Op' = Op /\ Double' = Double /\ Whole' = Whole
          /\ Remaining = Range2(Head(Items)) \cup Remaining' /\ Remaining \subseteq Whole
      BY <1>0, <3>0, ItemDoneIs DEF Queue
    <3>2. /\ Fills' = Fills /\ Goal' = Goal /\ Kept' = Kept /\ Blank' = Blank /\ Wiped' = Wiped
      BY <1>0, SamePlan
    <3>3. Flow'
      BY <1>0, <2>1, <3>0, <3>1 DEF Flow, Waits
    <3>4. Runs'
      BY <1>0, <3>1 DEF Runs, Length
    <3>5. Loading' /\ BufferHoldsPage' /\ OkIsThere'
      BY <1>0, <2>1, <3>0 DEF Loading, BufferHoldsPage, OkIsThere
    <3>6. Filled'
      BY <1>0, <3>0, <3>1, <3>2 DEF IndInv, Filled
    <3>7. Erased'
      <4>1. routine.name = "erase" => \A a \in Addr : a \in Range2(Head(Items)) => flash[a] = "erased"
        BY <2>2, <2>4, <3>0, AllReached DEF IndInv, Erased
      <4>2. Stage = "chip" =>
              \A a \in Addr : /\ flash[a] \in {"old", "erased"}
                              /\ plan.skip \/ a \notin Remaining' => flash[a] = "erased"
        BY <3>0, <3>1, <4>1, Facts DEF IndInv, Erased
      <4>3. Stage = "erasing" =>
              \A a \in Addr : /\ flash[a] \in {Kept, Blank[a]}
                              /\ a \notin Remaining' => flash[a] = Blank[a]
        <5>1. Stage = "erasing" => Whole = Covered(plan.sectors)
          BY DEF Whole, All
        <5>2. Stage = "erasing" => \A a \in Addr : a \in Range2(Head(Items)) => Blank[a] = "erased"
          BY <3>1, <5>1 DEF Blank
        <5> QED BY <3>0, <3>1, <4>1, <5>2, Facts DEF IndInv, Erased
      <4> QED BY <1>0, <3>0, <3>1, <3>2, <4>2, <4>3 DEF Erased
    <3>8. Programming'
      <4>1. Stage = "programming" =>
              \A a \in Addr :
                /\ flash[a] \in {Blank[a], Goal[a]}
                /\ a \notin Remaining' => flash[a] = Goal[a]
        <5>1. Stage = "programming" =>
                \A a \in Addr : a \in Range2(Head(Items)) => flash[a] = Goal[a]
          BY <1>0, <2>2, <3>0, Facts, AllReached DEF Programming
        <5> QED BY <1>0, <2>2, <3>1, <5>1, PagesDone DEF Programming
      <4> QED BY <1>0, <2>2, <3>1, <3>2, <4>1 DEF Programming, Reached, Length
    <3>9. Initialised' /\ Honest'
      BY <1>0, <1>2, <2>1, <2>2, <2>4, <3>0, <3>1 DEF Initialised, Honest
    <3>10. Logged'
      BY <1>0, <2>1, <2>4, <3>1, ReportsNothing
    <3> QED BY <3>1, <3>3, <3>4, <3>5, <3>6, <3>7, <3>8, <3>9, <3>10 DEF IndInv
  <2> QED BY <2>3, <2>4
<1> QED BY <1>0, <1>1, <1>2

\* The algorithm is left; the next fill runs it again.
LEMMA LeftKeeps == ASSUME IndInv, TypeOK', Left PROVE IndInv'
<1> USE DEF targetVars
<1>0. /\ Queue /\ Flow /\ Runs /\ Initialised /\ Honest /\ Programming
      /\ step = "left" /\ core = "halted" /\ result = "none" /\ ~failed
      /\ step' = IF Stage = "filling" /\ Items # <<>> THEN "enter" ELSE "done"
      /\ UNCHANGED <<plan, jobs, loaded, buf, data, log, failed, result, targetVars>>
  BY DEF IndInv, Left, Flow, Honest, Waits
<1>1. Idle
  BY <1>0 DEF Idle
<1>2. /\ Queue' /\ Runs' /\ Loading' /\ BufferHoldsPage' /\ Filled' /\ Erased'
      /\ Programming' /\ OkIsThere'
  BY <1>0, <1>1, HostMoves DEF Programming
<1>3. Stage' = Stage /\ Items' = Items /\ Op' = Op /\ Double' = Double
  BY <1>0, SameJob
<1>4. Flow'
  BY <1>0, <1>3 DEF Flow, Waits
<1>5. Initialised' /\ Honest'
  BY <1>0, <1>3 DEF Initialised, Honest
<1>6. Logged'
  BY <1>0, <1>3, ReportsNothing
<1> QED BY <1>2, <1>4, <1>5, <1>6 DEF IndInv

\* The last stage ends with Ok: everything is in flash.
LEMMA LastDone == ASSUME IndInv, TypeOK', Done, Len(jobs) = 1 PROVE IndInv'
<1> USE DEF targetVars
<1>0. /\ Queue /\ Flow /\ Runs /\ Initialised /\ Honest /\ Programming /\ plan \in Plans
      /\ step = "done" /\ core = "halted" /\ result = "none" /\ ~failed /\ Items = <<>>
      /\ step' = "end" /\ result' = "ok" /\ log' = Append(log, <<"finished", Event(Stage)>>)
      /\ UNCHANGED <<plan, jobs, loaded, buf, data, failed, targetVars>>
  BY Facts DEF IndInv, Done, Flow, Honest, Waits
<1>1. Stage = "programming"
  <2>1. jobs \in Seq(Jobs) /\ jobs # <<>> /\ Tail(jobs) = After(Stage) /\ Stage \in Stages
        /\ (Stage = "chip" => plan.chip)
    BY <1>0 DEF Queue
  <2>2. After(Stage) = <<>>
    BY <2>1, Single
  <2> QED BY <1>0, <2>1, <2>2, AfterIs
<1>2. \A a \in Addr : flash[a] = Goal[a]
  <2>1. Remaining = {}
    BY <1>0, CoveredIs DEF Remaining
  <2>2. routine.name = "program" => routine.done = Length
    BY <1>0 DEF Programming, Idle
  <2> QED BY <1>1, <2>1, <2>2, PagesDone
<1>3. /\ Queue' /\ Runs' /\ Loading' /\ BufferHoldsPage' /\ Filled' /\ Erased'
      /\ Programming' /\ OkIsThere'
  BY <1>0, <1>2, HostMoves DEF Idle
<1>4. Stage' = Stage /\ Items' = Items /\ Op' = Op /\ Double' = Double
  BY <1>0, SameJob
<1>5. Flow'
  BY <1>0, <1>1, <1>4 DEF Flow, Waits
<1>6. Initialised' /\ Honest'
  BY <1>0, <1>1, <1>4 DEF Initialised, Honest
<1>7. Logged'
  <2> SUFFICES ASSUME ~plan.chip PROVE Logged'
    BY <1>0 DEF Logged
  <2>1. plan.skip \in BOOLEAN /\ <<"finished", Stage>> \in Events /\ Event(Stage) = Stage
    BY <1>0, <1>1, PlanIs, EventsAre DEF Event, Stages
  <2>2. /\ Reported = (IF plan.skip THEN 3 ELSE 5) + 1 /\ Reported' = Reported + 1
        /\ Reported \in Nat
    BY <1>0, <1>1, <1>4 DEF Reported
  <2>3. <<"finished", Stage>> = Documented[Reported + 1]
    BY <1>1, <2>1, <2>2, DocumentedIs
  <2> QED BY <1>0, <2>1, <2>2, <2>3, ReportsNext
<1> QED BY <1>3, <1>5, <1>6, <1>7 DEF IndInv

\* A stage ends and the next begins: all of the first is done, none of the next.
LEMMA NextDone == ASSUME IndInv, TypeOK', Done, Len(jobs) # 1 PROVE IndInv'
<1> USE DEF targetVars
<1>0. /\ Queue /\ Flow /\ Runs /\ Initialised /\ Honest /\ plan \in Plans
      /\ step = "done" /\ core = "halted" /\ result = "none" /\ ~failed /\ Items = <<>>
      /\ step' = "begin" /\ log' = Append(log, <<"finished", Event(Stage)>>)
      /\ UNCHANGED <<plan, loaded, buf, data, failed, result, targetVars>> /\ jobs' = Tail(jobs)
  BY Facts DEF IndInv, Done, Flow, Honest, Waits
<1>1. /\ Queue' /\ Items' = All(Stage)' /\ Remaining' = Whole'
      /\ Stage # "programming" /\ (Stage = "chip" <=> Stage' = "filling")
      /\ Stage' \in Stages \ {"chip"}
      /\ Stage' = "erasing" => Stage = "filling" /\ ~Wiped
      /\ Stage = "filling" /\ ~Wiped => Stage' = "erasing"
  BY <1>0, NextJob
<1>2. /\ Fills' = Fills /\ Goal' = Goal /\ Kept' = Kept /\ Blank' = Blank /\ Wiped' = Wiped
      /\ Documented' = Documented
  BY <1>0, SamePlan
<1>3. Remaining = {} /\ routine.name # "program" /\ Stage \in Stages /\ (Stage = "chip" => plan.chip)
      /\ (Stage = "erasing" => ~Wiped)
  BY <1>0, <1>1, CoveredIs DEF Remaining, Runs, Queue
<1>4. /\ Stage' = "filling" => Remaining' = Covered(Fills)
      /\ Stage' = "erasing" => Remaining' = Covered(plan.sectors)
      /\ Stage' = "programming" => Remaining' = Covered(plan.pages)
  <2>1. \A s \in Seq(Ranges) : Covered(s)' = Covered(s)
    BY DEF Covered, Range2
  <2>2. Remaining' = Covered(All(Stage)')
    BY <1>1 DEF Remaining, Covered, Range2
  <2>3. /\ Stage' = "filling" => All(Stage)' = Fills
        /\ Stage' = "erasing" => All(Stage)' = plan.sectors
        /\ Stage' = "programming" => All(Stage)' = plan.pages
    BY <1>0, <1>2 DEF All
  <2> QED BY <2>2, <2>3
<1>5. Flow'
  BY <1>0, <1>1 DEF Flow, Waits
<1>6. Runs'
  BY <1>0, <1>1, <1>3 DEF Runs, Length
<1>7. Loading' /\ BufferHoldsPage' /\ OkIsThere'
  BY <1>0, <1>1 DEF IndInv, Loading, BufferHoldsPage, OkIsThere
<1>8. Filled'
  <2>1. ASSUME NEW a \in Addr, a \in Covered(Fills)
        PROVE  (Stage' = "filling" /\ a \in Remaining') \/ data[a] = Kept
    <3>1. CASE Stage = "chip"
      BY <1>1, <1>4, <2>1, <3>1
    <3>2. CASE Stage # "chip"
      BY <1>3, <2>1, <3>2 DEF IndInv, Filled
    <3> QED BY <3>1, <3>2
  <2>2. \A a \in Addr :
          /\ a \in plan.staged => data[a] = "new"
          /\ a \notin plan.staged => data[a] \in {"erased", Kept}
          /\ a \notin plan.staged /\ a \notin Covered(Fills) => data[a] = "erased"
    BY DEF IndInv, Filled
  <2> QED BY <1>0, <1>1, <1>2, <2>1, <2>2 DEF Filled, Covered, Range2
<1>9. Erased'
  <2>1. Stage' = "filling" => \A a \in Addr : flash[a] = Kept
    BY <1>1, <1>3 DEF IndInv, Erased, Kept, Wiped
  <2>2. Stage' = "erasing" =>
          \A a \in Addr : /\ flash[a] \in {Kept, Blank[a]}
                          /\ a \notin Remaining' => flash[a] = Blank[a]
    BY <1>1, <1>4 DEF IndInv, Erased, Kept, Blank
  <2> QED BY <1>0, <1>1, <1>2, <2>1, <2>2 DEF Erased
<1>10. Programming'
  <2>1. Stage' = "programming" =>
          \A a \in Addr : /\ flash[a] \in {Blank[a], Goal[a]}
                          /\ a \notin Remaining' => flash[a] = Goal[a]
    <3>1. Stage' = "programming" => \A a \in Addr : flash[a] = Blank[a]
      <4>1. CASE Stage = "filling"
        BY <1>1, <4>1 DEF IndInv, Erased, Kept, Blank
      <4>2. CASE Stage = "erasing"
        BY <1>3, <4>2 DEF IndInv, Erased
      <4> QED BY <1>1, <1>3, <4>1, <4>2 DEF Stages
    <3> QED BY <1>0, <1>4, <3>1, GoalOutside
  <2> QED BY <1>0, <1>2, <1>3, <2>1 DEF Programming
<1>11. Initialised' /\ Honest'
  BY <1>0 DEF Initialised, Honest
<1>12. Logged'
  <2> SUFFICES ASSUME ~plan.chip PROVE Logged'
    BY <1>0 DEF Logged
  <2>1. /\ plan.skip \in BOOLEAN /\ <<"finished", Stage>> \in Events /\ Event(Stage) = Stage
        /\ Stage \in {"filling", "erasing"}
    BY <1>0, <1>1, <1>3, PlanIs, EventsAre DEF Event, Stages
  <2>2. CASE Stage = "filling"
    <3>1. Reported = 2 /\ Reported' = 3
      BY <1>0, <1>1, <2>2 DEF Reported, Wiped, Stages
    <3>2. <<"finished", Stage>> = Documented[Reported + 1]
      BY <2>1, <2>2, <3>1, DocumentedIs
    <3> QED BY <1>0, <2>1, <3>1, <3>2, ReportsNext
  <2>3. CASE Stage = "erasing"
    <3>1. Reported = 4 /\ Reported' = 5 /\ ~plan.skip
      BY <1>0, <1>1, <1>3, <2>3 DEF Reported, Wiped, Stages
    <3>2. <<"finished", Stage>> = Documented[Reported + 1]
      BY <2>1, <2>3, <3>1, DocumentedIs
    <3> QED BY <1>0, <2>1, <3>1, <3>2, ReportsNext
  <2> QED BY <2>1, <2>2, <2>3
<1> QED BY <1>1, <1>5, <1>6, <1>7, <1>8, <1>9, <1>10, <1>11, <1>12 DEF IndInv

\* A deadline, a lock-up or a failing probe ends it.
LEMMA GivesUpKeeps == ASSUME IndInv, TypeOK', Timeout \/ SeesLockup \/ ProbeError PROVE IndInv'
<1> USE DEF targetVars
<1>0. /\ Fail /\ UNCHANGED <<plan, jobs, loaded, buf, data, targetVars>> /\ failed \in BOOLEAN
      /\ failed' = TRUE \/ (failed' = failed /\ core = "lockedup")
  BY Facts DEF Timeout, SeesLockup, ProbeError
<1>1. step \notin {"begin", "end"}
  BY DEF Timeout, SeesLockup, ProbeError, Waiting
<1>2. failed'
  BY <1>0 DEF IndInv, Honest
<1> QED BY <1>0, <1>1, <1>2, FailKeeps

-----------------------------------------------------------------------------
(* The steps of the target.                                                *)

\* A byte is erased or programmed.
LEMMA RoutineStepKeeps == ASSUME IndInv, TypeOK', RoutineStep PROVE IndInv'
<1> DEFINE b == routine.range[1] + routine.done
<1>0. /\ Queue /\ Flow /\ Runs /\ Initialised /\ Honest /\ flash \in Contents
      /\ routine.range \in Ranges /\ routine.done \in Nat /\ routine \in Routine
      /\ UNCHANGED <<plan, jobs, step, loaded, buf, data, log, failed, result, core, r0, ram, active>>
      /\ routine.done < Length
  BY Facts, RoutineIs DEF IndInv, RoutineStep, hostVars
<1>1. /\ routine.name \in {"erase", "program"} /\ core = "running"
      /\ b \in Range2(routine.range) \cap Addr \cap Whole
      /\ routine.name = "erase" => flash' = [flash EXCEPT ![b] = "erased"]
      /\ routine.name = "program" => flash' = [flash EXCEPT ![b] = Programmed(b, <<b, data[b]>>)]
      /\ routine' = [routine EXCEPT !.done = routine.done + 1]
  BY RoutineStepIs
<1>2. /\ Stage' = Stage /\ Items' = Items /\ Op' = Op /\ Double' = Double
      /\ Remaining' = Remaining /\ Whole' = Whole /\ Queue'
  BY <1>0, SameJob
<1>3. /\ Fills' = Fills /\ Goal' = Goal /\ Kept' = Kept /\ Blank' = Blank
  BY <1>0, SamePlan
<1>4. /\ routine'.name = routine.name /\ routine'.range = routine.range
      /\ routine'.buf = routine.buf /\ routine'.done = routine.done + 1
  BY <1>0, <1>1 DEF Routine
<1>5. Length' = Length /\ Length \in Nat
  BY <1>0, <1>4, SizesAssumption DEF Length, Ranges
<1>6. \A a \in Addr : a # b => flash'[a] = flash[a]
  BY <1>0, <1>1 DEF Contents
<1>7. \A a \in Addr : Reached(a)' => Reached(a) \/ a = b
  BY <1>0, <1>4, SizesAssumption DEF Reached, Ranges, Range2, Addr
<1> HIDE DEF b
<1>8. Flow'
  BY <1>0, <1>2, <1>4 DEF Flow
<1>9. Runs'
  <2>1. routine'.done <= Length'
    BY <1>0, <1>4, <1>5
  <2> QED BY <1>0, <1>1, <1>2, <1>4, <1>5, <2>1 DEF Runs, Range2
<1>10. Loading' /\ Filled'
  BY <1>0, <1>2, <1>3 DEF IndInv, Loading, Filled
<1>11. BufferHoldsPage'
  BY <1>0, <1>4, <1>5 DEF IndInv, BufferHoldsPage
<1>12. OkIsThere' /\ Initialised' /\ Honest' /\ Logged'
  <2>1. OkIsThere'
    BY <1>0, <1>1 DEF OkIsThere, Flow
  <2>2. Initialised' /\ Honest'
    BY <1>0, <1>2 DEF Initialised, Honest
  <2>3. Logged'
    BY <1>0, StepLogged
  <2> QED BY <2>1, <2>2, <2>3
<1>13. CASE routine.name = "erase"
  <2>1. flash'[b] = "erased" /\ Stage \in {"chip", "erasing"}
    BY <1>0, <1>1, <1>13, Facts DEF Contents, Runs
  <2>2. Stage = "chip" =>
          \A a \in Addr : /\ flash'[a] \in {"old", "erased"}
                          /\ plan.skip \/ a \notin Remaining => flash'[a] = "erased"
    BY <1>6, <2>1 DEF IndInv, Erased
  <2>3. Stage = "erasing" =>
          \A a \in Addr : /\ flash'[a] \in {Kept, Blank[a]}
                          /\ a \notin Remaining => flash'[a] = Blank[a]
    <3>1. Stage = "erasing" => Blank[b] = "erased"
      BY <1>1 DEF Whole, All, Blank
    <3> QED BY <1>6, <2>1, <3>1 DEF IndInv, Erased
  <2>4. step = "wait" => \A a \in Addr : Reached(a)' => flash'[a] = "erased"
    BY <1>6, <1>7, <1>13, <2>1 DEF IndInv, Erased
  <2>5. Erased'
    BY <1>0, <1>2, <1>3, <2>1, <2>2, <2>3, <2>4 DEF Erased
  <2>6. Programming'
    BY <1>2, <1>4, <1>13, <2>1 DEF Programming
  <2> QED BY <1>2, <1>8, <1>9, <1>10, <1>11, <1>12, <2>5, <2>6 DEF IndInv
<1>14. CASE routine.name = "program"
  <2>1. flash'[b] = Goal[b] /\ Stage = "programming"
    BY <1>0, <1>1, <1>14, ProgrammedIs DEF Contents, Runs
  <2>2. \A a \in Addr :
          /\ flash'[a] \in {Blank[a], Goal[a]}
          /\ a \notin Remaining => flash'[a] = Goal[a] \/ a \in Range2(routine.range)
    BY <1>6, <2>1 DEF IndInv, Programming
  <2>3. \A a \in Addr : Reached(a)' => flash'[a] = Goal[a]
    BY <1>6, <1>7, <1>14, <2>1 DEF IndInv, Programming
  <2>4. ~Idle'
    BY <1>0, <1>1, <1>2, <1>14 DEF Idle, Flow, Waits
  <2>5. Erased'
    BY <1>2, <1>4, <1>14, <2>1 DEF Erased
  <2>6. Programming'
    BY <1>2, <1>3, <1>4, <1>14, <2>2, <2>3, <2>4 DEF Programming, Range2
  <2> QED BY <1>2, <1>8, <1>9, <1>10, <1>11, <1>12, <2>5, <2>6 DEF IndInv
<1> QED BY <1>1, <1>13, <1>14

\* A routine returns, fails or locks the core up: only the core knows.
LEMMA RoutineEndsKeeps ==
  ASSUME IndInv, TypeOK', RoutineReturns \/ RoutineFails \/ LockUp
  PROVE  IndInv'
<1> USE DEF hostVars
<1>0. /\ Queue /\ Flow /\ Runs /\ Initialised /\ Honest /\ core = "running"
      /\ UNCHANGED <<plan, jobs, step, loaded, buf, data, log, result, routine, ram, flash>>
      /\ routine \in Routine /\ result \in {"none", "ok", "error"} /\ failed \in BOOLEAN
  BY Facts DEF IndInv, RoutineReturns, RoutineFails, LockUp
<1>1. \/ core' = "halted" /\ r0' = 0 /\ failed' = failed /\ routine.done = Length
         /\ active' = (CASE routine.name = "init" -> Op [] routine.name = "uninit" -> "none"
                         [] OTHER -> active)
      \/ core' = "halted" /\ r0' = 1 /\ failed' = TRUE /\ active' = active
      \/ core' = "lockedup" /\ failed' = TRUE /\ UNCHANGED <<r0, active>>
  BY DEF RoutineReturns, RoutineFails, LockUp
<1>2. /\ Stage' = Stage /\ Items' = Items /\ Op' = Op /\ Double' = Double
      /\ Remaining' = Remaining /\ Whole' = Whole /\ Queue'
  BY <1>0, SameJob
<1>3. /\ Fills' = Fills /\ Goal' = Goal /\ Kept' = Kept /\ Blank' = Blank
  BY <1>0, SamePlan
<1>4. Length' = Length
  BY <1>0 DEF Length
<1>5. result # "ok"
  BY <1>0 DEF Flow
<1>6. Flow'
  BY <1>0, <1>1, <1>2 DEF Flow
<1>7. Runs'
  BY <1>0, <1>1, <1>2, <1>4 DEF Runs, Range2
<1>8. Loading' /\ Filled' /\ Erased'
  BY <1>0, <1>2, <1>3 DEF IndInv, Loading, Filled, Erased, Reached, Range2
<1>9. BufferHoldsPage' /\ OkIsThere'
  BY <1>0, <1>1, <1>5 DEF BufferHoldsPage, OkIsThere
<1>10. Programming'
  BY <1>0, <1>2, <1>3, <1>4 DEF IndInv, Programming, Reached, Range2, Idle
<1>11. Initialised'
  BY <1>0, <1>1, <1>2, Facts DEF Initialised, Flow, Runs, Waits
<1>12. Honest'
  BY <1>0, <1>1, <1>2 DEF Honest, Flow, Waits
<1>13. Logged'
  BY <1>0, <1>2, StepLogged
<1> QED BY <1>2, <1>6, <1>7, <1>8, <1>9, <1>10, <1>11, <1>12, <1>13 DEF IndInv

-----------------------------------------------------------------------------
(* The invariant.                                                          *)

\* Every step keeps it.
THEOREM StepKeepsIndInv == IndInv /\ [Next]_vars => IndInv'
<1> SUFFICES ASSUME IndInv, [Next]_vars PROVE IndInv'
  OBVIOUS
<1>1. TypeOK'
  BY TypeStep
<1>2. CASE Host
  <2>1. CASE Done
    BY <1>1, <2>1, LastDone, NextDone
  <2> QED BY <1>1, <1>2, <2>1, BeginKeeps, EnterKeeps, ReadFillKeeps, CallEraseKeeps, LoadWordKeeps,
             CallProgramKeeps, PreviousDoneKeeps, StartNextKeeps, AllStartedKeeps, NoItemsKeeps,
             UninitKeeps, HaltedKeeps, LeftKeeps, GivesUpKeeps, SequenceKeeps DEF Host
<1>3. CASE ProbeError
  BY <1>1, <1>3, GivesUpKeeps
<1>4. CASE Target
  BY <1>1, <1>4, RoutineStepKeeps, RoutineEndsKeeps DEF Target
<1>5. CASE UNCHANGED vars
  <2>1. /\ Stage' = Stage /\ Items' = Items /\ Op' = Op /\ Double' = Double
        /\ Remaining' = Remaining /\ Whole' = Whole /\ Queue'
    BY <1>5, SameJob DEF vars, IndInv
  <2>2. /\ Fills' = Fills /\ Goal' = Goal /\ Kept' = Kept /\ Blank' = Blank
    BY <1>5, SamePlan DEF vars
  <2>3. Flow' /\ Loading' /\ Initialised' /\ Honest'
    BY <1>5, <2>1 DEF vars, IndInv, Flow, Loading, Initialised, Honest
  <2>4. Runs' /\ BufferHoldsPage'
    BY <1>5, <2>1 DEF vars, IndInv, Runs, BufferHoldsPage, Length, Range2
  <2>5. Filled' /\ Erased'
    BY <1>5, <2>1, <2>2 DEF vars, IndInv, Filled, Erased, Reached, Range2
  <2>6. Programming' /\ OkIsThere'
    <3>1. Programming'
      BY <1>5, <2>1, <2>2 DEF vars, IndInv, Programming, Reached, Range2, Idle, Length
    <3>2. OkIsThere'
      BY <1>5 DEF vars, IndInv, OkIsThere, Outcome, Covered, Range2
    <3> QED BY <3>1, <3>2
  <2>7. Logged'
    BY <1>5, <2>1, StepLogged DEF vars
  <2> QED BY <1>1, <2>1, <2>3, <2>4, <2>5, <2>6, <2>7 DEF IndInv
<1> QED BY <1>2, <1>3, <1>4, <1>5 DEF Next

\* It holds in every state.
THEOREM IndInvHolds == Spec => []IndInv
<1> QED BY InitIndInv, StepKeepsIndInv, PTL DEF Spec

-----------------------------------------------------------------------------
(* What follows.                                                           *)

\* While a page is programmed its buffer is left alone, however the host's loads
\* and the routine interleave (flasher.rs 470-504).
THEOREM BufferIsLeftAlone == Spec => []BufferHoldsPage
<1>1. IndInv => BufferHoldsPage
  BY DEF IndInv
<1> QED BY <1>1, IndInvHolds, PTL

\* Where the two agree: not where the fills are read from a flash already erased.
LEMMA OutcomeIsExpected ==
  ASSUME plan \in Plans, NEW a \in Addr
  PROVE  /\ a \in plan.staged => Outcome(a) = "new"
         /\ ~(plan.chip /\ plan.restore) \/ Outcome(a) # "erased" => Outcome(a) = Expected(a)
BY PlanIs DEF Outcome, Expected, Before

\* Ok means that the data is in flash and, unless a chip erase came before the bytes
\* to be restored were read (loader.rs 454), these are as before, what else was to be
\* erased is erased, and nothing else has changed.
THEOREM OkIsWritten == Spec => []OkMeansWritten
<1>1. IndInv => OkMeansWritten
  <2> SUFFICES ASSUME IndInv, result = "ok" PROVE OkMeansWritten
    BY DEF OkMeansWritten
  <2>1. plan \in Plans /\ plan.staged \subseteq Addr /\ \A a \in Addr : flash[a] = Outcome(a)
    BY Facts, PlanIs DEF IndInv, OkIsThere
  <2>2. \A a \in plan.staged : flash[a] = "new"
    BY <2>1, OutcomeIsExpected
  <2>3. ~(plan.chip /\ plan.restore) => \A a \in Addr : flash[a] = Expected(a)
    BY <2>1, OutcomeIsExpected
  <2> QED BY <2>2, <2>3 DEF OkMeansWritten
<1> QED BY <1>1, IndInvHolds, PTL

\* A sequence is a prefix of another when it has its first elements.
LEMMA PrefixIs ==
  ASSUME NEW S, NEW s \in Seq(S), NEW t \in Seq(S), Len(s) <= Len(t),
         \A i \in 1 .. Len(s) : s[i] = t[i]
  PROVE  IsPrefix(s, t)
<1>0. Len(s) \in Nat /\ Len(t) \in Nat
  BY LenProperties
<1> DEFINE n == Len(s)
           p == SubSeq(t, 1, n)
<1>1. \A i \in 1 .. n : t[i] \in S
  <2>1. \A i \in 1 .. n : i \in 1 .. Len(t)
    BY <1>0
  <2> QED BY <2>1, ElementOfSeq
<1>2. p \in Seq(S) /\ Len(p) = n /\ \A i \in 1 .. n : p[i] = t[i]
  <2>1. /\ p \in Seq(S) /\ Len(p) = (IF 1 <= n THEN n - 1 + 1 ELSE 0)
        /\ \A i \in 1 .. n - 1 + 1 : p[i] = t[1 + i - 1]
    <3>1. 1 \in Int /\ n \in Int
      BY <1>0
    <3> QED BY <1>1, <3>1, SubSeqProperties
  <2>2. n \in Nat
    BY <1>0
  <2> HIDE DEF n, p
  <2>3. Len(p) = n
    BY <2>1, <2>2
  <2>4. ASSUME NEW i \in 1 .. n PROVE p[i] = t[i]
    <3>1. i \in 1 .. n - 1 + 1 /\ 1 + i - 1 = i
      BY <2>2
    <3> QED BY <2>1, <3>1
  <2> QED BY <2>1, <2>3, <2>4
<1>3. SubSeq(s, 1, Len(s)) = s
  BY SubSeqFull
<1>4. p = s
  <2>1. p \in Seq(S) /\ Len(p) = Len(s) /\ \A i \in 1 .. Len(p) : p[i] = s[i]
    BY <1>2
  <2> HIDE DEF p
  <2> QED BY <2>1, SeqEqual
<1> QED BY <1>3, <1>4 DEF IsPrefix

\* The events are reported in the documented order.
LEMMA InvOrder == ASSUME IndInv, ~plan.chip PROVE EventsInOrder
<1>0. /\ plan \in Plans /\ log \in Seq(Events) /\ Documented \in Seq(Events) /\ plan.skip \in BOOLEAN
      /\ Stage \in {"filling", "erasing", "programming"} /\ (Stage = "erasing" => ~plan.skip)
      /\ Flow /\ Reported \in Nat
  <2>1. plan \in Plans /\ log \in Seq(Events) /\ plan.skip \in BOOLEAN
    BY Facts, PlanIs
  <2>2. Documented \in Seq(Events)
    BY <2>1, DocumentedIs
  <2>3. Stage \in {"filling", "erasing", "programming"} /\ (Stage = "erasing" => ~plan.skip)
    BY DEF IndInv, Queue, Wiped, Stages
  <2>4. Reported \in Nat
    BY DEF Reported
  <2> QED BY <2>1, <2>2, <2>3, <2>4 DEF IndInv
<1>1. /\ Len(log) = Reported + (IF result = "error" THEN 1 ELSE 0)
      /\ \A i \in 1 .. Reported : log[i] = Documented[i]
      /\ result = "error" => log[Reported + 1] = <<"failed", Stage>>
  BY DEF IndInv, Logged
<1>2. Len(Documented) = (IF plan.skip THEN 5 ELSE 7) /\ Reported <= Len(Documented)
  BY <1>0, DocumentedIs DEF Reported
<1>3. result = "none" => IsPrefix(log, Documented)
  BY <1>0, <1>1, <1>2, PrefixIs
<1>4. ASSUME result = "ok" PROVE log = Documented
  <2>1. Reported = Len(Documented)
    BY <1>0, <1>2, <1>4 DEF Reported, Flow
  <2>2. Len(log) = Len(Documented) /\ \A i \in 1 .. Len(log) : log[i] = Documented[i]
    BY <1>0, <1>1, <1>4, <2>1
  <2> QED BY <1>0, <2>2, SeqEqual
<1>5. ASSUME result = "error"
      PROVE  /\ IsPrefix(Front(log), Documented)
             /\ Last(log) = <<"failed", Last(Front(log))[2]>> /\ Last(Front(log))[1] = "started"
  <2> DEFINE front == Front(log)
  <2>1. Len(log) = Reported + 1 /\ Last(log) = <<"failed", Stage>>
    BY <1>0, <1>1, <1>5 DEF Last
  <2>2. front \in Seq(Events) /\ Len(front) = Reported /\ \A i \in 1 .. Reported : front[i] = log[i]
    <3>1. front = SubSeq(log, 1, Reported)
      BY <1>0, <2>1 DEF Front
    <3>2. \A i \in 1 .. Reported : log[i] \in Events
      <4>1. \A i \in 1 .. Reported : i \in 1 .. Len(log)
        BY <1>0, <2>1
      <4> QED BY <1>0, <4>1, ElementOfSeq
    <3>3. 1 \in Int /\ Reported \in Int
      BY <1>0
    <3>4. /\ SubSeq(log, 1, Reported) \in Seq(Events)
          /\ Len(SubSeq(log, 1, Reported)) = (IF 1 <= Reported THEN Reported - 1 + 1 ELSE 0)
          /\ \A i \in 1 .. Reported - 1 + 1 : SubSeq(log, 1, Reported)[i] = log[1 + i - 1]
      BY <3>2, <3>3, SubSeqProperties
    <3> HIDE DEF front
    <3>5. front \in Seq(Events) /\ Len(front) = Reported
      BY <1>0, <3>1, <3>4
    <3>6. ASSUME NEW i \in 1 .. Reported PROVE front[i] = log[i]
      <4>1. i \in 1 .. Reported - 1 + 1 /\ 1 + i - 1 = i
        BY <1>0
      <4> QED BY <3>1, <3>4, <4>1
    <3> QED BY <3>5, <3>6
  <2> HIDE DEF front
  <2>3. IsPrefix(front, Documented)
    BY <1>0, <1>1, <1>2, <2>2, PrefixIs
  <2>4. Documented[Reported] = <<"started", Stage>> /\ Reported >= 1
    <3>1. step # "begin"
      BY <1>0, <1>5 DEF Flow
    <3>2. CASE Stage = "filling"
      <4>1. Reported = 2
        BY <1>5, <3>1, <3>2 DEF Reported
      <4> QED BY <1>0, <3>2, <4>1, DocumentedIs
    <3>3. CASE Stage = "erasing"
      <4>1. Reported = 4 /\ ~plan.skip
        BY <1>0, <1>5, <3>1, <3>3 DEF Reported
      <4> QED BY <1>0, <3>3, <4>1, DocumentedIs
    <3>4. CASE Stage = "programming"
      <4>1. Reported = (IF plan.skip THEN 3 ELSE 5) + 1
        BY <1>0, <1>5, <3>1, <3>4 DEF Reported
      <4> QED BY <1>0, <3>4, <4>1, DocumentedIs
    <3> QED BY <1>0, <3>2, <3>3, <3>4
  <2>5. Last(front) = <<"started", Stage>>
    <3>1. Last(front) = front[Reported]
      BY <2>2 DEF Last
    <3>2. Reported \in 1 .. Reported
      BY <1>0, <2>4
    <3> QED BY <1>1, <2>2, <2>4, <3>1, <3>2
  <2>6. Last(front)[2] = Stage /\ Last(front)[1] = "started"
    BY <2>5
  <2> QED BY <2>1, <2>3, <2>6 DEF front
<1> QED BY <1>3, <1>4, <1>5 DEF EventsInOrder

\* What program returns is the truth about the target, and its events are in order.
THEOREM ResultTellsTheTruth == Spec => []ResultIsHonest
<1>1. IndInv => ResultIsHonest
  <2> SUFFICES ASSUME IndInv PROVE ResultIsHonest
    OBVIOUS
  <2>1. /\ result = "ok" => ~failed
        /\ result = "error" /\ plan.init => failed
    BY DEF IndInv, Honest, Flow, Waits
  <2>2. ~plan.chip => EventsInOrder
    BY InvOrder
  <2> QED BY <2>1, <2>2 DEF ResultIsHonest
<1> QED BY <1>1, IndInvHolds, PTL

\* The byte a routine step changes is erased as the layout has it, or programmed,
\* once erased, with what is to be there.
LEMMA ChangesAsPlanned ==
  ASSUME IndInv, [Next]_vars, NEW a \in Addr, flash'[a] # flash[a]
  PROVE  \/ flash'[a] = "erased" /\ (plan.chip \/ a \in Covered(plan.sectors))
         \/ flash[a] = "erased" /\ flash'[a] = Expected(a)
<1> DEFINE b == routine.range[1] + routine.done
<1>0. flash \in Contents /\ plan \in Plans
  BY Facts
<1>s. CASE SequenceErase \/ SequenceFails
  <2>1. Stage = "chip" /\ flash'[a] = "erased"
    BY <1>s, <1>0 DEF SequenceErase, SequenceFails, BySequence, Contents
  <2> QED BY <2>1 DEF IndInv, Queue
<1> SUFFICES ASSUME ~SequenceErase, ~SequenceFails
             PROVE  \/ flash'[a] = "erased" /\ (plan.chip \/ a \in Covered(plan.sectors))
                    \/ flash[a] = "erased" /\ flash'[a] = Expected(a)
  BY <1>s
<1>1. RoutineStep
  <2>1. CASE UNCHANGED vars
    BY <2>1 DEF vars
  <2>2. CASE Next
    BY <2>2 DEF Next, Host, Target, Begin, Enter, ReadFill, CallErase, LoadWord, CallProgram,
      PreviousDone, StartNext, AllStarted, NoItems, Uninit, Halted, Left, Done, Timeout, SeesLockup,
      ProbeError, RoutineReturns, RoutineFails, LockUp, Call, targetVars
  <2> QED BY <2>1, <2>2
<1>2. /\ routine.name \in {"erase", "program"} /\ b \in Range2(routine.range) \cap Addr \cap Whole
      /\ routine.name = "erase" => flash' = [flash EXCEPT ![b] = "erased"]
      /\ routine.name = "program" => flash' = [flash EXCEPT ![b] = Programmed(b, <<b, data[b]>>)]
      /\ core = "running" /\ flash \in Contents
  BY <1>1, RoutineStepIs, Facts
<1> HIDE DEF b
<1>3. a = b
  BY <1>2 DEF Contents
<1>4. CASE routine.name = "erase"
  <2>1. Stage \in {"chip", "erasing"} /\ (Stage = "chip" => plan.chip)
    BY <1>2, <1>4, Facts DEF IndInv, Runs, Queue
  <2>2. Stage = "erasing" => b \in Covered(plan.sectors)
    BY <1>2 DEF Whole, All
  <2> QED BY <1>2, <1>3, <1>4, <2>1, <2>2 DEF Contents
<1>5. CASE routine.name = "program"
  <2>1. Stage = "programming"
    BY <1>5 DEF IndInv, Runs
  <2>2. flash'[b] = Goal[b] /\ (flash[b] # Goal[b] => flash[b] = "erased")
    BY <1>2, <1>5, <2>1, ProgrammedIs DEF Contents
  <2>3. flash'[a] = Outcome(a) /\ flash[a] = "erased" /\ Outcome(a) # "erased"
    BY <1>3, <2>2 DEF Goal
  <2> QED BY <1>0, <2>3, OutcomeIsExpected
<1> QED BY <1>2, <1>4, <1>5

\* A routine is called on a halted core, initialised for it.
LEMMA CallsWhenInitialised ==
  ASSUME IndInv, [Next]_vars, routine'.name # "none", routine' # routine, routine'.done = 0
  PROVE  /\ core = "halted"
         /\ plan.init => CASE routine'.name = "erase" -> active = "Erase"
                           [] routine'.name = "program" -> active = "Program"
                           [] routine'.name = "init" -> active = "none" \/ ~plan.uninit
                           [] OTHER -> active = Op
<1>0. Flow /\ Initialised /\ routine \in Routine
  BY Facts DEF IndInv
<1>1. ~RoutineStep
  <2>1. RoutineStep => routine'.done = routine.done + 1 /\ routine.done \in Nat
    BY <1>0, RoutineIs DEF RoutineStep, Routine
  <2> QED BY <2>1
<1>2. Enter \/ CallErase \/ CallProgram \/ StartNext \/ Uninit
  <2>1. ~UNCHANGED vars
    BY DEF vars
  <2>2. NoRoutine.name = "none"
    BY DEF NoRoutine
  <2> QED BY <1>1, <2>1, <2>2 DEF Next, Host, Target, Begin, SequenceErase, SequenceFails, ReadFill, LoadWord,
      PreviousDone, AllStarted, NoItems, Halted, Left, Done, Timeout, SeesLockup,
      ProbeError, RoutineReturns, RoutineFails, LockUp, targetVars
<1>3. CASE Enter
  <2>1. plan.init /\ routine'.name = "init" /\ step = "enter"
    BY <1>3 DEF Enter, Call, targetVars
  <2> QED BY <1>0, <2>1 DEF Flow, Initialised, Waits
<1>4. CASE CallErase
  <2>1. routine'.name = "erase" /\ step = "work" /\ Op = "Erase"
    BY <1>4 DEF CallErase, Call
  <2> QED BY <1>0, <2>1, Facts DEF Flow, Initialised, Waits
<1>5. CASE CallProgram
  <2>1. routine'.name = "program" /\ step = "work" /\ Op = "Program" /\ ~Double
    BY <1>5 DEF CallProgram, Call
  <2> QED BY <1>0, <2>1 DEF Flow, Initialised, Waits
<1>6. CASE StartNext
  <2>1. routine'.name = "program" /\ step = "start"
    BY <1>6 DEF StartNext, Call
  <2> QED BY <1>0, <2>1, Facts DEF Flow, Initialised, Waits
<1>7. CASE Uninit
  <2>1. routine'.name = "uninit" /\ step = "uninit"
    BY <1>7 DEF Uninit, Call, targetVars
  <2> QED BY <1>0, <2>1 DEF Flow, Initialised, Waits
<1> QED BY <1>2, <1>3, <1>4, <1>5, <1>6, <1>7

\* At every step, also of a program that fails half-way, flash changes as the
\* layout has it and routines are called in their order.
THEOREM ChangesStayPlanned == Spec => FlashChangesAsPlanned
<1>1. IndInv /\ [Next]_vars =>
        [/\ \A a \in Addr : flash'[a] # flash[a] =>
              \/ flash'[a] = "erased" /\ (plan.chip \/ a \in Covered(plan.sectors))
              \/ flash[a] = "erased" /\ flash'[a] = Expected(a)
         /\ routine'.name # "none" /\ routine' # routine /\ routine'.done = 0 =>
              /\ core = "halted"
              /\ plan.init => CASE routine'.name = "erase" -> active = "Erase"
                                [] routine'.name = "program" -> active = "Program"
                                [] routine'.name = "init" -> active = "none" \/ ~plan.uninit
                                [] OTHER -> active = Op]_vars
  BY ChangesAsPlanned, CallsWhenInitialised, Zenon
<1> QED BY <1>1, IndInvHolds, PTL DEF Spec, FlashChangesAsPlanned
=============================================================================
