--------------------------- MODULE RunLoop_proofs ---------------------------
(***************************************************************************)
(* For every program, list of tests and number of failures: what run_until *)
(* returns belongs to the run it was called for, calls are answered once,  *)
(* and what was decided comes after all that the program has printed.      *)
(***************************************************************************)
EXTENDS RunLoop, SequenceTheorems, NaturalsInduction, WellFoundedInduction, TLAPS

Names == {"none", "list"} \cup Range(Tests)
CoreType == [is : {"halted", "running", "locked"}, call : Calls \cup {"none"},
             op : {"call", "failed", "ok"}, line : Names, told : Names,
             calls : 0..MaxCalls, wild : BOOLEAN]
RamType == [block : {"absent", "partial", "ready"}, queue : Seq(0..MaxSent),
            init : 0..2, sent : 0..MaxSent]
DriverType == [command : Calls \cup {"none"}, catch : SUBSET {"fault", "reset"}]
Places == {"reset", "halt", "catch", "resume", "attach", "check", "poll", "timer", "return", "done"}
HostType == [at : Places, run : DOMAIN RunList, asked : BOOLEAN,
             reason : {"none", "error", "timeout", "user", "decided"},
             decided : Decisions \cup {"none"}, rtt : BOOLEAN, tries : 0..Retries]
StreamType == [out : Seq(1..MaxSent), lost : BOOLEAN]
Results == {"none", "failed", "timeout", "pass", "panic"}

\* Before the core is started.
Setting == {"halt", "catch", "resume"}

\* Only a halted core is at a call; the driver remembers a command only from what
\* the handler decided to the next start; and no reset is caught before that.
CoreStops ==
  /\ core.call # "none" => core.is = "halted"
  /\ driver.command # "none" =>
       /\ core.is = "halted"
       /\ \/ host.at \in Setting \cup {"reset", "return", "done"}
          \/ host.at \in {"poll", "timer"} /\ host.decided # "none"
  /\ host.at \in Setting => core.is = "halted" \/ driver.catch = {}
  /\ host.at = "catch" => core.is = "halted"

\* What was decided was decided of the call the core has stopped at.
Decides ==
  /\ host.decided # "none" => host.at \in {"poll", "timer", "return"} /\ core.is = "halted"
  /\ host.decided \in {"pass", "panic"} =>
       /\ Kind \in Range(Tests) /\ core.call = IF host.decided = "pass" THEN "exit0" ELSE "exit1"
       /\ core.told = Kind \/ core.wild
  /\ host.decided = "tests" => Kind = "list"
  /\ host.reason # "none" => host.at = "return"
  /\ host.reason = "decided" => host.decided # "none"
  /\ host.tries < Retries

\* A program that has asked was told which run this is, unless it stopped.
Asks ==
  host.asked =>
    /\ host.at \in {"check", "poll", "timer", "return"} /\ Kind # "normal"
    /\ host.decided = "none" =>
         \/ core.told = Kind \/ core.wild
         \/ core.call = "cmdline" /\ core.op # "call"
         \/ core.is # "running" /\ core.call = "none"

\* What is in the channel was sent to the control block that is there now.
Sending ==
  /\ ram.init = 2 => ram.block = "ready"
  /\ ram.sent > 0 => /\ ram.block = "ready"
                     /\ \/ ram.init = 2
                        \/ core.is # "running" /\ core.call = "none" /\ host.at \notin Setting

\* The channel holds what an earlier run left, or the last pieces sent.
Queued ==
  \/ /\ ram.init = 0 /\ ram.sent = 0
     /\ \A i \in 1 .. Len(ram.queue) : ram.queue[i] = 0
  \/ /\ Len(ram.queue) <= ram.sent
     /\ \A i \in 1 .. Len(ram.queue) : ram.queue[i] = (ram.sent - Len(ram.queue)) + i

\* What was taken off the channel is printed.
Flushing == host.at = "timer" \/ (host.at = "return" /\ host.reason = "decided")
Streamed ==
  host.at \notin {"reset", "done"} /\ host.reason # "error" =>
    /\ ~host.rtt => stream.out = <<>> /\ ram.sent <= Len(ram.queue)
    /\ host.rtt /\ ~stream.lost => stream.out = Upto(setup, ram.sent - Len(ram.queue))
    /\ host.rtt /\ ~stream.lost /\ host.decided # "none" /\ Flushing =>
         ram.sent = 0 \/ ram.queue = <<>>

Stream ==
  /\ host.at = "reset" => stream.out = <<>>
  /\ ~core.wild => Sending /\ Queued /\ Streamed

IndInv ==
  /\ TypeOK
  /\ CoreStops
  /\ Decides
  /\ Asks
  /\ Stream

-----------------------------------------------------------------------------
(* What is kept of a sequence.                                             *)

\* Every nonempty set of naturals has a least element.
LEMMA LeastElement ==
  ASSUME NEW S \in SUBSET Nat, S # {}
  PROVE  \E m \in S : \A k \in S : m <= k
<1>1. IsWellFoundedOn(OpToRel(<, Nat), Nat)
  BY NatLessThanWellFounded
<1>2. \E m \in S : \A k \in S : ~(<<k, m>> \in OpToRel(<, Nat))
  BY <1>1, WFMin, Zenon
<1>3. \E m \in S : \A k \in S : ~(k < m)
  BY <1>2, Zenon DEF OpToRel
<1> QED BY <1>3

\* So a set of naturals that has 0, and with every number the next, has them all.
LEMMA AllOfThem ==
  ASSUME NEW n \in Nat, NEW S, 0 \in S, \A k \in 0 .. n - 1 : k \in S => k + 1 \in S
  PROVE  n \in S
<1> DEFINE Out == (0 .. n) \ S
<1>1. SUFFICES ASSUME n \notin S PROVE FALSE
  OBVIOUS
<1>2. Out \in SUBSET Nat /\ Out # {}
  BY <1>1
<1> HIDE DEF Out
<1>3. PICK m \in Out : \A k \in Out : m <= k
  BY <1>2, LeastElement
<1>4. m \in 0 .. n /\ m \notin S /\ m # 0
  BY <1>3 DEF Out
<1>5. m - 1 \in 0 .. n - 1 /\ m - 1 + 1 = m
  BY <1>4
<1>6. m - 1 \in S
  BY <1>3, <1>5 DEF Out
<1> QED BY <1>4, <1>5, <1>6

\* Keep is what its equations say.
LEMMA KeepIs ==
  ASSUME NEW q, NEW S, Len(q) \in Nat
  PROVE  \E f : /\ Keep(q, S) = f[Len(q)]
                /\ f = [i \in 0 .. Len(q) |->
                          IF i = 0 THEN <<>>
                          ELSE IF q[i] \in S THEN Append(f[i - 1], q[i]) ELSE f[i - 1]]
<1> DEFINE Is(f, n) == f = [i \in 0 .. n |->
                              IF i = 0 THEN <<>>
                              ELSE IF q[i] \in S THEN Append(f[i - 1], q[i]) ELSE f[i - 1]]
           Ends == {n \in Nat : \E f : Is(f, n)}
<1>1. 0 \in Ends
  <2>1. Is([i \in 0 .. 0 |-> <<>>], 0)
    OBVIOUS
  <2> QED BY <2>1
<1>2. ASSUME NEW k \in Nat, k \in Ends PROVE k + 1 \in Ends
  <2>1. PICK f : Is(f, k)
    BY <1>2
  <2> DEFINE last == IF q[k + 1] \in S THEN Append(f[k], q[k + 1]) ELSE f[k]
             g == [i \in 0 .. k + 1 |-> IF i = k + 1 THEN last ELSE f[i]]
  <2>2. \A i \in 0 .. k : f[i] = IF i = 0 THEN <<>>
                                 ELSE IF q[i] \in S THEN Append(f[i - 1], q[i]) ELSE f[i - 1]
    BY <2>1
  <2>3. ASSUME NEW i \in 0 .. k + 1
        PROVE  g[i] = IF i = 0 THEN <<>> ELSE IF q[i] \in S THEN Append(g[i - 1], q[i]) ELSE g[i - 1]
    <3>1. CASE i = k + 1
      <4>1. i # 0 /\ i - 1 = k /\ g[i] = last /\ g[k] = f[k]
        BY <3>1
      <4> QED BY <3>1, <4>1
    <3>2. CASE i # k + 1
      <4>1. i \in 0 .. k /\ g[i] = f[i] /\ (i # 0 => g[i - 1] = f[i - 1])
        BY <3>2
      <4> HIDE DEF g
      <4> QED BY <2>2, <4>1
    <3> QED BY <3>1, <3>2
  <2>4. Is(g, k + 1)
    BY <2>3
  <2>5. \E h : Is(h, k + 1)
    <3> HIDE DEF g, Is
    <3> QED BY <2>4
  <2> QED BY <2>5, SMTT(20)
<1>3. Len(q) \in Ends
  <2> HIDE DEF Ends
  <2> QED BY <1>1, <1>2, AllOfThem
<1>4. \E kept : kept = [i \in 0 .. Len(q) |->
                          IF i = 0 THEN <<>>
                          ELSE IF q[i] \in S THEN Append(kept[i - 1], q[i]) ELSE kept[i - 1]]
  BY <1>3
<1>5. Keep(q, S) = (CHOOSE kept : kept = [i \in 0 .. Len(q) |->
                      IF i = 0 THEN <<>>
                      ELSE IF q[i] \in S THEN Append(kept[i - 1], q[i]) ELSE kept[i - 1]])[Len(q)]
  BY Zenon DEF Keep
<1> QED BY <1>4, <1>5, Zenon

\* What is kept is in both.
LEMMA KeepType ==
  ASSUME NEW T, NEW S, NEW q \in Seq(T)
  PROVE  Keep(q, S) \in Seq(T \cap S) /\ Keep(q, S) \in Seq(T) /\ Keep(q, S) \in Seq(S)
<1>1. Len(q) \in Nat /\ \A i \in 1 .. Len(q) : q[i] \in T
  BY LenProperties, ElementOfSeq
<1>2. PICK f : /\ Keep(q, S) = f[Len(q)]
               /\ f = [i \in 0 .. Len(q) |->
                         IF i = 0 THEN <<>>
                         ELSE IF q[i] \in S THEN Append(f[i - 1], q[i]) ELSE f[i - 1]]
  BY <1>1, KeepIs
<1>3. \A i \in 0 .. Len(q) : f[i] = IF i = 0 THEN <<>>
                                    ELSE IF q[i] \in S THEN Append(f[i - 1], q[i]) ELSE f[i - 1]
  BY <1>2
<1> DEFINE n == Len(q)
           Good == {i \in 0 .. n : f[i] \in Seq(T \cap S)}
<1>4. 0 \in Good
  <2>1. f[0] = <<>> /\ 0 \in 0 .. n
    BY <1>1, <1>3
  <2>2. <<>> \in Seq(T \cap S)
    OBVIOUS
  <2> QED BY <2>1, <2>2
<1>5. ASSUME NEW k \in 0 .. n - 1, k \in Good PROVE k + 1 \in Good
  <2>1. k + 1 \in 0 .. n /\ k + 1 \in 1 .. n /\ k + 1 # 0 /\ k + 1 - 1 = k
    BY <1>1
  <2>2. q[k + 1] \in T
    BY <1>1, <2>1
  <2>3. f[k + 1] = IF q[k + 1] \in S THEN Append(f[k], q[k + 1]) ELSE f[k]
    BY <1>3, <2>1
  <2>4. f[k + 1] \in Seq(T \cap S)
    BY <1>5, <2>2, <2>3, AppendProperties
  <2> QED BY <2>1, <2>4
<1>6. n \in Good
  <2> HIDE DEF Good
  <2> QED BY <1>1, <1>4, <1>5, AllOfThem
<1>7. Keep(q, S) \in Seq(T \cap S)
  BY <1>2, <1>6
<1>8. Keep(q, S) \in Seq(T) /\ Keep(q, S) \in Seq(S)
  BY <1>7
<1> QED BY <1>7, <1>8

\* When the first of a sequence are in a set, and the others are not, these are kept.
LEMMA KeepFirst ==
  ASSUME NEW T, NEW S, NEW q \in Seq(T), NEW b \in 0 .. Len(q),
         \A i \in 1 .. Len(q) : q[i] \in S <=> i <= b
  PROVE  Len(Keep(q, S)) = b /\ \A i \in 1 .. b : Keep(q, S)[i] = q[i]
<1>1. Len(q) \in Nat /\ \A i \in 1 .. Len(q) : q[i] \in T
  BY LenProperties, ElementOfSeq
<1>2. PICK f : /\ Keep(q, S) = f[Len(q)]
               /\ f = [i \in 0 .. Len(q) |->
                         IF i = 0 THEN <<>>
                         ELSE IF q[i] \in S THEN Append(f[i - 1], q[i]) ELSE f[i - 1]]
  BY <1>1, KeepIs, ZenonT(20)
<1>3. \A i \in 0 .. Len(q) : f[i] = IF i = 0 THEN <<>>
                                    ELSE IF q[i] \in S THEN Append(f[i - 1], q[i]) ELSE f[i - 1]
  BY <1>2
<1> DEFINE n == Len(q)
           Size(i) == IF i <= b THEN i ELSE b
           Good == {i \in 0 .. n : /\ f[i] \in Seq(T) /\ Len(f[i]) = Size(i)
                                   /\ \A j \in 1 .. Size(i) : f[i][j] = q[j]}
<1>4. 0 \in Good
  <2>1. f[0] = <<>> /\ 0 \in 0 .. n
    BY <1>1, <1>3
  <2>2. <<>> \in Seq(T) /\ Len(<<>>) = 0 /\ Size(0) = 0 /\ 1 .. Size(0) = {}
    BY <1>1
  <2> HIDE DEF Size
  <2> QED BY <2>1, <2>2
<1>5. ASSUME NEW k \in 0 .. n - 1, k \in Good PROVE k + 1 \in Good
  <2>1. k + 1 \in 0 .. n /\ k + 1 \in 1 .. n /\ k + 1 # 0 /\ k + 1 - 1 = k /\ k \in Nat /\ b \in Nat
    BY <1>1
  <2>2. q[k + 1] \in T
    BY <1>1, <2>1
  <2>3. f[k + 1] = IF q[k + 1] \in S THEN Append(f[k], q[k + 1]) ELSE f[k]
    BY <1>3, <2>1
  <2>4. f[k] \in Seq(T) /\ Len(f[k]) = Size(k) /\ \A j \in 1 .. Size(k) : f[k][j] = q[j]
    BY <1>5
  <2>5. CASE k + 1 <= b
    <3>1. f[k + 1] = Append(f[k], q[k + 1]) /\ Size(k) = k /\ Size(k + 1) = k + 1
      BY <2>1, <2>3, <2>5
    <3>2. /\ f[k + 1] \in Seq(T) /\ Len(f[k + 1]) = k + 1 /\ f[k + 1][k + 1] = q[k + 1]
          /\ \A j \in 1 .. k : f[k + 1][j] = f[k][j]
      BY <2>1, <2>2, <2>4, <3>1, AppendProperties
    <3>3. ASSUME NEW j \in 1 .. k + 1 PROVE f[k + 1][j] = q[j]
      BY <2>1, <2>4, <3>1, <3>2
    <3> QED BY <2>1, <3>1, <3>2, <3>3
  <2>6. CASE ~(k + 1 <= b)
    <3>1. f[k + 1] = f[k] /\ Size(k) = b /\ Size(k + 1) = b
      BY <2>1, <2>3, <2>6
    <3> QED BY <2>1, <2>4, <3>1
  <2> QED BY <2>5, <2>6
<1>6. n \in Good
  <2> HIDE DEF Good
  <2> QED BY <1>1, <1>4, <1>5, AllOfThem
<1>7. Size(n) = b
  BY <1>1
<1> QED BY <1>2, <1>6, <1>7

-----------------------------------------------------------------------------
(* The types.                                                              *)

\* Everything has its type.
LEMMA TypesAre ==
  TypeOK <=> /\ setup \in Setups /\ core \in CoreType /\ ram \in RamType /\ driver \in DriverType
             /\ host \in HostType /\ late \in BOOLEAN /\ exit \in BOOLEAN /\ faults \in 0..MaxFaults
             /\ stream \in StreamType /\ results \in [DOMAIN Tests -> Results]
BY DEF TypeOK, CoreType, RamType, DriverType, HostType, StreamType, Results, Names, Places

\* A setup has its fields.
LEMMA SetupIs ==
  ASSUME setup \in Setups
  PROVE  /\ setup.arch \in {"cm", "xt", "rv"} /\ setup.mode \in {"normal", "test"}
         /\ setup.format \in {"string", "defmt"} /\ setup.symbol \in BOOLEAN
         /\ setup.catching \in BOOLEAN /\ (setup.mode = "test" => setup.catching)
BY SetupsAssumption

\* A sequence of one.
LEMMA OneOf ==
  ASSUME NEW S, NEW x \in S
  PROVE  <<x>> \in Seq(S) /\ Len(<<x>>) = 1 /\ <<x>>[1] = x
OBVIOUS

\* The runs: one in normal mode, or the list and then the tests.
LEMMA RunListIs ==
  ASSUME setup \in Setups
  PROVE  /\ setup.mode = "normal" => Len(RunList) = 1 /\ RunList[1] = "normal"
         /\ setup.mode = "test" => /\ Len(RunList) = Len(Tests) + 1 /\ RunList[1] = "list"
                                   /\ \A t \in 1 .. Len(Tests) : RunList[t + 1] = Tests[t]
         /\ DOMAIN RunList = 1 .. Len(RunList) /\ Len(RunList) \in Nat \ {0}
<1>1. Tests \in Seq(STRING) /\ Len(Tests) \in Nat
  BY TestsAssumption, LenProperties
<1>2. CASE setup.mode = "normal"
  BY <1>2 DEF RunList
<1>3. CASE setup.mode = "test"
  <2>1. RunList = <<"list">> \o Tests
    BY <1>3 DEF RunList
  <2> DEFINE Words == STRING \cup {"list"}
  <2>8. Tests \in Seq(Words)
    BY <1>1
  <2>2. <<"list">> \in Seq(Words) /\ Len(<<"list">>) = 1 /\ <<"list">>[1] = "list"
    <3>1. "list" \in Words
      OBVIOUS
    <3>2. \A S : \A x \in S : <<x>> \in Seq(S) /\ Len(<<x>>) = 1 /\ <<x>>[1] = x
      BY OneOf
    <3> QED BY <3>1, <3>2
  <2>3. /\ <<"list">> \o Tests \in Seq(Words) /\ Len(<<"list">> \o Tests) = Len(<<"list">>) + Len(Tests)
        /\ \A i \in 1 .. Len(<<"list">>) + Len(Tests) :
             (<<"list">> \o Tests)[i] = IF i <= Len(<<"list">>) THEN <<"list">>[i]
                                        ELSE Tests[i - Len(<<"list">>)]
    BY <2>8, <2>2, ConcatProperties
  <2>4. /\ RunList \in Seq(Words) /\ Len(RunList) = Len(Tests) + 1
        /\ \A i \in 1 .. Len(Tests) + 1 : RunList[i] = IF i <= 1 THEN "list" ELSE Tests[i - 1]
    BY <1>1, <2>1, <2>2, <2>3
  <2> HIDE DEF RunList
  <2>5. ASSUME NEW t \in 1 .. Len(Tests) PROVE RunList[t + 1] = Tests[t]
    <3>1. t + 1 \in 1 .. Len(Tests) + 1 /\ ~(t + 1 <= 1) /\ t + 1 - 1 = t
      BY <1>1
    <3> QED BY <2>4, <3>1
  <2>6. RunList[1] = "list"
    BY <1>1, <2>4
  <2>7. DOMAIN RunList = 1 .. Len(RunList)
    BY <2>4, LenProperties
  <2> QED BY <1>1, <1>3, <2>4, <2>5, <2>6, <2>7
<1> QED BY <1>2, <1>3, SetupIs

\* What a run is for.
LEMMA KindIs ==
  ASSUME setup \in Setups, host.run \in DOMAIN RunList
  PROVE  /\ Kind = "normal" <=> setup.mode = "normal"
         /\ Kind = "list" <=> setup.mode = "test" /\ host.run = 1
         /\ Kind \in Range(Tests) <=> Kind \notin {"normal", "list"}
         /\ Kind \notin {"normal", "list"} => /\ setup.mode = "test" /\ host.run - 1 \in DOMAIN Tests
                                              /\ Kind = Tests[host.run - 1]
<1>1. /\ \A name \in Range(Tests) : name \notin {"none", "normal", "list"}
      /\ DOMAIN Tests = 1 .. Len(Tests) /\ Len(Tests) \in Nat
      /\ \A t \in DOMAIN Tests : Tests[t] \in Range(Tests)
  BY TestsAssumption, LenProperties DEF Range
<1>2. CASE setup.mode = "normal"
  <2>1. Kind = "normal"
    BY <1>2, RunListIs DEF Kind
  <2> QED BY <1>1, <1>2, <2>1
<1>3. CASE setup.mode = "test"
  <2>1. host.run \in 1 .. Len(Tests) + 1 /\ (host.run = 1 => Kind = "list")
    BY <1>3, RunListIs DEF Kind
  <2>2. host.run # 1 => /\ host.run - 1 \in 1 .. Len(Tests)
                        /\ host.run - 1 + 1 = host.run
    BY <1>1, <2>1
  <2>3. host.run # 1 => Kind = Tests[host.run - 1]
    BY <1>3, <2>2, RunListIs DEF Kind
  <2> QED BY <1>1, <1>3, <2>1, <2>2, <2>3
<1> QED BY <1>2, <1>3, SetupIs

\* The fields of the core, the driver, the host and the channel.
LEMMA FieldsAre ==
  /\ \A c \in CoreType :
       /\ c.is \in {"halted", "running", "locked"} /\ c.call \in Calls \cup {"none"}
       /\ c.op \in {"call", "failed", "ok"} /\ c.line \in Names /\ c.told \in Names
       /\ c.calls \in 0..MaxCalls /\ c.wild \in BOOLEAN
  /\ \A d \in DriverType : d.command \in Calls \cup {"none"} /\ d.catch \subseteq {"fault", "reset"}
  /\ \A r \in RamType : /\ r.block \in {"absent", "partial", "ready"} /\ r.queue \in Seq(0..MaxSent)
                        /\ r.init \in 0..2 /\ r.sent \in 0..MaxSent
  /\ \A h \in HostType :
       /\ h.at \in Places /\ h.run \in DOMAIN RunList /\ h.asked \in BOOLEAN
       /\ h.reason \in {"none", "error", "timeout", "user", "decided"}
       /\ h.decided \in Decisions \cup {"none"} /\ h.rtt \in BOOLEAN /\ h.tries \in 0..Retries
  /\ \A s \in StreamType : s.out \in Seq(1..MaxSent) /\ s.lost \in BOOLEAN
BY DEF CoreType, DriverType, RamType, HostType, StreamType

\* What is done to the core: to halt it, to start its program anew, to answer a call,
\* and to let it go on.
LEMMA HaltedIs ==
  ASSUME NEW c \in CoreType
  PROVE  /\ Halted(c) \in CoreType /\ Halted(c).is = "halted" /\ Halted(c).call = c.call
         /\ Halted(c).op = c.op /\ Halted(c).told = c.told /\ Halted(c).wild = c.wild
BY DEF Halted, CoreType

LEMMA BootedIs ==
  ASSUME NEW c \in CoreType, NEW s \in {"halted", "running"}
  PROVE  /\ Booted(c, s) \in CoreType /\ Booted(c, s).is = s /\ Booted(c, s).call = "none"
         /\ Booted(c, s).told = "none" /\ Booted(c, s).wild = c.wild
<1>1. "none" \in Names /\ 0 \in 0..MaxCalls /\ "none" \in Calls \cup {"none"}
  BY BoundsAssumption DEF Names
<1>2. Booted(c, s) \in CoreType
  BY <1>1 DEF Booted, CoreType
<1>3. /\ Booted(c, s).is = s /\ Booted(c, s).call = "none"
      /\ Booted(c, s).told = "none" /\ Booted(c, s).wild = c.wild
  BY DEF Booted, CoreType
<1> QED BY <1>2, <1>3

LEMMA AnsweredIs ==
  ASSUME NEW c \in CoreType, NEW w \in Names
  PROVE  /\ Answered(c, w) \in CoreType /\ Answered(c, w).is = c.is
         /\ Answered(c, w).call = c.call /\ Answered(c, w).told = c.told
         /\ Answered(c, w).wild = c.wild /\ Answered(c, w).op = "ok" /\ Answered(c, w).line = w
BY DEF Answered, CoreType

LEMMA GoesOnIs ==
  ASSUME NEW c \in CoreType
  PROVE  /\ GoesOn(c) \in CoreType /\ GoesOn(c).is = "running" /\ GoesOn(c).call = "none"
         /\ GoesOn(c).op = c.op /\ GoesOn(c).wild = c.wild
         /\ GoesOn(c).told = IF c.call = "cmdline" /\ c.op = "ok" THEN c.line ELSE c.told
BY DEF GoesOn, CoreType

\* A call is decoded once.
LEMMA DecodedIs ==
  ASSUME NEW c \in CoreType, NEW d \in DriverType, c.call # "none"
  PROVE  /\ Command(c, d) \in Calls
         /\ d.command = "none" => Command(c, d) = IF c.op = "call" THEN c.call ELSE "other"
         /\ Decoded(c, d) \in CoreType /\ Decoded(c, d).is = c.is /\ Decoded(c, d).call = c.call
         /\ Decoded(c, d).told = c.told /\ Decoded(c, d).wild = c.wild /\ Decoded(c, d).line = c.line
         /\ Decoded(c, d).op = IF d.command # "none" \/ Command(c, d) \in Exits THEN c.op ELSE "failed"
         /\ Remembers(c, d) \in DriverType /\ Remembers(c, d).command = Command(c, d)
         /\ Remembers(c, d).catch = d.catch
<1>1. c.call \in Calls /\ d.command \in Calls \cup {"none"} /\ "other" \in Calls
  BY FieldsAre DEF Calls
<1>2. /\ Command(c, d) \in Calls
      /\ d.command = "none" => Command(c, d) = IF c.op = "call" THEN c.call ELSE "other"
  BY <1>1 DEF Command
<1>3. Decoded(c, d) \in CoreType
  BY DEF Decoded, CoreType
<1>4. /\ Decoded(c, d).is = c.is /\ Decoded(c, d).call = c.call
      /\ Decoded(c, d).told = c.told /\ Decoded(c, d).wild = c.wild /\ Decoded(c, d).line = c.line
      /\ Decoded(c, d).op = IF d.command # "none" \/ Command(c, d) \in Exits THEN c.op ELSE "failed"
  BY DEF Decoded, CoreType
<1>5. /\ Remembers(c, d) \in DriverType /\ Remembers(c, d).command = Command(c, d)
      /\ Remembers(c, d).catch = d.catch
  BY <1>2 DEF Remembers, DriverType
<1> QED BY <1>2, <1>3, <1>4, <1>5

\* What was decoded is forgotten.
LEMMA ForgottenIs ==
  ASSUME NEW d \in DriverType
  PROVE  Forgotten(d) \in DriverType /\ Forgotten(d).command = "none" /\ Forgotten(d).catch = d.catch
BY DEF Forgotten, DriverType

\* What is sent is a row of numbers from 1, but for a half at the end.
LEMMA UptoIs ==
  ASSUME NEW f, NEW n \in Int
  PROVE  /\ n <= 0 => Upto(f, n) = <<>>
         /\ n >= 0 => /\ Len(Upto(f, n)) = IF n % 2 = 1 /\ Joined(f, n) THEN n - 1 ELSE n
                      /\ \A i \in 1 .. Len(Upto(f, n)) : Upto(f, n)[i] = i
                      /\ Upto(f, n) \in Seq(1..n)
<1> DEFINE k == IF n % 2 = 1 /\ Joined(f, n) THEN n - 1 ELSE n
<1>1. k \in Int /\ k <= n /\ (n >= 0 => k >= 0)
  OBVIOUS
<1>2. Upto(f, n) = [i \in 1..k |-> i]
  BY DEF Upto
<1> HIDE DEF k
<1>3. ASSUME n <= 0 PROVE Upto(f, n) = <<>>
  <2>1. 1..k = {}
    BY <1>1, <1>3
  <2> QED BY <1>2, <2>1
<1>4. ASSUME n >= 0
      PROVE  /\ Len(Upto(f, n)) = k /\ Upto(f, n) \in Seq(1..n)
             /\ \A i \in 1 .. Len(Upto(f, n)) : Upto(f, n)[i] = i
  <2>1. k \in Nat
    BY <1>1, <1>4
  <2>2. [i \in 1..k |-> i] \in Seq(1..n) /\ Len([i \in 1..k |-> i]) = k
    BY <1>1, <2>1
  <2>3. \A i \in 1 .. k : Upto(f, n)[i] = i
    BY <1>2
  <2> QED BY <1>2, <2>2, <2>3
<1> QED BY <1>3, <1>4 DEF k

\* What is read for one run stays the same while the run does.
LEMMA SameRun ==
  ASSUME setup' = setup
  PROVE  /\ RunList' = RunList /\ HostType' = HostType
         /\ host'.run = host.run => Kind' = Kind
<1>1. RunList' = RunList
  BY DEF RunList
<1> QED BY <1>1 DEF HostType, Kind

\* Everything has its type after a step that leaves each in its own.
LEMMA TypesKept ==
  ASSUME TypeOK, setup' = setup, core' \in CoreType, ram' \in RamType, driver' \in DriverType,
         host' \in HostType, late' \in BOOLEAN, exit' \in BOOLEAN, faults' \in 0..MaxFaults,
         stream' \in StreamType, results' \in [DOMAIN Tests -> Results]
  PROVE  TypeOK'
<1>1. HostType' = HostType
  BY SameRun
<1>2. host' \in HostType'
  BY <1>1
<1> QED BY <1>2 DEF TypeOK, CoreType, RamType, DriverType, HostType, StreamType, Results, Names, Places

-----------------------------------------------------------------------------
(* The program.                                                            *)

\* It changes its own state and that of the channel, while it runs.
LEMMA TargetIs ==
  ASSUME TypeOK, Target
  PROVE  /\ core.is = "running" /\ host.at # "done"
         /\ setup' = setup /\ driver' = driver /\ host' = host /\ late' = late /\ exit' = exit
         /\ stream' = stream /\ results' = results /\ faults' = faults
BY DEF Target, Initialise, Send, Call, Stop, Crash, ResetItself, Running, Program

\* It sets up the control block.
LEMMA InitialiseIs ==
  ASSUME TypeOK, Initialise
  PROVE  /\ ram' \in RamType /\ core' = core /\ ram'.sent = ram.sent
         /\ \/ ram.init = 0 /\ ram'.init = 1 /\ ram'.queue = <<>>
            \/ ram.init = 1 /\ ram'.init = 2 /\ ram'.block = "ready" /\ ram'.queue = ram.queue
<1>1. ram \in RamType /\ ram.init \in 0..2 /\ ram.init < 2 /\ core' = core
  BY TypesAre, FieldsAre DEF Initialise
<1>2. CASE ram.init = 0
  <2>1. ram' = [ram EXCEPT !.init = 1, !.block = "partial", !.queue = <<>>]
    BY <1>2 DEF Initialise
  <2>2. <<>> \in Seq(0..MaxSent) /\ 1 \in 0..2
    OBVIOUS
  <2>3. ram' \in RamType
    BY <1>1, <2>1, <2>2 DEF RamType
  <2>4. ram'.init = 1 /\ ram'.queue = <<>> /\ ram'.sent = ram.sent
    BY <1>1, <2>1 DEF RamType
  <2> QED BY <1>1, <1>2, <2>3, <2>4
<1>3. CASE ram.init = 1
  <2>1. ram' = [ram EXCEPT !.init = 2, !.block = "ready"]
    BY <1>3 DEF Initialise
  <2>4. 2 \in 0..2 /\ "ready" \in {"absent", "partial", "ready"}
    OBVIOUS
  <2>2. ram' \in RamType
    BY <1>1, <2>1, <2>4 DEF RamType
  <2>3. ram'.init = 2 /\ ram'.block = "ready" /\ ram'.queue = ram.queue /\ ram'.sent = ram.sent
    BY <1>1, <2>1 DEF RamType
  <2> QED BY <1>1, <1>3, <2>2, <2>3
<1> QED BY <1>1, <1>2, <1>3

\* It sends a piece.
LEMMA SendIs ==
  ASSUME TypeOK, Send
  PROVE  /\ ram' \in RamType /\ core' = core /\ ram.init = 2
         /\ ram'.sent = ram.sent + 1 /\ ram'.init = ram.init /\ ram'.block = ram.block
         /\ Len(ram'.queue) = Len(ram.queue) + 1
         /\ \A i \in 1 .. Len(ram.queue) : ram'.queue[i] = ram.queue[i]
         /\ ram'.queue[Len(ram.queue) + 1] = ram.sent + 1
<1>1. ram \in RamType /\ ram.queue \in Seq(0..MaxSent)
  BY TypesAre, FieldsAre
<1>2. ram.sent + 1 \in 0..MaxSent
  BY <1>1, FieldsAre, BoundsAssumption DEF Send
<1>3. ram' = [ram EXCEPT !.queue = Append(ram.queue, ram.sent + 1), !.sent = ram.sent + 1]
  BY DEF Send
<1>4. /\ Append(ram.queue, ram.sent + 1) \in Seq(0..MaxSent)
      /\ Len(Append(ram.queue, ram.sent + 1)) = Len(ram.queue) + 1
      /\ \A i \in 1 .. Len(ram.queue) : Append(ram.queue, ram.sent + 1)[i] = ram.queue[i]
      /\ Append(ram.queue, ram.sent + 1)[Len(ram.queue) + 1] = ram.sent + 1
  BY <1>1, <1>2, AppendProperties
<1>5. /\ ram'.queue = Append(ram.queue, ram.sent + 1) /\ ram'.sent = ram.sent + 1
      /\ ram'.init = ram.init /\ ram'.block = ram.block
  BY <1>1, <1>3 DEF RamType
<1>6. ram' \in RamType
  BY <1>1, <1>2, <1>3, <1>4 DEF RamType
<1> QED BY <1>4, <1>5, <1>6 DEF Send

\* It stops, at a call or not, or crashes.
LEMMA StoppingIs ==
  ASSUME TypeOK, Call \/ Stop \/ Crash
  PROVE  /\ core' \in CoreType /\ ram' = ram /\ core'.is # "running"
         /\ core'.wild = core.wild /\ core'.told = core.told
         /\ core'.call # core.call => core'.is = "halted"
         /\ core'.is = "halted" \/ ("fault" \notin driver.catch /\ core'.call = core.call)
<1>1. core \in CoreType
  BY TypesAre
<1>2. CASE Call
  <2>1. PICK c \in Calls : /\ core.calls < MaxCalls
                           /\ core' = [core EXCEPT !.is = "halted", !.call = c,
                                                   !.op = "call", !.calls = core.calls + 1]
    BY <1>2 DEF Call
  <2>2. core.calls + 1 \in 0..MaxCalls
    BY <1>1, <2>1, FieldsAre, BoundsAssumption
  <2>3. core' \in CoreType
    BY <1>1, <2>1, <2>2 DEF CoreType
  <2>4. core'.is = "halted" /\ core'.wild = core.wild /\ core'.told = core.told
    BY <1>1, <2>1 DEF CoreType
  <2> QED BY <1>2, <2>3, <2>4 DEF Call
<1>3. CASE Stop
  BY <1>1, <1>3 DEF Stop, CoreType
<1>4. CASE Crash
  BY <1>1, <1>4 DEF Crash, CoreType
<1> QED BY <1>2, <1>3, <1>4

\* It resets itself, and stops if that is caught.
LEMMA ResetItselfIs ==
  ASSUME TypeOK, ResetItself
  PROVE  /\ core' \in CoreType /\ ram' \in RamType /\ ~core.wild
         /\ core'.is \in {"halted", "running"} /\ core'.call = "none"
         /\ core'.wild \/ ("reset" \in driver.catch /\ core'.is = "halted")
         /\ ram'.init = 0 /\ ram'.sent = ram.sent /\ ram'.block = ram.block /\ ram'.queue = ram.queue
<1>1. core \in CoreType /\ ram \in RamType
  BY TypesAre
<1>2. PICK s \in {"halted", "running"} :
        /\ core' = [Booted(core, s) EXCEPT !.wild = ~("reset" \in driver.catch)]
        /\ s = IF "reset" \in driver.catch THEN "halted" ELSE "running"
  BY DEF ResetItself
<1>3. Booted(core, s) \in CoreType /\ Booted(core, s).is = s /\ Booted(core, s).call = "none"
  BY <1>1, BootedIs
<1>4. core' \in CoreType /\ core'.is = s /\ core'.call = "none" /\ core'.wild = ~("reset" \in driver.catch)
  BY <1>2, <1>3 DEF CoreType
<1>5. /\ ram' \in RamType /\ ram'.init = 0 /\ ram'.sent = ram.sent /\ ram'.block = ram.block
      /\ ram'.queue = ram.queue
  BY <1>1 DEF ResetItself, RamType
<1>6. ~core.wild
  BY DEF ResetItself
<1> QED BY <1>2, <1>4, <1>5, <1>6


\* The types and the order of the calls, whatever the program does.
LEMMA TargetKeepsTypes ==
  ASSUME TypeOK, Target
  PROVE  TypeOK'
<1>1. /\ setup \in Setups /\ core \in CoreType /\ ram \in RamType /\ driver \in DriverType
      /\ host \in HostType /\ late \in BOOLEAN /\ exit \in BOOLEAN /\ faults \in 0..MaxFaults
      /\ stream \in StreamType /\ results \in [DOMAIN Tests -> Results]
  BY TypesAre
<1>2. core' \in CoreType /\ ram' \in RamType
  BY <1>1, InitialiseIs, SendIs, StoppingIs, ResetItselfIs DEF Target
<1> QED BY <1>1, <1>2, TargetIs, TypesKept

LEMMA TargetKeepsCalls ==
  ASSUME TypeOK, CoreStops, Decides, Asks, Target
  PROVE  CoreStops' /\ Decides' /\ Asks'
<1>1. /\ core.is = "running" /\ core.call = "none" /\ driver.command = "none" /\ host.decided = "none"
      /\ host.reason # "decided" /\ host.at # "catch"
      /\ driver' = driver /\ host' = host /\ Kind' = Kind
      /\ host.at \in Setting => driver.catch = {}
  BY TargetIs, SameRun DEF CoreStops, Decides
<1>2. Decides'
  BY <1>1 DEF Decides
<1>3. CASE Initialise \/ Send
  <2>1. core' = core
    BY <1>3, InitialiseIs, SendIs
  <2> QED BY <1>1, <1>2, <2>1 DEF CoreStops, Asks, Setting
<1>4. CASE Call \/ Stop \/ Crash
  <2>1. /\ core'.call # core.call => core'.is = "halted"
        /\ core'.wild = core.wild /\ core'.told = core.told
    BY <1>4, StoppingIs
  <2>2. CoreStops'
    BY <1>1, <2>1 DEF CoreStops, Setting
  <2>3. Asks'
    BY <1>1, <2>1 DEF Asks
  <2> QED BY <1>2, <2>2, <2>3
<1>5. CASE ResetItself
  <2>1. /\ core'.call = "none" /\ core'.wild \in BOOLEAN
        /\ core'.wild \/ ("reset" \in driver.catch /\ core'.is = "halted")
    BY <1>5, ResetItselfIs, FieldsAre
  <2>2. CoreStops'
    BY <1>1, <2>1 DEF CoreStops, Setting
  <2>3. Asks'
    BY <1>1, <2>1 DEF Asks
  <2> QED BY <1>2, <2>2, <2>3
<1> QED BY <1>3, <1>4, <1>5 DEF Target

\* What is printed, whatever the program does.
LEMMA TargetKeepsStream ==
  ASSUME TypeOK, CoreStops, Decides, Stream, Target
  PROVE  Stream'
<1>1. /\ core.is = "running" /\ core.call = "none" /\ host.decided = "none"
      /\ host' = host /\ stream' = stream /\ setup' = setup
      /\ host.at \in Setting => driver.catch = {}
  BY TargetIs DEF CoreStops, Decides
<1>2. /\ ram.init \in 0..2 /\ ram.sent \in Nat /\ Len(ram.queue) \in Nat
      /\ core.wild \in BOOLEAN /\ core'.wild \in BOOLEAN
  <2>1. core \in CoreType /\ ram \in RamType /\ core' \in CoreType
    BY TypesAre, TargetKeepsTypes DEF TypeOK, CoreType, Names
  <2>2. ram.queue \in Seq(0..MaxSent) /\ ram.sent \in 0..MaxSent
    BY <2>1, FieldsAre
  <2> QED BY <2>1, <2>2, FieldsAre, LenProperties, BoundsAssumption
<1>3. core.wild => core'.wild
  BY <1>1, InitialiseIs, SendIs, StoppingIs, ResetItselfIs DEF Target
<1>4. SUFFICES ASSUME ~core.wild, ~core'.wild PROVE Sending' /\ Queued' /\ Streamed'
  BY <1>1, <1>3 DEF Stream
<1>5. /\ Sending /\ Queued /\ Streamed
      /\ ram.sent > 0 => ram.init = 2 /\ ram.block = "ready"
  BY <1>1, <1>4 DEF Stream, Sending
<1>6. \A n, k \in Int : n <= 0 /\ k <= 0 => Upto(setup, n) = Upto(setup, k)
  BY UptoIs
<1>8. CASE Initialise
  <2>1. /\ ram.sent = 0 /\ ram'.sent = 0 /\ core' = core
        /\ \/ ram'.init = 1 /\ ram'.queue = <<>>
           \/ ram.init = 1 /\ ram'.init = 2 /\ ram'.block = "ready" /\ ram'.queue = ram.queue
    BY <1>2, <1>5, <1>8, InitialiseIs
  <2>2. Sending'
    BY <2>1 DEF Sending
  <2>3. Queued'
    BY <1>5, <2>1 DEF Queued
  <2>4. Len(ram'.queue) \in Nat /\ (Len(ram.queue) = 0 \/ ram'.queue = ram.queue \/ ram'.queue = <<>>)
    BY <1>2, <2>1
  <2>5. Upto(setup, ram'.sent - Len(ram'.queue)) = Upto(setup, ram.sent - Len(ram.queue))
    <3>1. ram.sent - Len(ram.queue) \in Int /\ ram.sent - Len(ram.queue) <= 0
      BY <1>2, <2>1
    <3>2. ram'.sent - Len(ram'.queue) \in Int /\ ram'.sent - Len(ram'.queue) <= 0
      BY <2>1, <2>4
    <3> QED BY <1>6, <3>1, <3>2
  <2>6. Streamed'
    BY <1>1, <1>5, <2>1, <2>4, <2>5 DEF Streamed, Flushing
  <2> QED BY <2>2, <2>3, <2>6
<1>9. CASE Send
  <2>1. /\ ram.init = 2 /\ ram'.sent = ram.sent + 1 /\ ram'.init = ram.init /\ ram'.block = ram.block
        /\ core' = core /\ Len(ram'.queue) = Len(ram.queue) + 1
        /\ \A i \in 1 .. Len(ram.queue) : ram'.queue[i] = ram.queue[i]
        /\ ram'.queue[Len(ram.queue) + 1] = ram.sent + 1
    BY <1>9, SendIs
  <2>2. Sending'
    BY <1>5, <2>1 DEF Sending
  <2>3. Queued'
    <3>1. /\ Len(ram.queue) <= ram.sent
          /\ \A i \in 1 .. Len(ram.queue) : ram.queue[i] = (ram.sent - Len(ram.queue)) + i
      BY <1>5, <2>1 DEF Queued
    <3>2. Len(ram'.queue) <= ram'.sent /\ ram'.sent - Len(ram'.queue) = ram.sent - Len(ram.queue)
      BY <1>2, <2>1, <3>1
    <3>3. ASSUME NEW i \in 1 .. Len(ram'.queue)
          PROVE  ram'.queue[i] = (ram'.sent - Len(ram'.queue)) + i
      <4>1. CASE i = Len(ram.queue) + 1
        BY <1>2, <2>1, <3>2, <4>1
      <4>2. CASE i # Len(ram.queue) + 1
        <5>1. i \in 1 .. Len(ram.queue)
          BY <1>2, <2>1, <4>2
        <5> QED BY <2>1, <3>1, <3>2, <5>1
      <4> QED BY <4>1, <4>2
    <3> QED BY <3>2, <3>3 DEF Queued
  <2>4. ram'.sent - Len(ram'.queue) = ram.sent - Len(ram.queue)
    BY <1>2, <2>1, SMTT(20)
  <2>5. ram.sent <= Len(ram.queue) => ram'.sent <= Len(ram'.queue)
    BY <1>2, <2>1
  <2>6. Streamed'
    BY <1>1, <1>5, <2>4, <2>5 DEF Streamed, Flushing
  <2> QED BY <2>2, <2>3, <2>6
<1>10. CASE Call \/ Stop \/ Crash
  <2>1. ram' = ram
    BY <1>10, StoppingIs
  <2>2. Sending'
    BY <1>5, <2>1 DEF Sending
  <2>3. Queued' /\ Streamed'
    BY <1>1, <1>5, <2>1 DEF Queued, Streamed, Flushing
  <2> QED BY <2>2, <2>3
<1>11. CASE ResetItself
  <2>1. /\ core'.call = "none" /\ "reset" \in driver.catch /\ core'.is = "halted"
        /\ ram'.init = 0 /\ ram'.sent = ram.sent /\ ram'.block = ram.block /\ ram'.queue = ram.queue
    BY <1>4, <1>11, ResetItselfIs
  <2>2. Sending'
    BY <1>1, <1>5, <2>1 DEF Sending, Setting
  <2>3. Queued'
    BY <1>5, <2>1 DEF Queued
  <2>4. Streamed'
    BY <1>1, <1>5, <2>1 DEF Streamed, Flushing
  <2> QED BY <2>2, <2>3, <2>4
<1> QED BY <1>8, <1>9, <1>10, <1>11 DEF Target

\* Whatever the program does.
LEMMA TargetKeepsIndInv ==
  ASSUME IndInv, Target
  PROVE  IndInv'
BY TargetKeepsTypes, TargetKeepsCalls, TargetKeepsStream DEF IndInv

-----------------------------------------------------------------------------
(* The host.                                                               *)

\* It goes on elsewhere in run_until.
LEMMA GotoIs ==
  ASSUME TypeOK, NEW at \in Places, Goto(at)
  PROVE  /\ host' \in HostType /\ host'.at = at /\ host'.run = host.run /\ host'.asked = host.asked
         /\ host'.reason = host.reason /\ host'.decided = host.decided
         /\ host'.rtt = host.rtt /\ host'.tries = host.tries
<1>1. host \in HostType /\ host' = [host EXCEPT !.at = at]
  BY TypesAre DEF Goto
<1>2. host' \in HostType
  BY <1>1 DEF HostType
<1> QED BY <1>1, <1>2 DEF HostType

\* A run begins, or the last has ended.
LEMMA BeginIs ==
  ASSUME TypeOK, NEW at \in Places, NEW n \in DOMAIN RunList
  PROVE  /\ Begin(n, at) \in HostType /\ Begin(n, at).at = at /\ Begin(n, at).run = n
         /\ Begin(n, at).asked = FALSE /\ Begin(n, at).reason = "none" /\ Begin(n, at).decided = "none"
         /\ Begin(n, at).rtt = FALSE /\ Begin(n, at).tries = 0
<1>1. 0 \in 0..Retries
  BY RetriesAssumption
<1> QED BY <1>1 DEF Begin, HostType

\* It returns an error.
LEMMA ReturnsAnError ==
  ASSUME IndInv, UNCHANGED <<setup, core, ram, driver, stream, exit, results>>,
         late' \in BOOLEAN, faults' \in 0..MaxFaults,
         host' = [host EXCEPT !.at = "return", !.reason = "error"]
  PROVE  IndInv'
<1>1. /\ setup \in Setups /\ core \in CoreType /\ ram \in RamType /\ driver \in DriverType
      /\ host \in HostType /\ late \in BOOLEAN /\ exit \in BOOLEAN
      /\ stream \in StreamType /\ results \in [DOMAIN Tests -> Results]
  BY TypesAre DEF IndInv
<1>2. "return" \in Places /\ host' \in HostType
  BY <1>1 DEF HostType, Places
<1>3. /\ host'.at = "return" /\ host'.run = host.run /\ host'.asked = host.asked
      /\ host'.reason = "error" /\ host'.decided = host.decided
      /\ host'.rtt = host.rtt /\ host'.tries = host.tries
  BY <1>1 DEF HostType
<1>4. TypeOK'
  BY <1>1, <1>2, TypesKept DEF IndInv
<1>5. Kind' = Kind
  BY <1>3, SameRun
<1>6. CoreStops'
  BY <1>3 DEF IndInv, CoreStops, Setting
<1>7. Decides'
  BY <1>3, <1>5 DEF IndInv, Decides
<1>8. Asks'
  BY <1>3, <1>5 DEF IndInv, Asks
<1>9. Stream'
  <2>1. Stream
    BY DEF IndInv
  <2>2. ~core'.wild => Sending' /\ Queued' /\ Streamed'
    BY <1>3, <2>1 DEF Stream, Sending, Queued, Streamed, Setting
  <2> QED BY <1>3, <2>2 DEF Stream
<1> QED BY <1>4, <1>6, <1>7, <1>8, <1>9 DEF IndInv

\* An access fails.
LEMMA FailsKeepsIndInv ==
  ASSUME IndInv, Fails, Aside
  PROVE  IndInv'
<1>1. faults' \in 0..MaxFaults /\ late \in BOOLEAN
  BY TypesAre, BoundsAssumption DEF IndInv, Fails
<1> QED BY <1>1, ReturnsAnError DEF Fails, Aside

\* The next run begins, with the core and the channel as they are.
LEMMA MovesOnKeepsIndInv ==
  ASSUME IndInv, UNCHANGED <<setup, core, ram, driver>>,
         NEW at \in {"reset", "done"}, NEW n \in DOMAIN RunList, host' = Begin(n, at),
         late' \in BOOLEAN, exit' \in BOOLEAN, faults' \in 0..MaxFaults,
         stream' \in StreamType, at = "reset" => stream'.out = <<>>,
         results' \in [DOMAIN Tests -> Results]
  PROVE  IndInv'
<1>1. /\ TypeOK /\ setup \in Setups /\ core \in CoreType /\ ram \in RamType /\ driver \in DriverType
  BY TypesAre DEF IndInv
<1>2. at \in Places
  BY DEF Places
<1>3. /\ host' \in HostType /\ host'.at = at /\ host'.asked = FALSE /\ host'.reason = "none"
      /\ host'.decided = "none" /\ host'.tries = 0
  BY <1>1, <1>2, BeginIs
<1>4. TypeOK'
  BY <1>1, <1>3, TypesKept
<1>5. CoreStops'
  BY <1>3 DEF IndInv, CoreStops, Setting
<1>6. Decides' /\ Asks'
  BY <1>3, RetriesAssumption DEF Decides, Asks
<1>7. Stream'
  <2>1. Stream
    BY DEF IndInv
  <2>2. ~core'.wild => Sending' /\ Queued' /\ Streamed'
    BY <1>3, <2>1 DEF Stream, Sending, Queued, Streamed, Setting
  <2> QED BY <1>3, <2>2 DEF Stream
<1> QED BY <1>4, <1>5, <1>6, <1>7 DEF IndInv

\* What a run has come to is noted for the test it was for.
LEMMA NextRunIs ==
  ASSUME TypeOK, NEW outcome \in {"failed", "timeout", "pass", "panic", "tests"},
         outcome = "tests" => Kind = "list", NextRun(outcome)
  PROVE  /\ results' \in [DOMAIN Tests -> Results]
         /\ \A t \in DOMAIN Tests :
              results'[t] # results[t] => results'[t] = outcome /\ Kind = Tests[t] /\ Kind \in Range(Tests)
         /\ \E n \in DOMAIN RunList, at \in {"reset", "done"} : host' = Begin(n, at)
         /\ late' = FALSE /\ exit' = FALSE /\ stream' \in StreamType /\ stream'.out = <<>>
<1>1. setup \in Setups /\ host \in HostType /\ results \in [DOMAIN Tests -> Results]
  BY TypesAre
<1>2. host.run \in DOMAIN RunList
  BY <1>1, FieldsAre
<1>3. /\ results' \in [DOMAIN Tests -> Results]
      /\ \A t \in DOMAIN Tests :
           results'[t] # results[t] => results'[t] = outcome /\ Kind = Tests[t] /\ Kind \in Range(Tests)
  <2>1. CASE Kind \in Range(Tests)
    <3>1. /\ host.run - 1 \in DOMAIN Tests /\ Kind = Tests[host.run - 1] /\ outcome \in Results
      BY <1>1, <1>2, <2>1, KindIs DEF Results
    <3>2. results' = [results EXCEPT ![host.run - 1] = outcome]
      BY <2>1 DEF NextRun
    <3> QED BY <1>1, <2>1, <3>1, <3>2
  <2>2. CASE Kind \notin Range(Tests)
    BY <1>1, <2>2 DEF NextRun
  <2> QED BY <2>1, <2>2
<1>5. \E n \in DOMAIN RunList, at \in {"reset", "done"} : host' = Begin(n, at)
  <2>1. CASE host.run = Len(RunList)
    BY <1>2, <2>1 DEF NextRun
  <2>2. CASE host.run # Len(RunList)
    <3>1. host.run + 1 \in DOMAIN RunList
      <4>1. DOMAIN RunList = 1 .. Len(RunList) /\ Len(RunList) \in Nat
        BY <1>1, RunListIs
      <4> QED BY <1>2, <2>2, <4>1
    <3> QED BY <2>2, <3>1 DEF NextRun
  <2> QED BY <2>1, <2>2
<1>6. stream' \in StreamType /\ stream'.out = <<>>
  BY DEF NextRun, StreamType
<1> QED BY <1>3, <1>5, <1>6 DEF NextRun

\* The core is reset, or the test has failed.
LEMMA ResetKeepsIndInv ==
  ASSUME IndInv, ResetAndHalt
  PROVE  IndInv'
<1>1. /\ TypeOK /\ setup' = setup /\ host.at = "reset"
      /\ setup \in Setups /\ core \in CoreType /\ ram \in RamType /\ driver \in DriverType
      /\ host \in HostType /\ late \in BOOLEAN /\ exit \in BOOLEAN /\ faults \in 0..MaxFaults
      /\ stream \in StreamType /\ results \in [DOMAIN Tests -> Results]
  BY TypesAre DEF IndInv, ResetAndHalt
<1>2. CASE faults < MaxFaults /\ faults' = faults + 1 /\ NextRun("failed") /\ UNCHANGED <<core, ram, driver>>
  <2>1. faults' \in 0..MaxFaults
    BY <1>1, <1>2, BoundsAssumption
  <2>2. /\ results' \in [DOMAIN Tests -> Results]
        /\ \E n \in DOMAIN RunList, at \in {"reset", "done"} : host' = Begin(n, at)
        /\ late' = FALSE /\ exit' = FALSE /\ stream' \in StreamType /\ stream'.out = <<>>
    BY <1>1, <1>2, NextRunIs
  <2> QED BY <1>1, <1>2, <2>1, <2>2, MovesOnKeepsIndInv
<1>3. CASE /\ core' = [Booted(core, "halted") EXCEPT !.wild = FALSE]
           /\ ram' = [ram EXCEPT !.init = 0, !.sent = 0, !.queue = [i \in DOMAIN ram.queue |-> 0]]
           /\ driver' = [command |-> IF setup.arch = "xt" THEN "none" ELSE driver.command,
                         catch |-> driver.catch \ {"reset"}]
           /\ Goto("halt")
           /\ UNCHANGED <<late, exit, stream, results, faults>>
  <2>1. /\ Booted(core, "halted") \in CoreType /\ Booted(core, "halted").is = "halted"
        /\ Booted(core, "halted").call = "none"
    BY <1>1, BootedIs
  <2>2. core' \in CoreType /\ core'.is = "halted" /\ core'.call = "none"
    BY <1>3, <2>1 DEF CoreType
  <2>3. driver' \in DriverType /\ driver'.command \in {"none", driver.command}
    BY <1>1, <1>3 DEF DriverType
  <2>4. /\ host' \in HostType /\ host'.at = "halt" /\ host'.asked = host.asked
        /\ host'.reason = host.reason /\ host'.decided = host.decided /\ host'.tries = host.tries
        /\ host'.rtt = host.rtt
    <3>1. "halt" \in Places
      BY DEF Places
    <3> QED BY <1>1, <1>3, <3>1, GotoIs
  <2> DEFINE zeros == [i \in DOMAIN ram.queue |-> 0]
  <2>5. /\ zeros \in Seq(0..MaxSent) /\ \A i \in 1 .. Len(zeros) : zeros[i] = 0
        /\ Len(zeros) \in Nat
    <3>1. ram.queue \in Seq(0..MaxSent)
      BY <1>1, FieldsAre
    <3>2. DOMAIN ram.queue = 1 .. Len(ram.queue) /\ Len(ram.queue) \in Nat /\ 0 \in 0..MaxSent
      BY <3>1, LenProperties, BoundsAssumption
    <3>3. zeros = [i \in 1 .. Len(ram.queue) |-> 0]
      BY <3>2
    <3> HIDE DEF zeros
    <3>4. zeros \in Seq(0..MaxSent) /\ Len(zeros) = Len(ram.queue)
      BY <3>2, <3>3
    <3> QED BY <3>2, <3>3, <3>4
  <2>6. ram' = [ram EXCEPT !.init = 0, !.sent = 0, !.queue = zeros]
    BY <1>3
  <2> HIDE DEF zeros
  <2>7. /\ ram'.init = 0 /\ ram'.sent = 0 /\ ram'.queue = zeros
    BY <1>1, <2>6 DEF RamType
  <2>8. ram' \in RamType
    <3>1. 0 \in 0..2 /\ 0 \in 0..MaxSent
      BY BoundsAssumption
    <3> QED BY <1>1, <2>5, <2>6, <3>1 DEF RamType
  <2>9. TypeOK'
    BY <1>1, <1>3, <2>2, <2>3, <2>4, <2>8, TypesKept
  <2>10. CoreStops'
    BY <2>2, <2>4 DEF CoreStops, Setting
  <2>11. Decides' /\ Asks'
    <3>1. Decides /\ Asks
      BY DEF IndInv
    <3> QED BY <1>1, <2>4, <3>1 DEF Decides, Asks
  <2>12. stream' = stream /\ stream.out = <<>>
    BY <1>1, <1>3 DEF IndInv, Stream
  <2>13. Sending' /\ Queued'
    BY <2>5, <2>7 DEF Sending, Queued
  <2>14. Streamed'
    <3>1. 0 - Len(zeros) \in Int /\ 0 - Len(zeros) <= 0 /\ 0 <= Len(zeros)
      BY <2>5
    <3>2. Upto(setup, 0 - Len(zeros)) = <<>>
      BY <3>1, UptoIs
    <3> QED BY <1>1, <2>4, <2>7, <2>12, <3>1, <3>2 DEF Streamed, Flushing
  <2>15. Stream'
    BY <2>4, <2>13, <2>14 DEF Stream
  <2> QED BY <2>9, <2>10, <2>11, <2>15 DEF IndInv
<1> QED BY <1>2, <1>3 DEF ResetAndHalt

\* The core is halted, to catch vectors; or it is not.
LEMMA HaltKeepsIndInv ==
  ASSUME IndInv, Halt
  PROVE  IndInv'
<1>1. /\ TypeOK /\ setup' = setup /\ host.at = "halt"
      /\ setup \in Setups /\ core \in CoreType /\ ram \in RamType /\ driver \in DriverType
      /\ host \in HostType /\ late \in BOOLEAN /\ exit \in BOOLEAN /\ faults \in 0..MaxFaults
      /\ stream \in StreamType /\ results \in [DOMAIN Tests -> Results]
      /\ Aside /\ exit' = exit /\ results' = results
  BY TypesAre DEF IndInv, Halt, Aside
<1>2. CASE Fails
  BY <1>1, <1>2, FailsKeepsIndInv
<1>3. ASSUME NEW at \in {"catch", "resume"}, Goto(at), at = "catch" => core' = Halted(core),
             at = "resume" => core' = core, UNCHANGED <<ram, driver, late, stream, faults>>
      PROVE  IndInv'
  <2>1. /\ core' \in CoreType /\ core'.call = core.call /\ core'.told = core.told
        /\ core'.op = core.op /\ core'.wild = core.wild
        /\ core'.is = "halted" \/ (at = "resume" /\ core'.is = core.is)
    BY <1>1, <1>3, HaltedIs
  <2>2. at \in Places
    BY DEF Places
  <2>3. /\ host' \in HostType /\ host'.at = at /\ host'.run = host.run /\ host'.asked = host.asked
        /\ host'.reason = host.reason /\ host'.decided = host.decided
        /\ host'.rtt = host.rtt /\ host'.tries = host.tries
    BY <1>1, <1>3, <2>2, GotoIs
  <2>4. TypeOK'
    BY <1>1, <1>3, <2>1, <2>3, TypesKept
  <2>5. CoreStops'
    <3>1. CoreStops
      BY DEF IndInv
    <3> QED BY <1>1, <1>3, <2>1, <2>3, <3>1 DEF CoreStops, Setting
  <2>6. Decides' /\ Asks'
    <3>1. Decides /\ Asks
      BY DEF IndInv
    <3> QED BY <1>1, <2>3, <3>1 DEF Decides, Asks
  <2>7. ~core.wild => Sending' /\ Queued' /\ Streamed'
    <3>1. ~core.wild => Sending /\ Queued /\ Streamed
      BY DEF IndInv, Stream
    <3>2. ~core.wild => Sending'
      BY <1>1, <1>3, <2>1, <2>3, <3>1 DEF Sending, Setting
    <3>3. ~core.wild => Queued' /\ Streamed'
      BY <1>1, <1>3, <2>1, <2>3, <3>1 DEF Queued, Streamed, Flushing
    <3> QED BY <3>2, <3>3
  <2>8. Stream'
    BY <2>1, <2>3, <2>7 DEF Stream
  <2> QED BY <2>4, <2>5, <2>6, <2>8 DEF IndInv
<1>4. CASE Goto("catch") /\ core' = Halted(core) /\ UNCHANGED <<ram, driver, late, stream, faults>>
  BY <1>3, <1>4
<1>5. CASE Goto("resume") /\ core' = core /\ UNCHANGED <<ram, driver, late, stream, faults>>
  BY <1>3, <1>5
<1> QED BY <1>2, <1>4, <1>5 DEF Halt

\* Some of the vectors are caught.
LEMMA CatchKeepsIndInv ==
  ASSUME IndInv, CatchVectors
  PROVE  IndInv'
<1>1. /\ TypeOK /\ setup' = setup /\ host.at = "catch"
      /\ setup \in Setups /\ core \in CoreType /\ ram \in RamType /\ driver \in DriverType
      /\ host \in HostType /\ late \in BOOLEAN /\ exit \in BOOLEAN /\ faults \in 0..MaxFaults
      /\ stream \in StreamType /\ results \in [DOMAIN Tests -> Results]
      /\ UNCHANGED <<core, ram, late, exit, stream, results>>
  BY TypesAre DEF IndInv, CatchVectors, Aside
<1>2. /\ host' \in HostType /\ host'.at = "resume" /\ host'.run = host.run /\ host'.asked = host.asked
      /\ host'.reason = host.reason /\ host'.decided = host.decided
      /\ host'.rtt = host.rtt /\ host'.tries = host.tries
  <2>1. "resume" \in Places /\ Goto("resume")
    BY DEF Places, CatchVectors
  <2> QED BY <1>1, <2>1, GotoIs
<1>3. driver' \in DriverType /\ driver'.command = driver.command
  <2>1. PICK v \in SUBSET {"fault", "reset"} : driver' = [driver EXCEPT !.catch = v]
    <3>1. CASE driver' = [driver EXCEPT !.catch = IF setup.arch = "cm" THEN {"fault", "reset"} ELSE {}]
      BY <3>1
    <3>2. CASE \E w \in SUBSET {"fault", "reset"} : driver' = [driver EXCEPT !.catch = driver.catch \cup w]
      BY <1>1, <3>2, FieldsAre
    <3> QED BY <3>1, <3>2 DEF CatchVectors
  <2> QED BY <1>1, <2>1 DEF DriverType
<1>4. faults' \in 0..MaxFaults
  BY <1>1, BoundsAssumption DEF CatchVectors
<1>5. TypeOK'
  BY <1>1, <1>2, <1>3, <1>4, TypesKept
<1>6. CoreStops'
  <2>1. CoreStops
    BY DEF IndInv
  <2> QED BY <1>1, <1>2, <1>3, <2>1 DEF CoreStops, Setting
<1>7. Decides' /\ Asks'
  <2>1. Decides /\ Asks
    BY DEF IndInv
  <2> QED BY <1>1, <1>2, <2>1 DEF Decides, Asks
<1>8. Stream'
  <2>1. Stream
    BY DEF IndInv
  <2>2. ~core.wild => Sending' /\ Queued' /\ Streamed'
    BY <1>1, <1>2, <2>1 DEF Stream, Sending, Setting, Queued, Streamed, Flushing
  <2> QED BY <1>1, <1>2, <2>2 DEF Stream
<1> QED BY <1>5, <1>6, <1>7, <1>8 DEF IndInv

\* A core goes on, or stops again at the same call.
LEMMA ResumedIs ==
  ASSUME NEW c \in CoreType, NEW d \in Resumed(c)
  PROVE  /\ d \in CoreType /\ d.wild = c.wild /\ d.op = c.op
         /\ \/ d = c /\ c.call # "none"
            \/ /\ d.is = "running" /\ d.call = "none"
               /\ d.told = IF c.call = "cmdline" /\ c.op = "ok" THEN c.line ELSE c.told
<1>1. d = GoesOn(c) \/ (d = c /\ c.call # "none")
  BY DEF Resumed
<1> QED BY <1>1, GoesOnIs

\* A core that is halted is resumed.
LEMMA ResumeKeepsIndInv ==
  ASSUME IndInv, Resume
  PROVE  IndInv'
<1>1. /\ TypeOK /\ setup' = setup /\ host.at = "resume"
      /\ setup \in Setups /\ core \in CoreType /\ ram \in RamType /\ driver \in DriverType
      /\ host \in HostType /\ late \in BOOLEAN /\ exit \in BOOLEAN /\ faults \in 0..MaxFaults
      /\ stream \in StreamType /\ results \in [DOMAIN Tests -> Results]
      /\ Aside /\ exit' = exit /\ results' = results
  BY TypesAre DEF IndInv, Resume, Aside
<1>2. CASE Fails
  BY <1>1, <1>2, FailsKeepsIndInv
<1>3. CASE ~Fails
  <2> DEFINE c == IF AtCall(core) /\ setup.arch # "xt" THEN Decoded(core, driver) ELSE core
  <2>1. /\ core' \in IF core.is = "halted" THEN Resumed(c) ELSE {core}
        /\ driver' = IF core.is = "halted" THEN Forgotten(driver) ELSE driver
        /\ Goto("attach") /\ UNCHANGED <<ram, late, stream, faults>>
    BY <1>3 DEF Resume
  <2>2. c \in CoreType /\ c.is = core.is /\ c.call = core.call /\ c.wild = core.wild
    BY <1>1, DecodedIs DEF AtCall
  <2> HIDE DEF c
  <2>3. CoreStops /\ Decides /\ Asks /\ Stream
    BY DEF IndInv
  <2>4. core' \in CoreType /\ core'.wild = core.wild /\ (core'.call # "none" => core'.is = "halted")
    <3>1. CASE core.is = "halted"
      <4>1. core' \in Resumed(c)
        BY <2>1, <3>1
      <4>2. /\ core' \in CoreType /\ core'.wild = c.wild
            /\ core' = c \/ core'.call = "none"
        BY <2>2, <4>1, ResumedIs
      <4> QED BY <2>2, <3>1, <4>2
    <3>2. CASE core.is # "halted"
      BY <1>1, <2>1, <2>3, <3>2 DEF CoreStops
    <3> QED BY <3>1, <3>2
  <2>5. driver' \in DriverType /\ driver'.command = "none"
    BY <1>1, <2>1, <2>3, ForgottenIs DEF CoreStops
  <2>6. /\ host' \in HostType /\ host'.at = "attach" /\ host'.run = host.run /\ host'.asked = host.asked
        /\ host'.reason = host.reason /\ host'.decided = host.decided
        /\ host'.rtt = host.rtt /\ host'.tries = host.tries
    <3>1. "attach" \in Places
      BY DEF Places
    <3> QED BY <1>1, <2>1, <3>1, GotoIs
  <2>7. TypeOK'
    BY <1>1, <2>1, <2>4, <2>5, <2>6, TypesKept
  <2>8. CoreStops'
    BY <2>4, <2>5, <2>6 DEF CoreStops, Setting
  <2>9. Decides' /\ Asks'
    BY <1>1, <2>3, <2>6 DEF Decides, Asks
  <2>10. ~core.wild => Sending' /\ Queued' /\ Streamed'
    BY <1>1, <2>1, <2>3, <2>6 DEF Stream, Sending, Setting, Queued, Streamed, Flushing
  <2>11. Stream'
    BY <2>4, <2>6, <2>10 DEF Stream
  <2> QED BY <2>7, <2>8, <2>9, <2>11 DEF IndInv
<1> QED BY <1>2, <1>3

\* A control block is found, or none is looked for.
LEMMA AttachKeepsIndInv ==
  ASSUME IndInv, AttachRtt \/ AttachTimesOut
  PROVE  IndInv'
<1>1. /\ TypeOK /\ setup' = setup /\ host.at = "attach"
      /\ setup \in Setups /\ core \in CoreType /\ ram \in RamType /\ driver \in DriverType
      /\ host \in HostType /\ late \in BOOLEAN /\ exit \in BOOLEAN /\ faults \in 0..MaxFaults
      /\ stream \in StreamType /\ results \in [DOMAIN Tests -> Results]
      /\ Aside /\ exit' = exit /\ results' = results
  BY TypesAre DEF IndInv, AttachRtt, AttachTimesOut, Aside
<1>2. CASE Fails
  BY <1>1, <1>2, FailsKeepsIndInv
<1>3. CASE /\ host' = [host EXCEPT !.at = "return", !.reason = "error"]
           /\ UNCHANGED <<core, ram, driver, late, stream, faults>>
  BY <1>1, <1>3, ReturnsAnError
<1>4. CASE /\ Goto("check") \/ host' = [host EXCEPT !.at = "check", !.rtt = TRUE]
           /\ UNCHANGED <<core, ram, driver, late, stream, faults>>
  <2>1. /\ host' \in HostType /\ host'.at = "check" /\ host'.run = host.run /\ host'.asked = host.asked
        /\ host'.reason = host.reason /\ host'.decided = host.decided
        /\ host'.rtt \in {host.rtt, TRUE} /\ host'.tries = host.tries
    <3>1. "check" \in Places
      BY DEF Places
    <3>2. CASE Goto("check")
      BY <1>1, <3>1, <3>2, GotoIs
    <3>3. CASE host' = [host EXCEPT !.at = "check", !.rtt = TRUE]
      <4>1. host' \in HostType
        BY <1>1, <3>1, <3>3 DEF HostType
      <4> QED BY <1>1, <3>3, <4>1 DEF HostType
    <3> QED BY <1>4, <3>2, <3>3
  <2>2. TypeOK'
    BY <1>1, <1>4, <2>1, TypesKept
  <2>3. CoreStops /\ Decides /\ Asks /\ Stream
    BY DEF IndInv
  <2>4. CoreStops'
    BY <1>1, <1>4, <2>1, <2>3 DEF CoreStops, Setting
  <2>5. Decides' /\ Asks'
    BY <1>1, <2>1, <2>3 DEF Decides, Asks
  <2>6. ram.sent <= Len(ram.queue) => Upto(setup, ram.sent - Len(ram.queue)) = <<>>
    <3>1. ram.sent \in Nat /\ Len(ram.queue) \in Nat
      <4>1. ram.sent \in 0..MaxSent /\ ram.queue \in Seq(0..MaxSent)
        BY <1>1, FieldsAre
      <4> QED BY <4>1, LenProperties, BoundsAssumption
    <3>2. ram.sent <= Len(ram.queue) => ram.sent - Len(ram.queue) <= 0 /\ ram.sent - Len(ram.queue) \in Int
      BY <3>1
    <3> QED BY <3>2, UptoIs
  <2>7. ~core.wild => Sending' /\ Queued'
    BY <1>1, <1>4, <2>1, <2>3 DEF Stream, Sending, Setting, Queued
  <2>8. ~core.wild => Streamed'
    <3>1. host.rtt \in BOOLEAN /\ host'.rtt \in BOOLEAN
      BY <1>1, <2>1, FieldsAre
    <3> QED BY <1>1, <1>4, <2>1, <2>3, <2>6, <3>1 DEF Stream, Streamed, Flushing, Decides
  <2>9. Stream'
    BY <1>4, <2>1, <2>7, <2>8 DEF Stream
  <2> QED BY <2>2, <2>4, <2>5, <2>9 DEF IndInv
<1> QED BY <1>2, <1>3, <1>4 DEF AttachRtt, AttachTimesOut

\* The core is halted to return: the time is up, or the user has stopped it.
LEMMA StoppedKeepsIndInv ==
  ASSUME IndInv, Aside, host.at \in {"check", "timer"}, core' = Halted(core),
         NEW reason \in {"timeout", "user"},
         host' = [host EXCEPT !.at = "return", !.reason = reason],
         UNCHANGED <<ram, driver, late, stream, faults>>
  PROVE  IndInv'
<1>1. /\ TypeOK /\ setup' = setup /\ exit' = exit /\ results' = results
      /\ setup \in Setups /\ core \in CoreType /\ ram \in RamType /\ driver \in DriverType
      /\ host \in HostType /\ late \in BOOLEAN /\ exit \in BOOLEAN /\ faults \in 0..MaxFaults
      /\ stream \in StreamType /\ results \in [DOMAIN Tests -> Results]
  BY TypesAre DEF IndInv, Aside
<1>2. /\ core' \in CoreType /\ core'.is = "halted" /\ core'.call = core.call
      /\ core'.op = core.op /\ core'.told = core.told /\ core'.wild = core.wild
  BY <1>1, HaltedIs
<1>3. "return" \in Places /\ host' \in HostType
  BY <1>1 DEF HostType, Places
<1>4. /\ host'.at = "return" /\ host'.run = host.run /\ host'.asked = host.asked
      /\ host'.reason \notin {"none", "decided"} /\ host'.decided = host.decided
      /\ host'.rtt = host.rtt /\ host'.tries = host.tries
  BY <1>1 DEF HostType
<1>5. TypeOK'
  BY <1>1, <1>2, <1>3, TypesKept
<1>6. Kind' = Kind
  BY <1>1, <1>4, SameRun
<1>7. CoreStops'
  BY <1>2, <1>4 DEF IndInv, CoreStops, Setting
<1>8. Decides'
  BY <1>2, <1>4, <1>6 DEF IndInv, Decides
<1>9. Asks'
  BY <1>2, <1>4, <1>6 DEF IndInv, Asks
<1>10. Stream'
  <2>1. Stream /\ Decides
    BY DEF IndInv
  <2>2. ~core.wild => Sending' /\ Queued' /\ Streamed'
    BY <1>1, <1>2, <1>4, <2>1 DEF Decides, Stream, Sending, Queued, Streamed, Setting, Flushing
  <2> QED BY <1>2, <1>4, <2>2 DEF Stream
<1> QED BY <1>5, <1>7, <1>8, <1>9, <1>10 DEF IndInv

LEMMA UserStopsKeepsIndInv ==
  ASSUME IndInv, UserStops
  PROVE  IndInv'
BY FailsKeepsIndInv, StoppedKeepsIndInv DEF UserStops

\* After the poll it is time to return, or to look at the core again.
LEMMA TimerKeepsIndInv ==
  ASSUME IndInv, Timer
  PROVE  IndInv'
<1>1. /\ TypeOK /\ setup' = setup /\ host.at = "timer"
      /\ setup \in Setups /\ core \in CoreType /\ ram \in RamType /\ driver \in DriverType
      /\ host \in HostType /\ late \in BOOLEAN /\ exit \in BOOLEAN /\ faults \in 0..MaxFaults
      /\ stream \in StreamType /\ results \in [DOMAIN Tests -> Results]
      /\ Aside /\ exit' = exit /\ results' = results
  BY TypesAre DEF IndInv, Timer, Aside
<1>2. CASE Fails
  BY <1>1, <1>2, FailsKeepsIndInv
<1>3. CASE /\ core' = Halted(core) /\ host' = [host EXCEPT !.at = "return", !.reason = "timeout"]
           /\ UNCHANGED <<ram, driver, late, stream, faults>>
  BY <1>1, <1>3, StoppedKeepsIndInv
<1>4. CASE /\ host' = IF host.decided = "none" THEN [host EXCEPT !.at = "check"]
                      ELSE [host EXCEPT !.at = "return", !.reason = "decided"]
           /\ UNCHANGED <<core, ram, driver, late, stream, faults>>
  <2>1. /\ host' \in HostType /\ host'.run = host.run /\ host'.asked = host.asked
        /\ host'.decided = host.decided /\ host'.rtt = host.rtt /\ host'.tries = host.tries
        /\ \/ host.decided = "none" /\ host'.at = "check" /\ host'.reason = host.reason
           \/ host.decided # "none" /\ host'.at = "return" /\ host'.reason = "decided"
    <3>1. "check" \in Places /\ "return" \in Places
      BY DEF Places
    <3>2. CASE host.decided = "none"
      <4>1. host' = [host EXCEPT !.at = "check"]
        BY <1>4, <3>2
      <4>2. host' \in HostType
        BY <1>1, <3>1, <4>1 DEF HostType
      <4> QED BY <1>1, <3>2, <4>1, <4>2 DEF HostType
    <3>3. CASE host.decided # "none"
      <4>1. host' = [host EXCEPT !.at = "return", !.reason = "decided"]
        BY <1>4, <3>3
      <4>2. host' \in HostType
        BY <1>1, <3>1, <4>1 DEF HostType
      <4> QED BY <1>1, <3>3, <4>1, <4>2 DEF HostType
    <3> QED BY <3>2, <3>3
  <2>2. TypeOK'
    BY <1>1, <1>4, <2>1, TypesKept
  <2>3. CoreStops /\ Decides /\ Asks /\ Stream
    BY DEF IndInv
  <2>4. CoreStops'
    BY <1>1, <1>4, <2>1, <2>3 DEF CoreStops, Setting
  <2>5. Kind' = Kind
    BY <1>1, <2>1, SameRun
  <2>6. Decides' /\ Asks'
    BY <1>1, <1>4, <2>1, <2>3, <2>5 DEF Decides, Asks
  <2>7. ~core.wild => Sending' /\ Queued'
    BY <1>1, <1>4, <2>1, <2>3 DEF Stream, Sending, Setting, Queued
  <2>8. ~core.wild => Streamed'
    BY <1>1, <1>4, <2>1, <2>3 DEF Stream, Streamed, Flushing, Decides
  <2>9. Stream'
    BY <1>4, <2>1, <2>7, <2>8 DEF Stream
  <2> QED BY <2>2, <2>4, <2>6, <2>9 DEF IndInv
<1> QED BY <1>2, <1>3, <1>4 DEF Timer

\* A run is over, and the next begins.
LEMMA OutcomeIs ==
  ASSUME TypeOK, Decides, Outcome # "none"
  PROVE  /\ Outcome \in {"failed", "timeout", "pass", "panic", "tests"}
         /\ Outcome = "tests" => Kind = "list"
         /\ Outcome \in {"pass", "panic"} => host.decided = Outcome
BY DEF Outcome, Decides

LEMMA ReturnKeepsIndInv ==
  ASSUME IndInv, Return
  PROVE  IndInv'
<1>1. /\ TypeOK /\ Decides /\ host.at = "return" /\ UNCHANGED <<setup, core, ram, driver, faults>>
      /\ host \in HostType /\ late \in BOOLEAN /\ exit \in BOOLEAN /\ faults \in 0..MaxFaults
      /\ stream \in StreamType /\ results \in [DOMAIN Tests -> Results]
  BY TypesAre DEF IndInv, Return
<1>2. CASE Outcome = "none"
  <2>1. host' = Begin(host.run, "done") /\ UNCHANGED <<results, late, exit, stream>>
    BY <1>2 DEF Return
  <2>2. host.run \in DOMAIN RunList
    BY <1>1, FieldsAre
  <2> QED BY <1>1, <2>1, <2>2, MovesOnKeepsIndInv
<1>3. CASE Outcome # "none"
  <2>1. NextRun(Outcome)
    BY <1>3 DEF Return
  <2>2. /\ results' \in [DOMAIN Tests -> Results]
        /\ \E n \in DOMAIN RunList, at \in {"reset", "done"} : host' = Begin(n, at)
        /\ late' = FALSE /\ exit' = FALSE /\ stream' \in StreamType /\ stream'.out = <<>>
    BY <1>1, <1>3, <2>1, OutcomeIs, NextRunIs
  <2> QED BY <1>1, <2>2, MovesOnKeepsIndInv
<1> QED BY <1>2, <1>3

\* The stack trace cannot be printed.
LEMMA StacktraceKeepsIndInv ==
  ASSUME IndInv, StacktraceFails
  PROVE  IndInv'
<1>1. /\ TypeOK /\ Decides /\ host.at = "return" /\ UNCHANGED <<setup, core, ram, driver, results, late, exit, stream>>
      /\ host \in HostType /\ late \in BOOLEAN /\ exit \in BOOLEAN /\ faults' \in 0..MaxFaults
      /\ stream \in StreamType /\ results \in [DOMAIN Tests -> Results]
  BY TypesAre, BoundsAssumption DEF IndInv, StacktraceFails, Aside
<1>2. host' = Begin(host.run, "done") /\ host.run \in DOMAIN RunList
  BY <1>1, FieldsAre DEF StacktraceFails
<1> QED BY <1>1, <1>2, MovesOnKeepsIndInv

-----------------------------------------------------------------------------
(* The halt handlers.                                                      *)

\* A program goes on behind a call of normal mode, or with the line it has asked for.
\* That it stopped is always refused; an exit is that of a test which was told its name.
LEMMA HandlerIs ==
  ASSUME TypeOK, NEW c \in CoreType, NEW call \in Calls \cup {"stop"}, NEW v \in Handler(call, c)
  PROVE  /\ v.decided \in Decisions \cup {"none"} /\ v.asked \in BOOLEAN
         /\ v.core = c \/ (Kind # "normal" /\ v.core \in {Answered(c, Kind), Answered(c, "none")})
         /\ v.asked => host.asked \/ Kind # "normal"
         /\ v.decided = "none" =>
              \/ v.core = c /\ Kind = "normal" /\ call \notin Exits \cup {"stop"} /\ v.asked = host.asked
              \/ v.core = Answered(c, Kind) /\ Kind # "normal" /\ call = "cmdline" /\ v.asked
         /\ v.decided = "tests" => Kind = "list"
         /\ v.decided \in {"pass", "panic"} =>
              /\ Kind \notin {"normal", "list"} /\ host.asked /\ v.core = c
              /\ call = IF v.decided = "pass" THEN "exit0" ELSE "exit1"
         /\ call = "stop" => v.decided = "refused" /\ v.core = c
<1>1. host.asked \in BOOLEAN
  BY TypesAre, FieldsAre
<1>2. ASSUME v \in TellsLine(c), Kind # "normal", call = "cmdline"
      PROVE  /\ v.asked = TRUE
             /\ \/ v.core = Answered(c, Kind) /\ v.decided = "none"
                \/ v.core = c /\ v.decided = "refused"
  BY <1>2 DEF TellsLine, Verdict
<1>3. CASE Kind = "normal"
  <2>1. v \in NormalHandler(call, c)
    BY <1>3 DEF Handler
  <2>2. /\ v.core = c /\ v.asked = host.asked
        /\ v.decided = CASE call = "exit0" -> "done"
                         [] call \in {"exit1", "stop"} -> "refused"
                         [] OTHER -> "none"
    BY <2>1 DEF NormalHandler, Verdict
  <2>3. v.decided = IF call = "exit0" THEN "done" ELSE IF call \in {"exit1", "stop"} THEN "refused" ELSE "none"
    BY <2>2
  <2> QED BY <1>1, <1>3, <2>2, <2>3 DEF Decisions, Exits
<1>4. CASE Kind = "list"
  <2>1. v \in ListHandler(call, c)
    BY <1>4 DEF Handler
  <2>2. \/ call = "cmdline" /\ ~host.asked /\ v \in TellsLine(c)
        \/ call = "list" /\ v.core = Answered(c, "none") /\ v.asked = TRUE /\ v.decided = "tests"
        \/ v.core = c /\ (v.asked = TRUE \/ v.asked = host.asked) /\ v.decided = "refused"
    <3>1. CASE call = "cmdline" /\ ~host.asked
      BY <2>1, <3>1 DEF ListHandler
    <3>2. CASE call = "list" /\ host.asked
      <4>1. v \in {Verdict(Answered(c, "none"), TRUE, "tests"), Verdict(c, TRUE, "refused")}
        BY <2>1, <3>2 DEF ListHandler
      <4>2. \/ v.core = Answered(c, "none") /\ v.asked = TRUE /\ v.decided = "tests"
            \/ v.core = c /\ v.asked = TRUE /\ v.decided = "refused"
        BY <4>1 DEF Verdict
      <4> QED BY <3>2, <4>2
    <3>3. CASE ~(call = "cmdline" /\ ~host.asked) /\ ~(call = "list" /\ host.asked)
      <4>1. v \in {Verdict(c, host.asked, "refused")}
        BY <2>1, <3>3 DEF ListHandler
      <4>2. v.core = c /\ v.asked = host.asked /\ v.decided = "refused"
        BY <4>1 DEF Verdict
      <4> QED BY <4>2
    <3> QED BY <3>1, <3>2, <3>3
  <2> QED BY <1>1, <1>2, <1>4, <2>2 DEF Decisions, Exits
<1>5. CASE Kind \notin {"normal", "list"}
  <2>1. v \in TestHandler(call, c)
    BY <1>5 DEF Handler
  <2>2. \/ call = "cmdline" /\ ~host.asked /\ v \in TellsLine(c)
        \/ call = "exit0" /\ host.asked /\ v.core = c /\ v.asked = TRUE /\ v.decided = "pass"
        \/ call = "exit1" /\ host.asked /\ v.core = c /\ v.asked = TRUE /\ v.decided = "panic"
        \/ v.core = c /\ v.asked = host.asked /\ v.decided = "refused"
    BY <2>1 DEF TestHandler, Verdict
  <2> QED BY <1>1, <1>2, <1>5, <2>2 DEF Decisions, Exits
<1> QED BY <1>3, <1>4, <1>5

\* The look at a core that is halted: what it has stopped for, and what comes of it.
LEMMA CheckIs ==
  ASSUME IndInv, host.at = "check", core.is = "halted", Aside,
         NEW call, NEW c, NEW d,
         call = IF AtCall(core) THEN Command(core, driver) ELSE "stop",
         c = IF AtCall(core) THEN Decoded(core, driver) ELSE core,
         d = IF AtCall(core) THEN Remembers(core, driver) ELSE driver,
         NEW v \in Handler(call, c),
         core' \in IF v.decided = "none" THEN Resumed(v.core) ELSE {v.core},
         driver' = IF v.decided = "none" THEN Forgotten(d) ELSE d,
         host' = [host EXCEPT !.at = "poll", !.asked = v.asked, !.decided = v.decided]
  PROVE  /\ core' \in CoreType /\ driver' \in DriverType /\ host' \in HostType
         /\ host'.at = "poll" /\ host'.run = host.run /\ host'.reason = host.reason
         /\ host'.rtt = host.rtt /\ host'.tries = host.tries /\ core'.wild = core.wild
         /\ host'.asked => host.asked \/ Kind # "normal"
         /\ host'.decided = "tests" => Kind = "list"
         /\ core.call = "none" => core'.is = "halted" /\ core'.call = "none"
         /\ host'.decided # "none" => core'.is = "halted" /\ core'.call = core.call
         /\ host'.decided \in {"pass", "panic"} =>
              /\ Kind \notin {"normal", "list"} /\ host.asked /\ core'.told = core.told
              /\ core'.call = IF host'.decided = "pass" THEN "exit0" ELSE "exit1"
         /\ host'.decided = "none" =>
              /\ driver'.command = "none" /\ core.call # "none"
              /\ core'.call = "none" \/ (core'.is = "halted" /\ core'.call = core.call)
              /\ \/ /\ Kind = "normal" /\ host'.asked = host.asked
                    /\ core'.op = "failed" /\ core'.told = core.told
                 \/ /\ Kind # "normal" /\ core'.op = "ok" /\ core.call = "cmdline"
                    /\ core'.call = "none" => core'.told = Kind
<1>1. /\ TypeOK /\ CoreStops /\ Decides /\ setup \in Setups /\ core \in CoreType /\ driver \in DriverType
      /\ host \in HostType
  BY TypesAre DEF IndInv
<1>2. driver.command = "none"
  BY <1>1 DEF CoreStops, Setting
<1>3. /\ call \in Calls \cup {"stop"} /\ c \in CoreType /\ d \in DriverType
      /\ c.is = "halted" /\ c.call = core.call /\ c.told = core.told /\ c.wild = core.wild
      /\ core.call = "none" => call = "stop"
      /\ core.call # "none" => /\ call = IF core.op = "call" THEN core.call ELSE "other"
                               /\ call \notin Exits => c.op = "failed"
  <2>1. CASE core.call = "none"
    BY <1>1, <2>1 DEF AtCall
  <2>2. CASE core.call # "none"
    <3>1. AtCall(core)
      BY <2>2 DEF AtCall
    <3>2. /\ Command(core, driver) \in Calls
          /\ Command(core, driver) = IF core.op = "call" THEN core.call ELSE "other"
          /\ Decoded(core, driver) \in CoreType /\ Decoded(core, driver).is = core.is
          /\ Decoded(core, driver).call = core.call /\ Decoded(core, driver).told = core.told
          /\ Decoded(core, driver).wild = core.wild /\ Remembers(core, driver) \in DriverType
          /\ Command(core, driver) \notin Exits => Decoded(core, driver).op = "failed"
      BY <1>1, <1>2, <2>2, DecodedIs
    <3>3. call = Command(core, driver) /\ c = Decoded(core, driver) /\ d = Remembers(core, driver)
      BY <3>1
    <3> QED BY <2>2, <3>2, <3>3
  <2> QED BY <2>1, <2>2
<1>4. /\ v.decided \in Decisions \cup {"none"} /\ v.asked \in BOOLEAN
      /\ v.core = c \/ (Kind # "normal" /\ v.core \in {Answered(c, Kind), Answered(c, "none")})
      /\ v.asked => host.asked \/ Kind # "normal"
      /\ v.decided = "none" =>
           \/ v.core = c /\ Kind = "normal" /\ call \notin Exits \cup {"stop"} /\ v.asked = host.asked
           \/ v.core = Answered(c, Kind) /\ Kind # "normal" /\ call = "cmdline" /\ v.asked
      /\ v.decided = "tests" => Kind = "list"
      /\ v.decided \in {"pass", "panic"} =>
           /\ Kind \notin {"normal", "list"} /\ host.asked /\ v.core = c
           /\ call = IF v.decided = "pass" THEN "exit0" ELSE "exit1"
      /\ call = "stop" => v.decided = "refused" /\ v.core = c
  BY <1>1, <1>3, HandlerIs
<1>5. /\ host' \in HostType /\ host'.at = "poll" /\ host'.run = host.run /\ host'.reason = host.reason
      /\ host'.rtt = host.rtt /\ host'.tries = host.tries
      /\ host'.asked = v.asked /\ host'.decided = v.decided
  <2>1. "poll" \in Places
    BY DEF Places
  <2>2. host' \in HostType
    BY <1>1, <1>4, <2>1 DEF HostType
  <2> QED BY <1>1, <2>2 DEF HostType
<1>6. driver' \in DriverType /\ (v.decided = "none" => driver'.command = "none")
  <2>1. Forgotten(d) \in DriverType /\ Forgotten(d).command = "none"
    BY <1>3, ForgottenIs
  <2> QED BY <1>3, <2>1
<1>7. /\ v.core \in CoreType /\ v.core.is = "halted" /\ v.core.call = core.call
      /\ v.core.told = core.told /\ v.core.wild = core.wild
      /\ v.core = Answered(c, Kind) /\ Kind # "normal" => v.core.op = "ok" /\ v.core.line = Kind
  <2>1. "none" \in Names /\ (Kind # "normal" => Kind \in Names)
    <3>1. host.run \in DOMAIN RunList
      BY <1>1, FieldsAre
    <3> QED BY <1>1, <3>1, KindIs DEF Names
  <2>2. CASE v.core = c
    <3>1. v.core = Answered(c, Kind) /\ Kind # "normal" => v.core.op = "ok" /\ v.core.line = Kind
      BY <1>3, <2>1, AnsweredIs
    <3> QED BY <1>3, <2>2, <3>1
  <2>3. ASSUME NEW w \in Names, v.core = Answered(c, w)
        PROVE  /\ v.core \in CoreType /\ v.core.is = "halted" /\ v.core.call = core.call
               /\ v.core.told = core.told /\ v.core.wild = core.wild
               /\ v.core.op = "ok" /\ v.core.line = w
    BY <1>3, <2>3, AnsweredIs
  <2> QED BY <1>4, <2>1, <2>2, <2>3
<1>8. CASE v.decided = "none"
  <2>1. core' \in Resumed(v.core)
    BY <1>8
  <2>2. /\ core' \in CoreType /\ core'.wild = v.core.wild /\ core'.op = v.core.op
        /\ \/ core' = v.core /\ v.core.call # "none"
           \/ /\ core'.is = "running" /\ core'.call = "none"
              /\ core'.told = IF v.core.call = "cmdline" /\ v.core.op = "ok" THEN v.core.line ELSE v.core.told
    BY <1>7, <2>1, ResumedIs
  <2>3. core.call # "none" /\ call # "stop"
    BY <1>3, <1>4, <1>8
  <2>4. CASE v.core = c /\ Kind = "normal" /\ call \notin Exits \cup {"stop"} /\ v.asked = host.asked
    <3>1. v.core.op = "failed"
      BY <1>3, <2>3, <2>4
    <3>2. core'.op = "failed" /\ core'.told = core.told
      BY <1>7, <2>2, <3>1
    <3> QED BY <1>4, <1>5, <1>6, <1>7, <1>8, <2>2, <2>3, <2>4, <3>2
  <2>5. CASE v.core = Answered(c, Kind) /\ Kind # "normal" /\ call = "cmdline" /\ v.asked
    <3>1. core.call = "cmdline"
      BY <1>3, <2>3, <2>5
    <3>2. core'.op = "ok" /\ (core'.call = "none" => core'.told = Kind)
      BY <1>7, <2>2, <2>5, <3>1
    <3> QED BY <1>4, <1>5, <1>6, <1>7, <1>8, <2>2, <2>3, <2>5, <3>1, <3>2
  <2> QED BY <1>4, <1>8, <2>4, <2>5
<1>9. CASE v.decided # "none"
  <2>1. core' = v.core
    BY <1>9
  <2>2. v.decided \in {"pass", "panic"} => core.call = IF v.decided = "pass" THEN "exit0" ELSE "exit1"
    BY <1>3, <1>4
  <2> QED BY <1>4, <1>5, <1>6, <1>7, <1>9, <2>1, <2>2
<1> QED BY <1>8, <1>9

\* The handler decides, or the core goes on.
LEMMA HandledKeepsIndInv ==
  ASSUME IndInv, host.at = "check", core.is = "halted", Aside, UNCHANGED <<ram, late, stream, faults>>,
         \E v \in Handler(IF AtCall(core) THEN Command(core, driver) ELSE "stop",
                          IF AtCall(core) THEN Decoded(core, driver) ELSE core) :
           /\ core' \in IF v.decided = "none" THEN Resumed(v.core) ELSE {v.core}
           /\ driver' = IF v.decided = "none"
                        THEN Forgotten(IF AtCall(core) THEN Remembers(core, driver) ELSE driver)
                        ELSE IF AtCall(core) THEN Remembers(core, driver) ELSE driver
           /\ host' = [host EXCEPT !.at = "poll", !.asked = v.asked, !.decided = v.decided]
  PROVE  IndInv'
<1>1. /\ TypeOK /\ setup' = setup /\ exit' = exit /\ results' = results
      /\ setup \in Setups /\ core \in CoreType /\ ram \in RamType /\ driver \in DriverType
      /\ host \in HostType /\ late \in BOOLEAN /\ exit \in BOOLEAN /\ faults \in 0..MaxFaults
      /\ stream \in StreamType /\ results \in [DOMAIN Tests -> Results]
  BY TypesAre DEF IndInv, Aside
<1>2. /\ core' \in CoreType /\ driver' \in DriverType /\ host' \in HostType
      /\ host'.at = "poll" /\ host'.run = host.run /\ host'.reason = host.reason
      /\ host'.rtt = host.rtt /\ host'.tries = host.tries /\ core'.wild = core.wild
      /\ host'.asked => host.asked \/ Kind # "normal"
      /\ host'.decided = "tests" => Kind = "list"
      /\ core.call = "none" => core'.is = "halted" /\ core'.call = "none"
      /\ host'.decided # "none" => core'.is = "halted" /\ core'.call = core.call
      /\ host'.decided \in {"pass", "panic"} =>
           /\ Kind \notin {"normal", "list"} /\ host.asked /\ core'.told = core.told
           /\ core'.call = IF host'.decided = "pass" THEN "exit0" ELSE "exit1"
      /\ host'.decided = "none" =>
           /\ driver'.command = "none" /\ core.call # "none"
           /\ core'.call = "none" \/ (core'.is = "halted" /\ core'.call = core.call)
           /\ \/ /\ Kind = "normal" /\ host'.asked = host.asked
                 /\ core'.op = "failed" /\ core'.told = core.told
              \/ /\ Kind # "normal" /\ core'.op = "ok" /\ core.call = "cmdline"
                 /\ core'.call = "none" => core'.told = Kind
  BY CheckIs
<1>3. TypeOK'
  BY <1>1, <1>2, TypesKept
<1>4. CoreStops /\ Decides /\ Asks /\ Stream
  BY DEF IndInv
<1>5. Kind' = Kind
  BY <1>1, <1>2, SameRun
<1>6. CoreStops'
  BY <1>2 DEF CoreStops, Setting
<1>7. Decides'
  <2>1. host'.decided \in {"pass", "panic"} => Kind \in Range(Tests) /\ (core'.told = Kind \/ core'.wild)
    <3>1. host.run \in DOMAIN RunList
      BY <1>1, FieldsAre
    <3>2. Kind \notin {"normal", "list"} => Kind \in Range(Tests)
      BY <1>1, <3>1, KindIs
    <3> QED BY <1>2, <1>4, <3>2 DEF Decides, Asks
  <2> QED BY <1>2, <1>4, <1>5, <2>1 DEF Decides
<1>8. Asks'
  BY <1>2, <1>4, <1>5 DEF Asks, Decides
<1>9. ~core.wild => Sending'
  BY <1>1, <1>2, <1>4 DEF Stream, Sending, Setting
<1>10. ~core.wild => Queued' /\ Streamed'
  BY <1>1, <1>2, <1>4 DEF Stream, Queued, Streamed, Flushing, Decides
<1>11. Stream'
  BY <1>2, <1>9, <1>10 DEF Stream
<1> QED BY <1>3, <1>6, <1>7, <1>8, <1>11 DEF IndInv

LEMMA CheckKeepsIndInv ==
  ASSUME IndInv, Check
  PROVE  IndInv'
<1>1. /\ TypeOK /\ setup' = setup /\ host.at = "check"
      /\ setup \in Setups /\ core \in CoreType /\ ram \in RamType /\ driver \in DriverType
      /\ host \in HostType /\ late \in BOOLEAN /\ exit \in BOOLEAN /\ faults \in 0..MaxFaults
      /\ stream \in StreamType /\ results \in [DOMAIN Tests -> Results]
      /\ Aside /\ exit' = exit /\ results' = results
  BY TypesAre DEF IndInv, Check, Aside
<1>2. CASE Fails
  BY <1>1, <1>2, FailsKeepsIndInv
<1>3. CASE /\ host' = [host EXCEPT !.at = "return", !.reason = "error"]
           /\ UNCHANGED <<core, ram, driver, late, stream, faults>>
  BY <1>1, <1>3, ReturnsAnError
<1>4. CASE Running /\ Goto("poll") /\ UNCHANGED <<core, ram, driver, late, stream, faults>>
  <2>1. /\ host' \in HostType /\ host'.at = "poll" /\ host'.run = host.run /\ host'.asked = host.asked
        /\ host'.reason = host.reason /\ host'.decided = host.decided
        /\ host'.rtt = host.rtt /\ host'.tries = host.tries
    <3>1. "poll" \in Places
      BY DEF Places
    <3> QED BY <1>1, <1>4, <3>1, GotoIs
  <2>2. TypeOK'
    BY <1>1, <1>4, <2>1, TypesKept
  <2>3. CoreStops /\ Decides /\ Asks /\ Stream
    BY DEF IndInv
  <2>4. Kind' = Kind
    BY <1>1, <2>1, SameRun
  <2>5. CoreStops' /\ Decides' /\ Asks'
    BY <1>1, <1>4, <2>1, <2>3, <2>4 DEF CoreStops, Setting, Decides, Asks
  <2>6. ~core.wild => Sending' /\ Queued' /\ Streamed'
    BY <1>1, <1>4, <2>1, <2>3 DEF Decides, Stream, Sending, Setting, Queued, Streamed, Flushing
  <2>7. Stream'
    BY <1>4, <2>1, <2>6 DEF Stream
  <2> QED BY <2>2, <2>3, <2>5, <2>7 DEF IndInv
<1>5. CASE /\ core.is = "halted" /\ UNCHANGED <<ram, late, stream, faults>>
           /\ \E v \in Handler(IF AtCall(core) THEN Command(core, driver) ELSE "stop",
                               IF AtCall(core) THEN Decoded(core, driver) ELSE core) :
                /\ core' \in IF v.decided = "none" THEN Resumed(v.core) ELSE {v.core}
                /\ driver' = IF v.decided = "none"
                             THEN Forgotten(IF AtCall(core) THEN Remembers(core, driver) ELSE driver)
                             ELSE IF AtCall(core) THEN Remembers(core, driver) ELSE driver
                /\ host' = [host EXCEPT !.at = "poll", !.asked = v.asked, !.decided = v.decided]
  BY <1>1, <1>5, HandledKeepsIndInv
<1> QED BY <1>2, <1>3, <1>4, <1>5, Zenon DEF Check

-----------------------------------------------------------------------------
(* What is printed.                                                        *)

\* What is printed of the channel is a row of pieces, whatever was in it.
LEMMA PrintedIs ==
  ASSUME setup \in Setups, NEW T, NEW q \in Seq(T)
  PROVE  /\ Printed(q) \in Seq(T)
         /\ Fresh(Printed(q)) \in Seq(T \cap (1..MaxSent)) /\ Fresh(Printed(q)) \in Seq(1..MaxSent)
<1>1. Printed(q) \in Seq(T)
  <2> DEFINE S == {p \in Range(q) : Joined(setup, p) => Partner(p) \in Range(q)}
  <2>1. Keep(q, S) \in Seq(T \cap S)
    BY KeepType
  <2>2. Printed(q) = Keep(q, S)
    BY DEF Printed
  <2> HIDE DEF S
  <2>3. Keep(q, S) \in Seq(T)
    BY <2>1
  <2> QED BY <2>2, <2>3
<1>2. Fresh(Printed(q)) \in Seq(T \cap (1..MaxSent)) /\ Fresh(Printed(q)) \in Seq(1..MaxSent)
  BY <1>1, KeepType DEF Fresh
<1> QED BY <1>1, <1>2

\* Nothing is printed of what an earlier run has left.
LEMMA NothingOld ==
  ASSUME setup \in Setups, NEW T, NEW q \in Seq(T), \A i \in 1 .. Len(q) : q[i] = 0
  PROVE  Fresh(Printed(q)) = <<>>
<1>1. q \in Seq({0})
  OBVIOUS
<1>2. Fresh(Printed(q)) \in Seq({0} \cap (1..MaxSent))
  BY <1>1, PrintedIs
<1>3. {0} \cap (1..MaxSent) = {}
  OBVIOUS
<1>4. Fresh(Printed(q)) \in Seq({})
  BY <1>2, <1>3
<1> QED BY <1>4

\* A sequence of fewer is one of more.
LEMMA Wider ==
  ASSUME NEW S, NEW T, S \subseteq T, NEW s \in Seq(S)
  PROVE  s \in Seq(T)
OBVIOUS

\* One row after another.
LEMMA RowsJoin ==
  ASSUME NEW f, NEW b \in Nat, NEW n \in Nat, NEW T, NEW F \in Seq(T),
         Len(Upto(f, b)) + Len(F) = Len(Upto(f, n)),
         \A i \in 1 .. Len(F) : F[i] = Len(Upto(f, b)) + i
  PROVE  Upto(f, b) \o F = Upto(f, n)
<1> DEFINE A == Upto(f, b)
           B == Upto(f, n)
           All == T \cup Nat
<1>1. /\ A \in Seq(All) /\ B \in Seq(All) /\ F \in Seq(All)
      /\ \A i \in 1 .. Len(A) : A[i] = i
      /\ \A i \in 1 .. Len(B) : B[i] = i
  <2>1. A \in Seq(1..b) /\ B \in Seq(1..n)
    BY UptoIs
  <2>2. A \in Seq(All) /\ B \in Seq(All) /\ F \in Seq(All)
    <3>1. 1..b \subseteq All /\ 1..n \subseteq All /\ T \subseteq All
      OBVIOUS
    <3> HIDE DEF A, B, All
    <3> QED BY <2>1, <3>1, Wider
  <2> QED BY <2>2, UptoIs
<1>2. Len(A) + Len(F) = Len(B) /\ \A i \in 1 .. Len(F) : F[i] = Len(A) + i
  OBVIOUS
<1>3. Len(A) \in Nat /\ Len(F) \in Nat /\ Len(B) \in Nat
  BY <1>1, LenProperties
<1> HIDE DEF A, B, All
<1>4. /\ A \o F \in Seq(All) /\ Len(A \o F) = Len(B)
      /\ \A i \in 1 .. Len(A) + Len(F) : (A \o F)[i] = IF i <= Len(A) THEN A[i] ELSE F[i - Len(A)]
  BY <1>1, <1>2, ConcatProperties
<1>5. ASSUME NEW i \in 1 .. Len(B) PROVE (A \o F)[i] = B[i]
  <2>1. CASE i <= Len(A)
    BY <1>1, <1>2, <1>3, <1>4, <2>1
  <2>2. CASE ~(i <= Len(A))
    <3>1. i - Len(A) \in 1 .. Len(F)
      BY <1>2, <1>3, <2>2
    <3>2. (A \o F)[i] = F[i - Len(A)] /\ F[i - Len(A)] = Len(A) + (i - Len(A))
      BY <1>2, <1>4, <2>2, <3>1
    <3> QED BY <1>1, <1>3, <3>2
  <2> QED BY <2>1, <2>2
<1>6. A \o F = B
  BY <1>1, <1>4, <1>5, SeqEqual
<1> QED BY <1>6 DEF A, B

\* Both parts are parts.
LEMMA JoinedPair ==
  ASSUME NEW s, NEW b \in Nat, b % 2 = 1
  PROVE  Joined(s, b) <=> Joined(s, b + 1)
<1>1. (b + 1) \div 2 = ((b + 1) + 1) \div 2 /\ b # 0 /\ b + 1 # 0
  OBVIOUS
<1> QED BY <1>1 DEF Joined

(* How much is printed of L pieces in order after the first b of them.      *)
Whole(b, L) == IF L # 0 /\ (b + L) % 2 = 1 /\ Joined(setup, b + L) THEN L - 1 ELSE L

\* Of pieces in order, from one that is no second part, those are there as a whole
\* that come before the last when it has no partner.
LEMMA FramesAre ==
  ASSUME NEW q, NEW L \in Nat, L = Len(q), NEW b \in Nat, ~(b % 2 = 1 /\ Joined(setup, b + 1)),
         DOMAIN q = 1 .. L, \A i \in 1 .. L : q[i] = b + i, NEW i \in 1 .. L
  PROVE  (Joined(setup, q[i]) => Partner(q[i]) \in Range(q)) <=> i <= Whole(b, L)
<1>1. q[i] = b + i
  OBVIOUS
<1>2. \A p \in Int : p \in Range(q) <=> b + 1 <= p /\ p <= b + L
  <2>1. ASSUME NEW p \in Int, p \in Range(q) PROVE b + 1 <= p /\ p <= b + L
    <3>1. PICK j \in 1 .. L : p = q[j]
      BY <2>1 DEF Range
    <3> QED BY <3>1
  <2>2. ASSUME NEW p \in Int, b + 1 <= p /\ p <= b + L PROVE p \in Range(q)
    <3>1. p - b \in 1 .. L /\ q[p - b] = p
      BY <2>2
    <3> QED BY <3>1 DEF Range
  <2> QED BY <2>1, <2>2
<1>3. CASE (b + i) % 2 = 1
  <2>1. Partner(q[i]) = b + i + 1
    BY <1>1, <1>3 DEF Partner
  <2>2. b + i + 1 \in Range(q) <=> i + 1 <= L
    BY <1>2
  <2>3. CASE i = L
    <3>1. i <= Whole(b, L) <=> ~Joined(setup, b + L)
      BY <1>3, <2>3 DEF Whole
    <3> QED BY <1>1, <2>1, <2>2, <2>3, <3>1
  <2>4. CASE i # L
    <3>1. i <= Whole(b, L) /\ i + 1 <= L
      BY <2>4 DEF Whole
    <3> QED BY <2>1, <2>2, <3>1
  <2> QED BY <2>3, <2>4
<1>4. CASE (b + i) % 2 # 1
  <2>1. Partner(q[i]) = b + i - 1
    BY <1>1, <1>4 DEF Partner
  <2>2. b + i - 1 \in Range(q) <=> i # 1
    BY <1>2
  <2>3. i <= Whole(b, L)
    BY <1>4 DEF Whole
  <2>4. i = 1 => ~Joined(setup, b + i)
    BY <1>4
  <2> QED BY <1>1, <2>1, <2>2, <2>3, <2>4
<1> QED BY <1>3, <1>4

\* What is new in the channel is printed up to the last part that has its partner.
LEMMA NewIsPrinted ==
  ASSUME setup \in Setups, NEW q \in Seq(0..MaxSent), NEW n \in 0..MaxSent, Len(q) <= n,
         \A i \in 1 .. Len(q) : q[i] = (n - Len(q)) + i, ~Cut(q)
  PROVE  Upto(setup, n - Len(q)) \o Fresh(Printed(q)) = Upto(setup, n)
<1>1. PICK L \in Nat, b \in Nat :
        /\ L = Len(q) /\ b = n - Len(q) /\ n = b + L /\ DOMAIN q = 1 .. L
        /\ MaxSent \in Nat /\ n \in Nat /\ \A i \in 1 .. L : q[i] = b + i
  <2>1. Len(q) \in Nat /\ DOMAIN q = 1 .. Len(q) /\ MaxSent \in Nat /\ n \in Nat
    BY LenProperties, BoundsAssumption
  <2>2. n - Len(q) \in Nat /\ n = (n - Len(q)) + Len(q)
    BY <2>1
  <2> QED BY <2>1, <2>2
<1>2. L # 0 => ~(b % 2 = 1 /\ Joined(setup, b + 1))
  <2>1. CASE L # 0 /\ b % 2 = 1
    <3>1. q # <<>> /\ q[1] = b + 1 /\ (b + 1) % 2 = 0
      BY <1>1, <2>1
    <3> QED BY <3>1 DEF Cut
  <2> QED BY <2>1
<1>3. PICK k \in 0 .. L : k = Whole(b, L)
  BY DEF Whole
<1>4. Printed(q) \in Seq(0..MaxSent) /\ Len(Printed(q)) = k /\ \A i \in 1 .. k : Printed(q)[i] = b + i
  <2> DEFINE S == {p \in Range(q) : Joined(setup, p) => Partner(p) \in Range(q)}
  <2>1. Printed(q) = Keep(q, S)
    BY DEF Printed
  <2>2. ASSUME NEW i \in 1 .. Len(q) PROVE q[i] \in S <=> i <= k
    <3>1. i \in 1 .. L /\ ~(b % 2 = 1 /\ Joined(setup, b + 1))
      BY <1>1, <1>2
    <3>2. (Joined(setup, q[i]) => Partner(q[i]) \in Range(q)) <=> i <= k
      BY <1>1, <1>3, <3>1, FramesAre
    <3>3. q[i] \in Range(q)
      BY <1>1, <3>1 DEF Range
    <3> QED BY <3>2, <3>3
  <2> HIDE DEF S
  <2>3. k \in 0 .. Len(q)
    BY <1>1, <1>3
  <2>4. Len(Keep(q, S)) = k /\ \A i \in 1 .. k : Keep(q, S)[i] = q[i]
    BY <2>2, <2>3, KeepFirst
  <2>5. \A i \in 1 .. k : q[i] = b + i
    BY <1>1, <1>3
  <2>6. Printed(q) \in Seq(0..MaxSent)
    BY PrintedIs
  <2> QED BY <2>1, <2>4, <2>5, <2>6
<1>5. PICK T, S, P, F : T = 0..MaxSent /\ S = 1..MaxSent /\ P = Printed(q) /\ F = Keep(P, S)
  OBVIOUS
<1>6. P \in Seq(T) /\ Len(P) = k /\ k \in 0 .. Len(P) /\ \A i \in 1 .. k : P[i] = b + i
  BY <1>3, <1>4, <1>5
<1>7. Len(F) = k /\ F \in Seq(T) /\ \A i \in 1 .. k : F[i] = b + i
  <2>1. \A i \in 1 .. Len(P) : P[i] \in S <=> i <= k
    BY <1>1, <1>3, <1>5, <1>6, SMTT(20)
  <2>2. Len(Keep(P, S)) = k /\ \A i \in 1 .. k : Keep(P, S)[i] = P[i]
    BY <1>6, <2>1, KeepFirst
  <2>3. Keep(P, S) \in Seq(T)
    BY <1>6, KeepType
  <2> QED BY <1>5, <1>6, <2>2, <2>3
<1>8. /\ Len(Upto(setup, b)) = IF b % 2 = 1 /\ Joined(setup, b) THEN b - 1 ELSE b
      /\ Len(Upto(setup, n)) = IF n % 2 = 1 /\ Joined(setup, n) THEN n - 1 ELSE n
  <2>1. b \in Int /\ n \in Int /\ b >= 0 /\ n >= 0
    BY <1>1
  <2> QED BY <2>1, UptoIs
<1>9. Len(Upto(setup, b)) + Len(F) = Len(Upto(setup, n)) /\ (k # 0 => Len(Upto(setup, b)) = b)
  <2>1. CASE L = 0
    <3>1. n = b /\ k = 0
      BY <1>1, <1>3, <2>1
    <3> QED BY <1>7, <1>8, <3>1
  <2>2. CASE L # 0
    <3>1. ~(b % 2 = 1 /\ Joined(setup, b))
      BY <1>2, <2>2, JoinedPair
    <3>2. Len(Upto(setup, b)) = b
      BY <1>8, <3>1
    <3>3. Len(Upto(setup, n)) = b + k
      BY <1>1, <1>3, <1>8, <2>2 DEF Whole
    <3> QED BY <1>7, <3>2, <3>3
  <2> QED BY <2>1, <2>2
<1>10. ASSUME NEW i \in 1 .. Len(F) PROVE F[i] = Len(Upto(setup, b)) + i
  <2>1. i \in 1 .. k /\ k # 0
    BY <1>3, <1>7
  <2> QED BY <1>7, <1>9, <2>1
<1>11. Upto(setup, b) \o F = Upto(setup, n)
  <2>1. PICK f, N : f = setup /\ N = n /\ N \in Nat
    BY <1>1
  <2>2. Len(Upto(f, b)) + Len(F) = Len(Upto(f, N)) /\ F \in Seq(T)
    BY <1>7, <1>9, <2>1
  <2>3. \A i \in 1 .. Len(F) : F[i] = Len(Upto(f, b)) + i
    BY <1>10, <2>1
  <2>4. Upto(f, b) \o F = Upto(f, N)
    BY <2>1, <2>2, <2>3, RowsJoin
  <2> QED BY <2>1, <2>4
<1>12. F = Fresh(Printed(q))
  BY <1>5 DEF Fresh
<1> QED BY <1>1, <1>11, <1>12

\* The channel is read, or is not.
LEMMA PollKeepsIndInv ==
  ASSUME IndInv, Poll
  PROVE  IndInv'
<1>1. /\ TypeOK /\ UNCHANGED <<setup, core, driver, late, exit, results, faults>> /\ host.at = "poll"
      /\ setup \in Setups /\ core \in CoreType /\ ram \in RamType /\ driver \in DriverType
      /\ host \in HostType /\ late \in BOOLEAN /\ exit \in BOOLEAN /\ faults \in 0..MaxFaults
      /\ stream \in StreamType /\ results \in [DOMAIN Tests -> Results]
  BY TypesAre DEF IndInv, Poll, Aside
<1>2. CoreStops /\ Decides /\ Asks /\ Stream
  BY DEF IndInv
<1>3. /\ ram.queue \in Seq(0..MaxSent) /\ Len(ram.queue) \in Nat /\ ram.sent \in 0..MaxSent
      /\ ram.sent \in Nat /\ ram.block \in {"absent", "partial", "ready"}
      /\ host.rtt \in BOOLEAN /\ stream.lost \in BOOLEAN /\ stream.out \in Seq(1..MaxSent)
  <2>1. ram.queue \in Seq(0..MaxSent) /\ ram.sent \in 0..MaxSent
    BY <1>1, FieldsAre
  <2> QED BY <1>1, <2>1, FieldsAre, LenProperties, BoundsAssumption
<1>4. /\ host' \in HostType /\ host'.run = host.run /\ host'.asked = host.asked
      /\ host'.decided = host.decided /\ host'.rtt = host.rtt /\ host'.tries \in {0, host.tries}
      /\ \/ host'.at = "timer" /\ host'.reason = host.reason
         \/ host'.at = "return" /\ host'.reason = "error"
  <2>1. "timer" \in Places /\ "return" \in Places /\ 0 \in 0..Retries
    BY RetriesAssumption DEF Places
  <2>2. CASE Goto("timer")
    BY <1>1, <2>1, <2>2, GotoIs
  <2>3. CASE host' = [host EXCEPT !.at = "timer", !.tries = 0]
    <3>1. host' \in HostType
      BY <1>1, <2>1, <2>3 DEF HostType
    <3> QED BY <1>1, <2>3, <3>1 DEF HostType
  <2>4. CASE host' = [host EXCEPT !.at = "return", !.reason = "error"]
    <3>1. host' \in HostType
      BY <1>1, <2>1, <2>4 DEF HostType
    <3> QED BY <1>1, <2>4, <3>1 DEF HostType
  <2> QED BY <2>2, <2>3, <2>4 DEF Poll
<1>5. /\ ram' \in RamType /\ ram'.init = ram.init /\ ram'.block = ram.block /\ ram'.sent = ram.sent
      /\ ram'.queue = ram.queue \/ (ram.block = "ready" /\ ram'.queue = <<>>)
      /\ host.rtt => ram'.queue = IF ram.block = "ready" THEN <<>> ELSE ram.queue
      /\ ~host.rtt => ram' = ram
  <2>1. CASE ~host.rtt
    <3>1. ram' = ram
      BY <2>1 DEF Poll
    <3> QED BY <1>1, <2>1, <3>1
  <2>2. CASE host.rtt
    <3>1. PICK q : ram' = [ram EXCEPT !.queue = q] /\ q = IF ram.block = "ready" THEN <<>> ELSE ram.queue
      BY <2>2 DEF Poll, Taken
    <3>2. <<>> \in Seq(0..MaxSent)
      OBVIOUS
    <3>3. q \in Seq(0..MaxSent)
      BY <1>3, <3>1, <3>2
    <3>4. ram' \in RamType
      BY <1>1, <3>1, <3>3 DEF RamType
    <3>5. /\ ram'.init = ram.init /\ ram'.block = ram.block /\ ram'.sent = ram.sent
          /\ ram'.queue = q
      BY <1>1, <3>1 DEF RamType
    <3> QED BY <2>2, <3>1, <3>4, <3>5
  <2> QED BY <1>3, <2>1, <2>2
<1>6. \/ stream' = stream /\ (~host.rtt \/ host'.reason = "error")
      \/ /\ host.rtt /\ host'.at = "timer"
         /\ stream' = [out |-> stream.out \o Fresh(Printed(Held)), lost |-> stream.lost \/ Cut(Held)]
  <2>1. host' = [host EXCEPT !.at = "return", !.reason = "error"] => host'.reason = "error"
    BY <1>1 DEF HostType
  <2>2. host' = [host EXCEPT !.at = "timer", !.tries = 0] => host'.at = "timer"
    BY <1>1 DEF HostType
  <2> QED BY <2>1, <2>2 DEF Poll
<1>7. Held \in Seq(0..MaxSent)
  <2>1. <<>> \in Seq(0..MaxSent)
    OBVIOUS
  <2> QED BY <1>3, <2>1 DEF Held
<1>8. stream' \in StreamType
  <2>1. CASE stream' = [out |-> stream.out \o Fresh(Printed(Held)), lost |-> stream.lost \/ Cut(Held)]
    <3>1. Fresh(Printed(Held)) \in Seq(1..MaxSent)
      BY <1>1, <1>7, PrintedIs
    <3>2. stream.out \o Fresh(Printed(Held)) \in Seq(1..MaxSent)
      BY <1>3, <3>1, ConcatProperties
    <3>3. (stream.lost \/ Cut(Held)) \in BOOLEAN
      OBVIOUS
    <3> QED BY <2>1, <3>2, <3>3 DEF StreamType
  <2> QED BY <1>1, <1>6, <2>1
<1>9. TypeOK'
  BY <1>1, <1>4, <1>5, <1>8, TypesKept
<1>10. Kind' = Kind
  BY <1>1, <1>4, SameRun
<1>11. CoreStops'
  BY <1>1, <1>2, <1>4 DEF CoreStops, Setting
<1>12. Decides'
  <2>1. host'.tries < Retries
    BY <1>2, <1>4, RetriesAssumption DEF Decides
  <2> QED BY <1>1, <1>2, <1>4, <1>10, <2>1 DEF Decides
<1>13. Asks'
  BY <1>1, <1>2, <1>4, <1>10 DEF Asks
<1>14. ~core.wild => Sending' /\ Queued'
  <2>1. ~core.wild => Sending'
    BY <1>1, <1>2, <1>4, <1>5 DEF Stream, Sending, Setting
  <2>2. ~core.wild => Queued'
    <3>1. CASE ram'.queue = ram.queue
      BY <1>2, <1>5, <3>1 DEF Stream, Queued
    <3>2. CASE ram'.queue = <<>>
      BY <1>3, <1>5, <3>2 DEF Queued
    <3> QED BY <1>5, <3>1, <3>2
  <2> QED BY <2>1, <2>2
<1>15. ASSUME ~core.wild, host.rtt, host'.at = "timer", ~stream'.lost
       PROVE  stream'.out = Upto(setup, ram.sent - Len(ram'.queue))
  <2>1. host'.reason # "error"
    BY <1>2, <1>4, <1>15, <1>1 DEF Decides
  <2>2. stream'.out = stream.out \o Fresh(Printed(Held)) /\ ~stream.lost /\ ~Cut(Held)
    <3>1. stream' = [out |-> stream.out \o Fresh(Printed(Held)), lost |-> stream.lost \/ Cut(Held)]
      BY <1>6, <1>15, <2>1
    <3>2. stream'.out = stream.out \o Fresh(Printed(Held))
      BY <3>1
    <3>3. stream'.lost = (stream.lost \/ Cut(Held))
      BY <3>1, Zenon
    <3>4. ~(stream.lost \/ Cut(Held))
      BY <1>15, <3>3, Zenon
    <3> QED BY <3>2, <3>4
  <2>3. Sending /\ Queued /\ stream.out = Upto(setup, ram.sent - Len(ram.queue))
    BY <1>1, <1>2, <1>15, <2>2 DEF Stream, Streamed, Decides
  <2>4. CASE ram.block # "ready"
    <3>1. Held = <<>> /\ ram'.queue = ram.queue
      BY <1>5, <1>15, <2>4 DEF Held
    <3>2. \A i \in 1 .. Len(Held) : Held[i] = 0
      BY <3>1
    <3>3. Fresh(Printed(Held)) = <<>>
      BY <1>1, <1>7, <3>2, NothingOld
    <3>4. stream'.out = stream.out
      BY <1>3, <2>2, <3>3
    <3> QED BY <2>3, <3>1, <3>4
  <2>5. CASE ram.block = "ready"
    <3>1. Held = ram.queue /\ ram.sent - Len(ram'.queue) = ram.sent
      <4>1. Held = ram.queue /\ ram'.queue = <<>>
        BY <1>5, <1>15, <2>5 DEF Held
      <4>2. Len(<<>>) = 0
        OBVIOUS
      <4> QED BY <1>3, <4>1, <4>2
    <3>2. CASE ram.sent = 0 /\ \A i \in 1 .. Len(ram.queue) : ram.queue[i] = 0
      <4>1. Fresh(Printed(Held)) = <<>>
        BY <1>1, <1>7, <3>1, <3>2, NothingOld
      <4>2. stream'.out = stream.out
        BY <1>3, <2>2, <4>1
      <4>3. ram.sent - Len(ram.queue) \in Int /\ ram.sent - Len(ram.queue) <= 0 /\ ram.sent \in Int /\ ram.sent <= 0
        BY <1>3, <3>2
      <4>4. Upto(setup, ram.sent - Len(ram.queue)) = Upto(setup, ram.sent)
        BY <4>3, UptoIs
      <4> QED BY <2>3, <3>1, <4>2, <4>4
    <3>3. CASE /\ Len(ram.queue) <= ram.sent
               /\ \A i \in 1 .. Len(ram.queue) : ram.queue[i] = (ram.sent - Len(ram.queue)) + i
      <4>1. Upto(setup, ram.sent - Len(ram.queue)) \o Fresh(Printed(ram.queue)) = Upto(setup, ram.sent)
        BY <1>1, <1>3, <2>2, <3>1, <3>3, NewIsPrinted
      <4> QED BY <2>2, <2>3, <3>1, <4>1
    <3> QED BY <2>3, <3>2, <3>3 DEF Queued
  <2> QED BY <2>4, <2>5
<1>16. ~core.wild => Streamed'
  <2>1. CASE ~host.rtt
    BY <1>1, <1>2, <1>4, <1>5, <1>6, <2>1 DEF Stream, Streamed, Flushing, Decides
  <2>2. CASE host.rtt
    <3>1. ~core.wild => ram.sent = 0 \/ ram.block = "ready"
      BY <1>2, <1>3 DEF Stream, Sending
    <3>2. ~core.wild => ram.sent = 0 \/ ram'.queue = <<>>
      BY <1>5, <2>2, <3>1
    <3> QED BY <1>1, <1>4, <1>5, <1>15, <2>2, <3>2 DEF Streamed, Flushing
  <2> QED BY <1>3, <2>1, <2>2
<1>17. Stream'
  BY <1>1, <1>4, <1>14, <1>16 DEF Stream
<1> QED BY <1>9, <1>11, <1>12, <1>13, <1>17 DEF IndInv

\* A read fails; what it has taken off the channel is lost, and so is what is not read
\* any more.
LEMMA PollFailsKeepsIndInv ==
  ASSUME IndInv, PollFails
  PROVE  IndInv'
<1>1. /\ TypeOK /\ UNCHANGED <<setup, core, driver, late, exit, results>> /\ host.at = "poll" /\ host.rtt
      /\ setup \in Setups /\ core \in CoreType /\ ram \in RamType /\ driver \in DriverType
      /\ host \in HostType /\ late \in BOOLEAN /\ exit \in BOOLEAN /\ faults \in 0..MaxFaults
      /\ stream \in StreamType /\ results \in [DOMAIN Tests -> Results]
      /\ faults < MaxFaults /\ faults' = faults + 1
  BY TypesAre DEF IndInv, PollFails, Aside
<1>2. CoreStops /\ Decides /\ Asks /\ Stream
  BY DEF IndInv
<1>3. /\ ram.queue \in Seq(0..MaxSent) /\ Len(ram.queue) \in Nat /\ ram.sent \in Nat
      /\ host.tries \in 0..Retries /\ stream.lost \in BOOLEAN
  <2>1. ram.queue \in Seq(0..MaxSent) /\ ram.sent \in 0..MaxSent /\ host.tries \in 0..Retries
    BY <1>1, FieldsAre
  <2> QED BY <1>1, <2>1, FieldsAre, LenProperties, BoundsAssumption
<1>4. faults' \in 0..MaxFaults
  BY <1>1, BoundsAssumption
<1>5. /\ host' \in HostType /\ host'.run = host.run /\ host'.asked = host.asked
      /\ host'.reason = host.reason /\ host'.decided = host.decided /\ host'.rtt = host.rtt
      /\ host'.at \in {"poll", "timer"} /\ host'.tries < Retries
      /\ host'.at = "timer" => GivesUp
  <2>1. "timer" \in Places /\ 0 \in 0..Retries /\ 0 < Retries
    BY RetriesAssumption DEF Places
  <2>2. CASE GivesUp
    <3>1. host' = [host EXCEPT !.at = "timer", !.tries = 0]
      BY <2>2 DEF PollFails
    <3>2. host' \in HostType
      BY <1>1, <2>1, <3>1 DEF HostType
    <3> QED BY <1>1, <2>1, <2>2, <3>1, <3>2 DEF HostType
  <2>3. CASE ~GivesUp
    <3>1. host' = [host EXCEPT !.tries = host.tries + 1]
      BY <2>3 DEF PollFails
    <3>2. host.tries + 1 \in 0..Retries /\ host.tries + 1 < Retries
      BY <1>2, <1>3, <2>3, RetriesAssumption DEF Decides, GivesUp
    <3>3. host' \in HostType
      BY <1>1, <3>1, <3>2 DEF HostType
    <3>4. /\ host'.run = host.run /\ host'.asked = host.asked /\ host'.at = host.at
          /\ host'.reason = host.reason /\ host'.decided = host.decided /\ host'.rtt = host.rtt
          /\ host'.tries = host.tries + 1
      BY <1>1, <3>1 DEF HostType
    <3> QED BY <1>1, <3>2, <3>3, <3>4
  <2> QED BY <2>2, <2>3
<1>6. /\ ram' \in RamType /\ ram'.init = ram.init /\ ram'.block = ram.block /\ ram'.sent = ram.sent
      /\ ram'.queue \in {ram.queue, <<>>}
      /\ stream' \in StreamType /\ stream'.out = stream.out
      /\ stream'.lost \/ (ram' = ram /\ stream'.lost = stream.lost /\ ~GivesUp)
  <2>1. CASE UNCHANGED ram /\ stream' = [stream EXCEPT !.lost = stream.lost \/ host.tries + 1 = Retries]
    <3>1. PICK b \in BOOLEAN : stream' = [stream EXCEPT !.lost = b] /\ b = (stream.lost \/ GivesUp)
      BY <2>1 DEF GivesUp
    <3>2. stream' \in StreamType /\ stream'.out = stream.out /\ stream'.lost = b
      BY <1>1, <3>1 DEF StreamType
    <3>3. b \/ (~GivesUp /\ b = stream.lost)
      BY <1>3, <3>1
    <3>4. stream'.lost \/ (stream'.lost = stream.lost /\ ~GivesUp)
      BY <3>2, <3>3, Zenon
    <3> QED BY <1>1, <2>1, <3>2, <3>4
  <2>2. CASE Taken /\ stream' = [stream EXCEPT !.lost = TRUE]
    <3>1. PICK q : ram' = [ram EXCEPT !.queue = q] /\ q = IF ram.block = "ready" THEN <<>> ELSE ram.queue
      BY <2>2 DEF Taken
    <3>2. <<>> \in Seq(0..MaxSent)
      OBVIOUS
    <3>3. q \in Seq(0..MaxSent) /\ q \in {ram.queue, <<>>}
      BY <1>3, <3>1, <3>2
    <3>4. ram' \in RamType
      BY <1>1, <3>1, <3>3 DEF RamType
    <3>5. /\ ram'.init = ram.init /\ ram'.block = ram.block /\ ram'.sent = ram.sent
          /\ ram'.queue = q
      BY <1>1, <3>1 DEF RamType
    <3>6. stream' \in StreamType /\ stream'.out = stream.out /\ stream'.lost = TRUE
      BY <1>1, <2>2 DEF StreamType
    <3> QED BY <3>3, <3>4, <3>5, <3>6
  <2> QED BY <2>1, <2>2 DEF PollFails
<1>7. TypeOK'
  BY <1>1, <1>4, <1>5, <1>6, TypesKept
<1>8. Kind' = Kind
  BY <1>1, <1>5, SameRun
<1>9. CoreStops'
  BY <1>1, <1>2, <1>5 DEF CoreStops, Setting
<1>10. Decides'
  BY <1>1, <1>2, <1>5, <1>8 DEF Decides
<1>11. Asks'
  BY <1>1, <1>2, <1>5, <1>8 DEF Asks
<1>12. ~core.wild => Sending'
  BY <1>1, <1>2, <1>5, <1>6 DEF Stream, Sending, Setting
<1>13. ~core.wild => Queued'
  <2>1. CASE ram'.queue = ram.queue
    BY <1>2, <1>6, <2>1 DEF Stream, Queued
  <2>2. CASE ram'.queue = <<>>
    BY <1>3, <1>6, <2>2 DEF Queued
  <2> QED BY <1>6, <2>1, <2>2
<1>14. ~core.wild => Streamed'
  <2>1. CASE stream'.lost
    BY <1>1, <1>5, <2>1 DEF Streamed
  <2>2. CASE ram' = ram /\ stream'.lost = stream.lost /\ ~GivesUp
    BY <1>1, <1>2, <1>5, <1>6, <2>2 DEF Stream, Streamed, Flushing, Decides
  <2> QED BY <1>6, <2>1, <2>2
<1>15. Stream'
  BY <1>1, <1>5, <1>12, <1>13, <1>14 DEF Stream
<1> QED BY <1>7, <1>9, <1>10, <1>11, <1>15 DEF IndInv

-----------------------------------------------------------------------------
(* The whole.                                                              *)

\* The time passes, the user presses CTRL + C, and nothing happens any more.
LEMMA AsideKeepsIndInv ==
  ASSUME IndInv, UNCHANGED <<setup, core, ram, driver, host, stream, results, faults>>,
         late' \in BOOLEAN, exit' \in BOOLEAN
  PROVE  IndInv'
<1>1. /\ setup \in Setups /\ core \in CoreType /\ ram \in RamType /\ driver \in DriverType
      /\ host \in HostType /\ faults \in 0..MaxFaults
      /\ stream \in StreamType /\ results \in [DOMAIN Tests -> Results]
  BY TypesAre DEF IndInv
<1>2. TypeOK'
  BY <1>1, TypesKept DEF IndInv
<1>3. Kind' = Kind
  BY SameRun
<1>4. CoreStops' /\ Decides' /\ Asks'
  BY <1>3 DEF IndInv, CoreStops, Decides, Asks, Setting
<1>5. Stream'
  BY DEF IndInv, Stream, Sending, Queued, Streamed, Setting, Flushing
<1> QED BY <1>2, <1>4, <1>5 DEF IndInv

\* It holds when a run of probe-rs begins.
LEMMA InitIndInv == Init => IndInv
<1> SUFFICES ASSUME Init PROVE IndInv
  OBVIOUS
<1>2. setup \in Setups /\ late \in BOOLEAN /\ exit \in BOOLEAN /\ faults \in 0..MaxFaults
  <2>1. 0 \in 0..MaxFaults
    BY BoundsAssumption
  <2>2. setup \in Setups /\ late = FALSE /\ exit = FALSE /\ faults = 0
    BY DEF Init
  <2> QED BY <2>1, <2>2
<1>3. core \in CoreType /\ core.call = "none" /\ core.wild = FALSE
  <2>1. "none" \in Names /\ 0 \in 0..MaxCalls
    BY BoundsAssumption DEF Names
  <2> QED BY <2>1 DEF Init, CoreType
<1>4. ram \in RamType /\ ram.queue = <<>> /\ ram.sent = 0 /\ ram.init = 0
  <2>1. <<>> \in Seq(0..MaxSent) /\ 0 \in 0..2 /\ 0 \in 0..MaxSent
    BY BoundsAssumption
  <2> QED BY <2>1 DEF Init, RamType
<1>5. driver \in DriverType /\ driver.command = "none" /\ driver.catch = {}
  BY DEF Init, DriverType
<1>6. /\ host \in HostType /\ host.at = "halt" /\ host.asked = FALSE /\ host.reason = "none"
      /\ host.decided = "none" /\ host.rtt = FALSE /\ host.tries = 0
  <2>1. 1 \in DOMAIN RunList
    <3>1. DOMAIN RunList = 1 .. Len(RunList) /\ Len(RunList) \in Nat \ {0}
      BY <1>2, RunListIs
    <3> QED BY <3>1
  <2>2. "halt" \in Places /\ 0 \in 0..Retries
    BY RetriesAssumption DEF Places
  <2>3. host = Begin(1, "halt")
    BY DEF Init
  <2> QED BY <2>1, <2>2, <2>3 DEF Begin, HostType
<1>7. stream \in StreamType /\ stream.out = <<>> /\ stream.lost = FALSE
  BY DEF Init, StreamType
<1>8. results \in [DOMAIN Tests -> Results]
  BY DEF Init, Results
<1>9. TypeOK
  BY <1>2, <1>3, <1>4, <1>5, <1>6, <1>7, <1>8, TypesAre
<1>10. CoreStops /\ Decides /\ Asks
  BY <1>3, <1>5, <1>6, RetriesAssumption DEF CoreStops, Decides, Asks
<1>11. Len(<<>>) = 0
  OBVIOUS
<1>12. Stream
  BY <1>4, <1>6, <1>7, <1>11 DEF Stream, Sending, Queued, Streamed
<1> QED BY <1>9, <1>10, <1>12 DEF IndInv

\* Every step keeps it.
LEMMA StepKeepsIndInv == IndInv /\ [Next]_vars => IndInv'
<1>1. SUFFICES ASSUME IndInv, [Next]_vars PROVE IndInv'
  OBVIOUS
<1>2. late \in BOOLEAN /\ exit \in BOOLEAN
  BY <1>1, TypesAre DEF IndInv
<1>3. CASE Target
  BY <1>1, <1>3, TargetKeepsIndInv
<1>4. CASE Host
  BY <1>1, <1>4, ResetKeepsIndInv, HaltKeepsIndInv, CatchKeepsIndInv, ResumeKeepsIndInv,
     AttachKeepsIndInv, CheckKeepsIndInv, PollKeepsIndInv, PollFailsKeepsIndInv,
     TimerKeepsIndInv, UserStopsKeepsIndInv, ReturnKeepsIndInv,
     StacktraceKeepsIndInv DEF Host
<1>5. CASE Elapse
  BY <1>1, <1>2, <1>5, AsideKeepsIndInv DEF Elapse
<1>6. CASE PressCtrlC
  BY <1>1, <1>2, <1>6, AsideKeepsIndInv DEF PressCtrlC
<1>7. CASE UNCHANGED vars
  BY <1>1, <1>2, <1>7, AsideKeepsIndInv DEF vars
<1> QED BY <1>1, <1>3, <1>4, <1>5, <1>6, <1>7 DEF Next, Done

\* It holds of every state that can be reached.
LEMMA IndInvHolds == Spec => []IndInv
BY InitIndInv, StepKeepsIndInv, PTL DEF Spec

\* Everything has its type at every moment.
THEOREM TypesHold == Spec => []TypeOK
<1>1. IndInv => TypeOK
  BY DEF IndInv
<1> QED BY <1>1, IndInvHolds, PTL

\* When run_until returns what the handler decided, the core is halted and all that the
\* program had sent by then was printed, in order and once, unless something was lost or
\* the program has reset itself unseen.
THEOREM DecidedAfterTheStream == Spec => []ReturnsHaltedAndFlushed
<1>1. IndInv => ReturnsHaltedAndFlushed
  <2>1. SUFFICES ASSUME IndInv, host.at = "return", host.reason = "decided"
                 PROVE  /\ core.is = "halted"
                        /\ host.rtt /\ ~core.wild /\ ~stream.lost => stream.out = Sent
    BY DEF ReturnsHaltedAndFlushed
  <2>2. core.is = "halted" /\ host.decided # "none"
    BY <2>1 DEF IndInv, Decides
  <2>3. ASSUME host.rtt, ~core.wild, ~stream.lost PROVE stream.out = Sent
    <3>1. /\ stream.out = Upto(setup, ram.sent - Len(ram.queue))
          /\ ram.sent = 0 \/ ram.queue = <<>>
      BY <2>1, <2>2, <2>3 DEF IndInv, Stream, Streamed, Flushing
    <3>2. ram.sent \in Nat /\ Len(ram.queue) \in Nat
      <4>1. ram.queue \in Seq(0..MaxSent) /\ ram.sent \in 0..MaxSent
        BY <2>1, TypesAre, FieldsAre DEF IndInv
      <4> QED BY <4>1, LenProperties, BoundsAssumption
    <3>3. Upto(setup, ram.sent - Len(ram.queue)) = Upto(setup, ram.sent)
      <4>1. CASE ram.sent = 0
        <5>1. /\ ram.sent - Len(ram.queue) \in Int /\ ram.sent - Len(ram.queue) <= 0
              /\ ram.sent \in Int /\ ram.sent <= 0
          BY <3>2, <4>1
        <5> QED BY <5>1, UptoIs
      <4>2. CASE ram.queue = <<>>
        <5>1. ram.sent - Len(ram.queue) = ram.sent
          BY <3>2, <4>2
        <5> QED BY <5>1
      <4> QED BY <3>1, <4>1, <4>2
    <3> QED BY <3>1, <3>3 DEF Sent
  <2> QED BY <2>2, <2>3
<1> QED BY <1>1, IndInvHolds, PTL

\* A test passes or panics by the exit call of the program that was started for it and
\* told to run it.
THEOREM VerdictsAreTheTests == Spec => VerdictIsTheTests
<1>1. ASSUME IndInv, [Next]_vars, NEW t \in DOMAIN Tests,
             results'[t] # results[t], results'[t] \in {"pass", "panic"}
      PROVE  /\ core.is = "halted" /\ core.call = IF results'[t] = "pass" THEN "exit0" ELSE "exit1"
             /\ core.told = Tests[t] \/ core.wild
  <2>1. results' # results
    BY <1>1
  <2>2. ResetAndHalt \/ Return
    BY <1>1, <2>1, TargetIs
       DEF Next, Host, IndInv, Halt, CatchVectors, Resume, AttachRtt, AttachTimesOut, Check, Poll,
           PollFails, Timer, UserStops, StacktraceFails, Aside, Elapse, PressCtrlC, Done, vars
  <2>3. CASE ResetAndHalt
    <3>1. NextRun("failed")
      BY <2>1, <2>3 DEF ResetAndHalt
    <3>2. results'[t] = "failed"
      BY <1>1, <3>1, NextRunIs DEF IndInv
    <3> QED BY <1>1, <3>2
  <2>4. CASE Return
    <3>1. TypeOK /\ Decides
      BY <1>1 DEF IndInv
    <3>2. Outcome # "none" /\ NextRun(Outcome)
      BY <2>1, <2>4 DEF Return
    <3>3. /\ Outcome \in {"failed", "timeout", "pass", "panic", "tests"}
          /\ Outcome = "tests" => Kind = "list"
          /\ Outcome \in {"pass", "panic"} => host.decided = Outcome
      BY <3>1, <3>2, OutcomeIs
    <3>4. results'[t] = Outcome /\ Kind = Tests[t]
      BY <1>1, <3>1, <3>2, <3>3, NextRunIs
    <3> QED BY <1>1, <3>1, <3>3, <3>4 DEF Decides
  <2> QED BY <2>2, <2>3, <2>4
<1>2. IndInv /\ [Next]_vars =>
        [\A t \in DOMAIN Tests :
           results'[t] # results[t] /\ results'[t] \in {"pass", "panic"} =>
             /\ core.is = "halted" /\ core.call = IF results'[t] = "pass" THEN "exit0" ELSE "exit1"
             /\ core.told = Tests[t] \/ core.wild]_vars
  BY <1>1
<1> QED BY <1>2, IndInvHolds, PTL DEF Spec, VerdictIsTheTests

\* The loop lets a program go on behind a call with an answer: failure, or the command
\* line of this run.
THEOREM CallsHaveAnswers == Spec => CallsAreAnswered
<1>1. ASSUME IndInv, [Next]_vars, host.at = "check", core.call # "none", core'.call = "none"
      PROVE  \/ core'.op = "failed" /\ core'.told = core.told
             \/ core'.op = "ok" /\ core.call = "cmdline" /\ core'.told = Kind /\ Timed
  <2>1. core.is = "halted" /\ core' # core
    BY <1>1 DEF IndInv, CoreStops
  <2>2. Check \/ UserStops
    BY <1>1, <2>1, TargetIs
       DEF Next, Host, IndInv, ResetAndHalt, Halt, CatchVectors, Resume, AttachRtt, AttachTimesOut, Poll,
           PollFails, Timer, Return, StacktraceFails, Elapse, PressCtrlC, Done, vars
  <2>3. CASE UserStops
    <3>1. core' = Halted(core) \/ core' = core
      BY <2>3 DEF UserStops, Fails
    <3>2. core \in CoreType
      BY <1>1, TypesAre DEF IndInv
    <3> QED BY <1>1, <3>1, <3>2, HaltedIs
  <2>4. CASE Check
    <3> DEFINE call == IF AtCall(core) THEN Command(core, driver) ELSE "stop"
               c == IF AtCall(core) THEN Decoded(core, driver) ELSE core
               d == IF AtCall(core) THEN Remembers(core, driver) ELSE driver
    <3>1. PICK v \in Handler(call, c) :
            /\ core' \in IF v.decided = "none" THEN Resumed(v.core) ELSE {v.core}
            /\ driver' = IF v.decided = "none" THEN Forgotten(d) ELSE d
            /\ host' = [host EXCEPT !.at = "poll", !.asked = v.asked, !.decided = v.decided]
      BY <2>1, <2>4 DEF Check, Fails
    <3>2. Aside
      BY <2>4 DEF Check
    <3>3. /\ host'.decided # "none" => core'.call = core.call
          /\ host'.decided = "none" =>
               \/ /\ Kind = "normal" /\ core'.op = "failed" /\ core'.told = core.told
               \/ /\ Kind # "normal" /\ core'.op = "ok" /\ core.call = "cmdline"
                  /\ core'.call = "none" => core'.told = Kind
      BY <1>1, <2>1, <3>1, <3>2, CheckIs
    <3>4. Kind # "normal" => Timed
      <4>1. setup \in Setups /\ host.run \in DOMAIN RunList
        BY <1>1, TypesAre, FieldsAre DEF IndInv
      <4> QED BY <4>1, KindIs, SetupIs DEF Timed
    <3> QED BY <1>1, <3>3, <3>4
  <2> QED BY <2>2, <2>3, <2>4
<1>2. IndInv /\ [Next]_vars =>
        [host.at = "check" /\ core.call # "none" /\ core'.call = "none" =>
           \/ core'.op = "failed" /\ core'.told = core.told
           \/ core'.op = "ok" /\ core.call = "cmdline" /\ core'.told = Kind /\ Timed]_vars
  BY <1>1
<1> QED BY <1>2, IndInvHolds, PTL DEF Spec, CallsAreAnswered

=============================================================================
