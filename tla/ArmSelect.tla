----------------------------- MODULE ArmSelect -----------------------------
(***************************************************************************)
(* Which debug port, access port and register bank an access reaches       *)
(* (probe-rs/src/architecture/arm/communication_interface.rs with the      *)
(* default sequences of sequences.rs).  The interface remembers, per debug *)
(* port, what it last wrote to that port's SELECT register and writes it   *)
(* only when an access needs another value.  Switching between the debug   *)
(* ports of a multidrop target stops one, connects the other, starts it,   *)
(* and on its first use enumerates its access ports.                       *)
(*                                                                         *)
(* Every transfer to the target is a step of its own and may fail, with or *)
(* without having had its effect.                                          *)
(***************************************************************************)
EXTENDS Integers, Sequences

CONSTANTS
  DPs,        \* debug ports on the wire
  NoDp,       \* none of them
  First,      \* the one the interface is opened with
  NumAps,     \* the number of access ports of each
  IdBank,     \* the bank of IDR, BASE and CFG, other than bank 0
  DpBanks,    \* banks of debug port registers used
  MaxFaults   \* bound: failing transfers

ASSUME FirstAssumption == First \in DPs /\ NoDp \notin DPs
ASSUME NumApsAssumption == NumAps \in [DPs -> Nat]
ASSUME BankAssumption == IdBank \in Nat \ {0} /\ DpBanks \subseteq Nat /\ 0 \in DpBanks
ASSUME MaxFaultsAssumption == MaxFaults \in Nat

VARIABLES
  \* the interface
  opened, current, known, cache,
  infos,     \* ap_information: the access ports described, in order of discovery
  \* the operation under way
  op,        \* [dp, kind, ap, bank]
  phase, fresh, n, k, found, result,
  \* the target
  connected, select, powered,
  \* bound, and history: the last access, the debug ports on which an operation
  \* failed, those whose enumeration met an error, those switched back to
  faults, last, failedOn, cut, returned

host == <<opened, current, known, cache, infos, op, phase, fresh, n, k, found, result>>
target == <<connected, select, powered>>
history == <<faults, last, failedOn, cut, returned>>
vars == <<host, target, history>>

Zero == [dpbank |-> 0, ap |-> 0, apbank |-> 0]

DpReg(dp, bank) == [dp |-> dp, port |-> "dp", ap |-> 0, bank |-> bank]
ApReg(dp, ap, bank) == [dp |-> dp, port |-> "ap", ap |-> ap, bank |-> bank]

NoAccess == [asked |-> DpReg(First, 0), reached |-> DpReg(First, 0), powered |-> FALSE]

Init ==
  /\ opened = FALSE /\ current = First /\ known = {}
  /\ cache = [dp \in DPs |-> Zero] /\ infos = [dp \in DPs |-> <<>>]
  /\ op = [dp |-> First, kind |-> "info", ap |-> 0, bank |-> 0]
  /\ phase = "idle" /\ fresh = FALSE /\ n = 0 /\ k = 0 /\ found = 0 /\ result = "ok"
  /\ connected = First /\ select = [dp \in DPs |-> Zero] /\ powered = [dp \in DPs |-> FALSE]
  /\ faults = 0 /\ failedOn = {} /\ cut = {} /\ returned = {}
  /\ last = NoAccess

-----------------------------------------------------------------------------
(* Operations.  Each begins with select_dp.                                *)

Goto(p) == phase' = p /\ result' = IF p = "idle" THEN "ok" ELSE "none"

Selected(o) == IF o.kind = "info" THEN "idle" ELSE "user"

\* A debug port without a state gets one, and its start sequence is then run.
Register(dp) == known' = known \cup {dp} /\ fresh' = (dp \notin known)

\* initialize: the set-up sequence, then the selection of the first debug port.
Open ==
  /\ ~opened /\ phase = "idle"
  /\ op' = [dp |-> First, kind |-> "info", ap |-> 0, bank |-> 0]
  /\ connected' = First /\ select' = [select EXCEPT ![First] = Zero]
  /\ Register(First) /\ Goto("abort") /\ n' = 0 /\ k' = 0
  /\ UNCHANGED <<opened, current, cache, infos, found, powered, history>>

Begin(o) ==
  /\ opened /\ phase = "idle" /\ op' = o /\ n' = 0 /\ k' = 0
  /\ IF current # o.dp THEN Goto("stop") /\ UNCHANGED <<known, fresh>>
     ELSE /\ Register(o.dp)
          /\ Goto(IF o.dp \in known THEN Selected(o) ELSE "abort")
  /\ UNCHANGED <<opened, current, cache, infos, found, target, history>>

\* The interface is dropped: the stop sequence, its errors ignored.
Close ==
  /\ opened /\ phase = "idle"
  /\ opened' = FALSE /\ current' = First /\ known' = {}
  /\ cache' = [dp \in DPs |-> Zero] /\ infos' = [dp \in DPs |-> <<>>]
  /\ powered' = IF connected = NoDp THEN powered ELSE [powered EXCEPT ![connected] = FALSE]
  /\ select' = IF connected = NoDp THEN select ELSE [select EXCEPT ![connected] = Zero]
  /\ failedOn' = {} /\ cut' = {} /\ returned' = {} /\ last' = NoAccess
  /\ UNCHANGED <<op, phase, fresh, n, k, found, result, connected, faults>>

-----------------------------------------------------------------------------
(* How a step fails.                                                       *)

MayFail == faults < MaxFaults \/ connected = NoDp
Fault == faults' = IF connected = NoDp THEN faults ELSE faults + 1

\* An operation ends with an error; an interface that was not open yet is dropped.
Abandon ==
  /\ MayFail /\ Fault /\ phase' = "idle" /\ result' = "err"
  /\ IF opened THEN failedOn' = failedOn \cup {op.dp, current} /\ UNCHANGED <<known, infos>>
     ELSE known' = {} /\ infos' = [dp \in DPs |-> <<>>] /\ UNCHANGED failedOn
  /\ UNCHANGED <<opened, current, op, fresh, n, k, found, last, cut, returned>>

\* Slip: the access port at which the enumeration ends is counted.
SlipEndOfScan ==
  /\ found' = n + 1 /\ n' = 0 /\ k' = 0 /\ Goto("info")

\* The enumeration ends at the first access port whose IDR is not read.
EndOfScan ==
  /\ found' = n /\ n' = 0 /\ k' = 0
  /\ IF n = 0 THEN Goto(Selected(op)) ELSE Goto("info")

\* An error of the enumeration is taken for its end.
CutShort ==
  /\ MayFail /\ Fault /\ EndOfScan /\ cut' = cut \cup {op.dp}
  /\ opened' = (opened \/ phase' = "idle")
  /\ UNCHANGED <<current, known, infos, op, fresh, last, failedOn, returned>>

\* The cache is lost with the interface when that was not open yet.
Cached(c) == cache' = IF opened \/ phase = "scan" THEN c ELSE [dp \in DPs |-> Zero]

FailStep(c) == (IF phase = "scan" THEN CutShort ELSE Abandon) /\ Cached(c)

-----------------------------------------------------------------------------
(* select_dp: stop the current debug port, connect the other and start it. *)

Quiet == UNCHANGED <<opened, infos, op, n, k, found, faults, last, failedOn, cut>>

StopSelect ==
  /\ phase = "stop" /\ connected # NoDp
  /\ select' = [select EXCEPT ![connected] = Zero]
  /\ \/ Goto("off") /\ Quiet /\ UNCHANGED <<current, known, cache, fresh, returned>>
     \/ FailStep(cache)
  /\ UNCHANGED <<connected, powered>>

StopPower ==
  /\ phase = "off" /\ connected # NoDp
  /\ powered' = [powered EXCEPT ![connected] = FALSE]
  /\ \/ Goto("connect") /\ Quiet /\ UNCHANGED <<current, known, cache, fresh, returned>>
     \/ FailStep(cache)
  /\ UNCHANGED <<connected, select>>

\* Slip: a debug port that is known is not started again.
SlipConnect ==
  /\ phase = "connect"
  /\ connected' = op.dp /\ select' = [select EXCEPT ![op.dp] = Zero]
  /\ current' = op.dp /\ Register(op.dp)
  /\ Goto(IF op.dp \in known THEN Selected(op) ELSE "abort")
  /\ returned' = IF op.dp \in known THEN returned \cup {op.dp} ELSE returned
  /\ Quiet /\ UNCHANGED <<cache, powered>>

Connect ==
  /\ phase = "connect"
  /\ connected' = op.dp /\ select' = [select EXCEPT ![op.dp] = Zero]
  /\ current' = op.dp /\ Register(op.dp) /\ Goto("abort")
  /\ returned' = IF op.dp \in known THEN returned \cup {op.dp} ELSE returned
  /\ Quiet /\ UNCHANGED <<cache, powered>>

\* Both ways of connecting fail, at any of their transfers.
ConnectFails ==
  /\ phase = "connect" /\ FailStep(cache)
  /\ \/ connected' = NoDp /\ UNCHANGED select
     \/ /\ connected' = op.dp
        /\ \E bank \in DpBanks : select' = [select EXCEPT ![op.dp] = [Zero EXCEPT !.dpbank = bank]]
  /\ UNCHANGED powered

\* The start sequence writes SELECT past the cache.
StartSelect ==
  /\ phase = "zero" /\ connected # NoDp
  /\ select' = [select EXCEPT ![connected] = Zero]
  /\ \/ Goto("power") /\ Quiet /\ UNCHANGED <<current, known, cache, fresh, returned>>
     \/ FailStep(cache)
  /\ UNCHANGED <<connected, powered>>

-----------------------------------------------------------------------------
(* Accesses to registers.                                                  *)

Asked ==
  CASE phase = "scan" -> ApReg(op.dp, n, IdBank)
    [] phase = "info" -> ApReg(op.dp, n, IF k = 1 THEN 0 ELSE IdBank)
    [] phase = "user" /\ op.kind = "ap" -> ApReg(op.dp, op.ap, op.bank)
    [] phase = "user" /\ op.kind = "dp" -> DpReg(op.dp, op.bank)
    [] OTHER -> DpReg(op.dp, 0)

Accessing == phase \in {"abort", "power", "ctrl", "scan", "info", "user"}

\* Slip: a bank of the selected access port is not told from another.
SlipWanted(s, reg) ==
  IF reg.port = "dp" THEN [s EXCEPT !.dpbank = reg.bank]
  ELSE IF s.ap = reg.ap THEN s ELSE [s EXCEPT !.ap = reg.ap, !.apbank = reg.bank]

Wanted(s, reg) ==
  IF reg.port = "dp" THEN [dpbank |-> reg.bank, ap |-> s.ap, apbank |-> s.apbank]
  ELSE [dpbank |-> s.dpbank, ap |-> reg.ap, apbank |-> reg.bank]

\* The cache is changed first, then SELECT is written from it.
Select ==
  /\ Accessing /\ Wanted(cache[op.dp], Asked) # cache[op.dp]
  /\ LET wanted == Wanted(cache[op.dp], Asked)
         changed == [cache EXCEPT ![op.dp] = wanted]
     IN \/ /\ connected # NoDp
           /\ select' = [select EXCEPT ![connected] = wanted]
           /\ \/ cache' = changed /\ Quiet /\ UNCHANGED <<current, known, fresh, phase, result, returned>>
              \/ FailStep(changed)
        \/ FailStep(changed) /\ UNCHANGED select
  /\ UNCHANGED <<connected, powered>>

\* What the access reaches: the register of the selected bank and port.
Reached(port) ==
  IF port = "dp" THEN DpReg(connected, select[connected].dpbank)
  ELSE ApReg(connected, select[connected].ap, select[connected].apbank)

Perform ==
  /\ Accessing /\ connected # NoDp /\ Wanted(cache[op.dp], Asked) = cache[op.dp]
  /\ last' = [asked |-> Asked, reached |-> Reached(Asked.port), powered |-> powered[connected]]

Unscanned == UNCHANGED <<n, k, found, infos>>

Continue ==
  \/ phase = "abort" /\ Goto("zero") /\ Unscanned
  \/ phase = "power" /\ Goto(IF fresh THEN "ctrl" ELSE Selected(op)) /\ Unscanned
  \/ phase = "ctrl" /\ Goto("scan") /\ Unscanned
  \/ phase = "user" /\ Goto("idle") /\ Unscanned
  \/ /\ phase = "scan" /\ last'.reached.ap < NumAps[connected]
     /\ n' = n + 1 /\ UNCHANGED <<k, found, infos, phase, result>>
  \/ phase = "scan" /\ last'.reached.ap >= NumAps[connected] /\ EndOfScan /\ UNCHANGED infos
  \/ phase = "info" /\ k < 2 /\ k' = k + 1 /\ UNCHANGED <<n, found, infos, phase, result>>
  \/ /\ phase = "info" /\ k = 2
     /\ infos' = [infos EXCEPT ![op.dp] = Append(@, last'.reached.ap)]
     /\ n' = n + 1 /\ k' = 0 /\ UNCHANGED found
     /\ Goto(IF n + 1 = found THEN Selected(op) ELSE "info")

Access ==
  /\ Perform /\ Continue
  /\ powered' = IF phase = "power" THEN [powered EXCEPT ![connected] = TRUE] ELSE powered
  /\ opened' = (opened \/ phase' = "idle")
  /\ UNCHANGED <<current, known, cache, op, fresh, connected, select, faults, failedOn, cut, returned>>

AccessFails ==
  /\ Accessing /\ Wanted(cache[op.dp], Asked) = cache[op.dp]
  /\ FailStep(cache)
  /\ UNCHANGED target

\* A transfer of the switch fails without an effect.
TransferFails ==
  /\ phase \in {"stop", "off", "zero"}
  /\ FailStep(cache) /\ UNCHANGED target

-----------------------------------------------------------------------------
Ops ==
  {[dp |-> dp, kind |-> "dp", ap |-> 0, bank |-> bank] : dp \in DPs, bank \in DpBanks}
  \cup (UNION {{[dp |-> dp, kind |-> "ap", ap |-> ap, bank |-> bank] :
                  ap \in 0 .. NumAps[dp] - 1, bank \in {0, IdBank}} : dp \in DPs})
  \cup {[dp |-> dp, kind |-> "info", ap |-> 0, bank |-> 0] : dp \in DPs}

Next ==
  \/ Open \/ Close \/ \E o \in Ops : Begin(o)
  \/ StopSelect \/ StopPower \/ Connect \/ ConnectFails \/ StartSelect \/ TransferFails
  \/ Select \/ Access \/ AccessFails

Spec == Init /\ [][Next]_vars

-----------------------------------------------------------------------------
TypeOK ==
  /\ opened \in BOOLEAN /\ current \in DPs /\ known \subseteq DPs
  /\ \A dp \in DPs : cache[dp].dpbank \in DpBanks /\ cache[dp].apbank \in {0, IdBank}
                     /\ Len(infos[dp]) <= NumAps[dp]
  /\ op \in Ops /\ connected \in DPs \cup {NoDp}
  /\ phase \in {"idle", "stop", "off", "connect", "abort", "zero", "power", "ctrl", "scan", "info", "user"}
  /\ result \in {"none", "ok", "err"} /\ faults \in 0 .. MaxFaults

\* Bank switching and selection (traits.rs 174-176): an access reaches the register
\* it is for, on every debug port on which no operation has failed, no error has
\* cut the enumeration short, and which has not been switched back to.
AccessReachesItsRegister ==
  last.asked.dp \notin failedOn \cup cut \cup returned => last.reached = last.asked

\* An access port is only used while its debug port is connected and powered up,
\* unless an operation on that debug port has failed.
AccessIsPowered ==
  last.asked.port = "ap" /\ last.asked.dp \notin failedOn =>
    last.powered /\ last.reached.dp = last.asked.dp

\* The access ports listed for a debug port are described at their own index, read
\* from themselves, and all of them are listed unless an error of the enumeration
\* was taken for its end.
InfosAreComplete ==
  opened /\ phase = "idle" =>
    \A dp \in known \ failedOn :
      /\ \A i \in 1 .. Len(infos[dp]) : infos[dp][i] = i - 1
      /\ dp \in cut \/ Len(infos[dp]) = NumAps[dp]

\* "Implementations are responsible for bank switching and AP selection"
\* (traits.rs 174-175): every access reaches the register it is for, whatever
\* debug ports were used in between, when no transfer fails.
EverySwitchIsHonoured == last.reached = last.asked
=============================================================================
