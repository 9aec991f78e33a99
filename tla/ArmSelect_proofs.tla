------------------------- MODULE ArmSelect_proofs -------------------------
(***************************************************************************)
(* For every set of debug ports, access ports and banks, and any number of *)
(* failing transfers: an access reaches the register it is for, and finds  *)
(* its debug port powered, on every debug port that no failure has touched *)
(* (and, for the former, that has not been switched back to); and the list *)
(* of access ports is right, also when an error has cut it short.          *)
(***************************************************************************)
EXTENDS ArmSelect, TLAPS

\* No failure has been seen on the debug port, nor has it been switched back to.
Clean(dp) == dp \notin failedOn /\ dp \notin cut /\ dp \notin returned

\* Between the stop of one debug port and the connection of the other.
Switching == phase \in {"off", "connect"}

\* Nothing is known of the target before the interface is opened.
InUse == opened \/ phase # "idle"

Phases == {"idle", "stop", "off", "connect", "abort", "zero", "power", "ctrl", "scan", "info", "user"}

\* The phases in which the operation is on the current debug port.
Settled == {"abort", "zero", "power", "ctrl", "scan", "info", "user"}

IsTable(f) == f = [dp \in DPs |-> f[dp]]

Shapes ==
  /\ current \in DPs /\ op.dp \in DPs /\ phase \in Phases /\ opened \in BOOLEAN
  /\ IsTable(cache) /\ IsTable(select) /\ IsTable(powered)

\* While the interface is being opened only the first debug port is concerned.
Opening ==
  ~opened => /\ current = First /\ phase \notin {"stop", "off", "connect", "user"}
             /\ phase # "idle" => op.kind = "info"
             /\ phase = "idle" => cache = [dp \in DPs |-> Zero]

\* From the connection on, the operation is on the current debug port, and that
\* has a state.
OnCurrent == phase \in Settled => op.dp = current /\ op.dp \in known

\* A debug port without a state has never been selected on.
UnknownIsZero == \A dp \in DPs : dp \notin known => cache[dp] = Zero

\* The start sequence may write SELECT past the cache: it holds zero.
StartsAtZero ==
  phase \in {"abort", "zero"} /\ Clean(current) => cache[current] = Zero

ConnectedToCurrent ==
  InUse /\ ~Switching /\ current \notin failedOn => connected = current

CacheIsExact ==
  InUse /\ ~Switching /\ Clean(current) => select[current] = cache[current]

\* The start sequence has powered the debug port up.
Started ==
  InUse /\ current \notin failedOn /\ phase \in {"idle", "stop", "ctrl", "scan", "info", "user"}
    => powered[current]

HostInv == Shapes /\ Opening /\ OnCurrent /\ UnknownIsZero
TargetInv == StartsAtZero /\ ConnectedToCurrent /\ CacheIsExact /\ Started
IndInv == HostInv /\ TargetInv /\ AccessReachesItsRegister /\ AccessIsPowered

-----------------------------------------------------------------------------
\* Before the interface is opened (Uninitialized) the invariant holds.
THEOREM InitIndInv == Init => IndInv
<1> SUFFICES ASSUME Init PROVE IndInv
  OBVIOUS
<1>1. HostInv
  BY FirstAssumption DEF Init, HostInv, Shapes, Phases, Settled, IsTable, Opening,
         OnCurrent, UnknownIsZero
<1>2. TargetInv
  BY DEF Init, TargetInv, StartsAtZero, ConnectedToCurrent, CacheIsExact, Started, InUse
<1>3. AccessReachesItsRegister /\ AccessIsPowered
  BY DEF Init, NoAccess, DpReg, AccessReachesItsRegister, AccessIsPowered
<1> QED
  BY <1>1, <1>2, <1>3 DEF IndInv

\* The two properties only depend on the last access and on where failures were
\* met, and the latter only spreads.
LEMMA LastAccessKept ==
  ASSUME IndInv, last' = last, failedOn \subseteq failedOn', cut \subseteq cut', returned \subseteq returned'
  PROVE (AccessReachesItsRegister /\ AccessIsPowered)'
  BY DEF IndInv, AccessReachesItsRegister, AccessIsPowered

-----------------------------------------------------------------------------
(* The failing steps.  What the step did to the target no longer matters:  *)
(* the debug ports concerned are no longer among the clean ones.           *)

\* An operation that ends with an error keeps the invariant.
LEMMA AbandonKeeps ==
  ASSUME IndInv, NEW c, Abandon, phase # "scan", Cached(c), IsTable(c), IsTable(select'), IsTable(powered'),
         \A dp \in DPs : dp \notin known => c[dp] = Zero
  PROVE IndInv'
<1>1. HostInv'
  <2>1. CASE opened
    BY <2>1 DEF IndInv, HostInv, Shapes, Phases, Settled, Opening, OnCurrent, UnknownIsZero,
           Abandon, Cached, IsTable
  <2>2. CASE ~opened
    BY <2>2 DEF IndInv, HostInv, Shapes, Phases, Settled, Opening, OnCurrent, UnknownIsZero,
           Abandon, Cached, IsTable
  <2> QED
    BY <2>1, <2>2
<1>2. TargetInv'
  BY DEF IndInv, HostInv, Shapes, Opening, Abandon, TargetInv, StartsAtZero,
         ConnectedToCurrent, CacheIsExact, Started, InUse, Switching, Clean
<1>3. (AccessReachesItsRegister /\ AccessIsPowered)'
  BY LastAccessKept DEF Abandon
<1> QED
  BY <1>1, <1>2, <1>3 DEF IndInv

\* Where the enumeration goes on when it ends.
LEMMA EndOfScanGoes ==
  ASSUME EndOfScan
  PROVE phase' \in {"idle", "user", "info"} /\ (op.kind = "info" => phase' # "user")
BY DEF EndOfScan, Goto, Selected

\* An error taken for the end of the enumeration (ap/mod.rs 225-232) does too.
LEMMA CutShortKeeps ==
  ASSUME IndInv, NEW c, CutShort, phase = "scan", Cached(c), IsTable(c), IsTable(select'),
         powered' = powered, connected' = connected, \A dp \in DPs : dp \notin known => c[dp] = Zero
  PROVE IndInv'
<1>0. EndOfScan /\ phase' \in {"idle", "user", "info"} /\ (op.kind = "info" => phase' # "user")
  BY EndOfScanGoes DEF CutShort
<1>1. HostInv'
  BY <1>0 DEF IndInv, HostInv, Shapes, Phases, Settled, Opening, OnCurrent, UnknownIsZero,
         CutShort, Cached, IsTable
<1>2. op.dp = current /\ current' = current /\ cut' = cut \cup {current} /\ failedOn' = failedOn
  BY DEF IndInv, HostInv, OnCurrent, Settled, CutShort
<1>3. TargetInv'
  BY <1>0, <1>2 DEF IndInv, TargetInv, StartsAtZero, ConnectedToCurrent, CacheIsExact,
         Started, InUse, Switching, Clean
<1>4. (AccessReachesItsRegister /\ AccessIsPowered)'
  BY LastAccessKept DEF CutShort
<1> QED
  BY <1>1, <1>3, <1>4 DEF IndInv

\* So does every failing step, whatever it has left in SELECT.
LEMMA FailStepKeeps ==
  ASSUME IndInv, NEW c, FailStep(c), IsTable(c), IsTable(select'), IsTable(powered'),
         phase = "scan" => powered' = powered /\ connected' = connected,
         \A dp \in DPs : dp \notin known => c[dp] = Zero
  PROVE IndInv'
<1>1. CASE phase = "scan"
  BY <1>1, CutShortKeeps DEF FailStep
<1>2. CASE phase # "scan"
  BY <1>2, AbandonKeeps DEF FailStep
<1> QED
  BY <1>1, <1>2

-----------------------------------------------------------------------------
(* The beginning and the end of an operation.                              *)

\* initialize starts with everything zero.
LEMMA OpenKeeps == ASSUME IndInv, Open PROVE IndInv'
<1>1. HostInv'
  BY DEF Open, Register, Goto, IndInv, HostInv, Shapes, Phases, Settled, Opening, OnCurrent,
         UnknownIsZero, IsTable
<1>2. TargetInv'
  BY DEF Open, Goto, IndInv, HostInv, Shapes, Opening, IsTable, TargetInv, StartsAtZero,
         ConnectedToCurrent, CacheIsExact, Started, InUse, Switching
<1>3. (AccessReachesItsRegister /\ AccessIsPowered)'
  BY LastAccessKept DEF Open, history
<1> QED
  BY <1>1, <1>2, <1>3 DEF IndInv

\* disconnect forgets everything.
LEMMA CloseKeeps == ASSUME IndInv, Close PROVE IndInv'
<1>1. HostInv'
  BY FirstAssumption DEF Close, IndInv, HostInv, Shapes, Phases, Settled, Opening,
         OnCurrent, UnknownIsZero, IsTable
<1>2. TargetInv'
  BY DEF Close, TargetInv, StartsAtZero, ConnectedToCurrent, CacheIsExact, Started, InUse
<1>3. (AccessReachesItsRegister /\ AccessIsPowered)'
  BY DEF Close, NoAccess, DpReg, AccessReachesItsRegister, AccessIsPowered
<1> QED
  BY <1>1, <1>2, <1>3 DEF IndInv

\* An operation names a debug port of the target.
LEMMA OpsAreOnDPs == ASSUME NEW o \in Ops PROVE o.dp \in DPs
BY DEF Ops

\* An operation on the current debug port finds it as the last one left it.
LEMMA BeginKeeps == ASSUME IndInv, NEW o \in Ops, Begin(o) PROVE IndInv'
<1>1. HostInv'
  BY OpsAreOnDPs DEF Begin, Register, Goto, Selected, target, history, IndInv, HostInv,
         Shapes, Phases, Settled, Opening, OnCurrent, UnknownIsZero, IsTable
<1>2. TargetInv'
  BY DEF Begin, Register, Goto, Selected, target, history, IndInv, HostInv, Shapes,
         UnknownIsZero, TargetInv, StartsAtZero, ConnectedToCurrent, CacheIsExact, Started,
         InUse, Switching, Clean
<1>3. (AccessReachesItsRegister /\ AccessIsPowered)'
  BY LastAccessKept DEF Begin, history
<1> QED
  BY <1>1, <1>2, <1>3 DEF IndInv

-----------------------------------------------------------------------------
(* The steps of a switch.                                                  *)

\* debug_port_stop writes zero to SELECT of the debug port that is left,
LEMMA StopSelectKeeps == ASSUME IndInv, StopSelect PROVE IndInv'
<1>0. IsTable(cache) /\ IsTable(select') /\ IsTable(powered') /\ powered' = powered
  BY DEF StopSelect, IndInv, HostInv, Shapes, IsTable
<1>1. CASE FailStep(cache)
  BY <1>0, <1>1, FailStepKeeps DEF StopSelect, IndInv, HostInv, UnknownIsZero
<1>2. CASE Goto("off") /\ Quiet /\ UNCHANGED <<current, known, cache, fresh, returned>>
  <2>1. HostInv'
    BY <1>0, <1>2 DEF StopSelect, Goto, Quiet, IndInv, HostInv, Shapes, Phases, Settled,
           Opening, OnCurrent, UnknownIsZero, IsTable
  <2>2. TargetInv'
    BY <1>2 DEF StopSelect, Goto, Quiet, TargetInv, StartsAtZero, ConnectedToCurrent,
           CacheIsExact, Started, Switching
  <2>3. (AccessReachesItsRegister /\ AccessIsPowered)'
    BY <1>2, LastAccessKept DEF Quiet
  <2> QED
    BY <2>1, <2>2, <2>3 DEF IndInv
<1> QED
  BY <1>1, <1>2 DEF StopSelect

\* and powers it down: neither matters any more once another is connected.
LEMMA StopPowerKeeps == ASSUME IndInv, StopPower PROVE IndInv'
<1>0. IsTable(cache) /\ IsTable(select') /\ IsTable(powered')
  BY DEF StopPower, IndInv, HostInv, Shapes, IsTable
<1>1. CASE FailStep(cache)
  BY <1>0, <1>1, FailStepKeeps DEF StopPower, IndInv, HostInv, UnknownIsZero
<1>2. CASE Goto("connect") /\ Quiet /\ UNCHANGED <<current, known, cache, fresh, returned>>
  <2>1. HostInv'
    BY <1>0, <1>2 DEF StopPower, Goto, Quiet, IndInv, HostInv, Shapes, Phases, Settled,
           Opening, OnCurrent, UnknownIsZero, IsTable
  <2>2. TargetInv'
    BY <1>2 DEF StopPower, Goto, Quiet, TargetInv, StartsAtZero, ConnectedToCurrent,
           CacheIsExact, Started, Switching
  <2>3. (AccessReachesItsRegister /\ AccessIsPowered)'
    BY <1>2, LastAccessKept DEF Quiet
  <2> QED
    BY <2>1, <2>2, <2>3 DEF IndInv
<1> QED
  BY <1>1, <1>2 DEF StopPower

\* A debug port met for the first time has a zero cache, and one that was known
\* is no longer clean.
LEMMA ConnectKeeps == ASSUME IndInv, Connect PROVE IndInv'
<1>1. HostInv'
  BY DEF Connect, Register, Goto, Quiet, IndInv, HostInv, Shapes, Phases, Settled, Opening,
         OnCurrent, UnknownIsZero, IsTable
<1>2. op.dp \in known \/ cache[op.dp] = Zero
  BY DEF IndInv, HostInv, Shapes, UnknownIsZero
<1>3. TargetInv'
  BY <1>2 DEF Connect, Goto, Quiet, IndInv, HostInv, Shapes, IsTable, TargetInv,
         StartsAtZero, ConnectedToCurrent, CacheIsExact, Started, Clean
<1>4. (AccessReachesItsRegister /\ AccessIsPowered)'
  BY LastAccessKept DEF Connect, Quiet
<1> QED
  BY <1>1, <1>3, <1>4 DEF IndInv

\* A connection that fails marks the debug port as failed,
LEMMA ConnectFailsKeeps == ASSUME IndInv, ConnectFails PROVE IndInv'
<1>1. IsTable(cache) /\ IsTable(select') /\ IsTable(powered')
  BY DEF ConnectFails, IndInv, HostInv, Shapes, IsTable
<1> QED
  BY <1>1, FailStepKeeps DEF ConnectFails, IndInv, HostInv, UnknownIsZero

\* and so does a transfer of the switch.
LEMMA TransferFailsKeeps == ASSUME IndInv, TransferFails PROVE IndInv'
<1>1. IsTable(cache) /\ IsTable(select') /\ IsTable(powered')
  BY DEF TransferFails, target, IndInv, HostInv, Shapes, IsTable
<1> QED
  BY <1>1, FailStepKeeps DEF TransferFails, target, IndInv, HostInv, UnknownIsZero

\* SELECT is written past the cache, which holds zero too.
LEMMA StartSelectKeeps == ASSUME IndInv, StartSelect PROVE IndInv'
<1>0. IsTable(cache) /\ IsTable(select') /\ IsTable(powered')
  BY DEF StartSelect, IndInv, HostInv, Shapes, IsTable
<1>1. CASE FailStep(cache)
  BY <1>0, <1>1, FailStepKeeps DEF StartSelect, IndInv, HostInv, UnknownIsZero
<1>2. CASE Goto("power") /\ Quiet /\ UNCHANGED <<current, known, cache, fresh, returned>>
  <2>1. HostInv'
    BY <1>0, <1>2 DEF StartSelect, Goto, Quiet, IndInv, HostInv, Shapes, Phases, Settled,
           Opening, OnCurrent, UnknownIsZero, IsTable
  <2>2. TargetInv'
    BY <1>2 DEF StartSelect, Goto, Quiet, IndInv, HostInv, Shapes, IsTable, TargetInv,
           StartsAtZero, ConnectedToCurrent, CacheIsExact, Started, InUse, Switching, Clean
  <2>3. (AccessReachesItsRegister /\ AccessIsPowered)'
    BY <1>2, LastAccessKept DEF Quiet
  <2> QED
    BY <2>1, <2>2, <2>3 DEF IndInv
<1> QED
  BY <1>1, <1>2 DEF StartSelect

-----------------------------------------------------------------------------
(* Accesses.                                                               *)

\* Every access of an operation is to a register of its debug port.
LEMMA AskedIsOnTheDp ==
  \/ Asked = DpReg(op.dp, Asked.bank)
  \/ Asked = ApReg(op.dp, Asked.ap, Asked.bank)
<1>1. ASSUME NEW b PROVE DpReg(op.dp, b) = DpReg(op.dp, DpReg(op.dp, b).bank)
  BY DEF DpReg
<1>2. ASSUME NEW a, NEW b
      PROVE ApReg(op.dp, a, b) = ApReg(op.dp, ApReg(op.dp, a, b).ap, ApReg(op.dp, a, b).bank)
  BY DEF ApReg
<1> QED
  BY <1>1, <1>2 DEF Asked

\* An access is made on the current debug port, which has a state.
LEMMA AccessingIsOnCurrent ==
  ASSUME IndInv, Accessing
  PROVE op.dp = current /\ current \in known /\ phase # "zero" /\ InUse /\ ~Switching
BY DEF IndInv, HostInv, OnCurrent, Settled, Accessing, InUse, Switching

\* The start sequence finds its cache as it needs it, so does not write SELECT.
LEMMA NoSelectAtStart ==
  ASSUME IndInv, phase = "abort", Clean(current) PROVE Wanted(cache[op.dp], Asked) = cache[op.dp]
<1>1. cache[op.dp] = Zero
  BY DEF IndInv, HostInv, TargetInv, StartsAtZero, OnCurrent, Settled
<1>2. Asked = DpReg(op.dp, 0)
  BY DEF Asked
<1> QED
  BY <1>1, <1>2 DEF Wanted, DpReg, Zero

\* Writing SELECT from the cache keeps the two equal.
LEMMA SelectKeeps == ASSUME IndInv, Select PROVE IndInv'
<1> DEFINE wanted == Wanted(cache[op.dp], Asked)
           changed == [cache EXCEPT ![op.dp] = wanted]
<1> HIDE DEF wanted
<1>0. /\ IsTable(changed) /\ IsTable(select') /\ IsTable(powered')
      /\ powered' = powered /\ connected' = connected
      /\ \A dp \in DPs : dp \notin known => changed[dp] = Zero
  BY AccessingIsOnCurrent DEF Select, IndInv, HostInv, Shapes, UnknownIsZero, IsTable
<1>1. CASE FailStep(changed)
  BY <1>0, <1>1, FailStepKeeps
<1>2. CASE /\ connected # NoDp /\ select' = [select EXCEPT ![connected] = wanted] /\ cache' = changed
           /\ Quiet /\ UNCHANGED <<current, known, fresh, phase, result, returned>>
  <2>1. HostInv'
    BY <1>0, <1>2, AccessingIsOnCurrent
       DEF Select, Accessing, Quiet, IndInv, HostInv, Shapes, Opening, OnCurrent, UnknownIsZero, IsTable
  <2>2. CacheIsExact'
    BY <1>2, AccessingIsOnCurrent
       DEF Select, Quiet, IndInv, HostInv, Shapes, IsTable, TargetInv, ConnectedToCurrent,
           CacheIsExact, Clean, InUse, Switching
  <2>3. (ConnectedToCurrent /\ Started)'
    BY <1>0, <1>2 DEF Quiet, IndInv, TargetInv, ConnectedToCurrent, Started, InUse, Switching
  <2>4. phase \in {"abort", "zero"} => ~Clean(current)
    BY NoSelectAtStart, AccessingIsOnCurrent DEF Select
  <2>5. StartsAtZero'
    BY <1>2, <2>4 DEF Quiet, StartsAtZero, Clean
  <2>6. (AccessReachesItsRegister /\ AccessIsPowered)'
    BY <1>2, LastAccessKept DEF Quiet
  <2> QED
    BY <2>1, <2>2, <2>3, <2>5, <2>6 DEF IndInv, TargetInv
<1> QED
  BY <1>1, <1>2 DEF Select, wanted

\* An access that fails marks the debug port as failed, or its enumeration as cut.
LEMMA AccessFailsKeeps == ASSUME IndInv, AccessFails PROVE IndInv'
<1>1. IsTable(cache) /\ IsTable(select') /\ IsTable(powered')
  BY DEF AccessFails, target, IndInv, HostInv, Shapes, IsTable
<1> QED
  BY <1>1, FailStepKeeps DEF AccessFails, target, IndInv, HostInv, UnknownIsZero

\* Where the operation goes on after an access.
LEMMA ContinueGoes ==
  ASSUME Accessing, Continue
  PROVE /\ phase' \in {"idle", "zero", "ctrl", "scan", "info", "user"}
        /\ op.kind = "info" /\ phase # "user" => phase' # "user"
        /\ phase' = "zero" => phase = "abort"
        /\ phase' # "zero" => phase \in {"power", "ctrl", "scan", "info", "user"}
<1>1. CASE phase \in {"abort", "power", "ctrl", "user"}
  BY <1>1 DEF Continue, Goto, Selected
<1>2. CASE phase = "scan"
  <2>1. EndOfScan \/ phase' = phase
    BY <1>2 DEF Continue
  <2> QED
    BY <1>2, <2>1, EndOfScanGoes
<1>3. CASE phase = "info"
  <2>1. phase' = phase \/ Goto(IF n + 1 = found THEN Selected(op) ELSE "info")
    BY <1>3 DEF Continue
  <2> QED
    BY <1>3, <2>1 DEF Goto, Selected
<1> QED
  BY <1>1, <1>2, <1>3 DEF Accessing

\* SELECT holds what the cache does, and the cache what the access asks for.
LEMMA AccessIsRight ==
  ASSUME IndInv, Perform, Clean(op.dp)
  PROVE last'.reached = last'.asked
<1>1. connected = op.dp /\ select[connected] = cache[op.dp]
  BY AccessingIsOnCurrent DEF Perform, IndInv, TargetInv, ConnectedToCurrent, CacheIsExact,
         Clean
<1>2. Wanted(cache[op.dp], Asked) = cache[op.dp] /\ last'.asked = Asked /\ last'.reached = Reached(Asked.port)
  BY DEF Perform
<1>3. CASE Asked = DpReg(op.dp, Asked.bank)
  <2>1. Asked.port = "dp"
    BY <1>3 DEF DpReg
  <2>2. cache[op.dp].dpbank = Asked.bank
    BY <1>2, <2>1 DEF Wanted
  <2> QED
    BY <1>1, <1>2, <1>3, <2>1, <2>2 DEF Reached
<1>4. CASE Asked = ApReg(op.dp, Asked.ap, Asked.bank)
  <2>1. Asked.port = "ap"
    BY <1>4 DEF ApReg
  <2>2. cache[op.dp].ap = Asked.ap /\ cache[op.dp].apbank = Asked.bank
    BY <1>2, <2>1 DEF Wanted
  <2> QED
    BY <1>1, <1>2, <1>4, <2>1, <2>2 DEF Reached
<1> QED
  BY <1>3, <1>4, AskedIsOnTheDp

\* An access port is used after the start sequence only.
LEMMA AccessIsToAPoweredPort ==
  ASSUME IndInv, Perform, op.dp \notin failedOn, last'.asked.port = "ap"
  PROVE last'.powered /\ last'.reached.dp = last'.asked.dp
<1>1. connected = op.dp /\ op.dp = current
  BY AccessingIsOnCurrent DEF Perform, IndInv, TargetInv, ConnectedToCurrent
<1>2. /\ Asked.port = "ap"
      /\ last' = [asked |-> Asked, reached |-> Reached("ap"), powered |-> powered[connected]]
  BY DEF Perform
<1>3. phase \in {"scan", "info", "user"}
  BY <1>2 DEF Asked, DpReg
<1>4. powered[connected]
  BY <1>1, <1>3 DEF IndInv, TargetInv, Started, InUse
<1>5. Asked.dp = op.dp
  BY AskedIsOnTheDp DEF DpReg, ApReg
<1> QED
  BY <1>1, <1>2, <1>4, <1>5 DEF Reached, ApReg

\* An access that succeeds keeps the invariant and has the two properties.
LEMMA AccessKeeps == ASSUME IndInv, Access PROVE IndInv'
<1>0. /\ op.dp = current /\ current \in known /\ InUse /\ ~Switching /\ phase # "zero"
      /\ Perform /\ Continue /\ connected # NoDp /\ Accessing
      /\ UNCHANGED <<current, known, cache, op, connected, select, failedOn, cut, returned>>
      /\ opened' = (opened \/ phase' = "idle")
  BY AccessingIsOnCurrent DEF Access, Perform
<1>1. /\ phase' \in {"idle", "zero", "ctrl", "scan", "info", "user"}
      /\ op.kind = "info" /\ phase # "user" => phase' # "user"
      /\ phase' = "zero" => phase = "abort"
      /\ phase' # "zero" => phase \in {"power", "ctrl", "scan", "info", "user"}
  BY <1>0, ContinueGoes
<1>2. IsTable(powered') /\ (phase = "power" => powered' = [powered EXCEPT ![connected] = TRUE])
      /\ (phase # "power" => powered' = powered)
  BY DEF Access, IndInv, HostInv, Shapes, IsTable
<1>3. HostInv'
  BY <1>0, <1>1, <1>2 DEF IndInv, HostInv, Shapes, Phases, Settled, Opening, OnCurrent,
         UnknownIsZero, IsTable, Accessing
<1>4. (StartsAtZero /\ ConnectedToCurrent /\ CacheIsExact)'
  BY <1>0, <1>1 DEF IndInv, TargetInv, StartsAtZero, ConnectedToCurrent, CacheIsExact,
         Clean, Switching
<1>5. Started'
  BY <1>0, <1>1, <1>2 DEF IndInv, HostInv, Shapes, IsTable, TargetInv, ConnectedToCurrent,
         Started, InUse
<1>6. last'.asked.dp = op.dp
  BY <1>0, AskedIsOnTheDp DEF Perform, DpReg, ApReg
<1>7. AccessReachesItsRegister'
  BY <1>0, <1>6, AccessIsRight DEF AccessReachesItsRegister, Clean
<1>8. AccessIsPowered'
  BY <1>0, <1>6, AccessIsToAPoweredPort DEF AccessIsPowered
<1> QED
  BY <1>3, <1>4, <1>5, <1>7, <1>8 DEF IndInv, TargetInv

-----------------------------------------------------------------------------
\* Nothing depends on more than the variables.
LEMMA StutterKeeps == ASSUME IndInv, UNCHANGED vars PROVE IndInv'
BY DEF vars, host, target, history, IndInv, HostInv, Shapes, Opening, OnCurrent,
       UnknownIsZero, IsTable,
   TargetInv, StartsAtZero, ConnectedToCurrent, CacheIsExact, Started, InUse, Switching, Clean,
   AccessReachesItsRegister, AccessIsPowered

\* Every step of Next keeps the invariant.
THEOREM StepKeepsIndInv == IndInv /\ [Next]_vars => IndInv'
<1> SUFFICES ASSUME IndInv, [Next]_vars PROVE IndInv'
  OBVIOUS
<1>1. CASE Open
  BY <1>1, OpenKeeps
<1>2. CASE Close
  BY <1>2, CloseKeeps
<1>3. CASE \E o \in Ops : Begin(o)
  BY <1>3, BeginKeeps
<1>4. CASE StopSelect \/ StopPower
  BY <1>4, StopSelectKeeps, StopPowerKeeps
<1>5. CASE Connect \/ ConnectFails
  BY <1>5, ConnectKeeps, ConnectFailsKeeps
<1>6. CASE StartSelect \/ TransferFails
  BY <1>6, StartSelectKeeps, TransferFailsKeeps
<1>7. CASE Select
  BY <1>7, SelectKeeps
<1>8. CASE Access \/ AccessFails
  BY <1>8, AccessKeeps, AccessFailsKeeps
<1>9. CASE UNCHANGED vars
  BY <1>9, StutterKeeps
<1> QED
  BY <1>1, <1>2, <1>3, <1>4, <1>5, <1>6, <1>7, <1>8, <1>9 DEF Next

\* Bank switching and selection (traits.rs 174-176): for any debug ports, access
\* ports, banks and failures, an access reaches the register it is for unless a
\* failure has touched its debug port or it has been switched back to.
THEOREM AccessesAreRight == Spec => []AccessReachesItsRegister
<1>1. IndInv => AccessReachesItsRegister
  BY DEF IndInv
<1> QED
  BY <1>1, InitIndInv, StepKeepsIndInv, PTL DEF Spec

\* The start sequence (sequences.rs, debug_port_start) comes first: an access port
\* is used on the connected and powered debug port only, failures apart.
THEOREM AccessesArePowered == Spec => []AccessIsPowered
<1>1. IndInv => AccessIsPowered
  BY DEF IndInv
<1> QED
  BY <1>1, InitIndInv, StepKeepsIndInv, PTL DEF Spec

-----------------------------------------------------------------------------
(* The list of access ports.                                               *)

\* The phases of a switch before the enumeration, and those up to its end.
Before == {"stop", "off", "connect", "abort", "zero", "power", "ctrl"}
Starting == {"abort", "zero", "power", "ctrl", "scan", "info"}

\* A debug port has a state as soon as it is connected; what is not known has no list.
Known ==
  /\ ~opened /\ phase = "idle" => known = {}
  /\ opened => current \in known
  /\ \A dp \in DPs : dp \notin known => infos[dp] = <<>>

\* Where the enumeration of a debug port met for the first time is.
Scan ==
  /\ n \in Nat /\ k \in Nat /\ found \in Nat
  /\ phase \in Before => n = 0
  /\ phase \in Before \cup {"scan"} => k = 0
  /\ phase \in {"ctrl", "scan", "info"} => fresh
  /\ phase \in Starting \ {"info"} /\ fresh => infos[op.dp] = <<>>
  /\ phase \in {"abort", "zero"} /\ fresh => cache[op.dp] = Zero
  /\ op.dp \notin failedOn =>
       /\ phase = "scan" => n <= NumAps[op.dp]
       /\ phase = "info" => /\ Len(infos[op.dp]) = n /\ n < found
                            /\ op.dp \in cut \/ found = NumAps[op.dp]

\* SELECT equals its cache during the first start of a debug port and its enumeration,
\* except after an error that cut this short: then the next access selects.
ScanIsExact ==
  phase \in Starting /\ fresh /\ op.dp \notin failedOn =>
    \/ select[op.dp] = cache[op.dp]
    \/ phase = "info" /\ n = 0 /\ k = 0 /\ cache[op.dp].ap > 0

\* What is listed is in order, and complete unless the list is being made or was cut.
Listed ==
  /\ IsTable(infos)
  /\ \A dp \in DPs \ failedOn : /\ infos[dp] \in Seq(Nat)
                                /\ \A i \in 1 .. Len(infos[dp]) : infos[dp][i] = i - 1
  /\ \A dp \in known \ failedOn : \/ dp = op.dp /\ fresh /\ phase \in Starting
                                  \/ dp \in cut
                                  \/ Len(infos[dp]) = NumAps[dp]

ListInv == known \subseteq DPs /\ Known /\ Scan /\ ScanIsExact /\ Listed

\* Before the interface is opened nothing is listed.
LEMMA InitListInv == ASSUME Init PROVE ListInv
<1>1. known = {} /\ opened = FALSE /\ phase = "idle" /\ n = 0 /\ k = 0 /\ found = 0 /\ op.dp = First
      /\ infos = [dp \in DPs |-> <<>>] /\ failedOn = {} /\ fresh = FALSE
  BY DEF Init
<1>2. Known /\ Scan /\ ScanIsExact
  BY <1>1 DEF Known, Scan, ScanIsExact, Before, Starting
<1>3. Listed
  BY <1>1 DEF Listed, IsTable
<1> QED BY <1>1, <1>2, <1>3 DEF ListInv

\* An operation that ends with an error leaves no list in the making.
LEMMA AbandonKeepsList ==
  ASSUME IndInv, ListInv, phase # "scan", Abandon PROVE ListInv'
<1>1. /\ phase' = "idle" /\ UNCHANGED <<opened, current, op, fresh, n, k, found, cut>>
      /\ IF opened THEN failedOn' = failedOn \cup {op.dp, current} /\ UNCHANGED <<known, infos>>
         ELSE known' = {} /\ infos' = [dp \in DPs |-> <<>>] /\ UNCHANGED failedOn
  BY DEF Abandon
<1>2. Known' /\ known' \subseteq DPs
  BY <1>1 DEF ListInv, Known
<1>3. Scan' /\ ScanIsExact'
  BY <1>1 DEF ListInv, Scan, ScanIsExact, Before, Starting
<1>4. Listed'
  <2>1. CASE opened
    BY <1>1, <2>1 DEF ListInv, Listed, IsTable
  <2>2. CASE ~opened
    <3>1. known' = {} /\ IsTable(infos') /\ \A dp \in DPs : infos'[dp] = <<>>
      BY <1>1, <2>2 DEF IsTable
    <3>2. <<>> \in Seq(Nat) /\ Len(<<>>) = 0
      OBVIOUS
    <3>3. \A dp \in DPs : infos'[dp] \in Seq(Nat) /\ Len(infos'[dp]) = 0
      BY <3>1, <3>2, Zenon
    <3> QED BY <3>1, <3>3 DEF Listed
  <2> QED BY <2>1, <2>2
<1> QED BY <1>2, <1>3, <1>4 DEF ListInv

\* An error taken for the end of the enumeration: what the cache holds is not what the
\* first access of the descriptions asks for.
LEMMA CutShortKeepsList ==
  ASSUME IndInv, ListInv, phase = "scan", CutShort, cache'[op.dp].ap = n PROVE ListInv'
<1>1. /\ EndOfScan /\ cut' = cut \cup {op.dp} /\ opened' = (opened \/ phase' = "idle")
      /\ UNCHANGED <<current, known, infos, op, fresh, failedOn>>
  BY DEF CutShort
<1>2. /\ found' = n /\ n' = 0 /\ k' = 0
      /\ IF n = 0 THEN phase' \in {"idle", "user"} ELSE phase' = "info"
  BY <1>1 DEF EndOfScan, Goto, Selected
<1>3. op.dp = current /\ op.dp \in known /\ fresh /\ infos[op.dp] = <<>> /\ n \in Nat
  BY DEF IndInv, HostInv, OnCurrent, Settled, ListInv, Scan, Starting
<1>4. Known' /\ known' \subseteq DPs
  BY <1>1, <1>3 DEF ListInv, Known
<1>5. Scan'
  BY <1>1, <1>2, <1>3 DEF Scan, Before, Starting
<1>6. ScanIsExact'
  BY <1>1, <1>2, <1>3 DEF ScanIsExact, Starting
<1>7. Listed'
  BY <1>1, <1>2 DEF ListInv, Listed, IsTable
<1> QED BY <1>4, <1>5, <1>6, <1>7 DEF ListInv

LEMMA FailKeepsList ==
  ASSUME IndInv, ListInv, NEW c, FailStep(c), phase = "scan" => c[op.dp].ap = n PROVE ListInv'
<1>1. CASE phase = "scan"
  BY <1>1, CutShortKeepsList DEF FailStep, Cached
<1>2. CASE phase # "scan"
  BY <1>2, AbandonKeepsList DEF FailStep
<1> QED BY <1>1, <1>2

\* The debug port is met for the first time, or it is known and its list is not made again.
LEMMA OpenKeepsList == ASSUME IndInv, ListInv, Open PROVE ListInv'
<1>1. /\ ~opened /\ phase = "idle" /\ op'.dp = First /\ current = First /\ First \in DPs
      /\ select'[First] = Zero /\ known' = {First} /\ known = {} /\ phase' = "abort" /\ n' = 0 /\ k' = 0
      /\ UNCHANGED <<opened, current, cache, infos, found, failedOn, cut>> /\ cache[First] = Zero
      /\ fresh'
  BY FirstAssumption DEF Open, Register, Goto, history, IndInv, HostInv, Shapes, Opening, IsTable,
         ListInv, Known
<1>2. Known' /\ known' \subseteq DPs
  BY <1>1 DEF ListInv, Known
<1>3. Scan' /\ ScanIsExact'
  BY <1>1 DEF ListInv, Known, Scan, ScanIsExact, Before, Starting
<1>4. Listed'
  BY <1>1 DEF ListInv, Listed, IsTable, Starting
<1> QED BY <1>2, <1>3, <1>4 DEF ListInv

LEMMA BeginKeepsList == ASSUME IndInv, ListInv, NEW o \in Ops, Begin(o) PROVE ListInv'
<1>1. /\ opened /\ phase = "idle" /\ op' = o /\ n' = 0 /\ k' = 0 /\ o.dp \in DPs
      /\ UNCHANGED <<opened, current, cache, infos, found, select, failedOn, cut>>
  BY OpsAreOnDPs DEF Begin, target, history
<1>2. CASE current # o.dp
  <2>1. phase' = "stop" /\ UNCHANGED <<known, fresh>>
    BY <1>2 DEF Begin, Goto
  <2>2. Known' /\ known' \subseteq DPs
    BY <1>1, <2>1 DEF ListInv, Known
  <2>3. Scan' /\ ScanIsExact'
    BY <1>1, <2>1 DEF ListInv, Scan, ScanIsExact, Before, Starting
  <2>4. Listed'
    BY <1>1, <2>1 DEF ListInv, Listed, IsTable, Starting
  <2> QED BY <2>2, <2>3, <2>4 DEF ListInv
<1>3. CASE current = o.dp
  <2>1. /\ o.dp \in known /\ known' = known /\ fresh' = FALSE /\ phase' \in {"idle", "user"}
    BY <1>1, <1>3 DEF Begin, Goto, Register, Selected, ListInv, Known
  <2>2. Known' /\ known' \subseteq DPs
    BY <1>1, <2>1 DEF ListInv, Known
  <2>3. Scan' /\ ScanIsExact'
    BY <1>1, <2>1 DEF ListInv, Scan, ScanIsExact, Before, Starting
  <2>4. Listed'
    BY <1>1, <2>1 DEF ListInv, Listed, IsTable, Starting
  <2> QED BY <2>2, <2>3, <2>4 DEF ListInv
<1> QED BY <1>2, <1>3

\* All lists are forgotten with the interface.
LEMMA CloseKeepsList == ASSUME IndInv, ListInv, Close PROVE ListInv'
<1>1. /\ phase' = "idle" /\ known' = {} /\ infos' = [dp \in DPs |-> <<>>] /\ ~opened'
      /\ UNCHANGED <<op, fresh, n, k, found>>
  BY DEF Close
<1>2. Known' /\ Scan' /\ ScanIsExact'
  BY <1>1 DEF ListInv, Known, Scan, ScanIsExact, Before, Starting
<1>3. Listed'
  BY <1>1 DEF Listed, IsTable
<1> QED BY <1>1, <1>2, <1>3 DEF ListInv

-----------------------------------------------------------------------------
\* A step that only moves on, outside of an enumeration, keeps the lists.
LEMMA MoveKeepsList ==
  ASSUME ListInv, UNCHANGED <<opened, infos, op, n, k, found, failedOn, cut>>,
         known' = known /\ fresh' = fresh /\ current' = current /\ cache' = cache,
         phase \in {"stop", "off"} /\ phase' \in {"off", "connect"}
  PROVE  ListInv'
<1>1. Known' /\ known' \subseteq DPs
  BY DEF ListInv, Known
<1>2. Scan' /\ ScanIsExact'
  BY DEF ListInv, Scan, ScanIsExact, Before, Starting
<1>3. Listed'
  BY DEF ListInv, Listed, IsTable, Starting
<1> QED BY <1>1, <1>2, <1>3 DEF ListInv

LEMMA StopKeepsList ==
  ASSUME IndInv, ListInv, StopSelect \/ StopPower \/ TransferFails \/ ConnectFails PROVE ListInv'
<1>1. CASE FailStep(cache)
  BY <1>1, FailKeepsList DEF StopSelect, StopPower, TransferFails, ConnectFails
<1>2. CASE ~FailStep(cache)
  <2>1. /\ StopSelect \/ StopPower
        /\ phase \in {"stop", "off"} /\ phase' \in {"off", "connect"}
        /\ Quiet /\ UNCHANGED <<current, known, cache, fresh, returned>>
    BY <1>2 DEF StopSelect, StopPower, TransferFails, ConnectFails, Goto
  <2> QED BY <2>1, MoveKeepsList DEF Quiet
<1> QED BY <1>1, <1>2

\* A debug port without a state has a zero cache, as it has a zero SELECT.
LEMMA ConnectKeepsList == ASSUME IndInv, ListInv, Connect PROVE ListInv'
<1>1. /\ phase = "connect" /\ phase' = "abort" /\ current' = op.dp /\ known' = known \cup {op.dp}
      /\ fresh' = (op.dp \notin known) /\ op.dp \in DPs /\ select'[op.dp] = Zero
      /\ UNCHANGED <<opened, infos, op, n, k, found, cache, failedOn, cut>>
  BY DEF Connect, Register, Goto, Quiet, IndInv, HostInv, Shapes, IsTable
<1>2. fresh' => cache[op.dp] = Zero /\ infos[op.dp] = <<>>
  BY <1>1 DEF IndInv, HostInv, UnknownIsZero, ListInv, Known
<1>3. Known' /\ known' \subseteq DPs
  BY <1>1 DEF ListInv, Known
<1>4. Scan' /\ ScanIsExact'
  BY <1>1, <1>2 DEF ListInv, Scan, ScanIsExact, Before, Starting
<1>5. Listed'
  BY <1>1 DEF ListInv, Listed, IsTable, Starting
<1> QED BY <1>3, <1>4, <1>5 DEF ListInv

LEMMA StartSelectKeepsList == ASSUME IndInv, ListInv, StartSelect PROVE ListInv'
<1>1. CASE FailStep(cache)
  BY <1>1, FailKeepsList DEF StartSelect
<1>2. CASE ~FailStep(cache)
  <2>1. /\ phase = "zero" /\ phase' = "power" /\ connected # NoDp
        /\ select' = [select EXCEPT ![connected] = Zero]
        /\ UNCHANGED <<opened, infos, op, n, k, found, failedOn, cut, current, known, cache, fresh>>
    BY <1>2 DEF StartSelect, Goto, Quiet
  <2>2. op.dp \in DPs /\ op.dp = current /\ (op.dp \notin failedOn => connected = op.dp)
    BY <2>1 DEF IndInv, HostInv, Shapes, OnCurrent, Settled, TargetInv, ConnectedToCurrent, InUse,
                Switching
  <2>3. fresh => cache[op.dp] = Zero
    BY <2>1 DEF ListInv, Scan
  <2>4. op.dp \notin failedOn => select'[op.dp] = Zero
    BY <2>1, <2>2 DEF IndInv, HostInv, Shapes, IsTable
  <2>5. Known' /\ known' \subseteq DPs
    BY <2>1 DEF ListInv, Known
  <2>6. Scan' /\ ScanIsExact'
    BY <2>1, <2>3, <2>4 DEF ListInv, Scan, ScanIsExact, Before, Starting
  <2>7. Listed'
    BY <2>1 DEF ListInv, Listed, IsTable, Starting
  <2> QED BY <2>5, <2>6, <2>7 DEF ListInv
<1> QED BY <1>1, <1>2

\* What the cache is to hold for the access of an enumeration.
LEMMA AskedInScan ==
  /\ phase = "scan" => Asked.port = "ap" /\ Asked.ap = n
  /\ phase = "info" => Asked.port = "ap" /\ Asked.ap = n
  /\ phase \in {"abort", "power", "ctrl"} => Asked = DpReg(op.dp, 0)
BY DEF Asked, ApReg

LEMMA SelectKeepsList == ASSUME IndInv, ListInv, Select PROVE ListInv'
<1>1. PICK wanted, changed :
        /\ wanted = Wanted(cache[op.dp], Asked) /\ changed = [cache EXCEPT ![op.dp] = wanted]
        /\ wanted # cache[op.dp]
        /\ \/ FailStep(changed)
           \/ /\ connected # NoDp /\ select' = [select EXCEPT ![connected] = wanted]
              /\ cache' = changed /\ Quiet /\ UNCHANGED <<current, known, fresh, phase, result, returned>>
  BY DEF Select
<1>2. Accessing /\ op.dp \in DPs /\ op.dp = current /\ IsTable(cache) /\ IsTable(select)
  BY AccessingIsOnCurrent DEF Select, IndInv, HostInv, Shapes
<1>3. changed[op.dp] = wanted
  BY <1>1, <1>2 DEF IsTable
<1>4. CASE FailStep(changed)
  <2>1. phase = "scan" => wanted.ap = n
    BY <1>1, AskedInScan DEF Wanted
  <2> QED BY <1>3, <1>4, <2>1, FailKeepsList
<1>5. CASE ~FailStep(changed)
  <2>1. /\ connected # NoDp /\ select' = [select EXCEPT ![connected] = wanted] /\ cache' = changed
        /\ UNCHANGED <<opened, infos, op, n, k, found, failedOn, cut, current, known, fresh, phase>>
    BY <1>1, <1>5 DEF Quiet
  <2>2. op.dp \notin failedOn => connected = op.dp
    BY <1>2 DEF IndInv, TargetInv, ConnectedToCurrent, InUse, Switching, Accessing
  <2>3. op.dp \notin failedOn => select'[op.dp] = cache'[op.dp]
    BY <1>2, <1>3, <2>1, <2>2 DEF IsTable
  <2>4. ~(phase \in {"abort", "zero"} /\ fresh)
    <3>1. phase # "zero"
      BY <1>2 DEF Accessing
    <3>2. ASSUME phase = "abort", cache[op.dp] = Zero PROVE FALSE
      BY <1>1, <3>2, AskedInScan DEF Wanted, DpReg, Zero
    <3> QED BY <3>1, <3>2 DEF ListInv, Scan
  <2>5. Known' /\ known' \subseteq DPs
    BY <2>1 DEF ListInv, Known
  <2>6. Scan'
    BY <2>1, <2>4 DEF ListInv, Scan
  <2>7. ScanIsExact'
    BY <2>1, <2>3 DEF ScanIsExact
  <2>8. Listed'
    BY <2>1 DEF ListInv, Listed, IsTable
  <2> QED BY <2>5, <2>6, <2>7, <2>8 DEF ListInv
<1> QED BY <1>4, <1>5

LEMMA AccessFailsKeepsList == ASSUME IndInv, ListInv, AccessFails PROVE ListInv'
<1>1. phase = "scan" => cache[op.dp].ap = n
  <2>1. Wanted(cache[op.dp], Asked) = cache[op.dp]
    BY DEF AccessFails
  <2> QED BY <2>1, AskedInScan DEF Wanted
<1> QED BY <1>1, FailKeepsList DEF AccessFails

\* An access of the enumeration is made at the index that is its turn: it reads it
\* where SELECT equals its cache, and where the two differ SELECT is written first.
LEMMA AccessKeepsList == ASSUME IndInv, ListInv, Access PROVE ListInv'
<1>1. /\ Perform /\ Continue /\ Accessing /\ connected # NoDp
      /\ opened' = (opened \/ phase' = "idle")
      /\ UNCHANGED <<current, known, cache, op, fresh, connected, select, failedOn, cut>>
  BY DEF Access, Perform
<1>2. /\ op.dp = current /\ op.dp \in known /\ op.dp \in DPs /\ phase # "zero"
      /\ op.dp \notin failedOn => connected = op.dp
  BY <1>1, AccessingIsOnCurrent DEF IndInv, HostInv, Shapes, TargetInv, ConnectedToCurrent
<1>3. phase \in {"scan", "info"} => cache[op.dp].ap = n
  <2>1. Wanted(cache[op.dp], Asked) = cache[op.dp]
    BY <1>1 DEF Perform
  <2> QED BY <2>1, AskedInScan DEF Wanted
<1>4. n \in Nat /\ k \in Nat /\ found \in Nat /\ NumAps[op.dp] \in Nat
  BY <1>2, NumApsAssumption DEF ListInv, Scan
<1>5. fresh /\ op.dp \notin failedOn => select[op.dp] = cache[op.dp] \/ phase = "user"
  BY <1>1, <1>2, <1>3, <1>4 DEF ListInv, ScanIsExact, Accessing, Starting
<1>6. ASSUME phase \in {"scan", "info"}, op.dp \notin failedOn
      PROVE  last'.reached.ap = n /\ connected = op.dp
  <2>1. fresh /\ select[op.dp] = cache[op.dp]
    BY <1>5, <1>6 DEF ListInv, Scan
  <2>2. Asked.port = "ap"
    BY <1>6, AskedInScan
  <2>3. last'.reached = Reached("ap")
    BY <1>1, <2>2 DEF Perform
  <2> QED BY <1>2, <1>3, <1>6, <2>1, <2>3 DEF Reached, ApReg
<1>7. Known' /\ known' \subseteq DPs
  <2>1. \A dp \in DPs : dp \notin known => infos'[dp] = infos[dp]
    <3>1. CASE infos' = infos
      BY <3>1
    <3>2. ASSUME NEW x, infos' = [infos EXCEPT ![op.dp] = Append(@, x)] PROVE <2>1
      BY <1>2, <3>2 DEF ListInv, Listed, IsTable
    <3> QED BY <1>1, <3>1, <3>2 DEF Continue, Unscanned
  <2> QED BY <1>1, <1>2, <2>1 DEF ListInv, Known
<1>8. CASE phase \in {"abort", "power", "ctrl", "user"}
  <2>1. /\ UNCHANGED <<n, k, found, infos>> /\ phase' \in {"zero", "ctrl", "scan", "idle", "user"}
        /\ phase' = "zero" => phase = "abort"
        /\ phase' = "ctrl" => fresh
        /\ phase' = "scan" => phase = "ctrl"
        /\ phase = "abort" => phase' = "zero"
        /\ phase \in Starting /\ phase' \notin Starting => phase = "power" /\ ~fresh
        /\ phase = "user" => phase' = "idle"
    BY <1>1, <1>8 DEF Continue, Unscanned, Goto, Selected, Starting
  <2>2. Scan'
    BY <1>1, <1>4, <1>8, <2>1 DEF ListInv, Scan, Before, Starting
  <2>3. ScanIsExact'
    BY <1>1, <1>5, <1>8, <2>1 DEF ScanIsExact, Starting
  <2>4. Listed'
    BY <1>1, <1>8, <2>1 DEF ListInv, Listed, IsTable, Starting
  <2> QED BY <1>7, <2>2, <2>3, <2>4 DEF ListInv
<1>9. CASE phase = "scan"
  <2>0. fresh /\ k = 0 /\ infos[op.dp] = <<>>
    BY <1>9 DEF ListInv, Scan, Before, Starting
  <2>1. CASE /\ last'.reached.ap < NumAps[connected]
             /\ n' = n + 1 /\ UNCHANGED <<k, found, infos, phase, result>>
    <3>1. op.dp \notin failedOn => n + 1 <= NumAps[op.dp]
      BY <1>4, <1>6, <1>9, <2>1
    <3>2. Scan'
      BY <1>1, <1>4, <1>9, <2>0, <2>1, <3>1 DEF Scan, Before, Starting
    <3>3. ScanIsExact'
      BY <1>1, <1>5, <1>9, <2>0, <2>1 DEF ScanIsExact
    <3>4. Listed'
      BY <1>1, <2>1 DEF ListInv, Listed, IsTable
    <3> QED BY <1>7, <3>2, <3>3, <3>4 DEF ListInv
  <2>2. CASE last'.reached.ap >= NumAps[connected] /\ EndOfScan /\ UNCHANGED infos
    <3>1. /\ found' = n /\ n' = 0 /\ k' = 0
          /\ IF n = 0 THEN phase' \in {"idle", "user"} ELSE phase' = "info"
      BY <2>2 DEF EndOfScan, Goto, Selected
    <3>2. op.dp \notin failedOn => n = NumAps[op.dp]
      <4>1. op.dp \notin failedOn => n >= NumAps[op.dp] /\ n <= NumAps[op.dp]
        BY <1>6, <1>9, <2>2 DEF ListInv, Scan
      <4> QED BY <1>4, <4>1
    <3>3. Scan'
      BY <1>1, <1>4, <2>0, <2>2, <3>1, <3>2 DEF Scan, Before, Starting
    <3>4. ScanIsExact'
      BY <1>1, <1>5, <1>9, <2>0, <3>1 DEF ScanIsExact
    <3>5. Listed'
      BY <1>1, <2>0, <2>2, <3>1, <3>2 DEF ListInv, Listed, IsTable, Starting
    <3> QED BY <1>7, <3>3, <3>4, <3>5 DEF ListInv
  <2> QED BY <1>1, <1>9, <2>1, <2>2 DEF Continue
<1>10. CASE phase = "info"
  <2>0. fresh
    BY <1>10 DEF ListInv, Scan
  <2>1. CASE k < 2 /\ k' = k + 1 /\ UNCHANGED <<n, found, infos, phase, result>>
    <3>1. Scan'
      BY <1>1, <1>4, <1>10, <2>0, <2>1 DEF ListInv, Scan, Before, Starting
    <3>2. ScanIsExact'
      BY <1>1, <1>5, <1>10, <2>0, <2>1 DEF ScanIsExact
    <3>3. Listed'
      BY <1>1, <2>1 DEF ListInv, Listed, IsTable
    <3> QED BY <1>7, <3>1, <3>2, <3>3 DEF ListInv
  <2>2. CASE /\ infos' = [infos EXCEPT ![op.dp] = Append(@, last'.reached.ap)]
             /\ n' = n + 1 /\ k' = 0 /\ UNCHANGED found
             /\ Goto(IF n + 1 = found THEN Selected(op) ELSE "info")
    <3>1. phase' = (IF n + 1 = found THEN Selected(op) ELSE "info") /\ Selected(op) \in {"idle", "user"}
      BY <2>2 DEF Goto, Selected
    <3>2. /\ IsTable(infos') /\ infos'[op.dp] = Append(infos[op.dp], last'.reached.ap)
          /\ \A dp \in DPs : dp # op.dp => infos'[dp] = infos[dp]
      BY <1>2, <2>2 DEF ListInv, Listed, IsTable
    <3>3. ASSUME op.dp \notin failedOn
          PROVE  /\ infos'[op.dp] \in Seq(Nat) /\ Len(infos'[op.dp]) = n + 1
                 /\ \A i \in 1 .. n + 1 : infos'[op.dp][i] = i - 1
                 /\ n < found /\ (op.dp \in cut \/ found = NumAps[op.dp])
      <4>1. /\ infos[op.dp] \in Seq(Nat) /\ Len(infos[op.dp]) = n
            /\ \A i \in 1 .. n : infos[op.dp][i] = i - 1
            /\ n < found /\ (op.dp \in cut \/ found = NumAps[op.dp])
        BY <1>2, <1>10, <3>3 DEF ListInv, Scan, Listed
      <4>2. infos'[op.dp] = Append(infos[op.dp], n)
        BY <1>6, <1>10, <3>2, <3>3
      <4> QED BY <1>4, <4>1, <4>2
    <3>4. Scan'
      <4>1. op.dp \notin failedOn => n < found /\ Len(infos'[op.dp]) = n + 1
                                     /\ (op.dp \in cut \/ found = NumAps[op.dp])
        BY <3>3
      <4>2. n + 1 \in Nat /\ (n < found /\ n + 1 # found => n + 1 < found)
        BY <1>4
      <4> QED BY <1>1, <1>4, <2>0, <2>2, <3>1, <4>1, <4>2 DEF Scan, Before, Starting
    <3>5. ScanIsExact'
      BY <1>1, <1>5, <1>10, <2>0, <2>2 DEF ScanIsExact
    <3>6. Listed'
      <4>1. \A dp \in DPs \ failedOn :
              infos'[dp] \in Seq(Nat) /\ \A i \in 1 .. Len(infos'[dp]) : infos'[dp][i] = i - 1
        <5> TAKE dp \in DPs \ failedOn
        <5>1. CASE dp = op.dp
          BY <3>3, <5>1
        <5>2. CASE dp # op.dp
          <6>1. infos'[dp] = infos[dp]
            BY <3>2, <5>2
          <6> QED BY <6>1 DEF ListInv, Listed
        <5> QED BY <5>1, <5>2
      <4>2. ASSUME NEW dp \in known \ failedOn
            PROVE  (dp = op.dp /\ fresh /\ phase' \in Starting) \/ dp \in cut \/ Len(infos'[dp]) = NumAps[dp]
        <5>1. CASE dp # op.dp
          BY <3>2, <4>2, <5>1 DEF ListInv, Listed
        <5>2. CASE dp = op.dp /\ n + 1 = found
          BY <3>3, <4>2, <5>2
        <5>3. CASE dp = op.dp /\ n + 1 # found
          BY <2>0, <3>1, <5>3 DEF Starting
        <5> QED BY <5>1, <5>2, <5>3
      <4> QED BY <1>1, <3>2, <4>1, <4>2 DEF Listed
    <3> QED BY <1>7, <3>4, <3>5, <3>6 DEF ListInv
  <2> QED BY <1>1, <1>10, <2>1, <2>2 DEF Continue
<1> QED BY <1>1, <1>8, <1>9, <1>10 DEF Accessing

\* Every step keeps the lists.
LEMMA StepKeepsList == ASSUME IndInv, ListInv, [Next]_vars PROVE ListInv'
<1>1. CASE UNCHANGED vars
  <2>1. UNCHANGED <<host, target, history>>
    BY <1>1 DEF vars
  <2>2. known' \subseteq DPs /\ Known'
    BY <2>1 DEF host, target, history, ListInv, Known, IsTable
  <2>3. Scan' /\ ScanIsExact'
    BY <2>1 DEF host, target, history, ListInv, Scan, ScanIsExact
  <2>4. Listed'
    BY <2>1 DEF host, target, history, ListInv, Listed
  <2> QED BY <2>2, <2>3, <2>4 DEF ListInv
<1>2. CASE Open \/ Close
  BY <1>2, OpenKeepsList, CloseKeepsList
<1>3. ASSUME NEW o \in Ops, Begin(o) PROVE ListInv'
  BY <1>3, BeginKeepsList
<1>4. CASE StopSelect \/ StopPower \/ TransferFails \/ ConnectFails
  BY <1>4, StopKeepsList
<1>5. CASE Connect \/ StartSelect
  BY <1>5, ConnectKeepsList, StartSelectKeepsList
<1>6. CASE Select \/ Access \/ AccessFails
  BY <1>6, SelectKeepsList, AccessKeepsList, AccessFailsKeepsList
<1> QED BY <1>1, <1>2, <1>3, <1>4, <1>5, <1>6 DEF Next

\* The access ports of a debug port (ap/mod.rs, valid_access_ports; the enumeration of
\* communication_interface.rs) are described at their own index, and all of them unless
\* an error was taken for the end; no matter how often debug ports were switched.
THEOREM ListsAreComplete == Spec => []InfosAreComplete
<1>1. Init => ListInv
  BY InitListInv
<1>2. IndInv /\ ListInv /\ [Next]_vars => ListInv'
  BY StepKeepsList
<1>3. ListInv => InfosAreComplete
  BY DEF ListInv, Listed, InfosAreComplete, Starting
<1> QED BY <1>1, <1>2, <1>3, InitIndInv, StepKeepsIndInv, PTL DEF Spec
=============================================================================
