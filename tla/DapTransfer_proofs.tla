------------------------- MODULE DapTransfer_proofs -------------------------
(***************************************************************************)
(* For blocks of any length, any number of retries, accesses, bus errors   *)
(* and lost responses: the words of a write land in order and none twice   *)
(* without a retry, those a read returns are its own and in order, and an  *)
(* access that returns Ok left nothing behind.                             *)
(***************************************************************************)
EXTENDS DapTransfer, WellFoundedInduction, SequenceTheorems, TLAPS

Words == Nat \X Nat
Responses == {"ok", "wait", "fault", "nack"}
Heard == Responses \X Words
Transactions == [kind : {"none", "read", "write"}, word : Words]
Accesses == [id : Nat, kind : {"read", "write"}, api : {"block", "register"},
             n : Nat, ctrl : BOOLEAN]
Results == {"none", "ok", "timeout", "fault", "nack"}

HostTypes ==
  /\ op \in Accesses /\ step \in {"idle", "wire"} /\ result \in Results
  /\ done \in Nat /\ acks \in Seq(Heard) /\ retries \in Nat
  /\ got \in Seq(Words) /\ again \in BOOLEAN /\ spent \in BOOLEAN

PortTypes ==
  /\ pending \in Transactions /\ rdbuff \in Words /\ mem \in Seq(Words)
  /\ reads \in Nat /\ orun \in BOOLEAN /\ err \in BOOLEAN

TypeOK == HostTypes /\ PortTypes /\ faults \in Nat /\ bad \in SUBSET Nat

\* What belongs to an operation carries its number, and nothing is of a later one.
Numbered ==
  /\ \A i \in 1 .. Len(mem) : mem[i][1] <= op.id
  /\ \A i \in 2 .. Len(mem) : mem[i - 1][1] <= mem[i][1]
  /\ \A b \in bad : b <= op.id
  /\ pending # None => /\ pending.kind # "none" /\ pending.word[1] <= op.id
                       /\ \A i \in 1 .. Len(mem) : mem[i][1] <= pending.word[1]
                       /\ pending.word[1] = op.id => pending.kind = op.kind
                       /\ ~err

\* While a batch is on the wire: it is not empty; from the first WAIT or FAULT on a
\* sticky flag is set and no transfer is accepted; a transaction of this operation
\* that failed has set the sticky error flag; and without a retry nothing is done yet.
Batch ==
  step = "wire" =>
    /\ op.api = "register" => op.n = 1
    /\ result = "none" /\ ~spent
    /\ done < op.n /\ Len(acks) <= BatchLength
    /\ \A i \in 1 .. Len(acks) : acks[i][1] \in {"wait", "fault"} =>
         /\ orun \/ err
         /\ \A j \in i + 1 .. Len(acks) : acks[j][1] \in {"fault", "nack"}
    /\ op.id \in bad => err
    /\ ~again => done = 0 /\ got = <<>>
    /\ Len(acks) = BatchLength /\ acks[Len(acks)][1] = "ok" => pending = None /\ ~orun /\ ~err

\* How many transfers of the batch were accepted before the first that was not.
Accepted == {k \in 0 .. Len(acks) : \A j \in 1 .. k : acks[j][1] = "ok"}

\* The last word of this write that is in memory, and the last that was accepted.
LastWord == IF mem # <<>> /\ mem[Len(mem)][1] = op.id THEN mem[Len(mem)][2] ELSE 0
LastSent == IF pending # None /\ pending.word[1] = op.id THEN pending.word[2] ELSE LastWord

\* A response was lost while transfers could still be accepted.
Skipping ==
  \E k \in 1 .. Len(acks) : acks[k][1] = "nack" /\ \A j \in 1 .. k - 1 : acks[j][1] # "wait"

\* What may lie between a word of a write and the one before.
Gaps == {gap \in Int : gap = 1 \/ (gap = 0 /\ again) \/ (gap > 1 /\ Skipping)}

\* The words in memory follow each other, the word under way follows them, and both
\* belong to the access.
WordsFollow ==
  \A i \in 1 .. Len(mem) : mem[i][1] = op.id =>
    mem[i][2] <= op.n /\ mem[i][2] - Before(i) \in Gaps
PendingFollows ==
  pending # None /\ pending.word[1] = op.id =>
    pending.word[2] <= op.n /\ pending.word[2] - LastWord \in Gaps

\* How far a write is: after k transfers of the batch that were all accepted the last
\* word accepted is the k-th, before the first it is the last one known to be done or,
\* sent before and to be sent again, the one after it.
SentSoFar ==
  step = "wire" /\ ~err =>
    \A k \in Accepted : (k < Len(acks) => acks[k + 1][1] = "wait") =>
      IF k = 0 THEN LastSent = done \/ (LastSent = done + 1 /\ again)
      ELSE LastSent = done + (IF k = BatchLength THEN k - 1 ELSE k)
SentBound == step = "wire" /\ ~err /\ ~orun /\ Len(acks) > 0 => LastSent <= done + Len(acks)
OkWritten == result = "ok" /\ ~spent => mem # <<>> /\ mem[Len(mem)] = <<op.id, op.n>>

WriteSent ==
  op.kind = "write" => WordsFollow /\ PendingFollows /\ SentSoFar /\ SentBound /\ OkWritten

\* The last word a read has returned so far.
LastGot == IF got = <<>> THEN 0 ELSE got[Len(got)][2]

\* How far a read is: the values that came with accepted transfers follow those
\* returned before, and RDBUFF is one ahead of them once the transaction completed.
ValuesFollow ==
  step = "wire" => \A k \in Accepted \ {0, 1} :
    /\ acks[k][2][1] = op.id /\ acks[k][2][2] <= reads
    /\ IF k = 2 THEN acks[k][2][2] > LastGot ELSE acks[k][2][2] = acks[k - 1][2][2] + 1
BufferAhead ==
  step = "wire" /\ ~err /\ Len(acks) # 0 /\ Len(acks) < BatchLength /\ Len(acks) \in Accepted =>
    IF pending = None
    THEN /\ rdbuff = <<op.id, reads>>
         /\ IF Len(acks) = 1 THEN reads > LastGot ELSE reads = acks[Len(acks)][2][2] + 1
    ELSE /\ pending.word[1] = op.id
         /\ Len(acks) # 1 => reads = acks[Len(acks)][2][2]

ReadValues == LastGot <= reads /\ (op.kind = "read" => ValuesFollow /\ BufferAhead)

IndInv ==
  /\ TypeOK
  /\ Numbered
  /\ Batch
  /\ WriteSent
  /\ ReadValues
  /\ ReadsInOrder
  /\ OkIsClean

-----------------------------------------------------------------------------
(* The data.                                                               *)

\* A word is a pair of numbers.
LEMMA WordsAre ==
  /\ \A w \in Words : w[1] \in Nat /\ w[2] \in Nat
  /\ \A a \in Nat, b \in Nat : <<a, b>> \in Words
BY DEF Words

\* What the host receives is a response and what RDBUFF holds.
LEMMA HeardIs ==
  /\ \A h \in Heard : h[1] \in Responses /\ h[2] \in Words
  /\ \A r \in Responses, w \in Words : <<r, w>> \in Heard
BY DEF Heard

\* A transaction has a kind and a word.
LEMMA TransactionsAre ==
  /\ None \in Transactions /\ None.kind = "none"
  /\ \A t \in Transactions : t.kind \in {"none", "read", "write"} /\ t.word \in Words
  /\ \A k \in {"read", "write"}, w \in Words : [kind |-> k, word |-> w] \in Transactions
BY WordsAre DEF Transactions, None

\* An access has a number, a kind and a length.
LEMMA AccessesAre ==
  /\ \A a \in Accesses : /\ a.id \in Nat /\ a.n \in Nat /\ a.kind \in {"read", "write"}
                         /\ a.api \in {"block", "register"} /\ a.ctrl \in BOOLEAN
  /\ \A i \in Nat, k \in {"read", "write"}, p \in {"block", "register"}, n \in Nat, c \in BOOLEAN :
       [id |-> i, kind |-> k, api |-> p, n |-> n, ctrl |-> c] \in Accesses
BY DEF Accesses

-----------------------------------------------------------------------------
(* What the responses of a batch say.                                      *)

\* Every nonempty set of naturals has a least element.
LEMMA LeastElement ==
  ASSUME NEW S \in SUBSET Nat, S # {}
  PROVE  \E m \in S : \A k \in S : m <= k
<1>1. IsWellFoundedOn(OpToRel(<, Nat), Nat)
  BY NatLessThanWellFounded
<1>2. \E m \in S : \A k \in S : ~(<<k, m>> \in OpToRel(<, Nat))
  BY <1>1, WFMin, Zenon
<1>3. \E m \in S : \A k \in S : ~(k < m)
  BY <1>2, Zenon DEF OpToRel
<1> QED BY <1>3

\* The transfers up to the first failing one succeeded.
LEMMA GoodIs ==
  ASSUME TypeOK, Batch, Answered
  PROVE  /\ Good \in 0 .. op.n - done
         /\ \A i \in 1 .. Good : Status(i) = "ok"
         /\ Failing = {} => Good = op.n - done
         /\ Failing # {} => Good + 1 \in Failing
<1>1. op.n \in Nat /\ done \in Nat /\ done < op.n
  BY AccessesAre DEF TypeOK, HostTypes, Batch, Answered
<1>2. CASE Failing = {}
  BY <1>1, <1>2 DEF Good, Failing
<1>3. CASE Failing # {}
  <2>1. Failing \subseteq 1 .. op.n - done /\ Failing \in SUBSET Nat
    BY <1>1 DEF Failing
  <2>2. \E m \in Failing : \A j \in Failing : m <= j
    BY <2>1, <1>3, LeastElement
  <2>3. PICK first \in Failing : /\ Good = first - 1
                                 /\ \A j \in Failing : first <= j
    BY <2>2, <1>3 DEF Good
  <2>4. first \in 1 .. op.n - done /\ first \in Nat
    BY <2>1
  <2>5. Good \in 0 .. op.n - done /\ Good + 1 \in Failing
    BY <2>3, <2>4, <1>1
  <2>6. ASSUME NEW i \in 1 .. Good PROVE Status(i) = "ok"
    <3>1. i \in 1 .. op.n - done /\ i \notin Failing
      BY <2>1, <2>3, <2>4, <1>1
    <3> QED BY <3>1 DEF Failing
  <2> QED BY <1>3, <2>5, <2>6
<1> QED BY <1>2, <1>3

\* A transfer succeeded when its own response and the next are OK.
LEMMA LeadingOks ==
  ASSUME TypeOK, Batch, Answered
  PROVE  /\ Good > 0 => Good + 1 \in Accepted
         /\ Failing # {} => \/ Good = 0 /\ acks[1][1] = Status(1) /\ acks[1][1] # "ok"
                            \/ /\ Good + 1 \in Accepted /\ acks[Good + 2][1] # "ok"
                               /\ acks[Good + 2][1] = Status(Good + 1)
<1>1. /\ op.n \in Nat /\ done \in Nat /\ done < op.n /\ Good \in 0 .. op.n - done
  BY GoodIs, AccessesAre DEF TypeOK, HostTypes, Batch, Answered
<1>a. Len(acks) = op.n - done + 1
  BY DEF Answered, BatchLength
<1>2. ASSUME Good > 0 PROVE Good + 1 \in Accepted
  <2>1. \A i \in 1 .. Good : acks[i][1] = "ok" /\ acks[i + 1][1] = "ok"
    BY GoodIs DEF Status
  <2>2. ASSUME NEW j \in 1 .. Good + 1 PROVE acks[j][1] = "ok"
    <3>1. CASE j <= Good
      BY <3>1, <2>1, <1>1
    <3>2. CASE j = Good + 1
      BY <3>2, <2>1, <1>1, <1>2
    <3> QED BY <3>1, <3>2, <1>1
  <2>3. Good + 1 \in 0 .. Len(acks)
    BY <1>1, <1>a
  <2> QED BY <2>2, <2>3 DEF Accepted
<1>3. ASSUME Failing # {}
      PROVE  \/ Good = 0 /\ acks[1][1] = Status(1) /\ acks[1][1] # "ok"
             \/ /\ Good + 1 \in Accepted /\ acks[Good + 2][1] # "ok"
                /\ acks[Good + 2][1] = Status(Good + 1)
  <2>1. Status(Good + 1) # "ok"
    BY GoodIs, <1>3 DEF Failing
  <2>2. CASE acks[Good + 1][1] # "ok"
    <3>1. Good = 0
      BY <2>2, <1>2, <1>1 DEF Accepted
    <3> QED BY <3>1, <2>2 DEF Status
  <2>3. CASE acks[Good + 1][1] = "ok"
    <3>1. Status(Good + 1) = acks[Good + 1 + 1][1] /\ Good + 1 + 1 = Good + 2
      BY <2>3, <1>1 DEF Status
    <3>2. Good + 1 \in Accepted
      <4>1. CASE Good > 0
        BY <4>1, <1>2
      <4>2. CASE Good = 0
        <5>1. \A j \in 1 .. 1 : acks[j][1] = "ok"
          BY <2>3, <4>2
        <5> QED BY <1>1, <1>a, <4>2, <5>1 DEF Accepted
      <4> QED BY <1>1, <4>1, <4>2
    <3> QED BY <3>1, <3>2, <2>1
  <2> QED BY <2>2, <2>3
<1> QED BY <1>2, <1>3

-----------------------------------------------------------------------------
(* The invariant holds at rest and is kept by every step.                  *)

\* The debug port and the host at rest satisfy the invariant.
THEOREM InitIndInv == Init => IndInv
<1> SUFFICES ASSUME Init PROVE IndInv
  OBVIOUS
<1>1. TypeOK
  <2>1. op \in Accesses
    BY AccessesAre DEF Init
  <2>2. HostTypes
    <3>1. step \in {"idle", "wire"} /\ result \in Results
      BY DEF Init, Results
    <3>2. done \in Nat /\ acks \in Seq(Heard) /\ retries \in Nat /\ got \in Seq(Words)
      BY DEF Init
    <3>3. again \in BOOLEAN /\ spent \in BOOLEAN
      BY DEF Init
    <3> QED BY <2>1, <3>1, <3>2, <3>3 DEF HostTypes
  <2>3. pending \in Transactions /\ rdbuff \in Words
    BY TransactionsAre, WordsAre DEF Init
  <2>4. mem \in Seq(Words) /\ reads \in Nat
    BY DEF Init
  <2>5. orun \in BOOLEAN /\ err \in BOOLEAN
    BY DEF Init
  <2> QED BY <2>2, <2>3, <2>4, <2>5 DEF Init, TypeOK, PortTypes
<1>2. Numbered /\ Batch /\ OkIsClean
  BY DEF Init, Numbered, Batch, OkIsClean
<1>3. WriteSent /\ ReadValues /\ ReadsInOrder
  BY DEF Init, WriteSent, ReadValues, ValuesFollow, BufferAhead, LastGot, ReadsInOrder
<1> QED BY <1>1, <1>2, <1>3 DEF IndInv

\* The values taken from a batch are words.
LEMMA TakenTypes ==
  ASSUME TypeOK, Batch, Answered, Taken
  PROVE  done' \in Nat /\ got' \in Seq(Words)
<1>1. Good \in Nat /\ \A i \in 1 .. Good : i + 1 \in 1 .. Len(acks)
  BY GoodIs, AccessesAre DEF TypeOK, HostTypes, Batch, Answered, BatchLength
<1>2. \A i \in 1 .. Good : Value(i) \in Words
  BY <1>1, HeardIs DEF TypeOK, HostTypes, Value
<1>3. [i \in 1 .. Good |-> Value(i)] \in Seq(Words)
  BY <1>1, <1>2
<1> QED BY <1>1, <1>3, ConcatProperties DEF TypeOK, HostTypes, Taken

\* Sending again resets the batch, or ends the access.
LEMMA SendAgainTypes ==
  ASSUME TypeOK, NEW count \in Nat, SendAgain(count)
  PROVE  /\ again' \in BOOLEAN /\ retries' \in Nat /\ spent' \in BOOLEAN
         /\ acks' \in Seq(Heard) /\ step' \in {"idle", "wire"} /\ result' \in Results
<1>1. again' \in BOOLEAN /\ retries' \in Nat /\ acks' \in Seq(Heard)
  BY DEF TypeOK, HostTypes, SendAgain
<1>2. spent' \in BOOLEAN /\ step' \in {"idle", "wire"}
  BY DEF TypeOK, HostTypes, SendAgain, Return
<1>3. result' \in Results
  BY DEF TypeOK, HostTypes, SendAgain, Return, Results
<1> QED BY <1>1, <1>2, <1>3

\* An access that starts has a kind and at least one word.
LEMMA StartIs ==
  StartAny => \E kind \in {"read", "write"}, api \in {"block", "register"},
                 n \in Nat \ {0}, ctrl \in BOOLEAN :
                Start(kind, api, n, ctrl) /\ (api = "register" => n = 1)
<1> SUFFICES ASSUME StartAny
             PROVE  \E kind \in {"read", "write"}, api \in {"block", "register"},
                       n \in Nat \ {0}, ctrl \in BOOLEAN :
                      Start(kind, api, n, ctrl) /\ (api = "register" => n = 1)
  OBVIOUS
<1>1. MaxLen \in Nat
  BY BoundsAssumption
<1>2. ASSUME NEW kind \in {"read", "write"}, NEW n \in 1 .. MaxLen, Start(kind, "block", n, FALSE)
      PROVE  \E api \in {"block", "register"}, m \in Nat \ {0}, ctrl \in BOOLEAN :
               Start(kind, api, m, ctrl) /\ (api = "register" => m = 1)
  <2>1. n \in Nat \ {0}
    BY <1>1
  <2> QED BY <1>2, <2>1
<1>3. ASSUME NEW kind \in {"read", "write"}, NEW ctrl \in BOOLEAN, Start(kind, "register", 1, ctrl)
      PROVE  \E api \in {"block", "register"}, m \in Nat \ {0}, c \in BOOLEAN :
               Start(kind, api, m, c) /\ (api = "register" => m = 1)
  BY <1>3
<1> QED BY <1>2, <1>3 DEF StartAny

\* Each step preserves the types.
LEMMA TypeStep == IndInv /\ [Next]_vars => TypeOK'
<1> SUFFICES ASSUME IndInv, [Next]_vars PROVE TypeOK'
  OBVIOUS
<1> USE DEF host, port
<1>0. /\ TypeOK /\ Batch
      /\ op.id \in Nat /\ op.n \in Nat /\ op.kind \in {"read", "write"}
  BY AccessesAre DEF IndInv, TypeOK, HostTypes
<1>1. ASSUME NEW kind \in {"read", "write"}, NEW api \in {"block", "register"},
             NEW n \in Nat, NEW ctrl \in BOOLEAN, Start(kind, api, n, ctrl)
      PROVE  TypeOK'
  <2>1. op' \in Accesses
    BY <1>0, <1>1, AccessesAre DEF Start
  <2>2. HostTypes'
    <3>1. step' \in {"idle", "wire"} /\ result' \in Results
      BY <1>1 DEF Start, Results
    <3>2. done' \in Nat /\ acks' \in Seq(Heard) /\ retries' \in Nat /\ got' \in Seq(Words)
      BY <1>1 DEF Start
    <3>3. again' \in BOOLEAN /\ spent' \in BOOLEAN
      BY <1>1 DEF Start
    <3> QED BY <2>1, <3>1, <3>2, <3>3 DEF HostTypes
  <2> QED BY <1>0, <1>1, <2>2 DEF TypeOK, PortTypes, Start
<1>2. CASE Wire
  <2>1. PICK ack \in Responses : acks' = Append(acks, <<ack, rdbuff>>)
    BY <1>2 DEF Wire, Respond, Lost, Received, Responses
  <2>2. acks' \in Seq(Heard)
    BY <1>0, <2>1, HeardIs DEF TypeOK, HostTypes, PortTypes
  <2>3. /\ orun' \in BOOLEAN
        /\ faults' \in Nat
    <3>1. orun' \in BOOLEAN
      BY <1>0, <1>2 DEF TypeOK, PortTypes, Wire, Respond
    <3>2. faults' \in Nat
      BY <1>0, <1>2 DEF TypeOK, Wire, Respond, Lost
    <3> QED BY <3>1, <3>2
  <2>4. \/ pending' = pending \/ pending' = None
        \/ pending' = [kind |-> op.kind, word |-> <<op.id, done + Len(acks) + 1>>]
    BY <1>2 DEF Wire, Respond
  <2>5. <<op.id, done + Len(acks) + 1>> \in Words
    BY <1>0, WordsAre DEF TypeOK, HostTypes
  <2>6. pending' \in Transactions
    BY <1>0, <2>4, <2>5, TransactionsAre DEF TypeOK, PortTypes
  <2>7. HostTypes'
    BY <1>0, <1>2, <2>2 DEF TypeOK, HostTypes, Wire
  <2> QED BY <1>0, <1>2, <2>3, <2>6, <2>7 DEF TypeOK, PortTypes, Wire
<1>3. CASE AllGood
  BY <1>0, <1>3, TakenTypes DEF TypeOK, HostTypes, PortTypes, AllGood, Return, Results
<1>4. CASE RetryAfterWait
  BY <1>0, <1>4, TakenTypes, SendAgainTypes
  DEF TypeOK, HostTypes, PortTypes, RetryAfterWait, AfterWait
<1>5. CASE FailWithFault
  BY <1>0, <1>5, TakenTypes DEF TypeOK, HostTypes, PortTypes, FailWithFault, Return, Results
<1>6. CASE AfterNack
  <2>1. CASE op.api = "block"
    BY <1>0, <1>6, <2>1, TakenTypes
    DEF TypeOK, HostTypes, PortTypes, AfterNack, Return, Results
  <2>2. CASE op.api # "block"
    BY <1>0, <1>6, <2>2, TakenTypes, SendAgainTypes
    DEF TypeOK, HostTypes, PortTypes, AfterNack
  <2> QED BY <2>1, <2>2
<1>7. CASE Complete
  <2>1. pending.word \in Words /\ pending.word[1] \in Nat /\ None \in Transactions
    BY <1>0, TransactionsAre, WordsAre DEF TypeOK, PortTypes
  <2>2. <<pending.word[1], reads + 1>> \in Words
    BY <1>0, <2>1, WordsAre DEF TypeOK, PortTypes
  <2>3. mem' \in Seq(Words)
    <3>1. mem' = mem \/ mem' = Append(mem, pending.word)
      BY <1>7 DEF Complete
    <3> QED BY <1>0, <2>1, <3>1 DEF TypeOK, PortTypes
  <2>4. rdbuff' \in Words /\ reads' \in Nat
    BY <1>0, <1>7, <2>2 DEF TypeOK, PortTypes, Complete
  <2> QED BY <1>0, <1>7, <2>1, <2>3, <2>4 DEF TypeOK, HostTypes, PortTypes, Complete
<1>8. CASE BusError
  <2>1. pending.word[1] \in Nat /\ None \in Transactions
    BY <1>0, TransactionsAre, WordsAre DEF TypeOK, PortTypes
  <2>2. bad' \in SUBSET Nat
    BY <1>0, <1>8, <2>1 DEF TypeOK, BusError
  <2>4. faults' \in Nat
    BY <1>0, <1>8 DEF TypeOK, BusError
  <2>3. HostTypes' /\ PortTypes'
    BY <1>0, <1>8, <2>1 DEF TypeOK, HostTypes, PortTypes, BusError
  <2> QED BY <2>2, <2>3, <2>4 DEF TypeOK
<1>9. CASE UNCHANGED vars
  BY <1>0, <1>9 DEF TypeOK, HostTypes, PortTypes, vars
<1> QED
  BY StartIs, <1>1, <1>2, <1>3, <1>4, <1>5, <1>6, <1>7, <1>8, <1>9 DEF Next, Host

-----------------------------------------------------------------------------
(* The steps of the port and the start of an access.                       *)

\* The numbers in the state are numbers.
LEMMA Numbers ==
  ASSUME TypeOK
  PROVE  /\ op.id \in Nat /\ op.n \in Nat /\ done \in Nat /\ reads \in Nat
         /\ Len(acks) \in Nat /\ Len(mem) \in Nat /\ Len(got) \in Nat
         /\ pending.word[1] \in Nat /\ pending.word[2] \in Nat
         /\ \A i \in 1 .. Len(mem) : mem[i] \in Words /\ mem[i][1] \in Nat /\ mem[i][2] \in Nat
         /\ \A i \in 1 .. Len(got) : got[i] \in Words /\ got[i][1] \in Nat /\ got[i][2] \in Nat
         /\ \A i \in 1 .. Len(acks) : /\ acks[i][1] \in Responses
                                      /\ acks[i][2][1] \in Nat /\ acks[i][2][2] \in Nat
<1>1. op.id \in Nat /\ op.n \in Nat /\ done \in Nat /\ reads \in Nat
  BY AccessesAre DEF TypeOK, HostTypes, PortTypes
<1>2. Len(acks) \in Nat /\ Len(mem) \in Nat /\ Len(got) \in Nat
  BY DEF TypeOK, HostTypes, PortTypes
<1>3. pending.word[1] \in Nat /\ pending.word[2] \in Nat
  BY TransactionsAre, WordsAre DEF TypeOK, PortTypes
<1>4. ASSUME NEW i \in 1 .. Len(mem)
      PROVE  mem[i] \in Words /\ mem[i][1] \in Nat /\ mem[i][2] \in Nat
  BY WordsAre DEF TypeOK, PortTypes
<1>5. ASSUME NEW i \in 1 .. Len(got)
      PROVE  got[i] \in Words /\ got[i][1] \in Nat /\ got[i][2] \in Nat
  BY WordsAre DEF TypeOK, HostTypes
<1>6. ASSUME NEW i \in 1 .. Len(acks)
      PROVE  acks[i][1] \in Responses /\ acks[i][2][1] \in Nat /\ acks[i][2][2] \in Nat
  BY WordsAre, HeardIs DEF TypeOK, HostTypes
<1> QED BY <1>1, <1>2, <1>3, <1>4, <1>5, <1>6

\* A new access starts with an empty batch; nothing in the port is its own yet.
LEMMA StartKeeps ==
  ASSUME IndInv, NEW kind \in {"read", "write"}, NEW api \in {"block", "register"},
         NEW n \in Nat \ {0}, NEW ctrl \in BOOLEAN, api = "register" => n = 1,
         Start(kind, api, n, ctrl), TypeOK'
  PROVE  IndInv'
<1> USE DEF port
<1>0. /\ TypeOK /\ Numbered /\ op.id \in Nat /\ reads \in Nat /\ Len(mem) \in Nat
      /\ pending.word[1] \in Nat
  BY Numbers DEF IndInv
<1>1. /\ op'.id = op.id + 1 /\ op'.n = n /\ op'.api = api /\ op'.kind = kind
      /\ step' = "wire" /\ result' = "none" /\ done' = 0 /\ acks' = <<>> /\ got' = <<>>
      /\ again' = FALSE /\ spent' = FALSE
      /\ UNCHANGED <<pending, rdbuff, mem, reads, orun, err, bad>>
  BY DEF Start
<1>a. /\ \A i \in 1 .. Len(mem) : mem[i][1] \in Nat /\ mem[i][1] < op'.id
      /\ pending # None => pending.word[1] < op'.id
  <2>1. \A i \in 1 .. Len(mem) : mem[i][1] \in Nat /\ mem[i][1] <= op.id
    BY <1>0, Numbers DEF Numbered
  <2>2. pending # None => pending.word[1] <= op.id
    BY <1>0 DEF Numbered
  <2> QED BY <1>0, <1>1, <2>1, <2>2
<1>2. Numbered'
  <2>1. \A i \in 1 .. Len(mem') : mem'[i][1] <= op'.id
    BY <1>0, <1>1, <1>a
  <2>2. \A i \in 2 .. Len(mem') : mem'[i - 1][1] <= mem'[i][1]
    BY <1>0, <1>1 DEF Numbered
  <2>3. \A b \in bad' : b <= op'.id
    <3>1. \A b \in bad : b \in Nat /\ b <= op.id
      BY <1>0 DEF Numbered, TypeOK, HostTypes
    <3> QED BY <1>0, <1>1, <3>1
  <2>4. pending # None => /\ pending.kind # "none" /\ ~err
                          /\ \A i \in 1 .. Len(mem) : mem[i][1] <= pending.word[1]
    BY <1>0 DEF Numbered
  <2>5. pending' # None => /\ pending'.word[1] <= op'.id
                           /\ (pending'.word[1] = op'.id => pending'.kind = op'.kind)
    BY <1>0, <1>1, <1>a
  <2> QED BY <1>1, <2>1, <2>2, <2>3, <2>4, <2>5 DEF Numbered
<1>3. Batch'
  <2>1. op'.id \notin bad'
    BY <1>0, <1>1 DEF Numbered
  <2> QED BY <1>1, <2>1 DEF Batch, BatchLength
<1>4. WriteSent'
  <2>1. LastWord' = 0
    BY <1>0, <1>1, <1>a DEF LastWord, TypeOK, PortTypes
  <2>2. LastSent' = 0
    BY <1>1, <1>a, <2>1, <1>0 DEF LastSent
  <2>3. WordsFollow' /\ PendingFollows'
    BY <1>0, <1>1, <1>a DEF WordsFollow, PendingFollows
  <2>4. Accepted' \subseteq {0}
    BY <1>1 DEF Accepted
  <2>5. SentSoFar' /\ SentBound' /\ OkWritten'
    BY <1>1, <2>2, <2>4 DEF SentSoFar, SentBound, OkWritten
  <2> QED BY <2>3, <2>5 DEF WriteSent
<1>5. ReadValues'
  BY <1>0, <1>1 DEF ReadValues, ValuesFollow, BufferAhead, Accepted, LastGot
<1>6. ReadsInOrder' /\ OkIsClean'
  BY <1>1 DEF ReadsInOrder, OkIsClean
<1> QED BY <1>2, <1>3, <1>4, <1>5, <1>6 DEF IndInv

\* What the host holds says the same of the batch while the port moves.
LEMMA HostStays ==
  ASSUME UNCHANGED host
  PROVE  /\ Accepted' = Accepted /\ Gaps' = Gaps
         /\ BatchLength' = BatchLength /\ LastGot' = LastGot
<1>1. acks' = acks /\ again' = again /\ op' = op /\ done' = done /\ got' = got
  BY DEF host
<1>2. Accepted' = Accepted
  BY <1>1 DEF Accepted
<1>3. Gaps' = Gaps
  BY <1>1 DEF Gaps, Skipping
<1>4. BatchLength' = BatchLength /\ LastGot' = LastGot
  BY <1>1 DEF BatchLength, LastGot
<1> QED BY <1>2, <1>3, <1>4

\* A word that lands is the one accepted last, and lands behind those before it.
LEMMA WordLands ==
  ASSUME IndInv, TypeOK', Complete, op.kind = "write" PROVE WriteSent'
<1>0. /\ TypeOK /\ Numbered /\ Batch /\ WriteSent /\ OkIsClean /\ pending # None /\ pending' = None
      /\ op.id \in Nat /\ Len(mem) \in Nat /\ pending.word[1] \in Nat /\ pending.word[2] \in Nat
      /\ UNCHANGED <<op, step, result, done, acks, again, spent, orun, err>>
      /\ UNCHANGED host
  BY Numbers DEF IndInv, Complete, host
<1>1. ~(result = "ok" /\ ~spent)
  BY <1>0 DEF OkIsClean, Batch, TypeOK, HostTypes
<1>2. CASE pending.word[1] = op.id
  <2>1. mem' = Append(mem, pending.word)
    BY <1>0, <1>2 DEF Complete, Numbered
  <2>2. /\ Len(mem') = Len(mem) + 1 /\ mem'[Len(mem')] = pending.word
        /\ \A i \in 1 .. Len(mem) : mem'[i] = mem[i]
    BY <1>0, <2>1 DEF TypeOK, PortTypes
  <2>3. LastSent' = LastSent
    BY <1>0, <1>2, <2>2 DEF LastSent, LastWord
  <2> DEFINE before(i) == IF i > 1 /\ mem'[i - 1][1] = mem'[i][1] THEN mem'[i - 1][2] ELSE 0
  <2>4. before(Len(mem')) = LastWord
    BY <1>0, <1>2, <2>2 DEF LastWord, TypeOK, PortTypes
  <2>5. ASSUME NEW i \in 1 .. Len(mem'), mem'[i][1] = op.id
        PROVE  mem'[i][2] <= op.n /\ mem'[i][2] - before(i) \in Gaps
    <3>1. CASE i \in 1 .. Len(mem)
      <4>1. before(i) = Before(i)
        BY <1>0, <2>2, <3>1 DEF Before
      <4> QED BY <1>0, <2>2, <2>5, <3>1, <4>1 DEF WriteSent, WordsFollow
    <3>2. CASE i = Len(mem')
      BY <1>0, <1>2, <2>2, <2>4, <3>2 DEF WriteSent, PendingFollows
    <3> QED BY <1>0, <2>2, <3>1, <3>2
  <2> HIDE DEF before
  <2>6. \A i \in 1 .. Len(mem') : mem'[i][1] = op.id =>
          mem'[i][2] <= op.n /\ mem'[i][2] - before(i) \in Gaps
    BY <2>5
  <2>7. WordsFollow'
    BY <1>0, <2>6, HostStays DEF WordsFollow, Before, before
  <2> QED BY <1>0, <1>1, <2>3, <2>7, HostStays
          DEF WriteSent, PendingFollows, SentSoFar, SentBound, OkWritten
<1>3. CASE pending.word[1] # op.id
  <2>1. \A i \in 1 .. Len(mem) : mem[i][1] \in Nat /\ mem[i][1] < op.id
    <3> SUFFICES ASSUME NEW i \in 1 .. Len(mem) PROVE mem[i][1] \in Nat /\ mem[i][1] < op.id
      OBVIOUS
    <3>1. mem[i][1] \in Nat /\ mem[i][1] <= pending.word[1] /\ pending.word[1] <= op.id
      BY <1>0, Numbers DEF Numbered
    <3> QED BY <1>0, <1>3, <3>1
  <2>2. \A i \in 1 .. Len(mem') : mem'[i][1] < op.id
    <3>1. CASE mem' = mem
      BY <2>1, <3>1
    <3>2. CASE mem' = Append(mem, pending.word)
      <4>1. pending.word[1] < op.id
        BY <1>0, <1>3 DEF Numbered
      <4> QED BY <1>0, <2>1, <3>2, <4>1 DEF TypeOK, PortTypes
    <3> QED BY <3>1, <3>2 DEF Complete
  <2>3. Len(mem') \in Nat /\ (mem' # <<>> => Len(mem') \in 1 .. Len(mem'))
        /\ (mem # <<>> => Len(mem) \in 1 .. Len(mem))
    BY <1>0 DEF TypeOK, PortTypes
  <2>4. LastWord = 0 /\ LastWord' = 0
    <3>1. LastWord = 0
      BY <2>1, <2>3 DEF LastWord
    <3>2. LastWord' = 0
      BY <1>0, <2>2, <2>3 DEF LastWord
    <3> QED BY <3>1, <3>2
  <2>5. LastSent' = LastSent
    BY <1>0, <1>3, <2>4 DEF LastSent
  <2>6. \A i \in 1 .. Len(mem') : mem'[i][1] # op.id
    <3> SUFFICES ASSUME NEW i \in 1 .. Len(mem') PROVE mem'[i][1] # op.id
      OBVIOUS
    <3> QED BY <1>0, <2>2
  <2> QED BY <1>0, <1>1, <2>5, <2>6, HostStays
          DEF WriteSent, WordsFollow, PendingFollows, SentSoFar, SentBound, OkWritten
<1> QED BY <1>2, <1>3

\* The transaction under way completes.
LEMMA CompleteKeeps == ASSUME IndInv, TypeOK', Complete PROVE IndInv'
<1>0. /\ TypeOK /\ Numbered /\ Batch /\ ReadValues /\ ReadsInOrder /\ OkIsClean
      /\ pending # None /\ pending' = None
      /\ op.id \in Nat /\ Len(mem) \in Nat /\ pending.word[1] \in Nat /\ reads \in Nat
      /\ UNCHANGED <<op, step, result, done, acks, got, again, spent, orun, err, bad>>
      /\ UNCHANGED host
  BY Numbers DEF IndInv, Complete, host
<1>1. Numbered'
  <2>1. CASE mem' = mem
    BY <1>0, <2>1 DEF Numbered
  <2>2. CASE mem' = Append(mem, pending.word)
    <3>1. /\ Len(mem') = Len(mem) + 1 /\ mem'[Len(mem')] = pending.word
          /\ \A i \in 1 .. Len(mem) : mem'[i] = mem[i]
      BY <1>0, <2>2 DEF TypeOK, PortTypes
    <3>2. ASSUME NEW i \in 1 .. Len(mem') PROVE mem'[i][1] <= op.id
      BY <1>0, <3>1 DEF Numbered
    <3>3. ASSUME NEW i \in 2 .. Len(mem') PROVE mem'[i - 1][1] <= mem'[i][1]
      <4>1. CASE i <= Len(mem)
        BY <1>0, <3>1, <4>1 DEF Numbered
      <4>2. CASE i = Len(mem')
        BY <1>0, <3>1, <4>2 DEF Numbered
      <4> QED BY <1>0, <3>1, <4>1, <4>2
    <3> QED BY <1>0, <3>2, <3>3 DEF Numbered
  <2> QED BY <2>1, <2>2 DEF Complete
<1>2. Batch'
  BY <1>0, HostStays DEF Batch
<1>3. WriteSent'
  BY <1>0, WordLands DEF WriteSent
<1>4. ReadValues'
  <2>0. /\ acks \in Seq(Heard) /\ LastGot \in Int /\ Accepted \subseteq 0 .. Len(acks)
        /\ BatchLength \in Int /\ \A i \in 1 .. Len(acks) : acks[i][2][2] \in Nat
    BY <1>0, Numbers, SMTT(20) DEF LastGot, TypeOK, HostTypes, Accepted, BatchLength
  <2>1. reads' = reads \/ reads' = reads + 1
    BY DEF Complete
  <2>2. LastGot' <= reads'
    BY <1>0, <2>0, <2>1, HostStays DEF ReadValues
  <2>3. ASSUME op.kind = "read", ValuesFollow, BufferAhead PROVE ValuesFollow'
    <3> SUFFICES ASSUME step = "wire", NEW k \in Accepted \ {0, 1}
                 PROVE  /\ acks[k][2][1] = op.id /\ acks[k][2][2] <= reads'
                        /\ IF k = 2 THEN acks[k][2][2] > LastGot
                           ELSE acks[k][2][2] = acks[k - 1][2][2] + 1
      BY <1>0, HostStays DEF ValuesFollow
    <3> QED BY <1>0, <2>0, <2>1, <2>3 DEF ValuesFollow
  <2>4. ASSUME op.kind = "read", ValuesFollow, BufferAhead PROVE BufferAhead'
    <3> SUFFICES ASSUME step = "wire", ~err, Len(acks) # 0 /\ Len(acks) < BatchLength,
                        Len(acks) \in Accepted
                 PROVE  /\ rdbuff' = <<op.id, reads'>>
                        /\ IF Len(acks) = 1 THEN reads' > LastGot
                           ELSE reads' = acks[Len(acks)][2][2] + 1
      BY <1>0, HostStays DEF BufferAhead
    <3>1. pending.word[1] = op.id /\ (Len(acks) # 1 => reads = acks[Len(acks)][2][2])
      BY <1>0, <2>4 DEF BufferAhead
    <3>2. reads' = reads + 1 /\ rdbuff' = <<op.id, reads + 1>>
      BY <1>0, <2>4, <3>1 DEF Numbered, Complete
    <3>3. Len(acks) = 1 => reads' > LastGot
      BY <1>0, <2>0, <3>2 DEF ReadValues
    <3>4. Len(acks) # 1 => reads' = acks[Len(acks)][2][2] + 1
      BY <2>0, <3>1, <3>2
    <3> QED BY <3>2, <3>3, <3>4
  <2> QED BY <1>0, <2>2, <2>3, <2>4 DEF ReadValues
<1>5. ReadsInOrder' /\ OkIsClean'
  BY <1>0 DEF ReadsInOrder, OkIsClean
<1> QED BY <1>1, <1>2, <1>3, <1>4, <1>5 DEF IndInv

\* The transaction under way fails, and the sticky error flag is set.
LEMMA BusErrorKeeps == ASSUME IndInv, TypeOK', BusError PROVE IndInv'
<1>0. /\ TypeOK /\ Numbered /\ Batch /\ WriteSent /\ ReadValues /\ ReadsInOrder /\ OkIsClean
      /\ pending # None /\ pending' = None /\ err' = TRUE /\ bad' = bad \cup {pending.word[1]}
      /\ UNCHANGED <<op, step, result, done, acks, got, again, spent, orun, mem, reads, rdbuff>>
      /\ UNCHANGED host
  BY DEF IndInv, BusError, host
<1>1. Numbered'
  BY <1>0 DEF Numbered
<1>2. Batch'
  BY <1>0, HostStays DEF Batch
<1>3. WriteSent'
  <2>1. ~(result = "ok" /\ ~spent)
    BY <1>0 DEF OkIsClean, Batch, TypeOK, HostTypes
  <2>2. LastWord' = LastWord
    BY <1>0 DEF LastWord
  <2> QED BY <1>0, <2>1, <2>2, HostStays
          DEF WriteSent, WordsFollow, PendingFollows, SentSoFar, SentBound, OkWritten, Before
<1>4. ReadValues'
  BY <1>0, HostStays DEF ReadValues, ValuesFollow, BufferAhead
<1>5. ReadsInOrder' /\ OkIsClean'
  BY <1>0 DEF ReadsInOrder, OkIsClean
<1> QED BY <1>1, <1>2, <1>3, <1>4, <1>5 DEF IndInv

-----------------------------------------------------------------------------
(* One transfer on the wire.                                               *)

\* The access of the next transfer.
NextAccess == IF Len(acks) + 1 < BatchLength
              THEN [kind |-> op.kind, word |-> <<op.id, done + Len(acks) + 1>>] ELSE None

\* The four ways a transfer ends.
Refused(ack) == /\ (orun \/ err) /\ ack = "fault" /\ pending' = pending /\ orun' = orun
Waits(ack) == /\ ~orun /\ ~err /\ pending # None /\ ack = "wait" /\ pending' = pending /\ orun'
Accepts(ack) == /\ ~orun /\ ~err /\ pending = None /\ ack \in {"ok", "nack"}
                /\ pending' = NextAccess /\ orun' = orun
Unheard(ack) == ack = "nack" /\ pending' = pending /\ orun' = orun

\* A transfer ends in one of these ways and adds one response.
LEMMA WireIs ==
  ASSUME TypeOK, Wire
  PROVE  /\ step = "wire" /\ Len(acks) < BatchLength
         /\ UNCHANGED <<op, step, result, done, retries, got, again, spent, rdbuff, mem, reads, err, bad>>
         /\ \E ack \in Responses :
              /\ acks' = Append(acks, <<ack, rdbuff>>)
              /\ Refused(ack) \/ Waits(ack) \/ Accepts(ack) \/ Unheard(ack)
<1>1. Respond(NextAccess)
  BY DEF Wire, NextAccess
<1>2. \E ack \in Responses :
        /\ acks' = Append(acks, <<ack, rdbuff>>)
        /\ Refused(ack) \/ Waits(ack) \/ Accepts(ack) \/ Unheard(ack)
  BY <1>1 DEF Respond, Received, Lost, Refused, Waits, Accepts, Unheard, Responses
<1> QED BY <1>2 DEF Wire

\* The response of a transfer joins the others.
LEMMA ResponseAdded ==
  ASSUME TypeOK, NEW ack \in Responses, acks' = Append(acks, <<ack, rdbuff>>),
         again' = again
  PROVE  /\ acks \in Seq(Heard) /\ Len(acks') = Len(acks) + 1
         /\ \A i \in 1 .. Len(acks) : acks'[i] = acks[i]
         /\ acks'[Len(acks) + 1] = <<ack, rdbuff>>
         /\ Accepted \subseteq 0 .. Len(acks)
         /\ Accepted' = IF ack = "ok" /\ Len(acks) \in Accepted THEN Accepted \cup {Len(acks) + 1}
                        ELSE Accepted
         /\ Gaps \subseteq Gaps'
<1>1. acks \in Seq(Heard) /\ Accepted \subseteq 0 .. Len(acks)
  BY DEF TypeOK, HostTypes, Accepted
<1>2. <<ack, rdbuff>> \in Heard
  BY HeardIs DEF TypeOK, PortTypes
<1>3. /\ Len(acks') = Len(acks) + 1 /\ acks'[Len(acks) + 1] = <<ack, rdbuff>>
      /\ \A i \in 1 .. Len(acks) : acks'[i] = acks[i]
  BY <1>1, <1>2
<1>4. acks'[Len(acks) + 1][1] = ack
  BY <1>3
<1>5. ASSUME NEW k \in 0 .. Len(acks)
      PROVE  (\A j \in 1 .. k : acks'[j][1] = "ok") <=> (\A j \in 1 .. k : acks[j][1] = "ok")
  BY <1>1, <1>3
<1>6. (\A j \in 1 .. Len(acks) + 1 : acks'[j][1] = "ok") <=> ack = "ok" /\ Len(acks) \in Accepted
  <2>1. Len(acks) \in Accepted <=> \A j \in 1 .. Len(acks) : acks[j][1] = "ok"
    BY <1>1 DEF Accepted
  <2>2. \A j \in 1 .. Len(acks) + 1 : j \in 1 .. Len(acks) \/ j = Len(acks) + 1
    BY <1>1
  <2>3. \A j \in 1 .. Len(acks) : j \in 1 .. Len(acks) + 1
    BY <1>1
  <2>4. Len(acks) + 1 \in 1 .. Len(acks) + 1
    BY <1>1
  <2> QED BY <1>3, <1>4, <2>1, <2>2, <2>3, <2>4
<1>7. \A k : k \in Accepted' <=>
        k \in Accepted \/ (k = Len(acks) + 1 /\ ack = "ok" /\ Len(acks) \in Accepted)
  <2>1. \A k : k \in 0 .. Len(acks') <=> k \in 0 .. Len(acks) \/ k = Len(acks) + 1
    BY <1>1, <1>3
  <2> QED BY <1>1, <1>5, <1>6, <2>1 DEF Accepted
<1>8. Gaps \subseteq Gaps'
  <2>1. Skipping => Skipping'
    BY <1>1, <1>3 DEF Skipping
  <2> QED BY <2>1 DEF Gaps
<1> QED BY <1>1, <1>3, <1>7, <1>8

\* Transfers keep the numbering and the shape of a batch.
LEMMA WireBatch == ASSUME IndInv, TypeOK', Wire PROVE Numbered' /\ Batch'
<1>0. /\ TypeOK /\ Numbered /\ Batch /\ step = "wire" /\ Len(acks) < BatchLength
      /\ UNCHANGED <<op, step, result, done, got, again, spent, mem, err, bad>>
      /\ op.id \in Nat
  BY WireIs, Numbers DEF IndInv
<1>a. BatchLength \in Int
  BY <1>0, Numbers DEF BatchLength
<1>b. op.kind # "none"
  BY <1>0, AccessesAre DEF TypeOK, HostTypes
<1>1. PICK ack \in Responses :
        /\ acks' = Append(acks, <<ack, rdbuff>>)
        /\ Refused(ack) \/ Waits(ack) \/ Accepts(ack) \/ Unheard(ack)
  BY <1>0, WireIs
<1>2. /\ acks \in Seq(Heard) /\ Len(acks') = Len(acks) + 1
      /\ \A i \in 1 .. Len(acks) : acks'[i] = acks[i]
      /\ acks'[Len(acks')][1] = ack
  BY <1>0, <1>1, ResponseAdded
<1>3. Numbered'
  <2>1. CASE pending' = pending
    BY <1>0, <2>1 DEF Numbered
  <2>2. CASE Accepts(ack) /\ NextAccess # None
    <3>1. pending'.kind = op.kind /\ pending'.word[1] = op.id /\ ~err
      BY <2>2 DEF Accepts, NextAccess
    <3>2. \A i \in 1 .. Len(mem) : mem[i][1] <= op.id
      BY <1>0 DEF Numbered
    <3> QED BY <1>0, <1>b, <3>1, <3>2 DEF Numbered
  <2>3. CASE Accepts(ack) /\ NextAccess = None
    BY <1>0, <2>3 DEF Numbered, Accepts
  <2> QED BY <1>1, <2>1, <2>2, <2>3 DEF Refused, Waits, Unheard
<1>4. Batch'
  <2>1. Len(acks') <= BatchLength'
    BY <1>0, <1>a, <1>2 DEF BatchLength
  <2>2. orun \/ err => orun' \/ err'
    BY <1>0, <1>1 DEF Refused, Waits, Accepts, Unheard
  <2>3. /\ ack \in {"wait", "fault"} => orun' \/ err'
        /\ orun \/ err => ack \in {"fault", "nack"}
    BY <1>0, <1>1 DEF Refused, Waits, Accepts, Unheard
  <2>4. ASSUME NEW i \in 1 .. Len(acks'), acks'[i][1] \in {"wait", "fault"}
        PROVE  /\ orun' \/ err'
               /\ \A j \in i + 1 .. Len(acks') : acks'[j][1] \in {"fault", "nack"}
    <3>1. CASE i = Len(acks')
      BY <1>2, <2>3, <2>4, <3>1
    <3>2. CASE i \in 1 .. Len(acks)
      <4>1. acks[i][1] \in {"wait", "fault"}
        BY <1>2, <2>4, <3>2
      <4>2. /\ orun \/ err
            /\ \A j \in i + 1 .. Len(acks) : acks[j][1] \in {"fault", "nack"}
        BY <1>0, <3>2, <4>1 DEF Batch
      <4>3. ASSUME NEW j \in i + 1 .. Len(acks') PROVE acks'[j][1] \in {"fault", "nack"}
        <5>1. CASE j = Len(acks')
          BY <1>2, <2>3, <4>2, <5>1
        <5>2. CASE j \in i + 1 .. Len(acks)
          BY <1>2, <3>2, <4>2, <5>2
        <5> QED BY <1>2, <5>1, <5>2
      <4> QED BY <2>2, <4>2, <4>3
    <3> QED BY <1>2, <3>1, <3>2
  <2>5. Len(acks') = BatchLength' /\ ack = "ok" => pending' = None /\ ~orun' /\ ~err'
    <3> SUFFICES ASSUME Len(acks') = BatchLength', ack = "ok"
                 PROVE  pending' = None /\ ~orun' /\ ~err'
      OBVIOUS
    <3>1. Accepts(ack)
      BY <1>1 DEF Refused, Waits, Unheard
    <3>2. BatchLength' = BatchLength
      BY <1>0 DEF BatchLength
    <3>3. NextAccess = None
      <4>1. Len(acks) + 1 = BatchLength
        BY <1>2, <3>2
      <4> QED BY <1>a, <4>1 DEF NextAccess
    <3> QED BY <1>0, <3>1, <3>3 DEF Accepts
  <2> QED BY <1>0, <1>2, <2>1, <2>4, <2>5 DEF Batch
<1> QED BY <1>3, <1>4

\* Transfers keep what is known of a write: the word accepted is the next one, one
\* sent again, or one after a lost response.
LEMMA WireWrite == ASSUME IndInv, TypeOK', Wire, op.kind = "write" PROVE WriteSent'
<1>0. /\ TypeOK /\ Batch /\ WriteSent /\ step = "wire" /\ Len(acks) < BatchLength
      /\ UNCHANGED <<op, step, result, done, got, again, spent, mem, err, bad>>
      /\ op.id \in Nat /\ op.n \in Nat /\ done \in Nat /\ done < op.n
      /\ BatchLength = op.n - done + 1 /\ result = "none"
  BY WireIs, Numbers DEF IndInv, BatchLength, Batch
<1>1. PICK ack \in Responses :
        /\ acks' = Append(acks, <<ack, rdbuff>>)
        /\ Refused(ack) \/ Waits(ack) \/ Accepts(ack) \/ Unheard(ack)
  BY <1>0, WireIs
<1>2. /\ acks \in Seq(Heard) /\ Len(acks') = Len(acks) + 1
      /\ \A i \in 1 .. Len(acks) : acks'[i] = acks[i]
      /\ acks'[Len(acks) + 1][1] = ack
      /\ Accepted \subseteq 0 .. Len(acks) /\ Gaps \subseteq Gaps'
      /\ Accepted' = IF ack = "ok" /\ Len(acks) \in Accepted THEN Accepted \cup {Len(acks) + 1}
                     ELSE Accepted
      /\ LastWord' = LastWord /\ BatchLength' = BatchLength
  BY <1>0, <1>1, ResponseAdded DEF LastWord, BatchLength
<1>3. LastWord \in Nat /\ LastSent \in Nat
  BY <1>0, Numbers DEF LastWord, LastSent, TypeOK, PortTypes
<1>4. pending' = pending => LastSent' = LastSent
  BY <1>0, <1>2 DEF LastSent
<1>5. Len(acks) = 0 => 0 \in Accepted
  BY <1>2 DEF Accepted
<1>6. WordsFollow'
  BY <1>0, <1>2 DEF WriteSent, WordsFollow, Before
\* Where the write was when a transfer is accepted.
<1>7. ASSUME Accepts(ack)
      PROVE  /\ LastSent = LastWord
             /\ Len(acks) \in Accepted => \/ LastSent = done + Len(acks)
                                          \/ Len(acks) = 0 /\ LastSent = done + 1 /\ again
             /\ Len(acks) \notin Accepted => LastSent <= done + Len(acks) /\ Skipping'
  <2>0. ~orun /\ ~err /\ pending = None
    BY <1>7 DEF Accepts
  <2>1. LastSent = LastWord
    BY <2>0 DEF LastSent
  <2>2. ASSUME Len(acks) \in Accepted
        PROVE  LastSent = done + Len(acks) \/ (Len(acks) = 0 /\ LastSent = done + 1 /\ again)
    BY <1>0, <1>2, <2>0, <2>2 DEF WriteSent, SentSoFar
  <2>3. ASSUME Len(acks) \notin Accepted PROVE LastSent <= done + Len(acks) /\ Skipping'
    <3>1. PICK k \in 1 .. Len(acks) : acks[k][1] # "ok"
      BY <1>2, <2>3 DEF Accepted
    <3>2. \A j \in 1 .. Len(acks) : acks[j][1] \in {"ok", "nack"}
      BY <1>0, <2>0, Numbers DEF Batch, Responses
    <3>3. Skipping'
      BY <1>2, <3>1, <3>2 DEF Skipping
    <3>4. Len(acks) > 0
      BY <1>2, <3>1
    <3> QED BY <1>0, <2>0, <3>3, <3>4 DEF WriteSent, SentBound
  <2> QED BY <2>1, <2>2, <2>3
<1>8. ASSUME Accepts(ack), NextAccess # None
      PROVE  /\ LastSent' = done + Len(acks) + 1 /\ pending'.word[2] = done + Len(acks) + 1
             /\ pending'.word[2] <= op.n /\ pending'.word[2] - LastWord \in Gaps'
  <2>1. /\ pending' = [kind |-> op.kind, word |-> <<op.id, done + Len(acks) + 1>>]
        /\ Len(acks) + 1 < BatchLength
    BY <1>8 DEF Accepts, NextAccess
  <2>2. /\ pending'.word[1] = op.id /\ pending'.word[2] = done + Len(acks) + 1
        /\ pending' # None
    BY <1>8, <2>1 DEF Accepts
  <2>3. LastSent' = done + Len(acks) + 1
    BY <1>0, <2>2 DEF LastSent
  <2>4. done + Len(acks) + 1 <= op.n
    BY <1>0, <1>2, <2>1
  <2>5. (done + Len(acks) + 1) - LastWord \in Gaps'
    <3>1. CASE Len(acks) \in Accepted
      BY <1>0, <1>2, <1>3, <1>7, <1>8, <3>1 DEF Gaps
    <3>2. CASE Len(acks) \notin Accepted
      BY <1>0, <1>2, <1>3, <1>7, <1>8, <3>2 DEF Gaps
    <3> QED BY <3>1, <3>2
  <2>6. pending'.word[2] <= op.n
    BY <2>2, <2>4
  <2>7. pending'.word[2] - LastWord \in Gaps'
    BY <2>2, <2>5
  <2> QED BY <2>2, <2>3, <2>6, <2>7
<1>9. ASSUME Accepts(ack), NextAccess = None
      PROVE  pending' = None /\ LastSent' = LastSent /\ Len(acks) + 1 = BatchLength
  <2>1. pending' = None /\ pending = None
    BY <1>9 DEF Accepts
  <2>2. Len(acks) + 1 = BatchLength
    BY <1>0, <1>2, <1>9, TransactionsAre, AccessesAre DEF NextAccess, TypeOK, HostTypes
  <2> QED BY <1>4, <2>1, <2>2
<1>10. PendingFollows'
  <2>1. CASE pending' = pending
    BY <1>0, <1>2, <2>1 DEF WriteSent, PendingFollows
  <2>2. CASE Accepts(ack) /\ NextAccess # None
    BY <1>0, <1>2, <1>8, <2>2 DEF PendingFollows
  <2>3. CASE Accepts(ack) /\ NextAccess = None
    BY <1>9, <2>3 DEF PendingFollows
  <2> QED BY <1>1, <2>1, <2>2, <2>3 DEF Refused, Waits, Unheard
<1>11. SentSoFar'
  <2> SUFFICES ASSUME ~err, NEW k \in Accepted', k < Len(acks') => acks'[k + 1][1] = "wait"
               PROVE  IF k = 0 THEN LastSent' = done \/ (LastSent' = done + 1 /\ again)
                      ELSE LastSent' = done + (IF k = BatchLength THEN k - 1 ELSE k)
    BY <1>0, <1>2 DEF SentSoFar
  <2>1. CASE k = Len(acks) + 1
    <3>1. ack = "ok" /\ Len(acks) \in Accepted
      BY <1>2, <2>1
    <3>2. Accepts(ack)
      BY <1>1, <3>1 DEF Refused, Waits, Unheard
    <3>3. CASE NextAccess # None
      <4>1. LastSent' = done + k /\ k # BatchLength
        <5>1. Len(acks) + 1 < BatchLength
          BY <3>3 DEF NextAccess
        <5>2. LastSent' = done + Len(acks) + 1
          BY <1>8, <3>2, <3>3
        <5> QED BY <1>0, <1>2, <2>1, <5>1, <5>2
      <4> QED BY <1>2, <2>1, <4>1
    <3>4. CASE NextAccess = None
      <4>1. Len(acks) # 0
        BY <1>0, <1>9, <3>2, <3>4
      <4>2. LastSent' = done + (k - 1) /\ k = BatchLength
        BY <1>0, <1>2, <1>7, <1>9, <2>1, <3>1, <3>2, <3>4, <4>1
      <4> QED BY <1>2, <2>1, <4>2
    <3> QED BY <3>3, <3>4
  <2>2. CASE k # Len(acks) + 1
    <3>1. k \in Accepted /\ k \in 0 .. Len(acks) /\ acks'[k + 1][1] = "wait"
      <4>1. Accepted' \subseteq Accepted \cup {Len(acks) + 1}
        BY <1>2, Zenon
      <4>2. k \in Accepted
        BY <2>2, <4>1, Zenon
      <4>3. k \in 0 .. Len(acks)
        BY <1>2, <4>2, Zenon
      <4>4. Len(acks) \in Nat /\ Len(acks') = Len(acks) + 1
        BY <1>0, <1>2, Numbers
      <4>5. k < Len(acks')
        BY <4>3, <4>4
      <4> QED BY <4>2, <4>3, <4>5
    <3>2. k < Len(acks) => acks[k + 1][1] = "wait"
      BY <1>2, <3>1
    <3>3. pending' = pending
      <4>1. CASE k < Len(acks)
        <5>1. k + 1 \in 1 .. Len(acks) /\ acks[k + 1][1] = "wait"
          BY <1>2, <3>1, <3>2, <4>1
        <5>2. orun \/ err
          BY <1>0, <5>1 DEF Batch
        <5> QED BY <1>1, <5>2 DEF Refused, Waits, Accepts, Unheard
      <4>2. CASE k = Len(acks)
        <5>1. ack = "wait"
          BY <1>2, <3>1, <4>2
        <5> QED BY <1>1, <5>1 DEF Refused, Waits, Accepts, Unheard
      <4> QED BY <1>2, <3>1, <4>1, <4>2
    <3>4. LastSent' = LastSent
      BY <1>4, <3>3
    <3> QED BY <1>0, <3>1, <3>2, <3>4 DEF WriteSent, SentSoFar
  <2> QED BY <2>1, <2>2
<1>12. SentBound'
  <2> SUFFICES ASSUME ~err, ~orun' PROVE LastSent' <= done + Len(acks) + 1
    BY <1>0, <1>2 DEF SentBound
  <2>1. ~orun
    BY <1>1 DEF Refused, Waits, Accepts, Unheard
  <2>2. LastSent <= done + Len(acks) + 1
    <3>1. CASE Len(acks) = 0
      BY <1>0, <1>2, <1>3, <1>5, <3>1 DEF WriteSent, SentSoFar
    <3>2. CASE Len(acks) > 0
      BY <1>0, <1>2, <1>3, <2>1, <3>2 DEF WriteSent, SentBound
    <3> QED BY <1>2, <3>1, <3>2
  <2>3. LastSent' = LastSent \/ LastSent' = done + Len(acks) + 1
    BY <1>1, <1>4, <1>8, <1>9 DEF Refused, Waits, Unheard
  <2> QED BY <1>0, <1>2, <2>2, <2>3
<1>13. OkWritten'
  BY <1>0 DEF OkWritten
<1> QED BY <1>6, <1>10, <1>11, <1>12, <1>13 DEF WriteSent

\* Transfers keep what is known of a read: the value that comes with an accepted
\* transfer is that of the transaction before.
LEMMA WireRead == ASSUME IndInv, TypeOK', Wire PROVE ReadValues'
<1>0. /\ TypeOK /\ Numbered /\ Batch /\ ReadValues /\ step = "wire" /\ Len(acks) < BatchLength
      /\ UNCHANGED <<op, step, result, done, got, again, spent, rdbuff, mem, reads, err, bad>>
  BY WireIs DEF IndInv
<1>1. PICK ack \in Responses :
        /\ acks' = Append(acks, <<ack, rdbuff>>)
        /\ Refused(ack) \/ Waits(ack) \/ Accepts(ack) \/ Unheard(ack)
  BY <1>0, WireIs
<1>2. /\ acks \in Seq(Heard) /\ Len(acks') = Len(acks) + 1
      /\ \A i \in 1 .. Len(acks) : acks'[i] = acks[i]
      /\ acks'[Len(acks) + 1] = <<ack, rdbuff>>
      /\ Accepted \subseteq 0 .. Len(acks)
      /\ Accepted' = IF ack = "ok" /\ Len(acks) \in Accepted THEN Accepted \cup {Len(acks) + 1}
                     ELSE Accepted
  BY <1>0, <1>1, ResponseAdded
<1>3. LastGot' = LastGot /\ BatchLength' = BatchLength
  BY <1>0 DEF LastGot, BatchLength
<1>4. CASE op.kind # "read"
  BY <1>0, <1>3, <1>4 DEF ReadValues
<1>5. CASE op.kind = "read"
  \* What RDBUFF holds when a transfer after the first is accepted.
  <2>1. ASSUME Accepts(ack), Len(acks) \in Accepted, Len(acks) # 0
        PROVE  /\ rdbuff = <<op.id, reads>>
               /\ IF Len(acks) = 1 THEN reads > LastGot ELSE reads = acks[Len(acks)][2][2] + 1
    <3>1. pending = None /\ ~err
      BY <2>1 DEF Accepts
    <3> QED BY <1>0, <1>5, <2>1, <3>1 DEF ReadValues, BufferAhead
  <2>2. ack = "ok" => Accepts(ack)
    BY <1>1 DEF Refused, Waits, Unheard
  <2>3. ASSUME NEW k \in Accepted' \ {0, 1}
        PROVE  /\ acks'[k][2][1] = op.id /\ acks'[k][2][2] <= reads
               /\ IF k = 2 THEN acks'[k][2][2] > LastGot
                  ELSE acks'[k][2][2] = acks'[k - 1][2][2] + 1
    <3>1. CASE k = Len(acks) + 1
      <4>1. ack = "ok" /\ Len(acks) \in Accepted /\ Len(acks) # 0
        BY <1>2, <2>3, <3>1
      <4>2. acks'[k][2] = <<op.id, reads>>
        BY <1>2, <2>1, <2>2, <3>1, <4>1
      <4>3. acks'[k][2][1] = op.id /\ acks'[k][2][2] = reads
        BY <4>2
      <4>4. CASE Len(acks) = 1
        <5>1. k = 2 /\ reads > LastGot
          BY <2>1, <2>2, <3>1, <4>1, <4>4
        <5> QED BY <1>0, <4>3, <5>1, Numbers
      <4>5. CASE Len(acks) # 1
        <5>1. reads = acks[Len(acks)][2][2] + 1
          BY <2>1, <2>2, <4>1, <4>5
        <5>a. Len(acks) \in Nat \ {0, 1}
          BY <1>2, <2>3, <3>1, <4>5
        <5>2. k # 2 /\ k - 1 = Len(acks) /\ Len(acks) \in 1 .. Len(acks)
          BY <3>1, <5>a
        <5>3. acks'[k - 1] = acks[Len(acks)]
          BY <1>2, <5>2
        <5> QED BY <1>0, <4>3, <5>1, <5>2, <5>3, Numbers
      <4> QED BY <4>4, <4>5
    <3>2. CASE k # Len(acks) + 1
      <4>a. k \in Accepted \ {0, 1} /\ k \in 0 .. Len(acks)
        BY <1>2, <2>3, <3>2
      <4>1. k \in Accepted \ {0, 1} /\ k \in 1 .. Len(acks) /\ k - 1 \in 1 .. Len(acks)
        BY <1>2, <4>a
      <4>2. acks'[k] = acks[k] /\ acks'[k - 1] = acks[k - 1]
        BY <1>2, <4>1
      <4> QED BY <1>0, <1>5, <4>1, <4>2 DEF ReadValues, ValuesFollow
    <3> QED BY <3>1, <3>2
  <2>4. ValuesFollow'
    BY <1>0, <1>3, <2>3 DEF ValuesFollow
  <2>5. BufferAhead'
    <3> SUFFICES ASSUME Len(acks') < BatchLength, Len(acks') \in Accepted'
                 PROVE  /\ pending' # None /\ pending'.word[1] = op.id
                        /\ Len(acks') # 1 => reads = acks'[Len(acks')][2][2]
      BY <1>0, <1>3 DEF BufferAhead
    <3>1. ack = "ok" /\ Len(acks) \in Accepted /\ Accepts(ack)
      BY <1>2, <2>2
    <3>2. pending' = [kind |-> op.kind, word |-> <<op.id, done + Len(acks) + 1>>]
      BY <1>2, <3>1 DEF Accepts, NextAccess
    <3>3. pending'.kind = "read" /\ pending'.word[1] = op.id
      BY <1>5, <3>2
    <3>4. Len(acks') # 1 => reads = acks'[Len(acks')][2][2]
      BY <1>2, <2>1, <3>1
    <3> QED BY <3>3, <3>4, TransactionsAre
  <2> QED BY <1>0, <1>3, <2>4, <2>5 DEF ReadValues
<1> QED BY <1>4, <1>5

\* A transfer keeps the invariant.
LEMMA WireKeeps == ASSUME IndInv, TypeOK', Wire PROVE IndInv'
<1>0. step = "wire" /\ op' = op /\ step' = step /\ got' = got /\ again' = again /\ ReadsInOrder
  BY WireIs DEF IndInv
<1>1. Numbered' /\ Batch'
  BY WireBatch
<1>2. WriteSent'
  BY <1>0, WireWrite DEF WriteSent
<1>3. ReadValues'
  BY WireRead
<1>4. ReadsInOrder' /\ OkIsClean'
  BY <1>0 DEF ReadsInOrder, OkIsClean
<1> QED BY <1>1, <1>2, <1>3, <1>4 DEF IndInv

-----------------------------------------------------------------------------
(* The results of a batch.                                                 *)

\* The values taken continue those returned before.
LEMMA TakenReads ==
  ASSUME IndInv, TypeOK', Answered, Taken, op' = op, again' = again \/ again' = TRUE
  PROVE  ReadsInOrder' /\ LastGot' <= reads
<1>0. /\ TypeOK /\ Batch /\ ReadValues /\ ReadsInOrder /\ step = "wire"
      /\ got \in Seq(Words) /\ reads \in Nat /\ LastGot <= reads
  BY DEF IndInv, Answered, TypeOK, HostTypes, PortTypes, ReadValues
<1>1. Good \in Nat /\ (Good > 0 => Good + 1 \in Accepted)
  BY <1>0, GoodIs, LeadingOks, Numbers
<1>2. ~again => got = <<>>
  BY <1>0 DEF Batch
<1>3. CASE op.kind # "read" \/ Good = 0
  <2>1. got' = got
    <3>1. CASE op.kind # "read"
      BY <3>1 DEF Taken
    <3>2. CASE Good = 0
      <4>1. [i \in 1 .. Good |-> Value(i)] = <<>>
        BY <3>2
      <4>2. got \o <<>> = got
        BY <1>0, ConcatEmptySeq
      <4> QED BY <4>1, <4>2 DEF Taken
    <3> QED BY <1>3, <3>1, <3>2
  <2>2. LastGot' = LastGot
    BY <2>1 DEF LastGot
  <2>3. ReadsInOrder'
    BY <1>0, <1>2, <2>1 DEF ReadsInOrder
  <2> QED BY <1>0, <2>2, <2>3
<1>4. CASE op.kind = "read" /\ Good # 0
  <2> DEFINE vals == [i \in 1 .. Good |-> Value(i)]
  <2>1. \A i \in 1 .. Good : i + 1 \in Accepted \ {0, 1}
    <3> SUFFICES ASSUME NEW i \in 1 .. Good PROVE i + 1 \in Accepted \ {0, 1}
      OBVIOUS
    <3>1. Good + 1 \in Accepted
      BY <1>1, <1>4
    <3>2. Good + 1 \in 0 .. Len(acks) /\ \A j \in 1 .. Good + 1 : acks[j][1] = "ok"
      BY <3>1 DEF Accepted
    <3>3. i + 1 \in 0 .. Len(acks) /\ \A j \in 1 .. i + 1 : acks[j][1] = "ok"
      BY <1>0, <1>1, <3>2 DEF TypeOK, HostTypes
    <3>4. i + 1 \notin {0, 1}
      BY <1>1
    <3> QED BY <3>3, <3>4 DEF Accepted
  <2>2. \A i \in 1 .. Good :
          /\ vals[i][1] = op.id /\ vals[i][2] <= reads
          /\ IF i = 1 THEN vals[i][2] > LastGot ELSE vals[i][2] = vals[i - 1][2] + 1
    <3> SUFFICES ASSUME NEW i \in 1 .. Good
                 PROVE  /\ vals[i][1] = op.id /\ vals[i][2] <= reads
                        /\ IF i = 1 THEN vals[i][2] > LastGot
                           ELSE vals[i][2] = vals[i - 1][2] + 1
      OBVIOUS
    <3>1. /\ acks[i + 1][2][1] = op.id /\ acks[i + 1][2][2] <= reads
          /\ IF i + 1 = 2 THEN acks[i + 1][2][2] > LastGot
             ELSE acks[i + 1][2][2] = acks[i + 1 - 1][2][2] + 1
      BY <1>0, <1>4, <2>1, SMTT(20) DEF ReadValues, ValuesFollow
    <3>2. vals[i] = acks[i + 1][2]
      BY DEF Value
    <3>3. i # 1 => i - 1 \in 1 .. Good /\ vals[i - 1] = acks[i - 1 + 1][2]
      BY <1>1 DEF Value
    <3>4. i \in Nat /\ i - 1 + 1 = i /\ i + 1 - 1 = i /\ (i + 1 = 2 <=> i = 1)
      BY <1>1
    <3> QED BY <3>1, <3>2, <3>3, <3>4
  <2>3. got' = got \o vals
    BY <1>4 DEF Taken
  <2> HIDE DEF vals
  <2>4. vals \in Seq(Words) /\ Len(vals) = Good
    <3>1. \A i \in 1 .. Good : i + 1 \in 1 .. Len(acks) /\ acks \in Seq(Heard)
      BY <1>0, <2>1 DEF Accepted, TypeOK, HostTypes
    <3>2. \A i \in 1 .. Good : acks[i + 1][2] \in Words
      BY <3>1, HeardIs
    <3> QED BY <1>1, <3>2 DEF vals, Value
  <2>5. /\ Len(got') = Len(got) + Good
        /\ \A i \in 1 .. Len(got) : got'[i] = got[i]
        /\ \A i \in 1 .. Good : got'[Len(got) + i] = vals[i]
    <3>1. /\ Len(got \o vals) = Len(got) + Len(vals)
          /\ \A i \in 1 .. Len(got) + Len(vals) :
               (got \o vals)[i] = IF i <= Len(got) THEN got[i] ELSE vals[i - Len(got)]
      BY <1>0, <2>4, ConcatProperties
    <3>2. Len(got) \in Nat
      BY <1>0
    <3>3. ASSUME NEW i \in 1 .. Len(got) PROVE got'[i] = got[i]
      <4>1. i \in 1 .. Len(got) + Len(vals) /\ i <= Len(got)
        BY <1>1, <2>4, <3>2
      <4> QED BY <2>3, <3>1, <4>1
    <3>4. ASSUME NEW i \in 1 .. Good PROVE got'[Len(got) + i] = vals[i]
      <4>1. /\ Len(got) + i \in 1 .. Len(got) + Len(vals) /\ ~(Len(got) + i <= Len(got))
            /\ (Len(got) + i) - Len(got) = i
        BY <1>1, <2>4, <3>2
      <4> QED BY <2>3, <3>1, <4>1
    <3> QED BY <2>3, <2>4, <3>1, <3>3, <3>4
  <2>6. got = <<>> => LastGot = 0
    BY DEF LastGot
  <2>7. got # <<>> => LastGot = got[Len(got)][2]
    BY DEF LastGot
  <2>8. LastGot' <= reads
    <3>1. got' # <<>> /\ got'[Len(got')] = vals[Good] /\ Good \in 1 .. Good
      BY <1>0, <1>1, <1>4, <2>5
    <3>2. LastGot' = vals[Good][2]
      BY <3>1 DEF LastGot
    <3> QED BY <2>2, <3>1, <3>2
  <2>9. ASSUME NEW i \in 1 .. Len(got')
        PROVE  /\ got'[i][1] = op.id
               /\ i > 1 => IF again' THEN got'[i][2] > got'[i - 1][2]
                           ELSE got'[i][2] = got'[i - 1][2] + 1
    <3>1. CASE i \in 1 .. Len(got)
      <4>1. again
        BY <1>0, <1>2, <3>1
      <4>2. i > 1 => i - 1 \in 1 .. Len(got)
        BY <1>0, <3>1
      <4> QED BY <1>0, <2>5, <3>1, <4>1, <4>2 DEF ReadsInOrder
    <3>2. CASE i \notin 1 .. Len(got)
      <4>1. PICK j \in 1 .. Good : i = Len(got) + j
        <5>1. i - Len(got) \in 1 .. Good /\ i = Len(got) + (i - Len(got))
          BY <1>0, <1>1, <2>5, <3>2
        <5> QED BY <5>1
      <4>2. got'[i] = vals[j]
        BY <2>5, <4>1
      <4>3. CASE j = 1
        <5>1. vals[1][2] > LastGot
          BY <2>2, <4>1, <4>3
        <5>2. i > 1 => /\ got # <<>> /\ i - 1 = Len(got) /\ Len(got) \in 1 .. Len(got)
          BY <1>0, <4>1, <4>3
        <5>3. i > 1 => again /\ got'[i - 1] = got[Len(got)] /\ LastGot = got[Len(got)][2]
          BY <1>2, <2>5, <2>7, <5>2
        <5>4. vals[1][1] = op.id
          BY <2>2, <4>1, <4>3
        <5> QED BY <4>2, <4>3, <5>1, <5>3, <5>4
      <4>4. CASE j # 1
        <5>1. j - 1 \in 1 .. Good /\ i - 1 = Len(got) + (j - 1)
          BY <1>0, <1>1, <4>1, <4>4
        <5>2. got'[i - 1] = vals[j - 1]
          BY <2>5, <5>1
        <5>3. vals[j][1] = op.id /\ vals[j][2] = vals[j - 1][2] + 1
          BY <2>2, <4>4
        <5>4. vals[j - 1][2] \in Nat
          BY <2>4, <5>1, WordsAre
        <5> QED BY <4>2, <5>2, <5>3, <5>4
      <4> QED BY <4>3, <4>4
    <3> QED BY <3>1, <3>2
  <2> QED BY <2>8, <2>9 DEF ReadsInOrder
<1> QED BY <1>3, <1>4

\* Between batches nothing is said of the wire but that the access goes on.
LEMMA EmptyBatch ==
  ASSUME IndInv, TypeOK', Answered, Failing # {}, Taken, SendAgain(1), op' = op, err' = err, bad' = bad
  PROVE  /\ Batch' /\ OkIsClean' /\ (op.kind = "write" => SentBound' /\ OkWritten')
         /\ ValuesFollow' /\ BufferAhead' /\ Accepted' = {0}
<1>a. /\ TypeOK /\ Batch /\ step = "wire" /\ result = "none" /\ ~spent
      /\ op.n \in Nat /\ done \in Nat
  BY Numbers DEF IndInv, Answered, Batch
<1>b. /\ acks' = <<>> /\ again' = TRUE
      /\ \/ step' = "wire" /\ result' = "none" /\ ~spent'
         \/ step' = "idle" /\ spent'
  BY <1>a DEF SendAgain, Return
<1>1. done' \in Nat /\ done' < op.n
  BY <1>a, GoodIs DEF Failing, Taken
<1>2. Batch'
  BY <1>a, <1>b, <1>1 DEF Batch, BatchLength
<1>3. Accepted' = {0}
  BY <1>b DEF Accepted
<1>4. OkIsClean'
  BY <1>b DEF OkIsClean
<1>5. SentBound'
  BY <1>b DEF SentBound
<1>6. OkWritten'
  BY <1>b DEF OkWritten
<1>7. ValuesFollow' /\ BufferAhead'
  BY <1>b, <1>3 DEF ValuesFollow, BufferAhead
<1> QED BY <1>2, <1>3, <1>4, <1>5, <1>6, <1>7

\* What the port holds does not change when the host examines the results.
LEMMA PortStays ==
  ASSUME op' = op, UNCHANGED <<pending, mem, bad>>, err' = err \/ err' = FALSE, Numbered
  PROVE  Numbered' /\ LastSent' = LastSent /\ LastWord' = LastWord
BY DEF Numbered, LastSent, LastWord

\* All transfers were accepted: the access returns Ok.
LEMMA AllGoodKeeps == ASSUME IndInv, TypeOK', AllGood PROVE IndInv'
<1>0. /\ TypeOK /\ Numbered /\ Batch /\ WriteSent /\ ReadValues
      /\ Answered /\ Failing = {} /\ Taken /\ step = "wire" /\ step' = "idle" /\ result' = "ok"
      /\ UNCHANGED <<op, acks, again, spent, pending, rdbuff, mem, reads, orun, err, bad>>
      /\ op.n \in Nat /\ done \in Nat /\ done < op.n /\ Len(acks) = op.n - done + 1
      /\ op.id \in Nat /\ Len(mem) \in Nat
  BY Numbers DEF IndInv, AllGood, Return, port, Answered, Batch, BatchLength
<1>1. Good = op.n - done /\ Good + 1 \in Accepted
  BY <1>0, GoodIs, LeadingOks
<1>2. Len(acks) \in Accepted /\ acks[Len(acks)][1] = "ok"
  <2>1. Len(acks) = Good + 1 /\ Len(acks) \in 1 .. Len(acks)
    BY <1>0, <1>1
  <2> QED BY <1>1, <2>1 DEF Accepted
<1>3. pending = None /\ ~orun /\ ~err /\ op.id \notin bad
  BY <1>0, <1>2 DEF Batch, Answered
<1>4. Numbered' /\ Batch' /\ OkIsClean'
  <2>1. Numbered'
    BY <1>0, PortStays
  <2> QED BY <1>0, <1>3, <2>1 DEF Batch, OkIsClean
<1>5. ASSUME op.kind = "write" PROVE WriteSent'
  <2>1. WordsFollow' /\ PendingFollows'
    BY <1>0, <1>5 DEF WriteSent, WordsFollow, PendingFollows, Before, Gaps, Skipping, LastWord
  <2>2. SentSoFar' /\ SentBound'
    BY <1>0 DEF SentSoFar, SentBound
  <2>3. Len(acks) # 0 /\ Len(acks) = BatchLength /\ ~(Len(acks) < Len(acks))
    BY <1>0 DEF BatchLength
  <2>4. LastSent = done + (Len(acks) - 1)
    BY <1>0, <1>2, <1>3, <1>5, <2>3 DEF WriteSent, SentSoFar
  <2>5. LastWord = op.n /\ op.n # 0
    BY <1>0, <1>3, <2>4 DEF LastSent
  <2>6. mem # <<>> /\ mem[Len(mem)][1] = op.id /\ mem[Len(mem)][2] = op.n
    BY <2>5 DEF LastWord
  <2>7. mem[Len(mem)] \in Words
    BY <1>0, <2>6, Numbers DEF TypeOK, PortTypes
  <2>8. mem[Len(mem)] = <<op.id, op.n>>
    BY <2>6, <2>7 DEF Words
  <2> QED BY <1>0, <2>1, <2>2, <2>6, <2>8 DEF WriteSent, OkWritten
<1>6. ReadsInOrder' /\ LastGot' <= reads
  BY <1>0, TakenReads
<1>7. ReadValues' /\ WriteSent'
  BY <1>0, <1>5, <1>6 DEF ReadValues, ValuesFollow, BufferAhead, WriteSent
<1> QED BY <1>4, <1>6, <1>7 DEF IndInv

\* Part of a batch was refused because the port was busy: what was accepted before
\* is done, the one transaction accepted after it may be sent a second time.
LEMMA RetryKeeps == ASSUME IndInv, TypeOK', RetryAfterWait PROVE IndInv'
<1>0. /\ TypeOK /\ Numbered /\ Batch /\ WriteSent /\ ReadValues
      /\ Answered /\ Failing # {} /\ Status(Good + 1) = "wait" /\ Taken /\ SendAgain(1)
      /\ step = "wire" /\ acks' = <<>> /\ again' = TRUE
      /\ UNCHANGED <<op, pending, rdbuff, mem, reads, bad>> /\ err' = err
      /\ op.n \in Nat /\ done \in Nat /\ done < op.n /\ Len(acks) = op.n - done + 1
      /\ acks \in Seq(Heard) /\ BatchLength = Len(acks)
  <2>1. /\ TypeOK /\ Numbered /\ Batch /\ WriteSent /\ ReadValues /\ err \in BOOLEAN
        /\ acks \in Seq(Heard) /\ op.n \in Nat /\ done \in Nat
    BY Numbers DEF IndInv, TypeOK, HostTypes, PortTypes
  <2>2. /\ Answered /\ Failing # {} /\ Status(Good + 1) = "wait" /\ Taken /\ SendAgain(1)
        /\ UNCHANGED <<op, pending, rdbuff, mem, reads, bad>>
    BY DEF RetryAfterWait, AfterWait
  <2>3. err' = err
    BY <2>1 DEF RetryAfterWait, AfterWait
  <2>4. step = "wire" /\ done < op.n /\ BatchLength = Len(acks) /\ Len(acks) = op.n - done + 1
    BY <2>1, <2>2 DEF Answered, Batch, BatchLength
  <2>5. acks' = <<>> /\ again' = TRUE
    BY <2>2 DEF SendAgain
  <2> QED BY <2>1, <2>2, <2>3, <2>4, <2>5
<1>1. PICK k \in Accepted : /\ k < Len(acks) /\ acks[k + 1][1] = "wait" /\ Good \in Nat
                            /\ \/ k = 0 /\ Good = 0
                               \/ k = Good + 1
  <2>1. Good \in 0 .. op.n - done
    BY <1>0, GoodIs
  <2>2. CASE Good = 0 /\ acks[1][1] = Status(1)
    <3>1. 0 \in Accepted /\ 0 < Len(acks) /\ acks[0 + 1][1] = "wait"
      BY <1>0, <2>2 DEF Accepted
    <3> QED BY <2>2, <3>1
  <2>3. CASE Good + 1 \in Accepted /\ acks[Good + 2][1] = Status(Good + 1)
    <3>1. Good + 1 + 1 = Good + 2 /\ Good + 1 \in 1 .. Len(acks)
      BY <1>0, <2>1
    <3>2. Good + 1 < Len(acks)
      <4>1. Good + 1 \in Failing
        BY <1>0, GoodIs
      <4> QED BY <1>0, <2>1, <4>1 DEF Failing
    <3> QED BY <1>0, <2>1, <2>3, <3>1, <3>2
  <2> QED BY <1>0, <2>2, <2>3, LeadingOks
<1>2. ~Skipping
  <2> SUFFICES ASSUME NEW i \in 1 .. Len(acks), acks[i][1] = "nack",
                      \A j \in 1 .. i - 1 : acks[j][1] # "wait"
               PROVE  FALSE
    BY DEF Skipping
  <2>1. k \in 0 .. Len(acks) /\ \A j \in 1 .. k : acks[j][1] = "ok"
    BY DEF Accepted
  <2>2. i > k + 1
    BY <1>0, <1>1, <2>1
  <2>3. k + 1 \in 1 .. i - 1
    BY <1>0, <2>1, <2>2
  <2> QED BY <1>1, <2>3
<1>3. Gaps \subseteq Gaps'
  BY <1>0, <1>2 DEF Gaps
<1>4. Numbered' /\ LastSent' = LastSent /\ LastWord' = LastWord
  BY <1>0, PortStays
<1>5. /\ Batch' /\ OkIsClean' /\ (op.kind = "write" => SentBound' /\ OkWritten')
      /\ ValuesFollow' /\ BufferAhead' /\ Accepted' = {0}
  BY <1>0, EmptyBatch
<1>6. ASSUME op.kind = "write" PROVE WriteSent'
  <2>1. WordsFollow' /\ PendingFollows'
    BY <1>0, <1>3, <1>4, <1>6 DEF WriteSent, WordsFollow, PendingFollows, Before
  <2>2. SentSoFar'
    <3> SUFFICES ASSUME ~err PROVE LastSent = done' \/ LastSent = done' + 1
      BY <1>0, <1>4, <1>5 DEF SentSoFar
    <3>1. done' = done + Good
      BY <1>0 DEF Taken
    <3>2. IF k = 0 THEN LastSent = done \/ (LastSent = done + 1 /\ again)
          ELSE LastSent = done + (IF k = BatchLength THEN k - 1 ELSE k)
      BY <1>0, <1>1, <1>6 DEF WriteSent, SentSoFar
    <3>3. CASE k = 0 /\ Good = 0
      BY <1>0, <3>1, <3>2, <3>3
    <3>4. CASE k = Good + 1
      <4>1. k # 0 /\ k # BatchLength
        BY <1>0, <1>1, <3>4
      <4> QED BY <1>0, <1>1, <3>1, <3>2, <3>4, <4>1
    <3> QED BY <1>1, <3>3, <3>4
  <2> QED BY <1>0, <1>5, <1>6, <2>1, <2>2 DEF WriteSent
<1>7. ReadsInOrder' /\ LastGot' <= reads
  BY <1>0, TakenReads
<1>8. ReadValues' /\ WriteSent'
  BY <1>0, <1>5, <1>6, <1>7 DEF ReadValues, WriteSent
<1> QED BY <1>4, <1>5, <1>7, <1>8 DEF IndInv

\* A failure ends the access, and what its transfers did stays as it is.
LEMMA FailureKeeps ==
  ASSUME IndInv, TypeOK', Answered, Taken, step' = "idle", result' # "ok",
         UNCHANGED <<op, acks, again, spent, pending, rdbuff, mem, reads, bad>>,
         err' = err \/ err' = FALSE
  PROVE  IndInv'
<1>0. TypeOK /\ Numbered /\ WriteSent
  BY DEF IndInv
<1>1. Numbered' /\ LastWord' = LastWord
  BY <1>0, PortStays
<1>2. Batch' /\ OkIsClean'
  BY DEF Batch, OkIsClean
<1>3. ASSUME op.kind = "write" PROVE WriteSent'
  <2>1. WordsFollow' /\ PendingFollows'
    BY <1>0, <1>1, <1>3 DEF WriteSent, WordsFollow, PendingFollows, Before, Gaps, Skipping
  <2> QED BY <2>1 DEF WriteSent, SentSoFar, SentBound, OkWritten
<1>4. ReadsInOrder' /\ LastGot' <= reads
  BY TakenReads
<1>5. ReadValues' /\ WriteSent'
  BY <1>3, <1>4 DEF ReadValues, ValuesFollow, BufferAhead, WriteSent
<1> QED BY <1>1, <1>2, <1>4, <1>5 DEF IndInv

\* The flags found after a FAULT are cleared, or left for the next access.
LEMMA FaultKeeps == ASSUME IndInv, TypeOK', FailWithFault PROVE IndInv'
<1>1. /\ Answered /\ Taken /\ step' = "idle" /\ result' # "ok"
      /\ UNCHANGED <<op, acks, again, spent, pending, rdbuff, mem, reads, bad>>
  BY DEF FailWithFault, Return
<1>2. err' = err \/ err' = FALSE
  BY DEF FailWithFault, IndInv, TypeOK, PortTypes
<1> QED BY <1>1, <1>2, FailureKeeps

\* After a lost response a block access fails and a register access, of one word, is
\* sent again.
LEMMA NackKeeps == ASSUME IndInv, TypeOK', AfterNack PROVE IndInv'
<1>0. /\ TypeOK /\ Numbered /\ Batch /\ WriteSent /\ ReadValues /\ step = "wire"
      /\ Answered /\ Failing # {} /\ Taken
      /\ UNCHANGED <<op, pending, rdbuff, mem, reads, bad>> /\ err' = err
      /\ op.n \in Nat /\ done \in Nat /\ done < op.n
  BY Numbers DEF IndInv, AfterNack, Answered, Batch
<1>1. CASE op.api = "block"
  <2>1. step' = "idle" /\ result' # "ok" /\ UNCHANGED <<acks, again, spent>>
    BY <1>1 DEF AfterNack, Return
  <2> QED BY <1>0, <2>1, FailureKeeps
<1>2. CASE op.api # "block"
  <2>1. SendAgain(1) /\ acks' = <<>> /\ again' = TRUE
    BY <1>2 DEF AfterNack, SendAgain
  <2>2. op.n = 1 /\ done = 0 /\ done' = 0
    <3>1. op.n = 1
      BY <1>0, <1>2, AccessesAre DEF Batch, TypeOK, HostTypes
    <3>2. done = 0
      BY <1>0, <3>1
    <3>3. Good = 0
      BY <1>0, <3>1, <3>2, GoodIs DEF Failing
    <3> QED BY <1>0, <3>1, <3>2, <3>3 DEF Taken
  <2>3. Numbered' /\ LastSent' = LastSent /\ LastWord' = LastWord
    BY <1>0, PortStays
  <2>4. /\ Batch' /\ OkIsClean' /\ (op.kind = "write" => SentBound' /\ OkWritten')
        /\ ValuesFollow' /\ BufferAhead' /\ Accepted' = {0}
    BY <1>0, <2>1, EmptyBatch
  <2>5. ASSUME op.kind = "write" PROVE WriteSent'
    <3>1. LastWord \in Nat
      BY <1>0, Numbers DEF LastWord, TypeOK, PortTypes
    <3>2. ASSUME NEW i \in 1 .. Len(mem), mem[i][1] = op.id
          PROVE  mem[i][2] <= op.n /\ mem[i][2] - Before(i) \in Gaps'
      <4>1. mem[i][2] \in Nat /\ mem[i][2] <= 1 /\ mem[i][2] - Before(i) \in Gaps
        BY <1>0, <2>2, <2>5, <3>2, Numbers DEF WriteSent, WordsFollow
      <4>2. Before(i) \in Nat
        <5>1. CASE i > 1
          <6>1. i - 1 \in 1 .. Len(mem)
            BY <1>0, <5>1, Numbers
          <6> QED BY <1>0, <6>1, Numbers DEF Before
        <5>2. CASE ~(i > 1)
          BY <5>2 DEF Before
        <5> QED BY <5>1, <5>2
      <4>3. ~(mem[i][2] - Before(i) > 1)
        BY <4>1, <4>2
      <4> QED BY <2>1, <2>2, <4>1, <4>3 DEF Gaps
    <3>3. WordsFollow'
      BY <1>0, <3>2 DEF WordsFollow, Before
    <3>4. ASSUME pending # None, pending.word[1] = op.id
          PROVE  pending.word[2] <= op.n /\ pending.word[2] - LastWord \in Gaps'
      <4>1. /\ pending.word[2] \in Nat /\ pending.word[2] <= 1
            /\ pending.word[2] - LastWord \in Gaps
        BY <1>0, <2>2, <2>5, <3>4, Numbers DEF WriteSent, PendingFollows
      <4>2. ~(pending.word[2] - LastWord > 1)
        BY <3>1, <4>1
      <4> QED BY <2>1, <2>2, <4>1, <4>2 DEF Gaps
    <3>5. PendingFollows'
      BY <1>0, <2>3, <3>4 DEF PendingFollows
    <3>6. LastSent \in Nat /\ LastSent <= 1
      <4>1. LastWord <= 1
        BY <1>0, <2>2, <2>5, Numbers DEF LastWord, WriteSent, WordsFollow, TypeOK, PortTypes
      <4> QED BY <1>0, <2>2, <3>1, <3>4, <4>1, Numbers DEF LastSent
    <3>7. SentSoFar'
      BY <1>0, <2>1, <2>2, <2>3, <2>4, <3>6 DEF SentSoFar
    <3> QED BY <2>4, <2>5, <3>3, <3>5, <3>7 DEF WriteSent
  <2>6. ReadsInOrder' /\ LastGot' <= reads
    BY <1>0, <2>1, TakenReads
  <2>7. ReadValues' /\ WriteSent'
    BY <1>0, <2>4, <2>5, <2>6 DEF ReadValues, WriteSent
  <2> QED BY <2>3, <2>4, <2>6, <2>7 DEF IndInv
<1> QED BY <1>1, <1>2

-----------------------------------------------------------------------------
(* The theorems.                                                           *)

\* No step of the host or of the port breaks the invariant.
THEOREM StepKeepsIndInv == IndInv /\ [Next]_vars => IndInv'
<1> SUFFICES ASSUME IndInv, [Next]_vars PROVE IndInv'
  OBVIOUS
<1>1. TypeOK'
  BY TypeStep
<1>2. CASE StartAny
  BY <1>1, <1>2, StartIs, StartKeeps
<1>3. CASE Wire
  BY <1>1, <1>3, WireKeeps
<1>4. CASE AllGood
  BY <1>1, <1>4, AllGoodKeeps
<1>5. CASE RetryAfterWait
  BY <1>1, <1>5, RetryKeeps
<1>6. CASE FailWithFault
  BY <1>1, <1>6, FaultKeeps
<1>7. CASE AfterNack
  BY <1>1, <1>7, NackKeeps
<1>8. CASE Complete
  BY <1>1, <1>8, CompleteKeeps
<1>9. CASE BusError
  BY <1>1, <1>9, BusErrorKeeps
<1>10. CASE UNCHANGED vars
  <2>1. UNCHANGED <<host, port, faults, bad>>
    BY <1>10 DEF vars
  <2>2. Numbered' /\ Batch' /\ ReadsInOrder' /\ OkIsClean'
    BY <2>1 DEF IndInv, host, port, Numbered, Batch, BatchLength, ReadsInOrder, OkIsClean
  <2>3. LastWord' = LastWord /\ LastSent' = LastSent
    BY <2>1 DEF host, port, LastWord, LastSent
  <2>4. Accepted' = Accepted /\ Gaps' = Gaps /\ BatchLength' = BatchLength /\ LastGot' = LastGot
    BY <2>1, HostStays
  <2>5. WordsFollow' = WordsFollow /\ PendingFollows' = PendingFollows
    BY <2>1, <2>3, <2>4 DEF host, port, WordsFollow, PendingFollows, Before
  <2>6. SentSoFar' = SentSoFar /\ SentBound' = SentBound /\ OkWritten' = OkWritten
    BY <2>1, <2>3, <2>4 DEF host, port, SentSoFar, SentBound, OkWritten
  <2>7. ValuesFollow' = ValuesFollow /\ BufferAhead' = BufferAhead
    BY <2>1, <2>4 DEF host, port, ValuesFollow, BufferAhead
  <2>8. WriteSent' /\ ReadValues'
    BY <2>1, <2>4, <2>5, <2>6, <2>7 DEF IndInv, host, port, WriteSent, ReadValues
  <2> QED BY <1>1, <2>2, <2>8 DEF IndInv
<1> QED BY <1>2, <1>3, <1>4, <1>5, <1>6, <1>7, <1>8, <1>9, <1>10 DEF Next, Host

\* The invariant holds in every state.
THEOREM IndInvHolds == Spec => []IndInv
BY InitIndInv, StepKeepsIndInv, PTL DEF Spec

\* An access that returned Ok, and did not run out of retries, left no transaction
\* under way and no flag set, and none of its transactions failed.
THEOREM OkLeavesNothing == Spec => []OkIsClean
<1>1. IndInv => OkIsClean
  BY DEF IndInv
<1> QED BY <1>1, IndInvHolds, PTL

\* However often it is retried, a read returns its own words, in order.
THEOREM ReadsStayInOrder == Spec => []ReadsInOrder
<1>1. IndInv => ReadsInOrder
  BY DEF IndInv
<1> QED BY <1>1, IndInvHolds, PTL

\* A response was lost whenever a word is skipped, and a write that returned Ok wrote
\* its last word.
LEMMA InvWritesInOrder == IndInv => WritesInOrder
<1> SUFFICES ASSUME IndInv, op.kind = "write" PROVE WritesInOrder
  BY DEF WritesInOrder
<1>1. WordsFollow /\ OkWritten /\ Numbered
  BY DEF IndInv, WriteSent
<1>2. Skipping => \E k \in 1 .. Len(acks) : acks[k][1] = "nack"
  BY DEF Skipping
<1>3. ASSUME NEW i \in 1 .. Len(mem), mem[i][1] = op.id
      PROVE  LET gap == mem[i][2] - Before(i)
             IN \/ gap = 1
                \/ gap = 0 /\ again
                \/ gap > 1 /\ \E k \in 1 .. Len(acks) : acks[k][1] = "nack"
  BY <1>1, <1>2, <1>3 DEF WordsFollow, Gaps
<1> QED BY <1>1, <1>3 DEF WritesInOrder, Numbered, OkWritten

\* However often it is retried, the words of a write land in order, behind those of
\* every earlier write, and none is skipped unless a response was lost.
THEOREM WritesStayInOrder == Spec => []WritesInOrder
BY InvWritesInOrder, IndInvHolds, PTL
=============================================================================
