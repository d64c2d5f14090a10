------------------------ MODULE DocumentTransferProofs ------------------------
(***************************************************************************)
(* Proofs about DocumentTransfer, for any number of agents and documents,  *)
(* any sizes and any set of faults.                                        *)
(***************************************************************************)
EXTENDS DocumentTransfer, SequenceTheorems, TLAPS

----------------------------------------------------------------------------
(* The arithmetic of SplitAndSend *)

\* Offsets grow with the number of the sub-message.
LEMMA OffsetsGrow ==
    ASSUME NEW i \in Int, NEW j \in Int, i < j, NEW m \in Nat \ {0}
    PROVE  /\ i * m \in Int
           /\ i * m + m <= j * m
           /\ (i + 1) * m = i * m + m
PROOF OBVIOUS

\* Division with remainder.
LEMMA DivMod ==
    ASSUME NEW a \in Nat, NEW m \in Nat \ {0}
    PROVE  /\ a \div m \in Nat
           /\ a % m \in 0..(m - 1)
           /\ a = (a \div m) * m + (a % m)
PROOF OBVIOUS

\* A quotient rounded up.
LEMMA Ceiling ==
    ASSUME NEW a \in Nat \ {0}, NEW m \in Nat \ {0}, NEW q \in Nat,
           NEW r \in 0..(m - 1), a = q * m + r,
           NEW n \in Nat, n = IF r # 0 THEN q + 1 ELSE q
    PROVE  /\ n # 0
           /\ (n - 1) * m < a
           /\ a <= n * m
PROOF
<1>1. /\ (q + 1) * m = q * m + m
      /\ (q - 1) * m = q * m - m
      /\ 0 * m = 0
      /\ q * m \in Int
  OBVIOUS
<1>2. CASE r # 0
  <2>1. n = q + 1 /\ n - 1 = q
    BY <1>2
  <2> QED BY <1>1, <1>2, <2>1
<1>3. CASE r = 0
  <2>1. n = q
    BY <1>3
  <2>2. q # 0
    BY <1>1, <1>3
  <2> QED BY <1>1, <1>3, <2>1, <2>2
<1> QED BY <1>2, <1>3

\* SplitAndSend announces as many sub-messages as it takes to hold the bytes.
LEMMA RoundedUp ==
    ASSUME NEW d \in Docs
    PROVE  /\ NumberOfSubMessages(d) \in Nat \ {0}
           /\ (NumberOfSubMessages(d) - 1) * MaxMessageSize < Size[d]
           /\ Size[d] <= NumberOfSubMessages(d) * MaxMessageSize
PROOF
<1>1. Size[d] \in Nat \ {0} /\ MaxMessageSize \in Nat \ {0}
  BY TransferAssumption
<1>2. PICK q \in Nat, r \in 0..(MaxMessageSize - 1) :
        /\ q = Size[d] \div MaxMessageSize
        /\ r = Size[d] % MaxMessageSize
        /\ Size[d] = q * MaxMessageSize + r
  BY <1>1, DivMod
<1>3. PICK n \in Nat : n = NumberOfSubMessages(d) /\ n = IF r # 0 THEN q + 1 ELSE q
  BY <1>2 DEF NumberOfSubMessages
<1>4. n # 0 /\ (n - 1) * MaxMessageSize < Size[d] /\ Size[d] <= n * MaxMessageSize
  BY <1>1, <1>2, <1>3, Ceiling
<1> QED BY <1>3, <1>4

----------------------------------------------------------------------------
(* The sub-messages of a document *)

\* An array is filled up unless it is the last one.
LEMMA Arrays ==
    ASSUME NEW d \in Docs, NEW offset \in Nat, offset < Size[d]
    PROVE  /\ ArraySize(d, offset) \in Nat \ {0}
           /\ offset + MaxMessageSize < Size[d] => ArraySize(d, offset) = MaxMessageSize
           /\ Size[d] <= offset + MaxMessageSize => offset + ArraySize(d, offset) = Size[d]
PROOF BY TransferAssumption DEF ArraySize

\* What the messages in the log of one document have in common and where they
\* differ: SplitAndSend neither leaves out a byte nor sends one twice.
LEMMA LogFacts ==
    ASSUME TypeOK, LogInv, NEW d \in Docs
    PROVE  /\ Len(log[d]) \in Nat /\ done[d] \in Nat /\ done[d] <= Len(log[d])
           /\ \A i \in 1..Len(log[d]) :
                /\ log[d][i] \in Messages
                /\ log[d][i].body.doc = d
                /\ log[d][i].of = IF IsLarge(d) THEN NumberOfSubMessages(d) ELSE 0
           /\ \A i \in 1..(Len(log[d]) - 1) :
                log[d][i + 1].body.first = log[d][i].body.first + log[d][i].body.size
           /\ \A i, j \in 1..Len(log[d]) : log[d][i].body = log[d][j].body => i = j
PROOF
<1> DEFINE L == Len(log[d])
           M == MaxMessageSize
<1>1. /\ L \in Nat /\ done[d] \in Nat /\ done[d] <= L
      /\ \A i \in 1..L : log[d][i] \in Messages
  BY DEF TypeOK, LogInv
<1>2. M \in Nat \ {0} /\ Size[d] \in Nat \ {0}
  BY TransferAssumption
<1>3. CASE IsLarge(d)
  <2>1. /\ (L - 1) * M < Size[d]
        /\ \A i \in 1..L : log[d][i] = SubMessage(d, (i - 1) * M, i)
    BY <1>3 DEF LogInv, LogIsCut
  <2>2. \A i \in 1..L : /\ log[d][i].body.doc = d
                        /\ log[d][i].body.first = (i - 1) * M
                        /\ log[d][i].body.size = ArraySize(d, (i - 1) * M)
                        /\ log[d][i].of = NumberOfSubMessages(d)
    <3>1. \A offset, number :
            LET subMessage == SubMessage(d, offset, number)
            IN  /\ subMessage.body.doc = d
                /\ subMessage.body.first = offset
                /\ subMessage.body.size = ArraySize(d, offset)
                /\ subMessage.of = NumberOfSubMessages(d)
      BY DEF SubMessage, Body
    <3> QED BY <2>1, <3>1
  <2>3. ASSUME NEW i \in 1..(L - 1)
        PROVE  log[d][i + 1].body.first = log[d][i].body.first + log[d][i].body.size
    <3>1. /\ (i - 1) * M \in Nat
          /\ i * M \in Nat /\ (L - 1) * M \in Nat
          /\ (i - 1) * M + M = i * M
          /\ i * M <= (L - 1) * M
      <4>1. i \in Nat /\ i - 1 \in Nat /\ L - 1 \in Nat /\ i - 1 < i /\ (i - 1) + 1 = i
        BY <1>1
      <4>2. i = L - 1 \/ i < L - 1
        BY <1>1
      <4>3. \A a \in Nat : a * M \in Nat
        BY <1>2
      <4>4. (i - 1) * M + M = i * M
        BY <4>1, <1>2, OffsetsGrow
      <4>5. i * M <= (L - 1) * M
        <5>1. CASE i = L - 1
          BY <5>1, <4>1, <4>3
        <5>2. CASE i < L - 1
          <6>1. i * M \in Nat /\ (L - 1) * M \in Nat /\ i * M + M <= (L - 1) * M
            BY <5>2, <4>1, <4>3, <1>2, OffsetsGrow
          <6> QED BY <6>1, <1>2
        <5> QED BY <4>2, <5>1, <5>2
      <4> QED BY <4>1, <4>3, <4>4, <4>5
    <3>2. ArraySize(d, (i - 1) * M) = M
      <4>0. (L - 1) * M < Size[d]
        BY <2>1
      <4>1. i * M < Size[d]
        BY <3>1, <4>0, <1>2
      <4>2. (i - 1) * M < Size[d] /\ (i - 1) * M + M < Size[d]
        BY <4>1, <3>1, <1>2
      <4> HIDE DEF M
      <4> QED BY <3>1, <4>2, Arrays DEF M
    <3>3. i \in 1..L /\ i + 1 \in 1..L /\ (i + 1) - 1 = i
      BY <1>1
    <3> QED BY <3>1, <3>2, <3>3, <2>2
  <2>4. ASSUME NEW i \in 1..L, NEW j \in 1..L, i < j
        PROVE  log[d][i].body # log[d][j].body
    <3>1. i - 1 \in Int /\ j - 1 \in Int /\ i - 1 < j - 1
      BY <1>1, <2>4
    <3>2. (i - 1) * M # (j - 1) * M
      BY <3>1, <1>2, OffsetsGrow
    <3> QED BY <3>2, <2>2
  <2>5. \A i, j \in 1..L : log[d][i].body = log[d][j].body => i = j
    BY <2>4, <1>1
  <2> QED BY <1>1, <1>3, <2>2, <2>3, <2>5
<1>4. CASE ~IsLarge(d)
  <2>1. log[d] = <<>> \/ log[d] = <<SingleMessage(d)>>
    BY <1>4 DEF LogInv, LogIsCut
  <2>2. L <= 1 /\ \A i \in 1..L : log[d][i] = SingleMessage(d) /\ i = 1
    <3>1. \A x : Len(<<x>>) = 1 /\ <<x>>[1] = x
      OBVIOUS
    <3>2. CASE log[d] = <<>>
      BY <3>2
    <3>3. CASE log[d] = <<SingleMessage(d)>>
      <4>1. L = 1 /\ log[d][1] = SingleMessage(d)
        BY <3>1, <3>3
      <4> QED BY <4>1
    <3> QED BY <2>1, <3>2, <3>3
  <2>3. \A i \in 1..L : log[d][i].body.doc = d /\ log[d][i].of = 0
    <3>1. SingleMessage(d).body.doc = d /\ SingleMessage(d).of = 0
      BY DEF SingleMessage, Body
    <3> QED BY <2>2, <3>1
  <2> QED BY <1>1, <1>4, <2>2, <2>3
<1> QED BY <1>3, <1>4
----------------------------------------------------------------------------
(* Types *)

LEMMA TypeInit == Init => TypeOK
PROOF
<1> SUFFICES ASSUME Init PROVE TypeOK
  OBVIOUS
<1>1. \A S : <<>> \in Seq(S)
  OBVIOUS
<1>2. Off \in ScannerStates
  BY DEF Off, ScannerStates
<1>3. queueKind \in {"absent", "sessions", "plain"}
  BY TransferAssumption DEF Init
<1>4. disk \in [DOMAIN disk -> Seq(Bodies)] /\ DOMAIN disk = {}
  BY DEF Init
<1> QED
  BY <1>1, <1>2, <1>3, <1>4 DEF Init, TypeOK, CentralPC

\* What an agent does to its own control and locals.
LEMMA ScannerTypes ==
    ASSUME scanner \in [Scanners -> ScannerStates], NEW s \in Scanners, Scanner(s)
    PROVE  scanner' \in [Scanners -> ScannerStates]
PROOF
<1>1. \A r \in ScannerStates : [scanner EXCEPT ![s] = r] \in [Scanners -> ScannerStates]
  OBVIOUS
<1>2. scanner[s] \in ScannerStates /\ Off \in ScannerStates
  BY DEF Off, ScannerStates
<1>3. \A pc \in {"check", "create", "idle"} : [scanner[s] EXCEPT !.pc = pc] \in ScannerStates
  BY <1>2 DEF ScannerStates
<1>4. [Off EXCEPT !.pc = "idle"] \in ScannerStates
  BY DEF Off, ScannerStates
<1>5. \A d \in Docs : [pc |-> "send", doc |-> d, offset |-> 0, number |-> 1] \in ScannerStates
  BY DEF ScannerStates
<1>6. [scanner[s] EXCEPT !.offset = @ + MaxMessageSize, !.number = @ + 1] \in ScannerStates
  <2>1. MaxMessageSize \in Nat
    BY TransferAssumption
  <2>2. scanner[s].offset + MaxMessageSize \in Nat /\ scanner[s].number + 1 \in Nat
    BY <1>2, <2>1 DEF ScannerStates
  <2>3. \A m, n \in Nat : [scanner[s] EXCEPT !.offset = m, !.number = n] \in ScannerStates
    BY <1>2 DEF ScannerStates
  <2> QED BY <2>2, <2>3
<1>7. CASE \E pc \in {"check", "create", "idle"} :
             scanner' = [scanner EXCEPT ![s] = [scanner[s] EXCEPT !.pc = pc]]
  BY <1>1, <1>3, <1>7
<1>8. CASE scanner' = [scanner EXCEPT ![s] = Off] \/ UNCHANGED scanner
  BY <1>1, <1>2, <1>8
<1>9. CASE StartScanner(s) \/ ScannerChecksQueue(s) \/ ScannerCreatesQueue(s)
  <2>1. \/ \E pc \in {"check", "create", "idle"} :
             scanner' = [scanner EXCEPT ![s] = [scanner[s] EXCEPT !.pc = pc]]
        \/ scanner' = [scanner EXCEPT ![s] = Off]
    BY <1>9 DEF StartScanner, ScannerChecksQueue, ScannerCreatesQueue
  <2> QED BY <1>7, <1>8, <2>1
<1>10. ASSUME NEW d \in Docs, BeginSplit(s, d) \/ SendSmall(s, d)
       PROVE  scanner' \in [Scanners -> ScannerStates]
  <2>1. CASE BeginSplit(s, d)
    BY <1>1, <1>5, <2>1 DEF BeginSplit
  <2>2. CASE SendSmall(s, d)
    BY <1>8, <2>2 DEF SendSmall
  <2> QED BY <1>10, <2>1, <2>2
<1>11. CASE SendSubMessage(s)
  BY <1>1, <1>6, <1>11 DEF SendSubMessage
<1>12. CASE EndSplit(s) \/ StopScanner(s)
  BY <1>1, <1>2, <1>4, <1>12 DEF EndSplit, StopScanner
<1> QED BY <1>9, <1>10, <1>11, <1>12 DEF Scanner

LEMMA TypeStep == TypeOK /\ [Next]_vars => TypeOK'
PROOF
<1> SUFFICES ASSUME TypeOK, [Next]_vars PROVE TypeOK'
  OBVIOUS
<1> USE DEF TypeOK, broker, central
<1>st. \A p \in Processes : CountStart(p) => starts' \in [Processes -> Nat]
  BY DEF CountStart
<1>sc. ASSUME NEW s \in Scanners, Scanner(s) PROVE TypeOK'
  <2>0. scanner' \in [Scanners -> ScannerStates]
    BY <1>sc, ScannerTypes
  <2>1. CASE StartScanner(s)
    <3>1. starts' \in [Processes -> Nat]
      BY <2>1, <1>st DEF StartScanner, Processes
    <3> QED BY <2>0, <2>1, <3>1 DEF StartScanner
  <2>2. CASE ScannerChecksQueue(s)
    BY <2>0, <2>2 DEF ScannerChecksQueue
  <2>3. CASE ScannerCreatesQueue(s)
    <3>1. queueKind' \in {"absent", "sessions", "plain"}
      BY <2>3 DEF ScannerCreatesQueue
    <3> QED BY <2>0, <2>3, <3>1 DEF ScannerCreatesQueue
  <2>4. ASSUME NEW d \in Docs, BeginSplit(s, d) PROVE TypeOK'
    BY <2>0, <2>4 DEF BeginSplit
  <2>5. ASSUME NEW d \in Docs, SendSmall(s, d) PROVE TypeOK'
    <3>1. SingleMessage(d) \in Messages
      BY TransferAssumption DEF SingleMessage, Body, Messages, Bodies
    <3>2. log' \in [Docs -> Seq(Messages)]
      <4>1. Append(log[d], SingleMessage(d)) \in Seq(Messages)
        BY <3>1
      <4> QED BY <2>5, <4>1 DEF SendSmall
    <3> QED BY <2>0, <2>5, <3>2 DEF SendSmall
  <2>6. CASE SendSubMessage(s)
    <3> DEFINE d == scanner[s].doc
               offset == scanner[s].offset
               number == scanner[s].number
    <3>1. offset \in Nat /\ number \in Nat /\ offset < Size[d]
      BY <2>6 DEF SendSubMessage, ScannerStates
    <3>2. CASE d \in Docs
      <4>1. NumberOfSubMessages(d) \in Nat /\ ArraySize(d, offset) \in Nat
        BY <3>1, <3>2, RoundedUp, Arrays
      <4>2. SubMessage(d, offset, number) \in Messages
        BY <3>1, <3>2, <4>1 DEF SubMessage, Body, Messages, Bodies
      <4>3. log' \in [Docs -> Seq(Messages)]
        BY <2>6, <3>2, <4>2 DEF SendSubMessage
      <4> QED BY <2>0, <2>6, <4>3 DEF SendSubMessage
    <3>3. CASE d \notin Docs
      <4>1. log' = log
        BY <2>6, <3>3 DEF SendSubMessage
      <4> QED BY <2>0, <2>6, <4>1 DEF SendSubMessage
    <3> QED BY <3>2, <3>3
  <2>7. CASE EndSplit(s)
    BY <2>0, <2>7 DEF EndSplit
  <2>8. CASE StopScanner(s)
    BY <2>0, <2>8 DEF StopScanner
  <2> QED BY <1>sc, <2>1, <2>2, <2>3, <2>4, <2>5, <2>6, <2>7, <2>8 DEF Scanner
<1>ce. CASE Central
  <2> USE DEF CentralPC
  <2>0. \A S : <<>> \in Seq(S)
    OBVIOUS
  <2>d. CentralDown => /\ cpc' \in CentralPC
                       /\ session' \in Docs \cup {NoDoc}
                       /\ stream' \in Seq(Bodies)
                       /\ expected' \in Nat \cup {-1}
                       /\ received' \in Nat
                       /\ counter' \in Nat \ {0}
    BY <2>0 DEF CentralDown
  <2>1. CASE StartCentral
    <3>1. starts' \in [Processes -> Nat]
      BY <2>1, <1>st DEF StartCentral, Processes
    <3> QED BY <2>1, <3>1 DEF StartCentral
  <2>2. CASE CentralChecksQueue
    BY <2>2 DEF CentralChecksQueue
  <2>3. CASE CentralCreatesQueue
    BY <2>3, <2>d DEF CentralCreatesQueue
  <2>4. ASSUME NEW d \in Docs, AcceptMessageSession(d) PROVE TypeOK'
    BY <2>4, <2>0 DEF AcceptMessageSession
  <2>5. CASE AcceptRefused \/ AcceptTimesOut \/ SessionLost
    BY <2>5, <2>d DEF AcceptRefused, AcceptTimesOut, SessionLost
  <2>6. CASE ReceiveSubMessage
    <3> DEFINE subMessage == log[session][done[session] + 1]
    <3>1. session \in Docs
      BY <2>6 DEF ReceiveSubMessage
    <3>2. done[session] + 1 \in 1..Len(log[session])
      BY <2>6, <3>1 DEF ReceiveSubMessage, Pending
    <3>3. subMessage \in Messages
      BY <3>1, <3>2
    <3>4. subMessage.of \in Nat /\ subMessage.body \in Bodies
      BY <3>3 DEF Messages
    <3>5. expected' \in Nat \cup {-1} /\ stream' \in Seq(Bodies)
      BY <2>6, <3>4 DEF ReceiveSubMessage
    <3> QED BY <2>6, <3>5 DEF ReceiveSubMessage
  <2>7. CASE CompleteSubMessage
    BY <2>7 DEF CompleteSubMessage
  <2>8. CASE ReceiveNull
    BY <2>8 DEF ReceiveNull
  <2>9. CASE OpenFile
    <3>1. disk' \in [DOMAIN disk' -> Seq(Bodies)] /\ DOMAIN disk' \subseteq Nat \ {0}
      BY <2>9, <2>0 DEF OpenFile
    <3>2. counter' \in Nat \ {0} /\ cpc' \in CentralPC
      BY <2>9 DEF OpenFile
    <3> QED BY <2>9, <3>1, <3>2 DEF OpenFile
  <2>10. CASE WriteFile
    <3>1. disk' \in [DOMAIN disk' -> Seq(Bodies)] /\ DOMAIN disk' \subseteq Nat \ {0}
      BY <2>10 DEF WriteFile
    <3> QED BY <2>10, <2>0, <3>1 DEF WriteFile
  <2>11. CASE StopCentral
    <3>1. \A k \in 0..Len(stream) : SubSeq(stream, 1, k) \in Seq(Bodies)
      <4>1. \A k \in 0..Len(stream) : \A i \in 1..k : stream[i] \in Bodies
        OBVIOUS
      <4> QED BY <4>1, SubSeqProperties
    <3>2. disk' \in [DOMAIN disk' -> Seq(Bodies)] /\ DOMAIN disk' \subseteq Nat \ {0}
      BY <2>11, <3>1 DEF StopCentral
    <3> QED BY <2>11, <2>d, <3>2 DEF StopCentral
  <2> QED BY <1>ce, <2>1, <2>2, <2>3, <2>4, <2>5, <2>6, <2>7, <2>8, <2>9, <2>10, <2>11 DEF Central
<1>lo. ASSUME NEW d \in Docs, LockExpires(d) PROVE TypeOK'
  BY <1>lo DEF LockExpires
<1>un. CASE UNCHANGED vars
  BY <1>un DEF vars
<1> QED BY <1>sc, <1>ce, <1>lo, <1>un DEF Next

\* The variables keep their types.
THEOREM TypeCorrect == Spec => []TypeOK
PROOF BY TypeInit, TypeStep, PTL DEF Spec
----------------------------------------------------------------------------
(* The agents and the log *)

\* The steps of an agent that neither begin nor continue a document.
Quiet(s) ==
    \/ StartScanner(s)
    \/ ScannerChecksQueue(s)
    \/ ScannerCreatesQueue(s)
    \/ \E d \in Docs : SendSmall(s, d)
    \/ EndSplit(s)
    \/ StopScanner(s)

LEMMA QuietSteps ==
    ASSUME TypeOK, NEW s \in Scanners, Quiet(s)
    PROVE  \A t \in Scanners : Sending(t)' => Sending(t) /\ scanner'[t] = scanner[t]
PROOF
<1> USE DEF TypeOK, Sending, Off
<1>1. CASE StartScanner(s)
  BY <1>1 DEF StartScanner
<1>2. CASE ScannerChecksQueue(s)
  BY <1>2 DEF ScannerChecksQueue
<1>3. CASE ScannerCreatesQueue(s)
  <2>1. CASE scanner' = [scanner EXCEPT ![s].pc = "idle"]
    BY <2>1
  <2>2. CASE scanner' = [scanner EXCEPT ![s] = Off]
    BY <2>2
  <2> QED BY <1>3, <2>1, <2>2 DEF ScannerCreatesQueue
<1>4. ASSUME NEW d \in Docs, SendSmall(s, d)
      PROVE  \A t \in Scanners : Sending(t)' => Sending(t) /\ scanner'[t] = scanner[t]
  BY <1>4 DEF SendSmall
<1>5. CASE EndSplit(s)
  BY <1>5 DEF EndSplit
<1>6. CASE StopScanner(s)
  BY <1>6 DEF StopScanner
<1> QED BY <1>1, <1>2, <1>3, <1>4, <1>5, <1>6 DEF Quiet

\* What a step does to the log: it stays, or it grows by the one document an
\* agent is sending.
LEMMA LogSteps ==
    ASSUME TypeOK, [Next]_vars
    PROVE  \/ UNCHANGED log
           \/ \E s \in Scanners : SendSubMessage(s) \/ \E d \in Docs : SendSmall(s, d)
PROOF
<1> USE DEF broker, central
<1>1. Central => UNCHANGED log
  BY DEF Central, StartCentral, CentralChecksQueue, CentralCreatesQueue, AcceptMessageSession,
         AcceptRefused, AcceptTimesOut, ReceiveSubMessage, CompleteSubMessage, ReceiveNull,
         SessionLost, OpenFile, WriteFile, StopCentral
<1>2. \A d \in Docs : LockExpires(d) => UNCHANGED log
  BY DEF LockExpires
<1>3. ASSUME NEW s \in Scanners, Scanner(s), ~SendSubMessage(s), \A d \in Docs : ~SendSmall(s, d)
      PROVE  UNCHANGED log
  BY <1>3 DEF Scanner, StartScanner, ScannerChecksQueue, ScannerCreatesQueue, BeginSplit, EndSplit, StopScanner
<1> QED BY <1>1, <1>2, <1>3 DEF Next, vars

\* The steps of the central service and of the broker leave the agents alone.
LEMMA OtherSteps ==
    ASSUME \/ Central
           \/ \E d \in Docs : LockExpires(d)
           \/ UNCHANGED vars
    PROVE  UNCHANGED <<scanner, begun, log>>
PROOF
<1> USE DEF broker, central
<1>1. Central => UNCHANGED <<scanner, begun, log>>
  BY DEF Central, StartCentral, CentralChecksQueue, CentralCreatesQueue, AcceptMessageSession,
         AcceptRefused, AcceptTimesOut, ReceiveSubMessage, CompleteSubMessage, ReceiveNull,
         SessionLost, OpenFile, WriteFile, StopCentral
<1>2. \A d \in Docs : LockExpires(d) => UNCHANGED <<scanner, begun, log>>
  BY DEF LockExpires
<1> QED BY <1>1, <1>2 DEF vars

\* One agent sends a document, and it was handed to it before.
LEMMA SenderStep ==
    ASSUME TypeOK, SenderInv, LogInv, [Next]_vars
    PROVE  SenderInv'
PROOF
<1> USE DEF broker, central
<1>1. ASSUME NEW s \in Scanners, Quiet(s)
      PROVE  SenderInv'
  <2>1. \A t \in Scanners : Sending(t)' => Sending(t) /\ scanner'[t] = scanner[t]
    BY <1>1, QuietSteps
  <2>2. ASSUME NEW d \in Docs, SendSmall(s, d)
        PROVE  begun \subseteq begun' /\ \A e \in Docs \ begun' : log'[e] = log[e]
    BY <2>2 DEF SendSmall, TypeOK
  <2>3. CASE \A d \in Docs : ~SendSmall(s, d)
    <3>1. UNCHANGED <<begun, log>>
      BY <1>1, <2>3 DEF Quiet, StartScanner, ScannerChecksQueue, ScannerCreatesQueue, EndSplit, StopScanner
    <3> QED BY <2>1, <3>1 DEF SenderInv
  <2> QED BY <2>1, <2>2, <2>3 DEF SenderInv
<1>2. ASSUME NEW s \in Scanners, NEW d \in Docs, BeginSplit(s, d)
      PROVE  SenderInv'
  <2>1. d \notin begun /\ begun' = begun \cup {d} /\ log' = log
    BY <1>2 DEF BeginSplit
  <2>2. \A t \in Scanners : t # s => scanner'[t] = scanner[t]
    BY <1>2 DEF BeginSplit, TypeOK
  <2>3. scanner'[s].doc = d
    BY <1>2 DEF BeginSplit, TypeOK
  <2> QED BY <2>1, <2>2, <2>3 DEF SenderInv, Sending
<1>3. ASSUME NEW s \in Scanners, SendSubMessage(s)
      PROVE  SenderInv'
  <2>1. Sending(s) /\ begun' = begun
    BY <1>3 DEF SendSubMessage, Sending
  <2>2. \A t \in Scanners : scanner'[t].pc = scanner[t].pc /\ scanner'[t].doc = scanner[t].doc
    BY <1>3 DEF SendSubMessage, TypeOK, ScannerStates
  <2>3. \A d \in Docs \ begun' : log'[d] = log[d]
    BY <1>3, <2>1 DEF SendSubMessage, SenderInv, TypeOK
  <2> QED BY <2>1, <2>2, <2>3 DEF SenderInv, Sending
<1>4. CASE UNCHANGED <<scanner, begun, log>>
  BY <1>4 DEF SenderInv, Sending
<1>5. ASSUME NEW s \in Scanners, Scanner(s)
      PROVE  \/ Quiet(s)
             \/ \E d \in Docs : BeginSplit(s, d)
             \/ SendSubMessage(s)
  BY <1>5 DEF Scanner, Quiet
<1> QED BY <1>1, <1>2, <1>3, <1>4, <1>5, OtherSteps DEF Next

\* The agents cut their documents as SplitAndSend does, and nothing is
\* completed that was not sent.
LEMMA LogStep ==
    ASSUME TypeOK, SenderInv, LogInv, StreamInv, [Next]_vars
    PROVE  LogInv'
PROOF
<1> USE DEF broker, central
<1>0. MaxMessageSize \in Nat \ {0}
  BY TransferAssumption
<1>1. ASSUME NEW s \in Scanners, Quiet(s), \A d \in Docs : ~SendSmall(s, d)
      PROVE  LogInv'
  <2>1. UNCHANGED <<log, done>>
    BY <1>1 DEF Quiet, StartScanner, ScannerChecksQueue, ScannerCreatesQueue, EndSplit, StopScanner
  <2>2. \A t \in Scanners : Sending(t)' => Sending(t) /\ scanner'[t] = scanner[t]
    BY <1>1, QuietSteps
  <2> QED BY <2>1, <2>2 DEF LogInv, LogIsCut, GoesOn
<1>2. ASSUME NEW s \in Scanners, NEW d \in Docs, SendSmall(s, d)
      PROVE  LogInv'
  <2>1. /\ d \notin begun /\ log[d] = <<>> /\ ~IsLarge(d) /\ UNCHANGED done
        /\ log' = log \/ log' = [log EXCEPT ![d] = Append(@, SingleMessage(d))]
    BY <1>2 DEF SendSmall, SenderInv
  <2>2. \A t \in Scanners : Sending(t)' => Sending(t) /\ scanner'[t] = scanner[t]
    BY <1>2, QuietSteps DEF Quiet
  <2>3. CASE log' = log
    BY <2>1, <2>2, <2>3 DEF LogInv, LogIsCut, GoesOn
  <2>4. CASE log' = [log EXCEPT ![d] = Append(@, SingleMessage(d))]
    <3>1. log'[d] = <<SingleMessage(d)>> /\ \A e \in Docs : e # d => log'[e] = log[e]
      BY <2>1, <2>4 DEF TypeOK
    <3>2. done'[d] <= Len(log'[d])
      <4>1. done[d] \in Nat /\ done[d] <= 0
        BY <2>1 DEF LogInv, TypeOK
      <4>2. \A x : Len(<<x>>) = 1
        OBVIOUS
      <4>3. Len(log'[d]) = 1
        BY <3>1, <4>2
      <4> QED BY <2>1, <4>1, <4>3
    <3>3. \A e \in Docs : done'[e] <= Len(log'[e]) /\ LogIsCut(e)'
      <4>1. LogIsCut(d)'
        BY <2>1, <3>1 DEF LogIsCut, IsLarge, SingleMessage, Body
      <4>2. ASSUME NEW e \in Docs, e # d
            PROVE  done'[e] <= Len(log'[e]) /\ LogIsCut(e)'
        BY <2>1, <3>1, <4>2 DEF LogInv, LogIsCut
      <4> QED BY <3>2, <4>1, <4>2
    <3>4. \A t \in Scanners : Sending(t) => scanner[t].doc \in Docs /\ scanner[t].doc # d
      BY <2>1 DEF SenderInv, TypeOK
    <3>5. ASSUME NEW t \in Scanners, Sending(t)'
          PROVE  GoesOn(t)'
      <4>1. Sending(t) /\ scanner'[t] = scanner[t]
        BY <2>2, <3>5
      <4>2. GoesOn(t) /\ log'[scanner[t].doc] = log[scanner[t].doc]
        BY <3>1, <3>4, <4>1 DEF LogInv
      <4> QED BY <4>1, <4>2 DEF GoesOn
    <3> QED BY <3>3, <3>5 DEF LogInv
  <2> QED BY <2>1, <2>3, <2>4
<1>3. ASSUME NEW s \in Scanners, NEW d \in Docs, BeginSplit(s, d)
      PROVE  LogInv'
  <2>1. log[d] = <<>> /\ IsLarge(d) /\ UNCHANGED <<log, done>>
    BY <1>3 DEF BeginSplit, SenderInv
  <2>2. \A t \in Scanners : t # s => scanner'[t] = scanner[t]
    BY <1>3 DEF BeginSplit, TypeOK
  <2>3. scanner'[s] = [pc |-> "send", doc |-> d, offset |-> 0, number |-> 1]
    BY <1>3 DEF BeginSplit, TypeOK
  <2>4. GoesOn(s)'
    BY <1>0, <2>1, <2>3 DEF GoesOn, IsLarge
  <2> QED BY <2>1, <2>2, <2>4 DEF LogInv, LogIsCut, GoesOn, Sending
<1>4. ASSUME NEW s \in Scanners, SendSubMessage(s)
      PROVE  LogInv'
  <2>d. PICK d \in Docs : d = scanner[s].doc
    BY <1>4 DEF SendSubMessage, Sending, SenderInv, TypeOK
  <2> DEFINE offset == scanner[s].offset
             message == SubMessage(d, offset, scanner[s].number)
             L == Len(log[d])
  <2>1. /\ d \in Docs /\ IsLarge(d) /\ L \in Nat
        /\ offset = L * MaxMessageSize
        /\ scanner[s].number = L + 1
        /\ offset < Size[d]
        /\ UNCHANGED done
    BY <1>4, <2>d DEF SendSubMessage, Sending, SenderInv, LogInv, GoesOn, TypeOK
  <2>2. log' = [log EXCEPT ![d] = Append(log[d], message)]
    BY <1>4, <2>d DEF SendSubMessage
  <2>3. /\ log'[d] = Append(log[d], message)
        /\ \A e \in Docs : e # d => log'[e] = log[e]
    BY <2>1, <2>2 DEF TypeOK
  <2>4. /\ Len(log'[d]) = L + 1
        /\ log'[d][L + 1] = message
        /\ \A i \in 1..L : log'[d][i] = log[d][i]
    <3>1. log[d] \in Seq(Messages)
      BY <2>1 DEF TypeOK
    <3> QED BY <2>3, <3>1
  <2>5. LogIsCut(d)'
    <3>1. (L + 1) - 1 = L
      BY <2>1
    <3>2. \A i \in 1..L : log[d][i] = SubMessage(d, (i - 1) * MaxMessageSize, i)
      BY <2>1 DEF LogInv, LogIsCut
    <3>3. message = SubMessage(d, ((L + 1) - 1) * MaxMessageSize, L + 1)
      BY <2>1, <3>1
    <3>4. \A i \in 1..(L + 1) : log'[d][i] = SubMessage(d, (i - 1) * MaxMessageSize, i)
      <4> HIDE DEF message, L
      <4>1. \A i \in 1..(L + 1) : i \in 1..L \/ i = L + 1
        BY <2>1
      <4> QED BY <2>4, <3>2, <3>3, <4>1
    <3>5. (Len(log'[d]) - 1) * MaxMessageSize < Size[d]
      BY <2>1, <2>4, <3>1
    <3> HIDE DEF message, L
    <3> QED BY <2>1, <2>4, <3>4, <3>5 DEF LogIsCut
  <2>6. GoesOn(s)'
    <3>1. /\ scanner'[s].doc = d
          /\ scanner'[s].offset = offset + MaxMessageSize
          /\ scanner'[s].number = scanner[s].number + 1
      BY <1>4, <2>d DEF SendSubMessage, TypeOK, ScannerStates
    <3>2. offset + MaxMessageSize = (L + 1) * MaxMessageSize
      BY <1>0, <2>1
    <3> QED BY <2>1, <2>4, <3>1, <3>2 DEF GoesOn, IsLarge
  <2>7. \A t \in Scanners : t # s => scanner'[t] = scanner[t]
    BY <1>4 DEF SendSubMessage, TypeOK
  <2>8. \A t \in Scanners : t # s /\ Sending(t) => scanner[t].doc \in Docs /\ scanner[t].doc # d
    BY <1>4, <2>d DEF SendSubMessage, Sending, SenderInv, TypeOK
  <2>9. \A e \in Docs : e # d => LogIsCut(e)'
    BY <2>3 DEF LogInv, LogIsCut, IsLarge, SubMessage, Body, NumberOfSubMessages, ArraySize, SingleMessage
  <2>10. \A e \in Docs : done'[e] <= Len(log'[e])
    <3>1. done[d] \in Nat /\ done[d] <= L
      BY <2>1 DEF LogInv, TypeOK
    <3>2. done'[d] <= Len(log'[d])
      BY <2>1, <2>4, <3>1
    <3> QED BY <2>1, <2>3, <3>2 DEF LogInv
  <2>11. \A t \in Scanners : t # s /\ Sending(t)' => GoesOn(t)'
    <3> TAKE t \in Scanners
    <3> HAVE t # s /\ Sending(t)'
    <3>1. Sending(t) /\ scanner'[t] = scanner[t]
      BY <2>7 DEF Sending
    <3>2. GoesOn(t) /\ log'[scanner[t].doc] = log[scanner[t].doc]
      BY <2>3, <2>8, <3>1 DEF LogInv
    <3> QED BY <3>1, <3>2 DEF GoesOn
  <2> QED BY <2>5, <2>6, <2>9, <2>10, <2>11 DEF LogInv
<1>5. CASE Central \/ (\E d \in Docs : LockExpires(d)) \/ UNCHANGED vars
  <2>1. UNCHANGED <<scanner, begun, log>>
    BY <1>5, OtherSteps
  <2>2. \A d \in Docs : done'[d] <= Len(log[d])
    <3>1. CASE CompleteSubMessage
      <4>1. session \in Docs /\ Pending(session) > 0
        BY <3>1 DEF CompleteSubMessage, StreamInv, Receiving
      <4> QED BY <3>1, <4>1 DEF CompleteSubMessage, Pending, LogInv, TypeOK
    <3>2. CASE ~CompleteSubMessage
      <4>1. done' = done
        BY <1>5, <3>2 DEF Central, StartCentral, CentralChecksQueue, CentralCreatesQueue, AcceptMessageSession,
             AcceptRefused, AcceptTimesOut, ReceiveSubMessage, ReceiveNull,
             SessionLost, OpenFile, WriteFile, StopCentral, LockExpires, vars
      <4> QED BY <4>1 DEF LogInv
    <3> QED BY <3>1, <3>2
  <2> QED BY <2>1, <2>2 DEF LogInv, LogIsCut, GoesOn, Sending
<1>6. ASSUME NEW s \in Scanners, Scanner(s)
      PROVE  \/ Quiet(s)
             \/ \E d \in Docs : BeginSplit(s, d)
             \/ SendSubMessage(s)
  BY <1>6 DEF Scanner, Quiet
<1> QED BY <1>1, <1>2, <1>3, <1>4, <1>5, <1>6 DEF Next

\* Only an agent changes the log, by one message at the end.
LEMMA LogAppends ==
    ASSUME TypeOK, [Next]_vars, ~UNCHANGED log
    PROVE  \E d \in Docs, x \in Messages : log' = [log EXCEPT ![d] = Append(log[d], x)]
PROOF
<1>1. PICK s \in Scanners : SendSubMessage(s) \/ \E d \in Docs : SendSmall(s, d)
  BY LogSteps
<1>2. ASSUME NEW d \in Docs, SendSmall(s, d)
      PROVE  \E x \in Messages : log' = [log EXCEPT ![d] = Append(log[d], x)]
  <2>1. SingleMessage(d) \in Messages
    BY TransferAssumption DEF SingleMessage, Body, Messages, Bodies
  <2> QED BY <1>2, <2>1 DEF SendSmall
<1>3. ASSUME SendSubMessage(s)
      PROVE  \E d \in Docs, x \in Messages : log' = [log EXCEPT ![d] = Append(log[d], x)]
  <2>1. scanner[s].doc \in Docs
    BY <1>3 DEF SendSubMessage, TypeOK
  <2>2. /\ scanner[s].offset \in Nat /\ scanner[s].number \in Nat
        /\ scanner[s].offset < Size[scanner[s].doc]
    BY <1>3 DEF SendSubMessage, TypeOK, ScannerStates
  <2>3. SubMessage(scanner[s].doc, scanner[s].offset, scanner[s].number) \in Messages
    BY <2>1, <2>2, RoundedUp, Arrays DEF SubMessage, Body, Messages, Bodies
  <2> QED BY <1>3, <2>1, <2>3 DEF SendSubMessage
<1> QED BY <1>1, <1>2, <1>3

\* A message keeps its place in the log.
LEMMA LogGrows ==
    ASSUME TypeOK, [Next]_vars, NEW d \in Docs
    PROVE  /\ Len(log[d]) \in Nat /\ Len(log'[d]) \in Nat
           /\ Len(log[d]) <= Len(log'[d])
           /\ \A i \in 1..Len(log[d]) : log'[d][i] = log[d][i]
PROOF
<1>1. log[d] \in Seq(Messages) /\ Len(log[d]) \in Nat
  BY DEF TypeOK
<1>2. CASE UNCHANGED log
  BY <1>1, <1>2
<1>3. ASSUME NEW e \in Docs, NEW x \in Messages, log' = [log EXCEPT ![e] = Append(log[e], x)]
      PROVE  /\ Len(log'[d]) \in Nat
             /\ Len(log[d]) <= Len(log'[d])
             /\ \A i \in 1..Len(log[d]) : log'[d][i] = log[d][i]
  <2>1. CASE d = e
    <3>1. log'[d] = Append(log[d], x)
      BY <1>3, <2>1 DEF TypeOK
    <3> QED BY <1>1, <3>1
  <2>2. CASE d # e
    <3>1. log'[d] = log[d]
      BY <1>3, <2>2 DEF TypeOK
    <3> QED BY <1>1, <3>1
  <2> QED BY <2>1, <2>2
<1> QED BY <1>1, <1>2, <1>3, LogAppends

----------------------------------------------------------------------------
(* The central service and its stream *)

\* The places of the stream in the log of its session.
LEMMA StreamFacts ==
    ASSUME TypeOK, LogInv, StreamInv, Receiving
    PROVE  /\ session \in Docs /\ Skipped \in Nat /\ Len(stream) \in Nat
           /\ Skipped + Len(stream) = done[session] + (IF cpc = "complete" THEN 1 ELSE 0)
           /\ Skipped + Len(stream) <= Len(log[session])
           /\ \A i \in 1..Len(stream) :
                Skipped + i \in 1..Len(log[session]) /\ stream[i] = log[session][Skipped + i].body
           /\ stream # <<>> => Len(stream) >= 1 /\ 1 \in 1..Len(log[session])
PROOF
<1>1. /\ session \in Docs /\ done[session] \in Nat /\ received \in Nat
      /\ received <= done[session] /\ Len(stream) \in Nat
      /\ Len(stream) = received + (IF cpc = "complete" THEN 1 ELSE 0)
      /\ stream # <<>> => Len(stream) >= 1
  BY DEF TypeOK, StreamInv
<1>2. Len(log[session]) \in Nat /\ done[session] <= Len(log[session])
  BY <1>1, LogFacts
<1>3. cpc = "complete" => done[session] + 1 <= Len(log[session])
  BY <1>1, <1>2 DEF StreamInv, Pending
<1>4. Skipped \in Nat /\ Skipped + received = done[session]
  BY <1>1 DEF Skipped
<1>5. /\ Skipped + Len(stream) = done[session] + (IF cpc = "complete" THEN 1 ELSE 0)
      /\ Skipped + Len(stream) <= Len(log[session])
  BY <1>1, <1>2, <1>3, <1>4
<1>6. \A i \in 1..Len(stream) : Skipped + i \in 1..Len(log[session])
  BY <1>1, <1>2, <1>4, <1>5
<1>7. \A i \in 1..Len(stream) : stream[i] = log[session][Skipped + i].body
  BY DEF StreamInv
<1>8. stream # <<>> => Len(stream) >= 1 /\ 1 \in 1..Len(log[session])
  BY <1>1, <1>2, <1>4, <1>5
<1> QED BY <1>1, <1>4, <1>5, <1>6, <1>7, <1>8

\* What a step that is not the central service's leaves alone.
LEMMA AgentSteps ==
    ASSUME \/ \E s \in Scanners : Scanner(s)
           \/ \E d \in Docs : LockExpires(d)
           \/ UNCHANGED vars
    PROVE  UNCHANGED <<done, central, disk>>
PROOF
<1> USE DEF broker, central
<1>1. ASSUME NEW s \in Scanners, Scanner(s)
      PROVE  UNCHANGED <<done, central, disk>>
  BY <1>1 DEF Scanner, StartScanner, ScannerChecksQueue, ScannerCreatesQueue,
              BeginSplit, SendSmall, SendSubMessage, EndSplit, StopScanner
<1>2. \A d \in Docs : LockExpires(d) => UNCHANGED <<done, central, disk>>
  BY DEF LockExpires
<1> QED BY <1>1, <1>2 DEF vars

\* The stream holds what was received of the session, whatever is sent
\* meanwhile and however the Receive before it ended.
LEMMA StreamStep ==
    ASSUME TypeOK, LogInv, StreamInv, [Next]_vars
    PROVE  StreamInv'
PROOF
<1> USE DEF broker, central
<1>1. CASE UNCHANGED <<done, central, disk>>
  <2>1. UNCHANGED <<done, cpc, session, stream, expected, received, counter, disk>>
    BY <1>1
  <2>2. CASE Receiving
    <3>1. /\ Len(log[session]) <= Len(log'[session])
          /\ Len(log[session]) \in Nat /\ Len(log'[session]) \in Nat
          /\ \A i \in 1..Len(log[session]) : log'[session][i] = log[session][i]
      BY <2>2, StreamFacts, LogGrows
    <3>2. \A i \in 1..Len(stream) : stream[i] = log'[session][Skipped + i].body
      BY <2>2, <3>1, StreamFacts
    <3>3. expected = IF stream = <<>> THEN -1 ELSE log'[session][1].of
      BY <2>2, <3>1, StreamFacts DEF StreamInv
    <3>4. cpc = "complete" => Len(log'[session]) - done[session] > 0
      BY <2>2, <3>1, StreamFacts DEF StreamInv, Pending, TypeOK
    <3> QED BY <2>1, <2>2, <3>2, <3>3, <3>4 DEF StreamInv, Receiving, Skipped, Pending
  <2>3. CASE ~Receiving
    BY <2>1, <2>3 DEF StreamInv, Receiving
  <2> QED BY <2>2, <2>3
<1>2. ASSUME ~Receiving', stream' = <<>>
      PROVE  StreamInv'
  BY <1>2 DEF StreamInv, Receiving
<1>3. CASE StartCentral \/ CentralChecksQueue \/ CentralCreatesQueue \/ AcceptRefused
             \/ AcceptTimesOut \/ SessionLost \/ StopCentral \/ WriteFile
  <2>1. ~Receiving' /\ stream' = <<>>
    BY <1>3 DEF StartCentral, CentralChecksQueue, CentralCreatesQueue, AcceptRefused, AcceptTimesOut,
                SessionLost, StopCentral, WriteFile, CentralDown, StreamInv, Receiving
  <2> QED BY <1>2, <2>1
<1>4. ASSUME NEW d \in Docs, AcceptMessageSession(d)
      PROVE  StreamInv'
  <2>1. /\ session' = d /\ stream' = <<>> /\ expected' = -1 /\ received' = 0
        /\ cpc' = "receive" /\ UNCHANGED <<log, done>>
    BY <1>4 DEF AcceptMessageSession
  <2>2. Len(stream') = 0 /\ done[d] \in Nat
    BY <2>1 DEF TypeOK
  <2> QED BY <2>1, <2>2 DEF StreamInv, Receiving
<1>5. CASE ReceiveSubMessage
  <2> DEFINE next == log[session][done[session] + 1]
  <2>1. /\ cpc = "receive" /\ cpc' = "complete" /\ Receiving
        /\ Pending(session) > 0
        /\ stream' = Append(stream, next.body)
        /\ expected' = IF expected = -1 THEN next.of ELSE expected
        /\ UNCHANGED <<log, done, session, received, counter, disk>>
    BY <1>5 DEF ReceiveSubMessage, Receiving
  <2>2. /\ session \in Docs /\ Len(log[session]) \in Nat /\ done[session] \in Nat
        /\ received \in Nat /\ received <= done[session]
        /\ done[session] + 1 \in 1..Len(log[session]) /\ 1 \in 1..Len(log[session])
    BY <2>1, LogFacts DEF StreamInv, Pending, TypeOK
  <2>3. next \in Messages /\ next.body \in Bodies /\ next.of \in Nat
    BY <2>2, LogFacts DEF Messages
  <2>4. /\ stream \in Seq(Bodies) /\ Len(stream) = received
        /\ Len(stream') = received + 1 /\ stream' # <<>>
        /\ \A i \in 1..received : stream'[i] = stream[i]
        /\ stream'[received + 1] = next.body
    <3>1. stream \in Seq(Bodies) /\ Len(stream) = received
      BY <2>1, <2>2 DEF StreamInv, TypeOK
    <3> HIDE DEF next
    <3> QED BY <2>1, <2>3, <3>1
  <2>5. \A i \in 1..Len(stream') : stream'[i] = log[session][Skipped + i].body
    <3>1. Skipped + (received + 1) = done[session] + 1
      BY <2>2 DEF Skipped
    <3>2. \A i \in 1..received : stream[i] = log[session][Skipped + i].body
      BY <2>1, <2>4 DEF StreamInv
    <3>3. \A i \in 1..(received + 1) : i \in 1..received \/ i = received + 1
      BY <2>2
    <3> QED BY <2>4, <3>1, <3>2, <3>3
  <2>6. expected' = log[session][1].of
    <3>1. next.of = log[session][1].of
      BY <2>2, LogFacts
    <3>2. expected = -1 \/ expected = log[session][1].of
      BY <2>1 DEF StreamInv
    <3> QED BY <2>1, <3>1, <3>2
  <2> HIDE DEF next
  <2> QED BY <2>1, <2>2, <2>4, <2>5, <2>6 DEF StreamInv, Receiving, Skipped, Pending
<1>6. CASE CompleteSubMessage
  <2>1. /\ cpc = "complete" /\ cpc' \in {"open", "receive"} /\ Receiving
        /\ done' = [done EXCEPT ![session] = @ + 1]
        /\ received' = received + 1
        /\ UNCHANGED <<log, session, stream, expected>>
        /\ cpc' = "receive" => received' # expected'
    BY <1>6 DEF CompleteSubMessage, Receiving
  <2>2. /\ session \in Docs /\ done[session] \in Nat /\ received \in Nat
        /\ received <= done[session] /\ Len(stream) = received + 1
    BY <2>1 DEF StreamInv, TypeOK
  <2>3. done'[session] = done[session] + 1
    BY <2>1, <2>2 DEF TypeOK
  <2>4. Skipped' = Skipped
    BY <2>1, <2>2, <2>3 DEF Skipped
  <2>5. /\ \A i \in 1..Len(stream) : stream[i] = log[session][Skipped + i].body
        /\ expected = IF stream = <<>> THEN -1 ELSE log[session][1].of
    BY <2>1 DEF StreamInv
  <2> QED BY <2>1, <2>2, <2>3, <2>4, <2>5 DEF StreamInv, Receiving
<1>7. CASE ReceiveNull
  <2>1. /\ cpc = "receive" /\ cpc' = "open"
        /\ UNCHANGED <<log, done, session, stream, expected, received, counter, disk>>
    BY <1>7 DEF ReceiveNull
  <2> QED BY <2>1 DEF StreamInv, Receiving, Skipped, Pending
<1>8. CASE OpenFile
  <2>1. /\ cpc = "open" /\ cpc' = "write"
        /\ UNCHANGED <<log, done, session, stream, expected, received>>
        /\ counter' - 1 \in DOMAIN disk' /\ disk'[counter' - 1] = <<>>
    BY <1>8 DEF OpenFile, TypeOK
  <2> QED BY <2>1 DEF StreamInv, Receiving, Skipped, Pending
<1>9. ASSUME Central, ~(\E d \in Docs : AcceptMessageSession(d))
      PROVE  \/ StartCentral \/ CentralChecksQueue \/ CentralCreatesQueue \/ AcceptRefused
             \/ AcceptTimesOut \/ SessionLost \/ StopCentral \/ WriteFile
             \/ ReceiveSubMessage \/ CompleteSubMessage \/ ReceiveNull \/ OpenFile
  BY <1>9 DEF Central
<1> QED BY <1>1, <1>3, <1>4, <1>5, <1>6, <1>7, <1>8, <1>9, AgentSteps DEF Next

----------------------------------------------------------------------------
(* The files *)

\* A file stays, is emptied when it is opened, or receives a beginning of the
\* stream, which is then given up.
LEMMA DiskSteps ==
    ASSUME TypeOK, StreamInv, [Next]_vars, NEW n \in DOMAIN disk'
    PROVE  \/ n \in DOMAIN disk /\ disk'[n] = disk[n]
           \/ disk'[n] = <<>>
           \/ /\ cpc = "write" /\ ~Receiving' /\ n = counter - 1
              /\ \E k \in 0..Len(stream) : disk'[n] = SubSeq(stream, 1, k)
PROOF
<1> USE DEF broker, central
<1>1. CASE UNCHANGED disk
  BY <1>1
<1>2. CASE OpenFile
  BY <1>2 DEF OpenFile
<1>3. CASE WriteFile
  <2>1. cpc = "write" /\ ~Receiving' /\ disk' = [disk EXCEPT ![counter - 1] = stream]
    BY <1>3 DEF WriteFile, Receiving
  <2>2. stream = SubSeq(stream, 1, Len(stream)) /\ Len(stream) \in 0..Len(stream)
    BY SubSeqFull DEF TypeOK
  <2> QED BY <2>1, <2>2
<1>4. CASE StopCentral /\ ~UNCHANGED disk
  <2>1. cpc = "write" /\ ~Receiving'
    BY <1>4 DEF StopCentral, CentralDown, Receiving
  <2>2. PICK k \in 0..Len(stream) : disk' = [disk EXCEPT ![counter - 1] = SubSeq(stream, 1, k)]
    BY <1>4 DEF StopCentral
  <2> QED BY <2>1, <2>2
<1>5. ASSUME Central, ~OpenFile, ~WriteFile, ~StopCentral
      PROVE  UNCHANGED disk
  BY <1>5 DEF Central, StartCentral, CentralChecksQueue, CentralCreatesQueue, AcceptMessageSession,
              AcceptRefused, AcceptTimesOut, ReceiveSubMessage, CompleteSubMessage, ReceiveNull, SessionLost
<1> QED BY <1>1, <1>2, <1>3, <1>4, <1>5, AgentSteps DEF Next

\* A beginning of the stream is made of the next messages of the session.
LEMMA Beginnings ==
    ASSUME TypeOK, LogInv, StreamInv, Receiving, cpc # "complete", NEW k \in 0..Len(stream)
    PROVE  LET f == SubSeq(stream, 1, k)
           IN  /\ Len(f) = k
               /\ \A i \in 1..k :
                    /\ Skipped + i \in 1..done[session]
                    /\ Skipped + i \in 1..Len(log[session])
                    /\ f[i] = log[session][Skipped + i].body
                    /\ f[i].doc = session
               /\ IsSegment(f)
PROOF
<1> DEFINE f == SubSeq(stream, 1, k)
<1>1. /\ Len(stream) \in Nat /\ Skipped \in Nat /\ session \in Docs
      /\ Skipped + Len(stream) = done[session]
      /\ done[session] \in Nat /\ Len(log[session]) \in Nat
      /\ done[session] <= Len(log[session])
  BY StreamFacts, LogFacts
<1>2. Len(f) = k /\ \A i \in 1..k : f[i] = stream[i]
  <2>1. k \in Int /\ 1 \in Int /\ \A i \in 1..k : stream[i] \in Bodies
    BY <1>1 DEF TypeOK
  <2> QED BY <1>1, <2>1, SubSeqProperties
<1>3. ASSUME NEW i \in 1..k
      PROVE  /\ Skipped + i \in 1..done[session]
             /\ Skipped + i \in 1..Len(log[session])
             /\ f[i] = log[session][Skipped + i].body
             /\ f[i].doc = session
  <2>1. i \in 1..Len(stream)
    BY <1>1
  <2>2. Skipped + i \in 1..done[session] /\ Skipped + i \in 1..Len(log[session])
    BY <1>1
  <2>3. f[i] = log[session][Skipped + i].body
    BY <1>2, <2>1, StreamFacts
  <2>4. f[i].doc = session
    BY <1>1, <2>2, <2>3, LogFacts
  <2> QED BY <2>2, <2>3, <2>4
<1>4. ASSUME NEW i \in 1..(k - 1)
      PROVE  f[i + 1].first = f[i].first + f[i].size
  <2>1. i \in 1..k /\ i + 1 \in 1..k
    BY <1>1
  <2>2. Skipped + i \in 1..(Len(log[session]) - 1) /\ Skipped + (i + 1) = (Skipped + i) + 1
    BY <1>1, <1>3, <2>1
  <2>3. log[session][(Skipped + i) + 1].body.first
          = log[session][Skipped + i].body.first + log[session][Skipped + i].body.size
    BY <1>1, <2>2, LogFacts
  <2> HIDE DEF f
  <2> QED BY <1>3, <2>1, <2>2, <2>3
<1>5. IsSegment(f)
  <2>1. \A i \in 1..k : f[i].doc = f[1].doc
    <3>1. \A i \in 1..k : 1 \in 1..k
      BY <1>1
    <3> HIDE DEF f
    <3> QED BY <1>3, <3>1
  <2> HIDE DEF f
  <2> QED BY <1>2, <1>4, <2>1 DEF IsSegment
<1> QED BY <1>2, <1>3, <1>5

\* Whatever a step writes is a segment.
LEMMA SegmentStep ==
    ASSUME TypeOK, LogInv, StreamInv, FilesAreSegments, [Next]_vars
    PROVE  FilesAreSegments'
PROOF
<1> SUFFICES ASSUME NEW n \in DOMAIN disk' PROVE IsSegment(disk'[n])
  BY DEF FilesAreSegments, IsSegment
<1>1. CASE n \in DOMAIN disk /\ disk'[n] = disk[n]
  BY <1>1 DEF FilesAreSegments
<1>2. CASE disk'[n] = <<>>
  BY <1>2 DEF IsSegment
<1>3. ASSUME cpc = "write", NEW k \in 0..Len(stream), disk'[n] = SubSeq(stream, 1, k)
      PROVE  IsSegment(disk'[n])
  BY <1>3, Beginnings DEF Receiving
<1> QED BY <1>1, <1>2, <1>3, DiskSteps

\* At most one sub-message is completed by a step, and it is not given back.
LEMMA DoneGrows ==
    ASSUME TypeOK, [Next]_vars, NEW d \in Docs
    PROVE  done[d] \in Nat /\ done'[d] \in {done[d], done[d] + 1}
PROOF
<1> USE DEF broker, central
<1>1. CASE CompleteSubMessage
  BY <1>1 DEF CompleteSubMessage, TypeOK
<1>2. ASSUME Central, ~CompleteSubMessage
      PROVE  UNCHANGED done
  BY <1>2 DEF Central, StartCentral, CentralChecksQueue, CentralCreatesQueue, AcceptMessageSession,
              AcceptRefused, AcceptTimesOut, ReceiveSubMessage, ReceiveNull, SessionLost,
              OpenFile, WriteFile, StopCentral
<1> QED BY <1>1, <1>2, AgentSteps DEF Next, TypeOK

\* A Receive goes on with its session or begins one after what was completed.
LEMMA SkippedSteps ==
    ASSUME TypeOK, StreamInv, [Next]_vars, Receiving'
    PROVE  \/ Receiving /\ session' = session /\ Skipped' = Skipped
           \/ session' \in Docs /\ Skipped' = done[session'] /\ done' = done
PROOF
<1> USE DEF broker, central
<1>1. CASE UNCHANGED <<done, central, disk>>
  BY <1>1 DEF Receiving, Skipped
<1>2. ASSUME NEW d \in Docs, AcceptMessageSession(d)
      PROVE  session' \in Docs /\ Skipped' = done[session'] /\ done' = done
  BY <1>2 DEF AcceptMessageSession, Skipped, TypeOK
<1>3. CASE ReceiveSubMessage \/ ReceiveNull \/ OpenFile
  BY <1>3 DEF ReceiveSubMessage, ReceiveNull, OpenFile, Receiving, Skipped
<1>4. CASE CompleteSubMessage
  <2>1. /\ Receiving /\ session \in Docs /\ session' = session
        /\ done[session] \in Nat /\ received \in Nat
        /\ done'[session] = done[session] + 1 /\ received' = received + 1
    BY <1>4 DEF CompleteSubMessage, StreamInv, Receiving, TypeOK
  <2> QED BY <2>1 DEF Skipped
<1>5. CASE StartCentral \/ CentralChecksQueue \/ CentralCreatesQueue \/ AcceptRefused
             \/ AcceptTimesOut \/ SessionLost \/ StopCentral \/ WriteFile
  BY <1>5 DEF StartCentral, CentralChecksQueue, CentralCreatesQueue, AcceptRefused, AcceptTimesOut,
              SessionLost, StopCentral, WriteFile, CentralDown, Receiving
<1> QED BY <1>1, <1>2, <1>3, <1>4, <1>5, AgentSteps DEF Next, Central

\* What is in the files was completed, and before what is in the stream.
LEMMA DiskStep ==
    ASSUME TypeOK, LogInv, StreamInv, DiskInv, [Next]_vars
    PROVE  DiskInv'
PROOF
<1> SUFFICES ASSUME NEW n \in DOMAIN disk', NEW i \in 1..Len(disk'[n]), NEW d, d = disk'[n][i].doc
             PROVE  \E k \in 1..done'[d] :
                      /\ disk'[n][i] = log'[d][k].body
                      /\ Receiving' /\ session' = d => k <= Skipped'
  BY DEF DiskInv
<1>1. CASE n \in DOMAIN disk /\ disk'[n] = disk[n]
  <2>1. d \in Docs
    <3>1. disk[n] \in Seq(Bodies) /\ i \in 1..Len(disk[n])
      BY <1>1 DEF TypeOK
    <3>2. disk[n][i] \in Bodies
      BY <3>1
    <3> QED BY <1>1, <3>2 DEF Bodies
  <2>2. PICK k \in 1..done[d] : /\ disk[n][i] = log[d][k].body
                                /\ Receiving /\ session = d => k <= Skipped
    BY <1>1 DEF DiskInv
  <2>3. k \in 1..done'[d] /\ k \in 1..Len(log[d])
    <3>1. done[d] \in Nat /\ done'[d] \in Nat /\ done[d] <= done'[d]
      BY <2>1, DoneGrows
    <3>2. Len(log[d]) \in Nat /\ done[d] <= Len(log[d])
      BY <2>1, LogFacts
    <3> QED BY <3>1, <3>2
  <2>4. disk'[n][i] = log'[d][k].body
    BY <1>1, <2>1, <2>2, <2>3, LogGrows
  <2>5. Receiving' /\ session' = d => k <= Skipped'
    BY <2>1, <2>2, DoneGrows, SkippedSteps
  <2> QED BY <2>3, <2>4, <2>5
<1>2. CASE disk'[n] = <<>>
  BY <1>2
<1>3. ASSUME cpc = "write", ~Receiving', NEW m \in 0..Len(stream), disk'[n] = SubSeq(stream, 1, m)
      PROVE  \E k \in 1..done'[d] : disk'[n][i] = log'[d][k].body
  <2>1. /\ Len(disk'[n]) = m
        /\ Skipped + i \in 1..done[session] /\ Skipped + i \in 1..Len(log[session])
        /\ disk'[n][i] = log[session][Skipped + i].body
        /\ d = session /\ d \in Docs
    BY <1>3, Beginnings DEF Receiving, StreamInv
  <2>2. Skipped + i \in 1..done'[d]
    <3>1. done[d] \in Nat /\ done'[d] \in {done[d], done[d] + 1}
      BY <2>1, DoneGrows
    <3>2. Skipped + i \in 1..done[d]
      BY <2>1
    <3> QED BY ONLY <3>1, <3>2
  <2> QED BY <2>1, <2>2, LogGrows
<1> QED BY <1>1, <1>2, <1>3, DiskSteps

\* The stream that is written holds nothing that is in a file already.
LEMMA OnceStep ==
    ASSUME TypeOK, LogInv, StreamInv, DiskInv, NoByteSavedTwice, [Next]_vars
    PROVE  NoByteSavedTwice'
PROOF
<1> DEFINE Old(n) == n \in DOMAIN disk /\ disk'[n] = disk[n]
           New(n) == /\ cpc = "write" /\ n = counter - 1
                     /\ \E k \in 0..Len(stream) : disk'[n] = SubSeq(stream, 1, k)
<1>0. session \in Docs =>
        \A k, l \in 1..Len(log[session]) : log[session][k].body = log[session][l].body => k = l
  BY LogFacts
<1>1. ASSUME NEW n, New(n), NEW i \in 1..Len(disk'[n])
      PROVE  /\ Receiving /\ session \in Docs
             /\ i \in Nat \ {0} /\ Skipped \in Nat
             /\ Skipped + i \in 1..Len(log[session])
             /\ disk'[n][i] = log[session][Skipped + i].body
             /\ disk'[n][i].doc = session
  <2>1. Receiving
    BY <1>1 DEF Receiving
  <2>2. session \in Docs /\ Skipped \in Nat
    BY <2>1, StreamFacts
  <2>3. PICK k \in 0..Len(stream) : disk'[n] = SubSeq(stream, 1, k)
    BY <1>1
  <2>4. /\ Len(disk'[n]) = k
        /\ \A j \in 1..k : /\ Skipped + j \in 1..Len(log[session])
                           /\ disk'[n][j] = log[session][Skipped + j].body
                           /\ disk'[n][j].doc = session
    BY <1>1, <2>1, <2>3, Beginnings
  <2> QED BY <2>1, <2>2, <2>4
<1>2. ASSUME NEW m, Old(m), NEW n, New(n),
             NEW i \in 1..Len(disk'[m]), NEW j \in 1..Len(disk'[n])
      PROVE  disk'[m][i] # disk'[n][j]
  <2> SUFFICES ASSUME disk'[m][i] = disk'[n][j] PROVE FALSE
    OBVIOUS
  <2>0. /\ disk'[n][j] = log[session][Skipped + j].body /\ disk'[n][j].doc = session
        /\ Receiving /\ session \in Docs /\ Skipped \in Nat /\ j \in Nat \ {0}
        /\ Skipped + j \in 1..Len(log[session])
    BY <1>1, <1>2
  <2>1. /\ disk[m][i].doc = session /\ disk[m][i] = log[session][Skipped + j].body
        /\ m \in DOMAIN disk /\ i \in 1..Len(disk[m])
    BY <1>2, <2>0
  <2>2. PICK k \in 1..done[session] : disk[m][i] = log[session][k].body /\ k <= Skipped
    BY <2>0, <2>1 DEF DiskInv
  <2>3. k \in 1..Len(log[session])
    <3>1. /\ Len(log[session]) \in Nat /\ done[session] \in Nat
          /\ done[session] <= Len(log[session])
      BY <2>0, LogFacts
    <3> QED BY <3>1
  <2>4. k = Skipped + j
    BY <1>0, <2>0, <2>1, <2>2, <2>3
  <2> QED BY <2>0, <2>2, <2>4
<1>3. ASSUME NEW m, New(m), NEW n, New(n),
             NEW i \in 1..Len(disk'[m]), NEW j \in 1..Len(disk'[n]),
             disk'[m][i] = disk'[n][j]
      PROVE  m = n /\ i = j
  <2>1. /\ session \in Docs /\ Skipped \in Nat /\ i \in Nat
        /\ Skipped + i \in 1..Len(log[session])
        /\ disk'[m][i] = log[session][Skipped + i].body
    BY <1>1, <1>3
  <2>2. /\ j \in Nat
        /\ Skipped + j \in 1..Len(log[session])
        /\ disk'[n][j] = log[session][Skipped + j].body
    BY <1>1, <1>3
  <2>3. Skipped + i = Skipped + j
    BY <1>0, <1>3, <2>1, <2>2
  <2> QED BY <1>3, <2>1, <2>2, <2>3
<1>4. ASSUME NEW n \in DOMAIN disk', NEW i \in 1..Len(disk'[n])
      PROVE  Old(n) \/ New(n)
  <2>1. disk'[n] # <<>>
    BY <1>4
  <2> QED BY <2>1, DiskSteps
<1>5. ASSUME NEW m \in DOMAIN disk', NEW n \in DOMAIN disk',
             NEW i \in 1..Len(disk'[m]), NEW j \in 1..Len(disk'[n]),
             disk'[m][i] = disk'[n][j]
      PROVE  m = n /\ i = j
  <2>1. CASE Old(m) /\ Old(n)
    BY <1>5, <2>1 DEF NoByteSavedTwice
  <2> HIDE DEF Old, New
  <2> QED BY <1>2, <1>3, <1>4, <1>5, <2>1
<1> QED BY <1>5 DEF NoByteSavedTwice

----------------------------------------------------------------------------
(* The queue *)

\* The queue is created once and stays what it is.
LEMMA KindSteps ==
    ASSUME [Next]_vars
    PROVE  queueKind' = queueKind \/ (queueKind = "absent" /\ queueKind' \in {"sessions", "plain"})
PROOF
<1> USE DEF broker, central
<1>1. ASSUME NEW s \in Scanners, Scanner(s)
      PROVE  queueKind' = queueKind \/ (queueKind = "absent" /\ queueKind' = "sessions")
  BY <1>1 DEF Scanner, StartScanner, ScannerChecksQueue, ScannerCreatesQueue,
              BeginSplit, SendSmall, SendSubMessage, EndSplit, StopScanner
<1>2. Central => queueKind' = queueKind \/ (queueKind = "absent" /\ queueKind' = "plain")
  BY DEF Central, StartCentral, CentralChecksQueue, CentralCreatesQueue, AcceptMessageSession,
         AcceptRefused, AcceptTimesOut, ReceiveSubMessage, CompleteSubMessage, ReceiveNull,
         SessionLost, OpenFile, WriteFile, StopCentral
<1>3. \A d \in Docs : LockExpires(d) => queueKind' = queueKind
  BY DEF LockExpires
<1> QED BY <1>1, <1>2, <1>3 DEF Next, vars

\* An agent gets past the check by finding the queue or by creating it.
LEMMA AgentHasQueue ==
    ASSUME TypeOK, QueueInv, [Next]_vars
    PROVE  \A s \in Scanners : scanner'[s].pc \in {"idle", "send"} => queueKind' # "absent"
PROOF
<1> USE DEF broker, central
<1> SUFFICES ASSUME NEW t \in Scanners, scanner'[t].pc \in {"idle", "send"}
             PROVE  queueKind' # "absent"
  OBVIOUS
<1>1. queueKind # "absent" => queueKind' # "absent"
  BY KindSteps
<1>2. CASE scanner[t].pc \in {"idle", "send"}
  BY <1>1, <1>2 DEF QueueInv, QueueIsThere
<1>3. CASE scanner[t].pc \notin {"idle", "send"}
  <2>1. PICK s \in Scanners : Scanner(s)
    <3>1. UNCHANGED scanner => FALSE
      BY <1>3
    <3> QED BY <3>1, OtherSteps DEF Next
  <2>2. s = t
    <3>1. \/ \E x : scanner' = [scanner EXCEPT ![s] = x]
          \/ UNCHANGED scanner
      BY <2>1 DEF Scanner, StartScanner, ScannerChecksQueue, ScannerCreatesQueue,
              BeginSplit, SendSmall, SendSubMessage, EndSplit, StopScanner
    <3> QED BY <1>3, <3>1 DEF TypeOK
  <2>3. \/ ScannerChecksQueue(t) \/ ScannerCreatesQueue(t)
        \/ StartScanner(t) \/ StopScanner(t)
    BY <1>3, <2>1, <2>2 DEF Scanner, BeginSplit, SendSmall, SendSubMessage, EndSplit
  <2>4. CASE ScannerChecksQueue(t)
    BY <1>1, <2>4 DEF ScannerChecksQueue, TypeOK
  <2>5. CASE ScannerCreatesQueue(t)
    BY <1>1, <2>5 DEF ScannerCreatesQueue
  <2>6. CASE StartScanner(t) \/ StopScanner(t)
    BY <2>6 DEF StartScanner, StopScanner, Off, TypeOK, ScannerStates
  <2> QED BY <2>3, <2>4, <2>5, <2>6
<1> QED BY <1>2, <1>3

\* The central service accepts a session only from a queue that has them.
LEMMA CentralHasQueue ==
    ASSUME TypeOK, QueueInv, [Next]_vars
    PROVE  /\ cpc' = "accept" => queueKind' # "absent"
           /\ cpc' \in {"receive", "complete", "open", "write"} => queueKind' = "sessions"
PROOF
<1> USE DEF broker, central
<1>1. CASE UNCHANGED cpc
  BY <1>1, KindSteps DEF QueueInv, QueueIsThere
<1>2. ASSUME cpc \in {"receive", "complete", "open", "write"}
      PROVE  queueKind' = "sessions"
  BY <1>2, KindSteps DEF QueueInv, QueueIsThere
<1>3. CASE CentralChecksQueue \/ CentralCreatesQueue
  BY <1>3, KindSteps DEF CentralChecksQueue, CentralCreatesQueue, CentralDown
<1>4. ASSUME NEW d \in Docs, AcceptMessageSession(d)
      PROVE  cpc' = "receive" /\ queueKind' = "sessions"
  BY <1>4 DEF AcceptMessageSession
<1>5. CASE ReceiveSubMessage \/ CompleteSubMessage \/ ReceiveNull \/ OpenFile \/ WriteFile
  <2>1. cpc \in {"receive", "complete", "open", "write"}
    BY <1>5 DEF ReceiveSubMessage, CompleteSubMessage, ReceiveNull, OpenFile, WriteFile
  <2> QED BY <1>2, <2>1
<1>6. CASE StartCentral \/ AcceptRefused \/ AcceptTimesOut \/ SessionLost \/ StopCentral
  BY <1>6 DEF StartCentral, AcceptRefused, AcceptTimesOut, SessionLost, StopCentral, CentralDown
<1> QED BY <1>1, <1>3, <1>4, <1>5, <1>6, AgentSteps DEF Next, Central

\* Whoever uses the queue has one, and small documents are only in a plain one.
LEMMA QueueStep ==
    ASSUME TypeOK, QueueInv, SenderInv, LogInv, [Next]_vars
    PROVE  QueueInv'
PROOF
<1>1. ASSUME NEW d \in Docs, ~IsLarge(d), log'[d] # <<>>
      PROVE  queueKind' = "plain"
  <2>1. queueKind = "plain" => queueKind' = "plain"
    BY KindSteps
  <2>2. CASE log[d] # <<>>
    BY <1>1, <2>1, <2>2 DEF QueueInv
  <2>3. CASE log[d] = <<>>
    <3>1. PICK s \in Scanners : SendSubMessage(s) \/ \E e \in Docs : SendSmall(s, e)
      BY <1>1, <2>3, LogSteps
    <3>2. ~SendSubMessage(s)
      <4> SUFFICES ASSUME SendSubMessage(s) PROVE FALSE
        OBVIOUS
      <4>1. scanner[s].doc \in Docs /\ IsLarge(scanner[s].doc)
        BY DEF SendSubMessage, SenderInv, LogInv, GoesOn, Sending, TypeOK
      <4>2. log'[d] = log[d]
        BY <1>1, <4>1 DEF SendSubMessage, TypeOK
      <4> QED BY <1>1, <2>3, <4>2
    <3>3. PICK e \in Docs : SendSmall(s, e)
      BY <3>1, <3>2
    <3>4. log' # log
      BY <1>1, <2>3
    <3>5. queueKind = "plain"
      BY <3>3, <3>4 DEF SendSmall
    <3> QED BY <2>1, <3>5
  <2> QED BY <2>2, <2>3
<1>2. QueueIsThere'
  BY AgentHasQueue, CentralHasQueue DEF QueueIsThere
<1> QED BY <1>1, <1>2 DEF QueueInv, IsLarge

----------------------------------------------------------------------------
(* The theorems *)

LEMMA TransferInit == Init => TransferInv
PROOF
<1> SUFFICES ASSUME Init PROVE TransferInv
  OBVIOUS
<1>1. TypeOK
  BY TypeInit
<1>2. SenderInv
  BY DEF Init, SenderInv, Sending, Off
<1>3. LogInv
  <2>1. Len(<<>>) = 0 /\ MaxMessageSize \in Nat \ {0}
    BY TransferAssumption
  <2>2. \A d \in Docs : (Len(<<>>) - 1) * MaxMessageSize < Size[d]
    BY <2>1, TransferAssumption
  <2>3. \A d \in Docs : log[d] = <<>> /\ done[d] = 0
    BY DEF Init
  <2> QED BY <2>1, <2>2, <2>3 DEF Init, LogInv, LogIsCut, Sending, Off
<1>4. StreamInv
  BY DEF Init, StreamInv, Receiving
<1>6. QueueInv
  BY DEF Init, QueueInv, QueueIsThere, Off
<1>5. DiskInv /\ FilesAreSegments /\ NoByteSavedTwice
  BY DEF Init, DiskInv, FilesAreSegments, NoByteSavedTwice
<1> QED BY <1>1, <1>2, <1>3, <1>4, <1>5, <1>6 DEF TransferInv

LEMMA TransferStep == TransferInv /\ [Next]_vars => TransferInv'
PROOF BY TypeStep, QueueStep, SenderStep, LogStep, StreamStep, DiskStep, SegmentStep, OnceStep DEF TransferInv

\* The inductive invariant holds.
THEOREM TransferCorrect == Spec => []TransferInv
PROOF BY TransferInit, TransferStep, PTL DEF Spec

\* Nobody goes on without the queue, however the checks and creations of several
\* processes interleave (AzureQueueClient.cs:78-83).
THEOREM NobodyMissesQueue == Spec => []QueueIsThere
PROOF
<1>1. TransferInv => QueueIsThere
  BY DEF TransferInv, QueueInv
<1> QED BY <1>1, TransferCorrect, PTL

\* What Receive gets has the property it casts, although small documents are
\* sent without it (AzureQueueClient.cs:48 of the central service).
THEOREM NumberIsThere == Spec => []ReceivedHasNumber
PROOF
<1>1. ASSUME TransferInv, stream # <<>>
      PROVE  expected > 0
  <2>1. Receiving /\ TypeOK /\ LogInv /\ StreamInv /\ QueueInv
    BY <1>1 DEF TransferInv, StreamInv
  <2>2. /\ session \in Docs /\ 1 \in 1..Len(log[session])
        /\ expected = log[session][1].of
    BY <1>1, <2>1, StreamFacts DEF StreamInv
  <2>3. IsLarge(session)
    <3>1. log[session] # <<>>
      BY <2>2
    <3>2. queueKind = "sessions"
      BY <2>1 DEF QueueInv, QueueIsThere, Receiving
    <3> QED BY <2>1, <2>2, <3>1, <3>2 DEF QueueInv
  <2>4. expected = NumberOfSubMessages(session)
    BY <2>1, <2>2, <2>3, LogFacts
  <2>5. NumberOfSubMessages(session) \in Nat \ {0}
    BY <2>2, RoundedUp
  <2> QED BY <2>4, <2>5
<1>2. TransferInv => ReceivedHasNumber
  BY <1>1 DEF ReceivedHasNumber
<1> QED BY <1>2, TransferCorrect, PTL

\* Every file is a gapless stretch of one document.
THEOREM FilesAreStretches == Spec => []FilesAreSegments
PROOF
<1>1. TransferInv => FilesAreSegments
  BY DEF TransferInv
<1> QED BY <1>1, TransferCorrect, PTL

\* No byte of a document is in two places.
THEOREM BytesAreSavedOnce == Spec => []NoByteSavedTwice
PROOF
<1>1. TransferInv => NoByteSavedTwice
  BY DEF TransferInv
<1> QED BY <1>1, TransferCorrect, PTL

\* A log is never longer than its messages announce, and a full one ends with
\* the end of the document.
LEMMA FullLog ==
    ASSUME TypeOK, LogInv, NEW d \in Docs, IsLarge(d)
    PROVE  LET N == NumberOfSubMessages(d)
           IN  /\ Len(log[d]) <= N
               /\ Len(log[d]) = N =>
                    /\ log[d][1].body.first = 0
                    /\ log[d][N].body.first + log[d][N].body.size = Size[d]
PROOF
<1> DEFINE N == NumberOfSubMessages(d)
           L == Len(log[d])
           M == MaxMessageSize
<1>1. /\ N \in Nat \ {0} /\ L \in Nat /\ M \in Nat \ {0} /\ Size[d] \in Nat \ {0}
      /\ (N - 1) * M < Size[d] /\ Size[d] <= N * M
  BY RoundedUp, LogFacts, TransferAssumption
<1>2. /\ (L - 1) * M < Size[d]
      /\ \A i \in 1..L : log[d][i] = SubMessage(d, (i - 1) * M, i)
  BY DEF LogInv, LogIsCut
<1>3. L <= N
  <2> SUFFICES ASSUME N < L PROVE FALSE
    BY <1>1
  <2>1. N = L - 1 \/ N < L - 1
    BY <1>1
  <2>2. N * M \in Int /\ (L - 1) * M \in Int
    BY <1>1
  <2>3. N * M <= (L - 1) * M
    <3>1. CASE N = L - 1
      BY <2>2, <3>1
    <3>2. CASE N < L - 1
      <4>1. N * M + M <= (L - 1) * M
        <5>1. N \in Int /\ L - 1 \in Int
          BY <1>1
        <5> HIDE DEF N, L, M
        <5> QED BY <1>1, <3>2, <5>1, OffsetsGrow
      <4> QED BY <1>1, <2>2, <4>1
    <3> QED BY <2>1, <3>1, <3>2
  <2> QED BY <1>1, <1>2, <2>2, <2>3
<1>4. ASSUME L = N
      PROVE  /\ log[d][1].body.first = 0
             /\ log[d][N].body.first + log[d][N].body.size = Size[d]
  <2>1. \A offset, number : /\ SubMessage(d, offset, number).body.first = offset
                            /\ SubMessage(d, offset, number).body.size = ArraySize(d, offset)
    BY DEF SubMessage, Body
  <2>2. 1 \in 1..L /\ N \in 1..L /\ (1 - 1) * M = 0
    BY <1>1, <1>4
  <2>3. (N - 1) * M \in Nat /\ (N - 1) * M + M = N * M
    BY <1>1
  <2>4. (N - 1) * M + ArraySize(d, (N - 1) * M) = Size[d]
    <3>1. Size[d] <= (N - 1) * M + M
      BY <1>1, <2>3
    <3> HIDE DEF N, M
    <3> QED BY <1>1, <2>3, <3>1, Arrays DEF M
  <2> QED BY <1>2, <2>1, <2>2, <2>4
<1> QED BY <1>3, <1>4

\* A Receive that ended by its count has the whole document.
LEMMA CountedWhole == TransferInv => CountedIsWhole
PROOF
<1> SUFFICES ASSUME TransferInv, cpc \in {"open", "write"}, received = expected
             PROVE  IsWhole(session, stream)
  BY DEF CountedIsWhole
<1> DEFINE d == session
           L == Len(log[d])
           N == NumberOfSubMessages(d)
<1>1. TypeOK /\ LogInv /\ StreamInv /\ Receiving /\ cpc # "complete"
  BY DEF TransferInv, Receiving
<1>2. /\ d \in Docs /\ L \in Nat /\ done[d] \in Nat /\ done[d] <= L
      /\ received \in Nat /\ received <= done[d] /\ Len(stream) = received
  BY <1>1, LogFacts DEF StreamInv, TypeOK
<1>3. stream # <<>> /\ received >= 1 /\ received = log[d][1].of /\ 1 \in 1..L
  <2>1. stream # <<>>
    BY <1>1, <1>2 DEF StreamInv
  <2> QED BY <1>1, <1>2, <2>1, StreamFacts DEF StreamInv
<1>4. IsLarge(d) /\ received = N
  BY <1>1, <1>2, <1>3, LogFacts
<1>5. /\ done[d] = L /\ L = N /\ Skipped = 0 /\ N \in Nat
      /\ log[d][1].body.first = 0
      /\ log[d][N].body.first + log[d][N].body.size = Size[d]
  BY <1>1, <1>2, <1>4, FullLog DEF Skipped
<1>6. IsSegment(stream) /\ \A i \in 1..Len(stream) : stream[i] = log[d][i].body /\ stream[i].doc = d
  <2>1. stream = SubSeq(stream, 1, Len(stream)) /\ Len(stream) \in 0..Len(stream)
    BY <1>1, <1>2, SubSeqFull DEF TypeOK
  <2>2. /\ IsSegment(stream)
        /\ \A i \in 1..Len(stream) : stream[i] = log[d][Skipped + i].body /\ stream[i].doc = d
    BY <1>1, <2>1, Beginnings
  <2> QED BY <1>2, <1>5, <2>2
<1>7. 1 \in 1..Len(stream) /\ Len(stream) \in 1..Len(stream) /\ Len(stream) = N
  BY <1>2, <1>3, <1>4
<1> HIDE DEF N, L
<1> QED BY <1>3, <1>5, <1>6, <1>7 DEF IsWhole

\* When Receive counts to the end the stream is the whole document, whatever
\* an earlier Receive lost of the session.
THEOREM CountedIsComplete == Spec => []CountedIsWhole
PROOF BY CountedWhole, TransferCorrect, PTL

\* Only the first message begins with the document, only the last one ends with it.
LEMMA EndsOfLog ==
    ASSUME TypeOK, LogInv, NEW d \in Docs, IsLarge(d), NEW k \in 1..Len(log[d])
    PROVE  /\ log[d][k].body.first = 0 => k = 1
           /\ log[d][k].body.first + log[d][k].body.size = Size[d] => k = NumberOfSubMessages(d)
PROOF
<1> DEFINE M == MaxMessageSize
<1>1. PICK N \in Nat \ {0} : N = NumberOfSubMessages(d)
  BY RoundedUp
<1>2. PICK i \in Nat : i = k - 1
  BY LogFacts
<1>3. /\ k \in Nat /\ k = i + 1 /\ M \in Nat \ {0} /\ Size[d] \in Nat \ {0}
      /\ k <= N /\ (N - 1) * M < Size[d]
  BY <1>1, <1>2, FullLog, RoundedUp, LogFacts, TransferAssumption
<1>4. PICK o \in Nat : o = i * M
  BY <1>3
<1>5. /\ log[d][k].body.first = o /\ log[d][k].body.size = ArraySize(d, o)
  <2>1. log[d][k] = SubMessage(d, (k - 1) * M, k)
    BY DEF LogInv, LogIsCut
  <2> QED BY <1>2, <1>4, <2>1 DEF SubMessage, Body
<1>6. ASSUME o = 0 PROVE k = 1
  <2>1. ~(0 < i)
    <3> SUFFICES ASSUME 0 < i PROVE FALSE
      OBVIOUS
    <3>1. 0 * M + M <= i * M
      <4> HIDE DEF M
      <4> QED BY <1>3, OffsetsGrow
    <3>2. 0 * M = 0
      BY <1>3
    <3> HIDE DEF M
    <3> QED BY <1>3, <1>4, <1>6, <3>1, <3>2
  <2> QED BY <1>2, <1>3, <2>1
<1>7. ASSUME o + ArraySize(d, o) = Size[d]
      PROVE  k = N
  <2>1. Size[d] <= o + M
    <3>1. CASE o < Size[d]
      <4>1. ~(o + M < Size[d])
        BY <1>3, <1>7, <3>1, Arrays DEF M
      <4> QED BY <1>3, <4>1
    <3>2. CASE ~(o < Size[d])
      BY <1>3, <3>2
    <3> QED BY <3>1, <3>2
  <2>2. PICK p \in Nat : p = k * M
    BY <1>3
  <2>3. p = o + M
    <3>1. (i + 1) * M = i * M + M
      <4> HIDE DEF M
      <4> QED BY <1>3, OffsetsGrow
    <3> QED BY <1>3, <1>4, <2>2, <3>1
  <2>4. ~(k < N)
    <3> SUFFICES ASSUME k < N PROVE FALSE
      OBVIOUS
    <3>1. k <= N - 1 /\ N - 1 \in Int
      BY <1>3
    <3>2. (N - 1) * M \in Int /\ k * M <= (N - 1) * M
      <4>1. CASE k = N - 1
        BY <1>3, <2>2, <4>1
      <4>2. CASE k < N - 1
        <5>1. k * M + M <= (N - 1) * M /\ (N - 1) * M \in Int
          <6>1. k \in Int /\ N - 1 \in Int
            BY <1>3
          <6> HIDE DEF M
          <6> QED BY <1>3, <4>2, <6>1, OffsetsGrow
        <5> HIDE DEF M
        <5> QED BY <1>3, <2>2, <5>1
      <4> QED BY <1>3, <3>1, <4>1, <4>2
    <3> HIDE DEF M
    <3> QED BY <1>3, <2>1, <2>2, <2>3, <3>2
  <2> QED BY <1>3, <2>4
<1> QED BY <1>1, <1>5, <1>6, <1>7

LEMMA WholeEnds == TransferInv => WaitsForMore
PROOF
<1> SUFFICES ASSUME TransferInv, cpc = "receive", IsWhole(session, stream)
             PROVE  FALSE
  BY DEF WaitsForMore
<1>1. TypeOK /\ LogInv /\ StreamInv /\ QueueInv /\ Receiving
  BY DEF TransferInv, Receiving
<1>2. PICK n \in Nat : n = Len(stream)
  BY <1>1, StreamFacts
<1>3. /\ session \in Docs /\ Skipped \in Nat /\ n = received /\ n \in 1..n
      /\ 1 \in 1..n /\ 1 \in 1..Len(log[session])
      /\ Skipped + 1 \in 1..Len(log[session]) /\ Skipped + n \in 1..Len(log[session])
      /\ stream[1] = log[session][Skipped + 1].body /\ stream[n] = log[session][Skipped + n].body
  <2>1. stream # <<>> /\ n >= 1
    BY <1>1, <1>2, StreamFacts DEF IsWhole
  <2>2. 1 \in 1..n /\ n \in 1..n
    BY <2>1
  <2>3. /\ session \in Docs /\ Skipped \in Nat /\ 1 \in 1..Len(log[session])
        /\ \A i \in 1..n :
             Skipped + i \in 1..Len(log[session]) /\ stream[i] = log[session][Skipped + i].body
    BY <1>1, <1>2, <2>1, StreamFacts
  <2>4. n = received
    BY <1>1, <1>2 DEF StreamInv, TypeOK
  <2> QED BY <2>2, <2>3, <2>4
<1>4. IsLarge(session) /\ expected = NumberOfSubMessages(session)
  <2>1. expected = log[session][1].of /\ log[session] # <<>>
    BY <1>1, <1>2, <1>3 DEF StreamInv, IsWhole
  <2>2. queueKind = "sessions"
    BY <1>1 DEF QueueInv, QueueIsThere
  <2>3. IsLarge(session)
    BY <1>1, <1>3, <2>1, <2>2 DEF QueueInv
  <2> QED BY <1>1, <1>3, <2>1, <2>3, LogFacts
<1>5. stream[1].first = 0 /\ stream[n].first + stream[n].size = Size[session]
  BY <1>2 DEF IsWhole
<1>6. Skipped + 1 = 1 /\ Skipped + n = NumberOfSubMessages(session)
  BY <1>1, <1>3, <1>4, <1>5, EndsOfLog
<1>7. n = NumberOfSubMessages(session)
  BY <1>3, <1>6
<1> QED BY <1>1, <1>3, <1>4, <1>7 DEF StreamInv

\* Receive never waits for a message with the whole document in hand
\* (AzureQueueClient.cs:58-67 of the central service).
THEOREM WaitIsForMore == Spec => []WaitsForMore
PROOF BY WholeEnds, TransferCorrect, PTL

\* Only the end of the process makes the central service lose what it took.
LEMMA DropStep ==
    ASSUME TransferInv, [Next]_vars
    PROVE  /\ \A d \in Docs : done'[d] # done[d] =>
                stream # <<>> /\ stream[Len(stream)] = log[d][done'[d]].body
           /\ stream # <<>> /\ stream' = <<>> =>
                cpc' = "down" \/ disk'[counter - 1] = stream
PROOF
<1> USE DEF broker, central
<1>0. TypeOK /\ LogInv /\ StreamInv
  BY DEF TransferInv
<1>1. CASE UNCHANGED <<done, stream>>
  BY <1>1
<1>2. CASE CompleteSubMessage
  <2>1. Receiving /\ cpc = "complete" /\ UNCHANGED stream /\ done' = [done EXCEPT ![session] = @ + 1]
    BY <1>2 DEF CompleteSubMessage, Receiving
  <2>2. /\ session \in Docs /\ Len(stream) \in Nat /\ Skipped \in Nat /\ done[session] \in Nat
        /\ Len(stream) = received + 1 /\ received \in Nat
        /\ Skipped + Len(stream) = done[session] + 1
    BY <1>0, <2>1, StreamFacts DEF StreamInv, TypeOK
  <2>3. stream # <<>> /\ stream[Len(stream)] = log[session][done[session] + 1].body
    <3>1. Len(stream) \in 1..Len(stream)
      BY <2>2
    <3>2. stream[Len(stream)] = log[session][Skipped + Len(stream)].body
      BY <1>0, <2>1, <3>1, StreamFacts
    <3> QED BY <2>2, <3>2
  <2>4. /\ done'[session] = done[session] + 1
        /\ \A d \in Docs : d # session => done'[d] = done[d]
    BY <1>0, <2>1, <2>2 DEF TypeOK
  <2> QED BY <2>1, <2>3, <2>4
<1>3. CASE WriteFile
  <2>1. UNCHANGED done /\ counter - 1 \in DOMAIN disk /\ disk' = [disk EXCEPT ![counter - 1] = stream]
    BY <1>0, <1>3 DEF WriteFile, StreamInv
  <2> QED BY <2>1
<1>4. ASSUME NEW d \in Docs, AcceptMessageSession(d)
      PROVE  UNCHANGED <<done, stream>>
  BY <1>0, <1>4 DEF AcceptMessageSession, StreamInv, Receiving
<1>5. CASE CentralDown /\ UNCHANGED done
  BY <1>5 DEF CentralDown
<1>6. CASE ReceiveSubMessage
  <2>1. stream' # <<>> /\ UNCHANGED done
    <3> DEFINE next == log[session][done[session] + 1]
    <3>1. /\ session \in Docs /\ Pending(session) > 0
          /\ stream' = Append(stream, next.body) /\ UNCHANGED done
      BY <1>0, <1>6 DEF ReceiveSubMessage, TypeOK
    <3>2. done[session] + 1 \in 1..Len(log[session])
      BY <1>0, <3>1, LogFacts DEF Pending
    <3>3. next.body \in Bodies
      BY <1>0, <3>1, <3>2, LogFacts DEF Messages
    <3> HIDE DEF next
    <3>4. stream' # <<>>
      <4>1. Len(stream') = Len(stream) + 1 /\ Len(stream) \in Nat
        BY <1>0, <3>1, <3>3, AppendProperties DEF TypeOK
      <4> QED BY <4>1
    <3> QED BY <3>1, <3>4
  <2> QED BY <2>1
<1>7. ASSUME Central, ~CompleteSubMessage, ~WriteFile, ~ReceiveSubMessage,
             \A d \in Docs : ~AcceptMessageSession(d)
      PROVE  UNCHANGED <<done, stream>> \/ (CentralDown /\ UNCHANGED done)
  BY <1>7 DEF Central, StartCentral, CentralChecksQueue, CentralCreatesQueue, AcceptRefused,
              AcceptTimesOut, ReceiveNull, SessionLost, OpenFile, StopCentral
<1> QED BY <1>1, <1>2, <1>3, <1>4, <1>5, <1>6, <1>7, AgentSteps DEF Next

\* A sub-message is taken from the queue only into the stream, and the stream
\* is given up only by the end of the process or into a file.
THEOREM TakenIsKept == Spec => NothingIsDropped
PROOF
<1>1. TransferInv /\ [Next]_vars =>
        [/\ \A d \in Docs : done'[d] # done[d] =>
              stream # <<>> /\ stream[Len(stream)] = log[d][done'[d]].body
         /\ stream # <<>> /\ stream' = <<>> =>
              cpc' = "down" \/ disk'[counter - 1] = stream]_vars
  BY DropStep
<1> QED BY <1>1, TransferCorrect, PTL DEF Spec, NothingIsDropped

\* What keeps the files of the first run: before it there are none, and the
\* counter begins again only with the process.
RunInv ==
    /\ FirstRunKeepsFiles
    /\ starts["central"] = 0 => cpc = "down" /\ DOMAIN disk = {}
    /\ cpc = "down" => counter = 1

LEMMA RunStep == TypeOK /\ RunInv /\ [Next]_vars => RunInv'
PROOF
<1> SUFFICES ASSUME TypeOK, RunInv, [Next]_vars PROVE RunInv'
  OBVIOUS
<1> USE DEF broker, central, RunInv, FirstRunKeepsFiles
<1>1. starts["central"] \in Nat /\ counter \in Nat /\ DOMAIN disk \subseteq Nat
  BY DEF TypeOK, Processes
<1>2. CASE UNCHANGED <<starts, cpc, counter, disk>>
  BY <1>2
<1>3. CASE StartCentral
  <2>1. starts'["central"] = starts["central"] + 1
    BY <1>3 DEF StartCentral, CountStart, TypeOK, Processes
  <2> QED BY <1>1, <1>3, <2>1 DEF StartCentral
<1>4. ASSUME NEW s \in Scanners, StartScanner(s)
      PROVE  RunInv'
  <2>1. /\ starts'["central"] \in {starts["central"], starts["central"] + 1}
        /\ UNCHANGED <<cpc, counter, disk>>
    BY <1>4 DEF StartScanner, CountStart, TypeOK, Processes
  <2> QED BY <1>1, <2>1
<1>5. CASE OpenFile
  <2>1. /\ cpc = "open" /\ cpc' = "write" /\ counter' = counter + 1
        /\ DOMAIN disk' = DOMAIN disk \cup {counter} /\ UNCHANGED starts
    BY <1>5 DEF OpenFile
  <2> QED BY <1>1, <2>1
<1>6. ASSUME DOMAIN disk' = DOMAIN disk, UNCHANGED starts, cpc # "down",
             \/ cpc' # "down" /\ counter' = counter
             \/ cpc' = "down" /\ counter' = 1
      PROVE  RunInv'
  BY <1>6, <1>1
<1>7. CASE Central /\ ~StartCentral /\ ~OpenFile
  <2>1. DOMAIN disk' = DOMAIN disk
    BY <1>7 DEF Central, CentralChecksQueue, CentralCreatesQueue, AcceptMessageSession,
           AcceptRefused, AcceptTimesOut, ReceiveSubMessage, CompleteSubMessage, ReceiveNull,
           SessionLost, WriteFile, StopCentral
  <2>2. /\ UNCHANGED starts /\ cpc # "down"
        /\ \/ cpc' # "down" /\ counter' = counter
           \/ cpc' = "down" /\ counter' = 1
    <3>1. CASE CentralCreatesQueue \/ AcceptRefused \/ AcceptTimesOut \/ SessionLost \/ StopCentral
      BY <3>1 DEF CentralCreatesQueue, AcceptRefused, AcceptTimesOut, SessionLost, StopCentral, CentralDown
    <3>2. CASE CentralChecksQueue \/ \E d \in Docs : AcceptMessageSession(d)
      BY <3>2 DEF CentralChecksQueue, AcceptMessageSession
    <3>3. CASE ReceiveSubMessage \/ CompleteSubMessage \/ ReceiveNull \/ WriteFile
      BY <3>3 DEF ReceiveSubMessage, CompleteSubMessage, ReceiveNull, WriteFile
    <3> QED BY <1>7, <3>1, <3>2, <3>3 DEF Central
  <2> QED BY <1>6, <2>1, <2>2
<1>8. ASSUME NEW s \in Scanners, Scanner(s), ~StartScanner(s)
      PROVE  UNCHANGED <<starts, cpc, counter, disk>>
  BY <1>8 DEF Scanner, ScannerChecksQueue, ScannerCreatesQueue,
              BeginSplit, SendSmall, SendSubMessage, EndSplit, StopScanner
<1>9. \A d \in Docs : LockExpires(d) => UNCHANGED <<starts, cpc, counter, disk>>
  BY DEF LockExpires
<1> QED BY <1>2, <1>3, <1>4, <1>5, <1>7, <1>8, <1>9 DEF Next, vars

\* Before the central service is started again no file is written twice.
THEOREM FirstRunIsKept == Spec => []FirstRunKeepsFiles
PROOF
<1>1. Init => RunInv
  BY DEF Init, RunInv, FirstRunKeepsFiles
<1>2. RunInv => FirstRunKeepsFiles
  BY DEF RunInv
<1> QED BY <1>1, <1>2, RunStep, TypeCorrect, PTL DEF Spec
=============================================================================
