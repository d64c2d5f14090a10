------------------------ MODULE DocumentDeliveryProofs ------------------------
(***************************************************************************)
(* The transfer implements the delivery of documents: every step of the    *)
(* agents, the central service and the broker sends, takes or saves bytes  *)
(* as DocumentDelivery allows, or changes none of them.                    *)
(***************************************************************************)
EXTENDS DocumentTransferProofs

----------------------------------------------------------------------------
(* The bytes of the messages in a log *)

First(d, k) == log[d][k].body.first

\* The messages of a log lie one behind the other inside the document.
EndsInv ==
    \A d \in Docs :
        /\ \A k \in 0..Len(log[d]) : EndOfLog(d, k) \in 0..Size[d]
        /\ \A k \in 1..Len(log[d]) : First(d, k) \in Nat /\ First(d, k) < EndOfLog(d, k)
        /\ \A j \in 0..Len(log[d]), k \in 1..Len(log[d]) :
             j < k => EndOfLog(d, j) <= First(d, k)

\* Offsets that differ are at least a message apart.
LEMMA OffsetsApart ==
    ASSUME NEW i \in Nat, NEW j \in Nat, i <= j, NEW m \in Nat \ {0}
    PROVE  i * m \in Nat /\ j * m \in Nat /\ i * m <= j * m
PROOF
<1>1. i * m \in Nat /\ j * m \in Nat
  OBVIOUS
<1>2. CASE i = j
  BY <1>1, <1>2
<1>3. CASE i < j
  <2>1. i * m + m <= j * m
    BY <1>3, OffsetsGrow
  <2> QED BY <1>1, <2>1
<1> QED BY <1>1, <1>2, <1>3

LEMMA LargeEnds ==
    ASSUME TypeOK, LogInv, NEW d \in Docs, IsLarge(d)
    PROVE  /\ \A k \in 1..Len(log[d]) :
                /\ First(d, k) \in Nat
                /\ log[d][k].body.size \in Nat \ {0}
                /\ First(d, k) + log[d][k].body.size <= Size[d]
           /\ \A j, k \in 1..Len(log[d]) :
                j < k => First(d, j) + log[d][j].body.size <= First(d, k)
PROOF
<1> DEFINE L == Len(log[d])
           M == MaxMessageSize
           Z == Size[d]
<1>1. L \in Nat /\ M \in Nat \ {0} /\ Z \in Nat \ {0}
  BY LogFacts, TransferAssumption
<1>2. /\ (L - 1) * M < Z
      /\ \A k \in 1..L : log[d][k] = SubMessage(d, (k - 1) * M, k)
  BY DEF LogInv, LogIsCut
<1>3. ASSUME NEW k \in 1..L
      PROVE  /\ (k - 1) * M \in Nat /\ k * M = (k - 1) * M + M
             /\ First(d, k) = (k - 1) * M
             /\ log[d][k].body.size \in Nat \ {0}
             /\ k * M < Z => log[d][k].body.size = M
             /\ ~(k * M < Z) => First(d, k) + log[d][k].body.size = Z
  <2>1. k - 1 \in Nat /\ L - 1 \in Nat /\ k - 1 <= L - 1 /\ (k - 1) + 1 = k
    BY <1>1
  <2>2. /\ (k - 1) * M \in Nat /\ (L - 1) * M \in Nat
        /\ (k - 1) * M <= (L - 1) * M
    BY <1>1, <2>1, OffsetsApart
  <2>3. k * M = (k - 1) * M + M
    <3>1. k - 1 \in Int /\ k \in Int /\ k - 1 < k
      BY <2>1
    <3>2. ((k - 1) + 1) * M = (k - 1) * M + M
      BY <3>1, <1>1, OffsetsGrow
    <3> QED BY <2>1, <3>2
  <2>4. (k - 1) * M < Z
    BY <1>1, <1>2, <2>2
  <2>5. First(d, k) = (k - 1) * M /\ log[d][k].body.size = ArraySize(d, (k - 1) * M)
    <3>1. \A offset, n : /\ SubMessage(d, offset, n).body.first = offset
                         /\ SubMessage(d, offset, n).body.size = ArraySize(d, offset)
      BY DEF SubMessage, Body
    <3>2. log[d][k] = SubMessage(d, (k - 1) * M, k)
      BY <1>2
    <3> HIDE DEF M
    <3> QED BY <3>1, <3>2 DEF First
  <2>6. PICK o \in Nat : o = (k - 1) * M
    BY <2>2
  <2>7. /\ ArraySize(d, o) \in Nat \ {0}
        /\ o + M < Z => ArraySize(d, o) = M
        /\ Z <= o + M => o + ArraySize(d, o) = Z
    <3>1. o < Size[d]
      BY <2>4, <2>6
    <3> QED BY <3>1, Arrays
  <2> HIDE DEF M, Z
  <2> QED BY <1>1, <2>2, <2>3, <2>5, <2>6, <2>7
<1>4. ASSUME NEW k \in 1..L
      PROVE  First(d, k) + log[d][k].body.size <= Z
  <2> HIDE DEF M, Z
  <2> QED BY <1>1, <1>3
<1>5. ASSUME NEW j \in 1..L, NEW k \in 1..L, j < k
      PROVE  First(d, j) + log[d][j].body.size <= First(d, k)
  <2>1. j * M \in Nat /\ (k - 1) * M \in Nat /\ j * M <= (k - 1) * M
    <3>1. j \in Nat /\ k - 1 \in Nat /\ j <= k - 1
      BY <1>1, <1>5
    <3> QED BY <1>1, <3>1, OffsetsApart
  <2>2. (k - 1) * M < Z
    <3>1. First(d, k) = (k - 1) * M /\ First(d, k) + log[d][k].body.size <= Z
      BY <1>3, <1>4
    <3>2. PICK z \in Nat \ {0} : z = log[d][k].body.size
      BY <1>3
    <3>3. PICK o \in Nat : o = (k - 1) * M
      BY <2>1
    <3>4. o + z <= Z
      BY <3>1, <3>2, <3>3
    <3>5. o < Z
      <4> HIDE DEF M, Z
      <4> QED BY <1>1, <3>4
    <3> QED BY <3>3, <3>5
  <2> HIDE DEF M, Z
  <2> QED BY <1>1, <1>3, <2>1, <2>2
<1> HIDE DEF M
<1> QED BY <1>3, <1>4, <1>5

LEMMA SmallEnds ==
    ASSUME TypeOK, LogInv, NEW d \in Docs, ~IsLarge(d), NEW k \in 1..Len(log[d])
    PROVE  /\ k = 1 /\ Len(log[d]) = 1
           /\ First(d, k) = 0 /\ log[d][k].body.size = Size[d]
PROOF
<1>1. log[d] = <<>> \/ log[d] = <<SingleMessage(d)>>
  BY DEF LogInv, LogIsCut
<1>2. \A x : Len(<<x>>) = 1 /\ <<x>>[1] = x
  OBVIOUS
<1>3. log[d] = <<SingleMessage(d)>>
  BY <1>1
<1> QED BY <1>2, <1>3 DEF First, SingleMessage, Body

LEMMA Ends == TypeOK /\ LogInv => EndsInv
PROOF
<1> SUFFICES ASSUME TypeOK, LogInv, NEW d \in Docs
             PROVE  /\ \A k \in 0..Len(log[d]) : EndOfLog(d, k) \in 0..Size[d]
                    /\ \A k \in 1..Len(log[d]) :
                         First(d, k) \in Nat /\ First(d, k) < EndOfLog(d, k)
                    /\ \A j \in 0..Len(log[d]), k \in 1..Len(log[d]) :
                         j < k => EndOfLog(d, j) <= First(d, k)
  BY DEF EndsInv
<1>1. Len(log[d]) \in Nat /\ Size[d] \in Nat \ {0}
  BY LogFacts, TransferAssumption
<1>2. /\ \A k \in 1..Len(log[d]) :
           /\ First(d, k) \in Nat
           /\ log[d][k].body.size \in Nat \ {0}
           /\ First(d, k) + log[d][k].body.size <= Size[d]
      /\ \A j, k \in 1..Len(log[d]) :
           j < k => First(d, j) + log[d][j].body.size <= First(d, k)
  <2>1. CASE IsLarge(d)
    BY <2>1, LargeEnds
  <2>2. CASE ~IsLarge(d)
    BY <1>1, <2>2, SmallEnds
  <2> QED BY <2>1, <2>2
<1>3. /\ EndOfLog(d, 0) = 0
      /\ \A k \in 1..Len(log[d]) : EndOfLog(d, k) = First(d, k) + log[d][k].body.size
  BY DEF EndOfLog, First
<1>4. ASSUME NEW j \in 0..Len(log[d]) PROVE j = 0 \/ j \in 1..Len(log[d])
  BY <1>1
<1>5. ASSUME NEW k \in 0..Len(log[d]) PROVE EndOfLog(d, k) \in 0..Size[d]
  <2>1. CASE k = 0
    BY <1>1, <1>3, <2>1
  <2>2. CASE k \in 1..Len(log[d])
    <3>1. PICK a \in Nat, b \in Nat \ {0} : a = First(d, k) /\ b = log[d][k].body.size
      BY <1>2, <2>2
    <3>2. EndOfLog(d, k) = a + b /\ a + b <= Size[d]
      BY <1>2, <1>3, <2>2, <3>1
    <3> QED BY ONLY <1>1, <3>1, <3>2
  <2> QED BY <1>4, <2>1, <2>2
<1>6. ASSUME NEW k \in 1..Len(log[d])
      PROVE  First(d, k) \in Nat /\ First(d, k) < EndOfLog(d, k)
  BY <1>2, <1>3
<1>7. ASSUME NEW j \in 0..Len(log[d]), NEW k \in 1..Len(log[d]), j < k
      PROVE  EndOfLog(d, j) <= First(d, k)
  <2>1. CASE j = 0
    BY <1>2, <1>3, <2>1
  <2>2. CASE j \in 1..Len(log[d])
    BY <1>2, <1>3, <1>7, <2>2
  <2> QED BY <1>4, <2>1, <2>2
<1> QED BY <1>5, <1>6, <1>7

LEMMA EndsAfter == TypeOK' /\ LogInv' => EndsInv'
PROOF BY Ends, PTL

\* The end of the log grows with the log.
LEMMA EndsGrow ==
    ASSUME TypeOK, LogInv, NEW d \in Docs, NEW j \in 0..Len(log[d]), NEW k \in 0..Len(log[d]), j <= k
    PROVE  /\ EndOfLog(d, j) \in 0..Size[d] /\ EndOfLog(d, k) \in 0..Size[d]
           /\ EndOfLog(d, j) <= EndOfLog(d, k)
PROOF
<1>1. Len(log[d]) \in Nat /\ Size[d] \in Nat
  BY LogFacts, TransferAssumption
<1>2. /\ EndOfLog(d, j) \in 0..Size[d] /\ EndOfLog(d, k) \in 0..Size[d]
      /\ k \in 1..Len(log[d]) =>
           /\ First(d, k) \in Nat /\ First(d, k) < EndOfLog(d, k)
           /\ j < k => EndOfLog(d, j) <= First(d, k)
  BY Ends DEF EndsInv
<1>3. CASE j = k
  BY <1>1, <1>2, <1>3
<1>4. CASE j < k
  <2>1. k \in 1..Len(log[d])
    BY <1>1, <1>4
  <2> QED BY <1>1, <1>2, <1>4, <2>1
<1> QED BY <1>1, <1>3, <1>4

----------------------------------------------------------------------------
(* The files as stretches *)

\* A file lies between two messages that were completed, in front of what is in
\* the stream.
LEMMA Stretches ==
    ASSUME TransferInv, NEW n \in DOMAIN disk, disk[n] # <<>>
    PROVE  \E d \in Docs : \E j, k \in 1..done[d] :
             /\ disk[n][1] = log[d][j].body
             /\ Stretch(disk[n]) = [doc |-> d, from |-> First(d, j), to |-> EndOfLog(d, k)]
             /\ Receiving /\ session = d => k <= Skipped
PROOF
<1> DEFINE f == disk[n]
           d == f[1].doc
<1>1. f \in Seq(Bodies) /\ Len(f) \in Nat /\ 1 \in 1..Len(f) /\ Len(f) \in 1..Len(f)
  <2>1. f \in Seq(Bodies) /\ f # <<>>
    BY DEF TransferInv, TypeOK
  <2> HIDE DEF f
  <2> QED BY <2>1
<1>2. f[1] \in Bodies /\ d \in Docs
  <2> HIDE DEF f
  <2>1. f[1] \in Bodies
    BY <1>1
  <2> QED BY <2>1 DEF Bodies
<1>3. f[Len(f)].doc = d
  <2>1. \A i \in 1..Len(f) : f[i].doc = d
    BY DEF TransferInv, FilesAreSegments, IsSegment
  <2> QED BY <1>1, <2>1
<1>4. PICK j \in 1..done[d] : f[1] = log[d][j].body
  BY <1>1 DEF TransferInv, DiskInv
<1>5. PICK k \in 1..done[d] : /\ f[Len(f)] = log[d][k].body
                              /\ Receiving /\ session = d => k <= Skipped
  <2>1. \E k \in 1..done[f[Len(f)].doc] :
          /\ f[Len(f)] = log[f[Len(f)].doc][k].body
          /\ Receiving /\ session = f[Len(f)].doc => k <= Skipped
    BY <1>1 DEF TransferInv, DiskInv
  <2> HIDE DEF f
  <2> QED BY <1>3, <2>1
<1>6. End(f) = EndOfLog(d, k)
  <2>1. k # 0 /\ f # <<>>
    BY <1>1, <1>2 DEF TransferInv, TypeOK
  <2> HIDE DEF f, d
  <2> QED BY <1>5, <2>1 DEF End, EndOfLog
<1>7. Stretch(f) = [doc |-> d, from |-> First(d, j), to |-> EndOfLog(d, k)]
  <2> HIDE DEF f
  <2> QED BY <1>4, <1>6 DEF Stretch, First
<1> QED BY <1>2, <1>4, <1>5, <1>7

\* Two files are two stretches.
LEMMA StretchesDiffer ==
    ASSUME TransferInv, NEW m \in DOMAIN disk, NEW n \in DOMAIN disk,
           disk[m] # <<>>, disk[n] # <<>>, Stretch(disk[m]) = Stretch(disk[n])
    PROVE  m = n
PROOF
<1>0. TypeOK /\ LogInv
  BY DEF TransferInv
<1>1. PICK d \in Docs : \E j, k \in 1..done[d] :
        /\ disk[m][1] = log[d][j].body
        /\ Stretch(disk[m]) = [doc |-> d, from |-> First(d, j), to |-> EndOfLog(d, k)]
  BY Stretches
<1>2. PICK j \in 1..done[d] :
        disk[m][1] = log[d][j].body /\ Stretch(disk[m]).doc = d /\ Stretch(disk[m]).from = First(d, j)
  BY <1>1
<1>3. PICK e \in Docs : \E i, k \in 1..done[e] :
        /\ disk[n][1] = log[e][i].body
        /\ Stretch(disk[n]) = [doc |-> e, from |-> First(e, i), to |-> EndOfLog(e, k)]
  BY Stretches
<1>4. PICK i \in 1..done[e] :
        disk[n][1] = log[e][i].body /\ Stretch(disk[n]).doc = e /\ Stretch(disk[n]).from = First(e, i)
  BY <1>3
<1>5. e = d /\ First(d, i) = First(d, j)
  BY <1>2, <1>4
<1>6. Len(log[d]) \in Nat /\ i \in 1..Len(log[d]) /\ j \in 1..Len(log[d])
  BY <1>0, <1>2, <1>4, <1>5, LogFacts
<1>7. \A a, b \in 1..Len(log[d]) : a < b => First(d, a) < First(d, b)
  <2> SUFFICES ASSUME NEW a \in 1..Len(log[d]), NEW b \in 1..Len(log[d]), a < b
               PROVE  First(d, a) < First(d, b)
    OBVIOUS
  <2>1. a \in 0..Len(log[d])
    BY <1>6
  <2>2. /\ First(d, a) \in Nat /\ First(d, b) \in Nat
        /\ First(d, a) < EndOfLog(d, a) /\ EndOfLog(d, a) <= First(d, b)
        /\ EndOfLog(d, a) \in 0..Size[d] /\ Size[d] \in Nat
    BY <1>0, <2>1, Ends, TransferAssumption DEF EndsInv
  <2> QED BY <2>2
<1>8. \A a \in 1..Len(log[d]) : First(d, a) \in Nat
  BY <1>0, Ends DEF EndsInv
<1>9. i = j
  BY <1>5, <1>6, <1>7, <1>8
<1>10. disk[m][1] = disk[n][1]
  BY <1>2, <1>4, <1>5, <1>9
<1>11. 1 \in 1..Len(disk[m]) /\ 1 \in 1..Len(disk[n])
  <2>1. \A f \in Seq(Bodies) : f # <<>> => 1 \in 1..Len(f)
    OBVIOUS
  <2> QED BY <1>0, <2>1 DEF TypeOK
<1>12. <<m, 1>> = <<n, 1>>
  BY <1>10, <1>11 DEF TransferInv, NoByteSavedTwice
<1> QED BY <1>12

----------------------------------------------------------------------------
(* What a step does to the three variables of DocumentDelivery *)

LEMMA SentStays == UNCHANGED log => SentBytes' = SentBytes
PROOF BY DEF SentBytes, EndOfLog

LEMMA TakenStays ==
    ASSUME TypeOK, LogInv, [Next]_vars, UNCHANGED done
    PROVE  TakenBytes' = TakenBytes
PROOF
<1> SUFFICES ASSUME NEW d \in Docs PROVE EndOfLog(d, done[d])' = EndOfLog(d, done[d])
  BY DEF TakenBytes
<1>1. done[d] = 0 \/ done[d] \in 1..Len(log[d])
  BY LogFacts
<1>2. done[d] \in 1..Len(log[d]) => log'[d][done[d]] = log[d][done[d]]
  BY LogGrows
<1> QED BY <1>1, <1>2 DEF EndOfLog

LEMMA SavedStays == UNCHANGED disk => SavedStretches' = SavedStretches
PROOF BY DEF SavedStretches, Stretch, End

\* An agent that sends a message sends more of the document.
LEMMA AppendSends ==
    ASSUME TypeOK, LogInv, TypeOK', LogInv',
           NEW d \in Docs, NEW x \in Messages, log' = [log EXCEPT ![d] = Append(log[d], x)]
    PROVE  \E n \in (SentBytes[d] + 1)..Size[d] : SentBytes' = [SentBytes EXCEPT ![d] = n]
PROOF
<1>1. log[d] \in Seq(Messages) /\ Size[d] \in Nat
  BY TransferAssumption DEF TypeOK
<1>2. PICK L \in Nat : L = Len(log[d])
  BY <1>1
<1>3. log'[d] = Append(log[d], x) /\ \A e \in Docs : e # d => log'[e] = log[e]
  BY DEF TypeOK
<1>4. Len(log'[d]) = L + 1 /\ \A i \in 1..L : log'[d][i] = log[d][i]
  BY <1>1, <1>2, <1>3
<1>5. EndOfLog(d, L)' = EndOfLog(d, L)
  <2>1. L = 0 \/ L \in 1..L
    OBVIOUS
  <2> QED BY <1>4, <2>1 DEF EndOfLog
<1>6. PICK n \in (EndOfLog(d, L) + 1)..Size[d] : n = EndOfLog(d, L + 1)'
  <2>1. L + 1 \in 0..Len(log'[d]) /\ L + 1 \in 1..Len(log'[d]) /\ L \in 0..Len(log'[d]) /\ L < L + 1
    BY <1>4
  <2>2. EndsInv'
    BY EndsAfter
  <2>3. /\ EndOfLog(d, L + 1)' \in 0..Size[d] /\ EndOfLog(d, L)' \in 0..Size[d]
        /\ First(d, L + 1)' \in Nat
        /\ First(d, L + 1)' < EndOfLog(d, L + 1)' /\ EndOfLog(d, L)' <= First(d, L + 1)'
    BY <2>1, <2>2 DEF EndsInv
  <2> QED BY <1>1, <1>5, <2>3
<1>7. SentBytes[d] = EndOfLog(d, L)
  BY <1>2 DEF SentBytes
<1>8. SentBytes' = [SentBytes EXCEPT ![d] = n]
  <2>1. SentBytes' = [e \in Docs |-> EndOfLog(e, Len(log[e]))']
    BY DEF SentBytes
  <2>2. ASSUME NEW e \in Docs, e # d
        PROVE  EndOfLog(e, Len(log[e]))' = EndOfLog(e, Len(log[e]))
    BY <1>3, <2>2 DEF EndOfLog
  <2>3. EndOfLog(d, Len(log[d]))' = n
    BY <1>4, <1>6 DEF EndOfLog
  <2>4. SentBytes = [e \in Docs |-> EndOfLog(e, Len(log[e]))]
    BY DEF SentBytes
  <2> QED BY <2>1, <2>2, <2>3, <2>4
<1> QED BY <1>6, <1>7, <1>8

LEMMA AgentDelivers ==
    ASSUME TransferInv, TransferInv', [Next]_vars, UNCHANGED <<done, disk>>
    PROVE  (\E d \in Docs : D!Send(d)) \/ UNCHANGED D!DeliveryVars
PROOF
<1>1. TypeOK /\ LogInv /\ TypeOK' /\ LogInv'
  BY DEF TransferInv
<1>2. UNCHANGED <<TakenBytes, SavedStretches>>
  BY <1>1, TakenStays, SavedStays
<1>3. CASE UNCHANGED log
  BY <1>2, <1>3, SentStays DEF D!DeliveryVars
<1>4. CASE ~UNCHANGED log
  <2>1. PICK d \in Docs : \E x \in Messages : log' = [log EXCEPT ![d] = Append(log[d], x)]
    BY <1>1, <1>4, LogAppends
  <2>2. \E n \in (SentBytes[d] + 1)..Size[d] : SentBytes' = [SentBytes EXCEPT ![d] = n]
    BY <1>1, <2>1, AppendSends
  <2> QED BY <1>2, <2>2 DEF D!Send
<1> QED BY <1>3, <1>4

\* To complete a sub-message is to take its bytes.
LEMMA CompleteDelivers ==
    ASSUME TransferInv, CompleteSubMessage
    PROVE  D!Take(session)
PROOF
<1>1. TypeOK /\ LogInv /\ StreamInv
  BY DEF TransferInv
<1>2. session \in Docs /\ Len(log[session]) > done[session]
  BY <1>1 DEF CompleteSubMessage, StreamInv, Receiving, Pending, TypeOK
<1>3. /\ Len(log[session]) \in Nat /\ done[session] \in Nat
      /\ UNCHANGED <<log, disk>> /\ done' = [done EXCEPT ![session] = @ + 1]
  BY <1>1, <1>2, LogFacts DEF CompleteSubMessage
<1>4. PICK k \in 1..Len(log[session]) : k = done[session] + 1
  BY <1>2, <1>3
<1>5. /\ done[session] \in 0..Len(log[session]) /\ k \in 0..Len(log[session])
      /\ Len(log[session]) \in 0..Len(log[session]) /\ done[session] < k /\ k <= Len(log[session])
  BY <1>3, <1>4
<1>6. EndOfLog(session, k) \in (TakenBytes[session] + 1)..SentBytes[session]
  <2>1. TakenBytes[session] = EndOfLog(session, done[session])
    BY <1>2 DEF TakenBytes
  <2>2. SentBytes[session] = EndOfLog(session, Len(log[session]))
    BY <1>2 DEF SentBytes
  <2>3. /\ First(session, k) \in Nat /\ First(session, k) < EndOfLog(session, k)
        /\ EndOfLog(session, done[session]) <= First(session, k)
    BY <1>1, <1>2, <1>4, <1>5, Ends DEF EndsInv
  <2>4. /\ EndOfLog(session, k) \in 0..Size[session]
        /\ EndOfLog(session, Len(log[session])) \in 0..Size[session]
        /\ EndOfLog(session, k) <= EndOfLog(session, Len(log[session]))
    BY <1>1, <1>2, <1>5, EndsGrow
  <2>5. EndOfLog(session, done[session]) \in 0..Size[session] /\ Size[session] \in Nat
    BY <1>1, <1>2, <1>5, EndsGrow, TransferAssumption
  <2> QED BY <2>1, <2>2, <2>3, <2>4, <2>5
<1>7. TakenBytes' = [TakenBytes EXCEPT ![session] = EndOfLog(session, k)]
  <2>1. TakenBytes' = [d \in Docs |-> EndOfLog(d, done[d])']
    BY DEF TakenBytes
  <2>2. done'[session] = k /\ \A d \in Docs : d # session => done'[d] = done[d]
    BY <1>1, <1>2, <1>3, <1>4 DEF TypeOK
  <2>3. \A d \in Docs : EndOfLog(d, done[d])' = EndOfLog(d, done'[d])
    BY <1>3 DEF EndOfLog
  <2>4. TakenBytes = [d \in Docs |-> EndOfLog(d, done[d])]
    BY DEF TakenBytes
  <2> QED BY <2>1, <2>2, <2>3, <2>4
<1>8. UNCHANGED <<SentBytes, SavedStretches>>
  BY <1>3, SentStays, SavedStays
<1> QED BY <1>6, <1>7, <1>8 DEF D!Take

\* The beginning of the stream is a stretch of taken bytes behind every file of
\* the document.
LEMMA BeginningIsNew ==
    ASSUME TransferInv, cpc = "write", NEW k \in 1..Len(stream)
    PROVE  LET r == Stretch(SubSeq(stream, 1, k))
           IN  \E from \in 0..TakenBytes[session] : \E to \in (from + 1)..TakenBytes[session] :
                 /\ \A q \in SavedStretches : q.doc = session => q.to <= from
                 /\ r = [doc |-> session, from |-> from, to |-> to]
PROOF
<1> DEFINE f == SubSeq(stream, 1, k)
<1>1. TypeOK /\ LogInv /\ StreamInv /\ Receiving
  BY DEF TransferInv, Receiving
<1>2. /\ session \in Docs /\ Skipped \in Nat /\ Len(stream) \in Nat
      /\ Len(log[session]) \in Nat /\ done[session] \in Nat
      /\ Skipped + Len(stream) = done[session] /\ done[session] <= Len(log[session])
  BY <1>1, StreamFacts, LogFacts
<1>3. PICK a \in 1..Len(log[session]) : a = Skipped + 1
  BY <1>2
<1>4. PICK b \in 1..Len(log[session]) : b = Skipped + k
  BY <1>2
<1>5. /\ a \in 0..Len(log[session]) /\ b \in 0..Len(log[session])
      /\ done[session] \in 0..Len(log[session]) /\ Skipped \in 0..Len(log[session])
      /\ a <= b /\ b <= done[session] /\ Skipped < a
  BY <1>2, <1>3, <1>4
<1>6. Stretch(f) = [doc |-> session, from |-> First(session, a), to |-> EndOfLog(session, b)]
  <2>1. k \in 0..Len(stream) /\ 1 \in 1..k /\ k \in 1..k
    BY <1>2
  <2>2. /\ Len(f) = k /\ f[1] = log[session][a].body /\ f[1].doc = session
        /\ f[k] = log[session][b].body
    BY <1>1, <1>3, <1>4, <2>1, Beginnings
  <2>3. f # <<>> /\ b # 0
    <3>1. Len(<<>>) = 0
      OBVIOUS
    <3> HIDE DEF f
    <3> QED BY <2>2, <3>1
  <2> HIDE DEF f
  <2> QED BY <2>2, <2>3 DEF Stretch, End, First, EndOfLog
<1>7. /\ First(session, a) \in Nat /\ First(session, a) < EndOfLog(session, a)
      /\ EndOfLog(session, a) \in 0..Size[session] /\ EndOfLog(session, b) \in 0..Size[session]
      /\ EndOfLog(session, done[session]) \in 0..Size[session]
      /\ EndOfLog(session, a) <= EndOfLog(session, b)
      /\ EndOfLog(session, b) <= EndOfLog(session, done[session])
  <2>1. First(session, a) \in Nat /\ First(session, a) < EndOfLog(session, a)
    BY <1>1, <1>2, Ends DEF EndsInv
  <2> QED BY <1>1, <1>2, <1>5, <2>1, EndsGrow
<1>8. ASSUME NEW q \in SavedStretches, q.doc = session
      PROVE  q.to <= First(session, a)
  <2>1. PICK n \in DOMAIN disk : disk[n] # <<>> /\ q = Stretch(disk[n])
    BY DEF SavedStretches
  <2>2. PICK j \in 1..done[session] : q.to = EndOfLog(session, j) /\ j <= Skipped
    <3>1. PICK d \in Docs : \E i, j \in 1..done[d] :
            /\ Stretch(disk[n]) = [doc |-> d, from |-> First(d, i), to |-> EndOfLog(d, j)]
            /\ Receiving /\ session = d => j <= Skipped
      BY <2>1, Stretches
    <3>2. d = session
      BY <1>8, <2>1, <3>1
    <3> QED BY <1>1, <2>1, <3>1, <3>2
  <2>3. j \in 0..Len(log[session]) /\ j < a
    BY <1>2, <1>3, <2>2
  <2> QED BY <1>1, <1>2, <2>2, <2>3, Ends DEF EndsInv
<1>9. TakenBytes[session] = EndOfLog(session, done[session]) /\ Size[session] \in Nat
  BY <1>2, TransferAssumption DEF TakenBytes
<1>10. /\ First(session, a) \in 0..TakenBytes[session]
       /\ EndOfLog(session, b) \in (First(session, a) + 1)..TakenBytes[session]
  BY <1>7, <1>9
<1> HIDE DEF f
<1>11. \E from \in 0..TakenBytes[session] : \E to \in (from + 1)..TakenBytes[session] :
         /\ \A q \in SavedStretches : q.doc = session => q.to <= from
         /\ Stretch(f) = [doc |-> session, from |-> from, to |-> to]
  BY <1>6, <1>8, <1>10
<1> QED BY <1>11 DEF f

\* To write the stream, or a beginning of it, is to save it.
LEMMA WriteDelivers ==
    ASSUME TransferInv, cpc = "write", UNCHANGED <<log, done>>, NEW k \in 0..Len(stream),
           disk' = [disk EXCEPT ![counter - 1] = SubSeq(stream, 1, k)]
    PROVE  D!Save(session) \/ UNCHANGED D!DeliveryVars
PROOF
<1>1. PICK n \in DOMAIN disk : n = counter - 1 /\ disk[n] = <<>>
  BY DEF TransferInv, StreamInv
<1>2. PICK f : f = SubSeq(stream, 1, k)
  OBVIOUS
<1>3. disk = [m \in DOMAIN disk |-> disk[m]]
  BY DEF TransferInv, TypeOK
<1>4. disk' = [m \in DOMAIN disk |-> IF m = n THEN f ELSE disk[m]]
  BY <1>1, <1>2, <1>3
<1>5. UNCHANGED <<SentBytes, TakenBytes>>
  BY DEF SentBytes, TakenBytes, EndOfLog
<1>6. stream \in Seq(Bodies) /\ Len(stream) \in Nat
  BY DEF TransferInv, TypeOK
<1>7. CASE k = 0
  <2>1. f = <<>>
    BY <1>2, <1>6, <1>7
  <2>2. disk' = disk
    BY <1>1, <1>3, <1>4, <2>1
  <2> QED BY <1>5, <2>2, SavedStays DEF D!DeliveryVars
<1>8. CASE k # 0
  <2>1. k \in 1..Len(stream)
    BY <1>6, <1>8
  <2>2. f # <<>>
    <3>1. f \in Seq(Bodies) /\ Len(f) = k
      BY <1>2, <1>6, <2>1
    <3> QED BY <1>8, <3>1
  <2>3. SavedStretches' = {Stretch(disk'[m]) : m \in {i \in DOMAIN disk' : disk'[i] # <<>>}}
    BY DEF SavedStretches, Stretch, End
  <2>4. SavedStretches' = SavedStretches \cup {Stretch(f)}
    <3>1. n \in DOMAIN disk' /\ disk'[n] = f
      BY <1>4
    <3>2. \A m \in DOMAIN disk : disk[m] # <<>> => m \in DOMAIN disk' /\ disk'[m] = disk[m]
      BY <1>1, <1>4
    <3>3. \A m \in DOMAIN disk' : m # n => m \in DOMAIN disk /\ disk'[m] = disk[m]
      BY <1>4
    <3>4. SavedStretches \cup {Stretch(f)} \subseteq SavedStretches'
      BY <2>2, <2>3, <3>1, <3>2 DEF SavedStretches
    <3>5. SavedStretches' \subseteq SavedStretches \cup {Stretch(f)}
      BY <2>3, <3>1, <3>3 DEF SavedStretches
    <3> QED BY <3>4, <3>5
  <2>5. \E from \in 0..TakenBytes[session] : \E to \in (from + 1)..TakenBytes[session] :
          /\ \A q \in SavedStretches : q.doc = session => q.to <= from
          /\ Stretch(f) = [doc |-> session, from |-> from, to |-> to]
    BY <1>2, <2>1, BeginningIsNew
  <2> QED BY <1>5, <2>4, <2>5 DEF D!Save
<1> QED BY <1>7, <1>8

\* To open a file is to overwrite what a file of that name held.
LEMMA OpenDelivers ==
    ASSUME TransferInv, OpenFile
    PROVE  (\E r \in SavedStretches : D!Overwrite(r)) \/ UNCHANGED D!DeliveryVars
PROOF
<1>1. UNCHANGED <<log, done>>
  BY DEF OpenFile, broker
<1>2. UNCHANGED <<SentBytes, TakenBytes>>
  BY <1>1 DEF SentBytes, TakenBytes, EndOfLog
<1>3. disk' = [n \in DOMAIN disk \cup {counter} |-> IF n = counter THEN <<>> ELSE disk[n]]
  BY DEF OpenFile
<1>4. SavedStretches' = {Stretch(disk[n]) : n \in {m \in DOMAIN disk : disk[m] # <<>> /\ m # counter}}
  <2>1. SavedStretches' = {Stretch(disk'[m]) : m \in {i \in DOMAIN disk' : disk'[i] # <<>>}}
    BY DEF SavedStretches, Stretch, End
  <2> QED BY <1>3, <2>1
<1>5. CASE counter \in DOMAIN disk /\ disk[counter] # <<>>
  <2>1. Stretch(disk[counter]) \in SavedStretches
    BY <1>5 DEF SavedStretches
  <2>2. \A n \in DOMAIN disk :
          disk[n] # <<>> /\ n # counter => Stretch(disk[n]) # Stretch(disk[counter])
    BY <1>5, StretchesDiffer
  <2>3. SavedStretches' = SavedStretches \ {Stretch(disk[counter])}
    BY <1>4, <1>5, <2>2 DEF SavedStretches
  <2> QED BY <1>2, <2>1, <2>3 DEF D!Overwrite
<1>6. CASE ~(counter \in DOMAIN disk /\ disk[counter] # <<>>)
  <2>1. SavedStretches' = SavedStretches
    BY <1>4, <1>6 DEF SavedStretches
  <2> QED BY <1>2, <2>1 DEF D!DeliveryVars
<1> QED BY <1>5, <1>6

\* Every step of the transfer is a step of the delivery, or changes nothing of it.
LEMMA StepDelivers ==
    ASSUME TransferInv, TransferInv', [Next]_vars
    PROVE  [D!DeliveryNext]_(D!DeliveryVars)
PROOF
<1>1. CASE UNCHANGED <<done, disk>>
  BY <1>1, AgentDelivers DEF D!DeliveryNext
<1>2. CASE CompleteSubMessage
  <2>1. session \in Docs
    BY <1>2 DEF TransferInv, StreamInv, Receiving, CompleteSubMessage
  <2> QED BY <1>2, <2>1, CompleteDelivers DEF D!DeliveryNext
<1>3. CASE OpenFile
  BY <1>3, OpenDelivers DEF D!DeliveryNext
<1>4. ASSUME cpc = "write", UNCHANGED <<log, done>>, NEW k \in 0..Len(stream),
             disk' = [disk EXCEPT ![counter - 1] = SubSeq(stream, 1, k)]
      PROVE  [D!DeliveryNext]_(D!DeliveryVars)
  <2>1. session \in Docs
    BY <1>4 DEF TransferInv, StreamInv, Receiving
  <2> QED BY <1>4, <2>1, WriteDelivers DEF D!DeliveryNext
<1>5. CASE WriteFile
  <2>1. stream = SubSeq(stream, 1, Len(stream)) /\ Len(stream) \in 0..Len(stream)
    <3>1. \A q \in Seq(Bodies) : q = SubSeq(q, 1, Len(q)) /\ Len(q) \in 0..Len(q)
      OBVIOUS
    <3> QED BY <3>1 DEF TransferInv, TypeOK
  <2>2. cpc = "write" /\ UNCHANGED <<log, done>> /\ disk' = [disk EXCEPT ![counter - 1] = stream]
    BY <1>5 DEF WriteFile, broker
  <2> QED BY <1>4, <2>1, <2>2
<1>6. CASE StopCentral
  <2>1. UNCHANGED <<log, done>>
    BY <1>6 DEF StopCentral, broker
  <2>2. CASE UNCHANGED disk
    BY <1>1, <2>1, <2>2
  <2>3. CASE ~UNCHANGED disk
    <3>1. cpc = "write" /\ \E k \in 0..Len(stream) : disk' = [disk EXCEPT ![counter - 1] = SubSeq(stream, 1, k)]
      BY <1>6, <2>3 DEF StopCentral
    <3> QED BY <1>4, <2>1, <3>1
  <2> QED BY <2>2, <2>3
<1>7. CASE Central /\ ~CompleteSubMessage /\ ~OpenFile /\ ~WriteFile /\ ~StopCentral
  <2>1. UNCHANGED <<done, disk>>
    BY <1>7 DEF Central, broker, StartCentral, CentralChecksQueue, CentralCreatesQueue,
                AcceptMessageSession, AcceptRefused, AcceptTimesOut, ReceiveSubMessage,
                ReceiveNull, SessionLost
  <2> QED BY <1>1, <2>1
<1>8. CASE ~Central
  <2>1. UNCHANGED <<done, disk>>
    BY <1>8, AgentSteps DEF Next
  <2> QED BY <1>1, <2>1
<1> QED BY <1>2, <1>3, <1>5, <1>6, <1>7, <1>8

LEMMA InitDelivers == Init => D!DeliveryInit
PROOF
<1> SUFFICES ASSUME Init PROVE D!DeliveryInit
  OBVIOUS
<1>1. /\ log = [d \in Docs |-> <<>>] /\ done = [d \in Docs |-> 0] /\ disk = <<>>
      /\ Len(<<>>) = 0 /\ DOMAIN <<>> = {}
  BY DEF Init
<1>2. SentBytes = [d \in Docs |-> 0] /\ TakenBytes = [d \in Docs |-> 0]
  BY <1>1 DEF SentBytes, TakenBytes, EndOfLog
<1>3. SavedStretches = {}
  BY <1>1 DEF SavedStretches
<1> QED BY <1>2, <1>3 DEF D!DeliveryInit

\* The transfer implements the delivery: whatever agents, central service and
\* broker do, bytes are sent, taken and saved in the order of the document
\* (AzureQueueClient.cs:33-71 and PdfService.cs:22-28 of the central service).
THEOREM TransferDelivers == Spec => Delivers
PROOF
<1>1. Spec => D!DeliveryInit
  BY InitDelivers DEF Spec
<1>2. Spec => [][D!DeliveryNext]_(D!DeliveryVars)
  BY StepDelivers, TransferCorrect, PTL DEF Spec
<1> QED BY <1>1, <1>2 DEF Delivers, D!Delivery

\* So no two files share a byte of a document, and none holds a byte that was
\* not taken: a theorem of DocumentDelivery, about the transfer.
THEOREM BytesStayApart == Spec => []BytesAreApart
PROOF
<1>1. Size \in [Docs -> Nat]
  BY TransferAssumption
<1>2. D!Delivery => []D!SavedApart
  BY <1>1, D!DeliveryKeepsApart
<1> QED BY <1>2, TransferDelivers DEF Delivers, BytesAreApart
=============================================================================
