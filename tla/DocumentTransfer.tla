-------------------------- MODULE DocumentTransfer --------------------------
(***************************************************************************)
(* The transfer of finished documents from the scanner agents to the       *)
(* central service of "Message Queues": an agent cuts a document that is   *)
(* larger than one message into sub-messages of one Service Bus session,   *)
(* the central service accepts a session, collects its sub-messages in a   *)
(* stream and saves the stream as the next scan_<n>.pdf.                   *)
(*                                                                         *)
(* A document is sent by one call of SplitAndSend, which draws a fresh     *)
(* Guid for its session, so a document stands for its session as well.     *)
(* A message body is [doc, first, size]: size bytes of doc from byte first.*)
(***************************************************************************)
EXTENDS Integers, Sequences, FiniteSets

CONSTANTS
    Scanners,        \* the scanner agents; the central service is the only one
    Docs,            \* the documents the agents finish, each of them once
    Size,            \* Size[d] is the length of the PDF of d in bytes
    MaxMessageSize,  \* the field MaxMessageSize of the agents' queue client
    InitialQueue,    \* the queue found at Init: "absent", or left by an agent
    Faults,          \* which faults of FaultKinds the environment may inject
    MaxStarts,       \* bound: how often the operator starts each process
    NoDoc            \* the absence of a document (a null reference)

FaultKinds == {"receiveTimeout", "acceptTimeout", "lockLost", "stop"}

Processes == Scanners \cup {"central"}

ASSUME TransferAssumption ==
    /\ MaxMessageSize \in Nat \ {0}
    /\ Size \in [Docs -> Nat \ {0}]
    /\ InitialQueue \in {"absent", "sessions"}
    /\ Faults \subseteq FaultKinds
    /\ MaxStarts \in [Processes -> Nat]
    /\ NoDoc \notin Docs

VARIABLES
    queueKind,  \* "absent", "sessions" (RequiresSession) or "plain"
    log,        \* log[d]: the messages sent for d, in broker order
    done,       \* done[d]: how many messages of log[d] were completed
    locked,     \* the sessions whose lock the broker still grants
    scanner,    \* scanner[s]: control and locals of agent s
    begun,      \* the documents already handed to SendFileBytes
    starts,     \* how often each process was started
    cpc,        \* control of the central service
    session,    \* the session accepted by the running Receive
    stream,     \* largeMessageStream
    expected,   \* numberOfSubMessages, -1 before the first sub-message
    received,   \* numberOfSubMessagesReceived
    counter,    \* _counter of PdfService
    disk        \* disk[n]: the contents of scan_<n>.pdf

broker  == <<queueKind, log, done, locked>>
central == <<cpc, session, stream, expected, received, counter>>
vars    == <<broker, scanner, begun, starts, central, disk>>

----------------------------------------------------------------------------
(* Messages *)

Body(d, first, size) == [doc |-> d, first |-> first, size |-> size]

\* Mutant of NumberOfSubMessages: the remainder is not counted.
NumberOfSubMessagesRoundedDown(d) == Size[d] \div MaxMessageSize

\* SplitAndSend: the quotient, one more when there is a remainder.
NumberOfSubMessages(d) ==
    (Size[d] \div MaxMessageSize) + (IF Size[d] % MaxMessageSize # 0 THEN 1 ELSE 0)

\* Mutant of ArraySize: the last byte of a full array is not copied.
ArraySizeOffByOne(d, offset) ==
    IF Size[d] - offset > MaxMessageSize THEN MaxMessageSize - 1 ELSE Size[d] - offset

\* Mutant of ArraySize: a full array takes the first byte of the next one.
ArraySizeTooLong(d, offset) ==
    IF Size[d] - offset > MaxMessageSize THEN MaxMessageSize + 1 ELSE Size[d] - offset

\* SplitAndSend: the length of the array copied at an offset.
ArraySize(d, offset) ==
    IF Size[d] - offset > MaxMessageSize THEN MaxMessageSize ELSE Size[d] - offset

SubMessage(d, offset, number) ==
    [body |-> Body(d, offset, ArraySize(d, offset)),
     number |-> number, of |-> NumberOfSubMessages(d)]

\* SendBytes: one message, neither session nor sequence properties.
SingleMessage(d) == [body |-> Body(d, 0, Size[d]), number |-> 0, of |-> 0]

IsLarge(d) == Size[d] > MaxMessageSize

Pending(d) == Len(log[d]) - done[d]

Broken(fault) == fault \in Faults

----------------------------------------------------------------------------
(* Initial states: nothing runs and no document has been scanned. *)

Off == [pc |-> "down", doc |-> NoDoc, offset |-> 0, number |-> 0]

Init ==
    /\ queueKind = InitialQueue
    /\ log = [d \in Docs |-> <<>>]
    /\ done = [d \in Docs |-> 0]
    /\ locked = {}
    /\ scanner = [s \in Scanners |-> Off]
    /\ begun = {}
    /\ starts = [p \in Processes |-> 0]
    /\ cpc = "down"
    /\ session = NoDoc
    /\ stream = <<>>
    /\ expected = -1
    /\ received = 0
    /\ counter = 1
    /\ disk = <<>>

----------------------------------------------------------------------------
(* Scanner agent s *)

CountStart(p) ==
    /\ starts[p] < MaxStarts[p]
    /\ starts' = [starts EXCEPT ![p] = @ + 1]

StartScanner(s) ==
    /\ scanner[s].pc = "down"
    /\ CountStart(s)
    /\ scanner' = [scanner EXCEPT ![s].pc = "check"]
    /\ UNCHANGED <<broker, begun, central, disk>>

\* Mutant of ScannerChecksQueue: the queue is created if it exists.
ScannerChecksInverted(s) ==
    /\ scanner[s].pc = "check"
    /\ scanner' = [scanner EXCEPT
         ![s].pc = IF queueKind = "absent" THEN "idle" ELSE "create"]
    /\ UNCHANGED <<broker, begun, starts, central, disk>>

\* CreateQueueClient: QueueExists is a call of its own ...
ScannerChecksQueue(s) ==
    /\ scanner[s].pc = "check"
    /\ scanner' = [scanner EXCEPT
         ![s].pc = IF queueKind = "absent" THEN "create" ELSE "idle"]
    /\ UNCHANGED <<broker, begun, starts, central, disk>>

\* ... and so is CreateQueue, which throws when the queue exists by now.
ScannerCreatesQueue(s) ==
    /\ scanner[s].pc = "create"
    /\ \/ /\ queueKind = "absent"
          /\ queueKind' = "sessions"
          /\ scanner' = [scanner EXCEPT ![s].pc = "idle"]
       \/ /\ queueKind # "absent"
          /\ scanner' = [scanner EXCEPT ![s] = Off]
          /\ UNCHANGED queueKind
    /\ UNCHANGED <<log, done, locked, begun, starts, central, disk>>

\* SaveDocument hands a finished document to SendFileBytes: a large one to
\* SplitAndSend ...
BeginSplit(s, d) ==
    /\ scanner[s].pc = "idle"
    /\ d \notin begun
    /\ IsLarge(d)
    /\ begun' = begun \cup {d}
    /\ scanner' = [scanner EXCEPT
         ![s] = [pc |-> "send", doc |-> d, offset |-> 0, number |-> 1]]
    /\ UNCHANGED <<broker, starts, central, disk>>

\* Mutant of SendSmall: the message gets a session, but no number.
SendSmallInSession(s, d) ==
    /\ scanner[s].pc = "idle"
    /\ d \notin begun
    /\ ~IsLarge(d)
    /\ begun' = begun \cup {d}
    /\ log' = [log EXCEPT ![d] = Append(@, SingleMessage(d))]
    /\ UNCHANGED <<queueKind, done, locked, scanner, starts, central, disk>>

\* ... a small one to SendBytes.  A queue that requires sessions refuses a
\* message without one; nothing catches the exception, the agent dies.
SendSmall(s, d) ==
    /\ scanner[s].pc = "idle"
    /\ d \notin begun
    /\ ~IsLarge(d)
    /\ begun' = begun \cup {d}
    /\ \/ /\ queueKind = "plain"
          /\ log' = [log EXCEPT ![d] = Append(@, SingleMessage(d))]
          /\ UNCHANGED scanner
       \/ /\ queueKind = "sessions"
          /\ scanner' = [scanner EXCEPT ![s] = Off]
          /\ UNCHANGED log
    /\ UNCHANGED <<queueKind, done, locked, starts, central, disk>>

\* One round of the loop of SplitAndSend.
SendSubMessage(s) ==
    LET d == scanner[s].doc
        offset == scanner[s].offset
    IN  /\ scanner[s].pc = "send"
        /\ offset < Size[d]
        /\ log' = [log EXCEPT
             ![d] = Append(@, SubMessage(d, offset, scanner[s].number))]
        /\ scanner' = [scanner EXCEPT
             ![s].offset = @ + MaxMessageSize, ![s].number = @ + 1]
        /\ UNCHANGED <<queueKind, done, locked, begun, starts, central, disk>>

EndSplit(s) ==
    /\ scanner[s].pc = "send"
    /\ scanner[s].offset >= Size[scanner[s].doc]
    /\ scanner' = [scanner EXCEPT ![s] = [Off EXCEPT !.pc = "idle"]]
    /\ UNCHANGED <<broker, begun, starts, central, disk>>

\* The agent is stopped or dies (a Send that fails escapes the handler).
StopScanner(s) ==
    /\ Broken("stop")
    /\ scanner[s].pc # "down"
    /\ scanner' = [scanner EXCEPT ![s] = Off]
    /\ UNCHANGED <<broker, begun, starts, central, disk>>

----------------------------------------------------------------------------
(* Central service *)

\* Mutant of CentralDown: the files are numbered from 0.
CentralDownFromZero ==
    /\ cpc' = "down"
    /\ session' = NoDoc
    /\ stream' = <<>>
    /\ expected' = -1
    /\ received' = 0
    /\ counter' = 0

\* What the process held in memory is gone.
CentralDown ==
    /\ cpc' = "down"
    /\ session' = NoDoc
    /\ stream' = <<>>
    /\ expected' = -1
    /\ received' = 0
    /\ counter' = 1

StartCentral ==
    /\ cpc = "down"
    /\ CountStart("central")
    /\ cpc' = "check"
    /\ UNCHANGED <<broker, scanner, begun, session, stream, expected, received, counter, disk>>

CentralChecksQueue ==
    /\ cpc = "check"
    /\ cpc' = IF queueKind = "absent" THEN "create" ELSE "accept"
    /\ UNCHANGED <<broker, scanner, begun, starts, session, stream, expected, received, counter, disk>>

\* CreateQueue builds a description that requires sessions and then creates
\* the queue from its bare name: a queue without sessions.
CentralCreatesQueue ==
    /\ cpc = "create"
    /\ \/ /\ queueKind = "absent"
          /\ queueKind' = "plain"
          /\ cpc' = "accept"
          /\ UNCHANGED <<session, stream, expected, received, counter>>
       \/ /\ queueKind # "absent"
          /\ CentralDown
          /\ UNCHANGED queueKind
    /\ UNCHANGED <<log, done, locked, scanner, begun, starts, disk>>

\* Mutant of AcceptMessageSession: a session accepted before is refused, though
\* its sub-messages are not all taken.
AcceptNewSession(d) ==
    /\ cpc = "accept"
    /\ queueKind = "sessions"
    /\ d \notin locked
    /\ Pending(d) > 0
    /\ done[d] = 0
    /\ locked' = locked \cup {d}
    /\ session' = d
    /\ stream' = <<>>
    /\ expected' = -1
    /\ received' = 0
    /\ cpc' = "receive"
    /\ UNCHANGED <<queueKind, log, done, scanner, begun, starts, counter, disk>>

\* Receive begins: a fresh stream and the next session with a message.
AcceptMessageSession(d) ==
    /\ cpc = "accept"
    /\ queueKind = "sessions"
    /\ d \notin locked
    /\ Pending(d) > 0
    /\ locked' = locked \cup {d}
    /\ session' = d
    /\ stream' = <<>>
    /\ expected' = -1
    /\ received' = 0
    /\ cpc' = "receive"
    /\ UNCHANGED <<queueKind, log, done, scanner, begun, starts, counter, disk>>

\* AcceptMessageSession throws on a queue without sessions; the exception
\* leaves OnStart and Start.
AcceptRefused ==
    /\ cpc = "accept"
    /\ queueKind = "plain"
    /\ CentralDown
    /\ UNCHANGED <<broker, scanner, begun, starts, disk>>

\* It throws as well when no session becomes available in time.
AcceptTimesOut ==
    /\ cpc = "accept"
    /\ Broken("acceptTimeout")
    /\ queueKind = "sessions"
    /\ \A d \in Docs : d \in locked \/ Pending(d) = 0
    /\ CentralDown
    /\ UNCHANGED <<broker, scanner, begun, starts, disk>>

\* session.Receive() returns the next sub-message; its body goes to the stream.
ReceiveSubMessage ==
    /\ cpc = "receive"
    /\ session \in locked
    /\ Pending(session) > 0
    /\ LET subMessage == log[session][done[session] + 1]
       IN  /\ expected' = IF expected = -1 THEN subMessage.of ELSE expected
           /\ stream' = Append(stream, subMessage.body)
    /\ cpc' = "complete"
    /\ UNCHANGED <<broker, scanner, begun, starts, session, received, counter, disk>>

\* Mutant of CompleteSubMessage: the sub-message is not completed.
CompleteForgotten ==
    /\ cpc = "complete"
    /\ session \in locked
    /\ received' = received + 1
    /\ cpc' = IF received + 1 = expected THEN "open" ELSE "receive"
    /\ UNCHANGED <<broker, scanner, begun, starts, session, stream, expected, counter, disk>>

\* Mutant of CompleteSubMessage: everything the session holds is completed.
CompleteAll ==
    /\ cpc = "complete"
    /\ session \in locked
    /\ done' = [done EXCEPT ![session] = Len(log[session])]
    /\ received' = received + 1
    /\ cpc' = IF received + 1 = expected THEN "open" ELSE "receive"
    /\ UNCHANGED <<queueKind, log, locked, scanner, begun, starts, session, stream, expected, counter, disk>>

\* Mutant of CompleteSubMessage: compared before the count is increased.
CompleteComparesFirst ==
    /\ cpc = "complete"
    /\ session \in locked
    /\ done' = [done EXCEPT ![session] = @ + 1]
    /\ received' = received + 1
    /\ cpc' = IF received = expected THEN "open" ELSE "receive"
    /\ UNCHANGED <<queueKind, log, locked, scanner, begun, starts, session, stream, expected, counter, disk>>

\* subMessage.Complete() and the count that ends the loop.
CompleteSubMessage ==
    /\ cpc = "complete"
    /\ session \in locked
    /\ done' = [done EXCEPT ![session] = @ + 1]
    /\ received' = received + 1
    /\ cpc' = IF received + 1 = expected THEN "open" ELSE "receive"
    /\ UNCHANGED <<queueKind, log, locked, scanner, begun, starts, session, stream, expected, counter, disk>>

\* session.Receive() waited in vain and returned null: the loop ends as well.
ReceiveNull ==
    /\ cpc = "receive"
    /\ Broken("receiveTimeout")
    /\ session \in locked
    /\ Pending(session) = 0
    /\ cpc' = "open"
    /\ UNCHANGED <<broker, scanner, begun, starts, session, stream, expected, received, counter, disk>>

\* Receive() or Complete() on a session whose lock ran out throws.
SessionLost ==
    /\ cpc \in {"receive", "complete"}
    /\ session \notin locked
    /\ CentralDown
    /\ UNCHANGED <<broker, scanner, begun, starts, disk>>

\* SaveDocument: FileMode.Create empties a file of that name if there is one.
OpenFile ==
    /\ cpc = "open"
    /\ disk' = [n \in DOMAIN disk \cup {counter} |->
                  IF n = counter THEN <<>> ELSE disk[n]]
    /\ counter' = counter + 1
    /\ cpc' = "write"
    /\ UNCHANGED <<broker, scanner, begun, starts, session, stream, expected, received>>

\* CopyTo; OnStart then calls Receive again.  Nobody closes the session.
WriteFile ==
    /\ cpc = "write"
    /\ disk' = [disk EXCEPT ![counter - 1] = stream]
    /\ cpc' = "accept"
    /\ session' = NoDoc
    /\ stream' = <<>>
    /\ expected' = -1
    /\ received' = 0
    /\ UNCHANGED <<broker, scanner, begun, starts, counter>>

\* The service is stopped or dies; inside CopyTo a prefix was written.
StopCentral ==
    /\ Broken("stop")
    /\ cpc # "down"
    /\ \/ /\ cpc = "write"
          /\ \E k \in 0..Len(stream) :
               disk' = [disk EXCEPT ![counter - 1] = SubSeq(stream, 1, k)]
       \/ /\ cpc # "write"
          /\ UNCHANGED disk
    /\ CentralDown
    /\ UNCHANGED <<broker, scanner, begun, starts>>

----------------------------------------------------------------------------
(* Broker: a session lock is granted for a time and never renewed. *)

LockExpires(d) ==
    /\ d \in locked
    /\ cpc \in {"receive", "complete"} /\ session = d => Broken("lockLost")
    /\ locked' = locked \ {d}
    /\ UNCHANGED <<queueKind, log, done, scanner, begun, starts, central, disk>>

----------------------------------------------------------------------------

Scanner(s) ==
    \/ StartScanner(s)
    \/ ScannerChecksQueue(s)
    \/ ScannerCreatesQueue(s)
    \/ \E d \in Docs : BeginSplit(s, d) \/ SendSmall(s, d)
    \/ SendSubMessage(s)
    \/ EndSplit(s)
    \/ StopScanner(s)

Central ==
    \/ StartCentral
    \/ CentralChecksQueue
    \/ CentralCreatesQueue
    \/ \E d \in Docs : AcceptMessageSession(d)
    \/ AcceptRefused
    \/ AcceptTimesOut
    \/ ReceiveSubMessage
    \/ CompleteSubMessage
    \/ ReceiveNull
    \/ SessionLost
    \/ OpenFile
    \/ WriteFile
    \/ StopCentral

Next ==
    \/ \E s \in Scanners : Scanner(s)
    \/ Central
    \/ \E d \in Docs : LockExpires(d)

Spec == Init /\ [][Next]_vars

\* The threads of both processes keep running, the broker's clock advances.
\* Faults are never forced, and nobody is forced to scan a document.
Fairness ==
    /\ \A s \in Scanners : WF_vars(SendSubMessage(s) \/ EndSplit(s))
    /\ WF_vars(StartCentral \/ CentralChecksQueue \/ CentralCreatesQueue)
    /\ WF_vars(AcceptRefused \/ \E d \in Docs : AcceptMessageSession(d))
    /\ WF_vars(ReceiveSubMessage \/ CompleteSubMessage \/ SessionLost)
    /\ WF_vars(ReceiveNull)
    /\ WF_vars(OpenFile \/ WriteFile)
    /\ \A d \in Docs : WF_vars(LockExpires(d))

FairSpec == Spec /\ Fairness

----------------------------------------------------------------------------
(* Types *)

Bodies == [doc : Docs, first : Nat, size : Nat]

Messages == [body : Bodies, number : Nat, of : Nat]

ScannerStates ==
    [pc : {"down", "check", "create", "idle", "send"},
     doc : Docs \cup {NoDoc}, offset : Nat, number : Nat]

CentralPC ==
    {"down", "check", "create", "accept", "receive", "complete", "open", "write"}

TypeOK ==
    /\ queueKind \in {"absent", "sessions", "plain"}
    /\ log \in [Docs -> Seq(Messages)]
    /\ done \in [Docs -> Nat]
    /\ locked \subseteq Docs
    /\ scanner \in [Scanners -> ScannerStates]
    /\ begun \subseteq Docs
    /\ starts \in [Processes -> Nat]
    /\ cpc \in CentralPC
    /\ session \in Docs \cup {NoDoc}
    /\ stream \in Seq(Bodies)
    /\ expected \in Nat \cup {-1}
    /\ received \in Nat
    /\ counter \in Nat \ {0}
    /\ DOMAIN disk \subseteq Nat \ {0}
    /\ disk \in [DOMAIN disk -> Seq(Bodies)]

----------------------------------------------------------------------------
(* What makes the transfer correct *)

\* One document, each body starting where the one before it ends.
IsSegment(f) ==
    /\ \A i \in 1..Len(f) : f[i].doc = f[1].doc
    /\ \A i \in 1..(Len(f) - 1) : f[i + 1].first = f[i].first + f[i].size

IsWhole(d, f) ==
    /\ f # <<>>
    /\ IsSegment(f)
    /\ f[1].doc = d
    /\ f[1].first = 0
    /\ f[Len(f)].first + f[Len(f)].size = Size[d]

\* Every saved file is a gapless, in-order stretch of one document, whatever
\* agents interleave, time out, lose their lock or are restarted: Receive and
\* SaveDocument never mix two documents and never skip inside one.
FilesAreSegments == \A n \in DOMAIN disk : IsSegment(disk[n])

\* No byte of a document is in two files: a sub-message is completed once, so
\* a session accepted again starts after what was already collected.
NoByteSavedTwice ==
    \A m, n \in DOMAIN disk : \A i \in 1..Len(disk[m]), j \in 1..Len(disk[n]) :
        <<m, i>> # <<n, j>> => disk[m][i] # disk[n][j]

\* When the loop of Receive ends by its count the stream holds the whole
\* document, even when an earlier Receive lost part of the session.
CountedIsWhole ==
    cpc \in {"open", "write"} /\ received = expected => IsWhole(session, stream)

\* And it ends as soon as it can: nobody waits for a message, and for its timeout,
\* with the whole document in hand (AzureQueueClient.cs:58-67 of the central service).
WaitsForMore == cpc = "receive" => ~IsWhole(session, stream)

\* A sub-message leaves the queue only with its body in the stream, and what
\* is in the stream is dropped only by the end of the process or into a file.
NothingIsDropped ==
    [][/\ \A d \in Docs : done'[d] # done[d] =>
            stream # <<>> /\ stream[Len(stream)] = log[d][done'[d]].body
       /\ stream # <<>> /\ stream' = <<>> =>
            cpc' = "down" \/ disk'[counter - 1] = stream]_vars

\* Before the central service is started again no file is written twice.
FirstRunKeepsFiles ==
    starts["central"] <= 1 /\ cpc # "down" => \A n \in DOMAIN disk : n < counter

\* QueueExists and CreateQueue are two calls of either program (AzureQueueClient.cs:78-83
\* of the agent), so two processes can both miss the queue.  Whoever wins, nobody
\* goes on without one, and the central service receives only if it has sessions.
QueueIsThere ==
    /\ \A s \in Scanners : scanner[s].pc \in {"idle", "send"} => queueKind # "absent"
    /\ cpc = "accept" => queueKind # "absent"
    /\ cpc \in {"receive", "complete", "open", "write"} => queueKind = "sessions"

\* Small documents are sent without the property NumberOfSubMessages
\* (AzureQueueClient.cs:29,39), large ones with it, to one queue.  Receive casts
\* the property of whatever comes: it always gets one that has it.
ReceivedHasNumber == stream # <<>> => expected > 0

\* The sub-messages of d that were sent and are in no file.
Unsaved(d) ==
    {k \in 1..Len(log[d]) :
        \A n \in DOMAIN disk : \A i \in 1..Len(disk[n]) : disk[n][i] # log[d][k].body}

\* What an agent has sent ends up in a file, also the rest of a document whose
\* beginning was saved when Receive timed out, and the beginning of one whose
\* agent stopped: the first process of the central service, as long as it runs,
\* forgets nothing (AzureQueueClient.cs:33-71; README.md:25).
SentIsSaved ==
    <>[](cpc # "down" /\ starts["central"] = 1) =>
        \A d \in Docs : (Unsaved(d) # {} ~> Unsaved(d) = {})

\* What the broker has accepted does not stay there while the central service
\* runs on: a session that timed out is accepted again after its lock ran out.
QueueDrains ==
    <>[](cpc # "down") => \A d \in Docs : (Pending(d) > 0 ~> Pending(d) = 0)

----------------------------------------------------------------------------
(* Why the saved files are right: the invariant an induction needs *)

Sending(s) == scanner[s].pc = "send"

Receiving == cpc \in {"receive", "complete", "open", "write"}

\* How many completed sub-messages lie before the ones in the stream.
Skipped == done[session] - received

\* A document is begun before it is sent and has one sender.
SenderInv ==
    /\ \A s \in Scanners : Sending(s) => scanner[s].doc \in begun
    /\ \A s, t \in Scanners :
         Sending(s) /\ Sending(t) /\ scanner[s].doc = scanner[t].doc => s = t
    /\ \A d \in Docs \ begun : log[d] = <<>>

\* The log of a large document is the beginning of the sequence of its
\* sub-messages, and its agent goes on where the log ends.
LogIsCut(d) ==
    /\ IsLarge(d) =>
         /\ (Len(log[d]) - 1) * MaxMessageSize < Size[d]
         /\ \A i \in 1..Len(log[d]) :
              log[d][i] = SubMessage(d, (i - 1) * MaxMessageSize, i)
    /\ ~IsLarge(d) => log[d] = <<>> \/ log[d] = <<SingleMessage(d)>>

GoesOn(s) ==
    LET d == scanner[s].doc
    IN  /\ IsLarge(d)
        /\ scanner[s].offset = Len(log[d]) * MaxMessageSize
        /\ scanner[s].number = Len(log[d]) + 1

LogInv ==
    /\ \A d \in Docs : done[d] <= Len(log[d]) /\ LogIsCut(d)
    /\ \A s \in Scanners : Sending(s) => GoesOn(s)

\* The stream is what was received of the session, up to the message at hand.
StreamInv ==
    /\ ~Receiving => stream = <<>>
    /\ Receiving =>
         /\ session \in Docs
         /\ received <= done[session]
         /\ Len(stream) = received + (IF cpc = "complete" THEN 1 ELSE 0)
         /\ cpc = "complete" => Pending(session) > 0
         /\ cpc = "receive" => received # expected
         /\ \A i \in 1..Len(stream) : stream[i] = log[session][Skipped + i].body
         /\ expected = IF stream = <<>> THEN -1 ELSE log[session][1].of
    /\ cpc = "write" => counter - 1 \in DOMAIN disk /\ disk[counter - 1] = <<>>

\* What is in the files was completed before what is in the stream.
DiskInv ==
    \A n \in DOMAIN disk : \A i \in 1..Len(disk[n]) :
        LET d == disk[n][i].doc
        IN  \E k \in 1..done[d] :
              /\ disk[n][i] = log[d][k].body
              /\ Receiving /\ session = d => k <= Skipped

\* A message without a session lies in no queue that requires sessions.
QueueInv ==
    /\ QueueIsThere
    /\ \A d \in Docs : ~IsLarge(d) /\ log[d] # <<>> => queueKind = "plain"

\* The inductive invariant of the transfer: files are made of completed
\* sub-messages in the order an agent cut them, each used once.
TransferInv ==
    /\ TypeOK /\ QueueInv /\ SenderInv /\ LogInv /\ StreamInv /\ DiskInv
    /\ FilesAreSegments /\ NoByteSavedTwice

----------------------------------------------------------------------------
(* The transfer implements the delivery of documents *)

End(f) == IF f = <<>> THEN 0 ELSE f[Len(f)].first + f[Len(f)].size

Stretch(f) == [doc |-> f[1].doc, from |-> f[1].first, to |-> End(f)]

EndOfLog(d, k) == IF k = 0 THEN 0 ELSE log[d][k].body.first + log[d][k].body.size

SentBytes == [d \in Docs |-> EndOfLog(d, Len(log[d]))]

TakenBytes == [d \in Docs |-> EndOfLog(d, done[d])]

SavedStretches == {Stretch(disk[n]) : n \in {m \in DOMAIN disk : disk[m] # <<>>}}

D == INSTANCE DocumentDelivery WITH
       sent <- SentBytes, taken <- TakenBytes, saved <- SavedStretches

\* Sending, taking and saving are what DocumentDelivery allows: no byte is
\* saved before it was taken, none after a later one of its document.
Delivers == D!Delivery

\* The files of a document share no byte and hold only what was taken, by their
\* offsets in the document: what Delivers entails for a reader of the folder
\* (AzureQueueClient.cs:33-71 and PdfService.cs:22-28 of the central service).
BytesAreApart == D!SavedApart

----------------------------------------------------------------------------
(* What the task of the module asks for and the code does not do *)

\* README.md:24, "at installation (or at the first start) create the queue
\* for the results": the queue, whoever creates it, is one with sessions.
QueueRequiresSession == queueKind \in {"absent", "sessions"}

\* README.md:25, "saves to disk all documents that arrived": what SaveDocument
\* has finished writing is a whole document.
FilesAreWhole ==
    cpc = "accept" => \A n \in DOMAIN disk : \E d \in Docs : IsWhole(d, disk[n])
=============================================================================
