# A TLA+ model of the document services of .NET-Mentoring-D2-D3

The repository is a collection of small .NET programs written for a mentoring
course. Most are single pure functions or UI samples; the programs with state,
concurrency and failures are the scanner services ("Windows services" and
their extension "Message Queues"), the chat ("Multithreading") and the download
manager ("AsyncAwait"). This directory models them, the most important first:
how scanned pages become documents and how documents reach the central service.

## 1. The system

### Components

| component | sources | state | operations |
|---|---|---|---|
| Document transfer | `Message Queues/Windows services/QueueClient/AzureQueueClient.cs`, `Message Queues/CentralService/QueueClient/AzureQueueClient.cs`, `CentralService/DocumentService/PdfService.cs` | the Service Bus queue with its sessions and locks; locals of `SplitAndSend` and `Receive`; `_counter`; the folder of `scan_<n>.pdf` | create the queue, `SendFileBytes`, `SplitAndSend`, `Receive`, `SaveDocument`, start and stop |
| Scanner agent | `Message Queues/Windows services/ScanerService/` (`ScanProcessService`, `FileProcessor`, `DirectoryService`, `PDFFileService`, `Rules/`) | four folders; the watcher's events; `_lastUploadFileTime`, `_curentFileNumber`; the open document | `Start`, `ProcessWaitingFiles`, `HandleFile`, `ProcessFiles`, the three rules, `AddPage`, `SaveDocument`, `MoveFile`, `Stop` |
| Status and commands | `ScanerService/Status/StatusService.cs`, `ServiceBus/AzureSubscriptionClient.cs`, `CentralService/QueueClient/AzureTopicClient.cs`, `DocumentService/XmlService.cs` | reported settings and status, a timer, a status queue, a topic with one subscription | send a status periodically and on request, change settings, watch the settings file |
| Local scanner service | `Windows services/ScanerService/` | as the agent, documents are files of a folder | as the agent |
| Aspects | `Aspect-oriented programming/` | none the service reads | log a call and proceed |
| Chat | `Multithreading/Server`, `Multithreading/Client` | list of connections, a socket per client | connect, broadcast, disconnect |
| Download manager | `AsyncAwait/DownloadManager/Form1.cs` | buttons and labels, a cancellation source per download | start, cancel, finish |
| Expressions, mapper, LINQ provider | `CustomTransformer/` | none | pure translations of expression trees and objects |
| Power management | `UnmanagedCode/PowerManagement/` | native memory during one call | allocate, call, release |
| Others | key generator, book schema and feed, web site sample | none of their own | single calls into libraries |

`PROJECT.json` lists them all with what is modelled, and the hazards of each at
their lines.

### Interaction

    scanning device --files--> watched folder --events--> agent (one per machine)
    agent --sub-messages of one session per document--> queue "FileQueue"
    queue --sessions, one at a time--> central service --> scan_1.pdf, scan_2.pdf, ...
    agent --status--> "StatusQueue" --> central service; settings file --> topic --> agents

### What is hard

* Several agents and the one central service run on different machines; every
  one of them can be stopped or die between any two calls. Nothing but the
  folders and the queue survives.
* A document is larger than a message. The receiver counts sub-messages, but
  `session.Receive()` can return null, the session lock can run out, and a
  session left behind is accepted again in the middle of its document.
* The queue itself is created by whoever comes first, in two ways.
* The agent reads folders that others write: files are being written, are open
  in other programs, appear between the listing and the watcher, and the
  watcher's buffer can overflow.
* Three rules decide where a document ends; the first match hides the file
  from the others, so their states drift apart.

### What correct means, per component

* Transfer: a file holds consecutive bytes of one document; no byte is in two
  files; a receive that ended by its count has everything; nothing leaves the
  queue without being in memory or on disk; what agents have sent gets into files
  and the queue empties as long as the central service runs.
* Agent: no page is in two documents or twice in one; the success folder holds
  sent pages; a document has no gap in its numbers; waiting files are worked off.
* Status and commands: the status timer runs exactly while the service is started;
  newer settings are not replaced by older ones; the reports end up showing the
  settings in force; a command is not lost, and reaches every service.
* Chat: nobody hears a conversation with gaps; a broadcast reaches all others or
  its sender learns of the failure; until the server goes down the list holds no closed
  connection, and when it does nobody in the list is left connected.
* Downloads: an address is not downloaded more often than it was added; what is
  canceled leaves no file; what runs can be canceled; what has ended leaves the form.

## 2. The modules

| module | what it is |
|---|---|
| `DocumentDelivery` | abstract specification of the transfer: per document, a growing prefix sent, a growing prefix of that taken, and files as stretches of taken bytes; with a theorem about whatever keeps to it |
| `DocumentTransfer` | the transfer, both programs and the broker, with its properties and the refinement of `DocumentDelivery` |
| `DocumentTransferProofs` | theorems about `DocumentTransfer` |
| `DocumentDeliveryProofs` | proof that `DocumentTransfer` implements `DocumentDelivery` |
| `MCDocumentTransfer` | small instances for TLC |
| `PageSeries` | abstract specification of the agent: one open document at a time, each page put away before the next is taken, nothing put away taken again |
| `ScanAssembly` | the agent, its folders and its surroundings, with its properties and the refinement of `PageSeries` |
| `ScanAssemblyProofs` | theorems about `ScanAssembly`, with the proof that it implements `PageSeries` |
| `MCScanAssembly` | small instances for TLC |
| `StatusControl` | settings file, topic and subscription, and in each agent the service, the message pump and the status timer |
| `StatusControlProofs` | theorems about `StatusControl` |
| `MCStatusControl` | small instance for TLC |
| `ChatServer` | the chat server with its threads, and its clients |
| `ChatServerProofs` | theorems about `ChatServer` |
| `MCChatServer` | small instance for TLC |
| `DownloadForm` | the form of the download manager and the downloads it starts |
| `DownloadFormProofs` | theorems about `DownloadForm` |
| `MCDownloadForm` | small instance for TLC |
| `SequenceLemmas` | what `Append` and `RemoveAt` do to the elements of a sequence, used by four proof modules |

### DocumentTransfer and the code

| variable | code |
|---|---|
| `queueKind` | does "FileQueue" exist, and with `RequiresSession`? |
| `log[d]`, `done[d]`, `locked` | the broker: messages of the session of `d` in order, how many are completed, granted session locks |
| `scanner[s]` | control of agent `s` and `streamOffest`, `subMessageNumber` of `SplitAndSend` |
| `begun` | documents handed to `SendFileBytes` |
| `cpc`, `session`, `stream`, `expected`, `received` | control and locals of `Receive` (`largeMessageStream`, `numberOfSubMessages`, `numberOfSubMessagesReceived`) |
| `counter`, `disk` | `_counter` and the files of `PdfService` |

`CreateQueueClient`/`CreateQueue` are two actions each, because asking and
creating are two calls to the broker. One round of the loop of `SplitAndSend`
is `SendSubMessage`. A round of `Receive` is `ReceiveSubMessage` followed by
`CompleteSubMessage`, with `ReceiveNull` and `SessionLost` as the other ways
out; `SaveDocument` is `OpenFile` and `WriteFile`, because a stop in between
leaves a file with a part of the document (`StopCentral`). A message body is
[document, first byte, size]; the bytes themselves are not modelled.
`SplitAndSend` draws a new Guid per call and a document is sent by one call, so
a document names its session too.

The broker is external. Modelled from its documented behaviour as the code uses
it: creating a queue that exists fails; a queue with sessions refuses messages
without one; messages of a session are received in the order of their
completion of `Send`; a received message that is not completed comes again after
the session is accepted again; locks expire; `AcceptMessageSession` throws when
nothing comes; `Receive` of a session with no message returns null after a while.

Exceptions nobody catches end the process: that is what `Off` and `CentralDown`
stand for.

### ScanAssembly and the code

`location` says in which folder each file is; `writing` and `reading` are the
files nobody, or only readers, can open besides; `TryOpen` (exclusive, three
attempts) is `Free`. Other programs open files in the watched and in the processing
folder. `TryOpen` and the deletion or the move behind it are two calls: a program that
opens the file in between makes the second one throw, which ends the process
(`OpenedInBetween`, possible wherever `AboutToTake` holds). `mode` is the phase of the service, `step` the place inside
`HandleFile`/`ProcessFiles`, `current` its file. `events` is the queue of the
`FileSystemWatcher`, whose handlers run one after the other. `armed` and `number`
are the state of `TimerRule` and `NameRule`, `pages` the open PDF document.

`ProcessFiles` is the steps rules, save, move, page, store. The rules form one step
with one action per outcome, because they only read the image and their own
fields, except for `BarcodeRule` removing a sheet with any barcode, which is part
of the action (`RemoveCoded`). `MoveProcessed` is the loop over the processing
folder, which passes over the files in use without a word (`Movable`); a stop or an exception
inside it has moved any subset of the others (`StopAgent`, `OpenedInBetween`). `left`
remembers what an ended process left in that folder. Names are abstracted to
what the rules read of them: the number, and whether the path fits the pattern
(`Named`). The images are abstracted to what the barcode reader finds.

### StatusControl and the code

| variable | code |
|---|---|
| `kind`, `file`, `held`, `events`, `watcher` | the versions an administrator saves, the one in `defaultConfiguration.xml`, an editor that has it open, the pending `Changed` events, `Watcher_Changed` before and after its sleep |
| `topic`, `dead` | the one subscription "Subscription1": commands with their delivery count and the agent that has them locked; the dead-letter queue |
| `run`, `starts` | `ScanProcessService` of each agent: constructed, started, stopped |
| `timer`, `silenced` | `StatusService.timer.Enabled`; an interval was refused since it was last enabled |
| `timeout`, `barcode` | `ServiceStatus.PageTimeout`, `.BarcodeString`, as the version they come from |
| `pump` | the place inside `ProcessMessage`/`UpdateTimer` |
| `elapsed`, `draft`, `reported` | `StatusTimer_Elapsed`, what it has serialized, the last report sent |

`UpdateTimer` is one action per statement (`StopTimer`, `SetInterval` or
`IntervalRefused`, `SetPageTimeout`, `EnableTimer`), because `Start`, `Stop` and the
timer use the same object on other threads. The subscription is external: the first
command nobody has locked is delivered; a handler that throws abandons it; the lock
of a process that died expires; both put it back in its place until it was delivered
`MaxDelivery` times. The subscription is opened by the constructor of the service and
never closed, so commands are handled before `Start` and after `Stop`.

A save raises one `Changed` event, or two under the condition "twice". One report is
sent at a time; `Elapsed` handlers that overlap, and sends that fail, are left out.

### ChatServer and the code

`clients` is `_clients`; `pc[c]` is where the thread of client `c` is in `Process`, or
the listener in `AddConnection`; `next`, `to` and `stale` are the enumerator of
`BroadcastMessage`, the client it is about to write to and whether `_version` differs
from the enumerator's copy. A change of the `List` is two steps (the entries, then
the version). Whoever uses the list in between is in a data race: `torn` remembers it
and `Mangled` gives what the entries may become. `WriteFails` and `ReadFails` are the
exceptions `Process` catches; `Escapes` is one in its `finally` block, which ends the
process of the threaded server and only the task of the other (`isTplVersion`).

When the listener fails (`ListenFails`), `Disconnect` enumerates the same list on its own
thread and closes one client after the other (`CloseNext`), each of which stays in the list
while its thread and all others go on; `closing` is the place of that enumerator.
A client whose connection is closed before its thread has asked for the stream ("cut") makes
the thread fail at that point (`GetStreamFails`). When the list changes meanwhile, the
enumerator throws, `Main` catches the exception and calls `Disconnect` once more
(`DisconnectFails`); at the end the process exits (`Exit`).

What a client writes is numbered. `GetMessage` returns all that has arrived, so a
message is an interval of numbers, and "END" is only recognised when it arrives alone
(`Leaving`). `AddConnection` includes the client's connecting, as nothing the client does
before its thread runs can be seen. Reading until no data is available is one step.

### DownloadForm and the code

Everything runs on the UI thread, so an action is one turn of it: up to the next
`await` of something unfinished, with the continuations that run inline.
`list` is `_uriStringsList`, `labels` and `buttons` the controls of the two panels,
`jobs` the calls of `DownloadPageAsync`, `batches` the clicks on Download with the
downloads each still waits for. `download1_Click` is the whole `Select`/`ToList`
with the exception of the first address that is no `Uri` or has no label left.
`Ends` is the end of a download together with what the waiting loop does next.
A Cancel click is one of three: the download ends inside `ct.Cancel()` (`CancelEnds`),
later (`CancelRequested`), or the token is not looked at any more (`CancelIgnored`).
`Controls.Find` compares names without case; addresses that differ in case only are
left out.

## 3. The runs

All runs set `CHECK_DEADLOCK FALSE`: once every document has been scanned and sent
and the operator starts nothing any more, the system really stops.

| run | asks | instance |
|---|---|---|
| `Transfer_safety` | safety of the transfer under every fault, and the inductive invariant | two agents, documents of 5 and 4 bytes in messages of 2 (three sub-messages with a short last one, two full ones), the queue absent at first, the central service started twice, agents once |
| `Transfer_delivers` | refinement of `DocumentDelivery`; does the queue drain; is what was sent saved; does `Receive` never meet a small document? | one agent, the same faults, a small document (2 bytes) besides the large ones |
| `Transfer_plain_queue` | finding: the queue without sessions | one agent, one document |
| `Transfer_truncated` | finding: the truncated document | one agent, one document of three sub-messages, only receive timeouts |
| `Assembly_restarts` | safety of the assembly across stops and restarts, the inductive invariant, and the refinement of `PageSeries` | pages 2, 3, 5, a memo that is no page but has the number 4, a photo without number, which ends the agent; page timeouts, event overflow, stops and crashes; two starts |
| `Assembly_in_use` | the success folder and the waiting files when others open files | page 1, an unreadable page numbered 2, a page-named separator sheet; page timeouts, files in use in both folders and opened between check and move, stops and crashes; two starts |
| `Assembly_stale_number` | finding: pages joined across a jump | pages 1, 2, 5 and timeouts |
| `Assembly_separator` | finding: the separator sheet ends the agent | page 1 and a separator |
| `Status_control` | safety and liveness of the central control, and the inductive invariant | two agents, of which one reports; two versions of the settings, both good or the first bad; two deliveries; agents stop and die, the central service stops and starts again, editors are slow; one start of each agent |
| `Status_all_agents` | finding: the settings reach one agent | the same agents and versions, nothing stops or dies |
| `Chat_broadcast` | what clients hear while others come and go or the server goes down, and the inductive invariant | three clients: one talks and may press Ctrl-C, one only listens, one may be lost; threads and tasks; data races; a failing listener |
| `Form_downloads` | starts, cancels and ends of downloads, and the inductive invariant | an address that is added twice, one once, a text that is no address; two clicks on Download |

Why the bounds are enough. Documents interact only through the single receiver,
so two are enough to be mixed and two agents enough to interleave. Three
sub-messages give a first, a middle and a last one; sizes 5 and 4 give a short and
a full last array. Two starts of the central service show what a restart finds; the
agents keep nothing between starts that touches the queue. `MaxStarts` is the only
bound on a counter. For the assembly, pages 2, 3, 5 and a memo numbered 4 hold a
page that follows, a jump, and a rejected file that fills the gap (the other runs begin
with page 1); two starts show every combination of left-over folders.

For the status control, two commands are enough for an order and two agents enough to
compete; a second start of an agent, and a save that raises two events, are beyond what
TLC finishes in reasonable time and are covered for safety by the proofs, which hold for
any number of starts and all conditions. In the chat, three clients give a sender, one
that stays and one that comes or goes, before or behind the other in the list; after a
race nothing is claimed, so `RunBound` explores it only as far as the sender's name; the
same bound holds for tasks and for `Disconnect`, which meets a broadcast already then. The
proofs have none of these bounds.
In the form, two clicks and one address added twice are the least with which names
become ambiguous.

Fairness. `DocumentTransfer`: an agent in the loop of `SplitAndSend` and the
central service's thread go on (weak fairness of their own steps), the broker
delivers and its clock lets locks run out (`AcceptMessageSession`, `ReceiveNull`,
`LockExpires`), the service is started as often as the bound allows. Nobody is
forced to scan a document, and no fault is forced except those that only depend
on time. `ScanAssembly`: the agent's thread goes on, the device finishes its
files, other programs close theirs. `StatusControl`: editors finish, the threads of a
running process go on, an enabled timer elapses, locks expire; nobody has to start
anything. `DownloadForm`: delays, requests and files end; the user need not do anything.
`ChatServer` has no liveness property: a client that does not read can block a
broadcast for as long as it likes.

`SentIsSaved` and `QueueDrains` are about a central service that does not go
down for good: without that premise they are false, since the service may create
the queue the wrong way, be stopped, or end because `AcceptMessageSession` timed out.
`SentIsSaved` asks besides that it is its first process: the one before may have completed
sub-messages it never saved.

## 4. What the checks show

The guarantees of section 1 hold, with limits which the properties state:

* `FilesAreSegments`, `NoByteSavedTwice`, `NothingIsDropped`, `CountedIsWhole` hold
  under all faults. A file may be a *part* of a document, never a mixture, and
  nothing is saved twice although a lock may run out between copying a sub-message
  and completing it (the stream is then lost with the exception).
* `BytesAreApart` says the same by offsets, where `NoByteSavedTwice` compares messages: an
  array cut a byte too long would give different messages that share that byte.
* `WaitsForMore`: a `Receive` that still waits does not have the whole document, so the
  count ends the loop as soon as it can and no saved document has first cost a timeout.
* `QueueIsThere`: asking for the queue and creating it are two calls, so two processes can both
  miss it. The slower one ends with an exception; nobody goes on without a queue, and
  nobody receives from one without sessions.
* `ReceivedHasNumber`: small documents are sent without `NumberOfSubMessages`, which `Receive`
  casts unseen. It never meets one, because the queue with sessions refuses the message and on
  the one without sessions the central service cannot receive.
* `SentIsSaved`: every sub-message that was sent gets into some file, also when `Receive` timed out
  before it, the lock ran out, or the agent stopped in the middle of the document. With `CountedIsWhole`
  and `WaitsForMore` it follows that without timeouts a large document is saved whole.
* `SentIsSaved` holds only until the first restart (as `FirstRunKeepsFiles`, which is proved but
  has no run of its own: `SentIsSaved` fails too when a file is written twice). The counter starts at 1 in each
  process (`PdfService.cs:17`) and the file is created anew (`:24`), so the next
  process overwrites the files of the one before.
* `NothingIsDropped` excepts the end of the process: sub-messages are completed
  before the document is saved (`AzureQueueClient.cs:54`), so a stop in between loses
  what was completed.
* `JumpOnlyAfterFirstPage`: a document can have a jump behind its first page, and where a
  rejected file had the missing number: `NameRule` sees every file, also one that
  `ProcessFiles` then moves to the error folder. The same file can end a document
  between two pages that do follow each other, which `SplitsOnlyAtJump` excepts.
* `Assembles`: across stops, crashes and restarts the agent has left every page but the last
  one behind (in the processing or the success folder) before it goes on, sends a document only
  when all its pages are away, and never brings one back. So a stop can make it scan at
  most one page of the lost document again. It holds when no other program opens
  the files: `MoveFile` gives up silently on one in use (`DirectoryService.cs:26`).
* `SuccessIsSent` says what the success folder means: its pages are pages of sent documents, or an
  ended process had left them in the processing folder (`left`). For the next match moves what it
  finds there (`FileProcessor.cs:69`), though nobody sent the document that was open when the
  agent stopped. Files in use that stay behind, and moves that throw, do not break it: they only
  make the success folder lag behind.
* `WaitingIsWorkedOff` excepts a file that is in use at that moment and a start that fails: one
  unreadable image, or a program that opens a file at the wrong moment, ends the agent.
* `TimerFollowsService`: a started service reports, except while `UpdateTimer` has the timer
  off and after an interval the timer refused, which it is not restarted from until a better
  command comes. Its other half shows the price: a `Stop` during `UpdateTimer`, or a
  command after it, leaves the timer of a stopped service on.
* `NoStepBack`: competing for commands does not bring old settings back; a command that another
  process left uncompleted does, because it comes again behind a newer one.
* `SettledIsReported`: a report serialized while `UpdateTimer` is half done mixes old and new
  settings, but it is followed by a right one. `CommandIsTaken`: as long as an agent runs, a command
  in the subscription gets to one of them or to the dead-letter queue, whoever dies with it in hand.
* `HeardIsContiguous` and `WholeBroadcast` rest on the version check of the
  enumerator: who comes or goes during a broadcast makes it fail, and the failing sender
  is disconnected. So nobody hears a gap, but a sender can lose its connection because
  somebody else came.
* `ClosedIsUnlisted` holds until the listener fails. Then `Disconnect` closes clients that stay in the
  list (`Server.cs:83-86`), and who writes to one of them fails and is disconnected too.
  `ExitClosesAll`: although such threads take entries out of the list under the enumerator of
  `Disconnect`, it passes over nobody; it fails and, the second time, ends the process.
  All four hold only without a data race on the `List`.
* `CancellableWhileRunning`, `OnlyCancelFailsWait` and `FinishedLeavesList` hold for addresses
  added once; with equal names a Cancel button can remove another's button. A waiting click fails when
  the button of a canceled download is gone, which can be long after a Cancel in good time
  (`CancelNoticed`) or after one nobody looked at (`CancelIgnored`). `FinishedLeavesList` excepts only
  a failure of the very click that waits: a click that fails at an invalid text or at a missing label,
  while the downloads of an earlier one run, changes nothing for those.
* `CanceledMakesNoFile` is about a Cancel before the page came; a later one leaves the file
  (`CancelIgnored`).

Disagreements with the tasks, each a run that TLC finds violated:

* `Transfer_plain_queue`: the central service that starts first creates the queue
  without sessions (`CreateQueue(queueName)` instead of `CreateQueue(q)`) and fails
  to accept a session on it.
* `Transfer_truncated`: a slow agent makes `Receive` return early, and the beginning of a
  document is saved as a document.
* `Assembly_stale_number`: after a page timeout `NameRule` has not seen the page and
  compares the next one with an old number: 1, timeout, 5, 2 gives the document 5, 2.
* `Assembly_separator`: a sheet with the separating barcode is removed by `BarcodeRule`
  and then added as a page because its name fits; the exception ends the agent.
* `Status_all_agents`: all agents open the same subscription (`AzureSubscriptionClient.cs:12`), so each
  command reaches one of them, while `Message Queues/README.md:48` sends commands to all services.
  TLC finds two started services of which one never gets the new settings, without any fault.

In the models but without a run of their own: a document that fits into one message
is refused by the queue with sessions and the agent dies (`SendSmall`); an image that
cannot be decoded ends the agent, at each start again while it is in the folder
(`RuleThrows`); the page timeout is only noticed by the next file, so the last document
stays open (`TimerMatches`); a file that appears while waiting files are processed, or
is busy during three attempts, is not seen until the next start (`CreateFile`,
`GiveUpFile`).

The settings an
agent received are gone when its process ends (`Exit`), and no rule ever uses them:
`TimerRule` and `BarcodeRule` keep the values they were constructed with, and the
"page timeout" of a report is really the interval of the status timer
(`ScanProcessService.cs:28`, `StatusService.cs:43`). `azureQueueClient.OnStart` receives documents
and does not return, so the timer behind it (`AzureServiceBusClient.cs:36`) that would ask the agents
for reports never starts. A slow editor ends the central service (`OpenFails`).

A client that goes without "END" makes the server broadcast empty messages until a write fails
(`GetMessage` returns nothing at once, again and again). There is no history and no notice of
the server's end, which `Multithreading/README.md:25-27` asks for.

A text that is no address blocks every later click on Download, as the list keeps it
(`download1_Click`), and the downloads started before it in the same click have nobody who
waits for them. A second click leaves a button without a download when it fails at a label
(`NewButtons`). A Cancel that comes after the page leaves the file and makes the waiting loop
fail when its button is gone (`CancelIgnored`).

Every property of a passing run has a mutant of the model (a plausible bug of the mapped
code, defined next to the action it changes) under which TLC finds it violated.

## 5. What is proved

For any agents, documents, clients, sizes, faults and numbers of starts, assuming only the
named assumption each module makes of its constants:

| theorem | property |
|---|---|
| `DocumentTransferProofs` | under `TransferAssumption` (positive sizes, an initial queue that does not exist or requires sessions) |
| `TypeCorrect` | `TypeOK` |
| `TransferCorrect` | `TransferInv`, the inductive invariant |
| `FilesAreStretches` | `FilesAreSegments` |
| `BytesAreSavedOnce` | `NoByteSavedTwice` |
| `CountedIsComplete` | `CountedIsWhole` |
| `WaitIsForMore` | `WaitsForMore` |
| `TakenIsKept` | `NothingIsDropped` (an action property) |
| `FirstRunIsKept` | `FirstRunKeepsFiles`, which no run checks |
| `NobodyMissesQueue` | `QueueIsThere` |
| `NumberIsThere` | `ReceivedHasNumber` |
| `DocumentDelivery` | under the sizes being natural numbers |
| `DeliveryKeepsApart` | `SavedApart` of the abstract specification |
| `DocumentDeliveryProofs` | under `TransferAssumption` |
| `TransferDelivers` | `Delivers`, the refinement of `DocumentDelivery` |
| `BytesStayApart` | `BytesAreApart` |
| `ScanAssemblyProofs` | under `AssemblyAssumption` |
| `TypeCorrect` | `TypeOK` |
| `AssemblyCorrect` | `AssemblyInv`, the inductive invariant |
| `PagesAreSentOnce` | `NoPageTwice`, when no other program opens files |
| `SuccessFolderIsSent` | `SuccessIsSent` |
| `JumpsAreBehindFirstPage` | `JumpOnlyAfterFirstPage` |
| `SplitsAreAtJumps` | `SplitsOnlyAtJump` (an action property) |
| `AgentAssembles` | `Assembles`, the refinement of `PageSeries`, when no other program opens files |
| `StatusControlProofs` | under `StatusAssumption` |
| `TypeCorrect` | `TypeOK` |
| `StatusCorrect` | `StatusInv`, the inductive invariant |
| `TimerIsRight` | `TimerFollowsService` |
| `StepsBackAreRedelivered` | `NoStepBack` (an action property) |
| `ChatServerProofs` | under `ChatAssumption` |
| `TypeCorrect` | `TypeOK` |
| `ChatCorrect` | `ChatInv`, the inductive invariant |
| `ConversationsAreContiguous` | `HeardIsContiguous` |
| `ClosedLeavesList` | `ClosedIsUnlisted` |
| `ExitLeavesNobody` | `ExitClosesAll` (an action property) |
| `BroadcastIsWhole` | `WholeBroadcast` (an action property) |
| `DownloadFormProofs` | under `FormAssumption` |
| `TypeCorrect` | `TypeOK` |
| `FormCorrect` | `FormInv`, the inductive invariant |
| `StartsAreAdded` | `StartedOncePerAdd` |
| `CanceledLeavesNoFile` | `CanceledMakesNoFile` |
| `RunningIsCancellable` | `CancellableWhileRunning` |
| `WaitsFailByCancel` | `OnlyCancelFailsWait` (an action property) |

Transfer. None of the properties is inductive: a file is written from the stream, so one must
know what the stream is; the stream is what was received of the session, so one must
know what is in the queue; the queue is what the agents cut, so one must know where an
agent is. `TransferInv` says it in that order. `SenderInv`: a document has one sender.
`LogInv`: the log of a large document is the beginning of the sequence of its
sub-messages, the i-th at offset (i - 1) * `MaxMessageSize`, and its agent goes on at the
end of the log. `StreamInv`: the stream is the stretch of the log that ends with the
message at hand. `DiskInv`: what is in files lies before the stretch in the stream.
`QueueInv`: small documents lie only in a queue without sessions. Each part has its own step
lemma. `LogFacts` is where the arithmetic of `SplitAndSend`
enters (each array but the last is full, so messages touch; offsets differ, so bodies
do), and `FullLog` with `RoundedUp` shows that as many messages as announced are exactly
the document. That last fact is why a `Receive` in the middle of a session never ends by
its count: there are not enough messages left.

`WaitIsForMore` is the converse. `EndsOfLog`: of the messages of a log only the first begins
at byte 0 of its document and only the last one announced ends where the document ends. A
stream that is whole therefore has them all, while `StreamInv` says that a `Receive` that waits
has not received as many as it was told.

The refinement. `SentBytes`, `TakenBytes` and `SavedStretches` map a state of the transfer to one
of `DocumentDelivery`. They go by offsets while the transfer goes by messages; `EndsInv`, which
follows from `LogInv`, is the bridge: the messages of a log lie one behind the other in the
document, so a longer log ends later (`EndsGrow`). `Stretches` shows that a file lies between two
completed messages, in front of what the stream holds, and `StretchesDiffer` that two
files are two stretches, without which a file could disappear from the abstract set behind
another's back. Then each step has a lemma: a message appended is `Send` (`AppendSends`), one
completed is `Take` (`CompleteDelivers`), the stream or a beginning of it written is `Save`
(`WriteDelivers`), a file opened is `Overwrite` or nothing (`OpenDelivers`); all others change
nothing. `DeliveryKeepsApart` is proved of the abstract specification alone, where it is short,
and `BytesStayApart` is its instance for the transfer.

Assembly. `ControlInv` ties `step` to the open document; `SuccessInv` follows a page into the
success folder, and what was left behind by an ended process; `NumberInv` says what `NameRule`'s number still knows of the open
document: its last page, or a rejected file behind it. `PlaceInv` says where the pages are:
handled files have left the watched folder except for the one just added, so no page is
added a second time. It needs that `MoveFile` succeeds, hence the premise of
`PagesAreSentOnce` and of `AgentAssembles`; the other theorems have no such premise.

Its refinement maps `spent` to the files that have left the watched folder (`SpentFiles`) and
`open` to `pages`. `FilesMoveOn` gives the order in which a file goes through the folders, so the
spent files only grow (`SpentGrows`); `DocumentSteps` says which actions touch the open
document at all. `PlaceInv` puts every stored page into the processing or the success folder, and
outside `StorePage` all pages are stored (`PagesAreSpent`): that is what `Add` and `Send` of
`PageSeries` ask for. Every other step puts files away, loses the open document, or both.

Status. The commands of the subscription keep the order of their versions and those that
were delivered once are before the others (`TopicInv`), so that a first delivery is never
older than what any agent has (`NewerComes`): only a repeated delivery can step back.
`PumpInv` carries what the handler has checked from one of its statements to the next.

Chat. `ListInv`: without a race the entries are the clients between `AddConnection` and
`Remove`, each once. `CursorInv`: an enumerator that is not stale points behind the client in
hand. `HearingInv`: a connected client has heard the sender up to the batch before the current
one, or including it when the enumerator has passed it. A change of the list makes every
enumerator stale (`Bump`), which is why a broadcast never skips anybody and goes on.
`DisconnectInv`: as long as the enumerator of the first `Disconnect` has not failed, exactly the listed
clients before it are closed; in the second at least those. `ThreadInv` ties a closed connection to
the end of its thread only while the listener accepts, as `Disconnect` closes the others'.

Downloads. `StartedInv`: a download starts by taking a label away, so downloads and labels
left of an address are as many as it was added; `EnoughLabels` shows that a click which goes
through the list in one turn never takes more labels than there are. `ButtonInv` and
`PressedInv` tie a button and a token to their download; `OwnButtonInv` says that the button
of a download with a unique name is removed by its own end or its own click only, although
buttons are found by name.

Only model-checked: the liveness properties `QueueDrains`, `SentIsSaved`,
`WaitingIsWorkedOff`, `SettledIsReported`, `CommandIsTaken` and `FinishedLeavesList`
(fairness is beyond the prover).

## 6. Not modelled

In the modelled components: duplicates made by retries of the client library, the status
queue itself (reports go one by one and a lost one is followed by the next), a file name the
device uses again (`MoveOrUpdate` replacing a file), the `Renamed` events nobody subscribes
to, folder creation, and the code behind `azureQueueClient.OnStart`, which is never reached.

The composition of the components would add little: a document leaves the agent by
one call that `DocumentTransfer` begins with (`BeginSplit`), an exception in it ends the
process as `ProcessEnds` does, and settings that arrive have no effect on the rules.

The local scanner service and the services with aspects are copies of the agent whose
assembly is the same; the first saves `scan_<n>.pdf` itself, with the counter that starts at 1
in every process. The expression transformers, the mapper and the query translator are pure
functions over expression trees with no state, order or failure. The power management allocates,
calls and releases within a method. The host programs, the phrase tables, the key generator, and
the XML and web samples only pass values to libraries. See `PROJECT.json`.
