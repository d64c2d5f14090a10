---------------------------- MODULE ScanAssembly ----------------------------
(***************************************************************************)
(* A scanner agent of "Message Queues": it watches a folder for scanned    *)
(* images, applies the interrupt rules (page timeout, barcode, number in   *)
(* the file name) to every file and collects the pages of a document until *)
(* a rule matches; the finished document goes to the queue client.         *)
(*                                                                         *)
(* A file stands for its name.  Folders are the values of location.  The   *)
(* callbacks of one FileSystemWatcher are serialized, so the agent has one *)
(* thread of control; the scanning device, other programs that open files  *)
(* and the operator run beside it.                                         *)
(***************************************************************************)
EXTENDS Integers, Sequences, FiniteSets

CONSTANTS
    Files,       \* the files that appear in the watched folder
    Number,      \* Number[f]: the first digits of the name, or NoNumber
    Named,       \* the files whose path matches FileNamePattern
    Code,        \* Code[f]: what the barcode reader finds in the image
    NoFile,      \* the absence of a file
    Conditions,  \* what the surroundings do, a subset of ConditionKinds
    MaxStarts    \* bound: how often the operator starts the agent

ConditionKinds ==
    {"timeout",   \* pages may be further apart than the page timeout
     "inUse",     \* other programs may open files of the two folders
     "overflow",  \* the buffer of the watcher may overflow
     "stop"}      \* the agent may be stopped or die

\* The name has no digits, or more than an int holds: int.Parse throws.
NoNumber == -1

ASSUME AssemblyAssumption ==
    /\ Number \in [Files -> Nat \cup {NoNumber}]
    /\ Named \subseteq {f \in Files : Number[f] # NoNumber}
    /\ Code \in [Files -> {"none", "separator", "other", "unreadable"}]
    /\ NoFile \notin Files
    /\ Conditions \subseteq ConditionKinds
    /\ MaxStarts \in Nat

VARIABLES
    location,  \* where each file is: "none" before it was scanned
    writing,   \* the files the device is still writing: nobody else can open them
    reading,   \* the files other programs read: they cannot be opened exclusively
    mode,      \* "down", "start" (ProcessWaitingFiles) or "watch"
    step,      \* control inside HandleFile and ProcessFiles
    current,   \* the file ProcessFiles works on
    todo,      \* the files ProcessWaitingFiles has still to process
    events,    \* the Created events the watcher has not delivered yet
    armed,     \* TimerRule: _lastUploadFileTime is set
    number,    \* NameRule: _curentFileNumber
    pages,     \* PdfFileService: the pages of the open document
    sent,      \* the documents handed to the queue client, in order
    starts,    \* how often the agent was started
    left       \* history: the files an ended process left in the processing folder

users   == <<writing, reading>>
folders == <<location, users>>
rules   == <<armed, number>>
control == <<mode, step, current, todo>>
runs    == <<starts, left>>
vars    == <<folders, control, events, rules, pages, sent, runs>>

Has(condition) == condition \in Conditions

\* TryOpen asks for the file without sharing it.
Free(f) == f \notin writing \cup reading

InFolder(folder) == {f \in Files : location[f] = folder}

Init ==
    /\ location \in [Files -> {"none", "watch"}]
    /\ writing = {} /\ reading = {}
    /\ mode = "down" /\ step = "next" /\ current = NoFile
    /\ todo = {}
    /\ events = <<>>
    /\ armed = FALSE /\ number = 0
    /\ pages = <<>>
    /\ sent = <<>>
    /\ starts = 0 /\ left = {}

----------------------------------------------------------------------------
(* The surroundings *)

\* The device creates a file and keeps it open while it writes the image.
CreateFile(f) ==
    /\ location[f] = "none"
    /\ location' = [location EXCEPT ![f] = "watch"]
    /\ writing' = writing \cup {f}
    /\ events' = IF mode = "watch" THEN Append(events, f) ELSE events
    /\ UNCHANGED <<reading, control, rules, pages, sent, runs>>

FinishFile(f) ==
    /\ f \in writing
    /\ writing' = writing \ {f}
    /\ UNCHANGED <<location, reading, control, events, rules, pages, sent, runs>>

\* A viewer, an indexer or a virus scanner opens a file for reading, in the
\* watched folder or where it waits for the end of its document, and closes it.
OpenFile(f) ==
    /\ Has("inUse")
    /\ location[f] \in {"watch", "processing"}
    /\ Free(f)
    /\ reading' = reading \cup {f}
    /\ UNCHANGED <<location, writing, control, events, rules, pages, sent, runs>>

CloseFile(f) ==
    /\ f \in reading
    /\ reading' = reading \ {f}
    /\ UNCHANGED <<location, writing, control, events, rules, pages, sent, runs>>

\* The events that were not delivered yet are gone; nobody handles Error.
EventsOverflow ==
    /\ Has("overflow")
    /\ events # <<>>
    /\ events' = <<>>
    /\ UNCHANGED <<folders, control, rules, pages, sent, runs>>

----------------------------------------------------------------------------
(* Start and end of the process *)

\* Nothing of what the process had in memory survives.
ProcessEnds ==
    /\ mode' = "down" /\ step' = "next" /\ current' = NoFile
    /\ todo' = {}
    /\ events' = <<>>
    /\ armed' = FALSE /\ number' = 0
    /\ pages' = <<>>

\* Start: ProcessWaitingFiles lists the watched folder once.
StartAgent ==
    /\ mode = "down"
    /\ starts < MaxStarts
    /\ starts' = starts + 1
    /\ left' = left \cup InFolder("processing")
    /\ mode' = "start"
    /\ todo' = InFolder("watch")
    /\ UNCHANGED <<folders, step, current, events, rules, pages, sent>>

\* The files MoveFile can take out of the processing folder: those it can open.
Movable == {f \in InFolder("processing") : Free(f)}

MovedToSuccess(moved) ==
    [f \in Files |-> IF f \in moved THEN "success" ELSE location[f]]

\* Stop only switches the watcher off; the process exits, whatever the handler
\* is doing.  A crash looks the same from outside.
StopAgent ==
    /\ Has("stop")
    /\ mode # "down"
    /\ ProcessEnds
    /\ \/ /\ step = "move"
          /\ \E moved \in SUBSET Movable : location' = MovedToSuccess(moved)
       \/ /\ step # "move"
          /\ UNCHANGED location
    /\ UNCHANGED <<users, sent, runs>>

----------------------------------------------------------------------------
(* From file to file *)

\* ProcessWaitingFiles takes the files in the order the folder lists them.
NextWaitingFile(f) ==
    /\ mode = "start" /\ step = "next"
    /\ f \in todo
    /\ todo' = todo \ {f}
    /\ current' = f
    /\ step' = "rules"
    /\ UNCHANGED <<folders, mode, events, rules, pages, sent, runs>>

\* InitializeWatcher: from now on created files raise events.
EnableWatcher ==
    /\ mode = "start" /\ step = "next"
    /\ todo = {}
    /\ mode' = "watch"
    /\ UNCHANGED <<folders, step, current, todo, events, rules, pages, sent, runs>>

\* HandleFile: TryOpen succeeds at once or at its second or third attempt.
HandleFile ==
    /\ mode = "watch" /\ step = "next"
    /\ events # <<>>
    /\ Free(Head(events))
    /\ current' = Head(events)
    /\ events' = Tail(events)
    /\ step' = "rules"
    /\ UNCHANGED <<folders, mode, todo, rules, pages, sent, runs>>

\* TryOpen fails three times: HandleFile returns without a word.
GiveUpFile ==
    /\ mode = "watch" /\ step = "next"
    /\ events # <<>>
    /\ ~Free(Head(events))
    /\ events' = Tail(events)
    /\ UNCHANGED <<folders, control, rules, pages, sent, runs>>

----------------------------------------------------------------------------
(* The rules, in the order TimerRule, BarcodeRule, NameRule; a match ends    *)
(* the loop.  TimerRule is left out while waiting files are processed.      *)

AtRules == step = "rules"

TimerMatches ==
    /\ AtRules
    /\ mode = "watch" /\ armed
    /\ Has("timeout")
    /\ step' = "save"
    /\ UNCHANGED <<folders, mode, current, todo, events, rules, pages, sent, runs>>

Arm == armed' = (armed \/ mode = "watch")

\* Image.FromFile or int.Parse throws, and nobody catches it.
RuleThrows ==
    /\ AtRules
    /\ \/ Code[current] = "unreadable"
       \/ current \in writing
       \/ Code[current] # "separator" /\ Number[current] = NoNumber
    /\ ProcessEnds
    /\ location' = IF Code[current] = "other" /\ Free(current)
                   THEN [location EXCEPT ![current] = "deleted"] ELSE location
    /\ UNCHANGED <<users, sent, runs>>

\* Any barcode makes BarcodeRule remove the file, if it can be opened.
RemoveCoded ==
    location' = IF Code[current] \in {"separator", "other"} /\ Free(current)
                THEN [location EXCEPT ![current] = "deleted"] ELSE location

BarcodeMatches ==
    /\ AtRules
    /\ Code[current] = "separator"
    /\ current \notin writing
    /\ RemoveCoded
    /\ Arm
    /\ step' = "save"
    /\ UNCHANGED <<users, mode, current, todo, events, number, pages, sent, runs>>

\* Mutant of NumberJumps: only a number that goes back ends the document.
NumberGoesBack == number > 0 /\ Number[current] <= number

NumberJumps == number > 0 /\ Number[current] # number + 1

\* Mutant of NameRule: the number of the first file is kept.
NameRuleKeepsNumber ==
    /\ AtRules
    /\ Code[current] \in {"none", "other"}
    /\ current \notin writing
    /\ Number[current] # NoNumber
    /\ RemoveCoded
    /\ Arm
    /\ number' = IF number = 0 THEN Number[current] ELSE number
    /\ UNCHANGED <<users, mode, current, todo, events, pages, sent, runs>>

\* Mutant of NameRule: a name without digits is read as some default number.
NameRuleWithDefault ==
    /\ AtRules
    /\ Code[current] \in {"none", "other"}
    /\ current \notin writing
    /\ RemoveCoded
    /\ Arm
    /\ number' = Number[current]
    /\ UNCHANGED <<users, mode, current, todo, events, pages, sent, runs>>

NameRule ==
    /\ AtRules
    /\ Code[current] \in {"none", "other"}
    /\ current \notin writing
    /\ Number[current] # NoNumber
    /\ RemoveCoded
    /\ Arm
    /\ number' = Number[current]
    /\ UNCHANGED <<users, mode, current, todo, events, pages, sent, runs>>

NameMatches ==
    /\ NameRule
    /\ NumberJumps
    /\ step' = "save"

NoRuleMatches ==
    /\ NameRule
    /\ ~NumberJumps
    /\ step' = "page"

----------------------------------------------------------------------------
(* What ProcessFiles does about the match and the file *)

\* Mutant of SaveDocument: the document stays open (_isFileCreated stays true).
SaveKeepsDocument ==
    /\ step = "save"
    /\ sent' = IF pages = <<>> THEN sent ELSE Append(sent, pages)
    /\ step' = "move"
    /\ UNCHANGED <<folders, mode, current, todo, events, rules, pages, runs>>

\* SaveDocument: nothing unless a document is open.
SaveDocument ==
    /\ step = "save"
    /\ sent' = IF pages = <<>> THEN sent ELSE Append(sent, pages)
    /\ pages' = <<>>
    /\ step' = "move"
    /\ UNCHANGED <<folders, mode, current, todo, events, rules, runs>>

\* What MoveFile can open in the processing folder goes to the success folder;
\* a file in use stays there until a rule matches again.
MoveProcessed ==
    /\ step = "move"
    /\ location' = MovedToSuccess(Movable)
    /\ step' = "page"
    /\ UNCHANGED <<users, mode, current, todo, events, rules, pages, sent, runs>>

AddPage ==
    /\ step = "page"
    /\ current \in Named
    /\ location[current] # "deleted"
    /\ Code[current] # "unreadable"
    /\ pages' = Append(pages, current)
    /\ step' = "store"
    /\ UNCHANGED <<folders, mode, current, todo, events, rules, sent, runs>>

\* XImage.FromFile does not find the file BarcodeRule removed, or cannot read
\* it (after TimerMatches it is the first to look at the image).
AddPageThrows ==
    /\ step = "page"
    /\ current \in Named
    /\ location[current] = "deleted" \/ Code[current] = "unreadable"
    /\ ProcessEnds
    /\ UNCHANGED <<folders, sent, runs>>

\* MoveFile gives up silently when the file cannot be opened.
MoveCurrent(folder) ==
    /\ location' = IF Free(current) /\ location[current] # "deleted"
                   THEN [location EXCEPT ![current] = folder] ELSE location
    /\ step' = "next" /\ current' = NoFile
    /\ UNCHANGED <<users, mode, todo, events, rules, pages, sent, runs>>

\* Mutant of StorePage: the wrong one of the three folders.
StoreInSuccess ==
    /\ step = "store"
    /\ MoveCurrent("success")

\* Mutant of StorePage: the page is not moved.
StoreForgotten ==
    /\ step = "store"
    /\ step' = "next" /\ current' = NoFile
    /\ UNCHANGED <<folders, mode, todo, events, rules, pages, sent, runs>>

StorePage ==
    /\ step = "store"
    /\ MoveCurrent("processing")

RejectFile ==
    /\ step = "page"
    /\ current \notin Named
    /\ MoveCurrent("error")

\* The agent is about to delete or to move f.
AboutToTake(f) ==
    \/ AtRules /\ f = current /\ Code[f] \in {"separator", "other"}
    \/ step = "page" /\ f = current /\ f \notin Named /\ location[f] # "deleted"
    \/ step = "store" /\ f = current /\ location[f] # "deleted"
    \/ step = "move" /\ location[f] = "processing"

\* TryOpen closes the file again before File.Delete or File.Move: a program
\* that opens it in between makes them throw, and nobody catches it.  Of the
\* files in the processing folder some may have been moved before.
OpenedInBetween(f) ==
    /\ Has("inUse")
    /\ AboutToTake(f) /\ Free(f)
    /\ reading' = reading \cup {f}
    /\ IF step = "move"
       THEN \E moved \in SUBSET (Movable \ {f}) : location' = MovedToSuccess(moved)
       ELSE UNCHANGED location
    /\ ProcessEnds
    /\ UNCHANGED <<writing, sent, runs>>

----------------------------------------------------------------------------

Device == \E f \in Files : CreateFile(f) \/ FinishFile(f)

Others == \E f \in Files : OpenFile(f) \/ CloseFile(f)

ProcessFile ==
    \/ TimerMatches
    \/ RuleThrows
    \/ BarcodeMatches
    \/ NameMatches
    \/ NoRuleMatches
    \/ SaveDocument
    \/ MoveProcessed
    \/ AddPage
    \/ AddPageThrows
    \/ StorePage
    \/ RejectFile
    \/ \E f \in Files : OpenedInBetween(f)

Agent ==
    \/ \E f \in Files : NextWaitingFile(f)
    \/ EnableWatcher
    \/ HandleFile
    \/ GiveUpFile
    \/ ProcessFile

Next == Device \/ Others \/ EventsOverflow \/ StartAgent \/ StopAgent \/ Agent

Spec == Init /\ [][Next]_vars

\* The agent's thread runs, the operator starts it while MaxStarts allows, the
\* device finishes its files and whoever reads a file closes it.
Fairness ==
    /\ WF_vars(Agent)
    /\ WF_vars(StartAgent)
    /\ \A f \in Files : WF_vars(FinishFile(f)) /\ WF_vars(CloseFile(f))

FairSpec == Spec /\ Fairness

----------------------------------------------------------------------------
(* Types *)

Folders == {"none", "watch", "processing", "success", "error", "deleted"}

TypeOK ==
    /\ location \in [Files -> Folders]
    /\ writing \subseteq Files
    /\ reading \subseteq Files
    /\ mode \in {"down", "start", "watch"}
    /\ step \in {"next", "rules", "save", "move", "page", "store"}
    /\ current \in Files \cup {NoFile}
    /\ step # "next" => current \in Files /\ mode # "down"
    /\ todo \subseteq Files
    /\ events \in Seq(Files)
    /\ armed \in BOOLEAN
    /\ number \in Nat
    /\ pages \in Seq(Files)
    /\ sent \in Seq(Seq(Files))
    /\ starts \in 0..MaxStarts
    /\ left \subseteq Files

----------------------------------------------------------------------------
(* What makes the assembly correct *)

Listed(f, s) == \E i \in DOMAIN s : s[i] = f

\* All documents in order, the open one last.
Assembled == Append(sent, pages)

\* No page is in two documents and none twice in one, across crashes and
\* restarts too: a page enters a document once more only when the document it
\* was in is lost with the process.  (Needs: no other program opens files.)
NoPageTwice ==
    \A k, l \in DOMAIN Assembled :
        \A i \in DOMAIN Assembled[k], j \in DOMAIN Assembled[l] :
            <<k, i>> # <<l, j>> => Assembled[k][i] # Assembled[l][j]

Sent(f) == \E k \in DOMAIN sent : Listed(f, sent[k])

\* A page in the success folder is a page of a document that was sent, unless a
\* process that ended had left it in the processing folder with its document
\* open: the next match moves what it finds there.  Files in use that stay
\* behind, an exception between two moves and restarts do not change that.
SuccessIsSent ==
    \A f \in InFolder("success") : Sent(f) \/ f \in left

LastPage == pages[Len(pages)]

\* NameRule has seen n as the number of a file that is not a page's and was
\* not added: the numbering goes on from there.
Skipped(n) == n # NoNumber /\ \E f \in Files \ Named : location[f] # "none" /\ Number[f] = n

Follows(f, g) ==
    Number[f] > 0 =>
        Number[g] = Number[f] + 1 \/ Skipped(0) \/ Skipped(Number[g] - 1)

\* The pages of a document are numbered without a jump, except after the first
\* one (a rule before NameRule may have begun the document with a file NameRule
\* never saw) and where a file that is not a page fills the gap.  0 stands for
\* "no file yet" in NameRule, also when it is the number of a file.
JumpOnlyAfterFirstPage ==
    \A k \in DOMAIN Assembled : \A i \in 2..(Len(Assembled[k]) - 1) :
        Follows(Assembled[k][i], Assembled[k][i + 1])

\* NameRule ends a document of several pages only where the numbering jumps, or
\* where the last file it saw was not a page (NameRule.cs:19-22, FileProcessor.cs:35-42).
SplitsOnlyAtJump ==
    [][NameMatches /\ Len(pages) > 1 =>
         \/ Number[current] # Number[LastPage] + 1
         \/ Skipped(number)]_vars

\* What the handler of a file keeps: the open document is empty after it was
\* saved and ends with the file after that was added.
ControlInv ==
    /\ mode # "watch" => events = <<>>
    /\ mode # "start" => todo = {}
    /\ mode = "down" \/ step = "move" => pages = <<>>
    /\ step = "store" => pages # <<>> /\ LastPage = current
    /\ step # "next" => location[current] # "none"
    /\ \A f \in todo : location[f] # "none"
    /\ \A i \in DOMAIN events : location[events[i]] # "none"

\* The processing folder holds pages of the open document and of those that
\* were sent, beside what earlier processes left there.
SuccessInv ==
    /\ SuccessIsSent
    /\ mode # "down" =>
           \A f \in InFolder("processing") : Sent(f) \/ Listed(f, pages) \/ f \in left

\* NameRule compares with the last page, or with a file that is not a page.
NumberInv ==
    /\ JumpOnlyAfterFirstPage
    /\ Len(pages) > 1 /\ step \in {"next", "rules", "store"} =>
           number = Number[LastPage] \/ Skipped(number)
    /\ Len(pages) > 0 /\ step = "page" => number = Number[current]
    /\ Len(pages) > 1 /\ step = "page" => Follows(LastPage, current)

\* The rest of the invariant is about files that no other program opens.  The
\* file the handler works on can be moved, and is not reported again.
HandledInv ==
    /\ reading = {}
    /\ step # "next" =>
           /\ mode = "watch" \/ step # "rules" => current \notin writing
           /\ location[current] \in {"watch", "deleted"}
           /\ current \notin todo
           /\ \A i \in DOMAIN events : events[i] # current
    /\ step = "store" => location[current] = "watch"

\* What is waiting is still there, and no file is reported twice.
WaitingInv ==
    /\ \A f \in todo : location[f] = "watch"
    /\ \A i, j \in DOMAIN events :
           location[events[i]] = "watch" /\ (i # j => events[i] # events[j])

Stored(f) == location[f] \in {"processing", "success"}

\* Pages have left the watched folder, but for the one just added.
StoredInv ==
    /\ \A k \in DOMAIN sent : \A i \in DOMAIN sent[k] : Stored(sent[k][i])
    /\ \A i \in DOMAIN pages : Stored(pages[i]) \/ (step = "store" /\ i = Len(pages))

PlaceInv == NoPageTwice /\ HandledInv /\ WaitingInv /\ StoredInv

\* The inductive invariant behind the properties above
\* (FileProcessor.cs:30-78, ScanProcessService.cs:81-92, NameRule.cs:17-24).
AssemblyInv == ControlInv /\ SuccessInv /\ NumberInv /\ (Has("inUse") \/ PlaceInv)

\* What was waiting in the folder when the agent started leaves the folder,
\* unless the agent finds it in use, or the start fails.
WaitingIsWorkedOff ==
    \A f \in Files :
        (mode = "start" /\ f \in todo) ~>
            \/ location[f] # "watch"
            \/ mode = "down"
            \/ current = f /\ ~Free(f)

----------------------------------------------------------------------------
(* The agent implements the series of pages *)

\* The files that are neither still to come nor in the watched folder.
SpentFiles == {f \in Files : location[f] \notin {"none", "watch"}}

P == INSTANCE PageSeries WITH Pages <- Named, spent <- SpentFiles, open <- pages

\* Across stops, crashes and restarts the agent keeps to PageSeries: it puts each page
\* away before the next one, sends a document only when all its pages are away, and
\* never takes one back.  What can be scanned again is at most the last page of
\* a lost document.  (Needs: no other program opens files; FileProcessor.cs:37-75.)
Assembles == P!Series

----------------------------------------------------------------------------
(* What the tasks ask for and the code does not do *)

\* Windows services/README.md:34, a jump of the numbering ends a document: no
\* document has one inside.
DocumentsAreConsecutive ==
    \A k \in DOMAIN Assembled : \A i \in 1..(Len(Assembled[k]) - 1) :
        Number[Assembled[k][i]] > 0 =>
            Number[Assembled[k][i + 1]] = Number[Assembled[k][i]] + 1

\* Windows services/README.md:36, a barcode separates two documents: a sheet
\* with it does not end an agent that watches the folder.
KeepsWatching == [][mode = "watch" => mode' # "down"]_vars
=============================================================================
