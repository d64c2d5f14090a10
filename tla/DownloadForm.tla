---------------------------- MODULE DownloadForm ----------------------------
(***************************************************************************)
(* The download manager of "AsyncAwait": a form with a list of addresses,  *)
(* a label for each address that was added and a cancel button for each    *)
(* download that was started.  A click on Download starts one for every    *)
(* address of the list and removes buttons and addresses as they end.      *)
(*                                                                         *)
(* Everything runs on the UI thread.  A turn of that thread goes on until  *)
(* the handler or continuation awaits something unfinished; continuations  *)
(* of awaits in the form run in the turn that ends what they wait for,     *)
(* also when a Cancel button ends it.  An action is one turn.              *)
(*                                                                         *)
(* Labels and buttons are found by their name, which is the address.       *)
(***************************************************************************)
EXTENDS Integers, Sequences, FiniteSets, SequencesExt

CONSTANTS
    Addresses,  \* what the user types
    Invalid,    \* those of which new Uri makes an exception
    MaxAdded,   \* bound: how often the user adds each address
    MaxClicks   \* bound: how often the user clicks Download

ASSUME FormAssumption ==
    /\ Invalid \subseteq Addresses
    /\ MaxAdded \in [Addresses -> Nat]
    /\ MaxClicks \in Nat

VARIABLES
    list,     \* _uriStringsList
    labels,   \* how many labels with each name flowLayoutPanel2 has
    buttons,  \* the buttons of flowLayoutPanel1, in order
    jobs,     \* the calls of DownloadPageAsync, in the order of their start
    batches,  \* the clicks on Download, in order
    added     \* how often each address was added

vars == <<list, labels, buttons, jobs, batches, added>>

\* What a download waits for: the delay of five seconds, the answer to the
\* request, the rest of the page and the file; then how it ended.
Running == {"delay", "get", "file"}
Ended == {"downloaded", "canceled", "failed"}

\* canceled: its token was canceled while the download still looked at it;
\* pressed: its button was clicked.
Jobs == [name : Addresses, phase : Running \cup Ended,
         canceled : BOOLEAN, pressed : BOOLEAN]

\* The button of a download, or of none when job is 0.
Buttons == [name : Addresses, job : Nat]

\* todo: the downloads HabdleDownloadedClickAsync has still to wait for.
Batches == [todo : SUBSET Nat, state : {"waiting", "ended", "failed"}]

Init ==
    /\ list = <<>>
    /\ labels = [u \in Addresses |-> 0]
    /\ buttons = <<>>
    /\ jobs = <<>>
    /\ batches = <<>>
    /\ added = [u \in Addresses |-> 0]

----------------------------------------------------------------------------
(* The buttons Add and Download *)

addButton_Click(u) ==
    /\ added[u] < MaxAdded[u]
    /\ added' = [added EXCEPT ![u] = @ + 1]
    /\ list' = Append(list, u)
    /\ labels' = [labels EXCEPT ![u] = @ + 1]
    /\ UNCHANGED <<buttons, jobs, batches>>

\* How many of the first n addresses of the list are u.
Before(n, u) == Cardinality({k \in 1..n : list[k] = u})

\* Mutant of Ready: the label is not needed.
MutantReady(i) == list[i] \notin Invalid

\* The Select gets past the address at place i: it is a Uri, and there is a label
\* with its name left.
Ready(i) == list[i] \notin Invalid /\ Before(i, list[i]) <= labels[list[i]]

\* ToList throws at place n, or gets past the last one.
StopsAt(n) ==
    /\ \A i \in 1..n - 1 : Ready(i)
    /\ n <= Len(list) => ~Ready(n)

NewJob(u) == [name |-> u, phase |-> "delay", canceled |-> FALSE, pressed |-> FALSE]

\* The button comes before the label is looked up: without a label it is there
\* without a download.
NewButtons(stop) ==
    [k \in 1..stop - 1 |-> [name |-> list[k], job |-> Len(jobs) + k]]
        \o IF stop <= Len(list) /\ list[stop] \notin Invalid
           THEN <<[name |-> list[stop], job |-> 0]>>
           ELSE <<>>

\* An exception leaves the downloads before it running, and nobody waits for them.
download1_Click ==
    /\ Len(batches) < MaxClicks
    /\ \E stop \in 1..Len(list) + 1 :
         /\ StopsAt(stop)
         /\ jobs' = jobs \o [k \in 1..stop - 1 |-> NewJob(list[k])]
         /\ buttons' = buttons \o NewButtons(stop)
         /\ labels' = [u \in Addresses |-> labels[u] - Before(stop - 1, u)]
         /\ batches' = Append(batches,
                [todo |-> Len(jobs) + 1..Len(jobs) + stop - 1,
                 state |-> IF stop <= Len(list) THEN "failed"
                           ELSE IF list = <<>> THEN "ended" ELSE "waiting"])
    /\ UNCHANGED <<list, added>>

----------------------------------------------------------------------------
(* The end of a download, and what the loop that waits for it does then *)

Awaited(j) == \E b \in DOMAIN batches : batches[b].state = "waiting" /\ j \in batches[b].todo

HasButton(u) == \E i \in DOMAIN buttons : buttons[i].name = u

\* Controls.Find(uriString)[0] is the first button with the name, whichever
\* download it belongs to; without one the loop ends with an exception.
RemovesPanels(j) == Awaited(j) /\ HasButton(jobs[j].name)

ButtonsAfter(j) ==
    IF RemovesPanels(j)
    THEN RemoveFirstMatch(buttons, LAMBDA b : b.name = jobs[j].name)
    ELSE buttons

\* Mutant of ListAfter: only the button is removed.
MutantListAfter(j) == list

ListAfter(j) ==
    IF RemovesPanels(j) THEN RemoveFirst(list, jobs[j].name) ELSE list

BatchAfter(b, j) ==
    IF b.state # "waiting" \/ j \notin b.todo THEN b
    ELSE [todo |-> b.todo \ {j},
          state |-> IF ~HasButton(jobs[j].name) THEN "failed"
                    ELSE IF b.todo = {j} THEN "ended" ELSE "waiting"]

\* The download ends in this turn, and so does the wait for it.
Ends(j, how) ==
    /\ buttons' = ButtonsAfter(j)
    /\ list' = ListAfter(j)
    /\ batches' = [b \in DOMAIN batches |-> BatchAfter(batches[b], j)]
    /\ jobs' = [jobs EXCEPT ![j].phase = how]
    /\ UNCHANGED <<labels, added>>

----------------------------------------------------------------------------
(* DownloadPageAsync of the form and of DownloadWorker *)

Delayed(j) ==
    /\ jobs[j].phase = "delay"
    /\ jobs' = [jobs EXCEPT ![j].phase = "get"]
    /\ UNCHANGED <<list, labels, buttons, batches, added>>

\* Mutant of Answered: the token is not looked at after the answer.
MutantAnswered(j) ==
    /\ jobs[j].phase = "get"
    /\ jobs' = [jobs EXCEPT ![j].phase = "file"]
    /\ UNCHANGED <<list, labels, buttons, batches, added>>

\* The answer is there, and ThrowIfCancellationRequested does not throw.
Answered(j) ==
    /\ jobs[j].phase = "get" /\ ~jobs[j].canceled
    /\ jobs' = [jobs EXCEPT ![j].phase = "file"]
    /\ UNCHANGED <<list, labels, buttons, batches, added>>

\* GetAsync or ThrowIfCancellationRequested throws.
CancelNoticed(j) ==
    /\ jobs[j].phase = "get" /\ jobs[j].canceled
    /\ Ends(j, "canceled")

\* The request fails, or a canceled one does so first.
GetFails(j) ==
    /\ jobs[j].phase = "get"
    /\ Ends(j, "failed")

FileWritten(j) ==
    /\ jobs[j].phase = "file"
    /\ Ends(j, "downloaded")

FileFails(j) ==
    /\ jobs[j].phase = "file"
    /\ Ends(j, "failed")

----------------------------------------------------------------------------
(* The Cancel buttons *)

\* Mutant of RemovePanelsElements: the buttons are removed by their name.
MutantRemovePanelsElements(bs, b, l) ==
    /\ buttons' = SelectSeq(bs, LAMBDA c : c.name # b.name)
    /\ list' = RemoveFirst(l, b.name)

\* RemovePanelsElements of the clicked button, after ct.Cancel().
RemovePanelsElements(bs, b, l) ==
    /\ buttons' = RemoveFirst(bs, b)
    /\ list' = RemoveFirst(l, b.name)

\* The delay, or a request that gives up at once, ends inside ct.Cancel(): the
\* download and the loop run on before the handler removes the panels.
CancelEnds(b) ==
    /\ b.job > 0 /\ jobs[b.job].phase \in {"delay", "get"}
    /\ RemovePanelsElements(ButtonsAfter(b.job), b, ListAfter(b.job))
    /\ batches' = [k \in DOMAIN batches |-> BatchAfter(batches[k], b.job)]
    /\ jobs' = [jobs EXCEPT ![b.job].phase = "canceled",
                            ![b.job].canceled = TRUE, ![b.job].pressed = TRUE]
    /\ UNCHANGED <<labels, added>>

\* The request notices the canceled token in a later turn.
CancelRequested(b) ==
    /\ b.job > 0 /\ jobs[b.job].phase = "get"
    /\ RemovePanelsElements(buttons, b, list)
    /\ jobs' = [jobs EXCEPT ![b.job].canceled = TRUE, ![b.job].pressed = TRUE]
    /\ UNCHANGED <<labels, batches, added>>

\* Nobody looks at the token any more, or the button has no download.
CancelIgnored(b) ==
    /\ b.job > 0 => jobs[b.job].phase \notin {"delay", "get"}
    /\ RemovePanelsElements(buttons, b, list)
    /\ jobs' = IF b.job > 0 THEN [jobs EXCEPT ![b.job].pressed = TRUE] ELSE jobs
    /\ UNCHANGED <<labels, batches, added>>

----------------------------------------------------------------------------

Download(j) ==
    \/ Delayed(j) \/ Answered(j) \/ CancelNoticed(j) \/ GetFails(j)
    \/ FileWritten(j) \/ FileFails(j)

Cancel(b) == CancelEnds(b) \/ CancelRequested(b) \/ CancelIgnored(b)

Next ==
    \/ \E u \in Addresses : addButton_Click(u)
    \/ download1_Click
    \/ \E j \in DOMAIN jobs : Download(j)
    \/ \E i \in DOMAIN buttons : Cancel(buttons[i])

\* Delays, requests and files come to an end; the user need not do anything.
Fairness == WF_vars(\E j \in DOMAIN jobs : Download(j))

Spec == Init /\ [][Next]_vars /\ Fairness

----------------------------------------------------------------------------
(* Properties *)

\* The values every variable keeps.
TypeOK ==
    /\ list \in Seq(Addresses)
    /\ labels \in [Addresses -> Nat]
    /\ buttons \in Seq(Buttons)
    /\ jobs \in Seq(Jobs)
    /\ batches \in Seq(Batches)
    /\ added \in [Addresses -> Nat]

\* An address is downloaded no more often than it was added, however often
\* Download is clicked while the address is still in the list (Form1.cs:43-58).
StartedOncePerAdd ==
    \A u \in Addresses :
        Cardinality({j \in DOMAIN jobs : jobs[j].name = u}) <= added[u]

\* A download that was canceled before its page came leaves no file
\* (DownloadWorker.cs:25-27; README.md:1: the user can cancel a download).
CanceledMakesNoFile ==
    \A j \in DOMAIN jobs :
        jobs[j].canceled => jobs[j].phase \in {"get", "canceled", "failed"}

\* A download whose address was added once keeps its own Cancel button until it
\* is canceled or has its page, whatever other clicks fail meanwhile and
\* although buttons are found by name (Form1.cs:53,65).
CancellableWhileRunning ==
    \A j \in DOMAIN jobs :
        (/\ jobs[j].phase \in {"delay", "get"} /\ ~jobs[j].canceled
         /\ added[jobs[j].name] = 1)
        => \E i \in DOMAIN buttons : buttons[i].job = j

\* A button belongs to a download of its address or to none.
ButtonInv ==
    \A i \in DOMAIN buttons :
        /\ buttons[i].job <= Len(jobs)
        /\ buttons[i].job > 0 => jobs[buttons[i].job].name = buttons[i].name

\* Each label becomes a download.
StartedInv ==
    \A u \in Addresses :
        Cardinality({j \in DOMAIN jobs : jobs[j].name = u}) + labels[u] = added[u]

\* A clicked button cancels its download while the token is looked at.
PressedInv ==
    \A j \in DOMAIN jobs :
        /\ jobs[j].canceled => jobs[j].pressed
        /\ jobs[j].pressed /\ jobs[j].phase \in {"delay", "get"} => jobs[j].canceled

\* Nothing but its own end or its own click removes the button of a download
\* whose name is unique.
OwnButtonInv ==
    \A j \in DOMAIN jobs :
        jobs[j].phase \in Running /\ ~jobs[j].pressed /\ added[jobs[j].name] = 1
        => \E i \in DOMAIN buttons : buttons[i].job = j

\* The inductive invariant behind the safety properties: labels that turn into
\* downloads one by one, and buttons that know their download although they are
\* found by name (Form1.cs:43-67,92-96).
FormInv ==
    ButtonInv /\ StartedInv /\ PressedInv /\ OwnButtonInv /\ CanceledMakesNoFile

\* A click that waits for downloads of addresses that were added once fails only
\* at the end of a download whose Cancel button was clicked (Form1.cs:65).
OnlyCancelFailsWait ==
    [][\A b \in DOMAIN batches :
          (batches[b].state = "waiting" /\ batches'[b].state = "failed")
          => \E j \in batches[b].todo :
                /\ jobs[j].phase \in Running /\ jobs'[j].phase \in Ended
                /\ jobs[j].pressed \/ added[jobs[j].name] > 1]_vars

\* Click number b waits for a download of u.
WaitsFor(b, u) ==
    /\ b \in DOMAIN batches /\ batches[b].state = "waiting"
    /\ \E j \in batches[b].todo : jobs[j].name = u

\* When a click waits for the download of an address, the address leaves the
\* list, unless it is added again or this very wait fails; that other clicks
\* fail, or that other downloads are canceled, is no excuse (Form1.cs:60-67).
FinishedLeavesList ==
    \A u \in Addresses : \A b \in 1..MaxClicks :
        (WaitsFor(b, u) /\ added[u] = 1)
        ~> \/ u \notin {list[i] : i \in DOMAIN list}
           \/ added[u] > 1
           \/ b \in DOMAIN batches /\ batches[b].state = "failed"
=============================================================================
