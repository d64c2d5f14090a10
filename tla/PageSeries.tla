----------------------------- MODULE PageSeries -----------------------------
(***************************************************************************)
(* What an agent promises of the pages it is given, without folders, rules *)
(* and processes: it collects them in one open document at a time and puts *)
(* each away before it takes the next, so that only the last page of a     *)
(* document that is lost can be taken again.                               *)
(***************************************************************************)
EXTENDS Naturals, Sequences

CONSTANT Pages

VARIABLES
    spent,  \* the files put away: they are never taken (again)
    open,   \* the pages of the open document
    sent    \* the documents that were sent, in order

SeriesVars == <<spent, open, sent>>

SeriesInit == spent = {} /\ open = <<>> /\ sent = <<>>

AllSpent == \A i \in 1..Len(open) : open[i] \in spent

\* In a document, thrown away, or among what the agent refused.
PutAway ==
    /\ UNCHANGED <<open, sent>>
    /\ spent \subseteq spent'

Add(f) ==
    /\ open' = Append(open, f)
    /\ f \notin spent
    /\ AllSpent
    /\ UNCHANGED <<spent, sent>>

Send ==
    /\ open # <<>>
    /\ AllSpent
    /\ sent' = Append(sent, open)
    /\ open' = <<>>
    /\ UNCHANGED spent

\* The document is lost, perhaps by the very page it was to go on with.
Lose ==
    /\ open # <<>>
    /\ open' = <<>>
    /\ UNCHANGED sent
    /\ spent \subseteq spent'

SeriesNext ==
    \/ PutAway
    \/ \E f \in Pages : Add(f)
    \/ Send
    \/ Lose

Series == SeriesInit /\ [][SeriesNext]_SeriesVars
=============================================================================
