------------------------ MODULE DownloadFormProofs ------------------------
(***************************************************************************)
(* Theorems about DownloadForm: the invariant FormInv and the properties   *)
(* that follow from it, for every set of addresses and any number of       *)
(* clicks.                                                                 *)
(***************************************************************************)
EXTENDS DownloadForm, SequenceLemmas, FiniteSetTheorems, WellFoundedInduction

(* Sets of numbers and sequences *)

\* A set of natural numbers that is not empty has a least one.
LEMMA LeastNumber ==
    ASSUME NEW T, T \subseteq Nat, T # {}
    PROVE  \E n \in T : \A m \in T : n <= m
PROOF
<1>1. PICK n \in T : \A m \in T : ~(<<m, n>> \in OpToRel(<, Nat))
  BY NatLessThanWellFounded, WFMin, Zenon
<1>2. \A m \in T : ~(m < n)
  BY <1>1 DEF OpToRel
<1> QED BY <1>2

\* The first place of a sequence that passes a test is one of them.
LEMMA FirstPlace ==
    ASSUME NEW T, T \subseteq Nat, T # {}
    PROVE  Min(T) \in T
PROOF
<1>1. \E n \in T : \A m \in T : n <= m
  BY LeastNumber
<1> QED BY <1>1 DEF Min

\* The elements of t are elements of s.
Within(t, s) == \A i \in DOMAIN t : \E k \in DOMAIN s : t[i] = s[k]

\* A sequence without its element at place k.
LEMMA RemovedPlace ==
    ASSUME NEW S, NEW s \in Seq(S), NEW k \in 1..Len(s)
    PROVE  /\ RemoveAt(s, k) \in Seq(S)
           /\ Within(RemoveAt(s, k), s)
           /\ \A i \in DOMAIN s : i # k =>
                \E n \in DOMAIN RemoveAt(s, k) : RemoveAt(s, k)[n] = s[i]
PROOF
<1> DEFINE t == RemoveAt(s, k)
<1>1. /\ t \in Seq(S) /\ Len(t) = Len(s) - 1
      /\ \A i \in 1..Len(s) - 1 : t[i] = IF i < k THEN s[i] ELSE s[i + 1]
  BY RemovedElement
<1> HIDE DEF t
<1>2. DOMAIN t = 1..Len(s) - 1 /\ DOMAIN s = 1..Len(s)
  BY <1>1
<1>3. ASSUME NEW i \in DOMAIN t PROVE \E n \in DOMAIN s : t[i] = s[n]
  <2>1. CASE i < k
    BY <1>1, <1>2, <2>1
  <2>2. CASE ~(i < k)
    <3>1. i + 1 \in DOMAIN s /\ t[i] = s[i + 1]
      BY <1>1, <1>2, <2>2
    <3> QED BY <3>1
  <2> QED BY <2>1, <2>2
<1>4. ASSUME NEW i \in DOMAIN s, i # k PROVE \E n \in DOMAIN t : t[n] = s[i]
  <2>1. CASE i < k
    BY <1>1, <1>2, <2>1
  <2>2. CASE i > k
    <3>1. i - 1 \in DOMAIN t /\ ~(i - 1 < k) /\ (i - 1) + 1 = i
      BY <1>2, <2>2
    <3>2. t[i - 1] = s[i]
      BY <1>1, <1>2, <3>1
    <3> QED BY <3>1, <3>2
  <2> QED BY <1>2, <1>4, <2>1, <2>2
<1>5. t \in Seq(S) /\ Within(t, s)
  BY <1>1, <1>3 DEF Within
<1>6. \A i \in DOMAIN s : i # k => \E n \in DOMAIN t : t[n] = s[i]
  BY <1>4
<1> QED BY <1>5, <1>6 DEF t

\* RemoveFirst takes away at most one element, and one that equals e.
LEMMA RemovedFirst ==
    ASSUME NEW S, NEW s \in Seq(S), NEW e
    PROVE  /\ RemoveFirst(s, e) \in Seq(S)
           /\ Within(RemoveFirst(s, e), s)
           /\ \A i \in DOMAIN s : s[i] # e =>
                \E n \in DOMAIN RemoveFirst(s, e) : RemoveFirst(s, e)[n] = s[i]
PROOF
<1>1. CASE \E i \in 1..Len(s) : s[i] = e
  <2> DEFINE T == {i \in 1..Len(s) : s[i] = e}
             k == Min(T)
  <2>1. T \subseteq Nat /\ T # {}
    BY <1>1
  <2>2. k \in T
    BY <2>1, FirstPlace
  <2>3. k \in 1..Len(s) /\ s[k] = e
    BY <2>2
  <2>4. RemoveFirst(s, e) = RemoveAt(s, k)
    BY <1>1, <2>1 DEF RemoveFirst, SelectInSeq
  <2> HIDE DEF k
  <2>5. /\ RemoveAt(s, k) \in Seq(S) /\ Within(RemoveAt(s, k), s)
        /\ \A i \in DOMAIN s : i # k =>
             \E n \in DOMAIN RemoveAt(s, k) : RemoveAt(s, k)[n] = s[i]
    BY <2>3, RemovedPlace
  <2> QED BY <2>3, <2>4, <2>5
<1>2. CASE ~\E i \in 1..Len(s) : s[i] = e
  BY <1>2 DEF RemoveFirst, Within
<1> QED BY <1>1, <1>2

\* The loop takes away at most one button, and one with the name of its download.
LEMMA RemovedButton ==
    ASSUME TypeOK, NEW j \in DOMAIN jobs
    PROVE  /\ ButtonsAfter(j) \in Seq(Buttons)
           /\ Within(ButtonsAfter(j), buttons)
           /\ \A i \in DOMAIN buttons : buttons[i].name # jobs[j].name =>
                \E n \in DOMAIN ButtonsAfter(j) : ButtonsAfter(j)[n] = buttons[i]
PROOF
<1> buttons \in Seq(Buttons)
  BY DEF TypeOK
<1>1. CASE RemovesPanels(j)
  <2> DEFINE T == {i \in 1..Len(buttons) : buttons[i].name = jobs[j].name}
             k == Min(T)
  <2>1. T \subseteq Nat /\ T # {} /\ \E i \in 1..Len(buttons) : buttons[i].name = jobs[j].name
    BY <1>1 DEF RemovesPanels, HasButton
  <2>2. k \in T
    BY <2>1, FirstPlace
  <2>3. k \in 1..Len(buttons) /\ buttons[k].name = jobs[j].name
    BY <2>2
  <2>4. ButtonsAfter(j) = RemoveAt(buttons, k)
    BY <1>1, <2>1 DEF ButtonsAfter, RemoveFirstMatch, SelectInSeq
  <2> HIDE DEF k
  <2>5. /\ RemoveAt(buttons, k) \in Seq(Buttons) /\ Within(RemoveAt(buttons, k), buttons)
        /\ \A i \in DOMAIN buttons : i # k =>
             \E n \in DOMAIN RemoveAt(buttons, k) : RemoveAt(buttons, k)[n] = buttons[i]
    BY <2>3, RemovedPlace
  <2> QED BY <2>3, <2>4, <2>5
<1>2. CASE ~RemovesPanels(j)
  BY <1>2 DEF ButtonsAfter, Within
<1> QED BY <1>1, <1>2

LEMMA ListShrinks ==
    ASSUME TypeOK, NEW j \in DOMAIN jobs
    PROVE  ListAfter(j) \in Seq(Addresses)
PROOF
<1>1. list \in Seq(Addresses)
  BY DEF TypeOK
<1> QED BY <1>1, RemovedFirst DEF ListAfter

\* Two sequences one after the other.
LEMMA Concatenated ==
    ASSUME NEW S, NEW s \in Seq(S), NEW t \in Seq(S)
    PROVE  /\ s \o t \in Seq(S) /\ Len(s \o t) = Len(s) + Len(t)
           /\ \A i \in DOMAIN s : i \in DOMAIN (s \o t) /\ (s \o t)[i] = s[i]
           /\ \A i \in DOMAIN t :
                Len(s) + i \in DOMAIN (s \o t) /\ (s \o t)[Len(s) + i] = t[i]
           /\ \A i \in DOMAIN (s \o t) :
                i \in DOMAIN s \/ \E k \in DOMAIN t : i = Len(s) + k
PROOF
<1>1. /\ s \o t \in Seq(S) /\ Len(s \o t) = Len(s) + Len(t)
      /\ \A i \in 1..Len(s) + Len(t) :
           (s \o t)[i] = IF i <= Len(s) THEN s[i] ELSE t[i - Len(s)]
  BY ConcatProperties
<1>2. /\ DOMAIN s = 1..Len(s) /\ DOMAIN t = 1..Len(t)
      /\ DOMAIN (s \o t) = 1..Len(s) + Len(t)
      /\ Len(s) \in Nat /\ Len(t) \in Nat
  BY <1>1
<1>3. ASSUME NEW i \in DOMAIN s PROVE i \in DOMAIN (s \o t) /\ (s \o t)[i] = s[i]
  BY <1>1, <1>2
<1>4. ASSUME NEW i \in DOMAIN t
      PROVE  Len(s) + i \in DOMAIN (s \o t) /\ (s \o t)[Len(s) + i] = t[i]
  <2>1. Len(s) + i \in 1..Len(s) + Len(t) /\ ~(Len(s) + i <= Len(s)) /\ (Len(s) + i) - Len(s) = i
    BY <1>2
  <2> QED BY <1>1, <1>2, <2>1
<1>5. ASSUME NEW i \in DOMAIN (s \o t), i \notin DOMAIN s
      PROVE  \E k \in DOMAIN t : i = Len(s) + k
  <2>1. i - Len(s) \in DOMAIN t /\ i = Len(s) + (i - Len(s))
    BY <1>2, <1>5
  <2> QED BY <2>1
<1> QED BY <1>1, <1>3, <1>4, <1>5

----------------------------------------------------------------------------
(* A click on Download *)

\* How many of the first places of the list are u.
LEMMA BeforeCounts ==
    ASSUME TypeOK, NEW n \in Nat, NEW u \in Addresses
    PROVE  /\ IsFiniteSet({k \in 1..n : list[k] = u})
           /\ Before(n, u) \in Nat
           /\ n = 0 => Before(n, u) = 0
           /\ n > 0 /\ list[n] # u => Before(n, u) = Before(n - 1, u)
PROOF
<1>1. IsFiniteSet(1..n)
  BY FS_Interval
<1>2. IsFiniteSet({k \in 1..n : list[k] = u})
  BY <1>1, FS_Subset
<1>3. Before(n, u) \in Nat
  BY <1>2, FS_CardinalityType DEF Before
<1>4. n = 0 => Before(n, u) = 0
  <2> SUFFICES ASSUME n = 0 PROVE Before(n, u) = 0
    OBVIOUS
  <2>1. {k \in 1..n : list[k] = u} = {}
    OBVIOUS
  <2> QED BY <2>1, FS_EmptySet DEF Before
<1>5. ASSUME n > 0, list[n] # u PROVE Before(n, u) = Before(n - 1, u)
  <2>1. {k \in 1..n : list[k] = u} = {k \in 1..n - 1 : list[k] = u}
    BY <1>5
  <2> QED BY <2>1 DEF Before
<1> QED BY <1>2, <1>3, <1>4, <1>5

\* There is a label for every place a click gets past.
LEMMA EnoughLabels ==
    ASSUME TypeOK, NEW stop \in 1..Len(list) + 1, StopsAt(stop), NEW u \in Addresses
    PROVE  Before(stop - 1, u) \in Nat /\ Before(stop - 1, u) <= labels[u]
PROOF
<1> DEFINE T == {n \in 0..stop - 1 : ~(Before(n, u) <= labels[u])}
<1>1. labels[u] \in Nat /\ Len(list) \in Nat
  BY DEF TypeOK
<1>2. ASSUME T # {} PROVE FALSE
  <2> T \subseteq Nat
    OBVIOUS
  <2>1. PICK n \in T : \A i \in T : n <= i
    <3> HIDE DEF T
    <3> QED BY <1>2, LeastNumber
  <2>2. n \in Nat /\ n \in 0..stop - 1 /\ ~(Before(n, u) <= labels[u])
    BY <2>1
  <2>3. n > 0
    <3>1. n = 0 => Before(n, u) = 0
      BY <2>2, BeforeCounts
    <3> QED BY <1>1, <2>2, <3>1
  <2>4. CASE list[n] = u
    <3>1. Ready(n)
      BY <2>2, <2>3 DEF StopsAt
    <3> QED BY <2>2, <2>4, <3>1 DEF Ready
  <2>5. CASE list[n] # u
    <3>1. Before(n, u) = Before(n - 1, u)
      BY <2>2, <2>3, <2>5, BeforeCounts
    <3>2. n - 1 \in T
      BY <2>2, <2>3, <3>1
    <3> QED BY <2>1, <2>2, <3>2
  <2> QED BY <2>4, <2>5
<1>3. stop - 1 \in 0..stop - 1 /\ stop - 1 \in Nat
  BY <1>1
<1>4. Before(stop - 1, u) <= labels[u]
  BY <1>2, <1>3
<1> QED BY <1>3, <1>4, BeforeCounts

\* What a click adds to the downloads and to the buttons.
LEMMA NewDownloads ==
    ASSUME TypeOK, NEW stop \in 1..Len(list) + 1,
           NEW new, new = [k \in 1..stop - 1 |-> NewJob(list[k])]
    PROVE  /\ new \in Seq(Jobs) /\ Len(new) = stop - 1
           /\ \A k \in 1..stop - 1 : list[k] \in Addresses /\ new[k] = NewJob(list[k])
PROOF
<1>1. list \in Seq(Addresses) /\ Len(list) \in Nat
  BY DEF TypeOK
<1>2. stop - 1 \in Nat
  BY <1>1
<1>3. ASSUME NEW k \in 1..stop - 1 PROVE list[k] \in Addresses
  BY <1>1
<1>4. ASSUME NEW k \in 1..stop - 1 PROVE NewJob(list[k]) \in Jobs
  BY <1>3 DEF NewJob, Jobs, Running, Ended
<1> QED BY <1>2, <1>3, <1>4

LEMMA ClickButtons ==
    ASSUME TypeOK, NEW stop \in 1..Len(list) + 1
    PROVE  /\ NewButtons(stop) \in Seq(Buttons)
           /\ \A k \in 1..stop - 1 : \E i \in DOMAIN NewButtons(stop) :
                NewButtons(stop)[i] = [name |-> list[k], job |-> Len(jobs) + k]
           /\ \A i \in DOMAIN NewButtons(stop) :
                \/ NewButtons(stop)[i].job = 0
                \/ \E k \in 1..stop - 1 :
                     NewButtons(stop)[i] = [name |-> list[k], job |-> Len(jobs) + k]
PROOF
<1>1. list \in Seq(Addresses) /\ Len(list) \in Nat /\ Len(jobs) \in Nat
  BY DEF TypeOK
<1> DEFINE s == [k \in 1..stop - 1 |-> [name |-> list[k], job |-> Len(jobs) + k]]
           t == IF stop <= Len(list) /\ list[stop] \notin Invalid
                THEN <<[name |-> list[stop], job |-> 0]>> ELSE <<>>
<1>2. s \in Seq(Buttons) /\ Len(s) = stop - 1 /\ DOMAIN s = 1..stop - 1
  <2>1. stop - 1 \in Nat
    BY <1>1
  <2>2. ASSUME NEW k \in 1..stop - 1
        PROVE  [name |-> list[k], job |-> Len(jobs) + k] \in Buttons
    <3>1. list[k] \in Addresses /\ Len(jobs) + k \in Nat
      BY <1>1
    <3> QED BY <3>1 DEF Buttons
  <2> QED BY <2>1, <2>2
<1>3. t \in Seq(Buttons) /\ \A k \in DOMAIN t : t[k].job = 0
  <2>1. CASE stop <= Len(list) /\ list[stop] \notin Invalid
    <3>1. list[stop] \in Addresses
      BY <1>1, <2>1
    <3>2. [name |-> list[stop], job |-> 0] \in Buttons
      BY <3>1 DEF Buttons
    <3> QED BY <2>1, <3>2
  <2>2. CASE ~(stop <= Len(list) /\ list[stop] \notin Invalid)
    BY <2>2
  <2> QED BY <2>1, <2>2
<1> DEFINE b == s \o t
<1>4. NewButtons(stop) = b
  BY DEF NewButtons
<1>5. \A k \in 1..stop - 1 : s[k] = [name |-> list[k], job |-> Len(jobs) + k]
  OBVIOUS
<1> HIDE DEF s, t
<1>6. /\ s \o t \in Seq(Buttons)
      /\ \A i \in DOMAIN s : i \in DOMAIN (s \o t) /\ (s \o t)[i] = s[i]
      /\ \A i \in DOMAIN t : (s \o t)[Len(s) + i] = t[i]
      /\ \A i \in DOMAIN (s \o t) :
           i \in DOMAIN s \/ \E k \in DOMAIN t : i = Len(s) + k
  <2>1. s \in Seq(Buttons) /\ t \in Seq(Buttons)
    BY <1>2, <1>3
  <2> QED BY ONLY <2>1, Concatenated
<1>7. ASSUME NEW k \in 1..stop - 1
      PROVE  \E i \in DOMAIN b :
                b[i] = [name |-> list[k], job |-> Len(jobs) + k]
  BY <1>2, <1>5, <1>6
<1>8. ASSUME NEW i \in DOMAIN b
      PROVE  \/ b[i].job = 0
             \/ \E k \in 1..stop - 1 :
                  b[i] = [name |-> list[k], job |-> Len(jobs) + k]
  <2>1. CASE i \in DOMAIN s
    BY <1>2, <1>5, <1>6, <2>1
  <2>2. CASE i \notin DOMAIN s
    BY <1>3, <1>6, <2>2
  <2> QED BY <2>1, <2>2
<1>9. b \in Seq(Buttons)
  BY <1>6
<1> HIDE DEF b
<1> QED BY ONLY <1>4, <1>7, <1>8, <1>9
----------------------------------------------------------------------------
(* Types *)

LEMMA TypeInit == Init => TypeOK
PROOF BY FormAssumption DEF Init, TypeOK

LEMMA ClickTypes ==
    ASSUME TypeOK, download1_Click
    PROVE  TypeOK'
PROOF
<1>1. PICK stop \in 1..Len(list) + 1 :
         /\ StopsAt(stop)
         /\ jobs' = jobs \o [k \in 1..stop - 1 |-> NewJob(list[k])]
         /\ buttons' = buttons \o NewButtons(stop)
         /\ labels' = [u \in Addresses |-> labels[u] - Before(stop - 1, u)]
         /\ batches' = Append(batches,
                [todo |-> Len(jobs) + 1..Len(jobs) + stop - 1,
                 state |-> IF stop <= Len(list) THEN "failed"
                           ELSE IF list = <<>> THEN "ended" ELSE "waiting"])
  BY DEF download1_Click
<1>2. list' \in Seq(Addresses) /\ added' \in [Addresses -> Nat]
  BY DEF TypeOK, download1_Click
<1>3. jobs' \in Seq(Jobs)
  <2>1. [k \in 1..stop - 1 |-> NewJob(list[k])] \in Seq(Jobs)
    BY NewDownloads
  <2> QED BY <1>1, <2>1 DEF TypeOK
<1>4. buttons' \in Seq(Buttons)
  <2>1. NewButtons(stop) \in Seq(Buttons)
    BY ClickButtons
  <2> QED BY <1>1, <2>1 DEF TypeOK
<1>5. labels' \in [Addresses -> Nat]
  <2>1. ASSUME NEW u \in Addresses PROVE labels[u] - Before(stop - 1, u) \in Nat
    <3>1. Before(stop - 1, u) \in Nat /\ Before(stop - 1, u) <= labels[u]
      BY <1>1, EnoughLabels
    <3>2. labels[u] \in Nat
      BY DEF TypeOK
    <3> QED BY <3>1, <3>2
  <2> QED BY <1>1, <2>1
<1>6. batches' \in Seq(Batches)
  <2>1. Len(jobs) \in Nat /\ stop \in Nat
    BY DEF TypeOK
  <2>2. Len(jobs) + 1..Len(jobs) + stop - 1 \in SUBSET Nat
    BY <2>1
  <2>3. [todo |-> Len(jobs) + 1..Len(jobs) + stop - 1,
         state |-> IF stop <= Len(list) THEN "failed"
                   ELSE IF list = <<>> THEN "ended" ELSE "waiting"] \in Batches
    BY <2>2 DEF Batches
  <2> QED BY <1>1, <2>3 DEF TypeOK
<1> QED BY <1>2, <1>3, <1>4, <1>5, <1>6 DEF TypeOK

LEMMA BatchTypes ==
    ASSUME TypeOK, NEW j \in DOMAIN jobs
    PROVE  [b \in DOMAIN batches |-> BatchAfter(batches[b], j)] \in Seq(Batches)
PROOF
<1>1. batches \in Seq(Batches)
  BY DEF TypeOK
<1>2. ASSUME NEW b \in DOMAIN batches PROVE BatchAfter(batches[b], j) \in Batches
  <2>1. batches[b] \in Batches
    BY <1>1
  <2> QED BY <2>1 DEF BatchAfter, Batches
<1> QED BY <1>1, <1>2

LEMMA EndsTypes ==
    ASSUME TypeOK, NEW j \in DOMAIN jobs, NEW how \in Ended, Ends(j, how)
    PROVE  TypeOK'
PROOF
<1>1. list' \in Seq(Addresses)
  BY ListShrinks DEF Ends
<1>2. buttons' \in Seq(Buttons)
  BY RemovedButton DEF Ends
<1>3. batches' \in Seq(Batches)
  BY BatchTypes DEF Ends
<1>4. jobs' \in Seq(Jobs)
  <2>1. jobs \in Seq(Jobs) /\ jobs[j] \in Jobs
    BY DEF TypeOK
  <2>2. [jobs[j] EXCEPT !.phase = how] \in Jobs
    BY <2>1 DEF Jobs
  <2>3. jobs' = [jobs EXCEPT ![j] = [jobs[j] EXCEPT !.phase = how]]
    BY DEF Ends
  <2> QED BY <2>1, <2>2, <2>3
<1> QED BY <1>1, <1>2, <1>3, <1>4 DEF TypeOK, Ends

LEMMA PhaseTypes ==
    ASSUME TypeOK, NEW j \in DOMAIN jobs, NEW phase \in Running,
           jobs' = [jobs EXCEPT ![j].phase = phase]
    PROVE  jobs' \in Seq(Jobs)
PROOF
<1>1. jobs \in Seq(Jobs) /\ jobs[j] \in Jobs
  BY DEF TypeOK
<1>2. [jobs[j] EXCEPT !.phase = phase] \in Jobs
  BY <1>1 DEF Jobs
<1>3. jobs' = [jobs EXCEPT ![j] = [jobs[j] EXCEPT !.phase = phase]]
  OBVIOUS
<1> QED BY <1>1, <1>2, <1>3

LEMMA DownloadTypes ==
    ASSUME TypeOK, NEW j \in DOMAIN jobs, Download(j)
    PROVE  TypeOK'
PROOF
<1>1. CASE Delayed(j)
  BY <1>1, PhaseTypes DEF Delayed, Running, TypeOK
<1>2. CASE Answered(j)
  BY <1>2, PhaseTypes DEF Answered, Running, TypeOK
<1>3. CASE CancelNoticed(j) \/ GetFails(j) \/ FileWritten(j) \/ FileFails(j)
  <2>1. \E how \in Ended : Ends(j, how)
    BY <1>3 DEF CancelNoticed, GetFails, FileWritten, FileFails, Ended
  <2> QED BY <2>1, EndsTypes
<1> QED BY <1>1, <1>2, <1>3 DEF Download

\* What a click on a Cancel button does to the downloads.
LEMMA CanceledJobs ==
    ASSUME TypeOK, ButtonInv, NEW i \in DOMAIN buttons, Cancel(buttons[i])
    PROVE  /\ jobs' \in Seq(Jobs) /\ DOMAIN jobs' = DOMAIN jobs
           /\ buttons[i].job > 0 =>
                /\ buttons[i].job \in DOMAIN jobs
                /\ jobs'[buttons[i].job].name = jobs[buttons[i].job].name
                /\ jobs'[buttons[i].job].pressed
           /\ \A k \in DOMAIN jobs : k # buttons[i].job => jobs'[k] = jobs[k]
PROOF
<1> DEFINE b == buttons[i]
<1>1. b.job \in Nat /\ jobs \in Seq(Jobs) /\ DOMAIN jobs = 1..Len(jobs)
  <2>1. buttons \in Seq(Buttons) /\ jobs \in Seq(Jobs)
    BY DEF TypeOK
  <2>2. b \in Buttons
    BY <2>1
  <2> QED BY <2>1, <2>2 DEF Buttons
<1>2. b.job > 0 => b.job \in DOMAIN jobs
  BY <1>1 DEF ButtonInv
<1>3. CASE b.job = 0
  <2>1. jobs' = jobs
    BY <1>3 DEF Cancel, CancelEnds, CancelRequested, CancelIgnored
  <2>2. \A k \in DOMAIN jobs : jobs'[k] = jobs[k]
    BY <2>1
  <2>3. jobs' \in Seq(Jobs) /\ DOMAIN jobs' = DOMAIN jobs /\ ~(b.job > 0)
    BY <1>1, <1>3, <2>1
  <2> QED BY <2>2, <2>3
<1>4. CASE b.job > 0
  <2> DEFINE j == b.job
  <2>1. j \in DOMAIN jobs /\ jobs[j] \in Jobs
    BY <1>1, <1>2, <1>4
  <2>2. \E new \in Jobs : /\ jobs' = [jobs EXCEPT ![j] = new]
                          /\ new.name = jobs[j].name /\ new.pressed
    <3>1. CASE CancelEnds(b)
      <4> DEFINE new == [jobs[j] EXCEPT !.phase = "canceled", !.canceled = TRUE, !.pressed = TRUE]
      <4>1. new \in Jobs /\ new.name = jobs[j].name /\ new.pressed
        BY <2>1 DEF Jobs, Ended
      <4>2. jobs' = [jobs EXCEPT ![j] = new]
        BY <2>1, <3>1 DEF CancelEnds
      <4> QED BY <4>1, <4>2
    <3>2. CASE CancelRequested(b)
      <4> DEFINE new == [jobs[j] EXCEPT !.canceled = TRUE, !.pressed = TRUE]
      <4>1. new \in Jobs /\ new.name = jobs[j].name /\ new.pressed
        BY <2>1 DEF Jobs
      <4>2. jobs' = [jobs EXCEPT ![j] = new]
        BY <2>1, <3>2 DEF CancelRequested
      <4> QED BY <4>1, <4>2
    <3>3. CASE CancelIgnored(b)
      <4> DEFINE new == [jobs[j] EXCEPT !.pressed = TRUE]
      <4>1. new \in Jobs /\ new.name = jobs[j].name /\ new.pressed
        BY <2>1 DEF Jobs
      <4>2. jobs' = [jobs EXCEPT ![j] = new]
        BY <1>4, <2>1, <3>3 DEF CancelIgnored
      <4> QED BY <4>1, <4>2
    <3> QED BY <3>1, <3>2, <3>3 DEF Cancel
  <2> QED BY <1>1, <2>1, <2>2
<1> QED BY <1>1, <1>3, <1>4

LEMMA CancelTypes ==
    ASSUME TypeOK, ButtonInv, NEW i \in DOMAIN buttons, Cancel(buttons[i])
    PROVE  TypeOK'
PROOF
<1> DEFINE b == buttons[i]
<1>1. jobs' \in Seq(Jobs)
  BY CanceledJobs
<1>2. labels' \in [Addresses -> Nat] /\ added' \in [Addresses -> Nat]
  BY DEF TypeOK, Cancel, CancelEnds, CancelRequested, CancelIgnored
<1>3. buttons' \in Seq(Buttons) /\ list' \in Seq(Addresses) /\ batches' \in Seq(Batches)
  <2>1. CASE CancelEnds(b)
    <3>1. b.job \in DOMAIN jobs
      BY <2>1, CanceledJobs DEF CancelEnds
    <3>2. /\ ButtonsAfter(b.job) \in Seq(Buttons) /\ ListAfter(b.job) \in Seq(Addresses)
          /\ [k \in DOMAIN batches |-> BatchAfter(batches[k], b.job)] \in Seq(Batches)
      BY <3>1, RemovedButton, ListShrinks, BatchTypes
    <3> QED BY <2>1, <3>2, RemovedFirst DEF CancelEnds, RemovePanelsElements
  <2>2. CASE CancelRequested(b) \/ CancelIgnored(b)
    <3>1. buttons \in Seq(Buttons) /\ list \in Seq(Addresses) /\ batches \in Seq(Batches)
      BY DEF TypeOK
    <3>2. RemovePanelsElements(buttons, b, list) /\ batches' = batches
      BY <2>2 DEF CancelRequested, CancelIgnored
    <3> QED BY <3>1, <3>2, RemovedFirst DEF RemovePanelsElements
  <2> QED BY <2>1, <2>2 DEF Cancel
<1> QED BY <1>1, <1>2, <1>3 DEF TypeOK

LEMMA AddTypes ==
    ASSUME TypeOK, NEW u \in Addresses, addButton_Click(u)
    PROVE  TypeOK'
PROOF BY DEF TypeOK, addButton_Click

LEMMA TypeStep ==
    ASSUME TypeOK, ButtonInv, [Next]_vars
    PROVE  TypeOK'
PROOF
<1>1. CASE \E u \in Addresses : addButton_Click(u)
  BY <1>1, AddTypes
<1>2. CASE download1_Click
  BY <1>2, ClickTypes
<1>3. CASE \E j \in DOMAIN jobs : Download(j)
  BY <1>3, DownloadTypes
<1>4. CASE \E i \in DOMAIN buttons : Cancel(buttons[i])
  BY <1>4, CancelTypes
<1>5. CASE UNCHANGED vars
  BY <1>5 DEF TypeOK, vars
<1> QED BY <1>1, <1>2, <1>3, <1>4, <1>5 DEF Next
----------------------------------------------------------------------------
(* Parts of the invariant that most steps keep for the same reason *)

LEMMA ButtonKept ==
    ASSUME TypeOK, ButtonInv, Within(buttons', buttons), Len(jobs') = Len(jobs),
           \A k \in DOMAIN jobs : jobs'[k].name = jobs[k].name
    PROVE  ButtonInv'
PROOF
<1> SUFFICES ASSUME NEW i \in DOMAIN buttons'
             PROVE  /\ buttons'[i].job <= Len(jobs)
                    /\ buttons'[i].job > 0 =>
                         jobs'[buttons'[i].job].name = buttons'[i].name
  BY DEF ButtonInv
<1>1. PICK k \in DOMAIN buttons : buttons'[i] = buttons[k]
  BY DEF Within
<1>2. buttons[k].job \in Nat /\ DOMAIN jobs = 1..Len(jobs) /\ Len(jobs) \in Nat
  <2>1. buttons \in Seq(Buttons) /\ jobs \in Seq(Jobs)
    BY DEF TypeOK
  <2>2. buttons[k] \in Buttons
    BY <2>1
  <2> QED BY <2>1, <2>2 DEF Buttons
<1>3. /\ buttons[k].job <= Len(jobs)
      /\ buttons[k].job > 0 => jobs[buttons[k].job].name = buttons[k].name
  BY DEF ButtonInv
<1>4. buttons[k].job > 0 => buttons[k].job \in DOMAIN jobs
  BY <1>2, <1>3
<1> QED BY <1>1, <1>3, <1>4

LEMMA StartedKept ==
    ASSUME StartedInv, DOMAIN jobs' = DOMAIN jobs, labels' = labels, added' = added,
           \A k \in DOMAIN jobs : jobs'[k].name = jobs[k].name
    PROVE  StartedInv'
PROOF
<1> SUFFICES ASSUME NEW u \in Addresses
             PROVE  Cardinality({j \in DOMAIN jobs' : jobs'[j].name = u}) + labels[u] = added[u]
  BY DEF StartedInv
<1>1. {j \in DOMAIN jobs' : jobs'[j].name = u} = {j \in DOMAIN jobs : jobs[j].name = u}
  OBVIOUS
<1> QED BY <1>1 DEF StartedInv

\* How many downloads of an address there are.
LEMMA StartedCounts ==
    ASSUME TypeOK, NEW u \in Addresses
    PROVE  /\ IsFiniteSet({j \in DOMAIN jobs : jobs[j].name = u})
           /\ Cardinality({j \in DOMAIN jobs : jobs[j].name = u}) \in Nat
PROOF
<1>1. Len(jobs) \in Nat /\ DOMAIN jobs = 1..Len(jobs)
  BY DEF TypeOK
<1>2. IsFiniteSet(DOMAIN jobs)
  BY <1>1, FS_Interval
<1>3. IsFiniteSet({j \in DOMAIN jobs : jobs[j].name = u})
  BY <1>2, FS_Subset
<1> QED BY <1>3, FS_CardinalityType

\* Two downloads with one name: the address was added twice.
LEMMA UniqueName ==
    ASSUME TypeOK, StartedInv, NEW j \in DOMAIN jobs, NEW k \in DOMAIN jobs,
           jobs[j].name = jobs[k].name, added[jobs[j].name] = 1
    PROVE  j = k
PROOF
<1> SUFFICES ASSUME j # k PROVE FALSE
  OBVIOUS
<1> DEFINE u == jobs[j].name
           D == {i \in DOMAIN jobs : jobs[i].name = u}
<1>1. u \in Addresses /\ labels[u] \in Nat /\ j \in Int /\ k \in Int
  <2>1. jobs \in Seq(Jobs) /\ labels \in [Addresses -> Nat]
    BY DEF TypeOK
  <2>2. jobs[j] \in Jobs
    BY <2>1
  <2> QED BY <2>1, <2>2 DEF Jobs
<1>2. IsFiniteSet(D) /\ Cardinality(D) \in Nat
  BY <1>1, StartedCounts
<1>3. Cardinality(D) + labels[u] = 1
  BY <1>1 DEF StartedInv
<1>4. j \in D /\ k \in D
  OBVIOUS
<1> HIDE DEF D, u
<1>5. Cardinality(D) = 0 \/ Cardinality(D) = 1
  BY <1>1, <1>2, <1>3
<1>6. CASE Cardinality(D) = 0
  BY <1>2, <1>4, <1>6, FS_EmptySet
<1>7. CASE Cardinality(D) = 1
  <2>1. PICK x : D = {x}
    BY <1>2, <1>7, FS_Singleton
  <2> QED BY <1>4, <2>1
<1> QED BY <1>5, <1>6, <1>7

\* The address of a download was added.
LEMMA NameWasAdded ==
    ASSUME TypeOK, StartedInv, NEW j \in DOMAIN jobs
    PROVE  jobs[j].name \in Addresses /\ added[jobs[j].name] \in Nat \ {0}
PROOF
<1> DEFINE u == jobs[j].name
           D == {i \in DOMAIN jobs : jobs[i].name = u}
<1>1. u \in Addresses /\ labels[u] \in Nat /\ added[u] \in Nat
  <2>1. jobs \in Seq(Jobs) /\ labels \in [Addresses -> Nat] /\ added \in [Addresses -> Nat]
    BY DEF TypeOK
  <2>2. jobs[j] \in Jobs
    BY <2>1
  <2> QED BY <2>1, <2>2 DEF Jobs
<1>2. IsFiniteSet(D) /\ Cardinality(D) \in Nat
  BY <1>1, StartedCounts
<1>3. Cardinality(D) + labels[u] = added[u]
  BY <1>1 DEF StartedInv
<1>4. j \in D
  OBVIOUS
<1> HIDE DEF D, u
<1>5. Cardinality(D) # 0
  BY <1>2, <1>4, FS_EmptySet
<1>6. added[u] # 0
  BY <1>1, <1>2, <1>3, <1>5
<1> QED BY <1>1, <1>6 DEF u

----------------------------------------------------------------------------
(* The invariant, step by step *)

LEMMA InvInit == Init => FormInv
PROOF
<1> SUFFICES ASSUME Init PROVE FormInv
  OBVIOUS
<1>1. jobs = <<>> /\ buttons = <<>>
  BY DEF Init
<1>2. ButtonInv /\ PressedInv /\ OwnButtonInv /\ CanceledMakesNoFile
  BY <1>1 DEF ButtonInv, PressedInv, OwnButtonInv, CanceledMakesNoFile
<1>3. StartedInv
  <2> SUFFICES ASSUME NEW u \in Addresses
               PROVE  Cardinality({j \in DOMAIN jobs : jobs[j].name = u}) + labels[u] = added[u]
    BY DEF StartedInv
  <2>1. {j \in DOMAIN jobs : jobs[j].name = u} = {}
    BY <1>1
  <2>2. labels[u] = 0 /\ added[u] = 0
    BY DEF Init
  <2> QED BY <2>1, <2>2, FS_EmptySet
<1> QED BY <1>2, <1>3 DEF FormInv

LEMMA AddStep ==
    ASSUME TypeOK, FormInv, NEW u \in Addresses, addButton_Click(u)
    PROVE  FormInv'
PROOF
<1>1. /\ jobs' = jobs /\ buttons' = buttons
      /\ labels' = [labels EXCEPT ![u] = @ + 1] /\ added' = [added EXCEPT ![u] = @ + 1]
      /\ labels \in [Addresses -> Nat] /\ added \in [Addresses -> Nat]
  BY DEF addButton_Click, TypeOK
<1>2. ButtonInv' /\ PressedInv' /\ CanceledMakesNoFile'
  BY <1>1 DEF FormInv, ButtonInv, PressedInv, CanceledMakesNoFile
<1>3. StartedInv'
  <2> SUFFICES ASSUME NEW v \in Addresses
               PROVE  Cardinality({j \in DOMAIN jobs : jobs[j].name = v}) + labels'[v] = added'[v]
    BY <1>1 DEF StartedInv
  <2> DEFINE c == Cardinality({j \in DOMAIN jobs : jobs[j].name = v})
  <2>1. c \in Nat
    BY StartedCounts
  <2>2. c + labels[v] = added[v]
    BY DEF FormInv, StartedInv
  <2> HIDE DEF c
  <2>3. c + labels'[v] = added'[v]
    BY <1>1, <2>1, <2>2
  <2> QED BY <2>3 DEF c
<1>4. OwnButtonInv'
  <2> SUFFICES ASSUME NEW j \in DOMAIN jobs, jobs[j].phase \in Running, ~jobs[j].pressed,
                      added'[jobs[j].name] = 1
               PROVE  \E i \in DOMAIN buttons : buttons[i].job = j
    BY <1>1 DEF OwnButtonInv
  <2>1. jobs[j].name \in Addresses /\ added[jobs[j].name] \in Nat \ {0}
    BY NameWasAdded DEF FormInv
  <2>2. added[jobs[j].name] = 1
    BY <1>1, <2>1
  <2> QED BY <2>2 DEF FormInv, OwnButtonInv
<1> QED BY <1>2, <1>3, <1>4 DEF FormInv
\* The click starts as many downloads of u as there are places it gets past.
LEMMA ClickStarts ==
    ASSUME TypeOK, StartedInv, NEW stop \in 1..Len(list) + 1, NEW u \in Addresses,
           StopsAt(stop),
           DOMAIN jobs' = 1..Len(jobs) + (stop - 1),
           \A k \in DOMAIN jobs : jobs'[k] = jobs[k],
           \A k \in 1..stop - 1 : jobs'[Len(jobs) + k].name = list[k],
           labels'[u] = labels[u] - Before(stop - 1, u), added'[u] = added[u]
    PROVE  Cardinality({j \in DOMAIN jobs' : jobs'[j].name = u}) + labels'[u] = added'[u]
PROOF
<1> DEFINE n == Len(jobs)
           Old == {j \in DOMAIN jobs : jobs[j].name = u}
           Places == {k \in 1..stop - 1 : list[k] = u}
           New == {j \in n + 1..n + (stop - 1) : jobs'[j].name = u}
           All == {j \in DOMAIN jobs' : jobs'[j].name = u}
<1>1. n \in Nat /\ DOMAIN jobs = 1..n /\ stop - 1 \in Nat /\ labels[u] \in Nat
  BY DEF TypeOK
<1>2. IsFiniteSet(Old) /\ Cardinality(Old) \in Nat
  BY StartedCounts
<1>3. IsFiniteSet(Places) /\ Cardinality(Places) = Before(stop - 1, u)
  BY <1>1, BeforeCounts DEF Before
<1>4. IsFiniteSet(New) /\ Cardinality(New) = Cardinality(Places)
  <2> DEFINE f == [k \in Places |-> n + k]
  <2>1. \A k \in Places : f[k] \in New
    BY <1>1
  <2>2. \A k, l \in Places : f[k] = f[l] => k = l
    BY <1>1
  <2>3. ASSUME NEW j \in New PROVE \E k \in Places : f[k] = j
    <3>1. j - n \in 1..stop - 1 /\ n + (j - n) = j
      BY <1>1
    <3>2. j - n \in Places
      BY <3>1
    <3> QED BY <3>1, <3>2
  <2>4. f \in Bijection(Places, New)
    <3>1. f \in [Places -> New]
      BY <2>1
    <3> HIDE DEF f, Places, New
    <3> QED BY <2>2, <2>3, <3>1 DEF Bijection, Injection, IsInjective, Surjection
  <2>5. ExistsBijection(Places, New)
    BY <2>4 DEF ExistsBijection
  <2> HIDE DEF Places, New
  <2> QED BY <1>3, <2>5, FS_Bijection
<1>5. All = Old \cup New
  <2>1. DOMAIN jobs' = DOMAIN jobs \cup (n + 1..n + (stop - 1))
    BY <1>1
  <2> QED BY <2>1
<1>6. Old \cap New = {}
  BY <1>1
<1>7. Cardinality(All) = Cardinality(Old) + Before(stop - 1, u)
  <2>1. Cardinality(Old \cap New) = 0
    BY <1>6, FS_EmptySet
  <2>2. Cardinality(Old \cup New) = Cardinality(Old) + Cardinality(New) - Cardinality(Old \cap New)
    <3> HIDE DEF Old, New
    <3> QED BY <1>2, <1>4, FS_Union
  <2>3. Before(stop - 1, u) \in Nat
    BY EnoughLabels
  <2> HIDE DEF All, Old, New, Places
  <2> QED BY <1>2, <1>3, <1>4, <1>5, <2>1, <2>2, <2>3
<1>8. Cardinality(Old) + labels[u] = added[u]
  BY DEF StartedInv
<1>9. Before(stop - 1, u) \in Nat
  BY EnoughLabels
<1> HIDE DEF All, Old
<1>10. Cardinality(All) + labels'[u] = added'[u]
  BY <1>1, <1>2, <1>7, <1>8, <1>9
<1> QED BY <1>10 DEF All

LEMMA ClickStep ==
    ASSUME TypeOK, FormInv, download1_Click
    PROVE  FormInv'
PROOF
<1> DEFINE n == Len(jobs)
<1>1. PICK stop \in 1..Len(list) + 1 :
         /\ StopsAt(stop)
         /\ jobs' = jobs \o [k \in 1..stop - 1 |-> NewJob(list[k])]
         /\ buttons' = buttons \o NewButtons(stop)
         /\ labels' = [u \in Addresses |-> labels[u] - Before(stop - 1, u)]
  BY DEF download1_Click
<1> DEFINE new == [k \in 1..stop - 1 |-> NewJob(list[k])]
<1>2. new \in Seq(Jobs) /\ Len(new) = stop - 1 /\ \A k \in 1..stop - 1 : new[k] = NewJob(list[k])
  BY NewDownloads
<1>3. /\ jobs \in Seq(Jobs) /\ buttons \in Seq(Buttons)
      /\ n \in Nat /\ DOMAIN jobs = 1..n /\ stop - 1 \in Nat
  BY DEF TypeOK
<1> HIDE DEF new
<1>4. /\ Len(jobs') = n + (stop - 1) /\ DOMAIN jobs' = 1..n + (stop - 1)
      /\ \A k \in DOMAIN jobs : jobs'[k] = jobs[k]
      /\ \A k \in 1..stop - 1 : jobs'[n + k] = NewJob(list[k])
      /\ \A j \in DOMAIN jobs' : j \in DOMAIN jobs \/ \E k \in 1..stop - 1 : j = n + k
  <2>1. jobs' = jobs \o new
    BY <1>1 DEF new
  <2>2. DOMAIN new = 1..stop - 1
    BY <1>2
  <2>3. /\ jobs \o new \in Seq(Jobs) /\ Len(jobs \o new) = n + Len(new)
        /\ \A k \in DOMAIN jobs : (jobs \o new)[k] = jobs[k]
        /\ \A k \in DOMAIN new : (jobs \o new)[n + k] = new[k]
        /\ \A j \in DOMAIN (jobs \o new) :
             j \in DOMAIN jobs \/ \E k \in DOMAIN new : j = n + k
    <3>1. jobs \in Seq(Jobs) /\ new \in Seq(Jobs)
      BY <1>2, <1>3
    <3> QED BY ONLY <3>1, Concatenated
  <2>4. DOMAIN (jobs \o new) = 1..n + Len(new)
    BY <2>3
  <2>5. /\ Len(jobs') = n + (stop - 1) /\ DOMAIN jobs' = 1..n + (stop - 1)
    BY <1>2, <2>1, <2>3, <2>4
  <2>6. \A k \in 1..stop - 1 : jobs'[n + k] = NewJob(list[k])
    BY <1>2, <2>1, <2>2, <2>3
  <2> QED BY <2>1, <2>2, <2>3, <2>5, <2>6
<1>5. \A k \in 1..stop - 1 :
           /\ jobs'[n + k].name = list[k]
           /\ ~jobs'[n + k].pressed /\ ~jobs'[n + k].canceled
  <2>1. \A k \in 1..stop - 1 : /\ NewJob(list[k]).name = list[k]
                                /\ ~NewJob(list[k]).pressed /\ ~NewJob(list[k]).canceled
    BY DEF NewJob
  <2> QED BY <1>4, <2>1
<1>6. /\ \A i \in DOMAIN buttons : i \in DOMAIN buttons' /\ buttons'[i] = buttons[i]
      /\ \A k \in 1..stop - 1 : \E i \in DOMAIN buttons' :
           buttons'[i] = [name |-> list[k], job |-> n + k]
      /\ \A i \in DOMAIN buttons' :
           \/ i \in DOMAIN buttons
           \/ buttons'[i].job = 0
           \/ \E k \in 1..stop - 1 : buttons'[i] = [name |-> list[k], job |-> n + k]
  <2>1. /\ NewButtons(stop) \in Seq(Buttons)
        /\ \A k \in 1..stop - 1 : \E i \in DOMAIN NewButtons(stop) :
             NewButtons(stop)[i] = [name |-> list[k], job |-> n + k]
        /\ \A i \in DOMAIN NewButtons(stop) :
             \/ NewButtons(stop)[i].job = 0
             \/ \E k \in 1..stop - 1 :
                  NewButtons(stop)[i] = [name |-> list[k], job |-> n + k]
    BY ClickButtons
  <2>2. PICK t \in Seq(Buttons) : t = NewButtons(stop)
    BY <2>1
  <2>3. /\ \A i \in DOMAIN buttons :
             i \in DOMAIN (buttons \o t) /\ (buttons \o t)[i] = buttons[i]
        /\ \A i \in DOMAIN t : /\ Len(buttons) + i \in DOMAIN (buttons \o t)
                               /\ (buttons \o t)[Len(buttons) + i] = t[i]
        /\ \A i \in DOMAIN (buttons \o t) :
             i \in DOMAIN buttons \/ \E k \in DOMAIN t : i = Len(buttons) + k
    BY ONLY <1>3, Concatenated
  <2>4. buttons' = buttons \o t
    BY <1>1, <2>2
  <2>5. ASSUME NEW k \in 1..stop - 1
        PROVE  \E i \in DOMAIN buttons' :
                  buttons'[i] = [name |-> list[k], job |-> n + k]
    <3>1. PICK i \in DOMAIN t : t[i] = [name |-> list[k], job |-> n + k]
      BY <2>1, <2>2
    <3>2. /\ Len(buttons) + i \in DOMAIN buttons'
          /\ buttons'[Len(buttons) + i] = [name |-> list[k], job |-> n + k]
      BY <2>3, <2>4, <3>1
    <3> QED BY <3>2
  <2>6. ASSUME NEW i \in DOMAIN buttons', i \notin DOMAIN buttons
        PROVE  \/ buttons'[i].job = 0
               \/ \E k \in 1..stop - 1 :
                    buttons'[i] = [name |-> list[k], job |-> n + k]
    <3>1. PICK k \in DOMAIN t : i = Len(buttons) + k
      BY <2>3, <2>4, <2>6
    <3>2. buttons'[i] = t[k]
      BY <2>3, <2>4, <3>1
    <3> QED BY <2>1, <2>2, <3>2
  <2> QED BY <2>3, <2>4, <2>5, <2>6
<1>7. ButtonInv'
  <2> SUFFICES ASSUME NEW i \in DOMAIN buttons'
               PROVE  /\ buttons'[i].job <= Len(jobs')
                      /\ buttons'[i].job > 0 =>
                           jobs'[buttons'[i].job].name = buttons'[i].name
    BY DEF ButtonInv
  <2>1. CASE i \in DOMAIN buttons
    <3>1. buttons[i].job \in Nat
      <4>1. buttons[i] \in Buttons
        BY <1>3, <2>1
      <4> QED BY <4>1 DEF Buttons
    <3>2. /\ buttons[i].job <= n
          /\ buttons[i].job > 0 => jobs[buttons[i].job].name = buttons[i].name
      BY <2>1 DEF FormInv, ButtonInv
    <3>3. buttons[i].job > 0 => buttons[i].job \in DOMAIN jobs
      BY <1>3, <3>1, <3>2
    <3>4. buttons'[i] = buttons[i]
      BY <1>6, <2>1
    <3>5. buttons[i].job <= Len(jobs')
      BY <1>3, <1>4, <3>1, <3>2
    <3> QED BY <1>4, <3>2, <3>3, <3>4, <3>5
  <2>2. CASE buttons'[i].job = 0
    BY <1>3, <1>4, <2>2
  <2>3. ASSUME NEW k \in 1..stop - 1, buttons'[i] = [name |-> list[k], job |-> n + k]
        PROVE  /\ buttons'[i].job <= Len(jobs')
               /\ jobs'[buttons'[i].job].name = buttons'[i].name
    <3>1. buttons'[i].job = n + k /\ buttons'[i].name = list[k] /\ n + k <= n + (stop - 1)
      BY <1>3, <2>3
    <3>2. jobs'[n + k].name = list[k]
      BY <1>5
    <3> QED BY <1>4, <3>1, <3>2
  <2> QED BY <1>6, <2>1, <2>2, <2>3
<1>8. StartedInv'
  <2> SUFFICES ASSUME NEW u \in Addresses
               PROVE  Cardinality({j \in DOMAIN jobs' : jobs'[j].name = u}) + labels'[u] = added'[u]
    BY DEF StartedInv
  <2>1. labels'[u] = labels[u] - Before(stop - 1, u) /\ added'[u] = added[u]
    BY <1>1 DEF download1_Click
  <2> QED BY <1>1, <1>4, <1>5, <2>1, ClickStarts DEF FormInv
<1>9. PressedInv' /\ CanceledMakesNoFile'
  <2>1. \A k \in 1..stop - 1 : ~jobs'[n + k].pressed /\ ~jobs'[n + k].canceled
    BY <1>5
  <2>2. ASSUME NEW j \in DOMAIN jobs'
        PROVE  /\ jobs'[j].canceled => jobs'[j].pressed
               /\ jobs'[j].pressed /\ jobs'[j].phase \in {"delay", "get"} => jobs'[j].canceled
               /\ jobs'[j].canceled => jobs'[j].phase \in {"get", "canceled", "failed"}
    <3>1. CASE j \in DOMAIN jobs
      BY <1>4, <3>1 DEF FormInv, PressedInv, CanceledMakesNoFile
    <3>2. CASE j \notin DOMAIN jobs
      BY <1>4, <2>1, <3>2
    <3> QED BY <3>1, <3>2
  <2> QED BY <2>2 DEF PressedInv, CanceledMakesNoFile
<1>10. OwnButtonInv'
  <2> SUFFICES ASSUME NEW j \in DOMAIN jobs', jobs'[j].phase \in Running,
                      ~jobs'[j].pressed, added[jobs'[j].name] = 1
               PROVE  \E i \in DOMAIN buttons' : buttons'[i].job = j
    BY DEF OwnButtonInv, download1_Click
  <2>1. CASE j \in DOMAIN jobs
    <3>1. PICK i \in DOMAIN buttons : buttons[i].job = j
      BY <1>4, <2>1 DEF FormInv, OwnButtonInv
    <3> QED BY <1>6, <3>1
  <2>2. CASE j \notin DOMAIN jobs
    <3>1. PICK k \in 1..stop - 1 : j = n + k
      BY <1>4, <2>2
    <3>2. PICK i \in DOMAIN buttons' : buttons'[i] = [name |-> list[k], job |-> n + k]
      BY <1>6
    <3> QED BY <3>1, <3>2
  <2> QED BY <2>1, <2>2
<1> QED BY <1>7, <1>8, <1>9, <1>10 DEF FormInv
\* A download goes on.
LEMMA GoesOnStep ==
    ASSUME TypeOK, FormInv, NEW j \in DOMAIN jobs, Delayed(j) \/ Answered(j)
    PROVE  FormInv'
PROOF
<1>1. /\ buttons' = buttons /\ labels' = labels /\ added' = added
      /\ jobs \in Seq(Jobs) /\ jobs[j] \in Jobs
  BY DEF Delayed, Answered, TypeOK
<1>2. PICK phase \in {"get", "file"} :
         /\ jobs' = [jobs EXCEPT ![j].phase = phase]
         /\ jobs[j].phase \in {"delay", "get"}
         /\ jobs[j].canceled => phase = "get"
  BY DEF Delayed, Answered
<1>3. /\ DOMAIN jobs' = DOMAIN jobs /\ Len(jobs') = Len(jobs)
      /\ \A k \in DOMAIN jobs : k # j => jobs'[k] = jobs[k]
      /\ jobs'[j].name = jobs[j].name /\ jobs'[j].phase = phase
      /\ jobs'[j].canceled = jobs[j].canceled /\ jobs'[j].pressed = jobs[j].pressed
  <2>1. jobs'[j] = [jobs[j] EXCEPT !.phase = phase]
    BY <1>2
  <2> QED BY <1>1, <1>2, <2>1 DEF Jobs
<1>4. \A k \in DOMAIN jobs : jobs'[k].name = jobs[k].name
  BY <1>3
<1>5. ButtonInv'
  <2>1. Within(buttons', buttons)
    BY <1>1 DEF Within
  <2> QED BY <1>3, <1>4, <2>1, ButtonKept DEF FormInv
<1>6. StartedInv'
  BY <1>1, <1>3, <1>4, StartedKept DEF FormInv
<1>7. PressedInv'
  <2>1. jobs[j].canceled => jobs[j].pressed
    BY DEF FormInv, PressedInv
  <2>2. jobs[j].pressed => jobs[j].canceled
    BY <1>2 DEF FormInv, PressedInv
  <2>3. ASSUME NEW k \in DOMAIN jobs, k # j
        PROVE  /\ jobs'[k].canceled => jobs'[k].pressed
               /\ jobs'[k].pressed /\ jobs'[k].phase \in {"delay", "get"} => jobs'[k].canceled
    BY <1>3, <2>3 DEF FormInv, PressedInv
  <2> QED BY <1>3, <2>1, <2>2, <2>3 DEF PressedInv
<1>8. OwnButtonInv'
  <2> SUFFICES ASSUME NEW k \in DOMAIN jobs, jobs'[k].phase \in Running,
                      ~jobs'[k].pressed, added[jobs'[k].name] = 1
               PROVE  \E i \in DOMAIN buttons : buttons[i].job = k
    BY <1>1, <1>3 DEF OwnButtonInv
  <2>1. jobs[k].phase \in Running /\ ~jobs[k].pressed /\ added[jobs[k].name] = 1
    <3>1. CASE k = j
      BY <1>2, <1>3, <3>1 DEF Running
    <3>2. CASE k # j
      BY <1>3, <3>2
    <3> QED BY <3>1, <3>2
  <2> QED BY <2>1 DEF FormInv, OwnButtonInv
<1>9. CanceledMakesNoFile'
  <2> SUFFICES ASSUME NEW k \in DOMAIN jobs, jobs'[k].canceled
               PROVE  jobs'[k].phase \in {"get", "canceled", "failed"}
    BY <1>3 DEF CanceledMakesNoFile
  <2>1. CASE k = j
    BY <1>2, <1>3, <2>1
  <2>2. CASE k # j
    BY <1>3, <2>2 DEF FormInv, CanceledMakesNoFile
  <2> QED BY <2>1, <2>2
<1> QED BY <1>5, <1>6, <1>7, <1>8, <1>9 DEF FormInv

\* A download ends.
LEMMA EndsStep ==
    ASSUME TypeOK, FormInv, NEW j \in DOMAIN jobs, NEW how \in Ended, Ends(j, how),
           jobs[j].canceled => how # "downloaded"
    PROVE  FormInv'
PROOF
<1>1. /\ buttons' = ButtonsAfter(j) /\ labels' = labels /\ added' = added
      /\ jobs' = [jobs EXCEPT ![j].phase = how]
      /\ jobs \in Seq(Jobs) /\ jobs[j] \in Jobs
  BY DEF Ends, TypeOK
<1>2. /\ DOMAIN jobs' = DOMAIN jobs /\ Len(jobs') = Len(jobs)
      /\ \A k \in DOMAIN jobs : k # j => jobs'[k] = jobs[k]
      /\ jobs'[j].name = jobs[j].name /\ jobs'[j].phase = how
      /\ jobs'[j].canceled = jobs[j].canceled /\ jobs'[j].pressed = jobs[j].pressed
  <2>1. jobs'[j] = [jobs[j] EXCEPT !.phase = how]
    BY <1>1
  <2> QED BY <1>1, <2>1 DEF Jobs
<1>3. \A k \in DOMAIN jobs : jobs'[k].name = jobs[k].name
  BY <1>2
<1>4. /\ Within(buttons', buttons)
      /\ \A i \in DOMAIN buttons : buttons[i].name # jobs[j].name =>
           \E n \in DOMAIN buttons' : buttons'[n] = buttons[i]
  BY <1>1, RemovedButton
<1>5. how \notin {"delay", "get"} /\ how \notin Running
  BY DEF Ended, Running
<1>6. ButtonInv'
  BY <1>2, <1>3, <1>4, ButtonKept DEF FormInv
<1>7. StartedInv'
  BY <1>1, <1>2, <1>3, StartedKept DEF FormInv
<1>8. PressedInv'
  <2>1. jobs[j].canceled => jobs[j].pressed
    BY DEF FormInv, PressedInv
  <2>2. ASSUME NEW k \in DOMAIN jobs, k # j
        PROVE  /\ jobs'[k].canceled => jobs'[k].pressed
               /\ jobs'[k].pressed /\ jobs'[k].phase \in {"delay", "get"} => jobs'[k].canceled
    BY <1>2, <2>2 DEF FormInv, PressedInv
  <2> QED BY <1>2, <1>5, <2>1, <2>2 DEF PressedInv
<1>9. OwnButtonInv'
  <2> SUFFICES ASSUME NEW k \in DOMAIN jobs, jobs'[k].phase \in Running,
                      ~jobs'[k].pressed, added[jobs'[k].name] = 1
               PROVE  \E i \in DOMAIN buttons' : buttons'[i].job = k
    BY <1>1, <1>2 DEF OwnButtonInv
  <2>1. k # j
    BY <1>2, <1>5
  <2>2. jobs[k].phase \in Running /\ ~jobs[k].pressed /\ added[jobs[k].name] = 1
    BY <1>2, <2>1
  <2>3. PICK i \in DOMAIN buttons : buttons[i].job = k
    BY <2>2 DEF FormInv, OwnButtonInv
  <2>4. k > 0
    BY <1>1
  <2>5. buttons[i].name = jobs[k].name
    BY <2>3, <2>4 DEF FormInv, ButtonInv
  <2>6. jobs[k].name # jobs[j].name
    BY <2>1, <2>2, UniqueName DEF FormInv
  <2>7. PICK n \in DOMAIN buttons' : buttons'[n] = buttons[i]
    BY <1>4, <2>5, <2>6
  <2> QED BY <2>3, <2>7
<1>10. CanceledMakesNoFile'
  <2> SUFFICES ASSUME NEW k \in DOMAIN jobs, jobs'[k].canceled
               PROVE  jobs'[k].phase \in {"get", "canceled", "failed"}
    BY <1>2 DEF CanceledMakesNoFile
  <2>1. CASE k = j
    BY <1>2, <2>1 DEF Ended
  <2>2. CASE k # j
    BY <1>2, <2>2 DEF FormInv, CanceledMakesNoFile
  <2> QED BY <2>1, <2>2
<1> QED BY <1>6, <1>7, <1>8, <1>9, <1>10 DEF FormInv

LEMMA DownloadStep ==
    ASSUME TypeOK, FormInv, NEW j \in DOMAIN jobs, Download(j)
    PROVE  FormInv'
PROOF
<1>1. CASE Delayed(j) \/ Answered(j)
  BY <1>1, GoesOnStep
<1>2. CASE CancelNoticed(j) \/ GetFails(j) \/ FileWritten(j) \/ FileFails(j)
  <2>1. \E how \in Ended : Ends(j, how) /\ (jobs[j].canceled => how # "downloaded")
    <3>1. jobs[j].phase = "file" => ~jobs[j].canceled
      BY DEF FormInv, CanceledMakesNoFile
    <3> QED BY <1>2, <3>1 DEF CancelNoticed, GetFails, FileWritten, FileFails, Ended
  <2> QED BY <2>1, EndsStep
<1> QED BY <1>1, <1>2 DEF Download

\* What a click on a Cancel button does to the buttons.
LEMMA CanceledButtons ==
    ASSUME TypeOK, FormInv, NEW i \in DOMAIN buttons, Cancel(buttons[i])
    PROVE  /\ Within(buttons', buttons)
           /\ \A k \in DOMAIN buttons :
                /\ buttons[k].job > 0 /\ buttons[k].job # buttons[i].job
                /\ added[jobs[buttons[k].job].name] = 1
                => \E n \in DOMAIN buttons' : buttons'[n] = buttons[k]
PROOF
<1> DEFINE b == buttons[i]
<1>1. buttons \in Seq(Buttons)
  BY DEF TypeOK
<1>2. CASE CancelEnds(b)
  <2>1. b.job > 0 /\ b.job \in DOMAIN jobs /\ b.name = jobs[b.job].name
    BY <1>2, CanceledJobs DEF FormInv, ButtonInv, CancelEnds
  <2>2. PICK bs \in Seq(Buttons) : bs = ButtonsAfter(b.job)
    BY <2>1, RemovedButton
  <2>3. /\ Within(bs, buttons)
        /\ \A k \in DOMAIN buttons : buttons[k].name # b.name =>
             \E n \in DOMAIN bs : bs[n] = buttons[k]
    BY <2>1, <2>2, RemovedButton
  <2>4. buttons' = RemoveFirst(bs, b)
    BY <1>2, <2>2 DEF CancelEnds, RemovePanelsElements
  <2>5. /\ Within(RemoveFirst(bs, b), bs)
        /\ \A k \in DOMAIN bs : bs[k] # b =>
             \E n \in DOMAIN RemoveFirst(bs, b) : RemoveFirst(bs, b)[n] = bs[k]
    <3>1. \A e :
            /\ Within(RemoveFirst(bs, e), bs)
            /\ \A k \in DOMAIN bs : bs[k] # e =>
                 \E n \in DOMAIN RemoveFirst(bs, e) : RemoveFirst(bs, e)[n] = bs[k]
      BY RemovedFirst
    <3> QED BY <3>1
  <2>6. Within(buttons', buttons)
    BY <2>3, <2>4, <2>5 DEF Within
  <2>7. ASSUME NEW k \in DOMAIN buttons,
               buttons[k].job > 0, buttons[k].job # b.job,
               added[jobs[buttons[k].job].name] = 1
        PROVE  \E n \in DOMAIN buttons' : buttons'[n] = buttons[k]
    <3>1. buttons[k].job \in DOMAIN jobs /\ buttons[k].name = jobs[buttons[k].job].name
      <4>1. buttons[k] \in Buttons
        BY <1>1
      <4>2. buttons[k].job \in Nat /\ buttons[k].job <= Len(jobs) /\ Len(jobs) \in Nat
        BY <4>1 DEF Buttons, FormInv, ButtonInv, TypeOK
      <4>3. DOMAIN jobs = 1..Len(jobs)
        BY DEF TypeOK
      <4> QED BY <2>7, <4>2, <4>3 DEF FormInv, ButtonInv
    <3>2. buttons[k].name # b.name
      BY <2>1, <2>7, <3>1, UniqueName DEF FormInv
    <3>3. PICK n \in DOMAIN bs : bs[n] = buttons[k]
      BY <2>3, <3>2
    <3>4. bs[n] # b
      BY <2>7, <3>3
    <3> QED BY <2>4, <2>5, <3>3, <3>4
  <2> QED BY <2>6, <2>7
<1>3. CASE CancelRequested(b) \/ CancelIgnored(b)
  <2>1. buttons' = RemoveFirst(buttons, b)
    BY <1>3 DEF CancelRequested, CancelIgnored, RemovePanelsElements
  <2>2. /\ Within(RemoveFirst(buttons, b), buttons)
        /\ \A k \in DOMAIN buttons : buttons[k] # b =>
             \E n \in DOMAIN RemoveFirst(buttons, b) : RemoveFirst(buttons, b)[n] = buttons[k]
    BY ONLY <1>1, RemovedFirst
  <2>3. \A k \in DOMAIN buttons : buttons[k].job # b.job => buttons[k] # b
    OBVIOUS
  <2> HIDE DEF b
  <2> QED BY <2>1, <2>2, <2>3 DEF b
<1> QED BY <1>2, <1>3 DEF Cancel

\* How the canceled download goes on.
LEMMA CanceledPhase ==
    ASSUME TypeOK, FormInv, NEW i \in DOMAIN buttons, Cancel(buttons[i]),
           buttons[i].job > 0
    PROVE  LET job == jobs'[buttons[i].job]
           IN  /\ job.phase \in {"delay", "get"} => job.canceled
               /\ job.canceled => job.phase \in {"get", "canceled", "failed"}
PROOF
<1> DEFINE b == buttons[i]
           j == buttons[i].job
<1>1. j \in DOMAIN jobs /\ jobs \in Seq(Jobs)
  BY CanceledJobs DEF FormInv, TypeOK
<1>2. jobs[j] \in Jobs
  BY <1>1
<1>3. CASE CancelEnds(b)
  <2>1. jobs'[j].phase = "canceled"
    BY <1>1, <1>2, <1>3 DEF CancelEnds, Jobs
  <2> QED BY <2>1
<1>4. CASE CancelRequested(b)
  <2>1. jobs'[j].phase = "get" /\ jobs'[j].canceled
    BY <1>1, <1>2, <1>4 DEF CancelRequested, Jobs
  <2> QED BY <2>1
<1>5. CASE CancelIgnored(b)
  <2>1. jobs[j].phase \notin {"delay", "get"}
    BY <1>5 DEF CancelIgnored
  <2>2. jobs'[j].phase = jobs[j].phase /\ jobs'[j].canceled = jobs[j].canceled
    BY <1>1, <1>2, <1>5 DEF CancelIgnored, Jobs
  <2>3. jobs[j].canceled => jobs[j].phase \in {"get", "canceled", "failed"}
    BY <1>1 DEF FormInv, CanceledMakesNoFile
  <2> QED BY <2>1, <2>2, <2>3
<1> QED BY <1>3, <1>4, <1>5 DEF Cancel

LEMMA CancelStep ==
    ASSUME TypeOK, FormInv, NEW i \in DOMAIN buttons, Cancel(buttons[i])
    PROVE  FormInv'
PROOF
<1> DEFINE c == buttons[i].job
<1>1. /\ jobs' \in Seq(Jobs) /\ DOMAIN jobs' = DOMAIN jobs
      /\ c > 0 => c \in DOMAIN jobs /\ jobs'[c].name = jobs[c].name /\ jobs'[c].pressed
      /\ \A k \in DOMAIN jobs : k # c => jobs'[k] = jobs[k]
  BY CanceledJobs DEF FormInv
<1>2. /\ jobs \in Seq(Jobs) /\ DOMAIN jobs = 1..Len(jobs) /\ Len(jobs) \in Nat
      /\ Len(jobs') = Len(jobs)
  BY <1>1 DEF TypeOK
<1>3. \A k \in DOMAIN jobs : jobs'[k].name = jobs[k].name
  BY <1>1, <1>2
<1>4. labels' = labels /\ added' = added
  BY DEF Cancel, CancelEnds, CancelRequested, CancelIgnored
<1>5. /\ Within(buttons', buttons)
      /\ \A k \in DOMAIN buttons :
           buttons[k].job > 0 /\ buttons[k].job # c /\ added[jobs[buttons[k].job].name] = 1
           => \E n \in DOMAIN buttons' : buttons'[n] = buttons[k]
  BY CanceledButtons
<1>6. c > 0 => /\ jobs'[c].phase \in {"delay", "get"} => jobs'[c].canceled
               /\ jobs'[c].canceled => jobs'[c].phase \in {"get", "canceled", "failed"}
  BY CanceledPhase
<1> HIDE DEF c
<1>7. ButtonInv'
  BY <1>2, <1>3, <1>5, ButtonKept DEF FormInv
<1>8. StartedInv'
  BY <1>1, <1>3, <1>4, StartedKept DEF FormInv
<1>9. \A k \in DOMAIN jobs : k = c => c > 0
  BY <1>2
<1>10. PressedInv' /\ CanceledMakesNoFile'
  <2>1. ASSUME NEW k \in DOMAIN jobs
        PROVE  /\ jobs'[k].canceled => jobs'[k].pressed
               /\ jobs'[k].pressed /\ jobs'[k].phase \in {"delay", "get"} => jobs'[k].canceled
               /\ jobs'[k].canceled => jobs'[k].phase \in {"get", "canceled", "failed"}
    <3>1. CASE k = c
      BY <1>1, <1>6, <1>9, <3>1
    <3>2. CASE k # c
      BY <1>1, <3>2 DEF FormInv, PressedInv, CanceledMakesNoFile
    <3> QED BY <3>1, <3>2
  <2> QED BY <1>1, <2>1 DEF PressedInv, CanceledMakesNoFile
<1>11. OwnButtonInv'
  <2> SUFFICES ASSUME NEW k \in DOMAIN jobs, jobs'[k].phase \in Running,
                      ~jobs'[k].pressed, added[jobs'[k].name] = 1
               PROVE  \E n \in DOMAIN buttons' : buttons'[n].job = k
    BY <1>1, <1>4 DEF OwnButtonInv
  <2>1. k # c
    BY <1>1, <1>9
  <2>2. jobs[k].phase \in Running /\ ~jobs[k].pressed /\ added[jobs[k].name] = 1
    BY <1>1, <2>1
  <2>3. PICK n \in DOMAIN buttons : buttons[n].job = k
    BY <2>2 DEF FormInv, OwnButtonInv
  <2>4. k > 0
    BY <1>2
  <2>5. PICK m \in DOMAIN buttons' : buttons'[m] = buttons[n]
    BY <1>5, <2>1, <2>2, <2>3, <2>4
  <2> QED BY <2>3, <2>5
<1> QED BY <1>7, <1>8, <1>10, <1>11 DEF FormInv

LEMMA InvStep ==
    ASSUME TypeOK, FormInv, [Next]_vars
    PROVE  FormInv'
PROOF
<1>1. CASE \E u \in Addresses : addButton_Click(u)
  BY <1>1, AddStep
<1>2. CASE download1_Click
  BY <1>2, ClickStep
<1>3. CASE \E j \in DOMAIN jobs : Download(j)
  BY <1>3, DownloadStep
<1>4. CASE \E i \in DOMAIN buttons : Cancel(buttons[i])
  BY <1>4, CancelStep
<1>5. CASE UNCHANGED vars
  BY <1>5 DEF vars, FormInv, ButtonInv, StartedInv, PressedInv, OwnButtonInv, CanceledMakesNoFile
<1> QED BY <1>1, <1>2, <1>3, <1>4, <1>5 DEF Next
----------------------------------------------------------------------------
(* Theorems *)

LEMMA Inductive == Spec => [](TypeOK /\ FormInv)
PROOF
<1>1. Init => TypeOK /\ FormInv
  BY TypeInit, InvInit
<1>2. TypeOK /\ FormInv /\ [Next]_vars => TypeOK' /\ FormInv'
  BY TypeStep, InvStep DEF FormInv
<1> QED BY <1>1, <1>2, PTL DEF Spec

\* Every variable keeps its type; no address has a negative number of labels,
\* although a click takes them away one by one (Form1.cs:54).
THEOREM TypeCorrect == Spec => []TypeOK
PROOF BY Inductive, PTL

\* Labels become downloads one by one, buttons know their downloads, tokens
\* follow the clicks (Form1.cs:43-67,92-96).
THEOREM FormCorrect == Spec => []FormInv
PROOF BY Inductive, PTL

\* No address is downloaded more often than it was added (Form1.cs:43-58).
THEOREM StartsAreAdded == Spec => []StartedOncePerAdd
PROOF
<1>1. TypeOK /\ FormInv => StartedOncePerAdd
  <2> SUFFICES ASSUME TypeOK, FormInv, NEW u \in Addresses
               PROVE  Cardinality({j \in DOMAIN jobs : jobs[j].name = u}) <= added[u]
    BY DEF StartedOncePerAdd
  <2> DEFINE c == Cardinality({j \in DOMAIN jobs : jobs[j].name = u})
  <2>1. c \in Nat
    BY StartedCounts
  <2>2. c + labels[u] = added[u]
    BY DEF FormInv, StartedInv
  <2>3. labels[u] \in Nat /\ added[u] \in Nat
    BY DEF TypeOK
  <2> HIDE DEF c
  <2>4. c <= added[u]
    BY <2>1, <2>2, <2>3
  <2> QED BY <2>4 DEF c
<1> QED BY <1>1, Inductive, PTL

\* A download canceled before its page came leaves no file (DownloadWorker.cs:25-27).
THEOREM CanceledLeavesNoFile == Spec => []CanceledMakesNoFile
PROOF
<1>1. FormInv => CanceledMakesNoFile
  BY DEF FormInv
<1> QED BY <1>1, Inductive, PTL

\* A download with a unique name keeps its Cancel button (Form1.cs:53,65).
THEOREM RunningIsCancellable == Spec => []CancellableWhileRunning
PROOF
<1>1. FormInv => CancellableWhileRunning
  BY DEF FormInv, PressedInv, OwnButtonInv, CancellableWhileRunning, Running
<1> QED BY <1>1, Inductive, PTL

\* With unique names only a clicked Cancel button makes the waiting loop fail (Form1.cs:65).
THEOREM WaitsFailByCancel == Spec => OnlyCancelFailsWait
PROOF
<1> DEFINE Fails(b) == /\ batches[b].state = "waiting" /\ batches'[b].state = "failed"
           Clicked(b) == \E j \in batches[b].todo :
                         /\ jobs[j].phase \in Running /\ jobs'[j].phase \in Ended
                         /\ jobs[j].pressed \/ added[jobs[j].name] > 1
<1>1. ASSUME TypeOK, FormInv, [Next]_vars, NEW b \in DOMAIN batches, Fails(b)
      PROVE  Clicked(b)
  <2>1. CASE \E u \in Addresses : addButton_Click(u)
    BY <1>1, <2>1 DEF addButton_Click
  <2>2. CASE download1_Click
    <3>1. PICK e : batches' = Append(batches, e)
      BY <2>2 DEF download1_Click
    <3>2. batches'[b] = batches[b]
      BY <1>1, <3>1 DEF TypeOK
    <3> QED BY <1>1, <3>2
  <2>3. CASE \E j \in DOMAIN jobs : Download(j)
    <3>1. PICK j \in DOMAIN jobs : Download(j)
      BY <2>3
    <3>2. CASE Delayed(j) \/ Answered(j)
      BY <1>1, <3>2 DEF Delayed, Answered
    <3>3. CASE CancelNoticed(j) \/ GetFails(j) \/ FileWritten(j) \/ FileFails(j)
      <4>1. PICK how \in Ended : Ends(j, how)
        BY <3>3 DEF CancelNoticed, GetFails, FileWritten, FileFails, Ended
      <4>2. jobs[j].phase \in Running
        BY <3>3 DEF CancelNoticed, GetFails, FileWritten, FileFails, Running
      <4>3. jobs'[j].phase = how
        <5>1. jobs \in Seq(Jobs) /\ jobs[j] \in Jobs
          BY <1>1 DEF TypeOK
        <5> QED BY <4>1, <5>1 DEF Ends, Jobs
      <4>4. j \in batches[b].todo /\ ~HasButton(jobs[j].name)
        <5>1. batches'[b] = BatchAfter(batches[b], j)
          BY <1>1, <4>1 DEF Ends
        <5> QED BY <1>1, <5>1 DEF BatchAfter
      <4>5. jobs[j].pressed \/ added[jobs[j].name] # 1
        <5> SUFFICES ASSUME ~jobs[j].pressed, added[jobs[j].name] = 1 PROVE FALSE
          OBVIOUS
        <5>1. PICK i \in DOMAIN buttons : buttons[i].job = j
          BY <1>1, <4>2 DEF FormInv, OwnButtonInv
        <5>2. j > 0
          BY <1>1 DEF TypeOK
        <5>3. buttons[i].name = jobs[j].name
          BY <1>1, <5>1, <5>2 DEF FormInv, ButtonInv
        <5> QED BY <4>4, <5>3 DEF HasButton
      <4>6. added[jobs[j].name] \in Nat \ {0}
        BY <1>1, NameWasAdded DEF FormInv
      <4>7. jobs[j].pressed \/ added[jobs[j].name] > 1
        BY <4>5, <4>6
      <4> QED BY <4>2, <4>3, <4>4, <4>7
    <3> QED BY <3>1, <3>2, <3>3 DEF Download
  <2>4. CASE \E i \in DOMAIN buttons : Cancel(buttons[i])
    <3>1. PICK i \in DOMAIN buttons : Cancel(buttons[i])
      BY <2>4
    <3>2. CASE CancelEnds(buttons[i])
      <4>1. buttons[i].job > 0 /\ buttons[i].name = jobs[buttons[i].job].name
        BY <1>1, <3>2 DEF CancelEnds, FormInv, ButtonInv
      <4>2. HasButton(jobs[buttons[i].job].name)
        BY <4>1 DEF HasButton
      <4>3. batches'[b] = BatchAfter(batches[b], buttons[i].job)
        BY <1>1, <3>2 DEF CancelEnds
      <4> QED BY <1>1, <4>2, <4>3 DEF BatchAfter
    <3>3. CASE CancelRequested(buttons[i]) \/ CancelIgnored(buttons[i])
      BY <1>1, <3>3 DEF CancelRequested, CancelIgnored
    <3> QED BY <3>1, <3>2, <3>3 DEF Cancel
  <2>5. CASE UNCHANGED vars
    BY <1>1, <2>5 DEF vars
  <2> QED BY <1>1, <2>1, <2>2, <2>3, <2>4, <2>5 DEF Next
<1>2. TypeOK /\ FormInv /\ [Next]_vars =>
        [\A b \in DOMAIN batches :
           (batches[b].state = "waiting" /\ batches'[b].state = "failed")
           => \E j \in batches[b].todo :
                 /\ jobs[j].phase \in Running /\ jobs'[j].phase \in Ended
                 /\ jobs[j].pressed \/ added[jobs[j].name] > 1]_vars
  BY <1>1
<1> QED BY <1>2, Inductive, PTL DEF Spec, OnlyCancelFailsWait
=============================================================================
