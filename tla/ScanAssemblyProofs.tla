------------------------- MODULE ScanAssemblyProofs -------------------------
(***************************************************************************)
(* Proofs about ScanAssembly, for any files, names, barcodes and starts.   *)
(* What needs that no other program opens the files says so.               *)
(***************************************************************************)
EXTENDS ScanAssembly, SequenceLemmas

----------------------------------------------------------------------------
(* Types *)

\* What every action of the handler needs to know about the file it works on.
LEMMA NumberTypes ==
    ASSUME NEW f \in Files
    PROVE  /\ Number[f] \in Int /\ (Number[f] # NoNumber => Number[f] \in Nat)
           /\ f # NoFile
           /\ Code[f] \in {"none", "separator", "other", "unreadable"}
PROOF BY AssemblyAssumption DEF NoNumber

LEMMA HandlingTypes ==
    TypeOK /\ step # "next" => current \in Files /\ mode \in {"start", "watch"}
PROOF BY DEF TypeOK

\* The types of everything but location, pages and sent after the process ended.
LEMMA EndTypes ==
    ASSUME TypeOK, ProcessEnds, UNCHANGED <<users, sent, runs>>,
           location' \in [Files -> Folders]
    PROVE  TypeOK'
PROOF
<1>1. events' \in Seq(Files) /\ pages' \in Seq(Files)
  BY DEF ProcessEnds
<1> QED BY <1>1 DEF TypeOK, ProcessEnds, users, runs

LEMMA DeletedType ==
    TypeOK /\ step = "rules" /\ RemoveCoded => location' \in [Files -> Folders]
PROOF BY HandlingTypes DEF TypeOK, RemoveCoded, Folders

\* Rules change no more than where the file is, the number and the timer.
LEMMA RuleTypes ==
    ASSUME TypeOK, AtRules, RemoveCoded, Arm, number' \in Nat,
           step' \in {"save", "page"},
           UNCHANGED <<users, mode, current, todo, events, pages, sent, runs>>
    PROVE  TypeOK'
PROOF
<1>1. location' \in [Files -> Folders]
  BY DeletedType DEF AtRules
<1>2. armed' \in BOOLEAN
  BY DEF TypeOK, Arm
<1> QED BY <1>1, <1>2, HandlingTypes DEF TypeOK, AtRules, users, runs

LEMMA MoveTypes ==
    ASSUME TypeOK, NEW folder \in Folders, MoveCurrent(folder), step # "next"
    PROVE  TypeOK'
PROOF
<1>1. location' \in [Files -> Folders]
  BY HandlingTypes DEF TypeOK, MoveCurrent
<1> QED BY <1>1 DEF TypeOK, MoveCurrent, users, rules, runs

\* Nothing is moved but from the processing to the success folder.
MovesToSuccess == \A f \in Files :
    location'[f] = location[f] \/ (location[f] = "processing" /\ location'[f] = "success")

LEMMA MovedFiles ==
    ASSUME TypeOK, NEW moved \in SUBSET Movable, location' = MovedToSuccess(moved)
    PROVE  location' \in [Files -> Folders] /\ MovesToSuccess
PROOF BY DEF TypeOK, MovedToSuccess, Movable, InFolder, MovesToSuccess, Folders

LEMMA StopMoves ==
    ASSUME TypeOK, StopAgent
    PROVE  /\ location' \in [Files -> Folders] /\ MovesToSuccess
           /\ mode # "down" /\ (step = "move" \/ UNCHANGED location)
PROOF
<1>1. CASE UNCHANGED location
  BY <1>1 DEF TypeOK, MovesToSuccess, StopAgent
<1>2. CASE \E moved \in SUBSET Movable : location' = MovedToSuccess(moved)
  BY <1>2, MovedFiles DEF StopAgent
<1> QED BY <1>1, <1>2 DEF StopAgent

LEMMA ProcessedMoves ==
    TypeOK /\ MoveProcessed => location' \in [Files -> Folders] /\ MovesToSuccess
PROOF BY MovedFiles DEF MoveProcessed

\* What an exception of File.Move or File.Delete leaves.
LEMMA InBetween ==
    ASSUME TypeOK, NEW f \in Files, OpenedInBetween(f)
    PROVE  /\ Has("inUse") /\ step # "next" /\ ProcessEnds
           /\ UNCHANGED <<writing, sent, runs>> /\ reading' \subseteq Files
           /\ location' \in [Files -> Folders] /\ MovesToSuccess
           /\ step = "move" \/ UNCHANGED location
PROOF
<1>1. location' \in [Files -> Folders] /\ MovesToSuccess /\ (step = "move" \/ UNCHANGED location)
  <2>1. CASE UNCHANGED location
    BY <2>1 DEF TypeOK, MovesToSuccess
  <2>2. CASE step = "move" /\ \E moved \in SUBSET (Movable \ {f}) : location' = MovedToSuccess(moved)
    BY <2>2, MovedFiles
  <2> QED BY <2>1, <2>2 DEF OpenedInBetween
<1>2. step # "next"
  BY DEF OpenedInBetween, AboutToTake, AtRules
<1> QED BY <1>1, <1>2 DEF OpenedInBetween, TypeOK

LEMMA TypeInit == Init => TypeOK
PROOF
<1> SUFFICES ASSUME Init PROVE TypeOK
  OBVIOUS
<1>1. events \in Seq(Files) /\ pages \in Seq(Files) /\ sent \in Seq(Seq(Files))
  BY DEF Init
<1>2. location \in [Files -> Folders]
  BY DEF Init, Folders
<1>3. starts \in 0..MaxStarts
  BY AssemblyAssumption DEF Init
<1> QED BY <1>1, <1>2, <1>3 DEF Init, TypeOK

LEMMA TypeStep == TypeOK /\ [Next]_vars => TypeOK'
PROOF
<1> SUFFICES ASSUME TypeOK, [Next]_vars PROVE TypeOK'
  OBVIOUS
<1> USE DEF folders, users, rules, control, runs
<1>1. CASE UNCHANGED vars
  BY <1>1 DEF TypeOK, vars
<1>2. CASE Device
  <2>1. ASSUME NEW f \in Files, CreateFile(f) PROVE TypeOK'
    <3>1. events' \in Seq(Files)
      BY <2>1 DEF CreateFile, TypeOK
    <3>2. location' \in [Files -> Folders] /\ writing' \subseteq Files
      BY <2>1 DEF CreateFile, TypeOK, Folders
    <3> QED BY <2>1, <3>1, <3>2 DEF CreateFile, TypeOK
  <2>2. ASSUME NEW f \in Files, FinishFile(f) PROVE TypeOK'
    BY <2>2 DEF FinishFile, TypeOK
  <2> QED BY <1>2, <2>1, <2>2 DEF Device
<1>3. CASE Others
  BY <1>3 DEF Others, OpenFile, CloseFile, TypeOK
<1>4. CASE EventsOverflow
  <2>1. events' \in Seq(Files)
    BY <1>4 DEF EventsOverflow
  <2> QED BY <1>4, <2>1 DEF EventsOverflow, TypeOK
<1>5. CASE StartAgent
  BY <1>5, AssemblyAssumption DEF StartAgent, TypeOK, InFolder
<1>6. CASE StopAgent
  BY <1>6, StopMoves, EndTypes DEF StopAgent
<1>7. ASSUME NEW f \in Files, NextWaitingFile(f) PROVE TypeOK'
  BY <1>7 DEF NextWaitingFile, TypeOK
<1>8. CASE EnableWatcher
  BY <1>8 DEF EnableWatcher, TypeOK
<1>9. CASE HandleFile \/ GiveUpFile
  <2>1. events # <<>> /\ events \in Seq(Files) /\ events' = Tail(events)
    BY <1>9 DEF HandleFile, GiveUpFile, TypeOK
  <2>2. events' \in Seq(Files) /\ Head(events) \in Files
    BY <2>1, HeadTailProperties
  <2> QED BY <1>9, <2>2 DEF HandleFile, GiveUpFile, TypeOK
<1>10. CASE TimerMatches
  BY <1>10 DEF TimerMatches, AtRules, TypeOK
<1>11. CASE RuleThrows
  <2>1. location' \in [Files -> Folders]
    BY <1>11, HandlingTypes DEF RuleThrows, AtRules, TypeOK, Folders
  <2> QED BY <1>11, <2>1, EndTypes DEF RuleThrows
<1>12. CASE BarcodeMatches
  <2>1. number' \in Nat
    BY <1>12 DEF BarcodeMatches, TypeOK
  <2> QED BY <1>12, <2>1, RuleTypes DEF BarcodeMatches
<1>13. CASE NameMatches \/ NoRuleMatches
  <2>1. NameRule /\ step' \in {"save", "page"}
    BY <1>13 DEF NameMatches, NoRuleMatches
  <2>2. number' \in Nat
    BY <2>1, HandlingTypes, NumberTypes DEF NameRule, AtRules
  <2> QED BY <2>1, <2>2, RuleTypes DEF NameRule
<1>14. CASE SaveDocument
  <2>1. sent' \in Seq(Seq(Files)) /\ pages' \in Seq(Files)
    BY <1>14 DEF SaveDocument, TypeOK
  <2> QED BY <1>14, <2>1 DEF SaveDocument, TypeOK
<1>15. CASE MoveProcessed
  BY <1>15, ProcessedMoves DEF MoveProcessed, TypeOK
<1>16. CASE AddPage
  <2>1. pages' \in Seq(Files)
    BY <1>16, HandlingTypes DEF AddPage, TypeOK
  <2> QED BY <1>16, <2>1 DEF AddPage, TypeOK
<1>17. CASE AddPageThrows
  <2>1. location' \in [Files -> Folders] /\ UNCHANGED <<users, sent, runs>>
    BY <1>17 DEF AddPageThrows, TypeOK
  <2> QED BY <1>17, <2>1, EndTypes DEF AddPageThrows
<1>18. CASE StorePage \/ RejectFile
  BY <1>18, MoveTypes DEF StorePage, RejectFile, Folders
<1>19. ASSUME NEW f \in Files, OpenedInBetween(f) PROVE TypeOK'
  <2>1. events' \in Seq(Files) /\ pages' \in Seq(Files)
    BY <1>19 DEF OpenedInBetween, ProcessEnds
  <2>2. /\ location' \in [Files -> Folders] /\ UNCHANGED <<writing, sent, starts, left>>
        /\ reading' \subseteq Files /\ mode' = "down" /\ step' = "next" /\ current' = NoFile
        /\ todo' = {} /\ armed' = FALSE /\ number' = 0
    BY <1>19, InBetween DEF ProcessEnds
  <2> QED BY <2>1, <2>2 DEF TypeOK
<1> QED
  BY <1>1, <1>2, <1>3, <1>4, <1>5, <1>6, <1>7, <1>8, <1>9, <1>10, <1>11, <1>12,
     <1>13, <1>14, <1>15, <1>16, <1>17, <1>18, <1>19 DEF Next, Agent, ProcessFile

\* Every variable keeps its type.
THEOREM TypeCorrect == Spec => []TypeOK
PROOF BY TypeInit, TypeStep, PTL DEF Spec

----------------------------------------------------------------------------
(* What the handler of a file keeps *)

\* A file comes into the watched folder once; every move is out of it.
MovesOn == \A f \in Files :
    \/ location'[f] = location[f]
    \/ location[f] = "none" /\ location'[f] = "watch"
    \/ location'[f] \notin {"none", "watch"}

LEMMA FilesMoveOn ==
    ASSUME TypeOK, [Next]_vars
    PROVE  MovesOn
PROOF
<1> USE DEF MovesOn, folders, users, rules, control, runs
<1>1. CASE UNCHANGED location
  BY <1>1
<1>2. ASSUME NEW f \in Files, CreateFile(f)
      PROVE  MovesOn
  BY <1>2 DEF CreateFile, TypeOK
<1>3. CASE MovesToSuccess
  BY <1>3 DEF MovesToSuccess
<1>4. CASE RuleThrows
  BY <1>4, HandlingTypes DEF RuleThrows, AtRules, TypeOK
<1>5. CASE RemoveCoded /\ AtRules
  BY <1>5, HandlingTypes DEF RemoveCoded, AtRules, TypeOK
<1>6. CASE StopAgent \/ MoveProcessed \/ \E f \in Files : OpenedInBetween(f)
  BY <1>3, <1>6, StopMoves, ProcessedMoves, InBetween
<1>7. ASSUME NEW folder \in {"processing", "error"}, MoveCurrent(folder), step # "next"
      PROVE  MovesOn
  BY <1>7, HandlingTypes DEF MoveCurrent, TypeOK
<1>8. CASE StorePage \/ RejectFile
  BY <1>7, <1>8 DEF StorePage, RejectFile
<1>9. CASE BarcodeMatches \/ NameMatches \/ NoRuleMatches
  BY <1>5, <1>9 DEF BarcodeMatches, NameMatches, NoRuleMatches, NameRule
<1>10. ASSUME NEW f \in Files, FinishFile(f) \/ OpenFile(f) \/ CloseFile(f) \/ NextWaitingFile(f)
       PROVE  UNCHANGED location
  BY <1>10 DEF FinishFile, OpenFile, CloseFile, NextWaitingFile
<1>11. EventsOverflow \/ StartAgent \/ EnableWatcher \/ HandleFile \/ GiveUpFile
       \/ TimerMatches \/ SaveDocument \/ AddPage \/ AddPageThrows
       => UNCHANGED location
  BY DEF EventsOverflow, StartAgent, EnableWatcher, HandleFile, GiveUpFile,
         TimerMatches, SaveDocument, AddPage, AddPageThrows
<1>12. UNCHANGED vars => UNCHANGED location
  BY DEF vars
<1> QED
  BY <1>1, <1>2, <1>4, <1>6, <1>8, <1>9, <1>10, <1>11, <1>12
     DEF Next, Device, Others, Agent, ProcessFile

\* A file that was scanned stays scanned, wherever it is moved.
LEMMA StaysScanned ==
    ASSUME TypeOK, [Next]_vars
    PROVE  \A f \in Files : location[f] # "none" => location'[f] # "none"
PROOF BY FilesMoveOn DEF MovesOn

LEMMA EndControl ==
    ASSUME ProcessEnds
    PROVE  ControlInv'
PROOF
<1>1. events' = <<>> /\ todo' = {} /\ step' = "next" /\ pages' = <<>>
  BY DEF ProcessEnds
<1> QED BY <1>1 DEF ControlInv

\* The lists of files do not change, and the step is not the last one.
LEMMA StepControl ==
    ASSUME TypeOK, ControlInv, \A f \in Files : location[f] # "none" => location'[f] # "none",
           UNCHANGED <<mode, todo, events>>, step # "next",
           step' = "next" \/ current' = current,
           step' = "store" => pages' # <<>> /\ pages'[Len(pages')] = current,
           step' = "move" => pages' = <<>>
    PROVE  ControlInv'
PROOF
<1>1. current \in Files /\ mode # "down" /\ todo \subseteq Files
  BY HandlingTypes DEF TypeOK
<1>2. \A i \in DOMAIN events : events[i] \in Files
  BY DEF TypeOK
<1> QED BY <1>1, <1>2 DEF ControlInv, LastPage

LEMMA ControlStep == TypeOK /\ ControlInv /\ [Next]_vars => ControlInv'
PROOF
<1> SUFFICES ASSUME TypeOK, ControlInv, [Next]_vars PROVE ControlInv'
  OBVIOUS
<1> USE DEF folders, users, rules, control, runs
<1>0. \A f \in Files : location[f] # "none" => location'[f] # "none"
  BY StaysScanned
<1>e. \A i \in DOMAIN events : events[i] \in Files
  BY DEF TypeOK
<1>1. CASE UNCHANGED vars
  BY <1>1 DEF ControlInv, LastPage, vars
<1>2. ASSUME NEW f \in Files, CreateFile(f) PROVE ControlInv'
  <2>1. UNCHANGED <<mode, step, current, todo, pages>> /\ location'[f] = "watch"
    BY <1>2 DEF CreateFile, TypeOK
  <2>2. mode # "watch" => events' = <<>>
    BY <1>2 DEF CreateFile, ControlInv
  <2>3. \A i \in DOMAIN events' : location'[events'[i]] # "none"
    <3>1. CASE mode = "watch"
      <4>1. events \in Seq(Files) /\ events' = Append(events, f)
        BY <1>2, <3>1 DEF CreateFile, TypeOK
      <4>2. ASSUME NEW i \in DOMAIN events'
            PROVE  events'[i] = f \/ (i \in DOMAIN events /\ events'[i] = events[i])
        BY <4>1, AppendedElements
      <4> QED BY <1>0, <1>e, <2>1, <4>2 DEF ControlInv
    <3>2. CASE mode # "watch"
      BY <2>2, <3>2
    <3> QED BY <3>1, <3>2
  <2>4. step # "next" => location'[current] # "none"
    BY <1>0, HandlingTypes DEF ControlInv
  <2>5. \A g \in todo : location'[g] # "none"
    BY <1>0 DEF ControlInv, TypeOK
  <2> QED BY <2>1, <2>2, <2>3, <2>4, <2>5 DEF ControlInv, LastPage
<1>3. ASSUME NEW f \in Files, FinishFile(f) \/ OpenFile(f) \/ CloseFile(f) PROVE ControlInv'
  BY <1>3 DEF FinishFile, OpenFile, CloseFile, ControlInv, LastPage
<1>4. CASE EventsOverflow
  BY <1>4 DEF EventsOverflow, ControlInv, LastPage
<1>5. CASE StartAgent
  BY <1>5 DEF StartAgent, ControlInv, LastPage, InFolder, TypeOK
<1>6. CASE StopAgent \/ RuleThrows \/ AddPageThrows \/ \E f \in Files : OpenedInBetween(f)
  BY <1>6, EndControl DEF StopAgent, RuleThrows, AddPageThrows, OpenedInBetween
<1>7. ASSUME NEW f \in Files, NextWaitingFile(f) PROVE ControlInv'
  BY <1>7 DEF NextWaitingFile, ControlInv, LastPage, TypeOK
<1>8. CASE EnableWatcher
  BY <1>8 DEF EnableWatcher, ControlInv, LastPage
<1>9. CASE HandleFile \/ GiveUpFile
  <2>1. events # <<>> /\ events \in Seq(Files) /\ events' = Tail(events)
    BY <1>9 DEF HandleFile, GiveUpFile, TypeOK
  <2>2. \A i \in DOMAIN events' : i + 1 \in DOMAIN events /\ events'[i] = events[i + 1]
    BY <2>1, HeadTailProperties
  <2>3. 1 \in DOMAIN events /\ Head(events) = events[1]
    BY <2>1
  <2>4. CASE HandleFile
    BY <2>2, <2>3, <2>4 DEF HandleFile, ControlInv, LastPage
  <2>5. CASE GiveUpFile
    BY <2>2, <2>5 DEF GiveUpFile, ControlInv, LastPage
  <2> QED BY <1>9, <2>4, <2>5
<1>10. CASE TimerMatches \/ BarcodeMatches \/ NameMatches \/ NoRuleMatches
  BY <1>0, <1>10, StepControl DEF TimerMatches, BarcodeMatches, NameMatches,
     NoRuleMatches, NameRule, AtRules
<1>11. CASE SaveDocument \/ MoveProcessed
  BY <1>0, <1>11, StepControl DEF SaveDocument, MoveProcessed
<1>12. CASE AddPage
  <2>1. pages' # <<>> /\ pages'[Len(pages')] = current
    <3>1. pages \in Seq(Files) /\ current \in Files /\ pages' = Append(pages, current)
      BY <1>12, HandlingTypes DEF AddPage, TypeOK
    <3> QED BY <3>1, AppendedElements
  <2> QED BY <1>0, <1>12, <2>1, StepControl DEF AddPage
<1>13. CASE StorePage \/ RejectFile
  BY <1>0, <1>13, StepControl DEF StorePage, RejectFile, MoveCurrent
<1> QED
  BY <1>1, <1>2, <1>3, <1>4, <1>5, <1>6, <1>7, <1>8, <1>9, <1>10, <1>11, <1>12, <1>13
     DEF Next, Device, Others, Agent, ProcessFile

----------------------------------------------------------------------------
(* The success folder *)

\* A step of a started agent that explains every file of the two folders.
LEMMA SuccessKept ==
    ASSUME SuccessInv, UNCHANGED left, mode # "down",
           \A f \in Files : Sent(f) => Sent(f)',
           \A f \in Files : location'[f] = "success" =>
               location[f] = "success" \/ Sent(f)' \/ f \in left,
           mode' = "down" \/ \A f \in Files : location'[f] = "processing" =>
               Sent(f)' \/ Listed(f, pages') \/ f \in left
    PROVE  SuccessInv'
PROOF BY DEF SuccessInv, SuccessIsSent, InFolder

\* A step that brings no file into the two folders.
LEMMA QuietSuccess ==
    ASSUME SuccessInv, UNCHANGED <<sent, left>>,
           \A f \in Files : location'[f] \in {"processing", "success"} => location'[f] = location[f],
           mode' = "down" \/ (mode # "down" /\ UNCHANGED pages)
    PROVE  SuccessInv'
PROOF
<1>1. \A f : Sent(f)' <=> Sent(f)
  BY DEF Sent, Listed
<1>2. mode # "down" /\ UNCHANGED pages => \A f : Listed(f, pages') <=> Listed(f, pages)
  OBVIOUS
<1> QED BY <1>1, <1>2 DEF SuccessInv, SuccessIsSent, InFolder

\* A document that is sent stays sent.
LEMMA SentStays ==
    ASSUME TypeOK, NEW d \in Seq(Files), sent' = Append(sent, d)
    PROVE  /\ \A f : Sent(f) => Sent(f)'
           /\ \A f : Listed(f, d) => Sent(f)'
PROOF
<1>1. sent \in Seq(Seq(Files)) /\ DOMAIN sent = 1..Len(sent) /\ Len(sent) \in Nat
  BY DEF TypeOK
<1>2. /\ DOMAIN sent' = 1..Len(sent) + 1
      /\ \A k \in 1..Len(sent) : sent'[k] = sent[k]
      /\ sent'[Len(sent) + 1] = d
  BY <1>1, AppendedElements
<1>3. DOMAIN sent \subseteq DOMAIN sent' /\ Len(sent) + 1 \in DOMAIN sent'
  BY <1>1, <1>2
<1> QED BY <1>1, <1>2, <1>3 DEF Sent, Listed

\* Files go on to the success folder when the document was saved.
LEMMA MovesKeepSuccess ==
    ASSUME ControlInv, SuccessInv, MovesToSuccess, step = "move", mode # "down",
           UNCHANGED <<sent, left>>, mode' = "down" \/ UNCHANGED pages
    PROVE  SuccessInv'
PROOF
<1>1. \A f : Sent(f)' <=> Sent(f)
  BY DEF Sent, Listed
<1>2. \A f : ~Listed(f, pages)
  BY DEF ControlInv, Listed
<1>3. \A f \in Files : location[f] = "processing" => Sent(f)' \/ f \in left
  BY <1>1, <1>2 DEF SuccessInv, InFolder
<1> QED BY <1>1, <1>3, SuccessKept DEF MovesToSuccess

LEMMA SuccessStep == TypeOK /\ ControlInv /\ SuccessInv /\ [Next]_vars => SuccessInv'
PROOF
<1> SUFFICES ASSUME TypeOK, ControlInv, SuccessInv, [Next]_vars PROVE SuccessInv'
  OBVIOUS
<1> USE DEF folders, users, rules, control, runs
<1>0. step # "next" => mode # "down"
  BY HandlingTypes
<1>1. CASE UNCHANGED vars
  BY <1>1 DEF SuccessInv, SuccessIsSent, InFolder, Sent, Listed, vars
<1>2. ASSUME NEW f \in Files, CreateFile(f) PROVE SuccessInv'
  <2>1. \A g \in Files : location'[g] \in {"processing", "success"} => location'[g] = location[g]
    BY <1>2 DEF CreateFile, TypeOK
  <2> QED BY <1>0, <1>2, <2>1, QuietSuccess DEF CreateFile, SuccessInv
<1>3. ASSUME NEW f \in Files, FinishFile(f) \/ OpenFile(f) \/ CloseFile(f) PROVE SuccessInv'
  BY <1>0, <1>3, QuietSuccess DEF FinishFile, OpenFile, CloseFile, SuccessInv
<1>4. CASE EventsOverflow
  BY <1>0, <1>4, QuietSuccess DEF EventsOverflow, SuccessInv
<1>5. CASE StartAgent
  <2>1. UNCHANGED <<location, sent, pages>> /\ left' = left \cup InFolder("processing")
    BY <1>5 DEF StartAgent
  <2>2. \A f : Sent(f)' <=> Sent(f)
    BY <2>1 DEF Sent, Listed
  <2> QED BY <2>1, <2>2 DEF SuccessInv, SuccessIsSent, InFolder
<1>6. CASE StopAgent
  <2>1. mode # "down" /\ mode' = "down" /\ UNCHANGED <<sent, left>> /\ MovesToSuccess
    BY <1>6, StopMoves DEF StopAgent, ProcessEnds
  <2>2. CASE UNCHANGED location
    BY <2>1, <2>2, QuietSuccess
  <2>3. CASE step = "move"
    BY <2>1, <2>3, MovesKeepSuccess
  <2> QED BY <1>6, <2>2, <2>3, StopMoves
<1>7. ASSUME NEW f \in Files, NextWaitingFile(f) PROVE SuccessInv'
  BY <1>0, <1>7, QuietSuccess DEF NextWaitingFile
<1>8. CASE EnableWatcher \/ HandleFile \/ GiveUpFile
  BY <1>0, <1>8, QuietSuccess DEF EnableWatcher, HandleFile, GiveUpFile
<1>9. CASE RuleThrows \/ AddPageThrows
  <2>1. \A g \in Files : location'[g] \in {"processing", "success"} => location'[g] = location[g]
    BY <1>9, HandlingTypes DEF RuleThrows, AddPageThrows, AtRules, TypeOK
  <2> QED BY <1>9, <2>1, QuietSuccess DEF RuleThrows, AddPageThrows, ProcessEnds
<1>10. CASE TimerMatches
  BY <1>0, <1>10, QuietSuccess DEF TimerMatches, AtRules
<1>11. CASE BarcodeMatches \/ NameMatches \/ NoRuleMatches
  <2>1. RemoveCoded /\ step = "rules" /\ UNCHANGED <<mode, pages, sent, runs>>
    BY <1>11 DEF BarcodeMatches, NameMatches, NoRuleMatches, NameRule, AtRules
  <2>2. \A g \in Files : location'[g] \in {"processing", "success"} => location'[g] = location[g]
    BY <2>1, HandlingTypes DEF RemoveCoded, TypeOK
  <2> QED BY <1>0, <2>1, <2>2, QuietSuccess
<1>12. CASE SaveDocument
  <2>1. mode # "down" /\ UNCHANGED <<location, mode, left>>
    BY <1>0, <1>12 DEF SaveDocument
  <2>2. /\ \A f : Sent(f) => Sent(f)'
        /\ \A f : Listed(f, pages) => Sent(f)'
    <3>1. CASE pages = <<>>
      BY <1>12, <3>1 DEF SaveDocument, Sent, Listed
    <3>2. CASE pages # <<>>
      BY <1>12, <3>2, SentStays DEF SaveDocument, TypeOK
    <3> QED BY <3>1, <3>2
  <2>3. \A f \in Files : location'[f] = "processing" => Sent(f)' \/ f \in left
    BY <2>1, <2>2 DEF SuccessInv, InFolder
  <2> QED BY <2>1, <2>2, <2>3, SuccessKept
<1>13. CASE MoveProcessed
  <2>1. step = "move" /\ UNCHANGED <<sent, pages, left>> /\ MovesToSuccess
    BY <1>13, ProcessedMoves DEF MoveProcessed
  <2> QED BY <1>0, <2>1, MovesKeepSuccess
<1>14. CASE AddPage
  <2>1. pages \in Seq(Files) /\ current \in Files /\ pages' = Append(pages, current)
    BY <1>14, HandlingTypes DEF AddPage, TypeOK
  <2>2. DOMAIN pages \subseteq DOMAIN pages' /\ \A i \in DOMAIN pages : pages'[i] = pages[i]
    BY <2>1, AppendedElements
  <2>3. \A f : Listed(f, pages) => Listed(f, pages')
    BY <2>2 DEF Listed
  <2>4. UNCHANGED <<location, sent, mode, left>> /\ mode # "down"
    BY <1>0, <1>14 DEF AddPage
  <2>5. \A f : Sent(f)' <=> Sent(f)
    BY <2>4 DEF Sent, Listed
  <2>6. \A f \in Files : location'[f] = "processing" => Sent(f)' \/ Listed(f, pages') \/ f \in left
    BY <2>3, <2>4, <2>5 DEF SuccessInv, InFolder
  <2> QED BY <2>4, <2>5, <2>6, SuccessKept
<1>15. CASE StorePage
  <2>1. /\ UNCHANGED <<sent, pages, mode, left>> /\ mode # "down"
        /\ location' = location \/ location' = [location EXCEPT ![current] = "processing"]
    BY <1>0, <1>15 DEF StorePage, MoveCurrent
  <2>2. \A f : Sent(f)' <=> Sent(f)
    BY <2>1 DEF Sent, Listed
  <2>3. Listed(current, pages)
    <3>1. pages # <<>> /\ pages \in Seq(Files) /\ pages[Len(pages)] = current
      BY <1>15 DEF StorePage, ControlInv, LastPage, TypeOK
    <3>2. Len(pages) \in DOMAIN pages
      BY <3>1
    <3> QED BY <3>1, <3>2 DEF Listed
  <2>4. \A f \in Files : /\ location'[f] = "success" => location[f] = "success"
                         /\ location'[f] = "processing" => location[f] = "processing" \/ f = current
    BY <2>1 DEF TypeOK
  <2>5. \A f \in Files : location'[f] = "processing" => Sent(f)' \/ Listed(f, pages') \/ f \in left
    BY <2>1, <2>2, <2>3, <2>4 DEF SuccessInv, InFolder, Listed
  <2> QED BY <2>1, <2>2, <2>4, <2>5, SuccessKept
<1>16. CASE RejectFile
  <2>1. \A g \in Files : location'[g] \in {"processing", "success"} => location'[g] = location[g]
    BY <1>16 DEF RejectFile, MoveCurrent, TypeOK
  <2> QED BY <1>0, <1>16, <2>1, QuietSuccess DEF RejectFile, MoveCurrent
<1>17. ASSUME NEW f \in Files, OpenedInBetween(f) PROVE SuccessInv'
  <2>1. mode # "down" /\ mode' = "down" /\ UNCHANGED <<sent, left>> /\ MovesToSuccess
    BY <1>0, <1>17, InBetween DEF ProcessEnds
  <2>2. CASE UNCHANGED location
    BY <2>1, <2>2, QuietSuccess
  <2>3. CASE step = "move"
    BY <2>1, <2>3, MovesKeepSuccess
  <2> QED BY <1>17, <2>2, <2>3, InBetween
<1> QED
  BY <1>1, <1>2, <1>3, <1>4, <1>5, <1>6, <1>7, <1>8, <1>9, <1>10, <1>11, <1>12, <1>13,
     <1>14, <1>15, <1>16, <1>17 DEF Next, Device, Others, Agent, ProcessFile

----------------------------------------------------------------------------
(* The documents *)

\* No document got a page; the open one may have become a sent or a lost one.
NoNewPage ==
    \A k \in DOMAIN Assembled' :
        \/ k \in DOMAIN Assembled /\ Assembled'[k] = Assembled[k]
        \/ Assembled'[k] = <<>>

LEMMA AssembledElements ==
    ASSUME NEW s \in Seq(Seq(Files)), NEW p \in Seq(Files)
    PROVE  /\ DOMAIN Append(s, p) = 1..Len(s) + 1 /\ Len(s) \in Nat
           /\ \A k \in 1..Len(s) : Append(s, p)[k] = s[k]
           /\ Append(s, p)[Len(s) + 1] = p
           /\ \A k \in DOMAIN Append(s, p) : Append(s, p)[k] \in Seq(Files)
PROOF BY AppendedElements

LEMMA AssembledFacts ==
    TypeOK => /\ DOMAIN Assembled = 1..Len(sent) + 1 /\ Len(sent) \in Nat
              /\ \A k \in 1..Len(sent) : Assembled[k] = sent[k]
              /\ Assembled[Len(sent) + 1] = pages
              /\ \A k \in DOMAIN Assembled : Assembled[k] \in Seq(Files)
PROOF BY AssembledElements DEF TypeOK, Assembled

LEMMA AssembledFactsPrimed ==
    TypeOK' => /\ DOMAIN Assembled' = 1..Len(sent') + 1 /\ Len(sent') \in Nat
               /\ \A k \in 1..Len(sent') : Assembled'[k] = sent'[k]
               /\ Assembled'[Len(sent') + 1] = pages'
               /\ \A k \in DOMAIN Assembled' : Assembled'[k] \in Seq(Files)
PROOF BY AssembledElements DEF TypeOK, Assembled

LEMMA NoNewPageWhenQuiet ==
    ASSUME TypeOK, TypeOK', sent' = sent, pages' = pages \/ pages' = <<>>
    PROVE  NoNewPage
PROOF
<1>1. ASSUME NEW k \in DOMAIN Assembled'
      PROVE  (k \in DOMAIN Assembled /\ Assembled'[k] = Assembled[k]) \/ Assembled'[k] = <<>>
  BY AssembledFacts, AssembledFactsPrimed
<1> QED BY <1>1 DEF NoNewPage

LEMMA NoNewPageWhenSaved ==
    ASSUME TypeOK, TypeOK', SaveDocument
    PROVE  NoNewPage
PROOF
<1>1. CASE pages = <<>>
  BY <1>1, NoNewPageWhenQuiet DEF SaveDocument
<1>2. CASE pages # <<>>
  <2>1. sent' = Assembled /\ pages' = <<>>
    BY <1>2 DEF SaveDocument, Assembled
  <2>2. Len(sent') = Len(sent) + 1
    BY <2>1, AssembledFacts DEF TypeOK, Assembled
  <2>3. ASSUME NEW k \in DOMAIN Assembled'
        PROVE  (k \in DOMAIN Assembled /\ Assembled'[k] = Assembled[k]) \/ Assembled'[k] = <<>>
    <3>1. k \in 1..Len(sent) + 1 \/ k = Len(sent') + 1
      BY <2>2, AssembledFacts, AssembledFactsPrimed
    <3>2. CASE k \in 1..Len(sent) + 1
      BY <2>1, <2>2, <3>2, AssembledFacts, AssembledFactsPrimed
    <3>3. CASE k = Len(sent') + 1
      BY <2>1, <3>3, AssembledFactsPrimed
    <3> QED BY <3>1, <3>2, <3>3
  <2> QED BY <2>3 DEF NoNewPage
<1> QED BY <1>1, <1>2

\* What a page that is added changes.
LEMMA OneNewPage ==
    ASSUME TypeOK, TypeOK', AddPage
    PROVE  /\ DOMAIN Assembled' = DOMAIN Assembled
           /\ \A k \in DOMAIN Assembled : k # Len(sent) + 1 => Assembled'[k] = Assembled[k]
           /\ Assembled'[Len(sent) + 1] = Append(pages, current)
           /\ Len(Append(pages, current)) = Len(pages) + 1
           /\ DOMAIN Append(pages, current) = 1..Len(pages) + 1
           /\ \A i \in 1..Len(pages) : Append(pages, current)[i] = pages[i]
           /\ Append(pages, current)[Len(pages) + 1] = current
PROOF
<1>1. pages \in Seq(Files) /\ current \in Files /\ pages' = Append(pages, current) /\ sent' = sent
  BY HandlingTypes DEF AddPage, TypeOK
<1>2. /\ Len(Append(pages, current)) = Len(pages) + 1
      /\ DOMAIN Append(pages, current) = 1..Len(pages) + 1
      /\ \A i \in 1..Len(pages) : Append(pages, current)[i] = pages[i]
      /\ Append(pages, current)[Len(pages) + 1] = current
  BY <1>1, AppendedElements
<1>3. /\ DOMAIN Assembled' = DOMAIN Assembled
      /\ Assembled'[Len(sent) + 1] = Append(pages, current)
  BY <1>1, AssembledFacts, AssembledFactsPrimed
<1>4. \A k \in DOMAIN Assembled : k # Len(sent) + 1 => Assembled'[k] = Assembled[k]
  BY <1>1, AssembledFacts, AssembledFactsPrimed
<1> QED BY <1>2, <1>3, <1>4

\* What a step can do to the documents.
LEMMA DocumentSteps ==
    ASSUME [Next]_vars
    PROVE  AddPage \/ SaveDocument \/ UNCHANGED <<sent, pages>> \/ (UNCHANGED sent /\ pages' = <<>>)
PROOF
<1> USE DEF folders, users, rules, control, runs
<1>1. ASSUME StopAgent \/ RuleThrows \/ AddPageThrows \/ \E f \in Files : OpenedInBetween(f)
      PROVE  UNCHANGED sent /\ pages' = <<>>
  BY <1>1 DEF StopAgent, RuleThrows, AddPageThrows, OpenedInBetween, ProcessEnds
<1>2. ASSUME Device \/ Others PROVE UNCHANGED <<sent, pages>>
  BY <1>2 DEF Device, Others, CreateFile, FinishFile, OpenFile, CloseFile
<1>3. ASSUME StorePage \/ RejectFile PROVE UNCHANGED <<sent, pages>>
  BY <1>3 DEF StorePage, RejectFile, MoveCurrent
<1>4. ASSUME BarcodeMatches \/ NameMatches \/ NoRuleMatches PROVE UNCHANGED <<sent, pages>>
  BY <1>4 DEF BarcodeMatches, NameMatches, NoRuleMatches, NameRule
<1>5. ASSUME EventsOverflow \/ StartAgent \/ EnableWatcher \/ HandleFile \/ GiveUpFile
             \/ TimerMatches \/ MoveProcessed
      PROVE  UNCHANGED <<sent, pages>>
  BY <1>5 DEF EventsOverflow, StartAgent, EnableWatcher, HandleFile, GiveUpFile,
              TimerMatches, MoveProcessed
<1>6. ASSUME NEW f \in Files, NextWaitingFile(f) PROVE UNCHANGED <<sent, pages>>
  BY <1>6 DEF NextWaitingFile
<1>7. UNCHANGED vars => UNCHANGED <<sent, pages>>
  BY DEF vars
<1> QED BY <1>1, <1>2, <1>3, <1>4, <1>5, <1>6, <1>7 DEF Next, Agent, ProcessFile

\* Every step but AddPage.
LEMMA OnlyAddPageAdds ==
    ASSUME TypeOK, TypeOK', [Next]_vars, ~AddPage
    PROVE  NoNewPage /\ (pages' = pages \/ pages' = <<>>)
PROOF
<1>1. CASE SaveDocument
  BY <1>1, NoNewPageWhenSaved DEF SaveDocument
<1>2. CASE UNCHANGED sent /\ (pages' = pages \/ pages' = <<>>)
  BY <1>2, NoNewPageWhenQuiet
<1> QED BY <1>1, <1>2, DocumentSteps

----------------------------------------------------------------------------
(* The numbering *)

LEMMA SkippedStays ==
    ASSUME TypeOK, [Next]_vars
    PROVE  /\ \A n : Skipped(n) => Skipped(n)'
           /\ \A f, g : Follows(f, g) => Follows(f, g)'
PROOF
<1>1. \A n : Skipped(n) => Skipped(n)'
  BY StaysScanned DEF Skipped
<1> QED BY <1>1 DEF Follows

\* The jumps after a step, in the pages of the next state.
LEMMA JumpsNext ==
    ASSUME \A k \in DOMAIN Assembled' : \A i \in 2..(Len(Assembled'[k]) - 1) :
             \A f, g : f = Assembled'[k][i] /\ g = Assembled'[k][i + 1] => Follows(f, g)'
    PROVE  JumpOnlyAfterFirstPage'
PROOF BY DEF JumpOnlyAfterFirstPage, Follows, Skipped

\* The jumps when no page is added.
LEMMA JumpsKept ==
    ASSUME TypeOK, TypeOK', [Next]_vars, NoNewPage, JumpOnlyAfterFirstPage
    PROVE  JumpOnlyAfterFirstPage'
PROOF
<1> SUFFICES ASSUME NEW k \in DOMAIN Assembled', NEW i \in 2..(Len(Assembled'[k]) - 1),
                    NEW f, NEW g, f = Assembled'[k][i], g = Assembled'[k][i + 1]
             PROVE  Follows(f, g)'
  BY JumpsNext
<1>1. CASE k \in DOMAIN Assembled /\ Assembled'[k] = Assembled[k]
  <2>1. Follows(f, g)
    BY <1>1 DEF JumpOnlyAfterFirstPage
  <2> QED BY <2>1, SkippedStays
<1>2. CASE Assembled'[k] = <<>>
  BY <1>2
<1> QED BY <1>1, <1>2 DEF NoNewPage

\* What NameRule accepts follows the last page.
LEMMA RuleFollows ==
    ASSUME TypeOK, NumberInv, NoRuleMatches, [Next]_vars, Len(pages) > 1,
           NEW f, NEW g, f = LastPage, g = current
    PROVE  Follows(f, g)'
PROOF
<1>1. /\ step = "rules" /\ Number[g] \in Nat /\ number \in Nat /\ ~NumberJumps
  BY HandlingTypes, NumberTypes DEF NoRuleMatches, NameRule, AtRules, TypeOK
<1>2. number = 0 \/ Number[g] = number + 1
  BY <1>1 DEF NumberJumps
<1>3. CASE number = Number[f]
  BY <1>1, <1>2, <1>3 DEF Follows
<1>4. CASE Skipped(number)
  <2>1. PICK n \in Nat : n = number
    BY <1>1
  <2>2. Skipped(n)'
    BY <1>4, <2>1, SkippedStays
  <2>3. n = 0 \/ Number[g] - 1 = n
    BY <1>1, <1>2, <2>1
  <2>4. Skipped(0)' \/ Skipped(Number[g] - 1)'
    BY <2>2, <2>3 DEF Skipped
  <2> QED BY <2>4 DEF Follows
<1>5. number = Number[f] \/ Skipped(number)
  BY <1>1 DEF NumberInv
<1> QED BY <1>3, <1>4, <1>5

\* A file that is not a page has been seen by NameRule when it is rejected.
LEMMA RejectSkips ==
    ASSUME TypeOK, ControlInv, [Next]_vars, RejectFile, number = Number[current],
           number # NoNumber
    PROVE  Skipped(number)'
PROOF
<1>1. /\ current \in Files \ Named /\ location'[current] # "none" /\ number' = number
  BY HandlingTypes, StaysScanned DEF RejectFile, MoveCurrent, ControlInv, rules
<1> QED BY <1>1 DEF Skipped

\* The open document and the number stay what they are.
LEMMA QuietNumber ==
    ASSUME TypeOK, TypeOK', [Next]_vars, NumberInv, NoNewPage,
           pages' = <<>> \/
             (/\ UNCHANGED <<pages, number>>
              /\ \/ step' = step /\ current' = current
                 \/ {step, step'} \subseteq {"next", "rules", "store"}
                 \/ step' = "save"
                 \/ step' = "move")
    PROVE  NumberInv'
PROOF
<1>1. JumpOnlyAfterFirstPage'
  BY JumpsKept DEF NumberInv
<1>2. CASE pages' = <<>>
  BY <1>1, <1>2 DEF NumberInv
<1>3. CASE UNCHANGED <<pages, number>>
  <2>1. LastPage' = LastPage
    BY <1>3 DEF LastPage
  <2>2. Skipped(number) => Skipped(number)'
    <3>1. PICK n : n = number
      OBVIOUS
    <3>2. Skipped(number) => Skipped(n)'
      BY <3>1, SkippedStays
    <3> QED BY <1>3, <3>1, <3>2 DEF Skipped
  <2>3. CASE step' = step /\ current' = current
    <3>1. PICK f, g : f = LastPage /\ g = current
      OBVIOUS
    <3>2. Follows(LastPage, current) => Follows(f, g)'
      BY <3>1, SkippedStays
    <3>3. Follows(f, g)' => Follows(LastPage, current)'
      BY <2>1, <2>3, <3>1 DEF Follows, Skipped
    <3> QED BY <1>1, <1>3, <2>1, <2>2, <2>3, <3>2, <3>3 DEF NumberInv
  <2>4. CASE {step, step'} \subseteq {"next", "rules", "store"}
    BY <1>1, <1>3, <2>1, <2>2, <2>4 DEF NumberInv
  <2>5. CASE step' = "save" \/ step' = "move"
    BY <1>1, <2>5 DEF NumberInv
  <2> QED BY <1>2, <2>3, <2>4, <2>5
<1> QED BY <1>2, <1>3

\* The page that is added comes after the last one.
LEMMA PageFollows ==
    ASSUME TypeOK, TypeOK', [Next]_vars, NumberInv, AddPage
    PROVE  NumberInv'
PROOF
<1>1. /\ step = "page" /\ step' = "store" /\ current \in Files
      /\ UNCHANGED <<number, current, location, sent>>
      /\ pages \in Seq(Files) /\ Len(pages) \in Nat /\ pages' = Append(pages, current)
  BY HandlingTypes DEF AddPage, TypeOK, folders, rules
<1>2. JumpOnlyAfterFirstPage'
  <2> SUFFICES ASSUME NEW k \in DOMAIN Assembled', NEW i \in 2..(Len(Assembled'[k]) - 1),
                      NEW f, NEW g, f = Assembled'[k][i], g = Assembled'[k][i + 1]
               PROVE  Follows(f, g)'
    BY JumpsNext
  <2>1. CASE k # Len(sent) + 1
    <3>1. k \in DOMAIN Assembled /\ Assembled'[k] = Assembled[k]
      BY <2>1, OneNewPage
    <3>2. Follows(f, g)
      BY <3>1 DEF NumberInv, JumpOnlyAfterFirstPage
    <3> QED BY <3>2, SkippedStays
  <2>2. CASE k = Len(sent) + 1
    <3>1. /\ Assembled'[k] = Append(pages, current) /\ i \in 2..Len(pages)
      BY <1>1, <2>2, OneNewPage
    <3>2. f = pages[i]
      BY <3>1, OneNewPage
    <3>3. CASE i < Len(pages)
      <4>1. g = pages[i + 1] /\ i \in 2..(Len(pages) - 1)
        BY <1>1, <3>1, <3>3, OneNewPage
      <4>2. Assembled[k] = pages /\ k \in DOMAIN Assembled
        BY <2>2, AssembledFacts
      <4>3. Follows(f, g)
        BY <3>2, <4>1, <4>2 DEF NumberInv, JumpOnlyAfterFirstPage
      <4> QED BY <4>3, SkippedStays
    <3>4. CASE i = Len(pages)
      <4>1. g = current /\ f = LastPage /\ Len(pages) > 1
        BY <1>1, <3>1, <3>2, <3>4, OneNewPage DEF LastPage
      <4>2. Follows(f, g)
        BY <1>1, <4>1 DEF NumberInv
      <4> QED BY <4>2, SkippedStays
    <3> QED BY <1>1, <3>1, <3>3, <3>4
  <2> QED BY <2>1, <2>2
<1>3. Len(pages') = Len(pages) + 1 /\ LastPage' = current
  BY <1>1, OneNewPage DEF LastPage
<1>4. Len(pages') > 1 => number' = Number[LastPage']
  BY <1>1, <1>3 DEF NumberInv
<1> QED BY <1>1, <1>2, <1>4 DEF NumberInv

LEMMA NumberStep ==
    TypeOK /\ TypeOK' /\ ControlInv /\ NumberInv /\ [Next]_vars => NumberInv'
PROOF
<1> SUFFICES ASSUME TypeOK, TypeOK', ControlInv, NumberInv, [Next]_vars PROVE NumberInv'
  OBVIOUS
<1>1. CASE AddPage
  BY <1>1, PageFollows
<1>2. CASE ~AddPage
  <2>0. NoNewPage
    BY <1>2, OnlyAddPageAdds
  <2> USE DEF folders, users, rules, control, runs
  <2>1. CASE UNCHANGED vars
    BY <2>0, <2>1, QuietNumber DEF vars
  <2>2. CASE Device \/ Others \/ EventsOverflow \/ StartAgent \/ EnableWatcher \/ GiveUpFile
    <3>1. UNCHANGED <<pages, number, step, current>>
      BY <2>2 DEF Device, Others, EventsOverflow, StartAgent, EnableWatcher, GiveUpFile,
                  CreateFile, FinishFile, OpenFile, CloseFile
    <3> QED BY <2>0, <3>1, QuietNumber
  <2>3. CASE StopAgent \/ RuleThrows \/ AddPageThrows \/ \E f \in Files : OpenedInBetween(f)
    BY <2>0, <2>3, QuietNumber DEF StopAgent, RuleThrows, AddPageThrows, OpenedInBetween, ProcessEnds
  <2>4. ASSUME HandleFile \/ \E f \in Files : NextWaitingFile(f)
        PROVE  NumberInv'
    <3>1. UNCHANGED <<pages, number>> /\ step = "next" /\ step' = "rules"
      BY <2>4 DEF HandleFile, NextWaitingFile
    <3> QED BY <2>0, <3>1, QuietNumber
  <2>5. CASE TimerMatches \/ BarcodeMatches
    BY <2>0, <2>5, QuietNumber DEF TimerMatches, BarcodeMatches
  <2>6. CASE NameMatches
    <3>1. step' = "save" /\ JumpOnlyAfterFirstPage'
      BY <2>0, <2>6, JumpsKept DEF NameMatches, NumberInv
    <3> QED BY <3>1 DEF NumberInv
  <2>7. CASE NoRuleMatches
    <3>1. /\ step' = "page" /\ UNCHANGED <<pages, current>> /\ number' = Number[current]
          /\ JumpOnlyAfterFirstPage'
      BY <2>0, <2>7, JumpsKept DEF NoRuleMatches, NameRule, NumberInv
    <3>2. Len(pages) > 1 => Follows(LastPage, current)'
      <4>1. PICK f, g : f = LastPage /\ g = current
        OBVIOUS
      <4>2. Len(pages) > 1 => Follows(f, g)'
        BY <2>7, <4>1, RuleFollows
      <4> QED BY <3>1, <4>1, <4>2 DEF Follows, Skipped, LastPage
    <3> QED BY <3>1, <3>2 DEF NumberInv
  <2>8. CASE SaveDocument \/ MoveProcessed
    BY <2>0, <2>8, QuietNumber DEF SaveDocument, MoveProcessed, ControlInv
  <2>9. CASE StorePage
    BY <2>0, <2>9, QuietNumber DEF StorePage, MoveCurrent
  <2>10. CASE RejectFile
    <3>1. /\ step = "page" /\ step' = "next" /\ UNCHANGED <<pages, number>>
          /\ JumpOnlyAfterFirstPage' /\ number # NoNumber
      BY <2>0, <2>10, JumpsKept DEF RejectFile, MoveCurrent, NumberInv, TypeOK, NoNumber
    <3>2. Len(pages) > 1 => Skipped(number)'
      BY <2>10, <3>1, RejectSkips DEF NumberInv
    <3> QED BY <3>1, <3>2 DEF NumberInv
  <2> QED
    BY <1>2, <2>1, <2>2, <2>3, <2>4, <2>5, <2>6, <2>7, <2>8, <2>9, <2>10
       DEF Next, Agent, ProcessFile
<1> QED BY <1>1, <1>2

----------------------------------------------------------------------------
(* Where the pages are *)

\* A file leaves the watched folder only when it is handled, and never leaves
\* the two folders of pages for another one.
LEMMA FilesStay ==
    ASSUME TypeOK, HandledInv, [Next]_vars
    PROVE  /\ \A f \in Files : Stored(f) => Stored(f)'
           /\ \A f \in Files : location[f] = "watch" /\ (step # "next" => f # current)
                  => location'[f] = "watch"
PROOF
<1> USE DEF folders, users, rules, control, runs, Stored
<1> DEFINE Stay == /\ \A f \in Files : Stored(f) => Stored(f)'
                   /\ \A f \in Files : location[f] = "watch" /\ (step # "next" => f # current)
                          => location'[f] = "watch"
<1>1. CASE UNCHANGED location
  BY <1>1
<1>2. ASSUME NEW f \in Files, CreateFile(f) PROVE Stay
  BY <1>2 DEF CreateFile, TypeOK
<1>3. CASE StopAgent \/ MoveProcessed \/ \E f \in Files : OpenedInBetween(f)
  <2>1. MovesToSuccess
    BY <1>3, StopMoves, ProcessedMoves, InBetween
  <2> QED BY <2>1 DEF MovesToSuccess
<1>4. ASSUME step # "next",
             \A f \in Files : f # current => location'[f] = location[f]
      PROVE  Stay
  <2>1. ~Stored(current)
    BY <1>4 DEF HandledInv
  <2> QED BY <1>4, <2>1
<1>5. CASE RuleThrows \/ BarcodeMatches \/ NameMatches \/ NoRuleMatches
  <2>1. step # "next" /\ \A f \in Files : f # current => location'[f] = location[f]
    BY <1>5 DEF RuleThrows, BarcodeMatches, NameMatches, NoRuleMatches, NameRule,
                RemoveCoded, AtRules, TypeOK
  <2> QED BY <1>4, <2>1
<1>7. CASE StorePage \/ RejectFile
  <2>1. step # "next" /\ \A f \in Files : f # current => location'[f] = location[f]
    BY <1>7 DEF StorePage, RejectFile, MoveCurrent, TypeOK
  <2> QED BY <1>4, <2>1
<1>8. ASSUME NEW f \in Files, FinishFile(f) \/ OpenFile(f) \/ CloseFile(f) \/ NextWaitingFile(f)
      PROVE  UNCHANGED location
  BY <1>8 DEF FinishFile, OpenFile, CloseFile, NextWaitingFile
<1>9. EventsOverflow \/ StartAgent \/ EnableWatcher \/ HandleFile \/ GiveUpFile
      \/ TimerMatches \/ SaveDocument \/ AddPage \/ AddPageThrows
      => UNCHANGED location
  BY DEF EventsOverflow, StartAgent, EnableWatcher, HandleFile, GiveUpFile,
         TimerMatches, SaveDocument, AddPage, AddPageThrows
<1>10. UNCHANGED vars => UNCHANGED location
  BY DEF vars
<1> QED
  BY <1>1, <1>2, <1>3, <1>5, <1>7, <1>8, <1>9, <1>10
     DEF Next, Device, Others, Agent, ProcessFile

\* No page comes twice when none is added.
LEMMA TwiceKept == NoPageTwice /\ NoNewPage => NoPageTwice'
PROOF
<1> SUFFICES ASSUME NoPageTwice, NoNewPage,
                    NEW k \in DOMAIN Assembled', NEW l \in DOMAIN Assembled',
                    NEW i \in DOMAIN Assembled'[k], NEW j \in DOMAIN Assembled'[l],
                    <<k, i>> # <<l, j>>
             PROVE  Assembled'[k][i] # Assembled'[l][j]
  BY DEF NoPageTwice
<1>1. /\ k \in DOMAIN Assembled /\ Assembled'[k] = Assembled[k]
      /\ l \in DOMAIN Assembled /\ Assembled'[l] = Assembled[l]
  BY DEF NoNewPage
<1> QED BY <1>1 DEF NoPageTwice

\* All pages are stored while none was just added.
LEMMA AllStored ==
    ASSUME TypeOK, StoredInv, step # "store",
           NEW k \in DOMAIN Assembled, NEW i \in DOMAIN Assembled[k]
    PROVE  Stored(Assembled[k][i])
PROOF
<1>1. CASE k = Len(sent) + 1
  BY <1>1, AssembledFacts DEF StoredInv
<1>2. CASE k # Len(sent) + 1
  <2>1. k \in 1..Len(sent) /\ Assembled[k] = sent[k]
    BY <1>2, AssembledFacts
  <2> QED BY <2>1 DEF StoredInv, TypeOK
<1> QED BY <1>1, <1>2

\* The page that is added is not stored yet, so it is in no document.
LEMMA AddedOnce ==
    ASSUME TypeOK, TypeOK', PlaceInv, AddPage
    PROVE  NoPageTwice'
PROOF
<1> DEFINE n == Len(sent) + 1
           m == Len(pages) + 1
<1>1. step = "page" /\ location[current] = "watch" /\ Len(pages) \in Nat
  BY DEF AddPage, PlaceInv, HandledInv, TypeOK
<1>2. ASSUME NEW k \in DOMAIN Assembled', NEW i \in DOMAIN Assembled'[k], <<k, i>> # <<n, m>>
      PROVE  /\ k \in DOMAIN Assembled /\ i \in DOMAIN Assembled[k]
             /\ Assembled'[k][i] = Assembled[k][i]
  <2>1. CASE k = n
    <3>1. Assembled'[k] = Append(pages, current) /\ Assembled[k] = pages /\ k \in DOMAIN Assembled
      BY <2>1, OneNewPage, AssembledFacts
    <3>2. i \in 1..Len(pages)
      BY <1>1, <1>2, <2>1, <3>1, OneNewPage
    <3>3. i \in DOMAIN pages
      BY <3>2 DEF TypeOK
    <3> QED BY <3>1, <3>2, <3>3, OneNewPage
  <2>2. CASE k # n
    BY <1>2, <2>2, OneNewPage
  <2> QED BY <2>1, <2>2
<1>3. ASSUME NEW k \in DOMAIN Assembled', NEW i \in DOMAIN Assembled'[k], <<k, i>> # <<n, m>>
      PROVE  Assembled'[k][i] # current
  <2>1. Stored(Assembled'[k][i])
    BY <1>1, <1>2, <1>3, AllStored DEF PlaceInv
  <2> QED BY <1>1, <2>1 DEF Stored
<1>4. Assembled'[n] = Append(pages, current) /\ Append(pages, current)[m] = current
  BY OneNewPage
<1> HIDE DEF n, m
<1> SUFFICES ASSUME NEW k \in DOMAIN Assembled', NEW l \in DOMAIN Assembled',
                    NEW i \in DOMAIN Assembled'[k], NEW j \in DOMAIN Assembled'[l],
                    <<k, i>> # <<l, j>>
             PROVE  Assembled'[k][i] # Assembled'[l][j]
  BY DEF NoPageTwice
<1>5. CASE <<k, i>> = <<n, m>>
  <2>1. <<l, j>> # <<n, m>> /\ Assembled'[k][i] = current
    BY <1>4, <1>5
  <2> QED BY <1>3, <2>1
<1>6. CASE <<l, j>> = <<n, m>>
  <2>1. <<k, i>> # <<n, m>> /\ Assembled'[l][j] = current
    BY <1>4, <1>6
  <2> QED BY <1>3, <2>1
<1>7. CASE <<k, i>> # <<n, m>> /\ <<l, j>> # <<n, m>>
  BY <1>2, <1>7 DEF PlaceInv, NoPageTwice
<1> QED BY <1>5, <1>6, <1>7

LEMMA StoredKept ==
    ASSUME TypeOK, HandledInv, StoredInv, [Next]_vars, sent' = sent,
           pages' = <<>> \/ (pages' = pages /\ (step = "store" => step' = "store"))
    PROVE  StoredInv'
PROOF
<1>1. \A k \in DOMAIN sent : sent[k] \in Seq(Files)
  BY DEF TypeOK
<1>2. ASSUME NEW k \in DOMAIN sent', NEW i \in DOMAIN sent'[k]
      PROVE  location'[sent'[k][i]] \in {"processing", "success"}
  <2>1. PICK f \in Files : f = sent[k][i]
    BY <1>1, <1>2
  <2>2. Stored(f)'
    BY <1>2, <2>1, FilesStay DEF StoredInv
  <2> QED BY <2>1, <2>2 DEF Stored
<1>3. ASSUME NEW i \in DOMAIN pages'
      PROVE  \/ location'[pages'[i]] \in {"processing", "success"}
             \/ (step' = "store" /\ i = Len(pages'))
  <2>1. pages' = pages /\ (step = "store" => step' = "store")
    BY <1>3
  <2>2. PICK f \in Files : f = pages[i]
    BY <1>3, <2>1 DEF TypeOK
  <2>3. CASE Stored(f)
    <3>1. Stored(f)'
      BY <2>3, FilesStay
    <3> QED BY <2>1, <2>2, <3>1 DEF Stored
  <2>4. CASE step = "store" /\ i = Len(pages)
    BY <2>1, <2>4
  <2> QED BY <2>1, <2>2, <2>3, <2>4 DEF StoredInv, Stored
<1> QED BY <1>2, <1>3 DEF StoredInv, Stored

LEMMA StoredStep ==
    ASSUME TypeOK, TypeOK', ControlInv, HandledInv, StoredInv, [Next]_vars
    PROVE  StoredInv'
PROOF
<1> USE DEF folders, users, rules, control, runs
<1>1. CASE SaveDocument
  <2>1. /\ step = "save" /\ UNCHANGED location /\ pages' = <<>>
        /\ sent' = sent \/ sent' = Assembled
    BY <1>1 DEF SaveDocument, Assembled
  <2>2. CASE sent' = sent
    BY <2>1, <2>2, StoredKept
  <2>3. CASE sent' = Assembled
    <3>1. ASSUME NEW k \in DOMAIN sent', NEW i \in DOMAIN sent'[k]
          PROVE  location'[sent'[k][i]] \in {"processing", "success"}
      <4>1. Stored(Assembled[k][i])
        BY <2>1, <2>3, <3>1, AllStored
      <4> QED BY <2>1, <2>3, <4>1 DEF Stored
    <3> QED BY <2>1, <3>1 DEF StoredInv, Stored
  <2> QED BY <2>1, <2>2, <2>3
<1>2. CASE AddPage
  <2>1. /\ step = "page" /\ step' = "store" /\ UNCHANGED <<location, sent>>
        /\ pages' = Append(pages, current)
    BY <1>2 DEF AddPage
  <2>2. ASSUME NEW k \in DOMAIN sent', NEW i \in DOMAIN sent'[k]
        PROVE  location'[sent'[k][i]] \in {"processing", "success"}
    BY <2>1, <2>2 DEF StoredInv, Stored
  <2>3. ASSUME NEW i \in DOMAIN pages', i # Len(pages')
        PROVE  location'[pages'[i]] \in {"processing", "success"}
    <3>1. i \in DOMAIN pages /\ pages'[i] = pages[i]
      BY <1>2, <2>1, <2>3, OneNewPage DEF TypeOK
    <3> QED BY <2>1, <3>1 DEF StoredInv, Stored
  <2> QED BY <2>1, <2>2, <2>3 DEF StoredInv, Stored
<1>3. CASE StorePage
  <2>1. /\ step = "store" /\ location[current] = "watch" /\ current \notin writing /\ reading = {}
        /\ current \in Files /\ LastPage = current
    BY <1>3, HandlingTypes DEF StorePage, HandledInv, ControlInv
  <2>2. location'[current] = "processing" /\ UNCHANGED <<sent, pages>>
    BY <1>3, <2>1 DEF StorePage, MoveCurrent, Free, TypeOK
  <2>3. ASSUME NEW k \in DOMAIN sent', NEW i \in DOMAIN sent'[k]
        PROVE  location'[sent'[k][i]] \in {"processing", "success"}
    <3>1. PICK f \in Files : f = sent[k][i]
      BY <2>2, <2>3 DEF TypeOK
    <3>2. Stored(f)'
      BY <2>2, <2>3, <3>1, FilesStay DEF StoredInv
    <3> QED BY <2>2, <3>1, <3>2 DEF Stored
  <2>4. ASSUME NEW i \in DOMAIN pages'
        PROVE  location'[pages'[i]] \in {"processing", "success"}
    <3>1. PICK f \in Files : f = pages[i]
      BY <2>2, <2>4 DEF TypeOK
    <3>2. Stored(f)'
      BY <2>1, <2>2, <2>4, <3>1, FilesStay DEF StoredInv, LastPage, Stored
    <3> QED BY <2>2, <3>1, <3>2 DEF Stored
  <2> QED BY <2>3, <2>4 DEF StoredInv, Stored
<1>4. CASE StopAgent \/ RuleThrows \/ AddPageThrows \/ \E f \in Files : OpenedInBetween(f)
  BY <1>4, StoredKept DEF StopAgent, RuleThrows, AddPageThrows, OpenedInBetween, ProcessEnds
<1>5. CASE UNCHANGED vars
  BY <1>5, StoredKept DEF vars
<1>6. CASE Device \/ Others \/ EventsOverflow \/ StartAgent
  <2>1. UNCHANGED <<sent, pages, step>>
    BY <1>6 DEF Device, Others, EventsOverflow, StartAgent, CreateFile, FinishFile, OpenFile, CloseFile
  <2> QED BY <2>1, StoredKept
<1>7. ASSUME EnableWatcher \/ HandleFile \/ GiveUpFile \/ \E f \in Files : NextWaitingFile(f)
      PROVE  StoredInv'
  <2>1. UNCHANGED <<sent, pages>> /\ step = "next"
    BY <1>7 DEF EnableWatcher, HandleFile, GiveUpFile, NextWaitingFile
  <2> QED BY <2>1, StoredKept
<1>8. CASE TimerMatches \/ BarcodeMatches \/ NameMatches \/ NoRuleMatches
           \/ MoveProcessed \/ RejectFile
  <2>1. UNCHANGED <<sent, pages>> /\ step # "store"
    BY <1>8 DEF TimerMatches, BarcodeMatches, NameMatches, NoRuleMatches, NameRule, AtRules,
                MoveProcessed, RejectFile, MoveCurrent
  <2> QED BY <2>1, StoredKept
<1> QED BY <1>1, <1>2, <1>3, <1>4, <1>5, <1>6, <1>7, <1>8 DEF Next, Agent, ProcessFile

\* Fewer files are waiting, and the one that is handled is not among them.
LEMMA WaitingKept ==
    ASSUME TypeOK, HandledInv, WaitingInv, [Next]_vars,
           todo' \subseteq todo, events' = events \/ events' = <<>>
    PROVE  WaitingInv'
PROOF
<1>1. \A f \in todo : f \in Files /\ location'[f] = "watch"
  BY FilesStay DEF TypeOK, WaitingInv, HandledInv
<1>2. \A i \in DOMAIN events : events[i] \in Files
  BY DEF TypeOK
<1>3. \A i \in DOMAIN events : location'[events[i]] = "watch"
  BY <1>2, FilesStay DEF WaitingInv, HandledInv
<1> QED BY <1>1, <1>3 DEF WaitingInv

LEMMA WaitingStep ==
    ASSUME TypeOK, TypeOK', ControlInv, HandledInv, WaitingInv, [Next]_vars
    PROVE  WaitingInv'
PROOF
<1> USE DEF folders, users, rules, control, runs
<1>1. ASSUME NEW f \in Files, CreateFile(f) PROVE WaitingInv'
  <2>1. todo' = todo /\ location[f] = "none" /\ location'[f] = "watch"
    BY <1>1 DEF CreateFile, TypeOK
  <2>2. CASE events' = events
    BY <2>1, <2>2, WaitingKept
  <2>3. CASE events' = Append(events, f)
    <3>1. /\ DOMAIN events' = 1..Len(events) + 1 /\ DOMAIN events = 1..Len(events)
          /\ Len(events) \in Nat /\ events'[Len(events) + 1] = f
          /\ \A i \in DOMAIN events : events'[i] = events[i] /\ events[i] \in Files
      BY <2>3, AppendedElements DEF TypeOK
    <3>2. \A i \in DOMAIN events : location'[events[i]] = "watch" /\ events[i] # f
      BY <2>1, <3>1, FilesStay DEF WaitingInv, HandledInv
    <3>3. \A g \in todo : location'[g] = "watch"
      BY FilesStay DEF TypeOK, WaitingInv, HandledInv
    <3>4. ASSUME NEW i \in DOMAIN events', NEW j \in DOMAIN events'
          PROVE  location'[events'[i]] = "watch" /\ (i # j => events'[i] # events'[j])
      <4>1. (i \in DOMAIN events \/ i = Len(events) + 1) /\ (j \in DOMAIN events \/ j = Len(events) + 1)
        BY <3>1
      <4> QED BY <2>1, <3>1, <3>2, <4>1 DEF WaitingInv
    <3> QED BY <2>1, <3>3, <3>4 DEF WaitingInv
  <2> QED BY <1>1, <2>2, <2>3 DEF CreateFile
<1>2. CASE StartAgent
  BY <1>2 DEF StartAgent, WaitingInv, ControlInv, InFolder
<1>3. CASE HandleFile \/ GiveUpFile
  <2>1. events # <<>> /\ events \in Seq(Files) /\ events' = Tail(events) /\ UNCHANGED <<location, todo>>
    BY <1>3 DEF HandleFile, GiveUpFile, TypeOK
  <2>2. \A i \in DOMAIN events' : i \in Nat /\ i + 1 \in DOMAIN events /\ events'[i] = events[i + 1]
    BY <2>1, HeadTailProperties
  <2>3. ASSUME NEW i \in DOMAIN events', NEW j \in DOMAIN events'
        PROVE  location'[events'[i]] = "watch" /\ (i # j => events'[i] # events'[j])
    BY <2>1, <2>2, <2>3 DEF WaitingInv
  <2> QED BY <2>1, <2>3 DEF WaitingInv
<1>4. CASE StopAgent \/ RuleThrows \/ AddPageThrows \/ \E f \in Files : OpenedInBetween(f)
  BY <1>4, WaitingKept DEF StopAgent, RuleThrows, AddPageThrows, OpenedInBetween, ProcessEnds
<1>5. CASE EventsOverflow \/ EnableWatcher \/ UNCHANGED vars
  BY <1>5, WaitingKept DEF EventsOverflow, EnableWatcher, vars
<1>6. ASSUME NEW f \in Files, FinishFile(f) \/ OpenFile(f) \/ CloseFile(f) \/ NextWaitingFile(f)
      PROVE  WaitingInv'
  <2>1. todo' \subseteq todo /\ events' = events
    BY <1>6 DEF FinishFile, OpenFile, CloseFile, NextWaitingFile
  <2> QED BY <2>1, WaitingKept
<1>7. CASE TimerMatches \/ BarcodeMatches \/ NameMatches \/ NoRuleMatches
           \/ SaveDocument \/ MoveProcessed \/ AddPage \/ StorePage \/ RejectFile
  <2>1. UNCHANGED <<todo, events>>
    BY <1>7 DEF TimerMatches, BarcodeMatches, NameMatches, NoRuleMatches, NameRule,
                SaveDocument, MoveProcessed, AddPage, StorePage, RejectFile, MoveCurrent
  <2> QED BY <2>1, WaitingKept
<1> QED BY <1>1, <1>2, <1>3, <1>4, <1>5, <1>6, <1>7
        DEF Next, Device, Others, Agent, ProcessFile

\* Inside the handler the file stays the same, is not moved away and not reported.
LEMMA HandledKept ==
    ASSUME TypeOK, HandledInv, UNCHANGED <<users, mode, current, todo, events>>, step # "next",
           mode = "watch" \/ step # "rules" \/ current \notin writing,
           location'[current] \in {"watch", "deleted"},
           step' # "rules" /\ (step' = "store" => location'[current] = "watch")
    PROVE  HandledInv'
PROOF BY DEF HandledInv, users

LEMMA HandledStep ==
    ASSUME TypeOK, TypeOK', ~Has("inUse"), ControlInv, HandledInv, WaitingInv, [Next]_vars
    PROVE  HandledInv'
PROOF
<1> USE DEF folders, users, rules, control, runs
<1>1. ASSUME NEW f \in Files, CreateFile(f) PROVE HandledInv'
  <2>1. /\ UNCHANGED <<reading, mode, step, current, todo>> /\ writing' = writing \cup {f}
        /\ location[f] = "none" /\ \A g \in Files : g # f => location'[g] = location[g]
        /\ events' = events \/ events' = Append(events, f)
    BY <1>1 DEF CreateFile, TypeOK
  <2>2. ASSUME step # "next"
        PROVE  /\ current # f /\ location'[current] = location[current]
               /\ \A i \in DOMAIN events' : events'[i] # current
    <3>1. current # f /\ current \in Files
      BY <2>1, <2>2, HandlingTypes DEF HandledInv
    <3>2. \A i \in DOMAIN events' : events'[i] = f \/ (i \in DOMAIN events /\ events'[i] = events[i])
      <4>1. CASE events' = Append(events, f)
        <5>1. events \in Seq(Files)
          BY DEF TypeOK
        <5> QED BY <4>1, <5>1, AppendedElements
      <4>2. CASE events' = events
        BY <4>2
      <4> QED BY <2>1, <4>1, <4>2
    <3> QED BY <2>1, <2>2, <3>1, <3>2 DEF HandledInv
  <2> QED BY <2>1, <2>2 DEF HandledInv
<1>2. ASSUME NEW f \in Files, FinishFile(f) \/ OpenFile(f) \/ CloseFile(f)
      PROVE  HandledInv'
  BY <1>2 DEF FinishFile, OpenFile, CloseFile, HandledInv
<1>3. CASE EventsOverflow \/ UNCHANGED vars
  BY <1>3 DEF EventsOverflow, HandledInv, vars
<1>4. CASE StartAgent
  BY <1>4 DEF StartAgent, HandledInv, TypeOK
<1>5. CASE StopAgent \/ RuleThrows \/ AddPageThrows \/ \E f \in Files : OpenedInBetween(f)
  BY <1>5 DEF StopAgent, RuleThrows, AddPageThrows, OpenedInBetween, ProcessEnds, HandledInv
<1>6. CASE EnableWatcher \/ GiveUpFile
  BY <1>6 DEF EnableWatcher, GiveUpFile, HandledInv
<1>7. CASE StorePage \/ RejectFile
  BY <1>7 DEF StorePage, RejectFile, MoveCurrent, HandledInv
<1>8. ASSUME NEW f \in Files, NextWaitingFile(f)
      PROVE  HandledInv'
  <2>1. events = <<>> /\ location[f] = "watch"
    BY <1>8 DEF NextWaitingFile, ControlInv, WaitingInv
  <2> QED BY <1>8, <2>1 DEF NextWaitingFile, HandledInv
<1>9. CASE HandleFile
  <2>1. /\ mode = "watch" /\ events # <<>> /\ Free(Head(events)) /\ todo = {}
        /\ current' = Head(events) /\ events' = Tail(events) /\ step' = "rules"
        /\ UNCHANGED <<location, writing, reading, mode, todo>> /\ events \in Seq(Files)
    BY <1>9 DEF HandleFile, ControlInv, TypeOK
  <2>2. \A i \in DOMAIN events' : i \in Nat /\ i > 0 /\ i + 1 \in DOMAIN events /\ events'[i] = events[i + 1]
    BY <2>1, HeadTailProperties
  <2>3. 1 \in DOMAIN events /\ Head(events) = events[1]
    BY <2>1
  <2>4. ASSUME NEW i \in DOMAIN events' PROVE events'[i] # current'
    <3>1. i + 1 # 1
      BY <2>2
    <3> QED BY <2>1, <2>2, <2>3, <3>1 DEF WaitingInv
  <2> QED BY <2>1, <2>3, <2>4 DEF HandledInv, WaitingInv, Free
<1>10. CASE TimerMatches
  BY <1>10, HandledKept DEF TimerMatches, AtRules, HandledInv
<1>11. CASE BarcodeMatches \/ NameMatches \/ NoRuleMatches
  <2>1. /\ step = "rules" /\ step' \in {"save", "page"} /\ current \notin writing /\ RemoveCoded
        /\ UNCHANGED <<users, mode, current, todo, events>>
    BY <1>11 DEF BarcodeMatches, NameMatches, NoRuleMatches, NameRule, AtRules
  <2>2. location'[current] \in {"watch", "deleted"}
    BY <2>1, HandlingTypes DEF RemoveCoded, HandledInv, TypeOK
  <2> QED BY <2>1, <2>2, HandledKept
<1>12. CASE SaveDocument
  BY <1>12, HandledKept DEF SaveDocument, HandledInv
<1>13. CASE MoveProcessed
  <2>1. location'[current] \in {"watch", "deleted"}
    BY <1>13, HandlingTypes, ProcessedMoves DEF MovesToSuccess, MoveProcessed, HandledInv
  <2> QED BY <1>13, <2>1, HandledKept DEF MoveProcessed, HandledInv
<1>14. CASE AddPage
  BY <1>14, HandledKept DEF AddPage, HandledInv
<1> QED BY <1>1, <1>2, <1>3, <1>4, <1>5, <1>6, <1>7, <1>8, <1>9, <1>10, <1>11, <1>12,
           <1>13, <1>14 DEF Next, Device, Others, Agent, ProcessFile

----------------------------------------------------------------------------
(* The theorems *)

LEMMA AssemblyInit == Init => AssemblyInv
PROOF
<1> SUFFICES ASSUME Init PROVE AssemblyInv
  OBVIOUS
<1>1. /\ pages = <<>> /\ sent = <<>> /\ events = <<>> /\ todo = {} /\ step = "next"
      /\ mode = "down" /\ reading = {} /\ \A f \in Files : location[f] \in {"none", "watch"}
  BY DEF Init
<1>2. DOMAIN Assembled = {1} /\ Assembled[1] = <<>> /\ TypeOK
  <2>1. TypeOK
    BY TypeInit
  <2> QED BY <1>1, <2>1, AssembledFacts
<1>3. ControlInv
  BY <1>1 DEF ControlInv
<1>4. SuccessInv
  BY <1>1 DEF SuccessInv, SuccessIsSent, InFolder
<1>5. NumberInv
  BY <1>1, <1>2 DEF NumberInv, JumpOnlyAfterFirstPage
<1>6. PlaceInv
  BY <1>1, <1>2 DEF PlaceInv, NoPageTwice, HandledInv, WaitingInv, StoredInv
<1> QED BY <1>3, <1>4, <1>5, <1>6 DEF AssemblyInv

LEMMA PlaceStep ==
    ASSUME TypeOK, TypeOK', ~Has("inUse"), ControlInv, PlaceInv, [Next]_vars
    PROVE  PlaceInv'
PROOF
<1>1. NoPageTwice'
  <2>1. CASE AddPage
    BY <2>1, AddedOnce
  <2>2. CASE ~AddPage
    BY <2>2, OnlyAddPageAdds, TwiceKept DEF PlaceInv
  <2> QED BY <2>1, <2>2
<1>2. HandledInv' /\ WaitingInv' /\ StoredInv'
  BY HandledStep, WaitingStep, StoredStep DEF PlaceInv
<1> QED BY <1>1, <1>2 DEF PlaceInv

LEMMA AssemblyStep == TypeOK /\ AssemblyInv /\ [Next]_vars => AssemblyInv'
PROOF
<1> SUFFICES ASSUME TypeOK, AssemblyInv, [Next]_vars PROVE AssemblyInv'
  OBVIOUS
<1>1. TypeOK'
  BY TypeStep
<1>2. ControlInv' /\ SuccessInv' /\ NumberInv'
  BY <1>1, ControlStep, SuccessStep, NumberStep DEF AssemblyInv
<1>3. Has("inUse") \/ PlaceInv'
  BY <1>1, PlaceStep DEF AssemblyInv
<1> QED BY <1>2, <1>3 DEF AssemblyInv, Has

\* The handler, the folders and the numbering fit together at every step
\* (FileProcessor.cs:30-78, ScanProcessService.cs:81-92, NameRule.cs:17-24).
THEOREM AssemblyCorrect == Spec => []AssemblyInv
PROOF
<1>1. Init => TypeOK /\ AssemblyInv
  BY TypeInit, AssemblyInit
<1>2. TypeOK /\ AssemblyInv /\ [Next]_vars => TypeOK' /\ AssemblyInv'
  BY TypeStep, AssemblyStep
<1> QED BY <1>1, <1>2, PTL DEF Spec

\* Unless other programs open files, no page is in two documents or twice in
\* one, across restarts (PdfFileService.cs:26-58, FileProcessor.cs:37-41).
THEOREM PagesAreSentOnce ==
    ASSUME ~Has("inUse")
    PROVE  Spec => []NoPageTwice
PROOF
<1>1. AssemblyInv => NoPageTwice
  BY DEF AssemblyInv, PlaceInv
<1> QED BY <1>1, AssemblyCorrect, PTL

\* The success folder holds pages of documents that were sent, and what an
\* ended process left in the processing folder, whatever files are in use and
\* however often the agent is started (FileProcessor.cs:65-75, DirectoryService.cs:20-30, 68-76).
THEOREM SuccessFolderIsSent == Spec => []SuccessIsSent
PROOF
<1>1. AssemblyInv => SuccessIsSent
  BY DEF AssemblyInv, SuccessInv
<1> QED BY <1>1, AssemblyCorrect, PTL

\* A jump inside a document is behind its first page, or a rejected file hides
\* it (NameRule.cs:17-24).
THEOREM JumpsAreBehindFirstPage == Spec => []JumpOnlyAfterFirstPage
PROOF
<1>1. AssemblyInv => JumpOnlyAfterFirstPage
  BY DEF AssemblyInv, NumberInv
<1> QED BY <1>1, AssemblyCorrect, PTL

\* NameRule does not end a document of several pages for a page that follows
\* (NameRule.cs:19-22).
THEOREM SplitsAreAtJumps == Spec => SplitsOnlyAtJump
PROOF
<1> DEFINE AtJump ==
      NameMatches /\ Len(pages) > 1 =>
         \/ Number[current] # Number[LastPage] + 1
         \/ Skipped(number)
<1>1. TypeOK /\ AssemblyInv /\ [Next]_vars => [AtJump]_vars
  <2> SUFFICES ASSUME TypeOK, AssemblyInv, NameMatches, Len(pages) > 1, ~Skipped(number)
               PROVE  Number[current] # Number[LastPage] + 1
    OBVIOUS
  <2>1. step = "rules" /\ NumberJumps
    BY DEF NameMatches, NameRule, AtRules
  <2>2. number = Number[LastPage]
    BY <2>1 DEF AssemblyInv, NumberInv
  <2> QED BY <2>1, <2>2 DEF NumberJumps
<1>2. Spec => [][AtJump]_vars
  BY <1>1, TypeCorrect, AssemblyCorrect, PTL DEF Spec
<1> QED BY <1>2 DEF SplitsOnlyAtJump
----------------------------------------------------------------------------
(* The refinement of PageSeries *)

LEMMA SpentGrows ==
    ASSUME TypeOK, [Next]_vars
    PROVE  SpentFiles \subseteq SpentFiles'
PROOF BY FilesMoveOn DEF MovesOn, SpentFiles

\* Outside StorePage the pages of the open document have left the folder.
LEMMA PagesAreSpent ==
    ASSUME TypeOK, PlaceInv, step # "store"
    PROVE  P!AllSpent
PROOF
<1> SUFFICES ASSUME NEW i \in 1..Len(pages)
             PROVE  pages[i] \in SpentFiles
  BY DEF P!AllSpent
<1>1. i \in DOMAIN pages /\ pages[i] \in Files
  BY DEF TypeOK
<1>2. location[pages[i]] \in {"processing", "success"}
  BY <1>1 DEF PlaceInv, StoredInv, Stored
<1> QED BY <1>1, <1>2 DEF SpentFiles

LEMMA SeriesStep ==
    ASSUME TypeOK, PlaceInv, [Next]_vars
    PROVE  [P!SeriesNext]_(P!SeriesVars)
PROOF
<1>1. CASE AddPage
  <2>1. /\ step = "page" /\ current \in Files /\ current \in Named
        /\ location[current] = "watch" /\ pages' = Append(pages, current)
        /\ UNCHANGED <<location, sent>>
    BY <1>1, HandlingTypes DEF AddPage, PlaceInv, HandledInv, folders
  <2>2. UNCHANGED SpentFiles /\ current \notin SpentFiles
    BY <2>1 DEF SpentFiles
  <2>3. P!AllSpent
    BY <2>1, PagesAreSpent
  <2> QED BY <2>1, <2>2, <2>3 DEF P!Add, P!SeriesNext
<1>2. CASE SaveDocument
  <2>1. /\ step = "save" /\ pages' = <<>> /\ UNCHANGED location
        /\ sent' = IF pages = <<>> THEN sent ELSE Append(sent, pages)
    BY <1>2 DEF SaveDocument, folders
  <2>2. UNCHANGED SpentFiles
    BY <2>1 DEF SpentFiles
  <2>3. P!AllSpent
    BY <2>1, PagesAreSpent
  <2> QED BY <2>1, <2>2, <2>3 DEF P!Send, P!SeriesNext, P!SeriesVars
<1>3. CASE UNCHANGED <<sent, pages>>
  BY <1>3, SpentGrows DEF P!PutAway, P!SeriesNext
<1>4. CASE UNCHANGED sent /\ pages' = <<>>
  BY <1>3, <1>4, SpentGrows DEF P!Lose, P!SeriesNext
<1> QED BY <1>1, <1>2, <1>3, <1>4, DocumentSteps

\* Unless other programs open files, the agent implements PageSeries, across stops,
\* crashes and restarts (FileProcessor.cs:37-75, PdfFileService.cs:26-58).
THEOREM AgentAssembles ==
    ASSUME ~Has("inUse")
    PROVE  Spec => Assembles
PROOF
<1>1. Init => P!SeriesInit
  BY DEF Init, P!SeriesInit, SpentFiles
<1>2. TypeOK /\ AssemblyInv /\ [Next]_vars => [P!SeriesNext]_(P!SeriesVars)
  BY SeriesStep DEF AssemblyInv
<1>3. Spec => P!SeriesInit
  BY <1>1 DEF Spec
<1>4. Spec => [][P!SeriesNext]_(P!SeriesVars)
  BY <1>2, TypeCorrect, AssemblyCorrect, PTL DEF Spec
<1> QED BY <1>3, <1>4 DEF Assembles, P!Series
=============================================================================
