------------------------ MODULE StatusControlProofs ------------------------
(***************************************************************************)
(* Proofs about StatusControl, for any agents, any number of deliveries    *)
(* and starts, and any sequence of saves.                                  *)
(***************************************************************************)
EXTENDS StatusControl, SequenceLemmas

IInv == TypeOK /\ StatusInv

----------------------------------------------------------------------------
(* The subscription *)

\* The commands that stay in the subscription: f gives the place each one had.
Kept(f) ==
    /\ topic' \in Seq(Commands)
    /\ f \in [DOMAIN topic' -> DOMAIN topic]
    /\ \A k, l \in DOMAIN topic' : k < l => f[k] < f[l]
    /\ \A k \in DOMAIN topic' :
         /\ topic'[k].version = topic[f[k]].version
         /\ topic'[k].count = topic[f[k]].count
         /\ \/ topic'[k].owner = topic[f[k]].owner
            \/ /\ topic[f[k]].owner # NoAgent
               /\ \/ topic'[k].owner = Orphan
                  \/ topic'[k].owner = NoAgent /\ topic[f[k]].count < MaxDelivery

\* No command is in the hand of a any more.
Released(a) == \A k \in DOMAIN topic' : topic'[k].owner # a

LEMMA TopicDomain == TypeOK => DOMAIN topic = 1..Len(topic) /\ Len(topic) \in Nat
PROOF BY DEF TypeOK

LEMMA CommandFields ==
    ASSUME TypeOK, NEW i \in DOMAIN topic
    PROVE  /\ topic[i] \in Commands
           /\ topic[i].version \in 1..Len(kind) /\ topic[i].version \in Versions
           /\ topic[i].version \in Nat /\ topic[i].version > 0
           /\ topic[i].count \in Nat /\ topic[i].count <= MaxDelivery
PROOF
<1>1. topic[i] \in Commands
  BY DEF TypeOK
<1>2. kind \in Seq(Kinds)
  BY StatusAssumption DEF TypeOK
<1>3. Len(kind) \in Nat
  BY <1>2
<1>4. /\ topic[i].version \in 1..Len(kind) /\ topic[i].count \in 0..MaxDelivery
  BY <1>1 DEF Commands
<1> QED BY <1>1, <1>3, <1>4, StatusAssumption DEF Versions

\* A command is taken out.
LEMMA RemovedKept ==
    ASSUME TypeOK, TopicInv, NEW i \in DOMAIN topic, topic' = RemoveAt(topic, i)
    PROVE  /\ \E f : Kept(f)
           /\ \A a \in Agents : InHand(a, i) => Released(a)
PROOF
<1> DEFINE f == [k \in DOMAIN topic' |-> IF k < i THEN k ELSE k + 1]
<1>1. DOMAIN topic = 1..Len(topic) /\ Len(topic) \in Nat /\ i \in 1..Len(topic)
  BY TopicDomain
<1>2. /\ topic' \in Seq(Commands)
      /\ Len(topic') = Len(topic) - 1
      /\ \A k \in 1..Len(topic) - 1 :
           topic'[k] = IF k < i THEN topic[k] ELSE topic[k + 1]
  <2>1. topic \in Seq(Commands)
    BY DEF TypeOK
  <2> QED BY <1>1, <2>1, RemovedElement
<1>3. DOMAIN topic' = 1..Len(topic) - 1
  BY <1>2
<1>4. \A k \in DOMAIN topic' : f[k] \in DOMAIN topic /\ f[k] # i /\ topic'[k] = topic[f[k]]
  <2> SUFFICES ASSUME NEW k \in DOMAIN topic'
               PROVE  f[k] \in DOMAIN topic /\ f[k] # i /\ topic'[k] = topic[f[k]]
    OBVIOUS
  <2>1. CASE k < i
    BY <1>1, <1>2, <1>3, <2>1
  <2>2. CASE ~(k < i)
    BY <1>1, <1>2, <1>3, <2>2
  <2> QED BY <2>1, <2>2
<1>5. \A k, l \in DOMAIN topic' : k < l => f[k] < f[l]
  BY <1>1, <1>3
<1>6. f \in [DOMAIN topic' -> DOMAIN topic]
  BY <1>4
<1> HIDE DEF f
<1>7. Kept(f)
  BY <1>2, <1>4, <1>5, <1>6 DEF Kept
<1>8. ASSUME NEW a \in Agents, InHand(a, i) PROVE Released(a)
  BY <1>4, <1>8 DEF Released, TopicInv, InHand
<1> QED BY <1>7, <1>8

\* A command is free again.
LEMMA FreedKept ==
    ASSUME TypeOK, TopicInv, NEW i \in DOMAIN topic,
           topic[i].owner # NoAgent, topic[i].count < MaxDelivery,
           topic' = [topic EXCEPT ![i].owner = NoAgent]
    PROVE  /\ \E f : Kept(f)
           /\ \A a \in Agents : InHand(a, i) => Released(a)
PROOF
<1> DEFINE f == [k \in DOMAIN topic |-> k]
<1>1. DOMAIN topic = 1..Len(topic) /\ Len(topic) \in Nat
  BY TopicDomain
<1>2. topic[i] \in Commands /\ [topic[i] EXCEPT !.owner = NoAgent] \in Commands
  BY CommandFields DEF Commands
<1>3. topic' = [topic EXCEPT ![i] = [topic[i] EXCEPT !.owner = NoAgent]]
  OBVIOUS
<1>4. topic' \in Seq(Commands) /\ DOMAIN topic' = DOMAIN topic
  BY <1>2, <1>3 DEF TypeOK
<1>5. \A k \in DOMAIN topic : k # i => topic'[k] = topic[k]
  BY <1>3
<1>6. topic'[i] = [topic[i] EXCEPT !.owner = NoAgent]
  BY <1>3
<1>7. /\ topic'[i].owner = NoAgent /\ topic'[i].count = topic[i].count
      /\ topic'[i].version = topic[i].version
  BY <1>2, <1>6 DEF Commands
<1>8. Kept(f)
  BY <1>4, <1>5, <1>7 DEF Kept
<1>9. ASSUME NEW a \in Agents, InHand(a, i) PROVE Released(a)
  <2> SUFFICES ASSUME NEW k \in DOMAIN topic' PROVE topic'[k].owner # a
    BY DEF Released
  <2>1. CASE k = i
    BY <1>7, <2>1, StatusAssumption
  <2>2. CASE k # i
    BY <1>4, <1>5, <1>9, <2>2 DEF TopicInv, InHand
  <2> QED BY <2>1, <2>2
<1> QED BY <1>8, <1>9

LEMMA ReturnKept ==
    ASSUME TypeOK, TopicInv, NEW i \in DOMAIN topic,
           topic[i].owner # NoAgent, Return(i)
    PROVE  /\ \E f : Kept(f)
           /\ \A a \in Agents : InHand(a, i) => Released(a)
           /\ dead' \subseteq Versions
PROOF
<1>1. topic[i].version \in Versions
  BY CommandFields
<1>2. CASE topic[i].count < MaxDelivery
  <2>1. topic' = [topic EXCEPT ![i].owner = NoAgent] /\ dead' = dead
    BY <1>2 DEF Return
  <2> QED BY <1>2, <2>1, FreedKept DEF TypeOK
<1>3. CASE ~(topic[i].count < MaxDelivery)
  <2>1. topic' = RemoveAt(topic, i) /\ dead' = dead \cup {topic[i].version}
    BY <1>3 DEF Return
  <2> QED BY <1>1, <2>1, RemovedKept DEF TypeOK
<1> QED BY <1>2, <1>3

\* Where commands only leave, the invariants about them stay.
LEMMA KeptTopic ==
    ASSUME TypeOK, TopicInv, NewerComes, NEW f, Kept(f), UNCHANGED file,
           \A a \in Agents : pump'[a] = pump[a] \/ Released(a),
           \A a \in Agents : timeout'[a] = timeout[a] \/ timeout'[a] = 0
    PROVE  /\ TopicInv' /\ NewerComes'
           /\ \A a \in Agents : \A k \in DOMAIN topic' :
                InHand(a, k)' => /\ f[k] \in DOMAIN topic /\ InHand(a, f[k])
                                 /\ topic'[k].version = topic[f[k]].version
PROOF
<1> USE DEF Kept
<1>1. \A k \in DOMAIN topic' : f[k] \in DOMAIN topic
  OBVIOUS
<1>2. \A a \in Agents : a # NoAgent /\ a # Orphan
  BY StatusAssumption
<1>3. \A a \in Agents : \A k \in DOMAIN topic' : InHand(a, k)' => InHand(a, f[k])
  BY <1>1, <1>2 DEF InHand
<1>4. DOMAIN topic' \subseteq Int /\ DOMAIN topic \subseteq Int
  BY TopicDomain
<1>5. \A a \in Agents : \A k, l \in DOMAIN topic' : InHand(a, k)' /\ InHand(a, l)' => k = l
  <2> SUFFICES ASSUME NEW a \in Agents, NEW k \in DOMAIN topic', NEW l \in DOMAIN topic',
                      InHand(a, k)', InHand(a, l)', k # l
               PROVE  FALSE
    OBVIOUS
  <2>1. f[k] = f[l]
    BY <1>1, <1>3 DEF TopicInv
  <2>2. f[k] < f[l] \/ f[l] < f[k]
    BY <1>4
  <2> QED BY <1>1, <1>4, <2>1, <2>2
<1>6. \A a \in Agents : \A k \in DOMAIN topic' : InHand(a, k)' => pump'[a] # "idle"
  BY <1>1, <1>3 DEF TopicInv, Released, InHand
<1>7. \A k, l \in DOMAIN topic' : k < l =>
         /\ topic'[k].version <= topic'[l].version
         /\ topic'[l].count > 0 => topic'[k].count > 0
  BY <1>1 DEF TopicInv
<1>8. \A k \in DOMAIN topic' :
         /\ topic'[k].version <= file'
         /\ topic'[k].owner = NoAgent => topic'[k].count < MaxDelivery
         /\ topic'[k].count = 0 => topic'[k].owner = NoAgent
  <2> SUFFICES ASSUME NEW k \in DOMAIN topic'
               PROVE  /\ topic'[k].version <= file'
                      /\ topic'[k].owner = NoAgent => topic'[k].count < MaxDelivery
                      /\ topic'[k].count = 0 => topic'[k].owner = NoAgent
    OBVIOUS
  <2>1. /\ topic[f[k]].version <= file
        /\ topic[f[k]].owner = NoAgent => topic[f[k]].count < MaxDelivery
        /\ topic[f[k]].count = 0 => topic[f[k]].owner = NoAgent
    BY <1>1 DEF TopicInv
  <2> QED BY <2>1, StatusAssumption
<1>9. TopicInv'
  BY <1>5, <1>6, <1>7, <1>8 DEF TopicInv
<1>10. NewerComes'
  <2> SUFFICES ASSUME NEW a \in Agents
               PROVE  /\ timeout'[a] <= file'
                      /\ \A k \in DOMAIN topic' :
                            topic'[k].count = 0 \/ (InHand(a, k)' /\ topic'[k].count = 1)
                            => timeout'[a] <= topic'[k].version
    BY DEF NewerComes
  <2>1. CASE timeout'[a] = timeout[a]
    BY <1>1, <1>3, <2>1 DEF NewerComes
  <2>2. CASE timeout'[a] = 0
    <3>1. 0 <= file
      BY DEF TypeOK, Versions
    <3>2. \A k \in DOMAIN topic' : 0 <= topic'[k].version
      <4> SUFFICES ASSUME NEW k \in DOMAIN topic' PROVE 0 <= topic'[k].version
        OBVIOUS
      <4>1. topic[f[k]].version \in Nat
        BY <1>1, CommandFields
      <4> QED BY <4>1
    <3> QED BY <2>2, <3>1, <3>2
  <2> QED BY <2>1, <2>2
<1> QED BY <1>1, <1>3, <1>9, <1>10

----------------------------------------------------------------------------
(* The central service *)

\* What the agents know does not depend on how the file and the watcher go on.
LEMMA AgentsKeep ==
    ASSUME IInv, UNCHANGED <<kind, topic, pump, timeout, run, timer, silenced>>,
           file' \in Versions, file <= file'
    PROVE  TopicInv' /\ NewerComes' /\ PumpInv' /\ TimerFollowsService'
PROOF
<1>1. \A a, i : InHand(a, i)' <=> InHand(a, i)
  BY DEF InHand
<1>2. \A v : v \in Versions => v \in Int
  BY DEF Versions
<1>3. \A i \in DOMAIN topic : topic[i].version <= file'
  <2> SUFFICES ASSUME NEW i \in DOMAIN topic PROVE topic[i].version <= file'
    OBVIOUS
  <2>1. topic[i].version <= file
    BY DEF IInv, StatusInv, TopicInv
  <2>2. topic[i].version \in Nat /\ file \in Int /\ file' \in Int
    BY <1>2, CommandFields DEF IInv, TypeOK
  <2> QED BY <2>1, <2>2
<1>4. \A a \in Agents : timeout[a] <= file'
  <2> SUFFICES ASSUME NEW a \in Agents PROVE timeout[a] <= file'
    OBVIOUS
  <2>1. timeout[a] <= file
    BY DEF IInv, StatusInv, NewerComes
  <2>2. timeout[a] \in Int /\ file \in Int /\ file' \in Int
    BY <1>2 DEF IInv, TypeOK
  <2> QED BY <2>1, <2>2
<1>5. TopicInv'
  BY <1>1, <1>3 DEF IInv, StatusInv, TopicInv
<1>6. NewerComes'
  BY <1>1, <1>4 DEF IInv, StatusInv, NewerComes
<1>7. PumpInv' /\ TimerFollowsService'
  BY <1>1 DEF IInv, StatusInv, PumpInv, TimerFollowsService
<1> QED BY <1>5, <1>6, <1>7

LEMMA SavesKept == TypeOK => kind \in Seq(Kinds) /\ Len(kind) \in Nat /\ file \in Nat
PROOF
<1> SUFFICES ASSUME TypeOK PROVE kind \in Seq(Kinds) /\ Len(kind) \in Nat /\ file \in Nat
  OBVIOUS
<1>1. kind \in Seq(Kinds)
  BY StatusAssumption DEF TypeOK
<1>2. Len(kind) \in Nat
  BY <1>1
<1> QED BY <1>1, <1>2 DEF TypeOK, Versions

\* The editors and the watcher.
LEMMA WatcherKeeps ==
    ASSUME IInv,
           Settings \/ StartCentral \/ StopCentral \/ Watcher_Changed \/ OpenFails
    PROVE  IInv'
PROOF
<1> USE DEF queues, service, settings, clock, reports
<1>1. UNCHANGED <<kind, topic, dead, run, starts, timer, silenced, timeout, barcode,
                  pump, elapsed, draft, reported>>
  BY DEF Settings, BeginSave, EndSave, StartCentral, StopCentral, Watcher_Changed, OpenFails
<1>2. kind \in Seq(Kinds) /\ Len(kind) \in Nat /\ file \in Nat /\ events \in Nat
  BY SavesKept DEF IInv, TypeOK
<1>3. /\ file <= Len(kind) /\ events \in Nat /\ watcher \in {"off", "idle", "sleep"}
      /\ held => file < Len(kind)
      /\ events > 0 \/ watcher = "sleep" => file > 0 \/ held
  BY <1>2 DEF IInv, TypeOK, StatusInv, FileInv, Versions
<1>4. /\ file' \in Nat /\ file' <= Len(kind) /\ file <= file'
      /\ held' \in BOOLEAN
      /\ events' \in Nat /\ watcher' \in {"off", "idle", "sleep"}
      /\ FileInv'
  <2>1. CASE BeginSave
    <3>1. /\ held' = TRUE /\ file' = file /\ file < Len(kind) /\ kind' = kind
          /\ watcher' = watcher
      BY <2>1 DEF BeginSave
    <3>2. events' \in Nat
      BY <1>3, <2>1 DEF BeginSave, Notify
    <3> QED BY <1>2, <1>3, <3>1, <3>2 DEF FileInv
  <2>2. CASE EndSave
    <3>1. /\ held /\ held' = FALSE /\ file' = file + 1 /\ kind' = kind /\ watcher' = watcher
      BY <2>2 DEF EndSave
    <3>2. events' \in Nat
      BY <1>3, <2>2 DEF EndSave, Notify
    <3>3. file + 1 \in Nat /\ file + 1 <= Len(kind) /\ file <= file + 1 /\ file + 1 > 0
      BY <1>2, <1>3, <3>1
    <3> QED BY <1>2, <1>3, <3>1, <3>2, <3>3 DEF FileInv
  <2>3. CASE StartCentral
    BY <1>2, <1>3, <2>3 DEF StartCentral, FileInv, IInv, TypeOK
  <2>4. CASE StopCentral
    BY <1>2, <1>3, <2>4 DEF StopCentral, FileInv, IInv, TypeOK
  <2>5. CASE Watcher_Changed
    BY <1>2, <1>3, <2>5 DEF Watcher_Changed, FileInv, IInv, TypeOK
  <2>6. CASE OpenFails
    BY <1>2, <1>3, <2>6 DEF OpenFails, FileInv, IInv, TypeOK
  <2> QED BY <2>1, <2>2, <2>3, <2>4, <2>5, <2>6 DEF Settings
<1>5. file' \in Versions /\ Versions' = Versions /\ Commands' = Commands
  <2>1. Versions' = Versions /\ Commands' = Commands
    BY <1>1 DEF Versions, Commands
  <2>2. file' \in Versions
    BY <1>2, <1>4 DEF Versions
  <2> QED BY <2>1, <2>2
<1>6. TypeOK'
  <2>1. /\ file' \in Versions' /\ held' \in BOOLEAN
        /\ events' \in Nat /\ watcher' \in {"off", "idle", "sleep"}
    BY <1>4, <1>5
  <2>2. /\ kind' \in Saves /\ topic' \in Seq(Commands') /\ dead' \subseteq Versions'
        /\ run' \in [Agents -> {"down", "built", "started", "stopped"}]
        /\ starts' \in [Agents -> Nat]
        /\ timer' \in [Agents -> BOOLEAN] /\ silenced' \in [Agents -> BOOLEAN]
        /\ timeout' \in [Agents -> Versions'] /\ barcode' \in [Agents -> Versions']
    BY <1>1, <1>5 DEF IInv, TypeOK
  <2>3. /\ pump' \in [Agents -> Pump]
        /\ elapsed' \in [Agents -> {"idle", "read", "send"}]
        /\ draft' \in [Agents -> [timeout : Versions', barcode : Versions']]
        /\ reported' \in [Agents -> [timeout : Versions', barcode : Versions']]
    BY <1>1, <1>5 DEF IInv, TypeOK, Pump
  <2> QED BY <2>1, <2>2, <2>3 DEF TypeOK
<1>7. UNCHANGED <<kind, topic, pump, timeout, run, timer, silenced>>
  BY <1>1
<1>8. TopicInv' /\ NewerComes' /\ PumpInv' /\ TimerFollowsService'
  BY <1>4, <1>5, <1>7, AgentsKeep
<1> QED BY <1>4, <1>6, <1>8 DEF IInv, StatusInv

\* A new command is the newest one.
LEMMA SendKeeps ==
    ASSUME IInv, Send
    PROVE  IInv'
PROOF
<1> USE DEF service, settings, clock, reports
<1> DEFINE new == [version |-> file, count |-> 0, owner |-> NoAgent]
           n == Len(topic)
<1>1. /\ UNCHANGED <<kind, file, held, events, dead, run, starts, timer, silenced,
                     timeout, barcode, pump, elapsed, draft, reported>>
      /\ watcher = "sleep" /\ ~held /\ watcher' = "idle"
      /\ topic' = Append(topic, new)
  BY DEF Send
<1>2. file \in Nat /\ file > 0 /\ file <= Len(kind) /\ Len(kind) \in Nat
  BY <1>1, SavesKept DEF IInv, StatusInv, FileInv, TypeOK, Versions
<1>3. new \in Commands
  BY <1>2, StatusAssumption DEF Commands
<1>4. /\ topic' \in Seq(Commands) /\ Len(topic') = n + 1
      /\ \A i \in 1..n : topic'[i] = topic[i]
      /\ topic'[n + 1] = new
  <2>1. topic \in Seq(Commands)
    BY DEF IInv, TypeOK
  <2> HIDE DEF new
  <2> QED BY <1>1, <1>3, <2>1, AppendedElements
<1>5. /\ DOMAIN topic = 1..n /\ n \in Nat /\ DOMAIN topic' = 1..n + 1
  BY <1>4, TopicDomain DEF IInv
<1>6. Versions' = Versions /\ Commands' = Commands
  BY <1>1 DEF Versions, Commands
<1>7. TypeOK'
  BY <1>1, <1>4, <1>6 DEF IInv, TypeOK
<1>8. FileInv'
  BY <1>1 DEF IInv, StatusInv, FileInv
<1>9. \A a \in Agents : \A i \in DOMAIN topic' :
         InHand(a, i)' => i \in DOMAIN topic /\ InHand(a, i)
  <2> SUFFICES ASSUME NEW a \in Agents, NEW i \in DOMAIN topic', topic'[i].owner = a
               PROVE  i \in DOMAIN topic /\ topic[i].owner = a
    BY <1>5 DEF InHand
  <2>1. i # n + 1
    BY <1>4, StatusAssumption
  <2>2. i \in 1..n
    BY <1>5, <2>1
  <2> QED BY <1>4, <1>5, <2>2
<1>10. TopicInv'
  <2>1. \A i, j \in DOMAIN topic' : i < j =>
           /\ topic'[i].version <= topic'[j].version
           /\ topic'[j].count > 0 => topic'[i].count > 0
    <3> SUFFICES ASSUME NEW i \in DOMAIN topic', NEW j \in DOMAIN topic', i < j
                 PROVE  /\ topic'[i].version <= topic'[j].version
                        /\ topic'[j].count > 0 => topic'[i].count > 0
      OBVIOUS
    <3>1. i \in 1..n
      BY <1>5
    <3>2. CASE j = n + 1
      BY <1>4, <1>5, <3>1, <3>2 DEF IInv, StatusInv, TopicInv
    <3>3. CASE j \in 1..n
      BY <1>4, <1>5, <3>1, <3>3 DEF IInv, StatusInv, TopicInv
    <3> QED BY <1>5, <3>2, <3>3
  <2>2. \A i \in DOMAIN topic' :
           /\ topic'[i].version <= file'
           /\ topic'[i].owner = NoAgent => topic'[i].count < MaxDelivery
           /\ topic'[i].count = 0 => topic'[i].owner = NoAgent
    <3> TAKE i \in DOMAIN topic'
    <3>1. CASE i = n + 1
      BY <1>1, <1>2, <1>4, <3>1, StatusAssumption
    <3>2. CASE i \in 1..n
      BY <1>1, <1>4, <1>5, <3>2 DEF IInv, StatusInv, TopicInv
    <3> QED BY <1>5, <3>1, <3>2
  <2>3. \A a \in Agents : \A i, j \in DOMAIN topic' : InHand(a, i)' /\ InHand(a, j)' => i = j
    BY <1>9 DEF IInv, StatusInv, TopicInv
  <2>4. \A a \in Agents : \A i \in DOMAIN topic' : InHand(a, i)' => pump'[a] # "idle"
    BY <1>1, <1>9 DEF IInv, StatusInv, TopicInv
  <2> QED BY <2>1, <2>2, <2>3, <2>4 DEF TopicInv
<1>11. NewerComes'
  <2> SUFFICES ASSUME NEW a \in Agents
               PROVE  /\ timeout'[a] <= file'
                      /\ \A i \in DOMAIN topic' :
                            topic'[i].count = 0 \/ (InHand(a, i)' /\ topic'[i].count = 1)
                            => timeout'[a] <= topic'[i].version
    BY DEF NewerComes
  <2>1. timeout[a] <= file
    BY DEF IInv, StatusInv, NewerComes
  <2>2. ASSUME NEW i \in DOMAIN topic',
               topic'[i].count = 0 \/ (InHand(a, i)' /\ topic'[i].count = 1)
        PROVE  timeout'[a] <= topic'[i].version
    <3>1. CASE i = n + 1
      BY <1>1, <1>4, <2>1, <3>1
    <3>2. CASE i \in 1..n
      BY <1>1, <1>4, <1>5, <1>9, <2>2, <3>2 DEF IInv, StatusInv, NewerComes
    <3> QED BY <1>5, <3>1, <3>2
  <2> QED BY <1>1, <2>1, <2>2
<1>12. PumpInv'
  <2> SUFFICES ASSUME NEW a \in Agents, NEW i \in DOMAIN topic',
                      pump'[a] = "timeout", InHand(a, i)'
               PROVE  kind'[topic'[i].version] = "good"
    BY <1>1 DEF PumpInv, IInv, StatusInv
  <2>1. i \in DOMAIN topic /\ InHand(a, i)
    BY <1>9
  <2> QED BY <1>1, <1>4, <1>5, <2>1 DEF IInv, StatusInv, PumpInv
<1>13. TimerFollowsService'
  BY <1>1 DEF IInv, StatusInv, TimerFollowsService
<1> QED BY <1>7, <1>8, <1>10, <1>11, <1>12, <1>13 DEF IInv, StatusInv

----------------------------------------------------------------------------
(* The service and the timer of an agent *)

\* The invariants about the commands, where these stay as they are.
LEMMA QueueKeeps ==
    ASSUME IInv, UNCHANGED <<kind, file, topic>>,
           \A b \in Agents : timeout'[b] = timeout[b],
           \A b \in Agents : pump'[b] = "idle" => pump[b] = "idle"
    PROVE  FileInv /\ TopicInv' /\ NewerComes' /\ Versions' = Versions /\ Commands' = Commands
PROOF
<1>1. \A b, i : InHand(b, i)' <=> InHand(b, i)
  BY DEF InHand
<1>2. TopicInv'
  BY <1>1 DEF IInv, StatusInv, TopicInv
<1>3. NewerComes'
  BY <1>1 DEF IInv, StatusInv, NewerComes
<1> QED BY <1>2, <1>3 DEF IInv, StatusInv, Versions, Commands

LEMMA FileKeeps ==
    ASSUME IInv, UNCHANGED <<kind, file, held, events, watcher>>
    PROVE  FileInv' /\ Versions' = Versions /\ Commands' = Commands
PROOF BY DEF IInv, StatusInv, FileInv, Versions, Commands

LEMMA ServiceKeeps ==
    ASSUME IInv, NEW a \in Agents, Build(a) \/ Start(a) \/ Stop(a)
    PROVE  IInv'
PROOF
<1> USE DEF central, changing, queues, service, settings, clock, reports
<1>1. /\ UNCHANGED <<kind, file, held, events, watcher, topic, dead, timeout, barcode,
                     pump, elapsed, draft, reported>>
      /\ run' \in [Agents -> {"down", "built", "started", "stopped"}]
      /\ starts' \in [Agents -> Nat]
      /\ timer' \in [Agents -> BOOLEAN] /\ silenced' \in [Agents -> BOOLEAN]
  <2>1. CASE Build(a)
    BY <2>1 DEF Build, IInv, TypeOK
  <2>2. CASE Start(a)
    BY <2>2 DEF Start, IInv, TypeOK
  <2>3. CASE Stop(a)
    BY <2>3 DEF Stop, IInv, TypeOK
  <2> QED BY <2>1, <2>2, <2>3
<1> HIDE DEF central, changing, queues, service, settings, clock, reports
<1>2. FileInv' /\ Versions' = Versions /\ Commands' = Commands
  BY <1>1, FileKeeps
<1>3. TopicInv' /\ NewerComes'
  BY <1>1, QueueKeeps
<1>4. TypeOK'
  BY <1>1, <1>2 DEF IInv, TypeOK
<1>5. PumpInv'
  BY <1>1 DEF IInv, StatusInv, PumpInv, InHand
<1>6. TimerFollowsService'
  <2> SUFFICES ASSUME NEW b \in Agents
               PROVE  /\ run'[b] = "started" /\ ~timer'[b] =>
                             silenced'[b] \/ pump'[b] \in {"interval", "timeout", "enable"}
                      /\ run'[b] # "started" /\ timer'[b] =>
                             timeout'[b] > 0 /\ kind'[timeout'[b]] = "good"
    BY DEF TimerFollowsService
  <2>1. CASE Build(a)
    BY <1>1, <2>1 DEF Build, clock, IInv, TypeOK, StatusInv, TimerFollowsService
  <2>2. CASE Start(a)
    BY <1>1, <2>2 DEF Start, IInv, TypeOK, StatusInv, TimerFollowsService
  <2>3. CASE Stop(a)
    BY <1>1, <2>3 DEF Stop, IInv, TypeOK, StatusInv, TimerFollowsService
  <2> QED BY <2>1, <2>2, <2>3
<1> QED BY <1>2, <1>3, <1>4, <1>5, <1>6 DEF IInv, StatusInv

LEMMA StatusTimerKeeps ==
    ASSUME IInv, NEW a \in Agents, StatusTimer(a)
    PROVE  IInv'
PROOF
<1> USE DEF central, changing, queues, service, settings, clock, reports
<1>1. UNCHANGED <<kind, file, held, events, watcher, topic, dead, run, starts, timer,
                  silenced, timeout, barcode, pump>>
  BY DEF StatusTimer, Elapsed, ReadPageTimeout, SendStatus
<1>2. /\ elapsed' \in [Agents -> {"idle", "read", "send"}]
      /\ draft' \in [Agents -> [timeout : Versions, barcode : Versions]]
      /\ reported' \in [Agents -> [timeout : Versions, barcode : Versions]]
  <2> USE DEF IInv, TypeOK
  <2>4. /\ draft[a] \in [timeout : Versions, barcode : Versions]
        /\ timeout[a] \in Versions /\ barcode[a] \in Versions
    OBVIOUS
  <2>1. CASE Elapsed(a)
    BY <2>1 DEF Elapsed
  <2>2. CASE ReadPageTimeout(a)
    <3>1. [draft[a] EXCEPT !.timeout = timeout[a]] \in [timeout : Versions, barcode : Versions]
      BY ONLY <2>4
    <3> QED BY <2>2, <3>1 DEF ReadPageTimeout
  <2>3. CASE SendStatus(a)
    <3>1. [draft[a] EXCEPT !.barcode = barcode[a]] \in [timeout : Versions, barcode : Versions]
      BY ONLY <2>4
    <3>2. Unknown \in [timeout : Versions, barcode : Versions]
      BY SavesKept DEF Unknown, Versions
    <3> QED BY <2>3, <3>1, <3>2 DEF SendStatus
  <2> QED BY <2>1, <2>2, <2>3 DEF StatusTimer
<1> HIDE DEF central, changing, queues, service, settings, clock, reports
<1>3. FileInv' /\ Versions' = Versions /\ Commands' = Commands
  BY <1>1, FileKeeps
<1>4. TopicInv' /\ NewerComes'
  BY <1>1, QueueKeeps
<1>5. TypeOK'
  BY <1>1, <1>2, <1>3 DEF IInv, TypeOK
<1>6. PumpInv' /\ TimerFollowsService'
  BY <1>1 DEF IInv, StatusInv, PumpInv, TimerFollowsService, InHand
<1> QED BY <1>3, <1>4, <1>5, <1>6 DEF IInv, StatusInv

\* The end of a process leaves its command to nobody.
LEMMA ExitKeeps ==
    ASSUME IInv, NEW a \in Agents, Exit(a)
    PROVE  IInv'
PROOF
<1> USE DEF central, changing, queues, service, settings, clock, reports
<1>1. UNCHANGED <<kind, file, held, events, watcher, dead, starts>>
  BY DEF Exit
<1>2. /\ run' = [run EXCEPT ![a] = "down"] /\ timer' = [timer EXCEPT ![a] = FALSE]
      /\ silenced' = [silenced EXCEPT ![a] = FALSE]
      /\ timeout' = [timeout EXCEPT ![a] = 0] /\ pump' = [pump EXCEPT ![a] = "idle"]
      /\ topic' = [i \in DOMAIN topic |->
                    IF topic[i].owner = a THEN [topic[i] EXCEPT !.owner = Orphan]
                    ELSE topic[i]]
  BY DEF Exit
<1>3. /\ barcode' = [barcode EXCEPT ![a] = 0]
      /\ elapsed' = [elapsed EXCEPT ![a] = "idle"] /\ draft' = [draft EXCEPT ![a] = Unknown]
      /\ reported' = [reported EXCEPT ![a] = Unknown]
  BY DEF Exit
<1> HIDE DEF central, changing, queues, service, settings, clock, reports
<1> DEFINE f == [i \in DOMAIN topic |-> i]
<1>4. FileInv' /\ Versions' = Versions /\ Commands' = Commands
  BY <1>1, FileKeeps
<1>5. \A i \in DOMAIN topic :
         /\ topic'[i] \in Commands
         /\ topic'[i].version = topic[i].version /\ topic'[i].count = topic[i].count
         /\ topic'[i].owner = IF topic[i].owner = a THEN Orphan ELSE topic[i].owner
  <2> SUFFICES ASSUME NEW i \in DOMAIN topic
               PROVE  /\ topic'[i] \in Commands
                      /\ topic'[i].version = topic[i].version
                      /\ topic'[i].count = topic[i].count
                      /\ topic'[i].owner = IF topic[i].owner = a THEN Orphan ELSE topic[i].owner
    OBVIOUS
  <2>1. topic[i] \in Commands
    BY CommandFields DEF IInv
  <2>2. CASE topic[i].owner = a
    BY <1>2, <2>1, <2>2 DEF Commands
  <2>3. CASE topic[i].owner # a
    BY <1>2, <2>1, <2>3
  <2> QED BY <2>2, <2>3
<1>6. topic' \in Seq(Commands) /\ DOMAIN topic' = DOMAIN topic
  BY <1>2, <1>5, TopicDomain DEF IInv
<1>7. Kept(f)
  BY <1>5, <1>6, StatusAssumption DEF Kept
<1>8. Released(a)
  BY <1>5, <1>6, StatusAssumption DEF Released
<1>9. \A b \in Agents : /\ pump'[b] = pump[b] \/ Released(b)
                        /\ timeout'[b] = timeout[b] \/ timeout'[b] = 0
  BY <1>2, <1>8 DEF IInv, TypeOK
<1> HIDE DEF f
<1>10. /\ TopicInv' /\ NewerComes'
       /\ \A b \in Agents : \A k \in DOMAIN topic' :
                InHand(b, k)' => /\ f[k] \in DOMAIN topic /\ InHand(b, f[k])
                                 /\ topic'[k].version = topic[f[k]].version
  BY <1>1, <1>7, <1>9, KeptTopic DEF IInv, StatusInv
<1>11. TypeOK'
  <2>1. 0 \in Versions /\ Unknown \in [timeout : Versions, barcode : Versions]
    BY SavesKept DEF IInv, Unknown, Versions
  <2>2. /\ kind' \in Saves /\ file' \in Versions' /\ held' \in BOOLEAN
        /\ events' \in Nat /\ watcher' \in {"off", "idle", "sleep"}
        /\ topic' \in Seq(Commands') /\ dead' \subseteq Versions'
    BY <1>1, <1>4, <1>6 DEF IInv, TypeOK
  <2>3. /\ run' \in [Agents -> {"down", "built", "started", "stopped"}]
        /\ starts' \in [Agents -> Nat]
        /\ timer' \in [Agents -> BOOLEAN] /\ silenced' \in [Agents -> BOOLEAN]
        /\ timeout' \in [Agents -> Versions'] /\ barcode' \in [Agents -> Versions']
    BY <1>1, <1>2, <1>3, <1>4, <2>1 DEF IInv, TypeOK
  <2>4. /\ pump' \in [Agents -> Pump]
        /\ elapsed' \in [Agents -> {"idle", "read", "send"}]
        /\ draft' \in [Agents -> [timeout : Versions', barcode : Versions']]
        /\ reported' \in [Agents -> [timeout : Versions', barcode : Versions']]
    BY <1>2, <1>3, <1>4, <2>1 DEF IInv, TypeOK, Pump
  <2> QED BY <2>2, <2>3, <2>4 DEF TypeOK
<1>12. PumpInv'
  <2> SUFFICES ASSUME NEW b \in Agents
               PROVE  /\ pump'[b] = "timeout" =>
                           \A k \in DOMAIN topic' :
                              InHand(b, k)' => kind'[topic'[k].version] = "good"
                      /\ pump'[b] = "enable" => timeout'[b] > 0 /\ kind'[timeout'[b]] = "good"
    BY DEF PumpInv
  <2>1. CASE b = a
    BY <1>2, <2>1 DEF IInv, TypeOK
  <2>2. CASE b # a
    <3>1. pump'[b] = pump[b] /\ timeout'[b] = timeout[b] /\ kind' = kind
      BY <1>1, <1>2, <2>2 DEF IInv, TypeOK
    <3>2. /\ pump[b] = "timeout" =>
                \A i \in DOMAIN topic : InHand(b, i) => kind[topic[i].version] = "good"
          /\ pump[b] = "enable" => timeout[b] > 0 /\ kind[timeout[b]] = "good"
      BY DEF IInv, StatusInv, PumpInv
    <3> QED BY <1>10, <3>1, <3>2
  <2> QED BY <2>1, <2>2
<1>13. TimerFollowsService'
  <2> SUFFICES ASSUME NEW b \in Agents
               PROVE  /\ run'[b] = "started" /\ ~timer'[b] =>
                             silenced'[b] \/ pump'[b] \in {"interval", "timeout", "enable"}
                      /\ run'[b] # "started" /\ timer'[b] =>
                             timeout'[b] > 0 /\ kind'[timeout'[b]] = "good"
    BY DEF TimerFollowsService
  <2>1. CASE b = a
    BY <1>2, <2>1 DEF IInv, TypeOK
  <2>2. CASE b # a
    BY <1>1, <1>2, <2>2 DEF IInv, TypeOK, StatusInv, TimerFollowsService
  <2> QED BY <2>1, <2>2
<1> QED BY <1>4, <1>10, <1>11, <1>12, <1>13 DEF IInv, StatusInv

----------------------------------------------------------------------------
(* The handler of a command *)

\* What of the type a step of a handler leaves to be shown.
LEMMA HandlerTypes ==
    ASSUME IInv, UNCHANGED <<kind, file, held, events, watcher, run, starts,
                             elapsed, draft, reported>>,
           topic' \in Seq(Commands), dead' \subseteq Versions,
           timer' \in [Agents -> BOOLEAN], silenced' \in [Agents -> BOOLEAN],
           timeout' \in [Agents -> Versions], barcode' \in [Agents -> Versions],
           pump' \in [Agents -> Pump]
    PROVE  TypeOK' /\ FileInv'
PROOF
<1>1. FileInv' /\ Versions' = Versions /\ Commands' = Commands
  BY FileKeeps
<1> QED BY <1>1 DEF IInv, TypeOK, Pump

\* A step that changes neither the commands nor the settings.
LEMMA TimerStepKeeps ==
    ASSUME IInv, NEW a \in Agents, NEW place \in Pump, Goto(a, place),
           UNCHANGED <<central, queues, service, settings, reports>>,
           timer' \in [Agents -> BOOLEAN], silenced' \in [Agents -> BOOLEAN],
           pump[a] # "idle", place # "idle", place # "enable",
           place = "timeout" =>
               \A i \in DOMAIN topic : InHand(a, i) => kind[topic[i].version] = "good",
           \A b \in Agents : b # a => timer'[b] = timer[b] /\ silenced'[b] = silenced[b],
           ~timer'[a] => \/ place \in {"interval", "timeout", "enable"}
                         \/ run[a] # "started",
           timer'[a] => \/ run[a] = "started"
                        \/ timeout[a] > 0 /\ kind[timeout[a]] = "good"
    PROVE  IInv'
PROOF
<1>1. UNCHANGED <<kind, file, held, events, watcher, topic, dead, run, starts, timeout,
                  barcode, elapsed, draft, reported>>
  BY DEF central, changing, queues, service, settings, reports
<1>2. pump' = [pump EXCEPT ![a] = place] /\ pump' \in [Agents -> Pump]
  BY DEF Goto, IInv, TypeOK
<1>3. pump'[a] = place /\ \A b \in Agents : b # a => pump'[b] = pump[b]
  BY <1>2 DEF IInv, TypeOK
<1>4. TypeOK' /\ FileInv'
  <2>1. /\ topic' \in Seq(Commands) /\ dead' \subseteq Versions
        /\ timeout' \in [Agents -> Versions] /\ barcode' \in [Agents -> Versions]
    BY <1>1 DEF IInv, TypeOK
  <2> QED BY <1>1, <1>2, <2>1, HandlerTypes
<1>5. TopicInv' /\ NewerComes'
  BY <1>1, <1>3, QueueKeeps
<1>6. PumpInv'
  <2> SUFFICES ASSUME NEW b \in Agents
               PROVE  /\ pump'[b] = "timeout" =>
                           \A k \in DOMAIN topic :
                              InHand(b, k) => kind[topic[k].version] = "good"
                      /\ pump'[b] = "enable" => timeout[b] > 0 /\ kind[timeout[b]] = "good"
    BY <1>1 DEF PumpInv, InHand
  <2>1. CASE b = a
    BY <1>3, <2>1
  <2>2. CASE b # a
    BY <1>3, <2>2 DEF IInv, StatusInv, PumpInv
  <2> QED BY <2>1, <2>2
<1>7. TimerFollowsService'
  <2> SUFFICES ASSUME NEW b \in Agents
               PROVE  /\ run[b] = "started" /\ ~timer'[b] =>
                             silenced'[b] \/ pump'[b] \in {"interval", "timeout", "enable"}
                      /\ run[b] # "started" /\ timer'[b] =>
                             timeout[b] > 0 /\ kind[timeout[b]] = "good"
    BY <1>1 DEF TimerFollowsService
  <2>1. CASE b = a
    BY <1>3, <2>1
  <2>2. CASE b # a
    BY <1>3, <2>2 DEF IInv, StatusInv, TimerFollowsService
  <2> QED BY <2>1, <2>2
<1> QED BY <1>4, <1>5, <1>6, <1>7 DEF IInv, StatusInv

LEMMA StopTimerKeeps ==
    ASSUME IInv, NEW a \in Agents, StopTimer(a)
    PROVE  IInv'
PROOF
<1>1. /\ pump[a] = "got" /\ timer' = [timer EXCEPT ![a] = FALSE] /\ Goto(a, "interval")
      /\ UNCHANGED <<central, queues, service, settings, reports>> /\ silenced' = silenced
  BY DEF StopTimer
<1>2. /\ timer' \in [Agents -> BOOLEAN] /\ silenced' \in [Agents -> BOOLEAN]
      /\ ~timer'[a] /\ \A b \in Agents : b # a => timer'[b] = timer[b]
  BY <1>1 DEF IInv, TypeOK
<1>3. "interval" \in Pump
  BY DEF Pump
<1> QED BY <1>1, <1>2, <1>3, TimerStepKeeps

LEMMA SetIntervalKeeps ==
    ASSUME IInv, NEW a \in Agents, SetInterval(a)
    PROVE  IInv'
PROOF
<1>1. /\ pump[a] = "interval" /\ Goto(a, "timeout")
      /\ \E i \in DOMAIN topic : InHand(a, i) /\ kind[topic[i].version] = "good"
      /\ UNCHANGED <<central, queues, service, settings, reports>>
      /\ silenced' = silenced /\ timer' = timer
  BY DEF SetInterval, clock
<1>2. \A i \in DOMAIN topic : InHand(a, i) => kind[topic[i].version] = "good"
  BY <1>1 DEF IInv, StatusInv, TopicInv
<1>3. timer' \in [Agents -> BOOLEAN] /\ silenced' \in [Agents -> BOOLEAN]
  BY <1>1 DEF IInv, TypeOK
<1>4. timer[a] => run[a] = "started" \/ (timeout[a] > 0 /\ kind[timeout[a]] = "good")
  BY DEF IInv, StatusInv, TimerFollowsService
<1>5. "timeout" \in Pump
  BY DEF Pump
<1> QED BY <1>1, <1>2, <1>3, <1>4, <1>5, TimerStepKeeps

LEMMA EnableTimerKeeps ==
    ASSUME IInv, NEW a \in Agents, EnableTimer(a)
    PROVE  IInv'
PROOF
<1>1. /\ pump[a] = "enable" /\ timer' = [timer EXCEPT ![a] = TRUE] /\ Goto(a, "barcode")
      /\ UNCHANGED <<central, queues, service, settings, reports>>
      /\ silenced' = [silenced EXCEPT ![a] = FALSE]
  BY DEF EnableTimer
<1>2. /\ timer' \in [Agents -> BOOLEAN] /\ silenced' \in [Agents -> BOOLEAN] /\ timer'[a]
      /\ \A b \in Agents : b # a => timer'[b] = timer[b] /\ silenced'[b] = silenced[b]
  BY <1>1 DEF IInv, TypeOK
<1>3. timeout[a] > 0 /\ kind[timeout[a]] = "good"
  BY <1>1 DEF IInv, StatusInv, PumpInv
<1>4. "barcode" \in Pump
  BY DEF Pump
<1> QED BY <1>1, <1>2, <1>3, <1>4, TimerStepKeeps

\* The timeout becomes that of the command in hand, than which no other one that
\* is new to the agent is older.
LEMMA SetPageTimeoutKeeps ==
    ASSUME IInv, NEW a \in Agents, SetPageTimeout(a)
    PROVE  IInv'
PROOF
<1> USE DEF central, changing, queues, service, clock, reports
<1>1. /\ UNCHANGED <<kind, file, held, events, watcher, topic, dead, run, starts, timer,
                     silenced, barcode, elapsed, draft, reported>>
      /\ pump[a] = "timeout" /\ pump' = [pump EXCEPT ![a] = "enable"]
      /\ \E i \in DOMAIN topic :
            InHand(a, i) /\ timeout' = [timeout EXCEPT ![a] = topic[i].version]
  BY DEF SetPageTimeout, Goto
<1> HIDE DEF central, changing, queues, service, clock, reports
<1>2. PICK i \in DOMAIN topic :
        InHand(a, i) /\ timeout' = [timeout EXCEPT ![a] = topic[i].version]
  BY <1>1
<1>3. /\ topic[i].version \in Versions /\ topic[i].version > 0
      /\ topic[i].count \in Nat /\ topic[i].count > 0
  <2>1. topic[i].count # 0
    BY <1>2, StatusAssumption DEF IInv, StatusInv, TopicInv, InHand
  <2> QED BY <2>1, CommandFields DEF IInv
<1>4. /\ pump'[a] = "enable" /\ \A b \in Agents : b # a => pump'[b] = pump[b]
      /\ timeout'[a] = topic[i].version
      /\ \A b \in Agents : b # a => timeout'[b] = timeout[b]
      /\ timeout' \in [Agents -> Versions] /\ pump' \in [Agents -> Pump]
  BY <1>1, <1>2, <1>3 DEF IInv, TypeOK, Pump
<1>5. TypeOK' /\ FileInv'
  <2>1. /\ topic' \in Seq(Commands) /\ dead' \subseteq Versions
        /\ timer' \in [Agents -> BOOLEAN] /\ silenced' \in [Agents -> BOOLEAN]
        /\ barcode' \in [Agents -> Versions]
    BY <1>1 DEF IInv, TypeOK
  <2> QED BY <1>1, <1>4, <2>1, HandlerTypes
<1>6. \A b, k : InHand(b, k)' <=> InHand(b, k)
  BY <1>1 DEF InHand
<1>7. TopicInv'
  BY <1>1, <1>4, <1>6 DEF IInv, StatusInv, TopicInv
<1>8. NewerComes'
  <2> SUFFICES ASSUME NEW b \in Agents
               PROVE  /\ timeout'[b] <= file
                      /\ \A k \in DOMAIN topic :
                            topic[k].count = 0 \/ (InHand(b, k) /\ topic[k].count = 1)
                            => timeout'[b] <= topic[k].version
    BY <1>1, <1>6 DEF NewerComes
  <2>1. CASE b # a
    BY <1>4, <2>1 DEF IInv, StatusInv, NewerComes
  <2>2. CASE b = a
    <3>1. topic[i].version <= file
      BY DEF IInv, StatusInv, TopicInv
    <3>2. ASSUME NEW k \in DOMAIN topic, topic[k].count = 0
          PROVE  topic[i].version <= topic[k].version
      <4>1. i \in Int /\ k \in Int
        BY TopicDomain DEF IInv
      <4>2. ~(k < i) /\ k # i
        BY <1>3, <3>2 DEF IInv, StatusInv, TopicInv
      <4>3. i < k
        BY <4>1, <4>2
      <4> QED BY <4>3 DEF IInv, StatusInv, TopicInv
    <3>3. ASSUME NEW k \in DOMAIN topic, InHand(a, k)
          PROVE  topic[i].version <= topic[k].version
      <4>1. k = i
        BY <1>2, <3>3 DEF IInv, StatusInv, TopicInv
      <4>2. topic[i].version \in Int
        BY CommandFields DEF IInv
      <4> QED BY <4>1, <4>2
    <3> QED BY <1>4, <2>2, <3>1, <3>2, <3>3
  <2> QED BY <2>1, <2>2
<1>9. kind[topic[i].version] = "good"
  BY <1>1, <1>2 DEF IInv, StatusInv, PumpInv
<1>10. PumpInv'
  <2> SUFFICES ASSUME NEW b \in Agents
               PROVE  /\ pump'[b] = "timeout" =>
                           \A k \in DOMAIN topic :
                              InHand(b, k) => kind[topic[k].version] = "good"
                      /\ pump'[b] = "enable" => timeout'[b] > 0 /\ kind[timeout'[b]] = "good"
    BY <1>1, <1>6 DEF PumpInv
  <2>1. CASE b = a
    BY <1>3, <1>4, <1>9, <2>1
  <2>2. CASE b # a
    BY <1>4, <2>2 DEF IInv, StatusInv, PumpInv
  <2> QED BY <2>1, <2>2
<1>11. TimerFollowsService'
  <2> SUFFICES ASSUME NEW b \in Agents
               PROVE  /\ run[b] = "started" /\ ~timer[b] =>
                             silenced[b] \/ pump'[b] \in {"interval", "timeout", "enable"}
                      /\ run[b] # "started" /\ timer[b] =>
                             timeout'[b] > 0 /\ kind[timeout'[b]] = "good"
    BY <1>1 DEF TimerFollowsService
  <2>1. CASE b = a
    BY <1>3, <1>4, <1>9, <2>1
  <2>2. CASE b # a
    BY <1>4, <2>2 DEF IInv, StatusInv, TimerFollowsService
  <2> QED BY <2>1, <2>2
<1> QED BY <1>5, <1>7, <1>8, <1>10, <1>11 DEF IInv, StatusInv

\* The barcode is nowhere read but in the report.
LEMMA SetBarcodeStringKeeps ==
    ASSUME IInv, NEW a \in Agents, SetBarcodeString(a)
    PROVE  IInv'
PROOF
<1> USE DEF central, changing, queues, service, clock, reports
<1>1. /\ UNCHANGED <<kind, file, held, events, watcher, topic, dead, run, starts, timer,
                     silenced, timeout, elapsed, draft, reported>>
      /\ pump[a] = "barcode" /\ pump' = [pump EXCEPT ![a] = "complete"]
      /\ \E i \in DOMAIN topic :
            InHand(a, i) /\ barcode' = [barcode EXCEPT ![a] = topic[i].version]
  BY DEF SetBarcodeString, Goto
<1> HIDE DEF central, changing, queues, service, clock, reports
<1>2. barcode' \in [Agents -> Versions] /\ pump' \in [Agents -> Pump]
  BY <1>1, CommandFields DEF IInv, TypeOK, Pump
<1>3. pump'[a] = "complete" /\ \A b \in Agents : b # a => pump'[b] = pump[b]
  BY <1>1 DEF IInv, TypeOK
<1>4. TypeOK' /\ FileInv'
  <2>1. /\ topic' \in Seq(Commands) /\ dead' \subseteq Versions
        /\ timer' \in [Agents -> BOOLEAN] /\ silenced' \in [Agents -> BOOLEAN]
        /\ timeout' \in [Agents -> Versions]
    BY <1>1 DEF IInv, TypeOK
  <2> QED BY <1>1, <1>2, <2>1, HandlerTypes
<1>5. TopicInv' /\ NewerComes'
  BY <1>1, <1>3, QueueKeeps
<1>6. PumpInv'
  BY <1>1, <1>3 DEF IInv, StatusInv, PumpInv, InHand
<1>7. TimerFollowsService'
  BY <1>1, <1>3 DEF IInv, StatusInv, TimerFollowsService
<1> QED BY <1>4, <1>5, <1>6, <1>7 DEF IInv, StatusInv

\* A step in which commands only leave, and with them perhaps their handler.
LEMMA ReleaseKeeps ==
    ASSUME IInv, NEW f, Kept(f), dead' \subseteq Versions,
           UNCHANGED <<central, service, settings, reports, timer>>,
           silenced' \in [Agents -> BOOLEAN], \A b \in Agents : silenced[b] => silenced'[b],
           pump' \in [Agents -> Pump],
           \A b \in Agents :
              \/ pump'[b] = pump[b]
              \/ /\ pump'[b] = "idle" /\ Released(b)
                 /\ pump[b] \in {"got", "complete"} \/ silenced'[b]
    PROVE  IInv'
PROOF
<1>1. UNCHANGED <<kind, file, held, events, watcher, run, starts, timeout, barcode,
                  elapsed, draft, reported, timer>>
  BY DEF central, changing, service, settings, reports
<1>2. TypeOK' /\ FileInv'
  <2>1. /\ timer' \in [Agents -> BOOLEAN]
        /\ timeout' \in [Agents -> Versions] /\ barcode' \in [Agents -> Versions]
    BY <1>1 DEF IInv, TypeOK
  <2>2. topic' \in Seq(Commands)
    BY DEF Kept
  <2> QED BY <1>1, <2>1, <2>2, HandlerTypes
<1>3. /\ TopicInv' /\ NewerComes'
      /\ \A b \in Agents : \A k \in DOMAIN topic' :
            InHand(b, k)' => /\ f[k] \in DOMAIN topic /\ InHand(b, f[k])
                             /\ topic'[k].version = topic[f[k]].version
  BY <1>1, KeptTopic DEF IInv, StatusInv
<1>4. PumpInv'
  <2> SUFFICES ASSUME NEW b \in Agents
               PROVE  /\ pump'[b] = "timeout" =>
                           \A k \in DOMAIN topic' :
                              InHand(b, k)' => kind[topic'[k].version] = "good"
                      /\ pump'[b] = "enable" => timeout[b] > 0 /\ kind[timeout[b]] = "good"
    BY <1>1 DEF PumpInv
  <2>1. /\ pump[b] = "timeout" =>
              \A i \in DOMAIN topic : InHand(b, i) => kind[topic[i].version] = "good"
        /\ pump[b] = "enable" => timeout[b] > 0 /\ kind[timeout[b]] = "good"
    BY DEF IInv, StatusInv, PumpInv
  <2>2. pump'[b] \in {"timeout", "enable"} => pump[b] = pump'[b]
    OBVIOUS
  <2> QED BY <1>3, <2>1, <2>2
<1>5. TimerFollowsService'
  <2> SUFFICES ASSUME NEW b \in Agents
               PROVE  /\ run[b] = "started" /\ ~timer[b] =>
                             silenced'[b] \/ pump'[b] \in {"interval", "timeout", "enable"}
                      /\ run[b] # "started" /\ timer[b] =>
                             timeout[b] > 0 /\ kind[timeout[b]] = "good"
    BY <1>1 DEF TimerFollowsService
  <2>1. /\ run[b] = "started" /\ ~timer[b] =>
                 silenced[b] \/ pump[b] \in {"interval", "timeout", "enable"}
        /\ run[b] # "started" /\ timer[b] => timeout[b] > 0 /\ kind[timeout[b]] = "good"
    BY DEF IInv, StatusInv, TimerFollowsService
  <2> QED BY <2>1
<1> QED BY <1>2, <1>3, <1>4, <1>5 DEF IInv, StatusInv

LEMMA LockExpiresKeeps ==
    ASSUME IInv, LockExpires
    PROVE  IInv'
PROOF
<1>1. PICK i \in DOMAIN topic : topic[i].owner = Orphan /\ Return(i)
  BY DEF LockExpires
<1>2. /\ UNCHANGED <<central, service, settings, reports, timer>>
      /\ silenced' = silenced /\ pump' = pump
  BY DEF LockExpires, clock
<1>3. topic[i].owner # NoAgent
  BY <1>1, StatusAssumption
<1>4. PICK f : Kept(f)
  BY <1>1, <1>3, ReturnKept DEF IInv, StatusInv
<1>5. dead' \subseteq Versions
  BY <1>1, <1>3, ReturnKept DEF IInv, StatusInv
<1>6. silenced' \in [Agents -> BOOLEAN] /\ pump' \in [Agents -> Pump]
  BY <1>2 DEF IInv, TypeOK
<1> QED BY <1>2, <1>4, <1>5, <1>6, ReleaseKeeps

LEMMA AbandonKeeps ==
    ASSUME IInv, NEW a \in Agents, CannotDeserialize(a) \/ IntervalRefused(a)
    PROVE  IInv'
PROOF
<1>1. PICK i \in DOMAIN topic : InHand(a, i) /\ Return(i)
  BY DEF CannotDeserialize, IntervalRefused
<1>2. /\ UNCHANGED <<central, service, settings, reports, timer>>
      /\ pump' = [pump EXCEPT ![a] = "idle"]
      /\ \/ pump[a] = "got" /\ silenced' = silenced
         \/ silenced' = [silenced EXCEPT ![a] = TRUE]
  BY DEF CannotDeserialize, IntervalRefused, clock, Goto
<1>3. topic[i].owner # NoAgent
  BY <1>1, StatusAssumption DEF InHand
<1>4. PICK f : Kept(f)
  BY <1>1, <1>3, ReturnKept DEF IInv, StatusInv
<1>5. dead' \subseteq Versions /\ Released(a)
  BY <1>1, <1>3, ReturnKept DEF IInv, StatusInv
<1>6. silenced' \in [Agents -> BOOLEAN] /\ pump' \in [Agents -> Pump]
  BY <1>2 DEF IInv, TypeOK, Pump
<1>7. \A b \in Agents : silenced[b] => silenced'[b]
  BY <1>2 DEF IInv, TypeOK
<1>8. pump[a] \in {"got", "complete"} \/ silenced'[a]
  BY <1>2 DEF IInv, TypeOK
<1>9. pump'[a] = "idle" /\ \A b \in Agents : b # a => pump'[b] = pump[b]
  BY <1>2 DEF IInv, TypeOK
<1> QED BY <1>2, <1>4, <1>5, <1>6, <1>7, <1>8, <1>9, ReleaseKeeps

LEMMA CompleteKeeps ==
    ASSUME IInv, NEW a \in Agents, Complete(a)
    PROVE  IInv'
PROOF
<1>1. PICK i \in DOMAIN topic : InHand(a, i) /\ topic' = RemoveAt(topic, i)
  BY DEF Complete
<1>2. /\ UNCHANGED <<central, service, settings, reports, timer>> /\ dead' = dead
      /\ pump' = [pump EXCEPT ![a] = "idle"] /\ pump[a] = "complete" /\ silenced' = silenced
  BY DEF Complete, clock, Goto
<1>3. PICK f : Kept(f)
  BY <1>1, RemovedKept DEF IInv, StatusInv
<1>4. Released(a)
  BY <1>1, RemovedKept DEF IInv, StatusInv
<1>5. silenced' \in [Agents -> BOOLEAN] /\ pump' \in [Agents -> Pump] /\ dead' \subseteq Versions
  BY <1>2 DEF IInv, TypeOK, Pump
<1>6. pump'[a] = "idle" /\ \A b \in Agents : b # a => pump'[b] = pump[b]
  BY <1>2 DEF IInv, TypeOK
<1> QED BY <1>2, <1>3, <1>4, <1>5, <1>6, ReleaseKeeps

\* The first free command is taken: all before it have been delivered too.
LEMMA ReceiveKeeps ==
    ASSUME IInv, NEW a \in Agents, Receive(a)
    PROVE  IInv'
PROOF
<1> USE DEF central, changing, service, settings, clock, reports
<1>1. /\ UNCHANGED <<kind, file, held, events, watcher, dead, run, starts, timer, silenced,
                     timeout, barcode, elapsed, draft, reported>>
      /\ pump[a] = "idle" /\ pump' = [pump EXCEPT ![a] = "got"]
  BY DEF Receive, Goto
<1> HIDE DEF central, changing, service, settings, clock, reports
<1>2. PICK i \in DOMAIN topic :
         /\ topic[i].owner = NoAgent
         /\ \A j \in 1..i - 1 : topic[j].owner # NoAgent
         /\ Deliver(a, i)
  BY DEF Receive
<1>3. DOMAIN topic = 1..Len(topic) /\ Len(topic) \in Nat /\ topic \in Seq(Commands)
  BY TopicDomain DEF IInv, TypeOK
<1>4. topic[i].count \in Nat /\ topic[i].count < MaxDelivery /\ topic[i] \in Commands
  BY <1>2, CommandFields DEF IInv, StatusInv, TopicInv
<1> DEFINE taken == [version |-> topic[i].version, count |-> topic[i].count + 1, owner |-> a]
<1>5. /\ taken \in Commands /\ taken.version = topic[i].version
      /\ taken.owner = a /\ taken.count = topic[i].count + 1
  <2>1. topic[i].version \in 1..Len(kind) /\ topic[i].count + 1 \in 0..MaxDelivery
    BY <1>4, StatusAssumption DEF Commands
  <2> QED BY <2>1 DEF Commands
<1>6. topic' = [topic EXCEPT ![i] = taken]
  BY <1>2 DEF Deliver
<1> HIDE DEF taken
<1>7. topic' \in Seq(Commands) /\ DOMAIN topic' = DOMAIN topic
  BY <1>3, <1>5, <1>6
<1>8. /\ topic'[i] = taken /\ \A k \in DOMAIN topic : k # i => topic'[k] = topic[k]
  BY <1>3, <1>6
<1>9. \A k \in DOMAIN topic : topic'[k].version = topic[k].version
  BY <1>5, <1>8
<1>10. pump'[a] = "got" /\ \A b \in Agents : b # a => pump'[b] = pump[b]
  BY <1>1 DEF IInv, TypeOK
<1>11. TypeOK' /\ FileInv'
  <2>1. /\ dead' \subseteq Versions /\ pump' \in [Agents -> Pump]
        /\ timer' \in [Agents -> BOOLEAN] /\ silenced' \in [Agents -> BOOLEAN]
        /\ timeout' \in [Agents -> Versions] /\ barcode' \in [Agents -> Versions]
    BY <1>1 DEF IInv, TypeOK, Pump
  <2> QED BY <1>1, <1>7, <2>1, HandlerTypes
<1>12. \A b \in Agents : \A k \in DOMAIN topic :
          InHand(b, k)' <=> IF k = i THEN b = a ELSE InHand(b, k)
  BY <1>5, <1>7, <1>8 DEF InHand
<1>13. \A k \in DOMAIN topic : ~InHand(a, k)
  BY <1>1 DEF IInv, StatusInv, TopicInv
<1>14. TopicInv'
  <2>1. ASSUME NEW k \in DOMAIN topic', NEW l \in DOMAIN topic', k < l
        PROVE  /\ topic'[k].version <= topic'[l].version
               /\ topic'[l].count > 0 => topic'[k].count > 0
    <3>1. topic'[k].version <= topic'[l].version
      BY <1>7, <1>9, <2>1 DEF IInv, StatusInv, TopicInv
    <3>2. CASE l = i
      <4>1. k \in 1..i - 1
        BY <1>3, <1>7, <2>1, <3>2
      <4>2. topic[k].count # 0
        BY <1>2, <1>7, <4>1 DEF IInv, StatusInv, TopicInv
      <4>3. topic[k].count \in Nat
        BY <1>7, CommandFields DEF IInv
      <4>4. topic'[k] = topic[k]
        BY <1>3, <1>7, <1>8, <2>1, <3>2
      <4> QED BY <3>1, <4>2, <4>3, <4>4
    <3>3. CASE k = i
      BY <1>4, <1>5, <1>8, <3>1, <3>3
    <3>4. CASE k # i /\ l # i
      BY <1>7, <1>8, <2>1, <3>1, <3>4 DEF IInv, StatusInv, TopicInv
    <3> QED BY <3>2, <3>3, <3>4
  <2>2. ASSUME NEW k \in DOMAIN topic'
        PROVE  /\ topic'[k].version <= file'
               /\ topic'[k].owner = NoAgent => topic'[k].count < MaxDelivery
               /\ topic'[k].count = 0 => topic'[k].owner = NoAgent
    <3>1. CASE k = i
      BY <1>1, <1>4, <1>5, <1>8, <3>1, StatusAssumption DEF IInv, StatusInv, TopicInv
    <3>2. CASE k # i
      BY <1>1, <1>7, <1>8, <3>2 DEF IInv, StatusInv, TopicInv
    <3> QED BY <3>1, <3>2
  <2>3. ASSUME NEW b \in Agents, NEW k \in DOMAIN topic', NEW l \in DOMAIN topic',
               InHand(b, k)', InHand(b, l)'
        PROVE  k = l
    BY <1>7, <1>12, <1>13, <2>3 DEF IInv, StatusInv, TopicInv
  <2>4. ASSUME NEW b \in Agents, NEW k \in DOMAIN topic', InHand(b, k)'
        PROVE  pump'[b] # "idle"
    <3>1. CASE b = a
      BY <1>10, <3>1
    <3>2. CASE b # a
      BY <1>7, <1>10, <1>12, <2>4, <3>2 DEF IInv, StatusInv, TopicInv
    <3> QED BY <3>1, <3>2
  <2> QED BY <2>1, <2>2, <2>3, <2>4 DEF TopicInv
<1>15. NewerComes'
  <2> SUFFICES ASSUME NEW b \in Agents
               PROVE  /\ timeout[b] <= file
                      /\ \A k \in DOMAIN topic :
                            topic'[k].count = 0 \/ (InHand(b, k)' /\ topic'[k].count = 1)
                            => timeout[b] <= topic[k].version
    BY <1>1, <1>7, <1>9 DEF NewerComes
  <2>1. ASSUME NEW k \in DOMAIN topic,
               topic'[k].count = 0 \/ (InHand(b, k)' /\ topic'[k].count = 1)
        PROVE  timeout[b] <= topic[k].version
    <3>1. CASE k = i
      <4>1. topic[i].count = 0
        BY <1>4, <1>5, <1>8, <2>1, <3>1
      <4> QED BY <3>1, <4>1 DEF IInv, StatusInv, NewerComes
    <3>2. CASE k # i
      BY <1>8, <1>12, <2>1, <3>2 DEF IInv, StatusInv, NewerComes
    <3> QED BY <3>1, <3>2
  <2> QED BY <2>1 DEF IInv, StatusInv, NewerComes
<1>16. PumpInv'
  <2> SUFFICES ASSUME NEW b \in Agents
               PROVE  /\ pump'[b] = "timeout" =>
                           \A k \in DOMAIN topic :
                              InHand(b, k)' => kind[topic[k].version] = "good"
                      /\ pump'[b] = "enable" => timeout[b] > 0 /\ kind[timeout[b]] = "good"
    BY <1>1, <1>7, <1>9 DEF PumpInv
  <2>1. CASE b = a
    BY <1>10, <2>1
  <2>2. CASE b # a
    BY <1>10, <1>12, <2>2 DEF IInv, StatusInv, PumpInv
  <2> QED BY <2>1, <2>2
<1>17. TimerFollowsService'
  BY <1>1, <1>10 DEF IInv, StatusInv, TimerFollowsService
<1> QED BY <1>11, <1>14, <1>15, <1>16, <1>17 DEF IInv, StatusInv

----------------------------------------------------------------------------
(* The theorems *)

LEMMA StatusInit == Init => IInv
PROOF
<1> SUFFICES ASSUME Init PROVE IInv
  OBVIOUS
<1>1. kind \in Seq(Kinds)
  BY StatusAssumption DEF Init
<1>2. Len(kind) \in Nat /\ 0 \in Versions
  BY <1>1 DEF Versions
<1>3. topic = <<>> /\ DOMAIN topic = {}
  BY DEF Init
<1>4. TypeOK
  <2>1. Unknown \in [timeout : Versions, barcode : Versions]
    BY <1>2 DEF Unknown
  <2>2. topic \in Seq(Commands)
    BY <1>3
  <2>3. /\ kind \in Saves /\ file \in Versions /\ held \in BOOLEAN
        /\ events \in Nat /\ watcher \in {"off", "idle", "sleep"} /\ dead \subseteq Versions
    BY <1>2 DEF Init
  <2>4. /\ run \in [Agents -> {"down", "built", "started", "stopped"}]
        /\ starts \in [Agents -> Nat]
        /\ timer \in [Agents -> BOOLEAN] /\ silenced \in [Agents -> BOOLEAN]
    BY DEF Init
  <2>5. /\ timeout \in [Agents -> Versions] /\ barcode \in [Agents -> Versions]
        /\ pump \in [Agents -> Pump] /\ elapsed \in [Agents -> {"idle", "read", "send"}]
    BY <1>2 DEF Init, Pump
  <2>6. /\ draft \in [Agents -> [timeout : Versions, barcode : Versions]]
        /\ reported \in [Agents -> [timeout : Versions, barcode : Versions]]
    BY <2>1 DEF Init
  <2> QED BY <2>2, <2>3, <2>4, <2>5, <2>6 DEF TypeOK
<1>5. FileInv
  BY DEF Init, FileInv
<1>6. TopicInv
  BY <1>3 DEF TopicInv, InHand
<1>7. NewerComes
  BY <1>3 DEF Init, NewerComes
<1>8. PumpInv
  BY DEF Init, PumpInv
<1>9. TimerFollowsService
  BY DEF Init, TimerFollowsService
<1> QED BY <1>4, <1>5, <1>6, <1>7, <1>8, <1>9 DEF IInv, StatusInv

LEMMA StutterKeeps == IInv /\ UNCHANGED vars => IInv'
PROOF
<1> SUFFICES ASSUME IInv, UNCHANGED vars PROVE IInv'
  OBVIOUS
<1>1. UNCHANGED <<kind, file, held, events, watcher, topic, dead, run, starts, timer,
                  silenced, timeout, barcode, pump, elapsed, draft, reported>>
  BY DEF vars, central, changing, queues, service, settings, clock, reports
<1>2. TopicInv' /\ NewerComes' /\ PumpInv' /\ TimerFollowsService'
  BY <1>1, AgentsKeep DEF IInv, TypeOK, StatusInv, NewerComes, Versions
<1>3. FileInv' /\ Versions' = Versions /\ Commands' = Commands
  BY <1>1, FileKeeps
<1>4. TypeOK'
  BY <1>1, <1>3 DEF IInv, TypeOK
<1> QED BY <1>2, <1>3, <1>4 DEF IInv, StatusInv

LEMMA StatusStep == IInv /\ [Next]_vars => IInv'
PROOF
<1> SUFFICES ASSUME IInv, [Next]_vars PROVE IInv'
  OBVIOUS
<1>1. CASE UNCHANGED vars
  BY <1>1, StutterKeeps
<1>2. CASE Settings \/ Central \/ StartCentral \/ StopCentral
  BY <1>2, WatcherKeeps, SendKeeps DEF Central
<1>3. CASE LockExpires
  BY <1>3, LockExpiresKeeps
<1>4. ASSUME NEW a \in Agents, Service(a)
      PROVE  IInv'
  BY <1>4, ServiceKeeps, ExitKeeps DEF Service
<1>5. ASSUME NEW a \in Agents, ProcessMessage(a)
      PROVE  IInv'
  BY <1>5, ReceiveKeeps, AbandonKeeps, StopTimerKeeps, SetIntervalKeeps,
     SetPageTimeoutKeeps, EnableTimerKeeps, SetBarcodeStringKeeps, CompleteKeeps
     DEF ProcessMessage
<1>6. ASSUME NEW a \in Agents, StatusTimer(a)
      PROVE  IInv'
  BY <1>6, StatusTimerKeeps
<1> QED BY <1>1, <1>2, <1>3, <1>4, <1>5, <1>6 DEF Next

LEMMA StatusIsInvariant == Spec => []IInv
PROOF BY StatusInit, StatusStep, PTL DEF Spec

\* Every variable keeps its type.
THEOREM TypeCorrect == Spec => []TypeOK
PROOF
<1>1. IInv => TypeOK
  BY DEF IInv
<1> QED BY <1>1, StatusIsInvariant, PTL

\* The commands stay in the order of their versions and a handler knows what it
\* checked (AzureSubscriptionClient.cs:25-47, AzureServiceBusClient.cs:52-65).
THEOREM StatusCorrect == Spec => []StatusInv
PROOF
<1>1. IInv => StatusInv
  BY DEF IInv
<1> QED BY <1>1, StatusIsInvariant, PTL

\* The status timer of a started service is on but for known moments, although
\* Start, Stop and UpdateTimer run on two threads (StatusService.cs:29-46).
THEOREM TimerIsRight == Spec => []TimerFollowsService
PROOF
<1>1. IInv => TimerFollowsService
  BY DEF IInv, StatusInv
<1> QED BY <1>1, StatusIsInvariant, PTL

\* Only a command that is taken, or the end of the process, changes the timeout.
LEMMA OnlyCommandsSetTimeout ==
    ASSUME IInv, [Next]_vars, NEW a \in Agents,
           timeout'[a] # timeout[a], run'[a] # "down"
    PROVE  SetPageTimeout(a)
PROOF
<1> USE DEF central, changing, queues, service, settings, clock, reports
<1>1. CASE UNCHANGED vars
  BY <1>1 DEF vars
<1>2. CASE Settings \/ Central \/ StartCentral \/ StopCentral \/ LockExpires
  BY <1>2 DEF Settings, BeginSave, EndSave, Central, Watcher_Changed, Send, OpenFails,
              StartCentral, StopCentral, LockExpires
<1>3. ASSUME NEW b \in Agents, Service(b)
      PROVE  FALSE
  <2>1. CASE Build(b) \/ Start(b) \/ Stop(b)
    BY <2>1 DEF Build, Start, Stop
  <2>2. CASE Exit(b)
    <3>1. /\ run' = [run EXCEPT ![b] = "down"] /\ timeout' = [timeout EXCEPT ![b] = 0]
      BY <2>2 DEF Exit
    <3> QED BY <3>1 DEF IInv, TypeOK
  <2> QED BY <1>3, <2>1, <2>2 DEF Service
<1>4. ASSUME NEW b \in Agents, ProcessMessage(b), ~SetPageTimeout(b)
      PROVE  FALSE
  BY <1>4 DEF ProcessMessage, Receive, CannotDeserialize, StopTimer, IntervalRefused,
              SetInterval, EnableTimer, SetBarcodeString, Complete
<1>5. ASSUME NEW b \in Agents, StatusTimer(b)
      PROVE  FALSE
  BY <1>5 DEF StatusTimer, Elapsed, ReadPageTimeout, SendStatus
<1>6. ASSUME NEW b \in Agents, SetPageTimeout(b), b # a
      PROVE  FALSE
  <2>1. \E v : timeout' = [timeout EXCEPT ![b] = v]
    BY <1>6 DEF SetPageTimeout
  <2> QED BY <1>6, <2>1 DEF IInv, TypeOK
<1> QED BY <1>1, <1>2, <1>3, <1>4, <1>5, <1>6 DEF Next

\* An agent takes older settings only from a command that was delivered before
\* (AzureSubscriptionClient.cs:34-35).
THEOREM StepsBackAreRedelivered == Spec => NoStepBack
PROOF
<1> DEFINE Redelivered ==
      \A a \in Agents :
          (timeout'[a] < timeout[a] /\ run'[a] # "down")
          => \E i \in DOMAIN topic : InHand(a, i) /\ topic[i].count > 1
<1>1. IInv /\ [Next]_vars => [Redelivered]_vars
  <2> SUFFICES ASSUME IInv, [Next]_vars, NEW a \in Agents,
                      timeout'[a] < timeout[a], run'[a] # "down"
               PROVE  \E i \in DOMAIN topic : InHand(a, i) /\ topic[i].count > 1
    BY DEF vars
  <2>1. timeout[a] \in Nat
    BY SavesKept DEF IInv, TypeOK, Versions
  <2>2. SetPageTimeout(a)
    BY <2>1, OnlyCommandsSetTimeout
  <2>3. PICK i \in DOMAIN topic :
           InHand(a, i) /\ timeout' = [timeout EXCEPT ![a] = topic[i].version]
    BY <2>2 DEF SetPageTimeout
  <2>4. timeout'[a] = topic[i].version
    BY <2>3 DEF IInv, TypeOK
  <2>5. topic[i].version \in Nat /\ topic[i].count \in Nat
    BY CommandFields DEF IInv
  <2>6. topic[i].count # 0
    BY <2>3, StatusAssumption DEF IInv, StatusInv, TopicInv, InHand
  <2>7. topic[i].count # 1
    BY <2>1, <2>3, <2>4, <2>5 DEF IInv, StatusInv, NewerComes
  <2> QED BY <2>3, <2>5, <2>6, <2>7
<1>2. Spec => [][Redelivered]_vars
  BY <1>1, StatusIsInvariant, PTL DEF Spec
<1> QED BY <1>2 DEF NoStepBack
=============================================================================
