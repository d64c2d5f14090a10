-------------------------- MODULE ChatServerProofs --------------------------
(***************************************************************************)
(* Proofs about ChatServer, for any number of clients, whatever they write *)
(* and whatever goes wrong.                                                *)
(***************************************************************************)
EXTENDS ChatServer, SequenceLemmas

Entry == Clients \cup {NoClient}

----------------------------------------------------------------------------
(* The list *)

\* Whatever a race makes of the list, its entries are clients or nulls.
LEMMA MangledEntries ==
    ASSUME NEW l \in Seq(Entry), NEW m \in Mangled(l)
    PROVE  m \in Seq(Entry)
PROOF
<1>1. CASE m = l
  BY <1>1
<1>2. CASE \E i \in 1..Len(l) : m = RemoveAt(l, i)
  BY <1>2, RemovedElement
<1>3. CASE \E i \in 1..Len(l) : m = [l EXCEPT ![i] = NoClient]
  BY <1>3 DEF Entry
<1> QED BY <1>1, <1>2, <1>3 DEF Mangled

\* The place IndexOf finds is that of the client.
LEMMA IndexIsPlace ==
    ASSUME NEW c \in Clients
    PROVE  /\ IndexOf(c) = 0 <=> c \notin Listed
           /\ c \in Listed => IndexOf(c) \in 1..Len(clients) /\ clients[IndexOf(c)] = c
PROOF
<1>1. CASE c \in Listed
  <2>1. \E i \in 1..Len(clients) : clients[i] = c
    BY <1>1 DEF Listed
  <2>2. /\ (CHOOSE i \in 1..Len(clients) : clients[i] = c) \in 1..Len(clients)
        /\ clients[CHOOSE i \in 1..Len(clients) : clients[i] = c] = c
    BY <2>1
  <2> QED BY <1>1, <2>2 DEF IndexOf
<1>2. CASE c \notin Listed
  BY <1>2 DEF IndexOf
<1> QED BY <1>1, <1>2

\* A change of the list leaves clients and nulls in it.
LEMMA StoredEntries ==
    ASSUME NEW l \in Seq(Entry), Store(l)
    PROVE  clients' \in Seq(Entry)
PROOF
<1>1. clients' = l \/ clients' \in Mangled(l)
  BY DEF Store
<1> QED BY <1>1, MangledEntries

----------------------------------------------------------------------------
(* Type correctness *)

LEMMA TypeInit == Init => TypeOK
PROOF
<1> SUFFICES ASSUME Init PROVE TypeOK
  OBVIOUS
<1>1. <<>> \in Seq(Clients \cup {NoClient}) /\ <<>> \in Seq(Batches)
  OBVIOUS
<1>2. Nothing \in Batches
  BY DEF Nothing, Batches
<1>3. heard \in [Clients -> [Clients -> Seq(Batches)]]
  BY <1>1 DEF Init
<1>4. batch \in [Clients -> Batches]
  BY <1>2 DEF Init
<1>5. pc \in [Clients -> Control] /\ \A c \in Clients : pc[c] = "write" => to[c] \in Clients
  BY DEF Init, Control
<1>6. /\ clients \in Seq(Clients \cup {NoClient})
      /\ isTplVersion \in BOOLEAN /\ up \in BOOLEAN /\ torn \in BOOLEAN
      /\ listener \in {"accept", "disconnect", "retry"} /\ closing \in Nat
  BY <1>1 DEF Init
<1>7. /\ stream \in [Clients -> {"null", "open", "closed", "cut"}]
      /\ peer \in [Clients -> {"none", "connected", "gone"}]
      /\ stale \in [Clients -> BOOLEAN]
  BY DEF Init
<1>8. /\ next \in [Clients -> Nat \ {0}] /\ to \in [Clients -> Clients \cup {NoClient}]
      /\ said \in [Clients -> Nat] /\ endAt \in [Clients -> Nat]
  BY DEF Init
<1> QED BY <1>3, <1>4, <1>5, <1>6, <1>7, <1>8 DEF TypeOK

LEMMA TypeStep == TypeOK /\ [Next]_vars => TypeOK'
PROOF
<1> SUFFICES ASSUME TypeOK, [Next]_vars PROVE TypeOK'
  OBVIOUS
<1> USE DEF TypeOK, server, list, cursor, program
<1>1. ASSUME NEW c \in Clients, Program(c) PROVE TypeOK'
  <2>1. CASE SendMessage(c)
    BY <2>1 DEF SendMessage
  <2>2. CASE CancelKey(c)
    BY <2>2 DEF CancelKey
  <2>3. CASE Vanish(c)
    BY <2>3 DEF Vanish
  <2> QED BY <1>1, <2>1, <2>2, <2>3 DEF Program
<1>2. ASSUME NEW c \in Clients, AddConnection(c) PROVE TypeOK'
  <2>1. Append(clients, c) \in Seq(Entry)
    BY DEF Entry
  <2>2. clients' \in Seq(Clients \cup {NoClient})
    BY <1>2, <2>1, StoredEntries DEF AddConnection, Entry
  <2> QED BY <1>2, <2>2 DEF AddConnection, Touch, Control
<1>3. ASSUME NEW c \in Clients, StartThread(c) PROVE TypeOK'
  <2>1. stale' \in [Clients -> BOOLEAN] /\ closing' \in Nat
    BY <1>3 DEF StartThread, Bump
  <2>2. pc' \in [Clients -> Control] /\ \A d \in Clients : pc'[d] = "write" => to'[d] \in Clients
    BY <1>3 DEF StartThread, Control
  <2> QED BY <1>3, <2>1, <2>2 DEF StartThread
<1>4. CASE Disconnect
  <2>1. CASE ListenFails
    BY <2>1 DEF ListenFails
  <2>2. CASE CloseNext
    <3>1. stream' \in [Clients -> {"null", "open", "closed", "cut"}]
      BY <2>2 DEF CloseNext
    <3> QED BY <2>2, <3>1 DEF CloseNext, Touch
  <2>3. CASE DisconnectFails
    <3>1. /\ torn' \in BOOLEAN /\ up' \in BOOLEAN
          /\ listener' \in {"accept", "disconnect", "retry"} /\ closing' \in Nat
      <4>1. Touch(NoClient)
        BY <2>3 DEF DisconnectFails
      <4>2. torn' \in BOOLEAN
        BY <4>1 DEF Touch
      <4>3. \/ listener' = "retry" /\ closing' = 1 /\ up' = up
            \/ up' = FALSE /\ UNCHANGED <<listener, closing>>
        BY <2>3 DEF DisconnectFails
      <4>4. up' \in BOOLEAN
        <5>1. up' = up \/ up' = FALSE
          BY <4>3
        <5> QED BY <5>1
      <4>5. listener' \in {"accept", "disconnect", "retry"}
        BY <4>3
      <4>6. closing' \in Nat
        <5>1. closing' = 1 \/ closing' = closing
          BY <4>3
        <5> QED BY <5>1
      <4> QED BY <4>2, <4>4, <4>5, <4>6
    <3>2. UNCHANGED <<isTplVersion, clients, stale, pc, stream, next, to, batch, peer,
                      said, endAt, heard>>
      BY <2>3 DEF DisconnectFails
    <3> HIDE DEF server, list, cursor, program
    <3> QED BY <3>1, <3>2
  <2>4. CASE Exit
    BY <2>4 DEF Exit, Touch
  <2> QED BY <1>4, <2>1, <2>2, <2>3, <2>4 DEF Disconnect
<1>5. ASSUME NEW c \in Clients, Process(c) PROVE TypeOK'
  <2>1. CASE GetStream(c)
    BY <2>1 DEF GetStream, Goto, Control
  <2>2. CASE GetMessage(c)
    <3>1. [first |-> batch[c].last + 1, last |-> said[c]] \in Batches
      BY DEF Batches
    <3> QED BY <2>2, <3>1 DEF GetMessage, Goto, Control
  <2>3. CASE ReadFails(c)
    BY <2>3 DEF ReadFails, Goto, Control
  <2>4. CASE MoveNext(c)
    <3>1. /\ torn' \in BOOLEAN
          /\ UNCHANGED <<isTplVersion, up, listener, closing, clients, stream, batch,
                         peer, said, endAt, heard>>
      <4>1. torn' \in BOOLEAN
        BY <2>4 DEF MoveNext, Touch
      <4> QED BY <2>4, <4>1 DEF MoveNext
    <3>2. CASE stale[c] \/ (next[c] <= Len(clients) /\ clients[next[c]] = NoClient)
      <4>1. Dispose(c) /\ Goto(c, "find")
        BY <2>4, <3>2 DEF MoveNext
      <4>2. /\ pc' \in [Clients -> Control]
            /\ \A d \in Clients : pc'[d] = "write" => to'[d] \in Clients
        BY <4>1 DEF Dispose, Goto, Control
      <4>3. /\ next' \in [Clients -> Nat \ {0}] /\ stale' \in [Clients -> BOOLEAN]
            /\ to' \in [Clients -> Clients \cup {NoClient}]
        BY <4>1 DEF Dispose
      <4> QED BY <3>1, <4>2, <4>3
    <3>3. CASE /\ ~(stale[c] \/ (next[c] <= Len(clients) /\ clients[next[c]] = NoClient))
               /\ next[c] > Len(clients)
      <4> DEFINE place == IF Leaving(c) THEN "find" ELSE "chat"
      <4>1. place \in Control /\ place # "write"
        BY DEF Control
      <4>2. Dispose(c) /\ Goto(c, place)
        BY <2>4, <3>3 DEF MoveNext
      <4> HIDE DEF place
      <4>3. /\ pc' \in [Clients -> Control]
            /\ \A d \in Clients : pc'[d] = "write" => to'[d] \in Clients
        BY <4>1, <4>2 DEF Dispose, Goto
      <4>4. /\ next' \in [Clients -> Nat \ {0}] /\ stale' \in [Clients -> BOOLEAN]
            /\ to' \in [Clients -> Clients \cup {NoClient}]
        BY <4>2 DEF Dispose
      <4> QED BY <3>1, <4>3, <4>4
    <3>4. CASE /\ ~(stale[c] \/ (next[c] <= Len(clients) /\ clients[next[c]] = NoClient))
               /\ ~(next[c] > Len(clients))
      <4>1. clients[next[c]] \in Clients
        BY <3>4
      <4> DEFINE place == IF clients[next[c]] = c THEN "cast" ELSE "write"
                 entry == clients[next[c]]
      <4>2. place \in Control
        BY DEF Control
      <4>3. Goto(c, place) /\ to' = [to EXCEPT ![c] = entry]
        BY <2>4, <3>4 DEF MoveNext
      <4> HIDE DEF place, entry
      <4>5. pc' \in [Clients -> Control]
        BY <4>2, <4>3 DEF Goto
      <4>6. /\ to' \in [Clients -> Clients \cup {NoClient}]
            /\ \A d \in Clients : pc'[d] = "write" => to'[d] \in Clients
        BY <4>1, <4>3 DEF Goto, entry
      <4>7. next' = [next EXCEPT ![c] = @ + 1] /\ stale' = stale
        BY <2>4, <3>4 DEF MoveNext
      <4>8. next[c] + 1 \in Nat \ {0}
        OBVIOUS
      <4>4. next' \in [Clients -> Nat \ {0}] /\ stale' \in [Clients -> BOOLEAN]
        BY <4>7, <4>8
      <4> QED BY <3>1, <4>4, <4>5, <4>6
    <3> QED BY <3>2, <3>3, <3>4
  <2>5. CASE Write(c)
    <3>1. heard' \in [Clients -> [Clients -> Seq(Batches)]]
      <4>1. to[c] \in Clients
        BY <2>5 DEF Write
      <4>2. Append(heard[to[c]][c], batch[c]) \in Seq(Batches)
        BY <4>1
      <4> QED BY <2>5, <4>1, <4>2 DEF Write
    <3> QED BY <2>5, <3>1 DEF Write, Goto, Control
  <2>6. CASE WriteFails(c)
    BY <2>6 DEF WriteFails, Dispose, Goto, Control
  <2>7. CASE FirstOrDefault(c)
    BY <2>7 DEF FirstOrDefault, Goto, Control
  <2>8. CASE EndOfFirstOrDefault(c)
    BY <2>8 DEF EndOfFirstOrDefault, Escapes, Touch, Goto, Control
  <2>9. CASE RemoveEntry(c)
    <3>1. clients' \in Seq(Clients \cup {NoClient})
      <4>1. CASE IndexOf(c) = 0
        BY <2>9, <4>1 DEF RemoveEntry
      <4>2. CASE IndexOf(c) # 0
        <5>1. RemoveAt(clients, IndexOf(c)) \in Seq(Entry)
          BY <4>2, IndexIsPlace, RemovedElement DEF Entry
        <5> QED BY <2>9, <4>2, <5>1, StoredEntries DEF RemoveEntry, Entry
      <4> QED BY <4>1, <4>2
    <3> QED BY <2>9, <3>1 DEF RemoveEntry, Touch, Goto, Control
  <2>10. CASE EndOfRemoveEntry(c)
    BY <2>10 DEF EndOfRemoveEntry, Bump, Goto, Control
  <2>11. CASE Close(c)
    BY <2>11 DEF Close, Goto, Control
  <2>12. CASE GetStreamFails(c)
    BY <2>12 DEF GetStreamFails, Goto, Control
  <2> QED BY <1>5, <2>1, <2>2, <2>3, <2>4, <2>5, <2>6, <2>7, <2>8, <2>9, <2>10, <2>11, <2>12
          DEF Process
<1>6. CASE UNCHANGED vars
  BY <1>6 DEF vars
<1> QED BY <1>1, <1>2, <1>3, <1>4, <1>5, <1>6 DEF Next, Listen

\* The variables keep their types.
THEOREM TypeCorrect == Spec => []TypeOK
PROOF
<1>1. Init => TypeOK
  BY TypeInit
<1>2. TypeOK /\ [Next]_vars => TypeOK'
  BY TypeStep
<1> QED BY <1>1, <1>2, PTL DEF Spec

----------------------------------------------------------------------------
(* The inductive invariant *)

Good == ListInv /\ ThreadInv /\ DisconnectInv /\ CursorInv /\ HearingInv /\ Contiguous

\* The threads that do not take the step are not affected by it.
LEMMA OthersHear ==
    ASSUME NEW r \in Clients, NEW s \in Clients, Hearing(r, s),
           peer'[r] = "connected" => peer[r] = "connected",
           clients' = clients, pc'[s] = pc[s], stale'[s] = stale[s],
           next'[s] = next[s], to'[s] = to[s], batch'[s] = batch[s],
           heard'[r][s] = heard[r][s],
           Changing' = {} => Changing = {}
    PROVE  Hearing(r, s)'
PROOF
<1>1. Listed' = Listed
  BY DEF Listed
<1>2. InStep(s)' => InStep(s)
  BY DEF InStep
<1>3. /\ HeardUpTo(r, s, batch[s].first - 1)' <=> HeardUpTo(r, s, batch[s].first - 1)
      /\ HeardUpTo(r, s, batch[s].last)' <=> HeardUpTo(r, s, batch[s].last)
      /\ HeardBatch(r, s)' <=> HeardBatch(r, s)
      /\ Reached(s, r)' <=> Reached(s, r)
  BY DEF HeardUpTo, HeardBatch, Reached
<1> QED BY <1>1, <1>2, <1>3 DEF Hearing

LEMMA OthersPoint ==
    ASSUME NEW s \in Clients, Points(s),
           clients' = clients, pc'[s] = pc[s], stale'[s] = stale[s],
           next'[s] = next[s], to'[s] = to[s],
           Changing' = {} => Changing = {}
    PROVE  Points(s)'
PROOF BY DEF Points, InStep

\* A thread that is not in step with the list keeps what it has made heard.
LEMMA OutOfStepHears ==
    ASSUME NEW r \in Clients, NEW s \in Clients, Hearing(r, s),
           peer'[r] = "connected" => peer[r] = "connected",
           pc'[s] = pc[s] \/ pc'[s] \notin {"write", "name", "chat"},
           to'[s] = to[s], batch'[s] = batch[s], heard'[r][s] = heard[r][s],
           r \in Listed' => r \in Listed, ~InStep(s)'
    PROVE  Hearing(r, s)'
PROOF
<1>1. /\ HeardUpTo(r, s, batch[s].first - 1)' <=> HeardUpTo(r, s, batch[s].first - 1)
      /\ HeardUpTo(r, s, batch[s].last)' <=> HeardUpTo(r, s, batch[s].last)
  BY DEF HeardUpTo
<1> QED BY <1>1 DEF Hearing

\* Who does not close a listed client leaves Disconnect where it is.
LEMMA DisconnectGoesOn ==
    ASSUME ListInv, DisconnectInv,
           clients' = clients, listener' = listener, closing' = closing,
           Changing' = {} => Changing = {},
           \A d \in Listed : Closed(d)' <=> Closed(d)
    PROVE  DisconnectInv'
PROOF
<1> SUFFICES ASSUME NEW i \in 1..Len(clients)
             PROVE  /\ Closed(clients[i])' =>
                           \/ listener = "retry"
                           \/ listener = "disconnect" /\ (closing = 0 \/ i < closing)
                    /\ i < closing /\ Changing' = {} => Closed(clients[i])'
  BY DEF DisconnectInv
<1>1. PICK d \in Listed : d = clients[i]
  BY DEF ListInv, Listed
<1>2. Closed(clients[i])' <=> Closed(d)'
  BY <1>1 DEF Closed
<1> QED BY <1>1, <1>2 DEF DisconnectInv

\* A change of the version ends Disconnect's enumeration.
LEMMA BumpEndsDisconnect ==
    ASSUME DisconnectInv, Bump, UNCHANGED <<clients, stream, listener>>,
           Len(clients) \in Nat
    PROVE  DisconnectInv'
PROOF
<1>1. closing' = 0 /\ \A i \in 1..Len(clients) : ~(i < 0)
  BY DEF Bump
<1> QED BY <1>1 DEF DisconnectInv, Closed

\* The client programs only decide who still listens.
LEMMA ProgramKeeps ==
    ASSUME TypeOK, TypeOK', Good, NEW c \in Clients, Program(c)
    PROVE  Good'
PROOF
<1> USE DEF server, list, cursor, program
<1>1. /\ UNCHANGED <<listener, closing, clients, pc, stream, stale, next, to, batch, heard>>
      /\ \A r \in Clients : peer'[r] = "connected" => peer[r] = "connected"
      /\ \A r \in Clients : peer'[r] = "none" <=> peer[r] = "none"
      /\ \A r \in Clients : said[r] <= said'[r]
  <2>1. CASE SendMessage(c)
    BY <2>1 DEF SendMessage, TypeOK
  <2>2. CASE CancelKey(c)
    BY <2>2 DEF CancelKey, TypeOK
  <2>3. CASE Vanish(c)
    BY <2>3 DEF Vanish, TypeOK
  <2> QED BY <2>1, <2>2, <2>3 DEF Program
<1> HIDE DEF server, list, cursor, program
<1>2. Listed' = Listed /\ Changing' = Changing
  BY <1>1 DEF Listed, Changing
<1>3. ListInv'
  BY <1>1, <1>2 DEF Good, ListInv
<1>4. ThreadInv'
  <2>1. ASSUME NEW d \in Clients PROVE batch[d].last <= said'[d]
    <3>1. batch[d].last \in Nat /\ said[d] \in Nat /\ said'[d] \in Nat
      BY DEF TypeOK, Batches
    <3>2. batch[d].last <= said[d] /\ said[d] <= said'[d]
      BY <1>1 DEF Good, ThreadInv
    <3> QED BY <3>1, <3>2
  <2> QED BY <1>1, <2>1 DEF Good, ThreadInv, Closed
<1>5. CursorInv'
  BY <1>1, <1>2, OthersPoint DEF Good, CursorInv
<1>6. HearingInv'
  BY <1>1, <1>2, OthersHear DEF Good, HearingInv
<1>7. Contiguous'
  BY <1>1 DEF Good, Contiguous
<1>8. DisconnectInv'
  BY <1>1, <1>2, DisconnectGoesOn DEF Good, Closed
<1> QED BY <1>3, <1>4, <1>5, <1>6, <1>7, <1>8 DEF Good

\* A new client is at the end of the list and has not heard anything.
LEMMA AddConnectionKeeps ==
    ASSUME TypeOK, TypeOK', Good, NEW c \in Clients, AddConnection(c), ~torn'
    PROVE  Good'
PROOF
<1> USE DEF server, list, cursor, program
<1>1. /\ UNCHANGED <<listener, closing, stream, stale, next, to, batch, said, heard>>
      /\ listener = "accept"
      /\ pc[c] = "absent" /\ pc' = [pc EXCEPT ![c] = "adding"]
      /\ peer' = [peer EXCEPT ![c] = "connected"]
      /\ Touch(c) /\ Store(Append(clients, c))
  BY DEF AddConnection
<1> HIDE DEF server, list, cursor, program
<1>2. Changing = {}
  BY <1>1 DEF Touch, Changing
<1>3. clients' = Append(clients, c)
  BY <1>1, <1>2 DEF Store
<1>4. c \notin Listed
  BY <1>1 DEF Good, ListInv
<1>5. /\ Len(clients') = Len(clients) + 1
      /\ \A i \in 1..Len(clients) : clients'[i] = clients[i]
      /\ clients'[Len(clients) + 1] = c
  BY <1>3, AppendedElements DEF TypeOK
<1>6. Listed' = Listed \cup {c}
  <2>1. \A i \in 1..Len(clients) : i \in 1..Len(clients')
    BY <1>5 DEF TypeOK
  <2>2. Len(clients) + 1 \in 1..Len(clients')
    BY <1>5 DEF TypeOK
  <2>3. \A i \in 1..Len(clients') : i \in 1..Len(clients) \/ i = Len(clients) + 1
    BY <1>5 DEF TypeOK
  <2>4. ASSUME NEW d \in Listed PROVE d \in Listed'
    BY <1>5, <2>1, <2>4 DEF Listed
  <2>5. c \in Listed'
    BY <1>5, <2>2 DEF Listed
  <2>6. ASSUME NEW d \in Listed', d # c PROVE d \in Listed
    BY <1>5, <2>3, <2>6 DEF Listed
  <2> QED BY <2>4, <2>5, <2>6
<1>7. ListInv'
  <2>1. ASSUME NEW i \in 1..Len(clients'), NEW j \in 1..Len(clients'),
               clients'[i] = clients'[j]
        PROVE  i = j
    <3>1. ASSUME NEW k \in 1..Len(clients) PROVE clients'[k] # c
      BY <1>4, <1>5 DEF Listed
    <3>2. /\ i \in 1..Len(clients) \/ i = Len(clients) + 1
          /\ j \in 1..Len(clients) \/ j = Len(clients) + 1
      BY <1>5 DEF TypeOK
    <3>3. CASE i = Len(clients) + 1
      BY <1>5, <2>1, <3>1, <3>2, <3>3
    <3>4. CASE j = Len(clients) + 1
      BY <1>5, <2>1, <3>1, <3>2, <3>4
    <3>5. CASE i \in 1..Len(clients) /\ j \in 1..Len(clients)
      BY <1>5, <2>1, <3>5 DEF Good, ListInv
    <3> QED BY <3>2, <3>3, <3>4, <3>5
  <2>2. ASSUME NEW i \in 1..Len(clients') PROVE clients'[i] \in Clients
    <3>1. CASE i = Len(clients) + 1
      BY <1>5, <3>1
    <3>2. CASE i \in 1..Len(clients)
      BY <1>5, <3>2 DEF Good, ListInv
    <3> QED BY <1>5, <3>1, <3>2 DEF TypeOK
  <2>3. ASSUME NEW d \in Clients
        PROVE  d \in Listed' <=> pc'[d] \notin {"absent", "removing", "close", "done"}
    BY <1>1, <1>6 DEF Good, ListInv, TypeOK
  <2> QED BY <2>1, <2>2, <2>3 DEF ListInv
<1>8. ThreadInv'
  BY <1>1 DEF Good, ThreadInv, TypeOK, Closed
<1>13. DisconnectInv'
  <2>1. closing' = 0 /\ listener' = "accept"
    BY <1>1 DEF Good, DisconnectInv
  <2>2. ASSUME NEW i \in 1..Len(clients') PROVE ~Closed(clients[i])'
    <3>1. PICK d \in Clients : d = clients'[i]
      BY <1>7 DEF ListInv
    <3>2. pc'[d] # "done"
      BY <1>7, <3>1 DEF ListInv, Listed
    <3>3. ~Closed(d)'
      BY <1>8, <2>1, <3>2 DEF ThreadInv
    <3> QED BY <3>1, <3>3 DEF Closed
  <2>3. \A i \in 1..Len(clients') : ~(i < 0)
    BY DEF TypeOK
  <2> QED BY <2>1, <2>2, <2>3 DEF DisconnectInv
<1>9. c \in Changing'
  BY <1>1 DEF Changing, TypeOK
<1>10. CursorInv'
  BY <1>9 DEF CursorInv, Points, InStep
<1>11. HearingInv'
  <2> SUFFICES ASSUME NEW r \in Clients, NEW s \in Clients PROVE Hearing(r, s)'
    BY DEF HearingInv
  <2>1. ~InStep(s)'
    BY <1>9 DEF InStep
  <2>2. CASE r = c
    <3>1. heard'[r][s] = <<>>
      BY <1>1, <2>2 DEF Good, ThreadInv
    <3>2. ~(pc'[s] = "write" /\ to'[s] = r)
      BY <1>1, <2>2 DEF Good, ThreadInv, TypeOK
    <3> QED BY <2>1, <3>1, <3>2 DEF Hearing, HeardUpTo
  <2>3. CASE r # c
    <3>1. Hearing(r, s)
      BY DEF Good, HearingInv
    <3>2. /\ peer'[r] = peer[r] /\ (pc'[s] = pc[s] \/ pc'[s] = "adding")
          /\ r \in Listed' => r \in Listed
      BY <1>1, <1>6, <2>3 DEF TypeOK
    <3> QED BY <1>1, <2>1, <3>1, <3>2, OutOfStepHears
  <2> QED BY <2>2, <2>3
<1>12. Contiguous'
  BY <1>1 DEF Good, Contiguous
<1> QED BY <1>7, <1>8, <1>10, <1>11, <1>12, <1>13 DEF Good

\* A change of the version leaves no enumerator in step with the list.
LEMMA BumpEndsSteps ==
    ASSUME TypeOK, NEW c \in Clients, Bump,
           NEW place, place \notin {"cast", "write"}, Goto(c, place)
    PROVE  /\ \A s \in Clients : ~InStep(s)'
           /\ \A s \in Clients : stale'[s] => pc[s] \in {"cast", "write", "finding"}
PROOF
<1>1. ASSUME NEW s \in Clients PROVE ~InStep(s)'
  BY DEF TypeOK, InStep, Bump, Goto
<1> QED BY <1>1 DEF Bump

\* The listener has added the client and starts its thread.
LEMMA StartThreadKeeps ==
    ASSUME TypeOK, TypeOK', Good, NEW c \in Clients, StartThread(c)
    PROVE  Good'
PROOF
<1> USE DEF server, list, cursor, program
<1>1. /\ UNCHANGED <<listener, clients, stream, next, to, batch, peer, said, heard>>
      /\ pc[c] = "adding" /\ Goto(c, "attach") /\ Bump
  BY DEF StartThread, Goto
<1> HIDE DEF server, list, cursor, program
<1>2. /\ \A s \in Clients : ~InStep(s)'
      /\ \A s \in Clients : stale'[s] => pc[s] \in {"cast", "write", "finding"}
  BY <1>1, BumpEndsSteps
<1>3. Listed' = Listed
  BY <1>1 DEF Listed
<1>4. pc'[c] = "attach" /\ \A d \in Clients : d # c => pc'[d] = pc[d]
  BY <1>1 DEF Goto, TypeOK
<1>5. ListInv'
  BY <1>1, <1>3, <1>4 DEF Good, ListInv
<1>6. ThreadInv'
  <2>1. \A d \in Clients : pc'[d] = "absent" <=> pc[d] = "absent"
    BY <1>1, <1>4
  <2>2. \A d \in Clients : pc'[d] \notin {"cast", "write", "finding"} => ~stale'[d]
    BY <1>1, <1>2, <1>4
  <2>3. ASSUME NEW d \in Clients, pc'[d] = "write"
        PROVE  to'[d] # d /\ pc'[to'[d]] # "absent"
    <3>1. pc[d] = "write" /\ to'[d] = to[d]
      BY <1>1, <1>4, <2>3
    <3>2. to[d] \in Clients /\ to[d] # d /\ pc[to[d]] # "absent"
      BY <3>1 DEF Good, ThreadInv, TypeOK
    <3> QED BY <2>1, <3>1, <3>2
  <2>4. \A d \in Clients :
          /\ listener' = "accept" /\ Closed(d)' => pc'[d] = "done"
          /\ pc'[d] \in {"absent", "adding"} => stream'[d] = "null"
          /\ pc'[d] = "adding" => listener' = "accept"
          /\ pc'[d] \notin {"cast", "write"} => next'[d] = 1
          /\ pc'[d] \in {"absent", "adding", "attach", "name"} =>
               batch'[d] = Nothing /\ \A r \in Clients : heard'[r][d] = <<>>
    BY <1>1, <1>4 DEF Good, ThreadInv, Closed
  <2> QED BY <1>1, <2>1, <2>2, <2>3, <2>4 DEF Good, ThreadInv
<1>7. CursorInv'
  BY <1>2 DEF CursorInv, Points
<1>8. HearingInv'
  <2> SUFFICES ASSUME NEW r \in Clients, NEW s \in Clients PROVE Hearing(r, s)'
    BY DEF HearingInv
  <2>1. pc'[s] = pc[s] \/ pc'[s] \notin {"write", "name", "chat"}
    BY <1>4
  <2> QED BY <1>1, <1>2, <1>3, <2>1, OutOfStepHears DEF Good, HearingInv
<1>9. Contiguous'
  BY <1>1 DEF Good, Contiguous
<1>10. DisconnectInv'
  BY <1>1, BumpEndsDisconnect DEF Good, TypeOK
<1> QED BY <1>5, <1>6, <1>7, <1>8, <1>9, <1>10 DEF Good

\* Remove has taken the entry out.
LEMMA EndOfRemoveEntryKeeps ==
    ASSUME TypeOK, TypeOK', Good, NEW c \in Clients, EndOfRemoveEntry(c)
    PROVE  Good'
PROOF
<1> USE DEF server, list, cursor, program
<1>1. /\ UNCHANGED <<listener, clients, stream, next, to, batch, peer, said, heard>>
      /\ pc[c] = "removing" /\ Goto(c, "close") /\ Bump
  BY DEF EndOfRemoveEntry
<1> HIDE DEF server, list, cursor, program
<1>2. /\ \A s \in Clients : ~InStep(s)'
      /\ \A s \in Clients : stale'[s] => pc[s] \in {"cast", "write", "finding"}
  BY <1>1, BumpEndsSteps
<1>3. Listed' = Listed
  BY <1>1 DEF Listed
<1>4. pc'[c] = "close" /\ \A d \in Clients : d # c => pc'[d] = pc[d]
  BY <1>1 DEF Goto, TypeOK
<1>5. ListInv'
  BY <1>1, <1>3, <1>4 DEF Good, ListInv
<1>6. ThreadInv'
  <2>1. \A d \in Clients : pc'[d] = "absent" <=> pc[d] = "absent"
    BY <1>1, <1>4
  <2>2. \A d \in Clients : pc'[d] \notin {"cast", "write", "finding"} => ~stale'[d]
    BY <1>1, <1>2, <1>4
  <2>3. ASSUME NEW d \in Clients, pc'[d] = "write"
        PROVE  to'[d] # d /\ pc'[to'[d]] # "absent"
    <3>1. pc[d] = "write" /\ to'[d] = to[d]
      BY <1>1, <1>4, <2>3
    <3>2. to[d] \in Clients /\ to[d] # d /\ pc[to[d]] # "absent"
      BY <3>1 DEF Good, ThreadInv, TypeOK
    <3> QED BY <2>1, <3>1, <3>2
  <2>4. \A d \in Clients :
          /\ listener' = "accept" /\ Closed(d)' => pc'[d] = "done"
          /\ pc'[d] \in {"absent", "adding"} => stream'[d] = "null"
          /\ pc'[d] = "adding" => listener' = "accept"
          /\ pc'[d] \notin {"cast", "write"} => next'[d] = 1
          /\ pc'[d] \in {"absent", "adding", "attach", "name"} =>
               batch'[d] = Nothing /\ \A r \in Clients : heard'[r][d] = <<>>
    BY <1>1, <1>4 DEF Good, ThreadInv, Closed
  <2> QED BY <1>1, <2>1, <2>2, <2>3, <2>4 DEF Good, ThreadInv
<1>7. CursorInv'
  BY <1>2 DEF CursorInv, Points
<1>8. HearingInv'
  <2> SUFFICES ASSUME NEW r \in Clients, NEW s \in Clients PROVE Hearing(r, s)'
    BY DEF HearingInv
  <2>1. pc'[s] = pc[s] \/ pc'[s] \notin {"write", "name", "chat"}
    BY <1>4
  <2> QED BY <1>1, <1>2, <1>3, <2>1, OutOfStepHears DEF Good, HearingInv
<1>9. Contiguous'
  BY <1>1 DEF Good, Contiguous
<1>10. DisconnectInv'
  BY <1>1, BumpEndsDisconnect DEF Good, TypeOK
<1> QED BY <1>5, <1>6, <1>7, <1>8, <1>9, <1>10 DEF Good

\* A step of the thread of c that changes neither the list nor what was heard and
\* ends, or does not begin, the use of an enumerator.
LEMMA QuietStepKeeps ==
    ASSUME TypeOK, TypeOK', Good, NEW c \in Clients, NEW place,
           UNCHANGED <<listener, closing, clients, batch, peer, said, heard>>, Goto(c, place),
           pc[c] \in {"attach", "name", "chat", "cast", "write", "find", "finding", "close"},
           place \in {"name", "chat", "find", "finding", "found", "done", "failed"},
           place = "name" => pc[c] = "attach",
           place = "done" <=> pc[c] = "close",
           place \in {"name", "chat"} =>
               \A r \in Listed \ {c} :
                   peer[r] = "connected" => HeardUpTo(r, c, batch[c].last),
           ~stale'[c], next'[c] = 1,
           listener = "accept" /\ Closed(c)' => place = "done",
           c \in Listed => (Closed(c)' <=> Closed(c)),
           \A d \in Clients : d # c =>
               /\ stale'[d] = stale[d] /\ next'[d] = next[d]
               /\ to'[d] = to[d] /\ stream'[d] = stream[d]
    PROVE  Good'
PROOF
<1>1. pc'[c] = place /\ \A d \in Clients : d # c => pc'[d] = pc[d]
  BY DEF Goto, TypeOK
<1>2. Listed' = Listed /\ Changing' = Changing
  BY <1>1 DEF Listed, Changing
<1>3. ListInv'
  BY <1>1, <1>2 DEF Good, ListInv
<1>4. ThreadInv'
  <2>1. \A d \in Clients : pc'[d] = "absent" <=> pc[d] = "absent"
    BY <1>1
  <2>2. \A d \in Clients : pc'[d] = "write" => to'[d] # d /\ pc'[to'[d]] # "absent"
    <3> SUFFICES ASSUME NEW d \in Clients, pc'[d] = "write"
                 PROVE  to'[d] # d /\ pc'[to'[d]] # "absent"
      OBVIOUS
    <3>1. pc[d] = "write" /\ to'[d] = to[d]
      BY <1>1
    <3>2. to[d] \in Clients /\ to[d] # d /\ pc[to[d]] # "absent"
      BY <3>1 DEF Good, ThreadInv, TypeOK
    <3> QED BY <2>1, <3>1, <3>2
  <2>3. \A d \in Clients :
          /\ listener' = "accept" /\ Closed(d)' => pc'[d] = "done"
          /\ pc'[d] \in {"absent", "adding"} => stream'[d] = "null"
          /\ pc'[d] = "adding" => listener' = "accept"
          /\ pc'[d] \notin {"cast", "write"} => next'[d] = 1
          /\ pc'[d] \notin {"cast", "write", "finding"} => ~stale'[d]
    <3> TAKE d \in Clients
    <3>1. CASE d = c
      BY <1>1, <3>1
    <3>2. CASE d # c
      BY <1>1, <3>2 DEF Good, ThreadInv, Closed
    <3> QED BY <3>1, <3>2
  <2>4. \A d \in Clients :
          pc'[d] \in {"absent", "adding", "attach", "name"} =>
               batch'[d] = Nothing /\ \A r \in Clients : heard'[r][d] = <<>>
    <3> TAKE d \in Clients
    <3>1. CASE d = c
      BY <1>1, <3>1 DEF Good, ThreadInv
    <3>2. CASE d # c
      BY <1>1, <3>2 DEF Good, ThreadInv
    <3> QED BY <3>1, <3>2
  <2> QED BY <2>1, <2>2, <2>3, <2>4 DEF Good, ThreadInv
<1>5. CursorInv'
  <2> SUFFICES ASSUME NEW s \in Clients PROVE Points(s)'
    BY DEF CursorInv
  <2>1. CASE s = c
    BY <1>1, <2>1 DEF Points
  <2>2. CASE s # c
    BY <1>1, <1>2, <2>2, OthersPoint DEF Good, CursorInv
  <2> QED BY <2>1, <2>2
<1>6. HearingInv'
  <2> SUFFICES ASSUME NEW r \in Clients, NEW s \in Clients PROVE Hearing(r, s)'
    BY DEF HearingInv
  <2>1. CASE s = c
    <3>1. HeardUpTo(r, c, batch[c].last)' <=> HeardUpTo(r, c, batch[c].last)
      BY DEF HeardUpTo
    <3>2. ~InStep(c)' /\ pc'[c] # "write"
      BY <1>1 DEF InStep
    <3> QED BY <1>1, <1>2, <2>1, <3>1, <3>2 DEF Hearing
  <2>2. CASE s # c
    BY <1>1, <1>2, <2>2, OthersHear DEF Good, HearingInv
  <2> QED BY <2>1, <2>2
<1>7. Contiguous'
  BY DEF Good, Contiguous
<1>8. DisconnectInv'
  <2>1. \A d \in Listed : Closed(d)' <=> Closed(d)
    BY DEF Closed, Listed
  <2> QED BY <1>2, <2>1, DisconnectGoesOn DEF Good
<1> QED BY <1>3, <1>4, <1>5, <1>6, <1>7, <1>8 DEF Good

LEMMA GetStreamKeeps ==
    ASSUME TypeOK, TypeOK', Good, NEW c \in Clients, GetStream(c)
    PROVE  Good'
PROOF
<1> USE DEF server, list, cursor, program
<1>1. /\ UNCHANGED <<listener, closing, clients, batch, peer, said, heard, stale, next, to>>
      /\ pc[c] = "attach" /\ stream[c] = "null" /\ Goto(c, "name")
      /\ stream' = [stream EXCEPT ![c] = "open"]
  BY DEF GetStream
<1> HIDE DEF server, list, cursor, program
<1>2. /\ ~stale[c] /\ next[c] = 1 /\ \A r \in Clients : heard[r][c] = <<>>
  BY <1>1 DEF Good, ThreadInv
<1>3. \A r \in Listed \ {c} : HeardUpTo(r, c, batch[c].last)
  BY <1>2 DEF HeardUpTo, Listed
<1>4. /\ ~Closed(c) /\ ~Closed(c)'
      /\ \A d \in Clients : d # c => stream'[d] = stream[d]
  BY <1>1 DEF TypeOK, Closed
<1> QED BY <1>1, <1>2, <1>3, <1>4, QuietStepKeeps

LEMMA GetStreamFailsKeeps ==
    ASSUME TypeOK, TypeOK', Good, NEW c \in Clients, GetStreamFails(c)
    PROVE  Good'
PROOF
<1> USE DEF server, list, cursor, program
<1>1. /\ UNCHANGED <<listener, closing, clients, batch, peer, said, heard, stale, next, to, stream>>
      /\ pc[c] = "attach" /\ Goto(c, "find")
  BY DEF GetStreamFails
<1> HIDE DEF server, list, cursor, program
<1>2. ~stale[c] /\ next[c] = 1 /\ ~(listener = "accept" /\ Closed(c))
  BY <1>1 DEF Good, ThreadInv
<1>3. Closed(c)' <=> Closed(c)
  BY <1>1 DEF Closed
<1> QED BY <1>1, <1>2, <1>3, QuietStepKeeps

LEMMA ReadFailsKeeps ==
    ASSUME TypeOK, TypeOK', Good, NEW c \in Clients, ReadFails(c)
    PROVE  Good'
PROOF
<1> USE DEF server, list, cursor, program
<1>1. /\ UNCHANGED <<listener, closing, clients, batch, peer, said, heard, stale, next, to, stream>>
      /\ pc[c] \in {"name", "chat"} /\ Goto(c, "find")
  BY DEF ReadFails
<1> HIDE DEF server, list, cursor, program
<1>2. ~stale[c] /\ next[c] = 1 /\ ~(listener = "accept" /\ Closed(c))
  BY <1>1 DEF Good, ThreadInv
<1>3. Closed(c)' <=> Closed(c)
  BY <1>1 DEF Closed
<1> QED BY <1>1, <1>2, <1>3, QuietStepKeeps

LEMMA FirstOrDefaultKeeps ==
    ASSUME TypeOK, TypeOK', Good, NEW c \in Clients, FirstOrDefault(c)
    PROVE  Good'
PROOF
<1> USE DEF server, list, cursor, program
<1>1. /\ UNCHANGED <<listener, closing, clients, batch, peer, said, heard, stale, next, to, stream>>
      /\ pc[c] = "find" /\ Goto(c, "finding")
  BY DEF FirstOrDefault
<1> HIDE DEF server, list, cursor, program
<1>2. ~stale[c] /\ next[c] = 1 /\ ~(listener = "accept" /\ Closed(c))
  BY <1>1 DEF Good, ThreadInv
<1>3. Closed(c)' <=> Closed(c)
  BY <1>1 DEF Closed
<1> QED BY <1>1, <1>2, <1>3, QuietStepKeeps

LEMMA EndOfFirstOrDefaultKeeps ==
    ASSUME TypeOK, TypeOK', Good, NEW c \in Clients, EndOfFirstOrDefault(c)
    PROVE  Good'
PROOF
<1> USE DEF server, list, cursor, program
<1>1. /\ UNCHANGED <<listener, closing, clients, batch, peer, said, heard, next, to, stream>>
      /\ pc[c] = "finding" /\ stale' = [stale EXCEPT ![c] = FALSE]
      /\ Goto(c, "failed") \/ Goto(c, "found") \/ pc' = pc
  BY DEF EndOfFirstOrDefault, Escapes
<1> HIDE DEF server, list, cursor, program
<1>2. next[c] = 1 /\ ~(listener = "accept" /\ Closed(c))
  BY <1>1 DEF Good, ThreadInv
<1>6. Closed(c)' <=> Closed(c)
  BY <1>1 DEF Closed
<1>3. ~stale'[c] /\ \A d \in Clients : d # c => stale'[d] = stale[d]
  BY <1>1 DEF TypeOK
<1>4. pc' = pc => Goto(c, "finding")
  BY <1>1 DEF Goto, TypeOK
<1>5. PICK place \in {"failed", "found", "finding"} : Goto(c, place)
  BY <1>1, <1>4
<1> QED BY <1>1, <1>2, <1>3, <1>5, <1>6, QuietStepKeeps

LEMMA CloseKeeps ==
    ASSUME TypeOK, TypeOK', Good, NEW c \in Clients, Close(c)
    PROVE  Good'
PROOF
<1> USE DEF server, list, cursor, program
<1>1. /\ UNCHANGED <<listener, closing, clients, batch, peer, said, heard, stale, next, to>>
      /\ pc[c] = "close" /\ Goto(c, "done")
      /\ stream' = [stream EXCEPT ![c] = "closed"]
  BY DEF Close
<1> HIDE DEF server, list, cursor, program
<1>2. ~stale[c] /\ next[c] = 1 /\ c \notin Listed
  BY <1>1 DEF Good, ThreadInv, ListInv
<1>3. \A d \in Clients : d # c => stream'[d] = stream[d]
  BY <1>1 DEF TypeOK
<1> QED BY <1>1, <1>2, <1>3, QuietStepKeeps

LEMMA WriteFailsKeeps ==
    ASSUME TypeOK, TypeOK', Good, NEW c \in Clients, WriteFails(c)
    PROVE  Good'
PROOF
<1> USE DEF server, list, cursor, program
<1>1. /\ UNCHANGED <<listener, closing, clients, batch, peer, said, heard, stream>>
      /\ pc[c] = "write" /\ Goto(c, "find") /\ Dispose(c)
  BY DEF WriteFails
<1> HIDE DEF server, list, cursor, program
<1>2. ~(listener = "accept" /\ Closed(c)) /\ (Closed(c)' <=> Closed(c))
  BY <1>1 DEF Good, ThreadInv, Closed
<1>3. /\ ~stale'[c] /\ next'[c] = 1
      /\ \A d \in Clients : d # c =>
             stale'[d] = stale[d] /\ next'[d] = next[d] /\ to'[d] = to[d]
  BY <1>1 DEF TypeOK, Dispose
<1> QED BY <1>1, <1>2, <1>3, QuietStepKeeps

\* A new message has not been written to anybody yet.
LEMMA GetMessageKeeps ==
    ASSUME TypeOK, TypeOK', Good, NEW c \in Clients, GetMessage(c)
    PROVE  Good'
PROOF
<1> USE DEF server, list, cursor, program
<1>1. /\ UNCHANGED <<listener, closing, clients, stream, stale, next, to, peer, said, heard>>
      /\ pc[c] \in {"name", "chat"} /\ Goto(c, "cast")
      /\ batch' = [batch EXCEPT ![c] = [first |-> @.last + 1, last |-> said[c]]]
  BY DEF GetMessage
<1> HIDE DEF server, list, cursor, program
<1>2. /\ pc'[c] = "cast" /\ \A d \in Clients : d # c => pc'[d] = pc[d]
      /\ batch'[c].first = batch[c].last + 1 /\ batch'[c].last = said[c]
      /\ \A d \in Clients : d # c => batch'[d] = batch[d]
  BY <1>1 DEF Goto, TypeOK
<1>3. Listed' = Listed /\ Changing' = Changing
  BY <1>1, <1>2 DEF Listed, Changing
<1>4. ListInv'
  BY <1>1, <1>2, <1>3 DEF Good, ListInv
<1>5. ThreadInv'
  <2>1. \A d \in Clients : pc'[d] = "absent" <=> pc[d] = "absent"
    BY <1>1, <1>2
  <2>2. \A d \in Clients :
          batch'[d].first <= batch'[d].last + 1 /\ batch'[d].last <= said'[d]
    <3> TAKE d \in Clients
    <3>1. CASE d = c
      <4>1. batch[c].last \in Nat /\ said[c] \in Nat /\ batch[c].last <= said[c]
        BY DEF TypeOK, Batches, Good, ThreadInv
      <4> QED BY <1>1, <1>2, <3>1, <4>1
    <3>2. CASE d # c
      BY <1>1, <1>2, <3>2 DEF Good, ThreadInv
    <3> QED BY <3>1, <3>2
  <2>3. \A d \in Clients : pc'[d] = "write" => to'[d] # d /\ pc'[to'[d]] # "absent"
    <3> SUFFICES ASSUME NEW d \in Clients, pc'[d] = "write"
                 PROVE  to'[d] # d /\ pc'[to'[d]] # "absent"
      OBVIOUS
    <3>1. pc[d] = "write" /\ to'[d] = to[d]
      BY <1>1, <1>2
    <3>2. to[d] \in Clients /\ to[d] # d /\ pc[to[d]] # "absent"
      BY <3>1 DEF Good, ThreadInv, TypeOK
    <3> QED BY <2>1, <3>1, <3>2
  <2>4. \A d \in Clients :
          /\ listener' = "accept" /\ Closed(d)' => pc'[d] = "done"
          /\ pc'[d] \in {"absent", "adding"} => stream'[d] = "null"
          /\ pc'[d] = "adding" => listener' = "accept"
          /\ pc'[d] \notin {"cast", "write"} => next'[d] = 1
          /\ pc'[d] \notin {"cast", "write", "finding"} => ~stale'[d]
          /\ pc'[d] \in {"absent", "adding", "attach", "name"} =>
               batch'[d] = Nothing /\ \A r \in Clients : heard'[r][d] = <<>>
    <3> TAKE d \in Clients
    <3>1. CASE d = c
      BY <1>1, <1>2, <3>1 DEF Good, ThreadInv, Closed
    <3>2. CASE d # c
      BY <1>1, <1>2, <3>2 DEF Good, ThreadInv, Closed
    <3> QED BY <3>1, <3>2
  <2> QED BY <1>1, <2>1, <2>2, <2>3, <2>4 DEF Good, ThreadInv
<1>6. CursorInv'
  <2> SUFFICES ASSUME NEW s \in Clients PROVE Points(s)'
    BY DEF CursorInv
  <2>1. CASE s = c
    BY <1>2, <2>1 DEF Points
  <2>2. CASE s # c
    BY <1>1, <1>2, <1>3, <2>2, OthersPoint DEF Good, CursorInv
  <2> QED BY <2>1, <2>2
<1>7. HearingInv'
  <2> SUFFICES ASSUME NEW r \in Clients, NEW s \in Clients PROVE Hearing(r, s)'
    BY DEF HearingInv
  <2>1. CASE s = c
    <3>1. ~Reached(s, r)'
      <4>1. next'[c] = 1
        BY <1>1 DEF Good, ThreadInv
      <4> QED BY <2>1, <4>1 DEF Reached
    <3>2. batch'[c].first - 1 = batch[c].last
      <4>1. batch[c].last \in Nat
        BY DEF TypeOK, Batches
      <4> QED BY <1>2, <4>1
    <3>3. HeardUpTo(r, c, batch[c].first - 1)' <=> HeardUpTo(r, c, batch[c].last)
      BY <1>1, <3>2 DEF HeardUpTo
    <3>4. peer[r] = "connected" /\ r \in Listed \ {c} => HeardUpTo(r, c, batch[c].last)
      BY <1>1 DEF Good, HearingInv, Hearing
    <3> QED BY <1>1, <1>2, <1>3, <2>1, <3>1, <3>3, <3>4 DEF Hearing
  <2>2. CASE s # c
    BY <1>1, <1>2, <1>3, <2>2, OthersHear DEF Good, HearingInv
  <2> QED BY <2>1, <2>2
<1>8. Contiguous'
  BY <1>1 DEF Good, Contiguous
<1>9. DisconnectInv'
  BY <1>1, <1>3, DisconnectGoesOn DEF Good, Closed
<1> QED BY <1>4, <1>5, <1>6, <1>7, <1>8, <1>9 DEF Good

\* The enumerator moves on: the client it now points to has not been reached
\* before, as no client is in the list twice.
LEMMA AdvanceKeeps ==
    ASSUME TypeOK, TypeOK', Good, NEW c \in Clients, NEW r0 \in Clients,
           UNCHANGED <<listener, closing, clients, stream, stale, batch, peer, said, heard>>,
           pc[c] = "cast", ~stale[c], Changing = {},
           next[c] \in 1..Len(clients), r0 = clients[next[c]],
           next' = [next EXCEPT ![c] = @ + 1], to' = [to EXCEPT ![c] = r0],
           NEW place, place = IF r0 = c THEN "cast" ELSE "write", Goto(c, place)
    PROVE  Good'
PROOF
<1>1. /\ pc'[c] = place /\ \A d \in Clients : d # c => pc'[d] = pc[d]
      /\ next'[c] = next[c] + 1 /\ \A d \in Clients : d # c => next'[d] = next[d]
      /\ to'[c] = r0 /\ \A d \in Clients : d # c => to'[d] = to[d]
  BY DEF Goto, TypeOK
<1>2. Listed' = Listed /\ Changing' = Changing
  BY <1>1 DEF Listed, Changing
<1>3. r0 \in Listed
  BY DEF Listed
<1>4. ListInv'
  BY <1>1, <1>2 DEF Good, ListInv
<1>5. ThreadInv'
  <2>1. \A d \in Clients : pc'[d] = "absent" <=> pc[d] = "absent"
    BY <1>1
  <2>2. \A d \in Clients : pc'[d] = "write" => to'[d] # d /\ pc'[to'[d]] # "absent"
    <3> SUFFICES ASSUME NEW d \in Clients, pc'[d] = "write"
                 PROVE  to'[d] # d /\ pc'[to'[d]] # "absent"
      OBVIOUS
    <3>1. CASE d = c
      <4>1. pc[r0] # "absent"
        BY <1>3 DEF Good, ListInv
      <4> QED BY <1>1, <2>1, <3>1, <4>1
    <3>2. CASE d # c
      <4>1. pc[d] = "write" /\ to'[d] = to[d]
        BY <1>1, <3>2
      <4>2. to[d] \in Clients /\ to[d] # d /\ pc[to[d]] # "absent"
        BY <4>1 DEF Good, ThreadInv, TypeOK
      <4> QED BY <2>1, <4>1, <4>2
    <3> QED BY <3>1, <3>2
  <2>3. \A d \in Clients :
          /\ listener' = "accept" /\ Closed(d)' => pc'[d] = "done"
          /\ pc'[d] \in {"absent", "adding"} => stream'[d] = "null"
          /\ pc'[d] = "adding" => listener' = "accept"
          /\ pc'[d] \notin {"cast", "write"} => next'[d] = 1
          /\ pc'[d] \notin {"cast", "write", "finding"} => ~stale'[d]
          /\ pc'[d] \in {"absent", "adding", "attach", "name"} =>
               batch'[d] = Nothing /\ \A r \in Clients : heard'[r][d] = <<>>
    <3> TAKE d \in Clients
    <3>1. CASE d = c
      BY <1>1, <3>1 DEF Good, ThreadInv, Closed
    <3>2. CASE d # c
      BY <1>1, <3>2 DEF Good, ThreadInv, Closed
    <3> QED BY <3>1, <3>2
  <2> QED BY <2>1, <2>2, <2>3 DEF Good, ThreadInv
<1>6. CursorInv'
  <2> SUFFICES ASSUME NEW s \in Clients PROVE Points(s)'
    BY DEF CursorInv
  <2>1. CASE s = c
    <3>1. next'[c] - 1 = next[c]
      BY <1>1 DEF TypeOK
    <3> QED BY <1>1, <2>1, <3>1 DEF Points
  <2>2. CASE s # c
    BY <1>1, <1>2, <2>2, OthersPoint DEF Good, CursorInv
  <2> QED BY <2>1, <2>2
<1>7. HearingInv'
  <2> SUFFICES ASSUME NEW r \in Clients, NEW s \in Clients PROVE Hearing(r, s)'
    BY DEF HearingInv
  <2>1. CASE s = c
    <3>1. InStep(c)
      BY DEF InStep
    <3>2. ~Reached(c, r0)
      <4>1. next[c] \in Nat
        BY DEF TypeOK
      <4>2. ASSUME NEW i \in 1..Len(clients), clients[i] = r0 PROVE ~(i < next[c])
        <5>1. i = next[c]
          BY <4>2 DEF Good, ListInv
        <5> QED BY <4>1, <5>1
      <4> QED BY <4>2 DEF Reached
    <3>3. r # c => (Reached(c, r)' <=> Reached(c, r))
      <4> SUFFICES ASSUME r # c PROVE Reached(c, r)' <=> Reached(c, r)
        OBVIOUS
      <4>1. CASE r = r0
        <5>1. ~Reached(c, r)'
          BY <1>1, <4>1 DEF Reached
        <5> QED BY <3>2, <4>1, <5>1
      <4>2. CASE r # r0
        <5>1. \A i \in 1..Len(clients) :
                 clients[i] = r => (i < next'[c] <=> i < next[c])
          <6> SUFFICES ASSUME NEW i \in 1..Len(clients), clients[i] = r
                       PROVE  i < next'[c] <=> i < next[c]
            OBVIOUS
          <6>1. i # next[c]
            BY <4>2
          <6>2. next[c] \in Nat /\ i \in Nat
            BY DEF TypeOK
          <6> QED BY <1>1, <6>1, <6>2
        <5>2. /\ ~(pc[c] = "write" /\ to[c] = r)
              /\ ~(pc'[c] = "write" /\ to'[c] = r)
          BY <1>1, <4>2
        <5> QED BY <5>1, <5>2 DEF Reached
      <4> QED BY <4>1, <4>2
    <3>4. /\ HeardUpTo(r, c, batch[c].first - 1)' <=> HeardUpTo(r, c, batch[c].first - 1)
          /\ HeardUpTo(r, c, batch[c].last)' <=> HeardUpTo(r, c, batch[c].last)
          /\ HeardBatch(r, c)' <=> HeardBatch(r, c)
      BY DEF HeardUpTo, HeardBatch
    <3>5. peer[r] = "connected" /\ r \in Listed \ {c} =>
            /\ ~Reached(c, r) => HeardUpTo(r, c, batch[c].first - 1)
            /\ Reached(c, r) => HeardUpTo(r, c, batch[c].last) /\ HeardBatch(r, c)
      BY <3>1 DEF Good, HearingInv, Hearing
    <3>6. pc'[c] = "write" /\ to'[c] = r => r = r0 /\ r # c
      BY <1>1
    <3> QED BY <1>1, <1>2, <1>3, <2>1, <3>2, <3>3, <3>4, <3>5, <3>6 DEF Hearing
  <2>2. CASE s # c
    BY <1>1, <1>2, <2>2, OthersHear DEF Good, HearingInv
  <2> QED BY <2>1, <2>2
<1>8. Contiguous'
  BY DEF Good, Contiguous
<1>9. DisconnectInv'
  BY <1>2, DisconnectGoesOn DEF Good, Closed
<1> QED BY <1>4, <1>5, <1>6, <1>7, <1>8, <1>9 DEF Good

\* MoveNext with ~torn' uses the list alone.
LEMMA MoveNextKeeps ==
    ASSUME TypeOK, TypeOK', Good, NEW c \in Clients, MoveNext(c), ~torn'
    PROVE  Good'
PROOF
<1> USE DEF server, list, cursor, program
<1>1. /\ UNCHANGED <<listener, closing, clients, stream, batch, peer, said, heard>>
      /\ pc[c] = "cast" /\ Touch(c)
  BY DEF MoveNext
<1>2. Changing = {}
  BY <1>1 DEF Touch, Changing
<1>3. ~(listener = "accept" /\ Closed(c)) /\ (Closed(c)' <=> Closed(c))
  BY <1>1 DEF Good, ThreadInv, Closed
<1>4. Dispose(c) => /\ ~stale'[c] /\ next'[c] = 1
                    /\ \A d \in Clients : d # c =>
                         stale'[d] = stale[d] /\ next'[d] = next[d] /\ to'[d] = to[d]
  BY DEF TypeOK, Dispose
<1>5. CASE stale[c] \/ (next[c] <= Len(clients) /\ clients[next[c]] = NoClient)
  <2>1. Dispose(c) /\ Goto(c, "find")
    BY <1>5 DEF MoveNext
  <2> HIDE DEF server, list, cursor, program
  <2> QED BY <1>1, <1>3, <1>4, <2>1, QuietStepKeeps
<1>6. CASE /\ ~(stale[c] \/ (next[c] <= Len(clients) /\ clients[next[c]] = NoClient))
           /\ next[c] > Len(clients)
  <2>1. PICK place \in {"find", "chat"} : Dispose(c) /\ Goto(c, place)
    BY <1>6 DEF MoveNext
  <2>2. InStep(c)
    BY <1>1, <1>2, <1>6 DEF InStep
  <2>3. \A r \in Listed \ {c} : Reached(c, r)
    <3> SUFFICES ASSUME NEW r \in Listed \ {c} PROVE Reached(c, r)
      OBVIOUS
    <3>1. PICK i \in 1..Len(clients) : clients[i] = r
      BY DEF Listed
    <3>2. i < next[c]
      BY <1>6, <3>1 DEF TypeOK
    <3> QED BY <1>1, <3>1, <3>2 DEF Reached
  <2>4. \A r \in Listed \ {c} : peer[r] = "connected" => HeardUpTo(r, c, batch[c].last)
    BY <2>2, <2>3 DEF Good, HearingInv, Hearing, Listed
  <2> HIDE DEF server, list, cursor, program
  <2> QED BY <1>1, <1>3, <1>4, <2>1, <2>4, QuietStepKeeps
<1>7. CASE /\ ~(stale[c] \/ (next[c] <= Len(clients) /\ clients[next[c]] = NoClient))
           /\ ~(next[c] > Len(clients))
  <2> DEFINE r0 == clients[next[c]]
             place == IF r0 = c THEN "cast" ELSE "write"
  <2>1. ~stale[c]
    BY <1>7
  <2>5. next[c] \in 1..Len(clients)
    <3>1. next[c] \in Nat \ {0} /\ Len(clients) \in Nat
      BY DEF TypeOK
    <3> QED BY <1>7, <3>1
  <2>2. r0 \in Clients
    BY <2>5 DEF Good, ListInv
  <2>3. /\ next' = [next EXCEPT ![c] = @ + 1] /\ to' = [to EXCEPT ![c] = r0]
        /\ Goto(c, place) /\ stale' = stale
    BY <1>7 DEF MoveNext
  <2> HIDE DEF server, list, cursor, program, r0, place
  <2>4. r0 = clients[next[c]] /\ place = IF r0 = c THEN "cast" ELSE "write"
    BY DEF r0, place
  <2> QED BY <1>1, <1>2, <2>1, <2>2, <2>3, <2>4, <2>5, AdvanceKeeps
<1> QED BY <1>5, <1>6, <1>7

\* Who is written to has heard everything before the batch, and has heard the
\* batch afterwards.
LEMMA WriteKeeps ==
    ASSUME TypeOK, TypeOK', Good, NEW c \in Clients, Write(c)
    PROVE  Good'
PROOF
<1> USE DEF server, list, cursor, program
<1>1. /\ UNCHANGED <<listener, closing, clients, stream, stale, next, to, batch, peer, said>>
      /\ pc[c] = "write" /\ Goto(c, "cast")
      /\ heard' = IF peer[to[c]] = "gone" \/ batch[c].last < batch[c].first
                  THEN heard
                  ELSE [heard EXCEPT ![to[c]][c] = Append(@, batch[c])]
  BY DEF Write
<1> HIDE DEF server, list, cursor, program
<1>2. /\ pc'[c] = "cast" /\ \A d \in Clients : d # c => pc'[d] = pc[d]
  BY <1>1 DEF Goto, TypeOK
<1>3. Listed' = Listed /\ Changing' = Changing
  BY <1>1, <1>2 DEF Listed, Changing
<1>4. PICK r0 \in Clients :
        r0 = to[c] /\ r0 # c /\ pc[r0] # "absent" /\ peer[r0] # "none"
  BY <1>1 DEF TypeOK, Good, ThreadInv
<1>5. /\ batch[c].first \in Nat /\ batch[c].last \in Nat
      /\ batch[c].first <= batch[c].last + 1
  BY DEF TypeOK, Batches, Good, ThreadInv
<1>6. \A r, s \in Clients : ~(r = r0 /\ s = c) => heard'[r][s] = heard[r][s]
  BY <1>1, <1>4 DEF TypeOK
<1>7. peer[r0] = "connected" => HeardUpTo(r0, c, batch[c].first - 1)
  BY <1>1, <1>4 DEF Good, HearingInv, Hearing
<1>8. heard[r0][c] \in Seq(Batches)
  BY <1>4 DEF TypeOK
<1>9. /\ peer[r0] = "connected" => HeardUpTo(r0, c, batch[c].last)' /\ HeardBatch(r0, c)'
      /\ \A i \in 1..Len(heard'[r0][c]) - 1 :
             heard'[r0][c][i + 1].first = heard'[r0][c][i].last + 1
  <2>1. CASE peer[r0] = "gone" \/ batch[c].last < batch[c].first
    <3>1. heard' = heard
      BY <1>1, <1>4, <2>1
    <3>2. HeardUpTo(r0, c, batch[c].last)' <=> HeardUpTo(r0, c, batch[c].last)
      BY <1>1, <3>1 DEF HeardUpTo
    <3>3. peer[r0] = "connected" => batch[c].last = batch[c].first - 1 /\ HeardBatch(r0, c)'
      <4> SUFFICES ASSUME peer[r0] = "connected"
                   PROVE  batch[c].last = batch[c].first - 1 /\ HeardBatch(r0, c)'
        OBVIOUS
      <4>1. batch[c].last < batch[c].first
        BY <2>1
      <4>2. batch[c].last = batch[c].first - 1
        BY <1>5, <4>1
      <4>3. ~(batch'[c].first <= batch'[c].last)
        BY <1>1, <1>5, <4>1
      <4> QED BY <4>2, <4>3 DEF HeardBatch
    <3>4. \A i \in 1..Len(heard'[r0][c]) - 1 :
             heard'[r0][c][i + 1].first = heard'[r0][c][i].last + 1
      BY <1>4, <3>1 DEF Good, Contiguous
    <3> QED BY <1>7, <3>2, <3>3, <3>4
  <2>2. CASE ~(peer[r0] = "gone" \/ batch[c].last < batch[c].first)
    <3> DEFINE h == heard[r0][c]
               g == heard'[r0][c]
    <3>1. g = Append(h, batch[c])
      BY <1>1, <1>4, <2>2 DEF TypeOK
    <3>2. peer[r0] = "connected"
      BY <1>4, <2>2 DEF TypeOK
    <3>3. h \in Seq(Batches) /\ batch[c] \in Batches
      BY <1>8 DEF TypeOK
    <3> HIDE DEF h, g
    <3>4. /\ Len(g) = Len(h) + 1 /\ g[Len(h) + 1] = batch[c]
          /\ \A i \in 1..Len(h) : g[i] = h[i]
      BY <3>1, <3>3, AppendedElements
    <3>5. Len(h) \in Nat
      BY <3>3
    <3>6. g # <<>> /\ g[Len(g)] = batch[c]
      BY <3>1, <3>3, <3>4
    <3>7. HeardUpTo(r0, c, batch[c].last)' /\ HeardBatch(r0, c)'
      BY <1>1, <3>6 DEF HeardUpTo, HeardBatch, g
    <3>8. ASSUME NEW i \in 1..Len(g) - 1
          PROVE  g[i + 1].first = g[i].last + 1
      <4>1. CASE i = Len(h)
        <5>1. h # <<>>
          BY <3>3, <4>1
        <5>2. h[Len(h)].last = batch[c].first - 1
          BY <1>7, <3>2, <5>1 DEF HeardUpTo, h
        <5>3. Len(h) \in 1..Len(h)
          BY <3>3, <3>5, <5>1
        <5>4. g[i + 1] = batch[c] /\ g[i] = h[Len(h)]
          BY <3>4, <4>1, <5>3
        <5> QED BY <1>5, <5>2, <5>4
      <4>2. CASE i # Len(h)
        <5>1. i \in 1..Len(h) - 1 /\ i \in 1..Len(h) /\ i + 1 \in 1..Len(h)
          BY <3>4, <3>5, <4>2
        <5>2. h[i + 1].first = h[i].last + 1
          BY <1>4, <5>1 DEF Good, Contiguous, h
        <5> QED BY <3>4, <5>1, <5>2
      <4> QED BY <4>1, <4>2
    <3> QED BY <3>7, <3>8 DEF g
  <2> QED BY <2>1, <2>2
<1>10. ListInv'
  BY <1>1, <1>2, <1>3 DEF Good, ListInv
<1>11. ThreadInv'
  <2>1. \A d \in Clients : pc'[d] = "absent" <=> pc[d] = "absent"
    BY <1>1, <1>2
  <2>2. \A d \in Clients : pc'[d] = "write" => to'[d] # d /\ pc'[to'[d]] # "absent"
    <3> SUFFICES ASSUME NEW d \in Clients, pc'[d] = "write"
                 PROVE  to'[d] # d /\ pc'[to'[d]] # "absent"
      OBVIOUS
    <3>1. pc[d] = "write" /\ to'[d] = to[d]
      BY <1>1, <1>2
    <3>2. to[d] \in Clients /\ to[d] # d /\ pc[to[d]] # "absent"
      BY <3>1 DEF Good, ThreadInv, TypeOK
    <3> QED BY <2>1, <3>1, <3>2
  <2>3. \A d \in Clients :
          /\ listener' = "accept" /\ Closed(d)' => pc'[d] = "done"
          /\ pc'[d] \in {"absent", "adding"} => stream'[d] = "null"
          /\ pc'[d] = "adding" => listener' = "accept"
          /\ pc'[d] \notin {"cast", "write"} => next'[d] = 1
          /\ pc'[d] \notin {"cast", "write", "finding"} => ~stale'[d]
    <3> TAKE d \in Clients
    <3>1. CASE d = c
      BY <1>1, <1>2, <3>1 DEF Good, ThreadInv, Closed
    <3>2. CASE d # c
      BY <1>1, <1>2, <3>2 DEF Good, ThreadInv, Closed
    <3> QED BY <3>1, <3>2
  <2>4. \A d \in Clients : pc'[d] = "absent" => \A s \in Clients : heard'[d][s] = <<>>
    <3> SUFFICES ASSUME NEW d \in Clients, NEW s \in Clients, pc'[d] = "absent"
                 PROVE  heard'[d][s] = <<>>
      OBVIOUS
    <3>1. pc[d] = "absent" /\ d # r0
      BY <1>4, <2>1
    <3> QED BY <1>6, <3>1 DEF Good, ThreadInv
  <2>5. \A d \in Clients :
          pc'[d] \in {"absent", "adding", "attach", "name"} =>
               batch'[d] = Nothing /\ \A r \in Clients : heard'[r][d] = <<>>
    <3> SUFFICES ASSUME NEW d \in Clients,
                        pc'[d] \in {"absent", "adding", "attach", "name"}
                 PROVE  batch'[d] = Nothing /\ \A r \in Clients : heard'[r][d] = <<>>
      OBVIOUS
    <3>1. d # c /\ pc'[d] = pc[d]
      BY <1>2
    <3> QED BY <1>1, <1>6, <3>1 DEF Good, ThreadInv
  <2> QED BY <1>1, <2>1, <2>2, <2>3, <2>4, <2>5 DEF Good, ThreadInv
<1>12. CursorInv'
  <2> SUFFICES ASSUME NEW s \in Clients PROVE Points(s)'
    BY DEF CursorInv
  <2>1. CASE s = c
    BY <1>2, <2>1 DEF Points
  <2>2. CASE s # c
    BY <1>1, <1>2, <1>3, <2>2, OthersPoint DEF Good, CursorInv
  <2> QED BY <2>1, <2>2
<1>13. HearingInv'
  <2> SUFFICES ASSUME NEW r \in Clients, NEW s \in Clients PROVE Hearing(r, s)'
    BY DEF HearingInv
  <2>1. CASE s # c
    BY <1>1, <1>2, <1>3, <1>6, <2>1, OthersHear DEF Good, HearingInv
  <2>2. CASE s = c /\ r = r0
    <3>1. InStep(c)' => Reached(c, r0)'
      <4> SUFFICES ASSUME InStep(c)' PROVE Reached(c, r0)'
        OBVIOUS
      <4>1. InStep(c)
        BY <1>1, <1>3 DEF InStep
      <4>2. next[c] - 1 \in 1..Len(clients) /\ clients[next[c] - 1] = r0
        BY <1>1, <1>4, <4>1 DEF Good, CursorInv, Points
      <4>3. next[c] - 1 < next'[c]
        BY <1>1 DEF TypeOK
      <4> QED BY <1>1, <1>2, <4>2, <4>3 DEF Reached
    <3>2. pc'[c] \notin {"write", "name", "chat"}
      BY <1>2
    <3> QED BY <1>1, <1>9, <2>2, <3>1, <3>2 DEF Hearing
  <2>3. CASE s = c /\ r # r0
    <3>1. Reached(c, r)' <=> Reached(c, r)
      BY <1>1, <1>2, <1>4, <2>3 DEF Reached
    <3>2. InStep(c)' => InStep(c)
      BY <1>1, <1>3 DEF InStep
    <3>3. heard'[r][c] = heard[r][c]
      BY <1>6, <2>3
    <3>4. /\ HeardUpTo(r, c, batch[c].first - 1)' <=> HeardUpTo(r, c, batch[c].first - 1)
          /\ HeardUpTo(r, c, batch[c].last)' <=> HeardUpTo(r, c, batch[c].last)
          /\ HeardBatch(r, c)' <=> HeardBatch(r, c)
      BY <1>1, <3>3 DEF HeardUpTo, HeardBatch
    <3>5. Hearing(r, c)
      BY DEF Good, HearingInv
    <3> QED BY <1>1, <1>2, <1>3, <2>3, <3>1, <3>2, <3>4, <3>5 DEF Hearing
  <2> QED BY <2>1, <2>2, <2>3
<1>14. Contiguous'
  <2> SUFFICES ASSUME NEW r \in Clients, NEW s \in Clients,
                      NEW i \in 1..Len(heard'[r][s]) - 1
               PROVE  heard'[r][s][i + 1].first = heard'[r][s][i].last + 1
    BY DEF Contiguous
  <2>1. CASE r = r0 /\ s = c
    BY <1>9, <2>1
  <2>2. CASE ~(r = r0 /\ s = c)
    BY <1>6, <2>2 DEF Good, Contiguous
  <2> QED BY <2>1, <2>2
<1>15. DisconnectInv'
  BY <1>1, <1>3, DisconnectGoesOn DEF Good, Closed
<1> QED BY <1>10, <1>11, <1>12, <1>13, <1>14, <1>15 DEF Good

\* The entry of the client is in the list once, Remove leaves the others.
LEMMA RemoveEntryKeeps ==
    ASSUME TypeOK, TypeOK', Good, NEW c \in Clients, RemoveEntry(c), ~torn'
    PROVE  Good'
PROOF
<1> USE DEF server, list, cursor, program
<1>1. /\ UNCHANGED <<listener, closing, stream, stale, next, to, batch, peer, said, heard>>
      /\ pc[c] = "found" /\ Touch(c)
  BY DEF RemoveEntry
<1>2. Changing = {}
  BY <1>1 DEF Touch, Changing
<1>3. c \in Listed
  BY <1>1 DEF Good, ListInv
<1>4. PICK k \in 1..Len(clients) : k = IndexOf(c) /\ clients[k] = c
  BY <1>3, IndexIsPlace
<1>5. IndexOf(c) # 0
  BY <1>3, IndexIsPlace
<1>6. Goto(c, "removing") /\ clients' = RemoveAt(clients, k)
  BY <1>2, <1>4, <1>5 DEF RemoveEntry, Store
<1> HIDE DEF server, list, cursor, program
<1>7. /\ Len(clients') = Len(clients) - 1
      /\ \A i \in 1..Len(clients) - 1 :
           clients'[i] = IF i < k THEN clients[i] ELSE clients[i + 1]
  <2>1. clients \in Seq(Entry)
    BY DEF TypeOK, Entry
  <2> QED BY <1>6, <2>1, RemovedElement
<1>8. pc'[c] = "removing" /\ \A d \in Clients : d # c => pc'[d] = pc[d]
  BY <1>6 DEF Goto, TypeOK
<1>9. Len(clients) \in Nat
  BY DEF TypeOK
<1>10. \A i \in 1..Len(clients') :
          \E j \in 1..Len(clients) : j # k /\ clients'[i] = clients[j]
                                     /\ j = IF i < k THEN i ELSE i + 1
  <2> TAKE i \in 1..Len(clients')
  <2>1. CASE i < k
    <3>1. i \in 1..Len(clients)
      BY <1>7, <1>9
    <3> QED BY <1>7, <2>1, <3>1
  <2>2. CASE ~(i < k)
    <3>1. i + 1 \in 1..Len(clients) /\ i + 1 # k
      BY <1>7, <1>9, <2>2
    <3>2. clients'[i] = clients[i + 1]
      BY <1>7, <2>2
    <3> QED BY <2>2, <3>1, <3>2
  <2> QED BY <2>1, <2>2
<1>11. \A j \in 1..Len(clients) :
          j # k => \E i \in 1..Len(clients') : clients'[i] = clients[j]
  <2> SUFFICES ASSUME NEW j \in 1..Len(clients), j # k
               PROVE  \E i \in 1..Len(clients') : clients'[i] = clients[j]
    OBVIOUS
  <2>1. CASE j < k
    <3>1. j \in 1..Len(clients')
      BY <1>7, <1>9, <2>1
    <3> QED BY <1>7, <2>1, <3>1
  <2>2. CASE ~(j < k)
    <3>1. /\ j - 1 \in 1..Len(clients') /\ ~(j - 1 < k) /\ (j - 1) + 1 = j
      BY <1>7, <1>9, <2>2
    <3> QED BY <1>7, <3>1
  <2> QED BY <2>1, <2>2
<1>12. Listed' = Listed \ {c}
  <2>1. ASSUME NEW d \in Listed' PROVE d \in Listed /\ d # c
    <3>1. PICK i \in 1..Len(clients') : clients'[i] = d
      BY DEF Listed
    <3>2. PICK j \in 1..Len(clients) : j # k /\ clients[j] = d
      BY <1>10, <3>1
    <3>3. d # c
      BY <1>4, <3>2 DEF Good, ListInv
    <3> QED BY <3>2, <3>3 DEF Listed
  <2>2. ASSUME NEW d \in Listed, d # c PROVE d \in Listed'
    <3>1. PICK j \in 1..Len(clients) : clients[j] = d
      BY DEF Listed
    <3> QED BY <1>4, <1>11, <2>2, <3>1 DEF Listed
  <2> QED BY <2>1, <2>2
<1>13. ListInv'
  <2>1. ASSUME NEW i \in 1..Len(clients'), NEW j \in 1..Len(clients'),
               clients'[i] = clients'[j]
        PROVE  i = j
    <3>1. PICK m \in 1..Len(clients) :
             clients'[i] = clients[m] /\ m = IF i < k THEN i ELSE i + 1
      BY <1>10
    <3>2. PICK n \in 1..Len(clients) :
             clients'[j] = clients[n] /\ n = IF j < k THEN j ELSE j + 1
      BY <1>10
    <3>3. m = n
      BY <2>1, <3>1, <3>2 DEF Good, ListInv
    <3> QED BY <3>1, <3>2, <3>3
  <2>2. ASSUME NEW i \in 1..Len(clients') PROVE clients'[i] \in Clients
    BY <1>10 DEF Good, ListInv
  <2>3. ASSUME NEW d \in Clients
        PROVE  d \in Listed' <=> pc'[d] \notin {"absent", "removing", "close", "done"}
    BY <1>8, <1>12 DEF Good, ListInv
  <2> QED BY <2>1, <2>2, <2>3 DEF ListInv
<1>14. ThreadInv'
  <2>1. \A d \in Clients : pc'[d] = "absent" <=> pc[d] = "absent"
    BY <1>1, <1>8
  <2>2. \A d \in Clients : pc'[d] = "write" => to'[d] # d /\ pc'[to'[d]] # "absent"
    <3> SUFFICES ASSUME NEW d \in Clients, pc'[d] = "write"
                 PROVE  to'[d] # d /\ pc'[to'[d]] # "absent"
      OBVIOUS
    <3>1. pc[d] = "write" /\ to'[d] = to[d]
      BY <1>1, <1>8
    <3>2. to[d] \in Clients /\ to[d] # d /\ pc[to[d]] # "absent"
      BY <3>1 DEF Good, ThreadInv, TypeOK
    <3> QED BY <2>1, <3>1, <3>2
  <2>3. \A d \in Clients :
          /\ listener' = "accept" /\ Closed(d)' => pc'[d] = "done"
          /\ pc'[d] \in {"absent", "adding"} => stream'[d] = "null"
          /\ pc'[d] = "adding" => listener' = "accept"
          /\ pc'[d] \notin {"cast", "write"} => next'[d] = 1
          /\ pc'[d] \notin {"cast", "write", "finding"} => ~stale'[d]
          /\ pc'[d] \in {"absent", "adding", "attach", "name"} =>
               batch'[d] = Nothing /\ \A r \in Clients : heard'[r][d] = <<>>
    <3> TAKE d \in Clients
    <3>1. CASE d = c
      BY <1>1, <1>8, <3>1 DEF Good, ThreadInv, Closed
    <3>2. CASE d # c
      BY <1>1, <1>8, <3>2 DEF Good, ThreadInv, Closed
    <3> QED BY <3>1, <3>2
  <2> QED BY <1>1, <2>1, <2>2, <2>3 DEF Good, ThreadInv
<1>15. c \in Changing'
  BY <1>8 DEF Changing
<1>16. CursorInv'
  BY <1>15 DEF CursorInv, Points, InStep
<1>17. HearingInv'
  <2> SUFFICES ASSUME NEW r \in Clients, NEW s \in Clients PROVE Hearing(r, s)'
    BY DEF HearingInv
  <2>1. ~InStep(s)'
    BY <1>15 DEF InStep
  <2>2. pc'[s] = pc[s] \/ pc'[s] \notin {"write", "name", "chat"}
    BY <1>8
  <2>3. r \in Listed' => r \in Listed
    BY <1>12
  <2> QED BY <1>1, <2>1, <2>2, <2>3, OutOfStepHears DEF Good, HearingInv
<1>18. Contiguous'
  BY <1>1 DEF Good, Contiguous
<1>19. DisconnectInv'
  <2> SUFFICES ASSUME NEW i \in 1..Len(clients')
               PROVE  Closed(clients[i])' =>
                           \/ listener = "retry"
                           \/ listener = "disconnect" /\ (closing = 0 \/ i < closing)
    BY <1>1, <1>15 DEF Good, DisconnectInv
  <2>1. PICK j \in 1..Len(clients) :
           clients'[i] = clients[j] /\ j = IF i < k THEN i ELSE i + 1
    BY <1>10
  <2>2. Closed(clients[i])' <=> Closed(clients[j])
    BY <1>1, <2>1 DEF Closed
  <2>3. j < closing => i < closing
    BY <1>9, <2>1 DEF TypeOK
  <2> QED BY <2>2, <2>3 DEF Good, DisconnectInv
<1> QED BY <1>13, <1>14, <1>16, <1>17, <1>18, <1>19 DEF Good

----------------------------------------------------------------------------
(* Disconnect *)

\* Who changes neither the list nor a thread leaves what was heard as it is.
LEMMA ListenerKeepsHearing ==
    ASSUME Good, UNCHANGED <<clients, stale, pc, next, to, batch, peer, said, heard>>
    PROVE  ListInv' /\ CursorInv' /\ HearingInv' /\ Contiguous'
PROOF
<1>1. Listed' = Listed /\ Changing' = Changing
  BY DEF Listed, Changing
<1>2. ListInv' /\ Contiguous'
  BY <1>1 DEF Good, ListInv, Contiguous
<1>3. CursorInv'
  BY <1>1, OthersPoint DEF Good, CursorInv
<1>4. HearingInv'
  BY <1>1, OthersHear DEF Good, HearingInv
<1> QED BY <1>2, <1>3, <1>4

\* The enumeration begins with no listed client closed.
LEMMA ListenFailsKeeps ==
    ASSUME TypeOK, Good, ListenFails
    PROVE  Good'
PROOF
<1> USE DEF server, list, cursor, program
<1>1. /\ UNCHANGED <<clients, stale, pc, stream, next, to, batch, peer, said, heard>>
      /\ listener = "accept" /\ listener' = "disconnect" /\ closing' = 1
      /\ \A d \in Clients : pc[d] # "adding"
  BY DEF ListenFails
<1> HIDE DEF server, list, cursor, program
<1>2. ThreadInv'
  BY <1>1 DEF Good, ThreadInv
<1>3. DisconnectInv'
  <2>1. \A i \in 1..Len(clients) : ~Closed(clients[i])
    BY <1>1 DEF Good, DisconnectInv
  <2>2. \A i \in 1..Len(clients) : Closed(clients[i])' <=> Closed(clients[i])
    BY <1>1 DEF Closed
  <2>3. \A i \in 1..Len(clients) : ~(i < 1)
    BY DEF TypeOK
  <2> QED BY <1>1, <2>1, <2>2, <2>3 DEF DisconnectInv
<1> QED BY <1>1, <1>2, <1>3, ListenerKeepsHearing DEF Good

\* One more client of the list is closed; its thread finds out by itself.
LEMMA CloseNextKeeps ==
    ASSUME TypeOK, Good, CloseNext, ~torn'
    PROVE  Good'
PROOF
<1> USE DEF server, list, cursor, program
<1>1. /\ UNCHANGED <<listener, clients, stale, pc, next, to, batch, peer, said, heard>>
      /\ listener # "accept" /\ Touch(NoClient)
      /\ closing \in 1..Len(clients) /\ closing' = closing + 1
      /\ stream' = [stream EXCEPT ![clients[closing]] =
                       IF @ \in {"null", "cut"} THEN "cut" ELSE "closed"]
  BY DEF CloseNext
<1> HIDE DEF server, list, cursor, program
<1>2. Changing = {}
  <2>1. NoClient \notin Changing
    BY ChatAssumption DEF Changing
  <2> QED BY <1>1, <2>1 DEF Touch
<1>3. PICK r \in Clients : r = clients[closing]
  BY <1>1 DEF Good, ListInv
<1>4. r \in Listed
  BY <1>1, <1>3 DEF Listed
<1>5. Closed(r)' /\ \A d \in Clients : d # r => stream'[d] = stream[d]
  BY <1>1, <1>3 DEF TypeOK, Closed
<1>6. ThreadInv'
  <2>1. pc[r] \notin {"absent", "adding"}
    BY <1>1, <1>4 DEF Good, ThreadInv, ListInv
  <2>2. \A d \in Clients : pc'[d] \in {"absent", "adding"} => stream'[d] = "null"
    BY <1>1, <1>5, <2>1 DEF Good, ThreadInv
  <2> QED BY <1>1, <2>2 DEF Good, ThreadInv
<1>7. DisconnectInv'
  <2> SUFFICES ASSUME NEW i \in 1..Len(clients)
               PROVE  /\ Closed(clients[i])' =>
                             listener = "retry" \/ (listener = "disconnect" /\ i < closing + 1)
                      /\ i < closing + 1 => Closed(clients[i])'
    BY <1>1 DEF DisconnectInv
  <2>1. listener \in {"disconnect", "retry"}
    BY <1>1 DEF TypeOK
  <2>2. CASE i = closing
    <3>1. Closed(clients[i])'
      BY <1>1, <1>3, <1>5, <2>2 DEF Closed
    <3> QED BY <2>1, <2>2, <3>1
  <2>3. CASE i # closing
    <3>1. PICK d \in Clients : d = clients[i]
      BY DEF Good, ListInv
    <3>2. d # r
      BY <1>1, <1>3, <2>3, <3>1 DEF Good, ListInv
    <3>3. Closed(clients[i])' <=> Closed(clients[i])
      BY <1>1, <1>5, <3>1, <3>2 DEF Closed
    <3>4. i < closing + 1 <=> i < closing
      BY <1>1, <2>3
    <3>5. closing # 0
      BY <1>1
    <3> QED BY <1>2, <3>3, <3>4, <3>5 DEF Good, DisconnectInv
  <2> QED BY <2>2, <2>3
<1> QED BY <1>1, <1>6, <1>7, ListenerKeepsHearing DEF Good

\* The second Disconnect begins from the first entry.
LEMMA DisconnectFailsKeeps ==
    ASSUME TypeOK, Good, DisconnectFails
    PROVE  Good'
PROOF
<1> USE DEF server, list, cursor, program
<1>1. /\ UNCHANGED <<clients, stale, pc, stream, next, to, batch, peer, said, heard>>
      /\ \/ listener = "disconnect" /\ listener' = "retry" /\ closing' = 1
         \/ UNCHANGED <<listener, closing>>
  BY DEF DisconnectFails
<1> HIDE DEF server, list, cursor, program
<1>2. \A d \in Clients : pc'[d] = "adding" => listener' = "accept"
  BY <1>1 DEF Good, ThreadInv
<1>3. ThreadInv'
  BY <1>1, <1>2 DEF Good, ThreadInv, Closed
<1>4. DisconnectInv'
  <2>1. CASE listener' = "retry" /\ closing' = 1
    <3>1. \A i \in 1..Len(clients) : ~(i < 1)
      BY DEF TypeOK
    <3> QED BY <1>1, <2>1, <3>1 DEF DisconnectInv
  <2>2. CASE UNCHANGED <<listener, closing>>
    BY <1>1, <2>2, DisconnectGoesOn DEF Good, Closed, Changing
  <2> QED BY <1>1, <2>1, <2>2
<1> QED BY <1>1, <1>3, <1>4, ListenerKeepsHearing DEF Good

----------------------------------------------------------------------------
(* What holds without a race *)

LEMMA ChatInit == Init => ChatInv
PROOF
<1> SUFFICES ASSUME Init PROVE Good
  BY DEF ChatInv, Good
<1>1. Listed = {}
  BY DEF Init, Listed
<1>2. ListInv
  BY <1>1 DEF Init, ListInv
<1>3. ThreadInv /\ DisconnectInv
  BY ChatAssumption DEF Init, ThreadInv, DisconnectInv, Nothing, Closed
<1>4. CursorInv /\ HearingInv
  BY DEF Init, CursorInv, Points, HearingInv, Hearing, InStep
<1>5. Contiguous
  BY DEF Init, Contiguous
<1> QED BY <1>2, <1>3, <1>4, <1>5 DEF Good

\* Once torn, the list stays so.
LEMMA TornStays == [Next]_vars /\ torn => torn'
PROOF
<1> SUFFICES ASSUME [Next]_vars, torn PROVE torn'
  OBVIOUS
<1> USE DEF server, list, cursor, program
<1>1. ASSUME NEW c \in Clients, Program(c) PROVE torn'
  BY <1>1 DEF Program, SendMessage, CancelKey, Vanish
<1>2. ASSUME NEW c \in Clients, Listen(c) PROVE torn'
  BY <1>2 DEF Listen, AddConnection, StartThread, Touch
<1>3. ASSUME NEW c \in Clients, Process(c) PROVE torn'
  <2>1. CASE MoveNext(c) \/ EndOfFirstOrDefault(c) \/ RemoveEntry(c)
    BY <2>1 DEF MoveNext, EndOfFirstOrDefault, RemoveEntry, Touch
  <2>2. CASE \/ GetStream(c) \/ GetStreamFails(c) \/ GetMessage(c) \/ ReadFails(c)
             \/ Write(c) \/ WriteFails(c)
    BY <2>2 DEF GetStream, GetStreamFails, GetMessage, ReadFails, Write, WriteFails
  <2>3. CASE FirstOrDefault(c) \/ EndOfRemoveEntry(c) \/ Close(c)
    BY <2>3 DEF FirstOrDefault, EndOfRemoveEntry, Close
  <2> QED BY <1>3, <2>1, <2>2, <2>3 DEF Process
<1>4. CASE Disconnect \/ UNCHANGED vars
  BY <1>4 DEF Disconnect, ListenFails, CloseNext, DisconnectFails, Exit, Touch, vars
<1> QED BY <1>1, <1>2, <1>3, <1>4 DEF Next

LEMMA UnchangedKeeps ==
    ASSUME Good, Exit \/ UNCHANGED vars
    PROVE  Good'
PROOF
<1>1. UNCHANGED <<listener, closing, clients, stale, pc, stream, next, to, batch, peer,
                  said, heard>>
  BY DEF Exit, vars, server, list, cursor, program
<1>2. ThreadInv'
  BY <1>1 DEF Good, ThreadInv, Closed
<1>3. DisconnectInv'
  BY <1>1, DisconnectGoesOn DEF Good, Closed, Changing
<1> QED BY <1>1, <1>2, <1>3, ListenerKeepsHearing DEF Good

LEMMA ChatStep == TypeOK /\ TypeOK' /\ ChatInv /\ [Next]_vars => ChatInv'
PROOF
<1> SUFFICES ASSUME TypeOK, TypeOK', ChatInv, [Next]_vars, ~torn' PROVE Good'
  BY DEF ChatInv, Good
<1>1. Good
  BY TornStays DEF ChatInv, Good
<1>2. ASSUME NEW c \in Clients, Program(c) PROVE Good'
  BY <1>1, <1>2, ProgramKeeps
<1>3. ASSUME NEW c \in Clients, Listen(c) PROVE Good'
  BY <1>1, <1>3, AddConnectionKeeps, StartThreadKeeps DEF Listen
<1>4. ASSUME NEW c \in Clients, Process(c) PROVE Good'
  <2>1. CASE GetStream(c) \/ GetStreamFails(c) \/ GetMessage(c) \/ ReadFails(c)
    BY <1>1, <2>1, GetStreamKeeps, GetStreamFailsKeeps, GetMessageKeeps, ReadFailsKeeps
  <2>2. CASE MoveNext(c) \/ Write(c) \/ WriteFails(c)
    BY <1>1, <2>2, MoveNextKeeps, WriteKeeps, WriteFailsKeeps
  <2>3. CASE FirstOrDefault(c) \/ EndOfFirstOrDefault(c)
    BY <1>1, <2>3, FirstOrDefaultKeeps, EndOfFirstOrDefaultKeeps
  <2>4. CASE RemoveEntry(c) \/ EndOfRemoveEntry(c) \/ Close(c)
    BY <1>1, <2>4, RemoveEntryKeeps, EndOfRemoveEntryKeeps, CloseKeeps
  <2> QED BY <1>4, <2>1, <2>2, <2>3, <2>4 DEF Process
<1>5. CASE Disconnect
  BY <1>1, <1>5, ListenFailsKeeps, CloseNextKeeps, DisconnectFailsKeeps, UnchangedKeeps
     DEF Disconnect
<1>6. CASE UNCHANGED vars
  BY <1>1, <1>6, UnchangedKeeps
<1> QED BY <1>2, <1>3, <1>4, <1>5, <1>6 DEF Next

\* The list, the threads and what the clients have heard fit together.
THEOREM ChatCorrect == Spec => []ChatInv
PROOF
<1>1. Init => TypeOK /\ ChatInv
  BY TypeInit, ChatInit
<1>2. TypeOK /\ ChatInv /\ [Next]_vars => TypeOK' /\ ChatInv'
  BY TypeStep, ChatStep
<1> QED BY <1>1, <1>2, PTL DEF Spec

\* Nobody hears a conversation with a gap or twice (Server.cs:73).
THEOREM ConversationsAreContiguous == Spec => []HeardIsContiguous
PROOF
<1>1. ChatInv => HeardIsContiguous
  BY DEF ChatInv, HeardIsContiguous
<1> QED BY <1>1, ChatCorrect, PTL

\* Outside Disconnect no closed connection is in the list (Client.cs:52-53).
THEOREM ClosedLeavesList == Spec => []ClosedIsUnlisted
PROOF
<1>1. ChatInv => ClosedIsUnlisted
  BY DEF ChatInv, ClosedIsUnlisted, ListInv, ThreadInv, Listed
<1> QED BY <1>1, ChatCorrect, PTL

\* The process exits when every client in the list is closed: a client that was
\* not would be behind the enumerator, which stops at a change of the list
\* (Server.cs:83-88).
THEOREM ExitLeavesNobody == Spec => ExitClosesAll
PROOF
<1> DEFINE All == Exit /\ ~torn' => \A c \in Listed : Closed(c)
<1>1. TypeOK /\ ChatInv => [All]_vars
  <2> SUFFICES ASSUME TypeOK, ChatInv, Exit, ~torn', NEW c \in Listed PROVE Closed(c)
    OBVIOUS
  <2>1. Touch(NoClient) /\ closing > Len(clients)
    BY DEF Exit
  <2>2. NoClient \notin Changing
    BY ChatAssumption DEF Changing
  <2>3. ~torn /\ Changing = {}
    BY <2>1, <2>2 DEF Touch
  <2>4. PICK i \in 1..Len(clients) : clients[i] = c
    BY DEF Listed
  <2>5. i < closing
    BY <2>1, <2>4 DEF TypeOK
  <2> QED BY <2>3, <2>4, <2>5 DEF ChatInv, DisconnectInv
<1>2. Spec => []TypeOK
  BY TypeCorrect
<1> QED BY <1>1, <1>2, ChatCorrect, PTL DEF ExitClosesAll

\* A thread goes on after a broadcast in MoveNext only.
LEMMA OnlyMoveNextEndsCast ==
    ASSUME TypeOK, [Next]_vars, NEW s \in Clients, pc[s] = "cast", pc'[s] = "chat"
    PROVE  MoveNext(s)
PROOF
<1> USE DEF TypeOK
<1>1. ASSUME NEW c \in Clients, Program(c) PROVE FALSE
  BY <1>1 DEF Program, SendMessage, CancelKey, Vanish
<1>2. ASSUME NEW c \in Clients, Listen(c) PROVE FALSE
  BY <1>2 DEF Listen, AddConnection, StartThread
<1>3. CASE Disconnect \/ UNCHANGED vars
  BY <1>3 DEF Disconnect, ListenFails, CloseNext, DisconnectFails, Exit, vars
<1>4. ASSUME NEW c \in Clients, Process(c), c # s PROVE FALSE
  <2>1. \E place : pc' = [pc EXCEPT ![c] = place] \/ pc' = pc
    BY <1>4 DEF Process, GetStream, GetStreamFails, GetMessage, ReadFails, MoveNext, Write, WriteFails,
                FirstOrDefault, EndOfFirstOrDefault, Escapes, RemoveEntry,
                EndOfRemoveEntry, Close, Goto
  <2> QED BY <1>4, <2>1
<1>5. ASSUME Process(s) PROVE MoveNext(s)
  BY <1>5 DEF Process, GetStream, GetStreamFails, GetMessage, ReadFails, Write, WriteFails,
              FirstOrDefault, EndOfFirstOrDefault, Escapes, RemoveEntry,
              EndOfRemoveEntry, Close, Goto
<1> QED BY <1>1, <1>2, <1>3, <1>4, <1>5 DEF Next

\* A broadcast that does not fail reaches every client that is listed and
\* connected at its end (Server.cs:70-77).
THEOREM BroadcastIsWhole == Spec => WholeBroadcast
PROOF
<1> DEFINE Whole ==
      \A s, r \in Clients :
          (/\ pc[s] = "cast" /\ pc'[s] = "chat" /\ ~torn'
           /\ r \in Listed \ {s} /\ peer[r] = "connected")
          => HeardBatch(r, s)
<1>1. TypeOK /\ ChatInv /\ [Next]_vars => [Whole]_vars
  <2> SUFFICES ASSUME TypeOK, ChatInv, [Next]_vars,
                      NEW s \in Clients, NEW r \in Clients,
                      pc[s] = "cast", pc'[s] = "chat", ~torn',
                      r \in Listed \ {s}, peer[r] = "connected"
               PROVE  HeardBatch(r, s)
    BY DEF vars
  <2>1. MoveNext(s)
    BY OnlyMoveNextEndsCast
  <2>2. /\ next[s] > Len(clients) /\ ~stale[s] /\ Touch(s)
    BY <2>1 DEF MoveNext, Goto, TypeOK
  <2>3. ~torn /\ Changing = {}
    BY <2>2 DEF Touch, Changing
  <2>4. InStep(s) /\ HearingInv
    BY <2>2, <2>3 DEF InStep, ChatInv
  <2>5. PICK i \in 1..Len(clients) : clients[i] = r
    BY DEF Listed
  <2>6. i < next[s]
    BY <2>2 DEF TypeOK
  <2>7. Reached(s, r)
    BY <2>5, <2>6 DEF Reached
  <2> QED BY <2>4, <2>7 DEF HearingInv, Hearing
<1>2. Spec => []TypeOK
  BY TypeCorrect
<1> QED BY <1>1, <1>2, ChatCorrect, PTL DEF Spec, WholeBroadcast
=============================================================================
