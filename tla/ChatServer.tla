----------------------------- MODULE ChatServer -----------------------------
(***************************************************************************)
(* The chat of "Multithreading".  The server keeps the connected clients   *)
(* in a List without a lock.  The listener adds a client from its          *)
(* constructor; a thread (or task) per client reads what the client writes *)
(* and broadcasts it by enumerating the list; at its end it looks its      *)
(* client up in the list and removes it.  When the listener fails it       *)
(* closes the clients in the list, whose threads go on meanwhile.          *)
(*                                                                         *)
(* What a client writes is a sequence of chunks: its name, its messages    *)
(* and "END".  A chunk is its number; GetMessage glues together all the    *)
(* chunks that have arrived, so what it returns is a stretch of numbers.   *)
(*                                                                         *)
(* A change of the List has two halves: the entries change, then the       *)
(* version does, which is what ends an enumeration with an exception.      *)
(* Whoever uses the list between the halves is in a data race: torn        *)
(* records that it has happened, the entries are then anything it can      *)
(* make of them.                                                           *)
(***************************************************************************)
EXTENDS Integers, Sequences, FiniteSets, SequencesExt

CONSTANTS
    Clients,    \* the client programs, each connects at most once
    NoClient,   \* a null reference
    MaxSaid,    \* bound: how many chunks each client writes
    Cancelled,  \* the clients whose user may press Ctrl-C
    Lost,       \* the clients that may be killed or lose their connection
    Conditions  \* what else may go wrong, a subset of ConditionKinds

ConditionKinds ==
    {"accept",  \* AcceptTcpClient fails
     "race"}    \* two threads are inside the List at the same time

ASSUME ChatAssumption ==
    /\ NoClient \notin Clients
    /\ MaxSaid \in [Clients -> Nat]
    /\ Cancelled \subseteq Clients /\ Lost \subseteq Clients
    /\ Conditions \subseteq ConditionKinds

VARIABLES
    isTplVersion,  \* the setting TPLVersion: tasks instead of threads
    up,            \* the server process runs
    listener,      \* "accept", "disconnect", or "retry": in the second Disconnect
    closing,       \* the index of Disconnect's enumerator, 0: the list has changed
    clients,       \* the entries of _clients
    torn,          \* two threads have been inside the List at once
    pc,            \* where the listener or the thread of each client is
    stream,        \* Client.Stream of each client: "null", "open", "closed",
                   \*   or "cut": null, and the connection is closed
    stale,         \* the list has changed under the enumerator of the thread
    next,          \* the index of the thread's enumerator
    to,            \* the client the thread is about to write to
    batch,         \* the chunks GetMessage returned last
    peer,          \* each client program: "none", "connected", "gone"
    said,          \* how many chunks it has written
    endAt,         \* the number of its chunk "END", 0 when there is none
    heard          \* heard[r][s]: the batches of s that were written to r

server  == <<isTplVersion, up, listener, closing>>
list    == <<clients, torn, stale>>
cursor  == <<next, to>>
program == <<peer, said, endAt>>
vars    == <<server, list, pc, stream, cursor, batch, program, heard>>

Has(condition) == condition \in Conditions

Control == {"absent",   \* no thread yet
            "adding",   \* the listener is in AddConnection for this client
            "attach",   \* the thread is about to set Stream
            "name",     \* it waits for the name
            "chat",     \* it waits for a message
            "cast",     \* BroadcastMessage: about to move to the next client
            "write",    \* BroadcastMessage: about to write to a client
            "find",     \* RemoveConnection: about to look the client up
            "finding",  \* inside FirstOrDefault
            "found",    \* about to call Remove
            "removing", \* inside Remove
            "close",    \* about to close the connection
            "done",     \* Process has returned
            "failed"}   \* a task that ended with an exception

Nothing == [first |-> 1, last |-> 0]

Init ==
    /\ isTplVersion \in BOOLEAN /\ up = TRUE
    /\ listener = "accept" /\ closing = 0
    /\ clients = <<>>
    /\ torn = FALSE
    /\ pc = [c \in Clients |-> "absent"]
    /\ stream = [c \in Clients |-> "null"]
    /\ stale = [c \in Clients |-> FALSE]
    /\ next = [c \in Clients |-> 1]
    /\ to = [c \in Clients |-> NoClient]
    /\ batch = [c \in Clients |-> Nothing]
    /\ peer = [c \in Clients |-> "none"]
    /\ said = [c \in Clients |-> 0]
    /\ endAt = [c \in Clients |-> 0]
    /\ heard = [r \in Clients |-> [s \in Clients |-> <<>>]]

----------------------------------------------------------------------------
(* The client programs *)

\* The server has closed the connection.
Closed(c) == stream[c] \in {"closed", "cut"}

CanWrite(c) == up /\ peer[c] = "connected" /\ ~Closed(c)

\* SendMessage: the first chunk is the name.
SendMessage(c) ==
    /\ CanWrite(c)
    /\ said[c] < MaxSaid[c]
    /\ said' = [said EXCEPT ![c] = @ + 1]
    /\ UNCHANGED <<server, list, pc, stream, cursor, batch, peer, endAt, heard>>

\* CancelKeyHandler runs beside Main, which may go on writing until Exit.
CancelKey(c) ==
    /\ c \in Cancelled
    /\ CanWrite(c)
    /\ endAt[c] = 0
    /\ said' = [said EXCEPT ![c] = @ + 1]
    /\ endAt' = [endAt EXCEPT ![c] = said[c] + 1]
    /\ UNCHANGED <<server, list, pc, stream, cursor, batch, peer, heard>>

\* Exit after "END", or the end of the program or of the connection at any time.
\* (The end of a program whose connection the server has closed changes nothing.)
Vanish(c) ==
    /\ peer[c] = "connected"
    /\ endAt[c] > 0 \/ c \in Lost
    /\ peer' = [peer EXCEPT ![c] = "gone"]
    /\ UNCHANGED <<server, list, pc, stream, cursor, batch, said, endAt, heard>>

----------------------------------------------------------------------------
(* The list of clients *)

Listed == {c \in Clients : \E i \in 1..Len(clients) : clients[i] = c}

\* The threads between the two halves of a change.
Changing == {c \in Clients : pc[c] \in {"adding", "removing"}}

\* The thread of c uses the list: when another one is changing it, they race.
Touch(c) ==
    /\ Changing \subseteq {c} \/ Has("race")
    /\ torn' = (torn \/ ~(Changing \subseteq {c}))

\* What two changes at once may make of the entries: one is lost, or its place
\* holds a null.
Mangled(l) ==
    {l} \cup {RemoveAt(l, i) : i \in 1..Len(l)}
        \cup {[l EXCEPT ![i] = NoClient] : i \in 1..Len(l)}

\* The first half of a change.
Store(l) ==
    clients' \in IF Changing = {} THEN {l} ELSE Mangled(l)

\* Mutant of Bump: Disconnect goes through the list by index and notices nothing.
MutantBump ==
    /\ stale' = [d \in Clients |-> pc[d] \in {"cast", "write", "finding"}]
    /\ UNCHANGED closing

\* The second half: _version++, which every enumerator in use will notice.
Bump ==
    /\ stale' = [d \in Clients |-> pc[d] \in {"cast", "write", "finding"}]
    /\ closing' = 0

\* The place of c in the list, where it is at most once, 0 when there is none.
IndexOf(c) ==
    IF c \in Listed THEN CHOOSE i \in 1..Len(clients) : clients[i] = c ELSE 0

----------------------------------------------------------------------------
(* Listen *)

\* A client connects and AcceptTcpClient returns; the constructor of Client calls
\* AddConnection.  Nothing the client does while it waits to be accepted is seen
\* before its thread runs, so it does all of it afterwards.
AddConnection(c) ==
    /\ up /\ listener = "accept"
    /\ pc[c] = "absent"
    /\ peer' = [peer EXCEPT ![c] = "connected"]
    /\ \A d \in Clients : pc[d] # "adding"
    /\ Touch(c)
    /\ Store(Append(clients, c))
    /\ pc' = [pc EXCEPT ![c] = "adding"]
    /\ UNCHANGED <<server, stale, stream, cursor, batch, said, endAt, heard>>

\* The end of List.Add, then the thread starts.
StartThread(c) ==
    /\ up
    /\ pc[c] = "adding"
    /\ Bump
    /\ pc' = [pc EXCEPT ![c] = "attach"]
    /\ UNCHANGED <<isTplVersion, up, listener, clients, torn, stream, cursor, batch, program, heard>>

\* An exception in the loop of Listen: Disconnect stops the listener and gets
\* its enumerator.
ListenFails ==
    /\ up /\ listener = "accept"
    /\ Has("accept")
    /\ \A d \in Clients : pc[d] # "adding"
    /\ listener' = "disconnect" /\ closing' = 1
    /\ UNCHANGED <<isTplVersion, up, list, pc, stream, cursor, batch, program, heard>>

\* Disconnect closes the next client, which stays in the list.
CloseNext ==
    /\ up /\ listener # "accept"
    /\ Touch(NoClient)
    /\ closing \in 1..Len(clients) /\ clients[closing] # NoClient
    /\ stream' = [stream EXCEPT ![clients[closing]] =
                     IF @ \in {"null", "cut"} THEN "cut" ELSE "closed"]
    /\ closing' = closing + 1
    /\ UNCHANGED <<isTplVersion, up, listener, clients, stale, pc, cursor, batch,
                   program, heard>>

\* The list has changed under the enumerator, or an entry is null: Main catches
\* the exception and calls Disconnect again; there it ends the process.
DisconnectFails ==
    /\ up /\ listener # "accept"
    /\ Touch(NoClient)
    /\ closing = 0 \/ (closing \in 1..Len(clients) /\ clients[closing] = NoClient)
    /\ \/ listener = "disconnect" /\ listener' = "retry" /\ closing' = 1 /\ UNCHANGED up
       \/ listener = "retry" /\ up' = FALSE /\ UNCHANGED <<listener, closing>>
    /\ UNCHANGED <<isTplVersion, clients, stale, pc, stream, cursor, batch, program, heard>>

\* Environment.Exit, after the last client.
Exit ==
    /\ up /\ listener # "accept"
    /\ Touch(NoClient)
    /\ closing > Len(clients)
    /\ up' = FALSE
    /\ UNCHANGED <<isTplVersion, listener, closing, clients, stale, pc, stream, cursor,
                   batch, program, heard>>

----------------------------------------------------------------------------
(* Process *)

Goto(c, place) == pc' = [pc EXCEPT ![c] = place]

GetStream(c) ==
    /\ pc[c] = "attach"
    /\ stream[c] = "null"
    /\ stream' = [stream EXCEPT ![c] = "open"]
    /\ Goto(c, "name")
    /\ UNCHANGED <<server, list, cursor, batch, program, heard>>

\* The connection is closed already: GetStream throws.
GetStreamFails(c) ==
    /\ pc[c] = "attach"
    /\ stream[c] = "cut"
    /\ Goto(c, "find")
    /\ UNCHANGED <<server, list, stream, cursor, batch, program, heard>>

\* GetMessage returns what has arrived since the last one, nothing when the
\* client has closed; BroadcastMessage gets its enumerator.
GetMessage(c) ==
    /\ pc[c] \in {"name", "chat"}
    /\ stream[c] = "open"
    /\ batch[c].last < said[c] \/ peer[c] = "gone"
    /\ batch' = [batch EXCEPT ![c] = [first |-> @.last + 1, last |-> said[c]]]
    /\ Goto(c, "cast")
    /\ UNCHANGED <<server, list, stream, cursor, program, heard>>

\* Read throws: the connection was reset, or Disconnect has closed it.
ReadFails(c) ==
    /\ pc[c] \in {"name", "chat"}
    /\ peer[c] = "gone" \/ stream[c] # "open"
    /\ Goto(c, "find")
    /\ UNCHANGED <<server, list, stream, cursor, batch, program, heard>>

\* The message was "END" and nothing else; a name is not compared.
Leaving(c) ==
    /\ batch[c].first > 1
    /\ batch[c].first = endAt[c] /\ batch[c].last = endAt[c]

\* Mutant of Dispose: the next enumeration begins one before the first entry.
MutantDispose(c) ==
    /\ stale' = [stale EXCEPT ![c] = FALSE]
    /\ next' = [next EXCEPT ![c] = 0]
    /\ to' = [to EXCEPT ![c] = NoClient]

\* The enumerator goes out of scope.
Dispose(c) ==
    /\ stale' = [stale EXCEPT ![c] = FALSE]
    /\ next' = [next EXCEPT ![c] = 1]
    /\ to' = [to EXCEPT ![c] = NoClient]

\* Mutant of MoveNext: a loop over the indices, which does not notice changes.
MutantMoveNext(c) ==
    /\ pc[c] = "cast"
    /\ Touch(c)
    /\ IF next[c] > Len(clients)
       THEN Dispose(c) /\ Goto(c, IF Leaving(c) THEN "find" ELSE "chat")
       ELSE IF clients[next[c]] = NoClient
       THEN Dispose(c) /\ Goto(c, "find")
       ELSE /\ next' = [next EXCEPT ![c] = @ + 1]
            /\ to' = [to EXCEPT ![c] = clients[next[c]]]
            /\ Goto(c, IF clients[next[c]] = c THEN "cast" ELSE "write")
            /\ UNCHANGED stale
    /\ UNCHANGED <<server, clients, stream, batch, program, heard>>

\* MoveNext of the enumerator, and the filter: client.Id fails on a null entry.
MoveNext(c) ==
    /\ pc[c] = "cast"
    /\ Touch(c)
    /\ IF stale[c] \/ (next[c] <= Len(clients) /\ clients[next[c]] = NoClient)
       THEN Dispose(c) /\ Goto(c, "find")
       ELSE IF next[c] > Len(clients)
       THEN Dispose(c) /\ Goto(c, IF Leaving(c) THEN "find" ELSE "chat")
       ELSE /\ next' = [next EXCEPT ![c] = @ + 1]
            /\ to' = [to EXCEPT ![c] = clients[next[c]]]
            /\ Goto(c, IF clients[next[c]] = c THEN "cast" ELSE "write")
            /\ UNCHANGED stale
    /\ UNCHANGED <<server, clients, stream, batch, program, heard>>

\* The empty messages after the end of a client are not recorded.
Write(c) ==
    /\ pc[c] = "write"
    /\ stream[to[c]] = "open"
    /\ heard' = IF peer[to[c]] = "gone" \/ batch[c].last < batch[c].first
                THEN heard
                ELSE [heard EXCEPT ![to[c]][c] = Append(@, batch[c])]
    /\ Goto(c, "cast")
    /\ UNCHANGED <<server, list, stream, cursor, batch, program>>

\* Mutant of WriteFails: the exception is caught inside the loop of Process.
MutantWriteFails(c) ==
    /\ pc[c] = "write"
    /\ stream[to[c]] # "open" \/ peer[to[c]] = "gone"
    /\ Dispose(c)
    /\ Goto(c, "chat")
    /\ UNCHANGED <<server, clients, torn, stream, batch, program, heard>>

\* The stream is not there yet, closed, or its client is gone: the exception
\* ends the thread of the sender.
WriteFails(c) ==
    /\ pc[c] = "write"
    /\ stream[to[c]] # "open" \/ peer[to[c]] = "gone"
    /\ Dispose(c)
    /\ Goto(c, "find")
    /\ UNCHANGED <<server, clients, torn, stream, batch, program, heard>>

----------------------------------------------------------------------------
(* RemoveConnection and Close, in the finally block *)

\* An exception here is not caught: it ends the process, or the task.
Escapes(c) ==
    IF isTplVersion
    THEN Goto(c, "failed") /\ UNCHANGED server
    ELSE up' = FALSE /\ UNCHANGED <<isTplVersion, listener, closing, pc>>

\* Mutant of FirstOrDefault: Close comes before RemoveConnection.
MutantFirstOrDefault(c) ==
    /\ pc[c] = "find"
    /\ stream' = [stream EXCEPT ![c] = "closed"]
    /\ Goto(c, "finding")
    /\ UNCHANGED <<server, list, cursor, batch, program, heard>>

FirstOrDefault(c) ==
    /\ pc[c] = "find"
    /\ Goto(c, "finding")
    /\ UNCHANGED <<server, list, stream, cursor, batch, program, heard>>

\* A null entry on the way to c.
NullBefore(c) ==
    \E i \in 1..Len(clients) :
        clients[i] = NoClient /\ (IndexOf(c) = 0 \/ i < IndexOf(c))

\* The enumeration ends with the client, or with an exception.
EndOfFirstOrDefault(c) ==
    /\ pc[c] = "finding"
    /\ Touch(c)
    /\ IF stale[c] \/ NullBefore(c)
       THEN Escapes(c)
       ELSE Goto(c, "found") /\ UNCHANGED server
    /\ stale' = [stale EXCEPT ![c] = FALSE]
    /\ UNCHANGED <<clients, stream, cursor, batch, program, heard>>

RemoveEntry(c) ==
    /\ pc[c] = "found"
    /\ Touch(c)
    /\ IF IndexOf(c) = 0
       THEN Goto(c, "close") /\ UNCHANGED clients
       ELSE Goto(c, "removing") /\ Store(RemoveAt(clients, IndexOf(c)))
    /\ UNCHANGED <<server, stale, stream, cursor, batch, program, heard>>

EndOfRemoveEntry(c) ==
    /\ pc[c] = "removing"
    /\ Bump
    /\ Goto(c, "close")
    /\ UNCHANGED <<isTplVersion, up, listener, clients, torn, stream, cursor, batch,
                   program, heard>>

Close(c) ==
    /\ pc[c] = "close"
    /\ stream' = [stream EXCEPT ![c] = "closed"]
    /\ Goto(c, "done")
    /\ UNCHANGED <<server, list, cursor, batch, program, heard>>

----------------------------------------------------------------------------

Process(c) ==
    /\ up
    /\ \/ GetStream(c) \/ GetStreamFails(c)
       \/ GetMessage(c) \/ ReadFails(c)
       \/ MoveNext(c) \/ Write(c) \/ WriteFails(c)
       \/ FirstOrDefault(c) \/ EndOfFirstOrDefault(c)
       \/ RemoveEntry(c) \/ EndOfRemoveEntry(c)
       \/ Close(c)

Program(c) == SendMessage(c) \/ CancelKey(c) \/ Vanish(c)

Listen(c) == AddConnection(c) \/ StartThread(c)

Disconnect == ListenFails \/ CloseNext \/ DisconnectFails \/ Exit

Next ==
    \/ \E c \in Clients : Program(c) \/ Listen(c) \/ Process(c)
    \/ Disconnect

Spec == Init /\ [][Next]_vars

----------------------------------------------------------------------------
(* Properties *)

Batches == [first : Nat, last : Nat]

\* The values every variable keeps.
TypeOK ==
    /\ isTplVersion \in BOOLEAN /\ up \in BOOLEAN
    /\ listener \in {"accept", "disconnect", "retry"} /\ closing \in Nat
    /\ clients \in Seq(Clients \cup {NoClient})
    /\ torn \in BOOLEAN
    /\ pc \in [Clients -> Control]
    /\ stream \in [Clients -> {"null", "open", "closed", "cut"}]
    /\ stale \in [Clients -> BOOLEAN]
    /\ next \in [Clients -> Nat \ {0}]
    /\ to \in [Clients -> Clients \cup {NoClient}]
    /\ \A c \in Clients : pc[c] = "write" => to[c] \in Clients
    /\ batch \in [Clients -> Batches]
    /\ peer \in [Clients -> {"none", "connected", "gone"}]
    /\ said \in [Clients -> Nat]
    /\ endAt \in [Clients -> Nat]
    /\ heard \in [Clients -> [Clients -> Seq(Batches)]]

\* The list has one entry for each client from AddConnection to Remove.
ListInv ==
    /\ \A i, j \in 1..Len(clients) : clients[i] = clients[j] => i = j
    /\ \A i \in 1..Len(clients) : clients[i] \in Clients
    /\ \A c \in Clients :
         c \in Listed <=> pc[c] \notin {"absent", "removing", "close", "done"}

\* What the variables of a thread are where it does not use them.
ThreadInv ==
    \A c \in Clients :
        /\ listener = "accept" /\ Closed(c) => pc[c] = "done"
        /\ peer[c] = "none" <=> pc[c] = "absent"
        /\ pc[c] \notin {"cast", "write"} => next[c] = 1
        /\ pc[c] \notin {"cast", "write", "finding"} => ~stale[c]
        /\ pc[c] = "write" => to[c] # c /\ pc[to[c]] # "absent"
        /\ batch[c].first <= batch[c].last + 1 /\ batch[c].last <= said[c]
        /\ pc[c] = "absent" => \A s \in Clients : heard[c][s] = <<>>
        /\ pc[c] \in {"absent", "adding"} => stream[c] = "null"
        /\ pc[c] = "adding" => listener = "accept"
        /\ pc[c] \in {"absent", "adding", "attach", "name"} =>
               batch[c] = Nothing /\ \A r \in Clients : heard[r][c] = <<>>

\* The enumerator of s has passed r, and what there was to write was written.
Reached(s, r) ==
    /\ \E i \in 1..Len(clients) : i < next[s] /\ clients[i] = r
    /\ ~(pc[s] = "write" /\ to[s] = r)

\* r has heard something of s, and now everything up to chunk n.
HeardUpTo(r, s, n) == heard[r][s] # <<>> => heard[r][s][Len(heard[r][s])].last = n

\* The last that r has heard of s is the current batch.
HeardBatch(r, s) ==
    batch[s].first <= batch[s].last =>
        /\ heard[r][s] # <<>>
        /\ heard[r][s][Len(heard[r][s])] = batch[s]

\* The enumerator of s is in step with the list.
InStep(s) == pc[s] \in {"cast", "write"} /\ ~stale[s] /\ Changing = {}

\* The list under Disconnect's enumerator: until the enumeration has failed
\* once, it has closed the clients it has passed and no other that is listed.
DisconnectInv ==
    /\ listener = "accept" => closing = 0
    /\ \A i \in 1..Len(clients) :
         /\ Closed(clients[i]) =>
                listener = "retry" \/ (listener = "disconnect" /\ (closing = 0 \/ i < closing))
         /\ i < closing /\ Changing = {} => Closed(clients[i])

\* What a connected client r has heard of s: all before the current batch, or the
\* current batch too when the enumerator has passed r.
Hearing(r, s) ==
    peer[r] = "connected" =>
    /\ pc[s] = "write" /\ to[s] = r => HeardUpTo(r, s, batch[s].first - 1)
    /\ pc[s] \in {"name", "chat"} /\ r \in Listed \ {s} =>
           HeardUpTo(r, s, batch[s].last)
    /\ InStep(s) /\ r \in Listed \ {s} =>
           /\ ~Reached(s, r) => HeardUpTo(r, s, batch[s].first - 1)
           /\ Reached(s, r) => HeardUpTo(r, s, batch[s].last) /\ HeardBatch(r, s)

HearingInv == \A r, s \in Clients : Hearing(r, s)

\* The client in hand is the entry the enumerator has just passed.
Points(s) ==
    InStep(s) /\ pc[s] = "write" =>
        next[s] - 1 \in 1..Len(clients) /\ clients[next[s] - 1] = to[s]

CursorInv == \A s \in Clients : Points(s)

Contiguous ==
    \A r, s \in Clients :
        \A i \in 1..Len(heard[r][s]) - 1 :
            heard[r][s][i + 1].first = heard[r][s][i].last + 1

\* The inductive invariant behind the properties below: without a race, a list
\* whose entries are the clients between AddConnection and Remove, enumerators
\* that are in step with it or know that they are not (Server.cs:33,73), and
\* clients that have heard everything up to one of the last two batches.
ChatInv ==
    ~torn => ListInv /\ ThreadInv /\ DisconnectInv /\ CursorInv /\ HearingInv /\ Contiguous

\* What a client hears of another one has no gap, no repetition and the order
\* it was said in, although the clients before and after it in the list come
\* and go while BroadcastMessage enumerates the list without a lock
\* (Server.cs:73), as long as no two threads are inside the List at once.
HeardIsContiguous == ~torn => Contiguous

\* A broadcast after which the thread goes on has reached every other client
\* that is connected and listed (Server.cs:70-77, Client.cs:63-67): who came or
\* went meanwhile makes it fail and never makes it skip anybody.
WholeBroadcast ==
    [][\A s, r \in Clients :
          (/\ pc[s] = "cast" /\ pc'[s] = "chat" /\ ~torn'
           /\ r \in Listed \ {s} /\ peer[r] = "connected")
          => HeardBatch(r, s)]_vars

\* Outside Disconnect no later broadcast finds a client whose connection the
\* server has closed: its thread takes it out of the list first
\* (Client.cs:52-53).  The clients Disconnect has closed stay in the list.
ClosedIsUnlisted ==
    ~torn /\ listener = "accept" => \A c \in Listed : ~Closed(c)

\* Disconnect leaves nobody out: although threads end and take their clients
\* out of the list under its enumerator, it reaches Exit only when every
\* client in the list is closed (Server.cs:83-88, Program.cs:16-18).
ExitClosesAll ==
    [][Exit /\ ~torn' => \A c \in Listed : Closed(c)]_vars
=============================================================================
