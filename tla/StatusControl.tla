--------------------------- MODULE StatusControl ---------------------------
(***************************************************************************)
(* Central control of the scanner agents of "Message Queues".  The central *)
(* service watches its settings file and publishes what the file holds on  *)
(* a topic.  Every agent opens the same subscription of that topic, so     *)
(* each command goes to one of them; it is locked while it is handled,     *)
(* comes again when the handler throws or its process dies, and is dead    *)
(* after MaxDelivery deliveries.                                           *)
(*                                                                         *)
(* In an agent three threads use the StatusService without a lock: the     *)
(* service's Start and Stop, the subscription's message pump (UpdateTimer) *)
(* and the timer that sends the reports.                                   *)
(*                                                                         *)
(* Settings stand for the version of the file they come from, 0 for those  *)
(* of the agent's own configuration.  The Status field, which only the     *)
(* report reads, is left out, and so is the file a report ends up in.      *)
(***************************************************************************)
EXTENDS Integers, Sequences, FiniteSets, SequencesExt

CONSTANTS
    Agents,       \* the scanner agents
    NoAgent,      \* a command that nobody has locked
    Orphan,       \* a command that a dead process has locked
    Saves,        \* what is saved: sequences of versions, each good or bad
    MaxDelivery,  \* the subscription's MaxDeliveryCount
    MaxStarts,    \* bound: how often the process of each agent is started
    Reporting,    \* bound: the agents whose reports are modelled
    Conditions    \* what goes wrong, a subset of ConditionKinds

\* A bad file cannot be deserialized, or its PageTimeout is missing or not
\* positive and the timer refuses it; which of the two is left open.
Kinds == {"good", "bad"}

ConditionKinds ==
    {"die",   \* the process of an agent ends at any time
     "slow",  \* an editor has the file open for more than a second
     "twice", \* an editor writes the file in two steps, which raise two events
     "stop"}  \* the central service stops at any time

ASSUME StatusAssumption ==
    /\ Saves \subseteq Seq(Kinds)
    /\ NoAgent \notin Agents /\ Orphan \notin Agents /\ NoAgent # Orphan
    /\ MaxDelivery \in Nat \ {0}
    /\ MaxStarts \in [Agents -> Nat]
    /\ Reporting \subseteq Agents
    /\ Conditions \subseteq ConditionKinds

VARIABLES
    kind,       \* kind[v]: how good version v of the settings file is
    file,       \* the version of the settings file
    held,       \* an editor has it open for writing
    events,     \* the Changed events the watcher has not delivered yet
    watcher,    \* "off", "idle" or "sleep" (Watcher_Changed, before it opens)
    topic,      \* the commands in the subscription, in order
    dead,       \* the versions in its dead-letter queue
    run,        \* each agent: "down", "built", "started", "stopped"
    starts,     \* how often its process was started
    timer,      \* the status timer is enabled
    silenced,   \* a command was refused since the timer was last enabled
    timeout,    \* ServiceStatus.PageTimeout
    barcode,    \* ServiceStatus.BarcodeString
    pump,       \* where the handler of a command is
    elapsed,    \* where the handler of the timer is: "idle", "read", "send"
    draft,      \* what it has serialized so far
    reported    \* the last report of the process

changing == <<file, held, events, watcher>>
central  == <<kind, changing>>
queues   == <<topic, dead>>
service  == <<run, starts>>
settings == <<timeout, barcode>>
clock    == <<timer, silenced>>
reports  == <<elapsed, draft, reported>>
vars     == <<central, queues, service, settings, clock, pump, reports>>

Has(condition) == condition \in Conditions

Versions == 0..Len(kind)

Commands == [version : 1..Len(kind), count : 0..MaxDelivery,
             owner : Agents \cup {NoAgent, Orphan}]

Pump == {"idle", "got", "interval", "timeout", "enable", "barcode", "complete"}

Unknown == [timeout |-> 0, barcode |-> 0]

Init ==
    /\ kind \in Saves
    /\ file = 0 /\ held = FALSE
    /\ events = 0 /\ watcher = "off"
    /\ topic = <<>> /\ dead = {}
    /\ run = [a \in Agents |-> "down"]
    /\ starts = [a \in Agents |-> 0]
    /\ timer = [a \in Agents |-> FALSE]
    /\ silenced = [a \in Agents |-> FALSE]
    /\ timeout = [a \in Agents |-> 0]
    /\ barcode = [a \in Agents |-> 0]
    /\ pump = [a \in Agents |-> "idle"]
    /\ elapsed = [a \in Agents |-> "idle"]
    /\ draft = [a \in Agents |-> Unknown]
    /\ reported = [a \in Agents |-> Unknown]

----------------------------------------------------------------------------
(* The settings file and the central service *)

Notify == events' = IF watcher = "off" THEN 0 ELSE events + 1

BeginSave ==
    /\ ~held /\ file < Len(kind)
    /\ held' = TRUE
    /\ IF Has("twice") THEN Notify ELSE UNCHANGED events
    /\ UNCHANGED <<kind, file, watcher, queues, service, settings, clock, pump, reports>>

EndSave ==
    /\ held
    /\ held' = FALSE
    /\ file' = file + 1
    /\ Notify
    /\ UNCHANGED <<kind, watcher, queues, service, settings, clock, pump, reports>>

\* Start never gets past azureQueueClient.OnStart, which receives documents: the
\* watcher is on, the timer that would ask the agents for reports never is.
StartCentral ==
    /\ watcher = "off"
    /\ watcher' = "idle"
    /\ UNCHANGED <<kind, file, held, events, queues, service, settings, clock, pump, reports>>

\* The end of the process, among others when no document comes in time.
StopCentral ==
    /\ Has("stop")
    /\ watcher # "off"
    /\ watcher' = "off"
    /\ events' = 0
    /\ UNCHANGED <<kind, file, held, queues, service, settings, clock, pump, reports>>

\* The callbacks of one watcher do not overlap; this one sleeps for a second.
Watcher_Changed ==
    /\ watcher = "idle" /\ events > 0
    /\ watcher' = "sleep"
    /\ events' = events - 1
    /\ UNCHANGED <<kind, file, held, queues, service, settings, clock, pump, reports>>

\* What the file holds by now goes out.
Send ==
    /\ watcher = "sleep" /\ ~held
    /\ watcher' = "idle"
    /\ topic' = Append(topic, [version |-> file, count |-> 0, owner |-> NoAgent])
    /\ UNCHANGED <<kind, file, held, events, dead, service, settings, clock, pump, reports>>

\* The file is still open for writing: the exception ends the process.
OpenFails ==
    /\ Has("slow")
    /\ watcher = "sleep" /\ held
    /\ watcher' = "off"
    /\ events' = 0
    /\ UNCHANGED <<kind, file, held, queues, service, settings, clock, pump, reports>>

----------------------------------------------------------------------------
(* The service of an agent *)

\* The constructor of ScanProcessService: the subscription is open from here on.
Build(a) ==
    /\ run[a] = "down" /\ starts[a] < MaxStarts[a]
    /\ run' = [run EXCEPT ![a] = "built"]
    /\ starts' = [starts EXCEPT ![a] = @ + 1]
    /\ UNCHANGED <<central, queues, settings, clock, pump, reports>>

Start(a) ==
    /\ run[a] = "built"
    /\ run' = [run EXCEPT ![a] = "started"]
    /\ timer' = [timer EXCEPT ![a] = TRUE]
    /\ silenced' = [silenced EXCEPT ![a] = FALSE]
    /\ UNCHANGED <<central, queues, starts, settings, pump, reports>>

\* The subscription stays open.
Stop(a) ==
    /\ run[a] = "started"
    /\ run' = [run EXCEPT ![a] = "stopped"]
    /\ timer' = [timer EXCEPT ![a] = FALSE]
    /\ UNCHANGED <<central, queues, starts, settings, silenced, pump, reports>>

\* The end of the process, after Stop or at any time: the settings it received
\* are gone, its command stays locked.
Exit(a) ==
    /\ run[a] = "stopped" \/ (run[a] # "down" /\ Has("die"))
    /\ run' = [run EXCEPT ![a] = "down"]
    /\ timer' = [timer EXCEPT ![a] = FALSE]
    /\ silenced' = [silenced EXCEPT ![a] = FALSE]
    /\ timeout' = [timeout EXCEPT ![a] = 0]
    /\ barcode' = [barcode EXCEPT ![a] = 0]
    /\ pump' = [pump EXCEPT ![a] = "idle"]
    /\ elapsed' = [elapsed EXCEPT ![a] = "idle"]
    /\ draft' = [draft EXCEPT ![a] = Unknown]
    /\ reported' = [reported EXCEPT ![a] = Unknown]
    /\ topic' = [i \in DOMAIN topic |->
                    IF topic[i].owner = a THEN [topic[i] EXCEPT !.owner = Orphan]
                    ELSE topic[i]]
    /\ UNCHANGED <<central, dead, starts>>

----------------------------------------------------------------------------
(* The subscription *)

\* Mutant of Return: deliveries are not limited.
MutantReturnAlways(i) ==
    /\ topic' = [topic EXCEPT ![i].owner = NoAgent]
    /\ UNCHANGED dead

\* Mutant of Return: a handler that throws completes its command.
MutantReturnLost(i) ==
    /\ topic' = RemoveAt(topic, i)
    /\ UNCHANGED dead

\* A command that was not completed is there again, at its old place, or dead.
Return(i) ==
    IF topic[i].count < MaxDelivery
    THEN /\ topic' = [topic EXCEPT ![i].owner = NoAgent]
         /\ UNCHANGED dead
    ELSE /\ topic' = RemoveAt(topic, i)
         /\ dead' = dead \cup {topic[i].version}

LockExpires ==
    /\ \E i \in DOMAIN topic : topic[i].owner = Orphan /\ Return(i)
    /\ UNCHANGED <<central, service, settings, clock, pump, reports>>

\* The command the pump of a works on.
InHand(a, i) == i \in DOMAIN topic /\ topic[i].owner = a

----------------------------------------------------------------------------
(* ProcessMessage, on the thread of the message pump *)

Goto(a, place) == pump' = [pump EXCEPT ![a] = place]

Deliver(a, i) ==
    topic' = [topic EXCEPT ![i] =
                 [version |-> @.version, count |-> @.count + 1, owner |-> a]]

\* Mutant of Receive: the pump takes any command that is free.
MutantReceive(a) ==
    /\ run[a] # "down" /\ pump[a] = "idle"
    /\ \E i \in DOMAIN topic :
         /\ topic[i].owner = NoAgent
         /\ Deliver(a, i)
    /\ Goto(a, "got")
    /\ UNCHANGED <<central, dead, service, settings, clock, reports>>

\* The pump takes the first command that is free.
Receive(a) ==
    /\ run[a] # "down" /\ pump[a] = "idle"
    /\ \E i \in DOMAIN topic :
         /\ topic[i].owner = NoAgent
         /\ \A j \in 1..i - 1 : topic[j].owner # NoAgent
         /\ Deliver(a, i)
    /\ Goto(a, "got")
    /\ UNCHANGED <<central, dead, service, settings, clock, reports>>

\* Deserialize throws, and the pump abandons the command.
CannotDeserialize(a) ==
    /\ pump[a] = "got"
    /\ \E i \in DOMAIN topic :
         InHand(a, i) /\ kind[topic[i].version] = "bad" /\ Return(i)
    /\ Goto(a, "idle")
    /\ UNCHANGED <<central, service, settings, clock, reports>>

\* UpdateTimer: OnStop.
StopTimer(a) ==
    /\ pump[a] = "got"
    /\ timer' = [timer EXCEPT ![a] = FALSE]
    /\ Goto(a, "interval")
    /\ UNCHANGED <<central, queues, service, settings, silenced, reports>>

\* timer.Interval = timerValue throws: the timer stays as it is.
IntervalRefused(a) ==
    /\ pump[a] = "interval"
    /\ \E i \in DOMAIN topic :
         InHand(a, i) /\ kind[topic[i].version] = "bad" /\ Return(i)
    /\ silenced' = [silenced EXCEPT ![a] = TRUE]
    /\ Goto(a, "idle")
    /\ UNCHANGED <<central, service, settings, timer, reports>>

SetInterval(a) ==
    /\ pump[a] = "interval"
    /\ \E i \in DOMAIN topic : InHand(a, i) /\ kind[topic[i].version] = "good"
    /\ Goto(a, "timeout")
    /\ UNCHANGED <<central, queues, service, settings, clock, reports>>

SetPageTimeout(a) ==
    /\ pump[a] = "timeout"
    /\ \E i \in DOMAIN topic :
         InHand(a, i) /\ timeout' = [timeout EXCEPT ![a] = topic[i].version]
    /\ Goto(a, "enable")
    /\ UNCHANGED <<central, queues, service, barcode, clock, reports>>

\* Mutant of EnableTimer: UpdateTimer leaves the timer off.
MutantEnableTimer(a) ==
    /\ pump[a] = "enable"
    /\ silenced' = [silenced EXCEPT ![a] = FALSE]
    /\ UNCHANGED timer
    /\ Goto(a, "barcode")
    /\ UNCHANGED <<central, queues, service, settings, reports>>

\* UpdateTimer: OnStart, whether or not the service is still started.
EnableTimer(a) ==
    /\ pump[a] = "enable"
    /\ timer' = [timer EXCEPT ![a] = TRUE]
    /\ silenced' = [silenced EXCEPT ![a] = FALSE]
    /\ Goto(a, "barcode")
    /\ UNCHANGED <<central, queues, service, settings, reports>>

SetBarcodeString(a) ==
    /\ pump[a] = "barcode"
    /\ \E i \in DOMAIN topic :
         InHand(a, i) /\ barcode' = [barcode EXCEPT ![a] = topic[i].version]
    /\ Goto(a, "complete")
    /\ UNCHANGED <<central, queues, service, timeout, clock, reports>>

Complete(a) ==
    /\ pump[a] = "complete"
    /\ \E i \in DOMAIN topic : InHand(a, i) /\ topic' = RemoveAt(topic, i)
    /\ Goto(a, "idle")
    /\ UNCHANGED <<central, dead, service, settings, clock, reports>>

----------------------------------------------------------------------------
(* SendStatus, on a thread of the timer *)

\* The serializer reads the properties in the order of the class.
Elapsed(a) ==
    /\ a \in Reporting
    /\ elapsed[a] = "idle" /\ timer[a]
    /\ elapsed' = [elapsed EXCEPT ![a] = "read"]
    /\ UNCHANGED <<central, queues, service, settings, clock, pump, draft, reported>>

\* Mutant of ReadPageTimeout: the report repeats the timeout of the last one.
MutantReadPageTimeout(a) ==
    /\ elapsed[a] = "read"
    /\ elapsed' = [elapsed EXCEPT ![a] = "send"]
    /\ draft' = [draft EXCEPT ![a].timeout = reported[a].timeout]
    /\ UNCHANGED <<central, queues, service, settings, clock, pump, reported>>

ReadPageTimeout(a) ==
    /\ elapsed[a] = "read"
    /\ elapsed' = [elapsed EXCEPT ![a] = "send"]
    /\ draft' = [draft EXCEPT ![a].timeout = timeout[a]]
    /\ UNCHANGED <<central, queues, service, settings, clock, pump, reported>>

SendStatus(a) ==
    /\ elapsed[a] = "send"
    /\ elapsed' = [elapsed EXCEPT ![a] = "idle"]
    /\ reported' = [reported EXCEPT ![a] = [draft[a] EXCEPT !.barcode = barcode[a]]]
    /\ draft' = [draft EXCEPT ![a] = Unknown]
    /\ UNCHANGED <<central, queues, service, settings, clock, pump>>

----------------------------------------------------------------------------

Settings == BeginSave \/ EndSave

Central == Watcher_Changed \/ Send \/ OpenFails

Service(a) == Build(a) \/ Start(a) \/ Stop(a) \/ Exit(a)

ProcessMessage(a) ==
    \/ Receive(a) \/ CannotDeserialize(a)
    \/ StopTimer(a) \/ IntervalRefused(a) \/ SetInterval(a)
    \/ SetPageTimeout(a) \/ EnableTimer(a)
    \/ SetBarcodeString(a) \/ Complete(a)

StatusTimer(a) == Elapsed(a) \/ ReadPageTimeout(a) \/ SendStatus(a)

Next ==
    \/ Settings \/ Central \/ StartCentral \/ StopCentral \/ LockExpires
    \/ \E a \in Agents : Service(a) \/ ProcessMessage(a) \/ StatusTimer(a)

\* Editors finish, the threads of a running process go on, a timer that is
\* enabled elapses and locks expire; nobody has to start a process.
Fairness ==
    /\ WF_vars(EndSave) /\ WF_vars(Central) /\ WF_vars(LockExpires)
    /\ \A a \in Agents : WF_vars(ProcessMessage(a)) /\ WF_vars(StatusTimer(a))

Spec == Init /\ [][Next]_vars /\ Fairness

----------------------------------------------------------------------------
(* Properties *)

\* The values every variable keeps; a pump that is not idle has one command.
TypeOK ==
    /\ kind \in Saves
    /\ file \in Versions /\ held \in BOOLEAN
    /\ events \in Nat /\ watcher \in {"off", "idle", "sleep"}
    /\ topic \in Seq(Commands) /\ dead \subseteq Versions
    /\ run \in [Agents -> {"down", "built", "started", "stopped"}]
    /\ starts \in [Agents -> Nat]
    /\ timer \in [Agents -> BOOLEAN] /\ silenced \in [Agents -> BOOLEAN]
    /\ timeout \in [Agents -> Versions] /\ barcode \in [Agents -> Versions]
    /\ pump \in [Agents -> Pump]
    /\ elapsed \in [Agents -> {"idle", "read", "send"}]
    /\ draft \in [Agents -> [timeout : Versions, barcode : Versions]]
    /\ reported \in [Agents -> [timeout : Versions, barcode : Versions]]

\* The status timer of a started service is on, but for the moment UpdateTimer
\* has it off and after a command whose interval it refused; in a process that
\* is not started only UpdateTimer can have turned it on (StatusService.cs:29-46
\* runs on the pump's thread beside Start and Stop, ScanProcessService.cs:53,65).
TimerFollowsService ==
    \A a \in Agents :
        /\ run[a] = "started" /\ ~timer[a] =>
               silenced[a] \/ pump[a] \in {"interval", "timeout", "enable"}
        /\ run[a] # "started" /\ timer[a] =>
               timeout[a] > 0 /\ kind[timeout[a]] = "good"

\* A process goes back to older settings only by a command that another
\* process took before it and did not complete (AzureSubscriptionClient.cs:34,35):
\* competing for the commands alone does not reorder them for any agent.
NoStepBack ==
    [][\A a \in Agents :
          (timeout'[a] < timeout[a] /\ run'[a] # "down")
          => \E i \in DOMAIN topic : InHand(a, i) /\ topic[i].count > 1]_vars

\* What is saved, and that the watcher has a version to send when it wakes up.
FileInv ==
    /\ held => file < Len(kind)
    /\ events > 0 \/ watcher = "sleep" => file > 0 \/ held

\* The commands keep the order of their versions, the delivered ones are before
\* the others, and a pump has one of them at most.
TopicInv ==
    /\ \A i, j \in DOMAIN topic : i < j =>
           /\ topic[i].version <= topic[j].version
           /\ topic[j].count > 0 => topic[i].count > 0
    /\ \A i \in DOMAIN topic :
           /\ topic[i].version <= file
           /\ topic[i].owner = NoAgent => topic[i].count < MaxDelivery
           /\ topic[i].count = 0 => topic[i].owner = NoAgent
    /\ \A a \in Agents : \A i, j \in DOMAIN topic :
           InHand(a, i) /\ InHand(a, j) => i = j
    /\ \A a \in Agents : \A i \in DOMAIN topic : InHand(a, i) => pump[a] # "idle"

\* What comes to an agent for the first time is not older than what it has.
NewerComes ==
    \A a \in Agents :
        /\ timeout[a] <= file
        /\ \A i \in DOMAIN topic :
               topic[i].count = 0 \/ (InHand(a, i) /\ topic[i].count = 1)
               => timeout[a] <= topic[i].version

\* What the handler of a command knows where it is.
PumpInv ==
    \A a \in Agents :
        /\ pump[a] = "timeout" =>
               \A i \in DOMAIN topic : InHand(a, i) => kind[topic[i].version] = "good"
        /\ pump[a] = "enable" => timeout[a] > 0 /\ kind[timeout[a]] = "good"

\* The inductive invariant behind TimerFollowsService and NoStepBack: commands
\* in the order of their versions, of which the first free one is taken, and
\* handlers that know what they have checked (AzureSubscriptionClient.cs:25-47,
\* StatusService.cs:34-46, AzureServiceBusClient.cs:52-65).
StatusInv ==
    FileInv /\ TopicInv /\ NewerComes /\ PumpInv /\ TimerFollowsService

\* A settled agent is started, handles no command and was refused none.
Settled(a) == run[a] = "started" /\ pump[a] = "idle" /\ ~silenced[a]

\* The reports of a service that stays settled end up showing the settings it
\* has, whatever a report serialized while UpdateTimer was half done
\* (StatusService.cs:48-59, AzureSubscriptionClient.cs:34-35; README.md:43).
SettledIsReported ==
    \A a \in Reporting :
        <>[]Settled(a)
        => <>[](reported[a] = [timeout |-> timeout[a], barcode |-> barcode[a]])

\* A command is not lost: as long as some agent runs, one of them takes over its
\* settings, or it goes to the dead-letter queue, although handlers throw,
\* processes die with a command in hand and agents compete for it
\* (AzureSubscriptionClient.cs:25-47).  One agent is all: see AllServicesChange.
CommandIsTaken ==
    \A v \in UNION {DOMAIN k : k \in Saves} :
        (\E i \in DOMAIN topic : topic[i].version = v)
        ~> (\/ \E a \in Agents : barcode[a] = v
            \/ v \in dead
            \/ \A a \in Agents : run[a] = "down")

----------------------------------------------------------------------------
(* What the task of the module asks for and the code does not do *)

\* README.md:48, "from the server commands go to all services" (to change the
\* settings, :50-52): a good settings file that the watcher has noticed reaches
\* every service that is started and stays so, unless a newer file comes.
AllServicesChange ==
    \A v \in UNION {DOMAIN k : k \in Saves} : \A a \in Agents :
        (/\ run[a] = "started" /\ v \in DOMAIN kind /\ kind[v] = "good"
         /\ file = v /\ ~held /\ (events > 0 \/ watcher = "sleep"))
        ~> (barcode[a] >= v \/ file > v \/ run[a] # "started" \/ watcher = "off")
=============================================================================
