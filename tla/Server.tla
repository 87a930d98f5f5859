------------------------------- MODULE Server -------------------------------
(***************************************************************************)
(* The life of the process (api.ts): it reads its configuration, starts the *)
(* inbound and then the outbound server, restarts both on a RECONFIGURE of  *)
(* the control client, and stops them on SIGTERM.                           *)
(*                                                                         *)
(* A restart is an asynchronous function that nobody awaits: two of them,   *)
(* or one and the handler of SIGTERM, run concurrently when messages come   *)
(* faster than servers restart.  A rejection that nobody handles ends the   *)
(* process, as Node.js does from version 15 on.                             *)
(*                                                                         *)
(* An action is what happens in one turn of the event loop: the end of an   *)
(* awaited operation together with all the code up to the next one.  Each   *)
(* server has three Redis connections, which are opened and closed          *)
(* together; `client` is any one of them.  The ports do not change: they    *)
(* are no part of what the management API sends (MgmtApiConfig).            *)
(*                                                                         *)
(* Each server is given the configuration of its restart, but builds its     *)
(* requests to others from the one that shared/config.ts exports: that is    *)
(* the very object the control client was created with and the answer to    *)
(* its READ is merged into, and no restart changes it.                      *)
(***************************************************************************)
EXTENDS ControlAgent, FiniteSets

CONSTANTS
  Outgoing,  \* the parts that outgoing requests use: credentials, the signing key
  MaxDrops   \* bound: Redis connections that are lost

ASSUME ServerAssumption ==
  /\ Outgoing \subseteq Parts
  /\ MaxDrops \in Nat

Apis == {"inbound", "outbound"}

VARIABLES
  managed,   \* pm4mlEnabled
  boot,      \* where initialize() is before it starts the servers
  servers,   \* every hapi server that was created
  held,      \* this.inboundServer and this.outboundServer, 0 when undefined
  tasks,     \* the start of the servers by initialize(), and the restarts
  closing,   \* servers whose stop the handler of SIGTERM awaits
  exit,      \* why the process has ended
  drops,     \* how many Redis connections were lost
  hurried    \* has a message or SIGTERM come before the process was at rest?

processVars == <<managed, boot, servers, held, tasks, closing, exit, drops, hurried>>
vars == <<agentVars, processVars>>

Phases == {"registering", "started", "stopping", "stopped"}
Clients == {"connecting", "retrying", "up", "down", "closed"}
Servers == DOMAIN servers
Tasks == DOMAIN tasks

\* The types, and what a task and the two fields refer to.
TypeOK ==
  /\ AgentTypeOK
  /\ managed \in BOOLEAN
  /\ boot \in {"connecting", "sending", "reading", "read", "starting"}
  /\ servers \in Seq([api : Apis, conf : Configuration, phase : Phases, client : Clients])
  /\ held \in [Apis -> {0} \union Servers]
  /\ \A a \in Apis : held[a] # 0 =>
       servers[held[a]].api = a /\ servers[held[a]].phase # "registering"
  /\ tasks \in Seq([conf : Configuration, at : {"stopping", "done"} \union Apis,
                    waits : SUBSET Servers, server : {0} \union Servers])
  /\ \A t \in Tasks : tasks[t].at \in Apis =>
       /\ tasks[t].server # 0
       /\ servers[tasks[t].server].api = tasks[t].at
       /\ servers[tasks[t].server].phase = "registering"
  /\ closing \subseteq Servers
  /\ exit \in {"no", "clean", "failed", "message", "early", "overlap", "unhandled"}
  /\ drops \in 0 .. MaxDrops
  /\ hurried \in BOOLEAN

\* setupAndStart() begins: a hapi server with the configuration it is given, whose plugins
\* connect to Redis.
NewServer(a, conf) ==
  [api |-> a, conf |-> conf, phase |-> "registering", client |-> "connecting"]

\* What server s works with.
WorksWith(s) ==
  [p \in Parts |-> IF p \in Outgoing THEN appConfig[p] ELSE servers[s].conf[p]]

Init ==
  /\ managed \in BOOLEAN
  /\ AgentInit(managed)
  /\ boot = IF managed THEN "connecting" ELSE "starting"
  /\ servers = IF managed THEN <<>> ELSE <<NewServer("inbound", appConfig)>>
  /\ held = [a \in Apis |-> 0]
  /\ tasks = IF managed THEN <<>>
             ELSE <<[conf |-> appConfig, at |-> "inbound", waits |-> {}, server |-> 1]>>
  /\ closing = {}
  /\ exit = "no"
  /\ drops = 0
  /\ hurried = FALSE

AllDone == tasks # <<>> /\ \A t \in Tasks : tasks[t].at = "done"

\* Nothing is under way.
AtRest == AllDone /\ inbox = <<>> /\ closing = {} /\ exit = "no"

\* A rejection that nobody handles, an exception or process.exit(1) ends the process.
Dies(why) ==
  /\ exit = "no"
  /\ exit' = why
  /\ servers' = <<>>
  /\ held' = [a \in Apis |-> 0]
  /\ tasks' = <<>>
  /\ closing' = {}
  /\ AgentGone
  /\ UNCHANGED <<managed, boot, drops>>

-----------------------------------------------------------------------------
(* Starting and restarting.                                                *)

\* Task t goes on with mkStartAPI().
StartServer(t, a, ss) ==
  /\ servers' = Append(ss, NewServer(a, tasks[t].conf))
  /\ tasks' = [tasks EXCEPT ![t].at = a, ![t].waits = {}, ![t].server = Len(ss) + 1]

Held == {held[a] : a \in Apis}

\* Why stop() of both servers throws: undefined has none, and hapi refuses to stop a
\* server that is stopping already.
StopFails ==
  IF 0 \in Held THEN "early"
  ELSE IF \E s \in Held : servers[s].phase = "stopping" THEN "overlap"
  ELSE "no"

\* A slip: the outbound server is not stopped.
StoppingBoth_Inbound ==
  [s \in Servers |-> IF s = held["inbound"] THEN [servers[s] EXCEPT !.phase = "stopping"]
                                             ELSE servers[s]]

StoppingBoth ==
  [s \in Servers |-> IF s \in Held THEN [servers[s] EXCEPT !.phase = "stopping"]
                                  ELSE servers[s]]

\* restart(), up to its first await.
Restart(conf) ==
  /\ StopFails = "no"
  /\ servers' = StoppingBoth
  /\ tasks' = Append(tasks, [conf |-> conf, at |-> "stopping", waits |-> Held, server |-> 0])

\* A slip: a stopped server keeps its connections.
Disconnected_Never(c) == c

\* disconnect() does nothing for a connection that is down at that moment, and its
\* client goes on reconnecting.
Disconnected(c) == IF c = "up" THEN "closed" ELSE c

Stopped(s) == [servers EXCEPT ![s].phase = "stopped", ![s].client = Disconnected(@)]

\* A slip: Promise.race() instead of Promise.all().
Resolves_Race(stops, s) == s \in stops

\* Promise.all() of the stops still awaited resolves as server s has stopped.
Resolves(stops, s) == stops = {s}

\* A server has stopped, at the latest when hapi's timeout cut its last requests off.
\* Its plugin disconnects from Redis.  Whoever called stop(), a restart or the handler of
\* SIGTERM, waits for one server less; after the last one the restart goes on with the
\* inbound server, and the handler exits.
StopDone(s) ==
  /\ exit = "no"
  /\ servers[s].phase = "stopping"
  /\ \/ \E t \in Tasks :
          /\ s \in tasks[t].waits
          /\ IF Resolves(tasks[t].waits, s) THEN StartServer(t, "inbound", Stopped(s))
             ELSE servers' = Stopped(s) /\ tasks' = [tasks EXCEPT ![t].waits = @ \ {s}]
     \/ /\ \A t \in Tasks : s \notin tasks[t].waits
        /\ servers' = Stopped(s)
        /\ UNCHANGED tasks
  /\ closing' = closing \ {s}
  /\ exit' = IF Resolves(closing, s) THEN "clean" ELSE exit
  /\ UNCHANGED <<agentVars, managed, boot, held, drops, hurried>>

\* A slip: the server that a restart has started is not kept.
Hold_First(a, s) == held' = [held EXCEPT ![a] = IF @ = 0 THEN s ELSE @]

Hold(a, s) == held' = [held EXCEPT ![a] = s]

InUse(a) == \E s \in Servers : servers[s].api = a /\ servers[s].phase = "started"

\* The plugins are registered, and the server is to listen.
Registered(t) ==
  tasks[t].at \in Apis /\ servers[tasks[t].server].client \in {"up", "down"}

\* It listens: the field is assigned and the task goes on.
Listen(t) ==
  /\ exit = "no"
  /\ Registered(t)
  /\ ~InUse(tasks[t].at)
  /\ LET a == tasks[t].at
         s == tasks[t].server
         started == [servers EXCEPT ![s].phase = "started"]
     IN /\ Hold(a, s)
        /\ IF a = "inbound" THEN StartServer(t, "outbound", started)
           ELSE servers' = started /\ tasks' = [tasks EXCEPT ![t].at = "done", ![t].server = 0]
  /\ UNCHANGED <<agentVars, managed, boot, closing, exit, drops, hurried>>

\* The port is another server's.
PortTaken(t) ==
  Registered(t) /\ InUse(tasks[t].at) /\ Dies("overlap") /\ UNCHANGED hurried

\* The start of a server throws, on a certificate that cannot be used for instance; the
\* control client throws likewise when it cannot connect.
StartFails ==
  /\ socket = "opening" \/ \E t \in Tasks : Registered(t)
  /\ Dies("failed")
  /\ UNCHANGED hurried

-----------------------------------------------------------------------------
(* The Redis connections of a server.                                      *)

ClientBecomes(s, c) ==
  /\ exit = "no"
  /\ servers' = [servers EXCEPT ![s].client = c]
  /\ UNCHANGED <<agentVars, managed, boot, held, tasks, closing, exit, hurried>>

\* createClient(): the first error starts the timer, `ready` resolves the promise.
ConnectError(s) ==
  servers[s].client = "connecting" /\ ClientBecomes(s, "retrying") /\ UNCHANGED drops
Ready(s) ==
  servers[s].client \in {"connecting", "retrying"} /\ ClientBecomes(s, "up") /\ UNCHANGED drops

\* A slip: an error without a timer.
ConnectTimeout_Never(s) == FALSE /\ Dies("failed") /\ UNCHANGED hurried

\* The timer rejects, and the plugin ends the process.
ConnectTimeout(s) ==
  servers[s].client = "retrying" /\ Dies("failed") /\ UNCHANGED hurried

ConnectionLost(s) ==
  /\ servers[s].client = "up"
  /\ drops < MaxDrops
  /\ drops' = drops + 1
  /\ ClientBecomes(s, "down")
ConnectionBack(s) ==
  servers[s].client = "down" /\ ClientBecomes(s, "up") /\ UNCHANGED drops

-----------------------------------------------------------------------------
(* initialize() with a control client.                                     *)

Connect ==
  /\ exit = "no"
  /\ Opened
  /\ boot' = "sending"
  /\ UNCHANGED <<managed, servers, held, tasks, closing, exit, drops, hurried>>

AskConfiguration ==
  /\ exit = "no"
  /\ boot = "sending"
  /\ boot' = "reading"
  /\ ReadConfiguration
  /\ UNCHANGED <<managed, servers, held, tasks, closing, exit, drops, hurried>>

\* receive() has resolved: the configuration of the process is updated in place, with it
\* the one the client was created with; the servers are started.
Configured ==
  /\ exit = "no"
  /\ boot = "read"
  /\ boot' = "starting"
  /\ appConfig' = Merge(appConfig, taken)
  /\ taken' = Nothing
  /\ servers' = <<NewServer("inbound", appConfig')>>
  /\ tasks' = <<[conf |-> appConfig', at |-> "inbound", waits |-> {}, server |-> 1]>>
  /\ UNCHANGED <<socket, inbox, reader, asked, mgmt, last, pushes,
                 managed, held, closing, exit, drops, hurried>>

\* RECONFIGURE has a listener once initialize() has its configuration.
Reconfigures(m) == m.verb \in {"NOTIFY", "PATCH"} /\ boot = "starting"

Messages == {inbox[i] : i \in DOMAIN inbox}

Handle ==
  /\ exit = "no"
  /\ \E m \in Messages :
       /\ m.verb # "unreadable"
       /\ Delivered(m)
       /\ IF Reconfigures(m) THEN Restart(Emitted(m)) ELSE UNCHANGED <<servers, tasks>>
  /\ boot' = IF reader THEN "read" ELSE boot
  /\ UNCHANGED <<managed, held, closing, exit, drops, hurried>>

\* A message that cannot be parsed makes _handle read a field of undefined; a restart
\* whose stop() throws is rejected.
HandleFails ==
  \E m \in Messages :
    /\ Arrives(m)
    /\ \/ m.verb = "unreadable" /\ Dies("message")
       \/ Reconfigures(m) /\ StopFails # "no" /\ Dies(StopFails)
    /\ UNCHANGED hurried

-----------------------------------------------------------------------------
(* The surroundings.                                                       *)

Sent(pushed) ==
  /\ exit = "no"
  /\ pushed
  /\ hurried' = (hurried \/ ~AtRest)
  /\ UNCHANGED <<managed, boot, servers, held, tasks, closing, exit, drops>>

PushConfiguration(verb, p) == Sent(Push(verb, p))
PushAnother(verb) == Sent(PushOther(verb))

AnswerRead ==
  exit = "no" /\ Answer /\ UNCHANGED processVars

LoseSocket ==
  exit = "no" /\ SocketLost /\ UNCHANGED processVars

\* SIGTERM, once the servers were started: stop() of both servers and of the control
\* client.  Without a control client it throws, and nothing waits for the servers.
TermSignal ==
  /\ exit = "no"
  /\ closing = {}
  /\ tasks # <<>> /\ tasks[1].at = "done"
  /\ hurried' = (hurried \/ ~AtRest)

Sigterm ==
  /\ TermSignal
  /\ managed /\ StopFails = "no"
  /\ servers' = StoppingBoth
  /\ closing' = Held
  /\ StopAgent
  /\ UNCHANGED <<managed, boot, held, tasks, exit, drops>>

SigtermFails ==
  /\ TermSignal
  /\ \/ ~managed /\ Dies("unhandled")
     \/ managed /\ StopFails # "no" /\ Dies(StopFails)

Next ==
  \/ Connect \/ AskConfiguration \/ AnswerRead \/ Configured
  \/ Handle \/ HandleFails
  \/ \E s \in Servers :
       \/ StopDone(s) \/ ConnectError(s) \/ Ready(s) \/ ConnectTimeout(s)
       \/ ConnectionLost(s) \/ ConnectionBack(s)
  \/ \E t \in Tasks : Listen(t) \/ PortTaken(t)
  \/ StartFails
  \/ \E p \in Parts : PushConfiguration("NOTIFY", p) \/ PushConfiguration("PATCH", p)
  \/ PushAnother("unsupported") \/ PushAnother("unreadable")
  \/ LoseSocket
  \/ Sigterm \/ SigtermFails

Spec == Init /\ [][Next]_vars

\* hapi's stop ends by its timeout, the timer of createClient() fires, and a server
\* whose connections are up gets to listen or throws.  Redis need not answer, and the
\* management API need not do anything.
FairSpec ==
  /\ Spec
  /\ WF_vars(\E s \in Servers : StopDone(s))
  /\ WF_vars(\E s \in Servers : ConnectTimeout(s))
  /\ WF_vars(\E t \in Tasks : Listen(t) \/ PortTaken(t))

-----------------------------------------------------------------------------
(* Properties.                                                             *)

\* A server that listens is one the process can stop: its field refers to it.
NoOrphan ==
  \A s \in Servers : servers[s].phase = "started" => held[servers[s].api] = s

\* Restarts that overlap (restart() of api.ts is not awaited) leave no server that nobody
\* can stop; and when none is under way any more, both servers were given the configuration
\* of the newest restart, not each that of another.
OnePairInForce ==
  exit = "no" =>
    /\ NoOrphan
    /\ AllDone /\ closing = {} =>
         \A a \in Apis : /\ servers[held[a]].phase = "started"
                         /\ servers[held[a]].conf = tasks[Len(tasks)].conf

\* What a restart brings (restart() of api.ts, _handle of the control client): when the
\* management API changes one thing at a time and the socket is up, both servers work with
\* what it changed last, and with all that it holds if it sent all of it; except for what
\* outgoing requests use, where they work with what the process has read at its start.
\* A patch may undo an earlier one of another part.
InForce ==
  AtRest /\ ~hurried /\ socket = "open" =>
    \A a \in Apis : \A p \in Parts \ Outgoing :
      p = last.part \/ last.how # "PATCH" => WorksWith(held[a])[p] = mgmt[p]

\* With a control client, and with one thing at a time, a restart does not end the process:
\* no stop is refused and no port taken.  SIGTERM (api.ts:133) ends it when no server listens
\* or is about to, and not by a rejection.  Without a control client stop() throws on the
\* missing one (api.ts:122), and nothing is stopped: see SigtermFails.
ExitsInOrder ==
  managed /\ ~hurried =>
    /\ exit \notin {"early", "overlap", "unhandled"}
    /\ exit = "clean" => \A s \in Servers : servers[s].phase = "stopped"

\* "disconnect from redis when server is stopped" (state.ts:169): however often the servers
\* are restarted, a stopped server has an open client only where a connection was lost.
ClientsClosed ==
  Cardinality({s \in Servers : servers[s].phase = "stopped" /\ servers[s].client # "closed"})
    <= drops

\* Starts and restarts end, however many overlap: the servers run or the process is gone,
\* unless Redis accepts a connection attempt and never says anything.
RestartsEnd ==
  \/ []<>(exit # "no" \/ \A t \in Tasks : tasks[t].at = "done")
  \/ <>[](\E s \in Servers : servers[s].client = "connecting")

\* Whatever restarts overlap, and with SIGTERM at any moment among them, each of them ends,
\* and after SIGTERM so does the process (api.ts:113-133).
ProcessSettles ==
  /\ RestartsEnd
  /\ []<>(closing = {} \/ exit # "no")

-----------------------------------------------------------------------------
(* The inductive invariant.                                                *)

\* Where initialize() is, and what exists then.
BootSound ==
  /\ boot # "starting" => /\ servers = <<>> /\ tasks = <<>> /\ closing = {}
                          /\ \A a \in Apis : held[a] = 0
  /\ reader => boot = "reading"
  /\ boot = "reading" /\ exit = "no" => reader
  /\ socket = "opening" => boot = "connecting"
  /\ ~managed => socket \in {"none", "lost"}

\* What SIGTERM does without a control client.
Unhandled == exit = "unhandled" => ~managed

VersionsBounded == \A p \in Parts : mgmt[p] <= pushes + 1

\* The servers that are started, and who starts them.
StartsSound ==
  /\ \A s \in Servers :
       servers[s].client \in {"connecting", "retrying"} => servers[s].phase = "registering"
  /\ \A t \in Tasks : tasks[t].at \in Apis => servers[tasks[t].server].conf = tasks[t].conf
  /\ \A t, u \in Tasks :
       tasks[t].at \in Apis /\ tasks[u].at \in Apis /\ t # u => tasks[t].server # tasks[u].server

\* The servers that are stopped, and who waits for them.
StopsSound ==
  /\ \A t \in Tasks : tasks[t].at # "stopping" => tasks[t].waits = {}
  /\ \A t \in Tasks : \A s \in tasks[t].waits : servers[s].phase = "stopping"
  /\ \A t, u \in Tasks : t # u => tasks[t].waits \cap tasks[u].waits = {}

Newest == tasks[Len(tasks)]

\* Server held[a] listens, with the configuration of the newest restart.
Serves(a) ==
  /\ held[a] \in Servers
  /\ servers[held[a]].phase = "started"
  /\ servers[held[a]].conf = Newest.conf

\* What the newest restart has started so far nobody else stops or replaces.
NewestServes ==
  exit = "no" /\ closing = {} /\ tasks # <<>> =>
    /\ Newest.at \in {"outbound", "done"} => Serves("inbound")
    /\ Newest.at = "done" => Serves("outbound")

\* The servers whose connections are or may be left open when they are stopped.
Unclosed ==
  {s \in Servers : \/ servers[s].client = "down"
                   \/ servers[s].phase = "stopped" /\ servers[s].client # "closed"}

UnclosedWereLost == Cardinality(Unclosed) <= drops

\* The servers that run while one thing happens at a time.
Running ==
  CASE Newest.at = "stopping" -> Newest.waits
    [] Newest.at = "inbound"  -> {Newest.server}
    [] Newest.at = "outbound" -> {Newest.server, held["inbound"]}
    [] Newest.at = "done"     -> IF closing = {} THEN Held ELSE closing

\* A configuration of which InForce follows.
Current(conf) ==
  /\ conf[last.part] = mgmt[last.part]
  /\ last.how # "PATCH" => conf = mgmt

\* The message on its way, if any, finds the process at rest.
InboxInOrder ==
  /\ boot \in {"connecting", "sending"} => inbox = <<>> /\ ~asked
  /\ boot = "reading" => inbox = <<>> \/ (Len(inbox) = 1 /\ ~asked)
  /\ boot = "read" => inbox = <<>> /\ ~asked
  /\ boot = "starting" => ~asked /\ (inbox = <<>> \/ (Len(inbox) = 1 /\ AllDone /\ closing = {}))

\* With one thing at a time: restarts follow one another, and only Running servers run.
OneAtATime ==
  ~hurried =>
    /\ exit \notin {"early", "overlap"}
    /\ exit = "no" =>
         /\ InboxInOrder
         /\ boot = "starting" => tasks # <<>>
         /\ \A t \in Tasks : t # Len(tasks) => tasks[t].at = "done"
         /\ closing # {} => AllDone
         /\ tasks # <<>> => \A s \in Servers \ Running : servers[s].phase = "stopped"
    /\ exit = "clean" => \A s \in Servers : servers[s].phase = "stopped"

\* And what the management API holds is what runs or what is on its way.
OnItsWay ==
  ~hurried /\ exit = "no" /\ socket = "open" =>
    /\ boot = "reading" /\ inbox # <<>> => Head(inbox) = Message("NOTIFY", mgmt)
    /\ boot = "read" => taken = mgmt
    /\ boot = "starting" =>
         IF inbox # <<>> /\ Reconfigures(Head(inbox)) THEN Current(Emitted(Head(inbox)))
         ELSE Current(Newest.conf)

IInv ==
  /\ TypeOK
  /\ BootSound
  /\ VersionsBounded
  /\ StartsSound
  /\ StopsSound
  /\ NoOrphan
  /\ NewestServes
  /\ UnclosedWereLost
  /\ OneAtATime
  /\ OnItsWay
  /\ Unhandled
=============================================================================
