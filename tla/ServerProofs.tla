---------------------------- MODULE ServerProofs ----------------------------
(***************************************************************************)
(* Proofs about Server, for a configuration of any parts, any number of    *)
(* messages of the management API and of connections that are lost: the    *)
(* inductive invariant IInv and the safety properties it gives.            *)
(*                                                                         *)
(* First what every update of the two sequences does, element by element;  *)
(* then the conjuncts of IInv, kind of step by kind of step.               *)
(***************************************************************************)
EXTENDS Server, TLAPS, SequenceTheorems, FiniteSetTheorems

USE ControlAgentAssumption, ServerAssumption

AServer == [api : Apis, conf : Configuration, phase : Phases, client : Clients]
ATask(S) == [conf : Configuration, at : {"stopping", "done"} \union Apis,
             waits : SUBSET S, server : {0} \union S]

-----------------------------------------------------------------------------
(* Sequences.                                                              *)

LEMMA Sequence ==
  ASSUME NEW S, NEW n \in Nat, NEW f \in [1 .. n -> S]
  PROVE  f \in Seq(S) /\ Len(f) = n
<1>1. f \in Seq(S)
  BY SeqDef
<1>2. Len(f) \in Nat /\ DOMAIN f = 1 .. Len(f)
  BY <1>1, LenProperties
<1> QED
  BY <1>1, <1>2

LEMMA Numbers ==
  ASSUME servers \in Seq(AServer), tasks \in Seq(ATask(Servers))
  PROVE  /\ Len(servers) \in Nat /\ Servers = 1 .. Len(servers)
         /\ Len(tasks) \in Nat /\ Tasks = 1 .. Len(tasks)
         /\ \A s \in Servers : servers[s] \in AServer
         /\ \A t \in Tasks : tasks[t] \in ATask(Servers)
BY LenProperties DEF Servers, Tasks

\* What TypeOK says of the process.
ProcessTyped ==
  /\ managed \in BOOLEAN
  /\ boot \in {"connecting", "sending", "reading", "read", "starting"}
  /\ servers \in Seq(AServer)
  /\ held \in [Apis -> {0} \union Servers]
  /\ \A a \in Apis : held[a] # 0 =>
       servers[held[a]].api = a /\ servers[held[a]].phase # "registering"
  /\ tasks \in Seq(ATask(Servers))
  /\ \A t \in Tasks : tasks[t].at \in Apis =>
       /\ tasks[t].server # 0
       /\ servers[tasks[t].server].api = tasks[t].at
       /\ servers[tasks[t].server].phase = "registering"
  /\ closing \subseteq Servers
  /\ exit \in {"no", "clean", "failed", "message", "early", "overlap", "unhandled"}
  /\ drops \in 0 .. MaxDrops
  /\ hurried \in BOOLEAN

LEMMA TypeParts == TypeOK <=> AgentTypeOK /\ ProcessTyped
BY DEF TypeOK, ProcessTyped, AServer, ATask

-----------------------------------------------------------------------------
(* The updates of the servers and the tasks.                               *)

\* Server s goes on with another phase and client.
Changed(s, phase, client) ==
  /\ Servers' = Servers
  /\ servers' \in Seq(AServer)
  /\ \A u \in Servers \ {s} : servers'[u] = servers[u]
  /\ servers'[s].api = servers[s].api
  /\ servers'[s].conf = servers[s].conf
  /\ servers'[s].phase = phase
  /\ servers'[s].client = client

LEMMA OneChanged ==
  ASSUME servers \in Seq(AServer), NEW s \in Servers, NEW e \in AServer,
         NEW ss, ss = [servers EXCEPT ![s] = e]
  PROVE  /\ ss \in Seq(AServer) /\ Len(ss) = Len(servers) /\ DOMAIN ss = Servers
         /\ \A u \in Servers \ {s} : ss[u] = servers[u]
         /\ ss[s] = e
<1>1. s \in 1 .. Len(servers) /\ Servers = 1 .. Len(servers)
  BY LenProperties DEF Servers
<1> QED
  BY <1>1, ExceptSeq, LenProperties

LEMMA StoppedServer ==
  ASSUME servers \in Seq(AServer), NEW s \in Servers
  PROVE  LET ss == Stopped(s)
         IN  /\ ss \in Seq(AServer) /\ Len(ss) = Len(servers) /\ DOMAIN ss = Servers
             /\ \A u \in Servers \ {s} : ss[u] = servers[u]
             /\ ss[s].api = servers[s].api /\ ss[s].conf = servers[s].conf
             /\ ss[s].phase = "stopped" /\ ss[s].client = Disconnected(servers[s].client)
<1> DEFINE e == [servers[s] EXCEPT !.phase = "stopped", !.client = Disconnected(servers[s].client)]
<1>1. servers[s] \in AServer
  BY LenProperties DEF Servers
<1>2. e \in AServer
  BY <1>1 DEF AServer, Phases, Clients, Disconnected
<1>3. Stopped(s) = [servers EXCEPT ![s] = e]
  BY <1>1 DEF Stopped, AServer
<1>4. /\ e.api = servers[s].api /\ e.conf = servers[s].conf
      /\ e.phase = "stopped" /\ e.client = Disconnected(servers[s].client)
  BY <1>1 DEF AServer
<1> HIDE DEF e
<1> QED
  BY <1>2, <1>3, <1>4, OneChanged

LEMMA StartedServer ==
  ASSUME servers \in Seq(AServer), NEW s \in Servers
  PROVE  LET ss == [servers EXCEPT ![s].phase = "started"]
         IN  /\ ss \in Seq(AServer) /\ Len(ss) = Len(servers) /\ DOMAIN ss = Servers
             /\ \A u \in Servers \ {s} : ss[u] = servers[u]
             /\ ss[s].api = servers[s].api /\ ss[s].conf = servers[s].conf
             /\ ss[s].phase = "started" /\ ss[s].client = servers[s].client
<1> DEFINE e == [servers[s] EXCEPT !.phase = "started"]
<1>1. servers[s] \in AServer
  BY LenProperties DEF Servers
<1>2. e \in AServer
  BY <1>1 DEF AServer, Phases
<1>3. [servers EXCEPT ![s].phase = "started"] = [servers EXCEPT ![s] = e]
  OBVIOUS
<1>4. /\ e.api = servers[s].api /\ e.conf = servers[s].conf
      /\ e.phase = "started" /\ e.client = servers[s].client
  BY <1>1 DEF AServer
<1> HIDE DEF e
<1> QED
  BY <1>2, <1>3, <1>4, OneChanged

LEMMA ClientChanged ==
  ASSUME servers \in Seq(AServer), NEW s \in Servers, NEW c \in Clients,
         servers' = [servers EXCEPT ![s].client = c]
  PROVE  Changed(s, servers[s].phase, c)
<1> DEFINE e == [servers[s] EXCEPT !.client = c]
<1>1. servers[s] \in AServer
  BY LenProperties DEF Servers
<1>2. e \in AServer
  BY <1>1 DEF AServer
<1>3. servers' = [servers EXCEPT ![s] = e]
  OBVIOUS
<1>4. /\ e.api = servers[s].api /\ e.conf = servers[s].conf
      /\ e.phase = servers[s].phase /\ e.client = c
  BY <1>1 DEF AServer
<1> HIDE DEF e
<1> QED
  BY <1>2, <1>3, <1>4, OneChanged DEF Changed, Servers

LEMMA BothStopping ==
  ASSUME servers \in Seq(AServer), servers' = StoppingBoth
  PROVE  /\ servers' \in Seq(AServer) /\ Servers' = Servers
         /\ \A s \in Servers :
              /\ servers'[s].api = servers[s].api
              /\ servers'[s].conf = servers[s].conf
              /\ servers'[s].client = servers[s].client
              /\ servers'[s].phase = IF s \in Held THEN "stopping" ELSE servers[s].phase
<1>1. Len(servers) \in Nat /\ Servers = 1 .. Len(servers) /\ \A s \in Servers : servers[s] \in AServer
  BY LenProperties DEF Servers
<1>2. \A s \in Servers : [servers[s] EXCEPT !.phase = "stopping"] \in AServer
  BY <1>1 DEF AServer, Phases
<1>3. servers' \in [1 .. Len(servers) -> AServer]
  BY <1>1, <1>2 DEF StoppingBoth
<1>4. servers' \in Seq(AServer) /\ Servers' = Servers
  BY <1>1, <1>3, Sequence, LenProperties DEF Servers
<1>5. ASSUME NEW s \in Servers
      PROVE  /\ servers'[s].api = servers[s].api
             /\ servers'[s].conf = servers[s].conf
             /\ servers'[s].client = servers[s].client
             /\ servers'[s].phase = IF s \in Held THEN "stopping" ELSE servers[s].phase
  BY <1>1 DEF StoppingBoth, AServer
<1> QED
  BY <1>4, <1>5

\* Task t starts a server: the last one.
Started(t, a, ss) ==
  LET new == Len(servers) + 1
  IN  /\ Servers' = Servers \union {new} /\ new \notin Servers
      /\ servers' \in Seq(AServer)
      /\ \A u \in Servers : servers'[u] = ss[u]
      /\ servers'[new].api = a
      /\ servers'[new].conf = tasks[t].conf
      /\ servers'[new].phase = "registering"
      /\ servers'[new].client = "connecting"
      /\ Tasks' = Tasks
      /\ tasks' \in Seq(ATask(Servers'))
      /\ \A u \in Tasks \ {t} : tasks'[u] = tasks[u]
      /\ tasks'[t].conf = tasks[t].conf
      /\ tasks'[t].at = a
      /\ tasks'[t].waits = {}
      /\ tasks'[t].server = new

\* A task goes on.
LEMMA OneTask ==
  ASSUME tasks \in Seq(ATask(Servers)), Servers \subseteq Servers', NEW t \in Tasks,
         NEW e, e \in ATask(Servers'),
         tasks' = [tasks EXCEPT ![t] = e]
  PROVE  /\ tasks' \in Seq(ATask(Servers')) /\ Tasks' = Tasks /\ Len(tasks)' = Len(tasks)
         /\ \A u \in Tasks \ {t} : tasks'[u] = tasks[u]
         /\ tasks'[t] = e
<1>1. ATask(Servers) \subseteq ATask(Servers')
  BY DEF ATask
<1>2. tasks \in Seq(ATask(Servers'))
  BY <1>1, SeqMonotonic
<1>3. t \in 1 .. Len(tasks) /\ Tasks = 1 .. Len(tasks)
  BY LenProperties DEF Tasks
<1>4. /\ tasks' \in Seq(ATask(Servers')) /\ Len(tasks') = Len(tasks)
      /\ \A u \in 1 .. Len(tasks) : tasks'[u] = IF u = t THEN e ELSE tasks[u]
  BY <1>2, <1>3, ExceptSeq
<1>5. Tasks' = 1 .. Len(tasks')
  BY <1>4, LenProperties DEF Tasks
<1> QED
  BY <1>3, <1>4, <1>5

LEMMA ServerStarted ==
  ASSUME servers \in Seq(AServer), tasks \in Seq(ATask(Servers)),
         NEW t \in Tasks, NEW a \in Apis,
         NEW ss \in Seq(AServer), Len(ss) = Len(servers), StartServer(t, a, ss)
  PROVE  Started(t, a, ss) /\ Len(tasks)' = Len(tasks)
<1> DEFINE new == Len(servers) + 1
           s == NewServer(a, tasks[t].conf)
           e == [tasks[t] EXCEPT !.at = a, !.waits = {}, !.server = new]
<1>1. tasks[t] \in ATask(Servers) /\ Len(servers) \in Nat /\ Servers = 1 .. Len(servers)
  BY Numbers
<1>2. /\ s \in AServer /\ s.api = a /\ s.conf = tasks[t].conf
      /\ s.phase = "registering" /\ s.client = "connecting"
  BY <1>1 DEF NewServer, AServer, ATask, Phases, Clients
<1> HIDE DEF s
<1>3. /\ servers' \in Seq(AServer) /\ Len(servers') = new
      /\ \A u \in 1 .. Len(servers) : servers'[u] = ss[u]
      /\ servers'[new] = s
  BY <1>2, AppendProperties DEF StartServer, s
<1>4. Servers' = 1 .. new
  BY <1>3, LenProperties DEF Servers
<1>5. Servers' = Servers \union {new} /\ new \notin Servers
  BY <1>1, <1>4
<1>6. /\ e \in ATask(Servers') /\ e.conf = tasks[t].conf /\ e.at = a
      /\ e.waits = {} /\ e.server = new
  BY <1>1, <1>5 DEF ATask
<1>7. tasks' = [tasks EXCEPT ![t] = e]
  BY DEF StartServer
<1> HIDE DEF e
<1>8. /\ tasks' \in Seq(ATask(Servers')) /\ Tasks' = Tasks /\ Len(tasks)' = Len(tasks)
      /\ \A u \in Tasks \ {t} : tasks'[u] = tasks[u]
      /\ tasks'[t] = e
  BY <1>5, <1>6, <1>7, OneTask
<1> QED
  BY <1>1, <1>2, <1>3, <1>5, <1>6, <1>8 DEF Started

\* A restart begins: the last task.
LEMMA TaskAdded ==
  ASSUME servers \in Seq(AServer), tasks \in Seq(ATask(Servers)), Servers' = Servers,
         NEW conf \in Configuration, NEW S \in SUBSET Servers,
         tasks' = Append(tasks, [conf |-> conf, at |-> "stopping", waits |-> S, server |-> 0])
  PROVE  LET new == Len(tasks) + 1
         IN  /\ tasks' \in Seq(ATask(Servers')) /\ Len(tasks)' = new
             /\ Tasks' = Tasks \union {new} /\ new \notin Tasks
             /\ \A t \in Tasks : tasks'[t] = tasks[t]
             /\ tasks'[new].conf = conf
             /\ tasks'[new].at = "stopping"
             /\ tasks'[new].waits = S
<1> DEFINE new == Len(tasks) + 1
           e == [conf |-> conf, at |-> "stopping", waits |-> S, server |-> 0]
<1>1. Len(tasks) \in Nat /\ Tasks = 1 .. Len(tasks)
  BY Numbers
<1>2. e \in ATask(Servers) /\ e.conf = conf /\ e.at = "stopping" /\ e.waits = S
  BY DEF ATask
<1>3. tasks' = Append(tasks, e)
  OBVIOUS
<1> HIDE DEF e
<1>4. /\ tasks' \in Seq(ATask(Servers)) /\ Len(tasks') = new
      /\ \A u \in 1 .. Len(tasks) : tasks'[u] = tasks[u]
      /\ tasks'[new] = e
  BY <1>2, <1>3, AppendProperties
<1>5. Tasks' = 1 .. new
  BY <1>4, LenProperties DEF Tasks
<1> QED
  BY <1>1, <1>2, <1>4, <1>5

\* What StopDone does to the tasks, and what Listen does.
LEMMA TaskWaits ==
  ASSUME servers \in Seq(AServer), tasks \in Seq(ATask(Servers)), Servers' = Servers,
         NEW t \in Tasks, NEW s,
         tasks' = [tasks EXCEPT ![t].waits = @ \ {s}]
  PROVE  /\ tasks' \in Seq(ATask(Servers')) /\ Tasks' = Tasks /\ Len(tasks)' = Len(tasks)
         /\ \A u \in Tasks \ {t} : tasks'[u] = tasks[u]
         /\ tasks'[t].conf = tasks[t].conf /\ tasks'[t].at = tasks[t].at
         /\ tasks'[t].waits = tasks[t].waits \ {s} /\ tasks'[t].server = tasks[t].server
<1> DEFINE e == [tasks[t] EXCEPT !.waits = @ \ {s}]
<1>1. tasks[t] \in ATask(Servers)
  BY Numbers
<1>2. /\ e \in ATask(Servers) /\ e.conf = tasks[t].conf /\ e.at = tasks[t].at
      /\ e.waits = tasks[t].waits \ {s} /\ e.server = tasks[t].server
  BY <1>1 DEF ATask
<1>3. tasks' = [tasks EXCEPT ![t] = e]
  OBVIOUS
<1> HIDE DEF e
<1> QED
  BY <1>2, <1>3, OneTask

LEMMA TaskDone ==
  ASSUME servers \in Seq(AServer), tasks \in Seq(ATask(Servers)), Servers' = Servers,
         NEW t \in Tasks,
         tasks' = [tasks EXCEPT ![t].at = "done", ![t].server = 0]
  PROVE  /\ tasks' \in Seq(ATask(Servers')) /\ Tasks' = Tasks /\ Len(tasks)' = Len(tasks)
         /\ \A u \in Tasks \ {t} : tasks'[u] = tasks[u]
         /\ tasks'[t].conf = tasks[t].conf /\ tasks'[t].at = "done"
         /\ tasks'[t].waits = tasks[t].waits
<1> DEFINE e == [tasks[t] EXCEPT !.at = "done", !.server = 0]
<1>1. tasks[t] \in ATask(Servers)
  BY Numbers
<1>2. /\ e \in ATask(Servers) /\ e.conf = tasks[t].conf /\ e.at = "done"
      /\ e.waits = tasks[t].waits
  BY <1>1 DEF ATask
<1>3. tasks' = [tasks EXCEPT ![t] = e]
  OBVIOUS
<1> HIDE DEF e
<1> QED
  BY <1>2, <1>3, OneTask

-----------------------------------------------------------------------------
(* The servers and the tasks, whatever overlaps.                           *)

Process ==
  /\ ProcessTyped
  /\ StartsSound
  /\ StopsSound
  /\ NoOrphan
  /\ NewestServes
  /\ UnclosedWereLost

\* What TypeOK gives of one server or task.
LEMMA Members ==
  ASSUME ProcessTyped
  PROVE  /\ Len(servers) \in Nat /\ Servers = 1 .. Len(servers)
         /\ Len(tasks) \in Nat /\ Tasks = 1 .. Len(tasks)
         /\ \A s \in Servers : servers[s] \in AServer
         /\ \A t \in Tasks : tasks[t] \in ATask(Servers)
         /\ \A a \in Apis : held[a] \in {0} \union Servers
         /\ \A t \in Tasks : tasks[t].at \in Apis => tasks[t].server \in Servers
         /\ tasks # <<>> => Len(tasks) \in Tasks
<1>1. /\ Len(servers) \in Nat /\ Servers = 1 .. Len(servers)
      /\ Len(tasks) \in Nat /\ Tasks = 1 .. Len(tasks)
      /\ \A s \in Servers : servers[s] \in AServer
      /\ \A t \in Tasks : tasks[t] \in ATask(Servers)
  BY Numbers DEF ProcessTyped
<1>2. \A t \in Tasks : tasks[t].at \in Apis => tasks[t].server \in Servers
  BY <1>1 DEF ProcessTyped, ATask
<1>3. tasks # <<>> => Len(tasks) \in Tasks
  BY <1>1, EmptySeq DEF ProcessTyped
<1> QED
  BY <1>1, <1>2, <1>3 DEF ProcessTyped

\* Server tasks[t].server is the one task t starts.
Starting(t) ==
  /\ tasks[t].server \in Servers
  /\ servers[tasks[t].server].api = tasks[t].at
  /\ servers[tasks[t].server].conf = tasks[t].conf
  /\ servers[tasks[t].server].phase = "registering"

LEMMA TasksStart ==
  ASSUME Process, NEW t \in Tasks, tasks[t].at \in Apis
  PROVE  Starting(t)
BY Members DEF Process, ProcessTyped, StartsSound, Starting

LEMMA UnclosedIsFinite ==
  ASSUME servers \in Seq(AServer)
  PROVE  IsFiniteSet(Unclosed)
<1>1. IsFiniteSet(1 .. Len(servers))
  BY LenProperties, FS_Interval
<1>2. Unclosed \subseteq 1 .. Len(servers)
  BY LenProperties DEF Unclosed, Servers
<1> QED
  BY <1>1, <1>2, FS_Subset

\* No connection is left open that was not lost before.
LEMMA UnclosedShrinks ==
  ASSUME UnclosedWereLost, servers \in Seq(AServer), drops \in Nat,
         Unclosed' \subseteq Unclosed, drops' = drops
  PROVE  UnclosedWereLost'
<1>1. IsFiniteSet(Unclosed)
  BY UnclosedIsFinite
<1>2. Cardinality(Unclosed') <= Cardinality(Unclosed) /\ Cardinality(Unclosed) \in Nat /\ Cardinality(Unclosed') \in Nat
  BY <1>1, FS_Subset, FS_CardinalityType
<1> QED
  BY <1>2 DEF UnclosedWereLost

LEMMA UnclosedGrows ==
  ASSUME UnclosedWereLost, servers \in Seq(AServer), drops \in Nat,
         NEW s, Unclosed' \subseteq Unclosed \union {s}, drops' = drops + 1
  PROVE  UnclosedWereLost'
<1>1. IsFiniteSet(Unclosed)
  BY UnclosedIsFinite
<1>2. /\ IsFiniteSet(Unclosed \union {s})
      /\ Cardinality(Unclosed) \in Nat
      /\ Cardinality(Unclosed \union {s}) <= Cardinality(Unclosed) + 1
  <2> DEFINE U == Unclosed
  <2>1. /\ IsFiniteSet(U \union {s})
        /\ Cardinality(U \union {s}) = IF s \in U THEN Cardinality(U) ELSE Cardinality(U) + 1
    <3> HIDE DEF U
    <3> QED
      BY <1>1, FS_AddElement DEF U
  <2>2. Cardinality(U) \in Nat
    BY <1>1, FS_CardinalityType
  <2> HIDE DEF U
  <2>3. Cardinality(U \union {s}) <= Cardinality(U) + 1
    BY <2>1, <2>2
  <2> QED
    BY <2>1, <2>2, <2>3 DEF U
<1>3. Cardinality(Unclosed') <= Cardinality(Unclosed \union {s})
  BY <1>2, FS_Subset
<1>4. Cardinality(Unclosed') \in Nat /\ Cardinality(Unclosed \union {s}) \in Nat
  BY <1>2, FS_Subset, FS_CardinalityType
<1> QED
  BY <1>2, <1>3, <1>4 DEF UnclosedWereLost

LEMMA QuietProcess ==
  ASSUME Process, UNCHANGED <<managed, servers, held, tasks, closing, exit, drops>>,
         boot' \in {"connecting", "sending", "reading", "read", "starting"}, hurried' \in BOOLEAN
  PROVE  Process'
<1>1. ProcessTyped'
  BY DEF Process, ProcessTyped, Servers, Tasks
<1>2. StartsSound' /\ StopsSound'
  BY DEF Process, StartsSound, StopsSound, Servers, Tasks
<1>3. NoOrphan' /\ NewestServes'
  BY DEF Process, NoOrphan, NewestServes, Newest, Serves, Servers, Tasks
<1>4. UnclosedWereLost'
  BY DEF Process, UnclosedWereLost, Unclosed, Servers
<1> QED
  BY <1>1, <1>2, <1>3, <1>4 DEF Process

LEMMA DiesProcess ==
  ASSUME Process, NEW why \in {"failed", "message", "early", "overlap", "unhandled"}, Dies(why),
         hurried' \in BOOLEAN
  PROVE  Process'
<1>1. servers' = <<>> /\ tasks' = <<>> /\ Servers' = {} /\ Tasks' = {}
  BY EmptySeq, LenProperties DEF Dies, Servers, Tasks
<1>2. ProcessTyped'
  <2>1. servers' \in Seq(AServer) /\ tasks' \in Seq(ATask(Servers'))
    BY <1>1, EmptySeq
  <2> QED
    BY <1>1, <2>1 DEF Dies, Process, ProcessTyped
<1>3. StartsSound' /\ StopsSound' /\ NoOrphan' /\ NewestServes'
  BY <1>1 DEF StartsSound, StopsSound, NoOrphan, NewestServes
<1>4. UnclosedWereLost'
  <2>1. Unclosed' = {}
    BY <1>1 DEF Unclosed
  <2> QED
    BY <2>1, FS_EmptySet DEF UnclosedWereLost, Dies, Process, ProcessTyped
<1> QED
  BY <1>2, <1>3, <1>4 DEF Process

\* A connection of a server.
LEMMA ClientProcess ==
  ASSUME Process, NEW s \in Servers, NEW c \in Clients, ClientBecomes(s, c),
         c = "retrying" => servers[s].client = "connecting",
         c # "connecting",
         \/ servers[s].client \in {"connecting", "retrying", "down"} /\ c # "down" /\ drops' = drops
         \/ drops' = drops + 1 /\ drops < MaxDrops
  PROVE  Process'
<1>1. Changed(s, servers[s].phase, c)
  BY ClientChanged DEF ClientBecomes, Process, ProcessTyped
<1>2. /\ UNCHANGED <<managed, boot, held, tasks, closing, exit, hurried>>
      /\ Servers' = Servers /\ Tasks' = Tasks
  BY <1>1 DEF ClientBecomes, Changed, Tasks
<1>3. \A u \in Servers : /\ servers'[u].api = servers[u].api
                         /\ servers'[u].conf = servers[u].conf
                         /\ servers'[u].phase = servers[u].phase
                         /\ u # s => servers'[u].client = servers[u].client
  BY <1>1 DEF Changed
<1>4. ProcessTyped'
  <2>1. drops' \in 0 .. MaxDrops
    BY DEF Process, ProcessTyped
  <2>2. \A a \in Apis : held[a] # 0 => held[a] \in Servers
    BY Members DEF Process
  <2>3. \A t \in Tasks : tasks[t].at \in Apis => tasks[t].server \in Servers
    BY Members DEF Process
  <2> QED
    BY <1>1, <1>2, <1>3, <2>1, <2>2, <2>3 DEF Process, ProcessTyped, Changed
<1>5. StartsSound'
  <2>1. \A t \in Tasks : tasks[t].at \in Apis => tasks[t].server \in Servers
    BY Members DEF Process
  <2>2. servers'[s].client = c
    BY <1>1 DEF Changed
  <2> QED
    BY <1>2, <1>3, <2>1, <2>2 DEF Process, StartsSound
<1>6. StopsSound'
  <2>1. \A t \in Tasks : tasks[t].waits \subseteq Servers
    BY Members DEF Process, ATask
  <2> QED
    BY <1>2, <1>3, <2>1 DEF Process, StopsSound
<1>7. NoOrphan' /\ NewestServes'
  BY <1>2, <1>3 DEF Process, NoOrphan, NewestServes, Newest, Serves
<1>8. UnclosedWereLost'
  <2>1. drops \in Nat /\ servers \in Seq(AServer)
    BY DEF Process, ProcessTyped
  <2>2. Unclosed' \subseteq Unclosed \union {s}
    BY <1>2, <1>3 DEF Unclosed
  <2>3. CASE drops' = drops + 1
    BY <2>1, <2>2, <2>3, UnclosedGrows DEF Process
  <2>4. CASE servers[s].client \in {"connecting", "retrying", "down"} /\ c # "down" /\ drops' = drops
    <3>1. s \in Unclosed' => servers[s].phase = "stopped"
      BY <1>1, <1>2, <2>4 DEF Unclosed, Changed
    <3>2. s \in Unclosed' => s \in Unclosed
      BY <2>4, <3>1 DEF Unclosed, Process, StartsSound
    <3> QED
      BY <2>1, <2>2, <2>4, <3>2, UnclosedShrinks DEF Process
  <2> QED
    BY <2>3, <2>4
<1> QED
  BY <1>4, <1>5, <1>6, <1>7, <1>8 DEF Process

\* Both servers are stopping: what holds of the servers then.
LEMMA StoppingServers ==
  ASSUME Process, StopFails = "no", servers' = StoppingBoth, drops' = drops
  PROVE  /\ Servers' = Servers /\ servers' \in Seq(AServer)
         /\ Held \subseteq Servers
         /\ \A s \in Held : servers[s].phase \notin {"registering", "stopping"}
         /\ \A s \in Servers : servers'[s].phase # "started"
         /\ UnclosedWereLost'
<1>1. /\ servers' \in Seq(AServer) /\ Servers' = Servers
      /\ \A s \in Servers :
           /\ servers'[s].client = servers[s].client
           /\ servers'[s].phase = IF s \in Held THEN "stopping" ELSE servers[s].phase
  BY BothStopping DEF Process, ProcessTyped
<1>2. Held \subseteq Servers
  BY Members DEF Process, Held, StopFails
<1>3. \A s \in Held : servers[s].phase \notin {"registering", "stopping"}
  BY <1>2, Members DEF Process, ProcessTyped, Held, StopFails
<1>4. ASSUME NEW s \in Servers PROVE servers'[s].phase # "started"
  <2>1. servers[s].phase = "started" => s \in Held
    BY Members DEF Process, NoOrphan, Held, AServer
  <2> QED
    BY <1>1, <2>1
<1>5. UnclosedWereLost'
  <2>1. Unclosed' \subseteq Unclosed
    BY <1>1 DEF Unclosed
  <2> QED
    BY <2>1, UnclosedShrinks DEF Process, ProcessTyped
<1> QED
  BY <1>1, <1>2, <1>3, <1>4, <1>5

LEMMA RestartProcess ==
  ASSUME Process, NEW conf \in Configuration, Restart(conf), boot' = boot,
         UNCHANGED <<managed, held, closing, exit, drops, hurried>>
  PROVE  Process'
<1> DEFINE new == Len(tasks) + 1
<1>1. /\ Servers' = Servers /\ servers' \in Seq(AServer)
      /\ Held \subseteq Servers
      /\ \A s \in Held : servers[s].phase \notin {"registering", "stopping"}
      /\ \A s \in Servers : servers'[s].phase # "started"
      /\ UnclosedWereLost'
  BY StoppingServers DEF Restart
<1>2. \A s \in Servers :
        /\ servers'[s].api = servers[s].api
        /\ servers'[s].conf = servers[s].conf
        /\ servers'[s].client = servers[s].client
        /\ servers'[s].phase = IF s \in Held THEN "stopping" ELSE servers[s].phase
  BY BothStopping DEF Process, ProcessTyped, Restart
<1>3. /\ tasks' \in Seq(ATask(Servers')) /\ Len(tasks)' = new
      /\ Tasks' = Tasks \union {new} /\ new \notin Tasks
      /\ \A t \in Tasks : tasks'[t] = tasks[t]
      /\ tasks'[new].conf = conf /\ tasks'[new].at = "stopping" /\ tasks'[new].waits = Held
  BY <1>1, TaskAdded DEF Process, ProcessTyped, Restart
<1>4. \A t \in Tasks : tasks[t].at \in Apis => /\ tasks[t].server \in Servers \ Held
                                               /\ servers'[tasks[t].server].phase = "registering"
  BY <1>1, <1>2, Members DEF Process, ProcessTyped
<1>5. ProcessTyped'
  <2>1. \A a \in Apis : held[a] # 0 => held[a] \in Servers
    BY Members DEF Process
  <2>2. \A a \in Apis : held[a] # 0 => servers'[held[a]].api = a /\ servers'[held[a]].phase # "registering"
    BY <1>2, <2>1 DEF Process, ProcessTyped
  <2>3. ASSUME NEW t \in Tasks', tasks'[t].at \in Apis
        PROVE  /\ tasks'[t].server # 0
               /\ servers'[tasks'[t].server].api = tasks'[t].at
               /\ servers'[tasks'[t].server].phase = "registering"
    <3>1. t \in Tasks /\ tasks'[t] = tasks[t]
      BY <1>3, <2>3 DEF Apis
    <3> QED
      BY <1>2, <1>4, <2>3, <3>1 DEF Process, ProcessTyped
  <2> QED
    BY <1>1, <1>3, <2>2, <2>3 DEF Process, ProcessTyped
<1>6. StartsSound'
  <2>1. \A s \in Servers' :
          servers'[s].client \in {"connecting", "retrying"} => servers'[s].phase = "registering"
    BY <1>1, <1>2 DEF Process, StartsSound
  <2>2. \A t \in Tasks' : tasks'[t].at \in Apis => t \in Tasks /\ tasks'[t] = tasks[t]
    BY <1>3 DEF Apis
  <2> QED
    BY <1>2, <1>4, <2>1, <2>2 DEF Process, StartsSound
<1>7. StopsSound'
  <2>1. \A t \in Tasks : \A s \in tasks[t].waits :
          s \in Servers /\ s \notin Held /\ servers'[s].phase = "stopping"
    BY <1>1, <1>2, Members DEF Process, StopsSound, ATask
  <2>2. \A s \in Held : servers'[s].phase = "stopping"
    BY <1>1, <1>2
  <2>3. \A t \in Tasks' : tasks'[t].at # "stopping" => tasks'[t].waits = {}
    BY <1>3 DEF Process, StopsSound
  <2>4. \A t \in Tasks' : \A s \in tasks'[t].waits : servers'[s].phase = "stopping"
    BY <1>3, <2>1, <2>2
  <2>5. ASSUME NEW t \in Tasks', NEW u \in Tasks', t # u
        PROVE  tasks'[t].waits \cap tasks'[u].waits = {}
    <3>1. CASE t \in Tasks /\ u \in Tasks
      BY <1>3, <2>5, <3>1 DEF Process, StopsSound
    <3>2. CASE t = new \/ u = new
      BY <1>3, <2>1, <2>5, <3>2
    <3> QED
      BY <1>3, <3>1, <3>2
  <2> QED
    BY <2>3, <2>4, <2>5 DEF StopsSound
<1>8. NoOrphan'
  BY <1>1 DEF NoOrphan
<1>9. NewestServes'
  BY <1>3 DEF NewestServes, Newest
<1> QED
  BY <1>1, <1>5, <1>6, <1>7, <1>8, <1>9 DEF Process

LEMMA SigtermProcess ==
  ASSUME Process, Sigterm
  PROVE  Process'
<1>1. /\ Servers' = Servers /\ servers' \in Seq(AServer)
      /\ Held \subseteq Servers
      /\ \A s \in Held : servers[s].phase \notin {"registering", "stopping"}
      /\ \A s \in Servers : servers'[s].phase # "started"
      /\ UnclosedWereLost'
  BY StoppingServers DEF Sigterm
<1>2. \A s \in Servers :
        /\ servers'[s].api = servers[s].api
        /\ servers'[s].conf = servers[s].conf
        /\ servers'[s].client = servers[s].client
        /\ servers'[s].phase = IF s \in Held THEN "stopping" ELSE servers[s].phase
  BY BothStopping DEF Process, ProcessTyped, Sigterm
<1>3. UNCHANGED <<managed, boot, held, tasks, exit, drops>> /\ closing' = Held /\ Tasks' = Tasks
  BY DEF Sigterm, Tasks
<1>4. \A t \in Tasks : tasks[t].at \in Apis => /\ tasks[t].server \in Servers \ Held
                                               /\ servers'[tasks[t].server].phase = "registering"
  BY <1>1, <1>2, Members DEF Process, ProcessTyped
<1>5. ProcessTyped'
  <2>1. \A a \in Apis : held[a] # 0 => held[a] \in Servers
    BY Members DEF Process
  <2>2. \A a \in Apis : held[a] # 0 => servers'[held[a]].api = a /\ servers'[held[a]].phase # "registering"
    BY <1>2, <2>1 DEF Process, ProcessTyped
  <2>3. hurried' \in BOOLEAN
    BY DEF Sigterm, TermSignal, Process, ProcessTyped
  <2> QED
    BY <1>1, <1>2, <1>3, <1>4, <2>2, <2>3 DEF Process, ProcessTyped
<1>6. StartsSound'
  BY <1>1, <1>2, <1>3, <1>4 DEF Process, StartsSound
<1>7. StopsSound'
  <2>1. \A t \in Tasks : \A s \in tasks[t].waits : s \in Servers /\ servers'[s].phase = "stopping"
    BY <1>1, <1>2, Members DEF Process, StopsSound, ATask
  <2> QED
    BY <1>3, <2>1 DEF Process, StopsSound
<1>8. NoOrphan'
  BY <1>1 DEF NoOrphan
<1>9. NewestServes'
  <2>1. Held # {}
    BY DEF Held, Apis
  <2> QED
    BY <1>3, <2>1 DEF NewestServes
<1> QED
  BY <1>1, <1>5, <1>6, <1>7, <1>8, <1>9 DEF Process

\* A server has stopped.
LEMMA StoppedStays ==
  ASSUME Process, NEW s \in Servers, servers[s].phase = "stopping", NEW ss, ss = Stopped(s)
  PROVE  /\ ss \in Seq(AServer) /\ Len(ss) = Len(servers) /\ DOMAIN ss = Servers
         /\ \A u \in Servers :
              /\ ss[u].api = servers[u].api /\ ss[u].conf = servers[u].conf
              /\ u # s => ss[u].phase = servers[u].phase /\ ss[u].client = servers[u].client
         /\ ss[s].phase = "stopped"
         /\ ss[s].client = "closed" \/ (ss[s].client = "down" /\ servers[s].client = "down")
         /\ \A t \in Tasks : tasks[t].at \in Apis => tasks[t].server \in Servers \ {s} /\ Starting(t)
         /\ \A t \in Tasks : tasks[t].waits \subseteq Servers
<1>1. /\ ss \in Seq(AServer) /\ Len(ss) = Len(servers) /\ DOMAIN ss = Servers
      /\ \A u \in Servers \ {s} : ss[u] = servers[u]
      /\ ss[s].api = servers[s].api /\ ss[s].conf = servers[s].conf
      /\ ss[s].phase = "stopped" /\ ss[s].client = Disconnected(servers[s].client)
  BY StoppedServer DEF Process, ProcessTyped
<1>2. servers[s].client \in {"up", "down", "closed"}
  BY Members DEF Process, StartsSound, AServer, Clients
<1>3. ss[s].client = "closed" \/ (ss[s].client = "down" /\ servers[s].client = "down")
  BY <1>1, <1>2 DEF Disconnected
<1>4. \A t \in Tasks : tasks[t].at \in Apis => tasks[t].server \in Servers \ {s} /\ Starting(t)
  BY TasksStart, Members DEF Starting, Process
<1>5. \A t \in Tasks : tasks[t].waits \subseteq Servers
  BY Members DEF Process, ATask
<1> QED
  BY <1>1, <1>3, <1>4, <1>5

\* The restart that waited for it goes on.
LEMMA StopGoesOn ==
  ASSUME Process, exit = "no", NEW s \in Servers, servers[s].phase = "stopping",
         NEW t \in Tasks, tasks[t].waits = {s}, StartServer(t, "inbound", Stopped(s)),
         closing' = closing \ {s}, exit' \in {exit, "clean"}, closing = {s} => exit' = "clean",
         UNCHANGED <<managed, boot, held, drops, hurried>>
  PROVE  Process'
<1> DEFINE ss == Stopped(s)
           new == Len(servers) + 1
<1>1. /\ ss \in Seq(AServer) /\ Len(ss) = Len(servers)
      /\ \A u \in Servers :
           /\ ss[u].api = servers[u].api /\ ss[u].conf = servers[u].conf
           /\ u # s => ss[u].phase = servers[u].phase /\ ss[u].client = servers[u].client
      /\ ss[s].phase = "stopped"
      /\ ss[s].client = "closed" \/ (ss[s].client = "down" /\ servers[s].client = "down")
      /\ \A u \in Tasks : tasks[u].at \in Apis => tasks[u].server \in Servers \ {s} /\ Starting(u)
      /\ \A u \in Tasks : tasks[u].waits \subseteq Servers
  BY StoppedStays
<1> HIDE DEF ss
<1>2. Started(t, "inbound", ss) /\ Len(tasks)' = Len(tasks)
  BY <1>1, ServerStarted DEF Process, ProcessTyped, Apis, ss
<1>3. /\ Servers' = Servers \union {new} /\ new \notin Servers
      /\ servers' \in Seq(AServer)
      /\ \A u \in Servers :
           /\ servers'[u].api = servers[u].api /\ servers'[u].conf = servers[u].conf
           /\ u # s => servers'[u].phase = servers[u].phase /\ servers'[u].client = servers[u].client
      /\ servers'[s].phase = "stopped"
      /\ servers'[s].client = "closed" \/ (servers'[s].client = "down" /\ servers[s].client = "down")
      /\ servers'[new].api = "inbound" /\ servers'[new].conf = tasks[t].conf
      /\ servers'[new].phase = "registering" /\ servers'[new].client = "connecting"
  BY <1>1, <1>2 DEF Started
<1>4. /\ Tasks' = Tasks /\ tasks' \in Seq(ATask(Servers'))
      /\ \A u \in Tasks \ {t} : tasks'[u] = tasks[u]
      /\ tasks'[t].conf = tasks[t].conf /\ tasks'[t].at = "inbound"
      /\ tasks'[t].waits = {} /\ tasks'[t].server = new
  BY <1>2 DEF Started
<1>5. tasks[t].at = "stopping"
  BY DEF Process, StopsSound
<1>6. \A u \in Tasks' : tasks'[u].at \in Apis =>
        \/ u = t
        \/ u # t /\ tasks'[u] = tasks[u] /\ tasks[u].server \in Servers \ {s} /\ Starting(u)
  BY <1>1, <1>4
<1>7. ProcessTyped'
  <2>1. \A a \in Apis : held[a] # 0 => held[a] \in Servers
    BY Members DEF Process
  <2>2. \A a \in Apis : held[a] # 0 => servers'[held[a]].api = a /\ servers'[held[a]].phase # "registering"
    BY <1>3, <2>1 DEF Process, ProcessTyped
  <2>3. held' \in [Apis -> {0} \union Servers'] /\ closing' \subseteq Servers'
    BY <1>3 DEF Process, ProcessTyped
  <2>4. ASSUME NEW u \in Tasks', tasks'[u].at \in Apis
        PROVE  /\ tasks'[u].server # 0
               /\ servers'[tasks'[u].server].api = tasks'[u].at
               /\ servers'[tasks'[u].server].phase = "registering"
    <3>1. CASE u = t
      BY <1>3, <1>4, <3>1, Members DEF Process
    <3>2. CASE u # t
      <4>1. tasks'[u] = tasks[u] /\ tasks[u].server \in Servers \ {s} /\ Starting(u)
        BY <1>6, <2>4, <3>2
      <4> QED
        BY <1>3, <4>1, Members DEF Starting, Process
    <3> QED
      BY <3>1, <3>2
  <2> QED
    BY <1>3, <1>4, <2>2, <2>3, <2>4 DEF Process, ProcessTyped
<1>8. StartsSound'
  <2>1. \A u \in Servers' :
          servers'[u].client \in {"connecting", "retrying"} => servers'[u].phase = "registering"
    BY <1>3 DEF Process, StartsSound
  <2>2. \A u \in Tasks' : tasks'[u].at \in Apis => servers'[tasks'[u].server].conf = tasks'[u].conf
    BY <1>3, <1>4, <1>6 DEF Process, StartsSound
  <2>3. \A u, v \in Tasks' : tasks'[u].at \in Apis /\ tasks'[v].at \in Apis /\ u # v =>
          tasks'[u].server # tasks'[v].server
    BY <1>3, <1>4, <1>6 DEF Process, StartsSound
  <2> QED
    BY <2>1, <2>2, <2>3 DEF StartsSound
<1>9. StopsSound'
  <2>1. \A u \in Tasks \ {t} : s \notin tasks[u].waits
    BY DEF Process, StopsSound
  <2>2. \A u \in Tasks' : tasks'[u].at # "stopping" => tasks'[u].waits = {}
    BY <1>4 DEF Process, StopsSound
  <2>3. ASSUME NEW u \in Tasks', NEW v \in tasks'[u].waits PROVE servers'[v].phase = "stopping"
    <3>1. u # t /\ u \in Tasks /\ v \in tasks[u].waits
      BY <1>4, <2>3
    <3>2. v \in Servers \ {s} /\ servers[v].phase = "stopping"
      BY <1>1, <2>1, <3>1 DEF Process, StopsSound
    <3> QED
      BY <1>3, <3>2
  <2>4. \A u, v \in Tasks' : u # v => tasks'[u].waits \cap tasks'[v].waits = {}
    BY <1>4 DEF Process, StopsSound
  <2> QED
    BY <2>2, <2>3, <2>4 DEF StopsSound
<1>10. NoOrphan'
  BY <1>3 DEF Process, NoOrphan
<1>11. NewestServes'
  <2> SUFFICES ASSUME exit' = "no", closing' = {}, Newest'.at \in {"outbound", "done"}
               PROVE  Serves("inbound")' /\ (Newest'.at = "done" => Serves("outbound")')
    BY DEF NewestServes
  <2>1. closing = {}
    OBVIOUS
  <2>2. Len(tasks) # t /\ tasks # <<>>
    BY <1>2, <1>4, EmptySeq DEF Newest, Tasks
  <2>3. Newest' = Newest
    BY <1>2, <1>4, <2>2, Members DEF Newest, Process
  <2>4. ASSUME NEW a \in Apis, Serves(a) PROVE Serves(a)'
    BY <1>3, <2>3, <2>4 DEF Serves
  <2> QED
    BY <2>1, <2>2, <2>3, <2>4 DEF Process, NewestServes, Apis
<1>12. UnclosedWereLost'
  <2>1. Unclosed' \subseteq Unclosed
    BY <1>3 DEF Unclosed
  <2> QED
    BY <2>1, UnclosedShrinks DEF Process, ProcessTyped
<1> QED
  BY <1>7, <1>8, <1>9, <1>10, <1>11, <1>12 DEF Process

\* Nobody waited for it, or not for it alone.
LEMMA StopGoesOnWaiting ==
  ASSUME Process, exit = "no", NEW s \in Servers, servers[s].phase = "stopping",
         servers' = Stopped(s), tasks' \in Seq(ATask(Servers')), Len(tasks)' = Len(tasks), Tasks' = Tasks,
         \A t \in Tasks : /\ tasks'[t].conf = tasks[t].conf /\ tasks'[t].at = tasks[t].at
                          /\ tasks'[t].waits = tasks[t].waits \ {s} /\ tasks'[t].server = tasks[t].server,
         closing' = closing \ {s}, exit' \in {exit, "clean"}, closing = {s} => exit' = "clean",
         UNCHANGED <<managed, boot, held, drops, hurried>>
  PROVE  Process'
<1>1. /\ servers' \in Seq(AServer) /\ Servers' = Servers
      /\ \A u \in Servers :
           /\ servers'[u].api = servers[u].api /\ servers'[u].conf = servers[u].conf
           /\ u # s => servers'[u].phase = servers[u].phase /\ servers'[u].client = servers[u].client
      /\ servers'[s].phase = "stopped"
      /\ servers'[s].client = "closed" \/ (servers'[s].client = "down" /\ servers[s].client = "down")
      /\ \A u \in Tasks : tasks[u].at \in Apis => tasks[u].server \in Servers \ {s} /\ Starting(u)
      /\ \A u \in Tasks : tasks[u].waits \subseteq Servers
  BY StoppedStays DEF Servers
<1>2. ProcessTyped'
  <2>1. \A a \in Apis : held[a] # 0 => held[a] \in Servers
    BY Members DEF Process
  <2>2. \A a \in Apis : held[a] # 0 => servers'[held[a]].api = a /\ servers'[held[a]].phase # "registering"
    BY <1>1, <2>1 DEF Process, ProcessTyped
  <2>3. held' \in [Apis -> {0} \union Servers'] /\ closing' \subseteq Servers'
    BY <1>1 DEF Process, ProcessTyped
  <2>4. ASSUME NEW u \in Tasks', tasks'[u].at \in Apis
        PROVE  /\ tasks'[u].server # 0
               /\ servers'[tasks'[u].server].api = tasks'[u].at
               /\ servers'[tasks'[u].server].phase = "registering"
    <3>1. /\ tasks'[u].at = tasks[u].at /\ tasks'[u].server = tasks[u].server
          /\ tasks[u].server \in Servers \ {s} /\ Starting(u)
      BY <1>1, <2>4
    <3> QED
      BY <1>1, <3>1, Members DEF Starting, Process
  <2> QED
    BY <1>1, <2>2, <2>3, <2>4 DEF Process, ProcessTyped
<1>3. StartsSound'
  <2>1. \A u \in Servers' :
          servers'[u].client \in {"connecting", "retrying"} => servers'[u].phase = "registering"
    BY <1>1 DEF Process, StartsSound
  <2>2. \A u \in Tasks' : tasks'[u].at \in Apis => servers'[tasks'[u].server].conf = tasks'[u].conf
    BY <1>1 DEF Starting
  <2>3. \A u, v \in Tasks' : tasks'[u].at \in Apis /\ tasks'[v].at \in Apis /\ u # v =>
          tasks'[u].server # tasks'[v].server
    BY DEF Process, StartsSound
  <2> QED
    BY <2>1, <2>2, <2>3 DEF StartsSound
<1>4. StopsSound'
  BY <1>1 DEF Process, StopsSound
<1>5. NoOrphan'
  BY <1>1 DEF Process, NoOrphan
<1>6. NewestServes'
  <2> SUFFICES ASSUME exit' = "no", closing' = {}, tasks' # <<>>
               PROVE  /\ Newest'.at \in {"outbound", "done"} => Serves("inbound")'
                      /\ Newest'.at = "done" => Serves("outbound")'
    BY DEF NewestServes
  <2>1. closing = {} /\ tasks # <<>>
    BY EmptySeq DEF Process, ProcessTyped
  <2>2. Newest'.at = Newest.at /\ Newest'.conf = Newest.conf
    BY <2>1, Members DEF Newest, Process
  <2>3. ASSUME NEW a \in Apis, Serves(a) PROVE Serves(a)'
    BY <1>1, <2>2, <2>3 DEF Serves
  <2> QED
    BY <2>1, <2>2, <2>3 DEF Process, NewestServes, Apis
<1>7. UnclosedWereLost'
  <2>1. Unclosed' \subseteq Unclosed
    BY <1>1 DEF Unclosed
  <2> QED
    BY <2>1, UnclosedShrinks DEF Process, ProcessTyped
<1> QED
  BY <1>2, <1>3, <1>4, <1>5, <1>6, <1>7 DEF Process

LEMMA StopDoneProcess ==
  ASSUME Process, NEW s \in Servers, StopDone(s)
  PROVE  Process'
<1>1. /\ exit = "no" /\ servers[s].phase = "stopping" /\ closing' = closing \ {s}
      /\ exit' \in {exit, "clean"} /\ (closing = {s} => exit' = "clean")
      /\ UNCHANGED <<managed, boot, held, drops, hurried>>
  BY DEF StopDone, Resolves
<1>2. ASSUME NEW t \in Tasks, tasks[t].waits = {s}, StartServer(t, "inbound", Stopped(s))
      PROVE  Process'
  BY <1>1, <1>2, StopGoesOn
<1>3. servers' = Stopped(s) => Servers' = Servers
  BY StoppedServer DEF Process, ProcessTyped, Servers
<1>4. ASSUME NEW t \in Tasks, s \in tasks[t].waits, servers' = Stopped(s),
             tasks' = [tasks EXCEPT ![t].waits = @ \ {s}]
      PROVE  Process'
  <2>1. /\ tasks' \in Seq(ATask(Servers')) /\ Tasks' = Tasks /\ Len(tasks)' = Len(tasks)
        /\ \A u \in Tasks \ {t} : tasks'[u] = tasks[u]
        /\ tasks'[t].conf = tasks[t].conf /\ tasks'[t].at = tasks[t].at
        /\ tasks'[t].waits = tasks[t].waits \ {s} /\ tasks'[t].server = tasks[t].server
    BY <1>3, <1>4, TaskWaits DEF Process, ProcessTyped
  <2>2. \A u \in Tasks \ {t} : tasks[u].waits \ {s} = tasks[u].waits
    BY <1>4 DEF Process, StopsSound
  <2>3. \A u \in Tasks : /\ tasks'[u].conf = tasks[u].conf /\ tasks'[u].at = tasks[u].at
                          /\ tasks'[u].waits = tasks[u].waits \ {s} /\ tasks'[u].server = tasks[u].server
    BY <2>1, <2>2
  <2> QED
    BY <1>1, <1>4, <2>1, <2>3, StopGoesOnWaiting
<1>5. ASSUME \A t \in Tasks : s \notin tasks[t].waits, servers' = Stopped(s), UNCHANGED tasks
      PROVE  Process'
  <2>1. /\ tasks' \in Seq(ATask(Servers')) /\ Tasks' = Tasks
        /\ \A u \in Tasks : tasks[u].waits \ {s} = tasks[u].waits
    BY <1>3, <1>5 DEF Process, ProcessTyped, Tasks
  <2> QED
    BY <1>1, <1>5, <2>1, StopGoesOnWaiting
<1> QED
  BY <1>2, <1>4, <1>5 DEF StopDone, Resolves

\* A server listens.
LEMMA ListenProcess ==
  ASSUME Process, NEW t \in Tasks, Listen(t)
  PROVE  Process'
<1> DEFINE a == tasks[t].at
           s == tasks[t].server
           ss == [servers EXCEPT ![s].phase = "started"]
           new == Len(servers) + 1
<1>1. /\ exit = "no" /\ a \in Apis /\ s \in Servers /\ Starting(t)
      /\ servers[s].client \in {"up", "down"}
      /\ \A u \in Servers : ~(servers[u].api = a /\ servers[u].phase = "started")
      /\ UNCHANGED <<managed, boot, closing, exit, drops, hurried>>
  BY TasksStart, Members DEF Listen, Registered, InUse, Process
<1>2. /\ ss \in Seq(AServer) /\ Len(ss) = Len(servers) /\ DOMAIN ss = Servers
      /\ \A u \in Servers \ {s} : ss[u] = servers[u]
      /\ ss[s].api = servers[s].api /\ ss[s].conf = servers[s].conf
      /\ ss[s].phase = "started" /\ ss[s].client = servers[s].client
  BY <1>1, StartedServer DEF Process, ProcessTyped
<1>3. /\ held'[a] = s
      /\ \A b \in Apis \ {a} : held'[b] = held[b]
      /\ held' \in [Apis -> {0} \union Servers]
  BY <1>1 DEF Listen, Hold, Process, ProcessTyped
<1>4. \/ a = "inbound" /\ StartServer(t, "outbound", ss)
      \/ /\ a = "outbound" /\ servers' = ss
         /\ tasks' = [tasks EXCEPT ![t].at = "done", ![t].server = 0]
  BY <1>1 DEF Listen, Apis
<1> HIDE DEF ss
\* The servers after it, and the tasks, whether there is a new one or not.
<1>5. /\ Servers \subseteq Servers' /\ Servers' \subseteq Servers \union {new} /\ new \notin Servers
      /\ servers' \in Seq(AServer)
      /\ \A u \in Servers : servers'[u] = ss[u]
      /\ new \in Servers' =>
           /\ servers'[new].phase = "registering"
           /\ servers'[new].client = "connecting"
           /\ servers'[new].conf = tasks'[t].conf
           /\ servers'[new].api = "outbound"
      /\ Tasks' = Tasks /\ tasks' \in Seq(ATask(Servers')) /\ Len(tasks)' = Len(tasks)
      /\ \A u \in Tasks \ {t} : tasks'[u] = tasks[u]
      /\ tasks'[t].conf = tasks[t].conf
      /\ tasks'[t].waits = {}
      /\ \/ a = "inbound" /\ tasks'[t].at = "outbound" /\ tasks'[t].server = new /\ new \in Servers'
         \/ a = "outbound" /\ tasks'[t].at = "done"
  <2>1. CASE a = "inbound" /\ StartServer(t, "outbound", ss)
    <3>1. Started(t, "outbound", ss) /\ Len(tasks)' = Len(tasks)
      BY <1>2, <2>1, ServerStarted DEF Process, ProcessTyped, Apis
    <3> QED
      BY <2>1, <3>1 DEF Started
  <2>2. CASE /\ a = "outbound" /\ servers' = ss
             /\ tasks' = [tasks EXCEPT ![t].at = "done", ![t].server = 0]
    <3>1. Servers' = Servers
      BY <1>2, <2>2 DEF Servers
    <3>2. /\ tasks' \in Seq(ATask(Servers')) /\ Tasks' = Tasks /\ Len(tasks)' = Len(tasks)
          /\ \A u \in Tasks \ {t} : tasks'[u] = tasks[u]
          /\ tasks'[t].conf = tasks[t].conf /\ tasks'[t].at = "done"
          /\ tasks'[t].waits = tasks[t].waits
      BY <2>2, <3>1, TaskDone DEF Process, ProcessTyped
    <3>3. tasks[t].waits = {}
      BY <1>1 DEF Apis, Process, StopsSound
    <3>4. new \notin Servers
      BY Members DEF Process
    <3> QED
      BY <1>2, <2>2, <3>1, <3>2, <3>3, <3>4
  <2> QED
    BY <1>4, <2>1, <2>2
<1>6. /\ \A u \in Servers \ {s} : servers'[u] = servers[u]
      /\ servers'[s].api = a /\ servers'[s].conf = tasks[t].conf
      /\ servers'[s].phase = "started" /\ servers'[s].client \in {"up", "down"}
      /\ servers'[s].client = servers[s].client
  BY <1>1, <1>2, <1>5 DEF Starting
<1>7. \A u \in Tasks \ {t} : tasks[u].at \in Apis => tasks[u].server \in Servers \ {s} /\ Starting(u)
  BY <1>1, TasksStart DEF Process, StartsSound, Starting
<1>8. ProcessTyped'
  <2>1. \A b \in Apis : held'[b] # 0 => servers'[held'[b]].api = b /\ servers'[held'[b]].phase # "registering"
    <3>1. \A b \in Apis \ {a} : held[b] # 0 => held[b] \in Servers \ {s}
      BY <1>1, Members DEF Process, ProcessTyped, Starting
    <3> QED
      BY <1>3, <1>6, <3>1 DEF Process, ProcessTyped
  <2>2. held' \in [Apis -> {0} \union Servers'] /\ closing' \subseteq Servers'
    BY <1>1, <1>3, <1>5 DEF Process, ProcessTyped
  <2>3. ASSUME NEW u \in Tasks', tasks'[u].at \in Apis
        PROVE  /\ tasks'[u].server # 0
               /\ servers'[tasks'[u].server].api = tasks'[u].at
               /\ servers'[tasks'[u].server].phase = "registering"
    <3>1. CASE u = t
      BY <1>5, <2>3, <3>1, Members DEF Process, Apis
    <3>2. CASE u # t
      <4>1. tasks'[u] = tasks[u] /\ tasks[u].server \in Servers \ {s} /\ Starting(u)
        BY <1>5, <1>7, <2>3, <3>2
      <4> QED
        BY <1>6, <4>1, Members DEF Starting, Process
    <3> QED
      BY <3>1, <3>2
  <2> QED
    BY <1>1, <1>5, <2>1, <2>2, <2>3 DEF Process, ProcessTyped
<1>9. StartsSound'
  <2>1. \A u \in Servers' :
          servers'[u].client \in {"connecting", "retrying"} => servers'[u].phase = "registering"
    BY <1>5, <1>6 DEF Process, StartsSound
  <2>2. ASSUME NEW u \in Tasks', tasks'[u].at \in Apis
        PROVE  servers'[tasks'[u].server].conf = tasks'[u].conf
    <3>1. CASE u = t
      BY <1>5, <2>2, <3>1 DEF Apis
    <3>2. CASE u # t
      BY <1>5, <1>6, <1>7, <2>2, <3>2 DEF Starting
    <3> QED
      BY <3>1, <3>2
  <2>3. ASSUME NEW u \in Tasks', NEW v \in Tasks', tasks'[u].at \in Apis, tasks'[v].at \in Apis, u # v
        PROVE  tasks'[u].server # tasks'[v].server
    <3>1. tasks'[t].at \in Apis => tasks'[t].server \notin Servers
      BY <1>5 DEF Apis
    <3>2. CASE u # t /\ v # t
      BY <1>5, <2>3, <3>2 DEF Process, StartsSound
    <3>3. CASE u = t \/ v = t
      BY <1>5, <1>7, <2>3, <3>1, <3>3
    <3> QED
      BY <3>2, <3>3
  <2> QED
    BY <2>1, <2>2, <2>3 DEF StartsSound
<1>10. StopsSound'
  <2>1. \A u \in Tasks : \A v \in tasks[u].waits : v \in Servers \ {s} /\ servers[v].phase = "stopping"
    BY <1>1, Members DEF Process, StopsSound, ATask, Starting
  <2>2. \A u \in Tasks' : tasks'[u].at # "stopping" => tasks'[u].waits = {}
    BY <1>5 DEF Process, StopsSound
  <2>3. \A u \in Tasks' : \A v \in tasks'[u].waits : servers'[v].phase = "stopping"
    BY <1>5, <1>6, <2>1
  <2>4. \A u, v \in Tasks' : u # v => tasks'[u].waits \cap tasks'[v].waits = {}
    BY <1>5 DEF Process, StopsSound
  <2> QED
    BY <2>2, <2>3, <2>4 DEF StopsSound
<1>11. NoOrphan'
  <2> SUFFICES ASSUME NEW u \in Servers', servers'[u].phase = "started"
               PROVE  held'[servers'[u].api] = u
    BY DEF NoOrphan
  <2>1. CASE u = s
    BY <1>3, <1>6, <2>1
  <2>2. CASE u # s
    <3>1. u \in Servers /\ servers'[u] = servers[u] /\ servers[u].phase = "started"
      BY <1>5, <1>6, <2>2
    <3>2. servers[u].api \in Apis \ {a}
      BY <1>1, <3>1, Members DEF Process, AServer
    <3> QED
      BY <1>3, <3>1, <3>2 DEF Process, NoOrphan
  <2> QED
    BY <2>1, <2>2
<1>12. NewestServes'
  <2> SUFFICES ASSUME closing' = {}, tasks' # <<>>
               PROVE  /\ Newest'.at \in {"outbound", "done"} => Serves("inbound")'
                      /\ Newest'.at = "done" => Serves("outbound")'
    BY DEF NewestServes
  <2>1. tasks # <<>> /\ closing = {} /\ Len(tasks) \in Tasks
    BY <1>1, EmptySeq, Members DEF Process, ProcessTyped, Tasks
  <2>2. Newest'.conf = Newest.conf
    BY <1>5, <2>1 DEF Newest
  \* What served before still does, and is of the other API.
  <2>3. ASSUME NEW b \in Apis, Serves(b) PROVE Serves(b)'
    <3>1. /\ held[b] \in Servers /\ servers[held[b]].phase = "started" /\ servers[held[b]].api = b
          /\ servers[held[b]].conf = Newest.conf
      BY <2>3, Members DEF Serves, Process, ProcessTyped
    <3>2. b # a /\ held[b] # s
      BY <1>1, <3>1 DEF Starting
    <3> QED
      BY <1>3, <1>5, <1>6, <2>2, <3>1, <3>2 DEF Serves
  <2>4. CASE t = Len(tasks)
    <3>1. ASSUME NEW b \in Apis, b = a PROVE Serves(b)'
      <4>1. held'[b] = s /\ s \in Servers'
        BY <1>1, <1>3, <1>5, <3>1
      <4>2. servers'[s].phase = "started" /\ servers'[s].conf = Newest'.conf
        BY <1>6, <2>2, <2>4 DEF Newest
      <4> QED
        BY <4>1, <4>2 DEF Serves
    <3>2. a = "outbound" => Serves("inbound")
      BY <1>1, <2>1, <2>4 DEF Process, NewestServes, Newest
    <3>3. (Newest'.at = "outbound" /\ a = "inbound") \/ (Newest'.at = "done" /\ a = "outbound")
      BY <1>5, <2>4 DEF Newest
    <3> QED
      BY <2>3, <3>1, <3>2, <3>3 DEF Apis
  <2>5. CASE t # Len(tasks)
    <3>1. Newest' = Newest
      BY <1>5, <2>1, <2>5 DEF Newest
    <3> QED
      BY <1>1, <2>1, <2>3, <3>1 DEF Process, NewestServes, Apis
  <2> QED
    BY <2>4, <2>5
<1>13. UnclosedWereLost'
  <2>1. Unclosed' \subseteq Unclosed
    BY <1>1, <1>5, <1>6 DEF Unclosed
  <2> QED
    BY <1>1, <2>1, UnclosedShrinks DEF Process, ProcessTyped
<1> QED
  BY <1>8, <1>9, <1>10, <1>11, <1>12, <1>13 DEF Process

\* The first start of the servers.
LEMMA ConfiguredProcess ==
  ASSUME Process, BootSound, AgentTypeOK, Configured, appConfig' \in Configuration
  PROVE  Process'
<1>1. /\ servers' = <<NewServer("inbound", appConfig')>>
      /\ tasks' = <<[conf |-> appConfig', at |-> "inbound", waits |-> {}, server |-> 1]>>
      /\ closing' = {} /\ \A a \in Apis : held'[a] = 0
      /\ boot' = "starting" /\ exit' = exit
      /\ UNCHANGED <<managed, drops, hurried>>
      /\ held' \in [Apis -> {0}]
  BY DEF Configured, BootSound, Process, ProcessTyped
<1>2. /\ NewServer("inbound", appConfig') \in AServer
      /\ NewServer("inbound", appConfig').api = "inbound"
      /\ NewServer("inbound", appConfig').conf = appConfig'
      /\ NewServer("inbound", appConfig').phase = "registering"
      /\ NewServer("inbound", appConfig').client = "connecting"
  BY DEF NewServer, AServer, Apis, Phases, Clients
<1>3. servers' \in Seq(AServer) /\ Servers' = {1} /\ servers'[1] = NewServer("inbound", appConfig')
  BY <1>1, <1>2 DEF Servers
<1>4. /\ tasks' \in Seq(ATask(Servers')) /\ Tasks' = {1}
      /\ tasks'[1] = [conf |-> appConfig', at |-> "inbound", waits |-> {}, server |-> 1]
  BY <1>1, <1>3 DEF Tasks, ATask, Apis
<1>5. ProcessTyped'
  <2>1. held' \in [Apis -> {0} \union Servers']
    BY <1>1
  <2> QED
    BY <1>1, <1>2, <1>3, <1>4, <2>1 DEF Process, ProcessTyped
<1>6. StartsSound' /\ StopsSound'
  BY <1>2, <1>3, <1>4 DEF StartsSound, StopsSound
<1>7. NoOrphan' /\ NewestServes'
  BY <1>1, <1>2, <1>3, <1>4 DEF NoOrphan, NewestServes, Newest
<1>8. UnclosedWereLost'
  <2>1. Unclosed' = {}
    BY <1>2, <1>3 DEF Unclosed
  <2> QED
    BY <1>1, <2>1, FS_EmptySet DEF UnclosedWereLost, Process, ProcessTyped
<1> QED
  BY <1>5, <1>6, <1>7, <1>8 DEF Process

-----------------------------------------------------------------------------
(* The control client and the management API.                              *)

Agent == AgentTypeOK /\ VersionsBounded

LEMMA PartsOfOne == Configuration \subseteq PartOfOne /\ Nothing \in PartOfOne
<1>1. Configuration \subseteq PartOfOne
  BY DEF Configuration, PartOfOne
<1>2. Nothing \in [{} -> Versions]
  BY DEF Nothing
<1> QED
  BY <1>1, <1>2 DEF PartOfOne

LEMMA Merged ==
  ASSUME NEW base \in Configuration, NEW data \in PartOfOne
  PROVE  /\ Merge(base, data) \in Configuration
         /\ \A p \in DOMAIN data : Merge(base, data)[p] = data[p]
         /\ DOMAIN data = Parts => Merge(base, data) = data
<1>1. PICK S \in SUBSET Parts : data \in [S -> Versions]
  BY DEF PartOfOne
<1>2. DOMAIN base = Parts /\ DOMAIN data = S /\ Parts \union S = Parts
  BY <1>1 DEF Configuration
<1>3. Merge(base, data) = [p \in Parts |-> IF p \in S THEN data[p] ELSE base[p]]
  BY <1>2 DEF Merge
<1>4. Merge(base, data) \in Configuration
  BY <1>1, <1>3 DEF Configuration
<1>5. \A p \in S : Merge(base, data)[p] = data[p]
  BY <1>3
<1>6. S = Parts => Merge(base, data) = data
  BY <1>1, <1>3
<1> QED
  BY <1>2, <1>4, <1>5, <1>6

AMessage == [verb : Verbs, data : PartOfOne]

LEMMA Inbox ==
  ASSUME AgentTypeOK, NEW m, m = Head(inbox), inbox # <<>>
  PROVE  /\ m \in AMessage /\ Tail(inbox) \in Seq(AMessage)
         /\ Len(Tail(inbox)) = Len(inbox) - 1
BY HeadTailProperties DEF AgentTypeOK, AMessage

LEMMA AgentSame == Agent /\ UNCHANGED agentVars => Agent'
BY DEF Agent, agentVars, AgentTypeOK, VersionsBounded

LEMMA AgentMessage ==
  ASSUME Agent, NEW m \in AMessage, inbox' = Append(inbox, m), pushes' = pushes + 1, pushes < MaxPushes,
         mgmt' = mgmt \/ \E p \in Parts : mgmt' = [mgmt EXCEPT ![p] = @ + 1],
         last' \in [how : {"never"} \union Verbs, part : Parts],
         UNCHANGED <<socket, reader, asked, taken, appConfig>>
  PROVE  Agent'
<1>1. inbox \in Seq(AMessage) /\ inbox' \in Seq(AMessage)
  BY AppendProperties DEF Agent, AgentTypeOK, AMessage
<1>2. mgmt \in [Parts -> Nat] /\ pushes \in Nat /\ \A q \in Parts : mgmt[q] <= pushes + 1
  BY DEF Agent, AgentTypeOK, VersionsBounded, Configuration, Versions
<1>3. mgmt' \in [Parts -> Nat] /\ \A q \in Parts : mgmt'[q] <= mgmt[q] + 1
  <2>1. ASSUME NEW p \in Parts, mgmt' = [mgmt EXCEPT ![p] = @ + 1]
        PROVE  mgmt' \in [Parts -> Nat] /\ \A q \in Parts : mgmt'[q] <= mgmt[q] + 1
    BY <1>2, <2>1
  <2> QED
    BY <1>2, <2>1
<1>4. \A q \in Parts : mgmt'[q] <= pushes' + 1 /\ mgmt'[q] \in 0 .. MaxPushes + 1
  BY <1>2, <1>3
<1>5. mgmt' \in Configuration /\ VersionsBounded'
  BY <1>3, <1>4 DEF Configuration, Versions, VersionsBounded
<1> QED
  BY <1>1, <1>5 DEF Agent, AgentTypeOK, AMessage

LEMMA PushAgent ==
  ASSUME Agent, NEW verb \in {"NOTIFY", "PATCH"}, NEW p \in Parts, Push(verb, p)
  PROVE  /\ Agent'
         /\ inbox' \in Seq(AMessage) /\ Len(inbox') = Len(inbox) + 1
         /\ mgmt' \in Configuration
         /\ inbox = <<>> => Head(inbox') = Message(verb, IF verb = "PATCH" THEN [q \in {p} |-> mgmt'[q]] ELSE mgmt')
<1> DEFINE data == IF verb = "PATCH" THEN [q \in {p} |-> mgmt'[q]] ELSE mgmt'
<1>1. mgmt' \in Configuration
  BY DEF Push, Agent, AgentTypeOK, VersionsBounded, Configuration, Versions
<1>2. data \in PartOfOne
  <2>1. CASE verb = "PATCH"
    <3>1. [q \in {p} |-> mgmt'[q]] \in [{p} -> Versions]
      BY <1>1 DEF Configuration
    <3>2. {p} \in SUBSET Parts
      OBVIOUS
    <3> QED
      BY <2>1, <3>1, <3>2 DEF PartOfOne
  <2>2. CASE verb # "PATCH"
    BY <1>1, <2>2, PartsOfOne
  <2> QED
    BY <2>1, <2>2
<1>3. Message(verb, data) \in AMessage
  BY <1>2 DEF Message, AMessage, Verbs
<1>4. inbox' = Append(inbox, Message(verb, data))
  BY DEF Push
<1>5. last' \in [how : {"never"} \union Verbs, part : Parts]
  BY DEF Push, Verbs
<1> HIDE DEF data
<1>6. Agent'
  BY <1>3, <1>4, <1>5, AgentMessage DEF Push
<1>7. inbox' \in Seq(AMessage) /\ Len(inbox') = Len(inbox) + 1
      /\ (inbox = <<>> => Head(inbox') = Message(verb, data))
  BY <1>3, <1>4, AppendProperties, HeadTailAppend DEF Agent, AgentTypeOK, AMessage
<1> QED
  BY <1>1, <1>6, <1>7 DEF data

LEMMA PushOtherAgent ==
  ASSUME Agent, NEW verb \in {"unsupported", "unreadable"}, PushOther(verb)
  PROVE  /\ Agent' /\ Len(inbox') = Len(inbox) + 1
         /\ inbox = <<>> => Head(inbox').verb = verb
<1>1. Message(verb, Nothing) \in AMessage
  BY PartsOfOne DEF Message, AMessage, Verbs
<1>2. last' \in [how : {"never"} \union Verbs, part : Parts]
  BY DEF PushOther, Agent, AgentTypeOK
<1>3. Agent'
  BY <1>1, <1>2, AgentMessage DEF PushOther
<1>4. Len(inbox') = Len(inbox) + 1 /\ (inbox = <<>> => Head(inbox') = Message(verb, Nothing))
  BY <1>1, AppendProperties, HeadTailAppend DEF PushOther, Agent, AgentTypeOK, AMessage
<1> QED
  BY <1>3, <1>4 DEF Message

LEMMA AnswerAgent ==
  ASSUME Agent, Answer
  PROVE  /\ Agent' /\ Len(inbox') = Len(inbox) + 1
         /\ inbox = <<>> => Head(inbox') = Message("NOTIFY", mgmt)
<1>1. Message("NOTIFY", mgmt) \in AMessage
  BY PartsOfOne DEF Message, AMessage, Verbs, Agent, AgentTypeOK
<1>2. /\ inbox' \in Seq(AMessage) /\ Len(inbox') = Len(inbox) + 1
      /\ inbox = <<>> => Head(inbox') = Message("NOTIFY", mgmt)
  BY <1>1, AppendProperties, HeadTailAppend DEF Answer, Agent, AgentTypeOK, AMessage
<1> QED
  BY <1>2 DEF Answer, Agent, AgentTypeOK, AMessage, VersionsBounded

LEMMA DeliveredAgent ==
  ASSUME Agent, NEW m, Delivered(m)
  PROVE  /\ Agent' /\ m \in AMessage /\ Emitted(m) \in Configuration
         /\ Len(inbox') = Len(inbox) - 1
<1>1. m \in AMessage /\ inbox' \in Seq(AMessage) /\ Len(inbox') = Len(inbox) - 1
  BY Inbox DEF Agent, Delivered, Arrives
<1>2. Taken(m) \in PartOfOne
  BY <1>1, PartsOfOne DEF Taken, AMessage
<1>3. Emitted(m) \in Configuration
  BY <1>1, Merged DEF Emitted, AMessage, Agent, AgentTypeOK
<1>4. Agent'
  BY <1>1, <1>2 DEF Agent, AgentTypeOK, AMessage, VersionsBounded, Delivered
<1> QED
  BY <1>1, <1>3, <1>4

LEMMA OtherAgent ==
  ASSUME Agent, Opened \/ ReadConfiguration \/ StopAgent \/ AgentGone \/ SocketLost
  PROVE  Agent'
<1>1. CASE Opened
  BY <1>1 DEF Opened, Agent, AgentTypeOK, VersionsBounded
<1>2. CASE ReadConfiguration
  BY <1>2 DEF ReadConfiguration, Agent, AgentTypeOK, VersionsBounded
<1>3. CASE StopAgent
  BY <1>3 DEF StopAgent, Agent, AgentTypeOK, VersionsBounded
<1>4. CASE AgentGone
  BY <1>4, EmptySeq, PartsOfOne DEF AgentGone, Agent, AgentTypeOK, VersionsBounded
<1>5. CASE SocketLost
  BY <1>5, EmptySeq DEF SocketLost, Agent, AgentTypeOK, VersionsBounded
<1> QED
  BY <1>1, <1>2, <1>3, <1>4, <1>5

LEMMA ConfiguredAgent ==
  ASSUME Agent, Configured
  PROVE  Agent' /\ appConfig' = Merge(appConfig, taken) /\ appConfig' \in Configuration
<1>1. appConfig' = Merge(appConfig, taken) /\ appConfig' \in Configuration
  BY Merged DEF Configured, Agent, AgentTypeOK
<1> QED
  BY <1>1, PartsOfOne DEF Configured, Agent, AgentTypeOK, VersionsBounded

-----------------------------------------------------------------------------
(* What holds however messages, restarts and SIGTERM overlap.              *)

Sound == Agent /\ Process /\ BootSound

LEMMA Booted ==
  ASSUME BootSound, Servers # {} \/ Tasks # {} \/ tasks # <<>>
  PROVE  boot = "starting"
<1>1. servers = <<>> => Servers = {}
  BY DEF Servers
<1>2. tasks = <<>> => Tasks = {}
  BY DEF Tasks
<1> QED
  BY <1>1, <1>2 DEF BootSound

\* A step of the servers, while the control client does nothing.
LEMMA ServersSound ==
  ASSUME Sound, boot = "starting", Process', UNCHANGED <<agentVars, managed, boot>>
  PROVE  Sound'
<1>1. Agent'
  BY AgentSame DEF Sound
<1>2. BootSound'
  BY DEF Sound, BootSound, agentVars
<1> QED
  BY <1>1, <1>2 DEF Sound

LEMMA DiesSound ==
  ASSUME Sound, NEW why \in {"failed", "message", "early", "overlap", "unhandled"}, Dies(why),
         hurried' \in BOOLEAN
  PROVE  Sound'
<1>1. Agent'
  BY OtherAgent DEF Sound, Dies
<1>2. Process'
  BY DiesProcess DEF Sound
<1>3. BootSound'
  BY DEF Dies, AgentGone, BootSound
<1> QED
  BY <1>1, <1>2, <1>3 DEF Sound

LEMMA ServerSteps ==
  ASSUME Sound, NEW s \in Servers,
         StopDone(s) \/ ConnectError(s) \/ Ready(s) \/ ConnectTimeout(s) \/ ConnectionLost(s) \/ ConnectionBack(s)
  PROVE  Sound'
<1>1. boot = "starting"
  BY Booted DEF Sound
<1>2. CASE StopDone(s)
  <2>1. Process' /\ UNCHANGED <<agentVars, managed, boot>>
    BY <1>2, StopDoneProcess DEF Sound, StopDone
  <2> QED
    BY <1>1, <2>1, ServersSound
<1>3. CASE ConnectError(s) \/ Ready(s) \/ ConnectionLost(s) \/ ConnectionBack(s)
  <2>1. PICK c \in {"retrying", "up", "down"} :
          /\ ClientBecomes(s, c)
          /\ c = "retrying" => servers[s].client = "connecting"
          /\ \/ servers[s].client \in {"connecting", "retrying", "down"} /\ c # "down" /\ drops' = drops
             \/ drops' = drops + 1 /\ drops < MaxDrops
    BY <1>3 DEF ConnectError, Ready, ConnectionLost, ConnectionBack
  <2>2. Process'
    BY <2>1, ClientProcess DEF Sound, Clients
  <2>3. UNCHANGED <<agentVars, managed, boot>>
    BY <2>1 DEF ClientBecomes
  <2> QED
    BY <1>1, <2>2, <2>3, ServersSound
<1>4. CASE ConnectTimeout(s)
  <2>1. Dies("failed") /\ hurried' \in BOOLEAN
    BY <1>4 DEF ConnectTimeout, Sound, Process, ProcessTyped
  <2> QED
    BY <2>1, DiesSound
<1> QED
  BY <1>2, <1>3, <1>4

LEMMA TaskSteps ==
  ASSUME Sound, NEW t \in Tasks, Listen(t) \/ PortTaken(t)
  PROVE  Sound'
<1>1. CASE Listen(t)
  <2>1. boot = "starting"
    BY Booted DEF Sound
  <2>2. Process' /\ UNCHANGED <<agentVars, managed, boot>>
    BY <1>1, ListenProcess DEF Sound, Listen
  <2> QED
    BY <2>1, <2>2, ServersSound
<1>2. CASE PortTaken(t)
  BY <1>2, DiesSound DEF PortTaken, Sound, Process, ProcessTyped
<1> QED
  BY <1>1, <1>2

LEMMA BootSteps ==
  ASSUME Sound, Connect \/ AskConfiguration \/ AnswerRead \/ Configured
  PROVE  Sound'
<1>1. CASE Connect
  <2>1. Agent'
    BY <1>1, OtherAgent DEF Connect, Sound
  <2>2. Process'
    BY <1>1, QuietProcess DEF Connect, Sound, Process, ProcessTyped
  <2>3. BootSound'
    BY <1>1 DEF Connect, Opened, Sound, BootSound
  <2> QED
    BY <2>1, <2>2, <2>3 DEF Sound
<1>2. CASE AskConfiguration
  <2>1. Agent'
    BY <1>2, OtherAgent DEF AskConfiguration, Sound
  <2>2. Process'
    BY <1>2, QuietProcess DEF AskConfiguration, Sound, Process, ProcessTyped
  <2>3. BootSound'
    BY <1>2 DEF AskConfiguration, ReadConfiguration, Sound, BootSound
  <2> QED
    BY <2>1, <2>2, <2>3 DEF Sound
<1>3. CASE AnswerRead
  <2>1. Agent'
    BY <1>3, AnswerAgent DEF AnswerRead, Sound
  <2>2. Process'
    BY <1>3, QuietProcess DEF AnswerRead, processVars, Sound, Process, ProcessTyped
  <2>3. BootSound'
    BY <1>3 DEF AnswerRead, Answer, processVars, Sound, BootSound
  <2> QED
    BY <2>1, <2>2, <2>3 DEF Sound
<1>4. CASE Configured
  <2>1. Agent' /\ appConfig' \in Configuration
    BY <1>4, ConfiguredAgent DEF Sound
  <2>2. Process'
    BY <1>4, <2>1, ConfiguredProcess DEF Sound, Agent
  <2>3. BootSound'
    BY <1>4 DEF Configured, Sound, BootSound
  <2> QED
    BY <2>1, <2>2, <2>3 DEF Sound
<1> QED
  BY <1>1, <1>2, <1>3, <1>4

LEMMA MessageSteps ==
  ASSUME Sound, Handle \/ HandleFails
  PROVE  Sound'
<1>1. CASE Handle
  <2>1. PICK m \in Messages :
          /\ Delivered(m)
          /\ IF Reconfigures(m) THEN Restart(Emitted(m)) ELSE UNCHANGED <<servers, tasks>>
    BY <1>1 DEF Handle
  <2>2. Agent' /\ Emitted(m) \in Configuration
    BY <2>1, DeliveredAgent DEF Sound
  <2>3. /\ exit = "no" /\ boot' = IF reader THEN "read" ELSE boot
        /\ UNCHANGED <<managed, held, closing, exit, drops, hurried>>
    BY <1>1 DEF Handle
  <2>4. reader' = FALSE /\ socket' = socket
    BY <2>1 DEF Delivered
  <2>5. CASE Reconfigures(m)
    <3>1. boot = "starting" /\ boot' = boot
      BY <2>3, <2>5 DEF Reconfigures, Sound, BootSound
    <3>2. Process'
      BY <2>1, <2>2, <2>3, <2>5, <3>1, RestartProcess DEF Sound
    <3>3. BootSound'
      BY <2>3, <2>4, <3>1 DEF Sound, BootSound
    <3> QED
      BY <2>2, <3>2, <3>3 DEF Sound
  <2>6. CASE ~Reconfigures(m)
    <3>1. Process'
      BY <2>1, <2>3, <2>6, QuietProcess DEF Sound, Process, ProcessTyped
    <3>2. BootSound'
      BY <2>1, <2>3, <2>4, <2>6 DEF Sound, BootSound
    <3> QED
      BY <2>2, <3>1, <3>2 DEF Sound
  <2> QED
    BY <2>5, <2>6
<1>2. CASE HandleFails
  <2>1. PICK why \in {"message", "early", "overlap"} : Dies(why)
    BY <1>2 DEF HandleFails, StopFails
  <2>2. hurried' \in BOOLEAN
    BY <1>2 DEF HandleFails, Sound, Process, ProcessTyped
  <2> QED
    BY <2>1, <2>2, DiesSound
<1> QED
  BY <1>1, <1>2

LEMMA OutsideSteps ==
  ASSUME Sound,
         \/ \E p \in Parts : PushConfiguration("NOTIFY", p) \/ PushConfiguration("PATCH", p)
         \/ PushAnother("unsupported") \/ PushAnother("unreadable")
         \/ LoseSocket
  PROVE  Sound'
<1> DEFINE Happened == /\ Agent' /\ reader' = reader
                       /\ socket = "open" /\ socket' \in {"open", "lost"}
                       /\ UNCHANGED <<managed, boot, servers, held, tasks, closing, exit, drops>>
                       /\ hurried' \in BOOLEAN
<1>1. Happened
  <2>1. ASSUME NEW verb \in {"NOTIFY", "PATCH"}, NEW p \in Parts, PushConfiguration(verb, p)
        PROVE  Happened
    BY <2>1, PushAgent DEF PushConfiguration, Sent, Push, Sound, Process, ProcessTyped
  <2>2. ASSUME NEW verb \in {"unsupported", "unreadable"}, PushAnother(verb)
        PROVE  Happened
    BY <2>2, PushOtherAgent DEF PushAnother, Sent, PushOther, Sound, Process, ProcessTyped
  <2>3. CASE LoseSocket
    <3>1. Agent'
      BY <2>3, OtherAgent DEF LoseSocket, Sound
    <3> QED
      BY <2>3, <3>1 DEF LoseSocket, SocketLost, processVars, Sound, Process, ProcessTyped
  <2> QED
    BY <2>1, <2>2, <2>3
<1>2. Process'
  BY <1>1, QuietProcess DEF Sound, Process, ProcessTyped
<1>3. BootSound'
  BY <1>1 DEF Sound, BootSound
<1> QED
  BY <1>1, <1>2, <1>3 DEF Sound

LEMMA TermSteps ==
  ASSUME Sound, Sigterm \/ SigtermFails \/ StartFails
  PROVE  Sound'
<1>1. CASE Sigterm
  <2>1. Agent'
    BY <1>1, OtherAgent DEF Sigterm, Sound
  <2>2. Process'
    BY <1>1, SigtermProcess DEF Sound
  <2>3. boot = "starting"
    BY <1>1, Booted DEF Sigterm, TermSignal, Sound
  <2>4. BootSound'
    BY <1>1, <2>3 DEF Sigterm, StopAgent, Sound, BootSound
  <2> QED
    BY <2>1, <2>2, <2>4 DEF Sound
<1>2. CASE SigtermFails
  <2>1. PICK why \in {"unhandled", "early", "overlap"} : Dies(why)
    BY <1>2 DEF SigtermFails, StopFails
  <2>2. hurried' \in BOOLEAN
    BY <1>2 DEF SigtermFails, TermSignal, Sound, Process, ProcessTyped
  <2> QED
    BY <2>1, <2>2, DiesSound
<1>3. CASE StartFails
  BY <1>3, DiesSound DEF StartFails, Sound, Process, ProcessTyped
<1> QED
  BY <1>1, <1>2, <1>3

LEMMA NextSound == Sound /\ [Next]_vars => Sound'
<1> SUFFICES ASSUME Sound, [Next]_vars PROVE Sound'
  OBVIOUS
<1>1. CASE UNCHANGED vars
  <2>1. Agent'
    BY <1>1, AgentSame DEF Sound, vars
  <2>2. Process'
    BY <1>1, QuietProcess DEF Sound, vars, processVars, Process, ProcessTyped
  <2>3. BootSound'
    BY <1>1 DEF Sound, BootSound, vars, agentVars, processVars
  <2> QED
    BY <2>1, <2>2, <2>3 DEF Sound
<1> QED
  BY <1>1, BootSteps, MessageSteps, ServerSteps, TaskSteps, OutsideSteps, TermSteps DEF Next

-----------------------------------------------------------------------------
(* One thing at a time.                                                    *)

Ordered == OneAtATime /\ OnItsWay

\* What OneAtATime says of a process that is alive.
InOrder ==
  /\ InboxInOrder
  /\ boot = "starting" => tasks # <<>>
  /\ \A t \in Tasks : t # Len(tasks) => tasks[t].at = "done"
  /\ closing # {} => AllDone
  /\ tasks # <<>> => \A s \in Servers \ Running : servers[s].phase = "stopped"

LEMMA AllInOrder ==
  ASSUME exit' = "no", ~hurried' => InOrder' /\ OnItsWay'
  PROVE  Ordered'
BY DEF Ordered, OneAtATime, OnItsWay, InOrder

LEMMA DeadInOrder ==
  ASSUME exit' # "no", exit' \notin {"early", "overlap", "clean"} \/ hurried'
  PROVE  Ordered'
BY DEF Ordered, OneAtATime, OnItsWay

\* At rest both servers listen, and no stop is refused.
LEMMA BothServe ==
  ASSUME Process, exit = "no", AllDone, closing = {}
  PROVE  /\ Serves("inbound") /\ Serves("outbound")
         /\ StopFails = "no" /\ Newest.at = "done"
         /\ \A s \in Held : servers[s].phase = "started"
<1>1. Newest.at = "done"
  BY Members DEF AllDone, Newest, Process
<1>2. Serves("inbound") /\ Serves("outbound")
  BY <1>1 DEF AllDone, Process, NewestServes
<1>3. Held \subseteq Servers /\ 0 \notin Held /\ \A s \in Held : servers[s].phase = "started"
  BY <1>2, Members DEF Held, Serves, Apis, Process
<1> QED
  BY <1>1, <1>2, <1>3 DEF StopFails

\* A task under way is the newest, and finds everything else at rest.
LEMMA OneUnderWay ==
  ASSUME Process, InOrder, NEW t \in Tasks, tasks[t].at # "done"
  PROVE  /\ t = Len(tasks) /\ tasks[t] = Newest /\ closing = {} /\ tasks # <<>>
         /\ boot = "starting" => inbox = <<>>
<1>1. t = Len(tasks) /\ ~AllDone
  BY DEF InOrder, AllDone
<1> QED
  BY <1>1 DEF InOrder, InboxInOrder, Newest, Tasks

\* What is stopping is what somebody waits for.
LEMMA StoppingIsAwaited ==
  ASSUME Process, BootSound, InOrder, exit = "no", NEW s \in Servers, servers[s].phase = "stopping"
  PROVE  /\ Len(tasks) \in Tasks
         /\ \/ Newest.at = "stopping" /\ s \in Newest.waits /\ closing = {}
            \/ Newest.at = "done" /\ AllDone /\ s \in closing /\ \A t \in Tasks : s \notin tasks[t].waits
         /\ boot = "starting" /\ inbox = <<>>
<1>1. boot = "starting" /\ tasks # <<>> /\ Len(tasks) \in Tasks /\ Newest \in ATask(Servers)
  BY Booted, Members DEF InOrder, Process, Newest
<1>2. s \in Running
  BY <1>1 DEF InOrder
<1>3. CASE Newest.at = "stopping"
  <2>1. closing = {} /\ inbox = <<>>
    BY <1>1, <1>3, OneUnderWay DEF Newest
  <2> QED
    BY <1>1, <1>2, <1>3, <2>1 DEF Running
<1>4. CASE Newest.at \in Apis
  <2>1. Starting(Len(tasks)) /\ closing = {}
    BY <1>1, <1>4, TasksStart, OneUnderWay DEF Newest, Apis
  <2>2. s # Newest.server
    BY <2>1 DEF Starting, Newest
  <2>3. Newest.at = "outbound" => s # held["inbound"]
    BY <1>1, <2>1 DEF Process, NewestServes, Serves
  <2> QED
    BY <1>2, <1>4, <2>2, <2>3 DEF Running, Apis
<1>5. CASE Newest.at = "done"
  <2>1. AllDone
    BY <1>1, <1>5 DEF InOrder, AllDone, Newest
  <2>2. closing # {}
    <3>1. closing = {} => servers[s].phase = "started"
      BY <1>2, <1>5, <2>1, BothServe DEF Running
    <3> QED
      BY <3>1
  <2>3. \A t \in Tasks : s \notin tasks[t].waits
    BY <2>1 DEF AllDone, Process, StopsSound
  <2>4. s \in closing /\ inbox = <<>>
    BY <1>1, <1>2, <1>5, <2>2 DEF Running, InOrder, InboxInOrder
  <2> QED
    BY <1>1, <1>5, <2>1, <2>3, <2>4
<1> QED
  BY <1>1, <1>3, <1>4, <1>5 DEF ATask

\* With one thing at a time, and the process alive.
Calm == Sound /\ InOrder /\ OnItsWay /\ exit = "no" /\ ~hurried

\* A connection of a server.
LEMMA ClientCalm ==
  ASSUME Calm, NEW s \in Servers, NEW c \in Clients, ClientBecomes(s, c)
  PROVE  Ordered'
<1>1. /\ Servers' = Servers /\ \A u \in Servers : servers'[u].phase = servers[u].phase
      /\ UNCHANGED <<agentVars, boot, held, tasks, closing, exit, hurried>>
  BY ClientChanged DEF Changed, ClientBecomes, Calm, Sound, Process, ProcessTyped
<1>2. Tasks' = Tasks /\ Newest' = Newest /\ Running' = Running /\ AllDone' = AllDone
  BY <1>1 DEF Tasks, Newest, Running, Held, AllDone
<1>3. InOrder'
  BY <1>1, <1>2 DEF Calm, InOrder, InboxInOrder, agentVars
<1>4. OnItsWay'
  BY <1>1, <1>2 DEF Calm, OnItsWay, Reconfigures, Current, Emitted, agentVars
<1> QED
  BY <1>1, <1>3, <1>4, AllInOrder DEF Calm

\* What runs changes, and the message under way has been handled.
LEMMA RunsOn ==
  ASSUME Calm, Process', tasks # <<>>, UNCHANGED <<agentVars, boot, exit>>,
         boot = "starting", inbox = <<>>, Len(tasks)' = Len(tasks), Tasks' = Tasks,
         Newest'.conf = Newest.conf,
         \A t \in Tasks : t # Len(tasks) => tasks'[t] = tasks[t],
         closing' # {} => AllDone',
         \A s \in Servers' : s \in Running' \/ servers'[s].phase = "stopped"
  PROVE  Ordered'
<1>1. InboxInOrder'
  BY DEF Calm, InOrder, InboxInOrder, agentVars
<1>2. tasks' # <<>>
  BY Members, EmptySeq DEF Calm, Sound, Process, ProcessTyped
<1>3. InOrder'
  BY <1>1, <1>2 DEF Calm, InOrder
<1>4. OnItsWay'
  BY DEF Calm, OnItsWay, Current, agentVars
<1> QED
  BY <1>3, <1>4, AllInOrder DEF Calm

\* A restart that waits for servers goes on once the last of them has stopped.
LEMMA AwaitedStops ==
  ASSUME Calm, NEW s \in Servers, NEW t \in Tasks, StopDone(s), s \in tasks[t].waits, Process',
         IF Resolves(tasks[t].waits, s) THEN StartServer(t, "inbound", Stopped(s))
         ELSE servers' = Stopped(s) /\ tasks' = [tasks EXCEPT ![t].waits = @ \ {s}]
  PROVE  Ordered'
<1>1. /\ servers[s].phase = "stopping" /\ closing' = closing \ {s}
      /\ exit' = IF Resolves(closing, s) THEN "clean" ELSE exit
      /\ UNCHANGED <<agentVars, managed, boot, held, drops, hurried>>
  BY DEF StopDone
<1>2. tasks[t].at = "stopping" /\ t = Len(tasks) /\ tasks[t] = Newest /\ tasks # <<>>
  BY OneUnderWay DEF Calm, Sound, Process, StopsSound
<1>3. Newest.at = "stopping" /\ closing = {} /\ boot = "starting" /\ inbox = <<>>
  BY <1>1, <1>2, StoppingIsAwaited DEF Calm, Sound
<1>4. closing' = {} /\ exit' = exit
  BY <1>1, <1>3 DEF Resolves
<1>5. \A u \in Servers : u \in Newest.waits \/ servers[u].phase = "stopped"
  BY <1>2, <1>3 DEF Calm, InOrder, Running
<1>6. /\ Stopped(s) \in Seq(AServer) /\ Len(Stopped(s)) = Len(servers)
      /\ DOMAIN Stopped(s) = Servers
      /\ \A u \in Servers \ {s} : Stopped(s)[u] = servers[u]
      /\ Stopped(s)[s].phase = "stopped"
  BY StoppedServer DEF Calm, Sound, Process, ProcessTyped
<1>7. CASE Newest.waits = {s}
  <2>1. Started(t, "inbound", Stopped(s)) /\ Len(tasks)' = Len(tasks)
    BY <1>2, <1>6, <1>7, ServerStarted DEF Calm, Sound, Process, ProcessTyped, Resolves, Apis
  <2>2. /\ Newest'.conf = Newest.conf /\ Newest'.at = "inbound"
        /\ Newest'.server \notin Servers /\ Servers' = Servers \union {Newest'.server}
    BY <1>2, <2>1 DEF Started, Newest
  <2>3. Running' = {Newest'.server}
    BY <2>2 DEF Running
  <2>4. \A u \in Servers : servers'[u].phase = "stopped"
    BY <1>5, <1>6, <1>7, <2>1 DEF Started
  <2>5. Tasks' = Tasks /\ \A u \in Tasks : u # Len(tasks) => tasks'[u] = tasks[u]
    BY <1>2, <2>1 DEF Started
  <2> QED
    BY <1>1, <1>2, <1>3, <1>4, <2>1, <2>2, <2>3, <2>4, <2>5, RunsOn
<1>8. CASE Newest.waits # {s}
  <2>1. servers' = Stopped(s) /\ tasks' = [tasks EXCEPT ![t].waits = @ \ {s}] /\ Servers' = Servers
    BY <1>2, <1>6, <1>8 DEF Resolves, Servers
  <2>2. /\ Tasks' = Tasks /\ Len(tasks)' = Len(tasks)
        /\ \A u \in Tasks \ {t} : tasks'[u] = tasks[u]
        /\ tasks'[t].conf = tasks[t].conf /\ tasks'[t].at = tasks[t].at
        /\ tasks'[t].waits = tasks[t].waits \ {s}
    BY <2>1, TaskWaits DEF Calm, Sound, Process, ProcessTyped
  <2>3. /\ Newest'.conf = Newest.conf /\ Newest'.at = "stopping"
        /\ Newest'.waits = Newest.waits \ {s}
    BY <1>2, <1>3, <2>2 DEF Newest
  <2>4. Running' = Newest.waits \ {s}
    BY <2>3 DEF Running
  <2>5. \A u \in Servers : u \in Running' \/ servers'[u].phase = "stopped"
    BY <1>5, <1>6, <2>1, <2>4
  <2> QED
    BY <1>1, <1>2, <1>3, <1>4, <2>1, <2>2, <2>3, <2>5, RunsOn
<1> QED
  BY <1>7, <1>8

\* The handler of SIGTERM exits once the last server has stopped.
LEMMA StopDoneCalm ==
  ASSUME Calm, NEW s \in Servers, StopDone(s), Process'
  PROVE  Ordered'
<1>1. /\ servers[s].phase = "stopping" /\ closing' = closing \ {s}
      /\ exit' = IF Resolves(closing, s) THEN "clean" ELSE exit
      /\ UNCHANGED <<agentVars, managed, boot, held, drops, hurried>>
  BY DEF StopDone
<1>2. CASE \A t \in Tasks : s \notin tasks[t].waits
  <2>1. servers' = Stopped(s) /\ tasks' = tasks
    BY <1>2 DEF StopDone
  <2>2. /\ Newest.at = "done" /\ AllDone /\ s \in closing /\ tasks # <<>> /\ Len(tasks) \in Tasks
        /\ boot = "starting" /\ inbox = <<>>
    BY <1>1, <1>2, StoppingIsAwaited DEF Calm, Sound, AllDone, Newest
  <2>3. \A u \in Servers : u \in closing \/ servers[u].phase = "stopped"
    BY <2>2 DEF Calm, InOrder, Running
  <2>4. /\ Servers' = Servers /\ Tasks' = Tasks /\ Newest' = Newest /\ AllDone'
        /\ servers'[s].phase = "stopped" /\ \A u \in Servers \ {s} : servers'[u] = servers[u]
    BY <2>1, <2>2, StoppedServer DEF Calm, Sound, Process, ProcessTyped, Servers, Tasks, Newest, AllDone
  <2>5. \A u \in Servers : u \in closing' \/ servers'[u].phase = "stopped"
    BY <1>1, <2>3, <2>4
  <2>6. CASE closing = {s}
    <3>1. exit' = "clean" /\ \A u \in Servers' : servers'[u].phase = "stopped"
      BY <1>1, <2>4, <2>5, <2>6 DEF Resolves
    <3> QED
      BY <3>1 DEF Ordered, OneAtATime, OnItsWay
  <2>7. CASE closing # {s}
    <3>1. closing' # {} /\ exit' = exit
      BY <1>1, <2>2, <2>7 DEF Resolves
    <3>2. Running' = closing'
      BY <2>2, <2>4, <3>1 DEF Running
    <3> QED
      BY <1>1, <2>1, <2>2, <2>4, <2>5, <3>1, <3>2, RunsOn
  <2> QED
    BY <2>6, <2>7
<1>3. ASSUME NEW t \in Tasks, s \in tasks[t].waits,
             IF Resolves(tasks[t].waits, s) THEN StartServer(t, "inbound", Stopped(s))
             ELSE servers' = Stopped(s) /\ tasks' = [tasks EXCEPT ![t].waits = @ \ {s}]
      PROVE  Ordered'
  BY <1>3, AwaitedStops
<1> QED
  BY <1>2, <1>3 DEF StopDone

\* A server listens, the other one started before it or is the next.
LEMMA ListenCalm ==
  ASSUME Calm, NEW t \in Tasks, Listen(t), Process'
  PROVE  Ordered'
<1> DEFINE s == tasks[t].server
           ss == [servers EXCEPT ![s].phase = "started"]
<1>1. tasks[t].at \in Apis /\ s \in Servers /\ tasks[t].at # "done"
  BY Members DEF Listen, Registered, Apis, Calm, Sound, Process
<1>2. t = Len(tasks) /\ tasks[t] = Newest /\ closing = {} /\ tasks # <<>> /\ boot = "starting" /\ inbox = <<>>
  BY <1>1, OneUnderWay, Booted DEF Calm, Sound
<1>3. UNCHANGED <<agentVars, boot, closing, exit, hurried>> /\ held' = [held EXCEPT ![tasks[t].at] = s]
  BY DEF Listen, Hold
<1>4. held \in [Apis -> {0} \union Servers]
  BY DEF Calm, Sound, Process, ProcessTyped
<1>5. /\ ss \in Seq(AServer) /\ Len(ss) = Len(servers) /\ DOMAIN ss = Servers
      /\ \A u \in Servers \ {s} : ss[u] = servers[u]
  BY <1>1, StartedServer DEF Calm, Sound, Process, ProcessTyped
<1>6. \A u \in Servers : u \in Running \/ servers[u].phase = "stopped"
  BY <1>2 DEF Calm, InOrder
<1> HIDE DEF ss
<1>7. CASE tasks[t].at = "inbound"
  <2>1. StartServer(t, "outbound", ss)
    BY <1>7 DEF Listen, ss
  <2>2. Started(t, "outbound", ss) /\ Len(tasks)' = Len(tasks)
    BY <1>5, <2>1, ServerStarted DEF Calm, Sound, Process, ProcessTyped, Apis
  <2>3. /\ Newest'.conf = Newest.conf /\ Newest'.at = "outbound"
        /\ Newest'.server \notin Servers /\ Servers' = Servers \union {Newest'.server}
    BY <1>2, <2>2 DEF Started, Newest
  <2>4. held'["inbound"] = s
    BY <1>3, <1>4, <1>7 DEF Apis
  <2>5. Running' = {Newest'.server, s}
    BY <2>3, <2>4 DEF Running
  <2>6. \A u \in Servers \ {s} : servers'[u].phase = "stopped"
    BY <1>2, <1>5, <1>6, <1>7, <2>2 DEF Started, Running
  <2>7. Tasks' = Tasks /\ \A u \in Tasks : u # Len(tasks) => tasks'[u] = tasks[u]
    BY <1>2, <2>2 DEF Started
  <2> QED
    BY <1>2, <1>3, <2>2, <2>3, <2>5, <2>6, <2>7, RunsOn
<1>8. CASE tasks[t].at = "outbound"
  <2>1. servers' = ss /\ tasks' = [tasks EXCEPT ![t].at = "done", ![t].server = 0] /\ Servers' = Servers
    BY <1>5, <1>8 DEF Listen, ss, Servers
  <2>2. /\ Tasks' = Tasks /\ Len(tasks)' = Len(tasks)
        /\ \A u \in Tasks \ {t} : tasks'[u] = tasks[u]
        /\ tasks'[t].conf = tasks[t].conf /\ tasks'[t].at = "done"
    BY <2>1, TaskDone DEF Calm, Sound, Process, ProcessTyped
  <2>3. Newest'.conf = Newest.conf /\ Newest'.at = "done"
    BY <1>2, <2>2 DEF Newest
  <2>4. held'["outbound"] = s /\ held'["inbound"] = held["inbound"]
    BY <1>3, <1>4, <1>8 DEF Apis
  <2>5. Running' = {held["inbound"], s}
    <3>1. Held' = {held["inbound"], s}
      BY <2>4 DEF Held, Apis
    <3> QED
      BY <1>2, <1>3, <2>3, <3>1 DEF Running
  <2>6. Running = {s, held["inbound"]}
    BY <1>2, <1>8 DEF Running
  <2>7. \A u \in Servers : u \in Running' \/ servers'[u].phase = "stopped"
    BY <1>5, <1>6, <2>1, <2>5, <2>6
  <2>8. \A u \in Tasks : u # Len(tasks) => tasks'[u] = tasks[u]
    BY <1>2, <2>2
  <2>9. closing' = {} /\ exit' = exit
    BY <1>2, <1>3
  <2> QED
    BY <1>2, <1>3, <2>1, <2>2, <2>3, <2>7, <2>8, <2>9, RunsOn
<1> QED
  BY <1>1, <1>7, <1>8 DEF Apis

\* No port is taken.
LEMMA PortIsFree ==
  ASSUME Calm, NEW t \in Tasks, PortTaken(t)
  PROVE  FALSE
<1>1. /\ tasks[t].at \in Apis /\ tasks[t].at # "done"
      /\ InUse(tasks[t].at) /\ Starting(t)
  BY TasksStart DEF PortTaken, Registered, Apis, Calm, Sound
<1>2. tasks[t] = Newest /\ closing = {} /\ tasks # <<>>
  BY <1>1, OneUnderWay DEF Calm, Sound
<1>3. PICK s \in Servers : servers[s].api = tasks[t].at /\ servers[s].phase = "started"
  BY <1>1 DEF InUse
<1>4. s \in Running /\ s # tasks[t].server
  BY <1>1, <1>2, <1>3 DEF Calm, InOrder, Starting
<1>5. tasks[t].at = "outbound" /\ s = held["inbound"]
  BY <1>1, <1>2, <1>4 DEF Running, Apis
<1>6. s # 0
  <2>1. s \in Nat \ {0}
    BY <1>3, Members DEF Calm, Sound, Process
  <2> QED
    BY <2>1
<1>7. servers[s].api = "inbound"
  BY <1>5, <1>6 DEF Calm, Sound, Process, ProcessTyped, Apis
<1> QED
  BY <1>3, <1>5, <1>7

\* initialize() with a control client: nothing runs before it has the configuration.
LEMMA NothingYet ==
  ASSUME Calm, boot # "starting"
  PROVE  tasks = <<>> /\ Tasks = {} /\ Servers = {} /\ closing = {} /\ ~AllDone
<1>1. tasks = <<>> /\ servers = <<>> /\ closing = {}
  BY DEF Calm, Sound, BootSound
<1> QED
  BY <1>1, Members, EmptySeq DEF Calm, Sound, Process, ProcessTyped, Servers, Tasks, AllDone

LEMMA BootCalm ==
  ASSUME Calm, boot # "starting", boot' # "starting", exit' = "no", InboxInOrder', OnItsWay',
         UNCHANGED <<servers, tasks, closing>>
  PROVE  Ordered'
<1>1. tasks' = <<>> /\ Tasks' = {} /\ closing' = {}
  BY NothingYet DEF Tasks
<1>2. InOrder'
  BY <1>1 DEF InOrder
<1> QED
  BY <1>2, AllInOrder

LEMMA ConfiguredCalm ==
  ASSUME Calm, Configured
  PROVE  Ordered'
<1>1. /\ servers' = <<NewServer("inbound", appConfig')>>
      /\ tasks' = <<[conf |-> appConfig', at |-> "inbound", waits |-> {}, server |-> 1]>>
      /\ appConfig' = Merge(appConfig, taken)
      /\ boot = "read" /\ boot' = "starting"
      /\ UNCHANGED <<socket, inbox, asked, mgmt, last, closing, exit, hurried>>
  BY DEF Configured
<1>2. /\ Servers' = {1} /\ Tasks' = {1} /\ Len(tasks)' = 1 /\ tasks' # <<>>
      /\ Newest' = [conf |-> appConfig', at |-> "inbound", waits |-> {}, server |-> 1]
  BY <1>1 DEF Servers, Tasks, Newest
<1>3. Running' = {1}
  BY <1>2 DEF Running
<1>4. inbox' = <<>> /\ ~asked' /\ closing' = {}
  BY <1>1, NothingYet DEF Calm, InOrder, InboxInOrder
<1>5. InOrder'
  BY <1>1, <1>2, <1>3, <1>4 DEF InOrder, InboxInOrder
<1>6. socket = "open" => appConfig' = mgmt
  <2>1. socket = "open" => taken = mgmt
    BY <1>1 DEF Calm, OnItsWay
  <2>2. DOMAIN mgmt = Parts /\ appConfig \in Configuration /\ taken \in PartOfOne
    BY DEF Calm, Sound, Agent, AgentTypeOK, Configuration
  <2> QED
    BY <1>1, <2>1, <2>2, Merged
<1>7. OnItsWay'
  BY <1>1, <1>2, <1>4, <1>6 DEF OnItsWay, Current
<1> QED
  BY <1>1, <1>5, <1>7, AllInOrder DEF Calm

LEMMA BootStepsCalm ==
  ASSUME Calm, Connect \/ AskConfiguration \/ AnswerRead \/ Configured
  PROVE  Ordered'
<1>1. CASE Connect
  <2>1. boot = "connecting" /\ boot' = "sending"
    BY <1>1 DEF Connect, Opened, Calm, Sound, BootSound
  <2>2. InboxInOrder'
    BY <1>1, <2>1 DEF Connect, Opened, Calm, InOrder, InboxInOrder
  <2>3. OnItsWay'
    BY <2>1 DEF OnItsWay
  <2> QED
    BY <1>1, <2>1, <2>2, <2>3, BootCalm DEF Connect
<1>2. CASE AskConfiguration
  <2>1. boot = "sending" /\ boot' = "reading" /\ inbox = <<>> /\ inbox' = inbox
    BY <1>2 DEF AskConfiguration, ReadConfiguration, Calm, InOrder, InboxInOrder
  <2>2. InboxInOrder'
    BY <2>1 DEF InboxInOrder
  <2>3. OnItsWay'
    BY <2>1 DEF OnItsWay
  <2> QED
    BY <1>2, <2>1, <2>2, <2>3, BootCalm DEF AskConfiguration
<1>3. CASE AnswerRead
  <2>1. /\ boot \in {"connecting", "sending", "reading", "read", "starting"}
        /\ asked /\ UNCHANGED processVars
    BY <1>3 DEF AnswerRead, Answer, Calm, Sound, Process, ProcessTyped
  <2>2. boot = "reading" /\ boot' = "reading" /\ inbox = <<>>
    BY <2>1 DEF processVars, Calm, InOrder, InboxInOrder
  <2>3. Len(inbox') = 1 /\ Head(inbox') = Message("NOTIFY", mgmt) /\ ~asked' /\ mgmt' = mgmt
    BY <1>3, <2>2, AnswerAgent DEF AnswerRead, Answer, Calm, Sound
  <2>4. InboxInOrder'
    BY <2>2, <2>3 DEF InboxInOrder
  <2>5. OnItsWay'
    BY <2>2, <2>3 DEF OnItsWay
  <2> QED
    BY <2>1, <2>2, <2>4, <2>5, BootCalm DEF processVars, Calm
<1>4. CASE Configured
  BY <1>4, ConfiguredCalm
<1> QED
  BY <1>1, <1>2, <1>3, <1>4

\* At rest nothing runs but the two servers held.
LEMMA HeldAtRest ==
  ASSUME Calm, AllDone, closing = {}
  PROVE  /\ tasks # <<>> /\ boot = "starting" /\ ~asked /\ StopFails = "no" /\ Newest.at = "done"
         /\ \A s \in Servers : s \in Held \/ servers[s].phase = "stopped"
<1>1. tasks # <<>> /\ boot = "starting" /\ StopFails = "no" /\ Newest.at = "done"
  BY BothServe, Booted DEF AllDone, Calm, Sound
<1>2. Running = Held
  BY <1>1 DEF Running
<1> QED
  BY <1>1, <1>2 DEF Calm, InOrder, InboxInOrder

\* A restart begins at rest: both servers are to stop, and nothing else runs.
LEMMA RestartCalm ==
  ASSUME Calm, AllDone, closing = {}, NEW conf \in Configuration, Restart(conf), inbox' = <<>>,
         UNCHANGED <<socket, asked, appConfig, mgmt, last, boot, held, closing, exit, drops, hurried>>,
         socket = "open" => Current(conf)
  PROVE  Ordered'
<1> DEFINE new == Len(tasks) + 1
<1>1. /\ tasks # <<>> /\ boot = "starting" /\ ~asked
      /\ \A s \in Servers : s \in Held \/ servers[s].phase = "stopped"
  BY HeldAtRest
<1>2. Servers' = Servers /\ Held \subseteq Servers
  BY StoppingServers DEF Restart, Calm, Sound
<1>3. \A s \in Servers : s \in Held \/ servers'[s].phase = "stopped"
  BY <1>1, BothStopping DEF Restart, Calm, Sound, Process, ProcessTyped
<1>4. /\ tasks' \in Seq(ATask(Servers')) /\ Len(tasks)' = new
      /\ Tasks' = Tasks \union {new}
      /\ \A t \in Tasks : tasks'[t] = tasks[t]
      /\ tasks'[new].conf = conf /\ tasks'[new].at = "stopping" /\ tasks'[new].waits = Held
  BY <1>2, TaskAdded DEF Restart, Calm, Sound, Process, ProcessTyped
<1>5. tasks' # <<>>
  <2>1. Len(tasks) \in Nat
    BY Members DEF Calm, Sound, Process
  <2>2. Len(tasks') # 0
    BY <1>4, <2>1
  <2> QED
    BY <2>2, EmptySeq
<1>6. Newest'.conf = conf /\ Newest'.at = "stopping" /\ Newest'.waits = Held
  BY <1>4 DEF Newest
<1>7. Running' = Held
  BY <1>6 DEF Running
<1>8. \A t \in Tasks' : t # Len(tasks') => tasks'[t].at = "done"
  BY <1>4 DEF AllDone
<1>9. InboxInOrder'
  BY <1>1 DEF InboxInOrder
<1>10. InOrder'
  BY <1>2, <1>3, <1>5, <1>7, <1>8, <1>9 DEF InOrder
<1>11. OnItsWay'
  BY <1>1, <1>6 DEF OnItsWay, Current
<1> QED
  BY <1>10, <1>11, AllInOrder DEF Calm

\* The answer to the READ reaches the receive() that waits for it.
LEMMA ReadCalm ==
  ASSUME Calm, NEW m, Delivered(m), boot = "reading", boot' = "read", UNCHANGED <<servers, tasks, closing, exit>>
  PROVE  Ordered'
<1>1. inbox # <<>> /\ Len(inbox) = 1 /\ ~asked /\ m = Head(inbox) /\ reader
  BY DEF Delivered, Arrives, Calm, InOrder, InboxInOrder, Sound, BootSound
<1>2. inbox' = <<>> /\ asked' = asked /\ taken' = Taken(m) /\ socket' = socket /\ mgmt' = mgmt
  <2>1. Tail(inbox) \in Seq(AMessage) /\ Len(Tail(inbox)) = 0
    BY <1>1, Inbox DEF Calm, Sound, Agent
  <2> QED
    BY <1>1, <2>1, EmptySeq DEF Delivered
<1>3. socket = "open" => taken' = mgmt
  BY <1>1, <1>2 DEF Calm, OnItsWay, Taken, Message
<1>4. InboxInOrder'
  BY <1>1, <1>2 DEF InboxInOrder
<1>5. OnItsWay'
  BY <1>2, <1>3 DEF OnItsWay
<1> QED
  BY <1>4, <1>5, BootCalm DEF Calm

LEMMA HandleCalm ==
  ASSUME Calm, Handle
  PROVE  Ordered'
<1>1. PICK m \in Messages :
        /\ Delivered(m)
        /\ IF Reconfigures(m) THEN Restart(Emitted(m)) ELSE UNCHANGED <<servers, tasks>>
  BY DEF Handle
<1>2. /\ boot' = IF reader THEN "read" ELSE boot
      /\ UNCHANGED <<managed, held, closing, exit, drops, hurried>>
  BY DEF Handle
<1>3. /\ inbox # <<>> /\ m = Head(inbox) /\ inbox' = Tail(inbox)
      /\ UNCHANGED <<socket, asked, appConfig, mgmt, last>>
  BY <1>1 DEF Delivered, Arrives
<1>4. boot \in {"connecting", "sending", "reading", "read", "starting"}
  BY DEF Calm, Sound, Process, ProcessTyped
<1>5. CASE boot = "reading"
  <2>1. reader /\ ~Reconfigures(m)
    BY <1>5 DEF Calm, Sound, BootSound, Reconfigures
  <2> QED
    BY <1>1, <1>2, <1>5, <2>1, ReadCalm
<1>6. CASE boot = "starting"
  <2>1. Len(inbox) = 1 /\ AllDone /\ closing = {} /\ ~reader
    BY <1>3, <1>6 DEF Calm, InOrder, InboxInOrder, Sound, BootSound
  <2>2. boot' = boot /\ Emitted(m) \in Configuration
    BY <1>1, <1>2, <2>1, DeliveredAgent DEF Calm, Sound
  <2>3. inbox' = <<>>
    <3>1. Tail(inbox) \in Seq(AMessage) /\ Len(Tail(inbox)) = 0
      BY <1>3, <2>1, Inbox DEF Calm, Sound, Agent
    <3> QED
      BY <1>3, <3>1, EmptySeq
  <2>4. CASE Reconfigures(m)
    <3>1. socket = "open" => Current(Emitted(m))
      BY <1>3, <1>6, <2>4 DEF Calm, OnItsWay
    <3> QED
      BY <1>1, <1>2, <1>3, <2>1, <2>2, <2>3, <2>4, <3>1, RestartCalm
  <2>5. CASE ~Reconfigures(m)
    <3>1. servers' = servers /\ tasks' = tasks /\ Tasks' = Tasks /\ Servers' = Servers
      BY <1>1, <2>5 DEF Tasks, Servers
    <3>2. Newest' = Newest /\ Running' = Running /\ AllDone' = AllDone
      BY <1>2, <3>1 DEF Newest, Running, Held, AllDone
    <3>3. InOrder'
      BY <1>2, <1>3, <1>6, <2>1, <2>2, <2>3, <3>1, <3>2 DEF Calm, InOrder, InboxInOrder
    <3>4. OnItsWay'
      BY <1>2, <1>3, <1>6, <2>2, <2>3, <2>5, <3>2 DEF Calm, OnItsWay, Current
    <3> QED
      BY <1>2, <3>3, <3>4, AllInOrder DEF Calm
  <2> QED
    BY <2>4, <2>5
<1> QED
  BY <1>3, <1>4, <1>5, <1>6 DEF Calm, InOrder, InboxInOrder

\* A message to the process at rest is the only one, and stands for what changed.
LEMMA SentCalm ==
  ASSUME Calm, AtRest, Len(inbox') = 1, asked' = asked, socket' = socket, appConfig' = appConfig,
         UNCHANGED <<boot, servers, held, tasks, closing, exit>>,
         IF Head(inbox').verb \in {"NOTIFY", "PATCH"} THEN (Current(Emitted(Head(inbox))))'
         ELSE mgmt' = mgmt /\ last' = last
  PROVE  Ordered'
<1>1. /\ AllDone /\ inbox = <<>> /\ closing = {} /\ boot = "starting" /\ ~asked /\ tasks # <<>>
  BY HeldAtRest DEF AtRest
<1>2. Servers' = Servers /\ Tasks' = Tasks /\ Newest' = Newest /\ Running' = Running /\ AllDone'
  BY <1>1 DEF Servers, Tasks, Newest, Running, Held, AllDone
<1>3. InOrder'
  BY <1>1, <1>2 DEF Calm, InOrder, InboxInOrder
<1>4. CASE Head(inbox').verb \in {"NOTIFY", "PATCH"}
  <2>1. inbox' # <<>>
    BY EmptySeq
  <2>2. (Reconfigures(Head(inbox)))' /\ (Current(Emitted(Head(inbox))))'
    BY <1>1, <1>4 DEF Reconfigures
  <2>3. OnItsWay'
    BY <1>1, <2>1, <2>2 DEF OnItsWay
  <2> QED
    BY <1>3, <2>3, AllInOrder DEF Calm
<1>5. CASE Head(inbox').verb \notin {"NOTIFY", "PATCH"}
  <2>1. socket = "open" => Current(Newest.conf)
    BY <1>1 DEF Calm, OnItsWay
  <2>2. OnItsWay'
    BY <1>1, <1>2, <1>5, <2>1 DEF OnItsWay, Reconfigures, Current
  <2> QED
    BY <1>3, <2>2, AllInOrder DEF Calm
<1> QED
  BY <1>4, <1>5

LEMMA PushCalm ==
  ASSUME Calm, AtRest, NEW verb \in {"NOTIFY", "PATCH"}, NEW p \in Parts, PushConfiguration(verb, p)
  PROVE  Ordered'
<1>1. /\ exit = "no" /\ Push(verb, p)
      /\ UNCHANGED <<managed, boot, servers, held, tasks, closing, exit, drops>>
  BY DEF PushConfiguration, Sent
<1>2. /\ asked' = asked /\ socket' = socket /\ appConfig' = appConfig
      /\ last' = [how |-> verb, part |-> p]
  BY <1>1 DEF Push
<1>3. inbox = <<>> /\ Len(inbox) = 0 /\ appConfig \in Configuration
  BY EmptySeq DEF AtRest, Calm, Sound, Agent, AgentTypeOK
<1>4. /\ Len(inbox') = 1 /\ mgmt' \in Configuration
      /\ Head(inbox') = Message(verb, IF verb = "PATCH" THEN [q \in {p} |-> mgmt'[q]] ELSE mgmt')
  <2>1. /\ Len(inbox') = Len(inbox) + 1 /\ mgmt' \in Configuration
        /\ Head(inbox') = Message(verb, IF verb = "PATCH" THEN [q \in {p} |-> mgmt'[q]] ELSE mgmt')
    BY <1>1, <1>3, PushAgent, Zenon DEF Calm, Sound
  <2>2. Len(inbox') = 1
    BY <1>3, <2>1
  <2> QED
    BY <2>1, <2>2
<1>5. (Current(Emitted(Head(inbox))))'
  <2>1. CASE verb = "NOTIFY"
    <3>1. Head(inbox').data = mgmt' /\ DOMAIN mgmt' = Parts /\ mgmt' \in PartOfOne
      BY <1>4, <2>1, PartsOfOne DEF Message, Configuration
    <3>2. Merge(appConfig, mgmt') = mgmt'
      BY <1>3, <3>1, Merged
    <3> QED
      BY <1>2, <3>1, <3>2 DEF Current, Emitted
  <2>2. CASE verb = "PATCH"
    <3> DEFINE data == [q \in {p} |-> mgmt'[q]]
    <3>1. Head(inbox').data = data
      BY <1>4, <2>2 DEF Message
    <3>2. data \in [{p} -> Versions] /\ {p} \in SUBSET Parts
      BY <1>4 DEF Configuration
    <3>3. data \in PartOfOne
      BY <3>2 DEF PartOfOne
    <3>4. p \in DOMAIN data /\ data[p] = mgmt'[p]
      OBVIOUS
    <3> HIDE DEF data
    <3>5. Merge(appConfig, data)[p] = mgmt'[p]
      BY <1>3, <3>3, <3>4, Merged
    <3> QED
      BY <1>2, <2>2, <3>1, <3>5 DEF Current, Emitted
  <2> QED
    BY <2>1, <2>2
<1>6. Head(inbox').verb = verb
  BY <1>4 DEF Message
<1> QED
  BY <1>1, <1>2, <1>4, <1>5, <1>6, SentCalm

LEMMA OutsideCalm ==
  ASSUME Calm,
         \/ \E p \in Parts : PushConfiguration("NOTIFY", p) \/ PushConfiguration("PATCH", p)
         \/ PushAnother("unsupported") \/ PushAnother("unreadable")
         \/ LoseSocket
  PROVE  Ordered'
<1>1. ASSUME NEW verb \in {"NOTIFY", "PATCH"}, NEW p \in Parts, PushConfiguration(verb, p)
      PROVE  Ordered'
  <2>1. CASE AtRest
    BY <1>1, <2>1, PushCalm
  <2>2. CASE ~AtRest
    BY <1>1, <2>2 DEF PushConfiguration, Sent, Calm, Ordered, OneAtATime, OnItsWay
  <2> QED
    BY <2>1, <2>2
<1>2. ASSUME NEW verb \in {"unsupported", "unreadable"}, PushAnother(verb)
      PROVE  Ordered'
  <2>1. CASE AtRest
    <3>1. inbox = <<>> /\ Len(inbox) = 0
      BY <2>1, EmptySeq DEF AtRest
    <3>2. Len(inbox') = 1 /\ Head(inbox').verb = verb
      BY <1>2, <3>1, PushOtherAgent DEF PushAnother, Sent, Calm, Sound
    <3> QED
      BY <1>2, <2>1, <3>2, SentCalm DEF PushAnother, Sent, PushOther
  <2>2. CASE ~AtRest
    BY <1>2, <2>2 DEF PushAnother, Sent, Calm, Ordered, OneAtATime, OnItsWay
  <2> QED
    BY <2>1, <2>2
<1>3. CASE LoseSocket
  <2>1. socket' = "lost" /\ inbox' = <<>> /\ asked' = asked /\ UNCHANGED processVars
    BY <1>3 DEF LoseSocket, SocketLost
  <2>2. /\ Servers' = Servers /\ Tasks' = Tasks /\ Newest' = Newest /\ Running' = Running
        /\ AllDone' = AllDone
    BY <2>1 DEF processVars, Servers, Tasks, Newest, Running, Held, AllDone
  <2>3. InOrder'
    BY <2>1, <2>2 DEF processVars, Calm, InOrder, InboxInOrder
  <2>4. OnItsWay'
    BY <2>1 DEF OnItsWay
  <2> QED
    BY <2>1, <2>3, <2>4, AllInOrder DEF processVars, Calm
<1> QED
  BY <1>1, <1>2, <1>3

\* SIGTERM to the process at rest: both servers stop, and nothing else runs.
LEMMA SigtermCalm ==
  ASSUME Calm, Sigterm \/ SigtermFails
  PROVE  Ordered'
<1>1. hurried' = (hurried \/ ~AtRest)
  BY DEF Sigterm, SigtermFails, TermSignal
<1>2. CASE ~AtRest
  BY <1>1, <1>2 DEF Ordered, OneAtATime, OnItsWay
<1>3. CASE AtRest /\ Sigterm
  <2>1. /\ AllDone /\ inbox = <<>> /\ closing = {} /\ boot = "starting" /\ ~asked /\ tasks # <<>>
        /\ StopFails = "no" /\ Newest.at = "done"
        /\ \A s \in Servers : s \in Held \/ servers[s].phase = "stopped"
    BY <1>3, HeldAtRest DEF AtRest
  <2>2. /\ servers' = StoppingBoth /\ closing' = Held /\ inbox' = inbox /\ asked' = asked
        /\ socket' # "open" /\ UNCHANGED <<boot, tasks, exit>>
    BY <1>3 DEF Sigterm, StopAgent
  <2>3. Servers' = Servers /\ \A s \in Servers : s \in Held \/ servers'[s].phase = "stopped"
    BY <2>1, <2>2, BothStopping DEF Calm, Sound, Process, ProcessTyped
  <2>4. Tasks' = Tasks /\ Newest' = Newest /\ AllDone' = AllDone /\ Held # {}
    BY <2>2 DEF Tasks, Newest, AllDone, Held, Apis
  <2>5. Running' = Held
    BY <2>1, <2>2, <2>4 DEF Running
  <2>6. InOrder'
    BY <2>1, <2>2, <2>3, <2>4, <2>5 DEF Calm, InOrder, InboxInOrder
  <2>7. OnItsWay'
    BY <2>2 DEF OnItsWay
  <2> QED
    BY <2>2, <2>6, <2>7, AllInOrder DEF Calm
<1>4. CASE AtRest /\ SigtermFails
  <2>1. StopFails = "no"
    BY <1>4, HeldAtRest DEF AtRest
  <2>2. Dies("unhandled")
    BY <1>4, <2>1 DEF SigtermFails
  <2> QED
    BY <2>2, DeadInOrder DEF Dies
<1> QED
  BY <1>2, <1>3, <1>4

\* The process dies of nothing but what the surroundings do.
LEMMA DeathsCalm ==
  ASSUME Calm, HandleFails \/ StartFails \/ \E s \in Servers : ConnectTimeout(s)
  PROVE  Ordered'
<1>1. CASE HandleFails
  <2>1. PICK m \in Messages :
          /\ Arrives(m)
          /\ \/ m.verb = "unreadable" /\ Dies("message")
             \/ Reconfigures(m) /\ StopFails # "no" /\ Dies(StopFails)
    BY <1>1 DEF HandleFails
  <2>2. Reconfigures(m) => StopFails = "no"
    <3>1. Reconfigures(m) => boot = "starting" /\ inbox # <<>>
      BY <2>1 DEF Arrives, Reconfigures
    <3>2. Reconfigures(m) => AllDone /\ closing = {}
      BY <3>1 DEF Calm, InOrder, InboxInOrder
    <3> QED
      BY <3>2, HeldAtRest
  <2>3. Dies("message")
    BY <2>1, <2>2
  <2> QED
    BY <2>3, DeadInOrder DEF Dies
<1>2. CASE StartFails \/ \E s \in Servers : ConnectTimeout(s)
  <2>1. Dies("failed")
    BY <1>2 DEF StartFails, ConnectTimeout
  <2> QED
    BY <2>1, DeadInOrder DEF Dies
<1> QED
  BY <1>1, <1>2

\* Only a process that is alive does anything, and what came early has come early.
LEMMA OnlyTheLiving ==
  ASSUME Next
  PROVE  exit = "no" /\ (hurried => hurried')
<1> DEFINE Goal == exit = "no" /\ (hurried => hurried')
<1>1. CASE Connect \/ AskConfiguration \/ AnswerRead \/ Configured \/ Handle \/ LoseSocket
  BY <1>1 DEF Connect, AskConfiguration, AnswerRead, Configured, Handle, LoseSocket, processVars
<1>2. CASE HandleFails \/ StartFails
  BY <1>2 DEF HandleFails, StartFails, Dies
<1>3. ASSUME NEW s \in Servers,
             \/ StopDone(s) \/ ConnectError(s) \/ Ready(s) \/ ConnectTimeout(s)
             \/ ConnectionLost(s) \/ ConnectionBack(s)
      PROVE  Goal
  BY <1>3 DEF StopDone, ConnectError, Ready, ConnectTimeout, ConnectionLost, ConnectionBack, ClientBecomes, Dies
<1>4. ASSUME NEW t \in Tasks, Listen(t) \/ PortTaken(t)
      PROVE  Goal
  BY <1>4 DEF Listen, PortTaken, Dies
<1>5. ASSUME NEW p \in Parts, PushConfiguration("NOTIFY", p) \/ PushConfiguration("PATCH", p)
      PROVE  Goal
  BY <1>5 DEF PushConfiguration, Sent
<1>6. CASE PushAnother("unsupported") \/ PushAnother("unreadable")
  BY <1>6 DEF PushAnother, Sent
<1>7. CASE Sigterm \/ SigtermFails
  BY <1>7 DEF Sigterm, SigtermFails, TermSignal
<1> QED
  BY <1>1, <1>2, <1>3, <1>4, <1>5, <1>6, <1>7 DEF Next

LEMMA NextOrdered ==
  ASSUME Sound, Ordered, [Next]_vars, Sound'
  PROVE  Ordered'
<1>1. CASE UNCHANGED vars
  <2>1. /\ UNCHANGED <<socket, inbox, asked, taken, appConfig, mgmt, last>>
        /\ UNCHANGED <<boot, servers, held, tasks, closing, exit, hurried>>
    BY <1>1 DEF vars, agentVars, processVars
  <2>2. /\ Servers' = Servers /\ Tasks' = Tasks /\ Newest' = Newest /\ Running' = Running
        /\ AllDone' = AllDone
    BY <2>1 DEF Servers, Tasks, Newest, Running, Held, AllDone
  <2>3. OneAtATime'
    BY <2>1, <2>2 DEF Ordered, OneAtATime, InboxInOrder
  <2>4. OnItsWay'
    BY <2>1, <2>2 DEF Ordered, OnItsWay, Reconfigures, Current, Emitted
  <2> QED
    BY <2>3, <2>4 DEF Ordered
<1>2. CASE Next /\ hurried'
  BY <1>2 DEF Ordered, OneAtATime, OnItsWay
<1>3. CASE Next /\ ~hurried'
  <2>1. Calm /\ Process'
    BY <1>3, OnlyTheLiving DEF Calm, Ordered, OneAtATime, InOrder, Sound
  <2>2. ASSUME NEW s \in Servers, ConnectError(s) \/ Ready(s) \/ ConnectionLost(s) \/ ConnectionBack(s)
        PROVE  Ordered'
    <3>1. PICK c \in Clients : ClientBecomes(s, c)
      BY <2>2 DEF ConnectError, Ready, ConnectionLost, ConnectionBack, Clients
    <3> QED
      BY <2>1, <3>1, ClientCalm
  <2> QED
    BY <1>3, <2>1, <2>2, BootStepsCalm, HandleCalm, StopDoneCalm, ListenCalm, PortIsFree, DeathsCalm,
       OutsideCalm, SigtermCalm DEF Next
<1> QED
  BY <1>1, <1>2, <1>3

-----------------------------------------------------------------------------
(* The theorems.                                                           *)

LEMMA IInvParts == IInv <=> Sound /\ Ordered /\ Unhandled
BY TypeParts DEF IInv, Sound, Agent, Process, Ordered

LEMMA InitIInv == Init => IInv
<1> SUFFICES ASSUME Init PROVE IInv
  OBVIOUS
<1>0. /\ managed \in BOOLEAN /\ AgentInit(managed)
      /\ boot = IF managed THEN "connecting" ELSE "starting"
      /\ closing = {} /\ exit = "no" /\ drops = 0 /\ hurried = FALSE
      /\ held \in [Apis -> {0}] /\ \A a \in Apis : held[a] = 0
  BY DEF Init
<1>1. Agent
  <2>1. inbox \in Seq([verb : Verbs, data : PartOfOne]) /\ taken \in PartOfOne
    BY <1>0, PartsOfOne, EmptySeq DEF AgentInit
  <2>2. (CHOOSE p \in Parts : TRUE) \in Parts
    OBVIOUS
  <2>3. last \in [how : {"never"} \union Verbs, part : Parts]
    BY <1>0, <2>2 DEF AgentInit
  <2>4. appConfig \in Configuration /\ mgmt \in Configuration /\ VersionsBounded
    BY <1>0 DEF AgentInit, Configuration, Versions, VersionsBounded
  <2>5. socket \in {"none", "opening", "open", "closing", "lost"} /\ reader \in BOOLEAN /\ asked \in BOOLEAN
    BY <1>0, Zenon DEF AgentInit
  <2>6. pushes \in 0 .. MaxPushes
    <3>1. pushes = 0
      BY <1>0 DEF AgentInit
    <3> QED
      BY <3>1
  <2> QED
    BY <2>1, <2>3, <2>4, <2>5, <2>6 DEF Agent, AgentTypeOK
<1>2. CASE managed
  <2>1. servers = <<>> /\ tasks = <<>> /\ Servers = {} /\ Tasks = {} /\ AllDone = FALSE
    BY <1>2, EmptySeq DEF Init, Servers, Tasks, AllDone
  <2>2. ProcessTyped
    <3>1. servers \in Seq(AServer) /\ tasks \in Seq(ATask(Servers))
      BY <2>1, EmptySeq
    <3>2. held \in [Apis -> {0} \union Servers] /\ boot = "connecting" /\ drops \in 0 .. MaxDrops
      BY <1>0, <1>2
    <3> QED
      BY <1>0, <2>1, <3>1, <3>2 DEF ProcessTyped
  <2>3. Unclosed = {}
    BY <2>1 DEF Unclosed
  <2>4. Process
    BY <1>0, <2>1, <2>2, <2>3, FS_EmptySet
       DEF Process, StartsSound, StopsSound, NoOrphan, NewestServes, UnclosedWereLost
  <2>5. BootSound
    BY <1>0, <1>2, <2>1 DEF BootSound, AgentInit
  <2>6. Ordered
    BY <1>0, <1>2, <2>1 DEF Ordered, OneAtATime, InboxInOrder, OnItsWay, AgentInit
  <2> QED
    BY <1>0, <1>1, <2>4, <2>5, <2>6, IInvParts DEF Sound, Unhandled
<1>3. CASE ~managed
  <2> DEFINE s == NewServer("inbound", appConfig)
             t == [conf |-> appConfig, at |-> "inbound", waits |-> {}, server |-> 1]
  <2>1. /\ servers = <<s>> /\ tasks = <<t>> /\ Servers = {1} /\ Tasks = {1}
        /\ Len(tasks) = 1 /\ servers[1] = s /\ tasks[1] = t /\ tasks # <<>>
    BY <1>3 DEF Init, Servers, Tasks
  <2>2. /\ s \in AServer /\ s.api = "inbound" /\ s.conf = appConfig
        /\ s.phase = "registering" /\ s.client = "connecting"
    BY <1>1 DEF NewServer, AServer, Apis, Phases, Clients, Agent, AgentTypeOK
  <2>3. /\ t \in ATask(Servers) /\ t.conf = appConfig /\ t.at = "inbound"
        /\ t.waits = {} /\ t.server = 1
    BY <1>1, <2>1 DEF ATask, Apis, Agent, AgentTypeOK
  <2> HIDE DEF s, t
  <2>4. ProcessTyped
    <3>1. servers \in Seq(AServer) /\ tasks \in Seq(ATask(Servers))
      <4>1. <<s>> \in Seq(AServer)
        BY <2>2
      <4>2. <<t>> \in Seq(ATask(Servers))
        BY <2>3
      <4> QED
        BY <2>1, <4>1, <4>2
    <3>2. \A u \in Tasks : /\ tasks[u].server # 0 /\ servers[tasks[u].server].api = tasks[u].at
                            /\ servers[tasks[u].server].phase = "registering"
      BY <2>1, <2>2, <2>3
    <3>3. held \in [Apis -> {0} \union Servers] /\ boot = "starting" /\ drops \in 0 .. MaxDrops
      BY <1>0, <1>3
    <3> QED
      BY <1>0, <3>1, <3>2, <3>3 DEF ProcessTyped
  <2>5. StartsSound /\ StopsSound /\ NoOrphan
    BY <2>1, <2>2, <2>3 DEF StartsSound, StopsSound, NoOrphan
  <2>6. Newest = t
    BY <2>1 DEF Newest
  <2>7. NewestServes
    BY <2>3, <2>6 DEF NewestServes
  <2>8. Unclosed = {}
    BY <2>1, <2>2 DEF Unclosed
  <2>9. Process
    BY <1>0, <2>4, <2>5, <2>7, <2>8, FS_EmptySet DEF Process, UnclosedWereLost
  <2>10. BootSound
    BY <1>0, <1>3 DEF BootSound, AgentInit
  <2>11. Running = {1}
    BY <2>3, <2>6 DEF Running
  <2>12. Ordered
    BY <1>0, <1>3, <2>1, <2>11 DEF Ordered, OneAtATime, InboxInOrder, OnItsWay, AgentInit
  <2> QED
    BY <1>0, <1>1, <2>9, <2>10, <2>12, IInvParts DEF Sound, Unhandled
<1> QED
  BY <1>2, <1>3

\* Only SIGTERM without a control client is a rejection that nobody handles.
LEMMA NextUnhandled ==
  ASSUME Unhandled, [Next]_vars
  PROVE  Unhandled'
<1> DEFINE Goal == managed' = managed /\ (exit' = "unhandled" => ~managed)
<1>0. CASE UNCHANGED vars
  BY <1>0 DEF Unhandled, vars, processVars
<1>1. CASE Connect \/ AskConfiguration \/ AnswerRead \/ Configured \/ Handle \/ LoseSocket
  BY <1>1 DEF Connect, AskConfiguration, AnswerRead, Configured, Handle, LoseSocket, processVars, Unhandled
<1>2. CASE HandleFails \/ StartFails
  BY <1>2 DEF HandleFails, StartFails, Dies, StopFails, Unhandled
<1>3. ASSUME NEW s \in Servers,
             \/ StopDone(s) \/ ConnectError(s) \/ Ready(s) \/ ConnectTimeout(s)
             \/ ConnectionLost(s) \/ ConnectionBack(s)
      PROVE  Goal
  BY <1>3 DEF StopDone, ConnectError, Ready, ConnectTimeout, ConnectionLost, ConnectionBack, ClientBecomes, Dies
<1>4. ASSUME NEW t \in Tasks, Listen(t) \/ PortTaken(t)
      PROVE  Goal
  BY <1>4 DEF Listen, PortTaken, Dies
<1>5. ASSUME NEW p \in Parts, PushConfiguration("NOTIFY", p) \/ PushConfiguration("PATCH", p)
      PROVE  Goal
  BY <1>5 DEF PushConfiguration, Sent
<1>6. CASE PushAnother("unsupported") \/ PushAnother("unreadable")
  BY <1>6 DEF PushAnother, Sent, Unhandled
<1>7. CASE Sigterm \/ SigtermFails
  BY <1>7 DEF Sigterm, SigtermFails, TermSignal, Dies, StopFails, Unhandled
<1> QED
  BY <1>0, <1>1, <1>2, <1>3, <1>4, <1>5, <1>6, <1>7 DEF Next, Unhandled

LEMMA NextIInv == IInv /\ [Next]_vars => IInv'
<1> SUFFICES ASSUME IInv, [Next]_vars PROVE IInv'
  OBVIOUS
<1>1. Sound /\ Ordered
  BY IInvParts
<1>2. Sound'
  BY <1>1, NextSound
<1>3. Ordered'
  BY <1>1, <1>2, NextOrdered
<1>4. Unhandled'
  BY NextUnhandled, IInvParts
<1>5. (IInv <=> Sound /\ Ordered /\ Unhandled)'
  BY IInvParts, PTL
<1> QED
  BY <1>2, <1>3, <1>4, <1>5

\* The inductive invariant of the process: what TypeOK says, who starts, stops and holds
\* which server however restarts and SIGTERM overlap (api.ts), and, with one thing at a
\* time, that they follow one another and bring what the management API holds.
THEOREM Invariance == Spec => []IInv
<1>1. Init => IInv
  BY InitIInv
<1>2. IInv /\ [Next]_vars => IInv'
  BY NextIInv
<1> QED
  BY <1>1, <1>2, PTL DEF Spec

\* However restarts overlap (restart() of api.ts is not awaited), no server listens that the
\* process can no longer stop, and when none is under way both were given the configuration
\* of the newest restart.
THEOREM OnePair == Spec => []OnePairInForce
<1>1. IInv => OnePairInForce
  <2> SUFFICES ASSUME IInv, exit = "no" PROVE OnePairInForce
    BY DEF OnePairInForce
  <2>1. Process
    BY IInvParts DEF Sound
  <2>2. ASSUME AllDone, closing = {}, NEW a \in Apis
        PROVE  servers[held[a]].phase = "started" /\ servers[held[a]].conf = Newest.conf
    BY <2>1, <2>2, BothServe DEF Apis, Serves
  <2> QED
    BY <2>1, <2>2 DEF OnePairInForce, Process, Newest
<1> QED
  BY <1>1, Invariance, PTL

\* What a restart brings: when the management API changes one thing at a time and its socket is
\* up, both servers work with what it changed last, whatever the number of changes before it and
\* the number of parts, except for the parts that outgoing requests use.
THEOREM ChangesInForce == Spec => []InForce
<1>1. IInv => InForce
  <2> SUFFICES ASSUME IInv, AtRest, ~hurried, socket = "open", NEW a \in Apis,
                      NEW p \in Parts \ Outgoing, p = last.part \/ last.how # "PATCH"
               PROVE  WorksWith(held[a])[p] = mgmt[p]
    BY DEF InForce
  <2>1. Process /\ BootSound /\ OnItsWay
    BY IInvParts DEF Sound, Ordered
  <2>2. Serves("inbound") /\ Serves("outbound")
    BY <2>1, BothServe DEF AtRest
  <2>3. boot = "starting"
    BY <2>1, Booted DEF AtRest, AllDone
  <2>4. Current(Newest.conf)
    BY <2>1, <2>3 DEF AtRest, OnItsWay
  <2>5. servers[held[a]].conf[p] = mgmt[p]
    BY <2>2, <2>4 DEF Serves, Apis, Current
  <2> QED
    BY <2>5 DEF WorksWith
<1> QED
  BY <1>1, Invariance, PTL

\* With a control client and one thing at a time, no stop is refused, no port taken, no rejection
\* left to end the process, and SIGTERM (api.ts:133) ends it only when all servers have stopped.
THEOREM OrderlyExits == Spec => []ExitsInOrder
<1>1. IInv => ExitsInOrder
  BY DEF IInv, OneAtATime, ExitsInOrder, Unhandled
<1> QED
  BY <1>1, Invariance, PTL

\* "disconnect from redis when server is stopped" (state.ts:169): the stopped servers whose
\* client stays open are never more than the connections that were lost, however many
\* restarts there are.
THEOREM NoLeak == Spec => []ClientsClosed
<1>1. IInv => ClientsClosed
  <2> SUFFICES ASSUME IInv PROVE ClientsClosed
    OBVIOUS
  <2> DEFINE Open == {s \in Servers : servers[s].phase = "stopped" /\ servers[s].client # "closed"}
  <2>1. Process
    BY IInvParts DEF Sound
  <2>2. IsFiniteSet(Unclosed)
    BY <2>1, UnclosedIsFinite DEF Process, ProcessTyped
  <2>3. Open \subseteq Unclosed
    BY DEF Unclosed
  <2>4. /\ Cardinality(Open) \in Nat /\ Cardinality(Unclosed) \in Nat
        /\ Cardinality(Open) <= Cardinality(Unclosed)
    BY <2>2, <2>3, FS_Subset, FS_CardinalityType
  <2>5. Cardinality(Unclosed) <= drops /\ drops \in Nat
    BY <2>1 DEF Process, UnclosedWereLost, ProcessTyped
  <2>6. Cardinality(Open) <= drops
    BY <2>4, <2>5
  <2> QED
    BY <2>6 DEF ClientsClosed
<1> QED
  BY <1>1, Invariance, PTL
=============================================================================
