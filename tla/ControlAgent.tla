---------------------------- MODULE ControlAgent ----------------------------
(***************************************************************************)
(* The control client (reconfiguration/controlAgent/index.ts): a web socket *)
(* to the management API of Payment Manager, from which the SDK reads its   *)
(* configuration when it starts and hears of every later change.            *)
(*                                                                         *)
(* A configuration is a version for each of its parts (certificates, keys), *)
(* which are the leaves of the configuration's tree: lodash's merge()       *)
(* descends to them, and overrides one whole.  A message that takes a part   *)
(* away, or an entry of one, is not modelled: merge() would keep it.        *)
(* The socket delivers in order, or breaks: the client has no handler for   *)
(* that and never connects again.  A message is first given to _handle,     *)
(* which was registered when the client was created, and then to the        *)
(* receive() that waits for one, if any.                                    *)
(*                                                                         *)
(* The replies to messages that the client does not support are left out:   *)
(* no state depends on them.  The management API itself is external.        *)
(***************************************************************************)
EXTENDS Naturals, Sequences

CONSTANTS
  Parts,       \* what a configuration consists of
  MaxPushes    \* bound: messages that the management API sends unasked

ASSUME ControlAgentAssumption ==
  /\ Parts # {}
  /\ MaxPushes \in Nat

VARIABLES
  socket,     \* of the control client; "none" when pm4mlEnabled is false
  inbox,      \* messages on their way to it
  reader,     \* does a receive() wait for the next message?
  asked,      \* has the management API a READ to answer?
  taken,      \* the configuration in what receive() has returned, until it is merged
  appConfig,  \* the configuration the client was created with
  mgmt,       \* the configuration that the management API holds
  last,       \* its last change: how it was pushed, and what changed
  pushes      \* how many messages it pushed

agentVars == <<socket, inbox, reader, asked, taken, appConfig, mgmt, last, pushes>>

Verbs == {"NOTIFY", "PATCH", "unsupported", "unreadable"}

Versions == 0 .. MaxPushes + 1
Configuration == [Parts -> Versions]
PartOfOne == UNION {[S -> Versions] : S \in SUBSET Parts}
Nothing == [p \in {} |-> 0]

AgentTypeOK ==
  /\ socket \in {"none", "opening", "open", "closing", "lost"}
  /\ inbox \in Seq([verb : Verbs, data : PartOfOne])
  /\ reader \in BOOLEAN
  /\ asked \in BOOLEAN
  /\ taken \in PartOfOne
  /\ appConfig \in Configuration
  /\ mgmt \in Configuration
  /\ last \in [how : {"never"} \union Verbs, part : Parts]
  /\ pushes \in 0 .. MaxPushes

\* Locally everything has version 0; the management API has something newer.
AgentInit(managed) ==
  /\ socket = IF managed THEN "opening" ELSE "none"
  /\ inbox = <<>>
  /\ reader = FALSE
  /\ asked = FALSE
  /\ taken = Nothing
  /\ appConfig = [p \in Parts |-> 0]
  /\ mgmt = [p \in Parts |-> 1]
  /\ last = [how |-> "never", part |-> CHOOSE p \in Parts : TRUE]
  /\ pushes = 0

\* lodash's merge(): what data has overrides what base has.
Merge(base, data) ==
  [p \in DOMAIN base \union DOMAIN data |-> IF p \in DOMAIN data THEN data[p] ELSE base[p]]

Message(verb, data) == [verb |-> verb, data |-> data]

-----------------------------------------------------------------------------
(* The client.                                                             *)

\* The socket is open: Create() resolves.
Opened ==
  /\ socket = "opening"
  /\ socket' = "open"
  /\ UNCHANGED <<inbox, reader, asked, taken, appConfig, mgmt, last, pushes>>

\* send() of a READ, and receive() once it has been written.
ReadConfiguration ==
  /\ asked' = (socket = "open")
  /\ reader' = TRUE
  /\ UNCHANGED <<socket, inbox, taken, appConfig, mgmt, last, pushes>>

\* What receive() returns is merged into the configuration whatever the message was;
\* only a NOTIFY has configuration in it.
Taken(m) == IF m.verb = "NOTIFY" THEN m.data ELSE Nothing

\* A slip: the message does not override what the client was created with.
Emitted_Kept(m) == Merge(m.data, appConfig)

\* The configuration that _handle announces: the message on top of the one the client
\* was created with.
Emitted(m) == Merge(appConfig, m.data)

\* The next message: _handle first, then the receive() that waits.
Arrives(m) ==
  /\ socket \in {"open", "closing"}
  /\ inbox # <<>>
  /\ m = Head(inbox)

Delivered(m) ==
  /\ Arrives(m)
  /\ inbox' = Tail(inbox)
  /\ reader' = FALSE
  /\ taken' = IF reader THEN Taken(m) ELSE taken
  /\ UNCHANGED <<socket, asked, appConfig, mgmt, last, pushes>>

\* stop() closes the socket; what is on its way is still delivered.
StopAgent ==
  /\ socket' = IF socket = "open" THEN "closing" ELSE socket
  /\ UNCHANGED <<inbox, reader, asked, taken, appConfig, mgmt, last, pushes>>

\* The client ends with its process.
AgentGone ==
  /\ socket' = "lost"
  /\ inbox' = <<>>
  /\ reader' = FALSE
  /\ asked' = FALSE
  /\ taken' = Nothing
  /\ UNCHANGED <<appConfig, mgmt, last, pushes>>

SocketLost ==
  /\ socket = "open"
  /\ socket' = "lost"
  /\ inbox' = <<>>
  /\ UNCHANGED <<reader, asked, taken, appConfig, mgmt, last, pushes>>

-----------------------------------------------------------------------------
(* The management API.                                                     *)

Answer ==
  /\ asked
  /\ socket = "open"
  /\ inbox' = Append(inbox, Message("NOTIFY", mgmt))
  /\ asked' = FALSE
  /\ UNCHANGED <<socket, reader, taken, appConfig, mgmt, last, pushes>>

\* A part changes, and the client is told: by the whole configuration or by a patch.
Push(verb, p) ==
  /\ socket = "open"
  /\ pushes < MaxPushes
  /\ pushes' = pushes + 1
  /\ mgmt' = [mgmt EXCEPT ![p] = @ + 1]
  /\ last' = [how |-> verb, part |-> p]
  /\ inbox' = Append(inbox, Message(verb, IF verb = "PATCH" THEN [q \in {p} |-> mgmt'[q]]
                                                            ELSE mgmt'))
  /\ UNCHANGED <<socket, reader, asked, taken, appConfig>>

\* A message of another kind, or one that is not JSON.
PushOther(verb) ==
  /\ socket = "open"
  /\ pushes < MaxPushes
  /\ pushes' = pushes + 1
  /\ inbox' = Append(inbox, Message(verb, Nothing))
  /\ UNCHANGED <<socket, reader, asked, taken, appConfig, mgmt, last>>
=============================================================================
