# A verification of the Mojaloop third-party SDK

The third-party SDK lets a PISP (a payment initiator) and a DFSP (a bank) take
part in Mojaloop's third-party flows. It turns a network of asynchronous HTTP
callbacks into synchronous requests for its own backend. This directory holds
TLA+ models of the parts where that is hard, TLC configurations that check them
on small instances, and TLAPS proofs of what matters most for every instance.

Paths are relative to the repository; `src/src/...` is the SDK's source.

## 1. The system

One process runs two HTTP servers, *inbound* (called by the switch) and
*outbound* (called by the backend of the PISP or DFSP). Both use Redis three
ways: a key-value store, a publishing connection and a subscribing connection.

| Component | Source | State it keeps | Operations | Interacts through |
|---|---|---|---|---|
| Publish/subscribe | `shared/pub-sub.ts` | callbacks per channel, next id | subscribe, unsubscribe, publish, broadcastMessage | Redis |
| Redis connection | `shared/redis-connection.ts` | the client and whether it is connected | connect, disconnect, `client` | Redis |
| Deferred job | `shared/deferred-job.ts` | per call: promise, registration id, timer | init/job/wait, trigger | publish/subscribe |
| Persistent model, key-value store | `models/persistent.model.ts`, `shared/kvs.ts` | one JSON record per key | create, loadFromKVS, saveToKVS, error | Redis |
| PISP transaction | `models/pispTransaction.model.ts`, handlers | record under the transaction id | party lookup, initiate, approve; four callbacks | deferred jobs, HTTP |
| DFSP transaction | `models/dfspTransaction.model.ts`, handlers | record under `dfspTransaction-<id>` | seven transitions started by one request; two callbacks | deferred jobs, HTTP |
| PISP linking | `models/outbound/pispLinking.model.ts` | record under the consent request id | request consent, authenticate, pass credential | deferred jobs, HTTP |
| DFSP linking | `models/inbound/dfspLinking.model.ts` | in memory only | eight transitions started by one request | deferred jobs, HTTP |
| Account discovery | `models/outbound/pispDiscovery.model.ts` | in memory only | one request, one callback | publish/subscribe by hand, no timeout |
| Provider discovery | `models/outbound/pispPrelinking.model.ts` | in memory only | one request, one callback | deferred jobs on a shared channel |
| Server life cycle | `api.ts`, `server/**` | two servers, their configuration, three Redis connections each | initialize, restart, stop | control agent |
| Control agent | `reconfiguration/controlAgent/index.ts` | the socket, the configuration at creation | Create, send, receive, _handle, stop | web socket, `RECONFIGURE` event |
| Fees | `shared/feeCalculator.ts` | none | receive amount, fee | DFSP transaction |
| A2S model, inbound transaction model, HTTP clients, configuration | `models/a2s.model.ts`, `shared/http-requests.ts`, ... | none of interest | | |

How a request travels: an outbound handler creates or loads a model, whose
transition handler opens a deferred job (subscribe to a channel, send an HTTP
request to the switch, wait). The peer's callback reaches an inbound handler,
which publishes it on the channel. The subscriber hands it to the job's
listener, which writes into the model's data; the transition ends, the model is
saved, the outbound request is answered.

What is hard here, and which property each component owes:

- *Deferred jobs*: answers race with timeouts, failing requests, repeated
  answers and lost connections. A listener must run at most once and only while
  its caller waits; registrations must neither leak nor be lost to another job
  of the channel; every wait must end.
- *PISP transaction*: two callbacks in either order behind one barrier; records
  loaded, held for seconds and written back whole; listeners that save on their
  own; failed requests whose second job lives on; crashes; endpoints called in
  any order. A client must be shown only what the DFSP issued, must not have its
  signature attached to something else, and the record must stay usable.
- *DFSP transaction*: several steps of which one may fail after another one has
  moved money; errors reported twice or never; duplicate requests; no recovery.
- *Linking*: the same on both sides at once, with errors that are broadcast to
  every phase that may be waiting.
- *Discovery*: channels shared by unrelated requests, and one wait without an
  end. Accounts must be those of the user, and the subscriber must hold exactly
  the requests that wait.
- *Server, control agent*: restarts and SIGTERM are asynchronous functions that
  nobody awaits and that may overlap; patches are applied to a stale
  configuration; connections are lost while servers stop. A restart must leave one
  pair of servers with one configuration, or end the process, and close what it
  replaced.
- *Fees*: three amounts computed one from another in floating point, with rounding.
  They must add up and be those of the quote.

`PROJECT.json` lists each hazard at its line with the properties that cover it.

## 2. Modules

| Module | Models | Uses |
|---|---|---|
| `PubSub` | `shared/pub-sub.ts` over one Redis connection | |
| `DeferredJob` | `shared/deferred-job.ts` | extends `PubSub` |
| `AwaitedMessage` | what `wait()` promises its caller | implemented by `DeferredJob` |
| `PispTransaction` | `models/pispTransaction.model.ts` and its handlers | waits as `AwaitedMessage` does |
| `DfspTransaction` | `models/dfspTransaction.model.ts` and its handlers | waits as `AwaitedMessage` does |
| `Payment` | what the DFSP promises about a payment | implemented by `DfspTransaction` |
| `TransactionFlow` | both sides and the messages between them | instances of `PispTransaction`, `DfspTransaction`; extends `Fees` |
| `PispLinking` | `models/outbound/pispLinking.model.ts` and its handlers | waits as `AwaitedMessage` does |
| `DfspLinking` | `models/inbound/dfspLinking.model.ts` and its handlers | waits as `AwaitedMessage` does |
| `Consent` | what the DFSP promises about a consent | implemented by `DfspLinking` |
| `LinkingFlow` | both sides of linking and the messages between them | instances of `PispLinking`, `DfspLinking` |
| `Discovery` | `models/outbound/pispPrelinking.model.ts`, `models/outbound/pispDiscovery.model.ts`, `models/inbound/accounts.model.ts`, their handlers | extends `PubSub` |
| `ControlAgent` | `reconfiguration/controlAgent/index.ts` and the management API as it relies on it | |
| `Server` | `api.ts`, `server/{create,start,setupAndStart}.ts`, `server/plugins/state.ts`, connect and disconnect of `shared/redis-connection.ts` | extends `ControlAgent` |
| `Fees` | `shared/feeCalculator.ts` and its use by `onRequestAuthorization` | |
| `*Proofs` | theorems about the module of that name | |
| `MC*` | finite instances for TLC | |

### How steps correspond to code

A step is what Node.js does between two events of the event loop. Continuations
of promises that are settled already run before the next event, so that for
example a message, the listener's synchronous part and the end of
`Promise.all` are one step; an HTTP reply, a Redis reply, a message and a timer
are separate events. Commands of one Redis connection take effect in the order
they are issued: a `GET` sees the store at the moment it is issued, while its
caller continues later. Replies come in the order of the commands, which matters for
`existsInKVS()`: only microtasks lie between its reply and the `SET` of the first save
(`partyLookup.ts:61`), so that a lookup that found no record saves before anybody whose
own command followed a `SET` (`InTurn`). Callbacks of a channel are called in the order of their
registration ids, and timers of one duration expire in the order they were set;
`PispTransaction` uses both (`LastOf`, `TimerExpires`).

Operators named `X_Variant` (`Failed_Unchecked`, `Catch_KeepsState`, ...) are not
part of any specification: each is a plausible error in the definition `X` that
follows it, and shows that a property would notice it.

### `PubSub`, `DeferredJob`, `AwaitedMessage`

`callbacks`, `callbackId` and `entries` are the fields of class `PubSub`;
`entries` is kept apart because the class never removes a channel's entry, and
asks Redis for the channel only when it makes one. `subscribing`,
`resubscribe`, `forwarding` and `wire` are the Redis client and server, external
code modelled from how the SDK relies on it. `promise`, `sid`, `initiator` and
`listener` are the local variables of one call of `wait()`. The actions are its
paths: `Wait` (or `WaitRefused` when the connection is down, `WaitWithoutTime`
when the timeout is not positive), `InitiatorDone`/`InitiatorFails`, `Broadcast`
to all callbacks of the channel, `ListenerDone`/`ListenerFails`, `Timeout`.

`AwaitedMessage` is the promise without ids, channels or Redis: a caller asks,
its listener takes at most one message, only while the caller waits, and the
promise is resolved only by a listener that has ended well.

### `PispTransaction`

One transaction id: keys and channels contain it, so transactions do not meet.
`Requests` are calls of the three endpoints in any order, `pc` is where each is
(`absent`/`present`: after `existsInKVS()`; `loaded`: after `loadFromKVS()`;
`lookup`, `initiate`, `approve`: waiting), `data` its `model.data`, `sid` the
registrations of its jobs. `kvs` is the stored record; payloads are abstracted
to what tells them apart: an authorization is a name of its own (`Authorizations`), since
the DFSP allocates one for each copy of a transaction request that reaches it, repeated
deliveries of one POST included; a signature is named by the authorization it was made
for (`"blind"`: by a backend that approves without having been shown anything).
`run()` dispatches on the stored state and not on the endpoint, as the code
does. A deferred job is reduced to "waits" or not, which `DeferredJob`
justifies: the listener runs once, while the caller waits, or the wait ends.

Points where the model follows the code although a reader may expect otherwise:

- The state machine is in the target state while the transition's handler runs
  (`javascript-state-machine` calls `onAfterTransition` before `on<Transition>`),
  so that listeners that save while an initiation is pending store
  `authorizationReceived`.
- `fsm.error()` inside a pending handler does nothing; run()'s catch moves the
  machine to `errored` in memory only.
- The two jobs of an initiation fail separately: the first to give up fails the
  request, the other one waits on, and its listener saves the data of the
  failed request, with state `errored`.
- One message may complete several requests. Each of them saves for itself, with an
  outcome of its own (`Deliver`); the last save that is written stays.
- An un-awaited save that fails ends the process (unhandled rejection); the
  model's `Crash` covers it, with the record written or not.

### `DfspTransaction`, `Payment`

One transaction id again; `Workflows` are the POSTs that start a workflow,
repeated ones included. `pc` is the transition under way, and `asked`, `checked`,
`ordered`, `told`, `errors` are what was sent; the receivers act later or
never, which also covers requests whose outcome the sender does not know.
`Catch` is the catch block of `run()`, `Warn` the report that the two waiting
handlers make themselves before they throw. `Die` is the end of the process,
for all workflows in it: the catch block has no catch of its own, building the report may
throw in it (`dfspTransaction.model.ts:536`), and `run()` is called from `setImmediate`.

`Payment` has one variable for how far the money is (`open`, `offered`,
`consented`, `ordered`, `paid`) and one for what the PISP was told. The
refinement mapping is `Stage` and `News`.

### `TransactionFlow`

The two modules side by side, each with its own store. `Workflows` names both the
workflows of the DFSP and the authorizations they allocate. The module's own definitions
are the messages: every copy of a transaction request that reaches the DFSP starts a
workflow (`Received`), so that one POST may start several, a reply to an authorization is one that the PISP sent under that id, and what the
PISP hears was sent by some workflow. Messages may be lost, delayed, repeated and
reordered, since a receiver may act at any time on anything that was ever sent.
A signature fits an authorization if it was made for it; the auth-service
(external) confirms only those.

### `PispLinking`

One consent request id. `Requests` are calls of the three endpoints in any
order; `pc` is where each is (`starting`: its first save is under way; `loaded`:
after `loadFromKVS()`; otherwise the phase in which it waits). `kvs` is the stored
record. Which request is for which endpoint is a parameter (`AtRequestConsent`,
`AtAuthenticate`, `AtPassCredential`, sets that may overlap). `posted` and `tokenSent` say
whether the consent request and the token were ever sent; a consent is a name of its own
(`Consents`, one for each copy of the consent request that reaches the DFSP), and a
credential is named by the consent whose challenge was signed
(`"blind"`: by a backend that was shown no consent). Each request has one job at
most, so that no registration ids are needed. When several requests hear one
message they save in some order, each with an outcome of its own: `Deliver` leaves open
whose record stays.

- `request-consent` does not look whether the key is free (`RequestConsent` has
  no guard on `kvs`): a repeated one starts the record afresh, whatever state it
  was in.
- `PUT /consentRequests/{ID}/error` and `PUT /consents/{ID}/error` are published
  to every phase that may wait (`ConsentRequestsError`, `ConsentsError`).
- The consent is dereferenced without a check (`onRegisterCredential`);
  `RecordSound` is why it is there.

### `DfspLinking`, `Consent`

One consent request id; `Workflows` are the POSTs that start a workflow. Nothing is
stored. `pc` is the call or wait under way, `told` what the PISP was sent. A failure in
a handler ends the workflow. As a rule the handler reports it (`Report`); two of them
send nothing when the report itself cannot be built (`CallFails`): the validation, whose
catch block reads the code of an error that may be `undefined`
(`dfspLinking.model.ts:161`, `:189`), and the check of the token, whose catch block calls
`reformatError` on a body it may not understand (`:329`, `api-error.ts:22`). Unlike the
transaction's, `run()` is called under a catch, so that this does not end the process. The credential's verdict and
the order to store the consent have their own variables, because the parties that
act on them (auth-service, backend) do so at their own time.
The configuration that overrides consent ids for tests is left out: consents are
the workflow's own.

`Consent` is the promise: authenticated, signed, ordered, active, confirmed, in
this order, and nothing new once the PISP was told of a failure. An order that is
under way may still be carried out then.

### `LinkingFlow`

As `TransactionFlow`: a message is a fact of its sender's state. `Workflows` names both
the workflows and the consents they grant; every copy of a consent request starts one. What the switch reports on its own (it could not
deliver a request) is part of `ErrorToPisp` and `Failure`.

### `Discovery`

Requests for providers and for the accounts of users, over `PubSub` itself: both
are about what they share there. `pc`, `sid` and `answer` are the place, the
registration and the response of each request; `sent` is which of them have sent
their GET, `place` and `told` are the DFSP's `getUserAccounts()`. Providers are
listed by the hub (external), which answers anything once it was asked.

- A message on the wire is only its channel; what it says is chosen when it is
  heard, among what was ever sent for that channel (`Said`). That covers
  delayed, repeated, reordered and misdirected answers.
- `GET /linking/providers` is a deferred job on one channel for all requests,
  reduced as in the workflows: its listener consists of one step, so that a
  message, the listener and the response are one step (`Hear`).
  `GET /linking/accounts` registers its own callback, on a channel named after the
  user whatever the DFSP, and has no timer.
- `unsubscribe()` refuses id 0 with an exception. In the catch block of an
  account request whose `subscribe()` was refused, that exception is raised in an
  async executor: nobody handles the rejection, and Node.js ends the process
  (`AccountsRefused`, `Die`). A provider request in the same situation is
  answered with an error (`ProvidersRefused`).

### `ControlAgent`, `Server`

One process, from its start to its end: nothing is stored that a later process would
find, so that a reboot is a new behaviour. `managed` is `pm4mlEnabled`, `boot` the
place of `initialize()`, `tasks` the start of the servers and every call of
`restart()`, since none waits for another. `servers` are all hapi servers ever
created, `held` the two fields of class `Server`, and `closing` what the handler of
SIGTERM is stopping. `exit` says why the process has ended; a rejection that nobody
handles ends it (Node.js from version 15 on).

An action is one turn of the event loop. `boot = "read"` is the moment between the
message that `receive()` was waiting for and the code that goes on with it: `ws`
8.18 may deliver several messages in one tick, so that `_handle` may see the next
one first. A configuration is a version for each of its parts, and a part is one
entry of it: lodash's `merge` goes into objects, so that what a message does not mention
stays, entry by entry (`Merge`). That it cannot remove an entry, and merges arrays by
index, is left out. `conf` of a server is the configuration it was given, `WorksWith` the
one it works with: the requests to others, their TLS credentials and their signing key
(`Outgoing`) are built from the configuration module (`state.ts:89`, `:104`, `:120`),
which only the boot changes.

- `receive()` takes whatever message comes next, and a message without
  configuration merges as nothing (`Taken`).
- A patch is put on top of the configuration the client was created with
  (`Emitted`), not on top of the one in force.
- `restart()` goes on when both of its own calls of `stop()` have resolved
  (`Promise.all`): the `waits` of a task shrink as they do (`Resolves`), and a server
  that it once stopped may have been replaced meanwhile.
- `stop()` of a server that is being stopped rejects (hapi), and of an undefined
  one throws (`StopFails`); both end the process, as does a port that is taken
  (`PortTaken`). Ports are fixed: the management API sends only credentials.
- `disconnect()` returns early when the connection is down (`Disconnected`). The
  three connections of a server are opened and closed together, and `client` stands
  for any one of them.
- hapi, `ws`, Redis and the management API are external. The replies to unsupported
  messages are left out, as is `reconfigure()`, which has no caller.

### `Fees`

Amounts are integers in hundredths of a cent, for the four decimals of the API.
`ToFixed` is the set of what `toFixed(2)` may return: the nearest cent, or either of
two when the amount is half way, because the sum is binary floating point and may be
off by less than a unit. `Terms` are all outcomes of a quote: an error, or the receive
amount and the fee that the user is shown. Amounts that are not numbers, and amounts
near 2^53 units, for which a sum may be off by more, are left out. `TransactionFlow`
leaves open which quote a workflow has: `ShownTermsAreRight` is about all of them.

## 3. Runs

| Run | Instance | Distinct states | Shows |
|---|---|---|---|
| `deferred_job` | 3 calls, 2 on one channel; connection lost once; 1 unread message | 209 k | the invariant, the safety properties, the promise, and that every promise settles |
| `deferred_job_deaf` (violation) | 2 calls, connection lost once | | a refused `subscribe()` makes its channel deaf for good |
| `pisp_one_by_one` | 5 requests one after the other; store faults; 1 restart | 554 k | properties of a client that waits for each answer |
| `pisp_concurrent` | 3 overlapping requests; store faults; 1 restart | 140 k | what holds however requests overlap; waiting ends |
| `pisp_rejection` (violation) | 3 requests | | a rejection is answered as a success |
| `dfsp_workflows` | 3 POSTs of one id; store faults; crashes | 483 k | the invariant, the record, the promise, and that waits end |
| `flow` | 4 requests one after the other, both sides; 2 workflows; 1 restart | 1.47 M | a good status means that this payment was made, and there is one payment |
| `flow_concurrent` | 3 overlapping requests, both sides; 2 workflows; store faults; quotes of 11 amounts in 2 currencies | 801 k | only what was shown and signed is paid; what is shown is right for every quote; the PISP meets only what its module expects |
| `linking_flow` | 3 overlapping requests, 2 workflows, store faults and crashes on both sides | 431 k | both invariants and the tie between them; the record stays usable, the promise is kept, a user who is authenticated is told |
| `linking_retries` | 6 requests, 2 at each endpoint, one after the other; 2 workflows; crashes | 3.15 M | of two consents that may both be shown, signed and registered, none takes the other's signature or link |
| `discovery` | 1 request for providers, 2 for one user's accounts at 2 DFSPs; connection lost once; restarts | 310 k | whose accounts a request is given, who is registered, one answer each, and that waits with a timer end |
| `server` | with and without a management API; 2 parts; 2 unasked messages; 1 lost Redis connection; SIGTERM | 901 k | the invariant, one pair of servers in one configuration, the latest change in force where servers use it, an orderly exit under a control client, closed connections, and that restarts and SIGTERM end |

**Bounds.** Two jobs on one channel are needed for every conflict over a
channel, the third on another channel shows that they do not spill over. For the
PISP, the shortest sequences that a repetition can harm are lookup, initiate,
approve (timed out), initiate, approve: five requests; fewer would never let
`OneConsent` fail. End to end, four requests let two workflows wait for one approval,
which is what `PaidOnce` is about; that longer repetitions do no more harm is the
theorem `PaidOnlyOnce`. Overlapping requests need one of each kind; more of them are
covered by the proofs, which hold for any number. One restart separates what was
stored from what was held; a second one finds no other kind of record.
Linking takes three requests from the consent request to the verified link. In
`linking_flow` these overlap, and may as well be three consent requests. They bring one
consent as far as a credential, so that what two attempts may do to each other is the
question of `linking_retries`: with two requests at each endpoint both consents can be
active, and both confirmed. Two workflows also stand for the two copies of one POST.
Discovery needs two requests on one channel, from two DFSPs, to be given each
other's answer, and one on another channel; as the wire is emptied by each message
that is heard, `MaxWire = 1` still lets any number of messages come.
The server takes two messages to have a restart overlap with another one, or a patch
follow a patch, with SIGTERM and the boot as further actors; two parts tell a patch
from a whole configuration. The amounts of the quotes lie around whole and half cents
and on both sides of each other; the theorem is about all amounts.
`MaxDrops`, `MaxWire`, `MaxCrashes`, `MaxPushes` are the only bounds in guards. The finite
sets of requests, workflows, authorizations and consents bound everything else. Symmetry is used where a
run has no liveness property. `CHECK_DEADLOCK FALSE` stands where requests are
one-shot, so that the system stops when all are served.

**Fairness.** Only timers: `Timeout` of a job and of a request for providers,
`TimerExpires` and `GiveUp` of the workflows. `setTimeout` fires as long as the process runs, which is all that is
assumed; peers, Redis, the HTTP client and the scheme adapter may stay silent for
ever. `Server` assumes that a server stops (hapi cuts requests off by a timer),
that the timer of a failing Redis connection fires, and that a server whose plugins
are registered listens or fails; Redis and the management API need not act. Calls that are not waits, and requests for accounts, have no timeout in
the SDK's own code, and nothing is claimed about their end.

**What the properties say.**

- `KeepsPromise` of `DeferredJob`: no message is consumed twice, or after its caller
  has an outcome (`NoCallOnceOver` spells this part out, as a theorem), and only a
  listener that has finished resolves the promise.
- `RegisteredWhileWaiting`, `RegisteredIsHeard`: no leak, no registration taken away,
  no channel that was not asked for.
- `SignedForWhatWasShown`, `OneConsent`: for a client that waits for each
  answer, no signature is attached to another authorization, and all approvals
  that can be confirmed are for one authorization. The DFSP pays for each
  confirmed authorization it has, so this is what prevents a double payment:
  `PaidOnce` says so of the money.
- `OnlyForward`, `FinalIsFinal`: the stored record, for such a client; the first one
  says that a lookup is never undone. They fail when requests overlap, because each
  request writes back the whole record that it had loaded. Two lookups that both find no
  record are harmless here: both save `start` before either is answered.
- `BarrierHolds`, `RecordSound`: for any client.
- `RecordTruthful`, `KeepsPromise` of `DfspTransaction`: what is stored and told
  does not run ahead of what was done. The converse does not hold: when the last
  notification fails, or the transfer is committed after the adapter's call
  failed, the PISP is told of an error although the money has moved.
- `PaidForWhatWasShown`, `StatusMeansPaid`, `PaidOnce`, `PispExpects`: end to end.
  `PispExpects` is what ties the PISP's module to this DFSP: a success comes only for an
  approval that carried a signature made for it.
  `PaidOnce` is about a backend that waits for each answer. With requests that overlap
  two authorizations may be shown, signed and paid.
- Linking: `RecordSound` (the stored record carries what the next endpoint
  dereferences), `AuthenticatedIsTold` (once the user's token was found valid the workflow
  does not end, unless with the process, before the PISP was told how, or had itself
  ended the wait for its credential; before that it may), `KeepsPromise`, `ActiveWasSigned`
  and `LinkedMeansActive` (a consent is active only if it was shown and signed, and a
  backend that is told that its accounts are linked has the consent that is active). Again the converse fails: the PISP may be
  told of an error although the consent is active, when the last notification
  fails.
- Discovery: `AccountsOfTheUser` (accounts that a request is given are its
  user's, from a DFSP that was asked; that it is the DFSP this request asked
  does not hold), `RegisteredAreWaiting` (the subscriber keeps exactly the
  requests that wait, each once and under the id it will give back),
  `AnswerStays`, `ProvidersAnswered`.
- `ShownTermsAreRight`: receive amount and fee add up to the transfer, the fee is the
  quote's fee less its commission (both exactly in whole cents and within the rounding
  otherwise), and only a commission above the fee, or a second currency, is an error.
- `OnePairInForce`: also when restarts overlap there is no server that listens and
  cannot be stopped, and at rest both were given the configuration of the newest restart.
  The code survives few overlaps: it mostly dies in them, which the property allows.
- `InForce`, `ExitsInOrder`: for a management API that sends one thing at a time, what was
  changed last is in force, except in what the outgoing requests use, and with a control
  client SIGTERM stops everything before the exit. Without one, which is the default, it stops
  nothing (`SigtermFails`, and the findings below).
- `ClientsClosed`: restarts leak a Redis client only where its connection was down
  when it should have been closed.
- `ProcessSettles`: every restart ends, with servers that run or with the process, and
  so does the process after SIGTERM, except that a Redis that accepts a connection
  and says nothing starts no timer.

**Findings.** The two violation runs are listed in `PROJECT.json`. Other
disagreements met while modelling, without a run of their own:

- When only one callback of an initiation comes, the record stays
  `authorizationReceived` without an authorization; initiate cannot be repeated
  and approve fails for ever (`pispTransaction.model.ts:201`). The sequence
  diagram has initiation pending until both are in
  (`docs/sequence/PISPTransactionApi.puml:167-170`).
- A failed wait at the DFSP is reported to the PISP twice, with different errors
  (`dfspTransaction.model.ts:317` or `:444`, and `:540`); the diagram shows one
  (`PISPTransactionApi.puml:293-298`).
- The wait for the verification uses the timeout configured for the
  authorization (`handlers/inbound/thirdpartyRequests/transactions.ts:56`).
- A repeated approve of a final transaction overwrites the stored
  `approveRequest` and answers with the stored status.
- The DFSP's linking workflow never saves its model, although the diagrams have
  `this.saveToKVS({key: '1a2b3c4d'})` and "It's important to save the model with
  the consentId" (`docs/sequence/PISPLinkingOTPApi.puml:230-235`):
  a restart loses every linking under way, and the PISP only times out.
- A failure to open the wait for the credential is reported on
  `/consents/{ID}/error`, which the PISP does not listen to yet: it waits on the
  consent request, and times out (`dfspLinking.model.ts:414-433`).
- A `RECONFIGURE` while servers restart ends the process (`api.ts:113-119`: a server is
  stopped twice or a port is taken), although `README.md:115` has it restart the server
  with the updated configuration. So does one that comes before both servers are
  held, and any message that is not JSON (`controlAgent/index.ts:188`).
- Of two patches only the second one is in force (`controlAgent/index.ts:202`): a patch is
  put on top of the configuration the client was created with. A web socket that
  breaks is never opened again (`controlAgent/index.ts:136`).
- Outbound certificates that a `RECONFIGURE` brings are never used: the outgoing requests
  are built from the configuration module (`server/plugins/state.ts:89`, `:104`, `:120`),
  although `README.md:113-115` has the servers restarted with the updated
  configuration, and `README.md:67-68` has `config.OUTBOUND.TLS` as the certificates of
  the requests to the switch.
- "handle SIGTERM to exit gracefully" (`api.ts:131`): without a management API
  (`pm4mlEnabled`, false by default) `stop()` throws on the missing control client
  (`api.ts:122`), and the process ends while both servers listen.
- When the DFSP's backend refuses a consent request with a code that is not on the list of
  errors, `onValidateRequest` throws `undefined` (`dfspLinking.model.ts:161`), its catch
  block throws a `TypeError` (`:189`), the handler swallows it, and the PISP is told nothing
  and times out. An error of the backend about the token whose body has such a code fails in
  the same way (`:329`, `api-error.ts:22`). `consentRequests.ts:79-80` says that the model
  catches planned and unplanned errors and handles callbacks.
- An initiation or approval that loads the record while a lookup is under way finds it in
  `start`, and `run()` begins with a save (`pispTransaction.model.ts:313`): it may take the
  record back to `start` after the lookup has stored its result, and the party is looked up
  again. The comment at that line says "save model to protect against data overwrite".
- A Redis client whose connection is down when its server stops is never closed
  (`state.ts:169`, `redis-connection.ts:144`).
- A fee above the transfer gives a negative receive amount, and an amount in tens of
  cents keeps its last zero ("10.50", `feeCalculator.ts:40`); the API's pattern for
  amounts has neither a sign nor a trailing zero (`src/interface/api-outbound.yaml:1052`).
- `transactionRequestState` never becomes PENDING or REJECTED as the diagram
  says (`PISPTransactionApi.puml:189`, `:290`).

## 4. Proofs

All theorems hold for every value of the constants that satisfies the modules'
named assumptions (`DeferredJobAssumption`, `PubSubAssumption`,
`PispTransactionAssumption`, `DfspTransactionAssumption`,
`TransactionFlowAssumption`, `LinkingFlowAssumption`, `DiscoveryAssumption`,
`FeesAssumption`, `ControlAgentAssumption`, `ServerAssumption`): types of the
parameters, and names such as `"none"` that are not requests. `~Concurrent` is a
hypothesis of the theorems about a client that waits for each answer before it sends the
next request; the other ones hold for any client. Every safety property of a run that passes
is a theorem.

- `DeferredJobProofs`. `IInv` adds to the type invariant that registration ids
  are distinct and not above the counter (`IdsDistinct`), that a registration
  belongs to the job whose `sid` it is (`RegistrationsOwned`), and how the
  listener's run agrees with the promise (`RunsAgree`). Without the ownership,
  giving back an id might remove another job's callback. From it follow
  `CalledOnce`, `ResolvedConsumed`, `RegisteredExactly`,
  `LateAnswerIgnored`, `HeardUntilLost` (an entry is subscribed, or is about to be,
  until a connection is lost), and `Implements`: `DeferredJob` implements
  `AwaitedMessage`.
- `PispTransactionProofs`. `BarrierHolds` and `RecordSound` are not inductive:
  one must know who may still wait (`WaitersKnown`: besides a request in its
  phase, the second job of an initiation that failed, whose record is `errored`),
  that what was consumed is in the data (`ConsumedKept`), and that what a request
  holds while it waits will be sound when its messages are in (`HeldSound`).
  `Signed`: every signature stored, held or forwarded answers an authorization that
  was shown. For a client that waits for each answer, `OneByOne` adds that one request at
  most is served (`OneServed`); that the record has not moved on since this request read
  it, but for what listeners have saved (`StoreInStep`); when the second job of a failed
  initiation may still write (`LeftBehind`); and that an authorization that was shown is
  the stored one for good (`ShownIsStored`). The order of registration ids is part of it:
  the late job of a failed initiation is called, and saves, before that of the next one,
  whose record therefore stays. Every step is also shown not to take the record back
  (`Forward`). From these follow `SignedFor`, `OneOnly`, `NeverBack` and `FinalStays`.
- `DfspTransactionProofs`. `IInv` says what has been done from the place of each
  workflow (`InPlace`), the causal order (`Causes`), that a workflow that
  reported a failure does nothing but end (`FailedOnly`), and that a record that
  speaks of a payment is that of a workflow that has not failed
  (`PaidNotFailed`, needed because workflows of one id overwrite each other's
  record). `Implements`: it implements `Payment`.
- `TransactionFlowProofs`. `Tied` relates what the DFSP's workflows did to what
  the PISP sent. With `Causes` it makes every step of the flow a step of
  `PispTransaction` (`PispIsMet`), so that the theorems about that module apply;
  with `Signed` it gives `Paid`: money moves only on terms that were shown and
  signed, for overlapping requests, retries, crashes and lost, repeated or
  reordered messages. For a client that waits, `StatusPaid` needs that a stored status
  without an error came from a workflow that has paid for the stored authorization
  (`RecordPaid`), and `PaidOnlyOnce` joins the two sides: what is paid was shown
  (`PaidForWhatWasShown`), and all that was shown is the one authorization of the
  record (`ShownIsStored`). `TermsShown` is about `Fees`: rounding moves an amount by
  half a cent at most and keeps whole cents (`ToFixedIsNear`), the receive amount is
  rounded once and the fee is the rounded difference.
- `DfspLinkingProofs`. `IInv` says what has been done from the place of each
  workflow (`InPlace`), the causal order (`Causes`) and `AuthenticatedIsTold`; the
  workflows share nothing but the token, so that each is looked at by itself
  (`Sane`). `Implements`: it implements `Consent`.
- `LinkingFlowProofs` begins with `PispLinking` by itself, for any DFSP
  (`PispInvariance`, `PispRecord`). `RecordSound` is not inductive: what is saved next
  is what a request holds, so the module's `IInv` says of each request, from its place,
  that what it holds is sound or will be once its message is in (`HeldSound`), that it
  has no answer yet (`Unanswered`), and that a signature is for a consent that was shown
  (`SignedWasShown`). The proof looks at one request at a time (`Held`): a step of
  another one leaves it sound because nothing that was sent is taken back. Then, for
  both sides, `Tied` and `Causes` make every step of the flow a step of
  `PispLinking` (`PispIsMet`), so that its invariant holds here. With
  `SignedWasShown` they give `ActiveSigned`. `Linked` is inductive together with
  the sides' invariants: of all messages only `PATCH /consents/{ID}` links
  anything (`MessagesLinkOne`, `PispLinksNothing`), and it is heard only by
  requests that wait on the consent it is about. `Invariance`, `Record`,
  `Told` and `Promised` carry over what is proved of the two sides.
- `DiscoveryProofs`. The checked invariant is inductive: besides the two safety
  properties it needs what a place says of the registration (`InPlace`) and that
  ids are distinct, without which a request that ends could take away the callback
  of another one (`IdsDistinct`). `OneByOne` turns the set of registrations into a
  statement about each request, which is what the steps preserve. `Once` follows:
  the callback of a request that is answered is gone.
- `ServerProofs`. One part of `IInv` holds whatever overlaps: what exists at each place
  of `initialize()` (`BootSound`), that no two tasks start the same server and each starts
  it with its own configuration (`StartsSound`), that no two wait for the same stop
  (`StopsSound`), that a server that listens is held (`NoOrphan`), that nobody stops or
  replaces what the newest task has started (`NewestServes`), and that a client left open
  is accounted for by a connection that was lost (`UnclosedWereLost`), and that only
  SIGTERM without a control client ends in a rejection (`Unhandled`). The other part is
  about one thing at a time, as long as the management API has not hurried (`hurried`):
  tasks follow one another and only one pair of servers runs (`OneAtATime`), and what the
  API holds is in force or on its way, in a message, in what was taken or in the newest
  task (`OnItsWay`). `OnePair`, `ChangesInForce`, `OrderlyExits` and `NoLeak` follow.
  `StopsSound` is why a task keeps `waits`, the stops its `Promise.all` is left with, and
  does not look at the servers it once stopped: with three restarts that overlap, the
  phase of a server does not tell whose stop is under way.

`DfspSame` and `PispSame` in the two flow modules identify the instances of the
flow with those of the proof modules, whose definitions are the
same.

Model-checked only: liveness (`EverySettles`, `WaitingIsAnswered`, `WaitsEnd`,
`ProvidersAnswered`, `ProcessSettles`). They rest on fairness and ENABLED, which are
beyond the prover.

## 5. Plan

In this order; the first nine groups are done.

1. `PubSub`, `DeferredJob`, `AwaitedMessage` with proofs: every workflow waits
   through them.
2. `PispTransaction` with proofs.
3. `DfspTransaction`, `Payment` with proofs.
4. `TransactionFlow` with proofs.
5. `PispLinking`, `DfspLinking`, `Consent`, `LinkingFlow` with proofs.
6. `Discovery`: account discovery and pre-linking, over channels that are shared
   by unrelated requests and a wait without timeout, with proofs.
7. `Server` with `ControlAgent`: initialize, restart, stop, and the
   configuration that is in force.
8. `Fees`: the terms shown to the user, with a theorem for all amounts.
9. Theorems: every safety property of the passing runs, those of a client that waits
   for each answer and those of `Server` included; `PaidOnce` end to end.
10. The safety half of the liveness properties as theorems (a request that waits has a
    timer, and its answer is not lost when the timer expires); more consequences that span
    both sides of a flow.

## 6. Not modelled

Outgoing HTTP clients, OpenAPI validation, JWS, configuration and logging carry
no protocol state: a call is a request that succeeds, fails or stays
unanswered. Challenges are hashes whose value no property depends on; that two
authorizations have different challenges is the abstraction behind "a signature
fits the authorization it was made for". `models/a2s.model.ts` and
`models/inbound/thirdparty.transactions.model.ts` are not instantiated by any
handler. `kvs.del` has no caller. Within the modelled parts,
messages are assumed to pass OpenAPI validation (a verification that is not
`VERIFIED` is refused there, and the wait times out).
