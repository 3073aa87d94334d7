# AutoSyncGen in TLA+

AutoSyncGen (C++14, header-only) replicates a server's objects to its clients over UDP.
Objects are made of synchronisable fields with dirty bits; a `SyncManager` holds the objects of
a host; a client periodically sends a snapshot of its manager and the server answers with the
diff that turns it into the server's own. This directory holds TLA+ models of that system, the
TLC runs that check them on small instances, and theorems about them proved with TLAPS for all
values of the constants.

Paths below are relative to `src/include/AutoSyncGen/Inc/` unless they start with `src/`.

## 1. Inventory

| component | state | operations | interacts with |
|---|---|---|---|
| **SyncObj, FieldProxy, SerializationHelper** | tuple of fields, one dirty bit per field | `edit` (sets the bit), `setFromJson` (writes the fields present, clears their bits), `toJsonAll` (all fields and the bits) | created and set by SyncManager; edited by the application through handles |
| **Snapshot, Diff** (and per-type data) | a bitset of live IDs and a JSON item per ID; objects to create, remove, update | `getDiffWith`, `getJsonDiff`, `toJson`/`initFromJson` | built from a manager, sent in packets, applied to a manager |
| **SyncManager** | per type: alive/dead bitset, handle map, lifetime manager (storage), next ID | `serverCreate`, `onReceivedPacketCreate/Remove/Update`, `applyDiff`, `getSnapshot`, `getHandleFor` | used by server application, and by both hosts' packet handlers |
| **SessionServer / SessionClient: synchronisation** | server: nothing per client; client: its manager | `sendSyncRequest`, `handleSyncRequest`, `handleSyncRequestSatisfy` | datagrams |
| **ClientHandlerManager, ping thread: connections** | handlers, available/busy lists, CID map, next CID; client: CID | `acceptClient`, `runTimeout`, `pingReceived`, `sendConnectionRequest`, `sendPing`, `handleConnectionAccept` | datagrams; timeout thread |
| **SessionHost** | socket, shared send and receive buffers, receive thread | `sendTo`, `mkPacket`, `receiveThread`, construction, destruction | base of both sessions |
| **Chat application** (`src/include/AutoSyncGen/Src/main.cpp`) | `lastID`, message storage | `SendMsg`, `EditMsg`, menus, shutdown | server's manager, in the receive thread |
| **Packet encoding** | none | streaming operators | |

Hard behaviours, and what would make each component correct:

* *Synchronisation* has no sequence numbers, acknowledgements or per-client state. Diffs may
  arrive late, twice, in another order, after the object they mention has gone, or in a client
  that has restarted. Correct: whatever has happened, the next complete exchange can be applied
  and makes the client equal to the server; hosts do not crash on the way; every client
  converges.
* *Dirty bits* are set when the server edits and never cleared at the server. They are used as
  a filter for what to compare, so they must cover every field in which some client, or some
  diff in flight, differs from the server.
* *IDs* are never reused, and only the first `maxObjs` have a bit: what has one must be synchronised, the last too.
* *SyncManager* updates three containers one after the other. Correct: they agree, nothing
  leaks, no null handle is dereferenced, and the snapshot describes the objects.
* *Connections*: each CID known to the server leads to one handler, bound to that CID and to the
  client that holds it; clients that are gone are forgotten; every client gets connected, and uses its CID once it has it.
* *Threads*: a client has a receive thread, a ping thread and its user interface, all on one
  manager and one send buffer, without a lock. Correct: whatever they do to each other, the
  replica ends right. A server has a receive thread and a timeout thread.
* *Lifetime*: threads start while a host is still being constructed and run while it is
  destroyed. Correct: a thread finds the members it uses, and a shutdown ends.
* *Chat*: the number a message shows and the ID it is edited under come from two counters, and
  nothing checks the ID a user types. Correct: the counters agree, in every replica; an edit of a message that is shown
  finds it; and what is posted is shown by everyone.

`PROJECT.json` lists every hazard with its source line and the properties that cover it.

## 2. Modules

| module | models |
|---|---|
| `SyncData` | objects, JSON forms, snapshots, diffs, `getDiffWith`, `applyDiff`: pure operators, no state |
| `SyncSession` | the protocol: one server, clients, and a bag of datagrams that are lost, duplicated, reordered |
| `Replication` | abstract: what replication promises, replicas of what the original has had |
| `SyncHistory` | `SyncSession` with a history variable, shown to implement `Replication` |
| `ClientThreads` | composes `SyncSession` with the three threads of one client, step by step |
| `Chat` | composes `SyncSession` with the chat's users and the server's `onDataReceived` |
| `ObjectMap` | abstract: what a SyncManager promises, a map from IDs to objects |
| `SyncManager` | the manager as it lies in memory: bitset, handle maps, storage; shown to implement `ObjectMap` |
| `Connection` | `ClientHandlerManager`, its timeout thread, and the clients' ping and receive threads |
| `HostLifecycle` | construction, running and destruction of a host process, member by member |
| `SyncDataProofs`, `SyncSessionProofs`, `SyncHistoryProofs`, `ClientThreadsProofs`, `ChatProofs`, `SyncManagerProofs`, `ConnectionProofs`, `HostLifecycleProofs` | theorems |
| `MCSyncSession`, `MCSyncHistory`, `MCClientThreads`, `MCChat`, `MCSyncManager`, `MCConnection` | constants and symmetry for TLC |

Operators that are commented *Mutant* are variants of the definition that follows them, with a
mistake a change of the code could make. They are used by no specification: replacing the
definition by the mutant shows that a property would notice the mistake (`PROJECT.json`,
"mutants").

### SyncData

A manager is a function from keys (type, ID) to objects; the per-type tuples the code walks with
`tplFor` become one function over keys, since nothing in the code relates two types. A field is
a value of a small set; JSON is a function of the field keys present, and the
`"ff"` entry is the set of dirty fields. `Representable` is the set of IDs below `maxObjs`: the
scan of `getDiffWith` stops there, and the JSON of a bitset has no more characters; `WithBits` is the part of a
manager that has such IDs, and synchronisation can be claimed of no more.
`AfterCreatesAndRemoves` and `ApplyDiff` give the effect of `applyDiff`, whose order (creations,
removals, updates, per type) they keep. `AssertionFails` and `UpdateFindsNoObject` say when
`applyDiff` does not return: an assertion of the three `...Impl` functions is false, or, with
assertions compiled out, a handle that is null is written through.

### SyncSession, Replication and SyncHistory

`server`, `client[c]` are the managers; `net` is the bag of datagrams; `status[c]` says whether a
client's process is running, has aborted, or has crashed, `build[c]` whether it was built with assertions
(`src/compileDebug.sh`) or without (`src/compile.sh`, `-DNDEBUG`). One action is one packet handler or one call of
the application. Handlers are atomic because each host handles packets in one receive
thread, and the server's application changes the manager in that thread
(`onDataReceived`); `ClientThreads` splits the client's handler. `ops`, `faults`, `restarts` count down the bounds `MaxOps`, `MaxFaults`,
`MaxRestarts`; `MaxNet` bounds the bag, `MaxIDs` the IDs issued.

A datagram with more than `MaxDatagram` objects is refused by the socket, logged and
forgotten (`SessionHost::sendTo`). Loss, duplication and reordering are what UDP does;
a client may restart on the same port with an empty manager (`Restart`). A reply carries a history field, `basis`: the IDs
in the snapshot it answers. A reply whose `basis` is not what its receiver has is stale (another reply was applied in
between, or the receiver is another process), and `OnlyStaleRepliesKill` says that only those end a client.

`Replication` has an `original` that may change in any way, its `past` (the values each field of
each object has had), and `replicas` that may change to anything the past allows: an object the
original has had, each field with a value that field has had. `SyncHistory` adds `past` to
`SyncSession` and instantiates `Replication` with the fields of `server` and of the clients.
That nothing stronger holds is part of the result: a replica may mix values of different
moments, since a diff is applied to whatever state the client is in.

### ClientThreads

The server, the network and `client[Self]` are `SyncSession`'s; `client[Self]` is what the handles
lead to, `bits` the bitset, `nulls` the keys whose handle is null, `freed` those whose object is
already destroyed while the handle is still there. Each step is one access to the shared memory:

| thread | variable | steps |
|---|---|---|
| receive thread, in `applyDiff` | `recv` | `StartDiff`; `CreateBegins` (assertion, bit), `CreateInserts` (map entry), `CreateMakes` (`create()`), `WriteField` (one field of `setFromJson`); `RemoveBegins`, `RemoveDestroys`, `RemoveErases`; `UpdateBegins`, `WriteField`; `FinishDiff` |
| ping thread, in `getSnapshot` and `sendToServer` | `ping` | `TakeBits`; `Visit` of each entry in the order of the map, `EndVisit`; `PingBeginsPacket`, `PingEndsPacket`, `PingSends` |
| user interface, in `sendDataToServer` | `ui` | `UIBeginsPacket`, `UIEndsPacket`, `UISends` |

`sendBuffer` is one `sf::Packet` for both senders: when two fill it at once it is garbled, and the
process may crash; a thread then sends whatever the buffer holds. Visiting an entry that is being changed
is a race, so `Visit` either reads or crashes; so is visiting any entry while `std::map` links or unlinks another one and rebalances
(`TreeChanges`), and then the iterator may also pass entries by. A snapshot whose bits and items come from different
moments is `Torn` when the server would look up an item that is not there: `items.at` throws, and
`tryForwardReceivedPacket` catches it (`DropTornRequest`). A garbled packet is dropped, and what
`Data` makes the server's application do is among `SyncSession`'s changes. The order in which
entries of a diff are visited is left open; creations come before removals before updates.

### Chat

`lastID` is the counter of `selectServer`, `data` the bag of `Data` packets, `serverUp` is FALSE
once the server has written through the null handle of an unknown ID; a server that is down hears nothing, and what is sent to it
is lost at no cost (`LoseUnheardData`, `LoseUnheardRequest`). `NewMessage` and `EditMessage` are the
user's menu choices, `HandleSendMsg` and `HandleEditMsg` the two branches of `onDataReceived`. A user edits
under any ID, as the menu checks none; a packet remembers in a history field, `shown`, whether his client showed a message of that ID. `MaxOps` bounds what users post here; the application's
actions of `SyncSession` (`ServerCreate`, `ServerEdit`, `ServerRemove`) are replaced by the packet handlers.

### SyncManager and ObjectMap

Handles are addresses; the lifetime manager's storage is a function from addresses to objects,
and a new object gets any free address. `getHandleFor` is `std::map::operator[]`, so an unknown
ID gets a null handle. Three variables are chosen at the start: `role` says whether the manager is a
client's, which diffs change under any ID, or the server's, which the application changes,
`build` how it was built, and `lookups`
whether the user looks up IDs that may have no object. `MaxIDs <= MaxObjs` is assumed here:
beyond it the code writes past the end of a `std::bitset`.

The mapping to `ObjectMap` is `objects <- [k \in bitsetIDs |-> lfManagers[handleMaps[k]]]`.

### Connection

Handlers are a sequence and a pointer is an index, as `MonoManager` never destroys one; `chAvailable` and
`chBusy` are sets of indices, since which available handler is bound makes no difference to what is claimed (the code takes
the last). A client
is its two threads: the ping thread's place (`pc`) and counter, and the CID the receive thread
has stored. Time is not modelled: the one-second sleeps bound nothing, since a datagram may take
longer than a second; between any two steps of a ping thread anything may happen.
Requests carry the sender's CID and replies a history field naming the address that asked. `End` is a client
process that is killed, `Start` a new one at the same address. `StopServer` is the end of the server (`serverUp`), `StartServer` a
new one, some time later or never. A datagram that finds no process, whichever side it is meant for, may be lost at any moment at no cost
(`LoseUnheard`), those queued for a process that ends included: its socket goes with it. Each may also still be under way and
reach the next process. The history variable `lost` holds the clients whose request for a connection, or the
accept, has been lost with all its copies.

### HostLifecycle

`members` counts the members constructed so far, in the order of declaration that `Members` lists for
each role; `main` is where the main thread is, and `receiver`, `timeout` and `ping` are the threads. The
receive thread starts when the base class is complete, before `cManager` and `onDataReceived` exist.
`Uses` names the members each handler touches; using one that is not `Alive`, or the delegate while
`main` appends to it, is undefined behaviour: the process crashes or nothing is noticed. `DestroyMember` waits for the timeout thread and for the
receive thread in the destructors of their futures. A server that has accepted nobody drops every other
packet, so `connected` decides which handlers run. An exception of `tryBindSocket` ends the process
(`terminated`).

## 3. Runs

Passing (each property also has a mutant that violates it):

| run | question | properties |
|---|---|---|
| `session_safety` | with removals, a restart, faults and more IDs than bits, in either build, can one exchange always repair a client, as far as IDs have bits; what can end a client; and does it only show what has been? One exchange can; nothing but a stale reply ends a client; it does. | TypeOK, OnlyIssuedIDs, DirtyCoversDivergence, DirtyCoversInFlight, RoundTripSynchronises, IDsNotRecycled, OnlyStaleRepliesKill, ShowsThePast |
| `session_convergence` | with removals, a restart, and replies that are late, lost or repeated, in either build, does a client that is still there end equal to the server? Yes. | Converges |
| `manager_operations` | do bitset, handles and storage agree in both roles and both builds, with and without lookups of absent IDs, and amount to a map? Yes. | TypeOK, HandlesMatchBits, NullHandlesComeFromLookups, ServerIDsIssued, NoLeak, SnapshotIsOfObjects, NoSegfault, ImplementsObjectMap |
| `connection_safety` | are the server's tables right, and do replies go to the address that asked? Yes, while the server stays up. (Whether the process there is still the one that asked, nothing checks.) | TypeOK, HandlersMatchCids, CidRoutesHome, RepliesReachRequester, CidsUnique |
| `connection_liveness` | what can keep a client from connecting, with a fault and a server that may end and start again, and are the tables of the new server right? Only the loss of the client's own request, or of the accept; they are. | EventuallyConnected, HandlersMatchCids |
| `client_threads` | three threads race in a client: do the steps of a diff add up to `ApplyDiff`, do torn snapshots leave the replica repairable, and does a client that does not crash converge? Yes. | ThreadsTypeOK, DiffsAppliedWhole, CoveredBetweenDiffs, ConvergesOrDies |
| `host_lifecycle` | which members can the threads rely on, when can a packet crash a host, how far does a shutdown get? The timeout thread and the socket are safe; a missing member may crash a server only before its menu is shown or while it is destroyed, a client only then; a shutdown reaches the future of the receive thread. | TypeOK, ThreadsHaveTheirMembers, SafeOnceUp, ShutdownReachesHostFuture |
| `chat` | do edits of a message that is shown find it, may late, lost and repeated replies crash a release client or keep it from showing all messages? Edits do, and the server dies only of an ID that was not shown; replies do not. | MessageIDsAgree, EditsFindTheirMessage, NoSegfault, PresenceIsMonotone, Settles |

Violations, each a disagreement between the code and what its documentation, comments or assertions say
(quoted in `PROJECT.json`, "findings"):

| run | what happens |
|---|---|
| `session_late_reply_aborts` | two requests are answered before either answer arrives; the second answer creates the objects again and the assertion of `createImpl` aborts the client. No fault of the network is needed. |
| `connection_ping_before_accept` | the ping thread pings a second after its request, whether the accept has arrived or not; the assertion of `sendToServer` on the CID aborts a debug build. No fault of the network is needed. |
| `connection_timeout` | `acceptClient` never fills `chBusy`, so no client times out. |
| `host_shutdown_hangs` | the destructor of `hostFuture` waits for a receive thread that never ends. |

The passing runs' constants mark the edges of what the code achieves. Each of these changes makes TLC find a
counterexample:

| change | what happens |
|---|---|
| `chat` with `MaxDatagram = 1` | when the objects outgrow one datagram, the replica never matches again (Settles) |
| `chat` with `Settles` without `<>(~serverUp)` | an edit under an ID that has no message kills the server, and the replica stays as it is |
| `session_safety` with NoSegfault, release build, and removals | a reply overtaken by a removal updates an object the client has removed, through a null handle |
| the same with a restart in place of removals | a reply meant for a client's former process updates an object the new one lacks |
| `session_safety` with `RoundTripSynchronises` without `WithBits` | objects whose ID is past the end of the bitset never reach the clients |
| `client_threads` with NoAbort or NoSegfault | a client with a single exchange under way still crashes: a torn snapshot is answered with a diff that does not fit, or two threads collide |
| `connection_safety` with `MaxServerRestarts = 1` | a restarted server gives out a CID that a running client holds (CidsUnique, CidRoutesHome) |
| `connection_liveness` with `EventuallyConnected` without `c \in lost` | the request is sent once, since the inner loop of the ping thread never ends; if it or the accept is lost, by the network or with a server that ends, the client never connects |

### Bounds

* One type (types do not interact), two fields (so that a field can be dirty while the other is
  not, and JSON can lack one), two values (equal or different; the default is one of them), two or three IDs.
* `session_safety` has three IDs and two bits: the last ID that has a bit and the first that has none both occur. Its objects are created
  from a JSON with one field of the two, which sets no bit, and edits set the bits one by one.
* Two datagrams of a client in flight give every overtaking of one reply by another; one fault gives the loss
  or duplication of any of them. Four changes by the application are enough to create, edit twice,
  remove and create again while replies are under way. `session_convergence` has the same
  with two IDs and three changes. One client is enough: clients do not interact except through the server, which keeps nothing of them (the server's
  tables of connections, where they could be mixed up, have two in the `connection_*` runs), and the theorems are about any number.
* `MaxDatagram` exceeds the objects there are, so it never binds in these runs (see the table above for when it does).
* `client_threads`: one client, one datagram of the synchronisation in flight (the races need no overtaking), two changes at the
  server (create and edit, create twice, or create and remove while a diff is being applied or a snapshot taken), one post by the user. Clients are
  independent of each other.
* `chat`: the chat's own three fields, one client, three posts of two texts, any of them messages or edits of any ID, and one fault, of the synchronisation or
  of a post: an edit can precede the message, and follow the reply that shows it, and each can be repeated. There is an ID for every message that
  this can create (`MaxIDs >= MaxOps + MaxFaults`), so that none is refused by the bound.
* `host_lifecycle` and `host_shutdown_hangs` have no bound: the state of a host's life is finite.
* The manager runs have no bound on their length: three IDs, three addresses, and everything
  else is finite.
* `connection_*`: two clients, up to three accepted connections (so that one client is accepted
  twice), handlers that time out after one tick, a synchronisation request after each ping. In `connection_liveness` one
  datagram is lost or duplicated, and the server ends once, at any moment, and starts again or not.
* Deadlock is checked except where a process may really be dead at the end (a crash or an abort),
  as the configuration files say.

### Fairness

`SyncSession!Fairness`: the ping thread of a client and the receive threads of both hosts are infinite
loops, and a socket delivers datagrams in the order of their arrival, so each of these is weakly fair for each client. Nothing is assumed of the
application or of the network, whose faults are bounded by `MaxFaults`: convergence is claimed for a
network that has stopped failing and an application that has become quiet, and of clients that no stale reply has ended (no user need restart those).
`Chat!ChatFairness`: the same, and the server handles what has arrived in `data`; users need not write.
`ClientThreads!ThreadsSpec`: each of the client's threads, and the server's receive thread, keeps going; the user interface finishes a packet
it has begun and need not begin one.
`Connection!Fairness`: the same, per client and per kind of packet, since no kind of packet is passed over for ever, and the timeout thread; and no request for a connection is under way for ever
to a server that is not there. Nobody need start a server, or end one.
`HostLifecycle!Fairness`: every thread runs; packets need not arrive and the user need not end the host.

## 4. Proofs

What TLC checks on small instances is proved for all types, fields, values, clients, bounds:

* **`SyncDataProofs`**: types of all operators, and `RoundTripLemma`: if dirty bits cover the
  differences between two managers, the diff can be applied without failing an
  assertion and makes the one equal to the other, as far as their IDs have bits.
* **`SyncSessionProofs`**: `Invariant`, that `IInv` is inductive. `IInv` is the conjunction of
  the types, `OnlyIssuedIDs`, `DirtyCoversDivergence` and `DirtyCoversInFlight`.
  `DirtyCoversDivergence` alone is not inductive: applying an arbitrarily old diff could bring a value the
  bits do not cover, so the diffs in flight must be covered too. That in turn needs
  `OnlyIssuedIDs`: when the server creates an object with no dirty bit, no client and no diff in
  flight may already know its ID. From `IInv`: `TypeCorrect`, `DirtyCoverage`, `DirtyCoverageInFlight`, `OnlyIssued`,
  `RoundTrip` (of the IDs that have bits, without assumptions) and
  `IDsAreForever`. `Presence` and `UpdatesFindTheirObjects` prove `PresenceIsMonotone`, a second inductive
  invariant, and `NoSegfault`, assuming `~Removals` and `MaxRestarts = 0`; the table of changes in section 3 shows why.
  `StaleRepliesKill` proves `OnlyStaleRepliesKill` without assumptions, with any number of requests under way, losses, copies and
  restarts. Its invariant, `RepliesFit`: every reply in flight creates only IDs that are not in the snapshot it was computed from, and
  removes and updates only IDs that are in it; so a client that still has what its snapshot named fails no assertion and follows
  no null handle.
* **`SyncHistoryProofs`**: `ReplicationImplemented`, that `SyncSession` with its history implements
  `Replication`. The inductive invariant (`HistoryInvariant`) says that everything in the server, in the clients and in
  every diff in flight is in `past`: a diff takes all it carries from the server's snapshot, and what a client then has is
  either from the diff or what it had.
* **`ClientThreadsProofs`**: `ThreadsInvariant`, that `ThreadsIInv` is inductive, gives `ThreadsTypeCorrect`,
  `DiffsAreAppliedWhole` and `TornSnapshotsCoverToo`. Of the receive thread it says two things. `Memory`: how far bits, handle map
  and objects have got with the key at hand, by program counter. `Leads`: applying what is left of the diff to the
  manager as it is now gives `goal`, which rests on one lemma for each kind of step (writing one field and then the
  others is writing all; making an object and then writing it is creating it; one creation, removal or update and then the
  rest of the diff is the diff). `CoveredBetweenDiffs` is not inductive, as nothing is claimed while a diff is half applied:
  `GoalOk` claims it of `goal` instead, at every moment. That snapshots may be torn does not matter: the proof
  needs of a diff only that its values are the server's, which holds whatever snapshot it was computed from.
  `TornSnapshotsAreRepaired`: an idle client's next whole exchange repairs it, as far as IDs have bits.
* **`ChatProofs`**: a step of the chat is a change of the server's objects of a kind `SyncSession` knows (a creation or an edit),
  a step of an exchange, or nothing to either; so the lemmas of `SyncSessionProofs` carry over, and `ChatInvariant`
  has `IInv` and `PresenceIsMonotone` among its parts, the latter without the assumptions of `Presence`: the chat
  removes nothing, and its clients do not restart. From it `ChatPresence`, `ChatRoundTrip`, and `MessagesNameThemselves`, which needs to be claimed of replicas and
  of diffs in flight, where each `messageID` comes from. `EditsReachTheirMessage` has no assumption about what users type. It rests on a
  further invariant, `ShownIsThere`: the message of every edit in flight that was shown to its author is at the server; that follows from
  `PresenceIsMonotone` at the moment of the edit, and stays, as the chat removes nothing.
* **`SyncManagerProofs`**: `IInv` (types, `HandlesMatchBits`, `ServerIDsIssued`) is inductive;
  from it `TypeCorrect`, `HandlesAndBitsAgree`, `LiveIDsAreIssued` and `SnapshotsAreRight`; with `NullHandlesComeFromLookups` as a further
  inductive invariant `SnapshotsAreSafe` and `NullDereferences` (`NoSegfault`); `NothingLeaks` (`NoLeak`), where
  `ServerIDsIssued` or the assertion rules out that an ID is created twice; and `Refinement`, that the specification implies
  `ObjectMap`'s under the mapping above, step by step.
* **`ConnectionProofs`**: the invariant of the server's tables (`TypeCorrect`, `TablesAgree`), through ends and starts of
  clients and server; and `Routes`, an invariant that ties every CID, whether a client holds it or a datagram carries it, to the handler
  bound to that client, from which `CidsLeadHome`, `RepliesGoHome` and `CidsAreUnique`, assuming
  `MaxServerRestarts = 0` (see the table of changes).

* **`HostLifecycleProofs`**: the module has no constants, so the run covers it whole; the proof (`HostInvariant`) says why. While `main`
  constructs, each thread runs only from the member on after which the code starts it; while the menu is up, all
  members exist; while it destroys, `hostFuture`, whose thread never ends, keeps the four first members, and the timeout thread
  has ended before `handlers` goes. From it `TypeCorrect`, `ThreadsKeepTheirMembers`, `UpIsSafe`, and
  `HostFutureIsNeverJoined`, which is the finding of `host_shutdown_hangs` for every behaviour: with or without fairness, no
  destruction gets past that future.

Assumptions: the named `ASSUME`s of the modules (kinds of the constants), evaluated by TLC in every run, and the hypotheses
named above, each of which a run or a row of the table of changes shows to be needed.
Every invariant and action property of the passing runs and both refinements are theorems. Only model-checked is
liveness (`Converges`, `Settles`, `ConvergesOrDies`, `EventuallyConnected`, `ShutdownReachesHostFuture`), which is
out of the provers' reach.

## 5. Not modelled, and abstractions

* JSON text, packet layout, SFML and SSVUtils. The libraries are not in the repository (the submodules are
  empty) and are modelled from their use: `SSVU_ASSERT` aborts or is compiled out, UDP loses,
  duplicates and reorders. That ssvj parses what it wrote is assumed; note that
  `DiffTypeData::toJson` calls `emplace` on a value made with `mkObj` for the removals, whose
  effect depends on ssvj.
* Malformed packets (an exception in a handler is caught and logged, and the state is what the
  handler left), and the uninitialised value `popRecv` returns for one that is too short.
* Objects after the 100th: their bits are written past the end of the bitset's 100 bits (into its padding up to 127,
  undefined behaviour beyond). `SyncSession` shows only the consequence that they are not synchronised.
* What a client's replica becomes after the server has restarted, with IDs from 0 again: `Connection` restarts the server, `SyncSession` does not.
* Races on the CID and on `ClientHandler`'s fields, single words here; the user interface's "Show local data", a
  second reader of the manager like the ping thread's snapshot.
* `HostLifecycle` leaves out members that are usable without construction or destruction (strings and numbers), and
  the local `lastID` of `main`, which the receive thread may still use while the host is destroyed.
* `toJsonDirty`, the packet kinds that are never sent (`SyncSatisfied`, `SyncRequestUnneeded`,
  `ConnectionDecline`, `SyncRequestDecline`, the server's `Data`), and console input.

## 6. Plan

Done: all modules and proofs above. What would extend them:

1. `SyncSession` over `Connection`, so that requests need a CID, with restarts of the server.
2. Theorems about the safety half of convergence: that a reply which is not stale, when it is applied, makes the client
   equal to the server of the moment it was computed, as an action property over the history of the replies' origin.
