---------------------------- MODULE SyncSession ----------------------------
(***************************************************************************)
(* The synchronisation protocol: one SessionServer, which owns the state,  *)
(* and SessionClients that replicate it over UDP.                          *)
(*                                                                         *)
(* A client periodically sends the snapshot of its manager (SyncRequest).  *)
(* The server answers with the diff between its own snapshot and that one  *)
(* (SyncRequestSatisfy), keeping nothing about the client.  The client     *)
(* applies whatever diff arrives.  Nothing is numbered or acknowledged:    *)
(* the network may lose, duplicate and reorder both kinds of datagram.     *)
(*                                                                         *)
(* Both hosts handle one packet at a time in their receive thread, and the *)
(* chat server changes its state in that same thread (onDataReceived), so  *)
(* a handler is one step.  The clients are connected already: accepting    *)
(* and pinging are in module Connection.                                   *)
(***************************************************************************)
EXTENDS SyncData, BagsExt, Bags

CONSTANTS
    Clients,        \* the clients the server has accepted
    CreateJsons,    \* the JSON objects the application creates objects from
    Builds,         \* how clients are built: "debug" (compileDebug.sh) with
                    \* SSVU_ASSERT, "release" (compile.sh) without
    MaxDatagram,    \* objects the largest UDP datagram has room for
    Removals,       \* does the application remove objects?
    MaxOps,         \* bound: changes the application makes at the server
    MaxNet,         \* bound: a client's datagrams in flight
    MaxFaults,      \* bound: datagrams lost or duplicated
    MaxRestarts     \* bound: client processes restarted

ASSUME SyncSessionAssumption ==
    /\ \A json \in CreateJsons :
          /\ DOMAIN json \subseteq Fields
          /\ \A f \in DOMAIN json : json[f] \in Values
    /\ Builds \subseteq {"debug", "release"}
    /\ Removals \in BOOLEAN
    /\ {MaxDatagram, MaxOps, MaxNet, MaxFaults, MaxRestarts} \subseteq Nat

VARIABLES
    server,     \* the server's manager
    lastIDs,    \* its next ID for each type
    client,     \* the manager of each client
    status,     \* what became of each client's process
    build,      \* and how its program was built
    net,        \* the bag of datagrams in flight
    ops, faults, restarts   \* what is left of the bounds

serverVars == <<server, lastIDs>>
clientVars == <<client, status, build>>
vars == <<serverVars, clientVars, net, ops, faults, restarts>>

-----------------------------------------------------------------------------
(* Datagrams.  A reply remembers, in a history field that no handler       *)
(* reads, the IDs of the snapshot it answers.                              *)

SyncRequest(c, snapshot) ==
    [type |-> "SyncRequest", client |-> c, snapshot |-> snapshot]

SyncRequestSatisfy(c, diff, basis) ==
    [type |-> "SyncRequestSatisfy", client |-> c, diff |-> diff, basis |-> basis]

Requests == {m \in BagToSet(net) : m.type = "SyncRequest"}
Replies  == {m \in BagToSet(net) : m.type = "SyncRequestSatisfy"}

(* The number of objects a datagram describes.                             *)
Size(m) ==
    IF m.type = "SyncRequest"
    THEN Cardinality(DOMAIN m.snapshot.items)
    ELSE Cardinality(DOMAIN m.diff.toCreate)
            + Cardinality(m.diff.toRemove) + Cardinality(DOMAIN m.diff.toUpdate)

(* sendTo: a datagram the socket refuses is logged and forgotten.          *)
Sent(m, flying) == IF Size(m) <= MaxDatagram THEN BagAdd(flying, m) ELSE flying

(* The datagrams of an exchange with c in flight, every copy of each.      *)
InFlight(c) ==
    UNION {{m} \X (1 .. net[m]) : m \in {n \in BagToSet(net) : n.client = c}}

(* There are fewer of them than MaxNet.                                    *)
HasRoom(c) == Cardinality(InFlight(c)) < MaxNet

-----------------------------------------------------------------------------
(* The server's application, in the server's receive thread.               *)

Changes ==
    /\ ops > 0
    /\ ops' = ops - 1
    /\ UNCHANGED <<clientVars, net, faults, restarts>>

(* Mutant: the lowest ID without an object is taken.                        *)
ServerCreateFirstFree(t, json) ==
    /\ \E i \in ID :
          /\ <<t, i>> \notin DOMAIN server
          /\ \A j \in 0 .. i - 1 : <<t, j>> \in DOMAIN server
          /\ server' = Create(server, <<t, i>>, json)
          /\ lastIDs' = [lastIDs EXCEPT ![t] = IF i < @ THEN @ ELSE i + 1]
    /\ Changes

(* serverCreate: the next ID is taken and never given back.                *)
ServerCreate(t, json) ==
    /\ lastIDs[t] < MaxIDs
    /\ lastIDs' = [lastIDs EXCEPT ![t] = @ + 1]
    /\ server' = Create(server, <<t, lastIDs[t]>>, json)
    /\ Changes

ServerEdit(k, f, v) ==
    /\ k \in DOMAIN server
    /\ server' = [server EXCEPT ![k] = Edit(@, f, v)]
    /\ UNCHANGED lastIDs
    /\ Changes

(* Mutant: removing the newest object gives its ID back.                    *)
ServerRemoveReturningID(k) ==
    /\ Removals
    /\ k \in DOMAIN server
    /\ server' = Remove(server, k)
    /\ lastIDs' = [lastIDs EXCEPT ![k[1]] = IF k[2] = @ - 1 THEN @ - 1 ELSE @]
    /\ Changes

ServerRemove(k) ==
    /\ Removals
    /\ k \in DOMAIN server
    /\ server' = Remove(server, k)
    /\ UNCHANGED lastIDs
    /\ Changes

-----------------------------------------------------------------------------
(* The protocol.                                                           *)

(* sendSyncRequest, every fourth second of the client's ping thread.       *)
SendSyncRequest(c) ==
    /\ status[c] = "running"
    /\ HasRoom(c)
    /\ net' = Sent(SyncRequest(c, Transmitted(GetSnapshot(client[c]))), net)
    /\ UNCHANGED <<serverVars, clientVars, ops, faults, restarts>>

(* Mutant: what has been sent is no longer dirty.                           *)
HandleSyncRequestClearing(m) ==
    /\ m \in Requests
    /\ LET diff == GetDiffWith(GetSnapshot(server), m.snapshot)
       IN  net' = Sent(SyncRequestSatisfy(m.client, diff, m.snapshot.bitsetIDs),
                       BagRemove(net, m))
    /\ server' = [k \in DOMAIN server |-> [server[k] EXCEPT !.fieldFlags = {}]]
    /\ UNCHANGED <<lastIDs, clientVars, ops, faults, restarts>>

(* handleSyncRequest.  An empty diff is sent too.                          *)
HandleSyncRequest(m) ==
    /\ m \in Requests
    /\ LET diff == GetDiffWith(GetSnapshot(server), m.snapshot)
       IN  net' = Sent(SyncRequestSatisfy(m.client, diff, m.snapshot.bitsetIDs),
                       BagRemove(net, m))
    /\ UNCHANGED <<serverVars, clientVars, ops, faults, restarts>>

(* handleSyncRequestSatisfy.  A failed assertion aborts the process; with  *)
(* the assertions compiled out, an update without an object writes through *)
(* a null pointer.                                                         *)
HandleSyncRequestSatisfy(m) ==
    LET c == m.client
    IN  /\ m \in Replies
        /\ status[c] = "running"
        /\ \/ /\ build[c] = "debug"
              /\ AssertionFails(client[c], m.diff)
              /\ status' = [status EXCEPT ![c] = "aborted"]
              /\ UNCHANGED client
           \/ /\ build[c] = "release"
              /\ UpdateFindsNoObject(client[c], m.diff)
              /\ status' = [status EXCEPT ![c] = "segfault"]
              /\ UNCHANGED client
           \/ /\ build[c] = "debug" => ~AssertionFails(client[c], m.diff)
              /\ ~UpdateFindsNoObject(client[c], m.diff)
              /\ client' = [client EXCEPT ![c] = ApplyDiff(@, m.diff)]
              /\ UNCHANGED status
        /\ net' = BagRemove(net, m)
        /\ UNCHANGED <<serverVars, build, ops, faults, restarts>>

-----------------------------------------------------------------------------
(* The environment.                                                        *)

(* A datagram is lost.  One sent to a process that died always is.         *)
Lose(m) ==
    /\ m \in BagToSet(net)
    /\ IF m \in Replies /\ status[m.client] # "running"
       THEN UNCHANGED faults
       ELSE faults > 0 /\ faults' = faults - 1
    /\ net' = BagRemove(net, m)
    /\ UNCHANGED <<serverVars, clientVars, ops, restarts>>

Duplicate(m) ==
    /\ m \in BagToSet(net)
    /\ HasRoom(m.client)
    /\ faults > 0
    /\ faults' = faults - 1
    /\ net' = BagAdd(net, m)
    /\ UNCHANGED <<serverVars, clientVars, ops, restarts>>

(* A new client process on the same address and port, with an empty        *)
(* manager: datagrams meant for the old one still reach it.                *)
Restart(c) ==
    /\ restarts > 0
    /\ restarts' = restarts - 1
    /\ client' = [client EXCEPT ![c] = EmptyManager]
    /\ status' = [status EXCEPT ![c] = "running"]
    /\ UNCHANGED <<serverVars, build, net, ops, faults>>

-----------------------------------------------------------------------------
Init ==
    /\ server = EmptyManager
    /\ lastIDs = [t \in Types |-> 0]
    /\ client = [c \in Clients |-> EmptyManager]
    /\ status = [c \in Clients |-> "running"]
    /\ build \in [Clients -> Builds]
    /\ net = EmptyBag
    /\ ops = MaxOps
    /\ faults = MaxFaults
    /\ restarts = MaxRestarts

Next ==
    \/ \E t \in Types, json \in CreateJsons : ServerCreate(t, json)
    \/ \E k \in Key, f \in Fields, v \in Values : ServerEdit(k, f, v)
    \/ \E k \in Key : ServerRemove(k)
    \/ \E c \in Clients : SendSyncRequest(c)
    \/ \E m \in BagToSet(net) : HandleSyncRequest(m)
    \/ \E m \in BagToSet(net) : HandleSyncRequestSatisfy(m)
    \/ \E m \in BagToSet(net) : Lose(m)
    \/ \E m \in BagToSet(net) : Duplicate(m)
    \/ \E c \in Clients : Restart(c)

Spec == Init /\ [][Next]_vars

(* The ping thread and the two receive threads loop forever; the server's  *)
(* socket hands the requests over in the order of their arrival, so each   *)
(* client's are handled.                                                   *)
Fairness ==
    \A c \in Clients :
        /\ WF_vars(SendSyncRequest(c))
        /\ WF_vars(\E m \in Requests : m.client = c /\ HandleSyncRequest(m))
        /\ WF_vars(\E m \in Replies : m.client = c /\ HandleSyncRequestSatisfy(m))

FairSpec == Spec /\ Fairness

-----------------------------------------------------------------------------
(* Properties.                                                             *)

IsMessage(m) ==
    /\ m.client \in Clients
    /\ \/ m.type = "SyncRequest" /\ IsSnapshot(m.snapshot)
       \/ m.type = "SyncRequestSatisfy" /\ IsDiff(m.diff) /\ m.basis \subseteq Key

(* The type invariant: managers, counters, process states and datagrams    *)
(* have the shape SyncManager, SessionHost and the packets give them.      *)
TypeOK ==
    /\ IsManager(server)
    /\ lastIDs \in [Types -> 0 .. MaxIDs]
    /\ DOMAIN client = Clients
    /\ \A c \in Clients : IsManager(client[c])
    /\ status \in [Clients -> {"running", "aborted", "segfault"}]
    /\ build \in [Clients -> Builds]
    /\ \A m \in BagToSet(net) : IsMessage(m)
    /\ ops \in 0 .. MaxOps
    /\ faults \in 0 .. MaxFaults
    /\ restarts \in 0 .. MaxRestarts

(* serverCreate has handed out this ID.                                    *)
Issued(k) == k[2] < lastIDs[k[1]]

(* getDiffWith compares only the fields the server has marked dirty.  A    *)
(* client that holds another value in a field that is not marked would     *)
(* keep it for ever; whatever late, lost or repeated diffs the client has  *)
(* applied, there is no such field.                                        *)
DirtyCoversDivergence ==
    \A c \in Clients : \A k \in DOMAIN client[c] \cap DOMAIN server :
        DirtyWhereDifferent(client[c][k].fields, server[k])

(* The IDs of client and server agree: a client only ever holds objects    *)
(* under IDs the server issued, and no diff on its way names another.      *)
OnlyIssuedIDs ==
    /\ \A k \in DOMAIN server : Issued(k)
    /\ \A c \in Clients : \A k \in DOMAIN client[c] : Issued(k)
    /\ \A m \in Replies :
          \A k \in DOMAIN m.diff.toCreate \cup DOMAIN m.diff.toUpdate : Issued(k)

(* What makes DirtyCoversDivergence inductive: the diffs in flight, which  *)
(* may be arbitrarily old, hold no value the dirty bits do not cover.      *)
DirtyCoversInFlight ==
    \A m \in Replies : \A k \in DOMAIN server :
        /\ k \in DOMAIN m.diff.toCreate =>
              DirtyWhereDifferent(m.diff.toCreate[k].fields, server[k])
        /\ k \in DOMAIN m.diff.toUpdate =>
              DirtyWhereDifferent(m.diff.toUpdate[k], server[k])

IInv == /\ TypeOK
        /\ OnlyIssuedIDs
        /\ DirtyCoversDivergence
        /\ DirtyCoversInFlight

(* "The smallest amount of data required to fully synchronize the clients  *)
(* to the server": whatever state a client has got into, the diff the      *)
(* server computes from its snapshot can be applied to it and leaves it    *)
(* with the server's objects and values, those apart that have no bit      *)
(* because maxObjs objects of their type were created before them.         *)
RoundTripSynchronises ==
    \A c \in Clients :
        LET diff == GetDiffWith(GetSnapshot(server),
                                Transmitted(GetSnapshot(client[c])))
        IN  /\ ~AssertionFails(client[c], diff)
            /\ SameContent(WithBits(ApplyDiff(client[c], diff)), WithBits(server))

(* An ID whose object was removed never names an object again: createImpl  *)
(* at the server never reuses it, so a late diff cannot mix two objects.   *)
IDsNotRecycled ==
    [][\A k \in Key : Issued(k) /\ k \notin DOMAIN server
                          => k \notin DOMAIN server']_vars

(* Diffs are not numbered, so one that was overtaken, repeated or meant    *)
(* for a client's former process is applied too, and may kill the client.  *)
(* Nothing else does: a process only dies of a reply to a snapshot that    *)
(* shows other objects than those it has now, whatever the server has      *)
(* created, edited and removed since.                                      *)
OnlyStaleRepliesKill ==
    [][\A c \in Clients : status[c] = "running" /\ status'[c] # "running" =>
          \E m \in Replies :
              /\ m.client = c
              /\ net' = BagRemove(net, m)
              /\ m.basis # DOMAIN client[c] \cap Representable]_vars

(* No client dies on an assertion of createImpl, removeImpl or updateImpl. *)
NoAbort == \A c \in Clients : status[c] # "aborted"

(* No client updates an object it does not have.                           *)
NoSegfault == \A c \in Clients : status[c] # "segfault"

(* What makes NoSegfault inductive while nothing is removed and no client  *)
(* restarts: an object once seen by a client stays, so the objects in its  *)
(* snapshots and in the updates on their way to it are there.              *)
PresenceIsMonotone ==
    /\ \A c \in Clients : DOMAIN client[c] \subseteq DOMAIN server
    /\ \A m \in Requests :
          m.snapshot.bitsetIDs \subseteq DOMAIN client[m.client]
    /\ \A m \in Replies :
          /\ DOMAIN m.diff.toCreate \subseteq DOMAIN server
          /\ m.diff.toRemove = {}
          /\ DOMAIN m.diff.toUpdate \subseteq DOMAIN client[m.client]

(* Once the application is quiet and the network has stopped failing,      *)
(* every client that is still there ends with the server's content and     *)
(* keeps it: a client that has restarted catches up, and what a late or    *)
(* repeated reply has undone is done again.                                *)
Converges ==
    \A c \in Clients :
        <>[](status[c] = "running" => SameContent(client[c], server))
=============================================================================
