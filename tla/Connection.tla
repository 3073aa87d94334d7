----------------------------- MODULE Connection ----------------------------
(***************************************************************************)
(* Connecting and staying connected: the server's ClientHandlerManager,    *)
(* which binds a ClientHandler to each client it accepts and finds it by   *)
(* its CID, and the client's two threads.  The ping thread asks for a      *)
(* connection once, sleeps a second, and from then on pings each second    *)
(* and requests synchronisation each fourth; the receive thread stores the *)
(* CID when ConnectionAccept arrives.  Nothing orders the two.             *)
(*                                                                         *)
(* A client is named by its address.  Snapshots and diffs are left out     *)
(* here (module SyncSession); a request carries the CID its sender holds,  *)
(* and a reply remembers in a history field who asked for it.              *)
(***************************************************************************)
EXTENDS Integers, Sequences, FiniteSets, Bags, BagsExt, FiniteSetsExt

CONSTANTS
    Clients,            \* the addresses of client processes
    AssertsEnabled,     \* built with SSVU_ASSERT, or not
    MaxSeconds,         \* maxSecondsUntilTimeout
    SyncEvery,          \* pings between two synchronisation requests
    MaxCIDs,            \* bound: connections accepted
    MaxNet,             \* bound: a client's datagrams in flight
    MaxFaults,          \* bound: datagrams lost or duplicated
    MaxRestarts,        \* bound: client processes that end (and may restart)
    MaxServerRestarts   \* bound: server processes that end (and may restart)

ASSUME ConnectionAssumption ==
    /\ AssertsEnabled \in BOOLEAN
    /\ {MaxSeconds, SyncEvery} \subseteq Nat \ {0}
    /\ {MaxCIDs, MaxNet, MaxFaults, MaxRestarts, MaxServerRestarts} \subseteq Nat

VARIABLES
    serverUp,       \* whether there is a server process
    nextCID,        \* the next CID
    clientHandlers, \* the ClientHandlers created; a pointer is an index
    chAvailable,    \* pointers to handlers that can be bound
    chBusy,         \* pointers to handlers the timeout thread watches
    chMap,          \* the handler of each CID
    client,         \* each client process
    net,            \* the bag of datagrams in flight
    lost,           \* history: clients whose last request or accept was lost
    faults, restarts, serverRestarts    \* what is left of the bounds

serverVars == <<nextCID, clientHandlers, chAvailable, chBusy, chMap>>
budgets == <<faults, restarts, serverRestarts>>
vars == <<serverUp, serverVars, client, net, lost, budgets>>

nullCID == -1

(* A client process: where its ping thread is, the thread's counter, and   *)
(* the CID its receive thread has stored.                                  *)
NewProcess == [status |-> "running", pc |-> "request", pings |-> 0, cid |-> nullCID]

-----------------------------------------------------------------------------
(* Datagrams.  The field client is the address of the client's end.        *)

ConnectionRequest(c) == [type |-> "ConnectionRequest", client |-> c]
ConnectionAccept(c, cid) == [type |-> "ConnectionAccept", client |-> c, cid |-> cid]
Ping(c, cid) == [type |-> "Ping", client |-> c, cid |-> cid]
SyncRequest(c, cid) == [type |-> "SyncRequest", client |-> c, cid |-> cid]
SyncRequestSatisfy(c, requester) ==
    [type |-> "SyncRequestSatisfy", client |-> c, requester |-> requester]

InFlight(type) == {m \in BagToSet(net) : m.type = type}

(* What the server's receive thread can take: it is the process's socket.  *)
Arrived(type) == IF serverUp THEN InFlight(type) ELSE {}

(* The datagrams a client has sent and the answers to them, or to it.      *)
IsOf(m, c) ==
    m.client = c \/ (m.type = "SyncRequestSatisfy" /\ m.requester = c)

HasRoom(c) ==
    MapThenSumSet(LAMBDA m : net[m], {m \in BagToSet(net) : IsOf(m, c)}) < MaxNet

-----------------------------------------------------------------------------
(* ClientHandler and ClientHandlerManager.                                 *)

bindToClient(cid, c) ==
    [cid |-> cid, client |-> c, secondsUntilTimeout |-> MaxSeconds, busy |-> TRUE]

unbindFromClient(ch) == [ch EXCEPT !.cid = nullCID, !.busy = FALSE]

has(cid) == cid \in DOMAIN chMap

(* The handlers in chBusy the timeout thread has freed become available;   *)
(* a handler is bound that is available, or a new one.  (The code takes    *)
(* the one that became available last.)                                    *)
StillBusy == {h \in chBusy : clientHandlers[h].busy}
Available == chAvailable \cup (chBusy \ StillBusy)

(* Mutant: the last handler is bound again.                                 *)
LastHandlerOnly == {IF clientHandlers = <<>> THEN 1 ELSE Len(clientHandlers)}

HandlersToBind == IF Available = {} THEN {Len(clientHandlers) + 1} ELSE Available

Bound(h, ch) ==
    IF h \in DOMAIN clientHandlers THEN [clientHandlers EXCEPT ![h] = ch]
                                   ELSE Append(clientHandlers, ch)

(* Mutant: the CID is not counted.                                          *)
AcceptClientUncounted(c) ==
    /\ clientHandlers' = Append(clientHandlers, bindToClient(nextCID, c))
    /\ chMap' = [cid \in DOMAIN chMap \cup {nextCID} |->
                    IF cid = nextCID THEN Len(clientHandlers) + 1 ELSE chMap[cid]]
    /\ UNCHANGED <<nextCID, chAvailable, chBusy>>

(* Mutant: the handler is watched from now on, as chBusy is meant for.      *)
AcceptClientWatching(c) ==
    /\ nextCID' = nextCID + 1
    /\ \E h \in HandlersToBind :
          /\ chBusy' = StillBusy \cup {h}
          /\ chAvailable' = Available \ {h}
          /\ clientHandlers' = Bound(h, bindToClient(nextCID, c))
          /\ chMap' = [cid \in DOMAIN chMap \cup {nextCID} |->
                          IF cid = nextCID THEN h ELSE chMap[cid]]

(* acceptClient: the CID is new; the freed handlers' CIDs, as they are     *)
(* now, leave the map; one handler is bound and goes under the new CID.    *)
(* It is not added to chBusy.                                              *)
acceptClient(c) ==
    LET toErase == {clientHandlers[h].cid : h \in chBusy \ StillBusy}
    IN  /\ nextCID' = nextCID + 1
        /\ chBusy' = StillBusy
        /\ \E h \in HandlersToBind :
              /\ chAvailable' = Available \ {h}
              /\ clientHandlers' = Bound(h, bindToClient(nextCID, c))
              /\ chMap' = [cid \in (DOMAIN chMap \ toErase) \cup {nextCID} |->
                              IF cid = nextCID THEN h ELSE chMap[cid]]

(* Mutant: handlers are counted down whether they are watched or not.       *)
RunTimeoutOfAll ==
    /\ serverUp
    /\ clientHandlers' = [h \in DOMAIN clientHandlers |->
                             [clientHandlers[h] EXCEPT !.secondsUntilTimeout = @ - 1]]
    /\ UNCHANGED <<serverUp, nextCID, chAvailable, chBusy, chMap, client, net, lost, budgets>>

(* runTimeout, once a second: count down the handlers in chBusy and unbind *)
(* those that reach zero.                                                  *)
RunTimeout ==
    LET Tick(ch) ==
            LET ticked == [ch EXCEPT !.secondsUntilTimeout = @ - 1]
            IN  IF ticked.secondsUntilTimeout = 0 THEN unbindFromClient(ticked)
                                                  ELSE ticked
    IN  /\ serverUp
        /\ clientHandlers' = [h \in DOMAIN clientHandlers |->
                                 IF h \in chBusy THEN Tick(clientHandlers[h])
                                                        ELSE clientHandlers[h]]
        /\ UNCHANGED <<serverUp, nextCID, chAvailable, chBusy, chMap, client, net, lost, budgets>>

-----------------------------------------------------------------------------
(* The server's receive thread.                                            *)

(* Mutant: no answer.                                                       *)
HandleConnectionRequestSilently(m) ==
    /\ m \in Arrived("ConnectionRequest")
    /\ nextCID < MaxCIDs
    /\ acceptClient(m.client)
    /\ net' = BagRemove(net, m)
    /\ UNCHANGED <<serverUp, client, lost, budgets>>

HandleConnectionRequest(m) ==
    /\ m \in Arrived("ConnectionRequest")
    /\ nextCID < MaxCIDs
    /\ acceptClient(m.client)
    /\ net' = BagAdd(BagRemove(net, m), ConnectionAccept(m.client, nextCID))
    /\ UNCHANGED <<serverUp, client, lost, budgets>>

(* Any other packet starts with its sender's CID, and is dropped when the  *)
(* server does not know it.                                                *)
HandleUnknown(m) ==
    /\ m \in Arrived("Ping") \cup Arrived("SyncRequest")
    /\ ~has(m.cid)
    /\ net' = BagRemove(net, m)
    /\ UNCHANGED <<serverUp, serverVars, client, lost, budgets>>

HandlePing(m) ==
    /\ m \in Arrived("Ping")
    /\ has(m.cid)
    /\ clientHandlers' =
          [clientHandlers EXCEPT ![chMap[m.cid]].secondsUntilTimeout = MaxSeconds]
    /\ net' = BagRemove(net, m)
    /\ UNCHANGED <<serverUp, nextCID, chAvailable, chBusy, chMap, client, lost, budgets>>

(* Mutant: the reply goes to the client accepted last.                      *)
HandleSyncRequestOfLast(m) ==
    /\ m \in Arrived("SyncRequest")
    /\ has(m.cid)
    /\ net' = BagAdd(BagRemove(net, m),
                     SyncRequestSatisfy(clientHandlers[Len(clientHandlers)].client, m.client))
    /\ UNCHANGED <<serverUp, serverVars, client, lost, budgets>>

(* The reply goes to the address of the handler found under the CID.       *)
HandleSyncRequest(m) ==
    /\ m \in Arrived("SyncRequest")
    /\ has(m.cid)
    /\ LET ch == clientHandlers[chMap[m.cid]]
       IN  net' = BagAdd(BagRemove(net, m), SyncRequestSatisfy(ch.client, m.client))
    /\ UNCHANGED <<serverUp, serverVars, client, lost, budgets>>

-----------------------------------------------------------------------------
(* The client's ping thread.                                               *)

(* sendToServerNoCID and sendToServer: the assertion on the CID, and the   *)
(* datagram.                                                               *)
Send(c, expected, m, process) ==
    IF AssertsEnabled /\ ~expected
    THEN /\ client' = [client EXCEPT ![c].status = "aborted"]
         /\ UNCHANGED net
    ELSE /\ client' = [client EXCEPT ![c] = process]
         /\ net' = BagAdd(net, m)

SendConnectionRequest(c) ==
    /\ client[c].status = "running"
    /\ client[c].pc = "request"
    /\ HasRoom(c)
    /\ Send(c, client[c].cid = nullCID, ConnectionRequest(c),
            [client[c] EXCEPT !.pc = "loop"])
    /\ UNCHANGED <<serverUp, serverVars, lost, budgets>>

SendPing(c) ==
    LET pings == client[c].pings + 1
    IN  /\ client[c].status = "running"
        /\ client[c].pc = "loop"
        /\ HasRoom(c)
        /\ Send(c, client[c].cid # nullCID, Ping(c, client[c].cid),
                [client[c] EXCEPT !.pings = pings,
                                  !.pc = IF pings = SyncEvery THEN "sync" ELSE "loop"])
        /\ UNCHANGED <<serverUp, serverVars, lost, budgets>>

SendSyncRequest(c) ==
    /\ client[c].status = "running"
    /\ client[c].pc = "sync"
    /\ HasRoom(c)
    /\ Send(c, client[c].cid # nullCID, SyncRequest(c, client[c].cid),
            [client[c] EXCEPT !.pings = 0, !.pc = "loop"])
    /\ UNCHANGED <<serverUp, serverVars, lost, budgets>>

-----------------------------------------------------------------------------
(* The client's receive thread.  Any CID that arrives is believed.         *)

HandleConnectionAccept(m) ==
    /\ m \in InFlight("ConnectionAccept")
    /\ client[m.client].status = "running"
    /\ client' = [client EXCEPT ![m.client].cid = m.cid]
    /\ net' = BagRemove(net, m)
    /\ UNCHANGED <<serverUp, serverVars, lost, budgets>>

HandleSyncRequestSatisfy(m) ==
    /\ m \in InFlight("SyncRequestSatisfy")
    /\ client[m.client].status = "running"
    /\ net' = BagRemove(net, m)
    /\ UNCHANGED <<serverUp, serverVars, client, lost, budgets>>

-----------------------------------------------------------------------------
(* The environment.                                                        *)

(* A datagram for a client needs its process, one for the server the       *)
(* server's.  The kernel drops those that find none, and those queued for  *)
(* a process that ends; any of them may also still be under way.           *)
FindsNobody(m) ==
    IF m.type \in {"ConnectionAccept", "SyncRequestSatisfy"}
    THEN client[m.client].status # "running"
    ELSE ~serverUp

Handshake == {"ConnectionRequest", "ConnectionAccept"}

Gone(m) ==
    /\ net' = BagRemove(net, m)
    /\ lost' = IF /\ m.type \in Handshake
                  /\ \A d \in BagToSet(net') : d.type \in Handshake => d.client # m.client
               THEN lost \cup {m.client} ELSE lost

LoseUnheard(m) ==
    /\ m \in BagToSet(net)
    /\ FindsNobody(m)
    /\ Gone(m)
    /\ UNCHANGED <<serverUp, serverVars, client, budgets>>

Lose(m) ==
    /\ m \in BagToSet(net)
    /\ ~FindsNobody(m)
    /\ faults > 0
    /\ faults' = faults - 1
    /\ Gone(m)
    /\ UNCHANGED <<serverUp, serverVars, client, restarts, serverRestarts>>

Duplicate(m) ==
    /\ m \in BagToSet(net)
    /\ HasRoom(m.client)
    /\ faults > 0
    /\ faults' = faults - 1
    /\ net' = BagAdd(net, m)
    /\ UNCHANGED <<serverUp, serverVars, client, lost, restarts, serverRestarts>>

(* The user ends a client.  The server is not told.                        *)
End(c) ==
    /\ client[c].status = "running"
    /\ restarts > 0
    /\ restarts' = restarts - 1
    /\ client' = [client EXCEPT ![c].status = "ended"]
    /\ UNCHANGED <<serverUp, serverVars, net, lost, faults, serverRestarts>>

Start(c) ==
    /\ client[c].status # "running"
    /\ client' = [client EXCEPT ![c] = NewProcess]
    /\ lost' = lost \ {c}
    /\ UNCHANGED <<serverUp, serverVars, net, budgets>>

(* The server ends, and its handlers and CIDs with it.  The clients are    *)
(* not told either.                                                        *)
StopServer ==
    /\ serverUp
    /\ serverRestarts > 0
    /\ serverRestarts' = serverRestarts - 1
    /\ serverUp' = FALSE
    /\ nextCID' = 0
    /\ clientHandlers' = <<>>
    /\ chAvailable' = {}
    /\ chBusy' = {}
    /\ chMap' = <<>>
    /\ UNCHANGED <<client, net, lost, faults, restarts>>

(* A new server process: no handlers, and CIDs from 0 again.               *)
StartServer ==
    /\ ~serverUp
    /\ serverUp' = TRUE
    /\ UNCHANGED <<serverVars, client, net, lost, budgets>>

-----------------------------------------------------------------------------
Init ==
    /\ serverUp = TRUE
    /\ nextCID = 0
    /\ clientHandlers = <<>>
    /\ chAvailable = {}
    /\ chBusy = {}
    /\ chMap = <<>>
    /\ client = [c \in Clients |-> NewProcess]
    /\ net = EmptyBag
    /\ lost = {}
    /\ faults = MaxFaults
    /\ restarts = MaxRestarts
    /\ serverRestarts = MaxServerRestarts

Next ==
    \/ \E m \in BagToSet(net) : HandleConnectionRequest(m)
    \/ \E m \in BagToSet(net) : HandleUnknown(m)
    \/ \E m \in BagToSet(net) : HandlePing(m)
    \/ \E m \in BagToSet(net) : HandleSyncRequest(m)
    \/ RunTimeout
    \/ \E c \in Clients : SendConnectionRequest(c)
    \/ \E c \in Clients : SendPing(c)
    \/ \E c \in Clients : SendSyncRequest(c)
    \/ \E m \in BagToSet(net) : HandleConnectionAccept(m)
    \/ \E m \in BagToSet(net) : HandleSyncRequestSatisfy(m)
    \/ \E m \in BagToSet(net) : LoseUnheard(m)
    \/ \E m \in BagToSet(net) : Lose(m)
    \/ \E m \in BagToSet(net) : Duplicate(m)
    \/ \E c \in Clients : End(c)
    \/ \E c \in Clients : Start(c)
    \/ StopServer
    \/ StartServer

Spec == Init /\ [][Next]_vars

(* Every thread keeps running.  A socket hands datagrams over in the order *)
(* of their arrival, so each kind of packet is handled, from each client;  *)
(* and no datagram is under way for ever.  Nobody need start a server.     *)
Fairness ==
    /\ WF_vars(RunTimeout)
    /\ \A c \in Clients :
          /\ WF_vars(\E m \in InFlight("ConnectionRequest") :
                        m.client = c /\ LoseUnheard(m))
          /\ WF_vars(SendConnectionRequest(c))
          /\ WF_vars(SendPing(c))
          /\ WF_vars(SendSyncRequest(c))
          /\ WF_vars(\E m \in BagToSet(net) :
                        m.client = c /\ HandleConnectionRequest(m))
          /\ WF_vars(\E m \in BagToSet(net) :
                        m.client = c /\ HandleConnectionAccept(m))
          /\ WF_vars(\E m \in BagToSet(net) :
                        m.client = c /\ (HandleUnknown(m) \/ HandlePing(m)))
          /\ WF_vars(\E m \in BagToSet(net) : m.client = c /\ HandleSyncRequest(m))
          /\ WF_vars(\E m \in BagToSet(net) :
                        m.client = c /\ HandleSyncRequestSatisfy(m))

FairSpec == Spec /\ Fairness

-----------------------------------------------------------------------------
(* Properties.                                                             *)

Connected(c) == client[c].status = "running" /\ client[c].cid # nullCID

IsMessage(m) ==
    /\ m.client \in Clients
    /\ \/ m.type = "ConnectionRequest"
       \/ m.type = "ConnectionAccept" /\ m.cid \in 0 .. MaxCIDs - 1
       \/ m.type \in {"Ping", "SyncRequest"} /\ m.cid \in -1 .. MaxCIDs - 1
       \/ m.type = "SyncRequestSatisfy" /\ m.requester \in Clients

(* The type invariant: CIDs in range, pointers to existing handlers, and   *)
(* datagrams of the kinds PacketTypes lists.                               *)
TypeOK ==
    /\ serverUp \in BOOLEAN
    /\ nextCID \in 0 .. MaxCIDs
    /\ clientHandlers \in Seq([cid : -1 .. MaxCIDs - 1, client : Clients,
                               secondsUntilTimeout : 0 .. MaxSeconds, busy : BOOLEAN])
    /\ chAvailable \cup chBusy \subseteq DOMAIN clientHandlers
    /\ DOMAIN chMap \subseteq 0 .. MaxCIDs - 1
    /\ \A cid \in DOMAIN chMap : chMap[cid] \in DOMAIN clientHandlers
    /\ client \in [Clients -> [status : {"running", "aborted", "ended"},
                               pc : {"request", "loop", "sync"},
                               pings : 0 .. SyncEvery, cid : -1 .. MaxCIDs - 1]]
    /\ \A m \in BagToSet(net) : IsMessage(m)
    /\ lost \subseteq Clients
    /\ <<faults, restarts, serverRestarts>> \in
          (0 .. MaxFaults) \X (0 .. MaxRestarts) \X (0 .. MaxServerRestarts)

(* Each CID the server knows has a handler of its own, bound to that CID:  *)
(* recycling a handler never leaves an older CID pointing at it.           *)
HandlersMatchCids ==
    \A cid \in DOMAIN chMap :
        /\ clientHandlers[chMap[cid]].cid = cid
        /\ clientHandlers[chMap[cid]].busy
        /\ \A other \in DOMAIN chMap : chMap[other] = chMap[cid] => other = cid

(* A connected client's CID leads the server back to that client.          *)
CidRoutesHome ==
    \A c \in Clients : Connected(c) =>
        /\ has(client[c].cid)
        /\ clientHandlers[chMap[client[c].cid]].client = c

(* A synchronisation reply goes to the address its request came from.      *)
(* (Whether the process there is still the one that asked is another       *)
(* matter: nothing in the packet tells, and it may not be.)                *)
RepliesReachRequester ==
    \A m \in InFlight("SyncRequestSatisfy") : m.client = m.requester

(* "Next available unique client ID": no two clients hold the same CID.    *)
CidsUnique ==
    \A c, d \in Clients : Connected(c) /\ Connected(d) /\ c # d
                              => client[c].cid # client[d].cid

(* The assertion of sendToServer: a client that sends anything but its     *)
(* first request has received its CID.                                     *)
CidKnownBeforeUse == \A c \in Clients : client[c].status # "aborted"

(* Every client that keeps running gets its CID, unless the one request it *)
(* makes, or the answer to it, is lost with all its duplicates: restarts   *)
(* of the server and the datagrams of others, lost or not, do not prevent  *)
(* it.                                                                     *)
EventuallyConnected ==
    \A c \in Clients :
        <>(client[c].status # "running" \/ client[c].cid # nullCID \/ c \in lost)

(* A client that has gone for good loses its handler.                      *)
TimedOutHandlersFreed ==
    \A c \in Clients :
        <>[](client[c].status # "running")
            => <>[](\A h \in DOMAIN clientHandlers :
                        clientHandlers[h].busy => clientHandlers[h].client # c)
=============================================================================
