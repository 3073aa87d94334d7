-------------------------- MODULE ConnectionProofs --------------------------
(***************************************************************************)
(* Theorems about Connection, for any number of clients, connections,      *)
(* restarts and faults of the network, with the assertions on or off.      *)
(***************************************************************************)
EXTENDS Connection, SequenceTheorems, TLAPS

-----------------------------------------------------------------------------
(* The network.                                                            *)

(* Adding a datagram to the bag, or taking one out, changes the set of     *)
(* datagrams in flight by that one at most.                                *)
LEMMA BagFacts ==
    ASSUME NEW B, NEW m
    PROVE  /\ BagToSet(BagAdd(B, m)) = BagToSet(B) \cup {m}
           /\ BagToSet(BagRemove(B, m)) \subseteq BagToSet(B)
BY DEF BagAdd, BagRemove, BagToSet

-----------------------------------------------------------------------------
(* The inductive invariant.                                                *)

Handler == [cid : -1 .. MaxCIDs - 1, client : Clients,
            secondsUntilTimeout : 0 .. MaxSeconds, busy : BOOLEAN]

Process == [status : {"running", "aborted", "ended"}, pc : {"request", "loop", "sync"},
            pings : 0 .. SyncEvery, cid : -1 .. MaxCIDs - 1]

(* The ping thread does not count beyond the ping it synchronises after.   *)
PingsCounted == \A c \in Clients : client[c].pc # "sync" => client[c].pings < SyncEvery

(* No handler is ever watched, so none is ever freed and every connection  *)
(* gets a handler of its own.                                              *)
NoneWatched == chBusy = {} /\ chAvailable = {}

(* The CIDs the server knows are among those it has handed out.            *)
CidsIssued == \A cid \in DOMAIN chMap : cid < nextCID

IInv == TypeOK /\ PingsCounted /\ NoneWatched /\ CidsIssued /\ HandlersMatchCids

(* The initial state satisfies the invariant.                              *)
LEMMA InitIInv == Init => IInv
<1> SUFFICES ASSUME Init PROVE IInv
  OBVIOUS
<1>1. BagToSet(net) = {}
  BY DEF Init, EmptyBag, SetToBag, BagToSet
<1>2. DOMAIN clientHandlers = {} /\ DOMAIN chMap = {}
  BY DEF Init
<1>3. client \in [Clients -> [status : {"running", "aborted", "ended"},
                              pc : {"request", "loop", "sync"},
                              pings : 0 .. SyncEvery, cid : -1 .. MaxCIDs - 1]]
  BY ConnectionAssumption DEF Init, NewProcess, nullCID
<1>4. clientHandlers \in Seq(Handler)
  BY EmptySeq DEF Init
<1> QED
  BY ConnectionAssumption, <1>1, <1>2, <1>3, <1>4
     DEF Init, IInv, TypeOK, PingsCounted, NewProcess, NoneWatched, CidsIssued, HandlersMatchCids, Handler

(* Accepting a client: with no handler to recycle, a new one is appended   *)
(* and goes under the next CID.                                            *)
LEMMA AcceptAppends ==
    ASSUME NoneWatched, NEW c, acceptClient(c)
    PROVE  LET h == Len(clientHandlers) + 1
           IN  /\ nextCID' = nextCID + 1
               /\ UNCHANGED <<chBusy, chAvailable>>
               /\ clientHandlers' = Bound(h, bindToClient(nextCID, c))
               /\ chMap' = [cid \in DOMAIN chMap \cup {nextCID} |->
                               IF cid = nextCID THEN h ELSE chMap[cid]]
<1>1. StillBusy = {} /\ Available = {} /\ HandlersToBind = {Len(clientHandlers) + 1}
  BY DEF NoneWatched, StillBusy, Available, HandlersToBind
<1>2. {clientHandlers[h].cid : h \in chBusy \ StillBusy} = {}
  BY DEF NoneWatched
<1>3. DOMAIN chMap \ {clientHandlers[h].cid : h \in chBusy \ StillBusy} = DOMAIN chMap
  BY <1>2
<1> QED
  BY <1>1, <1>3 DEF acceptClient, NoneWatched

(* What the server's tables are after a client has been accepted.          *)
LEMMA AcceptKeepsTables ==
    ASSUME IInv, NEW c \in Clients, nextCID < MaxCIDs, acceptClient(c)
    PROVE  /\ nextCID' \in 0 .. MaxCIDs
           /\ clientHandlers' \in Seq(Handler)
           /\ DOMAIN clientHandlers' = DOMAIN clientHandlers \cup {Len(clientHandlers) + 1}
           /\ Len(clientHandlers) + 1 \notin DOMAIN clientHandlers
           /\ \A h \in DOMAIN clientHandlers : clientHandlers'[h] = clientHandlers[h]
           /\ clientHandlers'[Len(clientHandlers) + 1] = bindToClient(nextCID, c)
           /\ DOMAIN chMap' = DOMAIN chMap \cup {nextCID}
           /\ nextCID \notin DOMAIN chMap
           /\ nextCID \in 0 .. MaxCIDs - 1
           /\ chMap'[nextCID] = Len(clientHandlers) + 1
           /\ \A cid \in DOMAIN chMap : chMap'[cid] = chMap[cid]
           /\ UNCHANGED <<chBusy, chAvailable>>
<1> DEFINE new == Len(clientHandlers) + 1
           ch == bindToClient(nextCID, c)
<1>1. /\ nextCID' = nextCID + 1
      /\ UNCHANGED <<chBusy, chAvailable>>
      /\ clientHandlers' = Bound(new, ch)
      /\ chMap' = [cid \in DOMAIN chMap \cup {nextCID} |->
                      IF cid = nextCID THEN new ELSE chMap[cid]]
  BY AcceptAppends DEF IInv
<1>2. /\ nextCID \in 0 .. MaxCIDs
      /\ MaxCIDs \in Nat
      /\ clientHandlers \in Seq(Handler)
  BY ConnectionAssumption DEF IInv, TypeOK, Handler
<1>3. /\ nextCID' \in 0 .. MaxCIDs
      /\ nextCID \in 0 .. MaxCIDs - 1
  BY <1>1, <1>2
<1>4. ch \in Handler
  BY <1>2, <1>3, ConnectionAssumption DEF bindToClient, Handler
<1>5. /\ Len(clientHandlers) \in Nat
      /\ DOMAIN clientHandlers = 1 .. Len(clientHandlers)
  BY <1>2, LenProperties
<1>6. new \notin DOMAIN clientHandlers
  BY <1>5
<1>7. clientHandlers' = Append(clientHandlers, ch)
  BY <1>1, <1>6 DEF Bound
<1>8. /\ clientHandlers' \in Seq(Handler)
      /\ Len(clientHandlers') = Len(clientHandlers) + 1
      /\ \A i \in 1 .. Len(clientHandlers) : clientHandlers'[i] = clientHandlers[i]
      /\ clientHandlers'[new] = ch
  BY <1>2, <1>4, <1>7, AppendProperties
<1>9. DOMAIN clientHandlers' = DOMAIN clientHandlers \cup {new}
  <2>1. DOMAIN clientHandlers' = 1 .. Len(clientHandlers) + 1
    BY <1>8, LenProperties
  <2> QED
    BY <1>5, <2>1
<1>10. nextCID \notin DOMAIN chMap
  BY <1>2 DEF IInv, CidsIssued
<1>11. /\ DOMAIN chMap' = DOMAIN chMap \cup {nextCID}
       /\ chMap'[nextCID] = new
       /\ \A cid \in DOMAIN chMap : chMap'[cid] = chMap[cid]
  BY <1>1, <1>10
<1>12. \A i \in DOMAIN clientHandlers : clientHandlers'[i] = clientHandlers[i]
  BY <1>5, <1>8
<1> QED
  BY <1>1, <1>3, <1>6, <1>8, <1>9, <1>10, <1>11, <1>12

(* The server is up or not, and requests and accepts are lost of clients.  *)
LEMMA NextUpAndLost ==
    ASSUME TypeOK, [Next]_vars
    PROVE  serverUp' \in BOOLEAN /\ lost' \subseteq Clients
<1>0. serverUp \in BOOLEAN /\ lost \subseteq Clients /\ \A m \in BagToSet(net) : IsMessage(m)
  BY DEF TypeOK
<1>1. ASSUME NEW m \in BagToSet(net), Gone(m) PROVE lost' \subseteq Clients
  BY <1>0, <1>1 DEF Gone, IsMessage
<1>2. ASSUME NEW m \in BagToSet(net), Lose(m) \/ LoseUnheard(m)
      PROVE  serverUp' \in BOOLEAN /\ lost' \subseteq Clients
  BY <1>0, <1>1, <1>2 DEF Lose, LoseUnheard
<1>3. CASE UNCHANGED <<serverUp, lost>>
  BY <1>0, <1>3
<1>4. CASE \E c \in Clients : Start(c)
  BY <1>0, <1>4 DEF Start
<1>5. CASE StopServer \/ StartServer
  BY <1>0, <1>5 DEF StopServer, StartServer
<1> QED
  BY <1>2, <1>3, <1>4, <1>5
     DEF Next, HandleConnectionRequest, HandleUnknown, HandlePing, HandleSyncRequest,
         RunTimeout, SendConnectionRequest, SendPing, SendSyncRequest,
         HandleConnectionAccept, HandleSyncRequestSatisfy, Duplicate, End, vars

(* The handlers a step leaves alone except for their countdown: the tables *)
(* still agree.                                                            *)
LEMMA NextIInv == IInv /\ [Next]_vars => IInv'
<1> SUFFICES ASSUME IInv, [Next]_vars PROVE IInv'
  OBVIOUS
<1>c. /\ MaxSeconds \in Nat /\ SyncEvery \in Nat /\ SyncEvery > 0 /\ MaxCIDs \in Nat
      /\ MaxFaults \in Nat /\ MaxRestarts \in Nat /\ MaxServerRestarts \in Nat
  BY ConnectionAssumption
<1>0. /\ TypeOK /\ PingsCounted /\ NoneWatched /\ CidsIssued /\ HandlersMatchCids
      /\ clientHandlers \in Seq(Handler)
      /\ DOMAIN clientHandlers = 1 .. Len(clientHandlers)
      /\ client \in [Clients -> Process]
      /\ \A cid \in DOMAIN chMap : chMap[cid] \in DOMAIN clientHandlers
      /\ faults \in 0 .. MaxFaults /\ restarts \in 0 .. MaxRestarts
      /\ serverRestarts \in 0 .. MaxServerRestarts
      /\ \A m \in BagToSet(net) : IsMessage(m)
  BY LenProperties DEF IInv, TypeOK, Handler, Process
<1>u. serverUp' \in BOOLEAN /\ lost' \subseteq Clients
  BY NextUpAndLost DEF IInv
<1>a. ASSUME UNCHANGED serverVars,
             client' \in [Clients -> Process], PingsCounted',
             \A m \in BagToSet(net') : IsMessage(m),
             faults' \in 0 .. MaxFaults, restarts' \in 0 .. MaxRestarts,
             serverRestarts' \in 0 .. MaxServerRestarts
      PROVE  IInv'
  BY <1>0, <1>u, <1>a DEF serverVars, IInv, TypeOK, Process, NoneWatched, CidsIssued, HandlersMatchCids
<1>b. ASSUME NEW m \in BagToSet(net), BagToSet(net') \subseteq BagToSet(net)
      PROVE  \A d \in BagToSet(net') : IsMessage(d)
  BY <1>0, <1>b DEF TypeOK
<1>d. ASSUME NEW c \in Clients, NEW p \in Process, client' = [client EXCEPT ![c] = p],
             p.pc # "sync" => p.pings < SyncEvery
      PROVE  client' \in [Clients -> Process] /\ PingsCounted'
  BY <1>0, <1>d DEF PingsCounted
<1>e. ASSUME NEW c \in Clients, client' = [client EXCEPT ![c].status = "aborted"]
      PROVE  client' \in [Clients -> Process] /\ PingsCounted'
  <2>1. [client[c] EXCEPT !.status = "aborted"] \in Process
    BY <1>0 DEF Process
  <2>2. [client[c] EXCEPT !.status = "aborted"].pc = client[c].pc
        /\ [client[c] EXCEPT !.status = "aborted"].pings = client[c].pings
    BY <1>0 DEF Process
  <2> QED
    BY <1>0, <1>d, <1>e, <2>1, <2>2 DEF PingsCounted
<1>1. ASSUME NEW m \in BagToSet(net), HandleConnectionRequest(m)
      PROVE  IInv'
  <2>1. m.client \in Clients
    BY <1>0 DEF TypeOK, IsMessage
  <2>2. nextCID < MaxCIDs /\ acceptClient(m.client) /\ UNCHANGED <<client, budgets>>
    BY <1>1 DEF HandleConnectionRequest
  <2>3. \A d \in BagToSet(net') : IsMessage(d)
    <3>1. BagToSet(net') \subseteq
              BagToSet(net) \cup {ConnectionAccept(m.client, nextCID)}
      BY <1>1, BagFacts DEF HandleConnectionRequest
    <3>2. IsMessage(ConnectionAccept(m.client, nextCID))
      BY <2>1, <2>2, AcceptKeepsTables DEF IsMessage, ConnectionAccept
    <3> QED
      BY <1>0, <3>1, <3>2 DEF TypeOK
  <2> DEFINE new == Len(clientHandlers) + 1
  <2>a. /\ nextCID' \in 0 .. MaxCIDs
        /\ clientHandlers' \in Seq(Handler)
        /\ DOMAIN clientHandlers' = DOMAIN clientHandlers \cup {new}
        /\ new \notin DOMAIN clientHandlers
        /\ \A h \in DOMAIN clientHandlers : clientHandlers'[h] = clientHandlers[h]
        /\ clientHandlers'[new] = bindToClient(nextCID, m.client)
        /\ DOMAIN chMap' = DOMAIN chMap \cup {nextCID}
        /\ nextCID \notin DOMAIN chMap
        /\ nextCID \in 0 .. MaxCIDs - 1
        /\ chMap'[nextCID] = new
        /\ \A cid \in DOMAIN chMap : chMap'[cid] = chMap[cid]
        /\ UNCHANGED <<chBusy, chAvailable>>
    BY <2>1, <2>2, AcceptKeepsTables
  <2>b. nextCID' = nextCID + 1
    BY <1>0, <2>2, AcceptAppends
  <2> HIDE DEF new
  <2>4. TypeOK'
    BY <1>0, <1>u, <2>2, <2>3, <2>a DEF TypeOK, Handler, budgets, NoneWatched
  <2>5. NoneWatched' /\ CidsIssued'
    BY <1>0, <2>a, <2>b DEF NoneWatched, CidsIssued, TypeOK
  <2>6. HandlersMatchCids'
    <3>1. \A cid \in DOMAIN chMap : chMap'[cid] # new
      BY <1>0, <2>a
    <3>2. \A cid \in DOMAIN chMap : clientHandlers'[chMap'[cid]] = clientHandlers[chMap[cid]]
      BY <1>0, <2>a
    <3>3. clientHandlers'[new].cid = nextCID /\ clientHandlers'[new].busy
      BY <2>a DEF bindToClient
    <3> QED
      BY <1>0, <2>a, <3>1, <3>2, <3>3 DEF HandlersMatchCids
  <2> QED
    BY <1>0, <2>2, <2>4, <2>5, <2>6 DEF IInv, PingsCounted
<1>2. ASSUME NEW m \in BagToSet(net), HandleUnknown(m)
      PROVE  IInv'
  BY <1>0, <1>2, <1>a, BagFacts DEF HandleUnknown, budgets, PingsCounted
<1>3. ASSUME NEW m \in BagToSet(net), HandlePing(m)
      PROVE  IInv'
  <2> DEFINE h == chMap[m.cid]
             ch == [clientHandlers[h] EXCEPT !.secondsUntilTimeout = MaxSeconds]
  <2>1. h \in 1 .. Len(clientHandlers) /\ clientHandlers[h] \in Handler
    BY <1>0, <1>3, ElementOfSeq DEF HandlePing, has, TypeOK
  <2>2. ch \in Handler
    <3>1. MaxSeconds \in 0 .. MaxSeconds
      BY <1>c
    <3> QED
      BY <2>1, <3>1 DEF Handler
  <2>3. clientHandlers' = [clientHandlers EXCEPT ![h] = ch]
    BY <1>3 DEF HandlePing
  <2>4. /\ clientHandlers' \in Seq(Handler)
        /\ Len(clientHandlers') = Len(clientHandlers)
        /\ \A i \in 1 .. Len(clientHandlers) :
              clientHandlers'[i] = IF i = h THEN ch ELSE clientHandlers[i]
    BY <1>0, <2>1, <2>2, <2>3, ExceptSeq
  <2>5. /\ DOMAIN clientHandlers' = DOMAIN clientHandlers
        /\ \A i \in DOMAIN clientHandlers :
              /\ clientHandlers'[i].cid = clientHandlers[i].cid
              /\ clientHandlers'[i].busy = clientHandlers[i].busy
    BY <1>0, <2>1, <2>3, <2>4 DEF Handler
  <2>6. /\ UNCHANGED <<nextCID, chAvailable, chBusy, chMap, client, budgets>>
        /\ \A d \in BagToSet(net') : IsMessage(d)
    BY <1>0, <1>3, BagFacts DEF HandlePing, TypeOK
  <2> HIDE DEF h, ch
  <2>7. HandlersMatchCids'
    BY <1>0, <2>5, <2>6 DEF HandlersMatchCids
  <2>8. TypeOK'
    BY <1>0, <1>u, <2>4, <2>5, <2>6 DEF TypeOK, budgets, Handler
  <2> QED
    BY <1>0, <2>5, <2>6, <2>7, <2>8 DEF IInv, NoneWatched, CidsIssued, PingsCounted
<1>4. ASSUME NEW m \in BagToSet(net), HandleSyncRequest(m)
      PROVE  IInv'
  <2>1. clientHandlers[chMap[m.cid]].client \in Clients /\ m.client \in Clients
    <3>1. chMap[m.cid] \in 1 .. Len(clientHandlers)
      BY <1>0, <1>4 DEF HandleSyncRequest, has, TypeOK
    <3>2. clientHandlers[chMap[m.cid]] \in Handler
      BY <1>0, <3>1, ElementOfSeq
    <3> QED
      BY <1>0, <3>2 DEF Handler, TypeOK, IsMessage
  <2>2. IsMessage(SyncRequestSatisfy(clientHandlers[chMap[m.cid]].client, m.client))
    BY <2>1 DEF IsMessage, SyncRequestSatisfy
  <2> QED
    BY <1>0, <1>4, <1>a, <2>2, BagFacts DEF HandleSyncRequest, TypeOK, PingsCounted, budgets
<1>5. ASSUME RunTimeout
      PROVE  IInv'
  <2>1. UNCHANGED <<nextCID, chAvailable, chBusy, chMap, client, net, budgets>>
    BY <1>5 DEF RunTimeout
  <2>2. clientHandlers' = [h \in DOMAIN clientHandlers |-> clientHandlers[h]]
    BY <1>0, <1>5 DEF RunTimeout, NoneWatched
  <2>3. clientHandlers' = clientHandlers
    BY <1>0, <2>2, LenProperties
  <2> QED
    BY <1>0, <1>a, <2>1, <2>3 DEF serverVars, budgets, PingsCounted
<1>6. ASSUME NEW c \in Clients, SendConnectionRequest(c)
      PROVE  IInv'
  <2>1. IsMessage(ConnectionRequest(c))
    BY DEF IsMessage, ConnectionRequest
  <2>3. client' \in [Clients -> Process] /\ PingsCounted'
    <3> DEFINE moved == [client[c] EXCEPT !.pc = "loop"]
    <3>1. client[c] \in Process /\ client[c].pings < SyncEvery
      BY <1>0, <1>6 DEF SendConnectionRequest, PingsCounted
    <3>2. moved \in Process /\ moved.pings < SyncEvery
      BY <3>1 DEF Process
    <3>3. \/ client' = [client EXCEPT ![c] = moved]
          \/ client' = [client EXCEPT ![c].status = "aborted"]
      BY <1>6 DEF SendConnectionRequest, Send
    <3> QED
      BY <1>d, <1>e, <3>2, <3>3
  <2>2. BagToSet(net') \subseteq BagToSet(net) \cup {ConnectionRequest(c)}
    BY <1>6, BagFacts DEF SendConnectionRequest, Send
  <2> QED
    BY <1>0, <1>6, <1>a, <2>1, <2>2, <2>3 DEF SendConnectionRequest, TypeOK, PingsCounted, budgets
<1>7. ASSUME NEW c \in Clients, SendPing(c)
      PROVE  IInv'
  <2>1. IsMessage(Ping(c, client[c].cid))
    BY <1>0 DEF IsMessage, Ping, TypeOK
  <2>3. client' \in [Clients -> Process] /\ PingsCounted'
    <3> DEFINE p == client[c].pings + 1
               moved == [client[c] EXCEPT !.pings = p,
                                          !.pc = IF p = SyncEvery THEN "sync" ELSE "loop"]
    <3>1. client[c] \in Process /\ client[c].pings < SyncEvery
      BY <1>0, <1>7 DEF SendPing, PingsCounted
    <3>2. p \in 0 .. SyncEvery
      BY <1>c, <3>1 DEF Process
    <3>3. moved \in Process /\ (moved.pc # "sync" => moved.pings < SyncEvery)
      <4>1. moved.pings = p /\ moved.pc = IF p = SyncEvery THEN "sync" ELSE "loop"
        BY <3>1 DEF Process
      <4>2. moved.pc # "sync" => p < SyncEvery
        BY <1>c, <3>2, <4>1
      <4>3. moved \in Process
        BY <3>1, <3>2 DEF Process
      <4> QED
        BY <4>1, <4>2, <4>3
    <3>4. \/ client' = [client EXCEPT ![c] = moved]
          \/ client' = [client EXCEPT ![c].status = "aborted"]
      BY <1>7 DEF SendPing, Send
    <3> HIDE DEF p, moved
    <3> QED
      BY <1>d, <1>e, <3>3, <3>4
  <2>2. BagToSet(net') \subseteq BagToSet(net) \cup {Ping(c, client[c].cid)}
    BY <1>7, BagFacts DEF SendPing, Send
  <2> QED
    BY <1>0, <1>7, <1>a, <2>1, <2>2, <2>3 DEF SendPing, TypeOK, PingsCounted, budgets
<1>8. ASSUME NEW c \in Clients, SendSyncRequest(c)
      PROVE  IInv'
  <2>1. IsMessage(SyncRequest(c, client[c].cid))
    BY <1>0 DEF IsMessage, SyncRequest, TypeOK
  <2>3. client' \in [Clients -> Process] /\ PingsCounted'
    <3> DEFINE moved == [client[c] EXCEPT !.pings = 0, !.pc = "loop"]
    <3>1. moved \in Process /\ moved.pings < SyncEvery
      <4>1. client[c] \in Process /\ 0 \in 0 .. SyncEvery /\ 0 < SyncEvery
        BY <1>0, <1>c
      <4> QED
        BY <4>1 DEF Process
    <3>2. \/ client' = [client EXCEPT ![c] = moved]
          \/ client' = [client EXCEPT ![c].status = "aborted"]
      BY <1>8 DEF SendSyncRequest, Send
    <3> HIDE DEF moved
    <3> QED
      BY <1>d, <1>e, <3>1, <3>2
  <2>2. BagToSet(net') \subseteq BagToSet(net) \cup {SyncRequest(c, client[c].cid)}
    BY <1>8, BagFacts DEF SendSyncRequest, Send
  <2> QED
    BY <1>0, <1>8, <1>a, <2>1, <2>2, <2>3 DEF SendSyncRequest, TypeOK, PingsCounted, budgets
<1>9. ASSUME NEW m \in BagToSet(net), HandleConnectionAccept(m)
      PROVE  IInv'
  <2>1. m.cid \in 0 .. MaxCIDs - 1 /\ m.client \in Clients
    BY <1>0, <1>9 DEF HandleConnectionAccept, InFlight, TypeOK, IsMessage
  <2>2. BagToSet(net') \subseteq BagToSet(net)
    BY <1>9, BagFacts DEF HandleConnectionAccept
  <2> DEFINE told == [client[m.client] EXCEPT !.cid = m.cid]
  <2>3. client' = [client EXCEPT ![m.client] = told]
    BY <1>9 DEF HandleConnectionAccept
  <2>6. /\ told \in Process
        /\ told.pc = client[m.client].pc /\ told.pings = client[m.client].pings
    <3>1. client[m.client] \in Process /\ m.cid \in -1 .. MaxCIDs - 1
      BY <1>0, <1>c, <2>1
    <3> QED
      BY <3>1 DEF Process
  <2> HIDE DEF told
  <2>4. client' \in [Clients -> Process] /\ PingsCounted'
    BY <1>0, <1>d, <2>1, <2>3, <2>6 DEF PingsCounted
  <2>5. UNCHANGED <<serverVars, budgets>>
    BY <1>9 DEF HandleConnectionAccept
  <2> QED
    BY <1>0, <1>a, <2>2, <2>4, <2>5 DEF budgets
<1>10. ASSUME NEW m \in BagToSet(net), HandleSyncRequestSatisfy(m)
       PROVE  IInv'
  BY <1>0, <1>10, <1>a, BagFacts DEF HandleSyncRequestSatisfy, budgets, PingsCounted
<1>11. ASSUME NEW m \in BagToSet(net), Lose(m)
       PROVE  IInv'
  <2>1. faults' \in 0 .. MaxFaults
    BY <1>0, <1>11, <1>c DEF Lose
  <2>2. BagToSet(net') \subseteq BagToSet(net)
    BY <1>11, BagFacts DEF Lose, Gone
  <2> QED
    BY <1>0, <1>11, <1>a, <2>1, <2>2 DEF Lose, PingsCounted
<1>12. ASSUME NEW m \in BagToSet(net), Duplicate(m)
       PROVE  IInv'
  <2>1. faults' \in 0 .. MaxFaults
    BY <1>0, <1>12, <1>c DEF Duplicate
  <2>2. BagToSet(net') \subseteq BagToSet(net)
    BY <1>12, BagFacts DEF Duplicate
  <2> QED
    BY <1>0, <1>12, <1>a, <2>1, <2>2 DEF Duplicate, PingsCounted
<1>13. ASSUME NEW c \in Clients, End(c)
       PROVE  IInv'
  <2>1. client' \in [Clients -> Process] /\ PingsCounted'
    BY <1>0, <1>13 DEF End, Process, PingsCounted
  <2>2. restarts' \in 0 .. MaxRestarts
    BY <1>0, <1>13, <1>c DEF End
  <2> QED
    BY <1>0, <1>13, <1>a, <2>1, <2>2 DEF End
<1>14. ASSUME NEW c \in Clients, Start(c)
       PROVE  IInv'
  <2>1. NewProcess \in Process /\ NewProcess.pings < SyncEvery
    BY ConnectionAssumption DEF NewProcess, Process, nullCID
  <2>2. client' \in [Clients -> Process] /\ PingsCounted'
    BY <1>0, <1>14, <2>1 DEF Start, PingsCounted
  <2> QED
    BY <1>0, <1>14, <1>a, <2>2 DEF Start, budgets
<1>15. CASE StopServer
  <2>1. /\ clientHandlers' \in Seq(Handler)
        /\ DOMAIN clientHandlers' = {}
        /\ DOMAIN chMap' = {}
    BY <1>15, EmptySeq DEF StopServer
  <2>2. serverRestarts' \in 0 .. MaxServerRestarts /\ 0 \in 0 .. MaxCIDs
    BY <1>0, <1>15, <1>c DEF StopServer
  <2> QED
    BY <1>0, <1>u, <1>15, <2>1, <2>2
       DEF StopServer, IInv, TypeOK, Process, PingsCounted, NoneWatched, CidsIssued,
           HandlersMatchCids, Handler
<1>17. CASE StartServer
  BY <1>0, <1>17, <1>a DEF StartServer, budgets, PingsCounted
<1>18. ASSUME NEW m \in BagToSet(net), LoseUnheard(m)
       PROVE  IInv'
  BY <1>0, <1>18, <1>a, BagFacts DEF LoseUnheard, Gone, budgets, PingsCounted
<1>16. CASE UNCHANGED vars
  BY <1>0, <1>16, <1>a DEF vars, budgets, PingsCounted
<1> QED
  BY <1>1, <1>2, <1>3, <1>4, <1>5, <1>6, <1>7, <1>8, <1>9, <1>10, <1>11, <1>12,
     <1>13, <1>14, <1>15, <1>16, <1>17, <1>18 DEF Next

(* The tables of the server are consistent and everything has its type,    *)
(* through any number of restarts of clients and server.                   *)
THEOREM Invariant == Spec => []IInv
BY InitIInv, NextIInv, PTL DEF Spec

(* Server, clients and datagrams always have the types of the code.        *)
THEOREM TypeCorrect == Spec => []TypeOK
<1>1. IInv => TypeOK
  BY DEF IInv
<1> QED
  BY <1>1, Invariant, PTL

(* A CID leads to a handler bound to that CID and to no other.             *)
THEOREM TablesAgree == Spec => []HandlersMatchCids
<1>1. IInv => HandlersMatchCids
  BY DEF IInv
<1> QED
  BY <1>1, Invariant, PTL

-----------------------------------------------------------------------------
(* Routing, while the server is not restarted.                             *)

(* The server finds the handler of this client under this CID.             *)
LeadsTo(cid, c) ==
    /\ cid \in DOMAIN chMap
    /\ clientHandlers[chMap[cid]].client = c

(* Every CID that a client holds, or that is on its way from or to it,     *)
(* leads to that client; and replies are on their way to who asked.        *)
Routed(m) ==
    /\ m.type = "ConnectionAccept" => LeadsTo(m.cid, m.client)
    /\ m.type \in {"Ping", "SyncRequest"} /\ m.cid # nullCID => LeadsTo(m.cid, m.client)
    /\ m.type = "SyncRequestSatisfy" => m.client = m.requester

RoutesHome ==
    /\ serverRestarts = 0
    /\ \A c \in Clients : client[c].cid # nullCID => LeadsTo(client[c].cid, c)
    /\ \A m \in BagToSet(net) : Routed(m)

(* A handler, once bound, stays bound to its client under its CID.         *)
LEMMA BindingsLast ==
    ASSUME IInv, serverRestarts = 0, [Next]_vars
    PROVE  /\ serverRestarts' = 0
           /\ \A cid, c : LeadsTo(cid, c) => LeadsTo(cid, c)'
<1>0. /\ clientHandlers \in Seq(Handler)
      /\ DOMAIN clientHandlers = 1 .. Len(clientHandlers)
      /\ \A cid \in DOMAIN chMap : chMap[cid] \in DOMAIN clientHandlers
      /\ \A m \in BagToSet(net) : IsMessage(m)
  BY LenProperties DEF IInv, TypeOK, Handler
<1>a. ASSUME UNCHANGED <<clientHandlers, chMap>>
      PROVE  \A cid, c : LeadsTo(cid, c) => LeadsTo(cid, c)'
  BY <1>a DEF LeadsTo
<1>1. ASSUME NEW m \in BagToSet(net), HandleConnectionRequest(m)
      PROVE  /\ serverRestarts' = 0
             /\ \A cid, c : LeadsTo(cid, c) => LeadsTo(cid, c)'
  <2>1. /\ m.client \in Clients /\ nextCID < MaxCIDs /\ acceptClient(m.client)
        /\ UNCHANGED budgets
    BY <1>0, <1>1 DEF HandleConnectionRequest, IsMessage
  <2>2. /\ \A h \in DOMAIN clientHandlers : clientHandlers'[h] = clientHandlers[h]
        /\ DOMAIN chMap' = DOMAIN chMap \cup {nextCID}
        /\ \A cid \in DOMAIN chMap : chMap'[cid] = chMap[cid]
    BY <2>1, AcceptKeepsTables
  <2> QED
    BY <1>0, <2>1, <2>2 DEF LeadsTo, budgets
<1>2. ASSUME NEW m \in BagToSet(net), HandlePing(m)
      PROVE  /\ serverRestarts' = 0
             /\ \A cid, c : LeadsTo(cid, c) => LeadsTo(cid, c)'
  <2>1. /\ clientHandlers' =
              [clientHandlers EXCEPT ![chMap[m.cid]].secondsUntilTimeout = MaxSeconds]
        /\ UNCHANGED <<chMap, budgets>>
    BY <1>2 DEF HandlePing
  <2>2. \A h \in DOMAIN clientHandlers : clientHandlers[h] \in Handler
    BY <1>0, ElementOfSeq
  <2>3. \A h \in DOMAIN clientHandlers : clientHandlers'[h].client = clientHandlers[h].client
    BY <2>1, <2>2 DEF Handler
  <2> QED
    BY <1>0, <2>1, <2>3 DEF LeadsTo, budgets
<1>3. CASE RunTimeout
  <2>1. clientHandlers' = [h \in DOMAIN clientHandlers |-> clientHandlers[h]]
    BY <1>3 DEF RunTimeout, IInv, NoneWatched
  <2>2. UNCHANGED <<chMap, budgets>>
    BY <1>3 DEF RunTimeout
  <2> QED
    BY <1>0, <2>1, <2>2 DEF LeadsTo, budgets
<1>4. CASE StopServer
  BY <1>4 DEF StopServer
<1>5. CASE /\ UNCHANGED <<clientHandlers, chMap, serverRestarts>>
  BY <1>a, <1>5
<1> QED
  BY <1>1, <1>2, <1>3, <1>4, <1>5
     DEF Next, HandleUnknown, HandleSyncRequest, SendConnectionRequest, SendPing,
         SendSyncRequest, HandleConnectionAccept, HandleSyncRequestSatisfy, Lose,
         LoseUnheard, Duplicate, End, Start, StartServer, serverVars, budgets, vars

(* A step that adds one datagram at most, and that one well routed, and    *)
(* changes no client's CID to one that leads elsewhere, keeps RoutesHome.  *)
LEMMA KeepsRoutes ==
    ASSUME IInv, RoutesHome, [Next]_vars,
           NEW d, BagToSet(net') \subseteq BagToSet(net) \cup {d},
           d \in BagToSet(net) \/ Routed(d)',
           \A c \in Clients : client'[c].cid # nullCID =>
               client'[c].cid = client[c].cid \/ LeadsTo(client[c].cid, c)'
    PROVE  RoutesHome'
<1>1. /\ serverRestarts' = 0
      /\ \A cid, c : LeadsTo(cid, c) => LeadsTo(cid, c)'
  BY BindingsLast DEF RoutesHome
<1>2. \A m \in BagToSet(net) : Routed(m)'
  BY <1>1 DEF RoutesHome, Routed
<1>3. \A c \in Clients : client'[c].cid # nullCID => LeadsTo(client[c].cid, c)'
  BY <1>1 DEF RoutesHome
<1> QED
  BY <1>1, <1>2, <1>3 DEF RoutesHome

(* Every step keeps the routes.                                            *)
LEMMA NextRoutes == IInv /\ RoutesHome /\ [Next]_vars => RoutesHome'
<1> SUFFICES ASSUME IInv, RoutesHome, [Next]_vars PROVE RoutesHome'
  OBVIOUS
<1>0. \A m \in BagToSet(net) : IsMessage(m)
  BY DEF IInv, TypeOK
<1>t. client \in [Clients -> Process]
  BY DEF IInv, TypeOK, Process
<1>b. \A cid, c : LeadsTo(cid, c) => LeadsTo(cid, c)'
  BY BindingsLast DEF RoutesHome
<1>a. ASSUME BagToSet(net') \subseteq BagToSet(net),
             \A c \in Clients : client'[c].cid \in {client[c].cid, nullCID}
      PROVE  RoutesHome'
  <2>1. CASE \E d : d \in BagToSet(net)
    BY <1>a, <2>1, KeepsRoutes
  <2>2. CASE BagToSet(net) = {}
    BY <1>a, <1>b, <2>2, BindingsLast DEF RoutesHome
  <2> QED
    BY <2>1, <2>2
<1>1. ASSUME NEW m \in BagToSet(net), HandleConnectionRequest(m)
      PROVE  RoutesHome'
  <2>0. PICK d : d = ConnectionAccept(m.client, nextCID)
    OBVIOUS
  <2>1. /\ m.client \in Clients /\ nextCID < MaxCIDs /\ acceptClient(m.client)
        /\ UNCHANGED client
    BY <1>0, <1>1 DEF HandleConnectionRequest, IsMessage
  <2>2. BagToSet(net') \subseteq BagToSet(net) \cup {d}
    BY <1>1, <2>0, BagFacts DEF HandleConnectionRequest
  <2>3. PICK cid : cid = nextCID
    OBVIOUS
  <2>4. LeadsTo(cid, m.client)'
    <3>1. /\ clientHandlers'[Len(clientHandlers) + 1] = bindToClient(cid, m.client)
          /\ chMap'[cid] = Len(clientHandlers) + 1
          /\ DOMAIN chMap' = DOMAIN chMap \cup {cid}
      BY <2>1, <2>3, AcceptKeepsTables
    <3> QED
      BY <3>1 DEF LeadsTo, bindToClient
  <2>5. d.type = "ConnectionAccept" /\ d.client = m.client /\ d.cid = cid
    BY <2>0, <2>3 DEF ConnectionAccept
  <2>6. Routed(d)'
    BY <2>4, <2>5 DEF Routed
  <2> QED
    BY <2>1, <2>2, <2>6, KeepsRoutes
<1>2. ASSUME NEW m \in BagToSet(net), HandleSyncRequest(m)
      PROVE  RoutesHome'
  <2>0. PICK d : d = SyncRequestSatisfy(clientHandlers[chMap[m.cid]].client, m.client)
    OBVIOUS
  <2>1. BagToSet(net') \subseteq BagToSet(net) \cup {d} /\ UNCHANGED client
    BY <1>2, <2>0, BagFacts DEF HandleSyncRequest
  <2>2. m.type = "SyncRequest" /\ m.cid \in DOMAIN chMap
    BY <1>2 DEF HandleSyncRequest, Arrived, InFlight, has
  <2>3. m.cid # nullCID
    <3>1. m.cid \in 0 .. MaxCIDs - 1 /\ MaxCIDs \in Nat
      BY <2>2, ConnectionAssumption DEF IInv, TypeOK
    <3> QED
      BY <3>1 DEF nullCID
  <2>4. LeadsTo(m.cid, m.client)
    BY <2>2, <2>3 DEF RoutesHome, Routed
  <2>5. Routed(d)'
    BY <2>0, <2>4 DEF Routed, SyncRequestSatisfy, LeadsTo
  <2> QED
    BY <2>1, <2>5, KeepsRoutes
<1>3. ASSUME NEW c \in Clients, SendConnectionRequest(c)
      PROVE  RoutesHome'
  <2>1. BagToSet(net') \subseteq BagToSet(net) \cup {ConnectionRequest(c)}
    BY <1>3, BagFacts DEF SendConnectionRequest, Send
  <2>2. \A e \in Clients : client'[e].cid = client[e].cid
    BY <1>3, <1>t DEF SendConnectionRequest, Send, Process
  <2>3. Routed(ConnectionRequest(c))'
    BY DEF Routed, ConnectionRequest
  <2> QED
    BY <2>1, <2>2, <2>3, KeepsRoutes
<1>4. ASSUME NEW c \in Clients, SendPing(c)
      PROVE  RoutesHome'
  <2>0. PICK d : d = Ping(c, client[c].cid)
    OBVIOUS
  <2>1. BagToSet(net') \subseteq BagToSet(net) \cup {d}
    BY <1>4, <2>0, BagFacts DEF SendPing, Send
  <2>2. \A e \in Clients : client'[e].cid = client[e].cid
    <3> DEFINE p == client[c].pings + 1
               moved == [client[c] EXCEPT !.pings = p,
                                          !.pc = IF p = SyncEvery THEN "sync" ELSE "loop"]
    <3>1. moved.cid = client[c].cid
      BY <1>t DEF Process
    <3>2. \/ client' = [client EXCEPT ![c] = moved]
          \/ client' = [client EXCEPT ![c].status = "aborted"]
      BY <1>4 DEF SendPing, Send
    <3> HIDE DEF moved
    <3> QED
      BY <1>t, <3>1, <3>2 DEF Process
  <2>3. Routed(d)'
    <3>1. PICK cid : cid = client[c].cid
      OBVIOUS
    <3>2. d.type \in {"Ping", "SyncRequest"} /\ d.client = c /\ d.cid = cid
      BY <2>0, <3>1 DEF Ping
    <3>3. cid # nullCID => LeadsTo(cid, c)'
      BY <1>b, <3>1 DEF RoutesHome
    <3> QED
      BY <3>2, <3>3 DEF Routed, nullCID
  <2> QED
    BY <2>1, <2>2, <2>3, KeepsRoutes
<1>5. ASSUME NEW c \in Clients, SendSyncRequest(c)
      PROVE  RoutesHome'
  <2>0. PICK d : d = SyncRequest(c, client[c].cid)
    OBVIOUS
  <2>1. BagToSet(net') \subseteq BagToSet(net) \cup {d}
    BY <1>5, <2>0, BagFacts DEF SendSyncRequest, Send
  <2>2. \A e \in Clients : client'[e].cid = client[e].cid
    <3> DEFINE moved == [client[c] EXCEPT !.pings = 0, !.pc = "loop"]
    <3>1. moved.cid = client[c].cid
      BY <1>t DEF Process
    <3>2. \/ client' = [client EXCEPT ![c] = moved]
          \/ client' = [client EXCEPT ![c].status = "aborted"]
      BY <1>5 DEF SendSyncRequest, Send
    <3> HIDE DEF moved
    <3> QED
      BY <1>t, <3>1, <3>2 DEF Process
  <2>3. Routed(d)'
    <3>1. PICK cid : cid = client[c].cid
      OBVIOUS
    <3>2. d.type \in {"Ping", "SyncRequest"} /\ d.client = c /\ d.cid = cid
      BY <2>0, <3>1 DEF SyncRequest
    <3>3. cid # nullCID => LeadsTo(cid, c)'
      BY <1>b, <3>1 DEF RoutesHome
    <3> QED
      BY <3>2, <3>3 DEF Routed, nullCID
  <2> QED
    BY <2>1, <2>2, <2>3, KeepsRoutes
<1>6. ASSUME NEW m \in BagToSet(net), HandleConnectionAccept(m)
      PROVE  RoutesHome'
  <2>1. BagToSet(net') \subseteq BagToSet(net) \cup {m}
    BY <1>6, BagFacts DEF HandleConnectionAccept
  <2>2. m.type = "ConnectionAccept" /\ m.client \in Clients
    BY <1>0, <1>6 DEF HandleConnectionAccept, InFlight, IsMessage
  <2>3. LeadsTo(m.cid, m.client)'
    BY <1>b, <2>2 DEF RoutesHome, Routed
  <2>4. /\ client'[m.client].cid = m.cid
        /\ \A c \in Clients \ {m.client} : client'[c].cid = client[c].cid
    BY <1>6, <1>t, <2>2 DEF HandleConnectionAccept, Process
  <2>5. \A c \in Clients : client'[c].cid = client[c].cid \/ LeadsTo(client[c].cid, c)'
    BY <2>3, <2>4 DEF LeadsTo
  <2> QED
    BY <2>1, <2>5, KeepsRoutes
<1>7. ASSUME NEW m \in BagToSet(net), HandleUnknown(m)
      PROVE  RoutesHome'
  BY <1>7, <1>a, BagFacts DEF HandleUnknown
<1>8. ASSUME NEW m \in BagToSet(net), HandlePing(m)
      PROVE  RoutesHome'
  BY <1>8, <1>a, BagFacts DEF HandlePing
<1>9. ASSUME NEW m \in BagToSet(net), HandleSyncRequestSatisfy(m)
      PROVE  RoutesHome'
  BY <1>9, <1>a, BagFacts DEF HandleSyncRequestSatisfy
<1>10. ASSUME NEW m \in BagToSet(net), Lose(m) \/ LoseUnheard(m)
       PROVE  RoutesHome'
  BY <1>10, <1>a, BagFacts DEF Lose, LoseUnheard, Gone
<1>11. ASSUME NEW m \in BagToSet(net), Duplicate(m)
       PROVE  RoutesHome'
  <2>1. BagToSet(net') \subseteq BagToSet(net)
    BY <1>11, BagFacts DEF Duplicate
  <2> QED
    BY <1>11, <1>a, <2>1 DEF Duplicate
<1>12. ASSUME NEW c \in Clients, End(c)
       PROVE  RoutesHome'
  <2>1. \A e \in Clients : client'[e].cid = client[e].cid
    BY <1>12, <1>t DEF End, Process
  <2> QED
    BY <1>12, <1>a, <2>1 DEF End
<1>13. ASSUME NEW c \in Clients, Start(c)
       PROVE  RoutesHome'
  <2>1. \A e \in Clients : client'[e].cid \in {client[e].cid, nullCID}
    BY <1>13, <1>t DEF Start, Process, NewProcess
  <2> QED
    BY <1>13, <1>a, <2>1 DEF Start
<1>14. CASE RunTimeout
  BY <1>14, <1>a DEF RunTimeout
<1>15. CASE StopServer
  BY <1>15 DEF StopServer, RoutesHome, IInv, TypeOK
<1>17. CASE StartServer
  BY <1>17, <1>a DEF StartServer
<1>16. CASE UNCHANGED vars
  BY <1>16, <1>a DEF vars
<1> QED
  BY <1>1, <1>2, <1>3, <1>4, <1>5, <1>6, <1>7, <1>8, <1>9, <1>10, <1>11, <1>12,
     <1>13, <1>14, <1>15, <1>16, <1>17 DEF Next

(* At the start there is nothing to route.                                 *)
LEMMA InitRoutes ==
    ASSUME MaxServerRestarts = 0, Init
    PROVE  RoutesHome
<1>1. BagToSet(net) = {}
  BY DEF Init, EmptyBag, SetToBag, BagToSet
<1>2. \A c \in Clients : client[c].cid = nullCID
  BY DEF Init, NewProcess
<1> QED
  BY <1>1, <1>2 DEF Init, RoutesHome

(* While the server stays up, every CID leads home: it is the route of the *)
(* three theorems below.                                                   *)
THEOREM Routes ==
    ASSUME MaxServerRestarts = 0
    PROVE  Spec => []RoutesHome
<1>1. Init => RoutesHome
  BY InitRoutes
<1> QED
  BY <1>1, NextRoutes, Invariant, PTL DEF Spec

(* A connected client's CID leads the server to that client.               *)
THEOREM CidsLeadHome ==
    ASSUME MaxServerRestarts = 0
    PROVE  Spec => []CidRoutesHome
<1>1. RoutesHome => CidRoutesHome
  BY DEF RoutesHome, CidRoutesHome, Connected, LeadsTo, has
<1> QED
  BY <1>1, Routes, PTL

(* A diff goes to the address its request came from.                       *)
THEOREM RepliesGoHome ==
    ASSUME MaxServerRestarts = 0
    PROVE  Spec => []RepliesReachRequester
<1>1. RoutesHome => RepliesReachRequester
  BY DEF RoutesHome, RepliesReachRequester, Routed, InFlight
<1> QED
  BY <1>1, Routes, PTL

(* No two connected clients hold the same CID.                             *)
THEOREM CidsAreUnique ==
    ASSUME MaxServerRestarts = 0
    PROVE  Spec => []CidsUnique
<1>1. RoutesHome => CidsUnique
  BY DEF RoutesHome, CidsUnique, Connected, LeadsTo
<1> QED
  BY <1>1, Routes, PTL

=============================================================================
