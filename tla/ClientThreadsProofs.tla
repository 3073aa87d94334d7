------------------------ MODULE ClientThreadsProofs ------------------------
(***************************************************************************)
(* Theorems about ClientThreads, for every value of its constants: however *)
(* the receive thread, the ping thread, the user interface and the server  *)
(* interleave, the steps in which a diff is applied add up to ApplyDiff,   *)
(* and between diffs every difference from the server is marked dirty.     *)
(***************************************************************************)
EXTENDS ClientThreads, SyncSessionProofs

-----------------------------------------------------------------------------
(* Applying a diff in steps.                                               *)

(* Writing one field and then the rest writes all of them.                 *)
LEMMA FieldByField ==
    ASSUME NEW json, NEW f, f \in DOMAIN json,
           NEW one, one = [g \in {f} |-> json[g]],
           NEW rest, rest = Without(json, f)
    PROVE  \A M, k : Update(Update(M, k, one), k, rest) = Update(M, k, json)
<1> SUFFICES ASSUME NEW M, NEW k
             PROVE  Update(Update(M, k, one), k, rest) = Update(M, k, json)
  OBVIOUS
<1>1. ASSUME NEW o
      PROVE  SetFromJson(SetFromJson(o, one), rest) = SetFromJson(o, json)
  <2>1. DOMAIN one = {f} /\ one[f] = json[f]
    OBVIOUS
  <2>2. /\ DOMAIN rest = DOMAIN json \ {f}
        /\ \A g \in DOMAIN rest : rest[g] = json[g]
    BY DEF Without
  <2>3. (o.fieldFlags \ DOMAIN one) \ DOMAIN rest = o.fieldFlags \ DOMAIN json
    BY <2>1, <2>2
  <2> QED
    BY <2>1, <2>2, <2>3 DEF SetFromJson
<1>2. Update(Update(M, k, one), k, rest)
         = [M EXCEPT ![k] = SetFromJson(SetFromJson(@, one), rest)]
  BY DEF Update
<1> QED
  BY <1>1, <1>2 DEF Update

(* The last field completes the object.                                    *)
LEMMA LastField ==
    ASSUME NEW M, NEW k, NEW json, NEW f, DOMAIN json = {f},
           NEW one, one = [g \in {f} |-> json[g]]
    PROVE  Update(M, k, one) = Update(M, k, json)
BY DEF Update, SetFromJson

(* An object made and then written is the object created from the JSON.    *)
LEMMA MadeThenWritten ==
    ASSUME NEW M, NEW k, NEW json
    PROVE  Update(Create(M, k, <<>>), k, json) = Create(M, k, json)
<1>1. SetFromJson(SetFromJson(NewObject, <<>>), json) = SetFromJson(NewObject, json)
  BY DEF SetFromJson, NewObject
<1> QED
  BY <1>1 DEF Update, Create

(* The creations, removals and updates of a diff, one at a time.           *)
LEMMA OneCreation ==
    ASSUME NEW M, NEW d, NEW e, NEW k \in DOMAIN d.toCreate,
           e.toCreate = Without(d.toCreate, k),
           e.toRemove = d.toRemove, e.toUpdate = d.toUpdate
    PROVE  ApplyDiff(Create(M, k, d.toCreate[k].fields), e) = ApplyDiff(M, d)
<1> DEFINE N == Create(M, k, d.toCreate[k].fields)
<1>1. /\ DOMAIN N = DOMAIN M \cup {k}
      /\ N[k] = SetFromJson(NewObject, d.toCreate[k].fields)
      /\ \A j \in DOMAIN M : j # k => N[j] = M[j]
  BY DEF Create
<1>2. /\ DOMAIN e.toCreate = DOMAIN d.toCreate \ {k}
      /\ \A j \in DOMAIN e.toCreate : e.toCreate[j] = d.toCreate[j]
  BY DEF Without
<1> HIDE DEF N
<1>3. AfterCreatesAndRemoves(N, e) = AfterCreatesAndRemoves(M, d)
  BY <1>1, <1>2 DEF AfterCreatesAndRemoves
<1>4. ApplyDiff(N, e) = ApplyDiff(M, d)
  BY <1>3 DEF ApplyDiff
<1> QED
  BY <1>4 DEF N

(* Removing one object and then applying the rest of the diff applies all  *)
(* of it.                                                                  *)
LEMMA OneRemoval ==
    ASSUME NEW M, NEW d, NEW e, NEW k \in d.toRemove, DOMAIN d.toCreate = {},
           e.toCreate = d.toCreate,
           e.toRemove = d.toRemove \ {k}, e.toUpdate = d.toUpdate
    PROVE  ApplyDiff(Remove(M, k), e) = ApplyDiff(M, d)
<1>1. DOMAIN M \ d.toRemove = DOMAIN Remove(M, k) \ e.toRemove
  BY DEF Remove
<1>2. \A j \in DOMAIN M \ d.toRemove : Remove(M, k)[j] = M[j]
  BY DEF Remove
<1>3. AfterCreatesAndRemoves(Remove(M, k), e) = AfterCreatesAndRemoves(M, d)
  BY <1>1, <1>2 DEF AfterCreatesAndRemoves
<1> QED
  BY <1>3 DEF ApplyDiff

(* So does updating one object.                                            *)
LEMMA OneUpdate ==
    ASSUME NEW M, NEW d, NEW e, NEW k \in DOMAIN d.toUpdate, k \in DOMAIN M,
           DOMAIN d.toCreate = {}, d.toRemove = {},
           e.toCreate = d.toCreate, e.toRemove = d.toRemove,
           e.toUpdate = Without(d.toUpdate, k)
    PROVE  ApplyDiff(Update(M, k, d.toUpdate[k]), e) = ApplyDiff(M, d)
<1> DEFINE N == Update(M, k, d.toUpdate[k])
<1>1. /\ DOMAIN N = DOMAIN M
      /\ N[k] = SetFromJson(M[k], d.toUpdate[k])
      /\ \A j \in DOMAIN M : j # k => N[j] = M[j]
  BY DEF Update
<1>2. /\ DOMAIN e.toUpdate = DOMAIN d.toUpdate \ {k}
      /\ \A j \in DOMAIN e.toUpdate : e.toUpdate[j] = d.toUpdate[j]
  BY DEF Without
<1> HIDE DEF N
<1>3. AfterCreatesAndRemoves(N, e) = [j \in DOMAIN M |-> N[j]]
  BY <1>1 DEF AfterCreatesAndRemoves
<1>4. AfterCreatesAndRemoves(M, d) = [j \in DOMAIN M |-> M[j]]
  BY DEF AfterCreatesAndRemoves
<1>5. ApplyDiff(N, e) = [j \in DOMAIN M |-> IF j \in DOMAIN e.toUpdate
                                             THEN SetFromJson(N[j], e.toUpdate[j])
                                             ELSE N[j]]
  BY <1>3 DEF ApplyDiff
<1>6. ApplyDiff(M, d) = [j \in DOMAIN M |-> IF j \in DOMAIN d.toUpdate
                                             THEN SetFromJson(M[j], d.toUpdate[j])
                                             ELSE M[j]]
  BY <1>4 DEF ApplyDiff
<1>7. ApplyDiff(N, e) = ApplyDiff(M, d)
  BY <1>1, <1>2, <1>5, <1>6
<1> QED
  BY <1>7 DEF N

(* Nothing left to do leaves the manager as it is.                         *)
LEMMA NothingLeft ==
    ASSUME NEW M, M = [k \in DOMAIN M |-> M[k]]
    PROVE  ApplyDiff(M, NoDiff) = M
<1>1. /\ DOMAIN NoDiff.toCreate = {} /\ DOMAIN NoDiff.toUpdate = {}
      /\ NoDiff.toRemove = {}
  BY DEF NoDiff
<1>2. AfterCreatesAndRemoves(M, NoDiff) = [k \in DOMAIN M |-> M[k]]
  BY <1>1 DEF AfterCreatesAndRemoves
<1> QED
  BY <1>1, <1>2 DEF ApplyDiff

-----------------------------------------------------------------------------
(* The inductive invariant.                                                *)

(* What the ping thread reads while diffs are applied: items for keys,     *)
(* whatever the bits say.                                                  *)
IsTornSnapshot(s) ==
    /\ s.bitsetIDs \cup DOMAIN s.items \subseteq Key
    /\ \A k \in DOMAIN s.items : s.items[k] \in Item

IsRecord(d) == d = [toCreate |-> d.toCreate, toRemove |-> d.toRemove, toUpdate |-> d.toUpdate]

(* The types, by who holds the data.                                       *)
ReplicaTypeOK ==
    /\ DOMAIN client = Clients
    /\ IsManager(client[Self]) /\ IsManager(goal)
    /\ client[Self] = [k \in DOMAIN client[Self] |-> client[Self][k]]
    /\ bits \cup nulls \cup freed \subseteq Key
    /\ status \in [Clients -> {"running", "aborted", "segfault"}]

RecvTypeOK ==
    /\ recv = [pc |-> recv.pc, todo |-> recv.todo, key |-> recv.key, json |-> recv.json]
    /\ recv.pc \in {"idle", "next", "insert", "make", "write", "destroy", "erase"}
    /\ recv.pc \notin {"idle", "next"} => recv.key \in Key
    /\ IsDiff(recv.todo) /\ IsRecord(recv.todo)
    /\ DOMAIN recv.json \subseteq Fields
    /\ \A f \in DOMAIN recv.json : recv.json[f] \in Values

PingTypeOK ==
    /\ ping = [pc |-> ping.pc, snapshot |-> ping.snapshot]
    /\ ping.pc \in {"idle", "visit", "compose", "fill", "send"}
    /\ ping.snapshot = [bitsetIDs |-> ping.snapshot.bitsetIDs, items |-> ping.snapshot.items]
    /\ IsTornSnapshot(ping.snapshot)

BufferTypeOK ==
    /\ sendBuffer.content.type \in {"Garbled", "Data", "SyncRequest"}
    /\ sendBuffer.content.type = "SyncRequest" => IsTornSnapshot(sendBuffer.content.snapshot)
    /\ sendBuffer.writers \subseteq {"ping", "ui"}

SendTypeOK == PingTypeOK /\ BufferTypeOK /\ ui \in {"idle", "fill", "send"}

NetTypeOK ==
    /\ \A m \in Requests : IsTornSnapshot(m.snapshot)
    /\ \A m \in Replies : IsDiff(m.diff) /\ IsRecord(m.diff)

ThreadTypes == ServerTypeOK /\ ReplicaTypeOK /\ RecvTypeOK /\ SendTypeOK /\ NetTypeOK

(* How far bits, handle map and objects have got with recv.key.            *)
Memory ==
    \/ /\ recv.pc \in {"idle", "next"}
       /\ bits = Live /\ nulls = {} /\ freed = {}
    \/ /\ recv.pc = "insert" /\ recv.key \in DOMAIN recv.todo.toCreate
       /\ bits = Live \cup {recv.key} /\ nulls = {} /\ freed = {}
    \/ /\ recv.pc = "make" /\ recv.key \in DOMAIN recv.todo.toCreate
       /\ bits = Live \cup {recv.key} /\ nulls = {recv.key} \ Live /\ freed = {}
    \/ /\ recv.pc = "write" /\ recv.key \in Live
       /\ bits = Live /\ nulls = {} /\ freed = {}
    \/ /\ recv.pc = "destroy"
       /\ DOMAIN recv.todo.toCreate = {} /\ recv.key \in recv.todo.toRemove
       /\ bits = Live \ {recv.key} /\ nulls = {} /\ freed = {}
    \/ /\ recv.pc = "erase"
       /\ DOMAIN recv.todo.toCreate = {} /\ recv.key \in recv.todo.toRemove
       /\ bits = Live \ {recv.key}
       /\ nulls = {recv.key} \ Live /\ freed = {recv.key} \cap Live

(* What is left to do leads from the manager as it is to the goal.         *)
Leads ==
    /\ recv.pc = "idle" => client[Self] = goal
    /\ recv.pc = "write" =>
          ApplyDiff(Update(client[Self], recv.key, recv.json), recv.todo) = goal
    /\ recv.pc \notin {"idle", "write"} => ApplyDiff(client[Self], recv.todo) = goal

Receiving == Alive => Memory /\ Leads

(* IInv with the goal in the place of the replica: what applying the diff  *)
(* will have led to, and the diffs in flight, differ from the server only  *)
(* where that is marked dirty.                                             *)
GoalOk == \A k \in DOMAIN goal : Covered(k, goal[k].fields)

ThreadsIInv ==
    /\ ThreadTypes
    /\ Receiving
    /\ ServerOk /\ GoalOk
    /\ \A m \in Replies : ReplyOk(m)

-----------------------------------------------------------------------------
(* What each thread leaves alone.                                          *)

(* The receive thread takes replies from the network and sends nothing.    *)
LEMMA ReceiverFrame ==
    ReceiveThread => /\ Alive
                     /\ UNCHANGED <<serverVars, sendVars>>
                     /\ BagToSet(net') \subseteq BagToSet(net)
<1>1. ASSUME NEW m \in BagToSet(net), StartDiff(m)
      PROVE  /\ Alive
             /\ UNCHANGED <<serverVars, sendVars>>
             /\ BagToSet(net') \subseteq BagToSet(net)
  BY <1>1, BagFacts DEF StartDiff, RecvAt, serverSide
<1>2. ASSUME \/ \E k \in Key : CreateBegins(k) \/ RemoveBegins(k) \/ UpdateBegins(k)
             \/ CreateInserts \/ CreateMakes \/ RemoveDestroys \/ RemoveErases
             \/ FinishDiff
             \/ \E f \in Fields : WriteField(f)
      PROVE  Alive /\ RecvUnchanged
  BY <1>2 DEF CreateBegins, RemoveBegins, UpdateBegins, CreateInserts, CreateMakes,
              RemoveDestroys, RemoveErases, FinishDiff, WriteField, RecvAt
<1> QED
  BY <1>1, <1>2 DEF ReceiveThread, RecvUnchanged, serverSide

Senders == PingThread \/ UIBeginsPacket \/ UIEndsPacket \/ UISends

(* The ping thread and the user interface read the manager and change      *)
(* nothing of it.                                                          *)
LEMMA SenderFrame == Senders => Alive /\ UNCHANGED <<serverVars, memory, client, recv, goal>>
BY DEF Senders, PingThread, TakeBits, Visit, EndVisit, PingBeginsPacket, PingEndsPacket,
       PingSends, PingAt, PingUnchanged, UIBeginsPacket, UIEndsPacket, UISends,
       UIUnchanged, serverSide, recvVars

(* The server reaches a client only through the network.                   *)
LEMMA EnvironmentFrame ==
    Environment => UNCHANGED <<memory, client, status, recv, goal, sendVars>>
BY DEF Environment, ServerCreate, ServerEdit, ServerRemove, Changes, Lose, DropTornRequest,
       AnswerRequest, HandleSyncRequest, ThreadsUnchanged, clientVars

-----------------------------------------------------------------------------
(* The receive thread.                                                     *)

Received == ReplicaTypeOK /\ RecvTypeOK /\ Receiving

(* A diff taken from the network: its application leads to the goal.       *)
LEMMA Starts ==
    ASSUME Received, NetTypeOK, NEW m, StartDiff(m)
    PROVE  Received'
<1>1. /\ Alive /\ recv.pc = "idle" /\ m \in Replies
      /\ recv' = [recv EXCEPT !.pc = "next", !.todo = m.diff]
      /\ goal' = ApplyDiff(client[Self], m.diff)
      /\ UNCHANGED <<client, status, memory>>
  BY DEF StartDiff, RecvAt, clientVars
<1>2. IsDiff(m.diff) /\ IsRecord(m.diff)
  BY <1>1 DEF NetTypeOK
<1>3. IsManager(goal')
  BY <1>1, <1>2, ApplyDiffType DEF Received, ReplicaTypeOK
<1>4. ReplicaTypeOK'
  BY <1>1, <1>3 DEF Received, ReplicaTypeOK, memory
<1>5. /\ recv'.pc = "next" /\ recv'.todo = m.diff
      /\ recv'.key = recv.key /\ recv'.json = recv.json
      /\ recv' = [pc |-> recv'.pc, todo |-> recv'.todo, key |-> recv'.key, json |-> recv'.json]
  BY <1>1 DEF Received, RecvTypeOK
<1>6. RecvTypeOK'
  BY <1>2, <1>5 DEF Received, RecvTypeOK
<1>7. bits = Live /\ nulls = {} /\ freed = {}
  BY <1>1 DEF Received, Receiving, Memory
<1>8. Receiving'
  BY <1>1, <1>5, <1>7 DEF Receiving, Memory, Leads, Live, memory
<1> QED
  BY <1>4, <1>6, <1>8 DEF Received

(* A failed assertion leaves the manager as it is.                         *)
LEMMA Stops ==
    ASSUME Received, Dies("aborted") \/ Dies("segfault"),
           UNCHANGED <<client, goal, recv>>,
           bits' \cup nulls' \cup freed' \subseteq Key
    PROVE  Received'
<1>1. Self \in Clients
  BY ClientThreadsAssumption
<1>2. ~Alive' /\ status' \in [Clients -> {"running", "aborted", "segfault"}]
  BY <1>1 DEF Dies, Alive, Received, ReplicaTypeOK
<1> QED
  BY <1>2 DEF Received, ReplicaTypeOK, RecvTypeOK, Receiving

(* Where the receive thread is between two entries of the diff.            *)
LEMMA AtNext ==
    ASSUME Received, Alive, recv.pc = "next"
    PROVE  /\ bits = Live /\ nulls = {} /\ freed = {}
           /\ ApplyDiff(client[Self], recv.todo) = goal
BY DEF Received, Receiving, Memory, Leads, Live

(* createImpl, from the assertion to setFromJson.                          *)
LEMMA CreateBeginsReceives ==
    ASSUME Received, NEW k \in Key, CreateBegins(k)
    PROVE  Received'
<1>1. /\ Alive /\ recv.pc = "next" /\ k \in DOMAIN recv.todo.toCreate
      /\ UNCHANGED <<nulls, freed, goal, client>>
  BY DEF CreateBegins, RecvAt
<1>2. CASE AssertionStops(k \notin bits)
  BY <1>1, <1>2, Stops DEF AssertionStops, Received, ReplicaTypeOK
<1>3. CASE /\ bits' = bits \cup {k}
           /\ recv' = [recv EXCEPT !.pc = "insert", !.key = k]
           /\ UNCHANGED status
  <2>1. ReplicaTypeOK'
    BY <1>1, <1>3 DEF Received, ReplicaTypeOK
  <2>2. /\ recv'.pc = "insert" /\ recv'.key = k
        /\ recv'.todo = recv.todo /\ recv'.json = recv.json
        /\ recv' = [pc |-> recv'.pc, todo |-> recv'.todo, key |-> recv'.key, json |-> recv'.json]
    BY <1>3 DEF Received, RecvTypeOK
  <2>3. RecvTypeOK'
    BY <2>2 DEF Received, RecvTypeOK
  <2>4. Receiving'
    BY <1>1, <1>3, <2>2, AtNext DEF Receiving, Memory, Leads, Live
  <2> QED
    BY <2>1, <2>3, <2>4 DEF Received
<1> QED
  BY <1>2, <1>3 DEF CreateBegins

(* The map entry: a null handle, unless the key had one.                   *)
LEMMA CreateInsertsReceives ==
    ASSUME Received, CreateInserts
    PROVE  Received'
<1>1. /\ Alive /\ recv.pc = "insert"
      /\ nulls' = IF recv.key \in Live THEN nulls ELSE nulls \cup {recv.key}
      /\ recv' = [recv EXCEPT !.pc = "make"]
      /\ UNCHANGED <<bits, freed, goal, client, status>>
  BY DEF CreateInserts, RecvAt
<1>2. /\ recv'.pc = "make" /\ recv'.key = recv.key
      /\ recv'.todo = recv.todo /\ recv'.json = recv.json
      /\ recv' = [pc |-> recv'.pc, todo |-> recv'.todo, key |-> recv'.key, json |-> recv'.json]
  BY <1>1 DEF Received, RecvTypeOK
<1>3. RecvTypeOK'
  BY <1>1, <1>2 DEF Received, RecvTypeOK
<1>4. ReplicaTypeOK'
  BY <1>1 DEF Received, ReplicaTypeOK, RecvTypeOK
<1>5. /\ recv.key \in DOMAIN recv.todo.toCreate
      /\ bits = Live \cup {recv.key} /\ nulls = {} /\ freed = {}
      /\ ApplyDiff(client[Self], recv.todo) = goal
  BY <1>1 DEF Received, Receiving, Memory, Leads, Live
<1>6. Receiving'
  BY <1>1, <1>2, <1>5 DEF Receiving, Memory, Leads, Live
<1> QED
  BY <1>3, <1>4, <1>6 DEF Received

(* create(): the object is there with default fields, all still to be      *)
(* written.                                                                *)
LEMMA CreateMakesReceives ==
    ASSUME Received, CreateMakes
    PROVE  Received'
<1> DEFINE k == recv.key
<1> DEFINE json == recv.todo.toCreate[k].fields
<1> DEFINE M == client[Self]
<1>1. /\ Alive /\ recv.pc = "make"
      /\ nulls' = nulls \ {k}
      /\ client' = [client EXCEPT ![Self] = Create(@, k, <<>>)]
      /\ recv' = [recv EXCEPT !.pc = "write", !.json = json,
                              !.todo.toCreate = Without(@, k)]
      /\ UNCHANGED <<bits, freed, goal, status>>
  BY DEF CreateMakes, RecvAt
<1>2. /\ k \in DOMAIN recv.todo.toCreate
      /\ bits = Live \cup {k} /\ nulls = {k} \ Live /\ freed = {}
      /\ ApplyDiff(M, recv.todo) = goal
  BY <1>1 DEF Received, Receiving, Memory, Leads, Live
<1>3. Self \in Clients
  BY ClientThreadsAssumption
<1>4. client'[Self] = Create(M, k, <<>>) /\ DOMAIN client' = Clients
  BY <1>1, <1>3 DEF Received, ReplicaTypeOK
<1>5. k \in Key /\ json \in [Fields -> Values]
  BY <1>1, <1>2 DEF Received, RecvTypeOK, IsDiff, Item
<1> HIDE DEF k, json, M
<1>6. IsManager(Create(M, k, <<>>))
  BY <1>5, CreateType DEF Received, ReplicaTypeOK, M
<1>7. ReplicaTypeOK'
  <2>1. client'[Self] = [j \in DOMAIN client'[Self] |-> client'[Self][j]]
    BY <1>4 DEF Create
  <2>2. bits' \cup nulls' \cup freed' \subseteq Key
    BY <1>1 DEF Received, ReplicaTypeOK
  <2> QED
    BY <1>1, <1>4, <1>6, <2>1, <2>2 DEF Received, ReplicaTypeOK
<1>8. /\ recv'.pc = "write" /\ recv'.key = k /\ recv'.json = json
      /\ recv' = [pc |-> recv'.pc, todo |-> recv'.todo, key |-> recv'.key, json |-> recv'.json]
      /\ recv'.todo = [recv.todo EXCEPT !.toCreate = Without(@, k)]
  BY <1>1 DEF Received, RecvTypeOK, k
<1>9. /\ recv'.todo.toCreate = Without(recv.todo.toCreate, k)
      /\ recv'.todo.toRemove = recv.todo.toRemove
      /\ recv'.todo.toUpdate = recv.todo.toUpdate
      /\ IsRecord(recv'.todo)
  BY <1>8 DEF Received, RecvTypeOK, IsRecord
<1>10. IsDiff(recv'.todo)
  BY <1>9 DEF Received, RecvTypeOK, IsDiff, Without
<1>11. RecvTypeOK'
  BY <1>5, <1>8, <1>9, <1>10 DEF RecvTypeOK, IsRecord, IsDiff
<1>12. Memory'
  <2>1. DOMAIN client'[Self] = Live \cup {k}
    BY <1>4 DEF Create, M, Live
  <2> QED
    BY <1>1, <1>2, <1>8, <2>1 DEF Memory, Live
<1>13. ApplyDiff(Update(client'[Self], recv'.key, recv'.json), recv'.todo) = goal'
  <2>1. Update(client'[Self], k, json) = Create(M, k, json)
    BY <1>4, MadeThenWritten
  <2>2. ApplyDiff(Create(M, k, json), recv'.todo) = ApplyDiff(M, recv.todo)
    BY <1>2, <1>9, OneCreation DEF json
  <2> QED
    BY <1>1, <1>2, <1>8, <2>1, <2>2
<1>14. Receiving'
  BY <1>8, <1>12, <1>13 DEF Receiving, Leads
<1> QED
  BY <1>7, <1>11, <1>14 DEF Received

(* setFromJson: a field is written, and the rest is still to do.           *)
LEMMA WriteFieldReceives ==
    ASSUME Received, NEW f \in Fields, WriteField(f)
    PROVE  Received'
<1> DEFINE k == recv.key
<1> DEFINE M == client[Self]
<1>0. PICK one : one = [g \in {f} |-> recv.json[g]]
  OBVIOUS
<1> DEFINE last == DOMAIN recv.json = {f}
<1>1. /\ Alive /\ recv.pc = "write" /\ f \in DOMAIN recv.json
      /\ client' = [client EXCEPT ![Self] = Update(M, k, one)]
      /\ recv' = [recv EXCEPT !.json = Without(@, f),
                              !.pc = IF last THEN "next" ELSE "write"]
      /\ UNCHANGED <<memory, goal, status>>
  BY <1>0 DEF WriteField, RecvAt, Written
<1>2. /\ k \in Live /\ bits = Live /\ nulls = {} /\ freed = {}
      /\ ApplyDiff(Update(M, k, recv.json), recv.todo) = goal
  BY <1>1 DEF Received, Receiving, Memory, Leads, Live
<1>3. Self \in Clients
  BY ClientThreadsAssumption
<1>4. client'[Self] = Update(M, k, one) /\ DOMAIN client' = Clients
  BY <1>1, <1>3 DEF Received, ReplicaTypeOK
<1>5. \A g \in DOMAIN one : one[g] \in Values
  BY <1>0, <1>1 DEF Received, RecvTypeOK
<1>6. k \in Key /\ IsManager(M) /\ k \in DOMAIN M /\ M = [j \in DOMAIN M |-> M[j]]
  BY <1>1, <1>2 DEF Received, ReplicaTypeOK, RecvTypeOK, Live
<1>7. SetFromJson(M[k], one) \in Object
  BY <1>5, <1>6, SetFromJsonType DEF IsManager
<1>8. /\ IsManager(Update(M, k, one)) /\ DOMAIN Update(M, k, one) = DOMAIN M
      /\ Update(M, k, one) = [j \in DOMAIN M |-> Update(M, k, one)[j]]
  BY <1>6, <1>7 DEF Update, IsManager
<1> HIDE DEF k, M
<1>9. ReplicaTypeOK'
  BY <1>1, <1>4, <1>8 DEF Received, ReplicaTypeOK, memory
<1>10. /\ recv'.pc = IF last THEN "next" ELSE "write"
       /\ recv'.key = k /\ recv'.todo = recv.todo
       /\ recv'.json = Without(recv.json, f)
       /\ recv' = [pc |-> recv'.pc, todo |-> recv'.todo, key |-> recv'.key, json |-> recv'.json]
  BY <1>1 DEF Received, RecvTypeOK, k
<1>11. /\ DOMAIN Without(recv.json, f) \subseteq Fields
       /\ \A g \in DOMAIN Without(recv.json, f) : Without(recv.json, f)[g] \in Values
  BY DEF Received, RecvTypeOK, Without
<1>12. RecvTypeOK'
  BY <1>6, <1>10, <1>11 DEF Received, RecvTypeOK
<1>13. Memory'
  BY <1>1, <1>2, <1>4, <1>8, <1>10 DEF Memory, memory, Live, M
<1>14. CASE last
  <2>1. Update(M, k, one) = Update(M, k, recv.json)
    BY <1>0, <1>14, LastField
  <2> QED
    BY <1>1, <1>2, <1>4, <1>9, <1>10, <1>12, <1>13, <1>14, <2>1
       DEF Received, Receiving, Leads, k, M
<1>15. CASE ~last
  <2>1. Update(Update(M, k, one), k, Without(recv.json, f)) = Update(M, k, recv.json)
    <3>1. f \in DOMAIN recv.json
      BY <1>1
    <3>2. \A N, i : Update(Update(N, i, one), i, Without(recv.json, f))
                       = Update(N, i, recv.json)
      BY <1>0, <3>1, FieldByField
    <3> QED
      BY <3>2
  <2> QED
    BY <1>1, <1>2, <1>4, <1>9, <1>10, <1>12, <1>13, <1>15, <2>1
       DEF Received, Receiving, Leads, k, M
<1> QED
  BY <1>14, <1>15

(* removeImpl, from the assertion to the entry's end.                      *)
LEMMA RemoveBeginsReceives ==
    ASSUME Received, NEW k \in Key, RemoveBegins(k)
    PROVE  Received'
<1>1. /\ Alive /\ recv.pc = "next"
      /\ recv.todo.toCreate = <<>> /\ k \in recv.todo.toRemove
      /\ UNCHANGED <<nulls, freed, goal, client>>
  BY DEF RemoveBegins, RecvAt
<1>2. CASE AssertionStops(k \in bits)
  BY <1>1, <1>2, Stops DEF AssertionStops, Received, ReplicaTypeOK
<1>3. CASE /\ bits' = bits \ {k}
           /\ recv' = [recv EXCEPT !.pc = "destroy", !.key = k]
           /\ UNCHANGED status
  <2>1. ReplicaTypeOK'
    BY <1>1, <1>3 DEF Received, ReplicaTypeOK
  <2>2. /\ recv'.pc = "destroy" /\ recv'.key = k
        /\ recv'.todo = recv.todo /\ recv'.json = recv.json
        /\ recv' = [pc |-> recv'.pc, todo |-> recv'.todo, key |-> recv'.key, json |-> recv'.json]
    BY <1>3 DEF Received, RecvTypeOK
  <2>3. RecvTypeOK'
    BY <2>2 DEF Received, RecvTypeOK
  <2>4. Receiving'
    <3>1. DOMAIN recv.todo.toCreate = {}
      BY <1>1
    <3> QED
      BY <1>1, <1>3, <2>2, <3>1, AtNext DEF Receiving, Memory, Leads, Live
  <2> QED
    BY <2>1, <2>3, <2>4 DEF Received
<1> QED
  BY <1>2, <1>3 DEF RemoveBegins

(* The object goes, its handle stays behind.                               *)
LEMMA RemoveDestroysReceives ==
    ASSUME Received, RemoveDestroys
    PROVE  Received'
<1>1. /\ Alive /\ recv.pc = "destroy"
      /\ IF recv.key \in Live
         THEN freed' = freed \cup {recv.key} /\ UNCHANGED nulls
         ELSE nulls' = nulls \cup {recv.key} /\ UNCHANGED freed
      /\ recv' = [recv EXCEPT !.pc = "erase"]
      /\ UNCHANGED <<bits, goal, client, status>>
  BY DEF RemoveDestroys, RecvAt
<1>2. /\ recv'.pc = "erase" /\ recv'.key = recv.key
      /\ recv'.todo = recv.todo /\ recv'.json = recv.json
      /\ recv' = [pc |-> recv'.pc, todo |-> recv'.todo, key |-> recv'.key, json |-> recv'.json]
  BY <1>1 DEF Received, RecvTypeOK
<1>3. RecvTypeOK'
  BY <1>1, <1>2 DEF Received, RecvTypeOK
<1>4. ReplicaTypeOK'
  BY <1>1 DEF Received, ReplicaTypeOK, RecvTypeOK
<1>5. /\ DOMAIN recv.todo.toCreate = {} /\ recv.key \in recv.todo.toRemove
      /\ bits = Live \ {recv.key} /\ nulls = {} /\ freed = {}
      /\ ApplyDiff(client[Self], recv.todo) = goal
  BY <1>1 DEF Received, Receiving, Memory, Leads
<1>6. Receiving'
  BY <1>1, <1>2, <1>5 DEF Receiving, Memory, Leads, Live
<1> QED
  BY <1>3, <1>4, <1>6 DEF Received

(* The handle goes: the removal is done.                                   *)
LEMMA RemoveErasesReceives ==
    ASSUME Received, RemoveErases
    PROVE  Received'
<1> DEFINE k == recv.key
<1> DEFINE M == client[Self]
<1>1. /\ Alive /\ recv.pc = "erase"
      /\ client' = [client EXCEPT ![Self] = Remove(@, k)]
      /\ nulls' = nulls \ {k} /\ freed' = freed \ {k}
      /\ recv' = [recv EXCEPT !.pc = "next", !.todo.toRemove = @ \ {k}]
      /\ UNCHANGED <<bits, goal, status>>
  BY DEF RemoveErases, RecvAt
<1>2. /\ DOMAIN recv.todo.toCreate = {} /\ k \in recv.todo.toRemove
      /\ bits = Live \ {k} /\ nulls = {k} \ Live /\ freed = {k} \cap Live
      /\ ApplyDiff(M, recv.todo) = goal
  BY <1>1 DEF Received, Receiving, Memory, Leads
<1>3. Self \in Clients
  BY ClientThreadsAssumption
<1>4. client'[Self] = Remove(M, k) /\ DOMAIN client' = Clients
  BY <1>1, <1>3 DEF Received, ReplicaTypeOK
<1> HIDE DEF k, M
<1>5. /\ IsManager(Remove(M, k)) /\ DOMAIN Remove(M, k) = DOMAIN M \ {k}
      /\ Remove(M, k) = [j \in DOMAIN Remove(M, k) |-> Remove(M, k)[j]]
  BY DEF Received, ReplicaTypeOK, Remove, IsManager, M
<1>6. ReplicaTypeOK'
  <2>1. bits' \cup nulls' \cup freed' \subseteq Key
    BY <1>1 DEF Received, ReplicaTypeOK
  <2> QED
    BY <1>1, <1>4, <1>5, <2>1 DEF Received, ReplicaTypeOK
<1>7. /\ recv'.pc = "next" /\ recv'.key = k /\ recv'.json = recv.json
      /\ recv' = [pc |-> recv'.pc, todo |-> recv'.todo, key |-> recv'.key, json |-> recv'.json]
      /\ recv'.todo = [recv.todo EXCEPT !.toRemove = @ \ {k}]
  BY <1>1 DEF Received, RecvTypeOK, k
<1>8. /\ recv'.todo.toCreate = recv.todo.toCreate
      /\ recv'.todo.toRemove = recv.todo.toRemove \ {k}
      /\ recv'.todo.toUpdate = recv.todo.toUpdate
      /\ IsRecord(recv'.todo)
  BY <1>7 DEF Received, RecvTypeOK, IsRecord
<1>9. IsDiff(recv'.todo)
  BY <1>8 DEF Received, RecvTypeOK, IsDiff
<1>10. RecvTypeOK'
  BY <1>7, <1>8, <1>9 DEF Received, RecvTypeOK, IsRecord, IsDiff
<1>11. Memory'
  BY <1>1, <1>2, <1>4, <1>5, <1>7 DEF Memory, Live, M
<1>12. ApplyDiff(Remove(M, k), recv'.todo) = ApplyDiff(M, recv.todo)
  BY <1>2, <1>8, OneRemoval
<1>13. Receiving'
  BY <1>1, <1>2, <1>4, <1>7, <1>11, <1>12 DEF Receiving, Leads
<1> QED
  BY <1>6, <1>10, <1>13 DEF Received

(* updateImpl, up to setFromJson.                                          *)
LEMMA UpdateBeginsReceives ==
    ASSUME Received, NEW k \in Key, UpdateBegins(k)
    PROVE  Received'
<1> DEFINE M == client[Self]
<1> DEFINE json == recv.todo.toUpdate[k]
<1>1. /\ Alive /\ recv.pc = "next"
      /\ recv.todo.toCreate = <<>> /\ recv.todo.toRemove = {}
      /\ k \in DOMAIN recv.todo.toUpdate
      /\ UNCHANGED <<freed, goal, client>>
  BY DEF UpdateBegins, RecvAt
<1>2. CASE AssertionStops(k \in bits) /\ UNCHANGED nulls
  BY <1>1, <1>2, Stops DEF AssertionStops, Received, ReplicaTypeOK
<1>3. CASE nulls' = nulls \cup {k} /\ Dies("segfault") /\ UNCHANGED <<bits, recv>>
  BY <1>1, <1>3, Stops DEF Received, ReplicaTypeOK
<1>4. CASE /\ k \in Live
           /\ recv' = [recv EXCEPT !.pc = "write", !.key = k, !.json = json,
                                   !.todo.toUpdate = Without(@, k)]
           /\ UNCHANGED <<bits, nulls, status>>
  <2>1. ReplicaTypeOK'
    BY <1>1, <1>4 DEF Received, ReplicaTypeOK
  <2>2. /\ DOMAIN json \subseteq Fields
        /\ \A f \in DOMAIN json : json[f] \in Values
    BY <1>1 DEF Received, RecvTypeOK, IsDiff
  <2> HIDE DEF json, M
  <2>3. /\ recv'.pc = "write" /\ recv'.key = k /\ recv'.json = json
        /\ recv' = [pc |-> recv'.pc, todo |-> recv'.todo, key |-> recv'.key, json |-> recv'.json]
        /\ recv'.todo = [recv.todo EXCEPT !.toUpdate = Without(@, k)]
    BY <1>4 DEF Received, RecvTypeOK
  <2>4. /\ recv'.todo.toCreate = recv.todo.toCreate
        /\ recv'.todo.toRemove = recv.todo.toRemove
        /\ recv'.todo.toUpdate = Without(recv.todo.toUpdate, k)
        /\ IsRecord(recv'.todo)
    BY <2>3 DEF Received, RecvTypeOK, IsRecord
  <2>5. IsDiff(recv'.todo)
    BY <2>4 DEF Received, RecvTypeOK, IsDiff, Without
  <2>6. RecvTypeOK'
    BY <2>2, <2>3, <2>4, <2>5 DEF RecvTypeOK, IsRecord, IsDiff
  <2>7. Memory'
    BY <1>1, <1>4, <2>3, AtNext DEF Memory, Live
  <2>8. ApplyDiff(Update(M, k, json), recv'.todo) = ApplyDiff(M, recv.todo)
    <3>1. PICK d : d = recv.todo
      OBVIOUS
    <3>2. PICK e : e = recv'.todo
      OBVIOUS
    <3>3. /\ k \in DOMAIN M /\ k \in DOMAIN d.toUpdate
          /\ DOMAIN d.toCreate = {} /\ d.toRemove = {}
      BY <1>1, <1>4, <3>1 DEF M, Live
    <3>4. /\ e.toCreate = d.toCreate /\ e.toRemove = d.toRemove
          /\ e.toUpdate = Without(d.toUpdate, k)
      BY <2>4, <3>1, <3>2
    <3>5. ApplyDiff(Update(M, k, d.toUpdate[k]), e) = ApplyDiff(M, d)
      BY <3>3, <3>4, OneUpdate
    <3> QED
      BY <3>1, <3>2, <3>5 DEF json
  <2>9. Receiving'
    BY <1>1, <2>3, <2>7, <2>8, AtNext DEF Receiving, Leads, M
  <2> QED
    BY <2>1, <2>6, <2>9 DEF Received
<1> QED
  BY <1>2, <1>3, <1>4 DEF UpdateBegins

(* The goal is reached.                                                    *)
LEMMA FinishDiffReceives ==
    ASSUME Received, FinishDiff
    PROVE  Received'
<1>1. /\ Alive /\ recv.pc = "next" /\ recv.todo = NoDiff
      /\ recv' = [recv EXCEPT !.pc = "idle"]
      /\ UNCHANGED <<memory, goal, client, status>>
  BY DEF FinishDiff, RecvAt
<1>2. /\ recv'.pc = "idle" /\ recv'.key = recv.key
      /\ recv'.todo = recv.todo /\ recv'.json = recv.json
      /\ recv' = [pc |-> recv'.pc, todo |-> recv'.todo, key |-> recv'.key, json |-> recv'.json]
  BY <1>1 DEF Received, RecvTypeOK
<1>3. RecvTypeOK'
  BY <1>1, <1>2 DEF Received, RecvTypeOK
<1>4. ReplicaTypeOK'
  BY <1>1 DEF Received, ReplicaTypeOK, memory
<1>5. /\ bits = Live /\ nulls = {} /\ freed = {}
      /\ ApplyDiff(client[Self], recv.todo) = goal
  BY <1>1, AtNext
<1>6. client[Self] = goal
  <2>1. client[Self] = [k \in DOMAIN client[Self] |-> client[Self][k]]
    BY DEF Received, ReplicaTypeOK
  <2>2. ApplyDiff(client[Self], NoDiff) = client[Self]
    BY <2>1, NothingLeft
  <2> QED
    BY <1>1, <1>5, <2>2
<1>7. Receiving'
  BY <1>1, <1>2, <1>5, <1>6 DEF Receiving, Memory, Leads, Live, memory
<1> QED
  BY <1>3, <1>4, <1>7 DEF Received

(* So whatever the receive thread does.                                    *)
LEMMA ReceiverKeeps == Received /\ NetTypeOK /\ ReceiveThread => Received'
BY Starts, CreateBeginsReceives, CreateInsertsReceives, CreateMakesReceives,
   WriteFieldReceives, RemoveBeginsReceives, RemoveDestroysReceives,
   RemoveErasesReceives, UpdateBeginsReceives, FinishDiffReceives DEF ReceiveThread

-----------------------------------------------------------------------------
(* The ping thread and the user interface.                                 *)

StatusTypeOK == status \in [Clients -> {"running", "aborted", "segfault"}]

(* mkPacket and sendTo keep the buffer a packet or garbage, and what they  *)
(* send are snapshots of the kind the buffer may hold.                     *)
LEMMA BeginPacketType ==
    ASSUME StatusTypeOK, BufferTypeOK, NEW thread \in {"ping", "ui"}, BeginPacket(thread)
    PROVE  StatusTypeOK' /\ BufferTypeOK'
<1>1. sendBuffer'.content = Garbled /\ sendBuffer'.writers \subseteq {"ping", "ui"}
  BY DEF BeginPacket, BufferTypeOK
<1>2. BufferTypeOK'
  BY <1>1 DEF BufferTypeOK, Garbled
<1> QED
  BY <1>2 DEF BeginPacket, Dies, StatusTypeOK

(* A finished packet is the one its thread composed, or garbled.           *)
LEMMA EndPacketType ==
    ASSUME StatusTypeOK, BufferTypeOK, NEW thread, NEW m, EndPacket(thread, m),
           m.type \in {"Data", "SyncRequest"},
           m.type = "SyncRequest" => IsTornSnapshot(m.snapshot)
    PROVE  StatusTypeOK' /\ BufferTypeOK'
<1>1. /\ sendBuffer'.content \in {Garbled, m}
      /\ sendBuffer'.writers \subseteq {"ping", "ui"}
      /\ UNCHANGED status
  BY DEF EndPacket, BufferTypeOK
<1>2. Garbled.type = "Garbled"
  BY DEF Garbled
<1>3. BufferTypeOK'
  BY <1>1, <1>2 DEF BufferTypeOK
<1> QED
  BY <1>1, <1>3 DEF StatusTypeOK

(* Whatever is in the buffer is sent.                                      *)
LEMMA SendPacketType ==
    ASSUME StatusTypeOK, BufferTypeOK, NetTypeOK, SendPacket
    PROVE  /\ StatusTypeOK' /\ BufferTypeOK' /\ NetTypeOK'
           /\ Replies' \subseteq Replies
<1>1. UNCHANGED <<sendBuffer, status>>
  BY DEF SendPacket
<1>2. \/ net' = net
      \/ /\ sendBuffer.content.type = "SyncRequest"
         /\ BagToSet(net') \subseteq BagToSet(net) \cup {sendBuffer.content}
  BY SentFacts DEF SendPacket
<1>3. /\ Replies' \subseteq Replies
      /\ \A m \in Requests' : m \in Requests \/ IsTornSnapshot(m.snapshot)
  BY <1>2 DEF Requests, Replies, BufferTypeOK
<1> QED
  BY <1>1, <1>3 DEF StatusTypeOK, BufferTypeOK, NetTypeOK

(* The snapshot a packet carries is the one taken, less the bits JSON has  *)
(* no room for.                                                            *)
LEMMA RequestType ==
    ASSUME PingTypeOK
    PROVE  LET m == SyncRequest(Self, Transmitted(ping.snapshot))
           IN  m.type = "SyncRequest" /\ IsTornSnapshot(m.snapshot)
<1>1. PICK s : s = Transmitted(ping.snapshot)
  OBVIOUS
<1>2. /\ s.bitsetIDs \subseteq ping.snapshot.bitsetIDs
      /\ s.items = ping.snapshot.items
  BY <1>1 DEF PingTypeOK, Transmitted
<1>3. IsTornSnapshot(s)
  BY <1>2 DEF PingTypeOK, IsTornSnapshot
<1> QED
  BY <1>1, <1>3, MessageFacts

(* Reading the manager, whatever the receive thread has made of it.        *)
LEMMA TakeBitsType ==
    ASSUME ReplicaTypeOK, TakeBits PROVE PingTypeOK'
<1>1. ping' = [pc |-> "visit", snapshot |-> [bitsetIDs |-> bits, items |-> <<>>]]
  BY DEF TakeBits
<1>2. bits \subseteq Key /\ DOMAIN <<>> = {}
  BY DEF ReplicaTypeOK
<1> QED
  BY <1>1, <1>2 DEF PingTypeOK, IsTornSnapshot

(* A visit adds one object's fields to the snapshot, or crashes.           *)
LEMMA VisitType ==
    ASSUME ReplicaTypeOK, PingTypeOK, NEW k \in Key, Visit(k)
    PROVE  PingTypeOK' /\ StatusTypeOK'
<1>1. \/ /\ k \in Live
         /\ ping' = [ping EXCEPT !.snapshot.items =
                        [j \in Visited \cup {k} |->
                            IF j = k THEN ToJsonAll(client[Self][k]) ELSE @[j]]]
         /\ UNCHANGED status
      \/ Dies("segfault") /\ UNCHANGED ping
  BY DEF Visit
<1>2. CASE Dies("segfault") /\ UNCHANGED ping
  BY <1>2 DEF PingTypeOK, StatusTypeOK, ReplicaTypeOK, Dies
<1>3. CASE /\ k \in Live
           /\ ping' = [ping EXCEPT !.snapshot.items =
                          [j \in Visited \cup {k} |->
                              IF j = k THEN ToJsonAll(client[Self][k]) ELSE @[j]]]
           /\ UNCHANGED status
  <2>1. PICK items : items = [j \in Visited \cup {k} |->
                                 IF j = k THEN ToJsonAll(client[Self][k])
                                          ELSE ping.snapshot.items[j]]
    OBVIOUS
  <2>2. ping' = [ping EXCEPT !.snapshot.items = items]
    BY <1>3, <2>1
  <2>3. ToJsonAll(client[Self][k]) \in Item
    BY <1>3 DEF ReplicaTypeOK, IsManager, Live, ToJsonAll, Object, Item
  <2>4. Visited \subseteq Key /\ \A j \in Visited : ping.snapshot.items[j] \in Item
    BY DEF PingTypeOK, IsTornSnapshot, Visited
  <2>5. DOMAIN items \subseteq Key /\ \A j \in DOMAIN items : items[j] \in Item
    BY <2>1, <2>3, <2>4
  <2>6. /\ ping'.pc = ping.pc
        /\ ping' = [pc |-> ping'.pc, snapshot |-> ping'.snapshot]
        /\ ping'.snapshot = [ping.snapshot EXCEPT !.items = items]
    BY <2>2 DEF PingTypeOK
  <2>7. /\ ping'.snapshot.bitsetIDs = ping.snapshot.bitsetIDs
        /\ ping'.snapshot.items = items
        /\ ping'.snapshot = [bitsetIDs |-> ping'.snapshot.bitsetIDs, items |-> ping'.snapshot.items]
    BY <2>6 DEF PingTypeOK
  <2>8. PingTypeOK'
    BY <2>5, <2>6, <2>7 DEF PingTypeOK, IsTornSnapshot
  <2> QED
    BY <1>3, <2>8 DEF StatusTypeOK, ReplicaTypeOK
<1> QED
  BY <1>1, <1>2, <1>3

(* Moving on with the snapshot as it is.                                   *)
LEMMA PingMoves ==
    ASSUME PingTypeOK, NEW pc \in {"idle", "visit", "compose", "fill", "send"},
           ping' = [ping EXCEPT !.pc = pc]
    PROVE  PingTypeOK'
<1>1. /\ ping'.pc = pc /\ ping'.snapshot = ping.snapshot
      /\ ping' = [pc |-> ping'.pc, snapshot |-> ping'.snapshot]
  BY DEF PingTypeOK
<1> QED
  BY <1>1 DEF PingTypeOK

(* Each of their steps keeps the types and sends no reply.                 *)
LEMMA SendersKeep ==
    ASSUME ReplicaTypeOK, SendTypeOK, NetTypeOK, Senders
    PROVE  StatusTypeOK' /\ SendTypeOK' /\ NetTypeOK' /\ Replies' \subseteq Replies
<1> DEFINE Kept == StatusTypeOK' /\ SendTypeOK' /\ NetTypeOK' /\ Replies' \subseteq Replies
<1>0. StatusTypeOK /\ PingTypeOK /\ BufferTypeOK
  BY DEF StatusTypeOK, ReplicaTypeOK, SendTypeOK
<1>a. ASSUME UNCHANGED net PROVE NetTypeOK' /\ Replies' \subseteq Replies
  BY <1>a DEF NetTypeOK, Requests, Replies
<1>b. ASSUME UNCHANGED sendBuffer PROVE BufferTypeOK'
  BY <1>0, <1>b DEF BufferTypeOK
<1>1. CASE TakeBits
  <2>1. UNCHANGED <<status, net, ui, sendBuffer>>
    BY <1>1 DEF TakeBits
  <2> QED
    BY <1>0, <1>1, <1>a, <1>b, <2>1, TakeBitsType DEF SendTypeOK, StatusTypeOK
<1>2. ASSUME NEW k \in Key, Visit(k) PROVE Kept
  <2>1. UNCHANGED <<net, ui, sendBuffer>>
    BY <1>2 DEF Visit
  <2> QED
    BY <1>0, <1>2, <1>a, <1>b, <2>1, VisitType DEF SendTypeOK
<1>3. CASE EndVisit
  <2>1. /\ UNCHANGED <<status, net, ui, sendBuffer>>
        /\ ping' = [ping EXCEPT !.pc = "compose"]
    BY <1>3 DEF EndVisit
  <2> QED
    BY <1>0, <1>a, <1>b, <2>1, PingMoves DEF SendTypeOK, StatusTypeOK
<1>4. CASE PingBeginsPacket
  <2>1. /\ BeginPacket("ping") /\ ping' = [ping EXCEPT !.pc = "fill"]
        /\ UNCHANGED <<net, ui>>
    BY <1>4 DEF PingBeginsPacket
  <2> QED
    BY <1>0, <1>a, <2>1, BeginPacketType, PingMoves DEF SendTypeOK
<1>5. CASE PingEndsPacket
  <2>1. /\ EndPacket("ping", SyncRequest(Self, Transmitted(ping.snapshot)))
        /\ ping' = [ping EXCEPT !.pc = "send"]
        /\ UNCHANGED <<net, ui>>
    BY <1>5 DEF PingEndsPacket
  <2>2. StatusTypeOK' /\ BufferTypeOK'
    BY <1>0, <2>1, RequestType, EndPacketType
  <2> QED
    BY <1>0, <1>a, <2>1, <2>2, PingMoves DEF SendTypeOK
<1>6. CASE PingSends
  <2>1. SendPacket /\ ping' = [ping EXCEPT !.pc = "idle"] /\ UNCHANGED ui
    BY <1>6 DEF PingSends
  <2> QED
    BY <1>0, <2>1, SendPacketType, PingMoves DEF SendTypeOK
<1>c. ASSUME UNCHANGED ping PROVE PingTypeOK'
  BY <1>0, <1>c DEF PingTypeOK
<1>7. CASE UIBeginsPacket
  <2>1. BeginPacket("ui") /\ ui' = "fill" /\ UNCHANGED <<net, ping>>
    BY <1>7 DEF UIBeginsPacket, UIUnchanged
  <2> QED
    BY <1>0, <1>a, <1>c, <2>1, BeginPacketType DEF SendTypeOK
<1>8. CASE UIEndsPacket
  <2>1. EndPacket("ui", Data) /\ ui' = "send" /\ UNCHANGED <<net, ping>>
    BY <1>8 DEF UIEndsPacket, UIUnchanged
  <2>2. Data.type = "Data"
    BY DEF Data
  <2>3. StatusTypeOK' /\ BufferTypeOK'
    BY <1>0, <2>1, <2>2, EndPacketType
  <2> QED
    BY <1>a, <1>c, <2>1, <2>3 DEF SendTypeOK
<1>9. CASE UISends
  <2>1. SendPacket /\ ui' = "idle" /\ UNCHANGED ping
    BY <1>9 DEF UISends, UIUnchanged
  <2> QED
    BY <1>0, <1>c, <2>1, SendPacketType DEF SendTypeOK
<1> QED
  BY <1>1, <1>2, <1>3, <1>4, <1>5, <1>6, <1>7, <1>8, <1>9 DEF Senders, PingThread

-----------------------------------------------------------------------------
(* The server and the network.                                             *)

(* A reply to any snapshot, torn or not, is a diff whose IDs are issued    *)
(* and whose values are covered; what the application changes is covered.  *)
LEMMA EnvironmentKeeps ==
    ASSUME ServerTypeOK, NetTypeOK, ServerOk, GoalOk, IsManager(goal),
           \A m \in Replies : ReplyOk(m), Environment
    PROVE  /\ ServerTypeOK' /\ NetTypeOK' /\ ServerOk' /\ GoalOk'
           /\ \A m \in Replies' : ReplyOk(m)'
<1>0. UNCHANGED goal
  BY EnvironmentFrame
<1>1. CASE \/ \E t \in Types, json \in CreateJsons : ServerCreate(t, json)
           \/ \E k \in Key, f \in Fields, v \in Values : ServerEdit(k, f, v)
           \/ \E k \in Key : ServerRemove(k)
  <2>1. ServerChanges /\ UNCHANGED net
    BY <1>1, ActionsChange
       DEF ServerChanges, ServerCreate, ServerEdit, ServerRemove, Changes
  <2>2. ServerTypeOK'
    BY <2>1, ServerChangesType
  <2>3. /\ ServerOk'
        /\ \A k \in Key : \A fields : Covered(k, fields) => Covered(k, fields)'
    BY <2>1, ServerChangesCover
  <2>4. Replies' = Replies /\ NetTypeOK'
    BY <2>1 DEF Replies, Requests, NetTypeOK
  <2>5. GoalOk'
    BY <1>0, <2>3 DEF GoalOk, IsManager
  <2>6. ASSUME NEW m \in Replies PROVE ReplyOk(m)'
    <3>1. DOMAIN m.diff.toCreate \cup DOMAIN m.diff.toUpdate \subseteq Key
      BY DEF NetTypeOK, IsDiff
    <3> QED
      BY <2>3, <3>1 DEF ReplyOk
  <2> QED
    BY <2>2, <2>3, <2>4, <2>5, <2>6
<1>2. ASSUME UNCHANGED serverVars,
             \A m \in Requests' : m \in Requests,
             \A m \in Replies' : /\ IsDiff(m.diff) /\ IsRecord(m.diff)
                                 /\ ReplyOk(m)
      PROVE  /\ ServerTypeOK' /\ NetTypeOK' /\ ServerOk' /\ GoalOk'
             /\ \A m \in Replies' : ReplyOk(m)'
  BY <1>0, <1>2, FrameOk
     DEF serverVars, ServerTypeOK, NetTypeOK, GoalOk, Covered, Issued
<1>3. CASE \E m \in BagToSet(net) : Lose(m) \/ DropTornRequest(m)
  <2>1. UNCHANGED serverVars /\ BagToSet(net') \subseteq BagToSet(net)
    BY <1>3, BagFacts DEF Lose, DropTornRequest, serverSide
  <2> QED
    BY <1>2, <2>1 DEF Requests, Replies, NetTypeOK
<1>4. ASSUME NEW m \in BagToSet(net), AnswerRequest(m)
      PROVE  /\ ServerTypeOK' /\ NetTypeOK' /\ ServerOk' /\ GoalOk'
             /\ \A n \in Replies' : ReplyOk(n)'
  <2>0. PICK d : d = GetDiffWith(GetSnapshot(server), m.snapshot)
    OBVIOUS
  <2>1. PICK r : r = SyncRequestSatisfy(m.client, d, m.snapshot.bitsetIDs)
    OBVIOUS
  <2>2. r.type = "SyncRequestSatisfy" /\ r.diff = d
    BY <2>1, MessageFacts
  <2>3. IsDiff(d) /\ IsRecord(d)
    <3>1. IsSnapshot(GetSnapshot(server))
      BY SnapshotType DEF ServerTypeOK
    <3>2. IsDiff(d)
      BY <2>0, <3>1, DiffType
    <3> QED
      BY <2>0, <3>2 DEF GetDiffWith, IsRecord
  <2>4. ReplyOk(r)
    BY <2>0, <2>1, FreshDiffOk
  <2>5. UNCHANGED serverVars /\ BagToSet(net') \subseteq BagToSet(net) \cup {r}
    BY <1>4, <2>0, <2>1, SentFacts, BagFacts DEF AnswerRequest, HandleSyncRequest
  <2> QED
    BY <1>2, <2>2, <2>3, <2>4, <2>5 DEF Requests, Replies, NetTypeOK
<1> QED
  BY <1>1, <1>3, <1>4 DEF Environment

-----------------------------------------------------------------------------
(* The invariant.                                                          *)

(* Nothing has been sent and nothing exists.                               *)
LEMMA InitThreads == ThreadsInit => ThreadsIInv
<1> SUFFICES ASSUME ThreadsInit PROVE ThreadsIInv
  OBVIOUS
<1>0. Self \in Clients
  BY ClientThreadsAssumption
<1>1. /\ server = EmptyManager /\ lastIDs = [t \in Types |-> 0]
      /\ client = [c \in Clients |-> EmptyManager] /\ client[Self] = EmptyManager
      /\ status = [c \in Clients |-> "running"]
      /\ net = EmptyBag
  BY <1>0 DEF ThreadsInit, Init
<1>2. /\ IsManager(EmptyManager) /\ DOMAIN EmptyManager = {}
      /\ EmptyManager = [k \in DOMAIN EmptyManager |-> EmptyManager[k]]
  BY DEF IsManager, EmptyManager
<1>3. IsDiff(NoDiff) /\ IsRecord(NoDiff)
  BY DEF NoDiff, IsDiff, IsRecord
<1>4. ServerTypeOK /\ ServerOk
  BY <1>1, <1>2, SyncDataAssumption DEF ServerTypeOK, ServerOk
<1>5. ReplicaTypeOK /\ GoalOk
  BY <1>1, <1>2 DEF ThreadsInit, ReplicaTypeOK, GoalOk
<1>6. RecvTypeOK
  BY <1>3 DEF ThreadsInit, RecvTypeOK
<1>7. SendTypeOK
  <2>1. ping = [pc |-> "idle", snapshot |-> [bitsetIDs |-> {}, items |-> [k \in {} |-> ToJsonAll(EmptyManager[k])]]]
    BY <1>2 DEF ThreadsInit, GetSnapshot
  <2>2. PingTypeOK
    BY <2>1 DEF PingTypeOK, IsTornSnapshot
  <2>3. BufferTypeOK
    BY DEF ThreadsInit, BufferTypeOK, Garbled
  <2> QED
    BY <2>2, <2>3 DEF ThreadsInit, SendTypeOK
<1>8. Requests = {} /\ Replies = {}
  BY <1>1 DEF Requests, Replies, EmptyBag, SetToBag, BagToSet
<1>9. Receiving
  BY <1>1, <1>2 DEF ThreadsInit, Receiving, Memory, Leads, Live
<1> QED
  BY <1>4, <1>5, <1>6, <1>7, <1>8, <1>9 DEF ThreadsIInv, ThreadTypes, NetTypeOK

(* Every step of every thread and of the environment keeps it.             *)
LEMMA NextThreads == ThreadsIInv /\ [ThreadsNext]_allVars => ThreadsIInv'
<1> SUFFICES ASSUME ThreadsIInv, [ThreadsNext]_allVars PROVE ThreadsIInv'
  OBVIOUS
<1>0. /\ ServerTypeOK /\ ReplicaTypeOK /\ RecvTypeOK /\ SendTypeOK /\ NetTypeOK
      /\ Receiving /\ Received /\ ServerOk /\ GoalOk
      /\ \A m \in Replies : ReplyOk(m)
  BY DEF ThreadsIInv, ThreadTypes, Received
<1>a. ASSUME UNCHANGED serverVars
      PROVE  /\ ServerTypeOK' /\ ServerOk'
             /\ \A m : ReplyOk(m) => ReplyOk(m)'
             /\ \A k : \A fields : Covered(k, fields) => Covered(k, fields)'
  BY <1>0, <1>a, FrameOk DEF serverVars, ServerTypeOK, Covered, Issued
<1>1. CASE ReceiveThread
  <2>1. /\ Alive /\ UNCHANGED <<serverVars, sendVars>>
        /\ BagToSet(net') \subseteq BagToSet(net)
    BY <1>1, ReceiverFrame
  <2>2. Received'
    BY <1>0, <1>1, ReceiverKeeps
  <2>3. SendTypeOK'
    BY <1>0, <2>1 DEF SendTypeOK, PingTypeOK, BufferTypeOK, sendVars
  <2>4. /\ NetTypeOK' /\ Replies' \subseteq Replies
    BY <1>0, <2>1 DEF NetTypeOK, Requests, Replies
  <2>5. GoalOk'
    <3>1. CASE \E m \in BagToSet(net) : StartDiff(m)
      <4>1. PICK m \in BagToSet(net) : StartDiff(m)
        BY <3>1
      <4>2. m \in Replies /\ IsDiff(m.diff) /\ ReplyOk(m)
        BY <1>0, <4>1 DEF StartDiff, NetTypeOK
      <4>3. goal' = ApplyDiff(goal, m.diff)
        BY <1>0, <2>1, <4>1 DEF StartDiff, RecvAt, Receiving, Leads
      <4>4. \A k \in DOMAIN goal' : Covered(k, goal'[k].fields)
        BY <1>0, <4>2, <4>3, AppliedDiffCovered DEF GoalOk, ReplicaTypeOK
      <4> QED
        BY <1>a, <2>1, <4>4 DEF GoalOk
    <3>2. CASE UNCHANGED goal
      BY <1>0, <1>a, <2>1, <3>2 DEF GoalOk
    <3> QED
      BY <1>1, <3>1, <3>2 DEF ReceiveThread, CreateBegins, CreateInserts, CreateMakes,
         WriteField, RemoveBegins, RemoveDestroys, RemoveErases, UpdateBegins, FinishDiff
  <2> QED
    BY <1>0, <1>a, <2>1, <2>2, <2>3, <2>4, <2>5 DEF ThreadsIInv, ThreadTypes, Received
<1>2. CASE Senders
  <2>1. Alive /\ UNCHANGED <<serverVars, memory, client, recv, goal>>
    BY <1>2, SenderFrame
  <2>2. /\ StatusTypeOK' /\ SendTypeOK' /\ NetTypeOK' /\ Replies' \subseteq Replies
    BY <1>0, <1>2, SendersKeep
  <2>3. ReplicaTypeOK'
    BY <1>0, <2>1, <2>2 DEF ReplicaTypeOK, StatusTypeOK, memory
  <2>4. RecvTypeOK' /\ GoalOk'
    BY <1>0, <1>a, <2>1 DEF RecvTypeOK, GoalOk
  <2>5. Receiving'
    BY <1>0, <2>1 DEF Receiving, Memory, Leads, Live, memory
  <2> QED
    BY <1>0, <1>a, <2>1, <2>2, <2>3, <2>4, <2>5 DEF ThreadsIInv, ThreadTypes
<1>3. CASE Environment
  <2>1. UNCHANGED <<memory, client, status, recv, goal, sendVars>>
    BY <1>3, EnvironmentFrame
  <2>2. /\ ServerTypeOK' /\ NetTypeOK' /\ ServerOk' /\ GoalOk'
        /\ \A m \in Replies' : ReplyOk(m)'
    BY <1>0, <1>3, EnvironmentKeeps DEF ReplicaTypeOK
  <2>3. ReplicaTypeOK' /\ RecvTypeOK' /\ SendTypeOK'
    BY <1>0, <2>1 DEF ReplicaTypeOK, RecvTypeOK, SendTypeOK, PingTypeOK, BufferTypeOK,
                      memory, sendVars
  <2>4. Receiving'
    BY <1>0, <2>1 DEF Receiving, Alive, Memory, Leads, Live, memory
  <2> QED
    BY <2>2, <2>3, <2>4 DEF ThreadsIInv, ThreadTypes
<1>4. CASE UNCHANGED allVars
  <2>1. UNCHANGED <<serverVars, net, memory, client, status, recv, goal, sendVars>>
    BY <1>4 DEF allVars, vars, clientVars
  <2>2. NetTypeOK' /\ Replies' = Replies
    BY <1>0, <2>1 DEF NetTypeOK, Requests, Replies
  <2>3. ReplicaTypeOK' /\ RecvTypeOK' /\ SendTypeOK'
    BY <1>0, <2>1 DEF ReplicaTypeOK, RecvTypeOK, SendTypeOK, PingTypeOK, BufferTypeOK,
                      memory, sendVars
  <2>4. Receiving' /\ GoalOk'
    BY <1>0, <1>a, <2>1 DEF Receiving, Alive, Memory, Leads, Live, memory, GoalOk
  <2> QED
    BY <1>0, <1>a, <2>1, <2>2, <2>3, <2>4 DEF ThreadsIInv, ThreadTypes
<1> QED
  BY <1>1, <1>2, <1>3, <1>4 DEF ThreadsNext, Senders

(* The inductive invariant holds in every reachable state.                 *)
THEOREM ThreadsInvariant == ThreadsSpec => []ThreadsIInv
BY InitThreads, NextThreads, PTL DEF ThreadsSpec

(* Keys, threads, buffer and datagrams always have the types the code      *)
(* gives them.                                                             *)
THEOREM ThreadsTypeCorrect == ThreadsSpec => []ThreadsTypeOK
<1>1. ThreadsIInv => ThreadsTypeOK
  <2>1. Self \in Clients
    BY ClientThreadsAssumption
  <2> QED
    BY <2>1 DEF ThreadsIInv, ThreadTypes, ThreadsTypeOK, ServerTypeOK, ReplicaTypeOK,
       RecvTypeOK, SendTypeOK, PingTypeOK, BufferTypeOK, NetTypeOK, IsTornSnapshot
<1> QED
  BY <1>1, ThreadsInvariant, PTL

(* The steps in which the receive thread applies a diff add up to          *)
(* ApplyDiff, whatever the other two threads and the server do between     *)
(* them; nothing is left half done.                                        *)
THEOREM DiffsAreAppliedWhole == ThreadsSpec => []DiffsAppliedWhole
<1>1. ThreadsIInv => DiffsAppliedWhole
  BY DEF ThreadsIInv, DiffsAppliedWhole, Idle, Receiving, Memory, Leads
<1> QED
  BY <1>1, ThreadsInvariant, PTL

(* No snapshot, however torn by the receive thread, makes the server send  *)
(* a diff after which the client differs from it where nothing is dirty.   *)
THEOREM TornSnapshotsCoverToo == ThreadsSpec => []CoveredBetweenDiffs
<1>1. ThreadsIInv => CoveredBetweenDiffs
  <2> SUFFICES ASSUME ThreadsIInv, Idle, NEW c \in Clients,
                      NEW k \in DOMAIN client[c] \cap DOMAIN server
               PROVE  DirtyWhereDifferent(client[c][k].fields, server[k])
    BY DEF CoveredBetweenDiffs, DirtyCoversDivergence
  <2>1. client[c] = goal
    BY ClientThreadsAssumption DEF ThreadsIInv, Idle, Receiving, Leads
  <2> QED
    BY <2>1 DEF ThreadsIInv, GoalOk, Covered
<1> QED
  BY <1>1, ThreadsInvariant, PTL

(* So one snapshot taken while the receive thread is idle, and one diff    *)
(* applied whole, always repair what torn snapshots have left behind.      *)
THEOREM TornSnapshotsAreRepaired == ThreadsSpec => [](Idle => RoundTripSynchronises)
<1>1. ThreadsIInv => (Idle => RoundTripSynchronises)
  <2> SUFFICES ASSUME ThreadsIInv, Idle PROVE RoundTripSynchronises
    OBVIOUS
  <2>1. DirtyCoversDivergence
    <3>1. \A c \in Clients : client[c] = goal
      BY ClientThreadsAssumption DEF ThreadsIInv, Idle, Receiving, Leads
    <3> QED
      BY <3>1 DEF ThreadsIInv, GoalOk, Covered, DirtyCoversDivergence
  <2>2. IsManager(server) /\ \A c \in Clients : IsManager(client[c])
    BY ClientThreadsAssumption
       DEF ThreadsIInv, ThreadTypes, ServerTypeOK, ReplicaTypeOK
  <2> QED
    BY <2>1, <2>2, RoundTripLemma DEF DirtyCoversDivergence, RoundTripSynchronises
<1> QED
  BY <1>1, ThreadsInvariant, PTL

=============================================================================
