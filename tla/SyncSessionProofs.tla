------------------------- MODULE SyncSessionProofs -------------------------
(***************************************************************************)
(* Theorems about SyncSession, for every value of its constants: any       *)
(* number of clients, objects, fields and values, either build, and any    *)
(* number of datagrams in flight, lost and duplicated, and of restarts.    *)
(***************************************************************************)
EXTENDS SyncSession, SyncDataProofs

-----------------------------------------------------------------------------
(* The network.                                                            *)

(* Adding a datagram to the bag, or taking one out, changes the set of     *)
(* datagrams in flight by that one at most.                                *)
LEMMA BagFacts ==
    ASSUME NEW B, NEW m
    PROVE  /\ BagToSet(BagAdd(B, m)) = BagToSet(B) \cup {m}
           /\ BagToSet(BagRemove(B, m)) \subseteq BagToSet(B)
BY DEF BagAdd, BagRemove, BagToSet

(* sendTo adds one datagram or none.                                       *)
LEMMA SentFacts ==
    ASSUME NEW B, NEW m
    PROVE  BagToSet(Sent(m, B)) \subseteq BagToSet(B) \cup {m}
BY BagFacts DEF Sent

(* A request is no reply, and each carries what it was made from.          *)
LEMMA MessageFacts ==
    ASSUME NEW c, NEW s, NEW d, NEW b
    PROVE  /\ SyncRequest(c, s).type = "SyncRequest"
           /\ SyncRequest(c, s).client = c
           /\ SyncRequest(c, s).snapshot = s
           /\ SyncRequestSatisfy(c, d, b).type = "SyncRequestSatisfy"
           /\ SyncRequestSatisfy(c, d, b).client = c
           /\ SyncRequestSatisfy(c, d, b).diff = d
           /\ SyncRequestSatisfy(c, d, b).basis = b
BY DEF SyncRequest, SyncRequestSatisfy

-----------------------------------------------------------------------------
(* Type correctness.                                                       *)

(* The initial state has the types of the declarations.                    *)
LEMMA InitType == Init => TypeOK
BY SyncDataAssumption, SyncSessionAssumption
   DEF Init, TypeOK, IsManager, EmptyManager, EmptyBag, SetToBag, BagToSet

(* What changes of the server's manager amount to, whatever the            *)
(* application that makes them.                                            *)
IsJson(json) ==
    /\ DOMAIN json \subseteq Fields
    /\ \A f \in DOMAIN json : json[f] \in Values

Creates(t, json) ==
    /\ IsJson(json)
    /\ lastIDs[t] < MaxIDs
    /\ lastIDs' = [lastIDs EXCEPT ![t] = @ + 1]
    /\ server' = Create(server, <<t, lastIDs[t]>>, json)

Edits(k, f, v) ==
    /\ server' = [server EXCEPT ![k] = Edit(@, f, v)]
    /\ UNCHANGED lastIDs

Removes(k) == server' = Remove(server, k) /\ UNCHANGED lastIDs

ServerChanges ==
    \/ \E t \in Types : \E json : Creates(t, json)
    \/ \E k \in DOMAIN server, f \in Fields, v \in Values : Edits(k, f, v)
    \/ \E k \in Key : Removes(k)

ServerTypeOK == IsManager(server) /\ lastIDs \in [Types -> 0 .. MaxIDs]

(* SyncSession's actions are such changes.                                 *)
LEMMA ActionsChange ==
    /\ \A t \in Types, json \in CreateJsons : ServerCreate(t, json) => Creates(t, json)
    /\ \A k \in Key, f \in Fields, v \in Values :
          ServerEdit(k, f, v) => k \in DOMAIN server /\ Edits(k, f, v)
    /\ \A k \in Key : ServerRemove(k) => Removes(k)
BY SyncSessionAssumption
   DEF ServerCreate, Creates, IsJson, ServerEdit, Edits, ServerRemove, Removes

(* A type whose IDs are not used up has a key for the next object.         *)
LEMMA NextKey ==
    ASSUME ServerTypeOK, NEW t \in Types, lastIDs[t] < MaxIDs
    PROVE  <<t, lastIDs[t]>> \in Key
<1>1. lastIDs[t] \in 0 .. MaxIDs /\ MaxIDs \in Nat
  BY SyncDataAssumption DEF ServerTypeOK
<1>2. lastIDs[t] \in 0 .. MaxIDs - 1
  BY <1>1
<1> QED
  BY <1>2 DEF Key, ID

(* They keep the server's types.                                           *)
LEMMA ServerChangesType == ServerTypeOK /\ ServerChanges => ServerTypeOK'
<1> SUFFICES ASSUME ServerTypeOK, ServerChanges PROVE ServerTypeOK'
  OBVIOUS
<1>1. ASSUME NEW t \in Types, NEW json, Creates(t, json)
      PROVE  ServerTypeOK'
  <2>1. IsManager(server')
    BY <1>1, NextKey, CreateType DEF Creates, IsJson, ServerTypeOK
  <2>2. lastIDs' \in [Types -> 0 .. MaxIDs]
    BY <1>1, SyncDataAssumption DEF Creates, ServerTypeOK
  <2> QED
    BY <2>1, <2>2 DEF ServerTypeOK
<1>2. ASSUME NEW k \in DOMAIN server, NEW f \in Fields, NEW v \in Values, Edits(k, f, v)
      PROVE  ServerTypeOK'
  <2>1. Edit(server[k], f, v) \in Object
    BY EditType DEF ServerTypeOK, IsManager
  <2> QED
    BY <1>2, <2>1 DEF Edits, ServerTypeOK, IsManager
<1>3. ASSUME NEW k \in Key, Removes(k)
      PROVE  ServerTypeOK'
  BY <1>3 DEF Removes, Remove, ServerTypeOK, IsManager
<1> QED
  BY <1>1, <1>2, <1>3 DEF ServerChanges

(* Every step keeps the types.                                             *)
LEMMA NextType == TypeOK /\ [Next]_vars => TypeOK'
<1> SUFFICES ASSUME TypeOK, [Next]_vars PROVE TypeOK'
  OBVIOUS
<1>1. ASSUME ServerChanges, Changes PROVE TypeOK'
  <2>1. ServerTypeOK'
    BY <1>1, ServerChangesType DEF ServerTypeOK, TypeOK
  <2>2. ops' \in 0 .. MaxOps
    BY <1>1, SyncSessionAssumption DEF Changes, TypeOK
  <2> QED
    BY <1>1, <2>1, <2>2 DEF Changes, clientVars, ServerTypeOK, TypeOK, IsMessage
<1>2. ASSUME \/ \E t \in Types, json \in CreateJsons : ServerCreate(t, json)
             \/ \E k \in Key, f \in Fields, v \in Values : ServerEdit(k, f, v)
             \/ \E k \in Key : ServerRemove(k)
      PROVE  TypeOK'
  <2>1. ServerChanges
    BY <1>2, ActionsChange DEF ServerChanges
  <2>2. Changes
    BY <1>2 DEF ServerCreate, ServerEdit, ServerRemove
  <2> QED
    BY <1>1, <2>1, <2>2
<1>4. ASSUME NEW c \in Clients, SendSyncRequest(c)
      PROVE  TypeOK'
  <2> DEFINE m == SyncRequest(c, Transmitted(GetSnapshot(client[c])))
  <2>1. IsMessage(m)
    <3>1. IsSnapshot(Transmitted(GetSnapshot(client[c])))
      BY SnapshotType DEF TypeOK
    <3> QED
      BY <3>1, MessageFacts DEF IsMessage
  <2>2. BagToSet(net') \subseteq BagToSet(net) \cup {m}
    BY <1>4, SentFacts DEF SendSyncRequest
  <2> HIDE DEF m
  <2> QED
    BY <1>4, <2>1, <2>2
       DEF SendSyncRequest, serverVars, clientVars, TypeOK, IsMessage
<1>5. ASSUME NEW m \in BagToSet(net), HandleSyncRequest(m)
      PROVE  TypeOK'
  <2> DEFINE diff == GetDiffWith(GetSnapshot(server), m.snapshot)
  <2> DEFINE r == SyncRequestSatisfy(m.client, diff, m.snapshot.bitsetIDs)
  <2>1. IsMessage(r)
    <3>1. /\ m.client \in Clients /\ IsSnapshot(m.snapshot)
          /\ m.snapshot.bitsetIDs \subseteq Key
      BY <1>5 DEF HandleSyncRequest, Requests, TypeOK, IsMessage, IsSnapshot
    <3>2. IsDiff(diff)
      BY <3>1, SnapshotType, DiffType DEF TypeOK
    <3> HIDE DEF diff
    <3> QED
      BY <3>1, <3>2, MessageFacts DEF IsMessage
  <2>2. BagToSet(net') \subseteq BagToSet(net) \cup {r}
    BY <1>5, SentFacts, BagFacts DEF HandleSyncRequest
  <2> HIDE DEF r
  <2> QED
    BY <1>5, <2>1, <2>2
       DEF HandleSyncRequest, serverVars, clientVars, TypeOK, IsMessage
<1>6. ASSUME NEW m \in BagToSet(net), HandleSyncRequestSatisfy(m)
      PROVE  TypeOK'
  <2>1. m.client \in Clients /\ IsDiff(m.diff)
    BY <1>6 DEF HandleSyncRequestSatisfy, Replies, TypeOK, IsMessage
  <2>2. IsManager(ApplyDiff(client[m.client], m.diff))
    BY <2>1, ApplyDiffType DEF TypeOK
  <2>3. /\ DOMAIN client' = Clients
        /\ \A c \in Clients : IsManager(client'[c])
    BY <1>6, <2>1, <2>2 DEF HandleSyncRequestSatisfy, TypeOK
  <2>4. status' \in [Clients -> {"running", "aborted", "segfault"}]
    BY <1>6 DEF HandleSyncRequestSatisfy, TypeOK
  <2>5. BagToSet(net') \subseteq BagToSet(net)
    BY <1>6, BagFacts DEF HandleSyncRequestSatisfy
  <2>6. UNCHANGED <<serverVars, build, ops, faults, restarts>>
    BY <1>6 DEF HandleSyncRequestSatisfy
  <2> QED
    BY <2>3, <2>4, <2>5, <2>6 DEF serverVars, TypeOK, IsMessage
<1>7. ASSUME NEW m \in BagToSet(net), Lose(m)
      PROVE  TypeOK'
  <2>1. faults' \in 0 .. MaxFaults
    BY <1>7, SyncSessionAssumption DEF Lose, TypeOK
  <2>2. BagToSet(net') \subseteq BagToSet(net)
    BY <1>7, BagFacts DEF Lose
  <2> QED
    BY <1>7, <2>1, <2>2 DEF Lose, serverVars, clientVars, TypeOK, IsMessage
<1>8. ASSUME NEW m \in BagToSet(net), Duplicate(m)
      PROVE  TypeOK'
  <2>1. faults' \in 0 .. MaxFaults
    BY <1>8, SyncSessionAssumption DEF Duplicate, TypeOK
  <2>2. BagToSet(net') \subseteq BagToSet(net)
    BY <1>8, BagFacts DEF Duplicate
  <2> QED
    BY <1>8, <2>1, <2>2 DEF Duplicate, serverVars, clientVars, TypeOK, IsMessage
<1>9. ASSUME NEW c \in Clients, Restart(c)
      PROVE  TypeOK'
  <2>1. IsManager(EmptyManager)
    BY DEF IsManager, EmptyManager
  <2>2. restarts' \in 0 .. MaxRestarts
    BY <1>9, SyncSessionAssumption DEF Restart, TypeOK
  <2> QED
    BY <1>9, <2>1, <2>2 DEF Restart, serverVars, TypeOK, IsMessage
<1>10. CASE UNCHANGED vars
  BY <1>10 DEF vars, serverVars, clientVars, TypeOK, IsMessage
<1> QED
  BY <1>2, <1>4, <1>5, <1>6, <1>7, <1>8, <1>9, <1>10 DEF Next

(* Managers, counters, process states and datagrams always have the types  *)
(* the code declares.                                                      *)
THEOREM TypeCorrect == Spec => []TypeOK
BY InitType, NextType, PTL DEF Spec

-----------------------------------------------------------------------------
(* IDs and dirty bits.                                                     *)

(* Values that are, or are to become, those of fields of an object: its    *)
(* ID is issued, and they differ from the server's only where that is      *)
(* marked dirty.                                                           *)
Covered(k, fields) ==
    /\ Issued(k)
    /\ k \in DOMAIN server => DirtyWhereDifferent(fields, server[k])

(* OnlyIssuedIDs, DirtyCoversDivergence and DirtyCoversInFlight for the    *)
(* server, for one client and for one reply in flight.                     *)
ServerOk == \A k \in DOMAIN server : Issued(k)

ClientOk(c) == \A k \in DOMAIN client[c] : Covered(k, client[c][k].fields)

ReplyOk(m) ==
    /\ \A k \in DOMAIN m.diff.toCreate : Covered(k, m.diff.toCreate[k].fields)
    /\ \A k \in DOMAIN m.diff.toUpdate : Covered(k, m.diff.toUpdate[k])

(* The invariant, sorted by who holds the data.                            *)
LEMMA IInvByHolder ==
    IInv <=> /\ TypeOK
             /\ ServerOk
             /\ \A c \in Clients : ClientOk(c)
             /\ \A m \in Replies : ReplyOk(m)
<1>1. OnlyIssuedIDs /\ DirtyCoversDivergence /\ DirtyCoversInFlight
         <=> /\ ServerOk
             /\ \A c \in Clients : ClientOk(c)
             /\ \A m \in Replies : ReplyOk(m)
  BY DEF OnlyIssuedIDs, DirtyCoversDivergence, DirtyCoversInFlight,
         ServerOk, ClientOk, ReplyOk, Covered
<1> QED
  BY <1>1 DEF IInv

(* A field written through its proxy differs only where it is now dirty;   *)
(* the others are as they were.                                            *)
LEMMA EditCovers ==
    ASSUME NEW o \in Object, NEW f, NEW v, NEW json,
           DirtyWhereDifferent(json, o)
    PROVE  DirtyWhereDifferent(json, Edit(o, f, v))
BY DEF DirtyWhereDifferent, Edit, Object

(* Whatever the server does, what was covered stays covered: a new object  *)
(* has an ID nobody knows, an edit sets a dirty bit and clears none, and   *)
(* the ID of a removed object stays issued.                                *)
LEMMA ServerChangesCover ==
    ASSUME ServerTypeOK, ServerOk, ServerChanges
    PROVE  /\ ServerOk'
           /\ \A k \in Key : \A fields : Covered(k, fields) => Covered(k, fields)'
<1>1. ASSUME NEW t \in Types, NEW json, Creates(t, json)
      PROVE  ServerOk' /\ \A k \in Key : \A fields : Covered(k, fields) => Covered(k, fields)'
  <2>0. PICK new : new = <<t, lastIDs[t]>>
    OBVIOUS
  <2>1. /\ DOMAIN server' = DOMAIN server \cup {new}
        /\ \A k \in DOMAIN server : k # new => server'[k] = server[k]
    BY <1>1, <2>0 DEF Creates, Create
  <2>2. new \in Key /\ ~Issued(new) /\ Issued(new)'
    <3>1. lastIDs[t] \in Int /\ lastIDs'[t] = lastIDs[t] + 1
      BY <1>1 DEF Creates, ServerTypeOK
    <3>2. new \in Key
      BY <1>1, <2>0, NextKey DEF Creates
    <3>3. new[1] = t /\ new[2] = lastIDs[t]
      BY <2>0
    <3> QED
      BY <3>1, <3>2, <3>3 DEF Issued
  <2>3. \A k \in Key : Issued(k) => k # new /\ Issued(k)'
    <3> TAKE k \in Key
    <3>1. k[1] \in Types /\ k[2] \in Int
      BY DEF Key, ID
    <3>2. lastIDs'[k[1]] >= lastIDs[k[1]] /\ lastIDs[k[1]] \in Int /\ lastIDs'[k[1]] \in Int
      BY <1>1, <3>1 DEF Creates, ServerTypeOK
    <3> QED
      BY <2>2, <3>1, <3>2 DEF Issued
  <2> QED
    BY <2>1, <2>2, <2>3 DEF ServerOk, ServerTypeOK, IsManager, Covered
<1>2. ASSUME NEW k \in DOMAIN server, NEW f \in Fields, NEW v \in Values, Edits(k, f, v)
      PROVE  ServerOk' /\ \A j \in Key : \A fields : Covered(j, fields) => Covered(j, fields)'
  <2>1. /\ DOMAIN server' = DOMAIN server
        /\ \A j \in DOMAIN server :
              server'[j] = IF j = k THEN Edit(server[k], f, v) ELSE server[j]
        /\ UNCHANGED lastIDs
    BY <1>2 DEF Edits
  <2>2. ASSUME NEW j \in DOMAIN server, NEW fields, DirtyWhereDifferent(fields, server[j])
        PROVE  DirtyWhereDifferent(fields, server'[j])
    <3>1. server[j] \in Object
      BY DEF ServerTypeOK, IsManager
    <3> QED
      BY <2>1, <2>2, <3>1, EditCovers
  <2> QED
    BY <2>1, <2>2 DEF ServerOk, Covered, Issued
<1>3. ASSUME NEW k \in Key, Removes(k)
      PROVE  ServerOk' /\ \A j \in Key : \A fields : Covered(j, fields) => Covered(j, fields)'
  BY <1>3 DEF Removes, Remove, ServerOk, Covered, Issued
<1> QED
  BY <1>1, <1>2, <1>3 DEF ServerChanges

(* While server and IDs stand still, clients and replies stay as right as  *)
(* they were.                                                              *)
LEMMA FrameOk ==
    ASSUME UNCHANGED serverVars
    PROVE  /\ ServerOk => ServerOk'
           /\ \A c \in Clients : client'[c] = client[c] /\ ClientOk(c) => ClientOk(c)'
           /\ \A m : ReplyOk(m) => ReplyOk(m)'
BY DEF serverVars, ServerOk, ClientOk, ReplyOk, Covered, Issued

(* The initial state satisfies the invariant: nothing exists.              *)
LEMMA InitIInv == Init => IInv
BY InitType DEF Init, IInv, OnlyIssuedIDs, DirtyCoversDivergence,
    DirtyCoversInFlight, Replies, EmptyManager, EmptyBag, SetToBag, BagToSet

(* A diff the server computes now names its own objects and holds its own  *)
(* values.                                                                 *)
LEMMA FreshDiff ==
    ASSUME NEW snapshot, NEW d, d = GetDiffWith(GetSnapshot(server), snapshot)
    PROVE  /\ DOMAIN d.toCreate \subseteq DOMAIN server
           /\ \A k \in DOMAIN d.toCreate : d.toCreate[k].fields = server[k].fields
           /\ DOMAIN d.toUpdate \subseteq DOMAIN server
           /\ \A k \in DOMAIN d.toUpdate : \A f \in DOMAIN d.toUpdate[k] :
                 d.toUpdate[k][f] = server[k].fields[f]
<1> DEFINE x == GetSnapshot(server)
<1>1. /\ x.bitsetIDs = DOMAIN server
      /\ \A k \in DOMAIN server : x.items[k].fields = server[k].fields
  BY DEF GetSnapshot, ToJsonAll
<1> HIDE DEF x
<1>2. /\ DOMAIN d.toCreate \subseteq DOMAIN server
      /\ \A k \in DOMAIN d.toCreate : d.toCreate[k].fields = server[k].fields
  <2>1. d.toCreate = [k \in (x.bitsetIDs \ snapshot.bitsetIDs) \cap Representable
                         |-> x.items[k]]
    BY DEF GetDiffWith, x
  <2> QED
    BY <1>1, <2>1
<1>3. /\ DOMAIN d.toUpdate \subseteq x.bitsetIDs
      /\ \A k \in DOMAIN d.toUpdate :
            d.toUpdate[k] = GetJsonDiff(x.items[k], snapshot.items[k])
  BY DEF GetDiffWith, x
<1>4. ASSUME NEW k \in DOMAIN d.toUpdate, NEW f \in DOMAIN d.toUpdate[k]
      PROVE  d.toUpdate[k][f] = server[k].fields[f]
  <2>1. d.toUpdate[k][f] = x.items[k].fields[f]
    <3>1. d.toUpdate[k] = GetJsonDiff(x.items[k], snapshot.items[k])
      BY <1>3
    <3> QED
      BY <3>1 DEF GetJsonDiff
  <2>2. x.items[k].fields = server[k].fields
    BY <1>1, <1>3
  <2> QED
    BY <2>1, <2>2
<1> QED
  BY <1>1, <1>2, <1>3, <1>4

(* So its IDs are issued and its values covered.                           *)
LEMMA FreshDiffOk ==
    ASSUME ServerOk, NEW snapshot, NEW c, NEW b
    PROVE  ReplyOk(SyncRequestSatisfy(c,
                       GetDiffWith(GetSnapshot(server), snapshot), b))
<1>1. PICK d : d = GetDiffWith(GetSnapshot(server), snapshot)
  OBVIOUS
<1>2. ReplyOk(SyncRequestSatisfy(c, d, b))
  BY <1>1, FreshDiff, MessageFacts DEF ServerOk, ReplyOk, Covered, DirtyWhereDifferent
<1> QED
  BY <1>1, <1>2

(* Applying a covered diff to a covered manager gives one that is.         *)
LEMMA AppliedDiffCovered ==
    ASSUME NEW M, IsManager(M), \A k \in DOMAIN M : Covered(k, M[k].fields),
           NEW m, IsDiff(m.diff), ReplyOk(m)
    PROVE  \A k \in DOMAIN ApplyDiff(M, m.diff) :
               Covered(k, ApplyDiff(M, m.diff)[k].fields)
<1> SUFFICES ASSUME NEW k \in DOMAIN ApplyDiff(M, m.diff)
             PROVE  Covered(k, ApplyDiff(M, m.diff)[k].fields)
  OBVIOUS
<1>1. k \in DOMAIN M \cup DOMAIN m.diff.toCreate
  BY ApplyDiffDomain
<1>2. Issued(k)
  BY <1>1 DEF ReplyOk, Covered
<1>3. ASSUME k \in DOMAIN server
      PROVE  DirtyWhereDifferent(ApplyDiff(M, m.diff)[k].fields, server[k])
  BY <1>3, ApplyDiffCovered DEF ReplyOk, Covered
<1> QED
  BY <1>2, <1>3 DEF Covered

(* Applying a reply keeps the client right.                                *)
LEMMA AppliedDiffOk ==
    ASSUME IInv, NEW m \in Replies,
           client' = [client EXCEPT ![m.client] = ApplyDiff(@, m.diff)],
           UNCHANGED serverVars
    PROVE  \A c \in Clients : ClientOk(c)'
<1> DEFINE A == ApplyDiff(client[m.client], m.diff)
<1>1. /\ ReplyOk(m) /\ ClientOk(m.client)
      /\ IsDiff(m.diff) /\ IsManager(client[m.client])
      /\ m.client \in Clients /\ DOMAIN client = Clients
  BY IInvByHolder DEF TypeOK, IsMessage, Replies
<1>2. \A k \in DOMAIN A : Covered(k, A[k].fields)
  BY <1>1, AppliedDiffCovered DEF ClientOk
<1> HIDE DEF A
<1>3. ASSUME NEW c \in Clients, c = m.client PROVE ClientOk(c)'
  <2>1. client'[c] = A
    BY <1>1, <1>3 DEF A
  <2> QED
    BY <1>2, <2>1 DEF ClientOk, Covered, serverVars, Issued
<1>4. ASSUME NEW c \in Clients, c # m.client PROVE ClientOk(c)'
  <2>1. client'[c] = client[c] /\ ClientOk(c)
    BY <1>1, <1>4, IInvByHolder
  <2> QED
    BY <2>1, FrameOk
<1> QED
  BY <1>3, <1>4

(* Whatever the server does, clients and replies stay right.               *)
LEMMA ServerChangesIInv ==
    ASSUME IInv, TypeOK', ServerChanges, UNCHANGED <<client, net>>
    PROVE  IInv'
<1>0. TypeOK /\ ServerTypeOK
  BY DEF IInv, TypeOK, ServerTypeOK
<1>1. /\ ServerOk
      /\ \A c \in Clients : ClientOk(c)
      /\ \A m \in Replies : ReplyOk(m)
  BY IInvByHolder
<1>2. /\ ServerOk'
      /\ \A k \in Key : \A fields : Covered(k, fields) => Covered(k, fields)'
  BY <1>0, <1>1, ServerChangesCover
<1>3. ASSUME NEW c \in Clients PROVE ClientOk(c)'
  BY <1>0, <1>1, <1>2 DEF ClientOk, TypeOK, IsManager
<1>4. ASSUME NEW m \in Replies' PROVE ReplyOk(m)'
  <2>1. m \in Replies /\ ReplyOk(m)
    BY <1>1 DEF Replies
  <2>2. DOMAIN m.diff.toCreate \cup DOMAIN m.diff.toUpdate \subseteq Key
    BY <1>0, <2>1 DEF Replies, TypeOK, IsMessage, IsDiff
  <2> QED
    BY <1>2, <2>1, <2>2 DEF ReplyOk
<1> QED
  BY <1>2, <1>3, <1>4 DEF IInv, OnlyIssuedIDs, DirtyCoversDivergence, DirtyCoversInFlight,
     ServerOk, ClientOk, ReplyOk, Covered

(* Every step keeps the invariant.                                         *)
LEMMA NextIInv == IInv /\ [Next]_vars => IInv'
<1> SUFFICES ASSUME IInv, [Next]_vars PROVE IInv'
  OBVIOUS
<1>0. TypeOK /\ TypeOK' /\ ServerTypeOK
  BY NextType DEF IInv, TypeOK, ServerTypeOK
<1>1. CASE \/ \E t \in Types, json \in CreateJsons : ServerCreate(t, json)
           \/ \E k \in Key, f \in Fields, v \in Values : ServerEdit(k, f, v)
           \/ \E k \in Key : ServerRemove(k)
  <2>1. ServerChanges
    BY <1>1, ActionsChange DEF ServerChanges
  <2>2. UNCHANGED <<client, net>>
    BY <1>1 DEF ServerCreate, ServerEdit, ServerRemove, Changes, clientVars
  <2> QED
    BY <1>0, <2>1, <2>2, ServerChangesIInv
<1> DEFINE Kept == /\ ServerOk'
                   /\ \A c \in Clients : ClientOk(c)'
                   /\ \A m \in Replies' : ReplyOk(m)'
<1>2. ASSUME Kept PROVE IInv'
  BY <1>0, <1>2 DEF IInv, OnlyIssuedIDs, DirtyCoversDivergence, DirtyCoversInFlight,
                    ServerOk, ClientOk, ReplyOk, Covered
<1>a. /\ ServerOk
      /\ \A c \in Clients : ClientOk(c)
      /\ \A m \in Replies : ReplyOk(m)
  BY IInvByHolder
<1>4. ASSUME NEW c \in Clients, SendSyncRequest(c)
      PROVE  Kept
  <2> DEFINE r == SyncRequest(c, Transmitted(GetSnapshot(client[c])))
  <2>1. /\ UNCHANGED <<serverVars, client>>
        /\ BagToSet(net') \subseteq BagToSet(net) \cup {r}
    BY <1>4, SentFacts DEF SendSyncRequest, clientVars
  <2>2. r.type = "SyncRequest"
    BY MessageFacts
  <2> HIDE DEF r
  <2>3. Replies' \subseteq Replies
    BY <2>1, <2>2 DEF Replies
  <2> QED
    BY <1>a, <2>1, <2>3, FrameOk
<1>5. ASSUME NEW m \in BagToSet(net), HandleSyncRequest(m)
      PROVE  Kept
  <2> DEFINE r == SyncRequestSatisfy(m.client,
                      GetDiffWith(GetSnapshot(server), m.snapshot), m.snapshot.bitsetIDs)
  <2>1. /\ UNCHANGED <<serverVars, client>>
        /\ BagToSet(net') \subseteq BagToSet(net) \cup {r}
    BY <1>5, SentFacts, BagFacts DEF HandleSyncRequest, clientVars
  <2>2. ReplyOk(r)
    BY <1>a, FreshDiffOk
  <2> HIDE DEF r
  <2>3. Replies' \subseteq Replies \cup {r}
    BY <2>1 DEF Replies
  <2> QED
    BY <1>a, <2>1, <2>2, <2>3, FrameOk
<1>6. ASSUME NEW m \in BagToSet(net), HandleSyncRequestSatisfy(m)
      PROVE  Kept
  <2>1. /\ UNCHANGED serverVars
        /\ BagToSet(net') \subseteq BagToSet(net)
        /\ m \in Replies
    BY <1>6, BagFacts DEF HandleSyncRequestSatisfy
  <2>2. \A c \in Clients : ClientOk(c)'
    <3>1. CASE UNCHANGED client
      BY <1>a, <2>1, <3>1, FrameOk
    <3>2. CASE client' = [client EXCEPT ![m.client] = ApplyDiff(@, m.diff)]
      BY <2>1, <3>2, AppliedDiffOk
    <3> QED
      BY <1>6, <3>1, <3>2 DEF HandleSyncRequestSatisfy
  <2>3. Replies' \subseteq Replies
    BY <2>1 DEF Replies
  <2> QED
    BY <1>a, <2>1, <2>2, <2>3, FrameOk
<1>7. ASSUME NEW m \in BagToSet(net), Lose(m) \/ Duplicate(m)
      PROVE  Kept
  <2>1. UNCHANGED <<serverVars, client>> /\ BagToSet(net') \subseteq BagToSet(net)
    BY <1>7, BagFacts DEF Lose, Duplicate, clientVars
  <2>2. Replies' \subseteq Replies
    BY <2>1 DEF Replies
  <2> QED
    BY <1>a, <2>1, <2>2, FrameOk
<1>8. ASSUME NEW c \in Clients, Restart(c)
      PROVE  Kept
  <2>1. UNCHANGED <<serverVars, net>>
    BY <1>8 DEF Restart
  <2>2. ASSUME NEW d \in Clients PROVE ClientOk(d)'
    <3>1. CASE d # c
      <4>1. client'[d] = client[d]
        BY <1>0, <1>8, <3>1 DEF Restart, TypeOK
      <4> QED
        BY <1>a, <2>1, <4>1, FrameOk
    <3>2. CASE d = c
      <4>1. DOMAIN client'[d] = {}
        BY <1>0, <1>8, <3>2 DEF Restart, TypeOK, EmptyManager
      <4> QED
        BY <4>1 DEF ClientOk
    <3> QED
      BY <3>1, <3>2
  <2>3. Replies' = Replies
    BY <2>1 DEF Replies
  <2> QED
    BY <1>a, <2>1, <2>2, <2>3, FrameOk
<1>9. CASE UNCHANGED vars
  <2>1. UNCHANGED <<serverVars, client, net>>
    BY <1>9 DEF vars, clientVars
  <2>2. Replies' = Replies
    BY <2>1 DEF Replies
  <2> QED
    BY <1>2, <1>a, <2>1, <2>2, FrameOk
<1> QED
  BY <1>1, <1>2, <1>4, <1>5, <1>6, <1>7, <1>8, <1>9 DEF Next

(* The inductive invariant holds in every reachable state.                 *)
THEOREM Invariant == Spec => []IInv
BY InitIInv, NextIInv, PTL DEF Spec

(* Whatever the network does, a client never differs from the server in a  *)
(* field the server has not marked dirty, so getDiffWith overlooks no      *)
(* difference.                                                             *)
THEOREM DirtyCoverage == Spec => []DirtyCoversDivergence
<1>1. IInv => DirtyCoversDivergence
  BY DEF IInv
<1> QED
  BY <1>1, Invariant, PTL

(* The same of the diffs in flight, however old.                           *)
THEOREM DirtyCoverageInFlight == Spec => []DirtyCoversInFlight
<1>1. IInv => DirtyCoversInFlight
  BY DEF IInv
<1> QED
  BY <1>1, Invariant, PTL

(* No client, and no diff on its way to one, knows an ID that the server   *)
(* has not handed out.                                                     *)
THEOREM OnlyIssued == Spec => []OnlyIssuedIDs
<1>1. IInv => OnlyIssuedIDs
  BY DEF IInv
<1> QED
  BY <1>1, Invariant, PTL

(* The diff computed from a client's snapshot can always be applied to     *)
(* that client and makes it equal to the server, as far as IDs have bits.  *)
THEOREM RoundTrip == Spec => []RoundTripSynchronises
<1>1. IInv => RoundTripSynchronises
  BY RoundTripLemma DEF IInv, TypeOK, DirtyCoversDivergence, RoundTripSynchronises
<1> QED
  BY <1>1, Invariant, PTL

(* The ID of a removed object never names an object of the server again.   *)
THEOREM IDsAreForever == Spec => IDsNotRecycled
<1> DEFINE A == \A k \in Key : Issued(k) /\ k \notin DOMAIN server
                                   => k \notin DOMAIN server'
<1>1. TypeOK /\ [Next]_vars => [A]_vars
  <2> SUFFICES ASSUME TypeOK, Next, NEW k \in Key, Issued(k), k \notin DOMAIN server
               PROVE  k \notin DOMAIN server'
    OBVIOUS
  <2>1. ASSUME NEW t \in Types, NEW json \in CreateJsons, ServerCreate(t, json)
        PROVE  k \notin DOMAIN server'
    <3>1. lastIDs[t] \in Int
      BY DEF TypeOK
    <3>2. k # <<t, lastIDs[t]>>
      BY <3>1 DEF Issued
    <3> QED
      BY <2>1, <3>2 DEF ServerCreate, Create
  <2>2. ASSUME NEW j \in Key, NEW f \in Fields, NEW v \in Values, ServerEdit(j, f, v)
        PROVE  k \notin DOMAIN server'
    BY <2>2 DEF ServerEdit
  <2>3. ASSUME NEW j \in Key, ServerRemove(j)
        PROVE  k \notin DOMAIN server'
    BY <2>3 DEF ServerRemove, Remove
  <2>4. CASE UNCHANGED serverVars
    BY <2>4 DEF serverVars
  <2> QED
    BY <2>1, <2>2, <2>3, <2>4 DEF Next, SendSyncRequest, HandleSyncRequest,
       HandleSyncRequestSatisfy, Lose, Duplicate, Restart
<1> QED
  BY <1>1, TypeCorrect, PTL DEF Spec, IDsNotRecycled

-----------------------------------------------------------------------------
(* Updates find their objects.                                             *)

(* What a step is shown to keep.                                           *)
PresenceKept == PresenceIsMonotone' /\ NoSegfault'

(* Changes at the server that remove nothing keep presence.                *)
LEMMA GrowthKeepsPresence ==
    ASSUME PresenceIsMonotone, NoSegfault,
           DOMAIN server \subseteq DOMAIN server', UNCHANGED <<clientVars, net>>
    PROVE  PresenceKept
BY DEF PresenceKept, clientVars, PresenceIsMonotone, NoSegfault, Requests, Replies

(* The steps of the exchanges, whatever the network does to them.          *)
Exchange ==
    \/ \E c \in Clients : SendSyncRequest(c)
    \/ \E m \in BagToSet(net) : HandleSyncRequest(m)
    \/ \E m \in BagToSet(net) : HandleSyncRequestSatisfy(m)
    \/ \E m \in BagToSet(net) : Lose(m)
    \/ \E m \in BagToSet(net) : Duplicate(m)

(* So does every step of an exchange.                                      *)
LEMMA ExchangeKeepsPresence ==
    ASSUME TypeOK, PresenceIsMonotone, NoSegfault, Exchange
    PROVE  PresenceKept
<1>1. ASSUME NEW c \in Clients, SendSyncRequest(c)
      PROVE  PresenceKept
  <2> DEFINE s == Transmitted(GetSnapshot(client[c]))
  <2>0. s.bitsetIDs \subseteq DOMAIN client[c]
    BY Zenon DEF Transmitted, GetSnapshot
  <2>1. PICK r : r = SyncRequest(c, s)
    OBVIOUS
  <2>2. r.type = "SyncRequest" /\ r.client = c /\ r.snapshot = s
    BY <2>1, MessageFacts
  <2>3. BagToSet(net') \subseteq BagToSet(net) \cup {r}
    BY <1>1, <2>1, SentFacts DEF SendSyncRequest
  <2>4. UNCHANGED <<server, client, status>>
    BY <1>1 DEF SendSyncRequest, serverVars, clientVars
  <2> HIDE DEF s
  <2>5. Replies' \subseteq Replies /\ Requests' \subseteq Requests \cup {r}
    BY <2>2, <2>3 DEF Replies, Requests
  <2> QED
    BY <2>0, <2>2, <2>4, <2>5 DEF PresenceKept, PresenceIsMonotone, NoSegfault
<1>2. ASSUME NEW m \in BagToSet(net), HandleSyncRequest(m)
      PROVE  PresenceKept
  <2> DEFINE x == GetSnapshot(server)
  <2>0. PICK d : d = GetDiffWith(x, m.snapshot)
    OBVIOUS
  <2>1. PICK r : r = SyncRequestSatisfy(m.client, d, m.snapshot.bitsetIDs)
    OBVIOUS
  <2>2. r.type = "SyncRequestSatisfy" /\ r.client = m.client /\ r.diff = d
    BY <2>1, MessageFacts
  <2>3. BagToSet(net') \subseteq BagToSet(net) \cup {r}
    BY <1>2, <2>0, <2>1, SentFacts, BagFacts DEF HandleSyncRequest
  <2>4. UNCHANGED <<server, client, status>>
    BY <1>2 DEF HandleSyncRequest, serverVars, clientVars
  <2>5. x.bitsetIDs = DOMAIN server
    BY DEF GetSnapshot
  <2>6. /\ m.client \in Clients
        /\ m.snapshot.bitsetIDs \subseteq DOMAIN client[m.client]
        /\ DOMAIN client[m.client] \subseteq DOMAIN server
    BY <1>2 DEF HandleSyncRequest, PresenceIsMonotone, TypeOK, IsMessage
  <2> HIDE DEF x
  <2>7. /\ DOMAIN d.toCreate \subseteq x.bitsetIDs
        /\ d.toRemove \subseteq m.snapshot.bitsetIDs \ x.bitsetIDs
        /\ DOMAIN d.toUpdate \subseteq m.snapshot.bitsetIDs
    BY <2>0 DEF GetDiffWith
  <2>8. /\ DOMAIN d.toCreate \subseteq DOMAIN server
        /\ d.toRemove = {}
        /\ DOMAIN d.toUpdate \subseteq DOMAIN client[m.client]
    BY <2>5, <2>6, <2>7
  <2>9. Requests' \subseteq Requests /\ Replies' \subseteq Replies \cup {r}
    BY <2>2, <2>3 DEF Replies, Requests
  <2> QED
    BY <2>2, <2>4, <2>8, <2>9 DEF PresenceKept, PresenceIsMonotone, NoSegfault
<1>3. ASSUME NEW m \in BagToSet(net), HandleSyncRequestSatisfy(m)
      PROVE  PresenceKept
  <2> DEFINE c == m.client
  <2> DEFINE A == ApplyDiff(client[c], m.diff)
  <2>1. /\ m \in Replies /\ c \in Clients
        /\ DOMAIN m.diff.toCreate \subseteq DOMAIN server
        /\ m.diff.toRemove = {}
        /\ DOMAIN m.diff.toUpdate \subseteq DOMAIN client[c]
        /\ DOMAIN client[c] \subseteq DOMAIN server
    BY <1>3 DEF HandleSyncRequestSatisfy, PresenceIsMonotone, TypeOK, IsMessage
  <2>2. ~UpdateFindsNoObject(client[c], m.diff)
    BY <2>1 DEF UpdateFindsNoObject, AfterCreatesAndRemoves
  <2>3. NoSegfault'
    BY <1>3, <2>2 DEF HandleSyncRequestSatisfy, NoSegfault, TypeOK
  <2>4. /\ DOMAIN client[c] \subseteq DOMAIN A
        /\ DOMAIN A \subseteq DOMAIN server
    <3>1. DOMAIN A = (DOMAIN client[c] \cup DOMAIN m.diff.toCreate) \ m.diff.toRemove
      BY ApplyDiffDomain
    <3> HIDE DEF A, c
    <3> QED
      BY <2>1, <3>1
  <2>5. UNCHANGED server /\ BagToSet(net') \subseteq BagToSet(net)
    BY <1>3, BagFacts DEF HandleSyncRequestSatisfy, serverVars
  <2>6. UNCHANGED client \/ client' = [client EXCEPT ![c] = A]
    BY <1>3 DEF HandleSyncRequestSatisfy
  <2> HIDE DEF A, c
  <2>7. ASSUME NEW b \in Clients
        PROVE  /\ DOMAIN client[b] \subseteq DOMAIN client'[b]
               /\ DOMAIN client'[b] \subseteq DOMAIN server
    BY <2>1, <2>4, <2>6 DEF PresenceIsMonotone, TypeOK
  <2>8. Requests' \subseteq Requests /\ Replies' \subseteq Replies
    BY <2>5 DEF Requests, Replies
  <2>9. \A n \in Requests \cup Replies : n.client \in Clients
    BY DEF Requests, Replies, TypeOK, IsMessage
  <2>10. /\ \A n \in Requests' :
               n.snapshot.bitsetIDs \subseteq DOMAIN client'[n.client]
         /\ \A n \in Replies' :
               /\ DOMAIN n.diff.toCreate \subseteq DOMAIN server
               /\ n.diff.toRemove = {}
               /\ DOMAIN n.diff.toUpdate \subseteq DOMAIN client'[n.client]
    <3>1. ASSUME NEW n \in Requests'
          PROVE  n.snapshot.bitsetIDs \subseteq DOMAIN client'[n.client]
      BY <2>7, <2>8, <2>9 DEF PresenceIsMonotone
    <3>2. ASSUME NEW n \in Replies'
          PROVE  /\ DOMAIN n.diff.toCreate \subseteq DOMAIN server
                 /\ n.diff.toRemove = {}
                 /\ DOMAIN n.diff.toUpdate \subseteq DOMAIN client'[n.client]
      BY <2>7, <2>8, <2>9 DEF PresenceIsMonotone
    <3> QED
      BY <3>1, <3>2
  <2> QED
    BY <2>3, <2>5, <2>7, <2>10 DEF PresenceKept, PresenceIsMonotone
<1>4. ASSUME NEW m \in BagToSet(net), Lose(m) \/ Duplicate(m)
      PROVE  PresenceKept
  <2>1. /\ UNCHANGED <<server, client, status>>
        /\ BagToSet(net') \subseteq BagToSet(net)
    BY <1>4, BagFacts DEF Lose, Duplicate, serverVars, clientVars
  <2> QED
    BY <2>1 DEF PresenceKept, PresenceIsMonotone, NoSegfault, Requests, Replies
<1> QED
  BY <1>1, <1>2, <1>3, <1>4 DEF Exchange

(* While the application removes nothing and no client restarts, every     *)
(* step keeps what clients know, and so no update misses its object.       *)
LEMMA NextPresence ==
    ASSUME ~Removals, MaxRestarts = 0
    PROVE  TypeOK /\ PresenceIsMonotone /\ NoSegfault /\ [Next]_vars
              => PresenceIsMonotone' /\ NoSegfault'
<1> SUFFICES ASSUME TypeOK, PresenceIsMonotone, NoSegfault, [Next]_vars
             PROVE  PresenceKept
  BY DEF PresenceKept
<1>1. ASSUME NEW t \in Types, NEW json \in CreateJsons, ServerCreate(t, json)
      PROVE  PresenceKept
  BY <1>1, GrowthKeepsPresence DEF ServerCreate, Create, Changes
<1>2. ASSUME NEW k \in Key, NEW f \in Fields, NEW v \in Values, ServerEdit(k, f, v)
      PROVE  PresenceKept
  BY <1>2, GrowthKeepsPresence DEF ServerEdit, Changes
<1>3. CASE Exchange
  BY <1>3, ExchangeKeepsPresence
<1>4. ASSUME NEW k \in Key, ServerRemove(k)
      PROVE  FALSE
  BY <1>4 DEF ServerRemove
<1>5. ASSUME NEW c \in Clients, Restart(c)
      PROVE  FALSE
  BY <1>5 DEF Restart, TypeOK
<1>6. CASE UNCHANGED vars
  BY <1>6, GrowthKeepsPresence DEF vars, serverVars
<1> QED
  BY <1>1, <1>2, <1>3, <1>4, <1>5, <1>6 DEF Next, Exchange

(* An application that removes nothing (the chat never does) and clients   *)
(* that do not restart: what a client has, and what travels to or from it, *)
(* never names an object the receiver lacks.                               *)
THEOREM Presence ==
    ASSUME ~Removals, MaxRestarts = 0
    PROVE  Spec => [](PresenceIsMonotone /\ NoSegfault)
<1>1. Init => PresenceIsMonotone /\ NoSegfault
  BY DEF Init, PresenceIsMonotone, NoSegfault, Requests, Replies,
         EmptyManager, EmptyBag, SetToBag, BagToSet
<1> QED
  BY <1>1, NextPresence, TypeCorrect, PTL DEF Spec

(* Under the same conditions no diff, however late or often it arrives,    *)
(* makes a client update an object it does not have.                       *)
THEOREM UpdatesFindTheirObjects ==
    ASSUME ~Removals, MaxRestarts = 0
    PROVE  Spec => []NoSegfault
<1>1. Spec => [](PresenceIsMonotone /\ NoSegfault)
  BY Presence
<1> QED
  BY <1>1, PTL

-----------------------------------------------------------------------------
(* What a reply can do to its client.                                      *)

(* The replies in flight after a step were in flight before, or hold the   *)
(* diff the server, unchanged, has just computed.                          *)
LEMMA StepOfReplies ==
    ASSUME Next, NEW m \in Replies'
    PROVE  \/ m \in Replies
           \/ /\ UNCHANGED server
              /\ \E s : /\ m.diff = GetDiffWith(GetSnapshot(server), s)
                        /\ m.basis = s.bitsetIDs
<1>1. ASSUME NEW c \in Clients, SendSyncRequest(c)
      PROVE  m \in Replies
  <2>1. PICK r : r = SyncRequest(c, Transmitted(GetSnapshot(client[c])))
    OBVIOUS
  <2>2. r.type = "SyncRequest"
    BY <2>1, MessageFacts
  <2>3. BagToSet(net') \subseteq BagToSet(net) \cup {r}
    BY <1>1, <2>1, SentFacts DEF SendSyncRequest
  <2> QED
    BY <2>2, <2>3 DEF Replies
<1>2. ASSUME NEW n \in BagToSet(net), HandleSyncRequest(n), m \notin Replies
      PROVE  /\ UNCHANGED server
             /\ \E s : /\ m.diff = GetDiffWith(GetSnapshot(server), s)
                       /\ m.basis = s.bitsetIDs
  <2>1. PICK d : d = GetDiffWith(GetSnapshot(server), n.snapshot)
    OBVIOUS
  <2>2. PICK r : r = SyncRequestSatisfy(n.client, d, n.snapshot.bitsetIDs)
    OBVIOUS
  <2>3. r.diff = d /\ r.basis = n.snapshot.bitsetIDs
    BY <2>2, MessageFacts
  <2>4. BagToSet(net') \subseteq BagToSet(net) \cup {r}
    BY <1>2, <2>1, <2>2, SentFacts, BagFacts DEF HandleSyncRequest
  <2>5. m = r
    BY <1>2, <2>4 DEF Replies
  <2> QED
    BY <1>2, <2>1, <2>3, <2>5 DEF HandleSyncRequest, serverVars
<1>3. ASSUME BagToSet(net') \subseteq BagToSet(net)
      PROVE  m \in Replies
  BY <1>3 DEF Replies
<1>4. ASSUME NEW n, HandleSyncRequestSatisfy(n) \/ Lose(n) \/ Duplicate(n)
      PROVE  m \in Replies
  BY <1>3, <1>4, BagFacts DEF HandleSyncRequestSatisfy, Lose, Duplicate
<1>5. ASSUME UNCHANGED net
      PROVE  m \in Replies
  BY <1>3, <1>5
<1> QED
  BY <1>1, <1>2, <1>4, <1>5 DEF Next, ServerCreate, ServerEdit, ServerRemove,
     Changes, Restart

(* A diff creates nothing the snapshot it answers had, and removes and     *)
(* updates only what that had.                                             *)
Fits(d, basis) ==
    /\ DOMAIN d.toCreate \subseteq Representable \ basis
    /\ d.toRemove \subseteq basis
    /\ DOMAIN d.toUpdate \subseteq basis \ d.toRemove

RepliesFit == \A m \in Replies : Fits(m.diff, m.basis)

(* So does every diff the server computes.                                 *)
LEMMA DiffFits ==
    ASSUME NEW x, NEW y
    PROVE  Fits(GetDiffWith(x, y), y.bitsetIDs)
<1>1. PICK d : d = GetDiffWith(x, y)
  OBVIOUS
<1>2. /\ DOMAIN d.toCreate = (x.bitsetIDs \ y.bitsetIDs) \cap Representable
      /\ d.toRemove = (y.bitsetIDs \ x.bitsetIDs) \cap Representable
      /\ DOMAIN d.toUpdate \subseteq x.bitsetIDs \cap y.bitsetIDs
  BY <1>1 DEF GetDiffWith
<1> QED
  BY <1>1, <1>2 DEF Fits

(* A client that has the objects of that snapshot can apply the diff.      *)
LEMMA FittingApplies ==
    ASSUME NEW M, NEW d, Fits(d, DOMAIN M \cap Representable)
    PROVE  ~AssertionFails(M, d) /\ ~UpdateFindsNoObject(M, d)
<1>1. DOMAIN AfterCreatesAndRemoves(M, d) = (DOMAIN M \cup DOMAIN d.toCreate) \ d.toRemove
  BY DEF AfterCreatesAndRemoves
<1> QED
  BY <1>1 DEF Fits, AssertionFails, UpdateFindsNoObject

(* Replies fit, and so a client that dies does it over a reply to a        *)
(* snapshot that is not its own any more, in every behaviour: two requests *)
(* answered before either answer arrives, a reply overtaken by a later     *)
(* one, or one meant for a former process are all there is to it.          *)
THEOREM StaleRepliesKill == Spec => OnlyStaleRepliesKill
<1>1. Init => RepliesFit
  BY DEF Init, RepliesFit, Replies, EmptyBag, SetToBag, BagToSet
<1>2. RepliesFit /\ [Next]_vars => RepliesFit'
  <2>1. CASE UNCHANGED vars
    BY <2>1 DEF vars, RepliesFit, Replies
  <2>2. ASSUME RepliesFit, Next, NEW m \in Replies'
        PROVE  Fits(m.diff, m.basis)
    BY <2>2, StepOfReplies, DiffFits DEF RepliesFit
  <2> QED
    BY <2>1, <2>2 DEF RepliesFit
<1> DEFINE A ==
        \A c \in Clients : status[c] = "running" /\ status'[c] # "running" =>
            \E m \in Replies :
                /\ m.client = c
                /\ net' = BagRemove(net, m)
                /\ m.basis # DOMAIN client[c] \cap Representable
<1>3. TypeOK /\ RepliesFit /\ [Next]_vars => [A]_vars
  <2> SUFFICES ASSUME TypeOK, RepliesFit, Next, NEW c \in Clients,
                      status[c] = "running", status'[c] # "running"
               PROVE  \E m \in Replies :
                          /\ m.client = c
                          /\ net' = BagRemove(net, m)
                          /\ m.basis # DOMAIN client[c] \cap Representable
    OBVIOUS
  <2>1. PICK m \in BagToSet(net) : HandleSyncRequestSatisfy(m)
    <3>1. ASSUME NEW d \in Clients, Restart(d)
          PROVE  FALSE
      BY <3>1 DEF Restart, TypeOK
    <3>2. CASE UNCHANGED clientVars
      BY <3>2 DEF clientVars
    <3> QED
      BY <3>1, <3>2 DEF Next, ServerCreate, ServerEdit, ServerRemove, Changes,
         SendSyncRequest, HandleSyncRequest, Lose, Duplicate
  <2>2. /\ m \in Replies /\ net' = BagRemove(net, m)
        /\ Fits(m.diff, m.basis)
    BY <2>1 DEF HandleSyncRequestSatisfy, RepliesFit
  <2>3. /\ m.client = c
        /\ \/ AssertionFails(client[c], m.diff)
           \/ UpdateFindsNoObject(client[c], m.diff)
    BY <2>1 DEF HandleSyncRequestSatisfy, TypeOK
  <2>4. m.basis # DOMAIN client[c] \cap Representable
    BY <2>2, <2>3, FittingApplies
  <2> QED
    BY <2>2, <2>3, <2>4
<1> QED
  BY <1>1, <1>2, <1>3, TypeCorrect, PTL DEF Spec, OnlyStaleRepliesKill

=============================================================================
