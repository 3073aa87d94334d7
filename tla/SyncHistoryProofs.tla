------------------------- MODULE SyncHistoryProofs -------------------------
(***************************************************************************)
(* SyncSession implements Replication, for every value of the constants.   *)
(***************************************************************************)
EXTENDS SyncHistory, SyncSessionProofs

-----------------------------------------------------------------------------
(* The invariant: everything there is has been at the server.              *)

(* Every value of the JSON object has been in its field of the object k.   *)
HasBeen(k, json) ==
    /\ k \in DOMAIN past
    /\ \A f \in DOMAIN json : f \in Fields => json[f] \in past[k][f]

ManagerHasBeen(M) == \A k \in DOMAIN M : HasBeen(k, M[k].fields)

DiffHasBeen(d) ==
    /\ \A k \in DOMAIN d.toCreate : HasBeen(k, d.toCreate[k].fields)
    /\ \A k \in DOMAIN d.toUpdate : HasBeen(k, d.toUpdate[k])

PastType == past = [k \in DOMAIN past |-> [f \in Fields |-> past[k][f]]]

HInv ==
    /\ PastType
    /\ ManagerHasBeen(server)
    /\ \A c \in Clients : ManagerHasBeen(client[c])
    /\ \A m \in Replies : DiffHasBeen(m.diff)

-----------------------------------------------------------------------------
(* What a step of SyncSession does to clients and replies.                 *)

(* A step changes the server or the clients, not both; and of the clients  *)
(* one, which applies a reply or starts again.                             *)
LEMMA StepOfClients ==
    ASSUME TypeOK, Next
    PROVE  \/ UNCHANGED client
           \/ /\ UNCHANGED server
              /\ \E c \in Clients : \E M :
                    /\ client' = [client EXCEPT ![c] = M]
                    /\ \/ M = EmptyManager
                       \/ \E m \in Replies : M = ApplyDiff(client[c], m.diff)
<1>1. ASSUME NEW m \in BagToSet(net), HandleSyncRequestSatisfy(m), ~UNCHANGED client
      PROVE  /\ UNCHANGED server
             /\ \E c \in Clients : \E M :
                    /\ client' = [client EXCEPT ![c] = M]
                    /\ \E n \in Replies : M = ApplyDiff(client[c], n.diff)
  <2>1. /\ m \in Replies /\ m.client \in Clients
        /\ UNCHANGED server
        /\ client' = [client EXCEPT ![m.client] = ApplyDiff(client[m.client], m.diff)]
    BY <1>1 DEF HandleSyncRequestSatisfy, serverVars, Replies, TypeOK, IsMessage
  <2> QED
    BY <2>1
<1>2. ASSUME NEW c \in Clients, Restart(c)
      PROVE  UNCHANGED server /\ client' = [client EXCEPT ![c] = EmptyManager]
  BY <1>2 DEF Restart, serverVars
<1> QED
  BY <1>1, <1>2 DEF Next, ServerCreate, ServerEdit, ServerRemove, Changes,
     SendSyncRequest, HandleSyncRequest, Lose, Duplicate, clientVars

-----------------------------------------------------------------------------
(* The past.                                                               *)

(* What has been stays so.                                                 *)
LEMMA PastGrows ==
    ASSUME past' = Recorded(past, server'), NEW k, NEW json, HasBeen(k, json)
    PROVE  HasBeen(k, json)'
<1>1. k \in DOMAIN past' /\ \A f \in Fields : past[k][f] \subseteq past'[k][f]
  BY DEF Recorded, HasBeen
<1> QED
  BY <1>1 DEF HasBeen

(* What the server has now has been.                                       *)
LEMMA PastHasServer ==
    ASSUME past' = Recorded(past, server')
    PROVE  ManagerHasBeen(server)'
<1>1. ASSUME NEW k \in DOMAIN server'
      PROVE  HasBeen(k, server[k].fields)'
  <2>1. /\ k \in DOMAIN past'
        /\ \A f \in Fields : server'[k].fields[f] \in past'[k][f]
    BY DEF Recorded
  <2> QED
    BY <2>1 DEF HasBeen
<1> QED
  BY <1>1 DEF ManagerHasBeen

(* While the server stands still the past does.                            *)
LEMMA PastStands ==
    ASSUME HInv, TypeOK, UNCHANGED server, past' = Recorded(past, server')
    PROVE  UNCHANGED past
<1>1. \A k \in DOMAIN server : k \in DOMAIN past
  BY DEF HInv, ManagerHasBeen, HasBeen
<1>2. ASSUME NEW k \in DOMAIN server, NEW f \in Fields
      PROVE  server[k].fields[f] \in past[k][f]
  <2>1. DOMAIN server[k].fields = Fields
    BY DEF TypeOK, IsManager, Object
  <2> QED
    BY <2>1 DEF HInv, ManagerHasBeen, HasBeen
<1> DEFINE Now(k, f) == (IF k \in DOMAIN past THEN past[k][f] ELSE {})
                        \cup (IF k \in DOMAIN server THEN {server[k].fields[f]} ELSE {})
<1>3. \A k \in DOMAIN past : \A f \in Fields : Now(k, f) = past[k][f]
  BY <1>2
<1>4. past' = [k \in DOMAIN past |-> [f \in Fields |-> Now(k, f)]]
  BY <1>1 DEF Recorded
<1> HIDE DEF Now
<1>5. past' = [k \in DOMAIN past |-> [f \in Fields |-> past[k][f]]]
  BY <1>3, <1>4
<1> QED
  BY <1>5 DEF HInv, PastType

(* Applying a diff whose values have been to a manager whose values have   *)
(* been gives such a manager.                                              *)
LEMMA AppliedHasBeen ==
    ASSUME NEW M, IsManager(M), ManagerHasBeen(M),
           NEW d, IsDiff(d), DiffHasBeen(d)
    PROVE  ManagerHasBeen(ApplyDiff(M, d))
<1> DEFINE N == AfterCreatesAndRemoves(M, d)
<1>1. ASSUME NEW k \in DOMAIN N
      PROVE  HasBeen(k, N[k].fields)
  <2>1. CASE k \in DOMAIN d.toCreate
    <3>1. N[k] = SetFromJson(NewObject, d.toCreate[k].fields)
      BY <2>1 DEF AfterCreatesAndRemoves
    <3>2. d.toCreate[k].fields \in [Fields -> Values]
      BY <2>1 DEF IsDiff, Item
    <3>3. N[k].fields = d.toCreate[k].fields
      BY <3>1, <3>2, CreatedFields
    <3> QED
      BY <2>1, <3>3 DEF DiffHasBeen
  <2>2. CASE k \notin DOMAIN d.toCreate
    <3>1. k \in DOMAIN M /\ N[k] = M[k]
      BY <2>2 DEF AfterCreatesAndRemoves
    <3> QED
      BY <3>1 DEF ManagerHasBeen
  <2> QED
    BY <2>1, <2>2
<1>2. DOMAIN ApplyDiff(M, d) = DOMAIN N
  BY DEF ApplyDiff
<1>3. ASSUME NEW k \in DOMAIN N
      PROVE  HasBeen(k, ApplyDiff(M, d)[k].fields)
  <2>1. CASE k \notin DOMAIN d.toUpdate
    <3>1. ApplyDiff(M, d)[k] = N[k]
      BY <2>1 DEF ApplyDiff
    <3> QED
      BY <1>1, <3>1
  <2>2. CASE k \in DOMAIN d.toUpdate
    <3>1. ApplyDiff(M, d)[k] = SetFromJson(N[k], d.toUpdate[k])
      BY <2>2 DEF ApplyDiff
    <3>2. HasBeen(k, d.toUpdate[k])
      BY <2>2 DEF DiffHasBeen
    <3>4. DOMAIN N[k].fields = Fields
      <4>1. CASE k \in DOMAIN d.toCreate
        <5>1. N[k] = SetFromJson(NewObject, d.toCreate[k].fields)
          BY <4>1 DEF AfterCreatesAndRemoves
        <5> QED
          BY <5>1 DEF SetFromJson
      <4>2. CASE k \notin DOMAIN d.toCreate
        <5>1. k \in DOMAIN M /\ N[k] = M[k]
          BY <4>2 DEF AfterCreatesAndRemoves
        <5> QED
          BY <5>1 DEF IsManager, Object
      <4> QED
        BY <4>1, <4>2
    <3> HIDE DEF N
    <3> QED
      BY <1>1, <3>1, <3>2, <3>4 DEF HasBeen, SetFromJson
  <2> QED
    BY <2>1, <2>2
<1> QED
  BY <1>2, <1>3 DEF ManagerHasBeen

-----------------------------------------------------------------------------
(* The invariant is inductive.                                             *)

(* At first there is no object, no datagram and no past.                   *)
LEMMA HInitInv == HInit => HInv
BY DEF HInit, Init, HInv, PastType, ManagerHasBeen, Replies, EmptyManager,
       EmptyBag, SetToBag, BagToSet

(* A recorded step is a step, and leaves the record.                       *)
LEMMA HNextRecords == HNext => Next /\ past' = Recorded(past, server')
BY DEF HNext, Next, Records

(* Each step takes what it writes from where the past already covers it.   *)
LEMMA HNextInv == HInv /\ TypeOK /\ TypeOK' /\ [HNext]_hvars => HInv'
<1> SUFFICES ASSUME HInv, TypeOK, TypeOK', [HNext]_hvars PROVE HInv'
  OBVIOUS
<1>1. CASE UNCHANGED hvars
  BY <1>1 DEF hvars, vars, serverVars, clientVars, HInv, PastType, ManagerHasBeen,
     DiffHasBeen, HasBeen, Replies
<1>2. CASE HNext
  <2>0. Next /\ past' = Recorded(past, server')
    BY <1>2, HNextRecords
  <2>1. PastType'
    <3>1. past' = [k \in DOMAIN past \cup DOMAIN server' |-> [f \in Fields |->
                      (IF k \in DOMAIN past THEN past[k][f] ELSE {})
                      \cup (IF k \in DOMAIN server' THEN {server'[k].fields[f]} ELSE {})]]
      BY <2>0 DEF Recorded
    <3> QED
      BY <3>1 DEF PastType
  <2>2. ManagerHasBeen(server)'
    BY <2>0, PastHasServer
  <2>3. ASSUME NEW M, ManagerHasBeen(M) PROVE \A k \in DOMAIN M : HasBeen(k, M[k].fields)'
    BY <2>0, <2>3, PastGrows DEF ManagerHasBeen
  <2>4. ASSUME NEW c \in Clients PROVE ManagerHasBeen(client[c])'
    <3>1. PICK M : M = client'[c]
      OBVIOUS
    <3>2. ManagerHasBeen(M)
      <4>1. CASE M = client[c]
        BY <4>1 DEF HInv
      <4>2. CASE M # client[c]
        <5>1. M = EmptyManager \/ \E m \in Replies : M = ApplyDiff(client[c], m.diff)
          BY <2>0, <3>1, <4>2, StepOfClients DEF TypeOK
        <5>2. ManagerHasBeen(EmptyManager)
          BY DEF ManagerHasBeen, EmptyManager
        <5>3. ASSUME NEW m \in Replies PROVE ManagerHasBeen(ApplyDiff(client[c], m.diff))
          <6>1. IsDiff(m.diff) /\ IsManager(client[c])
            BY DEF Replies, TypeOK, IsMessage
          <6> QED
            BY <6>1, AppliedHasBeen DEF HInv
        <5> QED
          BY <5>1, <5>2, <5>3
      <4> QED
        BY <4>1, <4>2
    <3> QED
      BY <2>3, <3>1, <3>2 DEF ManagerHasBeen
  <2>5. ASSUME NEW m \in Replies' PROVE DiffHasBeen(m.diff)'
    <3>1. PICK d : d = m.diff
      OBVIOUS
    <3>2. DiffHasBeen(d)
      <4>1. CASE m \in Replies
        BY <3>1, <4>1 DEF HInv
      <4>2. CASE m \notin Replies
        <5>1. PICK s : d = GetDiffWith(GetSnapshot(server), s)
          BY <2>0, <3>1, <4>2, StepOfReplies
        <5>2. \A k \in DOMAIN server :
                 HasBeen(k, server[k].fields) /\ DOMAIN server[k].fields = Fields
          BY DEF HInv, ManagerHasBeen, TypeOK, IsManager, Object
        <5> QED
          BY <5>1, <5>2, FreshDiff DEF DiffHasBeen, HasBeen
      <4> QED
        BY <4>1, <4>2
    <3> QED
      BY <2>0, <3>1, <3>2, PastGrows DEF DiffHasBeen
  <2> QED
    BY <2>1, <2>2, <2>4, <2>5 DEF HInv
<1> QED
  BY <1>1, <1>2

(* Types and history hold in every reachable state.                        *)
THEOREM HistoryInvariant == HSpec => [](TypeOK /\ HInv)
<1>1. HInit => TypeOK /\ HInv
  BY InitType, HInitInv DEF HInit
<1>2. TypeOK /\ HInv /\ [HNext]_hvars => (TypeOK /\ HInv)'
  <2>1. [HNext]_hvars => [Next]_vars
    BY HNextRecords DEF hvars
  <2> QED
    BY <2>1, NextType, HNextInv
<1> QED
  BY <1>1, <1>2, PTL DEF HSpec

-----------------------------------------------------------------------------
(* The refinement.                                                         *)

(* What a manager shows could have been put together from the past.        *)
LEMMA ShownHasBeen ==
    ASSUME NEW M, IsManager(M), ManagerHasBeen(M)
    PROVE  R!IsOf(FieldsOf(M), past)
<1>1. /\ DOMAIN FieldsOf(M) = DOMAIN M
      /\ \A k \in DOMAIN M : FieldsOf(M)[k] = M[k].fields
  BY DEF FieldsOf
<1>2. \A k \in DOMAIN M : DOMAIN M[k].fields = Fields
  BY DEF IsManager, Object
<1> QED
  BY <1>1, <1>2 DEF R!IsOf, ManagerHasBeen, HasBeen

(* Every step is a step of Replication or changes nothing of it.           *)
LEMMA StepsMap ==
    ASSUME TypeOK, TypeOK', HInv, HInv', [HNext]_hvars
    PROVE  [R!RNext]_<<FieldsOf(server), past, [c \in Clients |-> FieldsOf(client[c])]>>
<1>1. CASE UNCHANGED hvars
  BY <1>1 DEF hvars, vars, serverVars, clientVars
<1>2. CASE HNext /\ UNCHANGED client
  <2>1. FieldsOf(server') \in R!Contents
    <3>1. /\ DOMAIN FieldsOf(server') \subseteq Key
          /\ FieldsOf(server') \in [DOMAIN server' -> [Fields -> Values]]
      BY DEF TypeOK, IsManager, Object, FieldsOf
    <3>2. DOMAIN server' \in SUBSET Key
      BY DEF TypeOK, IsManager
    <3> QED
      BY <3>1, <3>2 DEF R!Contents
  <2>2. past' = [k \in DOMAIN past \cup DOMAIN FieldsOf(server') |-> [f \in Fields |->
                    (IF k \in DOMAIN past THEN past[k][f] ELSE {})
                    \cup (IF k \in DOMAIN FieldsOf(server')
                          THEN {FieldsOf(server')[k][f]} ELSE {})]]
    BY <1>2, HNextRecords DEF Recorded, FieldsOf
  <2>3. R!OriginalChanges
    BY <1>2, <2>1, <2>2 DEF R!OriginalChanges
  <2> QED
    BY <2>3 DEF R!RNext
<1>3. CASE HNext /\ ~UNCHANGED client
  <2>1. UNCHANGED server
    BY <1>3, HNextRecords, StepOfClients
  <2>2. UNCHANGED past
    BY <1>3, <2>1, HNextRecords, PastStands
  <2>3. PICK c \in Clients : \E M : client' = [client EXCEPT ![c] = M]
    BY <1>3, HNextRecords, StepOfClients
  <2>4. R!IsOf(FieldsOf(client'[c]), past)
    <3>1. IsManager(client'[c])
      BY DEF TypeOK
    <3>2. ManagerHasBeen(client'[c])
      <4>1. \A k \in DOMAIN client'[c] : HasBeen(k, client[c][k].fields)'
        BY DEF HInv, ManagerHasBeen
      <4> QED
        BY <2>2, <4>1 DEF ManagerHasBeen, HasBeen
    <3> QED
      BY <3>1, <3>2, ShownHasBeen
  <2>5. [d \in Clients |-> FieldsOf(client'[d])]
            = [[d \in Clients |-> FieldsOf(client[d])]
                  EXCEPT ![c] = FieldsOf(client'[c])]
    BY <2>3 DEF TypeOK
  <2>6. R!ReplicaChanges(c)
    BY <2>1, <2>2, <2>4, <2>5 DEF R!ReplicaChanges
  <2> QED
    BY <2>6 DEF R!RNext
<1> QED
  BY <1>1, <1>2, <1>3

(* The replicas of SyncSession hold nothing but values that the server has *)
(* had in the same field of the same object.                               *)
THEOREM ReplicationImplemented == HSpec => ShowsThePast
<1>1. HInit => R!RInit
  BY DEF HInit, Init, R!RInit, R!Nothing, FieldsOf, EmptyManager
<1>2. TypeOK /\ TypeOK' /\ HInv /\ HInv' /\ [HNext]_hvars
         => [R!RNext]_<<FieldsOf(server), past, [c \in Clients |-> FieldsOf(client[c])]>>
  BY StepsMap
<1> QED
  BY <1>1, <1>2, HistoryInvariant, PTL DEF HSpec, ShowsThePast, R!RSpec
=============================================================================
