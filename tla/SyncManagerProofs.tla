------------------------- MODULE SyncManagerProofs -------------------------
(***************************************************************************)
(* Theorems about SyncManager, for any number of types, IDs, addresses,    *)
(* fields and values, with the assertions on or off, on the server's side  *)
(* and the client's.                                                       *)
(***************************************************************************)
EXTENDS SyncManager, SyncDataProofs

-----------------------------------------------------------------------------
(* The three private functions, each in the terms of the invariant.        *)

(* The part of the invariant the private functions work on.                *)
HeapOk ==
    /\ bitsetIDs \subseteq Key
    /\ DOMAIN handleMaps \subseteq Key
    /\ \A k \in DOMAIN handleMaps : handleMaps[k] \in Addr \cup {Null}
    /\ DOMAIN lfManagers \subseteq Addr
    /\ \A a \in DOMAIN lfManagers : lfManagers[a] \in Object
    /\ status \in {"running", "aborted", "segfault"}
    /\ HandlesMatchBits

(* createImpl keeps the heap in order: the new object gets an address no   *)
(* handle points to.                                                       *)
LEMMA CreateHeapOk ==
    ASSUME HeapOk, NEW k \in Key, NEW json \in Jsons, createImpl(k, json)
    PROVE  HeapOk'
<1>1. CASE AssertionStops(~isPresent(k))
  BY <1>1 DEF AssertionStops, heap, Dies, HeapOk, HandlesMatchBits
<1>2. CASE ~AssertionStops(~isPresent(k))
  <2>1. PICK a \in Addr \ DOMAIN lfManagers :
          /\ handleMaps' = MapSet(k, a)
          /\ lfManagers' = [b \in DOMAIN lfManagers \cup {a} |->
                               IF b = a THEN SetFromJson(NewObject, json)
                                        ELSE lfManagers[b]]
    BY <1>2 DEF createImpl
  <2>2. bitsetIDs' = bitsetIDs \cup {k} /\ UNCHANGED status
    BY <1>2 DEF createImpl
  <2>3. SetFromJson(NewObject, json) \in Object
    BY SyncManagerAssumption, NewObjectType, SetFromJsonType
  <2>4. /\ DOMAIN handleMaps' = DOMAIN handleMaps \cup {k}
        /\ \A j \in DOMAIN handleMaps' :
              handleMaps'[j] = IF j = k THEN a ELSE handleMaps[j]
    BY <2>1 DEF MapSet
  <2>5. /\ DOMAIN lfManagers' = DOMAIN lfManagers \cup {a}
        /\ \A b \in DOMAIN lfManagers' : lfManagers'[b] \in Object
    BY <2>1, <2>3 DEF HeapOk
  <2> QED
    BY <2>1, <2>2, <2>4, <2>5 DEF HeapOk, HandlesMatchBits
<1> QED
  BY <1>1, <1>2

(* removeImpl keeps the heap in order: no other handle points to the       *)
(* object it destroys.                                                     *)
LEMMA RemoveHeapOk ==
    ASSUME HeapOk, NEW k \in Key, removeImpl(k)
    PROVE  HeapOk'
<1>1. CASE AssertionStops(isPresent(k))
  BY <1>1 DEF AssertionStops, heap, Dies, HeapOk, HandlesMatchBits
<1>2. CASE ~AssertionStops(isPresent(k))
  <2>1. /\ bitsetIDs' = bitsetIDs \ {k}
        /\ DOMAIN lfManagers' = DOMAIN lfManagers \ {HandleOf(k)}
        /\ \A a \in DOMAIN lfManagers' : lfManagers'[a] = lfManagers[a]
        /\ DOMAIN handleMaps' = DOMAIN handleMaps \ {k}
        /\ \A j \in DOMAIN handleMaps' : handleMaps'[j] = handleMaps[j]
        /\ UNCHANGED status
    BY <1>2 DEF removeImpl
  <2>2. \A j \in bitsetIDs : j # k => handleMaps[j] # HandleOf(k)
    BY SyncManagerAssumption DEF HeapOk, HandlesMatchBits, HandleOf
  <2> QED
    BY <2>1, <2>2 DEF HeapOk, HandlesMatchBits
<1> QED
  BY <1>1, <1>2

(* Looking up an ID that has no entry gives it a null one.                 *)
LEMMA LookupHeapOk ==
    ASSUME HeapOk, NEW k \in Key,
           handleMaps' = MapSet(k, HandleOf(k)),
           UNCHANGED <<bitsetIDs, lfManagers>>,
           status' \in {"running", "aborted", "segfault"}
    PROVE  HeapOk'
<1>1. /\ DOMAIN handleMaps' = DOMAIN handleMaps \cup {k}
      /\ \A j \in DOMAIN handleMaps : handleMaps'[j] = handleMaps[j]
      /\ k \notin DOMAIN handleMaps => handleMaps'[k] = Null
  BY DEF MapSet, HandleOf
<1> QED
  BY <1>1 DEF HeapOk, HandlesMatchBits

(* A null dereference leaves the heap in order: the entry it adds is null. *)
LEMMA NullDereferenceHeapOk ==
    ASSUME HeapOk, NEW k \in Key, NullDereference(k)
    PROVE  HeapOk'
<1>1. handleMaps' = MapSet(k, HandleOf(k))
  BY DEF NullDereference
<1> QED
  BY <1>1, LookupHeapOk DEF NullDereference, Dies

(* A handle that is not null belongs to a live object and points to it.    *)
LEMMA NotNullIsPresent ==
    ASSUME HeapOk, NEW k \in Key, HandleOf(k) # Null
    PROVE  k \in bitsetIDs /\ HandleOf(k) = handleMaps[k] /\ lfManagers[HandleOf(k)] \in Object
BY DEF HeapOk, HandlesMatchBits, HandleOf

(* Writing an object through such a handle leaves the heap in order.       *)
LEMMA ThroughHandleHeapOk ==
    ASSUME HeapOk, NEW k \in Key, NEW object \in Object, ThroughHandle(k, object)
    PROVE  HeapOk'
BY NotNullIsPresent DEF ThroughHandle, HeapOk, HandlesMatchBits

(* updateImpl keeps the heap in order.                                     *)
LEMMA UpdateHeapOk ==
    ASSUME HeapOk, NEW k \in Key, NEW json \in Jsons, updateImpl(k, json)
    PROVE  HeapOk'
<1>1. CASE AssertionStops(isPresent(k))
  BY <1>1 DEF AssertionStops, heap, Dies, HeapOk, HandlesMatchBits
<1>2. CASE NullDereference(k)
  BY <1>2, NullDereferenceHeapOk
<1>3. CASE ThroughHandle(k, SetFromJson(lfManagers[HandleOf(k)], json))
  <2>1. lfManagers[HandleOf(k)] \in Object
    BY <1>3, NotNullIsPresent DEF ThroughHandle
  <2>2. SetFromJson(lfManagers[HandleOf(k)], json) \in Object
    BY <2>1, SyncManagerAssumption, SetFromJsonType
  <2> QED
    BY <1>3, <2>2, ThroughHandleHeapOk
<1> QED
  BY <1>1, <1>2, <1>3 DEF updateImpl

-----------------------------------------------------------------------------
(* The invariant.                                                          *)

(* Initially there is nothing.                                             *)
LEMMA InitIInv == Init => IInv
BY SyncDataAssumption DEF Init, IInv, TypeOK, HandlesMatchBits, ServerIDsIssued

(* A type whose IDs are not used up has a key for the next object.         *)
LEMMA NextKey ==
    ASSUME TypeOK, NEW t \in Types, lastIDs[t] < MaxIDs
    PROVE  <<t, lastIDs[t]>> \in Key
<1>1. lastIDs[t] \in 0 .. MaxIDs /\ MaxIDs \in Nat
  BY SyncDataAssumption DEF TypeOK
<1>2. lastIDs[t] \in 0 .. MaxIDs - 1
  BY <1>1
<1> QED
  BY <1>2 DEF Key, ID

(* Every step keeps the invariant.                                         *)
LEMMA NextIInv == IInv /\ [Next]_vars => IInv'
<1> SUFFICES ASSUME IInv, [Next]_vars PROVE IInv'
  OBVIOUS
<1>0. HeapOk /\ lastIDs \in [Types -> 0 .. MaxIDs] /\ TypeOK
  BY DEF IInv, HeapOk, TypeOK
<1>b. UNCHANGED <<build, role, lookups>>
  BY DEF Next, vars, program
<1>a. ASSUME HeapOk', UNCHANGED lastIDs,
             Replica \/ bitsetIDs' \subseteq bitsetIDs
      PROVE  IInv'
  BY <1>0, <1>a, <1>b DEF IInv, HeapOk, TypeOK, ServerIDsIssued, Replica
<1>1. ASSUME NEW t \in Types, NEW json \in Jsons, serverCreate(t, json)
      PROVE  IInv'
  <2>0. PICK new : new = <<t, lastIDs[t]>>
    OBVIOUS
  <2>1. new \in Key /\ createImpl(new, json) /\ ~Replica
    BY <1>0, <1>1, <2>0, NextKey DEF serverCreate
  <2>2. HeapOk'
    BY <1>0, <2>1, CreateHeapOk
  <2>3. lastIDs' \in [Types -> 0 .. MaxIDs]
    BY <1>0, <1>1, SyncDataAssumption DEF serverCreate
  <2>4. bitsetIDs' \subseteq bitsetIDs \cup {new}
    BY <2>1 DEF createImpl, AssertionStops, heap
  <2>5. ASSUME NEW k \in bitsetIDs' PROVE k[2] < lastIDs'[k[1]]
    <3>1. /\ lastIDs[t] \in Int
          /\ lastIDs' = [lastIDs EXCEPT ![t] = @ + 1]
      BY <1>0, <1>1 DEF serverCreate
    <3>2. CASE k = new
      <4>1. k[1] = t /\ k[2] = lastIDs[t]
        BY <2>0, <3>2
      <4> QED
        BY <1>0, <3>1, <4>1
    <3>3. CASE k \in bitsetIDs
      <4>1. k[2] < lastIDs[k[1]] /\ k[1] \in Types /\ k[2] \in Int
        BY <2>1, <3>3 DEF IInv, ServerIDsIssued, TypeOK, Key, ID
      <4>2. lastIDs[k[1]] \in Int /\ lastIDs'[k[1]] \in {lastIDs[k[1]], lastIDs[k[1]] + 1}
        BY <1>0, <3>1, <4>1
      <4> QED
        BY <4>1, <4>2
    <3> QED
      BY <2>4, <3>2, <3>3
  <2> QED
    BY <1>0, <1>b, <2>2, <2>3, <2>5 DEF IInv, HeapOk, TypeOK, ServerIDsIssued
<1>2. ASSUME NEW k \in Key, NEW json \in Jsons, onReceivedPacketCreate(k, json)
      PROVE  IInv'
  BY <1>0, <1>2, <1>a, CreateHeapOk DEF onReceivedPacketCreate
<1>3. ASSUME NEW k \in Key, onReceivedPacketRemove(k)
      PROVE  IInv'
  <2>1. bitsetIDs' \subseteq bitsetIDs
    BY <1>3 DEF onReceivedPacketRemove, removeImpl, AssertionStops, heap
  <2> QED
    BY <1>0, <1>3, <1>a, <2>1, RemoveHeapOk DEF onReceivedPacketRemove
<1>4. ASSUME NEW k \in Key, NEW json \in Jsons, onReceivedPacketUpdate(k, json)
      PROVE  IInv'
  BY <1>0, <1>4, <1>a, UpdateHeapOk DEF onReceivedPacketUpdate
<1>5. ASSUME NEW k \in Key, getHandleFor(k)
      PROVE  IInv'
  <2>1. HeapOk'
    BY <1>0, <1>5, LookupHeapOk DEF getHandleFor, HeapOk
  <2> QED
    BY <1>5, <1>a, <2>1 DEF getHandleFor
<1>6. ASSUME NEW k \in Key, NEW f \in Fields, NEW v \in Values, EditFound(k, f, v)
      PROVE  IInv'
  <2>1. CASE NullDereference(k)
    BY <1>0, <1>6, <1>a, <2>1, NullDereferenceHeapOk DEF EditFound, NullDereference
  <2>2. CASE ThroughHandle(k, Edit(lfManagers[HandleOf(k)], f, v))
    <3>1. lfManagers[HandleOf(k)] \in Object
      BY <1>0, <2>2, NotNullIsPresent DEF ThroughHandle
    <3>2. Edit(lfManagers[HandleOf(k)], f, v) \in Object
      BY <3>1, EditType
    <3>3. HeapOk'
      BY <1>0, <2>2, <3>2, ThroughHandleHeapOk
    <3> QED
      BY <1>6, <1>a, <2>2, <3>3 DEF EditFound, ThroughHandle
  <2> QED
    BY <1>6, <2>1, <2>2 DEF EditFound
<1>7. CASE getSnapshot
  <2>1. HeapOk'
    BY <1>0, <1>7 DEF getSnapshot, heap, Dies, HeapOk, HandlesMatchBits
  <2> QED
    BY <1>7, <1>a, <2>1 DEF getSnapshot, heap
<1>8. CASE UNCHANGED vars
  <2>1. HeapOk'
    BY <1>0, <1>8 DEF vars, heap, HeapOk, HandlesMatchBits
  <2> QED
    BY <1>8, <1>a, <2>1 DEF vars, program, heap
<1> QED
  BY <1>1, <1>2, <1>3, <1>4, <1>5, <1>6, <1>7, <1>8 DEF Next

(* Bitsets, handles, storage and IDs always agree, whichever operations    *)
(* are called for whichever IDs.                                           *)
THEOREM Invariant == Spec => []IInv
BY InitIInv, NextIInv, PTL DEF Spec

(* Keys, addresses and objects are where they belong.                      *)
THEOREM TypeCorrect == Spec => []TypeOK
<1>1. IInv => TypeOK
  BY DEF IInv
<1> QED
  BY <1>1, Invariant, PTL

(* At the server every live ID is one that getFirstFreeID has given out.   *)
THEOREM LiveIDsAreIssued == Spec => []ServerIDsIssued
<1>1. IInv => ServerIDsIssued
  BY DEF IInv
<1> QED
  BY <1>1, Invariant, PTL

(* Every live ID has a handle to an object of its own, and no dead ID has  *)
(* a handle to anything.                                                   *)
THEOREM HandlesAndBitsAgree == Spec => []HandlesMatchBits
<1>1. IInv => HandlesMatchBits
  BY DEF IInv
<1> QED
  BY <1>1, Invariant, PTL

-----------------------------------------------------------------------------
(* Snapshots.                                                              *)

(* While nobody looks up IDs that have no object, and the process runs,    *)
(* the handle maps have entries for live objects only.                     *)
LEMMA NextNoNullHandles ==
    IInv /\ NullHandlesComeFromLookups /\ [Next]_vars => NullHandlesComeFromLookups'
<1> SUFFICES ASSUME IInv, NullHandlesComeFromLookups, [Next]_vars, ~lookups', Running',
                    NEW k \in DOMAIN handleMaps'
             PROVE  handleMaps'[k] # Null
  BY DEF NullHandlesComeFromLookups, NoNullHandles, SnapshotFails
<1>a. ~lookups
  BY DEF Next, vars, program
<1>b. NoNullHandles
  BY <1>a DEF NullHandlesComeFromLookups
<1>0. HeapOk
  BY DEF IInv, HeapOk, TypeOK
<1>1. CASE UNCHANGED vars
  BY <1>b, <1>1 DEF vars, heap, NoNullHandles, SnapshotFails, Running
<1>2. CASE Next
  <2>1. Running
    BY <1>2 DEF Next, serverCreate, onReceivedPacketCreate, onReceivedPacketRemove,
                onReceivedPacketUpdate, getHandleFor, EditFound, getSnapshot
  <2>2. \A j \in DOMAIN handleMaps : handleMaps[j] # Null
    BY <1>b, <2>1 DEF NoNullHandles, SnapshotFails
  <2>3. ASSUME NEW j, NEW json, createImpl(j, json)
        PROVE  handleMaps'[k] # Null
    <3>1. CASE UNCHANGED heap
      BY <2>2, <3>1 DEF heap
    <3>2. CASE \E a \in Addr : handleMaps' = MapSet(j, a)
      <4>1. PICK a \in Addr : handleMaps' = MapSet(j, a)
        BY <3>2
      <4>2. handleMaps'[k] = a \/ (k \in DOMAIN handleMaps /\ handleMaps'[k] = handleMaps[k])
        BY <4>1 DEF MapSet
      <4> QED
        BY <2>2, <4>2, SyncManagerAssumption
    <3> QED
      BY <2>3, <3>1, <3>2 DEF createImpl, AssertionStops
  <2>4. ASSUME NEW j \in Key, removeImpl(j)
        PROVE  handleMaps'[k] # Null
    BY <2>2, <2>4 DEF removeImpl, AssertionStops, heap
  <2>5. ASSUME NEW j, NullDereference(j)
        PROVE  FALSE
    BY <2>5 DEF NullDereference, Dies, Running
  <2>6. ASSUME NEW j, NEW object, ThroughHandle(j, object)
        PROVE  handleMaps'[k] # Null
    BY <2>2, <2>6 DEF ThroughHandle
  <2>7. ASSUME NEW j \in Key, NEW json, updateImpl(j, json)
        PROVE  handleMaps'[k] # Null
    BY <2>2, <2>5, <2>6, <2>7 DEF updateImpl, AssertionStops, heap
  <2>8. ASSUME NEW j \in Key, getHandleFor(j)
        PROVE  handleMaps'[k] # Null
    <3>1. j \in DOMAIN handleMaps
      BY <1>0, <1>a, <2>8 DEF getHandleFor, isPresent, HeapOk, HandlesMatchBits
    <3>2. handleMaps' = MapSet(j, handleMaps[j])
      BY <2>8, <3>1 DEF getHandleFor, HandleOf
    <3> QED
      BY <2>2, <3>1, <3>2 DEF MapSet
  <2>9. CASE getSnapshot
    BY <2>2, <2>9 DEF getSnapshot, heap
  <2> QED
    BY <1>2, <2>3, <2>4, <2>5, <2>6, <2>7, <2>8, <2>9
       DEF Next, serverCreate, onReceivedPacketCreate, onReceivedPacketRemove,
           onReceivedPacketUpdate, EditFound
<1> QED
  BY <1>1, <1>2

(* Then getSnapshot never dereferences a null handle.                      *)
THEOREM SnapshotsAreSafe == Spec => []NullHandlesComeFromLookups
<1>1. Init => NullHandlesComeFromLookups
  BY DEF Init, NullHandlesComeFromLookups, NoNullHandles, SnapshotFails
<1> QED
  BY <1>1, NextNoNullHandles, Invariant, PTL DEF Spec

(* A snapshot that is taken has an item for every bit, the right one, and  *)
(* no more.                                                                *)
THEOREM SnapshotsAreRight == Spec => []SnapshotIsOfObjects
<1>1. IInv => SnapshotIsOfObjects
  <2> SUFFICES ASSUME IInv, Running, ~SnapshotFails
               PROVE  TakenSnapshot = GetSnapshot(Objects)
    BY DEF SnapshotIsOfObjects
  <2>1. DOMAIN handleMaps = bitsetIDs
    BY DEF IInv, HandlesMatchBits, SnapshotFails
  <2>2. /\ DOMAIN Objects = bitsetIDs
        /\ \A k \in bitsetIDs : Objects[k] = lfManagers[handleMaps[k]]
    BY DEF Objects
  <2> QED
    BY <2>1, <2>2 DEF TakenSnapshot, GetSnapshot
<1> QED
  BY <1>1, Invariant, PTL

-----------------------------------------------------------------------------
(* Null dereferences, and leaks.                                           *)

(* Every step but a stutter is taken by a running process.                 *)
LEMMA OnlyTheRunningStep == Next => Running
BY DEF Next, serverCreate, onReceivedPacketCreate, onReceivedPacketRemove,
       onReceivedPacketUpdate, getHandleFor, EditFound, getSnapshot

(* Where no absent ID is looked up, and the assertions or the application  *)
(* see to it that what is updated is there, no handle followed is null.    *)
LEMMA NextNoSegfault ==
    IInv /\ NullHandlesComeFromLookups /\ NoSegfault /\ [Next]_vars => NoSegfault'
<1> SUFFICES ASSUME IInv, NullHandlesComeFromLookups, NoSegfault, [Next]_vars,
                    status' = "segfault", ~lookups',
                    ~(~AssertsEnabled' /\ Replica')
             PROVE  FALSE
  BY DEF NoSegfault
<1>a. UNCHANGED <<build, role, lookups>>
  BY DEF Next, vars, program
<1>b. ~lookups /\ (AssertsEnabled \/ ~Replica)
  BY <1>a DEF AssertsEnabled, Replica
<1>c. status # "segfault"
  BY <1>b DEF NoSegfault
<1>1. CASE UNCHANGED vars
  BY <1>c, <1>1 DEF vars
<1>2. CASE Next
  <2>1. ~SnapshotFails
    BY <1>2, <1>b, OnlyTheRunningStep DEF NullHandlesComeFromLookups, NoNullHandles
  <2>2. ASSUME NEW k \in Key, isPresent(k) PROVE HandleOf(k) # Null
    BY <2>1, <2>2 DEF IInv, HandlesMatchBits, isPresent, HandleOf, SnapshotFails
  <2>3. ASSUME NEW k, NEW json, createImpl(k, json) PROVE FALSE
    BY <1>c, <2>3 DEF createImpl, AssertionStops, Dies
  <2>4. ASSUME NEW k, removeImpl(k) PROVE FALSE
    BY <1>c, <2>4 DEF removeImpl, AssertionStops, Dies
  <2>5. ASSUME NEW k \in Key, NEW object, isPresent(k),
               NullDereference(k) \/ ThroughHandle(k, object)
        PROVE  FALSE
    BY <1>c, <2>2, <2>5 DEF NullDereference, ThroughHandle
  <2>6. ASSUME NEW k \in Key, NEW json, onReceivedPacketUpdate(k, json) PROVE FALSE
    <3>1. AssertsEnabled /\ updateImpl(k, json)
      BY <1>b, <2>6 DEF onReceivedPacketUpdate
    <3>2. CASE AssertionStops(isPresent(k))
      BY <3>2 DEF AssertionStops, Dies
    <3> QED
      BY <2>5, <3>1, <3>2 DEF updateImpl, AssertionLetsBy
  <2>7. ASSUME NEW k \in Key, NEW f, NEW v, EditFound(k, f, v) PROVE FALSE
    BY <1>b, <2>5, <2>7 DEF EditFound
  <2>8. CASE getSnapshot
    BY <1>c, <2>1, <2>8 DEF getSnapshot
  <2>9. ASSUME NEW k \in Key, getHandleFor(k) PROVE FALSE
    BY <1>c, <2>9 DEF getHandleFor
  <2> QED
    BY <1>2, <2>3, <2>4, <2>6, <2>7, <2>8, <2>9
       DEF Next, serverCreate, onReceivedPacketCreate, onReceivedPacketRemove
<1> QED
  BY <1>1, <1>2

(* A null handle is only ever dereferenced after a lookup of an absent ID, *)
(* or by an update at a client whose assertions are compiled out.          *)
THEOREM NullDereferences == Spec => []NoSegfault
<1>1. Init => NoSegfault
  BY DEF Init, NoSegfault
<1> QED
  BY <1>1, NextNoSegfault, Invariant, SnapshotsAreSafe, PTL DEF Spec

(* Where no ID is created twice, each step keeps every allocated object    *)
(* reachable from the ID it belongs to.                                    *)
LEMMA NextNoLeak == IInv /\ NoLeak /\ [Next]_vars => NoLeak'
<1> SUFFICES ASSUME IInv, NoLeak, [Next]_vars, Running', AssertsEnabled' \/ ~Replica',
                    NEW a \in DOMAIN lfManagers'
             PROVE  \E k \in bitsetIDs' : handleMaps'[k] = a
  BY DEF NoLeak
<1>a. AssertsEnabled \/ ~Replica
  BY DEF Next, vars, program, AssertsEnabled, Replica
<1>b. Running
  BY OnlyTheRunningStep DEF vars, Running
<1>c. \A b \in DOMAIN lfManagers : \E k \in bitsetIDs : handleMaps[k] = b
  BY <1>a, <1>b DEF NoLeak
<1>d. /\ bitsetIDs \subseteq DOMAIN handleMaps
      /\ bitsetIDs \subseteq Key
      /\ \A k \in bitsetIDs : handleMaps[k] = HandleOf(k)
  BY DEF IInv, TypeOK, HandlesMatchBits, HandleOf
<1>e. ASSUME DOMAIN lfManagers' \subseteq DOMAIN lfManagers, UNCHANGED <<bitsetIDs, handleMaps>>
      PROVE  \E k \in bitsetIDs' : handleMaps'[k] = a
  BY <1>c, <1>e
<1>1. CASE UNCHANGED vars
  BY <1>1, <1>e DEF vars, heap
<1>2. ASSUME NEW k, NEW json, createImpl(k, json), AssertionLetsBy(~isPresent(k)) => ~isPresent(k)
      PROVE  \E j \in bitsetIDs' : handleMaps'[j] = a
  <2>1. CASE AssertionStops(~isPresent(k))
    BY <2>1 DEF AssertionStops, Dies, Running
  <2>2. CASE ~AssertionStops(~isPresent(k))
    <3>1. k \notin bitsetIDs /\ bitsetIDs' = bitsetIDs \cup {k}
      BY <1>2, <2>2 DEF createImpl, isPresent
    <3>2. PICK b \in Addr : /\ handleMaps' = MapSet(k, b)
                            /\ DOMAIN lfManagers' = DOMAIN lfManagers \cup {b}
      BY <1>2, <2>2 DEF createImpl
    <3>3. handleMaps'[k] = b /\ \A j \in bitsetIDs : handleMaps'[j] = handleMaps[j]
      BY <1>d, <3>1, <3>2 DEF MapSet
    <3> QED
      BY <1>c, <3>1, <3>2, <3>3
  <2> QED
    BY <2>1, <2>2
<1>3. ASSUME NEW t \in Types, NEW json \in Jsons, serverCreate(t, json)
      PROVE  \E j \in bitsetIDs' : handleMaps'[j] = a
  <2>0. PICK new : new = <<t, lastIDs[t]>>
    OBVIOUS
  <2>1. ~isPresent(new)
    <3>1. new[1] = t /\ new[2] = lastIDs[t] /\ lastIDs[t] \in Int
      BY <2>0, SyncDataAssumption DEF IInv, TypeOK
    <3>2. ~(new[2] < lastIDs[new[1]])
      BY <3>1
    <3> QED
      BY <1>3, <3>2 DEF serverCreate, IInv, ServerIDsIssued, isPresent
  <2>2. createImpl(new, json)
    BY <1>3, <2>0 DEF serverCreate
  <2> QED
    BY <1>2, <2>1, <2>2
<1>4. ASSUME NEW k \in Key, NEW json \in Jsons, onReceivedPacketCreate(k, json)
      PROVE  \E j \in bitsetIDs' : handleMaps'[j] = a
  BY <1>2, <1>4, <1>a DEF onReceivedPacketCreate, AssertionLetsBy
<1>5. ASSUME NEW k \in Key, removeImpl(k)
      PROVE  \E j \in bitsetIDs' : handleMaps'[j] = a
  <2>1. CASE AssertionStops(isPresent(k))
    BY <2>1 DEF AssertionStops, Dies, Running
  <2>2. CASE ~AssertionStops(isPresent(k))
    <3>1. /\ bitsetIDs' = bitsetIDs \ {k}
          /\ DOMAIN lfManagers' = DOMAIN lfManagers \ {HandleOf(k)}
          /\ \A j \in DOMAIN handleMaps \ {k} : handleMaps'[j] = handleMaps[j]
      BY <1>5, <2>2 DEF removeImpl
    <3>2. PICK j \in bitsetIDs : handleMaps[j] = a
      BY <1>c, <3>1
    <3>3. j # k
      BY <1>d, <3>1, <3>2
    <3> QED
      BY <1>d, <3>1, <3>2, <3>3
  <2> QED
    BY <2>1, <2>2
<1>6. ASSUME NEW k, NEW object, NullDereference(k) \/ ThroughHandle(k, object)
      PROVE  \E j \in bitsetIDs' : handleMaps'[j] = a
  <2>1. ThroughHandle(k, object)
    BY <1>6 DEF NullDereference, Dies, Running
  <2> QED
    BY <1>e, <2>1 DEF ThroughHandle
<1>7. ASSUME NEW k \in Key, NEW json, updateImpl(k, json)
      PROVE  \E j \in bitsetIDs' : handleMaps'[j] = a
  BY <1>6, <1>7 DEF updateImpl, AssertionStops, Dies, Running
<1>8. ASSUME NEW k \in Key, getHandleFor(k)
      PROVE  \E j \in bitsetIDs' : handleMaps'[j] = a
  <2>1. \A j \in bitsetIDs : handleMaps'[j] = handleMaps[j]
    BY <1>8, <1>d DEF getHandleFor, MapSet
  <2> QED
    BY <1>8, <1>c, <2>1 DEF getHandleFor
<1>9. CASE getSnapshot
  BY <1>9, <1>e DEF getSnapshot, heap
<1> QED
  BY <1>1, <1>3, <1>4, <1>5, <1>6, <1>7, <1>8, <1>9
     DEF Next, onReceivedPacketRemove, onReceivedPacketUpdate, EditFound

(* The server never leaks an object, nor does a client that checks its     *)
(* assertions.                                                             *)
THEOREM NothingLeaks == Spec => []NoLeak
<1>1. Init => NoLeak
  BY DEF Init, NoLeak
<1> QED
  BY <1>1, NextNoLeak, Invariant, PTL DEF Spec

-----------------------------------------------------------------------------
(* The refinement.                                                         *)

(* createImpl makes one object and leaves the others alone, whatever       *)
(* address the allocator returns.                                          *)
LEMMA CreateImplements ==
    ASSUME HeapOk, NEW k \in Key, NEW json, createImpl(k, json)
    PROVE  \/ Objects' = Objects /\ isPresent(k)
           \/ Objects' = Create(Objects, k, json)
<1>1. CASE AssertionStops(~isPresent(k))
  BY <1>1 DEF AssertionStops, heap, Objects
<1>2. CASE ~AssertionStops(~isPresent(k))
  <2>1. PICK a \in Addr \ DOMAIN lfManagers :
          /\ handleMaps' = MapSet(k, a)
          /\ lfManagers' = [b \in DOMAIN lfManagers \cup {a} |->
                               IF b = a THEN SetFromJson(NewObject, json)
                                        ELSE lfManagers[b]]
    BY <1>2 DEF createImpl
  <2>2. bitsetIDs' = bitsetIDs \cup {k}
    BY <1>2 DEF createImpl
  <2>3. ASSUME NEW j \in bitsetIDs \cup {k}
        PROVE  lfManagers'[handleMaps'[j]]
                  = IF j = k THEN SetFromJson(NewObject, json) ELSE Objects[j]
    <3>1. CASE j = k
      BY <2>1, <3>1 DEF MapSet
    <3>2. CASE j # k
      <4>1. handleMaps'[j] = handleMaps[j] /\ handleMaps[j] \in DOMAIN lfManagers
        BY <2>1, <3>2 DEF MapSet, HeapOk, HandlesMatchBits
      <4> QED
        BY <2>1, <3>2, <4>1 DEF Objects
    <3> QED
      BY <3>1, <3>2
  <2>4. Objects' = [j \in bitsetIDs \cup {k} |->
                       IF j = k THEN SetFromJson(NewObject, json) ELSE Objects[j]]
    BY <2>2, <2>3 DEF Objects
  <2>5. DOMAIN Objects = bitsetIDs
    BY DEF Objects
  <2> QED
    BY <2>4, <2>5 DEF Create
<1> QED
  BY <1>1, <1>2

(* removeImpl removes one object and leaves the others alone.              *)
LEMMA RemoveImplements ==
    ASSUME HeapOk, NEW k \in Key, removeImpl(k)
    PROVE  Objects' = Objects \/ Objects' = Remove(Objects, k)
<1>1. CASE AssertionStops(isPresent(k))
  BY <1>1 DEF AssertionStops, heap, Objects
<1>2. CASE ~AssertionStops(isPresent(k))
  <2>1. /\ bitsetIDs' = bitsetIDs \ {k}
        /\ lfManagers' = [a \in DOMAIN lfManagers \ {HandleOf(k)} |-> lfManagers[a]]
        /\ handleMaps' = [j \in DOMAIN handleMaps \ {k} |-> handleMaps[j]]
    BY <1>2 DEF removeImpl
  <2>2. ASSUME NEW j \in bitsetIDs \ {k}
        PROVE  lfManagers'[handleMaps'[j]] = lfManagers[handleMaps[j]]
    <3>1. /\ j \in DOMAIN handleMaps
          /\ handleMaps[j] \in DOMAIN lfManagers
          /\ handleMaps[j] # HandleOf(k)
      BY SyncManagerAssumption DEF HeapOk, HandlesMatchBits, HandleOf
    <3> QED
      BY <2>1, <3>1
  <2> QED
    BY <2>1, <2>2 DEF Objects, Remove
<1> QED
  BY <1>1, <1>2

(* Writing through the handle of one ID changes that object only.          *)
(* Writing an object through such a handle leaves the heap in order.       *)
LEMMA ThroughHandleImplements ==
    ASSUME HeapOk, NEW k \in Key, NEW object, ThroughHandle(k, object)
    PROVE  /\ k \in DOMAIN Objects
           /\ lfManagers[HandleOf(k)] = Objects[k]
           /\ Objects' = [Objects EXCEPT ![k] = object]
<1>1. k \in bitsetIDs /\ HandleOf(k) = handleMaps[k]
  BY NotNullIsPresent DEF ThroughHandle
<1>2. /\ UNCHANGED <<bitsetIDs, handleMaps>>
      /\ lfManagers' = [lfManagers EXCEPT ![handleMaps[k]] = object]
  BY <1>1 DEF ThroughHandle
<1>3. \A j \in bitsetIDs : lfManagers'[handleMaps'[j]]
                              = IF j = k THEN object ELSE lfManagers[handleMaps[j]]
  BY <1>1, <1>2 DEF HeapOk, HandlesMatchBits
<1> QED
  BY <1>1, <1>2, <1>3 DEF Objects

(* A null dereference ends the process and changes no object.              *)
LEMMA NullDereferenceImplements ==
    ASSUME HeapOk, NEW k \in Key, NullDereference(k)
    PROVE  Objects' = Objects
<1>1. /\ UNCHANGED <<bitsetIDs, lfManagers>>
      /\ \A j \in DOMAIN handleMaps : handleMaps'[j] = handleMaps[j]
  BY DEF NullDereference, MapSet, HandleOf
<1> QED
  BY <1>1 DEF Objects, HeapOk, HandlesMatchBits

(* Every step of the implementation is a step of the map, or none.         *)
LEMMA StepImplements == IInv /\ [Next]_vars => [Map!MapNext]_(Map!mapVars)
<1> SUFFICES ASSUME IInv, [Next]_vars
             PROVE  Map!MapNext \/ UNCHANGED <<Objects, lastIDs>>
  BY DEF Map!mapVars
<1>0. HeapOk /\ TypeOK
  BY DEF IInv, HeapOk, TypeOK
<1> USE DEF Map!Key, Key, Map!ID, ID
<1>1. ASSUME NEW t \in Types, NEW json \in Jsons, serverCreate(t, json)
      PROVE  Map!MapServerCreate(t, json)
  <2>0. PICK new : new = <<t, lastIDs[t]>>
    OBVIOUS
  <2>1. new \in Key /\ createImpl(new, json) /\ ~Replica
    BY <1>0, <1>1, <2>0, NextKey DEF serverCreate
  <2>2. ~isPresent(new)
    <3>1. \A k \in bitsetIDs : k[2] < lastIDs[k[1]]
      BY <2>1 DEF IInv, ServerIDsIssued
    <3>2. new[1] = t /\ new[2] = lastIDs[t] /\ lastIDs[t] \in Int
      BY <1>0, <2>0 DEF TypeOK
    <3> QED
      BY <3>1, <3>2 DEF isPresent
  <2>3. Objects' = Create(Objects, new, json)
    BY <1>0, <2>1, <2>2, CreateImplements
  <2> QED
    BY <1>1, <2>0, <2>3
       DEF serverCreate, Map!MapServerCreate, Map!Create, Create, Map!SetFromJson,
           SetFromJson, Map!NewObject, NewObject
<1>2. ASSUME NEW k \in Key, NEW json \in Jsons, onReceivedPacketCreate(k, json)
      PROVE  Map!MapCreate(k, json) \/ UNCHANGED <<Objects, lastIDs>>
  <2>1. Objects' = Objects \/ Objects' = Create(Objects, k, json)
    BY <1>0, <1>2, CreateImplements DEF onReceivedPacketCreate
  <2> QED
    BY <1>2, <2>1
       DEF onReceivedPacketCreate, Map!MapCreate, Map!Create, Create, Map!SetFromJson,
           SetFromJson, Map!NewObject, NewObject
<1>3. ASSUME NEW k \in Key, onReceivedPacketRemove(k)
      PROVE  Map!MapRemove(k) \/ UNCHANGED <<Objects, lastIDs>>
  <2>1. Objects' = Objects \/ Objects' = Remove(Objects, k)
    BY <1>0, <1>3, RemoveImplements DEF onReceivedPacketRemove
  <2> QED
    BY <1>3, <2>1 DEF onReceivedPacketRemove, Map!MapRemove, Map!Remove, Remove
<1>4. ASSUME NEW k \in Key, NEW json \in Jsons, onReceivedPacketUpdate(k, json)
      PROVE  Map!MapUpdate(k, json) \/ UNCHANGED <<Objects, lastIDs>>
  <2>1. CASE AssertionStops(isPresent(k))
    BY <1>4, <2>1 DEF onReceivedPacketUpdate, AssertionStops, heap, Objects
  <2>2. CASE NullDereference(k)
    BY <1>0, <1>4, <2>2, NullDereferenceImplements DEF onReceivedPacketUpdate
  <2>3. CASE ThroughHandle(k, SetFromJson(lfManagers[HandleOf(k)], json))
    <3>1. /\ k \in DOMAIN Objects
          /\ Objects' = [Objects EXCEPT ![k] = SetFromJson(Objects[k], json)]
      BY <1>0, <2>3, ThroughHandleImplements
    <3> QED
      BY <1>4, <3>1 DEF onReceivedPacketUpdate, Map!MapUpdate, Map!Update,
                        Map!SetFromJson, SetFromJson
  <2> QED
    BY <1>4, <2>1, <2>2, <2>3 DEF onReceivedPacketUpdate, updateImpl
<1>5. ASSUME NEW k \in Key, getHandleFor(k)
      PROVE  UNCHANGED <<Objects, lastIDs>>
  <2>1. \A j \in bitsetIDs : handleMaps'[j] = handleMaps[j]
    BY <1>0, <1>5 DEF getHandleFor, MapSet, HandleOf, HeapOk, HandlesMatchBits
  <2> QED
    BY <1>5, <2>1 DEF getHandleFor, Objects
<1>6. ASSUME NEW k \in Key, NEW f \in Fields, NEW v \in Values, EditFound(k, f, v)
      PROVE  Map!MapEdit(k, f, v) \/ UNCHANGED <<Objects, lastIDs>>
  <2>1. CASE NullDereference(k)
    BY <1>0, <1>6, <2>1, NullDereferenceImplements DEF EditFound
  <2>2. CASE ThroughHandle(k, Edit(lfManagers[HandleOf(k)], f, v))
    <3>1. /\ k \in DOMAIN Objects
          /\ Objects' = [Objects EXCEPT ![k] = Edit(Objects[k], f, v)]
      BY <1>0, <2>2, ThroughHandleImplements
    <3> QED
      BY <1>6, <3>1 DEF EditFound, Map!MapEdit, Map!Edit, Edit
  <2> QED
    BY <1>6, <2>1, <2>2 DEF EditFound
<1>7. CASE getSnapshot
  BY <1>7 DEF getSnapshot, heap, Objects
<1>8. CASE UNCHANGED vars
  BY <1>8 DEF vars, heap, Objects
<1> QED
  BY <1>1, <1>2, <1>3, <1>4, <1>5, <1>6, <1>7, <1>8 DEF Next, Map!MapNext

(* SyncManager implements ObjectMap: to its users it is a map from unique  *)
(* IDs to objects, whatever addresses the allocator picks and whether or   *)
(* not the assertions are compiled in.                                     *)
THEOREM Refinement == Spec => ImplementsObjectMap
<1>1. Init => Map!MapInit
  BY DEF Init, Map!MapInit, Objects, Map!EmptyManager
<1> QED
  BY <1>1, StepImplements, Invariant, PTL DEF Spec, ImplementsObjectMap, Map!MapSpec

=============================================================================
