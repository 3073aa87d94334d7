---------------------------- MODULE SyncManager ----------------------------
(***************************************************************************)
(* SyncManager as it lies in memory: the alive/dead bitsets, the handle    *)
(* maps, and the lifetime managers that own the objects the handles point  *)
(* to.  The four have to agree, and three private functions change them:   *)
(* createImpl, removeImpl and updateImpl, reached through serverCreate,    *)
(* onReceivedPacketCreate, -Remove and -Update (applyDiff calls these for  *)
(* the entries of a diff).  getHandleFor is std::map's operator[]: looking *)
(* an ID up puts it into the map.                                          *)
(*                                                                         *)
(* A handle is an address (the chat's LifetimeManager uses a raw pointer), *)
(* a lifetime manager's storage a function from addresses to objects.      *)
(***************************************************************************)
EXTENDS SyncData

CONSTANTS
    Jsons,          \* JSON objects that objects are made or set from
    Addr,           \* bound: the addresses objects can get
    Null            \* getNullHandle: the null pointer

ASSUME SyncManagerAssumption ==
    /\ MaxIDs <= MaxObjs
    /\ Null \notin Addr
    /\ \A json \in Jsons : /\ DOMAIN json \subseteq Fields
                           /\ \A f \in DOMAIN json : json[f] \in Values

VARIABLES
    bitsetIDs,      \* the keys whose bit is set
    handleMaps,     \* the handle under each key that has an entry
    lfManagers,     \* the storage: each allocated address's object
    lastIDs,        \* the next ID of each type
    status,         \* what became of the process
    build,          \* "debug", with SSVU_ASSERT, or "release", without
    role,           \* "client": diffs change the manager, under any ID;
                    \* "server": the application does
    lookups         \* does the user look up IDs that may have no object?

heap == <<bitsetIDs, handleMaps, lfManagers>>
program == <<build, role, lookups>>
vars == <<heap, lastIDs, status, program>>

AssertsEnabled == build = "debug"
Replica == role = "client"

isPresent(k) == k \in bitsetIDs

(* getHandleFor: the handle, and the map after operator[].                 *)
HandleOf(k) == IF k \in DOMAIN handleMaps THEN handleMaps[k] ELSE Null

MapSet(k, h) ==
    [j \in DOMAIN handleMaps \cup {k} |-> IF j = k THEN h ELSE handleMaps[j]]

(* The process ends here, leaving behind what it had done.                 *)
Dies(how) == status' = how

-----------------------------------------------------------------------------
(* createImpl, removeImpl and updateImpl.                                  *)

AssertionStops(condition) ==
    /\ AssertsEnabled
    /\ ~condition
    /\ Dies("aborted")
    /\ UNCHANGED heap

AssertionLetsBy(condition) == AssertsEnabled => condition

(* Mutant: setPresent is forgotten.                                         *)
CreateImplUnset(k, json) ==
    /\ AssertionLetsBy(~isPresent(k))
    /\ \E a \in Addr \ DOMAIN lfManagers :
          /\ handleMaps' = MapSet(k, a)
          /\ lfManagers' = [b \in DOMAIN lfManagers \cup {a} |->
                               IF b = a THEN SetFromJson(NewObject, json)
                                        ELSE lfManagers[b]]
    /\ UNCHANGED <<bitsetIDs, status>>

createImpl(k, json) ==
    \/ AssertionStops(~isPresent(k))
    \/ /\ AssertionLetsBy(~isPresent(k))
       /\ bitsetIDs' = bitsetIDs \cup {k}
       /\ \E a \in Addr \ DOMAIN lfManagers :
             /\ handleMaps' = MapSet(k, a)
             /\ lfManagers' = [b \in DOMAIN lfManagers \cup {a} |->
                                  IF b = a THEN SetFromJson(NewObject, json)
                                           ELSE lfManagers[b]]
       /\ UNCHANGED status

(* Mutants: one of the three containers is not updated, or the map's entry  *)
(* is set to the null handle and not erased.                               *)
RemoveImplKeepingHandle(k) ==
    /\ AssertionLetsBy(isPresent(k))
    /\ bitsetIDs' = bitsetIDs \ {k}
    /\ lfManagers' = [a \in DOMAIN lfManagers \ {HandleOf(k)} |-> lfManagers[a]]
    /\ UNCHANGED <<handleMaps, status>>

RemoveImplKeepingObject(k) ==
    /\ AssertionLetsBy(isPresent(k))
    /\ bitsetIDs' = bitsetIDs \ {k}
    /\ handleMaps' = [j \in DOMAIN handleMaps \ {k} |-> handleMaps[j]]
    /\ UNCHANGED <<lfManagers, status>>

RemoveImplNullingHandle(k) ==
    /\ AssertionLetsBy(isPresent(k))
    /\ bitsetIDs' = bitsetIDs \ {k}
    /\ lfManagers' = [a \in DOMAIN lfManagers \ {HandleOf(k)} |-> lfManagers[a]]
    /\ handleMaps' = MapSet(k, Null)
    /\ UNCHANGED status

removeImpl(k) ==
    \/ AssertionStops(isPresent(k))
    \/ /\ AssertionLetsBy(isPresent(k))
       /\ bitsetIDs' = bitsetIDs \ {k}
       /\ lfManagers' = [a \in DOMAIN lfManagers \ {HandleOf(k)} |-> lfManagers[a]]
       /\ handleMaps' = [j \in DOMAIN handleMaps \ {k} |-> handleMaps[j]]
       /\ UNCHANGED status

(* h points to no object: reading or writing through it is a null          *)
(* dereference, which kills the process.  (A handle that is in a map and   *)
(* not null always has its object: HandlesMatchBits.)                      *)
NullDereference(k) ==
    /\ HandleOf(k) = Null
    /\ handleMaps' = MapSet(k, Null)
    /\ Dies("segfault")
    /\ UNCHANGED <<bitsetIDs, lfManagers>>

ThroughHandle(k, object) ==
    /\ HandleOf(k) # Null
    /\ lfManagers' = [lfManagers EXCEPT ![HandleOf(k)] = object]
    /\ UNCHANGED <<bitsetIDs, handleMaps, status>>

(* Mutant: no assertion.                                                    *)
UpdateImplUnchecked(k, json) ==
    \/ NullDereference(k)
    \/ ThroughHandle(k, SetFromJson(lfManagers[HandleOf(k)], json))

(* Mutant: the fields are written through edit().                           *)
UpdateImplMarking(k, json) ==
    /\ isPresent(k)
    /\ ThroughHandle(k, [SetFromJson(lfManagers[HandleOf(k)], json)
                            EXCEPT !.fieldFlags = @ \cup DOMAIN json])

updateImpl(k, json) ==
    \/ AssertionStops(isPresent(k))
    \/ /\ AssertionLetsBy(isPresent(k))
       /\ \/ NullDereference(k)
          \/ ThroughHandle(k, SetFromJson(lfManagers[HandleOf(k)], json))

-----------------------------------------------------------------------------
(* The public operations.                                                  *)

Running == status = "running"

(* Mutant: the ID is not counted.                                           *)
ServerCreateUncounted(t, json) ==
    /\ Running
    /\ ~Replica
    /\ lastIDs[t] < MaxIDs
    /\ createImpl(<<t, lastIDs[t]>>, json)
    /\ UNCHANGED lastIDs

serverCreate(t, json) ==
    /\ Running
    /\ ~Replica
    /\ lastIDs[t] < MaxIDs
    /\ lastIDs' = [lastIDs EXCEPT ![t] = @ + 1]
    /\ createImpl(<<t, lastIDs[t]>>, json)

onReceivedPacketCreate(k, json) ==
    /\ Running
    /\ Replica
    /\ createImpl(k, json)
    /\ UNCHANGED lastIDs

onReceivedPacketRemove(k) ==
    /\ Running
    /\ Replica \/ isPresent(k)
    /\ removeImpl(k)
    /\ UNCHANGED lastIDs

onReceivedPacketUpdate(k, json) ==
    /\ Running
    /\ Replica
    /\ updateImpl(k, json)
    /\ UNCHANGED lastIDs

(* getHandleFor(k), and nothing done with the handle.                      *)
getHandleFor(k) ==
    /\ Running
    /\ lookups \/ isPresent(k)
    /\ handleMaps' = MapSet(k, HandleOf(k))
    /\ UNCHANGED <<bitsetIDs, lfManagers, lastIDs, status>>

(* The user edits a field of the object it looked up, as the chat does.    *)
EditFound(k, f, v) ==
    /\ Running
    /\ ~Replica
    /\ lookups \/ isPresent(k)
    /\ \/ NullDereference(k)
       \/ ThroughHandle(k, Edit(lfManagers[HandleOf(k)], f, v))
    /\ UNCHANGED lastIDs

(* getSnapshot goes through all handles.                                   *)
SnapshotFails == \E k \in DOMAIN handleMaps : handleMaps[k] = Null

TakenSnapshot ==
    [bitsetIDs |-> bitsetIDs,
     items     |-> [k \in DOMAIN handleMaps |-> ToJsonAll(lfManagers[handleMaps[k]])]]

getSnapshot ==
    /\ Running
    /\ IF SnapshotFails THEN Dies("segfault") ELSE UNCHANGED status
    /\ UNCHANGED <<heap, lastIDs>>

-----------------------------------------------------------------------------
Init ==
    /\ bitsetIDs = {}
    /\ handleMaps = [k \in {} |-> Null]
    /\ lfManagers = [a \in {} |-> NewObject]
    /\ lastIDs = [t \in Types |-> 0]
    /\ status = "running"
    /\ build \in {"debug", "release"}
    /\ role \in {"client", "server"}
    /\ lookups \in BOOLEAN

Next ==
    /\ \/ \E t \in Types, json \in Jsons : serverCreate(t, json)
       \/ \E k \in Key, json \in Jsons : onReceivedPacketCreate(k, json)
       \/ \E k \in Key : onReceivedPacketRemove(k)
       \/ \E k \in Key, json \in Jsons : onReceivedPacketUpdate(k, json)
       \/ \E k \in Key : getHandleFor(k)
       \/ \E k \in Key, f \in Fields, v \in Values : EditFound(k, f, v)
       \/ getSnapshot
    /\ UNCHANGED program

Spec == Init /\ [][Next]_vars

-----------------------------------------------------------------------------
(* Properties.                                                             *)

(* The type invariant: keys, addresses and objects where they belong.      *)
TypeOK ==
    /\ bitsetIDs \subseteq Key
    /\ DOMAIN handleMaps \subseteq Key
    /\ \A k \in DOMAIN handleMaps : handleMaps[k] \in Addr \cup {Null}
    /\ DOMAIN lfManagers \subseteq Addr
    /\ \A a \in DOMAIN lfManagers : lfManagers[a] \in Object
    /\ lastIDs \in [Types -> 0 .. MaxIDs]
    /\ status \in {"running", "aborted", "segfault"}
    /\ build \in {"debug", "release"}
    /\ role \in {"client", "server"}
    /\ lookups \in BOOLEAN

(* Every ID whose bit says alive has a handle that points to an object of  *)
(* its own, and no other ID has a handle that points anywhere.             *)
HandlesMatchBits ==
    /\ bitsetIDs \subseteq DOMAIN handleMaps
    /\ \A k \in bitsetIDs : handleMaps[k] \in DOMAIN lfManagers
    /\ \A j, k \in bitsetIDs : handleMaps[j] = handleMaps[k] => j = k
    /\ \A k \in DOMAIN handleMaps \ bitsetIDs : handleMaps[k] = Null

(* No entry is without an object: getSnapshot may dereference them all.    *)
NoNullHandles == Running => ~SnapshotFails

(* Only looking up absent IDs leaves null entries behind in a process that *)
(* goes on: whatever diffs create, remove and update does not.             *)
NullHandlesComeFromLookups == ~lookups => NoNullHandles

(* The server's own IDs are the ones it has issued, so serverCreate never  *)
(* meets a live object.                                                    *)
ServerIDsIssued ==
    ~Replica => \A k \in bitsetIDs : k[2] < lastIDs[k[1]]

IInv == TypeOK /\ HandlesMatchBits /\ ServerIDsIssued

(* No object outlives its ID: the storage holds what the handles point to  *)
(* and nothing else.  (In the release build of a client an object that is  *)
(* created again leaves the first one behind.)                             *)
NoLeak ==
    Running /\ (AssertsEnabled \/ ~Replica)
        => \A a \in DOMAIN lfManagers : \E k \in bitsetIDs : handleMaps[k] = a

(* Unless absent IDs are looked up, a null handle is dereferenced only     *)
(* where the assertions are compiled out, for a diff that updates an       *)
(* absent object.                                                          *)
NoSegfault == status = "segfault" => lookups \/ (~AssertsEnabled /\ Replica)

(* The map of objects the manager stands for.                              *)
Objects == [k \in bitsetIDs |-> lfManagers[handleMaps[k]]]

(* getSnapshot describes that map: one item for each bit, none besides, so *)
(* that getDiffWith finds an item (items.at) for every bit it looks at.    *)
(* (After a lookup of an absent ID there is no snapshot at all.)           *)
SnapshotIsOfObjects == Running /\ ~SnapshotFails => TakenSnapshot = GetSnapshot(Objects)

(* SyncManager implements ObjectMap: whatever the operations and the       *)
(* allocator do, it behaves as a map from IDs to objects.                  *)
Map == INSTANCE ObjectMap WITH objects <- Objects
ImplementsObjectMap == Map!MapSpec
=============================================================================
