------------------------------ MODULE SyncData ------------------------------
(***************************************************************************)
(* The data the synchronisation module works on, and its pure algorithms:  *)
(* SyncObj with its dirty bits, the JSON forms of an object, Snapshot,     *)
(* Diff, getDiffWith and applyDiff.                                        *)
(*                                                                         *)
(* An object is named by its type and its ID (a Key).  The code keeps one  *)
(* container per type in tuples (handleMaps, typeDatas, ...) and visits    *)
(* them with tplFor; here each of them is one function over keys.          *)
(* A manager (the visible content of a SyncManager) is a function from the *)
(* keys of its live objects to the objects.                                *)
(***************************************************************************)
EXTENDS Integers, FiniteSets

CONSTANTS
    Types,      \* TTypes...: the types a manager synchronises
    Fields,     \* the indices of the fields of an object
    Values,     \* the values a field can take
    Default,    \* the value of a value-initialised field
    MaxObjs,    \* maxObjs: bits in the alive/dead bitset of a type
    MaxIDs      \* bound: IDs issued per type (may exceed MaxObjs)

ASSUME SyncDataAssumption ==
    /\ Default \in Values
    /\ MaxObjs \in Nat
    /\ MaxIDs \in Nat

ID == 0 .. MaxIDs - 1
Key == Types \X ID

(* SyncObj: the tuple of fields and one dirty bit per field.               *)
Object == [fields : [Fields -> Values], fieldFlags : SUBSET Fields]

IsManager(M) ==
    /\ DOMAIN M \subseteq Key
    /\ \A k \in DOMAIN M : M[k] \in Object

EmptyManager == [k \in {} |-> Default]

-----------------------------------------------------------------------------
(* SyncObj, FieldProxy and SerializationHelper.                            *)

NewObject == [fields |-> [f \in Fields |-> Default], fieldFlags |-> {}]

(* Mutant: the field is written through a reference that marks nothing.     *)
EditUnmarked(o, f, v) == [o EXCEPT !.fields[f] = v]

(* Mutant: the bit of the next field is set.                               *)
EditMarkingTheNext(o, f, v) ==
    [fields     |-> [o.fields EXCEPT ![f] = v],
     fieldFlags |-> o.fieldFlags \cup {f + 1}]

(* proxy.edit() = v: the dirty bit is set before the field is written.     *)
Edit(o, f, v) ==
    [fields     |-> [o.fields EXCEPT ![f] = v],
     fieldFlags |-> o.fieldFlags \cup {f}]

(* Mutant: the fields the JSON object lacks are not kept.                   *)
SetFromJsonReplacing(o, json) ==
    [fields |-> json, fieldFlags |-> o.fieldFlags \ DOMAIN json]

(* A JSON object is read as the function of the field keys it has.  Every  *)
(* key present overwrites its field and clears the field's dirty bit.      *)
SetFromJson(o, json) ==
    [fields     |-> [f \in Fields |-> IF f \in DOMAIN json THEN json[f]
                                                           ELSE o.fields[f]],
     fieldFlags |-> o.fieldFlags \ DOMAIN json]

(* Every field, and the dirty bits under the key "ff".                     *)
ToJsonAll(o) == [ff |-> o.fieldFlags, fields |-> o.fields]

Item == [ff : SUBSET Fields, fields : [Fields -> Values]]

-----------------------------------------------------------------------------
(* Snapshots.                                                              *)

GetSnapshot(M) ==
    [bitsetIDs |-> DOMAIN M,
     items     |-> [k \in DOMAIN M |-> ToJsonAll(M[k])]]

(* Mutant: the scan of the bits stops one short of maxObjs.                 *)
ScannedOneShort == {k \in Key : k[2] < MaxObjs - 1}

(* The keys whose bit exists: getDiffWith scans these, and the JSON text   *)
(* of a bitset has one character for each of them.                         *)
Representable == {k \in Key : k[2] < MaxObjs}

(* toJson followed by initFromJson on the other side.                      *)
Transmitted(snap) == [snap EXCEPT !.bitsetIDs = @ \cap Representable]

IsSnapshot(snap) ==
    /\ snap.bitsetIDs \subseteq DOMAIN snap.items
    /\ DOMAIN snap.items \subseteq Key
    /\ \A k \in DOMAIN snap.items : snap.items[k] \in Item

-----------------------------------------------------------------------------
(* Diffs.                                                                  *)

(* The fields of x that are marked dirty in x and differ from those of y.  *)
GetJsonDiff(x, y) ==
    [f \in {g \in x.ff : x.fields[g] # y.fields[g]} |-> x.fields[f]]

(* Mutant: objects only one side has are created and removed the wrong way  *)
(* round.                                                                  *)
GetDiffWithSwapped(mine, other) ==
    [toCreate |-> [k \in other.bitsetIDs \ mine.bitsetIDs |-> other.items[k]],
     toRemove |-> mine.bitsetIDs \ other.bitsetIDs,
     toUpdate |-> <<>>]

(* Mutant: removed objects are not looked for.                              *)
GetDiffWithoutRemovals(mine, other) ==
    LET both == mine.bitsetIDs \cap other.bitsetIDs
    IN  [toCreate |-> [k \in mine.bitsetIDs \ other.bitsetIDs |-> mine.items[k]],
         toRemove |-> {},
         toUpdate |-> [k \in both |-> GetJsonDiff(mine.items[k], other.items[k])]]

(* Mutant: every ID the server has no object under is removed, whether the  *)
(* other side has it or not.                                               *)
GetDiffWithRemovingAll(mine, other) ==
    [toCreate |-> [k \in mine.bitsetIDs \ other.bitsetIDs |-> mine.items[k]],
     toRemove |-> Representable \ mine.bitsetIDs,
     toUpdate |-> <<>>]

(* Snapshot::getDiffWith: what `other` must do to become `mine`.           *)
GetDiffWith(mine, other) ==
    LET both    == mine.bitsetIDs \cap other.bitsetIDs \cap Representable
        objDiff == [k \in both |-> GetJsonDiff(mine.items[k], other.items[k])]
    IN  [toCreate |-> [k \in (mine.bitsetIDs \ other.bitsetIDs)
                                  \cap Representable |-> mine.items[k]],
         toRemove |-> (other.bitsetIDs \ mine.bitsetIDs) \cap Representable,
         toUpdate |-> [k \in {j \in both : DOMAIN objDiff[j] # {}}
                                  |-> objDiff[k]]]

IsDiff(d) ==
    /\ DOMAIN d.toCreate \subseteq Key
    /\ \A k \in DOMAIN d.toCreate : d.toCreate[k] \in Item
    /\ d.toRemove \subseteq Key
    /\ DOMAIN d.toUpdate \subseteq Key
    /\ \A k \in DOMAIN d.toUpdate :
          /\ DOMAIN d.toUpdate[k] \subseteq Fields
          /\ \A f \in DOMAIN d.toUpdate[k] : d.toUpdate[k][f] \in Values

-----------------------------------------------------------------------------
(* SyncManager's createImpl, removeImpl and updateImpl on the object map.  *)

Create(M, k, json) ==
    [j \in DOMAIN M \cup {k} |-> IF j = k THEN SetFromJson(NewObject, json)
                                          ELSE M[j]]

Remove(M, k) == [j \in DOMAIN M \ {k} |-> M[j]]

Update(M, k, json) == [M EXCEPT ![k] = SetFromJson(@, json)]

(* Mutant: the creations of a diff replace the objects there are.           *)
OnlyTheCreated(M, d) ==
    [k \in DOMAIN d.toCreate \ d.toRemove |->
        SetFromJson(NewObject, d.toCreate[k].fields)]

(* Mutant: an object a diff creates is not set from the JSON.               *)
CreatesWithoutSetting(M, d) ==
    [k \in (DOMAIN M \cup DOMAIN d.toCreate) \ d.toRemove |->
        IF k \in DOMAIN d.toCreate THEN NewObject ELSE M[k]]

(* applyDiff: for each type the creations, then the removals, then the     *)
(* updates.  Creating over a live key replaces the object, removing a dead *)
(* one does nothing; an update finds its object or does not return         *)
(* (UpdateFindsNoObject).                                                  *)
AfterCreatesAndRemoves(M, d) ==
    [k \in (DOMAIN M \cup DOMAIN d.toCreate) \ d.toRemove |->
        IF k \in DOMAIN d.toCreate
        THEN SetFromJson(NewObject, d.toCreate[k].fields)
        ELSE M[k]]

ApplyDiff(M, d) ==
    LET N == AfterCreatesAndRemoves(M, d)
    IN  [k \in DOMAIN N |-> IF k \in DOMAIN d.toUpdate
                            THEN SetFromJson(N[k], d.toUpdate[k])
                            ELSE N[k]]

(* An assertion of createImpl, removeImpl or updateImpl is false at some   *)
(* point of applyDiff.                                                     *)
AssertionFails(M, d) ==
    \/ DOMAIN d.toCreate \cap DOMAIN M # {}
    \/ ~(d.toRemove \subseteq DOMAIN M \cup DOMAIN d.toCreate)
    \/ ~(DOMAIN d.toUpdate \subseteq DOMAIN AfterCreatesAndRemoves(M, d))

(* updateImpl writes through the null handle that looking up an absent key *)
(* has just put into the handle map.                                       *)
UpdateFindsNoObject(M, d) ==
    ~(DOMAIN d.toUpdate \subseteq DOMAIN AfterCreatesAndRemoves(M, d))

-----------------------------------------------------------------------------
(* Comparing a replica with the original.                                  *)

(* The same objects with the same field values (dirty bits apart).         *)
SameContent(M, N) ==
    /\ DOMAIN M = DOMAIN N
    /\ \A k \in DOMAIN M : M[k].fields = N[k].fields

(* What M holds under IDs that have a bit in the bitset of their type.     *)
WithBits(M) == [k \in {j \in DOMAIN M : j[2] < MaxObjs} |-> M[k]]

(* Every field of o that differs from the given fields is marked dirty.    *)
DirtyWhereDifferent(fields, o) ==
    \A f \in DOMAIN fields : fields[f] # o.fields[f] => f \in o.fieldFlags
=============================================================================
