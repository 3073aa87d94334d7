-------------------------- MODULE SyncDataProofs ---------------------------
(***************************************************************************)
(* Facts about the pure operators of SyncData: what kind of value each     *)
(* returns, and what applying a diff does to a manager.  Cited by name in  *)
(* SyncSessionProofs.                                                      *)
(***************************************************************************)
EXTENDS SyncData, TLAPS

-----------------------------------------------------------------------------
(* Types.                                                                  *)

(* A value-initialised SyncObj is an object.                               *)
LEMMA NewObjectType == NewObject \in Object
BY SyncDataAssumption DEF NewObject, Object

(* SerializationHelper::setFromJson leaves an object an object, for any    *)
(* JSON that holds values of fields.                                       *)
LEMMA SetFromJsonType ==
    ASSUME NEW o \in Object, NEW json,
           \A f \in DOMAIN json : json[f] \in Values
    PROVE  SetFromJson(o, json) \in Object
BY DEF SetFromJson, Object

(* FieldProxy::edit leaves an object an object.                            *)
LEMMA EditType ==
    ASSUME NEW o \in Object, NEW f \in Fields, NEW v \in Values
    PROVE  Edit(o, f, v) \in Object
BY DEF Edit, Object

(* getSnapshot, also after its trip through JSON, is a snapshot.           *)
LEMMA SnapshotType ==
    ASSUME NEW M, IsManager(M)
    PROVE  /\ IsSnapshot(GetSnapshot(M))
           /\ IsSnapshot(Transmitted(GetSnapshot(M)))
BY DEF IsManager, IsSnapshot, GetSnapshot, Transmitted, ToJsonAll, Object, Item

(* getDiffWith returns a diff, whatever it is given to compare with.       *)
LEMMA DiffType ==
    ASSUME NEW x, NEW y, IsSnapshot(x)
    PROVE  IsDiff(GetDiffWith(x, y))
<1> DEFINE both == x.bitsetIDs \cap y.bitsetIDs \cap Representable
<1> DEFINE d == GetDiffWith(x, y)
<1>1. both \subseteq Key
  BY DEF Representable
<1>2. \A k \in both : x.items[k] \in Item
  BY DEF IsSnapshot
<1>3. ASSUME NEW k \in both
      PROVE  /\ DOMAIN GetJsonDiff(x.items[k], y.items[k]) \subseteq Fields
             /\ \A f \in DOMAIN GetJsonDiff(x.items[k], y.items[k]) :
                   GetJsonDiff(x.items[k], y.items[k])[f] \in Values
  BY <1>2 DEF GetJsonDiff, Item
<1>4. /\ DOMAIN d.toCreate \subseteq Key
      /\ \A k \in DOMAIN d.toCreate : d.toCreate[k] \in Item
  BY DEF GetDiffWith, Representable, IsSnapshot
<1>5. d.toRemove \subseteq Key
  BY DEF GetDiffWith, Representable
<1>6. /\ DOMAIN d.toUpdate \subseteq both
      /\ \A k \in DOMAIN d.toUpdate :
            d.toUpdate[k] = GetJsonDiff(x.items[k], y.items[k])
  BY DEF GetDiffWith
<1> QED
  BY <1>1, <1>3, <1>4, <1>5, <1>6 DEF IsDiff

(* createImpl leaves a manager a manager.                                  *)
LEMMA CreateType ==
    ASSUME NEW M, IsManager(M), NEW k \in Key, NEW json,
           \A f \in DOMAIN json : json[f] \in Values
    PROVE  IsManager(Create(M, k, json))
BY NewObjectType, SetFromJsonType DEF Create, IsManager

(* applyDiff leaves a manager a manager.                                   *)
LEMMA ApplyDiffType ==
    ASSUME NEW M, IsManager(M), NEW d, IsDiff(d)
    PROVE  IsManager(ApplyDiff(M, d))
<1> DEFINE N == AfterCreatesAndRemoves(M, d)
<1>1. \A k \in DOMAIN d.toCreate :
         SetFromJson(NewObject, d.toCreate[k].fields) \in Object
  <2> TAKE k \in DOMAIN d.toCreate
  <2>1. d.toCreate[k].fields \in [Fields -> Values]
    BY DEF IsDiff, Item
  <2> QED
    BY <2>1, NewObjectType, SetFromJsonType
<1>2. IsManager(N)
  BY <1>1 DEF AfterCreatesAndRemoves, IsManager, IsDiff
<1>3. \A k \in DOMAIN N \cap DOMAIN d.toUpdate :
         SetFromJson(N[k], d.toUpdate[k]) \in Object
  <2> TAKE k \in DOMAIN N \cap DOMAIN d.toUpdate
  <2>1. N[k] \in Object /\ \A f \in DOMAIN d.toUpdate[k] : d.toUpdate[k][f] \in Values
    BY <1>2 DEF IsManager, IsDiff
  <2> HIDE DEF N
  <2> QED
    BY <2>1, SetFromJsonType
<1>4. ApplyDiff(M, d) = [k \in DOMAIN N |-> IF k \in DOMAIN d.toUpdate
                            THEN SetFromJson(N[k], d.toUpdate[k])
                            ELSE N[k]]
  BY DEF ApplyDiff
<1> HIDE DEF N
<1> QED
  BY <1>2, <1>3, <1>4 DEF IsManager

-----------------------------------------------------------------------------
(* What applying JSON and diffs does.                                      *)

(* Complete JSON makes a new object's fields those of the JSON.            *)
LEMMA CreatedFields ==
    ASSUME NEW json \in [Fields -> Values]
    PROVE  SetFromJson(NewObject, json).fields = json
BY DEF SetFromJson, NewObject

(* Which objects a manager has after applyDiff.                            *)
LEMMA ApplyDiffDomain ==
    ASSUME NEW M, NEW d
    PROVE  DOMAIN ApplyDiff(M, d)
              = (DOMAIN M \cup DOMAIN d.toCreate) \ d.toRemove
BY DEF ApplyDiff, AfterCreatesAndRemoves

(* Where each field comes from: from the update if it has the field, else  *)
(* from the creation, else from the manager.                               *)
LEMMA AppliedField ==
    ASSUME NEW M, IsManager(M), NEW d, IsDiff(d),
           NEW k \in DOMAIN ApplyDiff(M, d), NEW f \in Fields
    PROVE  /\ k \notin DOMAIN d.toCreate => k \in DOMAIN M
           /\ ApplyDiff(M, d)[k].fields[f]
                 = IF k \in DOMAIN d.toUpdate /\ f \in DOMAIN d.toUpdate[k]
                   THEN d.toUpdate[k][f]
                   ELSE IF k \in DOMAIN d.toCreate THEN d.toCreate[k].fields[f]
                                                   ELSE M[k].fields[f]
<1> DEFINE o == AfterCreatesAndRemoves(M, d)[k]
<1>1. k \in (DOMAIN M \cup DOMAIN d.toCreate) \ d.toRemove
  BY ApplyDiffDomain
<1>2. o = IF k \in DOMAIN d.toCreate
          THEN SetFromJson(NewObject, d.toCreate[k].fields) ELSE M[k]
  BY <1>1 DEF AfterCreatesAndRemoves
<1>3. o.fields[f] = IF k \in DOMAIN d.toCreate THEN d.toCreate[k].fields[f]
                                               ELSE M[k].fields[f]
  <2>1. CASE k \in DOMAIN d.toCreate
    <3>1. d.toCreate[k].fields \in [Fields -> Values]
      BY <2>1 DEF IsDiff, Item
    <3>2. SetFromJson(NewObject, d.toCreate[k].fields).fields = d.toCreate[k].fields
      BY <3>1, CreatedFields
    <3> HIDE DEF o
    <3> QED
      BY <1>2, <2>1, <3>2
  <2>2. CASE k \notin DOMAIN d.toCreate
    BY <1>2, <2>2
  <2> QED
    BY <2>1, <2>2
<1>4. ApplyDiff(M, d)[k] = IF k \in DOMAIN d.toUpdate
                           THEN SetFromJson(o, d.toUpdate[k]) ELSE o
  BY <1>1 DEF ApplyDiff, AfterCreatesAndRemoves
<1> HIDE DEF o
<1>5. ApplyDiff(M, d)[k].fields[f]
         = IF k \in DOMAIN d.toUpdate /\ f \in DOMAIN d.toUpdate[k]
           THEN d.toUpdate[k][f] ELSE o.fields[f]
  BY <1>4 DEF SetFromJson
<1> QED
  BY <1>1, <1>3, <1>5

(* A manager and a diff that differ from the object p only where p is      *)
(* dirty yield, under p's key, an object that does too.                    *)
LEMMA ApplyDiffCovered ==
    ASSUME NEW M, IsManager(M), NEW d, IsDiff(d), NEW p,
           NEW k \in DOMAIN ApplyDiff(M, d),
           k \in DOMAIN M => DirtyWhereDifferent(M[k].fields, p),
           k \in DOMAIN d.toCreate => DirtyWhereDifferent(d.toCreate[k].fields, p),
           k \in DOMAIN d.toUpdate => DirtyWhereDifferent(d.toUpdate[k], p)
    PROVE  DirtyWhereDifferent(ApplyDiff(M, d)[k].fields, p)
<1>1. /\ DOMAIN ApplyDiff(M, d)[k].fields = Fields
      /\ k \in DOMAIN M => DOMAIN M[k].fields = Fields
      /\ k \in DOMAIN d.toCreate => DOMAIN d.toCreate[k].fields = Fields
  BY ApplyDiffType DEF IsManager, Object, IsDiff, Item
<1>2. ASSUME NEW f \in Fields, ApplyDiff(M, d)[k].fields[f] # p.fields[f]
      PROVE  f \in p.fieldFlags
  BY <1>1, <1>2, AppliedField DEF DirtyWhereDifferent
<1> QED
  BY <1>1, <1>2 DEF DirtyWhereDifferent

-----------------------------------------------------------------------------
(* The diff between two managers.                                          *)

(* The three parts of a diff, in terms of the two managers: C is the       *)
(* client's, whose snapshot came through the network, S the server's.      *)
LEMMA DiffOfManagers ==
    ASSUME NEW S, NEW C, IsManager(S), IsManager(C),
           NEW d, d = GetDiffWith(GetSnapshot(S), Transmitted(GetSnapshot(C)))
    PROVE  /\ d.toRemove = (DOMAIN C \ DOMAIN S) \cap Representable
           /\ DOMAIN d.toCreate = (DOMAIN S \ DOMAIN C) \cap Representable
           /\ \A k \in DOMAIN d.toCreate : d.toCreate[k] = ToJsonAll(S[k])
           /\ DOMAIN d.toUpdate \subseteq DOMAIN S \cap DOMAIN C \cap Representable
           /\ \A k \in DOMAIN S \cap DOMAIN C \cap Representable :
                 LET json == GetJsonDiff(ToJsonAll(S[k]), ToJsonAll(C[k]))
                 IN  IF k \in DOMAIN d.toUpdate THEN d.toUpdate[k] = json
                                                ELSE DOMAIN json = {}
<1> DEFINE x == GetSnapshot(S)
<1> DEFINE y == Transmitted(GetSnapshot(C))
<1>1. /\ x.bitsetIDs = DOMAIN S
      /\ \A k \in DOMAIN S : x.items[k] = ToJsonAll(S[k])
  BY DEF GetSnapshot
<1>2. /\ y.bitsetIDs = DOMAIN C \cap Representable
      /\ \A k \in DOMAIN C : y.items[k] = ToJsonAll(C[k])
  BY Zenon DEF GetSnapshot, Transmitted
<1> HIDE DEF x, y
<1>3. d = GetDiffWith(x, y)
  BY DEF x, y
<1>4. /\ d.toRemove = (DOMAIN C \ DOMAIN S) \cap Representable
      /\ DOMAIN d.toCreate = (DOMAIN S \ DOMAIN C) \cap Representable
      /\ \A k \in DOMAIN d.toCreate : d.toCreate[k] = ToJsonAll(S[k])
  <2>1. d.toRemove = (y.bitsetIDs \ x.bitsetIDs) \cap Representable
    BY <1>3 DEF GetDiffWith
  <2>2. d.toCreate = [k \in (x.bitsetIDs \ y.bitsetIDs) \cap Representable
                         |-> x.items[k]]
    BY <1>3 DEF GetDiffWith
  <2>3. (x.bitsetIDs \ y.bitsetIDs) \cap Representable
           = (DOMAIN S \ DOMAIN C) \cap Representable
    BY <1>1, <1>2
  <2>4. (y.bitsetIDs \ x.bitsetIDs) \cap Representable
           = (DOMAIN C \ DOMAIN S) \cap Representable
    BY <1>1, <1>2
  <2>5. DOMAIN d.toCreate = (DOMAIN S \ DOMAIN C) \cap Representable
    BY <2>2, <2>3
  <2>6. ASSUME NEW k \in DOMAIN d.toCreate
        PROVE  d.toCreate[k] = ToJsonAll(S[k])
    <3>1. k \in (x.bitsetIDs \ y.bitsetIDs) \cap Representable /\ k \in DOMAIN S
      BY <2>2, <2>5
    <3> QED
      BY <2>2, <3>1, <1>1
  <2> QED
    BY <2>1, <2>4, <2>5, <2>6
<1> DEFINE both == DOMAIN S \cap DOMAIN C \cap Representable
<1>5. both = x.bitsetIDs \cap y.bitsetIDs \cap Representable
  BY <1>1, <1>2
<1>6. \A k \in both : GetJsonDiff(x.items[k], y.items[k])
                          = GetJsonDiff(ToJsonAll(S[k]), ToJsonAll(C[k]))
  BY <1>1, <1>2
<1> HIDE DEF both
<1>7. /\ DOMAIN d.toUpdate
            = {k \in both : DOMAIN GetJsonDiff(x.items[k], y.items[k]) # {}}
      /\ \A k \in DOMAIN d.toUpdate :
            d.toUpdate[k] = GetJsonDiff(x.items[k], y.items[k])
  <2> DEFINE bits == x.bitsetIDs \cap y.bitsetIDs \cap Representable
  <2> DEFINE objDiff == [k \in bits |-> GetJsonDiff(x.items[k], y.items[k])]
  <2>1. GetDiffWith(x, y).toUpdate
           = [k \in {j \in bits : DOMAIN objDiff[j] # {}} |-> objDiff[k]]
    BY DEF GetDiffWith
  <2>2. bits = both
    BY <1>5
  <2> HIDE DEF bits
  <2> QED
    BY <1>3, <2>1, <2>2
<1> QED
  BY <1>4, <1>6, <1>7 DEF both

(* One round trip synchronises: if the client differs from the server only *)
(* where the server's dirty bits are set, the diff applies without a failed *)
(* assertion and leaves the client with the server's objects and values,   *)
(* as far as they have bits.                                               *)
LEMMA RoundTripLemma ==
    ASSUME NEW S, NEW C, IsManager(S), IsManager(C),
           \A k \in DOMAIN C \cap DOMAIN S :
               DirtyWhereDifferent(C[k].fields, S[k]),
           NEW d, d = GetDiffWith(GetSnapshot(S), Transmitted(GetSnapshot(C)))
    PROVE  /\ ~AssertionFails(C, d)
           /\ SameContent(WithBits(ApplyDiff(C, d)), WithBits(S))
<1> DEFINE N == AfterCreatesAndRemoves(C, d)
<1>1. /\ d.toRemove = (DOMAIN C \ DOMAIN S) \cap Representable
      /\ DOMAIN d.toCreate = (DOMAIN S \ DOMAIN C) \cap Representable
      /\ \A k \in DOMAIN d.toCreate : d.toCreate[k] = ToJsonAll(S[k])
      /\ DOMAIN d.toUpdate \subseteq DOMAIN S \cap DOMAIN C \cap Representable
  BY DiffOfManagers
<1>2. \A k \in DOMAIN S \cap DOMAIN C \cap Representable :
         LET json == GetJsonDiff(ToJsonAll(S[k]), ToJsonAll(C[k]))
         IN  IF k \in DOMAIN d.toUpdate THEN d.toUpdate[k] = json
                                        ELSE DOMAIN json = {}
  BY DiffOfManagers
<1>3. /\ DOMAIN N = (DOMAIN C \cup DOMAIN d.toCreate) \ d.toRemove
      /\ DOMAIN N \cap Representable = DOMAIN S \cap Representable
      /\ DOMAIN d.toUpdate \subseteq DOMAIN N
      /\ DOMAIN N \subseteq Key
  BY <1>1 DEF AfterCreatesAndRemoves, IsManager
<1>4. ~AssertionFails(C, d)
  BY <1>1, <1>3 DEF AssertionFails
<1>5. DOMAIN ApplyDiff(C, d) = DOMAIN N
  BY DEF ApplyDiff
<1>6. ASSUME NEW k \in DOMAIN S \cap Representable
      PROVE  ApplyDiff(C, d)[k].fields = S[k].fields
  <2>1. S[k] \in Object
    BY DEF IsManager
  <2>2. CASE k \notin DOMAIN C
    <3>1. k \in DOMAIN d.toCreate /\ k \notin DOMAIN d.toUpdate
      BY <1>1, <2>2
    <3>2. N[k] = SetFromJson(NewObject, d.toCreate[k].fields)
      BY <1>3, <3>1 DEF AfterCreatesAndRemoves
    <3>3. d.toCreate[k].fields = S[k].fields
      <4>1. d.toCreate[k] = ToJsonAll(S[k])
        BY <1>1, <3>1
      <4> QED
        BY <4>1 DEF ToJsonAll
    <3>4. ApplyDiff(C, d)[k] = N[k]
      BY <1>3, <3>1 DEF ApplyDiff
    <3>5. S[k].fields \in [Fields -> Values]
      BY <2>1 DEF Object
    <3> HIDE DEF N
    <3> QED
      BY <3>2, <3>3, <3>4, <3>5, CreatedFields
  <2>3. CASE k \in DOMAIN C
    <3>1. C[k] \in Object /\ k \notin DOMAIN d.toCreate
      BY <1>1, <2>3 DEF IsManager
    <3>2. N[k] = C[k]
      BY <1>3, <3>1 DEF AfterCreatesAndRemoves
    <3> DEFINE json == GetJsonDiff(ToJsonAll(S[k]), ToJsonAll(C[k]))
    <3>3. IF k \in DOMAIN d.toUpdate THEN d.toUpdate[k] = json
                                     ELSE DOMAIN json = {}
      BY <1>2, <2>3
    <3>4. /\ DOMAIN json = {f \in S[k].fieldFlags : S[k].fields[f] # C[k].fields[f]}
          /\ \A f \in DOMAIN json : json[f] = S[k].fields[f]
      BY DEF GetJsonDiff, ToJsonAll
    <3>5. DirtyWhereDifferent(C[k].fields, S[k])
      BY <2>3
    <3>6. \A f \in Fields : f \notin DOMAIN json => S[k].fields[f] = C[k].fields[f]
      BY <3>4, <3>5, <3>1, <2>1 DEF DirtyWhereDifferent, Object
    <3>7. ApplyDiff(C, d)[k] = IF k \in DOMAIN d.toUpdate
                               THEN SetFromJson(C[k], d.toUpdate[k]) ELSE C[k]
      BY <1>3, <3>2 DEF ApplyDiff
    <3> HIDE DEF json
    <3>8. ApplyDiff(C, d)[k].fields
             = [f \in Fields |-> IF f \in DOMAIN json THEN json[f] ELSE C[k].fields[f]]
      BY <3>1, <3>3, <3>7 DEF SetFromJson, Object
    <3> QED
      BY <2>1, <3>4, <3>6, <3>8 DEF Object
  <2> QED
    BY <2>2, <2>3
<1> DEFINE A == ApplyDiff(C, d)
<1>7. /\ DOMAIN WithBits(A) = DOMAIN A \cap Representable
      /\ \A k \in DOMAIN WithBits(A) : WithBits(A)[k] = A[k]
  BY <1>3, <1>5 DEF WithBits, Representable
<1>8. /\ DOMAIN WithBits(S) = DOMAIN S \cap Representable
      /\ \A k \in DOMAIN WithBits(S) : WithBits(S)[k] = S[k]
  BY DEF WithBits, Representable, IsManager
<1> HIDE DEF A, N
<1>9. SameContent(WithBits(A), WithBits(S))
  <2>1. DOMAIN WithBits(A) = DOMAIN WithBits(S)
    BY <1>3, <1>5, <1>7, <1>8 DEF A
  <2>2. \A k \in DOMAIN WithBits(S) : A[k].fields = S[k].fields
    BY <1>6, <1>8 DEF A
  <2> QED
    BY <2>1, <2>2, <1>7, <1>8 DEF SameContent
<1> QED
  BY <1>4, <1>9 DEF A

=============================================================================
