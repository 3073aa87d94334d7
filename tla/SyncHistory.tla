----------------------------- MODULE SyncHistory ----------------------------
(***************************************************************************)
(* SyncSession with a history of the server's values, to state that it     *)
(* implements Replication.                                                 *)
(***************************************************************************)
EXTENDS SyncSession

VARIABLE past       \* the values each field of each object has had

hvars == <<vars, past>>

(* What has been, when the manager M is there too.                         *)
Recorded(had, M) ==
    [k \in DOMAIN had \cup DOMAIN M |->
        [f \in Fields |-> (IF k \in DOMAIN had THEN had[k][f] ELSE {})
                          \cup (IF k \in DOMAIN M THEN {M[k].fields[f]} ELSE {})]]

HInit == Init /\ past = [k \in {} |-> k]

Records == past' = Recorded(past, server')

(* Each step of Next, recorded.                                            *)
HNext ==
    \/ \E t \in Types, json \in CreateJsons : ServerCreate(t, json) /\ Records
    \/ \E k \in Key, f \in Fields, v \in Values :
           ServerEdit(k, f, v) /\ Records
    \/ \E k \in Key : ServerRemove(k) /\ Records
    \/ \E c \in Clients : SendSyncRequest(c) /\ Records
    \/ \E m \in BagToSet(net) : HandleSyncRequest(m) /\ Records
    \/ \E m \in BagToSet(net) : HandleSyncRequestSatisfy(m) /\ Records
    \/ \E m \in BagToSet(net) : Lose(m) /\ Records
    \/ \E m \in BagToSet(net) : Duplicate(m) /\ Records
    \/ \E c \in Clients : Restart(c) /\ Records

HSpec == HInit /\ [][HNext]_hvars

FieldsOf(M) == [k \in DOMAIN M |-> M[k].fields]

R == INSTANCE Replication WITH
        Keys <- Key,
        original <- FieldsOf(server),
        replicas <- [c \in Clients |-> FieldsOf(client[c])]

(* The replicas show nothing but what the server has had, under the same   *)
(* ID and in the same field, through lost, late and repeated diffs,        *)
(* removals and restarts.                                                  *)
ShowsThePast == R!RSpec
=============================================================================
