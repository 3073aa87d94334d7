----------------------------- MODULE ObjectMap -----------------------------
(***************************************************************************)
(* What a SyncManager promises its users: a map from unique IDs to         *)
(* objects.  An operation under an ID affects the object with that ID and  *)
(* no other, and the IDs of new objects are handed out in order.           *)
(*                                                                         *)
(* Module SyncManager implements this with bitsets, handles and storage;   *)
(* module SyncSession uses it for the server and for every client.         *)
(***************************************************************************)
EXTENDS SyncData

CONSTANT Jsons      \* the JSON objects that objects are made or set from

VARIABLES
    objects,    \* the live objects
    lastIDs     \* the next ID of each type

mapVars == <<objects, lastIDs>>

MapInit ==
    /\ objects = EmptyManager
    /\ lastIDs = [t \in Types |-> 0]

(* A new object under the next ID of its type.                             *)
MapServerCreate(t, json) ==
    /\ objects' = Create(objects, <<t, lastIDs[t]>>, json)
    /\ lastIDs' = [lastIDs EXCEPT ![t] = @ + 1]

(* A new object under an ID the network names.                             *)
MapCreate(k, json) ==
    /\ objects' = Create(objects, k, json)
    /\ UNCHANGED lastIDs

MapRemove(k) ==
    /\ objects' = Remove(objects, k)
    /\ UNCHANGED lastIDs

MapUpdate(k, json) ==
    /\ k \in DOMAIN objects
    /\ objects' = Update(objects, k, json)
    /\ UNCHANGED lastIDs

MapEdit(k, f, v) ==
    /\ k \in DOMAIN objects
    /\ objects' = [objects EXCEPT ![k] = Edit(@, f, v)]
    /\ UNCHANGED lastIDs

MapNext ==
    \/ \E t \in Types, json \in Jsons : MapServerCreate(t, json)
    \/ \E k \in Key, json \in Jsons : MapCreate(k, json) \/ MapUpdate(k, json)
    \/ \E k \in Key : MapRemove(k)
    \/ \E k \in Key, f \in Fields, v \in Values : MapEdit(k, f, v)

MapSpec == MapInit /\ [][MapNext]_mapVars
=============================================================================
