----------------------------- MODULE Replication ----------------------------
(***************************************************************************)
(* What replication promises, whatever the network and the processes do: a *)
(* replica only ever holds objects the original has had, and every field   *)
(* holds a value that field of that object has had there.  A replica may   *)
(* be old, and its fields may be of different ages, but nothing is made up *)
(* and nothing is taken from another object.                               *)
(***************************************************************************)
CONSTANTS Clients, Keys, Fields, Values

VARIABLES
    original,   \* the fields of each object the original has
    past,       \* the values each field of each object has had
    replicas    \* the fields of each object each replica has

Contents == UNION {[K -> [Fields -> Values]] : K \in SUBSET Keys}
Nothing == [k \in {} |-> k]

(* R could have been put together from what the original has had.          *)
IsOf(R, had) ==
    /\ DOMAIN R \subseteq DOMAIN had
    /\ \A k \in DOMAIN R : \A f \in Fields : R[k][f] \in had[k][f]

RInit ==
    /\ original = Nothing
    /\ past = Nothing
    /\ replicas = [c \in Clients |-> Nothing]

(* Any object may come, go or change.  The past only grows, and by no more *)
(* than what the original now has.                                         *)
OriginalChanges ==
    /\ original' \in Contents
    /\ past' = [k \in DOMAIN past \cup DOMAIN original' |->
                   [f \in Fields |->
                       (IF k \in DOMAIN past THEN past[k][f] ELSE {})
                       \cup (IF k \in DOMAIN original' THEN {original'[k][f]}
                                                       ELSE {})]]
    /\ UNCHANGED replicas

ReplicaChanges(c) ==
    /\ IsOf(replicas'[c], past)
    /\ replicas' = [replicas EXCEPT ![c] = replicas'[c]]
    /\ UNCHANGED <<original, past>>

RNext == OriginalChanges \/ \E c \in Clients : ReplicaChanges(c)

RSpec == RInit /\ [][RNext]_<<original, past, replicas>>
=============================================================================
