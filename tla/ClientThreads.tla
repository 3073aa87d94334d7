---------------------------- MODULE ClientThreads ---------------------------
(***************************************************************************)
(* A client's three threads, which share its manager and its sendBuffer    *)
(* without a lock: the receive thread applies diffs, the ping thread takes *)
(* snapshots and sends them, and the user interface sends Data packets.    *)
(*                                                                         *)
(* The server and the network are those of SyncSession.  What is one step  *)
(* there, applying a diff or sending a snapshot, is split here into the    *)
(* accesses to the bitset, the handle map, the objects and the buffer.     *)
(* client[Self] is what the handles lead to.                               *)
(***************************************************************************)
EXTENDS SyncSession

CONSTANTS
    Self,       \* the client (clients do not interact)
    MaxPosts    \* bound: Data packets the user sends

ASSUME ClientThreadsAssumption ==
    /\ Clients = {Self}
    /\ MaxPosts \in Nat

VARIABLES
    bits,       \* the client's bitsetIDs
    nulls,      \* keys with a null handle in the handle map
    freed,      \* keys whose handle leads to an object already destroyed
    recv,       \* the receive thread: where it is, what it has left to apply
    goal,       \* history: what the diff being applied should lead to
    ping,       \* the ping thread: where it is, the snapshot it is taking
    ui,         \* where the user interface is
    sendBuffer, \* its content, who is writing it, and whether both are
    posts       \* what is left of MaxPosts

memory == <<bits, nulls, freed>>
recvVars == <<memory, client, recv, goal>>
sendVars == <<ping, ui, sendBuffer, posts>>
serverSide == <<serverVars, ops>>
allVars == <<vars, memory, recv, goal, sendVars>>

Live == DOMAIN client[Self]
Entries == Live \cup nulls
Alive == status[Self] = "running"
Dies(how) == status' = [status EXCEPT ![Self] = how]
Without(f, x) == [y \in DOMAIN f \ {x} |-> f[y]]
NoDiff == [toCreate |-> <<>>, toRemove |-> {}, toUpdate |-> <<>>]

-----------------------------------------------------------------------------
(* The receive thread in handleSyncRequestSatisfy.                         *)

RecvAt(pc) == Alive /\ recv.pc = pc
RecvUnchanged == UNCHANGED <<serverSide, net, build, faults, restarts, sendVars>>

StartDiff(m) ==
    /\ RecvAt("idle")
    /\ m \in Replies
    /\ net' = BagRemove(net, m)
    /\ recv' = [recv EXCEPT !.pc = "next", !.todo = m.diff]
    /\ goal' = ApplyDiff(client[Self], m.diff)
    /\ UNCHANGED <<serverSide, clientVars, memory, faults, restarts, sendVars>>

AssertionStops(condition) ==
    /\ build[Self] = "debug"
    /\ ~condition
    /\ Dies("aborted")
    /\ UNCHANGED <<bits, recv>>

AssertionLetsBy(condition) == build[Self] = "debug" => condition

(* createImpl: the assertion and setPresent, the (null) entry of the map,  *)
(* create(), and setFromJson.                                              *)
CreateBegins(k) ==
    /\ RecvAt("next")
    /\ k \in DOMAIN recv.todo.toCreate
    /\ \/ AssertionStops(k \notin bits)
       \/ /\ AssertionLetsBy(k \notin bits)
          /\ bits' = bits \cup {k}
          /\ recv' = [recv EXCEPT !.pc = "insert", !.key = k]
          /\ UNCHANGED status
    /\ UNCHANGED <<nulls, freed, goal, client>>
    /\ RecvUnchanged

CreateInserts ==
    /\ RecvAt("insert")
    /\ nulls' = IF recv.key \in Live THEN nulls ELSE nulls \cup {recv.key}
    /\ recv' = [recv EXCEPT !.pc = "make"]
    /\ UNCHANGED <<bits, freed, goal, client, status>>
    /\ RecvUnchanged

CreateMakes ==
    /\ RecvAt("make")
    /\ nulls' = nulls \ {recv.key}
    /\ client' = [client EXCEPT ![Self] = Create(@, recv.key, <<>>)]
    /\ recv' = [recv EXCEPT !.pc = "write",
                            !.json = recv.todo.toCreate[recv.key].fields,
                            !.todo.toCreate = Without(@, recv.key)]
    /\ UNCHANGED <<bits, freed, goal, status>>
    /\ RecvUnchanged

(* setFromJson: field by field.                                            *)
Written(f) == Update(client[Self], recv.key, [g \in {f} |-> recv.json[g]])

WriteField(f) ==
    /\ RecvAt("write")
    /\ f \in DOMAIN recv.json
    /\ client' = [client EXCEPT ![Self] = Written(f)]
    /\ recv' = [recv EXCEPT !.json = Without(@, f),
                            !.pc = IF DOMAIN recv.json = {f} THEN "next" ELSE "write"]
    /\ UNCHANGED <<memory, goal, status>>
    /\ RecvUnchanged

(* removeImpl, after the creations: the assertion and setPresent; the      *)
(* entry is looked up, and put there if missing, and its object destroyed; *)
(* the entry is erased.                                                    *)
RemoveBegins(k) ==
    /\ RecvAt("next")
    /\ recv.todo.toCreate = <<>>
    /\ k \in recv.todo.toRemove
    /\ \/ AssertionStops(k \in bits)
       \/ /\ AssertionLetsBy(k \in bits)
          /\ bits' = bits \ {k}
          /\ recv' = [recv EXCEPT !.pc = "destroy", !.key = k]
          /\ UNCHANGED status
    /\ UNCHANGED <<nulls, freed, goal, client>>
    /\ RecvUnchanged

RemoveDestroys ==
    /\ RecvAt("destroy")
    /\ IF recv.key \in Live
       THEN freed' = freed \cup {recv.key} /\ UNCHANGED nulls
       ELSE nulls' = nulls \cup {recv.key} /\ UNCHANGED freed
    /\ recv' = [recv EXCEPT !.pc = "erase"]
    /\ UNCHANGED <<bits, goal, client, status>>
    /\ RecvUnchanged

(* Mutant: the handle is set to null and the entry stays.                   *)
RemoveNulls ==
    /\ RecvAt("erase")
    /\ client' = [client EXCEPT ![Self] = Remove(@, recv.key)]
    /\ nulls' = nulls \cup {recv.key}
    /\ freed' = freed \ {recv.key}
    /\ recv' = [recv EXCEPT !.pc = "next", !.todo.toRemove = @ \ {recv.key}]
    /\ UNCHANGED <<bits, goal, status>>
    /\ RecvUnchanged

RemoveErases ==
    /\ RecvAt("erase")
    /\ client' = [client EXCEPT ![Self] = Remove(@, recv.key)]
    /\ nulls' = nulls \ {recv.key}
    /\ freed' = freed \ {recv.key}
    /\ recv' = [recv EXCEPT !.pc = "next", !.todo.toRemove = @ \ {recv.key}]
    /\ UNCHANGED <<bits, goal, status>>
    /\ RecvUnchanged

(* updateImpl, last: the assertion, the lookup, and setFromJson through    *)
(* the handle.                                                             *)
UpdateBegins(k) ==
    /\ RecvAt("next")
    /\ recv.todo.toCreate = <<>> /\ recv.todo.toRemove = {}
    /\ k \in DOMAIN recv.todo.toUpdate
    /\ \/ /\ AssertionStops(k \in bits)
          /\ UNCHANGED nulls
       \/ /\ AssertionLetsBy(k \in bits)
          /\ k \notin Live
          /\ nulls' = nulls \cup {k}
          /\ Dies("segfault")
          /\ UNCHANGED <<bits, recv>>
       \/ /\ AssertionLetsBy(k \in bits)
          /\ k \in Live
          /\ recv' = [recv EXCEPT !.pc = "write", !.key = k,
                                  !.json = recv.todo.toUpdate[k],
                                  !.todo.toUpdate = Without(@, k)]
          /\ UNCHANGED <<bits, nulls, status>>
    /\ UNCHANGED <<freed, goal, client>>
    /\ RecvUnchanged

FinishDiff ==
    /\ RecvAt("next")
    /\ recv.todo = NoDiff
    /\ recv' = [recv EXCEPT !.pc = "idle"]
    /\ UNCHANGED <<memory, goal, client, status>>
    /\ RecvUnchanged

ReceiveThread ==
    \/ \E m \in BagToSet(net) : StartDiff(m)
    \/ \E k \in Key : CreateBegins(k)
    \/ CreateInserts
    \/ CreateMakes
    \/ \E f \in Fields : WriteField(f)
    \/ \E k \in Key : RemoveBegins(k)
    \/ RemoveDestroys
    \/ RemoveErases
    \/ \E k \in Key : UpdateBegins(k)
    \/ FinishDiff

-----------------------------------------------------------------------------
(* The ping thread in getSnapshot.                                         *)

PingAt(pc) == Alive /\ ping.pc = pc
PingUnchanged == UNCHANGED <<serverSide, recvVars, build, faults, restarts, posts>>

TakeBits ==
    /\ PingAt("idle")
    /\ HasRoom(Self)
    /\ ping' = [pc |-> "visit", snapshot |-> [bitsetIDs |-> bits, items |-> <<>>]]
    /\ UNCHANGED <<status, net, ui, sendBuffer>>
    /\ PingUnchanged

Visited == DOMAIN ping.snapshot.items

(* The entries the iterator has before it, in the order of their IDs.  One *)
(* that walks a tree while the receive thread relinks its nodes may miss   *)
(* some of them, or all.                                                   *)
Ahead == {k \in Entries : \A j \in Visited : j[1] = k[1] => j[2] < k[2]}
TreeChanges ==
    \/ recv.pc = "erase"
    \/ recv.pc \in {"insert", "destroy"} /\ recv.key \notin Entries
IsNext(k) ==
    /\ k \in Ahead
    /\ TreeChanges \/ \A j \in Ahead : j[1] = k[1] => k[2] <= j[2]

(* The handle is followed: a null one kills the process; an object that is *)
(* destroyed or being written, an entry erased under the iterator, and a   *)
(* tree that changes, may.                                                 *)
VisitMayCrash(k) ==
    \/ k \in nulls \cup freed
    \/ TreeChanges
    \/ recv.pc = "write" /\ recv.key = k
    \/ ~(Visited \subseteq Entries)

Visit(k) ==
    /\ PingAt("visit")
    /\ IsNext(k)
    /\ \/ /\ k \in Live
          /\ ping' = [ping EXCEPT !.snapshot.items =
                        [j \in Visited \cup {k} |->
                            IF j = k THEN ToJsonAll(client[Self][k]) ELSE @[j]]]
          /\ UNCHANGED status
       \/ /\ VisitMayCrash(k)
          /\ Dies("segfault")
          /\ UNCHANGED ping
    /\ UNCHANGED <<net, ui, sendBuffer>>
    /\ PingUnchanged

EndVisit ==
    /\ PingAt("visit")
    /\ Ahead = {} \/ TreeChanges
    /\ ping' = [ping EXCEPT !.pc = "compose"]
    /\ UNCHANGED <<status, net, ui, sendBuffer>>
    /\ PingUnchanged

-----------------------------------------------------------------------------
(* mkPacket and sendTo, by the ping thread or the user interface.          *)

Garbled == [type |-> "Garbled"]
Data == [type |-> "Data"]

(* clear() and the first parts.  Two threads in one sf::Packet may crash.  *)
BeginPacket(thread) ==
    /\ sendBuffer' = [content |-> Garbled,
                      writers |-> sendBuffer.writers \cup {thread},
                      torn    |-> sendBuffer.writers # {}]
    /\ \/ UNCHANGED status
       \/ sendBuffer.writers # {} /\ Dies("segfault")

EndPacket(thread, m) ==
    LET others == sendBuffer.writers \ {thread}
    IN  /\ sendBuffer' = [content |-> IF sendBuffer.torn THEN Garbled ELSE m,
                          writers |-> others,
                          torn    |-> sendBuffer.torn /\ others # {}]
        /\ UNCHANGED status

(* Whatever the buffer holds is sent.  Only snapshots matter here: what    *)
(* Data makes the server's application do is among SyncSession's changes,  *)
(* and what cannot be parsed the server drops.                             *)
SendPacket ==
    /\ net' = IF sendBuffer.content.type = "SyncRequest" /\ HasRoom(Self)
              THEN Sent(sendBuffer.content, net) ELSE net
    /\ UNCHANGED <<sendBuffer, status>>

PingBeginsPacket ==
    /\ PingAt("compose")
    /\ BeginPacket("ping")
    /\ ping' = [ping EXCEPT !.pc = "fill"]
    /\ UNCHANGED <<net, ui>>
    /\ PingUnchanged

PingEndsPacket ==
    /\ PingAt("fill")
    /\ EndPacket("ping", SyncRequest(Self, Transmitted(ping.snapshot)))
    /\ ping' = [ping EXCEPT !.pc = "send"]
    /\ UNCHANGED <<net, ui>>
    /\ PingUnchanged

PingSends ==
    /\ PingAt("send")
    /\ SendPacket
    /\ ping' = [ping EXCEPT !.pc = "idle"]
    /\ UNCHANGED ui
    /\ PingUnchanged

PingThread ==
    \/ TakeBits
    \/ \E k \in Key : Visit(k)
    \/ EndVisit
    \/ PingBeginsPacket
    \/ PingEndsPacket
    \/ PingSends

UIUnchanged == UNCHANGED <<serverSide, recvVars, build, faults, restarts, ping>>

(* sendDataToServer.                                                       *)
UIBeginsPacket ==
    /\ Alive /\ ui = "idle"
    /\ posts > 0
    /\ posts' = posts - 1
    /\ BeginPacket("ui")
    /\ ui' = "fill"
    /\ UNCHANGED net
    /\ UIUnchanged

UIEndsPacket ==
    /\ Alive /\ ui = "fill"
    /\ EndPacket("ui", Data)
    /\ ui' = "send"
    /\ UNCHANGED <<net, posts>>
    /\ UIUnchanged

UISends ==
    /\ Alive /\ ui = "send"
    /\ SendPacket
    /\ ui' = "idle"
    /\ UNCHANGED posts
    /\ UIUnchanged

-----------------------------------------------------------------------------
(* The server and the network.                                             *)

ThreadsUnchanged == UNCHANGED <<memory, recv, goal, sendVars>>

(* An object the snapshot says is alive, and the server has too, is        *)
(* missing among its items: items.at throws in getDiffWith.                *)
Torn(snapshot) ==
    ~(snapshot.bitsetIDs \cap DOMAIN server \subseteq DOMAIN snapshot.items)

(* Mutant: the exception ends the server's receive thread.                  *)
NotCaught(m) == FALSE /\ UNCHANGED allVars

(* tryForwardReceivedPacket catches the exception: no answer.              *)
DropTornRequest(m) ==
    /\ m \in Requests
    /\ Torn(m.snapshot)
    /\ net' = BagRemove(net, m)
    /\ UNCHANGED <<serverSide, clientVars, faults, restarts>>
    /\ ThreadsUnchanged

AnswerRequest(m) ==
    /\ m \in Requests
    /\ ~Torn(m.snapshot)
    /\ HandleSyncRequest(m)
    /\ ThreadsUnchanged

Environment ==
    \/ /\ \/ \E t \in Types, json \in CreateJsons : ServerCreate(t, json)
          \/ \E k \in Key, f \in Fields, v \in Values : ServerEdit(k, f, v)
          \/ \E k \in Key : ServerRemove(k)
          \/ \E m \in BagToSet(net) : Lose(m)
       /\ ThreadsUnchanged
    \/ \E m \in BagToSet(net) : DropTornRequest(m)
    \/ \E m \in BagToSet(net) : AnswerRequest(m)

ThreadsInit ==
    /\ Init
    /\ bits = {} /\ nulls = {} /\ freed = {}
    /\ recv = [pc |-> "idle", todo |-> NoDiff, key |-> <<>>, json |-> <<>>]
    /\ goal = client[Self]
    /\ ping = [pc |-> "idle", snapshot |-> GetSnapshot(EmptyManager)]
    /\ ui = "idle"
    /\ sendBuffer = [content |-> Garbled, writers |-> {}, torn |-> FALSE]
    /\ posts = MaxPosts

ThreadsNext ==
    \/ ReceiveThread
    \/ PingThread
    \/ UIBeginsPacket
    \/ UIEndsPacket
    \/ UISends
    \/ Environment

(* Each thread runs; the user need not post.                               *)
ThreadsSpec ==
    /\ ThreadsInit
    /\ [][ThreadsNext]_allVars
    /\ WF_allVars(ReceiveThread)
    /\ WF_allVars(PingThread)
    /\ WF_allVars(UIEndsPacket \/ UISends)
    /\ WF_allVars(\E m \in Requests : DropTornRequest(m) \/ AnswerRequest(m))

-----------------------------------------------------------------------------
(* Properties.                                                             *)

Idle == Alive /\ recv.pc = "idle"

(* The type invariant: keys, threads and buffer are what they should be,   *)
(* and a snapshot has items for some keys, not always those of its bits.   *)
ThreadsTypeOK ==
    /\ IsManager(server) /\ IsManager(client[Self])
    /\ bits \cup nulls \cup freed \subseteq Key
    /\ status[Self] \in {"running", "aborted", "segfault"}
    /\ IsDiff(recv.todo)
    /\ DOMAIN recv.json \subseteq Fields
    /\ recv.pc \in {"idle", "next", "insert", "make", "write", "destroy", "erase"}
    /\ ping.pc \in {"idle", "visit", "compose", "fill", "send"}
    /\ ui \in {"idle", "fill", "send"}
    /\ sendBuffer.content.type \in {"Garbled", "Data", "SyncRequest"}
    /\ sendBuffer.writers \subseteq {"ping", "ui"}
    /\ \A m \in Requests : /\ m.snapshot.bitsetIDs \cup DOMAIN m.snapshot.items \subseteq Key
                           /\ \A k \in DOMAIN m.snapshot.items : m.snapshot.items[k] \in Item
    /\ \A m \in Replies : IsDiff(m.diff)

(* When a diff has been applied, step by step and through whatever the     *)
(* other threads did meanwhile, the manager is what ApplyDiff says, bits,  *)
(* handles and objects agree and nothing is left half done.                *)
DiffsAppliedWhole ==
    Idle => /\ client[Self] = goal
            /\ bits = Live
            /\ nulls = {} /\ freed = {}

(* Snapshots that mix several moments of the manager do not bring the      *)
(* replica into a state the dirty bits do not cover: between diffs, every  *)
(* field in which it differs from the server is marked dirty there.        *)
CoveredBetweenDiffs == Idle => DirtyCoversDivergence

(* A client that does not crash ends with the server's content and keeps   *)
(* it, whatever torn snapshots and mixed up packets it has sent.           *)
ConvergesOrDies ==
    <>(~Alive) \/ <>[]SameContent(client[Self], server)
=============================================================================
