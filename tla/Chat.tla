-------------------------------- MODULE Chat --------------------------------
(***************************************************************************)
(* The chat application of main.cpp on top of the synchronisation: users   *)
(* send messages and edits to the server in Data packets, the server's     *)
(* onDataReceived turns them into objects and edits of objects, and the    *)
(* clients show what synchronisation brings them.                          *)
(*                                                                         *)
(* A message names itself in its field messageID, from main's own counter  *)
(* lastID; the manager, from another counter, gives it the ID under which  *)
(* EditMsg looks it up.  onDataReceived runs in the server's receive       *)
(* thread, so handling a packet is one step.                               *)
(***************************************************************************)
EXTENDS SyncSession

CONSTANTS
    Message,    \* the one type of object
    Texts       \* what users write

ASSUME ChatAssumption ==
    /\ Types = {Message}
    /\ Fields = {"messageID", "author", "contents"}
    /\ ID \cup Clients \cup Texts \subseteq Values
    /\ MaxIDs >= MaxOps + MaxFaults     \* no message is one too many

VARIABLES
    lastID,     \* main's counter of messages
    data,       \* the bag of Data packets on their way to the server
    serverUp    \* FALSE once the server has written through a null handle

appVars == <<lastID, data, serverUp>>
chatVars == <<vars, appVars>>

SendMsg(c, text) == [type |-> "SendMsg", author |-> c, text |-> text]

(* shown is a history field: whether the author's client shows the message. *)
EditMsg(c, id, text, shown) ==
    [type |-> "EditMsg", author |-> c, id |-> id, text |-> text, shown |-> shown]

-----------------------------------------------------------------------------
(* The users.  ops is what is left of the bound on what they post.         *)

Posts(m) ==
    /\ ops > 0
    /\ ops' = ops - 1
    /\ data' = BagAdd(data, m)
    /\ UNCHANGED <<serverVars, clientVars, net, faults, restarts, lastID, serverUp>>

(* "0. New message"                                                        *)
NewMessage(c, text) ==
    /\ status[c] = "running"
    /\ Posts(SendMsg(c, text))

(* "1. Edit message", with any ID: the menu does not check it.             *)
EditMessage(c, id, text) ==
    /\ status[c] = "running"
    /\ Posts(EditMsg(c, id, text, <<Message, id>> \in DOMAIN client[c]))

-----------------------------------------------------------------------------
(* The server's onDataReceived.                                            *)

Handles(m) ==
    /\ serverUp
    /\ data' = BagRemove(data, m)
    /\ UNCHANGED <<clientVars, net, ops, faults, restarts>>

(* Mutant: the counter is advanced before it is used.                       *)
HandleSendMsgPreIncrement(m) ==
    LET json == [messageID |-> lastID + 1, author |-> m.author, contents |-> m.text]
    IN  /\ m.type = "SendMsg"
        /\ lastIDs[Message] < MaxIDs
        /\ lastID' = lastID + 1
        /\ lastIDs' = [lastIDs EXCEPT ![Message] = @ + 1]
        /\ server' = Create(server, <<Message, lastIDs[Message]>>, json)
        /\ UNCHANGED serverUp
        /\ Handles(m)

HandleSendMsg(m) ==
    LET json == [messageID |-> lastID, author |-> m.author, contents |-> m.text]
    IN  /\ m.type = "SendMsg"
        /\ lastIDs[Message] < MaxIDs
        /\ lastID' = lastID + 1
        /\ lastIDs' = [lastIDs EXCEPT ![Message] = @ + 1]
        /\ server' = Create(server, <<Message, lastIDs[Message]>>, json)
        /\ UNCHANGED serverUp
        /\ Handles(m)

(* Mutant: the message is taken to be the one after the ID, as if IDs were  *)
(* counted from 1.                                                          *)
HandleEditMsgOffByOne(m) ==
    LET k == <<Message, m.id + 1>>
    IN  /\ m.type = "EditMsg"
        /\ IF k \in DOMAIN server
           THEN /\ server' = [server EXCEPT ![k] = Edit(@, "contents", m.text)]
                /\ UNCHANGED serverUp
           ELSE serverUp' = FALSE /\ UNCHANGED server
        /\ UNCHANGED <<lastID, lastIDs>>
        /\ Handles(m)

(* The message is looked up under the ID that was typed.  The author of    *)
(* the packet is read and not used.                                        *)
HandleEditMsg(m) ==
    LET k == <<Message, m.id>>
    IN  /\ m.type = "EditMsg"
        /\ IF k \in DOMAIN server
           THEN /\ server' = [server EXCEPT ![k] = Edit(@, "contents", m.text)]
                /\ UNCHANGED serverUp
           ELSE serverUp' = FALSE /\ UNCHANGED server
        /\ UNCHANGED <<lastID, lastIDs>>
        /\ Handles(m)

HandleData(m) == HandleSendMsg(m) \/ HandleEditMsg(m)

-----------------------------------------------------------------------------
(* The network.                                                            *)

DataFault ==
    /\ faults > 0
    /\ faults' = faults - 1
    /\ UNCHANGED <<serverVars, clientVars, net, ops, restarts, lastID, serverUp>>

(* A server that has ended hears nothing: what is sent to it is lost.      *)
LoseUnheardData(m) ==
    /\ ~serverUp
    /\ data' = BagRemove(data, m)
    /\ UNCHANGED <<serverVars, clientVars, net, ops, faults, restarts, lastID, serverUp>>

LoseUnheardRequest(m) ==
    /\ ~serverUp
    /\ net' = BagRemove(net, m)
    /\ UNCHANGED <<serverVars, clientVars, ops, faults, restarts, appVars>>

LoseData(m) == DataFault /\ data' = BagRemove(data, m)
DuplicateData(m) == DataFault /\ data' = BagAdd(data, m)

-----------------------------------------------------------------------------
ChatInit ==
    /\ Init
    /\ lastID = 0
    /\ data = EmptyBag
    /\ serverUp = TRUE

Synchronisation ==
    /\ \/ \E c \in Clients : SendSyncRequest(c)
       \/ \E m \in BagToSet(net) : serverUp /\ HandleSyncRequest(m)
       \/ \E m \in BagToSet(net) : HandleSyncRequestSatisfy(m)
       \/ \E m \in BagToSet(net) : Lose(m)
       \/ \E m \in BagToSet(net) : Duplicate(m)
    /\ UNCHANGED appVars

ChatNext ==
    \/ \E c \in Clients, text \in Texts : NewMessage(c, text)
    \/ \E c \in Clients, id \in ID, text \in Texts : EditMessage(c, id, text)
    \/ \E m \in BagToSet(data) : HandleSendMsg(m)
    \/ \E m \in BagToSet(data) : HandleEditMsg(m)
    \/ \E m \in BagToSet(data) : LoseData(m)
    \/ \E m \in BagToSet(data) : DuplicateData(m)
    \/ \E m \in BagToSet(data) : LoseUnheardData(m)
    \/ \E m \in Requests : LoseUnheardRequest(m)
    \/ Synchronisation

(* The threads that synchronise run, as in SyncSession, and so does the    *)
(* server's receive thread for Data packets.  Users need not write.        *)
ChatFairness ==
    /\ \A c \in Clients :
          /\ WF_chatVars(SendSyncRequest(c) /\ UNCHANGED appVars)
          /\ WF_chatVars(\E m \in Requests :
                /\ m.client = c /\ serverUp
                /\ HandleSyncRequest(m) /\ UNCHANGED appVars)
          /\ WF_chatVars(\E m \in Replies :
                m.client = c /\ HandleSyncRequestSatisfy(m) /\ UNCHANGED appVars)
    /\ WF_chatVars(\E m \in BagToSet(data) : HandleData(m))

ChatSpec == ChatInit /\ [][ChatNext]_chatVars /\ ChatFairness

-----------------------------------------------------------------------------
(* Properties.                                                             *)

(* Two counters, in main and in the manager, that nothing ties together,   *)
(* and copies of both in replicas and in diffs that may be old: everywhere *)
(* a message's messageID is the ID it can be edited under.                 *)
NamesItself(k, fields) ==
    "messageID" \in DOMAIN fields => fields.messageID = k[2]

MessageIDsAgree ==
    /\ lastID = lastIDs[Message]
    /\ \A k \in DOMAIN server : NamesItself(k, server[k].fields)
    /\ \A c \in Clients : \A k \in DOMAIN client[c] :
          NamesItself(k, client[c][k].fields)
    /\ \A m \in Replies :
          /\ \A k \in DOMAIN m.diff.toCreate :
                NamesItself(k, m.diff.toCreate[k].fields)
          /\ \A k \in DOMAIN m.diff.toUpdate : NamesItself(k, m.diff.toUpdate[k])

(* The server writes through the null handle of an unknown ID only for a   *)
(* user who typed one his client did not show: an edit of a message that   *)
(* some client shows finds it, however early, late or repeated the packets *)
(* are that create it, bring it to the client and edit it.                 *)
EditsFindTheirMessage ==
    [][serverUp /\ ~serverUp' =>
          \E m \in BagToSet(data) :
              m.type = "EditMsg" /\ ~m.shown /\ data' = BagRemove(data, m)]_chatVars

(* Once the users are quiet and the network has stopped failing, every     *)
(* packet that was not lost has been handled, and every client shows what  *)
(* the server has and keeps showing it; unless an unknown ID has ended the *)
(* server.                                                                 *)
Settles ==
    \/ <>(~serverUp)
    \/ <>[](/\ data = EmptyBag
            /\ \A c \in Clients : SameContent(client[c], server))
=============================================================================
