----------------------------- MODULE ChatProofs -----------------------------
(***************************************************************************)
(* Theorems about Chat, for every value of its constants: any number of    *)
(* clients, of messages and of datagrams in flight, lost or repeated.      *)
(***************************************************************************)
EXTENDS Chat, SyncSessionProofs

-----------------------------------------------------------------------------
(* The steps, by what they do to the state that is synchronised.           *)

(* Data packets on their way are what the users' menus make.               *)
DataOK ==
    \A m \in BagToSet(data) :
        /\ m.type \in {"SendMsg", "EditMsg"}
        /\ m.author \in Clients /\ m.text \in Texts
        /\ m.type = "EditMsg" => m.id \in ID

(* Every text is a value, and every ID.                                    *)
LEMMA TextsAreValues == Texts \cup Clients \cup ID \subseteq Values
BY ChatAssumption

(* main's two counters agree: what onDataReceived creates gets the ID its  *)
(* messageID says.                                                         *)
LEMMA SendMsgCreates ==
    ASSUME ServerTypeOK, DataOK, lastID = lastIDs[Message],
           NEW m \in BagToSet(data), HandleSendMsg(m)
    PROVE  LET json == [messageID |-> lastID, author |-> m.author, contents |-> m.text]
           IN  /\ Creates(Message, json)
               /\ lastID' = lastIDs'[Message]
<1> DEFINE json == [messageID |-> lastID, author |-> m.author, contents |-> m.text]
<1>1. Message \in Types /\ Fields = {"messageID", "author", "contents"}
  BY ChatAssumption
<1>2. lastIDs[Message] < MaxIDs
  BY DEF HandleSendMsg
<1>3. lastID \in ID
  <2>1. <<Message, lastIDs[Message]>> \in Key
    BY <1>1, <1>2, NextKey
  <2> QED
    BY <2>1 DEF Key
<1>4. IsJson(json)
  BY <1>1, <1>3, TextsAreValues DEF IsJson, DataOK
<1>5. Creates(Message, json)
  BY <1>4 DEF HandleSendMsg, Creates
<1>6. lastID' = lastIDs'[Message]
  BY <1>1 DEF HandleSendMsg, ServerTypeOK
<1> QED
  BY <1>5, <1>6

(* The edit of a message that exists is an edit of its contents; the edit  *)
(* of another ends the server.                                             *)
LEMMA EditMsgEdits ==
    ASSUME DataOK, NEW m \in BagToSet(data), HandleEditMsg(m)
    PROVE  LET k == <<Message, m.id>>
           IN  /\ k \in DOMAIN server =>
                     /\ "contents" \in Fields /\ m.text \in Values
                     /\ Edits(k, "contents", m.text)
                     /\ UNCHANGED serverUp
               /\ k \notin DOMAIN server => UNCHANGED serverVars
               /\ UNCHANGED <<lastID, lastIDs>>
<1>1. "contents" \in Fields /\ m.text \in Values
  BY ChatAssumption, TextsAreValues DEF DataOK
<1> QED
  BY <1>1 DEF HandleEditMsg, Edits, serverVars

(* A step of the chat is one of three: the server's application changes    *)
(* its objects, nothing that is synchronised changes except that datagrams *)
(* may be lost, or an exchange goes on.                                    *)
ServerHandles ==
    /\ ServerChanges
    /\ UNCHANGED <<clientVars, net, ops, faults, restarts>>

StandsStill ==
    /\ UNCHANGED <<serverVars, clientVars, restarts>>
    /\ BagToSet(net') \subseteq BagToSet(net)
    /\ \/ ops > 0 /\ ops' = ops - 1 /\ UNCHANGED faults
       \/ faults > 0 /\ faults' = faults - 1 /\ UNCHANGED ops
       \/ UNCHANGED <<ops, faults>>

(* Every step of the chat handles a post, exchanges, or does neither.      *)
LEMMA StepKinds ==
    ASSUME ServerTypeOK, DataOK, lastID = lastIDs[Message], [ChatNext]_chatVars
    PROVE  ServerHandles \/ StandsStill \/ Exchange
<1>1. ASSUME NEW m, Posts(m) PROVE StandsStill
  BY <1>1 DEF Posts, StandsStill
<1>2. ASSUME NEW m \in BagToSet(data), HandleSendMsg(m) PROVE ServerHandles
  <2>1. ServerChanges
    BY <1>2, SendMsgCreates, ChatAssumption DEF ServerChanges
  <2> QED
    BY <1>2, <2>1 DEF HandleSendMsg, Handles, ServerHandles
<1>3. ASSUME NEW m \in BagToSet(data), HandleEditMsg(m) PROVE ServerHandles \/ StandsStill
  <2>1. ServerChanges \/ UNCHANGED serverVars
    BY <1>3, EditMsgEdits DEF ServerChanges
  <2> QED
    BY <1>3, <2>1 DEF HandleEditMsg, Handles, ServerHandles, StandsStill
<1>4. ASSUME DataFault PROVE StandsStill
  BY <1>4 DEF DataFault, StandsStill
<1>7. ASSUME NEW m, LoseUnheardData(m) \/ LoseUnheardRequest(m) PROVE StandsStill
  BY <1>7, BagFacts DEF LoseUnheardData, LoseUnheardRequest, StandsStill
<1>5. CASE Synchronisation
  BY <1>5 DEF Synchronisation, Exchange
<1>6. CASE UNCHANGED chatVars
  BY <1>6 DEF chatVars, vars, StandsStill
<1> QED
  BY <1>1, <1>2, <1>3, <1>4, <1>5, <1>6, <1>7
     DEF ChatNext, NewMessage, EditMessage, LoseData, DuplicateData

-----------------------------------------------------------------------------
(* What synchronisation promises, it promises the chat.                    *)

(* The invariants of SyncSession through each kind of step.                *)
LEMMA KindsKeepIInv ==
    ASSUME IInv, ServerHandles \/ StandsStill \/ Exchange
    PROVE  IInv'
<1>0. TypeOK /\ ServerTypeOK
  BY DEF IInv, TypeOK, ServerTypeOK
<1>1. CASE ServerHandles
  <2>1. ServerTypeOK'
    BY <1>0, <1>1, ServerChangesType DEF ServerHandles
  <2>2. TypeOK'
    BY <1>0, <1>1, <2>1 DEF ServerHandles, clientVars, ServerTypeOK, TypeOK, IsMessage
  <2> QED
    BY <1>1, <2>2, ServerChangesIInv DEF ServerHandles, clientVars
<1>2. CASE StandsStill
  <2>1. ops' \in 0 .. MaxOps /\ faults' \in 0 .. MaxFaults
    BY <1>0, <1>2, SyncSessionAssumption DEF StandsStill, TypeOK
  <2>2. TypeOK'
    BY <1>0, <1>2, <2>1 DEF StandsStill, serverVars, clientVars, TypeOK, IsMessage
  <2>3. OnlyIssuedIDs' /\ DirtyCoversDivergence' /\ DirtyCoversInFlight'
    BY <1>2 DEF StandsStill, serverVars, clientVars, IInv, OnlyIssuedIDs, Issued,
       DirtyCoversDivergence, DirtyCoversInFlight, Replies
  <2> QED
    BY <2>2, <2>3 DEF IInv
<1>3. CASE Exchange
  BY <1>3, NextIInv DEF Exchange, Next
<1> QED
  BY <1>1, <1>2, <1>3

-----------------------------------------------------------------------------
(* Messages name themselves.                                               *)

(* NamesItself for a manager and for a diff.                               *)
NamesInManager(M) == \A k \in DOMAIN M : NamesItself(k, M[k].fields)
NamesInDiff(d) ==
    /\ \A k \in DOMAIN d.toCreate : NamesItself(k, d.toCreate[k].fields)
    /\ \A k \in DOMAIN d.toUpdate : NamesItself(k, d.toUpdate[k])

(* MessageIDsAgree, holder by holder.                                      *)
LEMMA MessageIDsByHolder ==
    MessageIDsAgree <=> /\ lastID = lastIDs[Message]
                        /\ NamesInManager(server)
                        /\ \A c \in Clients : NamesInManager(client[c])
                        /\ \A m \in Replies : NamesInDiff(m.diff)
BY DEF MessageIDsAgree, NamesInManager, NamesInDiff

(* Applying a diff gives an object no name but those of the diff and of    *)
(* the manager.                                                            *)
LEMMA AppliedNames ==
    ASSUME NEW M, IsManager(M), NamesInManager(M),
           NEW d, IsDiff(d), NamesInDiff(d)
    PROVE  NamesInManager(ApplyDiff(M, d))
<1> SUFFICES ASSUME NEW k \in DOMAIN ApplyDiff(M, d)
             PROVE  ApplyDiff(M, d)[k].fields["messageID"] = k[2]
  BY DEF NamesInManager, NamesItself
<1>1. "messageID" \in Fields
  BY ChatAssumption
<1>2. /\ k \in DOMAIN M => M[k].fields["messageID"] = k[2]
      /\ k \in DOMAIN d.toCreate => d.toCreate[k].fields["messageID"] = k[2]
      /\ k \in DOMAIN d.toUpdate /\ "messageID" \in DOMAIN d.toUpdate[k]
            => d.toUpdate[k]["messageID"] = k[2]
  BY <1>1 DEF NamesInManager, NamesInDiff, NamesItself, IsManager, Object, IsDiff, Item
<1> QED
  BY <1>1, <1>2, AppliedField

(* The diff of a server whose messages name themselves names them so.      *)
LEMMA FreshNames ==
    ASSUME IsManager(server), NamesInManager(server), NEW snapshot
    PROVE  NamesInDiff(GetDiffWith(GetSnapshot(server), snapshot))
<1>1. PICK d : d = GetDiffWith(GetSnapshot(server), snapshot)
  OBVIOUS
<1>2. /\ DOMAIN d.toCreate \subseteq DOMAIN server
      /\ \A k \in DOMAIN d.toCreate : d.toCreate[k].fields = server[k].fields
      /\ DOMAIN d.toUpdate \subseteq DOMAIN server
      /\ \A k \in DOMAIN d.toUpdate : \A f \in DOMAIN d.toUpdate[k] :
            d.toUpdate[k][f] = server[k].fields[f]
  BY <1>1, FreshDiff
<1>3. \A k \in DOMAIN server : server[k].fields["messageID"] = k[2]
  BY ChatAssumption DEF NamesInManager, NamesItself, IsManager, Object
<1>4. NamesInDiff(d)
  BY <1>2, <1>3 DEF NamesInDiff, NamesItself
<1> QED
  BY <1>1, <1>4

(* The server's own messages, through onDataReceived.                      *)
LEMMA SendMsgNames ==
    ASSUME TypeOK, DataOK, lastID = lastIDs[Message], NamesInManager(server),
           NEW m \in BagToSet(data), HandleSendMsg(m)
    PROVE  NamesInManager(server') /\ lastID' = lastIDs'[Message]
<1>1. PICK json : json = [messageID |-> lastID, author |-> m.author, contents |-> m.text]
  OBVIOUS
<1>2. Creates(Message, json) /\ lastID' = lastIDs'[Message]
  BY <1>1, SendMsgCreates DEF TypeOK, ServerTypeOK
<1>3. json \in [Fields -> Values] /\ json["messageID"] = lastID
  BY <1>1, <1>2, ChatAssumption DEF Creates, IsJson
<1>4. PICK new : new = <<Message, lastIDs[Message]>>
  OBVIOUS
<1>5. /\ DOMAIN server' = DOMAIN server \cup {new}
      /\ server'[new].fields = json
      /\ \A k \in DOMAIN server : k # new => server'[k] = server[k]
  BY <1>2, <1>3, <1>4, CreatedFields DEF Creates, Create
<1>6. new[2] = lastID
  BY <1>4
<1>7. NamesInManager(server')
  BY <1>3, <1>5, <1>6 DEF NamesInManager, NamesItself
<1> QED
  BY <1>2, <1>7

(* An edit changes the contents, so it leaves each message its number.     *)
LEMMA EditMsgNames ==
    ASSUME TypeOK, DataOK, NamesInManager(server),
           NEW m \in BagToSet(data), HandleEditMsg(m)
    PROVE  NamesInManager(server')
<1>1. PICK k : k = <<Message, m.id>>
  OBVIOUS
<1>2. CASE k \in DOMAIN server
  <2>1. server' = [server EXCEPT ![k] = Edit(@, "contents", m.text)]
    BY <1>1, <1>2, EditMsgEdits DEF Edits
  <2>2. Edit(server[k], "contents", m.text).fields["messageID"] = server[k].fields["messageID"]
    BY DEF Edit
  <2>3. "messageID" \in DOMAIN server[k].fields
    BY <1>2, ChatAssumption DEF TypeOK, IsManager, Object
  <2>4. server'[k].fields["messageID"] = k[2]
    BY <1>2, <2>1, <2>2, <2>3 DEF NamesInManager, NamesItself
  <2> QED
    BY <2>1, <2>4 DEF NamesInManager, NamesItself
<1>3. CASE k \notin DOMAIN server
  BY <1>1, <1>3, EditMsgEdits DEF serverVars
<1> QED
  BY <1>2, <1>3

(* An exchange carries names to and fro as they are.                       *)
LEMMA ExchangeNames ==
    ASSUME TypeOK, NamesInManager(server),
           \A c \in Clients : NamesInManager(client[c]),
           \A m \in Replies : NamesInDiff(m.diff),
           Exchange
    PROVE  /\ UNCHANGED serverVars
           /\ \A c \in Clients : NamesInManager(client'[c])
           /\ \A m \in Replies' : NamesInDiff(m.diff)
<1> DEFINE Kept == /\ UNCHANGED serverVars
                   /\ \A c \in Clients : NamesInManager(client'[c])
                   /\ \A m \in Replies' : NamesInDiff(m.diff)
<1>1. ASSUME NEW c \in Clients, SendSyncRequest(c) PROVE Kept
  <2>1. PICK r : r = SyncRequest(c, Transmitted(GetSnapshot(client[c])))
    OBVIOUS
  <2>2. r.type = "SyncRequest"
    BY <2>1, MessageFacts
  <2>3. /\ UNCHANGED <<serverVars, client>>
        /\ BagToSet(net') \subseteq BagToSet(net) \cup {r}
    BY <1>1, <2>1, SentFacts DEF SendSyncRequest, clientVars
  <2> QED
    BY <2>2, <2>3 DEF Replies
<1>2. ASSUME NEW m \in BagToSet(net), HandleSyncRequest(m) PROVE Kept
  <2>1. PICK d : d = GetDiffWith(GetSnapshot(server), m.snapshot)
    OBVIOUS
  <2>2. PICK r : r = SyncRequestSatisfy(m.client, d, m.snapshot.bitsetIDs)
    OBVIOUS
  <2>3. r.diff = d /\ NamesInDiff(d)
    BY <2>1, <2>2, MessageFacts, FreshNames DEF TypeOK
  <2>4. /\ UNCHANGED <<serverVars, client>>
        /\ BagToSet(net') \subseteq BagToSet(net) \cup {r}
    BY <1>2, <2>1, <2>2, SentFacts, BagFacts DEF HandleSyncRequest, clientVars
  <2> QED
    BY <2>3, <2>4 DEF Replies
<1>3. ASSUME NEW m \in BagToSet(net), HandleSyncRequestSatisfy(m) PROVE Kept
  <2>1. /\ m \in Replies /\ m.client \in Clients /\ IsDiff(m.diff)
        /\ IsManager(client[m.client]) /\ DOMAIN client = Clients
    BY <1>3 DEF HandleSyncRequestSatisfy, Replies, TypeOK, IsMessage
  <2>2. PICK A : A = ApplyDiff(client[m.client], m.diff)
    OBVIOUS
  <2>3. NamesInManager(A)
    BY <2>1, <2>2, AppliedNames
  <2>4. UNCHANGED client \/ client' = [client EXCEPT ![m.client] = A]
    BY <1>3, <2>2 DEF HandleSyncRequestSatisfy
  <2>5. \A c \in Clients : NamesInManager(client'[c])
    BY <2>1, <2>3, <2>4
  <2>6. UNCHANGED serverVars /\ BagToSet(net') \subseteq BagToSet(net)
    BY <1>3, BagFacts DEF HandleSyncRequestSatisfy
  <2> QED
    BY <2>5, <2>6 DEF Replies
<1>4. ASSUME NEW m \in BagToSet(net), Lose(m) \/ Duplicate(m) PROVE Kept
  <2>1. UNCHANGED <<serverVars, client>> /\ BagToSet(net') \subseteq BagToSet(net)
    BY <1>4, BagFacts DEF Lose, Duplicate, clientVars
  <2> QED
    BY <2>1 DEF Replies
<1> QED
  BY <1>1, <1>2, <1>3, <1>4 DEF Exchange

-----------------------------------------------------------------------------
(* The invariant.                                                          *)

ChatIInv ==
    /\ IInv /\ DataOK
    /\ MessageIDsAgree
    /\ PresenceIsMonotone /\ NoSegfault

(* Nobody has written anything yet.                                        *)
LEMMA InitChat == ChatInit => ChatIInv
<1> SUFFICES ASSUME ChatInit PROVE ChatIInv
  OBVIOUS
<1>1. IInv /\ Init
  BY InitIInv DEF ChatInit
<1>2. DataOK
  BY DEF ChatInit, DataOK, EmptyBag, SetToBag, BagToSet
<1>3. Replies = {} /\ Requests = {}
  BY <1>1 DEF Init, Replies, Requests, EmptyBag, SetToBag, BagToSet
<1>4. MessageIDsAgree
  BY <1>1, <1>3, ChatAssumption DEF ChatInit, Init, MessageIDsAgree, EmptyManager
<1>5. PresenceIsMonotone /\ NoSegfault
  BY <1>1, <1>3 DEF Init, PresenceIsMonotone, NoSegfault, EmptyManager
<1> QED
  BY <1>1, <1>2, <1>4, <1>5 DEF ChatIInv

(* Users make packets of their own texts, about messages with IDs.         *)
LEMMA NextData == DataOK /\ [ChatNext]_chatVars => DataOK'
<1> SUFFICES ASSUME DataOK, [ChatNext]_chatVars PROVE DataOK'
  OBVIOUS
<1>1. ASSUME NEW c \in Clients, NEW text \in Texts, NewMessage(c, text) PROVE DataOK'
  <2>1. BagToSet(data') = BagToSet(data) \cup {SendMsg(c, text)}
    BY <1>1, BagFacts DEF NewMessage, Posts
  <2> QED
    BY <2>1 DEF DataOK, SendMsg
<1>2. ASSUME NEW c \in Clients, NEW id \in ID, NEW text \in Texts, EditMessage(c, id, text)
      PROVE  DataOK'
  <2>1. PICK m : m = EditMsg(c, id, text, <<Message, id>> \in DOMAIN client[c])
    OBVIOUS
  <2>2. BagToSet(data') = BagToSet(data) \cup {m}
    BY <1>2, <2>1, BagFacts DEF EditMessage, Posts
  <2>3. m.type = "EditMsg" /\ m.author = c /\ m.text = text /\ m.id = id
    BY <2>1 DEF EditMsg
  <2> QED
    BY <2>2, <2>3 DEF DataOK
<1>3. ASSUME NEW m \in BagToSet(data),
             \/ HandleSendMsg(m) \/ HandleEditMsg(m)
             \/ LoseData(m) \/ DuplicateData(m) \/ LoseUnheardData(m)
      PROVE  DataOK'
  <2>1. BagToSet(data') \subseteq BagToSet(data)
    BY <1>3, BagFacts DEF HandleSendMsg, HandleEditMsg, Handles, LoseData, DuplicateData,
       LoseUnheardData
  <2> QED
    BY <2>1 DEF DataOK
<1>4. CASE Synchronisation \/ (\E m \in Requests : LoseUnheardRequest(m)) \/ UNCHANGED chatVars
  BY <1>4 DEF Synchronisation, LoseUnheardRequest, chatVars, appVars, DataOK
<1> QED
  BY <1>1, <1>2, <1>3, <1>4 DEF ChatNext

(* Every step keeps the names.                                             *)
LEMMA NextNames ==
    ASSUME TypeOK, DataOK, MessageIDsAgree, [ChatNext]_chatVars
    PROVE  MessageIDsAgree'
<1>0. /\ lastID = lastIDs[Message]
      /\ NamesInManager(server)
      /\ \A c \in Clients : NamesInManager(client[c])
      /\ \A m \in Replies : NamesInDiff(m.diff)
  BY MessageIDsByHolder
<1> SUFFICES /\ lastID' = lastIDs'[Message]
             /\ NamesInManager(server')
             /\ \A c \in Clients : NamesInManager(client'[c])
             /\ \A m \in Replies' : NamesInDiff(m.diff)
  BY DEF MessageIDsAgree, NamesInManager, NamesInDiff
<1>1. ASSUME UNCHANGED client, BagToSet(net') \subseteq BagToSet(net)
      PROVE  /\ \A c \in Clients : NamesInManager(client'[c])
             /\ \A m \in Replies' : NamesInDiff(m.diff)
  BY <1>0, <1>1 DEF Replies
<1>2. CASE /\ UNCHANGED <<serverVars, client, lastID>>
           /\ BagToSet(net') \subseteq BagToSet(net)
  BY <1>0, <1>1, <1>2 DEF serverVars
<1>3. ASSUME NEW m \in BagToSet(data), HandleSendMsg(m)
      PROVE  /\ lastID' = lastIDs'[Message]
             /\ NamesInManager(server')
             /\ UNCHANGED <<client, net>>
  BY <1>0, <1>3, SendMsgNames DEF HandleSendMsg, Handles, clientVars
<1>4. ASSUME NEW m \in BagToSet(data), HandleEditMsg(m)
      PROVE  /\ lastID' = lastIDs'[Message]
             /\ NamesInManager(server')
             /\ UNCHANGED <<client, net>>
  BY <1>0, <1>4, EditMsgNames DEF HandleEditMsg, Handles, clientVars
<1>5. CASE Exchange /\ UNCHANGED appVars
  BY <1>0, <1>5, ExchangeNames DEF serverVars, appVars
<1>6. ASSUME NEW m, LoseUnheardRequest(m)
      PROVE  /\ UNCHANGED <<serverVars, client, lastID>>
             /\ BagToSet(net') \subseteq BagToSet(net)
  BY <1>6, BagFacts DEF LoseUnheardRequest, clientVars, appVars
<1> QED
  BY <1>1, <1>2, <1>3, <1>4, <1>5, <1>6
     DEF ChatNext, NewMessage, EditMessage, Posts, LoseData, DuplicateData, DataFault,
         LoseUnheardData, Synchronisation, Exchange, chatVars, vars, clientVars, appVars

(* Every step keeps the invariant: no message is ever removed, so what     *)
(* clients have seen is there.                                             *)
LEMMA NextChat == ChatIInv /\ [ChatNext]_chatVars => ChatIInv'
<1> SUFFICES ASSUME ChatIInv, [ChatNext]_chatVars PROVE ChatIInv'
  OBVIOUS
<1>1. /\ IInv /\ TypeOK /\ ServerTypeOK /\ DataOK /\ MessageIDsAgree
      /\ PresenceIsMonotone /\ NoSegfault /\ lastID = lastIDs[Message]
  BY DEF ChatIInv, IInv, TypeOK, ServerTypeOK, MessageIDsAgree
<1>2. ServerHandles \/ StandsStill \/ Exchange
  BY <1>1, StepKinds
<1>3. IInv'
  BY <1>1, <1>2, KindsKeepIInv
<1>4. DataOK' /\ MessageIDsAgree'
  BY <1>1, NextData, NextNames
<1>5. PresenceIsMonotone' /\ NoSegfault'
  <2>1. CASE Exchange
    BY <1>1, <2>1, ExchangeKeepsPresence DEF PresenceKept
  <2>2. ASSUME UNCHANGED <<clientVars, net>>, DOMAIN server \subseteq DOMAIN server'
        PROVE  PresenceIsMonotone' /\ NoSegfault'
    BY <1>1, <2>2, GrowthKeepsPresence DEF PresenceKept
  <2>3. ASSUME NEW m \in BagToSet(data), HandleSendMsg(m) \/ HandleEditMsg(m)
        PROVE  PresenceIsMonotone' /\ NoSegfault'
    BY <2>2, <2>3 DEF HandleSendMsg, HandleEditMsg, Handles, Create
  <2>4. CASE UNCHANGED <<clientVars, net, server>>
    BY <2>2, <2>4
  <2>5. ASSUME NEW m, LoseUnheardRequest(m)
        PROVE  PresenceIsMonotone' /\ NoSegfault'
    <3>1. /\ UNCHANGED <<server, client, status>>
          /\ BagToSet(net') \subseteq BagToSet(net)
      BY <2>5, BagFacts DEF LoseUnheardRequest, serverVars, clientVars
    <3> QED
      BY <1>1, <3>1 DEF PresenceIsMonotone, NoSegfault, Requests, Replies
  <2> QED
    BY <2>1, <2>3, <2>4, <2>5
       DEF ChatNext, NewMessage, EditMessage, Posts, LoseData, DuplicateData, DataFault,
           LoseUnheardData, Synchronisation, Exchange, chatVars, vars, serverVars
<1> QED
  BY <1>3, <1>4, <1>5 DEF ChatIInv

(* The inductive invariant holds in every reachable state, those of        *)
(* SyncSession among its parts: with this application too no client        *)
(* differs from the server where nothing is marked dirty.                  *)
THEOREM ChatInvariant == ChatSpec => []ChatIInv
BY InitChat, NextChat, PTL DEF ChatSpec

(* Everywhere, in old replicas and late diffs too, a message's messageID   *)
(* is the ID under which it can be edited.                                 *)
THEOREM MessagesNameThemselves == ChatSpec => []MessageIDsAgree
<1>1. ChatIInv => MessageIDsAgree
  BY DEF ChatIInv
<1> QED
  BY <1>1, ChatInvariant, PTL

(* The chat removes nothing, so no client, however late a diff reaches it, *)
(* knows an object the server lacks or updates one it lacks itself.        *)
THEOREM ChatPresence == ChatSpec => [](PresenceIsMonotone /\ NoSegfault)
<1>1. ChatIInv => PresenceIsMonotone /\ NoSegfault
  BY DEF ChatIInv
<1> QED
  BY <1>1, ChatInvariant, PTL

(* What a user is shown, the server has: not only in his client but for    *)
(* as long as his edit is under way.                                       *)
ShownIsThere ==
    \A m \in BagToSet(data) :
        m.type = "EditMsg" /\ m.shown => <<Message, m.id>> \in DOMAIN server

(* Every step keeps it so.                                                 *)
LEMMA NextShown == ChatIInv /\ ShownIsThere /\ [ChatNext]_chatVars => ShownIsThere'
<1> SUFFICES ASSUME ChatIInv, ShownIsThere, [ChatNext]_chatVars
             PROVE  ShownIsThere'
  OBVIOUS
<1>1. ASSUME DOMAIN server \subseteq DOMAIN server',
             NEW m, BagToSet(data') \subseteq BagToSet(data) \cup {m},
             m.type = "EditMsg" /\ m.shown => <<Message, m.id>> \in DOMAIN server
      PROVE  ShownIsThere'
  BY <1>1 DEF ShownIsThere
<1>2. ASSUME DOMAIN server \subseteq DOMAIN server',
             BagToSet(data') \subseteq BagToSet(data)
      PROVE  ShownIsThere'
  BY <1>2 DEF ShownIsThere
<1>3. ASSUME NEW c \in Clients, NEW text \in Texts, NewMessage(c, text)
      PROVE  ShownIsThere'
  <2>1. PICK m : m = SendMsg(c, text)
    OBVIOUS
  <2>2. m.type # "EditMsg"
    BY <2>1 DEF SendMsg
  <2> QED
    BY <1>1, <1>3, <2>1, <2>2, BagFacts DEF NewMessage, Posts, serverVars
<1>4. ASSUME NEW c \in Clients, NEW id \in ID, NEW text \in Texts, EditMessage(c, id, text)
      PROVE  ShownIsThere'
  <2>1. PICK m : m = EditMsg(c, id, text, <<Message, id>> \in DOMAIN client[c])
    OBVIOUS
  <2>2. m.id = id /\ (m.shown <=> <<Message, id>> \in DOMAIN client[c])
    BY <2>1 DEF EditMsg
  <2>3. DOMAIN client[c] \subseteq DOMAIN server
    BY DEF ChatIInv, PresenceIsMonotone
  <2> QED
    BY <1>1, <1>4, <2>1, <2>2, <2>3, BagFacts DEF EditMessage, Posts, serverVars
<1>5. ASSUME NEW m \in BagToSet(data), HandleSendMsg(m) \/ HandleEditMsg(m)
      PROVE  ShownIsThere'
  BY <1>2, <1>5, BagFacts DEF HandleSendMsg, HandleEditMsg, Handles, Create
<1>6. ASSUME NEW m \in BagToSet(data), LoseData(m) \/ DuplicateData(m) \/ LoseUnheardData(m)
      PROVE  ShownIsThere'
  BY <1>2, <1>6, BagFacts DEF LoseData, DuplicateData, DataFault, LoseUnheardData, serverVars
<1>7. CASE Synchronisation
  <2>1. UNCHANGED server
    BY <1>7 DEF Synchronisation, SendSyncRequest, HandleSyncRequest,
       HandleSyncRequestSatisfy, Lose, Duplicate, serverVars
  <2> QED
    BY <1>2, <1>7, <2>1 DEF Synchronisation, appVars
<1>8. CASE (\E m \in Requests : LoseUnheardRequest(m)) \/ UNCHANGED chatVars
  BY <1>2, <1>8 DEF LoseUnheardRequest, chatVars, vars, serverVars, appVars
<1> QED
  BY <1>3, <1>4, <1>5, <1>6, <1>7, <1>8 DEF ChatNext

(* The server follows the null handle of an unknown ID only for a user who *)
(* typed an ID his client did not show, in whatever order, how late and    *)
(* how often packets arrive.                                               *)
THEOREM EditsReachTheirMessage == ChatSpec => EditsFindTheirMessage
<1> DEFINE A == serverUp /\ ~serverUp' =>
                    \E m \in BagToSet(data) :
                        m.type = "EditMsg" /\ ~m.shown /\ data' = BagRemove(data, m)
<1>1. ChatInit => ShownIsThere
  BY DEF ChatInit, ShownIsThere, EmptyBag, SetToBag, BagToSet
<1>2. ShownIsThere /\ [ChatNext]_chatVars => [A]_chatVars
  <2> SUFFICES ASSUME ShownIsThere, ChatNext, serverUp, ~serverUp'
               PROVE  \E m \in BagToSet(data) :
                          m.type = "EditMsg" /\ ~m.shown /\ data' = BagRemove(data, m)
    OBVIOUS
  <2>1. ASSUME UNCHANGED serverUp PROVE FALSE
    BY <2>1
  <2>2. PICK m \in BagToSet(data) : HandleEditMsg(m)
    BY <2>1 DEF ChatNext, NewMessage, EditMessage, Posts, HandleSendMsg, LoseData,
       DuplicateData, DataFault, LoseUnheardData, LoseUnheardRequest, Synchronisation, appVars
  <2>3. <<Message, m.id>> \notin DOMAIN server
    BY <2>1, <2>2 DEF HandleEditMsg
  <2> QED
    BY <2>2, <2>3 DEF HandleEditMsg, Handles, ShownIsThere
<1> QED
  BY <1>1, <1>2, NextShown, ChatInvariant, PTL DEF ChatSpec, EditsFindTheirMessage

(* Editing by Data packets, in whatever order they and the diffs arrive,   *)
(* leaves every replica where the diff computed from its snapshot repairs  *)
(* it.                                                                     *)
THEOREM ChatRoundTrip == ChatSpec => []RoundTripSynchronises
<1>1. ChatIInv => RoundTripSynchronises
  BY RoundTripLemma
     DEF ChatIInv, IInv, TypeOK, DirtyCoversDivergence, RoundTripSynchronises
<1> QED
  BY <1>1, ChatInvariant, PTL

=============================================================================
