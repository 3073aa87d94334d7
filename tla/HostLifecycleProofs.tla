------------------------ MODULE HostLifecycleProofs -------------------------
(***************************************************************************)
(* Theorems about HostLifecycle.  The module has no constants, so the runs *)
(* cover it as it is; the proofs say why its properties hold: which member *)
(* exists at each point of the main thread's way up and down, and what     *)
(* each of the other threads has waited for.                               *)
(***************************************************************************)
EXTENDS HostLifecycle, TLAPS

-----------------------------------------------------------------------------
(* The members.                                                            *)

Names == {"socket", "sendBuffer", "recvBuffer", "hostFuture", "syncManager",
          "handlers", "chMap", "timeoutFuture", "toDisconnect", "onDataReceived"}

(* The members of the base class.                                          *)
LEMMA BaseFacts ==
    /\ BaseMembers \in Seq(Names) /\ Len(BaseMembers) = 5
    /\ BaseMembers[1] = "socket" /\ BaseMembers[2] = "sendBuffer"
    /\ BaseMembers[3] = "recvBuffer" /\ BaseMembers[4] = "hostFuture"
    /\ BaseMembers[5] = "syncManager"
BY DEF BaseMembers, Names

(* Those of the server's ClientHandlerManager.                             *)
LEMMA ManagerFacts ==
    /\ ManagerMembers \in Seq(Names) /\ Len(ManagerMembers) = 4
    /\ ManagerMembers[1] = "handlers" /\ ManagerMembers[2] = "chMap"
    /\ ManagerMembers[3] = "timeoutFuture" /\ ManagerMembers[4] = "toDisconnect"
BY DEF ManagerMembers, Names

(* How many members a host has, and in which order.                        *)
LEMMA MembersFacts ==
    /\ Len(Members) = IF role = "server" THEN 10 ELSE 6
    /\ Members[1] = "socket" /\ Members[2] = "sendBuffer"
    /\ Members[3] = "recvBuffer" /\ Members[4] = "hostFuture"
    /\ Members[5] = "syncManager"
    /\ role = "server" => /\ Members[6] = "handlers" /\ Members[7] = "chMap"
                          /\ Members[8] = "timeoutFuture"
                          /\ Members[9] = "toDisconnect"
                          /\ Members[10] = "onDataReceived"
    /\ role # "server" => Members[6] = "onDataReceived"
<1>1. PICK last : last = <<"onDataReceived">>
  OBVIOUS
<1>2. last \in Seq(Names) /\ Len(last) = 1 /\ last[1] = "onDataReceived"
  BY <1>1 DEF Names
<1>3. CASE role = "server"
  <2>1. PICK m : m = BaseMembers \o ManagerMembers
    OBVIOUS
  <2>2. /\ m \in Seq(Names) /\ Len(m) = Len(BaseMembers) + Len(ManagerMembers)
        /\ \A i \in 1 .. Len(BaseMembers) : m[i] = BaseMembers[i]
        /\ \A i \in 1 .. Len(ManagerMembers) :
              m[Len(BaseMembers) + i] = ManagerMembers[i]
    <3>1. BaseMembers \in Seq(Names) /\ ManagerMembers \in Seq(Names)
      BY BaseFacts, ManagerFacts
    <3> QED
      BY <2>1, <3>1
  <2>3. PICK all : all = m \o last
    OBVIOUS
  <2>4. /\ Len(all) = Len(m) + Len(last)
        /\ \A i \in 1 .. Len(m) : all[i] = m[i]
        /\ \A i \in 1 .. Len(last) : all[Len(m) + i] = last[i]
    <3>1. m \in Seq(Names) /\ last \in Seq(Names)
      BY <1>2, <2>2
    <3> QED
      BY <2>3, <3>1
  <2>5. Members = all
    BY <1>1, <1>3, <2>1, <2>3, Zenon DEF Members
  <2>6. /\ Len(m) = 9
        /\ \A i \in 1 .. 5 : m[i] = BaseMembers[i]
        /\ \A i \in 1 .. 4 : m[5 + i] = ManagerMembers[i]
    BY <2>2, BaseFacts, ManagerFacts
  <2>7. /\ Len(all) = 10
        /\ \A i \in 1 .. 9 : all[i] = m[i]
        /\ all[10] = last[1]
    BY <1>2, <2>4, <2>6
  <2> QED
    BY <1>2, <1>3, <2>5, <2>6, <2>7, BaseFacts, ManagerFacts
<1>4. CASE role # "server"
  <2>1. PICK all : all = BaseMembers \o last
    OBVIOUS
  <2>2. /\ Len(all) = Len(BaseMembers) + Len(last)
        /\ \A i \in 1 .. Len(BaseMembers) : all[i] = BaseMembers[i]
        /\ \A i \in 1 .. Len(last) : all[Len(BaseMembers) + i] = last[i]
    <3>1. BaseMembers \in Seq(Names) /\ last \in Seq(Names)
      BY <1>2, BaseFacts
    <3> QED
      BY <2>1, <3>1
  <2>3. BaseMembers \o <<>> = BaseMembers
    BY BaseFacts
  <2>4. Members = all
    BY <1>1, <1>4, <2>1, <2>3, Zenon DEF Members
  <2>5. /\ Len(all) = 6
        /\ \A i \in 1 .. 5 : all[i] = BaseMembers[i]
        /\ all[6] = last[1]
    BY <1>2, <2>2, BaseFacts
  <2> QED
    BY <1>2, <1>4, <2>4, <2>5, BaseFacts
<1> QED
  BY <1>3, <1>4

(* Which members exist, by how many do.                                    *)
LEMMA AliveFacts ==
    ASSUME members \in Nat
    PROVE  /\ members >= 1 => "socket" \in Alive
           /\ members >= 2 => "sendBuffer" \in Alive
           /\ members >= 3 => "recvBuffer" \in Alive
           /\ members >= 5 => "syncManager" \in Alive
           /\ role = "server" => /\ members >= 6 => "handlers" \in Alive
                                 /\ members >= 7 => "chMap" \in Alive
                                 /\ members >= 9 => "toDisconnect" \in Alive
                                 /\ members >= 10 => "onDataReceived" \in Alive
<1>1. \A i \in 1 .. members : Members[i] \in Alive
  BY DEF Alive
<1> QED
  BY <1>1, MembersFacts

-----------------------------------------------------------------------------
(* The inductive invariant: what each point of the main thread's way says  *)
(* of the members and of the threads.  While it constructs, a thread runs  *)
(* from the member it is started after; while the menu is up, every thread *)
(* of the role runs; while it destroys, the future that holds the receive  *)
(* thread keeps the members before it, and the timeout thread has ended    *)
(* before the lists it reads go.                                           *)

OnTheWayUp ==
    main = "construct" =>
        /\ members > 5 => receiver # "none"
        /\ receiver # "none" => members >= 5
        /\ timeout # "none" => members >= 9
        /\ role = "server" /\ members > 9 => timeout # "none"
        /\ ping # "none" => Complete

OnceUp ==
    main \in {"listen", "menu"} =>
        /\ Complete
        /\ receiver # "none"
        /\ role = "server" => timeout # "none"

OnTheWayDown ==
    main = "destroy" =>
        /\ members >= 4
        /\ receiver # "none"
        /\ role = "server" /\ members < 8 => timeout = "ended"

HostIInv ==
    /\ TypeOK
    /\ OnTheWayUp
    /\ OnceUp
    /\ OnTheWayDown
    /\ SafeOnceUp

(* Nothing exists and no thread runs at first.                             *)
LEMMA InitHostIInv == Init => HostIInv
<1> SUFFICES ASSUME Init PROVE HostIInv
  OBVIOUS
<1>1. TypeOK
  <2>1. 0 \in 0 .. Len(Members)
    BY MembersFacts
  <2> QED
    BY <2>1 DEF Init, TypeOK
<1>2. OnTheWayUp /\ OnceUp /\ OnTheWayDown /\ SafeOnceUp
  BY DEF Init, OnTheWayUp, OnceUp, OnTheWayDown, SafeOnceUp
<1> QED
  BY <1>1, <1>2 DEF HostIInv

(* What the threads rely on follows from it.                               *)
LEMMA HostIInvImplies == HostIInv => ThreadsHaveTheirMembers
<1> SUFFICES ASSUME HostIInv PROVE ThreadsHaveTheirMembers
  OBVIOUS
<1>1. members \in Nat
  BY MembersFacts DEF HostIInv, TypeOK
<1>2. receiver # "none" => members >= 4
  BY MembersFacts DEF HostIInv, TypeOK, OnTheWayUp, OnceUp, OnTheWayDown, Complete
<1>3. timeout = "scan" => role = "server" /\ members >= 6
  BY MembersFacts DEF HostIInv, TypeOK, OnTheWayUp, OnceUp, OnTheWayDown, Complete
<1> QED
  BY <1>1, <1>2, <1>3, AliveFacts DEF ThreadsHaveTheirMembers

-----------------------------------------------------------------------------
(* The main thread.                                                        *)

(* The members are constructed in order, each after the thread the code    *)
(* starts before it.                                                       *)
LEMMA ConstructKeeps == HostIInv /\ ConstructMember => HostIInv'
<1> SUFFICES ASSUME HostIInv, ConstructMember PROVE HostIInv'
  OBVIOUS
<1>1. /\ UNCHANGED <<role, main, receiver, timeout, ping, cmBusy, connected, status>>
      /\ members' = members + 1 /\ members # Len(Members)
      /\ main = "construct" /\ status = "running"
      /\ members = 5 => receiver # "none"
      /\ role = "server" /\ members = 9 => timeout # "none"
  BY BaseFacts, ManagerFacts
     DEF ConstructMember, Complete, Running, ReceiveThreadStarts, BaseComplete, ManagerComplete
<1>2. Members' = Members /\ Kinds' = Kinds
  BY <1>1 DEF Members, Kinds
<1>3. TypeOK'
  BY <1>1, <1>2, MembersFacts DEF HostIInv, TypeOK
<1>4. OnTheWayUp'
  BY <1>1, <1>2, MembersFacts DEF HostIInv, TypeOK, OnTheWayUp, Complete
<1>5. OnceUp' /\ OnTheWayDown' /\ SafeOnceUp'
  BY <1>1 DEF OnceUp, OnTheWayDown, SafeOnceUp
<1> QED
  BY <1>3, <1>4, <1>5 DEF HostIInv

(* A constructor starts a thread, or fails to bind and ends the process.   *)
LEMMA StartsKeep == HostIInv /\ (BindAndReceive \/ StartTimeout \/ StartPing) => HostIInv'
<1> SUFFICES ASSUME HostIInv, BindAndReceive \/ StartTimeout \/ StartPing
             PROVE  HostIInv'
  OBVIOUS
<1>1. /\ UNCHANGED <<role, members, main, cmBusy, connected>>
      /\ main = "construct" /\ status' # "crashed"
      /\ status' \in {"running", "terminated", "crashed"}
      /\ \/ UNCHANGED receiver
         \/ receiver' = "waiting" /\ members = 5
      /\ \/ UNCHANGED timeout
         \/ timeout' = "test" /\ role = "server" /\ members = 9
      /\ \/ UNCHANGED ping
         \/ ping' = "request" /\ role = "client" /\ members = Len(Members)
  BY BaseFacts, ManagerFacts
     DEF BindAndReceive, StartTimeout, StartPing, Complete, Running, HostIInv, TypeOK,
         ReceiveThreadStarts, BaseComplete, ManagerComplete
<1>2. Members' = Members /\ Kinds' = Kinds
  BY <1>1 DEF Members, Kinds
<1>3. TypeOK'
  BY <1>1, <1>2 DEF HostIInv, TypeOK
<1>4. OnTheWayUp'
  BY <1>1, <1>2 DEF HostIInv, OnTheWayUp, Complete
<1>5. OnceUp' /\ OnTheWayDown' /\ SafeOnceUp'
  BY <1>1 DEF OnceUp, OnTheWayDown, SafeOnceUp
<1> QED
  BY <1>3, <1>4, <1>5 DEF HostIInv

(* The host is up, and shut down.                                          *)
LEMMA MenuKeeps == HostIInv /\ (BeginListening \/ ShowMenu \/ ShutDown) => HostIInv'
<1> SUFFICES ASSUME HostIInv, BeginListening \/ ShowMenu \/ ShutDown PROVE HostIInv'
  OBVIOUS
<1>1. /\ UNCHANGED <<role, members, receiver, timeout, ping, cmBusy, connected, status>>
      /\ status = "running"
      /\ \/ main = "construct" /\ main' = "listen" /\ members = Len(Members)
         \/ main \in {"listen", "menu"} /\ main' \in {"menu", "destroy"}
  BY DEF BeginListening, ShowMenu, ShutDown, Running, Complete
<1>2. Members' = Members /\ Kinds' = Kinds
  BY <1>1 DEF Members, Kinds
<1>3. TypeOK'
  BY <1>1, <1>2 DEF HostIInv, TypeOK
<1>4. members = Len(Members) /\ receiver # "none" /\ (role = "server" => timeout # "none")
  BY <1>1, MembersFacts DEF HostIInv, OnTheWayUp, OnceUp, Complete
<1>5. OnTheWayUp' /\ OnceUp' /\ OnTheWayDown' /\ SafeOnceUp'
  BY <1>1, <1>2, <1>4, MembersFacts
     DEF OnTheWayUp, OnceUp, OnTheWayDown, SafeOnceUp, Complete
<1> QED
  BY <1>3, <1>5 DEF HostIInv

(* The members are destroyed as far as the future that holds the receive   *)
(* thread.                                                                 *)
LEMMA DestroyKeeps == HostIInv /\ DestroyMember => HostIInv'
<1> SUFFICES ASSUME HostIInv, DestroyMember PROVE HostIInv'
  OBVIOUS
<1>1. /\ UNCHANGED <<role, main, receiver, timeout, ping, connected, status>>
      /\ members' = members - 1 /\ members > 0
      /\ main = "destroy" /\ status = "running"
      /\ members = 4 => receiver = "ended"
      /\ role = "server" /\ members = 8 => timeout = "ended"
      /\ (cmBusy' = FALSE /\ role = "server") \/ cmBusy' = cmBusy
  BY MembersFacts DEF DestroyMember, DestroyManagerBody, ManagerComplete, Running
<1>2. Members' = Members /\ Kinds' = Kinds
  BY <1>1 DEF Members, Kinds
<1>3. receiver # "ended"
  BY DEF HostIInv, TypeOK, Kinds
<1>4. TypeOK'
  <2>1. cmBusy' \in BOOLEAN /\ (role = "client" => cmBusy')
    <3>1. cmBusy \in BOOLEAN /\ (role = "client" => cmBusy)
      BY DEF HostIInv, TypeOK
    <3>2. role = "server" => role # "client"
      OBVIOUS
    <3> QED
      BY <1>1, <3>1, <3>2, Zenon
  <2>2. members' \in 0 .. Len(Members)
    BY <1>1, MembersFacts DEF HostIInv, TypeOK
  <2> QED
    BY <1>1, <1>2, <2>1, <2>2 DEF HostIInv, TypeOK
<1>5. OnTheWayDown'
  BY <1>1, <1>3, MembersFacts DEF HostIInv, TypeOK, OnTheWayDown
<1>6. OnTheWayUp' /\ OnceUp' /\ SafeOnceUp'
  BY <1>1 DEF OnTheWayUp, OnceUp, SafeOnceUp
<1> QED
  BY <1>4, <1>5, <1>6 DEF HostIInv

-----------------------------------------------------------------------------
(* The other threads.                                                      *)

(* Outside destruction the receive thread of a client, and that of a       *)
(* server whose menu is up, have whatever their handlers use.              *)
LEMMA HandlersHaveTheirMembers ==
    ASSUME HostIInv, receiver \in Kinds, main # "destroy",
           role = "client" \/ main = "menu"
    PROVE  ~HandlerMayCrash
<1>1. members \in Nat
  BY MembersFacts DEF HostIInv, TypeOK
<1>2. CASE role = "client"
  <2>1. receiver \in {"ConnectionAccept", "SyncRequestSatisfy"}
    BY <1>2 DEF Kinds
  <2>2. members >= 5
    BY <1>2, <2>1, MembersFacts DEF HostIInv, TypeOK, OnTheWayUp, OnceUp, Complete
  <2>3. Uses(receiver) \subseteq {"recvBuffer", "syncManager"}
    BY <1>2, <2>1 DEF Uses, HandlerUses
  <2> QED
    BY <1>1, <2>1, <2>2, <2>3, AliveFacts DEF HandlerMayCrash
<1>3. CASE role = "server"
  <2>1. main = "menu" /\ members = 10
    BY <1>3, MembersFacts DEF HostIInv, OnceUp, Complete
  <2>2. receiver \in {"ConnectionRequest", "Ping", "SyncRequest", "Data"}
    BY <1>3 DEF Kinds
  <2>3. Uses(receiver) \subseteq {"handlers", "chMap", "toDisconnect", "sendBuffer",
                                 "syncManager", "onDataReceived"}
    BY <2>2 DEF Uses, HandlerUses
  <2> QED
    BY <1>1, <1>3, <2>1, <2>3, AliveFacts DEF HandlerMayCrash
<1> QED
  BY <1>2, <1>3 DEF HostIInv, TypeOK

(* The receive thread receives and handles.                                *)
LEMMA ReceiverKeeps == HostIInv /\ ReceiveThread => HostIInv'
<1> SUFFICES ASSUME HostIInv, ReceiveThread PROVE HostIInv'
  OBVIOUS
<1>1. /\ UNCHANGED <<role, members, main, cmBusy, timeout, ping>>
      /\ status = "running" /\ receiver # "none"
      /\ receiver' \in {"waiting"} \cup Kinds
  BY DEF ReceiveThread, Receive, Handle, MainUnchanged, Running, Kinds
<1>2. connected' \in BOOLEAN /\ (role = "client" => ~connected')
  <2>1. CASE Handle
    <3>1. connected \in BOOLEAN /\ (role = "client" => ~connected)
      BY DEF HostIInv, TypeOK
    <3>2. role = "client" => receiver # "ConnectionRequest"
      BY <2>1 DEF Handle, Kinds
    <3>3. PICK requested \in BOOLEAN :
              requested = (receiver = "ConnectionRequest" /\ Uses(receiver) \subseteq Alive)
      OBVIOUS
    <3>4. connected' = (connected \/ requested) \/ connected' = connected
      BY <2>1, <3>3 DEF Handle
    <3>5. requested => role # "client"
      BY <3>2, <3>3, Zenon
    <3> QED
      BY <3>1, <3>4, <3>5
  <2>2. CASE \E kind \in Kinds : Receive(kind)
    BY <2>2 DEF Receive, HostIInv, TypeOK
  <2> QED
    BY <2>1, <2>2 DEF ReceiveThread
<1>3. /\ status' \in {"running", "crashed"}
      /\ status' = "crashed" => receiver \in Kinds /\ HandlerMayCrash
  BY <1>1 DEF ReceiveThread, Receive, Handle, Running
<1>4. Members' = Members /\ Kinds' = Kinds
  BY <1>1 DEF Members, Kinds
<1>5. TypeOK'
  BY <1>1, <1>2, <1>3, <1>4 DEF HostIInv, TypeOK
<1>6. receiver' # "none"
  BY <1>1 DEF Kinds
<1>7. OnTheWayUp' /\ OnceUp' /\ OnTheWayDown'
  BY <1>1, <1>4, <1>6 DEF HostIInv, OnTheWayUp, OnceUp, OnTheWayDown, Complete
<1>8. SafeOnceUp'
  BY <1>1, <1>3, HandlersHaveTheirMembers DEF SafeOnceUp, HostIInv, TypeOK
<1> QED
  BY <1>5, <1>7, <1>8 DEF HostIInv

(* The timeout thread tests and scans, until busy is cleared.              *)
LEMMA TimeoutKeeps == HostIInv /\ TimeoutThread => HostIInv'
<1> SUFFICES ASSUME HostIInv, TimeoutThread PROVE HostIInv'
  OBVIOUS
<1>1. /\ UNCHANGED <<role, members, main, cmBusy, receiver, ping, connected, status>>
      /\ timeout \in {"test", "scan"} /\ timeout' \in {"test", "scan", "ended"}
  BY DEF TimeoutThread, TimeoutTests, TimeoutScans, MainUnchanged
<1>2. Members' = Members /\ Kinds' = Kinds
  BY <1>1 DEF Members, Kinds
<1>3. TypeOK'
  BY <1>1, <1>2 DEF HostIInv, TypeOK
<1>4. OnTheWayUp' /\ OnceUp' /\ OnTheWayDown' /\ SafeOnceUp'
  BY <1>1, <1>2 DEF HostIInv, OnTheWayUp, OnceUp, OnTheWayDown, SafeOnceUp, Complete
<1> QED
  BY <1>3, <1>4 DEF HostIInv

(* The client's ping thread sends.                                         *)
LEMMA PingKeeps == HostIInv /\ PingSends => HostIInv'
<1> SUFFICES ASSUME HostIInv, PingSends PROVE HostIInv'
  OBVIOUS
<1>1. /\ UNCHANGED <<role, members, main, cmBusy, receiver, timeout, connected>>
      /\ status = "running" /\ ping # "none" /\ ping' \in {"loop", "request"}
      /\ status' \in {"running", "crashed"}
      /\ status' = "crashed" => ~(PingUses \subseteq Alive)
  BY DEF PingSends, MainUnchanged, Running, HostIInv, TypeOK
<1>2. Members' = Members /\ Kinds' = Kinds
  BY <1>1 DEF Members, Kinds
<1>3. role = "client"
  BY <1>1 DEF HostIInv, TypeOK
<1>4. TypeOK'
  BY <1>1, <1>2, <1>3 DEF HostIInv, TypeOK
<1>5. OnTheWayUp' /\ OnceUp' /\ OnTheWayDown'
  BY <1>1, <1>2 DEF HostIInv, OnTheWayUp, OnceUp, OnTheWayDown, Complete
<1>6. main # "destroy" => PingUses \subseteq Alive
  <2>1. members \in Nat
    BY MembersFacts DEF HostIInv, TypeOK
  <2>2. main # "destroy" => members >= 5
    BY <1>1, <1>3, MembersFacts DEF HostIInv, TypeOK, OnTheWayUp, OnceUp, Complete
  <2> QED
    BY <2>1, <2>2, AliveFacts DEF PingUses
<1>7. SafeOnceUp'
  BY <1>1, <1>6 DEF SafeOnceUp
<1> QED
  BY <1>4, <1>5, <1>7 DEF HostIInv

-----------------------------------------------------------------------------
(* The theorems.                                                           *)

(* The steps of all threads together.                                      *)
LEMMA NextHostIInv == HostIInv /\ [Next]_vars => HostIInv'
<1> SUFFICES ASSUME HostIInv, [Next]_vars PROVE HostIInv'
  OBVIOUS
<1>1. CASE MainThread \/ ShutDown
  BY <1>1, ConstructKeeps, StartsKeep, MenuKeeps, DestroyKeeps DEF MainThread
<1>2. CASE ReceiveThread \/ TimeoutThread \/ PingSends
  BY <1>2, ReceiverKeeps, TimeoutKeeps, PingKeeps
<1>3. CASE UNCHANGED vars
  <2>1. UNCHANGED <<role, members, main, receiver, timeout, ping, cmBusy, connected, status>>
    BY <1>3 DEF vars
  <2>2. Members' = Members /\ Kinds' = Kinds
    BY <2>1 DEF Members, Kinds
  <2> QED
    BY <2>1, <2>2 DEF HostIInv, TypeOK, OnTheWayUp, OnceUp, OnTheWayDown, SafeOnceUp, Complete
<1> QED
  BY <1>1, <1>2, <1>3 DEF Next

(* However construction, shutdown and the threads interleave, what the     *)
(* main thread's place says of the members and the threads holds.          *)
THEOREM HostInvariant == Spec => []HostIInv
<1> QED
  BY InitHostIInv, NextHostIInv, PTL DEF Spec

(* Of the threads only the timeout thread ends, and each role has only its *)
(* own.                                                                    *)
THEOREM TypeCorrect == Spec => []TypeOK
<1>1. HostIInv => TypeOK
  BY DEF HostIInv
<1> QED
  BY <1>1, HostInvariant, PTL

(* The timeout thread reads lists that exist, and the receive thread waits *)
(* on a socket, and into a buffer, that exist: declaration order and the   *)
(* two futures order every start, join and destruction.                    *)
THEOREM ThreadsKeepTheirMembers == Spec => []ThreadsHaveTheirMembers
BY HostIInvImplies, HostInvariant, PTL

(* A host whose menu is up never uses a member that is not there; a client *)
(* does not while it is constructed either.                                *)
THEOREM UpIsSafe == Spec => []SafeOnceUp
<1>1. HostIInv => SafeOnceUp
  BY DEF HostIInv
<1> QED
  BY <1>1, HostInvariant, PTL

(* ~SessionHost waits for a thread that nothing ends: no destruction of a  *)
(* host, server or client, ever gets past its future.                      *)
THEOREM HostFutureIsNeverJoined ==
    Spec => [](main = "destroy" => "hostFuture" \in Alive)
<1>1. HostIInv => (main = "destroy" => "hostFuture" \in Alive)
  <2> SUFFICES ASSUME HostIInv, main = "destroy" PROVE "hostFuture" \in Alive
    OBVIOUS
  <2>1. members \in Nat /\ members >= 4
    BY MembersFacts DEF HostIInv, TypeOK, OnTheWayDown
  <2> QED
    BY <2>1, MembersFacts DEF Alive
<1> QED
  BY <1>1, HostInvariant, PTL

=============================================================================
