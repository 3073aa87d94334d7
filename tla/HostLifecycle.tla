---------------------------- MODULE HostLifecycle ---------------------------
(***************************************************************************)
(* The life of a host process: main constructs a SessionServer or a        *)
(* SessionClient, shows its menu, and destroys the host when the user ends *)
(* it, while the threads the host has started run.                         *)
(*                                                                         *)
(* C++ constructs the members of a class in the order of their declaration *)
(* after those of its base, then runs the constructor's body; destruction  *)
(* goes the other way.  The receive thread starts in the body of the base  *)
(* class's constructor, when none of the derived class's members exist;    *)
(* the future that holds it is one of the members, and its destructor      *)
(* waits for the thread.  Members without a destructor that matters (name, *)
(* ip, port, senderIp, senderPort, cid, the atomics, lastID) are left out: *)
(* they are usable until the storage is gone.                              *)
(***************************************************************************)
EXTENDS Naturals, Sequences

VARIABLES
    role,           \* "server" or "client"
    members,        \* how many members exist: the first so many of Members
    main,           \* where the main thread is
    receiver,       \* the receive thread: not started, waiting for a packet,
                    \* or the kind of packet it is handling
    timeout,        \* the server's timeout thread
    ping,           \* the client's ping thread
    cmBusy,         \* ClientHandlerManager::busy
    connected,      \* has the server accepted a client?
    status          \* what became of the process

vars == <<role, members, main, receiver, timeout, ping, cmBusy, connected, status>>

-----------------------------------------------------------------------------
(* The members, in the order of their declaration.                         *)

(* Mutant: the buffers are declared after the future, as the manager is.    *)
BaseMembersBuffersLast ==
    <<"socket", "hostFuture", "sendBuffer", "recvBuffer", "syncManager">>

BaseMembers ==
    <<"socket", "sendBuffer", "recvBuffer", "hostFuture", "syncManager">>

(* clientHandlers, chAvailable and chBusy are "handlers".                   *)
ManagerMembers == <<"handlers", "chMap", "timeoutFuture", "toDisconnect">>

Members ==
    BaseMembers \o (IF role = "server" THEN ManagerMembers ELSE <<>>)
                \o <<"onDataReceived">>

Alive == {Members[i] : i \in 1 .. members}
Complete == members = Len(Members)
BaseComplete == members = Len(BaseMembers)
ManagerComplete ==
    role = "server" /\ members = Len(BaseMembers) + Len(ManagerMembers)

(* Mutant: the thread is started where the future is initialised.           *)
WithItsFuture == members > 0 /\ Members[members] = "hostFuture"

ReceiveThreadStarts == BaseComplete

Running == status = "running"
MainUnchanged == UNCHANGED <<role, members, main, cmBusy>>

-----------------------------------------------------------------------------
(* The main thread.                                                        *)

ConstructMember ==
    /\ Running /\ main = "construct"
    /\ ~Complete
    /\ ReceiveThreadStarts => receiver # "none"
    /\ ManagerComplete => timeout # "none"
    /\ members' = members + 1
    /\ UNCHANGED <<role, main, receiver, timeout, ping, cmBusy, connected, status>>

(* SessionHost's constructor: the socket is bound and the thread started,  *)
(* or the exception, which nothing catches, ends the process.              *)
BindAndReceive ==
    /\ Running /\ main = "construct"
    /\ ReceiveThreadStarts /\ receiver = "none"
    /\ \/ receiver' = "waiting" /\ UNCHANGED status
       \/ status' = "terminated" /\ UNCHANGED receiver
    /\ UNCHANGED <<role, members, main, timeout, ping, cmBusy, connected>>

(* ClientHandlerManager's constructor.                                     *)
StartTimeout ==
    /\ Running /\ main = "construct"
    /\ ManagerComplete /\ timeout = "none"
    /\ timeout' = "test"
    /\ UNCHANGED <<role, members, main, receiver, ping, cmBusy, connected, status>>

(* Mutant: the server starts a ping thread too.                             *)
StartPingInBoth ==
    /\ Running /\ main = "construct"
    /\ Complete /\ ping = "none"
    /\ ping' = "request"
    /\ UNCHANGED <<role, members, main, receiver, timeout, cmBusy, connected, status>>

(* SessionClient's constructor.                                            *)
StartPing ==
    /\ Running /\ main = "construct"
    /\ role = "client" /\ Complete /\ ping = "none"
    /\ ping' = "request"
    /\ UNCHANGED <<role, members, main, receiver, timeout, cmBusy, connected, status>>

(* main appends its function to onDataReceived.                            *)
BeginListening ==
    /\ Running /\ main = "construct"
    /\ Complete
    /\ role = "client" => ping # "none"
    /\ main' = "listen"
    /\ UNCHANGED <<role, members, receiver, timeout, ping, cmBusy, connected, status>>

ShowMenu ==
    /\ Running /\ main = "listen"
    /\ main' = "menu"
    /\ UNCHANGED <<role, members, receiver, timeout, ping, cmBusy, connected, status>>

(* "0. Shutdown server" and "3. Disconnect": the host goes out of scope.   *)
ShutDown ==
    /\ Running /\ main = "menu"
    /\ main' = "destroy"
    /\ UNCHANGED <<role, members, receiver, timeout, ping, cmBusy, connected, status>>

(* Mutant: ClientHandlerManager's destructor does not clear busy.           *)
DestroyManagerBodyEmpty ==
    /\ ManagerComplete
    /\ cmBusy' = TRUE

(* ~ClientHandlerManager.                                                  *)
DestroyManagerBody ==
    /\ ManagerComplete
    /\ cmBusy' = FALSE

(* The last member is destroyed.  A future waits for its thread.  When     *)
(* none is left, main returns.                                             *)
DestroyMember ==
    /\ Running /\ main = "destroy"
    /\ members > 0
    /\ Members[members] = "timeoutFuture" => timeout = "ended"
    /\ Members[members] = "hostFuture" => receiver = "ended"
    /\ DestroyManagerBody \/ (~ManagerComplete /\ UNCHANGED cmBusy)
    /\ members' = members - 1
    /\ UNCHANGED <<role, main, receiver, timeout, ping, connected, status>>

-----------------------------------------------------------------------------
(* The receive thread, which nothing ends.                                 *)

Kinds == IF role = "server"
         THEN {"ConnectionRequest", "Ping", "SyncRequest", "Data"}
         ELSE {"ConnectionAccept", "SyncRequestSatisfy"}

(* What the handler of a kind of packet uses.  A server that has accepted  *)
(* nobody drops the others after looking their CID up.                     *)
HandlerUses(kind) ==
    CASE kind = "ConnectionRequest"  -> {"handlers", "chMap", "toDisconnect", "sendBuffer"}
      [] kind = "Ping"               -> {"handlers", "chMap"}
      [] kind = "SyncRequest"        -> {"handlers", "chMap", "syncManager", "sendBuffer"}
      [] kind = "Data"               -> {"chMap", "onDataReceived", "syncManager"}
      [] kind = "ConnectionAccept"   -> {"recvBuffer"}
      [] kind = "SyncRequestSatisfy" -> {"syncManager"}

Uses(kind) ==
    IF role = "server" /\ kind # "ConnectionRequest" /\ ~connected
    THEN {"chMap"} ELSE HandlerUses(kind)

(* Clients may be sending before the server is there, and to a client what *)
(* a process that had its port before has asked for.                       *)
Receive(kind) ==
    /\ Running /\ receiver = "waiting"
    /\ receiver' = kind
    /\ UNCHANGED <<timeout, ping, connected, status>>
    /\ MainUnchanged

(* Using a member that does not exist, or the delegate while main appends  *)
(* to it, may end the process or pass unnoticed.                           *)
HandlerMayCrash ==
    \/ ~(Uses(receiver) \subseteq Alive)
    \/ receiver = "Data" /\ connected /\ main = "listen"

Handle ==
    /\ Running /\ receiver \in Kinds
    /\ \/ /\ receiver' = "waiting"
          /\ connected' = \/ connected
                          \/ /\ receiver = "ConnectionRequest"
                             /\ Uses(receiver) \subseteq Alive
          /\ UNCHANGED status
       \/ /\ HandlerMayCrash
          /\ status' = "crashed"
          /\ UNCHANGED <<receiver, connected>>
    /\ UNCHANGED <<timeout, ping>>
    /\ MainUnchanged

ReceiveThread == Handle \/ \E kind \in Kinds : Receive(kind)

-----------------------------------------------------------------------------
(* The server's timeout thread: while(busy) { for(auto c : chBusy) ... }    *)

TimeoutTests ==
    /\ Running /\ timeout = "test"
    /\ timeout' = IF cmBusy THEN "scan" ELSE "ended"
    /\ UNCHANGED <<receiver, ping, connected, status>>
    /\ MainUnchanged

(* chBusy is read, then the thread sleeps.                                 *)
TimeoutScans ==
    /\ Running /\ timeout = "scan"
    /\ timeout' = "test"
    /\ UNCHANGED <<receiver, ping, connected, status>>
    /\ MainUnchanged

TimeoutThread == TimeoutTests \/ TimeoutScans

-----------------------------------------------------------------------------
(* The client's ping thread, detached and endless.                         *)

PingUses == IF ping = "request" THEN {"socket", "sendBuffer"}
                                ELSE {"socket", "sendBuffer", "syncManager"}

PingSends ==
    /\ Running /\ ping # "none"
    /\ \/ /\ ping' = "loop"
          /\ UNCHANGED status
       \/ /\ ~(PingUses \subseteq Alive)
          /\ status' = "crashed"
          /\ UNCHANGED ping
    /\ UNCHANGED <<receiver, timeout, connected>>
    /\ MainUnchanged

-----------------------------------------------------------------------------
Init ==
    /\ role \in {"server", "client"}
    /\ members = 0
    /\ main = "construct"
    /\ receiver = "none" /\ timeout = "none" /\ ping = "none"
    /\ cmBusy = TRUE
    /\ connected = FALSE
    /\ status = "running"

MainThread ==
    \/ ConstructMember
    \/ BindAndReceive
    \/ StartTimeout
    \/ StartPing
    \/ BeginListening
    \/ ShowMenu
    \/ DestroyMember

Next ==
    \/ MainThread
    \/ ShutDown
    \/ ReceiveThread
    \/ TimeoutThread
    \/ PingSends

Spec == Init /\ [][Next]_vars

(* Every thread runs.  The user need not end the host, nor need packets    *)
(* arrive.                                                                 *)
Fairness ==
    /\ WF_vars(MainThread)
    /\ WF_vars(Handle)
    /\ WF_vars(TimeoutThread)
    /\ WF_vars(PingSends)

FairSpec == Spec /\ Fairness

-----------------------------------------------------------------------------
(* Properties.                                                             *)

(* The type invariant: of the threads only the timeout thread ever ends,   *)
(* and each role has only its own.                                         *)
TypeOK ==
    /\ role \in {"server", "client"}
    /\ members \in 0 .. Len(Members)
    /\ main \in {"construct", "listen", "menu", "destroy"}
    /\ receiver \in {"none", "waiting"} \cup Kinds
    /\ timeout \in {"none", "test", "scan", "ended"}
    /\ ping \in {"none", "request", "loop"}
    /\ cmBusy \in BOOLEAN /\ connected \in BOOLEAN
    /\ status \in {"running", "terminated", "crashed"}
    /\ role = "client" => timeout = "none" /\ cmBusy /\ ~connected
    /\ role = "server" => ping = "none"

(* However construction, shutdown and the threads interleave, the timeout  *)
(* thread only ever reads lists of handlers that exist, and the receive    *)
(* thread waits on a socket, and into a buffer, that exist.                *)
ThreadsHaveTheirMembers ==
    /\ timeout = "scan" => "handlers" \in Alive
    /\ receiver # "none" => {"socket", "recvBuffer"} \subseteq Alive

(* A host that is up never uses a missing member, and a client, whose      *)
(* handlers use only what the base class has, can receive anything while   *)
(* it is constructed.  (What else may crash a host is in Chat, SyncSession *)
(* and ClientThreads.)                                                     *)
SafeOnceUp ==
    status = "crashed" =>
        \/ main = "destroy"
        \/ role = "server" /\ main \in {"construct", "listen"}

(* A shutdown gets as far as the future of the receive thread: the timeout *)
(* thread notices and is joined, and no other member's destructor blocks.  *)
ShutdownReachesHostFuture ==
    main = "destroy" ~>
        \/ status = "crashed"
        \/ members > 0 /\ Members[members] = "hostFuture"

(* doc.tex:346: the "`void` future offering a RAII wrapper for the host's  *)
(* thread", and doc.tex:1080, a server's only command "is the shutdown of  *)
(* the application itself": a host that is shut down ends.                 *)
ShutdownCompletes == main = "destroy" ~> status # "running" \/ members = 0
=============================================================================
