------------------------ MODULE DaemonLifecycleProofs ------------------------
(***************************************************************************)
(* The lock, the socket and the clients' waiting, for any number of        *)
(* daemon processes and clients.                                           *)
(***************************************************************************)
EXTENDS DaemonLifecycle, TLAPS

\* Has got past the lock at some time.
Ran(d) == pc[d] \in Inside \cup {"failed", "killed"}

\* Whoever runs forwardings, or is about to, has the lock.
LockIsOwners == \A d \in Daemons : Owns(d) => lock = d

\* The socket of the process that made it, with the mode it has reached.
SocketIsOwners ==
    \A d \in Daemons :
        /\ pc[d] = "bound" => socket = SocketOf(d, FALSE)
        /\ pc[d] \in {"private", "serving"} => socket = SocketOf(d, TRUE)

\* Whoever has the lock ran, and so did whoever a process made way for.
LeftForAnother ==
    /\ lock # None => Ran(lock)
    /\ \A d \in Daemons : pc[d] = "left" => madeWay[d] \in Daemons /\ Ran(madeWay[d])

\* A waiting client has started a process, a successful one has seen one that
\* listened.
ClientsHaveSeen ==
    \A c \in Clients :
        /\ client[c] = "polling" => peer[c] \in Daemons /\ pc[peer[c]] # "off"
        /\ client[c] = "ready" =>
              peer[c] \in Daemons /\ (pc[peer[c]] \in Listening \/ Perished(peer[c]))

IInv ==
    /\ TypeOK
    /\ LockIsOwners
    /\ SocketIsOwners
    /\ LeftForAnother
    /\ ClientsHaveSeen

-----------------------------------------------------------------------------

LEMMA InitIInv == Init => IInv
  <1> SUFFICES ASSUME Init PROVE IInv
    OBVIOUS
  <1>1. \A d \in Daemons : pc[d] \in {"spawned", "off"}
    BY DEF Init
  <1>2. TypeOK
    <2>1. pc \in [Daemons -> Gone \cup Inside \cup {"spawned"}]
      BY DEF Init, Gone
    <2>2. socket \in [kind : {"none", "foreign", "socket"},
                     owner : Daemons \cup {None}, private : BOOLEAN]
          /\ socket.kind # "socket"
      <3>1. CASE socket = NoFile
        BY <3>1 DEF NoFile
      <3>2. CASE socket = Foreign
        BY <3>2 DEF Foreign
      <3> QED
        BY <3>1, <3>2 DEF Init
    <2> QED
      BY <2>1, <2>2 DEF Init, TypeOK
  <1>3. LockIsOwners /\ SocketIsOwners /\ LeftForAnother
    BY <1>1 DEF Init, LockIsOwners, SocketIsOwners, LeftForAnother, Owns, Inside
  <1>4. ClientsHaveSeen
    BY DEF Init, ClientsHaveSeen
  <1> QED
    BY <1>2, <1>3, <1>4 DEF IInv

LEMMA StepIInv == IInv /\ [Next]_vars => IInv'
  <1> SUFFICES ASSUME IInv, [Next]_vars PROVE IInv'
    OBVIOUS
  <1> USE NoneAssumption
      DEF IInv, TypeOK, LockIsOwners, SocketIsOwners, LeftForAnother,
          ClientsHaveSeen, Owns, Inside, Gone, Ran, NoFile, Foreign, SocketOf,
          Listening, Alive, Perished
  <1>1. ASSUME NEW d \in Daemons, Acquire(d) PROVE IInv'
    BY <1>1 DEF Acquire
  <1>2. ASSUME NEW d \in Daemons, Leave(d) PROVE IInv'
    BY <1>2 DEF Leave
  <1>3. ASSUME NEW d \in Daemons, RefuseForeign(d) PROVE IInv'
    BY <1>3 DEF RefuseForeign, ReleaseLock
  <1>4. ASSUME NEW d \in Daemons, RemoveStale(d) PROVE IInv'
    BY <1>4 DEF RemoveStale
  <1>5. ASSUME NEW d \in Daemons, Bind(d) PROVE IInv'
    BY <1>5 DEF Bind
  <1>6. ASSUME NEW d \in Daemons, SetPermissions(d) PROVE IInv'
    BY <1>6 DEF SetPermissions
  <1>7. ASSUME NEW d \in Daemons, OpenManager(d) PROVE IInv'
    BY <1>7 DEF OpenManager
  <1>8. ASSUME NEW d \in Daemons, Exit(d) PROVE IInv'
    BY <1>8 DEF Exit, ReleaseLock
  <1>9. ASSUME NEW d \in Daemons, BindFails(d) PROVE IInv'
    BY <1>9 DEF BindFails, ReleaseLock
  <1>10. ASSUME NEW d \in Daemons, DropEndpoint(d) PROVE IInv'
    BY <1>10 DEF DropEndpoint
  <1>11. ASSUME NEW d \in Daemons, Killed(d) PROVE IInv'
    BY <1>11 DEF Killed, ReleaseLock
  <1>12. ASSUME NEW d \in Daemons, SpawnGuardian(d) PROVE IInv'
    BY <1>12 DEF SpawnGuardian
  <1>13. ASSUME NEW d \in Daemons, GuardianEnds(d) PROVE IInv'
    BY <1>13 DEF GuardianEnds
  <1>14. ASSUME NEW c \in Clients, FindDaemon(c) PROVE IInv'
    BY <1>14 DEF FindDaemon, Connects
  <1>15. ASSUME NEW c \in Clients, StartDaemon(c) PROVE IInv'
    BY <1>15 DEF StartDaemon
  <1>16. ASSUME NEW c \in Clients, GiveUp(c) PROVE IInv'
    BY <1>16 DEF GiveUp
  <1>17. ASSUME NEW c \in Clients, Connect(c) PROVE IInv'
    BY <1>17 DEF Connect, Connects
  <1>18. ASSUME NEW c \in Clients, Serve(c) PROVE IInv'
    BY <1>18 DEF Serve
  <1>19. ASSUME NEW c \in Clients, CallFails(c) PROVE IInv'
    BY <1>19 DEF CallFails
  <1>20. CASE UNCHANGED vars
    BY <1>20 DEF vars
  <1> HIDE DEF IInv, TypeOK
  <1> QED
    BY <1>1, <1>2, <1>3, <1>4, <1>5, <1>6, <1>7, <1>8, <1>9, <1>10, <1>11,
       <1>12, <1>13, <1>14, <1>15, <1>16, <1>17, <1>18, <1>19, <1>20
    DEF Next, DaemonStep, Fault, ClientStep

\* A client that waits, or was told that there is a daemon, does without one
\* only because the process it relied on has perished, has made way for one
\* that has, or does not let it in yet.
LEMMA StepReason ==
  ASSUME IInv, [Next]_vars, NEW c \in Clients,
         client'[c] # client[c], client'[c] \in {"timed_out", "refused"}
  PROVE  LET d == peer[c] IN
         /\ client[c] = "polling" /\ client'[c] = "timed_out" =>
               Perished(d) \/ (pc[d] = "left" /\ Perished(madeWay[d]))
         /\ client[c] = "ready" /\ client'[c] = "refused" =>
               Perished(d) \/ pc[d] = "bound"
  <1> DEFINE d == peer[c]
  <1>1. CASE GiveUp(c)
    <2>1. d \in Daemons /\ pc[d] # "off" /\ client[c] = "polling"
      BY <1>1 DEF GiveUp, IInv, ClientsHaveSeen
    <2>2. \A e \in Daemons : pc[e] \notin Starting \cup {"serving"}
      BY <1>1 DEF GiveUp, Connects, IInv, SocketIsOwners, SocketOf, Starting,
                  Listening
    <2>3. \A e \in Daemons : Ran(e) => Perished(e)
      BY <2>2 DEF Ran, Inside, Starting, Perished
    <2>4. pc[d] # "left" => Ran(d)
      BY <2>1, <2>2 DEF IInv, TypeOK, Gone, Inside, Starting, Ran
    <2>5. pc[d] = "left" => Perished(madeWay[d])
      BY <2>1, <2>3 DEF IInv, LeftForAnother
    <2> QED
      BY <2>1, <2>3, <2>4, <2>5
  <1>2. CASE Connect(c)
    <2>1. client[c] = "ready" /\ client'[c] = "refused" /\ ~(socket.private /\ Connects)
      BY <1>2 DEF Connect, IInv, TypeOK
    <2>2. d \in Daemons /\ (pc[d] \in Listening \/ Perished(d))
      BY <2>1 DEF IInv, ClientsHaveSeen
    <2>3. pc[d] \notin {"private", "serving"}
      BY <2>1, <2>2 DEF Connects, IInv, SocketIsOwners, SocketOf, Listening
    <2> QED
      BY <2>1, <2>2, <2>3 DEF Listening
  <1>3. GiveUp(c) \/ Connect(c)
    <2>1. ~UNCHANGED client
      OBVIOUS
    <2>2. PICK k \in Clients : ClientStep(k)
      BY <2>1 DEF Next, DaemonStep, Fault, vars, Acquire, Leave,
                  RefuseForeign, RemoveStale, Bind, SetPermissions,
                  OpenManager, Exit, BindFails, DropEndpoint, Killed,
                  SpawnGuardian, GuardianEnds
    <2>3. \E v : client' = [client EXCEPT ![k] = v]
      BY <2>2 DEF ClientStep, FindDaemon, StartDaemon, GiveUp, Connect, Serve,
                  CallFails
    <2>4. k = c
      BY <2>3 DEF IInv, TypeOK
    <2> QED
      BY <2>2, <2>4 DEF ClientStep, FindDaemon, StartDaemon, Serve, CallFails,
                        IInv, TypeOK
  <1> QED
    BY <1>1, <1>2, <1>3

-----------------------------------------------------------------------------

\* The types hold, and so does everything the other theorems rest on: the
\* owner of the lock, the socket's name and mode, why a daemon left.
THEOREM LifecycleInvariant == Spec => []IInv
  BY InitIInv, StepIInv, PTL DEF Spec

\* At most one daemon gets past the lock at a time, the guardians of a dead
\* one included.
THEOREM LifecycleOneOwner == Spec => []OneOwner
  <1>1. IInv => OneOwner
    BY DEF IInv, LockIsOwners, OneOwner
  <1> QED
    BY <1>1, LifecycleInvariant, PTL

\* The public name leads to the daemon that serves.
THEOREM LifecycleReachable == Spec => []ServingIsReachable
  <1>1. IInv => ServingIsReachable
    BY DEF IInv, SocketIsOwners, ServingIsReachable
  <1> QED
    BY <1>1, LifecycleInvariant, PTL

\* No client is stranded by a process that left for a daemon that is well.
THEOREM LifecycleReason == Spec => CallFailsForAReason
  <1>1. IInv /\ [Next]_vars =>
          [\A c \in Clients :
              LET d == peer[c] IN
              /\ client[c] = "polling" /\ client'[c] = "timed_out" =>
                    Perished(d) \/ (pc[d] = "left" /\ Perished(madeWay[d]))
              /\ client[c] = "ready" /\ client'[c] = "refused" =>
                    Perished(d) \/ pc[d] = "bound"]_vars
    BY StepReason
  <1> QED
    BY <1>1, LifecycleInvariant, PTL DEF Spec, CallFailsForAReason
==============================================================================
