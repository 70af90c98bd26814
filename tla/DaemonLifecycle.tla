--------------------------- MODULE DaemonLifecycle ---------------------------
(***************************************************************************)
(* Who owns the runtime lock and the public socket: the daemon processes   *)
(* of src/daemon/lifecycle.rs (DaemonEndpoint, run, serve_connection) as   *)
(* src/cli/mod.rs starts them (run_daemon), the guardians that share the   *)
(* lock, and the clients that look for a daemon, start one and call it     *)
(* (ensure_running, daemon_value, Client of src/ipc/mod.rs).               *)
(*                                                                         *)
(* The lock file is permanent.  A daemon and its guardians hold one open   *)
(* file description of it, so that the lock is free again only when the    *)
(* last of them is gone.  A daemon handles no signal: killed, it leaves    *)
(* its socket behind.                                                      *)
(***************************************************************************)
EXTENDS Naturals

CONSTANTS
    Daemons,   \* the processes that may be started as "daemon run"
    Clients,   \* calls of a client, each with its own ensure_running
    None       \* no daemon

ASSUME NoneAssumption == None \notin Daemons

VARIABLES
    pc,         \* where each daemon process is in run_daemon
    lock,       \* the daemon whose open file description is locked
    guardians,  \* the daemons that have a guardian running
    socket,     \* the file at the socket's path
    client,     \* where each call is
    peer,       \* the daemon the call has started, found or is connected to
    madeWay     \* the owner of the lock when each process left; no action reads it

vars == <<pc, lock, guardians, socket, client, peer, madeWay>>

-----------------------------------------------------------------------------

NoFile == [kind |-> "none", owner |-> None, private |-> FALSE]

\* Something that is not a socket of this user.
Foreign == [kind |-> "foreign", owner |-> None, private |-> FALSE]

SocketOf(d, private) == [kind |-> "socket", owner |-> d, private |-> private]

\* The daemon process is gone.
Gone == {"off", "left", "failed", "killed"}

Alive(d) == pc[d] \notin Gone

\* bind() or open_managed is under way.
Starting == {"spawned", "locked", "cleared", "bound", "private"}

\* The listener exists: the kernel accepts connections from bind() on.
Listening == {"bound", "private", "serving"}

\* A process closes its descriptor of the lock; the kernel unlocks when no
\* guardian has the same description.
ReleaseLock(d) == lock' = IF lock = d /\ d \notin guardians THEN None ELSE lock

-----------------------------------------------------------------------------
\* DaemonEndpoint::bind

Acquire(d) ==
    /\ pc[d] = "spawned"
    /\ lock = None
    /\ lock' = d
    /\ pc' = [pc EXCEPT ![d] = "locked"]
    /\ UNCHANGED <<guardians, socket, client, peer, madeWay>>

\* Faulty: an endpoint exists before the lock is tried, and its drop removes
\* the socket.
LeaveRemovingSocket(d) ==
    /\ pc[d] = "spawned"
    /\ lock # None
    /\ pc' = [pc EXCEPT ![d] = "left"]
    /\ madeWay' = [madeWay EXCEPT ![d] = lock]
    /\ socket' = NoFile
    /\ UNCHANGED <<lock, guardians, client, peer>>

\* LOCK_NB: AlreadyRunning, which run_daemon takes for success, whether the
\* owner lives or only its guardians are left.
Leave(d) ==
    /\ pc[d] = "spawned"
    /\ lock # None
    /\ pc' = [pc EXCEPT ![d] = "left"]
    /\ madeWay' = [madeWay EXCEPT ![d] = lock]
    /\ UNCHANGED <<lock, guardians, socket, client, peer>>

\* The owner of the lock removes what a killed daemon left.
RemoveStale(d) ==
    /\ pc[d] = "locked"
    /\ socket # Foreign
    /\ socket' = NoFile
    /\ pc' = [pc EXCEPT ![d] = "cleared"]
    /\ UNCHANGED <<lock, guardians, client, peer, madeWay>>

Bind(d) ==
    /\ pc[d] = "cleared"
    /\ socket' = SocketOf(d, FALSE)
    /\ pc' = [pc EXCEPT ![d] = "bound"]
    /\ UNCHANGED <<lock, guardians, client, peer, madeWay>>

SetPermissions(d) ==
    /\ pc[d] = "bound"
    /\ socket' = SocketOf(d, TRUE)
    /\ pc' = [pc EXCEPT ![d] = "private"]
    /\ UNCHANGED <<lock, guardians, client, peer, madeWay>>

\* UnsafeSocket.
RefuseForeign(d) ==
    /\ pc[d] = "locked"
    /\ socket = Foreign
    /\ pc' = [pc EXCEPT ![d] = "failed"]
    /\ ReleaseLock(d)
    /\ UNCHANGED <<guardians, socket, client, peer, madeWay>>

\* An I/O error: no DaemonEndpoint exists yet, so that nothing is removed.
BindFails(d) ==
    /\ \/ pc[d] = "spawned"
       \/ pc[d] = "locked"
       \/ pc[d] = "cleared"
       \/ pc[d] = "bound"
    /\ pc' = [pc EXCEPT ![d] = "failed"]
    /\ ReleaseLock(d)
    /\ UNCHANGED <<guardians, socket, client, peer, madeWay>>

-----------------------------------------------------------------------------
\* run_daemon and run

\* open_managed, start_supervisor: from here on requests are handled.
OpenManager(d) ==
    /\ pc[d] = "private"
    /\ pc' = [pc EXCEPT ![d] = "serving"]
    /\ UNCHANGED <<lock, guardians, socket, client, peer, madeWay>>

\* open_managed or accept() failed: DaemonEndpoint::drop removes the socket.
DropEndpoint(d) ==
    /\ pc[d] \in {"private", "serving"}
    /\ pc' = [pc EXCEPT ![d] = "dropping"]
    /\ socket' = NoFile
    /\ UNCHANGED <<lock, guardians, client, peer, madeWay>>

\* The fields of the endpoint and the manager's copy of the lock go.
Exit(d) ==
    /\ pc[d] = "dropping"
    /\ pc' = [pc EXCEPT ![d] = "failed"]
    /\ ReleaseLock(d)
    /\ UNCHANGED <<guardians, socket, client, peer, madeWay>>

Killed(d) ==
    /\ Alive(d)
    /\ pc' = [pc EXCEPT ![d] = "killed"]
    /\ ReleaseLock(d)
    /\ UNCHANGED <<guardians, socket, client, peer, madeWay>>

\* start_attempt gives its guardian a copy of the lock (guardian_lock).
SpawnGuardian(d) ==
    /\ pc[d] = "serving"
    /\ d \notin guardians
    /\ guardians' = guardians \cup {d}
    /\ UNCHANGED <<pc, lock, socket, client, peer, madeWay>>

\* Faulty: the guardian unlocks the file instead of closing its copy.
GuardianUnlocks(d) ==
    /\ d \in guardians
    /\ guardians' = guardians \ {d}
    /\ lock' = None
    /\ UNCHANGED <<pc, socket, client, peer, madeWay>>

\* The guardian has ended its attempt and closes its copy of the lock.
GuardianEnds(d) ==
    /\ d \in guardians
    /\ guardians' = guardians \ {d}
    /\ lock' = IF lock = d /\ ~Alive(d) THEN None ELSE lock
    /\ UNCHANGED <<pc, socket, client, peer, madeWay>>

-----------------------------------------------------------------------------
\* The client's side: ensure_running, Client::connect, Client::call

\* UnixStream::connect.
Connects == socket.kind = "socket" /\ pc[socket.owner] \in Listening

FindDaemon(c) ==
    /\ client[c] \in {"new", "polling"}
    /\ Connects
    /\ client' = [client EXCEPT ![c] = "ready"]
    /\ peer' = [peer EXCEPT ![c] = socket.owner]
    /\ UNCHANGED <<pc, lock, guardians, socket, madeWay>>

\* The one daemon that ensure_running starts.
StartDaemon(c) ==
    /\ client[c] = "new"
    /\ ~Connects
    /\ \E d \in Daemons :
          /\ pc[d] = "off"
          /\ pc' = [pc EXCEPT ![d] = "spawned"]
          /\ peer' = [peer EXCEPT ![c] = d]
    /\ client' = [client EXCEPT ![c] = "polling"]
    /\ UNCHANGED <<lock, guardians, socket, madeWay>>

GiveUpAtOnce(c) ==  \* faulty: no waiting
    /\ client[c] = "polling"
    /\ ~Connects
    /\ client' = [client EXCEPT ![c] = "timed_out"]
    /\ UNCHANGED <<pc, lock, guardians, socket, peer, madeWay>>

WaitForEver(c) ==  \* faulty: no deadline
    /\ client[c] = "polling"
    /\ ~Connects
    /\ UNCHANGED vars

\* The deadline.  Starting a daemon takes less time than that: what a client
\* still misses then, no daemon process is about to give it.
GiveUp(c) ==
    /\ client[c] = "polling"
    /\ ~Connects
    /\ \A d \in Daemons : pc[d] \notin Starting
    /\ client' = [client EXCEPT ![c] = "timed_out"]
    /\ UNCHANGED <<pc, lock, guardians, socket, peer, madeWay>>

\* Client::connect looks at the file's kind, owner and mode, then connects.
Connect(c) ==
    /\ client[c] = "ready"
    /\ IF socket.private /\ Connects
       THEN /\ client' = [client EXCEPT ![c] = "connected"]
            /\ peer' = [peer EXCEPT ![c] = socket.owner]
       ELSE /\ client' = [client EXCEPT ![c] = "refused"]
            /\ UNCHANGED peer
    /\ UNCHANGED <<pc, lock, guardians, socket, madeWay>>

\* accept, serve_connection and the response to the call.
Serve(c) ==
    /\ client[c] = "connected"
    /\ pc[peer[c]] = "serving"
    /\ client' = [client EXCEPT ![c] = "answered"]
    /\ UNCHANGED <<pc, lock, guardians, socket, peer, madeWay>>

\* The daemon ended before it answered, or the answer comes after the
\* client's read timeout.
CallFails(c) ==
    /\ client[c] = "connected"
    /\ \/ pc[peer[c]] \in Gone
       \/ pc[peer[c]] = "dropping"
       \/ pc[peer[c]] = "serving"
    /\ client' = [client EXCEPT ![c] = "broken"]
    /\ UNCHANGED <<pc, lock, guardians, socket, peer, madeWay>>

-----------------------------------------------------------------------------

\* One daemon may have been started by hand.
Init ==
    /\ \E first \in Daemons \cup {None} :
          pc = [d \in Daemons |-> IF d = first THEN "spawned" ELSE "off"]
    /\ lock = None
    /\ guardians = {}
    /\ socket \in {NoFile, Foreign}
    /\ client = [c \in Clients |-> "new"]
    /\ peer = [c \in Clients |-> None]
    /\ madeWay = [d \in Daemons |-> None]

DaemonStep(d) ==
    \/ Acquire(d) \/ Leave(d) \/ RefuseForeign(d) \/ RemoveStale(d)
    \/ Bind(d) \/ SetPermissions(d) \/ OpenManager(d) \/ Exit(d)

Fault(d) == BindFails(d) \/ DropEndpoint(d) \/ Killed(d)

ClientStep(c) ==
    \/ FindDaemon(c) \/ StartDaemon(c) \/ GiveUp(c)
    \/ Connect(c) \/ Serve(c) \/ CallFails(c)

Next ==
    \/ \E d \in Daemons :
          DaemonStep(d) \/ Fault(d) \/ SpawnGuardian(d) \/ GuardianEnds(d)
    \/ \E c \in Clients : ClientStep(c)

Spec == Init /\ [][Next]_vars

\* Processes that are not killed go on; a server thread answers in the end.
FairSpec ==
    /\ Spec
    /\ \A d \in Daemons : WF_vars(DaemonStep(d))
    /\ \A c \in Clients : WF_vars(ClientStep(c))

-----------------------------------------------------------------------------
\* Properties

\* Where a daemon process holds the lock itself.
Inside == {"locked", "cleared", "bound", "private", "serving", "dropping"}

TypeOK ==
    /\ pc \in [Daemons -> Gone \cup Inside \cup {"spawned"}]
    /\ lock \in Daemons \cup {None}
    /\ guardians \subseteq Daemons
    /\ socket \in [kind : {"none", "foreign", "socket"},
                  owner : Daemons \cup {None}, private : BOOLEAN]
    /\ socket.kind = "socket" => socket.owner \in Daemons
    /\ client \in [Clients -> {"new", "polling", "ready", "connected",
                              "answered", "timed_out", "refused", "broken"}]
    /\ peer \in [Clients -> Daemons \cup {None}]
    /\ madeWay \in [Daemons -> Daemons \cup {None}]

\* Runs forwardings, or is about to.
Owns(d) == pc[d] \in Inside \/ d \in guardians

\* There is one owner at a time: a second daemon neither gets as far as the
\* socket nor starts a forwarding while the first one, or a guardian that
\* cleans up after it, is there, whoever is killed and in whatever order.
OneOwner == \A d, e \in Daemons : Owns(d) /\ Owns(e) => d = e

\* A daemon that serves is found under the public name: nobody else's bind()
\* or drop() takes its socket away, and the mode is the one clients insist on.
ServingIsReachable ==
    \A d \in Daemons :
        pc[d] \in {"private", "serving"} => socket = SocketOf(d, TRUE)

\* The daemon is ending, or has ended, other than by making way.
Perished(d) == pc[d] \in {"dropping", "failed", "killed"}

\* A client does without a daemon only because of the one it relied on.  It
\* gives up waiting only if the process it started has perished, or left and
\* the owner of the lock it made way for has: no leaving process strands its
\* client while the owner is well, and whatever befell other daemons before is
\* no excuse.  (An owner that was killed before the process came, so that only
\* its guardians held the lock, has perished too: docs/design-decisions.md has a
\* replacement wait for them, up to 15 seconds, and then say so; the program
\* tries the lock once and leaves with success.)  It is turned away only if the
\* daemon it found has perished since, or is between bind() and set_permissions.
CallFailsForAReason ==
    [][\A c \in Clients :
          LET d == peer[c] IN
          /\ client[c] = "polling" /\ client'[c] = "timed_out" =>
                Perished(d) \/ (pc[d] = "left" /\ Perished(madeWay[d]))
          /\ client[c] = "ready" /\ client'[c] = "refused" =>
                Perished(d) \/ pc[d] = "bound"]_vars

\* Every call comes to an end, with an answer or an error.
CallEnds ==
    \A c \in Clients :
        <>(client[c] \in {"answered", "timed_out", "refused", "broken"})
=============================================================================
