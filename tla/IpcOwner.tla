------------------------------ MODULE IpcOwner ------------------------------
(***************************************************************************)
(* Ownership of the JSON IPC endpoint: the SignalBroadcaster of            *)
(* strategy/signal_broadcaster.jl.                                         *)
(*                                                                         *)
(* Every broadcaster of every process uses the same endpoint name, so the  *)
(* same socket path and the same sidecar `path.owner.lock`.  The           *)
(* constructor opens the sidecar, flocks it, removes a stale socket and    *)
(* binds; shutdown closes the socket, waits for the ZMQ context to end and *)
(* only then releases the flock.  libzmq unlinks whatever is at the path   *)
(* both before it binds and when the listener is destroyed, which is what  *)
(* makes the order of these steps matter.                                  *)
(*                                                                         *)
(* One action is one system call or one ZMQ call: processes, and tasks of  *)
(* one process, interleave between them.  An open file description is      *)
(* named by the <<process, fd>> that holds it, because no descriptor is    *)
(* ever duplicated or inherited (O_CLOEXEC).                               *)
(***************************************************************************)
EXTENDS Naturals

CONSTANTS Broadcasters,  \* the SignalBroadcaster objects
          Processes,     \* the Julia processes
          ProcessOf,     \* the process of each broadcaster
          Fds,           \* descriptor numbers open(2) may return
          Inodes,        \* inodes the lock file may have
          NoFd,          \* Cint(-1)
          NoInode,       \* an unused descriptor, or a name with no file
          Free,          \* a lock nobody holds
          Nobody,        \* no broadcaster
          NoFile,        \* nothing at the socket path
          NotASocket,    \* a file, a directory or a symlink that leads somewhere
          DanglingLink,  \* a symlink at the path that leads nowhere
          MaxMessages    \* bound on the signals one broadcaster sends

ASSUME OwnerAssumption ==
  /\ ProcessOf \in [Broadcasters -> Processes]
  /\ NoFd \notin Fds
  /\ NoInode \notin Inodes
  /\ Free \notin Processes \X Fds
  /\ Nobody \notin Broadcasters
  /\ NoFile \notin Broadcasters
  /\ NotASocket \notin Broadcasters
  /\ DanglingLink \notin Broadcasters
  /\ NoFile # NotASocket /\ DanglingLink \notin {NoFile, NotASocket}
  /\ MaxMessages \in Nat

VARIABLES pc,        \* where each broadcaster's constructor or shutdown stands
          fd,        \* owner_lock_fd
          count,     \* message_count
          listening, \* libzmq's listener of the broadcaster exists
          fdTable,   \* kernel: the file behind each descriptor
          flocks,    \* kernel: the <<process, fd>> that holds each flock
          lockFile,  \* kernel: the inode the name `*.owner.lock` leads to
          path       \* kernel: what the socket path leads to; a broadcaster
                     \* stands for the socket it bound, stale or not

vars == <<pc, fd, count, listening, fdTable, flocks, lockFile, path>>

PCs == {"idle", "opened", "locked", "cleared", "live", "closing", "stuck",
        "termed", "closed", "failing", "failed"}

\* The types of the variables: a remembered descriptor is -1 or one open(2) returned.
TypeOK == /\ pc \in [Broadcasters -> PCs]
          /\ fd \in [Broadcasters -> Fds \cup {NoFd}]
          /\ count \in [Broadcasters -> 0..MaxMessages]
          /\ listening \in [Broadcasters -> BOOLEAN]
          /\ fdTable \in [Processes -> [Fds -> Inodes \cup {NoInode}]]
          /\ flocks \in [Inodes -> (Processes \X Fds) \cup {Free}]
          /\ lockFile \in Inodes \cup {NoInode}
          /\ path \in Broadcasters \cup {NoFile, NotASocket, DanglingLink}

-----------------------------------------------------------------------------
\* The lock file survives earlier runs, and so does whatever an earlier run or
\* a user left at the socket path (a broadcaster's name: its stale socket).
Init == /\ pc = [b \in Broadcasters |-> "idle"]
        /\ fd = [b \in Broadcasters |-> NoFd]
        /\ count = [b \in Broadcasters |-> 0]
        /\ listening = [b \in Broadcasters |-> FALSE]
        /\ fdTable = [p \in Processes |-> [f \in Fds |-> NoInode]]
        /\ flocks = [i \in Inodes |-> Free]
        /\ lockFile \in Inodes \cup {NoInode}
        /\ path \in Broadcasters \cup {NoFile, NotASocket, DanglingLink}

\* Kernel: unlock and close descriptor f of process p, whatever it is now.
CloseFd(p, f) ==
  /\ fdTable' = [fdTable EXCEPT ![p][f] = NoInode]
  /\ flocks' = [i \in Inodes |-> IF flocks[i] = <<p, f>> THEN Free ELSE flocks[i]]

\* Mutated ReleaseLock: the sidecar is deleted with the lock.
ReleaseAndUnlink(b) ==
  IF fd[b] = NoFd THEN UNCHANGED <<fdTable, flocks, lockFile>>
                  ELSE CloseFd(ProcessOf[b], fd[b]) /\ lockFile' = NoInode

\* release_ipc_owner_lock: nothing for -1, never unlinks the lock file.
ReleaseLock(b) ==
  /\ IF fd[b] = NoFd THEN UNCHANGED <<fdTable, flocks>>
                     ELSE CloseFd(ProcessOf[b], fd[b])
  /\ UNCHANGED lockFile

\* Mutated ForgetFd: the stale descriptor number is kept.
KeepFd(b) == UNCHANGED fd

\* The caller forgets the descriptor it has just released.
ForgetFd(b) == fd' = [fd EXCEPT ![b] = NoFd]

Goto(b, from, to) == /\ pc[b] \in from
                     /\ pc' = [pc EXCEPT ![b] = to]

-----------------------------------------------------------------------------
\* A new SignalBroadcaster opens the sidecar, creating it if it is not there.
OpenLock(b) ==
  /\ Goto(b, {"idle", "closed", "failed"}, "opened")
  /\ \E f \in Fds, i \in Inodes :
       /\ fdTable[ProcessOf[b]][f] = NoInode
       /\ IF lockFile = NoInode
            THEN /\ flocks[i] = Free
                 /\ \A p \in Processes, g \in Fds : fdTable[p][g] # i
            ELSE i = lockFile
       /\ lockFile' = i
       /\ fdTable' = [fdTable EXCEPT ![ProcessOf[b]][f] = i]
       /\ fd' = [fd EXCEPT ![b] = f]
  /\ count' = [count EXCEPT ![b] = 0]
  /\ UNCHANGED <<listening, flocks, path>>

\* The lock file is a symlink, or open fails; a refused endpoint ends the
\* constructor alike.
OpenFails(b) ==
  /\ Goto(b, {"idle", "closed", "failed"}, "failing")
  /\ count' = [count EXCEPT ![b] = 0]
  /\ UNCHANGED <<fd, listening, fdTable, flocks, lockFile, path>>

\* flock(LOCK_EX | LOCK_NB) succeeds.
Flock(b) ==
  /\ Goto(b, {"opened"}, "locked")
  /\ LET i == fdTable[ProcessOf[b]][fd[b]]
     IN /\ flocks[i] = Free
        /\ flocks' = [flocks EXCEPT ![i] = <<ProcessOf[b], fd[b]>>]
  /\ UNCHANGED <<fd, count, listening, fdTable, lockFile, path>>

\* Mutated FlockBusy: without LOCK_NB the constructor waits for the lock.
FlockWaits(b) == /\ pc[b] = "opened"
                 /\ flocks[fdTable[ProcessOf[b]][fd[b]]] # Free
                 /\ UNCHANGED vars

\* Another broadcaster holds the flock: close the descriptor and give up.
FlockBusy(b) ==
  /\ Goto(b, {"opened"}, "failing")
  /\ flocks[fdTable[ProcessOf[b]][fd[b]]] # Free
  /\ CloseFd(ProcessOf[b], fd[b])
  /\ ForgetFd(b)
  /\ UNCHANGED <<count, listening, lockFile, path>>

\* Mutated RemoveStale: whatever is at the path is removed.
RemoveAnything(b) ==
  /\ Goto(b, {"locked"}, "cleared")
  /\ path' = NoFile
  /\ UNCHANGED <<fd, count, listening, fdTable, flocks, lockFile>>

\* ispath follows symlinks: one that leads nowhere is not seen.
IsPath == path \notin {NoFile, DanglingLink}

\* remove_unix_socket_if_present!: a stale socket goes, an absent one is fine.
RemoveStale(b) ==
  /\ Goto(b, {"locked"}, "cleared")
  /\ path # NotASocket
  /\ path' = IF IsPath THEN NoFile ELSE path
  /\ UNCHANGED <<fd, count, listening, fdTable, flocks, lockFile>>

\* What is there is no socket, or it cannot be removed: the inner handler
\* releases the lock before the error reaches the constructor's own handler.
RemoveStaleFails(b) ==
  /\ Goto(b, {"locked"}, "failing")
  /\ IsPath
  /\ ReleaseLock(b)
  /\ ForgetFd(b)
  /\ UNCHANGED <<count, listening, path>>

\* libzmq unlinks the path and binds a listening socket of its own there.
Bind(b) ==
  /\ Goto(b, {"cleared"}, "live")
  /\ path' = b
  /\ listening' = [listening EXCEPT ![b] = TRUE]
  /\ UNCHANGED <<fd, count, fdTable, flocks, lockFile>>

\* ZMQ.bind throws; libzmq may have unlinked the path by then.
BindFails(b) ==
  /\ Goto(b, {"cleared"}, "failing")
  /\ path' \in {path, NoFile}
  /\ ReleaseLock(b)
  /\ ForgetFd(b)
  /\ UNCHANGED <<count, listening>>

\* The constructor's outer handler: close, term, release what is still held.
Unwind(b) ==
  /\ Goto(b, {"failing"}, "failed")
  /\ ReleaseLock(b)
  /\ UNCHANGED <<fd, count, listening, path>>

\* broadcast_trade: a signal is counted once ZMQ has taken it.  A send that
\* fails is warned about and changes nothing.
BroadcastTrade(b) ==
  /\ pc[b] = "live"
  /\ count[b] < MaxMessages
  /\ count' = [count EXCEPT ![b] = @ + 1]
  /\ UNCHANGED <<pc, fd, listening, fdTable, flocks, lockFile, path>>

\* Mutated CloseSocket: the lock goes before the socket is really gone.
CloseAndRelease(b) ==
  /\ Goto(b, {"live"}, "closing")
  /\ ReleaseLock(b)
  /\ ForgetFd(b)
  /\ UNCHANGED <<count, listening, path>>

\* shutdown, 1: ZMQ.close hands the socket to libzmq's reaper.
CloseSocket(b) ==
  /\ Goto(b, {"live"}, "closing")
  /\ UNCHANGED <<fd, count, listening, fdTable, flocks, lockFile, path>>

\* libzmq's I/O thread destroys the listener and unlinks its path by name.
Reap(b) ==
  /\ pc[b] \in {"closing", "stuck"}
  /\ listening[b]
  /\ listening' = [listening EXCEPT ![b] = FALSE]
  /\ path' = NoFile
  /\ UNCHANGED <<pc, fd, count, fdTable, flocks, lockFile>>

\* shutdown, 2: ZMQ.term returns once every socket of the context is gone.
Term(b) ==
  /\ Goto(b, {"closing"}, "termed")
  /\ ~listening[b]
  /\ UNCHANGED <<fd, count, listening, fdTable, flocks, lockFile, path>>

\* ZMQ.term throws: the handler only warns, and the lock stays with the object.
TermFails(b) ==
  /\ Goto(b, {"closing"}, "stuck")
  /\ UNCHANGED <<fd, count, listening, fdTable, flocks, lockFile, path>>

\* shutdown, 3: release the flock and forget the descriptor.
Release(b) ==
  /\ Goto(b, {"termed"}, "closed")
  /\ ReleaseLock(b)
  /\ ForgetFd(b)
  /\ UNCHANGED <<count, listening, path>>

\* shutdown is called again.  After a shutdown close and term are no-ops and the
\* descriptor it releases is -1; after a term that threw, it is tried again.
ShutdownAgain(b) ==
  /\ Goto(b, {"closed"}, "termed") \/ Goto(b, {"stuck"}, "closing")
  /\ UNCHANGED <<fd, count, listening, fdTable, flocks, lockFile, path>>

\* The process dies: the kernel closes its descriptors, which drops its
\* flocks, and nobody unlinks the socket.
Crash(p) ==
  LET dead(b) == ProcessOf[b] = p
  IN /\ \E b \in Broadcasters : dead(b) /\ pc[b] # "idle"
     /\ pc' = [b \in Broadcasters |-> IF dead(b) THEN "idle" ELSE pc[b]]
     /\ fd' = [b \in Broadcasters |-> IF dead(b) THEN NoFd ELSE fd[b]]
     /\ count' = [b \in Broadcasters |-> IF dead(b) THEN 0 ELSE count[b]]
     /\ listening' = [b \in Broadcasters |-> listening[b] /\ ~dead(b)]
     /\ fdTable' = [fdTable EXCEPT ![p] = [f \in Fds |-> NoInode]]
     /\ flocks' = [i \in Inodes |-> IF flocks[i] \in {p} \X Fds THEN Free ELSE flocks[i]]
     /\ UNCHANGED <<lockFile, path>>

Construct(b) == \/ OpenLock(b) \/ OpenFails(b) \/ Flock(b) \/ FlockBusy(b)
                \/ RemoveStale(b) \/ RemoveStaleFails(b)
                \/ Bind(b) \/ BindFails(b) \/ Unwind(b)

Shutdown(b) == \/ CloseSocket(b) \/ Reap(b) \/ Term(b) \/ TermFails(b)
               \/ Release(b) \/ ShutdownAgain(b)

Next == \/ \E b \in Broadcasters : Construct(b) \/ BroadcastTrade(b) \/ Shutdown(b)
        \/ \E p \in Processes : Crash(p)

Spec == Init /\ [][Next]_vars

\* A constructor that has begun runs on, and so does a shutdown with libzmq's
\* I/O thread: none of their calls waits on another broadcaster.
Progress(b) == \/ Flock(b) \/ FlockBusy(b) \/ RemoveStale(b) \/ RemoveStaleFails(b)
               \/ Bind(b) \/ BindFails(b) \/ Unwind(b)
               \/ Reap(b) \/ Term(b) \/ Release(b)

FairSpec == Spec /\ \A b \in Broadcasters : WF_vars(Progress(b))

-----------------------------------------------------------------------------
\* From flock to release a broadcaster owns the endpoint.
Owning == {"locked", "cleared", "live", "closing", "stuck", "termed"}
Owns(b) == pc[b] \in Owning /\ fd[b] # NoFd

\* Two broadcasters never own the endpoint together, in whatever processes
\* they are: the flock on the one inode excludes them (acquire/release).
MutualExclusion ==
  \A b, c \in Broadcasters : Owns(b) /\ Owns(c) => b = c

\* A live broadcaster's endpoint is never stolen: as long as it is live the
\* path leads to the socket it bound, whatever the others construct, fail,
\* unlink or shut down (bind's and the reaper's unlink by name).
EndpointIntact ==
  \A b \in Broadcasters : pc[b] = "live" => path = b /\ listening[b]

\* The flock is never orphaned: whoever holds it is on its way through the
\* constructor, live or shutting down, so when all are idle, closed or failed
\* the next constructor gets the endpoint (release on each error path).
LockNotOrphaned ==
  \A i \in Inodes : flocks[i] # Free =>
    \E b \in Broadcasters : Owns(b) /\ flocks[i] = <<ProcessOf[b], fd[b]>>

\* No error path and no shutdown leaks a descriptor or closes another's: the
\* descriptors open in a process are those its broadcasters remember, each
\* remembered once.
DescriptorsAccounted ==
  /\ \A p \in Processes, f \in Fds :
       fdTable[p][f] # NoInode <=>
         \E b \in Broadcasters : ProcessOf[b] = p /\ fd[b] = f
  /\ \A b, c \in Broadcasters :
       ProcessOf[b] = ProcessOf[c] /\ fd[b] = fd[c] /\ fd[b] # NoFd => b = c

\* Nothing leaks, on any path out of the constructor or of shutdown.
NothingLeaks == LockNotOrphaned /\ DescriptorsAccounted

\* What is not a socket, and can be followed to something, is never deleted from
\* the path (remove_unix_socket_if_present! refuses, so bind is never reached).  A
\* symlink that leads nowhere is not refused, whatever its docstring says
\* (signal_broadcaster.jl:262), for ispath takes it for an absent path: it goes in
\* a bind, and only in one by the owner of the lock.
OthersFileKept ==
  [][/\ path = NotASocket => path' = NotASocket
     /\ path = DanglingLink /\ path' # DanglingLink =>
          \E b \in Broadcasters : pc[b] = "cleared" /\ Owns(b) /\ path' \in {b, NoFile}]_vars

\* A signal is counted only while the name its subscribers connect to leads
\* to the sender, and no other broadcaster's listener is up.
CountedWhileServing ==
  [][\A b \in Broadcasters : count'[b] > count[b] =>
       path = b /\ \A c \in Broadcasters : listening[c] => c = b]_vars

\* Every constructor ends, live or failed (or dead with its process): nobody
\* waits for the lock of another (LOCK_NB).
ConstructorsEnd ==
  \A b \in Broadcasters :
    pc[b] \in {"opened", "locked", "cleared", "failing"}
      ~> pc[b] \in {"live", "failed", "idle"}
\* Every shutdown that was begun gives the endpoint up, unless ZMQ.term throws.
ShutdownsEnd ==
  \A b \in Broadcasters : pc[b] \in {"closing", "termed"} ~> ~Owns(b) \/ pc[b] = "stuck"

\* Constructors and shutdowns end, both.
EveryCallEnds == ConstructorsEnd /\ ShutdownsEnd

-----------------------------------------------------------------------------
\* Why it works, as an inductive invariant.  A descriptor is remembered exactly
\* from open to release ...
PcFd ==
  \A b \in Broadcasters :
    /\ pc[b] \in {"opened", "locked", "cleared", "live", "closing", "stuck"} => fd[b] # NoFd
    /\ pc[b] \in {"idle", "failing", "failed", "closed"} => fd[b] = NoFd
\* ... every remembered descriptor leads to the one inode of the lock file ...
FdFile ==
  \A b \in Broadcasters : fd[b] # NoFd =>
    /\ lockFile # NoInode
    /\ fdTable[ProcessOf[b]][fd[b]] = lockFile
\* ... the flock of that inode is held exactly through an owner's descriptor ...
OwnerHoldsFlock ==
  \A b \in Broadcasters : Owns(b) => flocks[lockFile] = <<ProcessOf[b], fd[b]>>
\* ... and a listener is at the path, where one about to bind has refused
\* whatever it could follow and is not a socket.
ListenerAtPath ==
  \A b \in Broadcasters :
    /\ pc[b] = "live" => listening[b]
    /\ listening[b] => pc[b] \in {"live", "closing", "stuck"} /\ path = b
    /\ pc[b] = "cleared" => path # NotASocket

IndInv == /\ TypeOK /\ PcFd /\ FdFile /\ DescriptorsAccounted
          /\ OwnerHoldsFlock /\ LockNotOrphaned /\ ListenerAtPath

-----------------------------------------------------------------------------
\* The refinement: the owner is who owns, the server is the owner whose
\* listener is behind the path.
OwnerNow == IF \E b \in Broadcasters : Owns(b)
              THEN CHOOSE b \in Broadcasters : Owns(b) ELSE Nobody
ServerNow == IF \E b \in Broadcasters : listening[b] /\ path = b
               THEN path ELSE Nobody

Mutex == INSTANCE EndpointMutex WITH owner <- OwnerNow, server <- ServerNow

\* The flock protocol implements the endpoint mutex.
RefinesMutex == Mutex!Spec
=============================================================================
