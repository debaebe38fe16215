--------------------------- MODULE Protocols_proofs ---------------------------
(***************************************************************************)
(* Proofs about the protocols several processes or tasks follow: who owns  *)
(* the JSON endpoint, for any number of broadcasters and processes; where  *)
(* its two sides look for it; and the polls of the dYdX feed, for any      *)
(* pollers, tickers and lists.                                             *)
(*                                                                         *)
(* Of the owner, IndInv is inductive: mutual exclusion and the integrity   *)
(* of a live endpoint follow from it, and it is what makes every step of   *)
(* the protocol a step of EndpointMutex.  The other two, JsonEndpoint and  *)
(* DydxFeed, have a state of their own.                                    *)
(***************************************************************************)
EXTENDS IpcOwner, JsonEndpoint, DydxFeed, TLAPS


\* Nothing is open, locked or listening before the first constructor runs.
LEMMA InitIndInv == Init => IndInv
  <1> SUFFICES ASSUME Init PROVE IndInv
    OBVIOUS
  <1> USE OwnerAssumption DEF Init
  <1>1. TypeOK
    BY DEF TypeOK, PCs
  <1>2. PcFd /\ FdFile /\ OwnerHoldsFlock /\ ListenerAtPath
    BY DEF PcFd, FdFile, OwnerHoldsFlock, ListenerAtPath, Owns, Owning
  <1>3. DescriptorsAccounted /\ LockNotOrphaned
    BY DEF DescriptorsAccounted, LockNotOrphaned
  <1> QED
    BY <1>1, <1>2, <1>3 DEF IndInv

\* Two owners would both be named by the flock of the one inode, and within a
\* process no two broadcasters remember the same descriptor.
LEMMA IndInvExcludes == IndInv => MutualExclusion
  <1> SUFFICES ASSUME IndInv, NEW b \in Broadcasters, NEW c \in Broadcasters,
                      Owns(b), Owns(c)
               PROVE  b = c
    BY DEF MutualExclusion
  <1>1. <<ProcessOf[b], fd[b]>> = <<ProcessOf[c], fd[c]>>
    BY DEF IndInv, OwnerHoldsFlock
  <1> QED
    BY <1>1 DEF IndInv, DescriptorsAccounted, Owns

\* What closing descriptor f of process p does to the kernel's tables.
LEMMA CloseFdEffect ==
  ASSUME TypeOK, NEW p \in Processes, NEW f \in Fds, CloseFd(p, f)
  PROVE  /\ fdTable' \in [Processes -> [Fds -> Inodes \cup {NoInode}]]
         /\ flocks' \in [Inodes -> (Processes \X Fds) \cup {Free}]
         /\ \A q \in Processes, g \in Fds :
              fdTable'[q][g] = IF q = p /\ g = f THEN NoInode ELSE fdTable[q][g]
         /\ \A i \in Inodes :
              flocks'[i] = IF flocks[i] = <<p, f>> THEN Free ELSE flocks[i]
  BY DEF TypeOK, CloseFd

\* release_ipc_owner_lock: exactly the broadcaster's own descriptor is closed
\* and its own flock dropped; for -1 nothing matches and nothing changes.
LEMMA ReleaseEffect ==
  ASSUME TypeOK, NEW b \in Broadcasters, ReleaseLock(b)
  PROVE  /\ fdTable' \in [Processes -> [Fds -> Inodes \cup {NoInode}]]
         /\ flocks' \in [Inodes -> (Processes \X Fds) \cup {Free}]
         /\ lockFile' = lockFile
         /\ \A q \in Processes, g \in Fds :
              fdTable'[q][g] = IF q = ProcessOf[b] /\ g = fd[b]
                                 THEN NoInode ELSE fdTable[q][g]
         /\ \A i \in Inodes :
              flocks'[i] = IF flocks[i] = <<ProcessOf[b], fd[b]>>
                             THEN Free ELSE flocks[i]
  <1>1. CASE fd[b] = NoFd
    BY <1>1, OwnerAssumption DEF TypeOK, ReleaseLock
  <1>2. CASE fd[b] # NoFd
    <2>1. fd[b] \in Fds /\ ProcessOf[b] \in Processes /\ CloseFd(ProcessOf[b], fd[b])
      BY <1>2, OwnerAssumption DEF TypeOK, ReleaseLock
    <2> QED
      BY <2>1, CloseFdEffect DEF ReleaseLock
  <1> QED
    BY <1>1, <1>2

\* Every step keeps every variable in its type.
LEMMA TypeStep == IndInv /\ [Next]_vars => TypeOK'
  <1> SUFFICES ASSUME IndInv, [Next]_vars PROVE TypeOK'
    OBVIOUS
  <1> USE OwnerAssumption DEF IndInv, TypeOK, PCs
  <1>1. ASSUME NEW b \in Broadcasters, Construct(b) PROVE TypeOK'
    <2>1. CASE OpenLock(b)
      BY <2>1 DEF OpenLock, Goto
    <2>2. CASE OpenFails(b)
      BY <2>2 DEF OpenFails, Goto
    <2>3. CASE Flock(b)
      <3>1. fd[b] \in Fds
        BY <2>3 DEF Flock, Goto, PcFd
      <3> QED
        BY <2>3, <3>1 DEF Flock, Goto
    <2>4. CASE FlockBusy(b)
      <3>1. fd[b] \in Fds
        BY <2>4 DEF FlockBusy, Goto, PcFd
      <3> QED
        BY <2>4, <3>1 DEF FlockBusy, Goto, CloseFd, ForgetFd
    <2>5. CASE RemoveStale(b)
      BY <2>5 DEF RemoveStale, Goto
    <2>6. CASE RemoveStaleFails(b)
      BY <2>6, ReleaseEffect DEF RemoveStaleFails, Goto, ForgetFd
    <2>7. CASE Bind(b)
      BY <2>7 DEF Bind, Goto
    <2>8. CASE BindFails(b)
      BY <2>8, ReleaseEffect DEF BindFails, Goto, ForgetFd
    <2>9. CASE Unwind(b)
      BY <2>9, ReleaseEffect DEF Unwind, Goto
    <2> QED
      BY <1>1, <2>1, <2>2, <2>3, <2>4, <2>5, <2>6, <2>7, <2>8, <2>9 DEF Construct
  <1>2. ASSUME NEW b \in Broadcasters, BroadcastTrade(b) PROVE TypeOK'
    BY <1>2 DEF BroadcastTrade
  <1>3. ASSUME NEW b \in Broadcasters, Shutdown(b) PROVE TypeOK'
    <2>1. CASE CloseSocket(b) \/ Term(b) \/ TermFails(b) \/ ShutdownAgain(b)
      BY <2>1 DEF CloseSocket, Term, TermFails, ShutdownAgain, Goto
    <2>2. CASE Reap(b)
      BY <2>2 DEF Reap
    <2>3. CASE Release(b)
      BY <2>3, ReleaseEffect DEF Release, Goto, ForgetFd
    <2> QED
      BY <1>3, <2>1, <2>2, <2>3 DEF Shutdown
  <1>4. ASSUME NEW p \in Processes, Crash(p) PROVE TypeOK'
    BY <1>4 DEF Crash
  <1>5. CASE UNCHANGED vars
    BY <1>5 DEF vars
  <1> QED
    BY <1>1, <1>2, <1>3, <1>4, <1>5 DEF Next

-----------------------------------------------------------------------------
\* The part of IndInv about descriptors and the flock.
LockPart == PcFd /\ FdFile /\ DescriptorsAccounted /\ OwnerHoldsFlock /\ LockNotOrphaned

\* A step that leaves descriptors and flocks alone, and nobody's ownership
\* changed, keeps that part.
LEMMA SteadyStep ==
  ASSUME IndInv, TypeOK', PcFd', UNCHANGED <<fd, fdTable, flocks, lockFile>>,
         \A b \in Broadcasters : Owns(b)' <=> Owns(b)
  PROVE  LockPart'
  <1>1. FdFile' /\ DescriptorsAccounted'
    BY DEF IndInv, FdFile, DescriptorsAccounted
  <1>2. OwnerHoldsFlock' /\ LockNotOrphaned'
    BY DEF IndInv, OwnerHoldsFlock, LockNotOrphaned
  <1> QED
    BY <1>1, <1>2 DEF LockPart

\* A broadcaster that closes its descriptor, drops its flock and forgets the
\* descriptor disturbs nobody else's.
LEMMA GiveUpStep ==
  ASSUME IndInv, TypeOK', NEW b \in Broadcasters, NEW to \in {"failing", "failed", "closed"},
         pc' = [pc EXCEPT ![b] = to],
         fd' = [fd EXCEPT ![b] = NoFd],
         lockFile' = lockFile,
         \A q \in Processes, g \in Fds :
           fdTable'[q][g] = IF q = ProcessOf[b] /\ g = fd[b]
                              THEN NoInode ELSE fdTable[q][g],
         \A i \in Inodes :
           flocks'[i] = IF flocks[i] = <<ProcessOf[b], fd[b]>> THEN Free ELSE flocks[i]
  PROVE  LockPart'
  <1> USE OwnerAssumption
  <1>0. /\ \A c \in Broadcasters : c # b => pc'[c] = pc[c] /\ fd'[c] = fd[c]
        /\ pc'[b] = to /\ fd'[b] = NoFd
    BY DEF IndInv, TypeOK
  <1>1. PcFd'
    BY <1>0 DEF IndInv, PcFd
  <1>2. FdFile'
    <2> SUFFICES ASSUME NEW c \in Broadcasters, fd'[c] # NoFd
                 PROVE  lockFile' # NoInode /\ fdTable'[ProcessOf[c]][fd'[c]] = lockFile'
      BY DEF FdFile
    <2>1. c # b /\ fd'[c] = fd[c] /\ fd[c] \in Fds /\ ProcessOf[c] \in Processes
      BY <1>0 DEF IndInv, TypeOK
    <2>2. ~(ProcessOf[c] = ProcessOf[b] /\ fd[c] = fd[b])
      BY <2>1, <1>0 DEF IndInv, DescriptorsAccounted
    <2> QED
      BY <2>1, <2>2 DEF IndInv, FdFile
  <1>3. DescriptorsAccounted'
    <2>1. ASSUME NEW p \in Processes, NEW f \in Fds
          PROVE  fdTable'[p][f] # NoInode <=>
                   \E c \in Broadcasters : ProcessOf[c] = p /\ fd'[c] = f
      <3>1. CASE p = ProcessOf[b] /\ f = fd[b]
        BY <3>1, <1>0 DEF IndInv, DescriptorsAccounted
      <3>2. CASE ~(p = ProcessOf[b] /\ f = fd[b])
        BY <3>2, <1>0 DEF IndInv, DescriptorsAccounted
      <3> QED
        BY <3>1, <3>2
    <2>2. ASSUME NEW c \in Broadcasters, NEW d \in Broadcasters,
                 ProcessOf[c] = ProcessOf[d], fd'[c] = fd'[d], fd'[c] # NoFd
          PROVE  c = d
      BY <2>2, <1>0 DEF IndInv, DescriptorsAccounted
    <2> QED
      BY <2>1, <2>2 DEF DescriptorsAccounted
  <1>4. ASSUME NEW c \in Broadcasters, Owns(c)'
        PROVE  Owns(c) /\ c # b /\ flocks'[lockFile'] = <<ProcessOf[c], fd'[c]>>
    <2>1. c # b /\ Owns(c)
      BY <1>4, <1>0 DEF Owns
    <2>2. lockFile \in Inodes /\ flocks[lockFile] = <<ProcessOf[c], fd[c]>>
      BY <2>1 DEF IndInv, OwnerHoldsFlock, FdFile, TypeOK, Owns
    <2>3. ~(ProcessOf[c] = ProcessOf[b] /\ fd[c] = fd[b])
      BY <2>1 DEF IndInv, DescriptorsAccounted, Owns
    <2> QED
      BY <2>1, <2>2, <2>3, <1>0
  <1>5. OwnerHoldsFlock'
    BY <1>4 DEF OwnerHoldsFlock
  <1>6. LockNotOrphaned'
    <2> SUFFICES ASSUME NEW i \in Inodes, flocks'[i] # Free
                 PROVE  \E c \in Broadcasters :
                          Owns(c)' /\ flocks'[i] = <<ProcessOf[c], fd'[c]>>
      BY DEF LockNotOrphaned
    <2>1. flocks[i] # Free /\ flocks'[i] = flocks[i] /\ flocks[i] # <<ProcessOf[b], fd[b]>>
      OBVIOUS
    <2>2. PICK c \in Broadcasters : Owns(c) /\ flocks[i] = <<ProcessOf[c], fd[c]>>
      BY <2>1 DEF IndInv, LockNotOrphaned
    <2>3. c # b
      BY <2>1, <2>2
    <2> QED
      BY <2>1, <2>2, <2>3, <1>0 DEF Owns
  <1> QED
    BY <1>1, <1>2, <1>3, <1>5, <1>6 DEF LockPart

\* A constructor's open: a fresh descriptor on the one inode.
LEMMA OpenStep ==
  ASSUME IndInv, TypeOK', NEW b \in Broadcasters, OpenLock(b)
  PROVE  LockPart'
  <1> USE OwnerAssumption
  <1> DEFINE p == ProcessOf[b]
  <1>1. PICK f \in Fds, i \in Inodes :
          /\ fdTable[p][f] = NoInode
          /\ lockFile = NoInode =>
               flocks[i] = Free /\ \A q \in Processes, g \in Fds : fdTable[q][g] # i
          /\ lockFile # NoInode => i = lockFile
          /\ lockFile' = i
          /\ fdTable' = [fdTable EXCEPT ![p][f] = i]
          /\ fd' = [fd EXCEPT ![b] = f]
    BY DEF OpenLock
  <1>2. p \in Processes /\ i # NoInode /\ f # NoFd /\ flocks' = flocks
    BY DEF OpenLock
  <1>3. /\ fd[b] = NoFd /\ ~Owns(b)
        /\ fd'[b] = f /\ pc'[b] = "opened"
        /\ \A c \in Broadcasters : c # b => pc'[c] = pc[c] /\ fd'[c] = fd[c]
    BY <1>1 DEF OpenLock, Goto, IndInv, PcFd, TypeOK, Owns
  <1>4. \A q \in Processes, g \in Fds :
          fdTable'[q][g] = IF q = p /\ g = f THEN i ELSE fdTable[q][g]
    BY <1>1, <1>2 DEF IndInv, TypeOK
  <1>5. \A c \in Broadcasters : Owns(c)' <=> Owns(c)
    BY <1>3 DEF Owns, Owning
  <1>6. PcFd'
    BY <1>3, <1>2 DEF IndInv, PcFd
  <1>7. \A c \in Broadcasters : fd[c] # NoFd =>
          /\ c # b /\ lockFile' = lockFile /\ fd[c] \in Fds /\ ProcessOf[c] \in Processes
          /\ ~(ProcessOf[c] = p /\ fd[c] = f)
    BY <1>1, <1>3 DEF IndInv, FdFile, TypeOK
  <1>8. FdFile'
    <2> SUFFICES ASSUME NEW c \in Broadcasters, fd'[c] # NoFd
                 PROVE  lockFile' # NoInode /\ fdTable'[ProcessOf[c]][fd'[c]] = lockFile'
      BY DEF FdFile
    <2>1. CASE c = b
      BY <2>1, <1>1, <1>2, <1>3, <1>4
    <2>2. CASE c # b
      BY <2>2, <1>3, <1>4, <1>7 DEF IndInv, FdFile
    <2> QED
      BY <2>1, <2>2
  <1>9. DescriptorsAccounted'
    <2>1. ASSUME NEW q \in Processes, NEW g \in Fds
          PROVE  fdTable'[q][g] # NoInode <=>
                   \E c \in Broadcasters : ProcessOf[c] = q /\ fd'[c] = g
      <3>1. CASE q = p /\ g = f
        BY <3>1, <1>2, <1>3, <1>4
      <3>2. CASE ~(q = p /\ g = f)
        BY <3>2, <1>3, <1>4 DEF IndInv, DescriptorsAccounted
      <3> QED
        BY <3>1, <3>2
    <2>2. ASSUME NEW c \in Broadcasters, NEW d \in Broadcasters,
                 ProcessOf[c] = ProcessOf[d], fd'[c] = fd'[d], fd'[c] # NoFd
          PROVE  c = d
      BY <2>2, <1>3, <1>7 DEF IndInv, DescriptorsAccounted
    <2> QED
      BY <2>1, <2>2 DEF DescriptorsAccounted
  <1>10. OwnerHoldsFlock'
    BY <1>2, <1>3, <1>5, <1>7 DEF IndInv, OwnerHoldsFlock, Owns
  <1>11. LockNotOrphaned'
    <2>1. \A c \in Broadcasters : Owns(c) => fd'[c] = fd[c]
      BY <1>3
    <2> QED
      BY <2>1, <1>2, <1>5 DEF IndInv, LockNotOrphaned
  <1> QED
    BY <1>6, <1>8, <1>9, <1>10, <1>11 DEF LockPart

\* A successful flock: nobody owned the endpoint, because an owner would hold
\* this very inode's flock.
LEMMA FlockStep ==
  ASSUME IndInv, TypeOK', NEW b \in Broadcasters, Flock(b)
  PROVE  /\ LockPart'
         /\ \A c \in Broadcasters : ~Owns(c)
  <1> USE OwnerAssumption
  <1>1. /\ fd[b] \in Fds /\ fd[b] # NoFd /\ lockFile \in Inodes
        /\ fdTable[ProcessOf[b]][fd[b]] = lockFile
    BY DEF Flock, Goto, IndInv, PcFd, FdFile, TypeOK
  <1>2. /\ flocks[lockFile] = Free
        /\ flocks'[lockFile] = <<ProcessOf[b], fd[b]>>
        /\ \A i \in Inodes : i # lockFile => flocks'[i] = flocks[i]
    BY <1>1 DEF Flock, IndInv, TypeOK
  <1>3. \A c \in Broadcasters : ~Owns(c)
    <2> SUFFICES ASSUME NEW c \in Broadcasters, Owns(c) PROVE FALSE
      OBVIOUS
    <2>1. flocks[lockFile] = <<ProcessOf[c], fd[c]>> /\ fd[c] \in Fds /\ ProcessOf[c] \in Processes
      BY DEF IndInv, OwnerHoldsFlock, Owns, TypeOK
    <2> QED
      BY <2>1, <1>2
  <1>4. /\ pc'[b] = "locked" /\ fd' = fd /\ fdTable' = fdTable /\ lockFile' = lockFile
        /\ \A c \in Broadcasters : c # b => pc'[c] = pc[c]
    BY DEF Flock, Goto, IndInv, TypeOK
  <1>5. \A c \in Broadcasters : Owns(c)' <=> c = b
    BY <1>1, <1>3, <1>4 DEF Owns, Owning
  <1>6. PcFd' /\ FdFile' /\ DescriptorsAccounted'
    BY <1>1, <1>4 DEF IndInv, PcFd, FdFile, DescriptorsAccounted
  <1>7. OwnerHoldsFlock'
    BY <1>2, <1>4, <1>5 DEF OwnerHoldsFlock
  <1>8. LockNotOrphaned'
    BY <1>2, <1>3, <1>4, <1>5 DEF IndInv, LockNotOrphaned
  <1> QED
    BY <1>3, <1>6, <1>7, <1>8 DEF LockPart

\* A crash takes away what the dead process held and nothing else.
LEMMA CrashStep ==
  ASSUME IndInv, TypeOK', NEW p \in Processes, Crash(p)
  PROVE  LockPart'
  <1> USE OwnerAssumption
  <1>1. \A b \in Broadcasters :
          /\ ProcessOf[b] = p => pc'[b] = "idle" /\ fd'[b] = NoFd
          /\ ProcessOf[b] # p => pc'[b] = pc[b] /\ fd'[b] = fd[b]
    BY DEF Crash
  <1>2. \A q \in Processes, f \in Fds :
          fdTable'[q][f] = IF q = p THEN NoInode ELSE fdTable[q][f]
    BY DEF Crash, IndInv, TypeOK
  <1>3. lockFile' = lockFile
    BY DEF Crash
  <1>4. \A i \in Inodes :
          flocks'[i] = IF flocks[i] \in {p} \X Fds THEN Free ELSE flocks[i]
    BY DEF Crash
  <1>5. PcFd'
    BY <1>1 DEF IndInv, PcFd
  <1>6. FdFile'
    <2> SUFFICES ASSUME NEW c \in Broadcasters, fd'[c] # NoFd
                 PROVE  lockFile' # NoInode /\ fdTable'[ProcessOf[c]][fd'[c]] = lockFile'
      BY DEF FdFile
    <2>1. ProcessOf[c] # p /\ fd'[c] = fd[c] /\ fd[c] \in Fds /\ ProcessOf[c] \in Processes
      BY <1>1 DEF IndInv, TypeOK
    <2> QED
      BY <2>1, <1>2, <1>3 DEF IndInv, FdFile
  <1>7. DescriptorsAccounted'
    <2>1. ASSUME NEW q \in Processes, NEW f \in Fds
          PROVE  fdTable'[q][f] # NoInode <=>
                   \E c \in Broadcasters : ProcessOf[c] = q /\ fd'[c] = f
      BY <1>1, <1>2 DEF IndInv, DescriptorsAccounted
    <2>2. ASSUME NEW c \in Broadcasters, NEW d \in Broadcasters,
                 ProcessOf[c] = ProcessOf[d], fd'[c] = fd'[d], fd'[c] # NoFd
          PROVE  c = d
      BY <2>2, <1>1 DEF IndInv, DescriptorsAccounted
    <2> QED
      BY <2>1, <2>2 DEF DescriptorsAccounted
  <1>8. \A c \in Broadcasters : Owns(c)' <=> Owns(c) /\ ProcessOf[c] # p
    BY <1>1 DEF Owns, Owning
  <1>9. OwnerHoldsFlock'
    <2> SUFFICES ASSUME NEW c \in Broadcasters, Owns(c)'
                 PROVE  flocks'[lockFile'] = <<ProcessOf[c], fd'[c]>>
      BY DEF OwnerHoldsFlock
    <2>1. /\ Owns(c) /\ ProcessOf[c] # p /\ fd'[c] = fd[c] /\ lockFile \in Inodes
          /\ flocks[lockFile] = <<ProcessOf[c], fd[c]>>
      BY <1>1, <1>8 DEF IndInv, OwnerHoldsFlock, FdFile, Owns, TypeOK
    <2> QED
      BY <2>1, <1>3, <1>4
  <1>10. LockNotOrphaned'
    <2> SUFFICES ASSUME NEW i \in Inodes, flocks'[i] # Free
                 PROVE  \E c \in Broadcasters :
                          Owns(c)' /\ flocks'[i] = <<ProcessOf[c], fd'[c]>>
      BY DEF LockNotOrphaned
    <2>1. flocks[i] # Free /\ flocks'[i] = flocks[i] /\ flocks[i] \notin {p} \X Fds
      BY <1>4
    <2>2. PICK c \in Broadcasters : Owns(c) /\ flocks[i] = <<ProcessOf[c], fd[c]>>
      BY <2>1 DEF IndInv, LockNotOrphaned
    <2>3. fd[c] \in Fds
      BY <2>2 DEF IndInv, TypeOK, Owns
    <2>4. ProcessOf[c] # p
      BY <2>1, <2>2, <2>3
    <2> QED
      BY <2>1, <2>2, <2>4, <1>1, <1>8
  <1> QED
    BY <1>5, <1>6, <1>7, <1>9, <1>10 DEF LockPart

\* A listener stays at its path: whoever binds, unlinks or reaps owns the
\* endpoint, so it is the listener's own broadcaster.
LEMMA ListenerStep == IndInv /\ TypeOK' /\ [Next]_vars => ListenerAtPath'
  <1> SUFFICES ASSUME IndInv, TypeOK', [Next]_vars PROVE ListenerAtPath'
    OBVIOUS
  <1> USE OwnerAssumption
  <1>0. \A b, c \in Broadcasters :
          pc[b] \in {"locked", "cleared", "live", "closing", "stuck"} /\ listening[c] => b = c
    BY IndInvExcludes DEF IndInv, MutualExclusion, Owns, Owning, PcFd, ListenerAtPath
  <1> USE DEF IndInv, ListenerAtPath, TypeOK
  <1>1. ASSUME NEW b \in Broadcasters, Construct(b) PROVE ListenerAtPath'
    <2>1. CASE OpenLock(b)
      BY <2>1 DEF OpenLock, Goto
    <2>2. CASE OpenFails(b)
      BY <2>2 DEF OpenFails, Goto
    <2>3. CASE Flock(b)
      BY <2>3 DEF Flock, Goto
    <2>4. CASE FlockBusy(b)
      BY <2>4 DEF FlockBusy, Goto
    <2>5. CASE RemoveStale(b)
      BY <2>5, <1>0 DEF RemoveStale, Goto
    <2>6. CASE RemoveStaleFails(b)
      BY <2>6 DEF RemoveStaleFails, Goto
    <2>7. CASE Bind(b)
      BY <2>7, <1>0 DEF Bind, Goto
    <2>8. CASE BindFails(b)
      BY <2>8, <1>0 DEF BindFails, Goto
    <2>9. CASE Unwind(b)
      BY <2>9 DEF Unwind, Goto
    <2> QED
      BY <1>1, <2>1, <2>2, <2>3, <2>4, <2>5, <2>6, <2>7, <2>8, <2>9 DEF Construct
  <1>2. ASSUME NEW b \in Broadcasters, BroadcastTrade(b) PROVE ListenerAtPath'
    BY <1>2 DEF BroadcastTrade
  <1>3. ASSUME NEW b \in Broadcasters, Shutdown(b) PROVE ListenerAtPath'
    <2>1. CASE CloseSocket(b) \/ Term(b) \/ TermFails(b) \/ ShutdownAgain(b)
      BY <2>1 DEF CloseSocket, Term, TermFails, ShutdownAgain, Goto
    <2>2. CASE Reap(b)
      BY <2>2, <1>0 DEF Reap
    <2>3. CASE Release(b)
      BY <2>3 DEF Release, Goto
    <2> QED
      BY <1>3, <2>1, <2>2, <2>3 DEF Shutdown
  <1>4. ASSUME NEW p \in Processes, Crash(p) PROVE ListenerAtPath'
    BY <1>4 DEF Crash
  <1>5. CASE UNCHANGED vars
    BY <1>5 DEF vars
  <1> QED
    BY <1>1, <1>2, <1>3, <1>4, <1>5 DEF Next

\* IndInv is inductive.
LEMMA IndInvStep == IndInv /\ [Next]_vars => IndInv'
  <1> SUFFICES ASSUME IndInv, [Next]_vars PROVE IndInv'
    OBVIOUS
  <1> USE OwnerAssumption
  <1>1. TypeOK' /\ ListenerAtPath'
    BY TypeStep, ListenerStep
  <1>2. TypeOK /\ PcFd
    BY DEF IndInv
  <1>3. ASSUME NEW b \in Broadcasters, Construct(b) PROVE LockPart'
    <2>1. CASE OpenLock(b)
      BY <2>1, <1>1, OpenStep
    <2>2. CASE OpenFails(b) \/ RemoveStale(b) \/ Bind(b)
      <3>1. UNCHANGED <<fd, fdTable, flocks, lockFile>>
        BY <2>2 DEF OpenFails, RemoveStale, Bind
      <3>2. PcFd' /\ \A c \in Broadcasters : Owns(c)' <=> Owns(c)
        BY <2>2, <1>2 DEF OpenFails, RemoveStale, Bind, Goto, PcFd, TypeOK, Owns, Owning
      <3> QED
        BY <3>1, <3>2, <1>1, SteadyStep
    <2>3. CASE Flock(b)
      BY <2>3, <1>1, FlockStep
    <2>4. CASE FlockBusy(b)
      <3>1. fd[b] \in Fds /\ ProcessOf[b] \in Processes
        BY <2>4, <1>2 DEF FlockBusy, Goto, PcFd, TypeOK
      <3>2. /\ CloseFd(ProcessOf[b], fd[b]) /\ lockFile' = lockFile
            /\ pc' = [pc EXCEPT ![b] = "failing"] /\ fd' = [fd EXCEPT ![b] = NoFd]
        BY <2>4 DEF FlockBusy, Goto, ForgetFd
      <3>3. /\ \A q \in Processes, g \in Fds :
                 fdTable'[q][g] = IF q = ProcessOf[b] /\ g = fd[b]
                                    THEN NoInode ELSE fdTable[q][g]
            /\ \A i \in Inodes :
                 flocks'[i] = IF flocks[i] = <<ProcessOf[b], fd[b]>>
                                THEN Free ELSE flocks[i]
        BY <3>1, <3>2, <1>2, CloseFdEffect
      <3> QED
        BY <3>2, <3>3, <1>1, GiveUpStep
    <2>5. CASE RemoveStaleFails(b)
      BY <2>5, <1>1, <1>2, ReleaseEffect, GiveUpStep DEF RemoveStaleFails, Goto, ForgetFd
    <2>6. CASE BindFails(b)
      BY <2>6, <1>1, <1>2, ReleaseEffect, GiveUpStep DEF BindFails, Goto, ForgetFd
    <2>7. CASE Unwind(b)
      <3>1. fd[b] = NoFd /\ fd' = [fd EXCEPT ![b] = NoFd]
        BY <2>7, <1>2 DEF Unwind, Goto, PcFd, TypeOK
      <3> QED
        BY <2>7, <3>1, <1>1, <1>2, ReleaseEffect, GiveUpStep DEF Unwind, Goto
    <2> QED
      BY <1>3, <2>1, <2>2, <2>3, <2>4, <2>5, <2>6, <2>7 DEF Construct
  <1>4. ASSUME NEW b \in Broadcasters, BroadcastTrade(b) PROVE LockPart'
    BY <1>4, <1>1, <1>2, SteadyStep DEF BroadcastTrade, PcFd, Owns
  <1>5. ASSUME NEW b \in Broadcasters, Shutdown(b) PROVE LockPart'
    <2>1. CASE CloseSocket(b) \/ Term(b) \/ TermFails(b) \/ ShutdownAgain(b) \/ Reap(b)
      <3>1. UNCHANGED <<fd, fdTable, flocks, lockFile>>
        BY <2>1 DEF CloseSocket, Term, TermFails, ShutdownAgain, Reap
      <3>2. PcFd' /\ \A c \in Broadcasters : Owns(c)' <=> Owns(c)
        BY <2>1, <1>2 DEF CloseSocket, Term, TermFails, ShutdownAgain, Reap, Goto, PcFd, TypeOK,
                          Owns, Owning
      <3> QED
        BY <3>1, <3>2, <1>1, SteadyStep
    <2>2. CASE Release(b)
      BY <2>2, <1>1, <1>2, ReleaseEffect, GiveUpStep DEF Release, Goto, ForgetFd
    <2> QED
      BY <1>5, <2>1, <2>2 DEF Shutdown
  <1>6. ASSUME NEW p \in Processes, Crash(p) PROVE LockPart'
    BY <1>6, <1>1, CrashStep
  <1>7. ASSUME UNCHANGED vars PROVE LockPart'
    <2>1. UNCHANGED <<pc, fd, fdTable, flocks, lockFile>>
      BY <1>7 DEF vars
    <2>2. PcFd' /\ \A b \in Broadcasters : Owns(b)' <=> Owns(b)
      BY <2>1, <1>2 DEF PcFd, Owns
    <2>3. UNCHANGED <<fd, fdTable, flocks, lockFile>>
      BY <2>1
    <2> QED
      BY <2>2, <2>3, <1>1, SteadyStep
  <1>8. LockPart'
    BY <1>3, <1>4, <1>5, <1>6, <1>7 DEF Next
  <1> QED
    BY <1>1, <1>8 DEF IndInv, LockPart

-----------------------------------------------------------------------------
\* IndInv, and so the type invariant, holds in every reachable state.
THEOREM Inductive == Spec => []IndInv
  BY InitIndInv, IndInvStep, PTL DEF Spec

\* Every variable keeps its type.
THEOREM TypeCorrect == Spec => []TypeOK
  <1>1. IndInv => TypeOK
    BY DEF IndInv
  <1> QED
    BY <1>1, Inductive, PTL

\* At most one broadcaster owns the endpoint, in any number of processes.
THEOREM ExclusiveOwnership == Spec => []MutualExclusion
  BY IndInvExcludes, Inductive, PTL

\* A live broadcaster's socket stays where its subscribers look for it.
THEOREM NoTheft == Spec => []EndpointIntact
  <1>1. IndInv => EndpointIntact
    BY DEF IndInv, ListenerAtPath, EndpointIntact
  <1> QED
    BY <1>1, Inductive, PTL

\* The flock is held only by a broadcaster that is using or releasing it, and
\* no descriptor is leaked or closed for another.
THEOREM NothingIsLeaked == Spec => []NothingLeaks
  <1>1. IndInv => NothingLeaks
    BY DEF IndInv, NothingLeaks
  <1> QED
    BY <1>1, Inductive, PTL

\* What is not a socket is never deleted: whoever writes to the path has
\* cleared it or listens there.  A symlink that leads nowhere, which the
\* constructor does not see, is replaced only in a bind by the lock's owner.
THEOREM OthersFileIsKept == Spec => OthersFileKept
  <1> DEFINE Kept == path = NotASocket => path' = NotASocket
             Bound == path = DanglingLink /\ path' # DanglingLink =>
                        \E b \in Broadcasters :
                          pc[b] = "cleared" /\ Owns(b) /\ path' \in {b, NoFile}
  <1>1. IndInv /\ [Next]_vars => [Kept]_vars
    <2> SUFFICES ASSUME IndInv, [Next]_vars, path = NotASocket PROVE path' = NotASocket
      OBVIOUS
    <2> USE OwnerAssumption DEF IndInv, ListenerAtPath
    <2>1. ASSUME NEW b \in Broadcasters, Construct(b) PROVE path' = NotASocket
      BY <2>1 DEF Construct, OpenLock, OpenFails, Flock, FlockBusy, RemoveStale,
                  RemoveStaleFails, Bind, BindFails, Unwind, Goto
    <2>2. ASSUME NEW b \in Broadcasters, BroadcastTrade(b) \/ Shutdown(b)
          PROVE  path' = NotASocket
      BY <2>2 DEF BroadcastTrade, Shutdown, CloseSocket, Reap, Term, TermFails, Release, ShutdownAgain
    <2>3. ASSUME NEW p \in Processes, Crash(p) PROVE path' = NotASocket
      BY <2>3 DEF Crash
    <2> QED
      BY <2>1, <2>2, <2>3 DEF Next, vars
  <1>2. IndInv /\ [Next]_vars => [Bound]_vars
    <2> SUFFICES ASSUME IndInv, [Next]_vars, path = DanglingLink, path' # DanglingLink
                 PROVE  \E b \in Broadcasters :
                          pc[b] = "cleared" /\ Owns(b) /\ path' \in {b, NoFile}
      OBVIOUS
    <2> USE OwnerAssumption DEF IndInv, ListenerAtPath
    <2>1. ASSUME NEW b \in Broadcasters, Bind(b) \/ BindFails(b)
          PROVE  pc[b] = "cleared" /\ Owns(b) /\ path' \in {b, NoFile}
      BY <2>1 DEF Bind, BindFails, Goto, Owns, Owning, PcFd
    <2>2. ASSUME NEW b \in Broadcasters, Construct(b), ~Bind(b), ~BindFails(b) PROVE FALSE
      BY <2>2 DEF Construct, OpenLock, OpenFails, Flock, FlockBusy, RemoveStale, IsPath,
                  RemoveStaleFails, Unwind
    <2>3. ASSUME NEW b \in Broadcasters, BroadcastTrade(b) \/ Shutdown(b) PROVE FALSE
      BY <2>3 DEF BroadcastTrade, Shutdown, CloseSocket, Reap, Term, TermFails, Release, ShutdownAgain
    <2>4. ASSUME NEW p \in Processes, Crash(p) PROVE FALSE
      BY <2>4 DEF Crash
    <2> QED
      BY <2>1, <2>2, <2>3, <2>4 DEF Next, vars
  <1>3. IndInv /\ [Next]_vars => [Kept /\ Bound]_vars
    BY <1>1, <1>2
  <1> QED
    BY <1>3, Inductive, PTL DEF Spec, OthersFileKept

\* A signal is counted only while the endpoint's name leads to its sender and
\* nobody else listens.
THEOREM CountedSignalsServed == Spec => CountedWhileServing
  <1> DEFINE Served == \A b \in Broadcasters : count'[b] > count[b] =>
                         path = b /\ \A c \in Broadcasters : listening[c] => c = b
  <1>1. IndInv /\ [Next]_vars => [Served]_vars
    <2> SUFFICES ASSUME IndInv, [Next]_vars, vars' # vars,
                        NEW b \in Broadcasters, count'[b] > count[b]
                 PROVE  path = b /\ \A c \in Broadcasters : listening[c] => c = b
      OBVIOUS
    <2> USE OwnerAssumption DEF IndInv, TypeOK
    <2>1. \A c \in Broadcasters :
            /\ ~Construct(c) /\ ~Shutdown(c)
            /\ BroadcastTrade(c) => c = b
      <3>1. ASSUME NEW c \in Broadcasters, OpenLock(c) \/ OpenFails(c) PROVE FALSE
        BY <3>1 DEF OpenLock, OpenFails
      <3>2. ASSUME NEW c \in Broadcasters, UNCHANGED count PROVE FALSE
        BY <3>2
      <3>3. ASSUME NEW c \in Broadcasters, BroadcastTrade(c) PROVE c = b
        BY <3>3 DEF BroadcastTrade
      <3> QED
        BY <3>1, <3>2, <3>3 DEF Construct, Shutdown, Flock, FlockBusy, RemoveStale,
              RemoveStaleFails, Bind, BindFails, Unwind, CloseSocket, Reap, Term,
              TermFails, Release, ShutdownAgain
    <2>2. \A p \in Processes : ~Crash(p)
      BY DEF Crash
    <2>3. BroadcastTrade(b)
      BY <2>1, <2>2 DEF Next
    <2>4. pc[b] = "live" /\ Owns(b)
      BY <2>3 DEF BroadcastTrade, PcFd, Owns, Owning
    <2> QED
      BY <2>4, IndInvExcludes DEF MutualExclusion, ListenerAtPath, PcFd, Owns, Owning
  <1> QED
    BY <1>1, Inductive, PTL DEF Spec, CountedWhileServing

-----------------------------------------------------------------------------
\* The refinement mapping, by what it maps to: the one owner, the one listener.
Mapping ==
  /\ \A b \in Broadcasters : Owns(b) => OwnerNow = b
  /\ (\A b \in Broadcasters : ~Owns(b)) => OwnerNow = Nobody
  /\ \A b \in Broadcasters : listening[b] => ServerNow = b /\ Owns(b)
  /\ (\A b \in Broadcasters : ~listening[b]) => ServerNow = Nobody

LEMMA MappingHolds == IndInv => Mapping
  <1> SUFFICES ASSUME IndInv PROVE Mapping
    OBVIOUS
  <1>1. MutualExclusion
    BY IndInvExcludes
  <1>2. ASSUME NEW b \in Broadcasters, Owns(b) PROVE OwnerNow = b
    BY <1>1, <1>2 DEF MutualExclusion, OwnerNow
  <1>3. ASSUME \A b \in Broadcasters : ~Owns(b) PROVE OwnerNow = Nobody
    BY <1>3 DEF OwnerNow
  <1>4. ASSUME NEW b \in Broadcasters, listening[b] PROVE ServerNow = b /\ Owns(b)
    BY <1>4 DEF IndInv, ListenerAtPath, PcFd, ServerNow, Owns, Owning
  <1>5. ASSUME \A b \in Broadcasters : ~listening[b] PROVE ServerNow = Nobody
    BY <1>5 DEF ServerNow
  <1> QED
    BY <1>2, <1>3, <1>4, <1>5 DEF Mapping

\* If neither ownership nor any listener changes, the abstract state stutters.
LEMMA SameMapping ==
  ASSUME Mapping, Mapping', \A b \in Broadcasters : Owns(b)' <=> Owns(b),
         listening' = listening
  PROVE  UNCHANGED <<OwnerNow, ServerNow>>
  <1>1. OwnerNow' = OwnerNow
    BY DEF Mapping
  <1>2. ServerNow' = ServerNow
    BY DEF Mapping
  <1> QED
    BY <1>1, <1>2

\* An owner that does not listen and stops owning yields the endpoint.
LEMMA YieldStep ==
  ASSUME Mapping, Mapping', NEW b \in Broadcasters, Owns(b), ~listening[b],
         MutualExclusion, \A c \in Broadcasters : Owns(c)' <=> Owns(c) /\ c # b,
         listening' = listening
  PROVE  Mutex!Yield(b)
  <1>1. \A c \in Broadcasters : ~Owns(c)' /\ ~listening[c]
    BY DEF MutualExclusion, Mapping
  <1>2. OwnerNow = b /\ OwnerNow' = Nobody
    BY <1>1 DEF Mapping
  <1>3. ServerNow = Nobody /\ ServerNow' = Nobody
    BY <1>1 DEF Mapping
  <1> QED
    BY <1>2, <1>3 DEF Mutex!Yield

\* Every step of the protocol is a step of the endpoint mutex or a stutter.
LEMMA RefinementStep ==
  IndInv /\ IndInv' /\ Mapping /\ Mapping' /\ [Next]_vars => [Mutex!Next]_(Mutex!vars)
  <1> SUFFICES ASSUME IndInv, IndInv', Mapping, Mapping', [Next]_vars
               PROVE  Mutex!Next \/ UNCHANGED <<OwnerNow, ServerNow>>
    BY DEF Mutex!vars
  <1> DEFINE Goal == Mutex!Next \/ UNCHANGED <<OwnerNow, ServerNow>>
  <1> USE OwnerAssumption DEF IndInv, TypeOK
  <1>0. MutualExclusion
    BY IndInvExcludes
  <1>1. ASSUME NEW b \in Broadcasters, Construct(b) PROVE Goal
    <2>1. CASE OpenLock(b) \/ OpenFails(b) \/ FlockBusy(b) \/ RemoveStale(b) \/ Unwind(b)
      <3>1. listening' = listening
        BY <2>1 DEF OpenLock, OpenFails, FlockBusy, RemoveStale, Unwind
      <3>2. \A c \in Broadcasters : Owns(c)' <=> Owns(c)
        BY <2>1 DEF OpenLock, OpenFails, FlockBusy, RemoveStale, Unwind, Goto, ForgetFd,
                    Owns, Owning
      <3> QED
        BY <3>1, <3>2, SameMapping
    <2>2. CASE Flock(b)
      <3>1. \A c \in Broadcasters : ~Owns(c)
        BY <2>2, FlockStep
      <3>2. listening' = listening /\ Owns(b)'
        BY <2>2 DEF Flock, Goto, PcFd, Owns, Owning
      <3>3. OwnerNow = Nobody /\ OwnerNow' = b
        BY <3>1, <3>2 DEF Mapping
      <3>4. ServerNow' = ServerNow
        BY <3>2 DEF Mapping
      <3> QED
        BY <3>3, <3>4 DEF Mutex!Next, Mutex!Take
    <2>3. CASE RemoveStaleFails(b) \/ BindFails(b)
      <3>1. listening' = listening /\ ~listening[b] /\ Owns(b)
        BY <2>3 DEF RemoveStaleFails, BindFails, Goto, ListenerAtPath, PcFd, Owns, Owning
      <3>2. \A c \in Broadcasters : Owns(c)' <=> Owns(c) /\ c # b
        BY <2>3 DEF RemoveStaleFails, BindFails, Goto, ForgetFd, Owns, Owning
      <3>3. Mutex!Yield(b)
        BY <3>1, <3>2, <1>0, YieldStep
      <3> QED
        BY <3>3 DEF Mutex!Next
    <2>4. CASE Bind(b)
      <3>1. Owns(b) /\ Owns(b)' /\ listening'[b] /\ ~listening[b]
        BY <2>4 DEF Bind, Goto, PcFd, ListenerAtPath, Owns, Owning
      <3>2. OwnerNow = b /\ OwnerNow' = b /\ ServerNow' = b
        BY <3>1 DEF Mapping
      <3>3. \A c \in Broadcasters : ~listening[c]
        BY <3>1, <1>0 DEF Mapping, MutualExclusion
      <3>4. ServerNow = Nobody
        BY <3>3 DEF Mapping
      <3> QED
        BY <3>2, <3>4 DEF Mutex!Next, Mutex!Serve
    <2> QED
      BY <1>1, <2>1, <2>2, <2>3, <2>4 DEF Construct
  <1>2. ASSUME NEW b \in Broadcasters, BroadcastTrade(b) PROVE Goal
    BY <1>2, SameMapping DEF BroadcastTrade, Owns
  <1>3. ASSUME NEW b \in Broadcasters, Shutdown(b) PROVE Goal
    <2>1. CASE CloseSocket(b) \/ Term(b) \/ TermFails(b) \/ ShutdownAgain(b)
      <3>1. listening' = listening
        BY <2>1 DEF CloseSocket, Term, TermFails, ShutdownAgain
      <3>2. \A c \in Broadcasters : Owns(c)' <=> Owns(c)
        BY <2>1 DEF CloseSocket, Term, TermFails, ShutdownAgain, Goto, PcFd, Owns, Owning
      <3> QED
        BY <3>1, <3>2, SameMapping
    <2>2. CASE Reap(b)
      <3>1. /\ listening[b] /\ ~listening'[b]
            /\ \A c \in Broadcasters : c # b => listening'[c] = listening[c]
            /\ \A c \in Broadcasters : Owns(c)' <=> Owns(c)
        BY <2>2 DEF Reap, Owns
      <3>2. OwnerNow = b /\ OwnerNow' = b /\ ServerNow = b
        BY <3>1 DEF Mapping
      <3>3. \A c \in Broadcasters : ~listening'[c]
        BY <3>1, <1>0 DEF Mapping, MutualExclusion
      <3>4. ServerNow' = Nobody
        BY <3>3 DEF Mapping
      <3> QED
        BY <3>2, <3>4 DEF Mutex!Next, Mutex!Retire
    <2>3. CASE Release(b)
      <3>1. listening' = listening /\ ~listening[b] /\ pc[b] = "termed"
        BY <2>3 DEF Release, Goto, ListenerAtPath
      <3>2. \A c \in Broadcasters : Owns(c)' <=> Owns(c) /\ c # b
        BY <2>3 DEF Release, Goto, ForgetFd, Owns, Owning
      <3>3. CASE Owns(b)
        <4>1. Mutex!Yield(b)
          BY <3>1, <3>2, <3>3, <1>0, YieldStep
        <4> QED
          BY <4>1 DEF Mutex!Next
      <3>4. CASE ~Owns(b)
        BY <3>1, <3>2, <3>4, SameMapping
      <3> QED
        BY <3>3, <3>4
    <2> QED
      BY <1>3, <2>1, <2>2, <2>3 DEF Shutdown
  <1>4. ASSUME NEW p \in Processes, Crash(p) PROVE Goal
    <2>1. /\ \A c \in Broadcasters : Owns(c)' <=> Owns(c) /\ ProcessOf[c] # p
          /\ \A c \in Broadcasters : listening'[c] <=> listening[c] /\ ProcessOf[c] # p
      BY <1>4 DEF Crash, Owns, Owning
    <2>2. CASE \E b \in Broadcasters : Owns(b) /\ ProcessOf[b] = p
      <3>1. PICK b \in Broadcasters : Owns(b) /\ ProcessOf[b] = p
        BY <2>2
      <3>2. \A c \in Broadcasters : ~Owns(c)' /\ ~listening'[c]
        BY <3>1, <2>1, <1>0 DEF Mapping, MutualExclusion
      <3>3. OwnerNow = b /\ OwnerNow' = Nobody /\ ServerNow' = Nobody
        BY <3>1, <3>2 DEF Mapping
      <3> QED
        BY <3>1, <3>3 DEF Mutex!Next, Mutex!Crash
    <2>3. CASE ~ \E b \in Broadcasters : Owns(b) /\ ProcessOf[b] = p
      <3>1. \A c \in Broadcasters : Owns(c)' <=> Owns(c)
        BY <2>1, <2>3
      <3>2. \A c \in Broadcasters : listening'[c] <=> listening[c]
        BY <2>1, <2>3 DEF Mapping
      <3>3. listening' = listening
        <4>1. listening' \in [Broadcasters -> BOOLEAN] /\ listening \in [Broadcasters -> BOOLEAN]
          OBVIOUS
        <4>2. \A c \in Broadcasters : listening'[c] = listening[c]
          BY <4>1, <3>2
        <4> QED
          BY <4>1, <4>2
      <3> QED
        BY <3>1, <3>3, SameMapping
    <2> QED
      BY <2>2, <2>3
  <1>5. ASSUME UNCHANGED vars PROVE Goal
    BY <1>5, SameMapping DEF vars, Owns
  <1> QED
    BY <1>1, <1>2, <1>3, <1>4, <1>5 DEF Next

\* The flock protocol implements the endpoint mutex: every behaviour of the
\* constructors, shutdowns and crashes is one of owners that take turns.
THEOREM Refinement == Spec => RefinesMutex
  <1>1. Init => Mutex!Init
    BY DEF Init, Mutex!Init, OwnerNow, ServerNow, Owns, Owning
  <1> QED
    BY <1>1, RefinementStep, MappingHolds, Inductive, PTL DEF Spec, RefinesMutex, Mutex!Spec

-----------------------------------------------------------------------------
(* Where that endpoint is: the two resolutions.                            *)
Steps == {"resolve", "checkLink", "create", "checkOwner", "chmod", "done"}
Endpoints == {Refused, Unset} \cup Dirs \cup Values

EndpointTypes == /\ override \in Overrides
                 /\ xdg \in {"unset", "empty", "set"}
                 /\ leaf \in [Dirs -> Leaves]
                 /\ step \in [Sides -> Steps]
                 /\ result \in [Sides -> Endpoints]

Private(found) == found.kind = "directory" /\ found.mine /\ found.private

\* What a side has found at the default directory by the step it is about to
\* take, the other side's steps notwithstanding.
Found(s) ==
  /\ step[s] \in {"checkLink", "create", "checkOwner", "chmod"} => ~Overridden
  /\ step[s] = "chmod" => leaf[DefaultDir].kind = "directory" /\ leaf[DefaultDir].mine

\* What it came to.
Outcome(s) ==
  /\ step[s] # "done" => result[s] = Unset
  /\ step[s] = "done" /\ Overridden => result[s] = RustValidate(override)
  /\ step[s] = "done" /\ ~Overridden => result[s] \in {Refused, DefaultDir}
  /\ step[s] = "done" /\ result[s] = DefaultDir => Private(leaf[DefaultDir])

EndpointInv == EndpointTypes /\ (\A s \in Sides : Found(s) /\ Outcome(s))

-----------------------------------------------------------------------------
(* The validators of the two languages take the same values.               *)
LEMMA ValidatorsAgree ==
  ASSUME NEW value \in Values
  PROVE  /\ RustValidate(value) = JuliaValidate(value)
         /\ RustValidate(value) \in Values \cup {Refused}
<1>1. Trim(value) \in Values
  BY DEF Trim, Values
<1> QED
  BY <1>1 DEF RustValidate, JuliaValidate

LEMMA DefaultDirType == DefaultDir \in Dirs
  BY DEF DefaultDir, Dirs

LEMMA InitEndpoint == EndpointInit => EndpointInv
  BY DEF EndpointInit, EndpointInv, EndpointTypes, Found, Outcome, Steps, Endpoints

\* What a step of side s may change of the file system.
Touched ==
  \A d \in Dirs : leaf'[d] # leaf[d] =>
    /\ d = DefaultDir /\ ~Overridden
    /\ leaf[d].kind \in {"absent", "directory"} /\ leaf[d].mine
    /\ leaf'[d].kind = "directory" /\ leaf'[d].mine
    /\ Private(leaf[d]) => Private(leaf'[d])

LEMMA StepTouches ==
  ASSUME EndpointInv, NEW s \in Sides,
         Resolve(s) \/ CheckLink(s) \/ Create(s) \/ CreateFails(s) \/ CheckOwner(s) \/ Chmod(s)
  PROVE  Touched /\ leaf' \in [Dirs -> Leaves] /\ UNCHANGED environment
<1> USE DefaultDirType DEF EndpointInv, EndpointTypes
<1>1. CASE UNCHANGED leaf
  BY <1>1 DEF Touched, Resolve, CheckLink, Create, CreateFails, CheckOwner, Chmod
<1>2. PICK found \in Leaves : found = leaf[DefaultDir]
  OBVIOUS
<1>3. CASE Create(s) /\ leaf' # leaf
  <2>1. found.kind = "absent" /\ found.mine /\ ~Overridden
    BY <1>2, <1>3 DEF Create, At, Found, Leaves
  <2>2. PICK made \in Leaves : made = [kind |-> "directory", mine |-> TRUE, private |-> FALSE]
    BY DEF Leaves
  <2>3. leaf' = [leaf EXCEPT ![DefaultDir] = made] /\ UNCHANGED environment
    BY <1>3, <2>2 DEF Create
  <2> QED
    BY <1>2, <2>1, <2>2, <2>3 DEF Touched, Private
<1>4. CASE Chmod(s)
  <2>1. found.kind = "directory" /\ found.mine /\ ~Overridden
    BY <1>2, <1>4 DEF Chmod, At, Found
  <2>2. PICK made \in Leaves : made = [found EXCEPT !.private = TRUE]
    BY <2>1 DEF Leaves
  <2>3. made.kind = "directory" /\ made.mine /\ made.private
    BY <2>1, <2>2 DEF Leaves
  <2>4. leaf' = [leaf EXCEPT ![DefaultDir] = made] /\ UNCHANGED environment
    BY <1>2, <1>4, <2>2 DEF Chmod
  <2> QED
    BY <1>2, <2>1, <2>3, <2>4 DEF Touched, Private
<1> QED
  BY <1>1, <1>3, <1>4 DEF Resolve, CheckLink, CreateFails, CheckOwner

(* The other side's steps leave what a side has found and come to.         *)
LEMMA OtherSideKept ==
  ASSUME EndpointInv, Touched, UNCHANGED environment, NEW s \in Sides,
         step'[s] = step[s], result'[s] = result[s]
  PROVE  Found(s)' /\ Outcome(s)'
<1> USE DefaultDirType DEF EndpointInv, EndpointTypes
<1>1. PICK dir \in Dirs : dir = DefaultDir /\ DefaultDir' = dir
  BY DEF DefaultDir, environment
<1>2. (Overridden' <=> Overridden) /\ override' = override
  BY DEF Overridden, environment
<1>3. Private(leaf[dir]) => Private(leaf'[dir])
  BY <1>1 DEF Touched
<1>4. leaf[dir].kind = "directory" /\ leaf[dir].mine =>
        leaf'[dir].kind = "directory" /\ leaf'[dir].mine
  BY <1>1 DEF Touched
<1>5. Found(s)'
  BY <1>1, <1>2, <1>4 DEF Found
<1>6. Outcome(s)'
  BY <1>1, <1>2, <1>3 DEF Outcome
<1> QED
  BY <1>5, <1>6

(* A side's own step takes it to what it has found or come to.             *)
LEMMA OwnSideKept ==
  ASSUME EndpointInv, NEW s \in Sides, Touched, UNCHANGED environment,
         Resolve(s) \/ CheckLink(s) \/ Create(s) \/ CreateFails(s) \/ CheckOwner(s) \/ Chmod(s)
  PROVE  /\ Found(s)' /\ Outcome(s)'
         /\ step' \in [Sides -> Steps] /\ result' \in [Sides -> Endpoints]
<1> USE DefaultDirType DEF EndpointInv, EndpointTypes
<1>1. PICK dir \in Dirs : dir = DefaultDir /\ DefaultDir' = dir
  BY DEF DefaultDir, environment
<1>2. (Overridden' <=> Overridden) /\ override' = override
  BY DEF Overridden, environment
<1>3. dir \in Endpoints /\ Refused \in Endpoints /\ dir # Refused
  BY EndpointAssumption DEF Endpoints
<1>4. Overridden => override \in Values
  BY DEF Overridden, Overrides
<1>5. CASE Resolve(s)
  <2>1. CASE Overridden
    <3>1. PICK endpoint \in Values \cup {Refused} : endpoint = RustValidate(override)
      BY <1>4, <2>1, ValidatorsAgree
    <3>2. Finish(s, endpoint)
      <4>1. RustValidate(override) = JuliaValidate(override)
        BY <1>4, <2>1, ValidatorsAgree
      <4> QED
        BY <1>5, <2>1, <3>1, <4>1 DEF Resolve
    <3>3. endpoint # dir
      BY <3>1, EndpointAssumption, <1>3
    <3>4. step'[s] = "done" /\ result'[s] = endpoint
      BY <3>2 DEF Finish, Go
    <3>5. step' \in [Sides -> Steps] /\ result' \in [Sides -> Endpoints]
      BY <3>1, <3>2 DEF Finish, Go, Steps, Endpoints
    <3>6. RustValidate(override') = endpoint
      BY <1>2, <3>1
    <3> QED
      BY <1>1, <1>2, <2>1, <3>3, <3>4, <3>5, <3>6 DEF Found, Outcome
  <2>2. CASE ~Overridden
    <3>1. step[s] = "resolve" /\ step' = [step EXCEPT ![s] = "checkLink"] /\ result' = result
      BY <1>5, <2>2 DEF Resolve, Go, At
    <3>2. step'[s] = "checkLink" /\ result'[s] = Unset
      BY <3>1 DEF Outcome
    <3> QED
      BY <1>2, <2>2, <3>1, <3>2 DEF Found, Outcome, Steps
  <2> QED
    BY <2>1, <2>2
<1>6. ASSUME NEW from \in {"checkLink", "create", "checkOwner"}, step[s] = from, Finish(s, Refused)
      PROVE  /\ Found(s)' /\ Outcome(s)'
             /\ step' \in [Sides -> Steps] /\ result' \in [Sides -> Endpoints]
  <2>1. ~Overridden
    BY <1>6 DEF Found
  <2>2. step'[s] = "done" /\ result'[s] = Refused
    BY <1>6 DEF Finish, Go
  <2>3. step' \in [Sides -> Steps] /\ result' \in [Sides -> Endpoints]
    BY <1>3, <1>6 DEF Finish, Go, Steps
  <2> QED
    BY <1>1, <1>2, <1>3, <2>1, <2>2, <2>3 DEF Found, Outcome
<1>7. ASSUME NEW from \in {"checkLink", "create", "checkOwner"}, NEW to \in {"create", "checkOwner", "chmod"},
             step[s] = from, Go(s, to), result' = result,
             to = "chmod" => leaf'[dir].kind = "directory" /\ leaf'[dir].mine
      PROVE  /\ Found(s)' /\ Outcome(s)'
             /\ step' \in [Sides -> Steps] /\ result' \in [Sides -> Endpoints]
  <2>1. ~Overridden /\ result[s] = Unset
    BY <1>7 DEF Found, Outcome
  <2>2. step'[s] = to /\ step' \in [Sides -> Steps]
    BY <1>7 DEF Go, Steps
  <2> QED
    BY <1>1, <1>2, <1>7, <2>1, <2>2 DEF Found, Outcome
<1>8. CASE CheckLink(s)
  <2>1. \/ Finish(s, Refused)
        \/ Go(s, "create") /\ result' = result
    BY <1>8 DEF CheckLink
  <2> QED
    BY <1>6, <1>7, <1>8, <2>1 DEF CheckLink, At
<1>9. CASE Create(s)
  BY <1>7, <1>9 DEF Create, At
<1>10. CASE CreateFails(s)
  BY <1>6, <1>10 DEF CreateFails, At
<1>11. CASE CheckOwner(s)
  <2>1. step[s] = "checkOwner" /\ leaf' = leaf
    BY <1>11 DEF CheckOwner, At
  <2>2. CASE leaf[dir].kind = "directory" /\ leaf[dir].mine
    BY <1>1, <1>7, <1>11, <2>1, <2>2 DEF CheckOwner
  <2>3. CASE ~(leaf[dir].kind = "directory" /\ leaf[dir].mine)
    BY <1>1, <1>6, <1>11, <2>1, <2>3 DEF CheckOwner
  <2> QED
    BY <2>2, <2>3
<1>12. CASE Chmod(s)
  <2>1. step[s] = "chmod" /\ Finish(s, dir) /\ leaf' = [leaf EXCEPT ![dir].private = TRUE]
    BY <1>1, <1>12 DEF Chmod, At
  <2>2. ~Overridden /\ leaf[dir].kind = "directory" /\ leaf[dir].mine
    BY <1>1, <2>1 DEF Found
  <2>3. Private(leaf'[dir])
    BY <2>1, <2>2 DEF Private, Leaves
  <2>4. step'[s] = "done" /\ result'[s] = dir
    BY <2>1 DEF Finish, Go
  <2>5. step' \in [Sides -> Steps] /\ result' \in [Sides -> Endpoints]
    BY <1>3, <2>1 DEF Finish, Go, Steps
  <2> QED
    BY <1>1, <1>2, <2>2, <2>3, <2>4, <2>5 DEF Found, Outcome
<1> QED
  BY <1>5, <1>8, <1>9, <1>10, <1>11, <1>12

LEMMA StepEndpoint == EndpointInv /\ [EndpointNext]_endpointVars => EndpointInv'
<1> SUFFICES ASSUME EndpointInv, [EndpointNext]_endpointVars PROVE EndpointInv'
  OBVIOUS
<1>1. ASSUME NEW s \in Sides,
             Resolve(s) \/ CheckLink(s) \/ Create(s) \/ CreateFails(s) \/ CheckOwner(s) \/ Chmod(s)
      PROVE  EndpointInv'
  <2>1. Touched /\ leaf' \in [Dirs -> Leaves] /\ UNCHANGED environment
    BY <1>1, StepTouches
  <2>2. /\ Found(s)' /\ Outcome(s)'
        /\ step' \in [Sides -> Steps] /\ result' \in [Sides -> Endpoints]
    BY <1>1, <2>1, OwnSideKept
  <2>3. ASSUME NEW t \in Sides, t # s PROVE Found(t)' /\ Outcome(t)'
    <3>1. step'[t] = step[t] /\ result'[t] = result[t]
      BY <1>1, <2>3 DEF EndpointInv, EndpointTypes, Resolve, CheckLink, Create, CreateFails, CheckOwner,
                        Chmod, Finish, Go
    <3> QED
      BY <2>1, <3>1, OtherSideKept
  <2>4. EndpointTypes'
    BY <2>1, <2>2 DEF EndpointInv, EndpointTypes, environment
  <2>5. \A t \in Sides : Found(t)' /\ Outcome(t)'
    BY <2>2, <2>3
  <2> QED
    BY <2>4, <2>5 DEF EndpointInv
<1>2. CASE UNCHANGED endpointVars
  BY <1>2 DEF endpointVars, environment, EndpointInv, EndpointTypes, Found, Outcome, Overridden, DefaultDir,
              Private, RustValidate
<1> QED
  BY <1>1, <1>2 DEF EndpointNext

LEMMA EndpointInvariant == EndpointSpec => []EndpointInv
<1> QED
  BY InitEndpoint, StepEndpoint, PTL DEF EndpointSpec

(* The muscle and the broadcaster never come to different endpoints, and a *)
(* default one is private by the time either has it (wire.rs:54-130,       *)
(* signal_broadcaster.jl:26-90).                                           *)
THEOREM TheSidesMeet == EndpointSpec => []SidesMeet
<1>1. ASSUME EndpointInv PROVE SidesMeet
  <2> USE DefaultDirType DEF EndpointInv, EndpointTypes
  <2>1. ASSUME NEW s \in Sides, result[s] \notin {Unset, Refused}
        PROVE  result[s] = IF Overridden THEN RustValidate(override) ELSE DefaultDir
    BY <1>1, <2>1 DEF Outcome
  <2>2. Overridden /\ (\A s \in Sides : step[s] = "done") => result["rust"] = result["julia"]
    BY <1>1 DEF Outcome, Sides
  <2>3. ASSUME NEW s \in Sides, NEW d \in Dirs, result[s] = d
        PROVE  leaf[d] = [kind |-> "directory", mine |-> TRUE, private |-> TRUE]
    <3>1. d \notin {Refused, Unset} /\ d \notin Values
      BY EndpointAssumption
    <3>2. step[s] = "done" /\ ~Overridden
      <4>1. Overridden => RustValidate(override) \in Values \cup {Refused}
        BY <1>1, ValidatorsAgree DEF Overridden, Overrides
      <4> QED
        BY <1>1, <2>3, <3>1, <4>1 DEF Outcome
    <3>3. d = DefaultDir /\ Private(leaf[d])
      BY <1>1, <2>3, <3>1, <3>2 DEF Outcome
    <3>4. PICK found \in Leaves : found = leaf[d]
      BY <1>1
    <3>5. found.kind = "directory" /\ found.mine /\ found.private
      BY <3>3, <3>4 DEF Private
    <3>6. found = [kind |-> "directory", mine |-> TRUE, private |-> TRUE]
      BY <3>5 DEF Leaves
    <3> QED
      BY <3>4, <3>6
  <2> QED
    BY <2>1, <2>2, <2>3 DEF SidesMeet, EndpointsAgree, DefaultIsPrivate
<1> QED
  BY <1>1, EndpointInvariant, PTL

(* An override makes no default tree, a default only its own directory, and *)
(* no directory of another user's changes (wire.rs:51,                      *)
(* signal_broadcaster.jl:81).                                               *)
THEOREM NothingElseIsTouched == EndpointSpec => NothingElseTouched
<1>1. ASSUME EndpointInv, EndpointNext PROVE Touched
  <2>1. PICK s \in Sides :
          Resolve(s) \/ CheckLink(s) \/ Create(s) \/ CreateFails(s) \/ CheckOwner(s) \/ Chmod(s)
    BY <1>1 DEF EndpointNext
  <2> QED
    BY <1>1, <2>1, StepTouches
<1>2. EndpointInv /\ [EndpointNext]_endpointVars => [OnlyOwnDefaultTouched]_endpointVars
  BY <1>1 DEF Touched, OnlyOwnDefaultTouched
<1> QED
  BY <1>2, EndpointInvariant, PTL DEF EndpointSpec, NothingElseTouched

-----------------------------------------------------------------------------
(* The polls of the feed.  The invariant orders four versions of the       *)
(* ticker of a request:                                                    *)
(* cached when sent <= market when sent <= reply <= market now.            *)
Busy == {"fetch", "waiting", "insert"}

ListsLeft == \A p \in Pollers : poll[p] \in Busy => todo[p] # <<>>

CachedWasMarket == \A t \in Tickers : prices[t] <= market[t]

SentInOrder ==
  \A p \in Pollers : poll[p] \in {"waiting", "insert"} =>
    sent[p].cached <= sent[p].market /\ sent[p].market <= market[Ticker(p)]

RepliesInOrder ==
  \A p \in Pollers : poll[p] = "insert" =>
    sent[p].market <= reply[p] /\ reply[p] <= market[Ticker(p)]

FeedInv == FeedTypeOK /\ ListsLeft /\ CachedWasMarket /\ SentInOrder /\ RepliesInOrder

(* A task that is fetching has a ticker, which is one of the constants'. *)
LEMMA TickerOf ==
  ASSUME FeedTypeOK, ListsLeft, NEW p \in Pollers, poll[p] \in Busy
  PROVE  Ticker(p) \in Tickers /\ Tail(todo[p]) \in Seq(Tickers)
  BY DEF FeedTypeOK, ListsLeft, Ticker

(* The invariant holds initially. *)
LEMMA FeedStart == FeedInit => FeedInv
  BY FeedAssumption
  DEF FeedInit, FeedInv, FeedTypeOK, ListsLeft, CachedWasMarket, SentInOrder, RepliesInOrder,
      NoPrice, Unsent, Versions, Busy

(* Every step of the exchange and of a poll keeps it. *)
LEMMA FeedStep == FeedInv /\ [FeedNext]_feedVars => FeedInv'
<1> SUFFICES ASSUME FeedInv, [FeedNext]_feedVars PROVE FeedInv'
  OBVIOUS
<1> USE FeedAssumption DEF FeedInv, FeedTypeOK, ListsLeft, CachedWasMarket, SentInOrder,
      RepliesInOrder, NoPrice, Unsent, Versions, Busy
<1>1. ASSUME NEW t \in Tickers, Move(t) PROVE FeedInv'
  <2>1. /\ market' \in [Tickers -> Versions]
        /\ \A u \in Tickers : market[u] <= market'[u]
    BY <1>1 DEF Move
  <2>2. \A p \in Pollers : poll[p] \in Busy => Ticker(p) \in Tickers
    BY TickerOf
  <2>3. /\ prices' = prices /\ poll' = poll /\ todo' = todo /\ sent' = sent /\ reply' = reply
        /\ \A p \in Pollers : Ticker(p)' = Ticker(p)
    BY <1>1 DEF Move, task, Ticker
  <2>4. FeedTypeOK' /\ ListsLeft'
    BY <2>1, <2>3
  <2>5. CachedWasMarket'
    <3>1. \A u \in Tickers : prices[u] \in Int /\ market[u] \in Int /\ market'[u] \in Int
      BY <2>1
    <3> QED
      BY <2>1, <2>3, <3>1
  <2>6. SentInOrder' /\ RepliesInOrder'
    BY <2>1, <2>2, <2>3
  <2> QED
    BY <2>4, <2>5, <2>6
<1>2. ASSUME NEW p \in Pollers, Poll(p) PROVE FeedInv'
  BY <1>2 DEF Poll, Ticker
<1>3. ASSUME NEW p \in Pollers, Send(p) PROVE FeedInv'
  <2>1. Ticker(p) \in Tickers
    BY <1>3, TickerOf DEF Send
  <2> QED BY <1>3, <2>1 DEF Send, Ticker
<1>4. ASSUME NEW p \in Pollers, Answer(p) PROVE FeedInv'
  <2>1. Ticker(p) \in Tickers
    BY <1>4, TickerOf DEF Answer
  <2> QED BY <1>4, <2>1 DEF Answer, Ticker
<1>5. ASSUME NEW p \in Pollers, Fail(p) PROVE FeedInv'
  <2>1. Tail(todo[p]) \in Seq(Tickers)
    BY <1>5, TickerOf DEF Fail
  <2>2. poll'[p] \in {"idle", "fetch"}
    BY <1>5 DEF Fail, NextTicker
  <2>3. \A q \in Pollers \ {p} :
          /\ poll'[q] = poll[q] /\ todo'[q] = todo[q] /\ sent'[q] = sent[q]
    BY <1>5 DEF Fail, NextTicker
  <2>4. FeedTypeOK' /\ CachedWasMarket'
    BY <1>5, <2>1 DEF Fail, NextTicker
  <2>5. ListsLeft'
    BY <1>5, <2>3 DEF Fail, NextTicker
  <2>6. SentInOrder' /\ RepliesInOrder'
    BY <1>5, <2>2, <2>3 DEF Fail, Ticker
  <2> QED BY <2>4, <2>5, <2>6
<1>6. ASSUME NEW p \in Pollers, Insert(p) PROVE FeedInv'
  <2>1. Ticker(p) \in Tickers /\ Tail(todo[p]) \in Seq(Tickers)
    BY <1>6, TickerOf DEF Insert
  <2>2. poll'[p] \in {"idle", "fetch"}
    BY <1>6 DEF Insert, NextTicker
  <2>3. \A q \in Pollers \ {p} :
          /\ poll'[q] = poll[q] /\ todo'[q] = todo[q] /\ sent'[q] = sent[q]
    BY <1>6 DEF Insert, NextTicker
  <2>4. FeedTypeOK'
    BY <1>6, <2>1, SMTT(40) DEF Insert, NextTicker
  <2>5. ListsLeft'
    BY <1>6, <2>3 DEF Insert, NextTicker
  <2>6. CachedWasMarket'
    BY <1>6, <2>1 DEF Insert
  <2>7. SentInOrder' /\ RepliesInOrder'
    BY <1>6, <2>2, <2>3 DEF Insert, Ticker
  <2> QED BY <2>4, <2>5, <2>6, <2>7
<1>7. ASSUME NEW p \in Pollers, Cancel(p) PROVE FeedInv'
  BY <1>7 DEF Cancel, Ticker
<1>8. CASE UNCHANGED feedVars
  BY <1>8 DEF feedVars, task, Ticker
<1> QED
  BY <1>1, <1>2, <1>3, <1>4, <1>5, <1>6, <1>7, <1>8 DEF FeedNext

(* A step that puts an old price over a new one is an insert by a poll     *)
(* whose request went out before the new one was cached.                   *)
LEMMA StepGoesBack ==
  ASSUME FeedInv, FeedNext, NEW t \in Tickers, prices'[t] < prices[t]
  PROVE  \E p \in Pollers : /\ poll[p] = "insert" /\ poll'[p] # "insert"
                            /\ Ticker(p) = t
                            /\ sent[p].cached < prices[t]
<1>1. prices[t] \in Int
  BY FeedAssumption DEF FeedInv, FeedTypeOK, Versions, NoPrice
<1>2. prices' # prices
  BY <1>1
<1>3. PICK p \in Pollers : Insert(p)
  BY <1>2 DEF FeedNext, Move, Poll, Send, Answer, Fail, Cancel, task
<1>4. Ticker(p) \in Tickers
  BY <1>3, TickerOf DEF Insert, FeedInv, Busy
<1>5. Ticker(p) = t /\ prices'[t] = reply[p]
  BY <1>1, <1>3, <1>4 DEF Insert, FeedInv, FeedTypeOK
<1>6. sent[p].cached <= sent[p].market /\ sent[p].market <= reply[p]
  BY <1>3 DEF Insert, FeedInv, SentInOrder, RepliesInOrder
<1>7. sent[p].cached \in Int /\ sent[p].market \in Int /\ reply[p] \in Int
  BY FeedAssumption DEF FeedInv, FeedTypeOK, Versions, NoPrice
<1>8. sent[p].cached < prices[t]
  BY <1>1, <1>5, <1>6, <1>7
<1>9. poll[p] = "insert" /\ poll'[p] # "insert"
  BY <1>3 DEF Insert, NextTicker, FeedInv, FeedTypeOK
<1> QED
  BY <1>5, <1>8, <1>9

(* The versions of a request are in order in every reachable state. *)
LEMMA FeedInvariant == FeedSpec => []FeedInv
  BY FeedStart, FeedStep, PTL DEF FeedSpec

(* Type correctness of the feed. *)
THEOREM FeedTypeCorrect == FeedSpec => []FeedTypeOK
<1>1. FeedInv => FeedTypeOK
  BY DEF FeedInv
<1> QED
  BY <1>1, FeedInvariant, PTL

(* However polls overlap, fail or are dropped, a cached price goes back    *)
(* only under a poll that overlapped the one which wrote the newer price.  *)
THEOREM NoRollbackWithoutOverlap == FeedSpec => GoesBackOnlyInOverlap
<1>1. FeedInv /\ [FeedNext]_feedVars =>
        [\A t \in Tickers : prices'[t] < prices[t] =>
           \E p \in Pollers : /\ poll[p] = "insert" /\ poll'[p] # "insert"
                              /\ Ticker(p) = t
                              /\ sent[p].cached < prices[t]]_feedVars
  BY StepGoesBack
<1> QED
  BY <1>1, FeedInvariant, PTL DEF FeedSpec, GoesBackOnlyInOverlap
=============================================================================
