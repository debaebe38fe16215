SPECIFICATION FairSpec
CONSTANTS
  b1 = b1
  b2 = b2
  b3 = b3
  p1 = p1
  p2 = p2
  Broadcasters <- MCBroadcasters
  Processes <- MCProcesses
  ProcessOf <- MCProcessOf
  Fds = {3, 4}
  Inodes = {i1, i2}
  NoFd = NoFd
  NoInode = NoInode
  Free = Free
  Nobody = Nobody
  NoFile = NoFile
  NotASocket = NotASocket
  DanglingLink = DanglingLink
  MaxMessages = 1
INVARIANTS
  MutualExclusion
  EndpointIntact
  NothingLeaks
PROPERTIES
  OthersFileKept
  CountedWhileServing
  RefinesMutex
  EveryCallEnds
