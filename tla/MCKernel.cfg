SPECIFICATION KernelSpec
CHECK_DEADLOCK FALSE
CONSTANTS
  \* Pmm
  PAGE_SIZE = 16
  UINT64_MAX = 255
  META_SIZE = 1
  PMM_BUDDY_MAX_ORDER = 2
  PMM_DMA_FRAMES = 4
  PMM_NORMAL_FRAMES = 8
  PMM_MIN_FREE_FRAMES = 3
  PMM_MAX_QUARANTINE_PERCENT = 35
  PmmMaps <- MCMaps
  PmmOwners = {1, 2}
  \* Slab
  SlabPages = {p1, p2}
  SlabCaches = {"CapIdent", "kmalloc"}
  SlabModes = {"CASUAL", "SECURE"}
  MaxObjects <- MCMaxObjects
  ModeMask <- MCModeMask
  MinPartial = 1
  MaxModeSwitches = 1
  MaxLarge = 1
  KmallocSizes <- MCSizes
  \* Vmm
  VmmProcs = {a, b}
  VPAGE = 2
  PT_PAGES = 2
  KERNEL_VIRT_BASE = 8
  VA_LIMIT = 16
  VmmFrames = {1, 2, 3, 4}
  VmmContracts <- MCContracts
  \* Tlb
  TlbProcs = {t1, t2, t3}
  TlbModes <- MCTlbModes
  PCIDS_PER_USER_MODE = 1
  TlbPages = {1}
  MAX_PROCESSES = 2
  \* Lattice
  LatProcs = {e1, e2}
  Lattices = {l1}
  LatPages <- MCLatPages
  LatVaLimit = 2
  MAX_PROCESS_LATTICES = 2
  LatCpus = 1
  LatMaxListeners = 1
  \* Endpoint
  Threads = {i1, i2, i3}
  Msgs = {m1, m2}
  IPC_BUFFER_SIZE = 2
  \* Records
  MODE_HISTORY_SIZE = 3
  AUDIT_LATTICE_CAPACITY = 5
  AUDIT_WRITE_THRESHOLD = 3
  CONTRACT_LOG_SIZE = 2
  FATE_READ_MAX = 2
  RecMax = 5
  \* Locks
  LockThreads = {l1, l2, l3}
  LockKinds = {"rw", "seq", "rcu"}
  LockMaxWrites = 2
  \* Threads
  ThreadIds = {t1, t2, t3,t4}
  ThProcs = {p1,p2}
  ThObjects = 4
  ThPages = 11
  ThMaxEvents = 2
  \* Entry
  EntThreads = {e1, e2}
  \* Syscall
  SysCaps <- MCCaps
  SysIndices = {1, 2}
  SysTableSize = 2
  SysFrames = {"f1"}
  SysIdents = 1
  LAW2_DAY28_MIN_STRICT_MAP_CALLS = 3
  LAW2_DAY29_MIN_STRICT_UNMAP_CALLS = 3
  SysMaxCalls = 4
  \* Genesis
  GenPids = {1,2,3}
  GenFrames = 14
  GenSlots = {0,1,2,3,4,5,6,7,8}
  GenRequests <- MCReq
  DelegateTypes = {"GENESIS", "SPAWN_AUTH", "RAM"}
  DelegateSlots = {3, 8}
  SPAWN_AUTH_SLOT = 8
  IMAGE_FRAMES = 1
  STACK_FRAMES = 2
  \* Acpi
  Firmwares <- MCFirm
  MAX_CPUS = 2
  MAX_IOAPICS = 1
  MAX_UNITS = 2
  MAX_SCOPES = 3
INVARIANTS
    FramesAreAccounted
    SlabsAreExact
    
    TlbIsCoherent
    
    WaitersAreExact
    LogsAreComplete
    LocksProtect
    ThreadsAreAccounted
    ContextIsOwn
    
    BridgeHandsOver
    InventoryIsExact
PROPERTIES
    
    IsChannel
    ClosedBridgeStaysClosed
