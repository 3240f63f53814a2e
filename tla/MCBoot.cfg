SPECIFICATION BootSpec
CONSTANTS
  \* Mode
  CooldownTicks = 1
  DeescTicks = 2
  RetryLimit = 3
  MaxTick = 2
  MaxEpoch = 3
  MaxBoots = 2
  FirstSequences <- MCFirstSequences
  \* Memmap
  PAGE = 2
  ADDR_SPACE = 32
  EBDA = 9
  LOW_TOP = 12
  HIGH_TOP = 22
  BSS_END = 4
  memmap_max_entries = 9
  E820Maps <- MCE820
  EfiMaps <- MCEfi
  EfiImage <- MCImage2
  RECL_SIZE = 2
  FIRMWARE_CHUNKS = 1
  FIRMWARE_CHUNK = 2
  AllocSizes = {1, 4}
  AllocTypes = {"BOOTLOADER_RECLAIMABLE"}
  FixedRanges <- MCFixed
  MaxLive = 2
  \* Config
  LineSet <- MCLines
  MaxLines = 4
  CfgVolumes = 2
  SmTables <- MCTables
  SM_HEADER = 4
  EXPANSION_FACTOR = 4
  \* Menu
  Menus <- MCMenus
  Defaults = {0, 3}
  MenuRows = 2
  MaxStarts = 2
  \* Editor
  EDITOR_MAX_BUFFER_SIZE = 4
  EdRows = 3
  EdCols = 2
  OrigEntries <- MCOrig
  \* Multiboot
  PAGE_UNITS = 2
  MEM = 20
  INFO_LOC = 2
  MbMemories <- MCMems
  MbKernels <- MCKernels
  MbInfoSizes = {1, 3}
  MbModuleSizes = {1, 2, 3}
  MaxModules = 2
  \* MbInfo
  MEMMAP_MAX = 3
  EFI_MEMMAP_MAX = 2
  DHCP_ACK_PACKET_LEN = 296
  HeaderTags <- MCHeaders
  InfoConfigs <- MCInfos
  AddressTags <- MCAddrs
  \* Elf
  TOP = 64
  HIGH = 48
  PAGE_W = 2
  RELR_BITS = 3
  max_simulated_tries = 2
  ElfFiles <- MCFiles
  \* Volume
  Drives <- MCDrives
  lb_guesses <- MCGuesses
  XFER_BUF_SIZE = 4
  xfer_sizes = {1, 4}
  XFER_FALLBACK = 2
  MAX_LOGICAL_PARTITIONS = 4
  OPTICAL_SIZE = 2
  MaxRead = 3
  MaxReads = 2
  \* Handles
  Machines <- MCMachines
  MaxFail = 1
  \* Pagemap
  FAN = 2
  VA = 64
  FOUR_GIB = 8
  PHYSICAL_BASE = 5
  VIRTUAL_BASE = 56
  Memmaps <- MCMemmaps
  Framebuffers <- MCFramebuffers
  KernelRanges <- MCRanges
  \* Requests
  MAX_REQUESTS = 4
  SUPPORTED_BASE_REVISION = 4
  SpanTops = {3, 5, 10}
  Images <- MCImages
  Sections <- MCSections
  VaQuarter <- MCVaQuarter
  Modules <- MCModules
CHECK_DEADLOCK FALSE
INVARIANTS
    BootRecordIsSound
    MemoryMapIsSound
    
    
    
    
    
    ImageIsAsTheFileAsks
    VolumesAreTheDisks
    
    
    RequestsAreAnswered
