CONSTANTS
  r1 = r1
  r2 = r2
  r3 = r3
  Nil = Nil
  Readers <- ThreeReaders
  Size = 14
  Lengths <- ShortAndLong
  BufSize <- OneSmallBuf
  MaxPackages = 4
  MaxB = 2
  MaxPictures = 5
  MaxPocCache = 3
  Depth = 3
  MaxPoc = 5
  MaxSequences = 2
  SubSize = 4
  RingSize = 7
  WriteSizes = {1, 2, 3}
  ReadSizes = {1, 3}
  MaxStream = 12
  NoJob = NoJob
  Cmds = {"start", "pause", "resume", "ff", "fb", "seek", "vpath", "audio"}
  SmcClients = {"c1", "c2"}
  SmcCbs = {"f", "g"}
  NoCb = "null"
  MaxData = 2
  MaxNull = 1
  MaxCommands = 2
  AvFaults = {"open", "start"}
  MaxMaps = 2
  Payloads = {6}
  SecLengths = {4, 14}
  MaxBegun = 4
  MaxGaps = 2
  MaxTps = 2
  PesUnits <- SixUnits
  MaxUnits = 3
  MaxChunk = 11
  InpClients = {"c1", "c2"}
  InpCbs = {"f", "g"}
  NoInpCb = "null"
  CiClients = {"c1", "c2"}
  CiCbs = {"f", "g"}
  CaCb = "caman"
  NoCiCb = "null"
SPECIFICATION DevicesSpec
INVARIANTS DevicesTypeOK Framed CaptionsInOrder ShiftKept
INVARIANTS PlaysNormally ReplacedStatusSilent T0Exchange ModesExclusive MappingsOwned AssembledWhole BlindScanKept DisabledSilent CiKept
PROPERTIES ImplementsContract Drained SearchEnds JoinsEnd
CHECK_DEADLOCK FALSE
