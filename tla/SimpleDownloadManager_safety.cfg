SPECIFICATION FairSpec
CONSTANTS
  grldr = grldr
  menu_lst = menu_lst
  grldr_mbr = grldr_mbr
  Grub4DosFiles <- MCFiles
  Chunks <- MCChunks
  Faults = {"folders", "remove", "create", "response", "data", "connection", "move"}
INVARIANTS
  TypeOK
  NoPartialFile
  MissingFileIsAnnounced
PROPERTIES
  DownloadedFilesAreKept
  EveryDownloadEnds
