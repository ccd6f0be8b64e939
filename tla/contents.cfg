SPECIFICATION ContentsSpec
CONSTANTS
  Word = 128
  MaxChunks = 3
  MaxUserData = 64
  FileSizes = {30, 90}
  FileVersions = {2, 3, 5, 6}
  FileClasses = {"Challenge", "Replay"}
  Lines = {3, 10}
  UserSizes = {0, 9, 64}
  ChunkCounts = {0, 2, 3, 4}
  RawSizes = {0, 63, 67}
  ID_DIM = 2
  MaxIds = 4
  Classes = {"Challenge", "Replay"}
  Strings = {"", "Stadium", "Storm", "Sta"}
  Numbers = {3, 26}
  MAX_PATH = 5
  FolderNames <- NamesOfFolders
  MaxEntries = 2
  MaxFolders = 4
  MaxLevels = 3
  MaxText = 6
  cchLenOutput = 11
  Versions = {5, 6, 7, 8, 9, 10, 11, 12, 13, 14, 15, 16, 17}
  MaxItems = 2
CHECK_DEADLOCK FALSE
INVARIANTS
  TableAsInFile
  SectionsDisjoint
  AllSectionsTried
  IdsBeforePicture
  ReadAsMeant
  ButtonsLeadSomewhere
  FoldersAsNested
  CleanedAsMeant
  LinesFit
  PackPrinted
PROPERTIES
  IdsAsInDialog
