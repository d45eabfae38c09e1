SPECIFICATION Spec
CONSTANTS
  MaxRuns = 3  MaxState = 2
  ImageIds = {"i1"}  BackupIds = {"b1"}  NoId = "nobody"  MaxSends = 3
  MaxAsks = 3  MaxDrops = 1
  Documents = {1, 2}  MaxReaders = 2  MaxUploads = 2  MaxRetries = 1  MaxEvents = 1
  MaxProcesses = 2  MaxRequests = 3
  MaxBackups = 2  KeepLast = 1
  Pictures = {1}  MaxAssets = 2
  Editors = {"f1", "f2"}  MaxFiles = 3  MaxSaves = 4  MaxTime = 2
  Size = 7  Frame = 2  MaxReports = 2
  Options = {1, 2}
  Count = 3
  MaxLogins = 2
  MaxVisits = 2  MaxWorkers = 1  MaxTasks = 2  MaxTroubles = 1
ACTION_CONSTRAINT FirstContentIsOne
INVARIANTS
  ServicesTypeOK OperationsAreServedOnce NewestLoginWins ReadingsStayApart
  SavesStick ReportsAreKept ReferencedIsKept HistoryIsKept ArchivesAreWhole SelectionIsComplete
PROPERTIES ServicesSettle
CHECK_DEADLOCK FALSE
