------------------------------- MODULE Services -------------------------------
(***************************************************************************)
(* The smaller services of the application, side by side.  None reads      *)
(* another's rows: what they have in common is the worker's tick and the   *)
(* database.  So a behaviour exercises one of them, chosen at the start,   *)
(* in the same variables as the others do in theirs: every interleaving    *)
(* inside a service is there, and the states of two do not multiply.       *)
(***************************************************************************)
EXTENDS Naturals

CONSTANTS   \* what each service is given, and the bounds of its module
  MaxRuns, MaxState,                                    \* OpsRuns
  ImageIds, BackupIds, NoId, MaxSends,                  \* AgentRequests
  MaxAsks, MaxDrops,                                    \* ControlLink
  Documents, MaxReaders, MaxUploads, MaxRetries, MaxEvents,   \* OcrQueue
  MaxProcesses, MaxRequests,                            \* SettingsStore
  MaxBackups, KeepLast,                                 \* ReportBackups
  Pictures, MaxAssets,                                  \* AssetLibrary
  Editors, MaxFiles, MaxSaves, MaxTime,                 \* DocumentFiles
  Size, Frame, MaxReports,                              \* ArchivePipeline
  Options,                                              \* SettingsForms
  Count,                                                \* ModelSelection
  MaxLogins,                                            \* Sessions
  MaxVisits, MaxWorkers, MaxTasks, MaxTroubles          \* WeatherReadings

(* What is proved needs no more than that ids and contents differ from     *)
(* what stands for none, and that bounds are numbers.                      *)
ASSUME ServicesAssumption ==
  /\ MaxRuns \in Nat /\ MaxState \in Nat \ {0}
  /\ NoId \notin ImageIds \cup BackupIds /\ MaxSends \in Nat
  /\ MaxAsks \in Nat
  /\ 0 \notin Documents
  /\ MaxReaders \in Nat /\ MaxUploads \in Nat /\ MaxRetries \in Nat
  /\ MaxProcesses \in Nat /\ MaxRequests \in Nat
  /\ MaxBackups \in Nat /\ KeepLast \in Nat
  /\ MaxFiles \in Nat /\ MaxSaves \in Nat \ {0} /\ MaxTime \in Nat
  /\ Size \in Nat \ {0} /\ Frame \in Nat \ {0}
  /\ Count \in Nat
  /\ MaxTasks \in Nat /\ MaxTroubles \in Nat

VARIABLES service,                         \* the one that moves
          v1, v2, v3, v4, v5, v6, v7, v8, v9, v10

O == INSTANCE OpsRuns WITH
  rows <- v1, asked <- v2, handing <- v3, request <- v4, ack <- v5, result <- v6,
  composer <- v7, deployed <- v8
A == INSTANCE AgentRequests WITH Images <- ImageIds, Backups <- BackupIds, Nobody <- NoId,
  rows <- v1, spool <- v2, results <- v3, worker <- v4, elsewhere <- v5, sends <- v6
L == INSTANCE ControlLink WITH
  rows <- v1, inserting <- v2, newest <- v3, published <- v4, tick <- v5, redeeming <- v6,
  last <- v7, connected <- v8, notice <- v9, drops <- v10
R == INSTANCE OcrQueue WITH Contents <- Documents, MaxWorkers <- MaxReaders,
  rows <- v1, auto <- v2, name <- v3, content <- v4, jobs <- v5, tasks <- v6, workers <- v7,
  asks <- v8, losses <- v9
S == INSTANCE SettingsStore WITH
  row <- v1, cached <- v2, jobs <- v3, lock <- v4, snapshots <- v5, started <- v6, wanted <- v7,
  replaced <- v8, tested <- v9, disturbed <- v10
B == INSTANCE ReportBackups WITH Keep <- KeepLast,
  rows <- v1, files <- v2, items <- v3, pages <- v4, tasks <- v5, jobs <- v6, lost <- v7
M == INSTANCE AssetLibrary WITH Contents <- Pictures,
  rows <- v1, stored <- v2, refs <- v3, forms <- v4, removal <- v5, struck <- v6
D == INSTANCE DocumentFiles WITH Forms <- Editors,
  doc <- v1, versions <- v2, names <- v3, forms <- v4, editor <- v5, deletion <- v6, clock <- v7,
  alone <- v8, replaced <- v9, crossed <- v10
P == INSTANCE ArchivePipeline WITH
  written <- v1, buffer <- v2, queue <- v3, payload <- v4, builder <- v5, encryptor <- v6,
  reporter <- v7, row <- v8, file <- v9, opened <- v10
F == INSTANCE SettingsForms WITH Values <- Options, row <- v1, wanted <- v2
C == INSTANCE ModelSelection WITH
  refs <- v1, dropped <- v2, ordered <- v3, path <- v4, own <- v5
N == INSTANCE Sessions WITH
  engine <- v1, stored <- v2, presence <- v3, acts <- v4, winner <- v5, missed <- v6,
  disturbed <- v7
W == INSTANCE WeatherReadings WITH
  reading <- v1, lease <- v2, error <- v3, reached <- v4, running <- v5, tasks <- v6,
  visits <- v7, workers <- v8, shown <- v9, troubles <- v10

vars == <<service, v1, v2, v3, v4, v5, v6, v7, v8, v9, v10>>
Unused == "unused"
UnusedFrom3 == v3 = Unused /\ v4 = Unused /\ v5 = Unused
UnusedFrom6 == v6 = Unused /\ v7 = Unused /\ v8 = Unused /\ v9 = Unused /\ v10 = Unused

Init ==
  \/ service = "ops" /\ O!Init /\ v9 = Unused /\ v10 = Unused
  \/ service = "agent" /\ A!Init /\ v7 = Unused /\ v8 = Unused /\ v9 = Unused /\ v10 = Unused
  \/ service = "link" /\ L!Init
  \/ service = "ocr" /\ R!Init /\ v10 = Unused
  \/ service = "settings" /\ S!Init
  \/ service = "reports" /\ B!Init /\ v8 = Unused /\ v9 = Unused /\ v10 = Unused
  \/ service = "assets" /\ M!Init /\ v7 = Unused /\ v8 = Unused /\ v9 = Unused /\ v10 = Unused
  \/ service = "documents" /\ D!Init
  \/ service = "archive" /\ P!Init
  \/ service = "forms" /\ F!Init /\ UnusedFrom3 /\ UnusedFrom6
  \/ service = "models" /\ C!Init /\ UnusedFrom6
  \/ service = "sessions" /\ N!Init /\ v8 = Unused /\ v9 = Unused /\ v10 = Unused
  \/ service = "weather" /\ W!Init

-----------------------------------------------------------------------------
(* A step of one service.                                                  *)

Ops(step)       == service = "ops" /\ step /\ UNCHANGED <<service, v9, v10>>
Agent(step)     == service = "agent" /\ step /\ UNCHANGED <<service, v7, v8, v9, v10>>
Link(step)      == service = "link" /\ step /\ UNCHANGED service
Ocr(step)       == service = "ocr" /\ step /\ UNCHANGED <<service, v10>>
Settings(step)  == service = "settings" /\ step /\ UNCHANGED service
Reports(step)   == service = "reports" /\ step /\ UNCHANGED <<service, v8, v9, v10>>
Assets(step)    == service = "assets" /\ step /\ UNCHANGED <<service, v7, v8, v9, v10>>
Document(step)  == service = "documents" /\ step /\ UNCHANGED service
Archive(step)   == service = "archive" /\ step /\ UNCHANGED service
Forms(step)     == service = "forms" /\ step /\ UNCHANGED <<service, v3, v4, v5, v6, v7, v8, v9, v10>>
Selecting(step) == service = "models" /\ step /\ UNCHANGED <<service, v6, v7, v8, v9, v10>>
SignIn(step)    == service = "sessions" /\ step /\ UNCHANGED <<service, v8, v9, v10>>
Weather(step)   == service = "weather" /\ step /\ UNCHANGED service

Next ==
  \/ Ops(O!Next) \/ Agent(A!Next) \/ Link(L!Next) \/ Ocr(R!Next)
  \/ Settings(S!Next) \/ Reports(B!Next) \/ Assets(M!Next) \/ Document(D!Next)
  \/ Archive(P!Next) \/ Forms(F!Next) \/ Selecting(C!Next)
  \/ SignIn(N!Next) \/ Weather(W!Next)

-----------------------------------------------------------------------------
(* Fairness.  Ticks, workers and requests go on and time passes; scans and *)
(* visits come again and again; a tick gets through between one killed     *)
(* worker and the next, and a request queues a refresh between one expiry  *)
(* of a mark and the next.  Composer and the users owe nothing, nor does   *)
(* the agent, except that it answers a weather call that does not fail.    *)
(* One service moves in a behaviour, so that a disjunction is fair as its  *)
(* one live disjunct is.                                                   *)

Proceeds ==
  \/ Ops(O!Tick \/ O!Time) \/ Agent(A!Consume) \/ Link(L!Tick)
  \/ Ocr(R!Requested \/ R!Reading \/ R!Time) \/ Settings(S!Serving \/ S!Expire)
  \/ Reports(B!Working \/ B!Time) \/ Archive(P!Build \/ P!Threads)
  \/ Weather(W!Refresh \/ W!Start)
Returns == Ocr(R!Scanning) \/ Reports(B!Visit) \/ Weather(W!Visit)
Serves == Weather(W!Serve)
GetsThrough ==
  \/ Ops(O!MarkRunning) \/ Agent(A!Publish) \/ Link(L!Publish \/ L!FailRow)
  \/ Weather(\E v \in W!Visits : W!Dispatch(v))
RowsGo == Link(L!DeleteRow) \/ Weather(W!ExpireLease)
TicksEnd == Link(L!Retire) \/ Weather(W!ForgetReached)

Spec ==
  /\ Init /\ [][Next]_vars
  /\ WF_vars(Proceeds) /\ WF_vars(Returns) /\ WF_vars(Serves)
  /\ SF_vars(GetsThrough) /\ SF_vars(RowsGo) /\ SF_vars(TicksEnd)

-----------------------------------------------------------------------------
(* The type invariant of the service that moves.                           *)
ServicesTypeOK ==
  CASE service = "ops"      -> O!OpsTypeOK
    [] service = "agent"    -> A!RequestsTypeOK
    [] service = "link"     -> L!LinkTypeOK
    [] service = "ocr"      -> R!OcrTypeOK
    [] service = "settings" -> S!StoreTypeOK
    [] service = "reports"  -> B!ReportsTypeOK
    [] service = "assets"   -> M!AssetsTypeOK
    [] service = "archive"  -> P!PipelineTypeOK
    [] service = "forms"    -> F!FormsTypeOK
    [] service = "models"   -> C!SelectionTypeOK
    [] service = "sessions" -> N!SessionsTypeOK
    [] service = "weather"  -> W!WeatherTypeOK
    [] OTHER                -> D!DocumentsTypeOK

(* Deployment operations: one at a time reaches Composer, each keeps the   *)
(* answer to itself, and a repair is the one a check has shown             *)
(* (service.queue_ops_run, tick_ops_run).  A request the agent repeats is  *)
(* not reported as rejected once it was admitted                           *)
(* (agent_bridge.consume_agent_requests).                                  *)
OperationsAreServedOnce ==
  /\ service = "ops" => O!OpsRunsAreServedInOrder
  /\ service = "agent" => A!AdmittedIsNotRejected

(* The last sign-in is the user's only session (auth/trust.py).            *)
NewestLoginWins == service = "sessions" => N!NewestLoginWins

(* A row of read text is of its own file, and one reads it (ocr/service.py).*)
ReadingsStayApart == service = "ocr" => R!ReadingsStayApart

(* Requests that come one at a time find what they saved in the row and in *)
(* the cache (SingletonModel), a revert what an export can restore         *)
(* (apply_system_settings_import), and both forms of a setting say it      *)
(* (SystemSettings.save).                                                  *)
SavesStick ==
  /\ service = "settings" => S!SavesStick
  /\ service = "forms" => F!FormsAgree

(* A completed report backup can be downloaded until newer ones replace it *)
(* (reports/archive.py).                                                   *)
ReportsAreKept == service = "reports" => B!ReportsAreKept

(* A managed asset that is pointed at is there, with its file (assets.py). *)
ReferencedIsKept == service = "assets" => M!ReferencedIsKept

(* A file a document had is in its history (files/history.py).             *)
HistoryIsKept == service = "documents" => D!HistoryIsKept

(* A finished archive is whole and nothing else opens (backup/crypto.py),  *)
(* and a cancel stops its build (backup/reporters.py).                     *)
ArchivesAreWhole == service = "archive" => P!ArchivesAreWhole

(* A backup covers what its models refer to, and writes that before them   *)
(* (backup/config.py).                                                     *)
SelectionIsComplete == service = "models" => C!SelectionIsComplete

(* In the end every deployment operation ended; what became of the agent's *)
(* updates is published; the newest pairing request is the one in force    *)
(* and a lost connection is alerted; the document's file has been read;    *)
(* the cache holds the settings' row; every report backup has ended and    *)
(* can be dismissed; the build of an archive has ended; and the widget     *)
(* shows the weather.                                                      *)
Settled ==
  CASE service = "ops"      -> O!NoneWaits
    [] service = "agent"    -> A!Told
    [] service = "link"     -> L!NewestWins /\ L!LossIsTold
    [] service = "ocr"      -> R!Settled
    [] service = "settings" -> S!InCache
    [] service = "reports"  -> B!NoneHangs
    [] service = "archive"  -> P!BuildEnds
    [] service = "weather"  -> W!Shows
    [] OTHER                -> TRUE
ServicesSettle == <>[]Settled
=============================================================================
