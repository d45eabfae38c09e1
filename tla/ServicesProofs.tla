---------------------------- MODULE ServicesProofs ----------------------------
(***************************************************************************)
(* What is proved of single services, as properties of the composition in  *)
(* Services: the service that is chosen moves as its module says, and the  *)
(* others do not move.                                                     *)
(***************************************************************************)
EXTENDS Services, TLAPS

(* The modules of proofs, about the variables of Services.                 *)
Operations == INSTANCE OperationsProofs WITH
  Images <- ImageIds, Backups <- BackupIds, Nobody <- NoId,
  rows <- v1, asked <- v2, handing <- v3, request <- v4, ack <- v5, result <- v6,
  composer <- v7, deployed <- v8,
  outcomes <- v1, spool <- v2, results <- v3, worker <- v4, elsewhere <- v5, sends <- v6,
  pairings <- v1, inserting <- v2, newest <- v3, published <- v4, tick <- v5, redeeming <- v6,
  latest <- v7, connected <- v8, notice <- v9, drops <- v10,
  reading <- v1, lease <- v2, error <- v3, reached <- v4, running <- v5, tasks <- v6,
  visits <- v7, workers <- v8, shown <- v9, troubles <- v10,
  refs <- v1, dropped <- v2, ordered <- v3, path <- v4, own <- v5,
  written <- v1, buffer <- v2, queue <- v3, payload <- v4, builder <- v5, encryptor <- v6,
  reporter <- v7, row <- v8, file <- v9, reopened <- v10
Files == INSTANCE FilesProofs WITH
  Contents <- Documents, MaxWorkers <- MaxReaders, AssetContents <- Pictures,
  rows <- v1, auto <- v2, name <- v3, content <- v4, jobs <- v5, tasks <- v6, workers <- v7,
  asks <- v8, losses <- v9,
  assets <- v1, stored <- v2, refs <- v3, forms <- v4, removal <- v5, struck <- v6,
  doc <- v1, versions <- v2, names <- v3, opened <- v4, editor <- v5, deletion <- v6, clock <- v7,
  alone <- v8, replaced <- v9, crossed <- v10,
  Keep <- KeepLast,
  reports <- v1, files <- v2, items <- v3, pages <- v4, builds <- v5, builders <- v6, lost <- v7
SignIns == INSTANCE SessionsProofs WITH
  engine <- v1, stored <- v2, presence <- v3, acts <- v4, winner <- v5, missed <- v6,
  disturbed <- v7,
  row <- v1, cached <- v2, jobs <- v3, lock <- v4, snapshots <- v5, started <- v6, wanted <- v7,
  replaced <- v8, tested <- v9, overlapped <- v10,
  formRow <- v1, formWanted <- v2

-----------------------------------------------------------------------------
(* Both instances of a module say the same.                                *)

LEMMA OpsAlike ==
  /\ O!Init => Operations!Init
  /\ [O!Next]_O!ops => [Operations!Next]_Operations!ops
  /\ Operations!OpsRunsAreServedInOrder => O!OpsRunsAreServedInOrder
  /\ Operations!OpsTypeOK => O!OpsTypeOK
BY DEF O!Runs, O!Operations, O!None, O!ops, O!Statuses, O!Active, O!Row, O!NoResult, O!NoRow,
       O!Request, O!NoRequest, O!NoAck, O!Init, O!LastOf, O!Completed, O!LatestPreview, O!Ask,
       O!Insert, O!OldestActive, O!Usable, O!HandOver, O!RefuseHandOver, O!MarkRunning, O!Crash,
       O!Answered, O!Finish, O!GiveUp, O!BecomeLate, O!ComposerTakes, O!ComposerAnswers, O!Edit,
       O!Tick, O!Time, O!Next, O!OpsTypeOK, O!AnswersAreTheirOwn, O!OneHandedOver,
       O!AppliesWhatWasShown, O!OpsRunsAreServedInOrder,
       Operations!Runs, Operations!Operations, Operations!None, Operations!ops,
       Operations!Statuses, Operations!Active, Operations!Row, Operations!NoResult,
       Operations!NoRow, Operations!Request, Operations!NoRequest, Operations!NoAck,
       Operations!Init, Operations!LastOf, Operations!Completed, Operations!LatestPreview,
       Operations!Ask, Operations!Insert, Operations!OldestActive, Operations!Usable,
       Operations!HandOver, Operations!RefuseHandOver, Operations!MarkRunning, Operations!Crash,
       Operations!Answered, Operations!Finish, Operations!GiveUp, Operations!BecomeLate,
       Operations!ComposerTakes, Operations!ComposerAnswers, Operations!Edit, Operations!Tick,
       Operations!Time, Operations!Next, Operations!OpsTypeOK, Operations!AnswersAreTheirOwn,
       Operations!OneHandedOver, Operations!AppliesWhatWasShown, Operations!OpsRunsAreServedInOrder

LEMMA AgentAlike ==
  /\ A!Init => Operations!A!Init
  /\ [A!Next]_A!agent => [Operations!A!Next]_Operations!A!agent
  /\ Operations!A!AdmittedIsNotRejected => A!AdmittedIsNotRejected
  /\ Operations!A!RequestsTypeOK => A!RequestsTypeOK
BY DEF A!Ids, A!agent, A!Ended, A!Statuses, A!Outcomes, A!Steps, A!AtRest, A!Init, A!Send,
       A!OtherUpdate, A!Become, A!Busy, A!Exists, A!ActOnImage, A!ActOnBackup, A!Build, A!Answer,
       A!Archive, A!MoveOn, A!Published, A!Publish, A!Retry, A!Crash, A!Consume, A!Settle, A!Next,
       A!RequestsTypeOK, A!AdmittedIsNotRejected,
       Operations!A!Ids, Operations!A!agent, Operations!A!Ended, Operations!A!Statuses,
       Operations!A!Outcomes, Operations!A!Steps, Operations!A!AtRest, Operations!A!Init,
       Operations!A!Send, Operations!A!OtherUpdate, Operations!A!Become, Operations!A!Busy,
       Operations!A!Exists, Operations!A!ActOnImage, Operations!A!ActOnBackup, Operations!A!Build,
       Operations!A!Answer, Operations!A!Archive, Operations!A!MoveOn, Operations!A!Published,
       Operations!A!Publish, Operations!A!Retry, Operations!A!Crash, Operations!A!Consume,
       Operations!A!Settle, Operations!A!Next, Operations!A!RequestsTypeOK,
       Operations!A!AdmittedIsNotRejected

LEMMA LinkAlike ==
  /\ L!Init => Operations!L!Init
  /\ [L!Next]_L!link => [Operations!L!Next]_Operations!L!link
  /\ Operations!L!LinkTypeOK => L!LinkTypeOK
BY DEF L!Asks, L!None, L!Actions, L!link, L!Row, L!NoTick, L!Init, L!Ask, L!Insert, L!Others,
       L!Read, L!Oldest, L!Publish, L!Applied, L!DeleteRow, L!FailRow, L!Retire, L!Crash, L!Take,
       L!Report, L!Drop, L!Tick, L!Next, L!LinkTypeOK,
       Operations!L!Asks, Operations!L!None, Operations!L!Actions, Operations!L!link,
       Operations!L!Row, Operations!L!NoTick, Operations!L!Init, Operations!L!Ask,
       Operations!L!Insert, Operations!L!Others, Operations!L!Read, Operations!L!Oldest,
       Operations!L!Publish, Operations!L!Applied, Operations!L!DeleteRow, Operations!L!FailRow,
       Operations!L!Retire, Operations!L!Crash, Operations!L!Take, Operations!L!Report,
       Operations!L!Drop, Operations!L!Tick, Operations!L!Next, Operations!L!LinkTypeOK

LEMMA OcrAlike ==
  /\ R!Init => Files!Init
  /\ [R!Next]_R!ocr => [Files!Next]_Files!ocr
  /\ Files!ReadingsStayApart => R!ReadingsStayApart
  /\ Files!OcrTypeOK => R!OcrTypeOK
BY DEF R!Nothing, R!Workers, R!Uploads, R!Manual, R!Scan, R!Schedulers, R!ocr, R!Held, R!Active,
       R!Ended, R!Sources, R!Row, R!NoRow, R!Job, R!NoJob, R!Work, R!AtRest, R!Init, R!More,
       R!Save, R!Ask, R!Unfinished, R!StartScan, R!Load, R!StillNamed, R!Busy, R!ToQueue,
       R!Scheduled, R!Superseded, R!Schedule, R!Invalidate, R!Taken, R!Others, R!Claim, R!SameFile,
       R!Conclude, R!Unavailable, R!ReadFails, R!TriesLeft, R!Retry, R!BecomeStale, R!Lose,
       R!Crash, R!Run, R!Proceed, R!Requested, R!Scanning, R!Reading, R!Time, R!Next, R!OcrTypeOK,
       R!Reads, R!ReadingsStayApart,
       Files!Nothing, Files!Workers, Files!Uploads, Files!Manual, Files!Scan, Files!Schedulers,
       Files!ocr, Files!Held, Files!Active, Files!Ended, Files!Sources, Files!Row, Files!NoRow,
       Files!Job, Files!NoJob, Files!Work, Files!AtRest, Files!Init, Files!More, Files!Save,
       Files!Ask, Files!Unfinished, Files!StartScan, Files!Load, Files!StillNamed, Files!Busy,
       Files!ToQueue, Files!Scheduled, Files!Superseded, Files!Schedule, Files!Invalidate,
       Files!Taken, Files!Others, Files!Claim, Files!SameFile, Files!Conclude, Files!Unavailable,
       Files!ReadFails, Files!TriesLeft, Files!Retry, Files!BecomeStale, Files!Lose, Files!Crash,
       Files!Run, Files!Proceed, Files!Requested, Files!Scanning, Files!Reading, Files!Time,
       Files!Next, Files!OcrTypeOK, Files!Reads, Files!ReadingsStayApart

(* What a request makes of the settings it holds.                          *)
LEMMA HeldAlike ==
  /\ \A job : S!Synced(job) = SignIns!S!Synced(job)
  /\ \A job : S!Asked(job) = SignIns!S!Asked(job)
  /\ \A s, kind : S!Written(s, kind) = SignIns!S!Written(s, kind)
<1>1. \A job : S!Synced(job) = SignIns!S!Synced(job)
  BY DEF S!NoLogo, S!Unverified, S!Connection, S!WithMail, S!Restored, S!Edited,
     S!ChosenHome, S!Synced, S!Last, SignIns!S!NoLogo, SignIns!S!Unverified,
     SignIns!S!Connection, SignIns!S!WithMail, SignIns!S!Restored,
     SignIns!S!Edited, SignIns!S!ChosenHome, SignIns!S!Synced, SignIns!S!Last
<1>2. \A job : S!Asked(job) = SignIns!S!Asked(job)
  BY DEF S!NoLogo, S!Unverified, S!Connection, S!WithMail, S!Restored, S!Edited,
     S!Reverted, S!Asked, S!Last, SignIns!S!NoLogo, SignIns!S!Unverified,
     SignIns!S!Connection, SignIns!S!WithMail, SignIns!S!Restored,
     SignIns!S!Edited, SignIns!S!Reverted, SignIns!S!Asked, SignIns!S!Last
<1>3. \A s, kind : S!Written(s, kind) = SignIns!S!Written(s, kind)
  BY DEF S!Partial, S!Written, SignIns!S!Partial, SignIns!S!Written
<1>4. QED
  BY <1>1, <1>2, <1>3

(* A request loads its settings, answers, or the cache expires.            *)
LEMMA ReadsAlike ==
  /\ \A r : S!Load(r) <=> SignIns!S!Load(r)
  /\ \A r : S!Fill(r) <=> SignIns!S!Fill(r)
  /\ \A r : S!Answered(r) <=> SignIns!S!Answered(r)
  /\ \A r : S!Refresh(r) <=> SignIns!S!Refresh(r)
  /\ S!Expire <=> SignIns!S!Expire
<1>1. \A r : S!Load(r) <=> SignIns!S!Load(r)
  BY DEF S!Missing, S!account, S!At, S!Step, S!Load, SignIns!S!Missing,
     SignIns!S!account, SignIns!S!At, SignIns!S!Step, SignIns!S!Load
<1>2. \A r : S!Fill(r) <=> SignIns!S!Fill(r)
  BY DEF S!account, S!At, S!Step, S!Fill, SignIns!S!account, SignIns!S!At,
     SignIns!S!Step, SignIns!S!Fill
<1>3. \A r : S!Answered(r) <=> SignIns!S!Answered(r)
  BY DEF S!NoLogo, S!Unverified, S!account, S!Default, S!Off, S!At, S!Answered,
     SignIns!S!NoLogo, SignIns!S!Unverified, SignIns!S!account,
     SignIns!S!Default, SignIns!S!Off, SignIns!S!At, SignIns!S!Answered
<1>4. \A r : S!Refresh(r) <=> SignIns!S!Refresh(r)
  BY DEF S!NoLogo, S!Unverified, S!account, S!Default, S!Off, S!At, S!Refresh,
     SignIns!S!NoLogo, SignIns!S!Unverified, SignIns!S!account,
     SignIns!S!Default, SignIns!S!Off, SignIns!S!At, SignIns!S!Refresh
<1>5. S!Expire <=> SignIns!S!Expire
  BY DEF S!Missing, S!account, S!Expire, SignIns!S!Missing, SignIns!S!account,
     SignIns!S!Expire
<1>6. QED
  BY <1>1, <1>2, <1>3, <1>4, <1>5

(* A request takes the row's lock, saves under it, or is killed.           *)
LEMMA LocksAlike ==
  /\ \A r : S!Lock(r) <=> SignIns!S!Lock(r)
  /\ \A r : S!NothingToRevert(r) <=> SignIns!S!NothingToRevert(r)
  /\ \A r : S!SaveLocked(r) <=> SignIns!S!SaveLocked(r)
  /\ \A r : S!Die(r) <=> SignIns!S!Die(r)
<1>1. \A r : S!Lock(r) <=> SignIns!S!Lock(r)
  BY DEF S!Nobody, S!account, S!At, S!Step, S!Lock, SignIns!S!Nobody,
     SignIns!S!account, SignIns!S!At, SignIns!S!Step, SignIns!S!Lock
<1>2. \A r : S!NothingToRevert(r) <=> SignIns!S!NothingToRevert(r)
  BY DEF S!Nobody, S!NoLogo, S!Unverified, S!account, S!Default, S!Off, S!At,
     S!NothingToRevert, SignIns!S!Nobody, SignIns!S!NoLogo,
     SignIns!S!Unverified, SignIns!S!account, SignIns!S!Default, SignIns!S!Off,
     SignIns!S!At, SignIns!S!NothingToRevert
<1>3. \A r : S!SaveLocked(r) <=> SignIns!S!SaveLocked(r)
  BY HeldAlike DEF S!account, S!At, S!Step, S!SaveLocked, SignIns!S!account,
     SignIns!S!At, SignIns!S!Step, SignIns!S!SaveLocked
<1>4. \A r : S!Die(r) <=> SignIns!S!Die(r)
  BY DEF S!Nobody, S!NoLogo, S!Unverified, S!Default, S!Off, S!Active,
     S!Disturb, S!Die, SignIns!S!Nobody, SignIns!S!NoLogo, SignIns!S!Unverified,
     SignIns!S!Default, SignIns!S!Off, SignIns!S!Active, SignIns!S!Disturb,
     SignIns!S!Die
<1>5. QED
  BY <1>1, <1>2, <1>3, <1>4

(* A test mail, and a save without the lock.                               *)
LEMMA SavesAlike ==
  /\ \A r : S!SendTest(r) <=> SignIns!S!SendTest(r)
  /\ \A r : S!Save(r) <=> SignIns!S!Save(r)
<1>1. \A r : S!SendTest(r) <=> SignIns!S!SendTest(r)
  BY DEF S!At, S!Connection, S!SendTest, SignIns!S!At, SignIns!S!Connection,
     SignIns!S!SendTest
<1>2. \A r : S!Save(r) <=> SignIns!S!Save(r)
  BY HeldAlike DEF S!Nobody, S!NoLogo, S!Unverified, S!Whole, S!Partial,
     S!Default, S!At, S!Step, S!Account, S!Save, SignIns!S!Nobody,
     SignIns!S!NoLogo, SignIns!S!Unverified, SignIns!S!Whole, SignIns!S!Partial,
     SignIns!S!Default, SignIns!S!At, SignIns!S!Step, SignIns!S!Account,
     SignIns!S!Save
<1>3. QED
  BY <1>1, <1>2

(* An import or its revert commits.                                        *)
LEMMA CommitsAlike ==
  \A r : S!Commit(r) <=> SignIns!S!Commit(r)
BY HeldAlike DEF S!Nobody, S!NoLogo, S!Unverified, S!Default, S!Off, S!At,
   S!Account, S!Exported, S!Taken, S!Commit, S!Front, SignIns!S!Nobody,
   SignIns!S!NoLogo, SignIns!S!Unverified, SignIns!S!Default, SignIns!S!Off,
   SignIns!S!At, SignIns!S!Account, SignIns!S!Exported, SignIns!S!Taken,
   SignIns!S!Commit, SignIns!S!Front

(* A request arrives.                                                      *)
LEMMA StartsAlike ==
  \A r, kind, value : S!Start(r, kind, value) <=> SignIns!S!Start(r, kind, value)
BY DEF S!Requests, S!NoLogo, S!Unverified, S!Locking, S!account, S!Default,
   S!Active, S!Disturb, S!Start, SignIns!S!Requests, SignIns!S!NoLogo,
   SignIns!S!Unverified, SignIns!S!Locking, SignIns!S!account,
   SignIns!S!Default, SignIns!S!Active, SignIns!S!Disturb, SignIns!S!Start

LEMMA SettingsAlike ==
  /\ S!Init => SignIns!S!Init
  /\ [S!Next]_S!store => [SignIns!S!Next]_SignIns!S!store
  /\ SignIns!S!SavesStick => S!SavesStick
  /\ SignIns!S!StoreTypeOK => S!StoreTypeOK
<1>1. S!Init => SignIns!S!Init
  BY DEF S!Requests, S!Nobody, S!NoLogo, S!Unverified, S!Missing, S!Default,
     S!Off, S!Init, SignIns!S!Requests, SignIns!S!Nobody, SignIns!S!NoLogo,
     SignIns!S!Unverified, SignIns!S!Missing, SignIns!S!Default, SignIns!S!Off,
     SignIns!S!Init
<1>2. [S!Next]_S!store => [SignIns!S!Next]_SignIns!S!store
  <2>1. S!store = SignIns!S!store /\ S!store' = SignIns!S!store'
    BY DEF S!account, S!store, SignIns!S!account, SignIns!S!store
  <2>2. S!Requests = SignIns!S!Requests /\ S!Kinds = SignIns!S!Kinds /\ S!Values = SignIns!S!Values
    BY DEF S!Requests, S!Values, S!Whole, S!Partial, S!Locking, S!Kinds,
       SignIns!S!Requests, SignIns!S!Values, SignIns!S!Whole, SignIns!S!Partial,
       SignIns!S!Locking, SignIns!S!Kinds
  <2>3. \A r : S!Proceed(r) <=> SignIns!S!Proceed(r)
    BY ReadsAlike, LocksAlike, SavesAlike, CommitsAlike DEF S!Proceed, SignIns!S!Proceed
  <2>4. S!Next <=> SignIns!S!Next
    BY <2>2, <2>3, ReadsAlike, LocksAlike, StartsAlike
       DEF S!Next, S!Serving, SignIns!S!Next, SignIns!S!Serving
  <2>5. QED
    BY <2>1, <2>4
<1>3. SignIns!S!SavesStick => S!SavesStick
  BY DEF S!Requests, S!Unverified, S!Missing, S!Active, S!InStep, S!SavesStick,
     SignIns!S!Requests, SignIns!S!Unverified, SignIns!S!Missing,
     SignIns!S!Active, SignIns!S!InStep, SignIns!S!SavesStick
<1>4. SignIns!S!StoreTypeOK => S!StoreTypeOK
  BY DEF S!Requests, S!Nobody, S!Values, S!NoLogo, S!Unverified, S!Settings,
     S!Missing, S!Whole, S!Partial, S!Locking, S!Kinds, S!Export, S!Job,
     S!StoreTypeOK, SignIns!S!Requests, SignIns!S!Nobody, SignIns!S!Values,
     SignIns!S!NoLogo, SignIns!S!Unverified, SignIns!S!Settings,
     SignIns!S!Missing, SignIns!S!Whole, SignIns!S!Partial, SignIns!S!Locking,
     SignIns!S!Kinds, SignIns!S!Export, SignIns!S!Job, SignIns!S!StoreTypeOK
<1>5. QED
  BY <1>1, <1>2, <1>3, <1>4

LEMMA ReportsAlike ==
  /\ B!Init => Files!B!Init
  /\ [B!Next]_B!reports => [Files!B!Next]_Files!B!reports
  /\ Files!B!ReportsAreKept => B!ReportsAreKept
  /\ Files!B!ReportsTypeOK => B!ReportsTypeOK
BY DEF B!Cardinality, B!Backups, B!Pages, B!reports, B!Active, B!Statuses, B!Row, B!NoRow,
       B!Stages, B!NoJob, B!NoPage, B!Init, B!Is, B!At, B!Go, B!Mark, B!Open, B!Sweep,
       B!NoneActive, B!Create, B!Reuse, B!Dispatch, B!Take, B!Begin, B!Progress, B!Store,
       B!Complete, B!Newer, B!Finish, B!Prune, B!Pruned, B!Fail, B!Die, B!Age, B!Work, B!Working,
       B!Time, B!Visit, B!Next, B!ReportsTypeOK, B!ReportsAreKept,
       Files!B!Cardinality, Files!B!Backups, Files!B!Pages, Files!B!reports, Files!B!Active,
       Files!B!Statuses, Files!B!Row, Files!B!NoRow, Files!B!Stages, Files!B!NoJob, Files!B!NoPage,
       Files!B!Init, Files!B!Is, Files!B!At, Files!B!Go, Files!B!Mark, Files!B!Open, Files!B!Sweep,
       Files!B!NoneActive, Files!B!Create, Files!B!Reuse, Files!B!Dispatch, Files!B!Take,
       Files!B!Begin, Files!B!Progress, Files!B!Store, Files!B!Complete, Files!B!Newer,
       Files!B!Finish, Files!B!Prune, Files!B!Pruned, Files!B!Fail, Files!B!Die, Files!B!Age,
       Files!B!Work, Files!B!Working, Files!B!Time, Files!B!Visit, Files!B!Next,
       Files!B!ReportsTypeOK, Files!B!ReportsAreKept

LEMMA AssetsAlike ==
  /\ M!Init => Files!M!Init
  /\ [M!Next]_M!library => [Files!M!Next]_Files!M!library
  /\ Files!M!ReferencedIsKept => M!ReferencedIsKept
  /\ Files!M!AssetsTypeOK => M!AssetsTypeOK
BY DEF M!Assets, M!Legacy, M!Files, M!Holders, M!Checksums, M!library, M!NoRow, M!Row, M!NoForm,
       M!NoRemoval, M!Init, M!There, M!Same, M!Fresh, M!Add, M!Picked, M!Upload, M!Choose,
       M!Create, M!Adopt, M!Adopted, M!Clean, M!Save, M!Clear, M!Leave, M!Usages, M!Protected,
       M!Delete, M!CleanUp, M!Remove, M!Alone, M!CheckFile, M!DeleteFile, M!EndRemoval, M!Declared,
       M!Prune, M!Strike, M!Next, M!AssetsTypeOK, M!ReferencedIsKept,
       Files!M!Assets, Files!M!Legacy, Files!M!Files, Files!M!Holders, Files!M!Checksums,
       Files!M!library, Files!M!NoRow, Files!M!Row, Files!M!NoForm, Files!M!NoRemoval,
       Files!M!Init, Files!M!There, Files!M!Same, Files!M!Fresh, Files!M!Add, Files!M!Picked,
       Files!M!Upload, Files!M!Choose, Files!M!Create, Files!M!Adopt, Files!M!Adopted,
       Files!M!Clean, Files!M!Save, Files!M!Clear, Files!M!Leave, Files!M!Usages,
       Files!M!Protected, Files!M!Delete, Files!M!CleanUp, Files!M!Remove, Files!M!Alone,
       Files!M!CheckFile, Files!M!DeleteFile, Files!M!EndRemoval, Files!M!Declared, Files!M!Prune,
       Files!M!Strike, Files!M!Next, Files!M!AssetsTypeOK, Files!M!ReferencedIsKept

LEMMA DocumentsAlike ==
  /\ D!Init => Files!D!Init
  /\ [D!Next]_D!docfiles => [Files!D!Next]_Files!D!docfiles
  /\ Files!D!HistoryIsKept => D!HistoryIsKept
  /\ Files!D!DocumentsTypeOK => D!DocumentsTypeOK
BY DEF D!Cardinality, D!docfiles, D!Times, D!Names, D!Doc, D!NoForm, D!NoDeletion, D!Init, D!Live,
       D!NextName, D!CanSave, D!Halfway, D!Archive, D!Load, D!Before, D!Submit, D!Refuse,
       D!OpenEditor, D!SaveEdited, D!LoadToDelete, D!Delete, D!CascadeDelete, D!Restore,
       D!DeletedAt, D!CascadeRestore, D!Die, D!DeleteAgain, D!Reset, D!DeleteVersion, D!Next,
       D!DocumentsTypeOK, D!HistoryIsKept,
       Files!D!Cardinality, Files!D!docfiles, Files!D!Times, Files!D!Names, Files!D!Doc,
       Files!D!NoForm, Files!D!NoDeletion, Files!D!Init, Files!D!Live, Files!D!NextName,
       Files!D!CanSave, Files!D!Halfway, Files!D!Archive, Files!D!Load, Files!D!Before,
       Files!D!Submit, Files!D!Refuse, Files!D!OpenEditor, Files!D!SaveEdited,
       Files!D!LoadToDelete, Files!D!Delete, Files!D!CascadeDelete, Files!D!Restore,
       Files!D!DeletedAt, Files!D!CascadeRestore, Files!D!Die, Files!D!DeleteAgain, Files!D!Reset,
       Files!D!DeleteVersion, Files!D!Next, Files!D!DocumentsTypeOK, Files!D!HistoryIsKept

LEMMA ArchiveAlike ==
  /\ P!Init => Operations!P!Init
  /\ [P!Next]_P!pipeline => [Operations!P!Next]_Operations!P!pipeline
  /\ Operations!P!ArchivesAreWhole => P!ArchivesAreWhole
  /\ Operations!P!PipelineTypeOK => P!PipelineTypeOK
BY DEF P!End, P!Whole, P!QueueSize, P!Stop, P!pipeline, P!Ended, P!Reports, P!NoReport, P!Init,
       P!At, P!Go, P!Raise, P!Write, P!Submit, P!Put, P!Offer, P!Post, P!Posted, P!BuildFails,
       P!Unwind, P!CloseBuffer, P!Flush, P!SendStop, P!Header, P!Prefix, P!Framed, P!Contents,
       P!Finish, P!Hush, P!Leave, P!Take, P!Encrypt, P!Wake, P!Report, P!Cancel, P!Refused,
       P!Deciphered, P!Opened, P!Open, P!Build, P!Threads, P!Next, P!PipelineTypeOK,
       P!FinishedIsWhole, P!CancelIsNoticed, P!ArchivesAreWhole,
       Operations!P!End, Operations!P!Whole, Operations!P!QueueSize, Operations!P!Stop,
       Operations!P!pipeline, Operations!P!Ended, Operations!P!Reports, Operations!P!NoReport,
       Operations!P!Init, Operations!P!At, Operations!P!Go, Operations!P!Raise, Operations!P!Write,
       Operations!P!Submit, Operations!P!Put, Operations!P!Offer, Operations!P!Post,
       Operations!P!Posted, Operations!P!BuildFails, Operations!P!Unwind, Operations!P!CloseBuffer,
       Operations!P!Flush, Operations!P!SendStop, Operations!P!Header, Operations!P!Prefix,
       Operations!P!Framed, Operations!P!Contents, Operations!P!Finish, Operations!P!Hush,
       Operations!P!Leave, Operations!P!Take, Operations!P!Encrypt, Operations!P!Wake,
       Operations!P!Report, Operations!P!Cancel, Operations!P!Refused, Operations!P!Deciphered,
       Operations!P!Opened, Operations!P!Open, Operations!P!Build, Operations!P!Threads,
       Operations!P!Next, Operations!P!PipelineTypeOK, Operations!P!FinishedIsWhole,
       Operations!P!CancelIsNoticed, Operations!P!ArchivesAreWhole

LEMMA FormsAlike ==
  /\ F!Init => SignIns!F!Init
  /\ [F!Next]_F!forms => [SignIns!F!Next]_SignIns!F!forms
  /\ SignIns!F!FormsAgree => F!FormsAgree
  /\ SignIns!F!FormsTypeOK => F!FormsTypeOK
<1>1. F!Init => SignIns!F!Init
  BY DEF F!DefaultDisplay, F!TitlebarOf, F!Init, SignIns!F!DefaultDisplay,
     SignIns!F!TitlebarOf, SignIns!F!Init
<1>2. [F!Next]_F!forms => [SignIns!F!Next]_SignIns!F!forms
  <2>1. \A search, tables, other : F!Edited(search, tables, other) = SignIns!F!Edited(search, tables, other)
    BY DEF F!TitlebarOf, F!Edited, SignIns!F!TitlebarOf, SignIns!F!Edited
  <2>2. \A held, named, whole : F!Written(held, named, whole) = SignIns!F!Written(held, named, whole)
    BY DEF F!DefaultDisplay, F!SearchOf, F!TitlebarOf, F!ChosenSearch,
       F!ChosenTables, F!Written, SignIns!F!DefaultDisplay, SignIns!F!SearchOf,
       SignIns!F!TitlebarOf, SignIns!F!ChosenSearch, SignIns!F!ChosenTables,
       SignIns!F!Written
  <2>3. \A edit, whole : F!AskedSearch(edit, whole) = SignIns!F!AskedSearch(edit, whole)
    BY DEF F!Unsaid, F!DefaultDisplay, F!SearchOf, F!TitlebarOf, F!AskedSearch,
       SignIns!F!Unsaid, SignIns!F!DefaultDisplay, SignIns!F!SearchOf,
       SignIns!F!TitlebarOf, SignIns!F!AskedSearch
  <2>4. \A search, tables, other, whole :
          F!Save(search, tables, other, whole) <=> SignIns!F!Save(search, tables, other, whole)
    BY <2>1, <2>2, <2>3 DEF F!Named, F!AskedTables, F!Save, SignIns!F!Named,
       SignIns!F!AskedTables, SignIns!F!Save
  <2>5. QED
    BY <2>4 DEF F!Displays, F!Searches, F!Titlebars, F!Tables, F!forms, F!Same,
       F!SearchEdits, F!TableEdits, F!Next, SignIns!F!Displays,
       SignIns!F!Searches, SignIns!F!Titlebars, SignIns!F!Tables,
       SignIns!F!forms, SignIns!F!Same, SignIns!F!SearchEdits,
       SignIns!F!TableEdits, SignIns!F!Next
<1>3. SignIns!F!FormsAgree => F!FormsAgree
  BY DEF F!Displays, F!Unsaid, F!TitlebarOf, F!FormsAgree, SignIns!F!Displays,
     SignIns!F!Unsaid, SignIns!F!TitlebarOf, SignIns!F!FormsAgree
<1>4. SignIns!F!FormsTypeOK => F!FormsTypeOK
  BY DEF F!Displays, F!Searches, F!Titlebars, F!Tables, F!Row, F!FormsTypeOK,
     SignIns!F!Displays, SignIns!F!Searches, SignIns!F!Titlebars,
     SignIns!F!Tables, SignIns!F!Row, SignIns!F!FormsTypeOK
<1>5. QED
  BY <1>1, <1>2, <1>3, <1>4

LEMMA SelectionAlike ==
  /\ C!Init => Operations!C!Init
  /\ [C!Next]_C!selection => [Operations!C!Next]_Operations!C!selection
  /\ Operations!C!SelectionIsComplete => C!SelectionIsComplete
  /\ Operations!C!SelectionTypeOK => C!SelectionTypeOK
BY DEF C!Cardinality, C!Last, C!Front, C!Range, C!Models, C!NoOne, C!selection, C!Init, C!Kept,
       C!Visited, C!Visiting, C!Missed, C!Keep, C!Fresh, C!LeastOf, C!NextModel, C!Visit, C!Leave,
       C!Next, C!SelectionTypeOK, C!Reached, C!Ready, C!SelectionIsComplete,
       Operations!C!Cardinality, Operations!C!Last, Operations!C!Front, Operations!C!Range,
       Operations!C!Models, Operations!C!NoOne, Operations!C!selection, Operations!C!Init,
       Operations!C!Kept, Operations!C!Visited, Operations!C!Visiting, Operations!C!Missed,
       Operations!C!Keep, Operations!C!Fresh, Operations!C!LeastOf, Operations!C!NextModel,
       Operations!C!Visit, Operations!C!Leave, Operations!C!Next, Operations!C!SelectionTypeOK,
       Operations!C!Reached, Operations!C!Ready, Operations!C!SelectionIsComplete

LEMMA SignInsAlike ==
  /\ N!Init => SignIns!Init
  /\ [N!Next]_N!signins => [SignIns!Next]_SignIns!signins
  /\ SignIns!NewestLoginWins => N!NewestLoginWins
  /\ SignIns!SessionsTypeOK => N!SessionsTypeOK
BY DEF N!Sessions, N!signins, N!Row, N!NoRow, N!SigningIn, N!Later, N!Act, N!Off, N!Init, N!At,
       N!Go, N!Alive, N!Open, N!Enforcing, N!Seen, N!Unseen, N!Evict, N!Delete, N!MarkEnded,
       N!LogIn, N!Met, N!Meet, N!Enforce, N!Leave, N!Page, N!Remember, N!LogOut, N!Trust,
       N!EnforceAgain, N!ReadProfile, N!CloseStale, N!Revoke, N!Kill, N!Next, N!SessionsTypeOK,
       N!NewestLoginWins,
       SignIns!Sessions, SignIns!signins, SignIns!Row, SignIns!NoRow, SignIns!SigningIn,
       SignIns!Later, SignIns!Act, SignIns!Off, SignIns!Init, SignIns!At, SignIns!Go,
       SignIns!Alive, SignIns!Open, SignIns!Enforcing, SignIns!Seen, SignIns!Unseen, SignIns!Evict,
       SignIns!Delete, SignIns!MarkEnded, SignIns!LogIn, SignIns!Met, SignIns!Meet,
       SignIns!Enforce, SignIns!Leave, SignIns!Page, SignIns!Remember, SignIns!LogOut,
       SignIns!Trust, SignIns!EnforceAgain, SignIns!ReadProfile, SignIns!CloseStale,
       SignIns!Revoke, SignIns!Kill, SignIns!Next, SignIns!SessionsTypeOK, SignIns!NewestLoginWins

LEMMA WeatherAlike ==
  /\ W!Init => Operations!W!Init
  /\ [W!Next]_W!weather => [Operations!W!Next]_Operations!W!weather
  /\ Operations!W!WeatherTypeOK => W!WeatherTypeOK
BY DEF W!Visits, W!Workers, W!weather, W!Readings, W!Answers, W!Init, W!Trouble, W!Read, W!Leave,
       W!Had, W!Wait, W!TakeLease, W!Asks, W!Ping, W!Dispatch, W!GiveUp, W!Move, W!Begin, W!Answer,
       W!Fail, W!Keep, W!Clear, W!ExpireLease, W!ExpireError, W!ForgetReached, W!Age, W!Disturb,
       W!Start, W!Serve, W!Refresh, W!Visit, W!Expire, W!Next, W!WeatherTypeOK,
       Operations!W!Visits, Operations!W!Workers, Operations!W!weather, Operations!W!Readings,
       Operations!W!Answers, Operations!W!Init, Operations!W!Trouble, Operations!W!Read,
       Operations!W!Leave, Operations!W!Had, Operations!W!Wait, Operations!W!TakeLease,
       Operations!W!Asks, Operations!W!Ping, Operations!W!Dispatch, Operations!W!GiveUp,
       Operations!W!Move, Operations!W!Begin, Operations!W!Answer, Operations!W!Fail,
       Operations!W!Keep, Operations!W!Clear, Operations!W!ExpireLease, Operations!W!ExpireError,
       Operations!W!ForgetReached, Operations!W!Age, Operations!W!Disturb, Operations!W!Start,
       Operations!W!Serve, Operations!W!Refresh, Operations!W!Visit, Operations!W!Expire,
       Operations!W!Next, Operations!W!WeatherTypeOK

-----------------------------------------------------------------------------
(* The service is chosen once, and every step is one of its own.           *)
LEMMA OneServiceMoves ==
  ASSUME [Next]_vars
  PROVE  /\ service' = service
         /\ service = "ops" => [O!Next]_O!ops
         /\ service = "agent" => [A!Next]_A!agent
         /\ service = "link" => [L!Next]_L!link
         /\ service = "ocr" => [R!Next]_R!ocr
         /\ service = "settings" => [S!Next]_S!store
         /\ service = "reports" => [B!Next]_B!reports
         /\ service = "assets" => [M!Next]_M!library
         /\ service = "documents" => [D!Next]_D!docfiles
         /\ service = "archive" => [P!Next]_P!pipeline
         /\ service = "forms" => [F!Next]_F!forms
         /\ service = "models" => [C!Next]_C!selection
         /\ service = "sessions" => [N!Next]_N!signins
         /\ service = "weather" => [W!Next]_W!weather
<1>1. CASE Next
  BY <1>1 DEF Next, Ops, Agent, Link, Ocr, Settings, Reports, Assets, Document, Archive, Forms,
              Selecting, SignIn, Weather
<1>2. CASE UNCHANGED vars
  BY <1>2 DEF vars, O!ops, A!agent, L!link, R!ocr, S!store, S!account, B!reports, M!library,
              D!docfiles, P!pipeline, F!forms, C!selection, N!signins, W!weather
<1>3. QED
  BY <1>1, <1>2

LEMMA OneServiceStarts ==
  ASSUME Init
  PROVE
         /\ service = "ops" => O!Init
         /\ service = "agent" => A!Init
         /\ service = "link" => L!Init
         /\ service = "ocr" => R!Init
         /\ service = "settings" => S!Init
         /\ service = "reports" => B!Init
         /\ service = "assets" => M!Init
         /\ service = "documents" => D!Init
         /\ service = "archive" => P!Init
         /\ service = "forms" => F!Init
         /\ service = "models" => C!Init
         /\ service = "sessions" => N!Init
         /\ service = "weather" => W!Init
BY DEF Init

-----------------------------------------------------------------------------
(* Deployment operations reach Composer one at a time and in order, each   *)
(* keeps the answer to itself, a repair is one a check has shown, and what *)
(* was admitted is not reported as rejected.                               *)
THEOREM OperationsAreServed == Spec => []OperationsAreServedOnce
<1>1. Operations!OpsConstants
  BY ServicesAssumption DEF Operations!OpsConstants
<1>2. Operations!AgentConstants
  BY ServicesAssumption DEF Operations!AgentConstants, Operations!A!Ids
<1>3. Operations!Spec => []Operations!OpsRunsAreServedInOrder
  BY <1>1, Operations!OpsRunsAreServed
<1>4. Operations!A!Spec => []Operations!A!AdmittedIsNotRejected
  BY <1>2, Operations!AdmittedStays
<1>5. [Next]_vars /\ service = "ops" => (service = "ops")' /\ [O!Next]_O!ops
  BY OneServiceMoves
<1>6. [Next]_vars /\ ~(service = "ops") => ~(service = "ops")'
  BY OneServiceMoves
<1>7. [Next]_vars /\ service = "agent" => (service = "agent")' /\ [A!Next]_A!agent
  BY OneServiceMoves
<1>8. [Next]_vars /\ ~(service = "agent") => ~(service = "agent")'
  BY OneServiceMoves
<1>9. Init => (service = "ops" => O!Init) /\ (service = "agent" => A!Init)
  BY OneServiceStarts
<1>10. OperationsAreServedOnce <=> /\ service = "ops" => O!OpsRunsAreServedInOrder
                                   /\ service = "agent" => A!AdmittedIsNotRejected
  BY DEF OperationsAreServedOnce
<1>11. QED
  BY <1>3, <1>4, <1>5, <1>6, <1>7, <1>8, <1>9, <1>10, OpsAlike, AgentAlike, PTL
     DEF Spec, Operations!Spec, Operations!A!Spec

(* A row of read text is of its own file, and one worker reads it.         *)
THEOREM ReadingsAreApart == Spec => []ReadingsStayApart
<1>1. Files!QueueConstants
  BY ServicesAssumption DEF Files!QueueConstants, Files!Nothing
<1>2. Files!Spec => []Files!ReadingsStayApart
  BY <1>1, Files!ReadingsAreApart
<1>3. [Next]_vars /\ service = "ocr" => (service = "ocr")' /\ [R!Next]_R!ocr
  BY OneServiceMoves
<1>4. [Next]_vars /\ ~(service = "ocr") => ~(service = "ocr")'
  BY OneServiceMoves
<1>5. Init => (service = "ocr" => R!Init)
  BY OneServiceStarts
<1>6. ReadingsStayApart <=> (service = "ocr" => R!ReadingsStayApart)
  BY DEF ReadingsStayApart
<1>7. QED
  BY <1>2, <1>3, <1>4, <1>5, <1>6, OcrAlike, PTL DEF Spec, Files!Spec

(* A managed asset that a record points at is there, with its file.        *)
THEOREM ReferencesAreKept == Spec => []ReferencedIsKept
<1>1. [Next]_vars /\ service = "assets" => (service = "assets")' /\ [M!Next]_M!library
  BY OneServiceMoves
<1>2. [Next]_vars /\ ~(service = "assets") => ~(service = "assets")'
  BY OneServiceMoves
<1>3. Init => (service = "assets" => M!Init)
  BY OneServiceStarts
<1>4. ReferencedIsKept <=> (service = "assets" => M!ReferencedIsKept)
  BY DEF ReferencedIsKept
<1>5. QED
  BY <1>1, <1>2, <1>3, <1>4, Files!ReferencesAreKept, AssetsAlike, PTL DEF Spec, Files!M!Spec

(* The last sign-in is the user's only session.                            *)
THEOREM LastSignInIsAlone == Spec => []NewestLoginWins
<1>1. [Next]_vars /\ service = "sessions" => (service = "sessions")' /\ [N!Next]_N!signins
  BY OneServiceMoves
<1>2. [Next]_vars /\ ~(service = "sessions") => ~(service = "sessions")'
  BY OneServiceMoves
<1>3. Init => (service = "sessions" => N!Init)
  BY OneServiceStarts
<1>4. NewestLoginWins <=> (service = "sessions" => N!NewestLoginWins)
  BY DEF NewestLoginWins
<1>5. QED
  BY <1>1, <1>2, <1>3, <1>4, SignIns!LastSignInIsAlone, SignInsAlike, PTL DEF Spec, SignIns!Spec

(* A file a document had is in its history.                                *)
THEOREM FilesHistoryIsKept == Spec => []HistoryIsKept
<1>1. Files!DocumentConstants
  BY ServicesAssumption DEF Files!DocumentConstants
<1>2. Files!D!Spec => [](Files!D!DocumentsTypeOK /\ Files!D!HistoryIsKept)
  BY <1>1, Files!DocumentsAreKept
<1>3. [Next]_vars /\ service = "documents" => (service = "documents")' /\ [D!Next]_D!docfiles
  BY OneServiceMoves
<1>4. [Next]_vars /\ ~(service = "documents") => ~(service = "documents")'
  BY OneServiceMoves
<1>5. Init => (service = "documents" => D!Init)
  BY OneServiceStarts
<1>6. HistoryIsKept <=> (service = "documents" => D!HistoryIsKept)
  BY DEF HistoryIsKept
<1>7. QED
  BY <1>2, <1>3, <1>4, <1>5, <1>6, DocumentsAlike, PTL DEF Spec, Files!D!Spec

(* A completed report backup can be downloaded until newer ones replace    *)
(* it.                                                                     *)
THEOREM ReportsAreThere == Spec => []ReportsAreKept
<1>1. Files!ReportConstants
  BY ServicesAssumption DEF Files!ReportConstants
<1>2. Files!B!Spec => [](Files!B!ReportsTypeOK /\ Files!B!ReportsAreKept)
  BY <1>1, Files!BackupsAreKept
<1>3. [Next]_vars /\ service = "reports" => (service = "reports")' /\ [B!Next]_B!reports
  BY OneServiceMoves
<1>4. [Next]_vars /\ ~(service = "reports") => ~(service = "reports")'
  BY OneServiceMoves
<1>5. Init => (service = "reports" => B!Init)
  BY OneServiceStarts
<1>6. ReportsAreKept <=> (service = "reports" => B!ReportsAreKept)
  BY DEF ReportsAreKept
<1>7. QED
  BY <1>2, <1>3, <1>4, <1>5, <1>6, ReportsAlike, PTL DEF Spec, Files!B!Spec

(* Requests that come one at a time find what they saved in the row and in *)
(* the cache, a revert what an export can restore (neither secret nor the  *)
(* absence of an image), and both forms of a setting say it.               *)
THEOREM SavesAreFound == Spec => []SavesStick
<1>1. SignIns!StoreConstants
  BY ServicesAssumption DEF SignIns!StoreConstants
<1>2. SignIns!S!Spec => [](SignIns!S!StoreTypeOK /\ SignIns!S!SavesStick)
  BY <1>1, SignIns!StoreSavesStick
<1>3. SignIns!F!Init /\ [][SignIns!F!Next]_SignIns!F!forms => [](SignIns!F!FormsTypeOK /\ SignIns!F!FormsAgree)
  BY SignIns!BothFormsAgree
<1>4. [Next]_vars /\ service = "settings" => (service = "settings")' /\ [S!Next]_S!store
  BY OneServiceMoves
<1>5. [Next]_vars /\ ~(service = "settings") => ~(service = "settings")'
  BY OneServiceMoves
<1>6. [Next]_vars /\ service = "forms" => (service = "forms")' /\ [F!Next]_F!forms
  BY OneServiceMoves
<1>7. [Next]_vars /\ ~(service = "forms") => ~(service = "forms")'
  BY OneServiceMoves
<1>8. Init => (service = "settings" => S!Init) /\ (service = "forms" => F!Init)
  BY OneServiceStarts
<1>9. SavesStick <=> /\ service = "settings" => S!SavesStick
                     /\ service = "forms" => F!FormsAgree
  BY DEF SavesStick
<1>10. QED
  BY <1>2, <1>3, <1>4, <1>5, <1>6, <1>7, <1>8, <1>9, SettingsAlike, FormsAlike, PTL
     DEF Spec, SignIns!S!Spec

(* A finished archive is whole, and nothing else opens.                    *)
THEOREM ArchivesOpenWhole == Spec => []ArchivesAreWhole
<1>1. Operations!PipelineConstants
  BY ServicesAssumption DEF Operations!PipelineConstants
<1>2. Operations!P!Init /\ [][Operations!P!Next]_Operations!P!pipeline
        => [](Operations!P!PipelineTypeOK /\ Operations!P!ArchivesAreWhole)
  BY <1>1, Operations!ArchivesAreComplete
<1>3. [Next]_vars /\ service = "archive" => (service = "archive")' /\ [P!Next]_P!pipeline
  BY OneServiceMoves
<1>4. [Next]_vars /\ ~(service = "archive") => ~(service = "archive")'
  BY OneServiceMoves
<1>5. Init => (service = "archive" => P!Init)
  BY OneServiceStarts
<1>6. ArchivesAreWhole <=> (service = "archive" => P!ArchivesAreWhole)
  BY DEF ArchivesAreWhole
<1>7. QED
  BY <1>2, <1>3, <1>4, <1>5, <1>6, ArchiveAlike, PTL DEF Spec

(* A backup covers what its models refer to, in any number of steps, and   *)
(* writes that before them.                                                *)
THEOREM SelectionsAreComplete == Spec => []SelectionIsComplete
<1>1. Operations!SelectionConstants
  BY ServicesAssumption DEF Operations!SelectionConstants
<1>2. Operations!C!Init /\ [][Operations!C!Next]_Operations!C!selection
        => [](Operations!C!SelectionTypeOK /\ Operations!C!SelectionIsComplete)
  BY <1>1, Operations!SelectionCompletes
<1>3. [Next]_vars /\ service = "models" => (service = "models")' /\ [C!Next]_C!selection
  BY OneServiceMoves
<1>4. [Next]_vars /\ ~(service = "models") => ~(service = "models")'
  BY OneServiceMoves
<1>5. Init => (service = "models" => C!Init)
  BY OneServiceStarts
<1>6. SelectionIsComplete <=> (service = "models" => C!SelectionIsComplete)
  BY DEF SelectionIsComplete
<1>7. QED
  BY <1>2, <1>3, <1>4, <1>5, <1>6, SelectionAlike, PTL DEF Spec

-----------------------------------------------------------------------------
(* The types, service by service.                                          *)

LEMMA OpsTyped == Init /\ [][Next]_vars => [](service = "ops" => O!OpsTypeOK)
<1>1. Operations!OpsConstants
  BY ServicesAssumption DEF Operations!OpsConstants
<1>2. Operations!Init => Operations!OpsTypeOK
  BY <1>1, Operations!InitTypes
<1>3. Operations!OpsTypeOK /\ [Operations!Next]_Operations!ops => Operations!OpsTypeOK'
  BY <1>1, Operations!NextTypes
<1>4. [Next]_vars /\ service = "ops" => (service = "ops")' /\ [O!Next]_O!ops
  BY OneServiceMoves
<1>5. [Next]_vars /\ ~(service = "ops") => ~(service = "ops")'
  BY OneServiceMoves
<1>6. Init => (service = "ops" => O!Init)
  BY OneServiceStarts
<1>7. QED
  BY <1>2, <1>3, <1>4, <1>5, <1>6, OpsAlike, PTL

LEMMA AgentTyped == Init /\ [][Next]_vars => [](service = "agent" => A!RequestsTypeOK)
<1>1. Operations!AgentConstants
  BY ServicesAssumption DEF Operations!AgentConstants, Operations!A!Ids
<1>2. Operations!A!Init => Operations!A!RequestsTypeOK
  BY <1>1, Operations!AgentInit
<1>3. Operations!A!RequestsTypeOK /\ [Operations!A!Next]_Operations!A!agent => Operations!A!RequestsTypeOK'
  BY <1>1, Operations!AgentTypes
<1>4. [Next]_vars /\ service = "agent" => (service = "agent")' /\ [A!Next]_A!agent
  BY OneServiceMoves
<1>5. [Next]_vars /\ ~(service = "agent") => ~(service = "agent")'
  BY OneServiceMoves
<1>6. Init => (service = "agent" => A!Init)
  BY OneServiceStarts
<1>7. QED
  BY <1>2, <1>3, <1>4, <1>5, <1>6, AgentAlike, PTL

LEMMA LinkTyped == Init /\ [][Next]_vars => [](service = "link" => L!LinkTypeOK)
<1>1. Operations!LinkConstants
  BY ServicesAssumption DEF Operations!LinkConstants
<1>2. Operations!L!Spec => []Operations!L!LinkTypeOK
  BY <1>1, Operations!LinkIsTyped
<1>3. [Next]_vars /\ service = "link" => (service = "link")' /\ [L!Next]_L!link
  BY OneServiceMoves
<1>4. [Next]_vars /\ ~(service = "link") => ~(service = "link")'
  BY OneServiceMoves
<1>5. Init => (service = "link" => L!Init)
  BY OneServiceStarts
<1>6. QED
  BY <1>2, <1>3, <1>4, <1>5, LinkAlike, PTL DEF Operations!L!Spec

LEMMA OcrTyped == Init /\ [][Next]_vars => [](service = "ocr" => R!OcrTypeOK)
<1>1. Files!QueueConstants
  BY ServicesAssumption DEF Files!QueueConstants, Files!Nothing
<1>2. Files!Spec => []Files!OcrTypeOK
  BY <1>1, Files!TypeCorrect
<1>3. [Next]_vars /\ service = "ocr" => (service = "ocr")' /\ [R!Next]_R!ocr
  BY OneServiceMoves
<1>4. [Next]_vars /\ ~(service = "ocr") => ~(service = "ocr")'
  BY OneServiceMoves
<1>5. Init => (service = "ocr" => R!Init)
  BY OneServiceStarts
<1>6. QED
  BY <1>2, <1>3, <1>4, <1>5, OcrAlike, PTL DEF Files!Spec

LEMMA SettingsTyped == Init /\ [][Next]_vars => [](service = "settings" => S!StoreTypeOK)
<1>1. SignIns!StoreConstants
  BY ServicesAssumption DEF SignIns!StoreConstants
<1>2. SignIns!S!Spec => [](SignIns!S!StoreTypeOK /\ SignIns!S!SavesStick)
  BY <1>1, SignIns!StoreSavesStick
<1>3. [Next]_vars /\ service = "settings" => (service = "settings")' /\ [S!Next]_S!store
  BY OneServiceMoves
<1>4. [Next]_vars /\ ~(service = "settings") => ~(service = "settings")'
  BY OneServiceMoves
<1>5. Init => (service = "settings" => S!Init)
  BY OneServiceStarts
<1>6. QED
  BY <1>2, <1>3, <1>4, <1>5, SettingsAlike, PTL DEF SignIns!S!Spec

LEMMA ReportsTyped == Init /\ [][Next]_vars => [](service = "reports" => B!ReportsTypeOK)
<1>1. Files!ReportConstants
  BY ServicesAssumption DEF Files!ReportConstants
<1>2. Files!B!Spec => [](Files!B!ReportsTypeOK /\ Files!B!ReportsAreKept)
  BY <1>1, Files!BackupsAreKept
<1>3. [Next]_vars /\ service = "reports" => (service = "reports")' /\ [B!Next]_B!reports
  BY OneServiceMoves
<1>4. [Next]_vars /\ ~(service = "reports") => ~(service = "reports")'
  BY OneServiceMoves
<1>5. Init => (service = "reports" => B!Init)
  BY OneServiceStarts
<1>6. QED
  BY <1>2, <1>3, <1>4, <1>5, ReportsAlike, PTL DEF Files!B!Spec

LEMMA AssetsTyped == Init /\ [][Next]_vars => [](service = "assets" => M!AssetsTypeOK)
<1>1. Files!M!Spec => []Files!M!AssetsTypeOK
  BY Files!LibraryTypeCorrect
<1>2. [Next]_vars /\ service = "assets" => (service = "assets")' /\ [M!Next]_M!library
  BY OneServiceMoves
<1>3. [Next]_vars /\ ~(service = "assets") => ~(service = "assets")'
  BY OneServiceMoves
<1>4. Init => (service = "assets" => M!Init)
  BY OneServiceStarts
<1>5. QED
  BY <1>1, <1>2, <1>3, <1>4, AssetsAlike, PTL DEF Files!M!Spec

LEMMA DocumentsTyped == Init /\ [][Next]_vars => [](service = "documents" => D!DocumentsTypeOK)
<1>1. Files!DocumentConstants
  BY ServicesAssumption DEF Files!DocumentConstants
<1>2. Files!D!Spec => [](Files!D!DocumentsTypeOK /\ Files!D!HistoryIsKept)
  BY <1>1, Files!DocumentsAreKept
<1>3. [Next]_vars /\ service = "documents" => (service = "documents")' /\ [D!Next]_D!docfiles
  BY OneServiceMoves
<1>4. [Next]_vars /\ ~(service = "documents") => ~(service = "documents")'
  BY OneServiceMoves
<1>5. Init => (service = "documents" => D!Init)
  BY OneServiceStarts
<1>6. QED
  BY <1>2, <1>3, <1>4, <1>5, DocumentsAlike, PTL DEF Files!D!Spec

LEMMA ArchiveTyped == Init /\ [][Next]_vars => [](service = "archive" => P!PipelineTypeOK)
<1>1. Operations!PipelineConstants
  BY ServicesAssumption DEF Operations!PipelineConstants
<1>2. Operations!P!Init /\ [][Operations!P!Next]_Operations!P!pipeline
        => [](Operations!P!PipelineTypeOK /\ Operations!P!ArchivesAreWhole)
  BY <1>1, Operations!ArchivesAreComplete
<1>3. [Next]_vars /\ service = "archive" => (service = "archive")' /\ [P!Next]_P!pipeline
  BY OneServiceMoves
<1>4. [Next]_vars /\ ~(service = "archive") => ~(service = "archive")'
  BY OneServiceMoves
<1>5. Init => (service = "archive" => P!Init)
  BY OneServiceStarts
<1>6. QED
  BY <1>2, <1>3, <1>4, <1>5, ArchiveAlike, PTL

LEMMA FormsTyped == Init /\ [][Next]_vars => [](service = "forms" => F!FormsTypeOK)
<1>1. SignIns!F!Init /\ [][SignIns!F!Next]_SignIns!F!forms
        => [](SignIns!F!FormsTypeOK /\ SignIns!F!FormsAgree)
  BY SignIns!BothFormsAgree
<1>2. [Next]_vars /\ service = "forms" => (service = "forms")' /\ [F!Next]_F!forms
  BY OneServiceMoves
<1>3. [Next]_vars /\ ~(service = "forms") => ~(service = "forms")'
  BY OneServiceMoves
<1>4. Init => (service = "forms" => F!Init)
  BY OneServiceStarts
<1>5. QED
  BY <1>1, <1>2, <1>3, <1>4, FormsAlike, PTL

LEMMA SelectionTyped == Init /\ [][Next]_vars => [](service = "models" => C!SelectionTypeOK)
<1>1. Operations!SelectionConstants
  BY ServicesAssumption DEF Operations!SelectionConstants
<1>2. Operations!C!Init /\ [][Operations!C!Next]_Operations!C!selection
        => [](Operations!C!SelectionTypeOK /\ Operations!C!SelectionIsComplete)
  BY <1>1, Operations!SelectionCompletes
<1>3. [Next]_vars /\ service = "models" => (service = "models")' /\ [C!Next]_C!selection
  BY OneServiceMoves
<1>4. [Next]_vars /\ ~(service = "models") => ~(service = "models")'
  BY OneServiceMoves
<1>5. Init => (service = "models" => C!Init)
  BY OneServiceStarts
<1>6. QED
  BY <1>2, <1>3, <1>4, <1>5, SelectionAlike, PTL

LEMMA SignInsTyped == Init /\ [][Next]_vars => [](service = "sessions" => N!SessionsTypeOK)
<1>1. SignIns!Spec => []SignIns!SessionsTypeOK
  BY SignIns!TypeCorrect
<1>2. [Next]_vars /\ service = "sessions" => (service = "sessions")' /\ [N!Next]_N!signins
  BY OneServiceMoves
<1>3. [Next]_vars /\ ~(service = "sessions") => ~(service = "sessions")'
  BY OneServiceMoves
<1>4. Init => (service = "sessions" => N!Init)
  BY OneServiceStarts
<1>5. QED
  BY <1>1, <1>2, <1>3, <1>4, SignInsAlike, PTL DEF SignIns!Spec

LEMMA WeatherTyped == Init /\ [][Next]_vars => [](service = "weather" => W!WeatherTypeOK)
<1>1. Operations!WeatherConstants
  BY ServicesAssumption DEF Operations!WeatherConstants
<1>2. Operations!W!Init /\ [][Operations!W!Next]_Operations!W!weather
        => []Operations!W!WeatherTypeOK
  BY <1>1, Operations!WeatherIsTyped
<1>3. [Next]_vars /\ service = "weather" => (service = "weather")' /\ [W!Next]_W!weather
  BY OneServiceMoves
<1>4. [Next]_vars /\ ~(service = "weather") => ~(service = "weather")'
  BY OneServiceMoves
<1>5. Init => (service = "weather" => W!Init)
  BY OneServiceStarts
<1>6. QED
  BY <1>2, <1>3, <1>4, <1>5, WeatherAlike, PTL

(* The service that moves is one of the thirteen.                          *)
ServiceIsNamed ==
  service \in {"ops", "agent", "link", "ocr", "settings", "reports", "assets", "documents",
               "archive", "forms", "models", "sessions", "weather"}

LEMMA ServiceStaysNamed == Init /\ [][Next]_vars => []ServiceIsNamed
<1>1. Init => ServiceIsNamed
  BY DEF Init, ServiceIsNamed
<1>2. ServiceIsNamed /\ [Next]_vars => ServiceIsNamed'
  BY OneServiceMoves DEF ServiceIsNamed
<1>3. QED
  BY <1>1, <1>2, PTL

(* The types of the services of each module of proofs.                     *)
OperationsTypes ==
  /\ service = "ops" => O!OpsTypeOK
  /\ service = "agent" => A!RequestsTypeOK
  /\ service = "link" => L!LinkTypeOK
  /\ service = "archive" => P!PipelineTypeOK
  /\ service = "models" => C!SelectionTypeOK
  /\ service = "weather" => W!WeatherTypeOK

FilesTypes ==
  /\ service = "ocr" => R!OcrTypeOK
  /\ service = "reports" => B!ReportsTypeOK
  /\ service = "assets" => M!AssetsTypeOK
  /\ service = "documents" => D!DocumentsTypeOK

SignInsTypes ==
  /\ service = "settings" => S!StoreTypeOK
  /\ service = "forms" => F!FormsTypeOK
  /\ service = "sessions" => N!SessionsTypeOK

(* Whatever service moves, its variables have the form its module says.    *)
THEOREM ServicesAreTyped == Spec => []ServicesTypeOK
<1>1. ServiceIsNamed /\ OperationsTypes /\ FilesTypes /\ SignInsTypes => ServicesTypeOK
  BY DEF ServiceIsNamed, OperationsTypes, FilesTypes, SignInsTypes, ServicesTypeOK
<1>2. Init /\ [][Next]_vars => []OperationsTypes
  BY OpsTyped, AgentTyped, LinkTyped, ArchiveTyped, SelectionTyped, WeatherTyped, PTL
     DEF OperationsTypes
<1>3. Init /\ [][Next]_vars => []FilesTypes
  BY OcrTyped, ReportsTyped, AssetsTyped, DocumentsTyped, PTL
     DEF FilesTypes
<1>4. Init /\ [][Next]_vars => []SignInsTypes
  BY SettingsTyped, FormsTyped, SignInsTyped, PTL
     DEF SignInsTypes
<1>5. Init /\ [][Next]_vars => []ServicesTypeOK
  BY <1>1, <1>2, <1>3, <1>4, ServiceStaysNamed, PTL
<1>6. QED
  BY <1>5, PTL DEF Spec
=============================================================================
