---------------------------- MODULE ReportBackups ----------------------------
(***************************************************************************)
(* One user's report backups: the request under the user's lock, the page  *)
(* that fails a row after 24 hours, the worker, its drawer item and the    *)
(* pruning (dlux/views/reports.py, reports/archive.py,                     *)
(* utils/backup_progress.py).                                              *)
(***************************************************************************)
EXTENDS Naturals, FiniteSets

CONSTANTS
  MaxBackups,  \* bound on ReportBackup rows
  Keep         \* completed backups kept

Backups == 1..MaxBackups      \* in the order of created_at
Pages == {"overview", "start"}   \* the request is under the user's lock

VARIABLES
  rows,    \* ReportBackup rows
  files,   \* archives in the storage
  items,   \* the drawer item of each backup
  pages,   \* how far each page is, and the stale rows it has listed
  tasks,   \* build_report_backup messages
  jobs,    \* the worker of each backup, and what it still has to prune
  lost     \* backups whose worker was killed between the row's end and its item's

reports == <<rows, files, items, pages, tasks, jobs, lost>>

Active == {"pending", "running"}
Statuses == {"none", "completed", "failed", "gone"} \cup Active
Row == [status : Statuses, file : BOOLEAN, old : BOOLEAN, ancient : BOOLEAN]
NoRow == [status |-> "none", file |-> FALSE, old |-> FALSE, ancient |-> FALSE]
Stages == {"off", "taken", "building", "stored", "completed", "pruning"}
NoJob == [at |-> "off", doomed |-> {}]
NoPage == [at |-> "off", listed |-> {}]

Init ==
  /\ rows = [b \in Backups |-> NoRow]
  /\ files = {} /\ tasks = {} /\ lost = {}
  /\ items = [b \in Backups |-> "none"]
  /\ pages = [p \in Pages |-> NoPage]
  /\ jobs = [b \in Backups |-> NoJob]

Is(b, status) == rows[b].status = status
At(b, stage) == jobs[b].at = stage
Go(b, stage) == jobs' = [jobs EXCEPT ![b].at = stage]
Mark(b, status) == rows' = [rows EXCEPT ![b].status = status]

-----------------------------------------------------------------------------
(* _report_backup_page_state: list the stale rows ...                      *)
Open(p) ==
  /\ pages[p].at = "off"
  /\ pages' = [pages EXCEPT ![p] = [at |-> "listed",
                 listed |-> {b \in Backups : rows[b].status \in Active /\ rows[b].old}]]
  /\ UNCHANGED <<rows, files, items, tasks, jobs, lost>>

(* ... and fail what was listed, whatever has become of it.                *)
Sweep(p) ==
  LET listed == pages[p].listed
  IN /\ pages[p].at = "listed"
     /\ rows' = [b \in Backups |-> IF b \in listed THEN [rows[b] EXCEPT !.status = "failed"] ELSE rows[b]]
     /\ items' = [b \in Backups |-> IF b \in listed /\ items[b] # "none" THEN "open" ELSE items[b]]
     /\ pages' = [pages EXCEPT ![p] = [at |-> IF p = "start" THEN "swept" ELSE "off", listed |-> {}]]
     /\ UNCHANGED <<files, tasks, jobs, lost>>

NoneActive == \A b \in Backups : rows[b].status \notin Active

Create(b) ==
  /\ pages["start"].at = "swept" /\ NoneActive
  /\ Is(b, "none") /\ \A c \in Backups : c < b => ~Is(c, "none")
  /\ Mark(b, "pending")
  /\ pages' = [pages EXCEPT !["start"] = [at |-> "created", listed |-> {b}]]
  /\ UNCHANGED <<files, items, tasks, jobs, lost>>

Reuse ==
  /\ pages["start"].at = "swept" /\ (~NoneActive \/ ~Is(MaxBackups, "none"))
  /\ pages' = [pages EXCEPT !["start"] = NoPage]
  /\ UNCHANGED <<rows, files, items, tasks, jobs, lost>>

(* dispatch_report_backup, or no worker: the row goes, and the client      *)
(* downloads directly.                                                     *)
Dispatch(b) ==
  /\ pages["start"] = [at |-> "created", listed |-> {b}]
  /\ \/ tasks' = tasks \cup {b} /\ rows' = rows
     \/ tasks' = tasks /\ Mark(b, "gone")
  /\ pages' = [pages EXCEPT !["start"] = NoPage]
  /\ UNCHANGED <<files, items, jobs, lost>>

-----------------------------------------------------------------------------
(* run_report_backup.                                                      *)

Take(b) ==
  /\ b \in tasks /\ tasks' = tasks \ {b}
  /\ IF Is(b, "pending") THEN Go(b, "taken") ELSE jobs' = jobs
  /\ UNCHANGED <<rows, files, items, pages, lost>>

Begin(b) ==
  /\ At(b, "taken") /\ Mark(b, "running")
  /\ items' = [items EXCEPT ![b] = "locked"] /\ Go(b, "building")
  /\ UNCHANGED <<files, pages, tasks, lost>>

(* set_backup_progress locks the item again.                               *)
Progress(b) ==
  /\ At(b, "building") /\ items[b] # "locked" /\ items' = [items EXCEPT ![b] = "locked"]
  /\ UNCHANGED <<rows, files, pages, tasks, jobs, lost>>

Store(b) ==
  /\ At(b, "building") /\ Go(b, "stored") /\ files' = files \cup {b}
  /\ items' = [items EXCEPT ![b] = "locked"]
  /\ UNCHANGED <<rows, pages, tasks, lost>>

Complete(b) ==
  /\ At(b, "stored") /\ Go(b, "completed")
  /\ rows' = [rows EXCEPT ![b].status = "completed", ![b].file = TRUE]
  /\ UNCHANGED <<files, items, pages, tasks, lost>>

(* Mutant: the oldest are kept.                                            *)
Older(b) == {c \in Backups : c < b /\ Is(c, "completed")}

Newer(b) == {c \in Backups : c > b /\ Is(c, "completed")}

(* finish_backup_progress, and what _prune_report_backups lists.           *)
Finish(b) ==
  /\ At(b, "completed")
  /\ items' = [items EXCEPT ![b] = "open"]
  /\ jobs' = [jobs EXCEPT ![b] = [at |-> "pruning", doomed |->
       {c \in Backups : \/ Is(c, "completed") /\ Cardinality(Newer(c)) >= Keep
                        \/ Is(c, "failed") /\ rows[c].ancient}]]
  /\ UNCHANGED <<rows, files, pages, tasks, lost>>

(* The archive goes, then its row.                                         *)
Prune(b, c) ==
  /\ At(b, "pruning") /\ c \in jobs[b].doomed
  /\ IF rows[c].file /\ c \in files
     THEN files' = files \ {c} /\ UNCHANGED <<rows, jobs>>
     ELSE /\ Mark(c, "gone") /\ files' = files
          /\ jobs' = [jobs EXCEPT ![b].doomed = @ \ {c}]
  /\ UNCHANGED <<items, pages, tasks, lost>>

Pruned(b) ==
  /\ At(b, "pruning") /\ jobs[b].doomed = {} /\ Go(b, "off")
  /\ UNCHANGED <<rows, files, items, pages, tasks, lost>>

(* An exception on the way, in the pruning too.                            *)
Fail(b) ==
  /\ jobs[b].at \in {"building", "stored", "completed", "pruning"} /\ ~Is(b, "gone")
  /\ Mark(b, "failed")
  /\ items' = [items EXCEPT ![b] = "open"] /\ jobs' = [jobs EXCEPT ![b] = NoJob]
  /\ UNCHANGED <<files, pages, tasks, lost>>

(* The worker is killed, or its message lost.                              *)
Die(b) ==
  /\ b \in tasks \/ ~At(b, "off")
  /\ tasks' = tasks \ {b} /\ jobs' = [jobs EXCEPT ![b] = NoJob]
  /\ lost' = IF ~At(b, "off") /\ rows[b].status \notin Active /\ items[b] = "locked"
             THEN lost \cup {b} ELSE lost
  /\ UNCHANGED <<rows, files, items, pages>>

(* A row is 24 hours old, or seven days; a build is shorter, a queue may   *)
(* not be.                                                                 *)
Age(b) ==
  /\ At(b, "off")
  /\ \/ rows[b].status \in Active /\ ~rows[b].old /\ rows' = [rows EXCEPT ![b].old = TRUE]
     \/ Is(b, "failed") /\ ~rows[b].ancient /\ rows' = [rows EXCEPT ![b].ancient = TRUE]
  /\ UNCHANGED <<files, items, pages, tasks, jobs, lost>>

Work(b) == \/ Take(b) \/ Begin(b) \/ Store(b) \/ Complete(b) \/ Finish(b) \/ Fail(b)
           \/ Pruned(b) \/ \E c \in Backups : Prune(b, c)
Working == \E b \in Backups : Dispatch(b) \/ Work(b)
Time == \E b \in Backups : Age(b)
Visit == Open("overview") \/ Sweep("overview")
Next ==
  \/ Working \/ Time \/ Visit \/ Open("start") \/ Sweep("start") \/ Reuse
  \/ \E b \in Backups : Create(b) \/ Progress(b) \/ Die(b)

Spec == Init /\ [][Next]_reports

-----------------------------------------------------------------------------
ReportsTypeOK ==
  /\ rows \in [Backups -> Row] /\ items \in [Backups -> {"none", "locked", "open"}]
  /\ {files, tasks, lost} \subseteq SUBSET Backups
  /\ pages \in [Pages -> [at : {"off", "listed", "swept", "created"}, listed : SUBSET Backups]]
  /\ jobs \in [Backups -> [at : Stages, doomed : SUBSET Backups]]

(* Impatient users, pages that fail rows still being built and pruning     *)
(* workers killed half-way: at most one backup of less than a day is under *)
(* way, and one that completed can be downloaded unless Keep newer ones    *)
(* have been made.                                                         *)
ReportsAreKept ==
  /\ \A b, c \in Backups :
       rows[b].status \in Active /\ rows[c].status \in Active /\ ~rows[b].old /\ ~rows[c].old => b = c
  /\ \A b \in Backups :
       Is(b, "completed") => b \in files \/ Cardinality({c \in Backups : c > b /\ rows[c].file}) >= Keep

(* While the user comes back, every backup ends, and its drawer item can   *)
(* be dismissed, unless the row had ended and its item not yet when the    *)
(* worker was killed.                                                      *)
NoneHangs ==
  \A b \in Backups : rows[b].status \notin Active /\ (items[b] = "locked" => b \in lost)
=============================================================================
