------------------------------- MODULE OcrQueue -------------------------------
(***************************************************************************)
(* Reading one document's file by OCR: the FileText rows, by content, the  *)
(* saves, requests and scans that schedule a reading, the Celery messages  *)
(* and the workers (dlux/ocr/service.py, background.py, views.py,          *)
(* tasks.ocr_file).                                                        *)
(*                                                                         *)
(* OCR stays on.  A file's name is the number of its upload.               *)
(***************************************************************************)
EXTENDS Naturals

CONSTANTS
  Contents,    \* what a file may hold; its SHA-256
  MaxWorkers,  \* how many Celery workers there are
  MaxUploads,  \* bound on saves of the document
  MaxRetries,  \* the task's max_retries
  MaxEvents    \* bound on Run OCR requests, messages lost and workers killed

Nothing == 0           \* no file
Workers == 1..MaxWorkers     \* the first one that is free takes a message

Uploads == 1..MaxUploads
Manual == MaxUploads + 1     \* the Run OCR request
Scan == MaxUploads + 2       \* background.tick, which holds its cache lock
Schedulers == Uploads \cup {Manual, Scan}

VARIABLES
  auto,      \* whether the model is among automatic_models
  name, content,   \* the document's file
  jobs,      \* per scheduler: how far it is, and what it has loaded
  rows,      \* FileText rows, by content
  tasks,     \* ocr_file messages
  workers,   \* what each worker is reading
  asks,      \* Run OCR requests so far
  losses     \* messages lost or late and workers killed so far

ocr == <<auto, name, content, jobs, rows, tasks, workers, asks, losses>>

Held == Contents \cup {Nothing}
Active == {"pending", "running"}
Ended == {"done", "failed", "skipped"}
Sources == {"auto", "manual"}
Row == [status : {"none"} \cup Active \cup Ended, current : BOOLEAN, stale : BOOLEAN,
        source : Sources, text : Held]
NoRow == [status |-> "none", current |-> FALSE, stale |-> FALSE, source |-> "auto",
          text |-> Nothing]
Job == [at : {"off", "due", "loaded"}, name : 0..MaxUploads, content : Held]
NoJob == [at |-> "off", name |-> 0, content |-> Nothing]
Work == [at : {"idle", "reading", "unavailable"}, row : Held, content : Held,
         retries : 0..MaxRetries]
AtRest == [at |-> "idle", row |-> Nothing, content |-> Nothing, retries |-> 0]

Init ==
  /\ auto \in BOOLEAN
  /\ name = 0 /\ content = Nothing
  /\ jobs = [s \in Schedulers |-> NoJob]
  /\ rows = [c \in Contents |-> NoRow]
  /\ tasks = {}
  /\ workers = [w \in Workers |-> AtRest]
  /\ asks = 0 /\ losses = 0

More == asks + losses < MaxEvents

-----------------------------------------------------------------------------
(* The document is saved with another file, or none.                       *)
Save(c) ==
  /\ name < MaxUploads /\ c # content
  /\ name' = name + 1 /\ content' = c
  /\ jobs' = [jobs EXCEPT ![name + 1].at = "due"]
  /\ UNCHANGED <<auto, rows, tasks, workers, asks, losses>>

Ask ==
  /\ jobs[Manual].at = "off" /\ content # Nothing
  /\ More /\ asks' = asks + 1
  /\ jobs' = [jobs EXCEPT ![Manual].at = "due"]
  /\ UNCHANGED <<auto, name, content, rows, tasks, workers, losses>>

(* The scan takes a document whose file has no finished, current row.      *)
Unfinished == ~ \E c \in Contents : rows[c].current /\ rows[c].status \in Ended
StartScan ==
  /\ auto /\ jobs[Scan].at = "off" /\ content # Nothing /\ Unfinished
  /\ jobs' = [jobs EXCEPT ![Scan].at = "due"]
  /\ UNCHANGED <<auto, name, content, rows, tasks, workers, asks, losses>>

(* document_saved after the commit, or schedule: the document is loaded    *)
(* and its file hashed.                                                    *)
Load(s) ==
  /\ jobs[s].at = "due"
  /\ jobs' = [jobs EXCEPT ![s] = [at |-> "loaded", name |-> name, content |-> content]]
  /\ UNCHANGED <<auto, name, content, rows, tasks, workers, asks, losses>>

-----------------------------------------------------------------------------
(* schedule's transaction, under the document's lock.                      *)

(* Mutant: the file loaded before is trusted.                              *)
LoadedStands(s) == TRUE

StillNamed(s) == jobs[s].name = name

Busy(row) == row.status \in Active /\ ~row.stale
ToQueue(row, s) ==
  \/ row.status = "none"
  \/ s = Manual /\ ~Busy(row)
  \/ row.status \in Active /\ row.stale
  \/ s = Manual /\ row.status = "pending" /\ row.source # "manual" /\ ~auto

Scheduled(row, s) ==
  IF ToQueue(row, s)
  THEN [row EXCEPT !.status = "pending", !.current = TRUE, !.stale = FALSE,
          !.source = IF s = Manual THEN "manual" ELSE "auto"]
  ELSE [row EXCEPT !.current = TRUE]

Superseded(row) == [row EXCEPT !.current = FALSE]

(* The message is sent after the commit; a message that is not sent is     *)
(* lost (Lose).                                                            *)
Schedule(s) ==
  LET c == jobs[s].content
  IN /\ jobs[s].at = "loaded" /\ (auto \/ s = Manual)
     /\ IF c = Nothing
        THEN rows' = [d \in Contents |-> Superseded(rows[d])] /\ tasks' = tasks
        ELSE IF ~StillNamed(s) THEN UNCHANGED <<rows, tasks>>
        ELSE /\ rows' = [d \in Contents |->
                  IF d = c THEN Scheduled(rows[d], s) ELSE Superseded(rows[d])]
             /\ tasks' = IF ToQueue(rows[c], s)
                         THEN tasks \cup {[row |-> c, retries |-> 0]} ELSE tasks
     /\ jobs' = [jobs EXCEPT ![s] = NoJob]
     /\ UNCHANGED <<auto, name, content, workers, asks, losses>>

(* invalidate_changed_file, for a model whose files are not read on save.  *)
Invalidate(s) ==
  /\ jobs[s].at = "loaded" /\ ~auto /\ s \in Uploads
  /\ rows' = [d \in Contents |->
       IF d = jobs[s].content THEN rows[d] ELSE Superseded(rows[d])]
  /\ jobs' = [jobs EXCEPT ![s] = NoJob]
  /\ UNCHANGED <<auto, name, content, tasks, workers, asks, losses>>

-----------------------------------------------------------------------------
(* run(), in a worker.                                                     *)

Taken(row) == row.status = "done" \/ (row.status = "running" /\ ~row.stale)

Others == UNCHANGED <<auto, name, content, jobs, asks, losses>>

Claim(w, task) ==
  LET row == rows[task.row]
  IN /\ workers[w] = AtRest /\ \A v \in Workers : v < w => workers[v] # AtRest
     /\ tasks' = tasks \ {task}
     /\ IF Taken(row) THEN UNCHANGED <<rows, workers>>
        ELSE IF content = Nothing \/ (row.source # "manual" /\ ~auto)
        THEN rows' = [rows EXCEPT ![task.row].status = "skipped"] /\ UNCHANGED workers
        ELSE /\ rows' = [rows EXCEPT ![task.row].status = "running", ![task.row].stale = FALSE]
             /\ workers' = [workers EXCEPT ![w] =
                  [at |-> "reading", row |-> task.row, content |-> content,
                   retries |-> task.retries]]
     /\ Others

(* Mutant: what was read is not compared with the row's SHA-256.           *)
ReadAnything(work) == TRUE

SameFile(work) == work.content = work.row

(* The file is the one the document held at the claim.  If it is not the  *)
(* row's the row is skipped; else the service answers or refuses it, ...   *)
Conclude(w) ==
  LET work == workers[w]
      Ends(status) == rows' = [rows EXCEPT ![work.row].status = status]
  IN /\ work.at = "reading"
     /\ IF ~SameFile(work) THEN Ends("skipped")
        ELSE \/ rows' = [rows EXCEPT ![work.row].status = "done", ![work.row].text = work.content]
             \/ Ends("failed")
     /\ workers' = [workers EXCEPT ![w] = AtRest]
     /\ UNCHANGED tasks /\ Others

(* ... or is not there, and the row waits again.                           *)
Unavailable(w) ==
  /\ workers[w].at = "reading" /\ SameFile(workers[w])
  /\ rows' = [rows EXCEPT ![workers[w].row].status = "pending"]
  /\ workers' = [workers EXCEPT ![w].at = "unavailable"]
  /\ UNCHANGED tasks /\ Others

(* The file has been removed: the task raises, the row stays running.      *)
ReadFails(w) ==
  /\ workers[w].at = "reading" /\ workers[w].content # content
  /\ workers' = [workers EXCEPT ![w] = AtRest]
  /\ UNCHANGED <<rows, tasks>> /\ Others

(* Mutant: one try more than max_retries.                                  *)
OneMoreTry(work) == work.retries <= MaxRetries

TriesLeft(work) == work.retries < MaxRetries

(* The task sends itself again, or gives up.                               *)
Retry(w) ==
  LET work == workers[w]
  IN /\ work.at = "unavailable"
     /\ IF TriesLeft(work)
        THEN tasks' = tasks \cup {[row |-> work.row, retries |-> work.retries + 1]} /\ rows' = rows
        ELSE /\ rows' = [rows EXCEPT ![work.row].status = IF @ = "done" THEN @ ELSE "failed"]
             /\ tasks' = tasks
     /\ workers' = [workers EXCEPT ![w] = AtRest]
     /\ Others

-----------------------------------------------------------------------------
(* Time and faults.  An attempt is shorter than the grace, so that a       *)
(* running row is stale only when nobody reads it; a waiting one, when its *)
(* message was lost, or waits behind others (counted as a loss).           *)
BecomeStale(c) ==
  LET waits == \E task \in tasks : task.row = c
  IN /\ rows[c].status \in Active /\ ~rows[c].stale
     /\ \A w \in Workers : workers[w].row # c
     /\ rows[c].status = "pending" /\ waits => More
     /\ losses' = IF rows[c].status = "pending" /\ waits THEN losses + 1 ELSE losses
     /\ rows' = [rows EXCEPT ![c].stale = TRUE]
     /\ UNCHANGED <<auto, name, content, jobs, tasks, workers, asks>>

Lose(task) ==
  /\ More /\ losses' = losses + 1
  /\ tasks' = tasks \ {task}
  /\ UNCHANGED <<auto, name, content, jobs, rows, workers, asks>>

(* A worker is killed; its message is delivered again (acks_late).         *)
Crash(w) ==
  /\ workers[w] # AtRest /\ More /\ losses' = losses + 1
  /\ tasks' = tasks \cup {[row |-> workers[w].row, retries |-> workers[w].retries]}
  /\ workers' = [workers EXCEPT ![w] = AtRest]
  /\ UNCHANGED <<auto, name, content, jobs, rows, asks>>

-----------------------------------------------------------------------------
Run(w) == Conclude(w) \/ Unavailable(w) \/ ReadFails(w) \/ Retry(w)
          \/ \E task \in tasks : Claim(w, task)
Proceed(s) == Load(s) \/ Schedule(s) \/ Invalidate(s)
Requested == \E s \in Uploads \cup {Manual} : Proceed(s)
Scanning == StartScan \/ Proceed(Scan)
Reading == \E w \in Workers : Run(w)
Time == \E c \in Contents : BecomeStale(c)
Next ==
  \/ \E c \in Held : Save(c)
  \/ Ask \/ Requested \/ Scanning \/ Reading \/ Time
  \/ \E w \in Workers : Crash(w)
  \/ \E task \in tasks : Lose(task)

Spec == Init /\ [][Next]_ocr

-----------------------------------------------------------------------------
OcrTypeOK ==
  /\ auto \in BOOLEAN /\ name \in 0..MaxUploads /\ content \in Held
  /\ jobs \in [Schedulers -> Job] /\ rows \in [Contents -> Row]
  /\ tasks \subseteq [row : Contents, retries : 0..MaxRetries]
  /\ workers \in [Workers -> Work]

Reads(w, c) == workers[w].at = "reading" /\ workers[w].row = c

(* Lost and repeated messages, replaced files and killed workers included: *)
(* a row holds the text of its own file, one row is the document's, and    *)
(* until someone asks for a reading, or messages go astray a second time,  *)
(* no two workers read one row.  (A worker that gives a row up fails it    *)
(* while another reads it: what then comes for the row, from Run OCR or a  *)
(* third message, is read beside that one.)                                *)
ReadingsStayApart ==
  \A c, d \in Contents :
    /\ rows[c].text \in {Nothing, c}
    /\ rows[c].current /\ rows[d].current => c = d
    /\ asks = 0 /\ losses <= 1 =>
         \A v, w \in Workers : Reads(v, c) /\ Reads(w, c) => v = w

(* "is_current marks the row for the file the document holds now" (docs/   *)
(* ocr.md): in the end no other row does, and when files are read on their *)
(* own, that row is there and has been dealt with.                         *)
Settled ==
  /\ \A c \in Contents : rows[c].current => c = content
  /\ auto /\ content # Nothing => rows[content].current /\ rows[content].status \in Ended
=============================================================================
