----------------------------- MODULE FilesProofs -----------------------------
(***************************************************************************)
(* Proofs about the services that look after files: the reading of what is *)
(* uploaded (OcrQueue, whose names stand as they are), the managed assets  *)
(* (AssetLibrary, as M), a document's history (DocumentFiles, as D) and    *)
(* the backups of reports (ReportBackups, as B); for any contents, and any *)
(* number of workers, uploads, assets, documents' saves and backups.       *)
(***************************************************************************)
EXTENDS OcrQueue, Integers, Sequences, FiniteSets, FiniteSetTheorems, TLAPS

(* No file is a content of its own; the bounds are numbers.                *)
QueueConstants ==
  /\ Nothing \notin Contents
  /\ MaxWorkers \in Nat /\ MaxUploads \in Nat /\ MaxRetries \in Nat

-----------------------------------------------------------------------------
(* Types.                                                                  *)

LEMMA SchedulersAre ==
  ASSUME QueueConstants
  PROVE  /\ Uploads \subseteq Nat /\ Manual \notin Uploads /\ Scan \notin Uploads
         /\ Manual # Scan /\ Manual \in Schedulers /\ Scan \in Schedulers
         /\ Uploads \subseteq Schedulers
BY DEF QueueConstants, Uploads, Manual, Scan, Schedulers

LEMMA RestsAre ==
  ASSUME QueueConstants
  PROVE  /\ NoRow \in Row /\ NoJob \in Job /\ NoJob.at = "off" /\ AtRest \in Work
         /\ AtRest.at = "idle" /\ AtRest.row = Nothing
         /\ NoRow.status = "none" /\ NoRow.text = Nothing /\ ~NoRow.current
BY DEF QueueConstants, NoRow, Row, Active, Ended, Sources, Held, NoJob, Job, AtRest, Work

(* What the saves and the transactions write is a row.                     *)
LEMMA RowsAre ==
  ASSUME NEW row \in Row
  PROVE  /\ Superseded(row) \in Row /\ ~Superseded(row).current
         /\ Superseded(row).status = row.status /\ Superseded(row).stale = row.stale
         /\ Superseded(row).text = row.text
BY DEF Row, Superseded

LEMMA ScheduledIs ==
  ASSUME NEW row \in Row, NEW s
  PROVE  /\ Scheduled(row, s) \in Row /\ Scheduled(row, s).text = row.text
         /\ ToQueue(row, s) => Scheduled(row, s).status = "pending" /\ ~Scheduled(row, s).stale
         /\ ~ToQueue(row, s) => /\ Scheduled(row, s).status = row.status
                                /\ Scheduled(row, s).stale = row.stale
<1>1. CASE ToQueue(row, s)
  <2> DEFINE source == IF s = Manual THEN "manual" ELSE "auto"
  <2>1. Scheduled(row, s) = [row EXCEPT !.status = "pending", !.current = TRUE,
                                        !.stale = FALSE, !.source = source]
    BY <1>1 DEF Scheduled
  <2>2. source \in Sources
    BY DEF Sources
  <2> HIDE DEF source
  <2>3. QED
    BY <1>1, <2>1, <2>2 DEF Row, Active
<1>2. CASE ~ToQueue(row, s)
  BY <1>2 DEF Scheduled, Row
<1>3. QED
  BY <1>1, <1>2

(* A row that ends, or waits again.                                        *)
LEMMA StatusIs ==
  ASSUME rows \in [Contents -> Row], NEW c \in Contents,
         NEW status \in Active \cup Ended, rows' = [rows EXCEPT ![c].status = status]
  PROVE  /\ rows' \in [Contents -> Row] /\ rows'[c].status = status
         /\ rows'[c].stale = rows[c].stale /\ rows'[c].text = rows[c].text
         /\ rows'[c].current = rows[c].current
         /\ \A d \in Contents : d # c => rows'[d] = rows[d]
<1>1. rows' = [rows EXCEPT ![c] = [rows[c] EXCEPT !.status = status]] /\ rows[c] \in Row
  OBVIOUS
<1>2. rows'[c] = [rows[c] EXCEPT !.status = status]
  BY <1>1
<1>3. rows'[c] \in Row /\ rows'[c].status = status /\ rows'[c].stale = rows[c].stale
      /\ rows'[c].text = rows[c].text /\ rows'[c].current = rows[c].current
  BY <1>1, <1>2 DEF Row
<1>4. QED
  BY <1>1, <1>3

-----------------------------------------------------------------------------
(* Type correctness, with what the counting below needs of the types: only *)
(* a worker at work has a row, and messages are finitely many.             *)

Typed ==
  /\ OcrTypeOK
  /\ asks \in Nat /\ losses \in Nat /\ IsFiniteSet(tasks)
  /\ \A w \in Workers : IF workers[w].at = "idle" THEN workers[w] = AtRest
                        ELSE workers[w].row \in Contents

Message == [row : Contents, retries : 0..MaxRetries]

LEMMA InitTypes == ASSUME QueueConstants PROVE Init => Typed
<1> SUFFICES ASSUME Init PROVE Typed
  OBVIOUS
<1>1. /\ auto \in BOOLEAN /\ name \in 0..MaxUploads /\ content \in Held
      /\ jobs \in [Schedulers -> Job] /\ rows \in [Contents -> Row]
      /\ tasks = {} /\ workers \in [Workers -> Work]
  BY RestsAre DEF Init, Held, QueueConstants
<1>2. IsFiniteSet(tasks)
  BY <1>1, FS_EmptySet
<1>3. QED
  BY <1>1, <1>2, RestsAre DEF Init, Typed, OcrTypeOK

(* The jobs: a save, a request, a scan, and what they load.                *)
LEMMA JobTypes ==
  ASSUME QueueConstants, Typed,
         \/ (\E c \in Held : Save(c)) \/ Ask \/ StartScan
         \/ (\E s \in Schedulers : Load(s))
  PROVE  Typed'
<1>1. /\ name \in 0..MaxUploads /\ content \in Held /\ jobs \in [Schedulers -> Job]
      /\ name \in Nat /\ asks \in Nat
  BY DEF Typed, OcrTypeOK
<1>2. \A s \in Schedulers : [jobs[s] EXCEPT !.at = "due"] \in Job
  BY <1>1 DEF Job
<1>3. [at |-> "loaded", name |-> name, content |-> content] \in Job
  BY <1>1 DEF Job
<1>4. /\ jobs' \in [Schedulers -> Job] /\ name' \in 0..MaxUploads /\ content' \in Held
      /\ asks' \in Nat
      /\ UNCHANGED <<auto, rows, tasks, workers, losses>>
  <2>1. ASSUME NEW c \in Held, Save(c)
        PROVE  /\ jobs' \in [Schedulers -> Job] /\ name' \in 0..MaxUploads /\ content' \in Held
               /\ asks' \in Nat /\ UNCHANGED <<auto, rows, tasks, workers, losses>>
    <3>1. name + 1 \in Uploads /\ name + 1 \in 0..MaxUploads
      BY <1>1, <2>1 DEF Save, Uploads, QueueConstants
    <3>2. name + 1 \in Schedulers
      BY <3>1, SchedulersAre
    <3>3. jobs' = [jobs EXCEPT ![name + 1] = [jobs[name + 1] EXCEPT !.at = "due"]]
      BY <2>1 DEF Save
    <3>4. QED
      BY <1>1, <1>2, <2>1, <3>1, <3>2, <3>3 DEF Save
  <2>2. CASE Ask
    <3>1. jobs' = [jobs EXCEPT ![Manual] = [jobs[Manual] EXCEPT !.at = "due"]]
      BY <2>2 DEF Ask
    <3>2. QED
      BY <1>1, <1>2, <2>2, <3>1, SchedulersAre DEF Ask
  <2>3. CASE StartScan
    <3>1. jobs' = [jobs EXCEPT ![Scan] = [jobs[Scan] EXCEPT !.at = "due"]]
      BY <2>3 DEF StartScan
    <3>2. QED
      BY <1>1, <1>2, <2>3, <3>1, SchedulersAre DEF StartScan
  <2>4. ASSUME NEW s \in Schedulers, Load(s)
        PROVE  /\ jobs' \in [Schedulers -> Job] /\ name' \in 0..MaxUploads /\ content' \in Held
               /\ asks' \in Nat /\ UNCHANGED <<auto, rows, tasks, workers, losses>>
    BY <1>1, <1>3, <2>4 DEF Load
  <2>5. QED
    BY <2>1, <2>2, <2>3, <2>4
<1>5. QED
  BY <1>4 DEF Typed, OcrTypeOK

LEMMA MessagesAre ==
  ASSUME Typed, NEW task \in Message, tasks' \in {tasks, tasks \cup {task}, tasks \ {task}}
  PROVE  tasks' \subseteq Message /\ IsFiniteSet(tasks')
<1>1. tasks \subseteq Message /\ IsFiniteSet(tasks)
  BY DEF Typed, OcrTypeOK, Message
<1>2. QED
  BY <1>1, FS_AddElement, FS_RemoveElement

LEMMA ScheduleTypes ==
  ASSUME QueueConstants, Typed, NEW s \in Schedulers, Schedule(s) \/ Invalidate(s)
  PROVE  Typed'
<1>1. /\ jobs \in [Schedulers -> Job] /\ rows \in [Contents -> Row] /\ tasks \subseteq Message
      /\ jobs[s].content \in Held /\ IsFiniteSet(tasks)
  BY DEF Typed, OcrTypeOK, Job, Message
<1>2. jobs' \in [Schedulers -> Job]
  <2>1. jobs' = [jobs EXCEPT ![s] = NoJob]
    BY DEF Schedule, Invalidate
  <2>2. QED
    BY <1>1, <2>1, RestsAre
<1>3. \A d \in Contents : Superseded(rows[d]) \in Row /\ Scheduled(rows[d], s) \in Row
  BY <1>1, RowsAre, ScheduledIs
<1>4. rows' \in [Contents -> Row]
  BY <1>1, <1>3 DEF Schedule, Invalidate
<1>5. tasks' \subseteq Message /\ IsFiniteSet(tasks')
  <2>1. tasks' = tasks \/ tasks' = tasks \cup {[row |-> jobs[s].content, retries |-> 0]}
    BY DEF Schedule, Invalidate
  <2>2. CASE tasks' = tasks
    BY <1>1, <2>2
  <2>3. CASE tasks' # tasks
    <3>1. jobs[s].content # Nothing
      BY <2>3 DEF Schedule, Invalidate
    <3>2. [row |-> jobs[s].content, retries |-> 0] \in Message
      BY <1>1, <3>1 DEF Held, Message, QueueConstants
    <3>3. QED
      BY <2>1, <2>3, <3>2, MessagesAre
  <2>4. QED
    BY <2>2, <2>3
<1>6. UNCHANGED <<auto, name, content, workers, asks, losses>>
  BY DEF Schedule, Invalidate
<1>7. QED
  BY <1>2, <1>4, <1>5, <1>6 DEF Typed, OcrTypeOK, Message

(* What a worker does leaves the rest of the types alone.                  *)
LEMMA WorkTypes ==
  ASSUME QueueConstants, Typed, NEW w \in Workers, NEW work \in Work,
         IF work.at = "idle" THEN work = AtRest ELSE work.row \in Contents,
         workers' = [workers EXCEPT ![w] = work],
         tasks' \subseteq Message, IsFiniteSet(tasks'),
         rows' \in [Contents -> Row], losses' \in Nat,
         UNCHANGED <<auto, name, content, jobs, asks>>
  PROVE  Typed'
<1>1. workers \in [Workers -> Work]
  BY DEF Typed, OcrTypeOK
<1>2. /\ workers' \in [Workers -> Work]
      /\ \A v \in Workers : IF workers'[v].at = "idle" THEN workers'[v] = AtRest
                            ELSE workers'[v].row \in Contents
  BY <1>1 DEF Typed
<1>3. QED
  BY <1>2 DEF Typed, OcrTypeOK, Message

(* What a claim does: the message is stale, or its row is skipped, or the  *)
(* worker reads it.                                                        *)
LEMMA ClaimIs ==
  ASSUME QueueConstants, Typed, NEW w \in Workers, NEW task \in tasks, Claim(w, task)
  PROVE  /\ task \in Message /\ workers[w] = AtRest /\ tasks' = tasks \ {task}
         /\ UNCHANGED <<auto, name, content, jobs, asks, losses>>
         /\ rows' \in [Contents -> Row]
         /\ \A d \in Contents : d # task.row => rows'[d] = rows[d]
         /\ rows'[task.row].text = rows[task.row].text
         /\ rows'[task.row].current = rows[task.row].current
         /\ \/ Taken(rows[task.row]) /\ UNCHANGED <<rows, workers>>
            \/ /\ ~Taken(rows[task.row]) /\ rows'[task.row].status = "skipped"
               /\ rows'[task.row].stale = rows[task.row].stale
               /\ UNCHANGED workers
            \/ /\ ~Taken(rows[task.row])
               /\ rows'[task.row].status = "running" /\ ~rows'[task.row].stale
               /\ \E work \in Work : /\ work.at = "reading" /\ work.row = task.row
                                     /\ workers' = [workers EXCEPT ![w] = work]
<1>1. /\ task \in Message /\ rows \in [Contents -> Row] /\ content \in Held
      /\ task.row \in Contents /\ task.retries \in 0..MaxRetries /\ rows[task.row] \in Row
  BY DEF Typed, OcrTypeOK, Message
<1>2. /\ workers[w] = AtRest /\ tasks' = tasks \ {task}
      /\ UNCHANGED <<auto, name, content, jobs, asks, losses>>
  BY DEF Claim, Others
<1>3. CASE Taken(rows[task.row])
  <2>1. UNCHANGED <<rows, workers>>
    BY <1>3 DEF Claim
  <2>2. QED
    BY <1>1, <1>2, <1>3, <2>1
<1>4. CASE /\ ~Taken(rows[task.row])
           /\ content = Nothing \/ (rows[task.row].source # "manual" /\ ~auto)
  <2>1. rows' = [rows EXCEPT ![task.row].status = "skipped"] /\ UNCHANGED workers
    BY <1>4 DEF Claim
  <2>2. "skipped" \in Active \cup Ended
    BY DEF Ended
  <2>3. QED
    BY <1>1, <1>2, <1>4, <2>1, <2>2, StatusIs
<1>5. CASE /\ ~Taken(rows[task.row])
           /\ ~(content = Nothing \/ (rows[task.row].source # "manual" /\ ~auto))
  <2> DEFINE work == [at |-> "reading", row |-> task.row, content |-> content,
                      retries |-> task.retries]
             row == [rows[task.row] EXCEPT !.status = "running", !.stale = FALSE]
  <2>1. /\ rows' = [rows EXCEPT ![task.row].status = "running", ![task.row].stale = FALSE]
        /\ workers' = [workers EXCEPT ![w] = work]
    BY <1>5 DEF Claim
  <2>2. work \in Work /\ work.at = "reading" /\ work.row = task.row
    BY <1>1 DEF Work, Held
  <2>3. rows' = [rows EXCEPT ![task.row] = row]
    BY <1>1, <2>1
  <2>4. /\ row \in Row /\ row.status = "running" /\ ~row.stale
        /\ row.text = rows[task.row].text /\ row.current = rows[task.row].current
    BY <1>1 DEF Row, Active
  <2> HIDE DEF work, row
  <2>5. /\ rows' \in [Contents -> Row] /\ rows'[task.row] = row
        /\ \A d \in Contents : d # task.row => rows'[d] = rows[d]
    BY <1>1, <2>3, <2>4
  <2>6. \E any \in Work : /\ any.at = "reading" /\ any.row = task.row
                          /\ workers' = [workers EXCEPT ![w] = any]
    BY <2>1, <2>2
  <2>7. QED
    BY <1>1, <1>2, <1>5, <2>4, <2>5, <2>6
<1>6. QED
  BY <1>3, <1>4, <1>5

LEMMA RestIs ==
  ASSUME QueueConstants, Typed, NEW w \in Workers, workers' = [workers EXCEPT ![w] = AtRest],
         tasks' \subseteq Message, IsFiniteSet(tasks'), rows' \in [Contents -> Row],
         losses' \in Nat, UNCHANGED <<auto, name, content, jobs, asks>>
  PROVE  Typed'
BY RestsAre, WorkTypes

LEMMA WorkerTypes ==
  ASSUME QueueConstants, Typed, NEW w \in Workers, Run(w) \/ Crash(w)
  PROVE  Typed'
<1>1. /\ rows \in [Contents -> Row] /\ workers[w] \in Work /\ tasks \subseteq Message
      /\ IsFiniteSet(tasks) /\ losses \in Nat
      /\ workers[w].at # "idle" => workers[w].row \in Contents
  BY DEF Typed, OcrTypeOK, Message
<1>2. ASSUME NEW task \in tasks, Claim(w, task) PROVE Typed'
  <2>1. /\ task \in Message /\ tasks' = tasks \ {task}
        /\ UNCHANGED <<auto, name, content, jobs, asks, losses>> /\ rows' \in [Contents -> Row]
    BY <1>2, ClaimIs
  <2>2. tasks' \subseteq Message /\ IsFiniteSet(tasks')
    BY <2>1, MessagesAre
  <2>3. CASE UNCHANGED workers
    BY <1>1, <2>1, <2>2, <2>3 DEF Typed, OcrTypeOK, Message
  <2>4. CASE \E work \in Work : /\ work.at = "reading" /\ work.row = task.row
                                /\ workers' = [workers EXCEPT ![w] = work]
    <3>1. PICK work \in Work : /\ work.at = "reading" /\ work.row = task.row
                               /\ workers' = [workers EXCEPT ![w] = work]
      BY <2>4
    <3>2. IF work.at = "idle" THEN work = AtRest ELSE work.row \in Contents
      BY <2>1, <3>1 DEF Message
    <3>3. losses' \in Nat
      BY <1>1, <2>1
    <3>4. QED
      BY <2>1, <2>2, <3>1, <3>2, <3>3, WorkTypes
  <2>5. QED
    BY <1>2, <2>3, <2>4, ClaimIs
<1>3. CASE Conclude(w)
  <2>1. workers[w].at = "reading" /\ workers[w].row \in Contents
    BY <1>1, <1>3 DEF Conclude
  <2>2. \A status \in Ended : [rows EXCEPT ![workers[w].row].status = status] \in [Contents -> Row]
    BY <1>1, <2>1 DEF Row
  <2>3. SameFile(workers[w]) =>
          [rows EXCEPT ![workers[w].row].status = "done",
                       ![workers[w].row].text = workers[w].content] \in [Contents -> Row]
    <3>1. workers[w].content \in Held
      BY <1>1 DEF Work
    <3>2. [rows[workers[w].row] EXCEPT !.status = "done", !.text = workers[w].content] \in Row
      <4>1. rows[workers[w].row] \in Row
        BY <1>1, <2>1
      <4>2. QED
        BY <3>1, <4>1 DEF Row, Ended
    <3>3. [rows EXCEPT ![workers[w].row].status = "done",
                       ![workers[w].row].text = workers[w].content]
            = [rows EXCEPT ![workers[w].row] =
                 [rows[workers[w].row] EXCEPT !.status = "done", !.text = workers[w].content]]
      BY <1>1, <2>1
    <3>4. QED
      BY <1>1, <2>1, <3>2, <3>3
  <2>4. rows' \in [Contents -> Row]
    BY <1>3, <2>2, <2>3 DEF Conclude, Ended
  <2>5. QED
    BY <1>1, <1>3, <2>4, RestIs DEF Conclude, Others
<1>4. CASE Unavailable(w)
  <2> DEFINE work == [workers[w] EXCEPT !.at = "unavailable"]
  <2>1. workers[w].at = "reading" /\ workers[w].row \in Contents
    BY <1>1, <1>4 DEF Unavailable
  <2>2. work \in Work /\ work.at = "unavailable" /\ work.row = workers[w].row
    BY <1>1 DEF Work
  <2>3. rows' \in [Contents -> Row]
    BY <1>1, <1>4, <2>1, StatusIs DEF Unavailable, Active
  <2>4. workers' = [workers EXCEPT ![w] = work]
    BY <1>4 DEF Unavailable
  <2> HIDE DEF work
  <2>5. UNCHANGED <<auto, name, content, jobs, asks, losses, tasks>>
    BY <1>4 DEF Unavailable, Others
  <2>6. QED
    BY <1>1, <2>1, <2>2, <2>3, <2>4, <2>5, WorkTypes
<1>5. CASE ReadFails(w)
  BY <1>1, <1>5, RestIs DEF ReadFails, Others
<1>6. CASE Retry(w)
  <2>1. /\ workers[w].at = "unavailable" /\ workers[w].row \in Contents
        /\ workers[w].retries \in 0..MaxRetries
    BY <1>1, <1>6 DEF Retry, Work
  <2>2. rows' \in [Contents -> Row]
    BY <1>1, <1>6, <2>1 DEF Retry, Row, Ended
  <2>3. tasks' \subseteq Message /\ IsFiniteSet(tasks')
    <3>1. CASE TriesLeft(workers[w])
      <4>1. [row |-> workers[w].row, retries |-> workers[w].retries + 1] \in Message
        BY <2>1, <3>1 DEF TriesLeft, Message, QueueConstants
      <4>2. QED
        BY <1>6, <3>1, <4>1, MessagesAre DEF Retry
    <3>2. CASE ~TriesLeft(workers[w])
      BY <1>1, <1>6, <3>2 DEF Retry
    <3>3. QED
      BY <3>1, <3>2
  <2>4. QED
    BY <1>1, <1>6, <2>2, <2>3, RestIs DEF Retry, Others
<1>7. CASE Crash(w)
  <2>1. workers[w].row \in Contents /\ workers[w].retries \in 0..MaxRetries
    <3>1. CASE workers[w].at # "idle"
      BY <1>1, <3>1 DEF Work
    <3>2. CASE workers[w].at = "idle"
      BY <1>7, <3>2 DEF Crash, Typed
    <3>3. QED
      BY <3>1, <3>2
  <2>2. [row |-> workers[w].row, retries |-> workers[w].retries] \in Message
    BY <2>1 DEF Message
  <2>3. tasks' \subseteq Message /\ IsFiniteSet(tasks')
    BY <1>7, <2>2, MessagesAre DEF Crash
  <2>4. losses' \in Nat /\ rows' = rows
    BY <1>1, <1>7 DEF Crash
  <2>5. QED
    BY <1>1, <1>7, <2>3, <2>4, RestIs DEF Crash
<1>8. QED
  BY <1>2, <1>3, <1>4, <1>5, <1>6, <1>7 DEF Run

LEMMA NextTypes == ASSUME QueueConstants PROVE Typed /\ [Next]_ocr => Typed'
<1> SUFFICES ASSUME Typed, [Next]_ocr PROVE Typed'
  OBVIOUS
<1>1. CASE UNCHANGED ocr
  BY <1>1 DEF ocr, Typed, OcrTypeOK
<1>2. CASE (\E c \in Held : Save(c)) \/ Ask \/ StartScan \/ (\E s \in Schedulers : Load(s))
  BY <1>2, JobTypes
<1>3. CASE \E s \in Schedulers : Schedule(s) \/ Invalidate(s)
  BY <1>3, ScheduleTypes
<1>4. CASE \E w \in Workers : Run(w) \/ Crash(w)
  BY <1>4, WorkerTypes
<1>5. ASSUME NEW c \in Contents, BecomeStale(c) PROVE Typed'
  <2>1. rows \in [Contents -> Row] /\ losses \in Nat
    BY DEF Typed, OcrTypeOK
  <2>2. rows' \in [Contents -> Row] /\ losses' \in Nat
    <3>1. rows' = [rows EXCEPT ![c] = [rows[c] EXCEPT !.stale = TRUE]]
      BY <1>5 DEF BecomeStale
    <3>2. [rows[c] EXCEPT !.stale = TRUE] \in Row
      BY <2>1 DEF Row
    <3>3. losses' \in {losses, losses + 1}
      BY <1>5 DEF BecomeStale
    <3>4. QED
      BY <2>1, <3>1, <3>2, <3>3
  <2>3. QED
    BY <1>5, <2>2 DEF BecomeStale, Typed, OcrTypeOK
<1>6. ASSUME NEW task \in tasks, Lose(task) PROVE Typed'
  <2>1. task \in Message /\ losses \in Nat /\ losses' = losses + 1 /\ tasks' = tasks \ {task}
    BY <1>6 DEF Typed, OcrTypeOK, Message, Lose
  <2>2. tasks' \subseteq Message /\ IsFiniteSet(tasks') /\ losses' \in Nat
    BY <2>1, MessagesAre
  <2>3. QED
    BY <1>6, <2>2 DEF Lose, Typed, OcrTypeOK, Message
<1>7. QED
  BY <1>1, <1>2, <1>3, <1>4, <1>5, <1>6, SchedulersAre
     DEF Next, Requested, Scanning, Reading, Time, Proceed

(* Every field keeps its range.                                            *)
THEOREM TypeCorrect == ASSUME QueueConstants PROVE Spec => []OcrTypeOK
<1>1. Typed => OcrTypeOK
  BY DEF Typed
<1>2. QED
  BY <1>1, InitTypes, NextTypes, PTL DEF Spec

-----------------------------------------------------------------------------
(* A row's text and the document's row.                                    *)

RowsInv ==
  /\ \A c \in Contents : rows[c].text \in {Nothing, c}
  /\ \A c, d \in Contents : rows[c].current /\ rows[d].current => c = d

(* What writes neither a text nor a mark keeps them.                       *)
LEMMA SameRows ==
  ASSUME RowsInv,
         \A c \in Contents : /\ rows'[c].text \in {rows[c].text, c}
                             /\ rows'[c].current => rows[c].current
  PROVE  RowsInv'
BY DEF RowsInv

LEMMA RowsStay == ASSUME QueueConstants PROVE Typed /\ RowsInv /\ [Next]_ocr => RowsInv'
<1> SUFFICES ASSUME Typed, RowsInv, [Next]_ocr PROVE RowsInv'
  OBVIOUS
<1>1. /\ rows \in [Contents -> Row] /\ workers \in [Workers -> Work]
      /\ \A w \in Workers : workers[w].at # "idle" => workers[w].row \in Contents
  BY DEF Typed, OcrTypeOK
<1>2. CASE rows' = rows
  BY <1>2, SameRows
<1>3. ASSUME NEW s \in Schedulers, Schedule(s) PROVE RowsInv'
  <2> DEFINE c == jobs[s].content
  <2>1. CASE c = Nothing
    <3>1. rows' = [d \in Contents |-> Superseded(rows[d])]
      BY <1>3, <2>1 DEF Schedule
    <3>2. QED
      BY <1>1, <3>1, RowsAre, SameRows
  <2>2. CASE c # Nothing /\ rows' # rows
    <3>1. rows' = [d \in Contents |->
                     IF d = c THEN Scheduled(rows[d], s) ELSE Superseded(rows[d])]
      BY <1>3, <2>2 DEF Schedule
    <3> HIDE DEF c
    <3>2. \A d \in Contents : /\ rows'[d].text = rows[d].text
                              /\ d # c => ~rows'[d].current
      BY <1>1, <3>1, RowsAre, ScheduledIs
    <3>3. QED
      BY <3>2 DEF RowsInv
  <2>3. QED
    BY <1>2, <2>1, <2>2
<1>4. ASSUME NEW s \in Schedulers, Invalidate(s) PROVE RowsInv'
  <2>1. rows' = [d \in Contents |-> IF d = jobs[s].content THEN rows[d] ELSE Superseded(rows[d])]
    BY <1>4 DEF Invalidate
  <2>2. QED
    BY <1>1, <2>1, RowsAre, SameRows
<1>5. ASSUME NEW w \in Workers, NEW task \in tasks, Claim(w, task) PROVE RowsInv'
  BY <1>5, ClaimIs, SameRows
<1>6. ASSUME NEW w \in Workers, workers[w].at # "idle",
             NEW status \in Active \cup Ended,
             rows' = [rows EXCEPT ![workers[w].row].status = status]
      PROVE  RowsInv'
  BY <1>1, <1>6, StatusIs, SameRows
<1>7. ASSUME NEW w \in Workers, Conclude(w) PROVE RowsInv'
  <2>1. workers[w].at = "reading" /\ workers[w].row \in Contents
    BY <1>1, <1>7 DEF Conclude
  <2>2. CASE \E status \in Ended : rows' = [rows EXCEPT ![workers[w].row].status = status]
    BY <1>6, <2>1, <2>2
  <2>3. CASE /\ SameFile(workers[w])
             /\ rows' = [rows EXCEPT ![workers[w].row].status = "done",
                                     ![workers[w].row].text = workers[w].content]
    <3>1. rows' = [rows EXCEPT ![workers[w].row] =
                     [rows[workers[w].row] EXCEPT !.status = "done", !.text = workers[w].content]]
      BY <1>1, <2>1, <2>3
    <3>2. rows[workers[w].row] \in Row /\ workers[w].content = workers[w].row
      BY <1>1, <2>1, <2>3 DEF SameFile
    <3>3. /\ rows'[workers[w].row].text = workers[w].row
          /\ rows'[workers[w].row].current = rows[workers[w].row].current
          /\ \A d \in Contents : d # workers[w].row => rows'[d] = rows[d]
      BY <1>1, <2>1, <3>1, <3>2 DEF Row
    <3>4. QED
      BY <3>3, SameRows
  <2>4. QED
    BY <1>7, <2>2, <2>3 DEF Conclude, Ended
<1>8. ASSUME NEW w \in Workers, Unavailable(w) \/ ReadFails(w) \/ Retry(w) \/ Crash(w) PROVE RowsInv'
  <2>1. CASE Unavailable(w)
    BY <1>6, <2>1 DEF Unavailable, Active
  <2>2. CASE ReadFails(w) \/ Crash(w)
    BY <1>2, <2>2 DEF ReadFails, Crash
  <2>3. CASE Retry(w)
    <3>1. workers[w].at = "unavailable" /\ workers[w].row \in Contents
      BY <1>1, <2>3 DEF Retry
    <3>2. rows' = rows \/ \E status \in {"done", "failed"} :
                             rows' = [rows EXCEPT ![workers[w].row].status = status]
      BY <1>1, <2>3, <3>1 DEF Retry
    <3>3. QED
      BY <1>2, <1>6, <3>1, <3>2 DEF Ended
  <2>4. QED
    BY <1>8, <2>1, <2>2, <2>3
<1>9. ASSUME NEW c \in Contents, BecomeStale(c) PROVE RowsInv'
  <2>1. rows' = [rows EXCEPT ![c] = [rows[c] EXCEPT !.stale = TRUE]] /\ rows[c] \in Row
    BY <1>1, <1>9 DEF BecomeStale
  <2>2. /\ rows'[c].text = rows[c].text /\ rows'[c].current = rows[c].current
        /\ \A d \in Contents : d # c => rows'[d] = rows[d]
    BY <1>1, <2>1 DEF Row
  <2>3. QED
    BY <2>2, SameRows
<1>10. CASE \/ UNCHANGED ocr \/ (\E c \in Held : Save(c)) \/ Ask \/ StartScan
            \/ (\E s \in Schedulers : Load(s)) \/ (\E task \in tasks : Lose(task))
  BY <1>2, <1>10 DEF ocr, Save, Ask, StartScan, Load, Lose
<1>11. QED
  BY <1>3, <1>4, <1>5, <1>7, <1>8, <1>9, <1>10, SchedulersAre
     DEF Next, Requested, Scanning, Reading, Time, Proceed, Run

-----------------------------------------------------------------------------
(* Who reads a row.  A message for the row waits in the queue or is held   *)
(* by the worker that took it, until the worker is done.  A second one is  *)
(* sent only for a row that went stale, and a row goes stale only when     *)
(* nobody holds a message for it: because its reader left it, or because a *)
(* message is late or a worker was killed, which is counted as a loss.  So *)
(* there is never more than one message beyond the losses, and with one    *)
(* loss two workers at most hold a row.  The one that reads has its row    *)
(* running, so that the other's message is thrown away, unless the other   *)
(* has already given up, and then nobody is left to read.                  *)

Waiting(c) == {task \in tasks : task.row = c}
Holding(c) == {w \in Workers : workers[w].row = c}
Copies(c) == Cardinality(Waiting(c)) + Cardinality(Holding(c))
IsRead(c) == \E w \in Workers : Reads(w, c)

Counted(c) ==
  /\ Copies(c) <= 1 + losses
  /\ rows[c].status = "none" => Copies(c) = 0
  /\ rows[c].status \in Active /\ rows[c].stale => Copies(c) <= losses
  /\ rows[c].status = "running" /\ ~IsRead(c) => Copies(c) <= losses
  /\ Holding(c) # {} => ~rows[c].stale

Alone(c) ==
  losses <= 1 =>
    /\ \A v, w \in Workers : Reads(v, c) /\ Reads(w, c) => v = w
    /\ \A w \in Workers : Reads(w, c) =>
         rows[c].status = "running" \/ (Waiting(c) = {} /\ Holding(c) = {w})

QueueInv ==
  asks = 0 =>
    /\ jobs[Manual].at = "off"
    /\ \A c \in Contents : Counted(c) /\ Alone(c)

LEMMA CopiesAre ==
  ASSUME QueueConstants, Typed, NEW c \in Contents
  PROVE  /\ IsFiniteSet(Waiting(c)) /\ IsFiniteSet(Holding(c))
         /\ Cardinality(Waiting(c)) \in Nat /\ Cardinality(Holding(c)) \in Nat
         /\ Copies(c) \in Nat
         /\ Cardinality(Waiting(c)) = 0 <=> Waiting(c) = {}
         /\ Cardinality(Holding(c)) = 0 <=> Holding(c) = {}
<1>1. IsFiniteSet(Waiting(c))
  BY FS_Subset DEF Typed, Waiting
<1>2. IsFiniteSet(Workers)
  BY FS_Interval DEF Workers, QueueConstants
<1>3. IsFiniteSet(Holding(c))
  BY <1>2, FS_Subset DEF Holding
<1>4. Cardinality(Waiting(c)) \in Nat /\ Cardinality(Holding(c)) \in Nat
  BY <1>1, <1>3, FS_CardinalityType
<1>5. /\ Cardinality(Waiting(c)) = 0 <=> Waiting(c) = {}
      /\ Cardinality(Holding(c)) = 0 <=> Holding(c) = {}
  BY <1>1, <1>3, FS_EmptySet
<1>6. QED
  BY <1>1, <1>3, <1>4, <1>5 DEF Copies

(* A row whose messages stay where they are.                               *)
LEMMA RowUntouched ==
  ASSUME QueueConstants, Typed, NEW c \in Contents, Counted(c), Alone(c),
         Waiting(c)' = Waiting(c),
         \A w \in Workers : workers[w].row = c \/ workers'[w].row = c => workers'[w] = workers[w],
         rows'[c].status = rows[c].status, rows'[c].stale = rows[c].stale,
         losses' \in Nat, losses' >= losses
  PROVE  Counted(c)' /\ Alone(c)'
<1>1. Holding(c)' = Holding(c)
  BY DEF Holding
<1>2. \A w \in Workers : Reads(w, c)' <=> Reads(w, c)
  BY DEF Reads
<1>3. Copies(c)' = Copies(c) /\ Copies(c) \in Nat /\ losses \in Nat
  BY <1>1, CopiesAre DEF Copies, Typed
<1>4. Counted(c)'
  BY <1>1, <1>2, <1>3 DEF Counted, IsRead
<1>5. Alone(c)'
  BY <1>1, <1>2, <1>3 DEF Alone
<1>6. QED
  BY <1>4, <1>5

(* Steps that touch no message: only the job of the Run OCR request counts *)
LEMMA QueueUntouched ==
  ASSUME QueueConstants, Typed, Typed', QueueInv,
         UNCHANGED <<tasks, workers>>, losses' >= losses, asks' >= asks,
         \A c \in Contents : rows'[c].status = rows[c].status /\ rows'[c].stale = rows[c].stale,
         asks' = 0 => jobs'[Manual].at = jobs[Manual].at
  PROVE  QueueInv'
<1>1. asks \in Nat /\ asks' \in Nat /\ losses' \in Nat
  BY DEF Typed
<1>2. SUFFICES ASSUME asks' = 0
               PROVE  /\ jobs'[Manual].at = "off"
                      /\ \A c \in Contents : Counted(c)' /\ Alone(c)'
  BY DEF QueueInv
<1>3. /\ jobs[Manual].at = "off"
      /\ \A c \in Contents : Counted(c) /\ Alone(c)
  BY <1>1, <1>2 DEF QueueInv
<1>4. \A c \in Contents : Waiting(c)' = Waiting(c)
  BY DEF Waiting
<1>5. QED
  BY <1>1, <1>2, <1>3, <1>4, RowUntouched

(* A message is taken from the queue, put in it, or passed on.             *)
LEMMA WaitingMoves ==
  ASSUME QueueConstants, Typed, Typed', NEW task \in Message
  PROVE  /\ \A c \in Contents : c # task.row =>
               /\ tasks' = tasks \ {task} => Waiting(c)' = Waiting(c)
               /\ tasks' = tasks \cup {task} => Waiting(c)' = Waiting(c)
         /\ task \in tasks /\ tasks' = tasks \ {task} =>
               /\ Waiting(task.row) # {}
               /\ Cardinality(Waiting(task.row)') = Cardinality(Waiting(task.row)) - 1
         /\ tasks' = tasks \ {task} => Waiting(task.row)' \subseteq Waiting(task.row)
         /\ tasks' = tasks \cup {task} =>
               /\ Cardinality(Waiting(task.row)') <= Cardinality(Waiting(task.row)) + 1
<1> DEFINE c == task.row
<1>1. c \in Contents /\ IsFiniteSet(Waiting(c)) /\ Cardinality(Waiting(c)) \in Nat
  BY CopiesAre DEF Message
<1>2. ASSUME task \in tasks, tasks' = tasks \ {task}
      PROVE  /\ Waiting(task.row) # {}
             /\ Cardinality(Waiting(task.row)') = Cardinality(Waiting(task.row)) - 1
  <2>1. Waiting(c)' = Waiting(c) \ {task} /\ task \in Waiting(c)
    BY <1>2 DEF Waiting
  <2>2. QED
    BY <1>1, <2>1, FS_RemoveElement
<1>3. ASSUME tasks' = tasks \cup {task}
      PROVE  Cardinality(Waiting(task.row)') <= Cardinality(Waiting(task.row)) + 1
  <2>1. Waiting(c)' = Waiting(c) \cup {task}
    BY <1>3 DEF Waiting
  <2>2. Cardinality(Waiting(c) \cup {task})
          = IF task \in Waiting(c) THEN Cardinality(Waiting(c)) ELSE Cardinality(Waiting(c)) + 1
    BY <1>1, FS_AddElement
  <2>3. QED
    BY <1>1, <2>1, <2>2
<1>4. QED
  BY <1>2, <1>3 DEF Waiting

(* A worker takes a row, or lets go of it.                                 *)
LEMMA WorkerMoves ==
  ASSUME Typed, NEW w \in Workers, NEW work, workers' = [workers EXCEPT ![w] = work]
  PROVE  /\ \A c \in Contents : c # work.row /\ c # workers[w].row =>
              \A v \in Workers : workers[v].row = c \/ workers'[v].row = c => workers'[v] = workers[v]
         /\ workers'[w] = work
         /\ \A v \in Workers : v # w => workers'[v] = workers[v]
<1>1. workers \in [Workers -> Work]
  BY DEF Typed, OcrTypeOK
<1>2. workers'[w] = work /\ \A v \in Workers : v # w => workers'[v] = workers[v]
  BY <1>1
<1>3. QED
  BY <1>2

LEMMA HoldingShrinks ==
  ASSUME QueueConstants, Typed, NEW w \in Workers, NEW c \in Contents, workers[w].row = c,
         workers' = [workers EXCEPT ![w] = AtRest]
  PROVE  /\ Holding(c)' = Holding(c) \ {w} /\ w \in Holding(c)
         /\ Cardinality(Holding(c)') = Cardinality(Holding(c)) - 1
<1>1. c # AtRest.row
  BY RestsAre DEF QueueConstants
<1>2. workers'[w] = AtRest /\ \A v \in Workers : v # w => workers'[v] = workers[v]
  BY WorkerMoves
<1>3. Holding(c)' = Holding(c) \ {w} /\ w \in Holding(c)
  BY <1>1, <1>2 DEF Holding
<1>4. Cardinality(Holding(c) \ {w}) = Cardinality(Holding(c)) - 1
  BY <1>3, CopiesAre, FS_RemoveElement
<1>5. QED
  BY <1>3, <1>4

LEMMA HoldingGrows ==
  ASSUME QueueConstants, Typed, NEW w \in Workers, NEW c \in Contents, workers[w] = AtRest,
         NEW work, work.row = c, workers' = [workers EXCEPT ![w] = work]
  PROVE  /\ Holding(c)' = Holding(c) \cup {w}
         /\ Cardinality(Holding(c)') = Cardinality(Holding(c)) + 1
<1>1. c # workers[w].row
  BY RestsAre DEF QueueConstants
<1>2. workers'[w].row = c /\ \A v \in Workers : v # w => workers'[v] = workers[v]
  BY WorkerMoves
<1>3. Holding(c)' = Holding(c) \cup {w} /\ w \notin Holding(c)
  BY <1>1, <1>2 DEF Holding
<1>4. Cardinality(Holding(c) \cup {w}) = Cardinality(Holding(c)) + 1
  BY <1>3, CopiesAre, FS_AddElement
<1>5. QED
  BY <1>3, <1>4

(* The other rows, when one worker and the messages of one row move.       *)
LEMMA OtherRows ==
  ASSUME QueueConstants, Typed, Typed', NEW c \in Contents,
         \A d \in Contents : Counted(d) /\ Alone(d),
         \A d \in Contents : d # c =>
           /\ Waiting(d)' = Waiting(d)
           /\ \A w \in Workers : workers[w].row = d \/ workers'[w].row = d => workers'[w] = workers[w]
           /\ rows'[d].status = rows[d].status /\ rows'[d].stale = rows[d].stale,
         losses' >= losses, Counted(c)', Alone(c)'
  PROVE  \A d \in Contents : Counted(d)' /\ Alone(d)'
<1>1. losses' \in Nat
  BY DEF Typed
<1>2. QED
  BY <1>1, RowUntouched

LEMMA ClaimStays ==
  ASSUME QueueConstants, Typed, Typed', \A d \in Contents : Counted(d) /\ Alone(d),
         NEW w \in Workers, NEW task \in tasks, Claim(w, task)
  PROVE  \A d \in Contents : Counted(d)' /\ Alone(d)'
<1>1. PICK c \in Contents : c = task.row
  BY ClaimIs DEF Message
<1>2. /\ task \in Message /\ workers[w] = AtRest /\ tasks' = tasks \ {task}
      /\ losses' = losses /\ losses \in Nat
      /\ \A d \in Contents : d # c => rows'[d] = rows[d]
  BY <1>1, ClaimIs DEF Typed
<1>3. /\ \A d \in Contents : d # c => Waiting(d)' = Waiting(d)
      /\ Waiting(c) # {}
      /\ Cardinality(Waiting(c)') = Cardinality(Waiting(c)) - 1
      /\ Waiting(c)' \subseteq Waiting(c)
  BY <1>1, <1>2, WaitingMoves
<1>4. /\ Cardinality(Waiting(c)) \in Nat /\ Cardinality(Holding(c)) \in Nat
      /\ Copies(c) \in Nat /\ Copies(c) # 0
      /\ Copies(c) = Cardinality(Waiting(c)) + Cardinality(Holding(c))
      /\ Counted(c) /\ Alone(c)
  BY <1>2, <1>3, CopiesAre DEF Copies
(* A row that is not taken has no reader while a message for it waits.     *)
<1>5. ~Taken(rows[c]) /\ losses <= 1 => ~IsRead(c)
  <2> SUFFICES ASSUME ~Taken(rows[c]), losses <= 1, NEW v \in Workers, Reads(v, c)
               PROVE  FALSE
    BY DEF IsRead
  <2>1. v \in Holding(c)
    BY DEF Holding, Reads
  <2>2. rows[c].status # "running"
    BY <1>4, <2>1 DEF Counted, Taken
  <2>3. QED
    BY <1>3, <1>4, <2>2 DEF Alone
<1>6. CASE UNCHANGED workers /\ rows'[c].stale = rows[c].stale
           /\ rows'[c].status \in {rows[c].status, "skipped"}
           /\ (rows'[c].status = "skipped" => ~Taken(rows[c]) \/ rows' = rows)
  <2>1. Holding(c)' = Holding(c) /\ \A v \in Workers : Reads(v, c)' <=> Reads(v, c)
    BY <1>6 DEF Holding, Reads
  <2>2. Copies(c)' = Copies(c) - 1
    BY <1>3, <1>4, <2>1 DEF Copies
  <2>3. Counted(c)'
    BY <1>2, <1>4, <1>6, <2>1, <2>2 DEF Counted, Active, IsRead
  <2>4. Alone(c)'
    BY <1>2, <1>3, <1>4, <1>5, <1>6, <2>1 DEF Alone, IsRead
  <2>5. QED
    BY <1>2, <1>3, <1>6, <2>3, <2>4, OtherRows
<1>7. CASE /\ ~Taken(rows[c]) /\ rows'[c].status = "running" /\ ~rows'[c].stale
           /\ \E work \in Work : /\ work.at = "reading" /\ work.row = c
                                 /\ workers' = [workers EXCEPT ![w] = work]
  <2>1. PICK work \in Work : /\ work.at = "reading" /\ work.row = c
                             /\ workers' = [workers EXCEPT ![w] = work]
    BY <1>7
  <2>2. workers[w].row = Nothing /\ Nothing \notin Contents
    BY <1>2, RestsAre DEF QueueConstants
  <2>3. /\ \A d \in Contents : d # c =>
             \A v \in Workers : workers[v].row = d \/ workers'[v].row = d => workers'[v] = workers[v]
        /\ workers'[w] = work /\ \A v \in Workers : v # w => workers'[v] = workers[v]
        /\ Holding(c)' = Holding(c) \cup {w}
        /\ Cardinality(Holding(c)') = Cardinality(Holding(c)) + 1
    <3>1. \A d \in Contents : d # c => d # work.row /\ d # workers[w].row
      BY <2>1, <2>2
    <3>2. \A d \in Contents : d # work.row /\ d # workers[w].row =>
            \A v \in Workers : workers[v].row = d \/ workers'[v].row = d => workers'[v] = workers[v]
      BY <2>1, WorkerMoves
    <3>3. /\ Holding(c)' = Holding(c) \cup {w}
          /\ Cardinality(Holding(c)') = Cardinality(Holding(c)) + 1
      BY <1>2, <2>1, HoldingGrows
    <3>4. workers'[w] = work /\ \A v \in Workers : v # w => workers'[v] = workers[v]
      BY <2>1, WorkerMoves
    <3>5. QED
      BY <3>1, <3>2, <3>3, <3>4
  <2>4. Copies(c)' = Copies(c)
    BY <1>3, <1>4, <2>3 DEF Copies
  <2>5. \A v \in Workers : Reads(v, c)' <=> Reads(v, c) \/ v = w
    BY <2>1, <2>3 DEF Reads
  <2>6. Counted(c)'
    BY <1>2, <1>4, <1>7, <2>4, <2>5 DEF Counted, IsRead
  <2>7. Alone(c)'
    BY <1>2, <1>5, <1>7, <2>5 DEF Alone, IsRead
  <2>8. QED
    BY <1>2, <1>3, <2>3, <2>6, <2>7, OtherRows
<1>8. QED
  BY <1>1, <1>6, <1>7, ClaimIs

(* A worker that is done with its row.                                     *)
LEMMA LeaveStays ==
  ASSUME QueueConstants, Typed, Typed', \A d \in Contents : Counted(d) /\ Alone(d),
         NEW w \in Workers, NEW c \in Contents, workers[w].row = c,
         workers' = [workers EXCEPT ![w] = AtRest],
         \A d \in Contents : d # c => rows'[d] = rows[d], rows'[c].stale = rows[c].stale,
         \/ /\ Reads(w, c) /\ UNCHANGED <<tasks, losses>>
            /\ rows'[c].status \in Ended \cup {rows[c].status}
         \/ /\ workers[w].at = "unavailable" /\ UNCHANGED <<tasks, losses>>
            /\ rows'[c].status \in {"done", "failed"}
         \/ /\ tasks' = tasks \cup {[row |-> c, retries |-> workers[w].retries + 1]}
            /\ workers[w].at = "unavailable" /\ TriesLeft(workers[w])
            /\ UNCHANGED <<rows, losses>>
         \/ /\ tasks' = tasks \cup {[row |-> c, retries |-> workers[w].retries]}
            /\ rows' = rows /\ losses' = losses + 1
  PROVE  \A d \in Contents : Counted(d)' /\ Alone(d)'
<1>1. /\ \A d \in Contents : d # c =>
           \A v \in Workers : workers[v].row = d \/ workers'[v].row = d => workers'[v] = workers[v]
      /\ \A v \in Workers : v # w => workers'[v] = workers[v]
      /\ Holding(c)' = Holding(c) \ {w} /\ w \in Holding(c)
      /\ Cardinality(Holding(c)') = Cardinality(Holding(c)) - 1
  <2>1. AtRest.row \notin Contents
    BY RestsAre DEF QueueConstants
  <2>2. \A d \in Contents : d # c => d # AtRest.row /\ d # workers[w].row
    BY <2>1
  <2>3. \A d \in Contents : d # AtRest.row /\ d # workers[w].row =>
          \A v \in Workers : workers[v].row = d \/ workers'[v].row = d => workers'[v] = workers[v]
    BY WorkerMoves
  <2>4. /\ Holding(c)' = Holding(c) \ {w} /\ w \in Holding(c)
        /\ Cardinality(Holding(c)') = Cardinality(Holding(c)) - 1
    BY HoldingShrinks
  <2>5. \A v \in Workers : v # w => workers'[v] = workers[v]
    BY WorkerMoves
  <2>6. QED
    BY <2>2, <2>3, <2>4, <2>5
<1>2. workers[w].retries \in 0..MaxRetries /\ losses \in Nat /\ MaxRetries \in Nat
      /\ AtRest.at = "idle"
  BY RestsAre DEF Typed, OcrTypeOK, Work, QueueConstants
<1>3. /\ Cardinality(Waiting(c)) \in Nat /\ Cardinality(Holding(c)) \in Nat
      /\ Copies(c) \in Nat /\ Copies(c) # 0
      /\ Copies(c) = Cardinality(Waiting(c)) + Cardinality(Holding(c))
      /\ Counted(c) /\ Alone(c)
  BY <1>1, CopiesAre DEF Copies
<1>4. \A v \in Workers : Reads(v, c)' <=> Reads(v, c) /\ v # w
  <2>1. workers'[w] = AtRest
    BY DEF Typed, OcrTypeOK
  <2>2. QED
    BY <1>1, <1>2, <2>1 DEF Reads
<1>5. rows[c].status # "none" /\ ~rows[c].stale
  BY <1>1, <1>3 DEF Counted
<1>6. losses' \in {losses, losses + 1} /\ losses' >= losses
  BY <1>2
<1>7. CASE Reads(w, c) /\ UNCHANGED <<tasks, losses>>
           /\ rows'[c].status \in Ended \cup {rows[c].status}
  <2>1. \A d \in Contents : Waiting(d)' = Waiting(d)
    BY <1>7 DEF Waiting
  <2>2. Copies(c)' = Copies(c) - 1
    BY <1>1, <1>3, <2>1 DEF Copies
  <2>3. Counted(c)'
    BY <1>2, <1>3, <1>5, <1>7, <2>2 DEF Counted, Ended
  <2>4. Alone(c)'
    BY <1>3, <1>4, <1>7 DEF Alone
  <2>5. QED
    BY <1>1, <1>6, <2>1, <2>3, <2>4, OtherRows
<1>8. CASE /\ workers[w].at = "unavailable" /\ UNCHANGED <<tasks, losses>>
           /\ rows'[c].status \in {"done", "failed"}
  <2>1. \A d \in Contents : Waiting(d)' = Waiting(d)
    BY <1>8 DEF Waiting
  <2>2. Copies(c)' = Copies(c) - 1
    BY <1>1, <1>3, <2>1 DEF Copies
  <2>3. Counted(c)'
    BY <1>2, <1>3, <1>5, <1>8, <2>2 DEF Counted, Active
  <2>4. ASSUME losses <= 1, NEW v \in Workers, Reads(v, c), v # w
        PROVE  Waiting(c) = {} /\ Holding(c)' = {v}
    <3>1. v \in Holding(c)
      BY <2>4 DEF Holding, Reads
    <3>2. Cardinality(Holding(c) \ {w}) = Cardinality(Holding(c)) - 1
      BY <1>1
    <3>3. /\ IsFiniteSet(Holding(c)) /\ IsFiniteSet(Holding(c) \ {w})
          /\ v \in Holding(c) \ {w}
      BY <1>1, <2>4, <3>1, CopiesAre, FS_RemoveElement
    <3>4. /\ Cardinality((Holding(c) \ {w}) \ {v}) = Cardinality(Holding(c) \ {w}) - 1
          /\ IsFiniteSet((Holding(c) \ {w}) \ {v})
          /\ Cardinality((Holding(c) \ {w}) \ {v}) \in Nat
      BY <3>3, FS_RemoveElement, FS_CardinalityType
    <3>5. Cardinality((Holding(c) \ {w}) \ {v}) = 0 /\ Cardinality(Waiting(c)) = 0
      <4>1. Copies(c) <= 2
        BY <1>2, <1>3, <2>4 DEF Counted
      <4>2. QED
        BY <1>3, <3>2, <3>4, <4>1
    <3>6. (Holding(c) \ {w}) \ {v} = {} /\ Waiting(c) = {}
      BY <3>4, <3>5, CopiesAre, FS_EmptySet
    <3>7. QED
      BY <1>1, <3>3, <3>6
  <2>5. Alone(c)'
    BY <1>3, <1>4, <1>8, <2>1, <2>4 DEF Alone
  <2>6. QED
    BY <1>1, <1>6, <2>1, <2>3, <2>5, OtherRows
<1>9. ASSUME NEW retries \in 0..MaxRetries, tasks' = tasks \cup {[row |-> c, retries |-> retries]},
             rows' = rows,
             losses' = losses + 1 \/ (losses' = losses /\ ~Reads(w, c))
      PROVE  \A d \in Contents : Counted(d)' /\ Alone(d)'
  <2> DEFINE task == [row |-> c, retries |-> retries]
  <2>1. task \in Message /\ task.row = c
    BY DEF Message
  <2>2. /\ \A d \in Contents : d # c => Waiting(d)' = Waiting(d)
        /\ Cardinality(Waiting(c)') <= Cardinality(Waiting(c)) + 1
    BY <1>9, <2>1, WaitingMoves
  <2> HIDE DEF task
  <2>3. Copies(c)' <= Copies(c) /\ Copies(c)' \in Nat
    <3>1. Copies(c)' = Cardinality(Waiting(c)') + Cardinality(Holding(c)')
      BY DEF Copies
    <3>2. Cardinality(Waiting(c)') \in Nat /\ Cardinality(Holding(c)') \in Nat
      <4>1. IsFiniteSet(Waiting(c)') /\ IsFiniteSet(Holding(c)')
        <5>1. IsFiniteSet(Holding(c) \ {w})
          BY CopiesAre, FS_RemoveElement
        <5>2. IsFiniteSet(tasks') /\ Waiting(c)' \subseteq tasks'
          BY DEF Typed, Waiting
        <5>3. QED
          BY <1>1, <5>1, <5>2, FS_Subset
      <4>2. QED
        BY <4>1, FS_CardinalityType
    <3>3. QED
      BY <1>1, <1>3, <2>2, <3>1, <3>2
  <2>4. Counted(c)'
    <3>1. Copies(c)' <= 1 + losses'
      BY <1>2, <1>3, <1>9, <2>3 DEF Counted
    <3>2. rows[c].status = "running" /\ ~IsRead(c)' => Copies(c)' <= losses'
      <4>1. CASE losses' = losses + 1
        BY <1>2, <1>3, <2>3, <4>1 DEF Counted
      <4>2. CASE losses' = losses /\ ~Reads(w, c)
        <5>1. IsRead(c) => IsRead(c)'
          BY <1>4, <4>2 DEF IsRead
        <5>2. QED
          BY <1>2, <1>3, <2>3, <4>2, <5>1 DEF Counted
      <4>3. QED
        BY <1>9, <4>1, <4>2
    <3>3. QED
      BY <1>5, <1>9, <3>1, <3>2 DEF Counted
  <2>5. Alone(c)'
    <3>1. losses' <= 1 => losses <= 1
      BY <1>2, <1>6
    <3>2. QED
      BY <1>1, <1>3, <1>4, <1>9, <3>1 DEF Alone
  <2>6. QED
    BY <1>1, <1>6, <1>9, <2>2, <2>4, <2>5, OtherRows
<1>10. QED
  <2>1. workers[w].at = "unavailable" => ~Reads(w, c)
    BY DEF Reads
  <2>2. TriesLeft(workers[w]) => workers[w].retries + 1 \in 0..MaxRetries
    BY <1>2 DEF TriesLeft
  <2>3. QED
    BY <1>2, <1>7, <1>8, <1>9, <2>1, <2>2

LEMMA StaleStays ==
  ASSUME QueueConstants, Typed, Typed', \A d \in Contents : Counted(d) /\ Alone(d),
         NEW c \in Contents, BecomeStale(c)
  PROVE  \A d \in Contents : Counted(d)' /\ Alone(d)'
<1>1. /\ rows \in [Contents -> Row] /\ losses \in Nat /\ losses' \in Nat
  BY DEF Typed, OcrTypeOK
<1>2. /\ UNCHANGED <<tasks, workers>> /\ rows[c].status \in Active /\ Holding(c) = {}
      /\ rows' = [rows EXCEPT ![c] = [rows[c] EXCEPT !.stale = TRUE]]
      /\ losses' = IF rows[c].status = "pending" /\ Waiting(c) # {} THEN losses + 1 ELSE losses
  BY DEF BecomeStale, Holding, Waiting
<1>3. /\ rows'[c].status = rows[c].status /\ \A d \in Contents : d # c => rows'[d] = rows[d]
  BY <1>1, <1>2 DEF Row
<1>4. /\ \A d \in Contents : Waiting(d)' = Waiting(d) /\ Holding(d)' = Holding(d)
      /\ \A v \in Workers : ~Reads(v, c) /\ ~Reads(v, c)'
  BY <1>2 DEF Waiting, Holding, Reads
<1>5. /\ Copies(c) \in Nat /\ Copies(c)' = Copies(c)
      /\ Copies(c) = Cardinality(Waiting(c)) + Cardinality(Holding(c))
      /\ Waiting(c) = {} /\ Holding(c) = {} => Copies(c) = 0
      /\ Counted(c)
  <2>1. Cardinality(Waiting(c)) = 0 <=> Waiting(c) = {}
    BY CopiesAre
  <2>2. Cardinality(Holding(c)) = 0 <=> Holding(c) = {}
    BY CopiesAre
  <2>3. Copies(c) \in Nat /\ Copies(c)' = Copies(c)
    BY <1>4, CopiesAre DEF Copies
  <2>4. QED
    BY <2>1, <2>2, <2>3 DEF Copies
<1>6. Copies(c) <= losses'
  <2>1. CASE rows[c].status = "pending"
    BY <1>1, <1>2, <1>5, <2>1 DEF Counted
  <2>2. CASE rows[c].status = "running"
    BY <1>1, <1>2, <1>4, <1>5, <2>2 DEF Counted, IsRead
  <2>3. QED
    BY <1>2, <2>1, <2>2 DEF Active
<1>7. Counted(c)'
  BY <1>1, <1>2, <1>3, <1>4, <1>5, <1>6 DEF Counted, Active
<1>8. Alone(c)'
  BY <1>4 DEF Alone
<1>9. losses' >= losses
  BY <1>1, <1>2
<1>10. QED
  BY <1>2, <1>3, <1>4, <1>7, <1>8, <1>9, OtherRows

LEMMA LoseStays ==
  ASSUME QueueConstants, Typed, Typed', \A d \in Contents : Counted(d) /\ Alone(d),
         NEW task \in tasks, Lose(task)
  PROVE  \A d \in Contents : Counted(d)' /\ Alone(d)'
<1>1. /\ task \in Message /\ tasks' = tasks \ {task} /\ losses' = losses + 1
      /\ losses \in Nat /\ UNCHANGED <<rows, workers>>
  BY DEF Lose, Typed, OcrTypeOK, Message
<1>2. PICK c \in Contents : c = task.row
  BY <1>1 DEF Message
<1>3. /\ \A d \in Contents : d # c => Waiting(d)' = Waiting(d)
      /\ Cardinality(Waiting(c)') = Cardinality(Waiting(c)) - 1
      /\ Waiting(c)' \subseteq Waiting(c) /\ Waiting(c) # {}
  BY <1>1, <1>2, WaitingMoves
<1>4. /\ Holding(c)' = Holding(c) /\ \A v \in Workers : Reads(v, c)' <=> Reads(v, c)
  BY <1>1 DEF Holding, Reads
<1>5. /\ Copies(c) \in Nat /\ Copies(c)' = Copies(c) - 1 /\ Counted(c) /\ Alone(c)
  <2>1. /\ Cardinality(Waiting(c)) \in Nat /\ Cardinality(Holding(c)) \in Nat /\ Copies(c) \in Nat
    BY CopiesAre
  <2>2. QED
    BY <1>3, <1>4, <2>1 DEF Copies
<1>6. Copies(c) # 0
  BY <1>3, <1>5, CopiesAre DEF Copies
<1>7. Counted(c)'
  BY <1>1, <1>4, <1>5, <1>6 DEF Counted, IsRead
<1>8. Alone(c)'
  BY <1>1, <1>3, <1>4, <1>5 DEF Alone
<1>9. losses' >= losses
  BY <1>1
<1>10. QED
  BY <1>1, <1>3, <1>7, <1>8, <1>9, OtherRows

(* A scheduler sends a message for a row nobody has one for, or a stale one *)
LEMMA ScheduleStays ==
  ASSUME QueueConstants, Typed, Typed', \A d \in Contents : Counted(d) /\ Alone(d),
         NEW s \in Schedulers, s # Manual, Schedule(s)
  PROVE  \A d \in Contents : Counted(d)' /\ Alone(d)'
<1>1. /\ rows \in [Contents -> Row] /\ losses \in Nat /\ losses' = losses
      /\ workers' = workers /\ jobs[s].content \in Held
  BY DEF Typed, OcrTypeOK, Schedule, Job
<1>2. CASE tasks' = tasks /\ \A d \in Contents : rows'[d].status = rows[d].status
                                                 /\ rows'[d].stale = rows[d].stale
  <2>1. \A d \in Contents : Waiting(d)' = Waiting(d)
    BY <1>2 DEF Waiting
  <2>2. losses' \in Nat /\ losses' >= losses
    BY <1>1
  <2>3. QED
    BY <1>1, <1>2, <2>1, <2>2, RowUntouched
<1>3. ASSUME NEW c \in Contents, ToQueue(rows[c], s),
             tasks' = tasks \cup {[row |-> c, retries |-> 0]},
             rows' = [d \in Contents |->
                        IF d = c THEN Scheduled(rows[d], s) ELSE Superseded(rows[d])]
      PROVE  \A d \in Contents : Counted(d)' /\ Alone(d)'
  <2>1. /\ rows[c].status = "none" \/ (rows[c].status \in Active /\ rows[c].stale)
        /\ Counted(c)
    BY <1>3 DEF ToQueue
  <2>2. /\ rows'[c].status = "pending" /\ ~rows'[c].stale
        /\ \A d \in Contents : d # c => /\ rows'[d].status = rows[d].status
                                        /\ rows'[d].stale = rows[d].stale
    BY <1>1, <1>3, RowsAre, ScheduledIs
  <2>3. [row |-> c, retries |-> 0] \in Message /\ [row |-> c, retries |-> 0].row = c
    BY DEF Message, QueueConstants
  <2>4. /\ \A d \in Contents : d # c => Waiting(d)' = Waiting(d)
        /\ Cardinality(Waiting(c)') <= Cardinality(Waiting(c)) + 1
    BY <1>3, <2>3, WaitingMoves
  <2>5. /\ Cardinality(Waiting(c)) \in Nat /\ Cardinality(Holding(c)) \in Nat
        /\ Copies(c) = Cardinality(Waiting(c)) + Cardinality(Holding(c))
        /\ Cardinality(Holding(c)) = 0 <=> Holding(c) = {}
    BY CopiesAre DEF Copies
  <2>6. Holding(c) = {} /\ Copies(c) <= losses
    BY <1>1, <2>1, <2>5 DEF Counted
  <2>7. Holding(c)' = {} /\ \A v \in Workers : ~Reads(v, c)'
    BY <1>1, <2>6 DEF Holding, Reads
  <2>8. Copies(c)' <= 1 + losses'
    <3>1. Cardinality(Holding(c)') = 0
      BY <2>7, FS_EmptySet
    <3>2. Cardinality(Waiting(c)') \in Nat
      <4>1. IsFiniteSet(tasks') /\ Waiting(c)' \subseteq tasks'
        BY DEF Typed, Waiting
      <4>2. QED
        BY <4>1, FS_Subset, FS_CardinalityType
    <3>3. Copies(c)' = Cardinality(Waiting(c)') + Cardinality(Holding(c)')
      BY DEF Copies
    <3>4. QED
      BY <1>1, <2>4, <2>5, <2>6, <3>1, <3>2, <3>3
  <2>9. Counted(c)' /\ Alone(c)'
    BY <2>2, <2>7, <2>8 DEF Counted, Alone
  <2>10. losses' >= losses
    BY <1>1
  <2>11. QED
    BY <1>1, <2>2, <2>4, <2>9, <2>10, OtherRows
<1>4. CASE jobs[s].content = Nothing
  <2>1. tasks' = tasks /\ rows' = [d \in Contents |-> Superseded(rows[d])]
    BY <1>4 DEF Schedule
  <2>2. QED
    BY <1>1, <1>2, <2>1, RowsAre
<1>5. ASSUME NEW c \in Contents, c = jobs[s].content
      PROVE  \A d \in Contents : Counted(d)' /\ Alone(d)'
  <2>1. c # Nothing
    BY DEF QueueConstants
  <2>2. CASE UNCHANGED <<rows, tasks>>
    BY <1>2, <2>2
  <2>3. CASE /\ rows' = [d \in Contents |->
                           IF d = c THEN Scheduled(rows[d], s) ELSE Superseded(rows[d])]
             /\ tasks' = IF ToQueue(rows[c], s)
                         THEN tasks \cup {[row |-> c, retries |-> 0]} ELSE tasks
    <3>1. CASE ToQueue(rows[c], s)
      BY <1>3, <2>3, <3>1
    <3>2. CASE ~ToQueue(rows[c], s)
      BY <1>1, <1>2, <2>3, <3>2, RowsAre, ScheduledIs
    <3>3. QED
      BY <3>1, <3>2
  <2>4. QED
    BY <1>5, <2>1, <2>2, <2>3 DEF Schedule
<1>6. QED
  BY <1>1, <1>4, <1>5 DEF Held

LEMMA QueueStays == ASSUME QueueConstants PROVE Typed /\ QueueInv /\ [Next]_ocr => QueueInv'
<1> SUFFICES ASSUME Typed, QueueInv, [Next]_ocr PROVE QueueInv'
  OBVIOUS
<1>1. /\ Typed' /\ asks \in Nat /\ losses \in Nat /\ rows \in [Contents -> Row]
      /\ jobs \in [Schedulers -> Job]
      /\ \A w \in Workers : workers[w].at # "idle" => workers[w].row \in Contents
  BY NextTypes DEF Typed, OcrTypeOK
<1>2. ASSUME asks' = asks, asks = 0 => jobs'[Manual].at = jobs[Manual].at,
             asks = 0 => \A d \in Contents : Counted(d)' /\ Alone(d)'
      PROVE  QueueInv'
  BY <1>2 DEF QueueInv
<1>3. CASE UNCHANGED ocr
  BY <1>1, <1>3, QueueUntouched DEF ocr
<1>4. ASSUME NEW c \in Held, Save(c) PROVE QueueInv'
  <2>1. name + 1 # Manual /\ name + 1 \in Schedulers
    BY <1>4, SchedulersAre DEF Typed, OcrTypeOK, Save, Uploads, QueueConstants, Manual, Schedulers
  <2>2. jobs'[Manual] = jobs[Manual]
    BY <1>1, <1>4, <2>1, SchedulersAre DEF Save
  <2>3. QED
    <3>1. UNCHANGED <<rows, tasks, workers, asks, losses>>
      BY <1>4 DEF Save
    <3>2. losses' >= losses /\ asks' >= asks
      BY <1>1, <3>1
    <3>3. QED
      BY <1>1, <2>2, <3>1, <3>2, QueueUntouched
<1>5. CASE Ask
  BY <1>1, <1>5 DEF Ask, QueueInv
<1>6. CASE StartScan
  <2>1. jobs'[Manual] = jobs[Manual]
    BY <1>1, <1>6, SchedulersAre DEF StartScan
  <2>2. QED
    <3>1. UNCHANGED <<rows, tasks, workers, asks, losses>>
      BY <1>6 DEF StartScan
    <3>2. losses' >= losses /\ asks' >= asks
      BY <1>1, <3>1
    <3>3. QED
      BY <1>1, <2>1, <3>1, <3>2, QueueUntouched
<1>7. ASSUME NEW s \in Schedulers, Load(s) \/ Invalidate(s) PROVE QueueInv'
  <2>1. asks = 0 => s # Manual
    BY <1>7 DEF Load, Invalidate, QueueInv
  <2>2. asks = 0 => jobs'[Manual].at = jobs[Manual].at
    BY <1>1, <1>7, <2>1, SchedulersAre DEF Load, Invalidate
  <2>3. \A c \in Contents : rows'[c].status = rows[c].status /\ rows'[c].stale = rows[c].stale
    <3>1. CASE Load(s)
      BY <3>1 DEF Load
    <3>2. CASE Invalidate(s)
      BY <1>1, <3>2, RowsAre DEF Invalidate
    <3>3. QED
      BY <1>7, <3>1, <3>2
  <2>4. UNCHANGED <<tasks, workers, asks, losses>>
    BY <1>7 DEF Load, Invalidate
  <2>5. QED
    BY <1>1, <2>2, <2>3, <2>4, QueueUntouched
<1>8. ASSUME NEW s \in Schedulers, Schedule(s) PROVE QueueInv'
  <2>1. asks' = asks
    BY <1>8 DEF Schedule
  <2>2. ASSUME asks = 0 PROVE s # Manual /\ jobs'[Manual].at = jobs[Manual].at
    <3>1. s # Manual
      BY <1>8, <2>2 DEF Schedule, QueueInv
    <3>2. QED
      BY <1>1, <1>8, <3>1, SchedulersAre DEF Schedule
  <2>3. asks = 0 => \A d \in Contents : Counted(d)' /\ Alone(d)'
    BY <1>1, <1>8, <2>2, ScheduleStays DEF QueueInv
  <2>4. QED
    BY <1>2, <2>1, <2>2, <2>3
<1>9. ASSUME NEW w \in Workers, NEW task \in tasks, Claim(w, task) PROVE QueueInv'
  <2>1. UNCHANGED <<asks, jobs>>
    BY <1>9, ClaimIs
  <2>2. asks = 0 => \A d \in Contents : Counted(d)' /\ Alone(d)'
    BY <1>1, <1>9, ClaimStays DEF QueueInv
  <2>3. QED
    BY <1>2, <2>1, <2>2
<1>10. ASSUME NEW w \in Workers, NEW c \in Contents, workers[w].row = c,
              Conclude(w) \/ ReadFails(w) \/ Retry(w) \/ Crash(w)
       PROVE  QueueInv'
  <2>1. UNCHANGED <<asks, jobs>>
    BY <1>10 DEF Conclude, ReadFails, Retry, Crash, Others
  <2>2. workers' = [workers EXCEPT ![w] = AtRest]
    BY <1>10 DEF Conclude, ReadFails, Retry, Crash
  <2>3. /\ \A d \in Contents : d # c => rows'[d] = rows[d]
        /\ rows'[c].stale = rows[c].stale
        /\ \/ /\ Reads(w, c) /\ UNCHANGED <<tasks, losses>>
              /\ rows'[c].status \in Ended \cup {rows[c].status}
           \/ /\ workers[w].at = "unavailable" /\ UNCHANGED <<tasks, losses>>
              /\ rows'[c].status \in {"done", "failed"}
           \/ /\ tasks' = tasks \cup {[row |-> c, retries |-> workers[w].retries + 1]}
              /\ workers[w].at = "unavailable" /\ TriesLeft(workers[w])
              /\ UNCHANGED <<rows, losses>>
           \/ /\ tasks' = tasks \cup {[row |-> c, retries |-> workers[w].retries]}
              /\ rows' = rows /\ losses' = losses + 1
    <3>1. CASE Conclude(w)
      <4>1. UNCHANGED <<tasks, losses>> /\ Reads(w, c)
        BY <1>10, <3>1 DEF Conclude, Others, Reads
      <4>2. CASE \E status \in Ended : rows' = [rows EXCEPT ![c].status = status]
        BY <1>1, <4>1, <4>2, StatusIs
      <4>3. CASE rows' = [rows EXCEPT ![c].status = "done", ![c].text = workers[w].content]
        <5>1. rows' = [rows EXCEPT ![c] = [rows[c] EXCEPT !.status = "done",
                                                          !.text = workers[w].content]]
              /\ rows[c] \in Row
          BY <1>1, <4>3
        <5>2. rows'[c].status = "done" /\ rows'[c].stale = rows[c].stale
              /\ \A d \in Contents : d # c => rows'[d] = rows[d]
          BY <1>1, <5>1 DEF Row
        <5>3. QED
          BY <4>1, <5>2 DEF Ended
      <4>4. QED
        BY <1>10, <3>1, <4>2, <4>3 DEF Conclude, Ended
    <3>2. CASE ReadFails(w)
      BY <1>10, <3>2 DEF ReadFails, Others, Reads
    <3>3. CASE Retry(w) /\ TriesLeft(workers[w])
      BY <1>10, <3>3 DEF Retry, Others
    <3>4. CASE Retry(w) /\ ~TriesLeft(workers[w])
      <4>1. PICK status \in {"done", "failed"} : rows' = [rows EXCEPT ![c].status = status]
        BY <1>1, <1>10, <3>4 DEF Retry
      <4>2. QED
        BY <1>1, <3>4, <4>1, StatusIs DEF Retry, Others, Ended
    <3>5. CASE Crash(w)
      BY <1>10, <3>5 DEF Crash
    <3>6. QED
      BY <1>10, <3>1, <3>2, <3>3, <3>4, <3>5
  <2>4. asks = 0 => \A d \in Contents : Counted(d)' /\ Alone(d)'
    BY <1>1, <1>10, <2>2, <2>3, LeaveStays DEF QueueInv
  <2>5. QED
    BY <1>2, <2>1, <2>4
<1>11. ASSUME NEW w \in Workers, NEW c \in Contents, workers[w].row = c, Unavailable(w)
       PROVE  QueueInv'
  <2>1. /\ UNCHANGED <<asks, jobs, tasks, losses>> /\ Reads(w, c)
        /\ rows' = [rows EXCEPT ![c].status = "pending"]
        /\ workers' = [workers EXCEPT ![w] = [workers[w] EXCEPT !.at = "unavailable"]]
        /\ workers[w] \in Work /\ workers \in [Workers -> Work]
    BY <1>11 DEF Unavailable, Others, Reads, Typed, OcrTypeOK
  <2>2. /\ rows'[c].status = "pending" /\ rows'[c].stale = rows[c].stale
        /\ \A d \in Contents : d # c => rows'[d] = rows[d]
    BY <1>1, <2>1, StatusIs DEF Active
  <2>3. /\ workers'[w].at = "unavailable" /\ workers'[w].row = c
        /\ \A v \in Workers : v # w => workers'[v] = workers[v]
    BY <1>11, <2>1 DEF Work
  <2>4. \A d \in Contents : Waiting(d)' = Waiting(d) /\ Holding(d)' = Holding(d)
    BY <1>11, <2>1, <2>3 DEF Waiting, Holding
  <2>5. \A v \in Workers : Reads(v, c)' <=> Reads(v, c) /\ v # w
    BY <2>3 DEF Reads
  <2>6. ASSUME asks = 0 PROVE \A d \in Contents : Counted(d)' /\ Alone(d)'
    <3>1. \A d \in Contents : Counted(d) /\ Alone(d)
      BY <2>6 DEF QueueInv
    <3>2. Holding(c) # {}
      BY <1>11 DEF Holding
    <3>3. Copies(c)' = Copies(c) /\ Copies(c) \in Nat
      BY <2>4, CopiesAre DEF Copies
    <3>4. Counted(c)'
      BY <2>1, <2>2, <2>4, <3>1, <3>2, <3>3 DEF Counted
    <3>5. Alone(c)'
      BY <2>1, <2>5, <3>1 DEF Alone
    <3>6. losses' >= losses
      BY <1>1, <2>1
    <3>7. \A d \in Contents : d # c =>
            \A v \in Workers : workers[v].row = d \/ workers'[v].row = d => workers'[v] = workers[v]
      BY <1>11, <2>3
    <3>8. QED
      BY <1>1, <2>2, <2>4, <3>1, <3>4, <3>5, <3>6, <3>7, OtherRows
  <2>7. QED
    BY <1>2, <2>1, <2>6
<1>12. ASSUME NEW c \in Contents, BecomeStale(c) PROVE QueueInv'
  <2>1. asks = 0 => \A d \in Contents : Counted(d)' /\ Alone(d)'
    BY <1>1, <1>12, StaleStays DEF QueueInv
  <2>2. QED
    BY <1>2, <1>12, <2>1 DEF BecomeStale
<1>13. ASSUME NEW task \in tasks, Lose(task) PROVE QueueInv'
  <2>1. asks = 0 => \A d \in Contents : Counted(d)' /\ Alone(d)'
    BY <1>1, <1>13, LoseStays DEF QueueInv
  <2>2. QED
    BY <1>2, <1>13, <2>1 DEF Lose
<1>14. \A w \in Workers : Conclude(w) \/ ReadFails(w) \/ Retry(w) \/ Unavailable(w) \/ Crash(w)
                          => workers[w].row \in Contents
  BY <1>1 DEF Conclude, ReadFails, Retry, Unavailable, Crash, Typed
<1>15. QED
  BY <1>3, <1>4, <1>5, <1>6, <1>7, <1>8, <1>9, <1>10, <1>11, <1>12, <1>13, <1>14, SchedulersAre
     DEF Next, Requested, Scanning, Reading, Time, Proceed, Run

(* However saves, scans, late and repeated messages, retries and killed    *)
(* workers interleave: a row has the text of its own file, one row is the  *)
(* document's, and, until a reading is asked for or a second message goes  *)
(* astray, one worker at most reads a row.                                 *)
THEOREM ReadingsAreApart == ASSUME QueueConstants PROVE Spec => []ReadingsStayApart
<1>1. Init => RowsInv
  BY RestsAre DEF Init, RowsInv
<1>2. Init => QueueInv
  <2> SUFFICES ASSUME Init PROVE QueueInv
    OBVIOUS
  <2>1. Typed
    BY InitTypes
  <2>2. ASSUME NEW c \in Contents PROVE Counted(c) /\ Alone(c)
    <3>1. /\ rows[c].status = "none" /\ tasks = {} /\ losses = 0
          /\ \A w \in Workers : workers[w] = AtRest
      BY RestsAre DEF Init
    <3>2. /\ Waiting(c) = {} /\ Holding(c) = {} /\ \A w \in Workers : ~Reads(w, c)
      BY <3>1, RestsAre DEF Waiting, Holding, Reads, QueueConstants
    <3>3. Copies(c) = 0
      BY <3>2, FS_EmptySet DEF Copies
    <3>4. QED
      BY <3>1, <3>2, <3>3 DEF Counted, Alone, Active
  <2>3. jobs[Manual].at = "off"
    BY SchedulersAre, RestsAre DEF Init
  <2>4. QED
    BY <2>2, <2>3 DEF QueueInv
<1>3. RowsInv /\ QueueInv => ReadingsStayApart
  BY DEF RowsInv, QueueInv, Alone, ReadingsStayApart
<1>4. QED
  BY <1>1, <1>2, <1>3, InitTypes, NextTypes, RowsStay, QueueStays, PTL DEF Spec

-----------------------------------------------------------------------------
(* Managed assets.                                                         *)

CONSTANTS AssetContents, MaxAssets
VARIABLES assets, stored, refs, forms, removal, struck
M == INSTANCE AssetLibrary WITH Contents <- AssetContents, rows <- assets

LEMMA LibraryRowsAre ==
  /\ 0 \notin M!Assets /\ M!Legacy \notin M!Assets /\ M!Legacy \in M!Files /\ M!Assets \subseteq M!Files
  /\ M!Legacy \in M!Checksums /\ AssetContents \subseteq M!Checksums
  /\ M!NoRow \in M!Row /\ M!NoRow.is = "none"
  /\ "product" \in M!Holders
BY DEF M!Assets, M!Legacy, M!Files, M!Checksums, M!NoRow, M!Row, M!Holders

AssetForm == [at : {"off", "storing", "chosen", "adopting", "saving"},
         content : M!Checksums, asset : M!Assets \cup {0}]
Removal == [at : {"off", "removing", "checking", "deleting", "pruning"},
            left : SUBSET M!Assets, file : M!Files]

LEMMA FormsAre ==
  /\ M!NoForm \in AssetForm /\ M!NoForm.at = "off"
  /\ M!NoRemoval \in Removal /\ M!NoRemoval.at = "off"
  /\ \A a \in M!Assets : M!Picked(a) \in AssetForm /\ M!Picked(a).at = "chosen"
BY LibraryRowsAre DEF M!NoForm, AssetForm, M!NoRemoval, Removal, M!Picked

LEMMA AddIs ==
  ASSUME assets \in [M!Assets -> M!Row], NEW a \in M!Assets, NEW c \in M!Checksums,
         NEW file \in M!Files, M!Add(a, c, file)
  PROVE  /\ assets' \in [M!Assets -> M!Row]
         /\ assets'[a].is = "there" /\ assets'[a].file = file
         /\ \A b \in M!Assets : b # a => assets'[b] = assets[b]
BY DEF M!Add, M!Row

LEMMA GoneIs ==
  ASSUME assets \in [M!Assets -> M!Row], NEW a \in M!Assets,
         assets' = [assets EXCEPT ![a].is = "gone"]
  PROVE  /\ assets' \in [M!Assets -> M!Row]
         /\ assets'[a].is = "gone" /\ assets'[a].file = assets[a].file
         /\ \A b \in M!Assets : b # a => assets'[b] = assets[b]
<1>1. assets[a] \in M!Row /\ assets' = [assets EXCEPT ![a] = [assets[a] EXCEPT !.is = "gone"]]
  OBVIOUS
<1>2. assets'[a] = [assets[a] EXCEPT !.is = "gone"] /\ assets'[a] \in M!Row
  BY <1>1 DEF M!Row
<1>3. QED
  BY <1>1, <1>2 DEF M!Row

-----------------------------------------------------------------------------
(* Type correctness.                                                       *)

LEMMA LibraryTypesAre ==
  M!AssetsTypeOK <=> /\ assets \in [M!Assets -> M!Row] /\ stored \subseteq M!Files
                     /\ struck \subseteq M!Files /\ refs \in [M!Holders -> M!Assets \cup {0}]
                     /\ forms \in [M!Holders -> AssetForm] /\ removal \in Removal
BY DEF M!AssetsTypeOK, AssetForm, Removal

LEMMA LibraryInit == M!Init => M!AssetsTypeOK
BY LibraryRowsAre, FormsAre, LibraryTypesAre DEF M!Init, M!Holders

LEMMA FormTypes ==
  ASSUME M!AssetsTypeOK, NEW h \in M!Holders,
         M!Clean(h) \/ M!Save(h) \/ M!Clear(h) \/ M!Leave(h)
         \/ (\E c \in AssetContents : M!Upload(h, c)) \/ (\E a \in M!Assets : M!Choose(h, a))
  PROVE  M!AssetsTypeOK'
<1>1. forms \in [M!Holders -> AssetForm] /\ refs \in [M!Holders -> M!Assets \cup {0}]
  BY LibraryTypesAre
<1>2. forms' \in [M!Holders -> AssetForm]
  <2>1. CASE M!Clean(h)
    <3>1. forms[h] \in AssetForm /\ [forms[h] EXCEPT !.at = "saving"] \in AssetForm
      BY <1>1 DEF AssetForm
    <3>2. forms' = [forms EXCEPT ![h] = IF M!There(forms[h].asset)
                                        THEN [forms[h] EXCEPT !.at = "saving"] ELSE M!NoForm]
      BY <2>1 DEF M!Clean
    <3>3. QED
      BY <1>1, <3>1, <3>2, FormsAre
  <2>2. CASE M!Save(h) \/ M!Leave(h)
    BY <1>1, <2>2, FormsAre DEF M!Save, M!Leave
  <2>3. CASE M!Clear(h)
    BY <1>1, <2>3 DEF M!Clear
  <2>4. ASSUME NEW c \in AssetContents, M!Upload(h, c) PROVE forms' \in [M!Holders -> AssetForm]
    <3>1. [M!NoForm EXCEPT !.at = "storing", !.content = c] \in AssetForm
      BY LibraryRowsAre DEF M!NoForm, AssetForm
    <3>2. \A a \in M!Same(c) : M!Picked(a) \in AssetForm
      BY FormsAre DEF M!Same
    <3>3. QED
      BY <1>1, <2>4, <3>1, <3>2 DEF M!Upload
  <2>5. ASSUME NEW a \in M!Assets, M!Choose(h, a) PROVE forms' \in [M!Holders -> AssetForm]
    BY <1>1, <2>5, FormsAre DEF M!Choose
  <2>6. QED
    BY <2>1, <2>2, <2>3, <2>4, <2>5
<1>3. refs' \in [M!Holders -> M!Assets \cup {0}]
  <2>1. forms[h].asset \in M!Assets \cup {0}
    BY <1>1 DEF AssetForm
  <2>2. QED
    BY <1>1, <2>1 DEF M!Clean, M!Save, M!Clear, M!Leave, M!Upload, M!Choose
<1>4. UNCHANGED <<assets, stored, removal, struck>>
  BY DEF M!Clean, M!Save, M!Clear, M!Leave, M!Upload, M!Choose
<1>5. QED
  BY <1>2, <1>3, <1>4 DEF M!AssetsTypeOK, AssetForm

LEMMA LibraryTypes == M!AssetsTypeOK /\ [M!Next]_M!library => M!AssetsTypeOK'
<1> SUFFICES ASSUME M!AssetsTypeOK, [M!Next]_M!library PROVE M!AssetsTypeOK'
  OBVIOUS
<1>1. /\ assets \in [M!Assets -> M!Row] /\ stored \subseteq M!Files
      /\ struck \subseteq M!Files /\ refs \in [M!Holders -> M!Assets \cup {0}]
      /\ forms \in [M!Holders -> AssetForm] /\ removal \in Removal
  BY LibraryTypesAre
<1>2. CASE UNCHANGED M!library
  BY <1>2 DEF M!library, M!AssetsTypeOK
<1>3. CASE M!Adopt
  <2> DEFINE at == IF M!Same(M!Legacy) = {} THEN "adopting" ELSE "saving"
             asset == IF M!Same(M!Legacy) = {} THEN 0 ELSE CHOOSE a \in M!Same(M!Legacy) : TRUE
  <2>1. forms' = [forms EXCEPT !["product"].at = at, !["product"].asset = asset]
    BY <1>3 DEF M!Adopt
  <2>2. at \in {"adopting", "saving"} /\ asset \in M!Assets \cup {0}
    BY DEF M!Same
  <2> HIDE DEF at, asset
  <2>3. [forms["product"] EXCEPT !.at = at, !.asset = asset] \in AssetForm
    BY <1>1, <2>2, LibraryRowsAre DEF AssetForm
  <2>4. forms' = [forms EXCEPT !["product"] = [forms["product"] EXCEPT !.at = at, !.asset = asset]]
    BY <2>1
  <2>5. forms' \in [M!Holders -> AssetForm]
    BY <1>1, <2>3, <2>4
  <2>6. QED
    BY <1>3, <2>5 DEF M!Adopt, M!AssetsTypeOK, AssetForm
<1>4. ASSUME NEW a \in M!Assets, M!Adopted(a) PROVE M!AssetsTypeOK'
  <2>1. assets' \in [M!Assets -> M!Row]
    BY <1>1, <1>4, AddIs, LibraryRowsAre DEF M!Adopted
  <2>2. [forms["product"] EXCEPT !.at = "saving", !.asset = a] \in AssetForm
    BY <1>1, LibraryRowsAre DEF AssetForm
  <2>3. forms' = [forms EXCEPT !["product"] = [forms["product"] EXCEPT !.at = "saving", !.asset = a]]
    BY <1>4 DEF M!Adopted
  <2>4. forms' \in [M!Holders -> AssetForm] /\ struck' \subseteq M!Files
    BY <1>1, <1>4, <2>2, <2>3, LibraryRowsAre DEF M!Adopted
  <2>5. QED
    BY <1>4, <2>1, <2>4 DEF M!Adopted, M!AssetsTypeOK, AssetForm
<1>5. ASSUME NEW h \in M!Holders, NEW a \in M!Assets, M!Create(h, a) PROVE M!AssetsTypeOK'
  <2>1. forms[h].content \in M!Checksums
    BY <1>1 DEF AssetForm
  <2>2. assets' \in [M!Assets -> M!Row]
    BY <1>1, <1>5, <2>1, AddIs, LibraryRowsAre DEF M!Create
  <2>3. forms' \in [M!Holders -> AssetForm] /\ stored' \subseteq M!Files
    BY <1>1, <1>5, FormsAre, LibraryRowsAre DEF M!Create
  <2>4. QED
    BY <1>5, <2>2, <2>3 DEF M!Create, M!AssetsTypeOK, AssetForm
<1>6. ASSUME removal' \in Removal, assets' \in [M!Assets -> M!Row], stored' \subseteq M!Files,
             struck' \subseteq M!Files, UNCHANGED <<refs, forms>>
      PROVE  M!AssetsTypeOK'
  BY <1>6 DEF M!AssetsTypeOK, Removal
<1>7. CASE M!CleanUp \/ M!Prune \/ M!EndRemoval \/ (\E a \in M!Assets : M!Delete(a))
  <2>1. \A left \in SUBSET M!Assets : \A at \in {"removing", "pruning"} :
          [M!NoRemoval EXCEPT !.at = at, !.left = left] \in Removal
    BY LibraryRowsAre DEF M!NoRemoval, Removal
  <2>2. removal' \in Removal
    <3>1. CASE M!CleanUp
      <4>1. PICK recent \in SUBSET M!Assets :
              removal' = [M!NoRemoval EXCEPT !.at = "removing",
                            !.left = {a \in M!Assets \ recent : M!There(a) /\ M!Usages(a) = {}}]
        BY <3>1 DEF M!CleanUp
      <4>2. {a \in M!Assets \ recent : M!There(a) /\ M!Usages(a) = {}} \in SUBSET M!Assets
        OBVIOUS
      <4>3. QED
        BY <2>1, <4>1, <4>2
    <3>2. CASE M!Prune
      <4>1. {a \in M!Assets : M!There(a) /\ a \notin M!Declared} \in SUBSET M!Assets
        OBVIOUS
      <4>2. QED
        BY <2>1, <3>2, <4>1 DEF M!Prune
    <3>3. CASE M!EndRemoval
      BY <3>3, FormsAre DEF M!EndRemoval
    <3>4. ASSUME NEW a \in M!Assets, M!Delete(a) PROVE removal' \in Removal
      <4>1. {a} \in SUBSET M!Assets
        OBVIOUS
      <4>2. QED
        BY <2>1, <3>4, <4>1 DEF M!Delete
    <3>5. QED
      BY <1>7, <3>1, <3>2, <3>3, <3>4
  <2>3. QED
    BY <1>1, <1>6, <1>7, <2>2 DEF M!CleanUp, M!Prune, M!EndRemoval, M!Delete
<1>8. ASSUME NEW a \in M!Assets, M!Remove(a) PROVE M!AssetsTypeOK'
  <2>1. assets[a].file \in M!Files
    BY <1>1 DEF M!Row
  <2>2. removal' \in Removal
    <3>1. CASE M!There(a) /\ ~M!Protected(a)
      <4>1. removal' = [removal EXCEPT !.at = "checking", !.left = removal.left \ {a},
                                       !.file = assets[a].file]
        BY <1>8, <3>1 DEF M!Remove
      <4>2. QED
        BY <1>1, <2>1, <4>1 DEF Removal
    <3>2. CASE ~(M!There(a) /\ ~M!Protected(a))
      <4>1. removal' = [removal EXCEPT !.left = removal.left \ {a}]
        BY <1>8, <3>2 DEF M!Remove
      <4>2. QED
        BY <1>1, <4>1 DEF Removal
    <3>3. QED
      BY <3>1, <3>2
  <2>3. assets' \in [M!Assets -> M!Row]
    BY <1>1, <1>8, GoneIs DEF M!Remove
  <2>4. QED
    BY <1>1, <1>6, <1>8, <2>2, <2>3 DEF M!Remove
<1>9. CASE M!CheckFile
  <2>1. removal' \in Removal
    BY <1>1, <1>9 DEF M!CheckFile, Removal
  <2>2. QED
    BY <1>1, <1>6, <1>9, <2>1 DEF M!CheckFile
<1>10. CASE M!DeleteFile
  <2>1. removal' \in Removal
    BY <1>1, <1>10, LibraryRowsAre DEF M!DeleteFile, Removal
  <2>2. QED
    BY <1>1, <1>6, <1>10, <2>1, LibraryRowsAre DEF M!DeleteFile
<1>11. ASSUME NEW a \in M!Assets, M!Strike(a) PROVE M!AssetsTypeOK'
  <2>1. assets[a].file \in M!Files
    BY <1>1 DEF M!Row
  <2>2. removal' \in Removal
    BY <1>1, <1>11 DEF M!Strike, Removal
  <2>3. assets' \in [M!Assets -> M!Row]
    BY <1>1, <1>11, GoneIs DEF M!Strike
  <2>4. QED
    BY <1>1, <1>6, <1>11, <2>1, <2>2, <2>3 DEF M!Strike
<1>12. QED
  BY <1>2, <1>3, <1>4, <1>5, <1>7, <1>8, <1>9, <1>10, <1>11, FormTypes DEF M!Next

(* Every field keeps its range.                                            *)
THEOREM LibraryTypeCorrect == M!Spec => []M!AssetsTypeOK
BY LibraryInit, LibraryTypes, PTL DEF M!Spec

-----------------------------------------------------------------------------
(* What a record points at is kept.  Two removals look at an asset's uses  *)
(* and at its file's other rows before they act, so the invariant also     *)
(* says what stays true between the look and the act: the file about to be *)
(* deleted is the old one or that of a row that is gone, so that no new    *)
(* row's file can be it, and no row has it but one adopted meanwhile.      *)

LibraryInv ==
  /\ \A a \in M!Assets : assets[a].is # "none" => assets[a].file \in {a, M!Legacy}
  /\ \A a \in M!Assets : M!There(a) => assets[a].file \in stored \cup struck
  /\ \A h \in M!Holders : refs[h] # 0 => M!There(refs[h])
  /\ forms["product"].at = "adopting" => M!Legacy \in stored \cup struck
  /\ removal.at \in {"checking", "deleting"} /\ removal.file # M!Legacy =>
       assets[removal.file].is = "gone"
  /\ removal.at = "deleting" =>
       \A a \in M!Assets : M!There(a) /\ assets[a].file = removal.file => removal.file \in struck
  /\ removal.at = "pruning" => \A a \in removal.left : assets[a].is # "none"

LEMMA LibraryStays == M!AssetsTypeOK /\ LibraryInv /\ [M!Next]_M!library => LibraryInv'
<1> SUFFICES ASSUME M!AssetsTypeOK, LibraryInv, [M!Next]_M!library PROVE LibraryInv'
  OBVIOUS
<1>1. /\ assets \in [M!Assets -> M!Row] /\ stored \subseteq M!Files
      /\ struck \subseteq M!Files /\ refs \in [M!Holders -> M!Assets \cup {0}]
      /\ forms \in [M!Holders -> AssetForm] /\ removal \in Removal
  BY LibraryTypesAre
<1>2. ASSUME UNCHANGED <<assets, stored, removal, struck>>,
             \A h \in M!Holders : refs'[h] # 0 => M!There(refs'[h]),
             forms'["product"].at = "adopting" => M!Legacy \in stored \cup struck
      PROVE  LibraryInv'
  BY <1>2 DEF LibraryInv, M!There
<1>3. CASE UNCHANGED M!library
  BY <1>2, <1>3 DEF M!library, LibraryInv
<1>4. ASSUME NEW h \in M!Holders,
             M!Clean(h) \/ M!Save(h) \/ M!Clear(h) \/ M!Leave(h)
             \/ (\E c \in AssetContents : M!Upload(h, c))
             \/ (\E a \in M!Assets : M!Choose(h, a))
      PROVE  LibraryInv'
  <2>1. UNCHANGED <<assets, stored, removal, struck>>
    BY <1>4 DEF M!Clean, M!Save, M!Clear, M!Leave, M!Upload, M!Choose
  <2>2. \A g \in M!Holders : refs'[g] # 0 => M!There(refs'[g])
    BY <1>1, <1>4 DEF M!Clean, M!Save, M!Clear, M!Leave, M!Upload, M!Choose, LibraryInv
  <2>3. forms'["product"].at = "adopting" => forms["product"].at = "adopting"
    <3>1. CASE M!Clear(h)
      BY <3>1 DEF M!Clear
    <3>2. CASE forms' = [forms EXCEPT ![h] = M!NoForm]
      BY <1>1, <3>2, FormsAre, LibraryRowsAre
    <3>3. CASE M!Clean(h)
      <4>1. forms[h] \in AssetForm /\ [forms[h] EXCEPT !.at = "saving"].at = "saving"
        BY <1>1 DEF AssetForm
      <4>2. forms'[h].at \in {"saving", "off"} /\ \A g \in M!Holders : g # h => forms'[g] = forms[g]
        BY <1>1, <3>3, <4>1, FormsAre DEF M!Clean
      <4>3. QED
        BY <4>2, LibraryRowsAre
    <3>4. ASSUME NEW c \in AssetContents, M!Upload(h, c)
          PROVE  forms'["product"].at = "adopting" => forms["product"].at = "adopting"
      <4>1. [M!NoForm EXCEPT !.at = "storing", !.content = c].at = "storing"
        BY DEF M!NoForm
      <4>2. \A a \in M!Same(c) : M!Picked(a).at = "chosen"
        BY FormsAre DEF M!Same
      <4>3. forms'[h].at \in {"storing", "chosen"} /\ \A g \in M!Holders : g # h => forms'[g] = forms[g]
        BY <1>1, <3>4, <4>1, <4>2 DEF M!Upload
      <4>4. QED
        BY <4>3, LibraryRowsAre
    <3>5. ASSUME NEW a \in M!Assets, M!Choose(h, a)
          PROVE  forms'["product"].at = "adopting" => forms["product"].at = "adopting"
      BY <1>1, <3>5, FormsAre, LibraryRowsAre DEF M!Choose
    <3>6. QED
      BY <1>4, <3>1, <3>2, <3>3, <3>4, <3>5 DEF M!Save, M!Leave
  <2>4. QED
    BY <1>2, <2>1, <2>2, <2>3 DEF LibraryInv
<1>5. CASE M!Adopt
  <2>1. UNCHANGED <<assets, stored, refs, removal, struck>> /\ M!Legacy \in stored
    BY <1>5 DEF M!Adopt
  <2>2. QED
    BY <1>2, <2>1 DEF LibraryInv
<1>6. ASSUME NEW a \in M!Assets, M!Adopted(a) PROVE LibraryInv'
  <2>1. /\ assets'[a].is = "there" /\ assets'[a].file = M!Legacy
        /\ \A b \in M!Assets : b # a => assets'[b] = assets[b]
        /\ assets[a].is = "none" /\ forms["product"].at = "adopting"
        /\ UNCHANGED <<stored, refs, removal>> /\ struck \subseteq struck'
    BY <1>1, <1>6, AddIs, LibraryRowsAre DEF M!Adopted, M!Fresh
  <2>2. forms'["product"].at = "saving"
    BY <1>1, <1>6, LibraryRowsAre DEF M!Adopted, AssetForm
  <2>3. removal.at = "deleting" /\ removal.file = M!Legacy => M!Legacy \in struck'
    BY <1>6 DEF M!Adopted
  <2>4. \A b \in M!Assets : M!There(b) => M!There(b)'
    BY <2>1 DEF M!There
  <2>5. removal.file \in M!Files /\ (removal.file = a => removal.file # M!Legacy)
    BY <1>1, LibraryRowsAre DEF Removal
  <2>6. \A b \in M!Assets : M!There(b)' => b = a \/ (M!There(b) /\ assets'[b] = assets[b])
    BY <2>1 DEF M!There
  <2>7. \A b \in M!Assets : assets'[b].is # "none" => assets'[b].file \in {b, M!Legacy}
    BY <2>1 DEF LibraryInv
  <2>8. M!Legacy \in stored' \cup struck'
    BY <2>1 DEF LibraryInv
  <2>9. \A b \in M!Assets : M!There(b)' => assets'[b].file \in stored' \cup struck'
    BY <2>1, <2>6, <2>8 DEF LibraryInv
  <2>10. (\A g \in M!Holders : refs[g] # 0 => M!There(refs[g]))'
    BY <2>1, <2>4 DEF LibraryInv, M!There
  <2>11. removal.at \in {"checking", "deleting"} /\ removal.file # M!Legacy =>
           assets'[removal.file].is = "gone"
    BY <2>1, <2>5, LibraryRowsAre DEF LibraryInv, M!Files
  <2>12. removal.at = "deleting" =>
           \A b \in M!Assets : M!There(b)' /\ assets'[b].file = removal.file => removal.file \in struck'
    BY <2>1, <2>3, <2>6 DEF LibraryInv
  <2>13. removal.at = "pruning" => \A b \in removal.left : assets'[b].is # "none"
    BY <1>1, <2>1 DEF LibraryInv, Removal
  <2>14. QED
    BY <2>1, <2>2, <2>7, <2>8, <2>9, <2>10, <2>11, <2>12, <2>13 DEF LibraryInv
<1>7. ASSUME NEW h \in M!Holders, NEW a \in M!Assets, M!Create(h, a) PROVE LibraryInv'
  <2>1. forms[h].content \in M!Checksums
    BY <1>1 DEF AssetForm
  <2>2. /\ assets'[a].is = "there" /\ assets'[a].file = a
        /\ \A b \in M!Assets : b # a => assets'[b] = assets[b]
        /\ assets[a].is = "none" /\ stored' = stored \cup {a}
        /\ UNCHANGED <<refs, removal, struck>>
    BY <1>1, <1>7, <2>1, AddIs, LibraryRowsAre DEF M!Create, M!Fresh
  <2>3. forms'["product"].at = "adopting" => forms["product"].at = "adopting"
    BY <1>1, <1>7, FormsAre, LibraryRowsAre DEF M!Create
  <2>4. \A b \in M!Assets : M!There(b) => M!There(b)'
    BY <2>2 DEF M!There
  <2>5. removal.file \in M!Files
    BY <1>1 DEF Removal
  <2>6. removal.at \in {"checking", "deleting"} => removal.file # a
    BY <2>2, LibraryRowsAre DEF LibraryInv
  <2>7. \A b \in M!Assets : M!There(b)' => b = a \/ (M!There(b) /\ assets'[b] = assets[b])
    BY <2>2 DEF M!There
  <2>8. \A b \in M!Assets : assets'[b].is # "none" => assets'[b].file \in {b, M!Legacy}
    BY <2>2 DEF LibraryInv
  <2>9. \A b \in M!Assets : M!There(b)' => assets'[b].file \in stored' \cup struck'
    BY <2>2, <2>7 DEF LibraryInv
  <2>10. (\A g \in M!Holders : refs[g] # 0 => M!There(refs[g]))'
    BY <2>2, <2>4 DEF LibraryInv, M!There
  <2>11. removal.at \in {"checking", "deleting"} /\ removal.file # M!Legacy =>
           assets'[removal.file].is = "gone"
    BY <2>2, <2>5, <2>6, LibraryRowsAre DEF LibraryInv, M!Files
  <2>12. removal.at = "deleting" =>
           \A b \in M!Assets : M!There(b)' /\ assets'[b].file = removal.file => removal.file \in struck'
    BY <2>2, <2>6, <2>7 DEF LibraryInv
  <2>13. removal.at = "pruning" => \A b \in removal.left : assets'[b].is # "none"
    BY <1>1, <2>2 DEF LibraryInv, Removal
  <2>14. forms'["product"].at = "adopting" => M!Legacy \in stored' \cup struck'
    BY <2>2, <2>3 DEF LibraryInv
  <2>15. QED
    BY <2>2, <2>8, <2>9, <2>10, <2>11, <2>12, <2>13, <2>14 DEF LibraryInv
<1>8. CASE M!CleanUp \/ M!Prune \/ M!EndRemoval \/ (\E a \in M!Assets : M!Delete(a))
  <2>1. /\ removal'.at \in {"removing", "pruning", "off"}
        /\ removal'.at = "pruning" => \A a \in removal'.left : assets[a].is # "none"
    <3>1. CASE M!CleanUp
      <4>1. removal'.at = "removing"
        BY <3>1 DEF M!CleanUp, M!NoRemoval
      <4>2. QED
        BY <4>1
    <3>2. CASE M!Prune
      <4>1. /\ removal'.at = "pruning"
            /\ removal'.left = {a \in M!Assets : M!There(a) /\ a \notin M!Declared}
        BY <3>2 DEF M!Prune, M!NoRemoval
      <4>2. QED
        BY <4>1 DEF M!There
    <3>3. CASE M!EndRemoval
      BY <3>3, FormsAre DEF M!EndRemoval
    <3>4. ASSUME NEW a \in M!Assets, M!Delete(a) PROVE removal'.at = "removing"
      BY <3>4 DEF M!Delete, M!NoRemoval
    <3>5. QED
      BY <1>8, <3>1, <3>2, <3>3, <3>4
  <2>2. UNCHANGED <<assets, stored, refs, forms, struck>>
    BY <1>8 DEF M!CleanUp, M!Prune, M!EndRemoval, M!Delete
  <2>3. QED
    BY <2>1, <2>2 DEF LibraryInv, M!There
<1>9. ASSUME NEW a \in M!Assets, M!Remove(a) PROVE LibraryInv'
  <2>1. CASE M!There(a) /\ ~M!Protected(a)
    <3>1. /\ assets'[a].is = "gone" /\ assets'[a].file = assets[a].file
          /\ \A b \in M!Assets : b # a => assets'[b] = assets[b]
          /\ assets[a].is # "none" /\ \A h \in M!Holders : refs[h] # a
      BY <1>1, <1>9, <2>1, GoneIs DEF M!Remove, M!There, M!Protected
    <3>2. removal'.at = "checking" /\ removal'.file = assets[a].file
      BY <1>1, <1>9, <2>1 DEF M!Remove, Removal
    <3>3. UNCHANGED <<stored, refs, forms, struck>>
      BY <1>9 DEF M!Remove
    <3>4. \A b \in M!Assets : M!There(b)' => M!There(b) /\ assets'[b] = assets[b]
      BY <3>1 DEF M!There
    <3>5. assets[a].file \in {a, M!Legacy}
      BY <3>1 DEF LibraryInv
    <3>6. QED
      BY <1>1, <3>1, <3>2, <3>3, <3>4, <3>5, LibraryRowsAre DEF LibraryInv, M!There
  <2>2. CASE ~(M!There(a) /\ ~M!Protected(a))
    <3>1. UNCHANGED <<assets, stored, refs, forms, struck>> /\ removal'.at = "removing"
      BY <1>1, <1>9, <2>2 DEF M!Remove, Removal
    <3>2. QED
      BY <3>1 DEF LibraryInv, M!There
  <2>3. QED
    BY <2>1, <2>2
<1>10. CASE M!CheckFile
  <2>1. /\ removal'.at \in {"deleting", "removing"} /\ removal'.file = removal.file
        /\ removal'.at = "deleting" => M!Alone(removal.file)
        /\ removal.at = "checking" /\ UNCHANGED <<assets, stored, refs, forms, struck>>
    BY <1>1, <1>10 DEF M!CheckFile, Removal
  <2>2. QED
    BY <2>1 DEF LibraryInv, M!There, M!Alone
<1>11. CASE M!DeleteFile
  <2>1. /\ removal.at = "deleting" /\ stored' = stored \ {removal.file}
        /\ removal'.at = "removing" /\ UNCHANGED <<assets, refs, forms>>
        /\ struck \subseteq struck'
        /\ removal.file = M!Legacy /\ forms["product"].at = "adopting" => M!Legacy \in struck'
    BY <1>1, <1>11 DEF M!DeleteFile, Removal
  <2>2. \A a \in M!Assets : M!There(a) => assets[a].file \in stored' \cup struck'
    BY <2>1 DEF LibraryInv
  <2>3. QED
    BY <2>1, <2>2 DEF LibraryInv, M!There
<1>12. ASSUME NEW a \in M!Assets, M!Strike(a) PROVE LibraryInv'
  <2>1. /\ stored' = stored \ {assets[a].file} /\ struck' = struck \cup {assets[a].file}
        /\ UNCHANGED <<refs, forms>> /\ removal'.at = "pruning"
    BY <1>1, <1>12 DEF M!Strike, Removal
  <2>2. \A b \in removal'.left : b \in removal.left
    BY <1>1, <1>12 DEF M!Strike, Removal
  <2>3. CASE M!Protected(a)
    BY <1>12, <2>1, <2>3, <2>2 DEF M!Strike, LibraryInv, M!There
  <2>4. CASE ~M!Protected(a)
    <3>1. /\ assets'[a].is = "gone" /\ assets'[a].file = assets[a].file
          /\ \A b \in M!Assets : b # a => assets'[b] = assets[b]
          /\ \A h \in M!Holders : refs[h] # a
      BY <1>1, <1>12, <2>4, GoneIs DEF M!Strike, M!Protected
    <3>2. \A b \in M!Assets : M!There(b)' => M!There(b) /\ assets'[b] = assets[b]
      BY <3>1 DEF M!There
    <3>3. (\A h \in M!Holders : refs[h] # 0 => M!There(refs[h]))'
      <4>1. \A h \in M!Holders : refs[h] # 0 => M!There(refs[h]) /\ refs[h] # a
        BY <3>1 DEF LibraryInv
      <4>2. refs' = refs /\ \A b \in M!Assets : M!There(b) /\ b # a => M!There(b)'
        BY <2>1, <3>1 DEF M!There
      <4>3. \A h \in M!Holders : refs[h] # 0 => refs[h] \in M!Assets /\ M!There(refs[h])'
        BY <4>1, <4>2 DEF M!There
      <4>4. QED
        BY <4>2, <4>3
    <3>4. assets[a].is # "none"
      BY <1>12 DEF M!Strike, LibraryInv
    <3>5. \A b \in M!Assets : M!There(b)' => assets'[b].file \in stored' \cup struck'
      BY <2>1, <3>2 DEF LibraryInv
    <3>6. \A b \in M!Assets : assets'[b].is # "none" => assets'[b].file \in {b, M!Legacy}
      BY <3>1, <3>4 DEF LibraryInv
    <3>7. \A b \in removal'.left : assets'[b].is # "none"
      <4>1. \A b \in removal'.left : b \in M!Assets /\ assets[b].is # "none"
        BY <1>1, <1>12, <2>2 DEF M!Strike, LibraryInv, Removal
      <4>2. QED
        BY <3>1, <4>1
    <3>8. forms'["product"].at = "adopting" => M!Legacy \in stored' \cup struck'
      BY <2>1 DEF LibraryInv
    <3>9. QED
      BY <2>1, <3>3, <3>5, <3>6, <3>7, <3>8 DEF LibraryInv
  <2>5. QED
    BY <2>3, <2>4
<1>13. QED
  BY <1>3, <1>4, <1>5, <1>6, <1>7, <1>8, <1>9, <1>10, <1>11, <1>12 DEF M!Next

(* However forms, deletes, clean-ups and the pruning command interleave    *)
(* and share files, a record points at a row that is there, with its file, *)
(* unless the command struck that file.                                    *)
THEOREM ReferencesAreKept == M!Spec => []M!ReferencedIsKept
<1>1. M!Init => LibraryInv
  BY FormsAre, LibraryRowsAre DEF M!Init, LibraryInv, M!There
<1>2. M!AssetsTypeOK /\ LibraryInv => M!ReferencedIsKept
  BY LibraryTypesAre DEF LibraryInv, M!ReferencedIsKept
<1>3. QED
  BY <1>1, <1>2, LibraryInit, LibraryTypes, LibraryStays, PTL DEF M!Spec

-----------------------------------------------------------------------------
(* One document and the history of its file.                               *)

CONSTANTS Editors, MaxFiles, MaxSaves, MaxTime
VARIABLES doc, versions, names, opened, editor, deletion, clock, alone, replaced, crossed
D == INSTANCE DocumentFiles WITH Forms <- Editors, forms <- opened

LEMMA NamesCounted == ASSUME NEW S PROVE D!Cardinality(S) = Cardinality(S)
BY DEF D!Cardinality, Cardinality

(* The bounds are numbers, and a document is saved once.                   *)
DocumentConstants == MaxFiles \in Nat /\ MaxSaves \in Nat \ {0} /\ MaxTime \in Nat

(* The types; a form has loaded a document that was there.                 *)
DocumentTypes ==
  /\ D!DocumentsTypeOK /\ names \subseteq 1..MaxFiles
  /\ \A f \in Editors : opened[f].at = "loaded" => opened[f].doc.deleted_at = 0

LEMMA DocumentsInit == ASSUME DocumentConstants PROVE D!Init => DocumentTypes
<1> SUFFICES ASSUME D!Init PROVE DocumentTypes
  OBVIOUS
<1>1. /\ versions = <<>> /\ versions \in Seq([of : D!Names, deleted_at : D!Times])
      /\ DOMAIN versions = {}
  BY DEF D!Init
<1>2. doc \in D!Doc /\ deletion \in [at : {"off", "deleting", "deleted", "restored"}, deleted_at : D!Times]
  BY DEF D!Init, DocumentConstants, D!Doc, D!Names, D!Times, D!NoDeletion
<1>3. /\ opened \in [Editors -> {D!NoForm} \cup [at : {"loaded"}, doc : D!Doc]]
      /\ \A f \in Editors : opened[f].at # "loaded"
  BY DEF D!Init, D!NoForm
<1>4. /\ names = {} /\ replaced = {} /\ alone = {} /\ editor \in 0..MaxSaves /\ clock \in D!Times
  BY DEF D!Init, DocumentConstants, D!Times
<1>5. crossed \in BOOLEAN
  BY DEF D!Init
<1>6. QED
  BY <1>1, <1>2, <1>3, <1>4, <1>5 DEF DocumentTypes, D!DocumentsTypeOK

(* The next name is one more than there are.                               *)
LEMMA NextNameIs ==
  ASSUME DocumentConstants, DocumentTypes
  PROVE  D!NextName \in Nat \ {0} /\ (D!NextName # MaxFiles + 1 => D!NextName \in 1..MaxFiles)
<1>1. IsFiniteSet(1..MaxFiles) /\ Cardinality(1..MaxFiles) = MaxFiles
  BY FS_Interval DEF DocumentConstants
<1>2. IsFiniteSet(names) /\ Cardinality(names) <= MaxFiles
  BY <1>1, FS_Subset DEF DocumentTypes
<1>3. Cardinality(names) \in Nat
  BY <1>2, FS_CardinalityType
<1>4. QED
  BY <1>2, <1>3, NamesCounted DEF D!NextName, DocumentConstants

(* archive_previous: the versions stay, and the file before has one.       *)
LEMMA Archived ==
  ASSUME DocumentConstants, DocumentTypes, NEW file \in D!Names
  PROVE  /\ D!Archive(file) \in Seq([of : D!Names, deleted_at : D!Times])
         /\ DOMAIN versions \subseteq DOMAIN D!Archive(file)
         /\ \A v \in DOMAIN versions : D!Archive(file)[v] = versions[v]
         /\ \A v \in DOMAIN D!Archive(file) \ DOMAIN versions : D!Archive(file)[v] = [of |-> file, deleted_at |-> 0]
         /\ file # 0 => \E v \in DOMAIN D!Archive(file) : D!Archive(file)[v].of = file

<1> DEFINE version == [of |-> file, deleted_at |-> 0]
<1>1. versions \in Seq([of : D!Names, deleted_at : D!Times]) /\ version \in [of : D!Names, deleted_at : D!Times]
  BY DEF DocumentTypes, D!DocumentsTypeOK, D!Times, DocumentConstants
<1>2. D!Archive(file) = IF file = 0 THEN versions ELSE Append(versions, version)
  BY DEF D!Archive
<1>3. version.of = file
  OBVIOUS
<1> HIDE DEF version
<1>4. file # 0 => /\ Len(versions) + 1 \in DOMAIN Append(versions, version)
                  /\ Append(versions, version)[Len(versions) + 1] = version
  BY <1>1
<1>5. CASE file = 0
  BY <1>1, <1>2, <1>5
<1>6. CASE file # 0
  <2>1. D!Archive(file) = Append(versions, version)
    BY <1>2, <1>6
  <2>2. /\ Append(versions, version) \in Seq([of : D!Names, deleted_at : D!Times])
        /\ DOMAIN Append(versions, version) = 1..(Len(versions) + 1)
        /\ DOMAIN versions = 1..Len(versions)
    BY <1>1
  <2>3. \A v \in DOMAIN versions : Append(versions, version)[v] = versions[v]
    BY <1>1
  <2>4. \A v \in DOMAIN Append(versions, version) \ DOMAIN versions : v = Len(versions) + 1
    BY <1>1, <2>2
  <2>5. QED
    BY <1>3, <1>4, <1>6, <2>1, <2>2, <2>3, <2>4 DEF version
<1>7. QED
  BY <1>5, <1>6

LEMMA SubmitTypes ==
  ASSUME DocumentConstants, DocumentTypes, NEW f \in Editors, NEW file \in D!Names, D!Submit(f, file)
  PROVE  DocumentTypes'
<1> DEFINE seen == opened[f].doc
<1>1. /\ seen \in D!Doc /\ seen.deleted_at = 0 /\ doc.saves < MaxSaves /\ doc.saves \in 1..MaxSaves
      /\ file \in D!Names /\ doc.file \in D!Names /\ seen.file \in D!Names
  BY DEF D!Submit, DocumentTypes, D!DocumentsTypeOK, D!CanSave, D!NoForm, D!Doc
<1>2. doc' \in D!Doc
  <2>1. doc' = [file |-> file, deleted_at |-> seen.deleted_at, saves |-> doc.saves + 1]
    BY DEF D!Submit
  <2>2. doc.saves + 1 \in 1..MaxSaves
    BY <1>1 DEF DocumentConstants
  <2>3. QED
    BY <1>1, <2>1, <2>2 DEF D!Doc
<1>3. versions' \in Seq([of : D!Names, deleted_at : D!Times]) /\ DOMAIN versions \subseteq DOMAIN versions'
  <2>1. versions' = versions \/ versions' = D!Archive(seen.file)
    BY DEF D!Submit, D!Before
  <2>2. versions \in Seq([of : D!Names, deleted_at : D!Times])
    BY DEF DocumentTypes, D!DocumentsTypeOK
  <2>3. /\ D!Archive(seen.file) \in Seq([of : D!Names, deleted_at : D!Times])
        /\ DOMAIN versions \subseteq DOMAIN D!Archive(seen.file)
    BY <1>1, Archived
  <2>4. QED
    BY <2>1, <2>2, <2>3
<1>4. names' \subseteq 1..MaxFiles
  <2>1. names' = names \cup ({file} \ {0})
    BY DEF D!Submit
  <2>2. {file} \ {0} \subseteq 1..MaxFiles /\ names \subseteq 1..MaxFiles
    BY DEF DocumentTypes, D!Names, DocumentConstants
  <2>3. QED
    BY <2>1, <2>2
<1>5. replaced' \subseteq D!Names
  BY <1>1 DEF D!Submit, DocumentTypes, D!DocumentsTypeOK
<1>6. /\ opened' \in [Editors -> {D!NoForm} \cup [at : {"loaded"}, doc : D!Doc]]
      /\ \A g \in Editors : opened'[g].at = "loaded" => opened'[g].doc.deleted_at = 0
  <2>1. opened' = [opened EXCEPT ![f] = D!NoForm] /\ D!NoForm.at # "loaded"
    BY DEF D!Submit, D!NoForm
  <2>2. opened \in [Editors -> {D!NoForm} \cup [at : {"loaded"}, doc : D!Doc]]
    BY DEF DocumentTypes, D!DocumentsTypeOK
  <2>3. opened' \in [Editors -> {D!NoForm} \cup [at : {"loaded"}, doc : D!Doc]]
    BY <2>1, <2>2
  <2>4. \A g \in Editors : opened'[g] = D!NoForm \/ opened'[g] = opened[g]
    BY <2>1, <2>2
  <2>5. QED
    BY <2>1, <2>3, <2>4 DEF DocumentTypes
<1>7. crossed' \in BOOLEAN
  BY DEF D!Submit, D!Halfway, D!Live
<1>8. names' \subseteq D!Names
  BY <1>4 DEF D!Names, DocumentConstants
<1>9. UNCHANGED <<editor, deletion, clock, alone>>
  BY DEF D!Submit
<1>10. QED
  BY <1>2, <1>3, <1>4, <1>5, <1>6, <1>7, <1>8, <1>9 DEF DocumentTypes, D!DocumentsTypeOK, D!Times

LEMMA DocumentFormTypes ==
  ASSUME DocumentConstants, DocumentTypes, NEW f \in Editors, D!Load(f) \/ D!Refuse(f)
  PROVE  DocumentTypes'
<1>1. doc \in D!Doc /\ (D!Load(f) => doc.deleted_at = 0)
  BY DEF DocumentTypes, D!DocumentsTypeOK, D!Load, D!Live
<1>2. \E form \in {D!NoForm} \cup [at : {"loaded"}, doc : D!Doc] :
        /\ opened' = [opened EXCEPT ![f] = form]
        /\ form.at = "loaded" => form.doc.deleted_at = 0
  <2>1. CASE D!Load(f)
    <3> DEFINE form == [at |-> "loaded", doc |-> doc]
    <3>1. form \in [at : {"loaded"}, doc : D!Doc] /\ form.doc.deleted_at = 0
      BY <1>1, <2>1
    <3>2. opened' = [opened EXCEPT ![f] = form]
      BY <2>1 DEF D!Load
    <3> HIDE DEF form
    <3>3. QED
      BY <3>1, <3>2
  <2>2. CASE D!Refuse(f)
    <3>1. opened' = [opened EXCEPT ![f] = D!NoForm] /\ D!NoForm.at # "loaded"
      BY <2>2 DEF D!Refuse, D!NoForm
    <3>2. QED
      BY <3>1
  <2>3. QED
    BY <2>1, <2>2
<1>3. /\ opened' \in [Editors -> {D!NoForm} \cup [at : {"loaded"}, doc : D!Doc]]
      /\ \A g \in Editors : opened'[g].at = "loaded" => opened'[g].doc.deleted_at = 0
  BY <1>2 DEF DocumentTypes, D!DocumentsTypeOK
<1>4. UNCHANGED <<doc, versions, names, editor, deletion, clock, alone, replaced, crossed>>
  BY DEF D!Load, D!Refuse
<1>5. QED
  BY <1>3, <1>4 DEF DocumentTypes, D!DocumentsTypeOK

LEMMA EditorTypes ==
  ASSUME DocumentConstants, DocumentTypes, D!OpenEditor \/ D!SaveEdited
  PROVE  DocumentTypes'
<1>1. doc \in D!Doc /\ doc.saves \in 0..MaxSaves /\ doc.file \in D!Names
  BY DEF DocumentTypes, D!DocumentsTypeOK, D!Doc
<1>2. editor' \in 0..MaxSaves
  BY <1>1 DEF D!OpenEditor, D!SaveEdited, DocumentConstants
<1>3. UNCHANGED <<opened, deletion, clock, alone, replaced, crossed>>
  BY DEF D!OpenEditor, D!SaveEdited
<1>4. CASE UNCHANGED <<doc, versions, names>>
  BY <1>2, <1>3, <1>4 DEF DocumentTypes, D!DocumentsTypeOK
<1>5. CASE /\ doc' = [doc EXCEPT !.file = D!NextName, !.saves = @ + 1]
           /\ versions' = D!Archive(doc.file) /\ names' = names \cup {D!NextName}
           /\ D!CanSave /\ D!NextName \in D!Names
  <2>1. D!NextName \in 1..MaxFiles
    BY <1>5, NextNameIs DEF D!Names, DocumentConstants
  <2>2. doc.saves + 1 \in 1..MaxSaves
    BY <1>1, <1>5 DEF D!CanSave, DocumentConstants, D!Doc
  <2>3. doc' \in D!Doc
    BY <1>1, <1>5, <2>2 DEF D!Doc
  <2>4. names' \subseteq 1..MaxFiles /\ names' \subseteq D!Names
    BY <1>5, <2>1 DEF DocumentTypes, D!Names, DocumentConstants
  <2>5. versions' \in Seq([of : D!Names, deleted_at : D!Times]) /\ alone' \subseteq DOMAIN versions'
    BY <1>1, <1>3, <1>5, Archived DEF DocumentTypes, D!DocumentsTypeOK
  <2>6. QED
    BY <1>2, <1>3, <2>3, <2>4, <2>5 DEF DocumentTypes, D!DocumentsTypeOK, D!Names, D!Times
<1>6. QED
  BY <1>4, <1>5 DEF D!OpenEditor, D!SaveEdited

(* A clock that advances is a time after all those there were.             *)
LEMMA RowTypes ==
  ASSUME DocumentConstants, DocumentTypes,
         D!LoadToDelete \/ D!Delete \/ D!Restore \/ D!Die \/ D!DeleteAgain \/ D!Reset
  PROVE  DocumentTypes'
<1>1. doc \in D!Doc /\ doc.deleted_at \in D!Times /\ clock \in D!Times /\ 0 \in D!Times
      /\ deletion \in [at : {"off", "deleting", "deleted", "restored"}, deleted_at : D!Times]
      /\ crossed \in BOOLEAN
  BY DEF DocumentTypes, D!DocumentsTypeOK, D!Doc, D!Times, DocumentConstants
<1>2. clock' \in D!Times
  BY <1>1 DEF D!LoadToDelete, D!Delete, D!Restore, D!Die, D!DeleteAgain, D!Reset, D!Times, DocumentConstants
<1>3. doc' \in D!Doc
  <2>1. D!CanSave => doc.saves + 1 \in 1..MaxSaves
    BY <1>1 DEF D!CanSave, DocumentConstants, D!Doc
  <2>2. CASE UNCHANGED doc
    BY <1>1, <2>2
  <2>3. ASSUME NEW time \in D!Times, D!CanSave, doc' = [doc EXCEPT !.deleted_at = time, !.saves = @ + 1]
        PROVE  doc' \in D!Doc
    BY <1>1, <2>1, <2>3 DEF D!Doc
  <2>4. QED
    BY <1>1, <1>2, <2>2, <2>3 DEF D!LoadToDelete, D!Delete, D!Restore, D!Die, D!DeleteAgain, D!Reset
<1>4. deletion' \in [at : {"off", "deleting", "deleted", "restored"}, deleted_at : D!Times]
  BY <1>1, <1>2 DEF D!LoadToDelete, D!Delete, D!Restore, D!Die, D!DeleteAgain, D!Reset, D!NoDeletion
<1>5. crossed' \in BOOLEAN
  BY <1>1 DEF D!LoadToDelete, D!Delete, D!Restore, D!Die, D!DeleteAgain, D!Reset
<1>6. UNCHANGED <<versions, names, opened, editor, alone, replaced>>
  BY DEF D!LoadToDelete, D!Delete, D!Restore, D!Die, D!DeleteAgain, D!Reset
<1>7. QED
  BY <1>2, <1>3, <1>4, <1>5, <1>6 DEF DocumentTypes, D!DocumentsTypeOK

(* The times of the history change, and nothing else of it.                *)
LEMMA ElementsAre ==
  ASSUME NEW S, NEW s \in Seq(S)
  PROVE  \A i \in DOMAIN s : s[i] \in S
OBVIOUS

LEMMA VersionsAre ==
  ASSUME DocumentConstants, DocumentTypes,
         D!CascadeDelete \/ D!CascadeRestore \/ (\E v \in 1..MaxSaves : D!DeleteVersion(v))
  PROVE  versions' \in Seq([of : D!Names, deleted_at : D!Times]) /\ DOMAIN versions' = DOMAIN versions
         /\ \A v \in DOMAIN versions : versions'[v].of = versions[v].of
<1>1. /\ versions \in Seq([of : D!Names, deleted_at : D!Times])
      /\ deletion.deleted_at \in D!Times /\ 0 \in D!Times
      /\ DOMAIN versions = 1..Len(versions) /\ Len(versions) \in Nat
      /\ \A v \in DOMAIN versions : versions[v] \in [of : D!Names, deleted_at : D!Times]
  <2>1. versions \in Seq([of : D!Names, deleted_at : D!Times])
    BY DEF DocumentTypes, D!DocumentsTypeOK
  <2>2. deletion.deleted_at \in D!Times /\ 0 \in D!Times
    BY DEF DocumentTypes, D!DocumentsTypeOK, DocumentConstants, D!Times
  <2>3. DOMAIN versions = 1..Len(versions) /\ Len(versions) \in Nat
    BY <2>1
  <2>4. \A v \in DOMAIN versions : versions[v] \in [of : D!Names, deleted_at : D!Times]
    BY <2>1, ElementsAre
  <2>5. QED
    BY <2>1, <2>2, <2>3, <2>4
<1>2. \E time \in [DOMAIN versions -> D!Times] :
        versions' = [v \in DOMAIN versions |-> [versions[v] EXCEPT !.deleted_at = time[v]]]
  <2>1. CASE D!CascadeDelete
    <3> DEFINE time == [v \in DOMAIN versions |->
                          IF versions[v].deleted_at = 0 THEN deletion.deleted_at ELSE versions[v].deleted_at]
    <3>1. time \in [DOMAIN versions -> D!Times]
      BY <1>1
    <3>2. \A v \in DOMAIN versions :
            (IF versions[v].deleted_at = 0 THEN [versions[v] EXCEPT !.deleted_at = deletion.deleted_at]
             ELSE versions[v]) = [versions[v] EXCEPT !.deleted_at = time[v]]
      BY <1>1
    <3> HIDE DEF time
    <3>3. QED
      BY <2>1, <3>1, <3>2 DEF D!CascadeDelete
  <2>2. CASE D!CascadeRestore
    <3> DEFINE time == [v \in DOMAIN versions |->
                          IF v \in D!DeletedAt(deletion.deleted_at) THEN 0 ELSE versions[v].deleted_at]
    <3>1. time \in [DOMAIN versions -> D!Times]
      BY <1>1
    <3>2. \A v \in DOMAIN versions :
            (IF v \in D!DeletedAt(deletion.deleted_at) THEN [versions[v] EXCEPT !.deleted_at = 0]
             ELSE versions[v]) = [versions[v] EXCEPT !.deleted_at = time[v]]
      BY <1>1
    <3> HIDE DEF time
    <3>3. QED
      BY <2>2, <3>1, <3>2 DEF D!CascadeRestore
  <2>3. ASSUME NEW w \in 1..MaxSaves, D!DeleteVersion(w)
        PROVE  \E time \in [DOMAIN versions -> D!Times] :
                 versions' = [v \in DOMAIN versions |-> [versions[v] EXCEPT !.deleted_at = time[v]]]
    <3> DEFINE time == [v \in DOMAIN versions |-> IF v = w THEN clock' ELSE versions[v].deleted_at]
    <3>1. clock' \in D!Times
      BY <2>3 DEF D!DeleteVersion, DocumentTypes, D!DocumentsTypeOK, D!Times, DocumentConstants
    <3>2. time \in [DOMAIN versions -> D!Times]
      BY <1>1, <3>1
    <3>3. \A v \in DOMAIN versions :
            (IF v = w THEN [versions[v] EXCEPT !.deleted_at = clock'] ELSE versions[v])
              = [versions[v] EXCEPT !.deleted_at = time[v]]
      BY <1>1
    <3>4. versions' = [v \in DOMAIN versions |->
                         IF v = w THEN [versions[v] EXCEPT !.deleted_at = clock'] ELSE versions[v]]
      BY <2>3 DEF D!DeleteVersion
    <3> HIDE DEF time
    <3>5. QED
      BY <3>2, <3>3, <3>4
  <2>4. QED
    BY <2>1, <2>2, <2>3
<1>3. PICK time \in [DOMAIN versions -> D!Times] :
        versions' = [v \in DOMAIN versions |-> [versions[v] EXCEPT !.deleted_at = time[v]]]
  BY <1>2
<1>4. \A v \in DOMAIN versions : /\ [versions[v] EXCEPT !.deleted_at = time[v]] \in [of : D!Names, deleted_at : D!Times]
                                 /\ [versions[v] EXCEPT !.deleted_at = time[v]].of = versions[v].of
  BY <1>1
<1>5. DOMAIN versions' = DOMAIN versions
  BY <1>3
<1>6. \A v \in DOMAIN versions : versions'[v] \in [of : D!Names, deleted_at : D!Times] /\ versions'[v].of = versions[v].of
  BY <1>3, <1>4
<1>7. versions' \in [1..Len(versions) -> [of : D!Names, deleted_at : D!Times]]
  BY <1>1, <1>3, <1>5, <1>6
<1>8. QED
  BY <1>1, <1>5, <1>6, <1>7

LEMMA HistoryTypes ==
  ASSUME DocumentConstants, DocumentTypes,
         D!CascadeDelete \/ D!CascadeRestore \/ (\E v \in 1..MaxSaves : D!DeleteVersion(v))
  PROVE  DocumentTypes'
<1>1. versions' \in Seq([of : D!Names, deleted_at : D!Times]) /\ DOMAIN versions' = DOMAIN versions
  BY VersionsAre
<1>2. clock' \in D!Times /\ alone' \subseteq DOMAIN versions
      /\ deletion' \in [at : {"off", "deleting", "deleted", "restored"}, deleted_at : D!Times]
  BY DEF D!CascadeDelete, D!CascadeRestore, D!DeleteVersion, DocumentTypes, D!DocumentsTypeOK, D!Times,
         DocumentConstants, D!NoDeletion
<1>3. UNCHANGED <<doc, names, opened, editor, replaced, crossed>>
  BY DEF D!CascadeDelete, D!CascadeRestore, D!DeleteVersion
<1>4. QED
  BY <1>1, <1>2, <1>3 DEF DocumentTypes, D!DocumentsTypeOK

LEMMA DocumentsNext ==
  ASSUME DocumentConstants, DocumentTypes, [D!Next]_D!docfiles
  PROVE  DocumentTypes'
<1>1. CASE UNCHANGED D!docfiles
  BY <1>1 DEF D!docfiles, DocumentTypes, D!DocumentsTypeOK
<1>2. CASE D!Next
  BY <1>2, SubmitTypes, DocumentFormTypes, EditorTypes, RowTypes, HistoryTypes DEF D!Next
<1>3. QED
  BY <1>1, <1>2

-----------------------------------------------------------------------------
(* The inductive invariant: the time the history that follows the document *)
(* is hidden at, while the signal is on its way and afterwards; no time is *)
(* of the future, so that a version deleted on its own has one of its own; *)
(* what the document has had is in its history; and what is hidden was     *)
(* hidden at that time, or on its own.                                     *)
HiddenAt == IF D!Halfway THEN deletion.deleted_at ELSE doc.deleted_at

TimesHavePassed ==
  /\ doc.deleted_at <= clock /\ deletion.deleted_at <= clock
  /\ \A v \in DOMAIN versions : versions[v].deleted_at <= clock

InHistory ==
  \A file \in names : file \in {doc.file} \cup replaced \cup {versions[v].of : v \in DOMAIN versions}

HiddenTogether ==
  ~crossed =>
    /\ deletion.at \in {"deleting", "restored"} => D!Live
    /\ deletion.at = "deleted" => doc.deleted_at = deletion.deleted_at
    /\ D!Halfway => deletion.deleted_at # 0
    /\ \A v \in DOMAIN versions : IF v \in alone THEN versions[v].deleted_at \notin {0, HiddenAt}
                                  ELSE versions[v].deleted_at \in {0, HiddenAt}

HistoryInv == DocumentTypes /\ TimesHavePassed /\ InHistory /\ HiddenTogether

(* What each action does to the versions: those there were keep their      *)
(* file, and one more may come, of the file that was replaced.             *)
LEMMA VersionsStay ==
  ASSUME DocumentConstants, DocumentTypes, D!Next
  PROVE  /\ DOMAIN versions \subseteq DOMAIN versions'
         /\ \A v \in DOMAIN versions : versions'[v].of = versions[v].of
<1>1. ASSUME NEW f \in Editors, NEW file \in D!Names, D!Submit(f, file)
      PROVE  (versions' = versions \/ versions' = D!Archive(opened[f].doc.file)) /\ opened[f].doc.file \in D!Names
  BY <1>1 DEF D!Submit, D!Before, DocumentTypes, D!DocumentsTypeOK, D!NoForm, D!Doc
<1>2. D!SaveEdited => (versions' = versions \/ versions' = D!Archive(doc.file)) /\ doc.file \in D!Names
  BY DEF D!SaveEdited, DocumentTypes, D!DocumentsTypeOK, D!Doc
<1>3. CASE D!CascadeDelete \/ D!CascadeRestore \/ \E v \in 1..MaxSaves : D!DeleteVersion(v)
  BY <1>3, VersionsAre
<1>4. CASE UNCHANGED versions
  BY <1>4
<1>5. ASSUME NEW file \in D!Names, versions' = D!Archive(file)
      PROVE  /\ DOMAIN versions \subseteq DOMAIN versions'
             /\ \A v \in DOMAIN versions : versions'[v].of = versions[v].of
  BY <1>5, Archived
<1>6. CASE \E f \in Editors : \E file \in D!Names : D!Submit(f, file)
  BY <1>1, <1>4, <1>5, <1>6
<1>7. CASE D!SaveEdited
  BY <1>2, <1>4, <1>5, <1>7
<1>8. (\E f \in Editors : D!Load(f) \/ D!Refuse(f)) \/ D!OpenEditor \/ D!LoadToDelete \/ D!Delete \/ D!Restore \/ D!Die
        \/ D!DeleteAgain \/ D!Reset => UNCHANGED versions
  BY DEF D!Load, D!Refuse, D!OpenEditor, D!LoadToDelete, D!Delete, D!Restore, D!Die, D!DeleteAgain, D!Reset
<1>9. QED
  BY <1>3, <1>4, <1>6, <1>7, <1>8 DEF D!Next

(* A file the document has had is not forgotten by any step.               *)
LEMMA InHistoryNext ==
  ASSUME DocumentConstants, DocumentTypes, InHistory, D!Next
  PROVE  InHistory'
<1> DEFINE Ofs == {versions[v].of : v \in DOMAIN versions}
<1>1. Ofs \subseteq Ofs'
  <2>1. /\ DOMAIN versions \subseteq DOMAIN versions'
        /\ \A v \in DOMAIN versions : versions'[v].of = versions[v].of
    BY VersionsStay
  <2>2. QED
    BY <2>1
<1>2. InHistory <=> \A file \in names : file \in {doc.file} \cup replaced \cup Ofs
  BY DEF InHistory
<1>3. InHistory' <=> \A file \in names' : file \in {doc'.file} \cup replaced' \cup Ofs'
  BY DEF InHistory
<1>4. doc.file \in D!Names /\ 0 \notin names
  BY DEF DocumentTypes, D!DocumentsTypeOK, D!Doc
<1>5. ASSUME NEW file \in D!Names, file # 0, versions' = D!Archive(file)
      PROVE  file \in Ofs'
  <2>1. PICK v \in DOMAIN D!Archive(file) : D!Archive(file)[v].of = file
    BY <1>5, Archived
  <2>2. QED
    BY <1>5, <2>1
<1> HIDE DEF Ofs
<1>6. ASSUME NEW f \in Editors, NEW file \in D!Names, D!Submit(f, file)
      PROVE  InHistory'
  <2> DEFINE seen == opened[f].doc
  <2>1. seen.file \in D!Names
    BY <1>6 DEF D!Submit, DocumentTypes, D!DocumentsTypeOK, D!NoForm, D!Doc
  <2>2. /\ doc'.file = file /\ names' = names \cup ({file} \ {0})
        /\ file # seen.file => versions' = D!Archive(seen.file)
        /\ replaced' = IF doc.file = seen.file THEN replaced ELSE replaced \cup {doc.file}
    BY <1>6 DEF D!Submit, D!Before
  <2>3. doc.file # 0 => doc.file \in {file} \cup replaced' \cup Ofs'
    <3>1. CASE doc.file # seen.file
      BY <2>2, <3>1
    <3>2. CASE doc.file = seen.file /\ file = seen.file
      BY <3>2
    <3>3. CASE doc.file = seen.file /\ file # seen.file
      BY <1>5, <2>1, <2>2, <3>3
    <3>4. QED
      BY <3>1, <3>2, <3>3
  <2>4. replaced \subseteq replaced'
    BY <2>2
  <2>5. \A old \in names : old # 0 /\ old \in {doc.file} \cup replaced \cup Ofs
    BY <1>2, <1>4
  <2>6. \A old \in names' : old = file \/ old \in names
    BY <2>2
  <2>7. \A old \in names : old \in {file} \cup replaced' \cup Ofs'
    BY <1>1, <2>3, <2>4, <2>5
  <2>8. QED
    BY <1>3, <2>2, <2>6, <2>7
<1>7. CASE D!SaveEdited
  <2>1. CASE UNCHANGED <<doc, versions, names>>
    BY <1>1, <1>2, <1>3, <1>7, <2>1 DEF D!SaveEdited
  <2>2. CASE /\ doc' = [doc EXCEPT !.file = D!NextName, !.saves = @ + 1]
             /\ versions' = D!Archive(doc.file) /\ names' = names \cup {D!NextName}
    <3>1. doc'.file = D!NextName /\ UNCHANGED replaced
      BY <1>7, <2>2 DEF D!SaveEdited, DocumentTypes, D!DocumentsTypeOK, D!Doc
    <3>2. doc.file # 0 => doc.file \in Ofs'
      BY <1>4, <1>5, <2>2
    <3>3. QED
      BY <1>1, <1>2, <1>3, <1>4, <2>2, <3>1, <3>2
  <2>3. QED
    BY <1>7, <2>1, <2>2 DEF D!SaveEdited
<1>8. CASE doc'.file = doc.file /\ UNCHANGED <<names, replaced>>
  BY <1>1, <1>2, <1>3, <1>8
<1>9. (\E f \in Editors : D!Load(f) \/ D!Refuse(f)) \/ D!OpenEditor \/ D!LoadToDelete \/ D!Delete \/ D!CascadeDelete
        \/ D!Restore \/ D!CascadeRestore \/ D!Die \/ D!DeleteAgain \/ D!Reset \/ (\E v \in 1..MaxSaves : D!DeleteVersion(v))
        => doc'.file = doc.file /\ UNCHANGED <<names, replaced>>
  BY DEF D!Load, D!Refuse, D!OpenEditor, D!LoadToDelete, D!Delete, D!CascadeDelete, D!Restore, D!CascadeRestore, D!Die,
         D!DeleteAgain, D!Reset, D!DeleteVersion, DocumentTypes, D!DocumentsTypeOK, D!Doc
<1>10. QED
  BY <1>6, <1>7, <1>8, <1>9 DEF D!Next

(* What the steps do to the times, by kind.                                *)
LEMMA StoredTimes ==
  ASSUME DocumentConstants, DocumentTypes
  PROVE  /\ doc \in D!Doc /\ doc.deleted_at \in Nat /\ clock \in Nat /\ deletion.deleted_at \in Nat
         /\ \A v \in DOMAIN versions : versions[v] \in [of : D!Names, deleted_at : D!Times]
                                       /\ versions[v].deleted_at \in Nat
<1>1. versions \in Seq([of : D!Names, deleted_at : D!Times]) /\ D!Times \subseteq Nat
  BY DEF DocumentTypes, D!DocumentsTypeOK, D!Times, DocumentConstants
<1>2. \A v \in DOMAIN versions : versions[v] \in [of : D!Names, deleted_at : D!Times]
  BY <1>1, ElementsAre
<1>3. \A v \in DOMAIN versions : versions[v].deleted_at \in Nat
  BY <1>1, <1>2
<1>4. doc \in D!Doc /\ doc.deleted_at \in D!Times /\ clock \in D!Times /\ deletion.deleted_at \in D!Times
  BY DEF DocumentTypes, D!DocumentsTypeOK, D!Doc
<1>5. QED
  BY <1>1, <1>2, <1>3, <1>4

LEMMA TimesNext ==
  ASSUME DocumentConstants, DocumentTypes, TimesHavePassed, D!Next
  PROVE  TimesHavePassed'
<1>1. /\ doc \in D!Doc /\ doc.deleted_at \in Nat /\ clock \in Nat /\ deletion.deleted_at \in Nat
      /\ \A v \in DOMAIN versions : versions[v] \in [of : D!Names, deleted_at : D!Times]
                                    /\ versions[v].deleted_at \in Nat
  BY StoredTimes
<1>2. /\ doc.deleted_at <= clock /\ deletion.deleted_at <= clock
      /\ \A v \in DOMAIN versions : versions[v].deleted_at <= clock
  BY DEF TimesHavePassed
<1>3. ASSUME NEW file \in D!Names, versions' = D!Archive(file), clock' = clock
      PROVE  \A v \in DOMAIN versions' : versions'[v].deleted_at <= clock'
  BY <1>1, <1>2, <1>3, Archived
<1>4. ASSUME NEW f \in Editors, NEW file \in D!Names, D!Submit(f, file)
      PROVE  TimesHavePassed'
  <2>1. /\ doc' = [file |-> file, deleted_at |-> opened[f].doc.deleted_at, saves |-> doc.saves + 1]
        /\ UNCHANGED <<deletion, clock>>
        /\ versions' = versions \/ versions' = D!Archive(opened[f].doc.file)
    BY <1>4 DEF D!Submit, D!Before
  <2>2. opened[f].doc.deleted_at = 0 /\ opened[f].doc.file \in D!Names
    BY <1>4 DEF D!Submit, DocumentTypes, D!DocumentsTypeOK, D!NoForm, D!Doc
  <2>3. \A v \in DOMAIN versions' : versions'[v].deleted_at <= clock'
    BY <1>2, <1>3, <2>1, <2>2
  <2>4. doc'.deleted_at <= clock' /\ deletion'.deleted_at <= clock'
    BY <1>1, <1>2, <2>1, <2>2
  <2>5. QED
    BY <2>3, <2>4 DEF TimesHavePassed
<1>5. CASE D!SaveEdited
  <2>1. doc'.deleted_at = doc.deleted_at /\ UNCHANGED <<deletion, clock>>
        /\ ((versions' = versions \/ versions' = D!Archive(doc.file)) /\ doc.file \in D!Names)
    BY <1>1, <1>5 DEF D!SaveEdited, D!Doc
  <2>2. \A v \in DOMAIN versions' : versions'[v].deleted_at <= clock'
    BY <1>2, <1>3, <2>1
  <2>3. QED
    BY <1>2, <2>1, <2>2 DEF TimesHavePassed
<1>6. CASE D!LoadToDelete \/ D!Delete \/ D!Restore \/ D!Die \/ D!DeleteAgain \/ D!Reset
  <2>1. /\ clock' \in {clock, clock + 1} /\ UNCHANGED versions
        /\ doc'.deleted_at \in {0, doc.deleted_at, clock'}
        /\ deletion'.deleted_at \in {0, doc.deleted_at, deletion.deleted_at, clock'}
    <3>1. CASE D!LoadToDelete
      BY <3>1 DEF D!LoadToDelete, D!NoDeletion
    <3>2. CASE D!Delete
      BY <1>1, <3>2 DEF D!Delete, D!Doc
    <3>3. CASE D!Restore
      BY <1>1, <3>3 DEF D!Restore, D!Doc
    <3>4. CASE D!Die
      BY <3>4 DEF D!Die, D!NoDeletion
    <3>5. CASE D!DeleteAgain
      BY <1>1, <3>5 DEF D!DeleteAgain, D!Doc
    <3>6. CASE D!Reset
      BY <1>1, <3>6 DEF D!Reset, D!Doc
    <3>7. QED
      BY <1>6, <3>1, <3>2, <3>3, <3>4, <3>5, <3>6
  <2>2. QED
    BY <1>1, <1>2, <2>1 DEF TimesHavePassed
<1>7. CASE D!CascadeDelete \/ D!CascadeRestore
  <2>1. /\ UNCHANGED <<doc, clock>> /\ deletion'.deleted_at = 0
    BY <1>7 DEF D!CascadeDelete, D!CascadeRestore, D!NoDeletion
  <2>2. /\ DOMAIN versions' = DOMAIN versions
        /\ \A v \in DOMAIN versions : versions'[v].deleted_at \in {0, versions[v].deleted_at, deletion.deleted_at}
    <3>1. CASE D!CascadeDelete
      BY <1>1, <3>1 DEF D!CascadeDelete
    <3>2. CASE D!CascadeRestore
      BY <1>1, <3>2 DEF D!CascadeRestore
    <3>3. QED
      BY <1>7, <3>1, <3>2
  <2>3. QED
    BY <1>1, <1>2, <2>1, <2>2 DEF TimesHavePassed
<1>8. ASSUME NEW v \in 1..MaxSaves, D!DeleteVersion(v)
      PROVE  TimesHavePassed'
  <2>1. /\ UNCHANGED <<doc, deletion>> /\ clock' = clock + 1
        /\ versions' = [versions EXCEPT ![v] = [versions[v] EXCEPT !.deleted_at = clock']]
        /\ v \in DOMAIN versions
    BY <1>8 DEF D!DeleteVersion
  <2>2. \A w \in DOMAIN versions' : versions'[w].deleted_at \in {versions[w].deleted_at, clock'}
    BY <1>1, <2>1
  <2>3. QED
    BY <1>1, <1>2, <2>1, <2>2 DEF TimesHavePassed
<1>9. CASE D!OpenEditor \/ \E f \in Editors : D!Load(f) \/ D!Refuse(f)
  <2>1. UNCHANGED <<doc, deletion, clock, versions>>
    BY <1>9 DEF D!OpenEditor, D!Load, D!Refuse
  <2>2. QED
    BY <1>2, <2>1 DEF TimesHavePassed
<1>10. QED
  BY <1>4, <1>5, <1>6, <1>7, <1>8, <1>9 DEF D!Next

(* What is hidden was hidden with the document, or on its own.             *)
LEMMA HiddenNext ==
  ASSUME DocumentConstants, DocumentTypes, TimesHavePassed, HiddenTogether, D!Next
  PROVE  HiddenTogether'
<1> SUFFICES ASSUME ~crossed'
             PROVE  /\ deletion'.at \in {"deleting", "restored"} => D!Live'
                    /\ deletion'.at = "deleted" => doc'.deleted_at = deletion'.deleted_at
                    /\ D!Halfway' => deletion'.deleted_at # 0
                    /\ \A v \in DOMAIN versions' : IF v \in alone' THEN versions'[v].deleted_at \notin {0, HiddenAt'}
                                                   ELSE versions'[v].deleted_at \in {0, HiddenAt'}
  BY DEF HiddenTogether
<1> DEFINE Follows == /\ deletion.at \in {"deleting", "restored"} => D!Live
                      /\ deletion.at = "deleted" => doc.deleted_at = deletion.deleted_at
                      /\ D!Halfway => deletion.deleted_at # 0
           Shown == \A v \in DOMAIN versions : IF v \in alone THEN versions[v].deleted_at \notin {0, HiddenAt}
                                               ELSE versions[v].deleted_at \in {0, HiddenAt}
<1> SUFFICES Follows' /\ Shown'
  OBVIOUS
<1>1. /\ doc \in D!Doc /\ doc.deleted_at \in Nat /\ clock \in Nat /\ deletion.deleted_at \in Nat
      /\ \A v \in DOMAIN versions : versions[v] \in [of : D!Names, deleted_at : D!Times]
                                    /\ versions[v].deleted_at \in Nat
  BY StoredTimes
<1>2. /\ doc.deleted_at <= clock /\ deletion.deleted_at <= clock
      /\ \A v \in DOMAIN versions : versions[v].deleted_at <= clock
  BY DEF TimesHavePassed
<1>3. ~crossed /\ Follows /\ Shown
  <2>1. ~crossed
    BY DEF D!Next, D!OpenEditor, D!SaveEdited, D!LoadToDelete, D!Delete, D!CascadeDelete, D!Restore, D!CascadeRestore, D!Die,
           D!DeleteAgain, D!Reset, D!Load, D!Refuse, D!Submit, D!DeleteVersion
  <2>2. QED
    BY <2>1 DEF HiddenTogether
<1>4. alone \subseteq DOMAIN versions /\ deletion.at \in {"off", "deleting", "deleted", "restored"}
  BY DEF DocumentTypes, D!DocumentsTypeOK
<1>5. ASSUME NEW file \in D!Names, D!Live, doc'.deleted_at = 0, UNCHANGED <<deletion, alone>>,
             versions' = versions \/ versions' = D!Archive(file)
      PROVE  Follows' /\ Shown'
  <2>1. HiddenAt' = HiddenAt /\ D!Live' /\ doc'.deleted_at = doc.deleted_at
    BY <1>5 DEF HiddenAt, D!Halfway, D!Live
  <2>2. Follows'
    BY <1>3, <1>5, <2>1 DEF D!Halfway
  <2>3. Shown'
    <3>1. CASE versions' = versions
      BY <1>3, <1>5, <2>1, <3>1
    <3>2. CASE versions' = D!Archive(file)
      BY <1>3, <1>4, <1>5, <2>1, <3>2, Archived
    <3>3. QED
      BY <1>5, <3>1, <3>2
  <2>4. QED
    BY <2>2, <2>3
<1>6. ASSUME NEW f \in Editors, NEW file \in D!Names, D!Submit(f, file)
      PROVE  Follows' /\ Shown'
  <2>1. D!Live
    BY <1>6 DEF D!Submit
  <2>2. doc'.deleted_at = 0 /\ opened[f].doc.file \in D!Names
    BY <1>6 DEF D!Submit, DocumentTypes, D!DocumentsTypeOK, D!NoForm, D!Doc
  <2>3. UNCHANGED <<deletion, alone>> /\ (versions' = versions \/ versions' = D!Archive(opened[f].doc.file))
    BY <1>6 DEF D!Submit, D!Before
  <2>4. QED
    BY <1>5, <2>1, <2>2, <2>3
<1>7. CASE D!SaveEdited /\ D!Live
  <2>1. doc'.deleted_at = 0 /\ doc.file \in D!Names
    BY <1>1, <1>7 DEF D!SaveEdited, D!Live, D!Doc
  <2>2. UNCHANGED <<deletion, alone>> /\ (versions' = versions \/ versions' = D!Archive(doc.file))
    BY <1>7 DEF D!SaveEdited
  <2>3. QED
    BY <1>5, <1>7, <2>1, <2>2
<1>8. CASE UNCHANGED <<doc, versions, deletion, alone>>
  BY <1>3, <1>8 DEF HiddenAt, D!Halfway, D!Live
<1>9. CASE D!LoadToDelete
  BY <1>3, <1>9 DEF D!LoadToDelete, HiddenAt, D!Halfway, D!Live, D!NoDeletion
<1>10. CASE D!Delete
  <2>1. /\ clock' = clock + 1 /\ deletion' = [at |-> "deleted", deleted_at |-> clock']
        /\ doc'.deleted_at = clock' /\ UNCHANGED <<versions, alone>> /\ deletion.at = "deleting"
    BY <1>1, <1>10 DEF D!Delete, D!Doc
  <2>2. HiddenAt = 0 /\ HiddenAt' = clock' /\ D!Halfway'
    BY <1>3, <2>1 DEF HiddenAt, D!Halfway, D!Live
  <2>3. QED
    BY <1>1, <1>2, <1>3, <2>1, <2>2 DEF D!Live
<1>11. CASE D!CascadeDelete
  <2>1. /\ deletion'.at = "off" /\ deletion.at = "deleted" /\ UNCHANGED <<doc, alone>>
    BY <1>11 DEF D!CascadeDelete, D!NoDeletion
  <2>2. ~D!Halfway' /\ HiddenAt = deletion.deleted_at /\ HiddenAt' = deletion.deleted_at
        /\ deletion.deleted_at # 0
    BY <1>3, <2>1 DEF HiddenAt, D!Halfway
  <2>3. /\ DOMAIN versions' = DOMAIN versions
        /\ \A v \in DOMAIN versions : versions'[v].deleted_at =
             IF versions[v].deleted_at = 0 THEN deletion.deleted_at ELSE versions[v].deleted_at
    BY <1>1, <1>11 DEF D!CascadeDelete
  <2>4. QED
    BY <1>3, <2>1, <2>2, <2>3
<1>12. CASE D!Restore
  <2>1. /\ doc'.deleted_at = 0 /\ deletion' = [at |-> "restored", deleted_at |-> doc.deleted_at]
        /\ deletion.at = "off" /\ doc.deleted_at # 0 /\ UNCHANGED <<versions, alone>>
    BY <1>1, <1>12 DEF D!Restore, D!Live, D!Doc
  <2>2. HiddenAt = doc.deleted_at /\ HiddenAt' = doc.deleted_at /\ D!Live'
    BY <2>1 DEF HiddenAt, D!Halfway, D!Live
  <2>3. QED
    BY <1>3, <2>1, <2>2
<1>13. CASE D!CascadeRestore
  <2>1. /\ deletion'.at = "off" /\ deletion.at = "restored" /\ UNCHANGED <<doc, alone>>
    BY <1>13 DEF D!CascadeRestore, D!NoDeletion
  <2>2. ~D!Halfway' /\ HiddenAt = deletion.deleted_at /\ HiddenAt' = 0
    BY <1>3, <2>1 DEF HiddenAt, D!Halfway, D!Live
  <2>3. /\ DOMAIN versions' = DOMAIN versions
        /\ \A v \in DOMAIN versions : versions'[v].deleted_at =
             IF versions[v].deleted_at = deletion.deleted_at THEN 0 ELSE versions[v].deleted_at
    BY <1>1, <1>13 DEF D!CascadeRestore, D!DeletedAt
  <2>4. QED
    BY <1>3, <2>1, <2>2, <2>3
<1>14. CASE D!Reset
  <2>1. /\ clock' = clock + 1 /\ doc'.deleted_at = clock' /\ UNCHANGED <<versions, alone, deletion>>
        /\ deletion.at = "off" /\ doc.deleted_at = 0
    BY <1>1, <1>14 DEF D!Reset, D!Live, D!Doc
  <2>2. HiddenAt = 0 /\ HiddenAt' = clock' /\ ~D!Halfway'
    BY <2>1 DEF HiddenAt, D!Halfway
  <2>3. QED
    BY <1>1, <1>2, <1>3, <2>1, <2>2
<1>15. ASSUME NEW v \in 1..MaxSaves, D!DeleteVersion(v)
       PROVE  Follows' /\ Shown'
  <2>1. /\ UNCHANGED <<doc, deletion>> /\ clock' = clock + 1 /\ alone' = alone \cup {v}
        /\ versions' = [versions EXCEPT ![v] = [versions[v] EXCEPT !.deleted_at = clock']]
        /\ v \in DOMAIN versions
    BY <1>15 DEF D!DeleteVersion
  <2>2. /\ DOMAIN versions' = DOMAIN versions
        /\ \A w \in DOMAIN versions : versions'[w].deleted_at = IF w = v THEN clock' ELSE versions[w].deleted_at
    BY <1>1, <2>1
  <2>3. HiddenAt' = HiddenAt /\ clock' \notin {0, HiddenAt}
    BY <1>1, <1>2, <2>1 DEF HiddenAt, D!Halfway
  <2>4. Follows'
    BY <1>3, <2>1 DEF D!Halfway, D!Live
  <2>5. QED
    BY <1>3, <2>1, <2>2, <2>3, <2>4
<1>16. ~D!Die /\ ~D!DeleteAgain
  BY DEF D!Die, D!DeleteAgain
<1>17. (\E f \in Editors : D!Load(f) \/ D!Refuse(f)) \/ D!OpenEditor \/ (D!SaveEdited /\ ~D!Live)
         => UNCHANGED <<doc, versions, deletion, alone>>
  BY DEF D!Load, D!Refuse, D!OpenEditor, D!SaveEdited
<1> HIDE DEF Follows, Shown
<1>18. QED
  BY <1>6, <1>7, <1>8, <1>9, <1>10, <1>11, <1>12, <1>13, <1>14, <1>15, <1>16, <1>17 DEF D!Next

LEMMA HistoryInit == ASSUME DocumentConstants PROVE D!Init => HistoryInv
<1> SUFFICES ASSUME D!Init PROVE HistoryInv
  OBVIOUS
<1>1. DocumentTypes
  BY DocumentsInit
<1>2. versions = <<>> /\ names = {} /\ doc.deleted_at = 0 /\ clock = 0 /\ deletion = D!NoDeletion
  BY DEF D!Init
<1>3. QED
  BY <1>1, <1>2 DEF HistoryInv, TimesHavePassed, InHistory, HiddenTogether, D!NoDeletion, D!Halfway

LEMMA HistoryStep == ASSUME DocumentConstants, HistoryInv, [D!Next]_D!docfiles PROVE HistoryInv'
<1>1. DocumentTypes'
  BY DocumentsNext DEF HistoryInv
<1>2. CASE UNCHANGED D!docfiles
  <2>1. TimesHavePassed' /\ InHistory'
    BY <1>2 DEF HistoryInv, D!docfiles, TimesHavePassed, InHistory
  <2>2. HiddenTogether'
    BY <1>2 DEF HistoryInv, D!docfiles, HiddenTogether, HiddenAt, D!Halfway, D!Live
  <2>3. QED
    BY <1>1, <2>1, <2>2 DEF HistoryInv
<1>3. CASE D!Next
  BY <1>1, <1>3, TimesNext, InHistoryNext, HiddenNext DEF HistoryInv
<1>4. QED
  BY <1>2, <1>3

LEMMA HistoryFollows == ASSUME HistoryInv PROVE D!DocumentsTypeOK /\ D!HistoryIsKept
BY DEF HistoryInv, DocumentTypes, InHistory, HiddenTogether, D!HistoryIsKept, HiddenAt, D!Live

(* A file that has been the document's is its own or in its history, and   *)
(* what of the history is hidden while the document is there was deleted   *)
(* on its own.                                                             *)
THEOREM DocumentsAreKept == ASSUME DocumentConstants PROVE D!Spec => [](D!DocumentsTypeOK /\ D!HistoryIsKept)
<1>1. D!Init => HistoryInv
  BY HistoryInit
<1>2. HistoryInv /\ [D!Next]_D!docfiles => HistoryInv'
  BY HistoryStep
<1>3. HistoryInv => D!DocumentsTypeOK /\ D!HistoryIsKept
  BY HistoryFollows
<1>4. QED
  BY <1>1, <1>2, <1>3, PTL DEF D!Spec

-----------------------------------------------------------------------------
(* The backups of reports.                                                 *)

CONSTANTS MaxBackups, Keep
VARIABLES reports, files, items, pages, builds, builders, lost
B == INSTANCE ReportBackups WITH rows <- reports, tasks <- builds, jobs <- builders

LEMMA BackupsCounted == ASSUME NEW S PROVE B!Cardinality(S) = Cardinality(S)
BY DEF B!Cardinality, Cardinality

(* The bounds are numbers.                                                 *)
ReportConstants == MaxBackups \in Nat /\ Keep \in Nat

(* Whether Keep backups after this one have been made; one of less than a  *)
(* day is under way.                                                       *)
Newest(b) == {c \in B!Backups : c > b /\ reports[c].file}
Replaced(b) == Cardinality(Newest(b)) >= Keep
InTheMaking(b) == builders[b].at \in {"taken", "building", "stored"}
Young(b) == ~reports[b].old /\ (reports[b].status \in B!Active \/ B!At(b, "taken"))

-----------------------------------------------------------------------------
(* The inductive invariant: what a row's worker, its message and the       *)
(* request that made it say of it.                                         *)
Announced(b) == pages["start"].at = "created" /\ pages["start"].listed = {b}
Follows(b) ==
  /\ Announced(b) \/ b \in builds \/ InTheMaking(b) => ~reports[b].file /\ ~B!Is(b, "none")
  /\ Announced(b) => b \notin builds
  /\ Announced(b) \/ b \in builds => B!At(b, "off")
  /\ B!At(b, "stored") => b \in files
  /\ B!At(b, "taken") /\ ~reports[b].old => B!Is(b, "pending")
  /\ reports[b].ancient => reports[b].status \in {"failed", "gone"} /\ B!At(b, "off")
  /\ B!Is(b, "none") => B!At(b, "off") /\ ~reports[b].file
RowsFollow == \A b \in B!Backups : Follows(b)

(* What a page fails is old; one young backup is under way; what a worker  *)
(* still has to prune has been replaced or failed long ago; and what       *)
(* completed has its archive or has been replaced.                         *)
ListedAreOld ==
  \A p \in B!Pages : pages[p].at = "listed" => \A b \in pages[p].listed : reports[b].old

OneYoung == \A b, c \in B!Backups : Young(b) /\ Young(c) => b = c

DoomedAreReplaced ==
  \A b, c \in B!Backups : c \in builders[b].doomed => reports[c].ancient \/ (reports[c].file /\ Replaced(c))

CompletedAreStored ==
  \A b \in B!Backups : B!Is(b, "completed") => reports[b].file /\ (b \in files \/ Replaced(b))

ReportsInv ==
  B!ReportsTypeOK /\ RowsFollow /\ ListedAreOld /\ OneYoung /\ DoomedAreReplaced /\ CompletedAreStored

-----------------------------------------------------------------------------
LEMMA ReportsInit == ASSUME ReportConstants PROVE B!Init => ReportsInv
<1> SUFFICES ASSUME B!Init PROVE ReportsInv
  OBVIOUS
<1>1. B!NoRow \in B!Row /\ B!NoRow.status = "none" /\ ~B!NoRow.file /\ ~B!NoRow.ancient
  BY DEF B!NoRow, B!Row, B!Statuses
<1>2. B!NoJob \in [at : B!Stages, doomed : SUBSET B!Backups] /\ B!NoJob.at = "off" /\ B!NoJob.doomed = {}
  BY DEF B!NoJob, B!Stages
<1>3. B!NoPage \in [at : {"off", "listed", "swept", "created"}, listed : SUBSET B!Backups] /\ B!NoPage.at = "off"
  BY DEF B!NoPage
<1>4. /\ \A b \in B!Backups : reports[b] = B!NoRow /\ builders[b] = B!NoJob
      /\ \A p \in B!Pages : pages[p] = B!NoPage
      /\ "start" \in B!Pages /\ builds = {} /\ files = {} /\ lost = {}
  BY DEF B!Init, B!Pages
<1>5. B!ReportsTypeOK
  BY <1>1, <1>2, <1>3, <1>4 DEF B!Init, B!ReportsTypeOK
<1>6. QED
  BY <1>1, <1>2, <1>3, <1>4, <1>5 DEF ReportsInv, RowsFollow, Follows, Announced, InTheMaking, B!Is, B!At, ListedAreOld,
     OneYoung, Young, B!Active, DoomedAreReplaced, CompletedAreStored

(* The types, by the actions.                                              *)
Stage == [at : B!Stages, doomed : SUBSET B!Backups]
Page == [at : {"off", "listed", "swept", "created"}, listed : SUBSET B!Backups]

LEMMA TypesAre ==
  /\ B!ReportsTypeOK <=>
       /\ reports \in [B!Backups -> B!Row] /\ items \in [B!Backups -> {"none", "locked", "open"}]
       /\ files \subseteq B!Backups /\ builds \subseteq B!Backups /\ lost \subseteq B!Backups
       /\ pages \in [B!Pages -> Page] /\ builders \in [B!Backups -> Stage]
  /\ B!ReportsTypeOK' <=>
       /\ reports' \in [B!Backups -> B!Row] /\ items' \in [B!Backups -> {"none", "locked", "open"}]
       /\ files' \subseteq B!Backups /\ builds' \subseteq B!Backups /\ lost' \subseteq B!Backups
       /\ pages' \in [B!Pages -> Page] /\ builders' \in [B!Backups -> Stage]
BY DEF B!ReportsTypeOK, Stage, Page

(* What a write does to a row.                                             *)
LEMMA Marked ==
  ASSUME reports \in [B!Backups -> B!Row], NEW b \in B!Backups, NEW status \in B!Statuses, B!Mark(b, status)
  PROVE  /\ reports' \in [B!Backups -> B!Row] /\ reports'[b].status = status
         /\ reports'[b].file = reports[b].file /\ reports'[b].old = reports[b].old /\ reports'[b].ancient = reports[b].ancient
         /\ \A c \in B!Backups : c # b => reports'[c] = reports[c]
<1>1. reports' = [reports EXCEPT ![b] = [reports[b] EXCEPT !.status = status]] /\ reports[b] \in B!Row
  BY DEF B!Mark
<1>2. reports'[b] = [reports[b] EXCEPT !.status = status]
  BY <1>1
<1>3. reports'[b] \in B!Row /\ reports'[b].status = status
      /\ reports'[b].file = reports[b].file /\ reports'[b].old = reports[b].old /\ reports'[b].ancient = reports[b].ancient
  BY <1>1, <1>2 DEF B!Row
<1>4. QED
  BY <1>1, <1>3

LEMMA Gone ==
  ASSUME builders \in [B!Backups -> Stage], NEW b \in B!Backups, NEW stage \in B!Stages, B!Go(b, stage)
  PROVE  /\ builders' \in [B!Backups -> Stage] /\ builders'[b].at = stage /\ builders'[b].doomed = builders[b].doomed
         /\ \A c \in B!Backups : c # b => builders'[c] = builders[c]
<1>1. builders' = [builders EXCEPT ![b] = [builders[b] EXCEPT !.at = stage]] /\ builders[b] \in Stage
  BY DEF B!Go
<1>2. builders'[b] = [builders[b] EXCEPT !.at = stage]
  BY <1>1
<1>3. builders'[b] \in Stage /\ builders'[b].at = stage /\ builders'[b].doomed = builders[b].doomed
  BY <1>1, <1>2 DEF Stage
<1>4. QED
  BY <1>1, <1>3

LEMMA PagesMove ==
  ASSUME B!ReportsTypeOK, (\E p \in B!Pages : B!Open(p) \/ B!Sweep(p)) \/ B!Reuse \/ (\E b \in B!Backups : B!Create(b))
  PROVE  /\ B!ReportsTypeOK' /\ UNCHANGED <<files, builds, builders, lost>>
         /\ \A b \in B!Backups : /\ reports'[b].file = reports[b].file /\ reports'[b].old = reports[b].old
                                 /\ reports'[b].ancient = reports[b].ancient
<1>1. \A p \in B!Pages : pages[p] \in Page /\ pages[p].listed \subseteq B!Backups
  BY TypesAre DEF Page
<1>2. ASSUME NEW p \in B!Pages, B!Open(p)
      PROVE  pages' \in [B!Pages -> Page] /\ UNCHANGED <<reports, items>>
  BY <1>1, <1>2, TypesAre DEF B!Open, Page
<1>3. ASSUME NEW p \in B!Pages, B!Sweep(p)
      PROVE  /\ reports' \in [B!Backups -> B!Row] /\ items' \in [B!Backups -> {"none", "locked", "open"}]
             /\ pages' \in [B!Pages -> Page]
             /\ \A b \in B!Backups : /\ reports'[b].file = reports[b].file /\ reports'[b].old = reports[b].old
                                     /\ reports'[b].ancient = reports[b].ancient
  <2> DEFINE listed == pages[p].listed
  <2>1. /\ reports' = [b \in B!Backups |-> IF b \in listed THEN [reports[b] EXCEPT !.status = "failed"] ELSE reports[b]]
        /\ items' = [b \in B!Backups |-> IF b \in listed /\ items[b] # "none" THEN "open" ELSE items[b]]
        /\ pages' = [pages EXCEPT ![p] = [at |-> IF p = "start" THEN "swept" ELSE "off", listed |-> {}]]
    BY <1>3 DEF B!Sweep
  <2>2. \A b \in B!Backups : LET row == [reports[b] EXCEPT !.status = "failed"]
                           IN row \in B!Row /\ row.file = reports[b].file /\ row.old = reports[b].old
                              /\ row.ancient = reports[b].ancient
    BY TypesAre DEF B!Row, B!Statuses
  <2>3. pages' \in [B!Pages -> Page]
    BY <2>1, TypesAre DEF Page
  <2>4. items' \in [B!Backups -> {"none", "locked", "open"}]
    BY <2>1, TypesAre
  <2>5. reports' \in [B!Backups -> B!Row]
    BY <2>1, <2>2, TypesAre
  <2> HIDE DEF listed
  <2>6. QED
    BY <2>1, <2>2, <2>3, <2>4, <2>5
<1>4. CASE B!Reuse
  <2>1. pages' \in [B!Pages -> Page]
    BY <1>4, TypesAre DEF B!Reuse, Page, B!NoPage
  <2>2. QED
    BY <1>4, <2>1, TypesAre DEF B!Reuse
<1>5. ASSUME NEW b \in B!Backups, B!Create(b)
      PROVE  /\ reports' \in [B!Backups -> B!Row] /\ pages' \in [B!Pages -> Page] /\ UNCHANGED items
             /\ \A c \in B!Backups : /\ reports'[c].file = reports[c].file /\ reports'[c].old = reports[c].old
                                     /\ reports'[c].ancient = reports[c].ancient
  <2>1. B!Mark(b, "pending") /\ "pending" \in B!Statuses
    BY <1>5 DEF B!Create, B!Statuses, B!Active
  <2>2. pages' \in [B!Pages -> Page]
    BY <1>5, TypesAre DEF B!Create, Page
  <2>3. QED
    BY <1>5, <2>1, <2>2, Marked, TypesAre DEF B!Create
<1>6. UNCHANGED <<files, builds, builders, lost>>
  BY DEF B!Open, B!Sweep, B!Reuse, B!Create
<1>7. QED
  BY <1>2, <1>3, <1>4, <1>5, <1>6, TypesAre

LEMMA BackupWorkTypes ==
  ASSUME B!ReportsTypeOK, NEW b \in B!Backups, B!Dispatch(b) \/ B!Work(b) \/ B!Progress(b) \/ B!Die(b) \/ B!Age(b)
  PROVE  B!ReportsTypeOK'
<1>1. /\ reports \in [B!Backups -> B!Row] /\ items \in [B!Backups -> {"none", "locked", "open"}]
      /\ files \subseteq B!Backups /\ builds \subseteq B!Backups /\ lost \subseteq B!Backups
      /\ pages \in [B!Pages -> Page] /\ builders \in [B!Backups -> Stage]
  BY TypesAre
<1>2. B!NoPage \in Page /\ B!NoJob \in Stage /\ {"pending", "running", "gone", "failed"} \subseteq B!Statuses
  BY DEF B!NoPage, Page, B!NoJob, Stage, B!Stages, B!Statuses, B!Active
<1>3. reports' \in [B!Backups -> B!Row]
  <2>1. CASE B!Dispatch(b)
    BY <1>1, <1>2, <2>1, Marked DEF B!Dispatch
  <2>2. CASE B!Begin(b)
    BY <1>1, <1>2, <2>2, Marked DEF B!Begin
  <2>3. CASE B!Complete(b)
    <3>1. reports' = [reports EXCEPT ![b] = [[reports[b] EXCEPT !.status = "completed"] EXCEPT !.file = TRUE]]
      BY <1>1, <2>3 DEF B!Complete
    <3>2. [[reports[b] EXCEPT !.status = "completed"] EXCEPT !.file = TRUE] \in B!Row
      BY <1>1 DEF B!Row, B!Statuses
    <3>3. QED
      BY <1>1, <3>1, <3>2
  <2>4. ASSUME NEW c \in B!Backups, B!Prune(b, c)
        PROVE  reports' \in [B!Backups -> B!Row]
    BY <1>1, <1>2, <2>4, Marked DEF B!Prune
  <2>5. CASE B!Fail(b)
    BY <1>1, <1>2, <2>5, Marked DEF B!Fail
  <2>6. CASE B!Age(b)
    <3>1. /\ [reports[b] EXCEPT !.old = TRUE] \in B!Row /\ [reports[b] EXCEPT !.ancient = TRUE] \in B!Row
      BY <1>1 DEF B!Row
    <3>2. \/ reports' = [reports EXCEPT ![b] = [reports[b] EXCEPT !.old = TRUE]]
          \/ reports' = [reports EXCEPT ![b] = [reports[b] EXCEPT !.ancient = TRUE]]
      BY <2>6 DEF B!Age
    <3>3. QED
      BY <1>1, <3>1, <3>2
  <2>7. CASE UNCHANGED reports
    BY <1>1, <2>7
  <2>8. B!Take(b) \/ B!Store(b) \/ B!Finish(b) \/ B!Pruned(b) \/ B!Progress(b) \/ B!Die(b) => UNCHANGED reports
    BY DEF B!Take, B!Store, B!Finish, B!Pruned, B!Progress, B!Die
  <2>9. QED
    BY <2>1, <2>2, <2>3, <2>4, <2>5, <2>6, <2>7, <2>8 DEF B!Work
<1>4. builders' \in [B!Backups -> Stage]
  <2>1. CASE B!Take(b) \/ B!Begin(b) \/ B!Store(b) \/ B!Complete(b) \/ B!Pruned(b)
    <3>1. \A stage \in B!Stages : B!Go(b, stage) => builders' \in [B!Backups -> Stage]
      BY <1>1, Gone
    <3>2. {"taken", "building", "stored", "completed", "off"} \subseteq B!Stages
      BY DEF B!Stages
    <3>3. QED
      BY <1>1, <2>1, <3>1, <3>2 DEF B!Take, B!Begin, B!Store, B!Complete, B!Pruned
  <2>2. CASE B!Finish(b)
    <3> DEFINE doomed == {c \in B!Backups : \/ B!Is(c, "completed") /\ Cardinality(B!Newer(c)) >= Keep
                                            \/ B!Is(c, "failed") /\ reports[c].ancient}
    <3>1. builders' = [builders EXCEPT ![b] = [at |-> "pruning", doomed |-> doomed]]
      BY <2>2, BackupsCounted DEF B!Finish
    <3>2. doomed \subseteq B!Backups
      OBVIOUS
    <3> HIDE DEF doomed
    <3>3. [at |-> "pruning", doomed |-> doomed] \in Stage
      BY <3>2 DEF Stage, B!Stages
    <3>4. QED
      BY <1>1, <3>1, <3>3
  <2>3. ASSUME NEW c \in B!Backups, B!Prune(b, c)
        PROVE  builders' \in [B!Backups -> Stage]
    <3>1. UNCHANGED builders \/ builders' = [builders EXCEPT ![b] = [builders[b] EXCEPT !.doomed = builders[b].doomed \ {c}]]
      BY <2>3 DEF B!Prune
    <3>2. [builders[b] EXCEPT !.doomed = builders[b].doomed \ {c}] \in Stage
      BY <1>1 DEF Stage
    <3>3. QED
      BY <1>1, <3>1, <3>2
  <2>4. CASE B!Fail(b) \/ B!Die(b)
    BY <1>1, <1>2, <2>4 DEF B!Fail, B!Die
  <2>5. CASE UNCHANGED builders
    BY <1>1, <2>5
  <2>6. B!Dispatch(b) \/ B!Progress(b) \/ B!Age(b) => UNCHANGED builders
    BY DEF B!Dispatch, B!Progress, B!Age
  <2>7. QED
    BY <2>1, <2>2, <2>3, <2>4, <2>5, <2>6 DEF B!Work
<1>5. /\ items' \in [B!Backups -> {"none", "locked", "open"}]
  BY <1>1 DEF B!Work, B!Dispatch, B!Take, B!Begin, B!Progress, B!Store, B!Complete, B!Finish, B!Prune, B!Pruned, B!Fail, B!Die, B!Age
<1>6. files' \subseteq B!Backups /\ builds' \subseteq B!Backups /\ lost' \subseteq B!Backups
  BY <1>1 DEF B!Work, B!Dispatch, B!Take, B!Begin, B!Progress, B!Store, B!Complete, B!Finish, B!Prune, B!Pruned, B!Fail, B!Die, B!Age
<1>7. pages' \in [B!Pages -> Page]
  BY <1>1, <1>2 DEF B!Work, B!Dispatch, B!Take, B!Begin, B!Progress, B!Store, B!Complete, B!Finish, B!Prune, B!Pruned, B!Fail, B!Die, B!Age
<1>8. QED
  BY <1>3, <1>4, <1>5, <1>6, <1>7, TypesAre

LEMMA ReportsTypes == ASSUME B!ReportsTypeOK, [B!Next]_B!reports PROVE B!ReportsTypeOK'
<1>1. CASE UNCHANGED B!reports
  BY <1>1 DEF B!reports, B!ReportsTypeOK
<1>2. CASE B!Next
  <2>1. "overview" \in B!Pages /\ "start" \in B!Pages
    BY DEF B!Pages
  <2>2. QED
    BY <1>2, <2>1, PagesMove, BackupWorkTypes DEF B!Next, B!Working, B!Time, B!Visit
<1>3. QED
  BY <1>1, <1>2

(* A row, its worker and its message that a step leaves alone.             *)
LEMMA FollowsStays ==
  ASSUME NEW b \in B!Backups, Follows(b), reports'[b] = reports[b], builders'[b].at = builders[b].at,
         Announced(b)' => Announced(b), b \in builds' => b \in builds,
         B!At(b, "stored") /\ b \in files => b \in files'
  PROVE  Follows(b)'
BY DEF Follows, Announced, InTheMaking, B!At, B!Is

LEMMA RowsFollowNext ==
  ASSUME ReportsInv, B!Next
  PROVE  RowsFollow'
<1> SUFFICES ASSUME NEW b \in B!Backups PROVE Follows(b)'
  BY DEF RowsFollow
<1>1. /\ Follows(b) /\ \A c \in B!Backups : Follows(c)
      /\ reports \in [B!Backups -> B!Row] /\ builders \in [B!Backups -> Stage] /\ pages \in [B!Pages -> Page]
      /\ "start" \in B!Pages /\ "overview" \in B!Pages
  BY TypesAre DEF ReportsInv, RowsFollow, B!Pages
<1>2. {"pending", "running", "gone", "failed"} \subseteq B!Statuses
      /\ {"taken", "building", "stored", "completed", "off"} \subseteq B!Stages
      /\ B!NoJob.at = "off"
  BY DEF B!Statuses, B!Active, B!Stages, B!NoJob
<1>3. UNCHANGED pages => (Announced(b)' <=> Announced(b))
  BY DEF Announced
<1>4. ASSUME NEW p \in B!Pages, B!Open(p)
      PROVE  Follows(b)'
  <2>1. UNCHANGED <<reports, files, builds, builders>> /\ (Announced(b)' => Announced(b))
    BY <1>1, <1>4 DEF B!Open, Announced
  <2>2. QED
    BY <1>1, <2>1, FollowsStays
<1>5. ASSUME NEW p \in B!Pages, B!Sweep(p)
      PROVE  Follows(b)'
  <2>1. /\ UNCHANGED <<files, builds, builders>> /\ (Announced(b)' => Announced(b))
    BY <1>1, <1>5 DEF B!Sweep, Announced
  <2>2. b \in pages[p].listed => reports[b].old
    BY <1>5 DEF B!Sweep, ReportsInv, ListedAreOld
  <2>3. CASE b \in pages[p].listed
    <3>1. reports'[b] = [reports[b] EXCEPT !.status = "failed"]
      BY <1>5, <2>3 DEF B!Sweep
    <3>2. reports'[b].status = "failed" /\ reports'[b].file = reports[b].file /\ reports'[b].old = reports[b].old
          /\ reports'[b].ancient = reports[b].ancient
      BY <1>1, <3>1 DEF B!Row
    <3>3. reports[b].old
      BY <2>2, <2>3
    <3>4. QED
      BY <1>1, <2>1, <3>2, <3>3 DEF Follows, InTheMaking, B!At, B!Is
  <2>4. CASE b \notin pages[p].listed
    <3>1. reports'[b] = reports[b]
      BY <1>5, <2>4 DEF B!Sweep
    <3>2. QED
      BY <1>1, <2>1, <3>1, FollowsStays
  <2>5. QED
    BY <2>3, <2>4
<1>6. CASE B!Reuse
  <2>1. UNCHANGED <<reports, files, builds, builders>> /\ ~Announced(b)'
    BY <1>1, <1>6 DEF B!Reuse, Announced, B!NoPage
  <2>2. QED
    BY <1>1, <2>1, FollowsStays
<1>7. ASSUME NEW x \in B!Backups, B!Create(x)
      PROVE  Follows(b)'
  <2>1. /\ UNCHANGED <<files, builds, builders>> /\ B!Is(x, "none") /\ B!Mark(x, "pending")
        /\ Announced(b)' => b = x
    BY <1>1, <1>7 DEF B!Create, Announced
  <2>2. /\ reports'[x].status = "pending" /\ reports'[x].file = reports[x].file /\ reports'[x].ancient = reports[x].ancient
        /\ \A c \in B!Backups : c # x => reports'[c] = reports[c]
    BY <1>1, <1>2, <2>1, Marked
  <2>3. CASE b = x
    BY <1>1, <2>1, <2>2, <2>3 DEF Follows, InTheMaking, B!At, B!Is
  <2>4. CASE b # x
    BY <1>1, <2>1, <2>2, <2>4, FollowsStays
  <2>5. QED
    BY <2>3, <2>4
<1>8. ASSUME NEW x \in B!Backups, B!Dispatch(x)
      PROVE  Follows(b)'
  <2>1. /\ UNCHANGED <<files, builders>> /\ ~Announced(b)' /\ Announced(x)
        /\ \/ builds' = builds \cup {x} /\ reports' = reports
           \/ builds' = builds /\ B!Mark(x, "gone")
    BY <1>1, <1>8 DEF B!Dispatch, Announced, B!NoPage
  <2>2. CASE builds' = builds \cup {x} /\ reports' = reports
    BY <1>1, <2>1, <2>2 DEF Follows, InTheMaking, B!At, B!Is
  <2>3. CASE builds' = builds /\ B!Mark(x, "gone")
    <3>1. /\ reports'[x].status = "gone" /\ reports'[x].file = reports[x].file /\ reports'[x].ancient = reports[x].ancient
          /\ \A c \in B!Backups : c # x => reports'[c] = reports[c]
      BY <1>1, <1>2, <2>3, Marked
    <3>2. CASE b = x
      BY <1>1, <2>1, <2>3, <3>1, <3>2 DEF Follows, InTheMaking, B!At, B!Is
    <3>3. CASE b # x
      BY <1>1, <2>1, <2>3, <3>1, <3>3, FollowsStays
    <3>4. QED
      BY <3>2, <3>3
  <2>4. QED
    BY <2>1, <2>2, <2>3
<1>9. ASSUME NEW x \in B!Backups, B!Take(x)
      PROVE  Follows(b)'
  <2>1. /\ UNCHANGED <<reports, files, pages>> /\ x \in builds /\ builds' = builds \ {x}
        /\ IF B!Is(x, "pending") THEN B!Go(x, "taken") ELSE builders' = builders
    BY <1>9 DEF B!Take
  <2>2. CASE builders' = builders
    BY <1>1, <1>3, <2>1, <2>2, FollowsStays
  <2>3. CASE B!Is(x, "pending") /\ B!Go(x, "taken")
    <3>1. builders'[x].at = "taken" /\ \A c \in B!Backups : c # x => builders'[c] = builders[c]
      BY <1>1, <1>2, <2>3, Gone
    <3>2. CASE b = x
      BY <1>1, <1>3, <2>1, <2>3, <3>1, <3>2 DEF Follows, InTheMaking, B!At, B!Is
    <3>3. CASE b # x
      BY <1>1, <1>3, <2>1, <3>1, <3>3, FollowsStays
    <3>4. QED
      BY <3>2, <3>3
  <2>4. QED
    BY <2>1, <2>2, <2>3
<1>10. ASSUME NEW x \in B!Backups, B!Begin(x)
       PROVE  Follows(b)'
  <2>1. /\ UNCHANGED <<files, pages, builds>> /\ B!At(x, "taken") /\ B!Mark(x, "running") /\ B!Go(x, "building")
    BY <1>10 DEF B!Begin
  <2>2. /\ reports'[x].status = "running" /\ reports'[x].file = reports[x].file /\ reports'[x].ancient = reports[x].ancient
        /\ \A c \in B!Backups : c # x => reports'[c] = reports[c]
    BY <1>1, <1>2, <2>1, Marked
  <2>3. builders'[x].at = "building" /\ \A c \in B!Backups : c # x => builders'[c] = builders[c]
    BY <1>1, <1>2, <2>1, Gone
  <2>4. CASE b = x
    BY <1>1, <1>3, <2>1, <2>2, <2>3, <2>4 DEF Follows, InTheMaking, B!At, B!Is
  <2>5. CASE b # x
    BY <1>1, <1>3, <2>1, <2>2, <2>3, <2>5, FollowsStays
  <2>6. QED
    BY <2>4, <2>5
<1>11. ASSUME NEW x \in B!Backups, B!Store(x)
       PROVE  Follows(b)'
  <2>1. /\ UNCHANGED <<reports, pages, builds>> /\ B!At(x, "building") /\ B!Go(x, "stored") /\ files' = files \cup {x}
    BY <1>11 DEF B!Store
  <2>2. builders'[x].at = "stored" /\ \A c \in B!Backups : c # x => builders'[c] = builders[c]
    BY <1>1, <1>2, <2>1, Gone
  <2>3. CASE b = x
    BY <1>1, <1>3, <2>1, <2>2, <2>3 DEF Follows, InTheMaking, B!At, B!Is
  <2>4. CASE b # x
    BY <1>1, <1>3, <2>1, <2>2, <2>4, FollowsStays
  <2>5. QED
    BY <2>3, <2>4
<1>12. ASSUME NEW x \in B!Backups, B!Complete(x)
       PROVE  Follows(b)'
  <2>1. /\ UNCHANGED <<files, pages, builds>> /\ B!At(x, "stored") /\ B!Go(x, "completed")
        /\ reports' = [reports EXCEPT ![x] = [[reports[x] EXCEPT !.status = "completed"] EXCEPT !.file = TRUE]]
    BY <1>1, <1>12 DEF B!Complete
  <2>2. builders'[x].at = "completed" /\ \A c \in B!Backups : c # x => builders'[c] = builders[c]
    BY <1>1, <1>2, <2>1, Gone
  <2>3. /\ reports'[x].status = "completed" /\ reports'[x].ancient = reports[x].ancient
        /\ \A c \in B!Backups : c # x => reports'[c] = reports[c]
    BY <1>1, <2>1 DEF B!Row
  <2>4. CASE b = x
    BY <1>1, <1>3, <2>1, <2>2, <2>3, <2>4 DEF Follows, InTheMaking, B!At, B!Is
  <2>5. CASE b # x
    BY <1>1, <1>3, <2>1, <2>2, <2>3, <2>5, FollowsStays
  <2>6. QED
    BY <2>4, <2>5
<1>13. ASSUME NEW x \in B!Backups, B!Finish(x)
       PROVE  Follows(b)'
  <2>1. /\ UNCHANGED <<reports, files, pages, builds>> /\ B!At(x, "completed")
        /\ \A c \in B!Backups : c # x => builders'[c] = builders[c]
        /\ builders'[x].at = "pruning"
    BY <1>1, <1>13 DEF B!Finish
  <2>2. CASE b = x
    BY <1>1, <1>3, <2>1, <2>2 DEF Follows, InTheMaking, B!At, B!Is
  <2>3. CASE b # x
    BY <1>1, <1>3, <2>1, <2>3, FollowsStays
  <2>4. QED
    BY <2>2, <2>3
<1>14. ASSUME NEW x \in B!Backups, NEW c \in B!Backups, B!Prune(x, c)
       PROVE  Follows(b)'
  <2>1. /\ UNCHANGED <<pages, builds>> /\ B!At(x, "pruning") /\ c \in builders[x].doomed
    BY <1>14 DEF B!Prune
  <2>2. reports[c].ancient \/ reports[c].file
    BY <2>1 DEF ReportsInv, DoomedAreReplaced
  <2>3. \A d \in B!Backups : builders'[d].at = builders[d].at
    BY <1>1, <1>14 DEF B!Prune, Stage
  <2>4. CASE reports[c].file /\ files' = files \ {c} /\ UNCHANGED <<reports, builders>>
    <3>1. B!At(b, "stored") => b # c
      BY <1>1, <2>4 DEF Follows, InTheMaking, B!At
    <3>2. QED
      BY <1>1, <1>3, <2>1, <2>4, <3>1, FollowsStays
  <2>5. CASE B!Mark(c, "gone") /\ files' = files
    <3>1. /\ reports'[c].status = "gone" /\ reports'[c].file = reports[c].file /\ reports'[c].ancient = reports[c].ancient
          /\ \A d \in B!Backups : d # c => reports'[d] = reports[d]
      BY <1>1, <1>2, <2>5, Marked
    <3>2. CASE b = c
      BY <1>1, <1>3, <2>1, <2>2, <2>3, <2>5, <3>1, <3>2 DEF Follows, InTheMaking, B!At, B!Is
    <3>3. CASE b # c
      BY <1>1, <1>3, <2>1, <2>3, <2>5, <3>1, <3>3, FollowsStays
    <3>4. QED
      BY <3>2, <3>3
  <2>6. QED
    BY <1>14, <2>4, <2>5 DEF B!Prune
<1>15. ASSUME NEW x \in B!Backups, B!Pruned(x)
       PROVE  Follows(b)'
  <2>1. /\ UNCHANGED <<reports, files, pages, builds>> /\ B!Go(x, "off")
    BY <1>15 DEF B!Pruned
  <2>2. builders'[x].at = "off" /\ \A c \in B!Backups : c # x => builders'[c] = builders[c]
    BY <1>1, <1>2, <2>1, Gone
  <2>3. CASE b = x
    BY <1>1, <1>3, <2>1, <2>2, <2>3 DEF Follows, InTheMaking, B!At, B!Is
  <2>4. CASE b # x
    BY <1>1, <1>3, <2>1, <2>2, <2>4, FollowsStays
  <2>5. QED
    BY <2>3, <2>4
<1>16. ASSUME NEW x \in B!Backups, B!Fail(x)
       PROVE  Follows(b)'
  <2>1. /\ UNCHANGED <<files, pages, builds>> /\ B!Mark(x, "failed")
        /\ builders[x].at \in {"building", "stored", "completed", "pruning"}
        /\ builders'[x].at = "off" /\ \A c \in B!Backups : c # x => builders'[c] = builders[c]
    BY <1>1, <1>2, <1>16 DEF B!Fail
  <2>2. /\ reports'[x].status = "failed" /\ reports'[x].file = reports[x].file /\ reports'[x].ancient = reports[x].ancient
        /\ \A c \in B!Backups : c # x => reports'[c] = reports[c]
    BY <1>1, <1>2, <2>1, Marked
  <2>3. CASE b = x
    BY <1>1, <1>3, <2>1, <2>2, <2>3 DEF Follows, InTheMaking, B!At, B!Is
  <2>4. CASE b # x
    BY <1>1, <1>3, <2>1, <2>2, <2>4, FollowsStays
  <2>5. QED
    BY <2>3, <2>4
<1>17. ASSUME NEW x \in B!Backups, B!Die(x)
       PROVE  Follows(b)'
  <2>1. /\ UNCHANGED <<reports, files, pages>> /\ builds' = builds \ {x}
        /\ builders'[x].at = "off" /\ \A c \in B!Backups : c # x => builders'[c] = builders[c]
    BY <1>1, <1>2, <1>17 DEF B!Die
  <2>2. CASE b = x
    BY <1>1, <1>3, <2>1, <2>2 DEF Follows, InTheMaking, B!At, B!Is
  <2>3. CASE b # x
    BY <1>1, <1>3, <2>1, <2>3, FollowsStays
  <2>4. QED
    BY <2>2, <2>3
<1>18. ASSUME NEW x \in B!Backups, B!Age(x)
       PROVE  Follows(b)'
  <2>1. /\ UNCHANGED <<files, pages, builds, builders>> /\ B!At(x, "off")
        /\ \A c \in B!Backups : c # x => reports'[c] = reports[c]
        /\ \/ reports'[x] = [reports[x] EXCEPT !.old = TRUE] /\ reports[x].status \in B!Active
           \/ reports'[x] = [reports[x] EXCEPT !.ancient = TRUE] /\ B!Is(x, "failed")
    BY <1>1, <1>18 DEF B!Age
  <2>2. /\ reports'[x].status = reports[x].status /\ reports'[x].file = reports[x].file
        /\ reports'[x].ancient => reports[x].ancient \/ B!Is(x, "failed")
    BY <1>1, <2>1 DEF B!Row
  <2>3. CASE b = x
    BY <1>1, <1>3, <2>1, <2>2, <2>3 DEF Follows, InTheMaking, B!At, B!Is
  <2>4. CASE b # x
    BY <1>1, <1>3, <2>1, <2>4, FollowsStays
  <2>5. QED
    BY <2>3, <2>4
<1>19. ASSUME NEW x \in B!Backups, B!Progress(x)
       PROVE  Follows(b)'
  <2>1. UNCHANGED <<reports, files, pages, builds, builders>>
    BY <1>19 DEF B!Progress
  <2>2. QED
    BY <1>1, <1>3, <2>1, FollowsStays
<1>20. QED
  BY <1>1, <1>4, <1>5, <1>6, <1>7, <1>8, <1>9, <1>10, <1>11, <1>12, <1>13, <1>14, <1>15, <1>16, <1>17,
     <1>18, <1>19 DEF B!Next, B!Working, B!Work, B!Time, B!Visit

(* What every step leaves as it is: a row that has had a file has had one, *)
(* and an old one stays old.                                               *)
LEMMA RowsKeep ==
  ASSUME B!ReportsTypeOK, B!Next
  PROVE  \A b \in B!Backups : /\ reports[b].file => reports'[b].file
                              /\ reports[b].old => reports'[b].old
                              /\ reports[b].ancient => reports'[b].ancient
<1>1. reports \in [B!Backups -> B!Row] /\ "start" \in B!Pages /\ "overview" \in B!Pages
  BY TypesAre DEF B!Pages
<1>2. CASE (\E p \in B!Pages : B!Open(p) \/ B!Sweep(p)) \/ B!Reuse \/ (\E b \in B!Backups : B!Create(b))
  BY <1>2, PagesMove
<1>3. CASE UNCHANGED reports
  BY <1>3
<1>4. {"running", "gone", "failed"} \subseteq B!Statuses
  BY DEF B!Statuses, B!Active
<1>5. ASSUME NEW x \in B!Backups, NEW status \in B!Statuses, B!Mark(x, status)
      PROVE  \A b \in B!Backups : /\ reports[b].file => reports'[b].file
                                  /\ reports[b].old => reports'[b].old
                                  /\ reports[b].ancient => reports'[b].ancient
  BY <1>1, <1>5, Marked
<1>6. ASSUME NEW x \in B!Backups, B!Complete(x)
      PROVE  \A b \in B!Backups : /\ reports[b].file => reports'[b].file
                                  /\ reports[b].old => reports'[b].old
                                  /\ reports[b].ancient => reports'[b].ancient
  <2>1. reports' = [reports EXCEPT ![x] = [[reports[x] EXCEPT !.status = "completed"] EXCEPT !.file = TRUE]]
    BY <1>1, <1>6 DEF B!Complete
  <2>2. QED
    BY <1>1, <2>1 DEF B!Row
<1>7. ASSUME NEW x \in B!Backups, B!Age(x)
      PROVE  \A b \in B!Backups : /\ reports[b].file => reports'[b].file
                                  /\ reports[b].old => reports'[b].old
                                  /\ reports[b].ancient => reports'[b].ancient
  <2>1. \/ reports' = [reports EXCEPT ![x] = [reports[x] EXCEPT !.old = TRUE]]
        \/ reports' = [reports EXCEPT ![x] = [reports[x] EXCEPT !.ancient = TRUE]]
    BY <1>7 DEF B!Age
  <2>2. QED
    BY <1>1, <2>1 DEF B!Row
<1>8. ASSUME NEW x \in B!Backups,
             B!Take(x) \/ B!Store(x) \/ B!Finish(x) \/ B!Pruned(x) \/ B!Progress(x) \/ B!Die(x)
      PROVE  UNCHANGED reports
  BY <1>8 DEF B!Take, B!Store, B!Finish, B!Pruned, B!Progress, B!Die
<1>9. ASSUME NEW x \in B!Backups, B!Dispatch(x) \/ B!Begin(x) \/ B!Fail(x) \/ (\E c \in B!Backups : B!Prune(x, c))
      PROVE  UNCHANGED reports \/ \E c \in B!Backups, status \in B!Statuses : B!Mark(c, status)
  BY <1>4, <1>9 DEF B!Dispatch, B!Begin, B!Fail, B!Prune
<1>10. QED
  BY <1>1, <1>2, <1>3, <1>5, <1>6, <1>7, <1>8, <1>9 DEF B!Next, B!Working, B!Work, B!Time, B!Visit

(* Newer backups that have been stored do not become fewer.                *)
LEMMA ReplacedStays ==
  ASSUME ReportConstants, B!ReportsTypeOK, B!Next, NEW b \in B!Backups, Replaced(b)
  PROVE  Replaced(b)'
<1>1. Newest(b) \subseteq Newest(b)'
  BY RowsKeep DEF Newest
<1>2. IsFiniteSet(Newest(b)')
  <2>1. IsFiniteSet(B!Backups)
    BY FS_Interval DEF ReportConstants, B!Backups
  <2>2. QED
    BY <2>1, FS_Subset DEF Newest
<1>3. IsFiniteSet(Newest(b)) /\ Cardinality(Newest(b)) <= Cardinality(Newest(b)')
  BY <1>1, <1>2, FS_Subset
<1>4. Cardinality(Newest(b)) \in Nat /\ Cardinality(Newest(b)') \in Nat
  BY <1>2, <1>3, FS_CardinalityType
<1>5. QED
  BY <1>3, <1>4 DEF Replaced, ReportConstants

(* A page has listed old rows.                                             *)
LEMMA ListedNext ==
  ASSUME ReportsInv, B!Next
  PROVE  ListedAreOld'
<1>1. /\ reports \in [B!Backups -> B!Row] /\ pages \in [B!Pages -> Page]
      /\ ListedAreOld /\ "start" \in B!Pages /\ "overview" \in B!Pages
      /\ \A p \in B!Pages : pages[p].listed \subseteq B!Backups
  BY TypesAre DEF ReportsInv, B!Pages, Page
<1>2. \A b \in B!Backups : reports[b].old => reports'[b].old
  BY RowsKeep DEF ReportsInv
<1>3. SUFFICES ASSUME NEW p \in B!Pages, pages'[p].at = "listed", NEW b \in pages'[p].listed
               PROVE  pages'[p] = pages[p] \/ (b \in B!Backups /\ reports[b].old)
  BY <1>1, <1>2 DEF ListedAreOld
<1>4. ASSUME NEW q \in B!Pages, B!Open(q)
      PROVE  pages'[p] = pages[p] \/ (b \in B!Backups /\ reports[b].old)
  BY <1>1, <1>3, <1>4 DEF B!Open
<1>5. ASSUME NEW q \in B!Pages, B!Sweep(q)
      PROVE  pages'[p] = pages[p]
  BY <1>1, <1>3, <1>5 DEF B!Sweep
<1>6. CASE B!Reuse \/ \E x \in B!Backups : B!Create(x) \/ B!Dispatch(x)
  BY <1>1, <1>3, <1>6 DEF B!Reuse, B!Create, B!Dispatch, B!NoPage
<1>7. ASSUME NEW x \in B!Backups, B!Work(x) \/ B!Progress(x) \/ B!Die(x) \/ B!Age(x)
      PROVE  pages'[p] = pages[p]
  BY <1>7 DEF B!Work, B!Take, B!Begin, B!Store, B!Complete, B!Finish, B!Prune, B!Pruned, B!Fail, B!Progress, B!Die, B!Age
<1>8. QED
  BY <1>1, <1>4, <1>5, <1>6, <1>7 DEF B!Next, B!Working, B!Time, B!Visit

(* One is under way that is not old: a request makes one when there is     *)
(* none, and a page fails old ones.                                        *)
LEMMA OneYoungNext ==
  ASSUME ReportsInv, B!Next
  PROVE  OneYoung'
<1>1. /\ reports \in [B!Backups -> B!Row] /\ builders \in [B!Backups -> Stage] /\ pages \in [B!Pages -> Page]
      /\ OneYoung /\ "start" \in B!Pages /\ "overview" \in B!Pages /\ \A c \in B!Backups : Follows(c)
  BY TypesAre DEF ReportsInv, RowsFollow, B!Pages
<1>2. {"pending", "running", "gone", "failed"} \subseteq B!Statuses /\ {"pending", "running"} = B!Active
      /\ {"taken", "building", "stored", "completed", "off"} \subseteq B!Stages /\ B!NoJob.at = "off"
  BY DEF B!Statuses, B!Active, B!Stages, B!NoJob
<1>3. ASSUME NEW x \in B!Backups, B!Create(x)
      PROVE  OneYoung'
  <2>1. /\ UNCHANGED builders /\ B!Mark(x, "pending") /\ B!NoneActive
    BY <1>3 DEF B!Create
  <2>2. \A c \in B!Backups : ~Young(c)
    BY <1>1, <2>1 DEF Young, B!NoneActive, Follows, B!Is, B!Active
  <2>3. \A c \in B!Backups : c # x => reports'[c] = reports[c]
    BY <1>1, <1>2, <2>1, Marked
  <2>4. \A c \in B!Backups : c # x => ~Young(c)'
    BY <2>1, <2>2, <2>3 DEF Young, B!At
  <2>5. QED
    BY <2>4 DEF OneYoung
<1>4. ASSUME \A b \in B!Backups : Young(b)' => Young(b)
      PROVE  OneYoung'
  BY <1>1, <1>4 DEF OneYoung
<1>5. SUFFICES ASSUME NEW b \in B!Backups, Young(b)', ~\E x \in B!Backups : B!Create(x)
               PROVE  Young(b)
  BY <1>3, <1>4
<1>6. reports'[b].old => ~Young(b)'
  BY DEF Young
<1>7. CASE reports'[b] = reports[b] /\ builders'[b].at = builders[b].at
  BY <1>5, <1>7 DEF Young, B!At
<1>8. ASSUME NEW p \in B!Pages, B!Open(p) \/ B!Sweep(p)
      PROVE  Young(b)
  <2>1. UNCHANGED builders
    BY <1>8 DEF B!Open, B!Sweep
  <2>2. CASE reports'[b] = reports[b]
    BY <1>7, <2>1, <2>2
  <2>3. CASE B!Sweep(p) /\ b \in pages[p].listed
    <3>1. reports[b].old
      BY <2>3 DEF B!Sweep, ReportsInv, ListedAreOld
    <3>2. reports'[b].old
      BY <3>1, RowsKeep DEF ReportsInv
    <3>3. QED
      BY <1>5, <1>6, <3>2
  <2>4. QED
    BY <1>8, <2>2, <2>3 DEF B!Open, B!Sweep
<1>9. ASSUME NEW x \in B!Backups, B!Begin(x)
      PROVE  Young(b)
  <2>1. B!At(x, "taken") /\ B!Mark(x, "running") /\ B!Go(x, "building")
    BY <1>9 DEF B!Begin
  <2>2. reports'[x].old = reports[x].old /\ (b # x => reports'[b] = reports[b] /\ builders'[b] = builders[b])
    BY <1>1, <1>2, <2>1, Marked, Gone
  <2>3. QED
    BY <1>5, <1>7, <2>1, <2>2 DEF Young
<1>10. ASSUME NEW x \in B!Backups, B!Take(x)
       PROVE  Young(b)
  <2>1. UNCHANGED reports /\ (UNCHANGED builders \/ (B!Is(x, "pending") /\ B!Go(x, "taken")))
    BY <1>10 DEF B!Take
  <2>2. B!Go(x, "taken") /\ b # x => builders'[b] = builders[b]
    BY <1>1, <1>2, Gone
  <2>3. QED
    BY <1>2, <1>5, <1>7, <2>1, <2>2 DEF Young, B!Is
<1>11. ASSUME NEW x \in B!Backups, B!Store(x) \/ B!Pruned(x) \/ B!Finish(x) \/ B!Die(x)
       PROVE  Young(b)
  <2>1. UNCHANGED reports /\ (b # x => builders'[b] = builders[b]) /\ builders'[x].at # "taken"
    <3>1. B!Store(x) \/ B!Pruned(x) => \E stage \in B!Stages : B!Go(x, stage) /\ stage # "taken"
      BY <1>2 DEF B!Store, B!Pruned
    <3>2. B!Store(x) \/ B!Pruned(x) => (b # x => builders'[b] = builders[b]) /\ builders'[x].at # "taken"
      BY <1>1, <3>1, Gone
    <3>3. B!Finish(x) \/ B!Die(x) => (b # x => builders'[b] = builders[b]) /\ builders'[x].at # "taken"
      BY <1>1, <1>2 DEF B!Finish, B!Die
    <3>4. UNCHANGED reports
      BY <1>11 DEF B!Store, B!Pruned, B!Finish, B!Die
    <3>5. QED
      BY <1>11, <3>2, <3>3, <3>4
  <2>2. QED
    BY <1>5, <2>1 DEF Young, B!At
<1>12. ASSUME NEW x \in B!Backups, B!Complete(x)
       PROVE  Young(b)
  <2>1. B!Go(x, "completed") /\ reports' = [reports EXCEPT ![x] = [[reports[x] EXCEPT !.status = "completed"] EXCEPT !.file = TRUE]]
    BY <1>1, <1>12 DEF B!Complete
  <2>2. builders'[x].at = "completed" /\ reports'[x].status = "completed" /\ (b # x => reports'[b] = reports[b] /\ builders'[b] = builders[b])
    BY <1>1, <1>2, <2>1, Gone DEF B!Row
  <2>3. QED
    BY <1>5, <1>7, <2>2 DEF Young, B!At, B!Active
<1>13. ASSUME NEW x \in B!Backups, NEW c \in B!Backups, B!Prune(x, c)
       PROVE  Young(b)
  <2>1. \A d \in B!Backups : builders'[d].at = builders[d].at
    <3> DEFINE left == [builders[x] EXCEPT !.doomed = builders[x].doomed \ {c}]
    <3>1. builders' = builders \/ builders' = [builders EXCEPT ![x] = left]
      BY <1>13 DEF B!Prune
    <3>2. builders \in [B!Backups -> Stage] /\ builders[x] \in Stage
      BY <1>1
    <3>3. left.at = builders[x].at
      BY <3>2 DEF Stage
    <3> HIDE DEF left
    <3>4. QED
      BY <3>1, <3>2, <3>3
  <2>2. c \in builders[x].doomed /\ (UNCHANGED reports \/ B!Mark(c, "gone"))
    BY <1>13 DEF B!Prune
  <2>3. B!Mark(c, "gone") => /\ reports'[c].status = "gone" /\ reports'[c].old = reports[c].old
                             /\ (b # c => reports'[b] = reports[b])
    BY <1>1, <1>2, Marked
  <2>4. reports[c].ancient \/ reports[c].file
    BY <2>2 DEF ReportsInv, DoomedAreReplaced
  <2>5. ~B!At(c, "taken")
    BY <1>1, <2>4 DEF Follows, InTheMaking, B!At
  <2>6. QED
    BY <1>5, <1>7, <2>1, <2>2, <2>3, <2>5 DEF Young, B!At, B!Active
<1>14. ASSUME NEW x \in B!Backups, B!Fail(x)
       PROVE  Young(b)
  <2>1. B!Mark(x, "failed") /\ builders' = [builders EXCEPT ![x] = B!NoJob]
    BY <1>14 DEF B!Fail
  <2>2. reports'[x].status = "failed" /\ builders'[x].at = "off" /\ (b # x => reports'[b] = reports[b] /\ builders'[b] = builders[b])
    BY <1>1, <1>2, <2>1, Marked
  <2>3. QED
    BY <1>5, <1>7, <2>2 DEF Young, B!At, B!Active
<1>15. ASSUME NEW x \in B!Backups, B!Dispatch(x)
       PROVE  Young(b)
  <2>1. UNCHANGED builders /\ (UNCHANGED reports \/ B!Mark(x, "gone")) /\ Announced(x)
    BY <1>15 DEF B!Dispatch, Announced
  <2>2. B!Mark(x, "gone") => reports'[x].status = "gone" /\ (b # x => reports'[b] = reports[b])
    BY <1>1, <1>2, Marked
  <2>3. ~B!At(x, "taken")
    BY <1>1, <2>1 DEF Follows, B!At
  <2>4. QED
    BY <1>5, <1>7, <2>1, <2>2, <2>3 DEF Young, B!At, B!Active
<1>16. ASSUME NEW x \in B!Backups, B!Age(x)
       PROVE  Young(b)
  <2>1. UNCHANGED builders /\ (b # x => reports'[b] = reports[b])
        /\ (reports'[x].status = reports[x].status) /\ (reports[x].old => reports'[x].old)
    BY <1>1, <1>16 DEF B!Age, B!Row
  <2>2. QED
    BY <1>5, <1>7, <2>1 DEF Young, B!At
<1>17. CASE B!Reuse \/ \E x \in B!Backups : B!Progress(x)
  BY <1>7, <1>17 DEF B!Reuse, B!Progress
<1>18. QED
  BY <1>1, <1>5, <1>8, <1>9, <1>10, <1>11, <1>12, <1>13, <1>14, <1>15, <1>16, <1>17
     DEF B!Next, B!Working, B!Work, B!Time, B!Visit

(* What the pruning lists can go, and what completed can be downloaded.    *)
LEMMA DoomedNext ==
  ASSUME ReportConstants, ReportsInv, B!Next
  PROVE  DoomedAreReplaced'
<1>1. /\ reports \in [B!Backups -> B!Row] /\ builders \in [B!Backups -> Stage] /\ B!ReportsTypeOK
      /\ \A b \in B!Backups : builders[b].doomed \subseteq B!Backups
  BY TypesAre DEF ReportsInv, Stage
<1>2. SUFFICES ASSUME NEW b \in B!Backups, NEW c \in B!Backups, c \in builders'[b].doomed, c \notin builders[b].doomed
               PROVE  reports[c].ancient \/ (reports[c].file /\ Replaced(c))
  <2>1. ASSUME NEW b \in B!Backups, NEW c \in B!Backups, reports[c].ancient \/ (reports[c].file /\ Replaced(c))
        PROVE  reports'[c].ancient \/ (reports'[c].file /\ Replaced(c)')
    BY <1>1, <2>1, RowsKeep, ReplacedStays
  <2>2. QED
    BY <1>2, <2>1 DEF ReportsInv, DoomedAreReplaced
<1>3. {"taken", "building", "stored", "completed", "off"} \subseteq B!Stages /\ B!NoJob.doomed = {}
  BY DEF B!Stages, B!NoJob
<1>4. PICK x \in B!Backups : B!Finish(x) /\ x = b
  <2>1. ASSUME NEW x \in B!Backups, B!Take(x) \/ B!Begin(x) \/ B!Store(x) \/ B!Complete(x) \/ B!Pruned(x)
        PROVE  builders'[b].doomed = builders[b].doomed
    <3>1. UNCHANGED builders \/ \E stage \in B!Stages : B!Go(x, stage)
      BY <1>3, <2>1 DEF B!Take, B!Begin, B!Store, B!Complete, B!Pruned
    <3>2. QED
      BY <1>1, <3>1, Gone
  <2>2. ASSUME NEW x \in B!Backups, B!Fail(x) \/ B!Die(x) \/ (\E d \in B!Backups : B!Prune(x, d))
        PROVE  builders'[b].doomed \subseteq builders[b].doomed
    <3>1. CASE B!Fail(x) \/ B!Die(x)
      BY <1>1, <1>3, <3>1 DEF B!Fail, B!Die
    <3>2. ASSUME NEW d \in B!Backups, B!Prune(x, d)
          PROVE  builders'[b].doomed \subseteq builders[b].doomed
      <4>1. UNCHANGED builders \/ builders' = [builders EXCEPT ![x] = [builders[x] EXCEPT !.doomed = builders[x].doomed \ {d}]]
        BY <3>2 DEF B!Prune
      <4>2. QED
        BY <1>1, <4>1 DEF Stage
    <3>3. QED
      BY <2>2, <3>1, <3>2
  <2>3. ASSUME NEW x \in B!Backups, B!Finish(x), x # b
        PROVE  builders'[b] = builders[b]
    BY <1>1, <2>3 DEF B!Finish
  <2>4. ASSUME NEW x \in B!Backups, B!Dispatch(x) \/ B!Create(x) \/ B!Progress(x) \/ B!Age(x)
        PROVE  UNCHANGED builders
    BY <2>4 DEF B!Dispatch, B!Create, B!Progress, B!Age
  <2>5. B!Reuse \/ (\E p \in B!Pages : B!Open(p) \/ B!Sweep(p)) => UNCHANGED builders
    BY DEF B!Reuse, B!Open, B!Sweep
  <2>6. "start" \in B!Pages /\ "overview" \in B!Pages
    BY DEF B!Pages
  <2>7. QED
    BY <1>2, <2>1, <2>2, <2>3, <2>4, <2>5, <2>6 DEF B!Next, B!Working, B!Work, B!Time, B!Visit
<1>5. \/ B!Is(c, "completed") /\ Cardinality(B!Newer(c)) >= Keep
      \/ reports[c].ancient
  BY <1>1, <1>2, <1>4, BackupsCounted DEF B!Finish
<1>6. CASE B!Is(c, "completed") /\ Cardinality(B!Newer(c)) >= Keep
  <2>1. reports[c].file /\ B!Newer(c) \subseteq Newest(c)
    BY <1>6 DEF ReportsInv, CompletedAreStored, B!Newer, Newest
  <2>2. IsFiniteSet(B!Backups)
    BY FS_Interval DEF ReportConstants, B!Backups
  <2>3. IsFiniteSet(Newest(c)) /\ IsFiniteSet(B!Newer(c))
    BY <2>2, FS_Subset DEF Newest, B!Newer
  <2>4. Cardinality(B!Newer(c)) <= Cardinality(Newest(c)) /\ Cardinality(Newest(c)) \in Nat
        /\ Cardinality(B!Newer(c)) \in Nat
    BY <2>1, <2>3, FS_Subset, FS_CardinalityType
  <2>5. QED
    BY <1>6, <2>1, <2>4 DEF Replaced, ReportConstants
<1>7. QED
  BY <1>5, <1>6

LEMMA CompletedNext ==
  ASSUME ReportConstants, ReportsInv, B!Next
  PROVE  CompletedAreStored'
<1>1. /\ reports \in [B!Backups -> B!Row] /\ builders \in [B!Backups -> Stage] /\ B!ReportsTypeOK
      /\ \A c \in B!Backups : Follows(c)
      /\ "start" \in B!Pages /\ "overview" \in B!Pages
  BY TypesAre DEF ReportsInv, RowsFollow, B!Pages
<1>2. SUFFICES ASSUME NEW b \in B!Backups, reports'[b].status = "completed"
               PROVE  reports'[b].file /\ (b \in files' \/ Replaced(b)')
  BY DEF CompletedAreStored, B!Is
<1>3. {"pending", "running", "gone", "failed"} \subseteq B!Statuses
  BY DEF B!Statuses, B!Active
<1>4. CASE reports[b].status = "completed" /\ (b \in files => b \in files' \/ Replaced(b))
  <2>1. reports[b].file /\ (b \in files \/ Replaced(b))
    BY <1>4 DEF ReportsInv, CompletedAreStored, B!Is
  <2>2. QED
    BY <1>1, <1>4, <2>1, RowsKeep, ReplacedStays
<1>5. ASSUME NEW x \in B!Backups, B!Complete(x)
      PROVE  reports'[b].file /\ (b \in files' \/ Replaced(b)')
  <2>1. /\ B!At(x, "stored") /\ UNCHANGED files
        /\ reports' = [reports EXCEPT ![x] = [[reports[x] EXCEPT !.status = "completed"] EXCEPT !.file = TRUE]]
    BY <1>1, <1>5 DEF B!Complete
  <2>2. x \in files
    BY <1>1, <2>1 DEF Follows
  <2>3. reports'[x].file /\ (b # x => reports'[b] = reports[b])
    BY <1>1, <2>1 DEF B!Row
  <2>4. QED
    BY <1>2, <1>4, <2>1, <2>2, <2>3
<1>6. ASSUME NEW x \in B!Backups, NEW c \in B!Backups, B!Prune(x, c)
      PROVE  reports'[b].file /\ (b \in files' \/ Replaced(b)')
  <2>1. c \in builders[x].doomed
    BY <1>6 DEF B!Prune
  <2>2. reports[c].ancient \/ (reports[c].file /\ Replaced(c))
    BY <2>1 DEF ReportsInv, DoomedAreReplaced
  <2>3. CASE UNCHANGED reports /\ files' = files \ {c}
    <3>1. reports[b].status = "completed"
      BY <1>2, <2>3
    <3>2. b = c => Replaced(b)
      BY <1>1, <2>2, <3>1 DEF Follows
    <3>3. QED
      BY <1>4, <2>3, <3>1, <3>2
  <2>4. CASE B!Mark(c, "gone") /\ files' = files
    <3>1. reports'[c].status = "gone" /\ (b # c => reports'[b] = reports[b])
      BY <1>1, <1>3, <2>4, Marked
    <3>2. QED
      BY <1>2, <1>4, <2>4, <3>1
  <2>5. QED
    BY <1>6, <2>3, <2>4 DEF B!Prune
<1>7. CASE UNCHANGED reports /\ files \subseteq files'
  BY <1>2, <1>4, <1>7
<1>8. ASSUME NEW x \in B!Backups, NEW status \in B!Statuses, status # "completed", B!Mark(x, status), UNCHANGED files
      PROVE  reports'[b].file /\ (b \in files' \/ Replaced(b)')
  BY <1>1, <1>2, <1>4, <1>8, Marked
<1>9. ASSUME NEW x \in B!Backups, B!Create(x) \/ B!Begin(x) \/ B!Fail(x) \/ B!Dispatch(x)
      PROVE  reports'[b].file /\ (b \in files' \/ Replaced(b)')
  BY <1>3, <1>7, <1>8, <1>9 DEF B!Create, B!Begin, B!Fail, B!Dispatch
<1>10. ASSUME NEW p \in B!Pages, B!Open(p) \/ B!Sweep(p)
       PROVE  reports'[b].file /\ (b \in files' \/ Replaced(b)')
  <2>1. UNCHANGED files /\ (B!Open(p) => UNCHANGED reports)
    BY <1>10 DEF B!Open, B!Sweep
  <2>2. B!Sweep(p) => reports'[b] = reports[b] \/ reports'[b] = [reports[b] EXCEPT !.status = "failed"]
    BY DEF B!Sweep
  <2>3. [reports[b] EXCEPT !.status = "failed"].status = "failed"
    BY <1>1 DEF B!Row
  <2>4. reports[b].status = "completed"
    BY <1>2, <1>10, <2>1, <2>2, <2>3
  <2>5. QED
    BY <1>4, <2>1, <2>4
<1>11. ASSUME NEW x \in B!Backups, B!Age(x)
       PROVE  reports'[b].file /\ (b \in files' \/ Replaced(b)')
  <2>1. UNCHANGED files /\ reports'[b].status = reports[b].status
    BY <1>1, <1>11 DEF B!Age, B!Row
  <2>2. QED
    BY <1>2, <1>4, <2>1
<1>12. ASSUME NEW x \in B!Backups, B!Take(x) \/ B!Store(x) \/ B!Finish(x) \/ B!Pruned(x) \/ B!Progress(x) \/ B!Die(x)
       PROVE  UNCHANGED reports /\ files \subseteq files'
  BY <1>12 DEF B!Take, B!Store, B!Finish, B!Pruned, B!Progress, B!Die
<1>13. CASE B!Reuse
  BY <1>7, <1>13 DEF B!Reuse
<1>14. QED
  BY <1>1, <1>5, <1>6, <1>7, <1>9, <1>10, <1>11, <1>12, <1>13 DEF B!Next, B!Working, B!Work, B!Time, B!Visit

LEMMA ReportsStep == ASSUME ReportConstants, ReportsInv, [B!Next]_B!reports PROVE ReportsInv'
<1>1. CASE UNCHANGED B!reports
  <2>1. B!ReportsTypeOK'
    BY <1>1, ReportsTypes DEF ReportsInv
  <2>2. RowsFollow' /\ ListedAreOld' /\ OneYoung'
    BY <1>1 DEF ReportsInv, B!reports, RowsFollow, Follows, Announced, InTheMaking, B!At, B!Is, ListedAreOld,
       OneYoung, Young
  <2>3. DoomedAreReplaced' /\ CompletedAreStored'
    BY <1>1 DEF ReportsInv, B!reports, DoomedAreReplaced, CompletedAreStored, Replaced, Newest, B!Is
  <2>4. QED
    BY <2>1, <2>2, <2>3 DEF ReportsInv
<1>2. CASE B!Next
  <2>1. B!ReportsTypeOK'
    BY <1>2, ReportsTypes DEF ReportsInv
  <2>2. QED
    BY <1>2, <2>1, RowsFollowNext, ListedNext, OneYoungNext, DoomedNext, CompletedNext DEF ReportsInv
<1>3. QED
  BY <1>1, <1>2

LEMMA ReportsFollow == ASSUME ReportsInv PROVE B!ReportsTypeOK /\ B!ReportsAreKept
<1>1. \A b, c \in B!Backups :
        reports[b].status \in B!Active /\ reports[c].status \in B!Active /\ ~reports[b].old /\ ~reports[c].old => b = c
  BY DEF ReportsInv, OneYoung, Young
<1>2. \A b \in B!Backups :
        B!Is(b, "completed") => b \in files \/ Cardinality({c \in B!Backups : c > b /\ reports[c].file}) >= Keep
  BY DEF ReportsInv, CompletedAreStored, Replaced, Newest
<1>3. QED
  BY <1>1, <1>2, BackupsCounted DEF B!ReportsAreKept, ReportsInv

(* One backup of less than a day is under way, and one that completed can  *)
(* be downloaded unless newer ones have been made.                         *)
THEOREM BackupsAreKept == ASSUME ReportConstants PROVE B!Spec => [](B!ReportsTypeOK /\ B!ReportsAreKept)
<1>1. B!Init => ReportsInv
  BY ReportsInit
<1>2. ReportsInv /\ [B!Next]_B!reports => ReportsInv'
  BY ReportsStep
<1>3. ReportsInv => B!ReportsTypeOK /\ B!ReportsAreKept
  BY ReportsFollow
<1>4. QED
  BY <1>1, <1>2, <1>3, PTL DEF B!Spec
=============================================================================
