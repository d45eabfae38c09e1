------------------------ MODULE SystemBackupsProofs ------------------------
(***************************************************************************)
(* Proofs about SystemBackups, for every number of rows, runners, sweepers *)
(* and attempts.  The first part holds for every set of faults; the later  *)
(* theorems name the faults they exclude (Timely, Smooth), as the runs that *)
(* check the same properties do.                                           *)
(***************************************************************************)
EXTENDS SystemBackups, FiniteSetTheorems, TLAPS

USE SystemBackupsAssumption

(* Whoever is to build a row, or is building it, has the row's passphrase  *)
(* exactly when the row has one; and no call or run is for an unused row.  *)
SecretInv ==
  /\ \A c \in calls : rows[c.row].status # "none" /\ c.pass = rows[c.row].secret
  /\ \A r \in Runners : runs[r].at # "idle" =>
       /\ runs[r].row \in Backups
       /\ rows[runs[r].row].status # "none"
       /\ runs[r].pass = rows[runs[r].row].secret

(* What an action does to the rows: none becomes unused again, and none of *)
(* those in use changes its passphrase_required.                           *)
RowsKept ==
  \A b \in Backups : rows[b].status # "none" =>
    rows'[b].status # "none" /\ rows'[b].secret = rows[b].secret

(* A write of one row is well typed and keeps the others.                  *)
LEMMA WriteRow ==
  ASSUME TypeOK, NEW b \in Backups, NEW new \in Row,
         rows' = [rows EXCEPT ![b] = new],
         rows[b].status # "none" => new.status # "none" /\ new.secret = rows[b].secret
  PROVE  rows' \in [Backups -> Row] /\ RowsKept
BY DEF TypeOK, RowsKept

LEMMA WriteRun ==
  ASSUME TypeOK, NEW r \in Runners, NEW new \in Run,
         runs' = [runs EXCEPT ![r] = new]
  PROVE  runs' \in [Runners -> Run]
BY DEF TypeOK

LEMMA IdleIsRun == Idle \in Run
BY DEF Idle, Run, Claims, Vias, Steps

(* Moving a runner on changes neither its row nor its passphrase.          *)
LEMMA MoveRun ==
  ASSUME TypeOK, NEW r \in Runners, NEW step \in Steps, Goto(r, step)
  PROVE  /\ runs' \in [Runners -> Run]
         /\ \A q \in Runners : runs'[q].at # "idle" =>
              (q = r => step # "idle") /\ runs'[q].row = runs[q].row /\ runs'[q].pass = runs[q].pass
<1>1. CASE step = "idle"
  <2>1. runs' = [runs EXCEPT ![r] = Idle]
    BY <1>1 DEF Goto
  <2>2. QED
    BY <2>1, IdleIsRun, WriteRun DEF TypeOK, Idle
<1>2. CASE step # "idle"
  <2> DEFINE new == [runs[r] EXCEPT !.at = step]
  <2>1. runs' = [runs EXCEPT ![r] = new]
    BY <1>2 DEF Goto
  <2>2. runs[r] \in Run
    BY DEF TypeOK
  <2>3. new \in Run /\ new.row = runs[r].row /\ new.pass = runs[r].pass
    BY <2>2 DEF Run
  <2>4. runs' \in [Runners -> Run]
    BY <2>1, <2>3, WriteRun
  <2>5. QED
    BY <2>1, <2>3, <2>4, <1>2 DEF TypeOK
<1>3. QED
  BY <1>1, <1>2

(* A busy runner is on a row in use, with its passphrase.                  *)
LEMMA MoveKeepsSecret ==
  ASSUME TypeOK, SecretInv, RowsKept, calls' = calls,
         NEW r \in Runners, runs[r].at # "idle", NEW step \in Steps, Goto(r, step)
  PROVE  SecretInv'
<1>1. \A q \in Runners : runs'[q].at # "idle" =>
        /\ runs[q].at # "idle"
        /\ runs'[q].row = runs[q].row /\ runs'[q].pass = runs[q].pass
  <2>1. \A q \in Runners : q # r => runs'[q] = runs[q]
    BY DEF Goto, TypeOK
  <2>2. QED
    BY <2>1, MoveRun
<1>2. \A c \in calls : c.row \in Backups
  BY DEF TypeOK, Call
<1>3. QED
  BY <1>1, <1>2 DEF SecretInv, RowsKept

(* No runner moves.                                                        *)
LEMMA RestKeepsSecret ==
  ASSUME TypeOK, SecretInv, RowsKept, runs' = runs,
         \A c \in calls' : \/ c \in calls
                           \/ /\ c.row \in Backups
                              /\ rows'[c.row].status # "none"
                              /\ c.pass = rows'[c.row].secret
  PROVE  SecretInv'
<1>1. \A c \in calls : c.row \in Backups
  BY DEF TypeOK, Call
<1>2. QED
  BY <1>1 DEF SecretInv, RowsKept

-----------------------------------------------------------------------------
(* Every action preserves TypeOK and SecretInv.                            *)

LEMMA NewRowIsRow ==
  ASSUME NEW trigger \in Triggers, NEW secret \in BOOLEAN
  PROVE  /\ NewRow(trigger, secret) \in Row
         /\ NewRow(trigger, secret).status = "pending"
         /\ NewRow(trigger, secret).secret = secret
<1> DEFINE new == [NoRow EXCEPT !.status = "pending", !.trigger = trigger, !.secret = secret]
<1>1. NoRow \in Row
  BY DEF NoRow, Row, Statuses, ActiveStatuses, Claims, NoFile, Triggers
<1>2. new \in Row /\ new.status = "pending" /\ new.secret = secret
  BY <1>1 DEF Row, Statuses, ActiveStatuses
<1>3. QED
  BY <1>2 DEF NewRow

(* Whatever dispatch_system_backup does, what it queues is well typed and  *)
(* for that row.                                                           *)
LEMMA DispatchQueues ==
  ASSUME TypeOK, NEW b \in Backups, NEW pass \in BOOLEAN, Dispatch(b, pass)
  PROVE  /\ calls' \subseteq Call
         /\ \A c \in calls' : c \in calls \/ (c.row = b /\ c.pass = pass)
BY DEF TypeOK, Dispatch, Task, Inline, Call, Vias

LEMMA CreatePreserves ==
  ASSUME TypeOK, SecretInv, Create
  PROVE  TypeOK' /\ SecretInv'
<1>1. ASSUME NEW b \in Backups, NEW secret \in BOOLEAN, CreateManual(b, secret)
      PROVE  TypeOK' /\ SecretInv'
  <2>1. NewRow("manual", secret) \in Row /\ NewRow("manual", secret).status = "pending"
          /\ NewRow("manual", secret).secret = secret
    BY NewRowIsRow DEF Triggers
  <2>2. rows' \in [Backups -> Row] /\ RowsKept
    BY <1>1, <2>1, WriteRow DEF CreateManual
  <2>3. rows'[b] = NewRow("manual", secret)
    BY <1>1 DEF CreateManual, TypeOK
  <2>4. /\ calls' \subseteq Call
        /\ \A c \in calls' : c \in calls \/ (c.row = b /\ c.pass = secret)
    BY <1>1, DispatchQueues DEF CreateManual
  <2>5. TypeOK'
    BY <1>1, <2>2, <2>4 DEF CreateManual, TypeOK
  <2>6. QED
    BY <1>1, <2>1, <2>2, <2>3, <2>4, <2>5, RestKeepsSecret DEF CreateManual
<1>2. ASSUME NEW b \in Backups, NEW via \in Vias, CreateForUpdate(b, via)
      PROVE  TypeOK' /\ SecretInv'
  <2>1. NewRow("update", FALSE) \in Row /\ NewRow("update", FALSE).status = "pending"
          /\ NewRow("update", FALSE).secret = FALSE
    BY NewRowIsRow DEF Triggers
  <2>2. rows' \in [Backups -> Row] /\ RowsKept
    BY <1>2, <2>1, WriteRow DEF CreateForUpdate
  <2>3. rows'[b] = NewRow("update", FALSE)
    BY <1>2 DEF CreateForUpdate, TypeOK
  <2>4. /\ calls' \subseteq Call
        /\ \A c \in calls' : c \in calls \/ (c.row = b /\ c.pass = FALSE)
    <3> DEFINE call == [row |-> b, pass |-> FALSE, via |-> via]
    <3>1. call \in Call /\ call.row = b /\ call.pass = FALSE
      BY DEF Call
    <3>2. calls' = calls \cup {call}
      BY <1>2 DEF CreateForUpdate
    <3>3. QED
      BY <3>1, <3>2 DEF TypeOK
  <2>5. TypeOK'
    BY <1>2, <2>2, <2>4 DEF CreateForUpdate, TypeOK
  <2>6. QED
    BY <1>2, <2>1, <2>2, <2>3, <2>4, <2>5, RestKeepsSecret DEF CreateForUpdate
<1>3. QED
  BY <1>1, <1>2 DEF Create

LEMMA ClaimPreserves ==
  ASSUME TypeOK, SecretInv, NEW r \in Runners, NEW c \in calls, Claim(r, c)
  PROVE  TypeOK' /\ SecretInv'
<1> DEFINE b == c.row
           att == rows[b].attempts + 1
           row == [rows[b] EXCEPT !.status = "running", !.attempts = att,
                                  !.next = "none", !.stale = FALSE]
           run == [row |-> b, att |-> att, pass |-> c.pass, via |-> c.via,
                   at |-> IF rows[b].secret /\ ~c.pass THEN "failing" ELSE "building"]
<1>1. b \in Backups /\ c.pass \in BOOLEAN /\ c.via \in Vias /\ rows[b] \in Row
  BY DEF TypeOK, Call
<1>2. rows' = [rows EXCEPT ![b] = row] /\ runs' = [runs EXCEPT ![r] = run] /\ att \in Claims
  BY DEF Claim
<1>3. row \in Row /\ row.status = "running" /\ row.secret = rows[b].secret
  BY <1>1, <1>2 DEF Row, Statuses, ActiveStatuses
<1>4. run \in Run
  BY <1>1, <1>2 DEF Run, Steps, BuildSteps
<1>5. rows' \in [Backups -> Row] /\ RowsKept
  BY <1>1, <1>2, <1>3, WriteRow
<1>6. runs' \in [Runners -> Run]
  BY <1>2, <1>4, WriteRun
<1>7. calls' \subseteq calls
  BY DEF Claim, Delivered
<1>8. TypeOK'
  BY <1>5, <1>6, <1>7 DEF Claim, TypeOK
<1>9. c.pass = rows[b].secret /\ rows[b].status # "none"
  BY DEF SecretInv
<1>10. runs'[r] = run /\ \A q \in Runners : q # r => runs'[q] = runs[q]
  BY <1>2 DEF TypeOK
<1>11. \A d \in calls' : rows'[d.row].status # "none" /\ d.pass = rows'[d.row].secret
  BY <1>5, <1>7 DEF SecretInv, RowsKept, TypeOK, Call
<1>12. \A q \in Runners : runs'[q].at # "idle" =>
         /\ runs'[q].row \in Backups
         /\ rows'[runs'[q].row].status # "none"
         /\ runs'[q].pass = rows'[runs'[q].row].secret
  BY <1>1, <1>5, <1>9, <1>10 DEF SecretInv, RowsKept
<1>13. QED
  BY <1>8, <1>11, <1>12 DEF SecretInv

LEMMA PassPreserves ==
  ASSUME TypeOK, SecretInv, NEW r \in Runners, NEW c \in calls, Pass(r, c)
  PROVE  TypeOK' /\ SecretInv'
<1> DEFINE tail == [at |-> "tail", row |-> c.row, att |-> 0, pass |-> c.pass, via |-> c.via]
           run == IF AfterRun(c.via) = "idle" THEN Idle ELSE tail
<1>1. c.row \in Backups /\ c.pass \in BOOLEAN /\ c.via \in Vias
  BY DEF TypeOK, Call
<1>2. tail \in Run
  BY <1>1 DEF Run, Steps, Claims
<1>3. run \in Run
  BY <1>2, IdleIsRun
<1>4. runs' = [runs EXCEPT ![r] = run]
  BY DEF Pass
<1>5. runs' \in [Runners -> Run]
  BY <1>3, <1>4, WriteRun
<1>6. rows' = rows /\ calls' \subseteq calls
  BY DEF Pass, Delivered
<1>7. TypeOK'
  BY <1>5, <1>6 DEF Pass, TypeOK
<1>8. runs'[r] = run /\ \A q \in Runners : q # r => runs'[q] = runs[q]
  BY <1>4 DEF TypeOK
<1>9. run.at # "idle" => run.row = c.row /\ run.pass = c.pass
  BY DEF Idle
<1>10. QED
  BY <1>1, <1>6, <1>7, <1>8, <1>9 DEF SecretInv

(* An action that only moves a runner, and perhaps the archives.           *)
LEMMA OnlyMovePreserves ==
  ASSUME TypeOK, SecretInv, NEW r \in Runners, NEW step \in Steps,
         runs[r].at # "idle", Goto(r, step),
         stored' \in [Backups -> SUBSET Claims],
         UNCHANGED <<rows, calls, sweeps, deleting, resumes>>
  PROVE  TypeOK' /\ SecretInv'
<1>1. RowsKept
  BY DEF RowsKept
<1>2. TypeOK'
  BY MoveRun DEF TypeOK
<1>3. QED
  BY <1>1, <1>2, MoveKeepsSecret

(* An action that moves a runner and writes its row.                       *)
LEMMA MoveAndWritePreserves ==
  ASSUME TypeOK, SecretInv, NEW r \in Runners, NEW step \in Steps,
         runs[r].at # "idle", Goto(r, step),
         rows' \in [Backups -> Row], RowsKept,
         UNCHANGED <<calls, stored, sweeps, deleting, resumes>>
  PROVE  TypeOK' /\ SecretInv'
<1>1. TypeOK'
  BY MoveRun DEF TypeOK
<1>2. QED
  BY <1>1, MoveKeepsSecret

(* An action that writes one row and moves no runner; what it queues has   *)
(* the row's passphrase.                                                   *)
LEMMA OnlyWritePreserves ==
  ASSUME TypeOK, SecretInv, NEW b \in Backups,
         rows' \in [Backups -> Row], RowsKept, runs' = runs,
         calls' \subseteq Call,
         \A c \in calls' : c \in calls \/
           (c.row = b /\ rows[b].status # "none" /\ c.pass = rows[b].secret),
         stored' \in [Backups -> SUBSET Claims],
         sweeps' \in [Sweepers -> Sweep],
         deleting' \in [Backups -> Claims \cup {Unread}],
         resumes' \in 0..MaxResumes
  PROVE  TypeOK' /\ SecretInv'
<1>1. TypeOK'
  BY DEF TypeOK
<1>2. QED
  BY <1>1, RestKeepsSecret DEF RowsKept

(* fail_system_backup leaves a well-typed row that is still in use.        *)
LEMMA FailsWrites ==
  ASSUME TypeOK, NEW b \in Backups, NEW attempts, NEW inHand, NEW retryable,
         Fails(b, attempts, inHand, retryable)
  PROVE  rows' \in [Backups -> Row] /\ RowsKept
<1> DEFINE armed == [rows[b] EXCEPT !.status = "pending", !.next = "later", !.stale = FALSE]
           failed == [rows[b] EXCEPT !.status = "failed", !.next = "none", !.stale = FALSE]
<1>1. PICK up \in CeleryUp :
        rows' = [rows EXCEPT ![b] =
          IF rows[b].status = "gone" THEN rows[b]
          ELSE IF retryable /\ CanAutoRetry(attempts, rows[b].secret, inHand, up)
          THEN armed ELSE failed]
  BY DEF Fails
<1>2. \E new \in {rows[b], armed, failed} : rows' = [rows EXCEPT ![b] = new]
  BY <1>1
<1>3. rows[b] \in Row
  BY DEF TypeOK
<1>4. armed \in Row /\ armed.status = "pending" /\ armed.secret = rows[b].secret
  BY <1>3 DEF Row, Statuses, ActiveStatuses
<1>5. failed \in Row /\ failed.status = "failed" /\ failed.secret = rows[b].secret
  BY <1>3 DEF Row, Statuses, ActiveStatuses
<1>6. PICK new \in {rows[b], armed, failed} : rows' = [rows EXCEPT ![b] = new]
  BY <1>2
<1>7. new \in Row /\ (rows[b].status # "none" => new.status # "none" /\ new.secret = rows[b].secret)
  BY <1>3, <1>4, <1>5
<1>8. QED
  BY <1>6, <1>7, WriteRow

(* A runner that is not idle is on a row.                                  *)
LEMMA BusyRunHasRow ==
  ASSUME TypeOK, SecretInv, NEW r \in Runners, runs[r].at # "idle"
  PROVE  /\ runs[r] \in Run /\ runs[r].row \in Backups /\ runs[r].att \in Claims
         /\ rows[runs[r].row] \in Row /\ AfterRun(runs[r].via) \in Steps
BY DEF TypeOK, SecretInv, Run, AfterRun, Steps

LEMMA StepPreserves ==
  ASSUME TypeOK, SecretInv, NEW r \in Runners, Step(r) \/ Raise(r) \/ Crash(r)
  PROVE  TypeOK' /\ SecretInv'
<1> DEFINE b == runs[r].row
<1>1. CASE Report(r)
  <2>1. runs[r].at # "idle"
    BY <1>1 DEF Report
  <2>2. \E step \in {"storing", "dropping"} : Goto(r, step)
    BY <1>1 DEF Report
  <2>3. PICK step \in Steps : Goto(r, step)
    BY <2>2 DEF Steps, BuildSteps
  <2>4. QED
    BY <1>1, <2>1, <2>3, OnlyMovePreserves DEF Report, TypeOK
<1>2. CASE Store(r)
  <2>1. runs[r].at # "idle" /\ Goto(r, "stored") /\ "stored" \in Steps
    BY <1>2 DEF Store, Steps, BuildSteps
  <2>2. stored' = [stored EXCEPT ![b] = stored[b] \cup {runs[r].att}]
    BY <1>2 DEF Store
  <2>3. stored' \in [Backups -> SUBSET Claims]
    BY <2>1, <2>2, BusyRunHasRow DEF TypeOK
  <2>4. QED
    BY <1>2, <2>1, <2>3, OnlyMovePreserves DEF Store
<1>3. CASE Finish(r)
  <2> DEFINE done == [rows[b] EXCEPT !.status = "completed", !.next = "none",
                                     !.stale = FALSE, !.file = runs[r].att]
  <2>1. runs[r].at # "idle"
    BY <1>3 DEF Finish
  <2>2. CASE rows[b].status = "running"
    <3>1. rows' = [rows EXCEPT ![b] = done] /\ Goto(r, "finished")
      BY <1>3, <2>2 DEF Finish
    <3>2. done \in Row /\ done.status = "completed" /\ done.secret = rows[b].secret
      BY <2>1, BusyRunHasRow DEF Row, Statuses, ActiveStatuses
    <3>3. rows' \in [Backups -> Row] /\ RowsKept
      BY <2>1, <3>1, <3>2, BusyRunHasRow, WriteRow
    <3>4. "finished" \in Steps
      BY DEF Steps
    <3>5. QED
      BY <1>3, <2>1, <3>1, <3>3, <3>4, MoveAndWritePreserves DEF Finish
  <2>3. CASE rows[b].status # "running"
    <3>1. Goto(r, "dropping") /\ rows' = rows /\ "dropping" \in Steps
      BY <1>3, <2>3 DEF Finish, Steps
    <3>2. QED
      BY <1>3, <2>1, <3>1, OnlyMovePreserves DEF Finish, TypeOK
  <2>4. QED
    BY <2>2, <2>3
<1>4. CASE Conclude(r)
  <2>1. runs[r].at # "idle" /\ Goto(r, AfterRun(runs[r].via))
    BY <1>4 DEF Conclude
  <2>2. QED
    BY <1>4, <2>1, BusyRunHasRow, OnlyMovePreserves DEF Conclude, TypeOK
<1>5. CASE Discard(r)
  <2>1. runs[r].at # "idle"
    BY <1>5 DEF Discard
  <2>2. \E step \in {"failing", AfterRun(runs[r].via)} : Goto(r, step)
    BY <1>5 DEF Discard
  <2>3. PICK step \in Steps : Goto(r, step)
    BY <2>1, <2>2, BusyRunHasRow DEF Steps
  <2>4. stored' = [stored EXCEPT ![b] = stored[b] \ {runs[r].att}]
    BY <1>5 DEF Discard
  <2>5. stored' \in [Backups -> SUBSET Claims]
    BY <2>4 DEF TypeOK
  <2>6. QED
    BY <1>5, <2>1, <2>3, <2>5, OnlyMovePreserves DEF Discard
<1>6. CASE FailRun(r)
  <2>1. runs[r].at # "idle" /\ Goto(r, AfterRun(runs[r].via))
    BY <1>6 DEF FailRun
  <2>2. PICK retryable \in BOOLEAN :
          Fails(b, runs[r].att, runs[r].via = "task" /\ runs[r].pass, retryable)
    BY <1>6 DEF FailRun
  <2>3. rows' \in [Backups -> Row] /\ RowsKept
    BY <2>1, <2>2, BusyRunHasRow, FailsWrites
  <2>4. QED
    BY <1>6, <2>1, <2>3, BusyRunHasRow, MoveAndWritePreserves DEF FailRun
<1>7. CASE Requeue(r)
  <2> DEFINE call == [row |-> b, pass |-> runs[r].pass, via |-> "task"]
  <2>1. runs[r].at # "idle" /\ Goto(r, "idle") /\ rows' = rows
    BY <1>7 DEF Requeue
  <2>2. call \in Call /\ call.row = b /\ call.pass = runs[r].pass
    BY <2>1, BusyRunHasRow DEF Call, Vias, Run
  <2>3. calls' \subseteq calls \cup {call}
    BY <1>7 DEF Requeue, Task
  <2>4. TypeOK'
    BY <1>7, <2>1, <2>2, <2>3, MoveRun DEF Requeue, TypeOK, Steps
  <2>5. runs'[r].at = "idle" /\ \A q \in Runners : q # r => runs'[q] = runs[q]
    BY <2>1 DEF Goto, Idle, TypeOK
  <2>6. call.pass = rows[b].secret /\ rows[b].status # "none"
    BY <2>1, <2>2 DEF SecretInv
  <2>7. QED
    BY <2>1, <2>2, <2>3, <2>4, <2>5, <2>6 DEF SecretInv
<1>8. CASE EndCommand(r)
  <2> DEFINE cancelled == [rows[b] EXCEPT !.status = "cancelled", !.next = "none",
                                          !.stale = FALSE]
  <2>1. runs[r].at # "idle" /\ Goto(r, "idle") /\ "idle" \in Steps
    BY <1>8 DEF EndCommand, Steps
  <2>2. \E new \in {rows[b], cancelled} : rows' = [rows EXCEPT ![b] = new]
    BY <1>8 DEF EndCommand
  <2>3. /\ cancelled \in Row /\ cancelled.status = "cancelled"
        /\ cancelled.secret = rows[b].secret
    BY <2>1, BusyRunHasRow DEF Row, Statuses, ActiveStatuses
  <2> HIDE DEF cancelled
  <2>4. b \in Backups /\ rows[b] \in Row /\ rows[b].status # "none"
    BY <2>1, BusyRunHasRow DEF SecretInv
  <2>5. PICK new \in Row : /\ rows' = [rows EXCEPT ![b] = new]
                          /\ new.secret = rows[b].secret /\ new.status # "none"
    BY <2>2, <2>3, <2>4
  <2>6. rows' \in [Backups -> Row] /\ RowsKept
    BY <2>4, <2>5, WriteRow
  <2>7. QED
    BY <1>8, <2>1, <2>6, MoveAndWritePreserves DEF EndCommand
<1>9. CASE Raise(r)
  <2>1. runs[r].at # "idle" /\ Goto(r, "undoing") /\ "undoing" \in Steps
    BY <1>9 DEF Raise, Steps, BuildSteps
  <2>2. QED
    BY <1>9, <2>1, OnlyMovePreserves DEF Raise, TypeOK
<1>10. CASE Crash(r)
  <2>1. runs[r].at # "idle" /\ Goto(r, "idle") /\ "idle" \in Steps
    BY <1>10 DEF Crash, Steps
  <2>2. QED
    BY <1>10, <2>1, OnlyMovePreserves DEF Crash, TypeOK
<1>11. QED
  BY <1>1, <1>2, <1>3, <1>4, <1>5, <1>6, <1>7, <1>8, <1>9, <1>10 DEF Step

LEMMA CallsOfRow ==
  ASSUME NEW b \in Backups, NEW pass \in BOOLEAN
  PROVE  /\ Task(b, pass) \in Call /\ Task(b, pass).row = b /\ Task(b, pass).pass = pass
         /\ Inline(b, pass) \in Call /\ Inline(b, pass).row = b /\ Inline(b, pass).pass = pass
BY DEF Task, Inline, Call, Vias

LEMMA RestedIsSweep == Rested \in Sweep
BY DEF Rested, Sweep

LEMMA SweepPreserves ==
  ASSUME TypeOK, SecretInv, NEW p \in Sweepers,
         Pace(p) \/ \E b \in Backups : CreateScheduled(p, b)
  PROVE  TypeOK' /\ SecretInv'
<1>1. ASSUME NEW kind \in {"page", "beat"}, SweepStart(p, kind)
      PROVE  TypeOK' /\ SecretInv'
  <2> DEFINE seen == [b \in Backups |-> IF Stalled(b) THEN rows[b].attempts ELSE Unseen]
             new == [at |-> kind, seen |-> seen]
  <2>1. seen \in [Backups -> Claims \cup {Unseen}]
    BY DEF TypeOK, Row
  <2>2. new \in Sweep
    BY <2>1 DEF Sweep
  <2>3. sweeps' = [sweeps EXCEPT ![p] = new]
    BY <1>1 DEF SweepStart
  <2>4. sweeps' \in [Sweepers -> Sweep]
    BY <2>2, <2>3 DEF TypeOK
  <2>5. QED
    BY <1>1, <2>4 DEF SweepStart, TypeOK, SecretInv
<1>2. ASSUME NEW b \in Backups, SweepFail(p, b)
      PROVE  TypeOK' /\ SecretInv'
  <2>1. rows' \in [Backups -> Row] /\ RowsKept
    BY <1>2, FailsWrites DEF SweepFail
  <2> DEFINE seen == [sweeps[p].seen EXCEPT ![b] = Unseen]
             new == [sweeps[p] EXCEPT !.seen = seen]
  <2>2. sweeps[p] \in Sweep
    BY DEF TypeOK
  <2>3. seen \in [Backups -> Claims \cup {Unseen}]
    BY <2>2 DEF Sweep
  <2>4. new \in Sweep
    BY <2>2, <2>3 DEF Sweep
  <2>5. sweeps' = [sweeps EXCEPT ![p] = IF rows[b].status = "gone" THEN Rested ELSE new]
    BY <1>2 DEF SweepFail
  <2> HIDE DEF new
  <2>6. sweeps' \in [Sweepers -> Sweep]
    BY <2>4, <2>5, RestedIsSweep DEF TypeOK
  <2>7. QED
    BY <1>2, <2>1, <2>6, OnlyWritePreserves DEF SweepFail, TypeOK
<1>3. ASSUME NEW b \in Backups, DispatchDue(p, b)
      PROVE  TypeOK' /\ SecretInv'
  <2> DEFINE new == [rows[b] EXCEPT !.next = "none"]
  <2>1. rows' = [rows EXCEPT ![b] = new] /\ rows[b].secret = FALSE /\ rows[b].status = "pending"
    BY <1>3 DEF DispatchDue, Due, TypeOK, Row
  <2>2. rows[b] \in Row
    BY DEF TypeOK
  <2>3. new \in Row /\ new.status = rows[b].status /\ new.secret = rows[b].secret
    BY <2>2 DEF Row
  <2>4. rows' \in [Backups -> Row] /\ RowsKept
    BY <2>1, <2>3, WriteRow
  <2>5. calls' \subseteq calls \cup {Task(b, FALSE), Inline(b, FALSE)}
    BY <1>3 DEF DispatchDue
  <2>6. /\ calls' \subseteq Call
        /\ \A c \in calls' : c \in calls \/ (c.row = b /\ c.pass = FALSE)
    BY <2>5, CallsOfRow DEF TypeOK
  <2>7. QED
    BY <1>3, <2>1, <2>4, <2>6, OnlyWritePreserves DEF DispatchDue, TypeOK
<1>4. Rested \in Sweep
  BY RestedIsSweep
<1>5. CASE SweepEnd(p)
  BY <1>4, <1>5 DEF SweepEnd, TypeOK, SecretInv
<1>6. ASSUME NEW b \in Backups, CreateScheduled(p, b)
      PROVE  TypeOK' /\ SecretInv'
  <2>1. NewRow("scheduled", FALSE) \in Row /\ NewRow("scheduled", FALSE).status = "pending"
          /\ NewRow("scheduled", FALSE).secret = FALSE
    BY NewRowIsRow DEF Triggers
  <2>2. rows' = [rows EXCEPT ![b] = NewRow("scheduled", FALSE)] /\ rows[b].status = "none"
    BY <1>6 DEF CreateScheduled
  <2>3. rows' \in [Backups -> Row] /\ RowsKept
    BY <2>1, <2>2, WriteRow
  <2>4. rows'[b] = NewRow("scheduled", FALSE)
    BY <2>2 DEF TypeOK
  <2>5. calls' = calls \cup {Inline(b, FALSE)}
    BY <1>6 DEF CreateScheduled
  <2>6. /\ calls' \subseteq Call
        /\ \A c \in calls' : c \in calls \/ (c.row = b /\ c.pass = FALSE)
    BY <2>5, CallsOfRow DEF TypeOK
  <2>7. TypeOK'
    BY <1>4, <1>6, <2>3, <2>6 DEF CreateScheduled, TypeOK
  <2>8. QED
    BY <1>6, <2>1, <2>3, <2>4, <2>6, <2>7, RestKeepsSecret DEF CreateScheduled
<1>7. QED
  BY <1>1, <1>2, <1>3, <1>5, <1>6 DEF Pace

LEMMA OperatorPreserves ==
  ASSUME TypeOK, SecretInv, NEW b \in Backups,
         \/ Resume(b) \/ Cancel(b) \/ DeleteRead(b) \/ DeleteRow(b)
         \/ BecomeDue(b) \/ BecomeStale(b)
  PROVE  TypeOK' /\ SecretInv'
<1>1. rows[b] \in Row
  BY DEF TypeOK
<1>2. CASE Resume(b)
  <2> DEFINE new == [rows[b] EXCEPT !.status = "pending", !.next = "none", !.stale = FALSE]
  <2>1. rows' = [rows EXCEPT ![b] = new] /\ rows[b].status # "none"
    BY <1>2 DEF Resume
  <2>2. new \in Row /\ new.status = "pending" /\ new.secret = rows[b].secret
    BY <1>1 DEF Row, Statuses, ActiveStatuses
  <2>3. rows' \in [Backups -> Row] /\ RowsKept
    BY <2>1, <2>2, WriteRow
  <2>4. rows[b].secret \in BOOLEAN
    BY <1>1 DEF Row
  <2>5. /\ calls' \subseteq Call
        /\ \A c \in calls' : c \in calls \/ (c.row = b /\ c.pass = rows[b].secret)
    BY <1>2, <2>4, DispatchQueues DEF Resume
  <2>6. resumes' \in 0..MaxResumes
    BY <1>2 DEF Resume, TypeOK
  <2>7. QED
    BY <1>2, <2>1, <2>3, <2>5, <2>6, OnlyWritePreserves DEF Resume, TypeOK
<1>3. CASE Cancel(b)
  <2> DEFINE new == [rows[b] EXCEPT !.status = "cancelled", !.next = "none", !.stale = FALSE]
  <2>1. rows' = [rows EXCEPT ![b] = new]
    BY <1>3 DEF Cancel
  <2>2. new \in Row /\ new.status = "cancelled" /\ new.secret = rows[b].secret
    BY <1>1 DEF Row, Statuses, ActiveStatuses
  <2>3. rows' \in [Backups -> Row] /\ RowsKept
    BY <2>1, <2>2, WriteRow
  <2>4. QED
    BY <1>3, <2>3, OnlyWritePreserves DEF Cancel, TypeOK
<1>4. CASE DeleteRead(b)
  <2>1. rows[b].file \in Claims
    BY <1>1 DEF Row
  <2>2. deleting' \in [Backups -> Claims \cup {Unread}]
    BY <1>4, <2>1 DEF DeleteRead, TypeOK
  <2>3. QED
    BY <1>4, <2>2 DEF DeleteRead, TypeOK, SecretInv
<1>5. CASE DeleteRow(b)
  <2> DEFINE new == [rows[b] EXCEPT !.status = "gone", !.next = "none"]
  <2>1. rows' = [rows EXCEPT ![b] = new]
    BY <1>5 DEF DeleteRow
  <2>2. new \in Row /\ new.status = "gone" /\ new.secret = rows[b].secret
    BY <1>1 DEF Row, Statuses, ActiveStatuses
  <2>3. rows' \in [Backups -> Row] /\ RowsKept
    BY <2>1, <2>2, WriteRow
  <2>4. stored' \in [Backups -> SUBSET Claims] /\ deleting' \in [Backups -> Claims \cup {Unread}]
    BY <1>5 DEF DeleteRow, TypeOK
  <2>5. QED
    BY <1>5, <2>3, <2>4, OnlyWritePreserves DEF DeleteRow, TypeOK
<1>6. CASE BecomeDue(b)
  <2> DEFINE new == [rows[b] EXCEPT !.next = "due"]
  <2>1. rows' = [rows EXCEPT ![b] = new]
    BY <1>6 DEF BecomeDue
  <2>2. new \in Row /\ new.status = rows[b].status /\ new.secret = rows[b].secret
    BY <1>1 DEF Row
  <2>3. rows' \in [Backups -> Row] /\ RowsKept
    BY <2>1, <2>2, WriteRow
  <2>4. QED
    BY <1>6, <2>3, OnlyWritePreserves DEF BecomeDue, TypeOK
<1>7. CASE BecomeStale(b)
  <2> DEFINE new == [rows[b] EXCEPT !.stale = TRUE]
  <2>1. rows' = [rows EXCEPT ![b] = new]
    BY <1>7 DEF BecomeStale
  <2>2. new \in Row /\ new.status = rows[b].status /\ new.secret = rows[b].secret
    BY <1>1 DEF Row
  <2>3. rows' \in [Backups -> Row] /\ RowsKept
    BY <2>1, <2>2, WriteRow
  <2>4. QED
    BY <1>7, <2>3, OnlyWritePreserves DEF BecomeStale, TypeOK
<1>8. QED
  BY <1>2, <1>3, <1>4, <1>5, <1>6, <1>7

LEMMA InitHolds == Init => TypeOK /\ SecretInv
<1> SUFFICES ASSUME Init PROVE TypeOK /\ SecretInv
  OBVIOUS
<1>1. NoRow \in Row
  BY DEF NoRow, Row, Statuses, ActiveStatuses, Claims, NoFile, Triggers
<1>2. Rested \in Sweep
  BY DEF Rested, Sweep
<1>3. TypeOK
  BY <1>1, <1>2, IdleIsRun DEF Init, TypeOK
<1>4. SecretInv
  BY DEF Init, SecretInv, Idle
<1>5. QED
  BY <1>3, <1>4

LEMMA NextPreserves == TypeOK /\ SecretInv /\ [Next]_vars => TypeOK' /\ SecretInv'
<1> SUFFICES ASSUME TypeOK, SecretInv, [Next]_vars
             PROVE  TypeOK' /\ SecretInv'
  OBVIOUS
<1>1. CASE Create
  BY <1>1, CreatePreserves
<1>2. CASE \E b \in Backups : Deliver(b)
  <2>1. PICK r \in Runners, c \in calls : Claim(r, c) \/ Pass(r, c)
    BY <1>2 DEF Deliver
  <2>2. QED
    BY <2>1, ClaimPreserves, PassPreserves
<1>3. CASE \E r \in Runners : Step(r) \/ Raise(r) \/ Crash(r)
  BY <1>3, StepPreserves
<1>4. CASE \E p \in Sweepers : Pace(p) \/ \E b \in Backups : CreateScheduled(p, b)
  BY <1>4, SweepPreserves
<1>5. CASE \E b \in Backups : \/ Resume(b) \/ Cancel(b) \/ DeleteRead(b) \/ DeleteRow(b)
                            \/ BecomeDue(b) \/ BecomeStale(b)
  BY <1>5, OperatorPreserves
<1>6. CASE \E c \in calls : LoseCall(c)
  BY <1>6 DEF LoseCall, TypeOK, SecretInv
<1>7. CASE UNCHANGED vars
  BY <1>7 DEF vars, TypeOK, SecretInv
<1>8. QED
  BY <1>1, <1>2, <1>3, <1>4, <1>5, <1>6, <1>7 DEF Next

(* Every row, call, run and sweep has the type its record says, in every   *)
(* behaviour: none of dispatch.py, create.py and retry.py writes a status, *)
(* schedule or attempt outside it.                                         *)
THEOREM TypeCorrect == Spec => []TypeOK
<1>1. QED
  BY InitHolds, NextPreserves, PTL DEF Spec

(* No run ever claims a passphrase-protected row without its passphrase,   *)
(* whatever crashes, is lost, delivered twice, cancelled or resumed: the   *)
(* sweep leaves those rows out, and the task re-queues its own arguments.  *)
THEOREM SecretsStayAttended == Spec => []SecretNeverUnattended
<1>1. SecretInv => SecretNeverUnattended
  BY DEF SecretInv, SecretNeverUnattended, BuildSteps
<1>2. QED
  BY <1>1, InitHolds, NextPreserves, PTL DEF Spec

-----------------------------------------------------------------------------
(* A completed row has its archive.                                        *)

Live(r) == runs[r].at \notin {"idle", "tail"}

(* The attempt number is the reason: no two runs of a row share one, only  *)
(* the run that finishes writes its own into the row, and a run discards   *)
(* nothing but its own archive.                                            *)
ArchiveInv ==
  /\ \A b \in Backups : rows[b].file <= rows[b].attempts
  /\ \A r \in Runners : Live(r) =>
       0 < runs[r].att /\ runs[r].att <= rows[runs[r].row].attempts
  /\ \A r, q \in Runners :
       r # q /\ Live(r) /\ Live(q) /\ runs[r].row = runs[q].row => runs[r].att # runs[q].att
  /\ \A r \in Runners : runs[r].at \in BuildSteps \cup {"dropping"} =>
       rows[runs[r].row].file # runs[r].att
  /\ \A r \in Runners : runs[r].at = "stored" /\ rows[runs[r].row].status # "gone" =>
       runs[r].att \in stored[runs[r].row]
  /\ \A r \in Runners : runs[r].at \in {"undoing", "failing"}
                          /\ rows[runs[r].row].file = runs[r].att => "post" \in Faults
  /\ CompletedHasItsArchive

(* Nothing completes, nothing deleted comes back, and no attempt number or *)
(* file moves, except in rows no run is on.                                *)
RowsQuiet ==
  \A b \in Backups :
    \/ /\ rows'[b].file = rows[b].file /\ rows'[b].attempts = rows[b].attempts
       /\ rows'[b].status = "completed" => rows[b].status = "completed"
       /\ rows[b].status = "gone" => rows'[b].status = "gone"
    \/ /\ \A r \in Runners : Live(r) => runs[r].row # b
       /\ rows'[b].file = 0 /\ rows'[b].attempts = 0
       /\ rows'[b].status # "completed"

(* Runs only stop, and none that is about to fail the row it completed     *)
(* leaves that row completed.                                              *)
RunsQuiet ==
  \A r \in Runners :
    \/ runs'[r] = runs[r]
    \/ /\ runs'[r].at \in {"idle", "tail"}
       /\ runs[r].at = "failing" /\ rows[runs[r].row].file = runs[r].att =>
            rows'[runs[r].row].status # "completed"

LEMMA NumbersAreNaturals ==
  ASSUME TypeOK, SecretInv
  PROVE  /\ \A b \in Backups : rows[b].file \in Nat /\ rows[b].attempts \in Nat
         /\ \A r \in Runners : runs[r].att \in Nat /\ (Live(r) => runs[r].row \in Backups)
BY DEF TypeOK, SecretInv, Row, Run, Claims, Live

LEMMA QuietKeepsArchive ==
  ASSUME TypeOK, SecretInv, ArchiveInv, stored' = stored, RowsQuiet, RunsQuiet
  PROVE  ArchiveInv'
<1>1. /\ \A b \in Backups : rows[b].file \in Nat /\ rows[b].attempts \in Nat
      /\ \A r \in Runners : runs[r].att \in Nat /\ (Live(r) => runs[r].row \in Backups)
  BY NumbersAreNaturals
<1>2. \A r \in Runners : Live(r)' => Live(r) /\ runs'[r] = runs[r]
  BY DEF RunsQuiet, Live
<1>3. \A r \in Runners : Live(r) =>
        /\ rows'[runs[r].row].file = rows[runs[r].row].file
        /\ rows'[runs[r].row].attempts = rows[runs[r].row].attempts
        /\ rows[runs[r].row].status = "gone" => rows'[runs[r].row].status = "gone"
  BY <1>1 DEF RowsQuiet
<1>4. \A b \in Backups : rows'[b].file <= rows'[b].attempts
  BY <1>1 DEF RowsQuiet, ArchiveInv
<1>5. \A r \in Runners : Live(r)' =>
        0 < runs'[r].att /\ runs'[r].att <= rows'[runs'[r].row].attempts
  BY <1>2, <1>3 DEF ArchiveInv
<1>6. \A r, q \in Runners :
        r # q /\ Live(r)' /\ Live(q)' /\ runs'[r].row = runs'[q].row => runs'[r].att # runs'[q].att
  BY <1>2 DEF ArchiveInv
<1>7. \A r \in Runners : runs'[r].at \in BuildSteps \cup {"dropping"} =>
        rows'[runs'[r].row].file # runs'[r].att
  BY <1>2, <1>3 DEF ArchiveInv, Live, BuildSteps
<1>8. \A r \in Runners : runs'[r].at = "stored" /\ rows'[runs'[r].row].status # "gone" =>
        runs'[r].att \in stored'[runs'[r].row]
  BY <1>2, <1>3 DEF ArchiveInv, Live
<1>9. \A r \in Runners : runs'[r].at \in {"undoing", "failing"}
                         /\ rows'[runs'[r].row].file = runs'[r].att => "post" \in Faults
  BY <1>2, <1>3 DEF ArchiveInv, Live
<1>10. CompletedHasItsArchive'
  <2> SUFFICES ASSUME NEW b \in Backups, rows'[b].status = "completed"
               PROVE  \/ rows'[b].file \in stored'[b]
                      \/ \E r \in Runners : /\ runs'[r].row = b /\ runs'[r].att = rows'[b].file
                                           /\ runs'[r].at = "failing"
    BY DEF CompletedHasItsArchive
  <2>1. rows[b].status = "completed" /\ rows'[b].file = rows[b].file
    BY DEF RowsQuiet
  <2>2. CASE rows[b].file \in stored[b]
    BY <2>1, <2>2
  <2>3. CASE rows[b].file \notin stored[b]
    <3>1. PICK r \in Runners : /\ runs[r].row = b /\ runs[r].att = rows[b].file
                              /\ runs[r].at = "failing"
      BY <2>1, <2>3 DEF ArchiveInv, CompletedHasItsArchive
    <3>2. runs'[r] = runs[r]
      BY <3>1 DEF RunsQuiet
    <3>3. QED
      BY <2>1, <3>1, <3>2
  <2>4. QED
    BY <2>2, <2>3
<1>11. QED
  BY <1>4, <1>5, <1>6, <1>7, <1>8, <1>9, <1>10 DEF ArchiveInv

LEMMA QuietWrite ==
  ASSUME TypeOK, NEW b \in Backups, NEW new, rows' = [rows EXCEPT ![b] = new],
         new.file = rows[b].file, new.attempts = rows[b].attempts,
         new.status = "completed" => rows[b].status = "completed",
         rows[b].status = "gone" => new.status = "gone"
  PROVE  RowsQuiet
BY DEF TypeOK, RowsQuiet

(* A row's first write: no run is on an unused row.                        *)
LEMMA NewRowIsQuiet ==
  ASSUME TypeOK, SecretInv, NEW b \in Backups, rows[b].status = "none",
         NEW trigger, NEW secret, rows' = [rows EXCEPT ![b] = NewRow(trigger, secret)]
  PROVE  RowsQuiet
<1> DEFINE new == [NoRow EXCEPT !.status = "pending", !.trigger = trigger, !.secret = secret]
<1>1. new.file = 0 /\ new.attempts = 0 /\ new.status = "pending"
  BY DEF NoRow, NoFile
<1>2. rows' = [rows EXCEPT ![b] = new]
  BY DEF NewRow
<1>3. \A r \in Runners : Live(r) => runs[r].row # b
  BY DEF SecretInv, Live
<1>4. rows'[b] = new /\ \A c \in Backups : c # b => rows'[c] = rows[c]
  BY <1>2 DEF TypeOK
<1>5. QED
  BY <1>1, <1>3, <1>4 DEF RowsQuiet

LEMMA FailsIsQuiet ==
  ASSUME TypeOK, NEW b \in Backups, NEW attempts, NEW inHand, NEW retryable,
         Fails(b, attempts, inHand, retryable)
  PROVE  RowsQuiet /\ rows'[b].status # "completed"
<1> DEFINE armed == [rows[b] EXCEPT !.status = "pending", !.next = "later", !.stale = FALSE]
           failed == [rows[b] EXCEPT !.status = "failed", !.next = "none", !.stale = FALSE]
<1>1. PICK up \in CeleryUp :
        rows' = [rows EXCEPT ![b] =
          IF rows[b].status = "gone" THEN rows[b]
          ELSE IF retryable /\ CanAutoRetry(attempts, rows[b].secret, inHand, up)
          THEN armed ELSE failed]
  BY DEF Fails
<1>2. rows[b] \in Row
  BY DEF TypeOK
<1>3. armed.status = "pending" /\ armed.file = rows[b].file /\ armed.attempts = rows[b].attempts
  BY <1>2 DEF Row
<1>4. failed.status = "failed" /\ failed.file = rows[b].file /\ failed.attempts = rows[b].attempts
  BY <1>2 DEF Row
<1>5. CASE rows[b].status = "gone"
  <2>1. rows' = [rows EXCEPT ![b] = rows[b]]
    BY <1>1, <1>5
  <2>2. QED
    BY <1>5, <2>1 DEF TypeOK, RowsQuiet
<1>6. CASE rows[b].status # "gone"
  <2>1. PICK new \in {armed, failed} : rows' = [rows EXCEPT ![b] = new]
    BY <1>1, <1>6
  <2>2. /\ new.status # "completed" /\ new.file = rows[b].file
        /\ new.attempts = rows[b].attempts
    BY <1>3, <1>4
  <2>3. rows'[b] = new
    BY <2>1 DEF TypeOK
  <2>4. QED
    BY <1>6, <2>1, <2>2, <2>3, QuietWrite
<1>7. QED
  BY <1>5, <1>6

(* What Goto leaves of the runs.                                           *)
LEMMA GotoMoves ==
  ASSUME TypeOK, NEW r \in Runners, NEW step, Goto(r, step)
  PROVE  /\ \A q \in Runners : q # r => runs'[q] = runs[q]
         /\ step = "idle" => runs'[r] = Idle
         /\ step # "idle" => /\ runs'[r].at = step /\ runs'[r].row = runs[r].row
                            /\ runs'[r].att = runs[r].att
<1>1. CASE step = "idle"
  BY <1>1 DEF Goto, TypeOK
<1>2. CASE step # "idle"
  <2> DEFINE new == [runs[r] EXCEPT !.at = step]
  <2>1. runs' = [runs EXCEPT ![r] = new]
    BY <1>2 DEF Goto
  <2>2. runs[r] \in Run
    BY DEF TypeOK
  <2>3. new.at = step /\ new.row = runs[r].row /\ new.att = runs[r].att
    BY <2>2 DEF Run
  <2>4. runs'[r] = new /\ \A q \in Runners : q # r => runs'[q] = runs[q]
    BY <2>1 DEF TypeOK
  <2>5. QED
    BY <1>2, <2>3, <2>4
<1>3. QED
  BY <1>1, <1>2

(* A run that goes on with its row as it was: only where it stands counts. *)
LEMMA GoOnKeepsArchive ==
  ASSUME TypeOK, SecretInv, ArchiveInv, rows' = rows, stored' = stored,
         NEW r \in Runners, NEW step, Goto(r, step), Live(r),
         step \notin {"idle", "tail", "stored", "failing"},
         runs[r].at # "failing",
         step \in BuildSteps \cup {"dropping"} => rows[runs[r].row].file # runs[r].att,
         step = "undoing" /\ rows[runs[r].row].file = runs[r].att => "post" \in Faults
  PROVE  ArchiveInv'
<1>1. /\ \A q \in Runners : q # r => runs'[q] = runs[q]
      /\ runs'[r].at = step /\ runs'[r].row = runs[r].row /\ runs'[r].att = runs[r].att
  BY GotoMoves
<1>2. \A q \in Runners : runs'[q].row = runs[q].row /\ runs'[q].att = runs[q].att
  BY <1>1
<1>2a. \A q \in Runners : Live(q)' => Live(q)
  BY <1>1 DEF Live
<1>3. \A b \in Backups : rows'[b].file <= rows'[b].attempts
  BY DEF ArchiveInv
<1>4. \A q \in Runners : Live(q)' =>
        0 < runs'[q].att /\ runs'[q].att <= rows'[runs'[q].row].attempts
  <2> SUFFICES ASSUME NEW q \in Runners, Live(q)'
               PROVE  0 < runs'[q].att /\ runs'[q].att <= rows'[runs'[q].row].attempts
    OBVIOUS
  <2>1. Live(q) /\ runs'[q].row = runs[q].row /\ runs'[q].att = runs[q].att
    BY <1>2, <1>2a
  <2>2. 0 < runs[q].att /\ runs[q].att <= rows[runs[q].row].attempts
    BY <2>1 DEF ArchiveInv
  <2>3. QED
    BY <2>1, <2>2
<1>5. \A p, q \in Runners :
        p # q /\ Live(p)' /\ Live(q)' /\ runs'[p].row = runs'[q].row => runs'[p].att # runs'[q].att
  <2> SUFFICES ASSUME NEW p \in Runners, NEW q \in Runners,
                      p # q, Live(p)', Live(q)', runs'[p].row = runs'[q].row
               PROVE  runs'[p].att # runs'[q].att
    OBVIOUS
  <2>1. /\ Live(p) /\ runs'[p].row = runs[p].row /\ runs'[p].att = runs[p].att
        /\ Live(q) /\ runs'[q].row = runs[q].row /\ runs'[q].att = runs[q].att
    BY <1>2, <1>2a
  <2>2. runs[p].row = runs[q].row
    BY <2>1
  <2>3. runs[p].att # runs[q].att
    BY <2>1, <2>2 DEF ArchiveInv
  <2>4. QED
    BY <2>1, <2>3
<1>6. \A q \in Runners : runs'[q].at \in BuildSteps \cup {"dropping"} =>
        rows'[runs'[q].row].file # runs'[q].att
  BY <1>1 DEF ArchiveInv
<1>7. \A q \in Runners : runs'[q].at = "stored" /\ rows'[runs'[q].row].status # "gone" =>
        runs'[q].att \in stored'[runs'[q].row]
  BY <1>1 DEF ArchiveInv
<1>8. \A q \in Runners : runs'[q].at \in {"undoing", "failing"}
                         /\ rows'[runs'[q].row].file = runs'[q].att => "post" \in Faults
  BY <1>1 DEF ArchiveInv
<1>9. CompletedHasItsArchive'
  BY <1>1 DEF ArchiveInv, CompletedHasItsArchive
<1>10. QED
  BY <1>3, <1>4, <1>5, <1>6, <1>7, <1>8, <1>9 DEF ArchiveInv

LEMMA ClaimKeepsArchive ==
  ASSUME TypeOK, SecretInv, ArchiveInv, NEW r \in Runners, NEW c \in calls, Claim(r, c)
  PROVE  ArchiveInv'
<1> DEFINE b == c.row
           att == rows[b].attempts + 1
           row == [rows[b] EXCEPT !.status = "running", !.attempts = att,
                                  !.next = "none", !.stale = FALSE]
           run == [row |-> b, att |-> att, pass |-> c.pass, via |-> c.via,
                   at |-> IF rows[b].secret /\ ~c.pass THEN "failing" ELSE "building"]
<1>1. b \in Backups /\ rows[b] \in Row
  BY DEF TypeOK, Call
<1>2. rows' = [rows EXCEPT ![b] = row] /\ runs' = [runs EXCEPT ![r] = run]
  BY DEF Claim
<1>3. row.status = "running" /\ row.attempts = att /\ row.file = rows[b].file
  BY <1>1 DEF Row
<1>4. rows'[b] = row /\ \A d \in Backups : d # b => rows'[d] = rows[d]
  BY <1>1, <1>2 DEF TypeOK
<1>5. runs'[r] = run /\ \A q \in Runners : q # r => runs'[q] = runs[q]
  BY <1>2 DEF TypeOK
<1>6. run.at \in {"building", "failing"} /\ run.row = b /\ run.att = att
  OBVIOUS
<1> HIDE DEF row, run
<1>7. /\ \A d \in Backups : rows[d].file \in Nat /\ rows[d].attempts \in Nat
      /\ \A q \in Runners : runs[q].att \in Nat /\ (Live(q) => runs[q].row \in Backups)
  BY NumbersAreNaturals
<1>8. rows[b].file < att
  BY <1>1, <1>7 DEF ArchiveInv
<1>9. \A q \in Runners : Live(q) /\ runs[q].row = b => runs[q].att < att
  BY <1>1, <1>7 DEF ArchiveInv
<1>10. \A d \in Backups : rows'[d].file = rows[d].file
  BY <1>3, <1>4
<1>11. \A d \in Backups : rows'[d].file <= rows'[d].attempts
  BY <1>3, <1>4, <1>7, <1>8 DEF ArchiveInv
<1>12. ~Live(r)
  BY DEF Claim, Live
<1>13. \A q \in Runners : q # r => (Live(q)' <=> Live(q))
  BY <1>5 DEF Live
<1>14. \A q \in Runners : Live(q)' =>
        0 < runs'[q].att /\ runs'[q].att <= rows'[runs'[q].row].attempts
  <2> SUFFICES ASSUME NEW q \in Runners, Live(q)'
               PROVE  0 < runs'[q].att /\ runs'[q].att <= rows'[runs'[q].row].attempts
    OBVIOUS
  <2>1. CASE q = r
    BY <1>1, <1>3, <1>4, <1>5, <1>6, <1>7, <2>1
  <2>2. CASE q # r
    <3>1. /\ Live(q) /\ runs'[q] = runs[q] /\ runs[q].row \in Backups
          /\ 0 < runs[q].att /\ runs[q].att <= rows[runs[q].row].attempts
      BY <1>5, <1>7, <1>13, <2>2 DEF ArchiveInv
    <3>2. QED
      BY <1>3, <1>4, <1>7, <3>1
  <2>3. QED
    BY <2>1, <2>2
<1>15. \A p, q \in Runners :
        p # q /\ Live(p)' /\ Live(q)' /\ runs'[p].row = runs'[q].row => runs'[p].att # runs'[q].att
  <2> SUFFICES ASSUME NEW p \in Runners, NEW q \in Runners,
                      p # q, Live(p)', Live(q)', runs'[p].row = runs'[q].row
               PROVE  runs'[p].att # runs'[q].att
    OBVIOUS
  <2>1. CASE p = r
    BY <1>1, <1>5, <1>6, <1>7, <1>9, <1>13, <2>1
  <2>2. CASE q = r
    BY <1>1, <1>5, <1>6, <1>7, <1>9, <1>13, <2>2
  <2>3. CASE p # r /\ q # r
    BY <1>5, <1>13, <2>3 DEF ArchiveInv
  <2>4. QED
    BY <2>1, <2>2, <2>3
<1>16. \A q \in Runners : Live(q)' => runs'[q].row \in Backups
  BY <1>1, <1>5, <1>6, <1>7, <1>13
<1>17. rows'[runs'[r].row].file # runs'[r].att
  BY <1>1, <1>3, <1>4, <1>5, <1>6, <1>7, <1>8
<1>18. \A q \in Runners : runs'[q].at \in BuildSteps \cup {"dropping"} =>
         rows'[runs'[q].row].file # runs'[q].att
  BY <1>5, <1>10, <1>16, <1>17 DEF ArchiveInv, Live, BuildSteps
<1>19. \A q \in Runners : runs'[q].at = "stored" /\ rows'[runs'[q].row].status # "gone" =>
         runs'[q].att \in stored'[runs'[q].row]
  <2> SUFFICES ASSUME NEW q \in Runners, runs'[q].at = "stored",
                      rows'[runs'[q].row].status # "gone"
               PROVE  runs'[q].att \in stored'[runs'[q].row]
    OBVIOUS
  <2>1. runs'[q] = runs[q]
    BY <1>5, <1>6
  <2>2. stored' = stored /\ rows[b].status = "pending"
    BY DEF Claim, Claimable
  <2>3. rows[runs[q].row].status # "gone"
    BY <1>4, <1>16, <2>1, <2>2 DEF Live
  <2>4. QED
    BY <2>1, <2>2, <2>3 DEF ArchiveInv
<1>20. \A q \in Runners : runs'[q].at \in {"undoing", "failing"}
                         /\ rows'[runs'[q].row].file = runs'[q].att => "post" \in Faults
  <2> SUFFICES ASSUME NEW q \in Runners, runs'[q].at \in {"undoing", "failing"},
                      rows'[runs'[q].row].file = runs'[q].att
               PROVE  "post" \in Faults
    OBVIOUS
  <2>1. runs'[q] = runs[q]
    BY <1>5, <1>17
  <2>2. rows[runs[q].row].file = runs[q].att
    BY <1>10, <1>16, <2>1 DEF Live
  <2>3. QED
    BY <2>1, <2>2 DEF ArchiveInv
<1>21. CompletedHasItsArchive'
  <2> SUFFICES ASSUME NEW d \in Backups, rows'[d].status = "completed"
               PROVE  \/ rows'[d].file \in stored'[d]
                      \/ \E q \in Runners : /\ runs'[q].row = d /\ runs'[q].att = rows'[d].file
                                           /\ runs'[q].at = "failing"
    BY DEF CompletedHasItsArchive
  <2>1. rows[d].status = "completed" /\ rows'[d] = rows[d] /\ stored' = stored
    BY <1>3, <1>4 DEF Claim
  <2>2. CASE rows[d].file \in stored[d]
    BY <2>1, <2>2
  <2>3. CASE rows[d].file \notin stored[d]
    <3>1. PICK q \in Runners : /\ runs[q].row = d /\ runs[q].att = rows[d].file
                              /\ runs[q].at = "failing"
      BY <2>1, <2>3 DEF ArchiveInv, CompletedHasItsArchive
    <3>2. runs'[q] = runs[q]
      BY <1>5, <1>12, <3>1 DEF Live
    <3>3. QED
      BY <2>1, <3>1, <3>2
  <2>4. QED
    BY <2>2, <2>3
<1>22. QED
  BY <1>11, <1>14, <1>15, <1>18, <1>19, <1>20, <1>21 DEF ArchiveInv

LEMMA ReportKeepsArchive ==
  ASSUME TypeOK, SecretInv, ArchiveInv, NEW r \in Runners, Report(r)
  PROVE  ArchiveInv'
<1> DEFINE step == IF rows[runs[r].row].status = "running" THEN "storing" ELSE "dropping"
<1>1. /\ runs[r].at = "building" /\ Goto(r, step) /\ rows' = rows /\ stored' = stored
  BY DEF Report
<1>2. Live(r) /\ runs[r].at # "failing" /\ rows[runs[r].row].file # runs[r].att
  BY <1>1 DEF Live, ArchiveInv, BuildSteps
<1>3. step \in {"storing", "dropping"}
  OBVIOUS
<1> HIDE DEF step
<1>4. QED
  BY <1>1, <1>2, <1>3, GoOnKeepsArchive

LEMMA RaiseKeepsArchive ==
  ASSUME TypeOK, SecretInv, ArchiveInv, NEW r \in Runners, Raise(r)
  PROVE  ArchiveInv'
<1>1. /\ Goto(r, "undoing") /\ rows' = rows /\ stored' = stored
      /\ runs[r].at \in BuildSteps \/ ("post" \in Faults /\ runs[r].at = "finished")
  BY DEF Raise
<1>2. Live(r) /\ runs[r].at # "failing"
  BY <1>1 DEF Live, BuildSteps
<1>3. rows[runs[r].row].file = runs[r].att => "post" \in Faults
  BY <1>1 DEF ArchiveInv
<1>4. QED
  BY <1>1, <1>2, <1>3, GoOnKeepsArchive DEF BuildSteps

LEMMA StoreKeepsArchive ==
  ASSUME TypeOK, SecretInv, ArchiveInv, NEW r \in Runners, Store(r)
  PROVE  ArchiveInv'
<1> DEFINE b == runs[r].row
<1>1. /\ \A q \in Runners : q # r => runs'[q] = runs[q]
      /\ runs'[r].at = "stored" /\ runs'[r].row = b /\ runs'[r].att = runs[r].att
  BY GotoMoves DEF Store
<1>2. runs[r].at = "storing" /\ rows' = rows
      /\ stored' = [stored EXCEPT ![b] = stored[b] \cup {runs[r].att}]
  BY DEF Store
<1>3. Live(r) /\ b \in Backups
  BY <1>2, NumbersAreNaturals DEF Live
<1>4. runs[r].att \in stored'[b] /\ \A d \in Backups : stored[d] \subseteq stored'[d]
  BY <1>2, <1>3 DEF TypeOK
<1>5. \A q \in Runners : runs'[q].row = runs[q].row /\ runs'[q].att = runs[q].att
  BY <1>1
<1>6. \A q \in Runners : Live(q)' => Live(q)
  BY <1>1, <1>3 DEF Live
<1>7. \A d \in Backups : rows'[d].file <= rows'[d].attempts
  BY <1>2 DEF ArchiveInv
<1>8. \A q \in Runners : Live(q)' =>
        0 < runs'[q].att /\ runs'[q].att <= rows'[runs'[q].row].attempts
  BY <1>2, <1>5, <1>6 DEF ArchiveInv
<1>9. \A p, q \in Runners :
        p # q /\ Live(p)' /\ Live(q)' /\ runs'[p].row = runs'[q].row => runs'[p].att # runs'[q].att
  BY <1>5, <1>6 DEF ArchiveInv
<1>10. \A q \in Runners : runs'[q].at \in BuildSteps \cup {"dropping"} =>
        rows'[runs'[q].row].file # runs'[q].att
  BY <1>1, <1>2 DEF ArchiveInv, BuildSteps
<1>11. \A q \in Runners : runs'[q].at = "stored" /\ rows'[runs'[q].row].status # "gone" =>
         runs'[q].att \in stored'[runs'[q].row]
  <2> SUFFICES ASSUME NEW q \in Runners, runs'[q].at = "stored",
                      rows'[runs'[q].row].status # "gone"
               PROVE  runs'[q].att \in stored'[runs'[q].row]
    OBVIOUS
  <2>1. CASE q = r
    BY <1>1, <1>4, <2>1
  <2>2. CASE q # r
    <3>1. runs'[q] = runs[q] /\ runs[q].att \in stored[runs[q].row] /\ runs[q].row \in Backups
      BY <1>1, <1>2, <2>2, NumbersAreNaturals DEF ArchiveInv, Live
    <3>2. QED
      BY <1>4, <3>1
  <2>3. QED
    BY <2>1, <2>2
<1>12. \A q \in Runners : runs'[q].at \in {"undoing", "failing"}
                         /\ rows'[runs'[q].row].file = runs'[q].att => "post" \in Faults
  BY <1>1, <1>2 DEF ArchiveInv
<1>13. CompletedHasItsArchive'
  BY <1>1, <1>2, <1>4 DEF ArchiveInv, CompletedHasItsArchive
<1>14. QED
  BY <1>7, <1>8, <1>9, <1>10, <1>11, <1>12, <1>13 DEF ArchiveInv

(* The completion writes the run's own archive, which is on storage, into  *)
(* the row; no other run of the row has that number.                       *)
LEMMA FinishKeepsArchive ==
  ASSUME TypeOK, SecretInv, ArchiveInv, NEW r \in Runners, Finish(r)
  PROVE  ArchiveInv'
<1> DEFINE b == runs[r].row
           row == [rows[b] EXCEPT !.status = "completed", !.next = "none",
                                  !.stale = FALSE, !.file = runs[r].att]
<1>1. runs[r].at = "stored" /\ stored' = stored /\ Live(r) /\ b \in Backups
  BY NumbersAreNaturals DEF Finish, Live
<1>2. /\ rows[b].file # runs[r].att
      /\ rows[b].status = "running" => runs[r].att \in stored[b]
      /\ 0 < runs[r].att /\ runs[r].att <= rows[b].attempts
  BY <1>1 DEF ArchiveInv, BuildSteps
<1>3. CASE rows[b].status # "running"
  <2>1. rows' = rows /\ Goto(r, "dropping")
    BY <1>3 DEF Finish
  <2>2. QED
    BY <1>1, <1>2, <2>1, GoOnKeepsArchive
<1>4. CASE rows[b].status = "running"
  <2>1. rows' = [rows EXCEPT ![b] = row] /\ Goto(r, "finished")
    BY <1>4 DEF Finish
  <2>2. row.status = "completed" /\ row.file = runs[r].att /\ row.attempts = rows[b].attempts
    BY <1>1 DEF TypeOK, Row
  <2>3. rows'[b] = row /\ \A d \in Backups : d # b => rows'[d] = rows[d]
    BY <1>1, <2>1 DEF TypeOK
  <2> HIDE DEF row
  <2>4. /\ \A q \in Runners : q # r => runs'[q] = runs[q]
        /\ runs'[r].at = "finished" /\ runs'[r].row = b /\ runs'[r].att = runs[r].att
    BY <2>1, GotoMoves
  <2>5. \A q \in Runners : runs'[q].row = runs[q].row /\ runs'[q].att = runs[q].att
    BY <2>4
  <2>6. \A q \in Runners : Live(q)' => Live(q)
    BY <1>1, <2>4 DEF Live
  <2>7. \A q \in Runners : Live(q) => runs[q].row \in Backups
    BY NumbersAreNaturals
  <2>8. \A d \in Backups : rows'[d].attempts = rows[d].attempts
    BY <2>2, <2>3
  <2>9. \A d \in Backups : rows'[d].file <= rows'[d].attempts
    BY <1>2, <2>2, <2>3 DEF ArchiveInv
  <2>10. \A q \in Runners : Live(q)' =>
          0 < runs'[q].att /\ runs'[q].att <= rows'[runs'[q].row].attempts
    BY <2>5, <2>6, <2>7, <2>8 DEF ArchiveInv
  <2>11. \A p, q \in Runners :
          p # q /\ Live(p)' /\ Live(q)' /\ runs'[p].row = runs'[q].row => runs'[p].att # runs'[q].att
    BY <2>5, <2>6 DEF ArchiveInv
  <2>12. \A q \in Runners : q # r /\ Live(q) =>
           \/ runs[q].row # b /\ rows'[runs[q].row] = rows[runs[q].row]
           \/ runs[q].row = b /\ rows'[b].file # runs[q].att
    BY <1>1, <2>2, <2>3, <2>7 DEF ArchiveInv
  <2>13. \A q \in Runners : runs'[q].at \in BuildSteps \cup {"dropping"} =>
          rows'[runs'[q].row].file # runs'[q].att
    BY <2>4, <2>12 DEF ArchiveInv, BuildSteps, Live
  <2>14. \A q \in Runners : runs'[q].at = "stored" /\ rows'[runs'[q].row].status # "gone" =>
           runs'[q].att \in stored'[runs'[q].row]
    BY <1>1, <1>4, <2>3, <2>4, <2>7 DEF ArchiveInv, Live
  <2>15. \A q \in Runners : runs'[q].at \in {"undoing", "failing"}
                           /\ rows'[runs'[q].row].file = runs'[q].att => "post" \in Faults
    BY <2>4, <2>12 DEF ArchiveInv, Live
  <2>16. CompletedHasItsArchive'
    <3> SUFFICES ASSUME NEW d \in Backups, rows'[d].status = "completed"
                 PROVE  \/ rows'[d].file \in stored'[d]
                        \/ \E q \in Runners : /\ runs'[q].row = d /\ runs'[q].att = rows'[d].file
                                             /\ runs'[q].at = "failing"
      BY DEF CompletedHasItsArchive
    <3>1. CASE d = b
      BY <1>1, <1>2, <1>4, <2>2, <2>3, <3>1
    <3>2. CASE d # b /\ rows[d].file \in stored[d]
      BY <1>1, <2>3, <3>2
    <3>3. CASE d # b /\ rows[d].file \notin stored[d]
      <4>1. PICK q \in Runners : /\ runs[q].row = d /\ runs[q].att = rows[d].file
                                /\ runs[q].at = "failing"
        BY <2>3, <3>3 DEF ArchiveInv, CompletedHasItsArchive
      <4>2. runs'[q] = runs[q]
        BY <1>1, <2>4, <4>1
      <4>3. QED
        BY <2>3, <3>3, <4>1, <4>2
    <3>4. QED
      BY <3>1, <3>2, <3>3
  <2>17. QED
    BY <2>9, <2>10, <2>11, <2>13, <2>14, <2>15, <2>16 DEF ArchiveInv
<1>5. QED
  BY <1>3, <1>4

(* A discard removes the run's own archive only: a dropping run's is not   *)
(* the row's file, and an undoing run's is on its way to fail the row.     *)
LEMMA DiscardKeepsArchive ==
  ASSUME TypeOK, SecretInv, ArchiveInv, NEW r \in Runners, Discard(r)
  PROVE  ArchiveInv'
<1> DEFINE b == runs[r].row
           step == IF runs[r].at = "undoing" THEN "failing" ELSE AfterRun(runs[r].via)
<1>1. /\ runs[r].at \in {"dropping", "undoing"} /\ rows' = rows /\ Goto(r, step)
      /\ stored' = [stored EXCEPT ![b] = stored[b] \ {runs[r].att}]
  BY DEF Discard
<1>2. Live(r) /\ b \in Backups
  BY <1>1, NumbersAreNaturals DEF Live
<1>3. /\ stored'[b] = stored[b] \ {runs[r].att}
      /\ \A d \in Backups : d # b => stored'[d] = stored[d]
  BY <1>1, <1>2 DEF TypeOK
<1>4. \A q \in Runners : q # r => runs'[q] = runs[q]
  BY <1>1, GotoMoves
<1>5. \/ runs'[r].at \in {"idle", "tail"}
      \/ /\ runs[r].at = "undoing" /\ runs'[r].at = "failing"
         /\ runs'[r].row = b /\ runs'[r].att = runs[r].att
  BY <1>1, GotoMoves DEF AfterRun, Idle
<1>6. \A q \in Runners : Live(q)' =>
        Live(q) /\ runs'[q].row = runs[q].row /\ runs'[q].att = runs[q].att
  BY <1>2, <1>4, <1>5 DEF Live
<1>7. \A d \in Backups : rows'[d].file <= rows'[d].attempts
  BY <1>1 DEF ArchiveInv
<1>8. \A q \in Runners : Live(q)' =>
        0 < runs'[q].att /\ runs'[q].att <= rows'[runs'[q].row].attempts
  <2> SUFFICES ASSUME NEW q \in Runners, Live(q)'
               PROVE  0 < runs'[q].att /\ runs'[q].att <= rows'[runs'[q].row].attempts
    OBVIOUS
  <2>1. Live(q) /\ runs'[q].row = runs[q].row /\ runs'[q].att = runs[q].att
    BY <1>6
  <2>2. QED
    BY <1>1, <2>1 DEF ArchiveInv
<1>9. \A p, q \in Runners :
        p # q /\ Live(p)' /\ Live(q)' /\ runs'[p].row = runs'[q].row => runs'[p].att # runs'[q].att
  <2> SUFFICES ASSUME NEW p \in Runners, NEW q \in Runners,
                      p # q, Live(p)', Live(q)', runs'[p].row = runs'[q].row
               PROVE  runs'[p].att # runs'[q].att
    OBVIOUS
  <2>1. /\ Live(p) /\ runs'[p].row = runs[p].row /\ runs'[p].att = runs[p].att
        /\ Live(q) /\ runs'[q].row = runs[q].row /\ runs'[q].att = runs[q].att
    BY <1>6
  <2>2. QED
    BY <2>1 DEF ArchiveInv
<1>10. \A q \in Runners : runs'[q].at \in BuildSteps \cup {"dropping"} =>
        rows'[runs'[q].row].file # runs'[q].att
  BY <1>1, <1>4, <1>5 DEF ArchiveInv, BuildSteps
<1>11. \A q \in Runners : runs'[q].at = "stored" /\ rows'[runs'[q].row].status # "gone" =>
         runs'[q].att \in stored'[runs'[q].row]
  <2> SUFFICES ASSUME NEW q \in Runners, runs'[q].at = "stored",
                      rows'[runs'[q].row].status # "gone"
               PROVE  runs'[q].att \in stored'[runs'[q].row]
    OBVIOUS
  <2>1. q # r /\ runs'[q] = runs[q] /\ Live(q) /\ runs[q].row \in Backups
    BY <1>4, <1>5, NumbersAreNaturals DEF Live
  <2>2. runs[q].att \in stored[runs[q].row]
    BY <1>1, <2>1 DEF ArchiveInv
  <2>3. runs[q].row = b => runs[q].att # runs[r].att
    BY <1>2, <2>1 DEF ArchiveInv
  <2>4. QED
    BY <1>3, <2>1, <2>2, <2>3
<1>12. \A q \in Runners : runs'[q].at \in {"undoing", "failing"}
                         /\ rows'[runs'[q].row].file = runs'[q].att => "post" \in Faults
  BY <1>1, <1>4, <1>5 DEF ArchiveInv
<1>13. CompletedHasItsArchive'
  <2> SUFFICES ASSUME NEW d \in Backups, rows'[d].status = "completed"
               PROVE  \/ rows'[d].file \in stored'[d]
                      \/ \E q \in Runners : /\ runs'[q].row = d /\ runs'[q].att = rows'[d].file
                                           /\ runs'[q].at = "failing"
    BY DEF CompletedHasItsArchive
  <2>1. rows' = rows
    BY <1>1
  <2>2. CASE d = b /\ rows[b].file = runs[r].att
    <3>1. runs[r].at = "undoing"
      BY <1>1, <2>2 DEF ArchiveInv
    <3>2. QED
      BY <1>5, <2>1, <2>2, <3>1, GotoMoves, <1>1
  <2>3. CASE d # b \/ rows[b].file # runs[r].att
    <3>1. CASE rows[d].file \in stored[d]
      BY <1>3, <2>1, <2>3, <3>1
    <3>2. CASE rows[d].file \notin stored[d]
      <4>1. PICK q \in Runners : /\ runs[q].row = d /\ runs[q].att = rows[d].file
                                /\ runs[q].at = "failing"
        BY <2>1, <3>2 DEF ArchiveInv, CompletedHasItsArchive
      <4>2. runs'[q] = runs[q]
        BY <1>1, <1>4, <4>1
      <4>3. QED
        BY <2>1, <4>1, <4>2
    <3>3. QED
      BY <3>1, <3>2
  <2>4. QED
    BY <2>2, <2>3
<1>14. QED
  BY <1>7, <1>8, <1>9, <1>10, <1>11, <1>12, <1>13 DEF ArchiveInv

(* The delete takes the row with its file.                                 *)
LEMMA DeleteRowKeepsArchive ==
  ASSUME TypeOK, SecretInv, ArchiveInv, NEW b \in Backups, DeleteRow(b)
  PROVE  ArchiveInv'
<1> DEFINE new == [rows[b] EXCEPT !.status = "gone", !.next = "none"]
<1>1. /\ rows' = [rows EXCEPT ![b] = new] /\ runs' = runs
      /\ stored' = [stored EXCEPT ![b] = stored[b] \ {deleting[b]}]
  BY DEF DeleteRow
<1>2. new.status = "gone" /\ new.file = rows[b].file /\ new.attempts = rows[b].attempts
  BY DEF TypeOK, Row
<1>3. rows'[b] = new /\ \A d \in Backups : d # b => rows'[d] = rows[d]
  BY <1>1 DEF TypeOK
<1>4. \A d \in Backups : d # b => stored'[d] = stored[d]
  BY <1>1 DEF TypeOK
<1> HIDE DEF new
<1>5. \A d \in Backups : rows'[d].file = rows[d].file /\ rows'[d].attempts = rows[d].attempts
  BY <1>2, <1>3
<1>6. \A q \in Runners : Live(q) => runs[q].row \in Backups
  BY NumbersAreNaturals
<1>7. \A q \in Runners : Live(q)' <=> Live(q)
  BY <1>1 DEF Live
<1>8. \A d \in Backups : rows'[d].file <= rows'[d].attempts
  BY <1>5 DEF ArchiveInv
<1>9. \A q \in Runners : Live(q)' =>
        0 < runs'[q].att /\ runs'[q].att <= rows'[runs'[q].row].attempts
  BY <1>1, <1>5, <1>6, <1>7 DEF ArchiveInv
<1>10. \A p, q \in Runners :
        p # q /\ Live(p)' /\ Live(q)' /\ runs'[p].row = runs'[q].row => runs'[p].att # runs'[q].att
  BY <1>1, <1>7 DEF ArchiveInv
<1>11. \A q \in Runners : runs'[q].at \in BuildSteps \cup {"dropping"} =>
        rows'[runs'[q].row].file # runs'[q].att
  BY <1>1, <1>5, <1>6 DEF ArchiveInv, Live, BuildSteps
<1>12. \A q \in Runners : runs'[q].at = "stored" /\ rows'[runs'[q].row].status # "gone" =>
         runs'[q].att \in stored'[runs'[q].row]
  BY <1>1, <1>2, <1>3, <1>4, <1>6 DEF ArchiveInv, Live
<1>13. \A q \in Runners : runs'[q].at \in {"undoing", "failing"}
                         /\ rows'[runs'[q].row].file = runs'[q].att => "post" \in Faults
  BY <1>1, <1>5, <1>6 DEF ArchiveInv, Live
<1>14. CompletedHasItsArchive'
  BY <1>1, <1>2, <1>3, <1>4 DEF ArchiveInv, CompletedHasItsArchive
<1>15. QED
  BY <1>8, <1>9, <1>10, <1>11, <1>12, <1>13, <1>14 DEF ArchiveInv

LEMMA StopIsQuiet ==
  ASSUME TypeOK, NEW r \in Runners, NEW step \in {"idle", "tail"}, Goto(r, step),
         runs[r].at = "failing" /\ rows[runs[r].row].file = runs[r].att =>
           rows'[runs[r].row].status # "completed"
  PROVE  RunsQuiet
<1>1. runs'[r].at \in {"idle", "tail"} /\ \A q \in Runners : q # r => runs'[q] = runs[q]
  BY GotoMoves DEF Idle
<1>2. QED
  BY <1>1 DEF RunsQuiet

LEMMA SameIsQuiet ==
  /\ rows' = rows => RowsQuiet
  /\ runs' = runs => RunsQuiet
BY DEF RowsQuiet, RunsQuiet

LEMMA StepKeepsArchive ==
  ASSUME TypeOK, SecretInv, ArchiveInv, NEW r \in Runners, Step(r)
  PROVE  ArchiveInv'
<1>1. CASE Conclude(r)
  <2>1. /\ runs[r].at = "finished" /\ Goto(r, AfterRun(runs[r].via))
        /\ rows' = rows /\ stored' = stored
    BY <1>1 DEF Conclude
  <2>2. AfterRun(runs[r].via) \in {"idle", "tail"}
    BY DEF AfterRun
  <2>3. QED
    BY <2>1, <2>2, StopIsQuiet, SameIsQuiet, QuietKeepsArchive
<1>2. CASE FailRun(r)
  <2>1. PICK retryable \in BOOLEAN :
          Fails(runs[r].row, runs[r].att, runs[r].via = "task" /\ runs[r].pass, retryable)
    BY <1>2 DEF FailRun
  <2>2. runs[r].at = "failing" /\ stored' = stored /\ Goto(r, AfterRun(runs[r].via))
    BY <1>2 DEF FailRun
  <2>3. runs[r].row \in Backups
    BY <2>2, NumbersAreNaturals DEF Live
  <2>4. RowsQuiet /\ rows'[runs[r].row].status # "completed"
    BY <2>1, <2>3, FailsIsQuiet
  <2>5. AfterRun(runs[r].via) \in {"idle", "tail"}
    BY DEF AfterRun
  <2>6. QED
    BY <2>2, <2>4, <2>5, StopIsQuiet, QuietKeepsArchive
<1>3. CASE Requeue(r)
  <2>1. runs[r].at = "tail" /\ Goto(r, "idle") /\ rows' = rows /\ stored' = stored
    BY <1>3 DEF Requeue
  <2>2. QED
    BY <2>1, StopIsQuiet, SameIsQuiet, QuietKeepsArchive
<1>4. CASE EndCommand(r)
  <2> DEFINE b == runs[r].row
             cancelled == [rows[b] EXCEPT !.status = "cancelled", !.next = "none", !.stale = FALSE]
             new == IF rows[b].status # "pending" THEN rows[b] ELSE cancelled
  <2>1. /\ runs[r].at = "tail" /\ Goto(r, "idle") /\ stored' = stored
        /\ rows' = [rows EXCEPT ![b] = new]
    BY <1>4 DEF EndCommand
  <2>2. b \in Backups
    BY <2>1 DEF SecretInv
  <2>3. /\ cancelled.status = "cancelled" /\ cancelled.file = rows[b].file
        /\ cancelled.attempts = rows[b].attempts
    BY <2>2 DEF TypeOK, Row
  <2>4. new = rows[b] \/ (new = cancelled /\ rows[b].status = "pending")
    OBVIOUS
  <2> HIDE DEF new, cancelled
  <2>5. /\ new.file = rows[b].file /\ new.attempts = rows[b].attempts
        /\ new.status = "completed" => rows[b].status = "completed"
        /\ rows[b].status = "gone" => new.status = "gone"
    BY <2>3, <2>4
  <2>6. RowsQuiet
    BY <2>1, <2>2, <2>5, QuietWrite
  <2>7. RunsQuiet
    BY <2>1, StopIsQuiet
  <2>8. QED
    BY <2>1, <2>6, <2>7, QuietKeepsArchive
<1>5. QED
  BY <1>1, <1>2, <1>3, <1>4, ReportKeepsArchive, StoreKeepsArchive, FinishKeepsArchive,
     DiscardKeepsArchive DEF Step

LEMMA PassKeepsArchive ==
  ASSUME TypeOK, SecretInv, ArchiveInv, NEW r \in Runners, NEW c \in calls, Pass(r, c)
  PROVE  ArchiveInv'
<1>1. runs[r].at = "idle" /\ rows' = rows /\ stored' = stored
  BY DEF Pass
<1>2. runs'[r].at \in {"idle", "tail"} /\ \A q \in Runners : q # r => runs'[q] = runs[q]
  BY DEF Pass, TypeOK, Idle
<1>3. RunsQuiet
  BY <1>1, <1>2 DEF RunsQuiet
<1>4. QED
  BY <1>1, <1>3, SameIsQuiet, QuietKeepsArchive

LEMMA CreateKeepsArchive ==
  ASSUME TypeOK, SecretInv, ArchiveInv, Create
  PROVE  ArchiveInv'
<1>1. PICK b \in Backups : \/ \E secret \in BOOLEAN : CreateManual(b, secret)
                           \/ \E via \in Vias : CreateForUpdate(b, via)
  BY DEF Create
<1>2. /\ rows[b].status = "none" /\ stored' = stored /\ runs' = runs
      /\ \E trigger \in Triggers, secret \in BOOLEAN :
           rows' = [rows EXCEPT ![b] = NewRow(trigger, secret)]
  BY <1>1 DEF CreateManual, CreateForUpdate, Triggers
<1>3. RowsQuiet
  BY <1>2, NewRowIsQuiet
<1>4. QED
  BY <1>2, <1>3, SameIsQuiet, QuietKeepsArchive

LEMMA SweepKeepsArchive ==
  ASSUME TypeOK, SecretInv, ArchiveInv, NEW p \in Sweepers,
         Pace(p) \/ \E b \in Backups : CreateScheduled(p, b)
  PROVE  ArchiveInv'
<1>1. CASE (\E kind \in {"page", "beat"} : SweepStart(p, kind)) \/ SweepEnd(p)
  <2>1. rows' = rows /\ runs' = runs /\ stored' = stored
    BY <1>1 DEF SweepStart, SweepEnd
  <2>2. QED
    BY <2>1, SameIsQuiet, QuietKeepsArchive
<1>2. CASE \E b \in Backups : SweepFail(p, b)
  <2>1. PICK b \in Backups : SweepFail(p, b)
    BY <1>2
  <2>2. Fails(b, sweeps[p].seen[b], FALSE, TRUE) /\ runs' = runs /\ stored' = stored
    BY <2>1 DEF SweepFail
  <2>3. RowsQuiet
    BY <2>2, FailsIsQuiet
  <2>4. QED
    BY <2>2, <2>3, SameIsQuiet, QuietKeepsArchive
<1>3. CASE \E b \in Backups : DispatchDue(p, b)
  <2>1. PICK b \in Backups : DispatchDue(p, b)
    BY <1>3
  <2> DEFINE new == [rows[b] EXCEPT !.next = "none"]
  <2>2. rows' = [rows EXCEPT ![b] = new] /\ runs' = runs /\ stored' = stored
    BY <2>1 DEF DispatchDue
  <2>3. /\ new.status = rows[b].status /\ new.file = rows[b].file
        /\ new.attempts = rows[b].attempts
    BY DEF TypeOK, Row
  <2>4. RowsQuiet
    BY <2>2, <2>3, QuietWrite
  <2>5. QED
    BY <2>2, <2>4, SameIsQuiet, QuietKeepsArchive
<1>4. CASE \E b \in Backups : CreateScheduled(p, b)
  <2>1. PICK b \in Backups : CreateScheduled(p, b)
    BY <1>4
  <2>2. /\ rows[b].status = "none" /\ runs' = runs /\ stored' = stored
        /\ rows' = [rows EXCEPT ![b] = NewRow("scheduled", FALSE)]
    BY <2>1 DEF CreateScheduled
  <2>3. RowsQuiet
    BY <2>2, NewRowIsQuiet
  <2>4. QED
    BY <2>2, <2>3, SameIsQuiet, QuietKeepsArchive
<1>5. QED
  BY <1>1, <1>2, <1>3, <1>4 DEF Pace

LEMMA OperatorKeepsArchive ==
  ASSUME TypeOK, SecretInv, ArchiveInv, NEW b \in Backups,
         \/ Resume(b) \/ Cancel(b) \/ DeleteRead(b) \/ DeleteRow(b)
         \/ BecomeDue(b) \/ BecomeStale(b)
  PROVE  ArchiveInv'
<1>1. CASE DeleteRow(b)
  BY <1>1, DeleteRowKeepsArchive
<1>2. CASE DeleteRead(b)
  <2>1. rows' = rows /\ runs' = runs /\ stored' = stored
    BY <1>2 DEF DeleteRead
  <2>2. QED
    BY <2>1, SameIsQuiet, QuietKeepsArchive
<1>3. CASE Resume(b) \/ Cancel(b) \/ BecomeDue(b) \/ BecomeStale(b)
  <2> DEFINE resumed == [rows[b] EXCEPT !.status = "pending", !.next = "none", !.stale = FALSE]
             cancelled == [rows[b] EXCEPT !.status = "cancelled", !.next = "none", !.stale = FALSE]
             due == [rows[b] EXCEPT !.next = "due"]
             old == [rows[b] EXCEPT !.stale = TRUE]
  <2>1. /\ resumed.status = "pending" /\ resumed.file = rows[b].file
        /\ resumed.attempts = rows[b].attempts
    BY DEF TypeOK, Row
  <2>2. /\ cancelled.status = "cancelled" /\ cancelled.file = rows[b].file
        /\ cancelled.attempts = rows[b].attempts
    BY DEF TypeOK, Row
  <2>3. /\ due.status = rows[b].status /\ due.file = rows[b].file
        /\ due.attempts = rows[b].attempts
    BY DEF TypeOK, Row
  <2>4. /\ old.status = rows[b].status /\ old.file = rows[b].file
        /\ old.attempts = rows[b].attempts
    BY DEF TypeOK, Row
  <2>5. CASE Resume(b)
    <3>1. rows' = [rows EXCEPT ![b] = resumed] /\ rows[b].status # "gone"
      BY <2>5 DEF Resume
    <3>2. RowsQuiet
      BY <2>1, <3>1, QuietWrite
    <3>3. QED
      BY <2>5, <3>2, SameIsQuiet, QuietKeepsArchive DEF Resume
  <2>6. CASE Cancel(b)
    <3>1. rows' = [rows EXCEPT ![b] = cancelled] /\ rows[b].status # "gone"
      BY <2>6 DEF Cancel, Active, ActiveStatuses
    <3>2. RowsQuiet
      BY <2>2, <3>1, QuietWrite
    <3>3. QED
      BY <2>6, <3>2, SameIsQuiet, QuietKeepsArchive DEF Cancel
  <2>7. CASE BecomeDue(b)
    <3>1. rows' = [rows EXCEPT ![b] = due]
      BY <2>7 DEF BecomeDue
    <3>2. RowsQuiet
      BY <2>3, <3>1, QuietWrite
    <3>3. QED
      BY <2>7, <3>2, SameIsQuiet, QuietKeepsArchive DEF BecomeDue
  <2>8. CASE BecomeStale(b)
    <3>1. rows' = [rows EXCEPT ![b] = old]
      BY <2>8 DEF BecomeStale
    <3>2. RowsQuiet
      BY <2>4, <3>1, QuietWrite
    <3>3. QED
      BY <2>8, <3>2, SameIsQuiet, QuietKeepsArchive DEF BecomeStale
  <2>9. QED
    BY <1>3, <2>5, <2>6, <2>7, <2>8
<1>4. QED
  BY <1>1, <1>2, <1>3

(* A killed runner loses nothing the row counts on, unless it is the one   *)
(* that was undoing a backup it had already completed.                     *)
LEMMA NextKeepsArchive ==
  ASSUME "post" \notin Faults \/ "crash" \notin Faults,
         TypeOK, SecretInv, ArchiveInv, [Next]_vars
  PROVE  ArchiveInv'
<1>1. CASE Create
  BY <1>1, CreateKeepsArchive
<1>2. CASE \E b \in Backups : Deliver(b)
  <2>1. PICK r \in Runners, c \in calls : Claim(r, c) \/ Pass(r, c)
    BY <1>2 DEF Deliver
  <2>2. QED
    BY <2>1, ClaimKeepsArchive, PassKeepsArchive
<1>3. CASE \E r \in Runners : Step(r) \/ Raise(r)
  BY <1>3, StepKeepsArchive, RaiseKeepsArchive
<1>4. CASE \E r \in Runners : Crash(r)
  <2>1. PICK r \in Runners : Crash(r)
    BY <1>4
  <2>2. "crash" \in Faults /\ Goto(r, "idle") /\ rows' = rows /\ stored' = stored
    BY <2>1 DEF Crash
  <2>3. runs[r].at = "failing" => rows[runs[r].row].file # runs[r].att
    BY <2>2 DEF ArchiveInv
  <2>4. QED
    BY <2>2, <2>3, StopIsQuiet, SameIsQuiet, QuietKeepsArchive
<1>5. CASE \E p \in Sweepers : Pace(p) \/ \E b \in Backups : CreateScheduled(p, b)
  BY <1>5, SweepKeepsArchive
<1>6. CASE \E b \in Backups : \/ Resume(b) \/ Cancel(b) \/ DeleteRead(b) \/ DeleteRow(b)
                            \/ BecomeDue(b) \/ BecomeStale(b)
  BY <1>6, OperatorKeepsArchive
<1>7. CASE (\E c \in calls : LoseCall(c)) \/ UNCHANGED vars
  <2>1. rows' = rows /\ runs' = runs /\ stored' = stored
    BY <1>7 DEF LoseCall, vars
  <2>2. QED
    BY <2>1, SameIsQuiet, QuietKeepsArchive
<1>8. QED
  BY <1>1, <1>2, <1>3, <1>4, <1>5, <1>6, <1>7 DEF Next

LEMMA InitHasArchives == Init => ArchiveInv
BY DEF Init, ArchiveInv, CompletedHasItsArchive, NoRow, NoFile, Idle, Live, BuildSteps

(* Every completed backup has its archive on storage, or is about to be    *)
(* marked failed by its own run, through crashes, broker errors, stalled   *)
(* attempts that outlive their replacement, cancels, resumes and deletes.  *)
(* The one thing it assumes: a run is not killed while it undoes a backup  *)
(* that it had completed.                                                  *)
THEOREM ArchivesSurvive ==
  ASSUME "post" \notin Faults \/ "crash" \notin Faults
  PROVE  Spec => []CompletedHasItsArchive
<1>1. ArchiveInv => CompletedHasItsArchive
  BY DEF ArchiveInv
<1>2. Init => TypeOK /\ SecretInv /\ ArchiveInv
  BY InitHolds, InitHasArchives
<1>3. TypeOK /\ SecretInv /\ ArchiveInv /\ [Next]_vars => TypeOK' /\ SecretInv' /\ ArchiveInv'
  BY NextPreserves, NextKeepsArchive
<1>4. QED
  BY <1>1, <1>2, <1>3, PTL DEF Spec

-----------------------------------------------------------------------------
(* One builder per row.                                                    *)

(* No call is silent or waits past the stall timeout, one process sweeps   *)
(* at a time, and the operator does not resume: what the code relies on.   *)
Timely ==
  /\ Faults \cap {"silence", "late", "broker"} = {}
  /\ \A p, q \in Sweepers : p = q
  /\ MaxResumes = 0

(* Nobody is on the row, or will be without a new dispatch.                *)
Unattended(b) ==
  /\ \A r \in Runners : runs[r].at # "idle" => runs[r].row # b
  /\ \A c \in calls : c.row # b

(* The statuses of a row while a run is on it: never one to be claimed.    *)
Held == {"running", "completed", "cancelled", "gone"}

(* A run under way is the only one of its row and its latest attempt; what *)
(* is stale, or was stale when a sweep read it, is attended to by nobody,  *)
(* and stays so, since a stale row has no retry that a sweep may dispatch. *)
OwnerInv ==
  /\ \A r \in Runners : Live(r) =>
       /\ rows[runs[r].row].status \in Held
       /\ runs[r].att = rows[runs[r].row].attempts
  /\ \A r, q \in Runners : Live(r) /\ Live(q) /\ runs[r].row = runs[q].row => r = q
  /\ \A b \in Backups : rows[b].stale =>
       /\ Unattended(b)
       /\ rows[b].next # "later" /\ (rows[b].next = "due" => rows[b].secret)
  /\ \A p \in Sweepers, b \in Backups : sweeps[p].seen[b] # Unseen =>
       /\ Unattended(b) /\ rows[b].status # "none"
       /\ sweeps[p].seen[b] = rows[b].attempts

(* No row becomes stale, and no row in use is counted another attempt.     *)
RowsCalm ==
  \A b \in Backups :
    /\ rows'[b].stale => /\ rows[b].stale /\ rows'[b].secret = rows[b].secret
                         /\ rows'[b].next \in {rows[b].next, "none"}
    /\ rows[b].status # "none" =>
         rows'[b].status # "none" /\ rows'[b].attempts = rows[b].attempts

LEMMA CalmKeepsOwners ==
  ASSUME TypeOK, SecretInv, OwnerInv, RowsCalm,
         \A b \in Backups : Unattended(b) =>
           \/ Unattended(b)'
           \/ ~rows'[b].stale /\ \A p \in Sweepers : sweeps'[p].seen[b] = Unseen,
         \A p \in Sweepers, b \in Backups :
           sweeps'[p].seen[b] # Unseen => sweeps'[p].seen[b] = sweeps[p].seen[b],
         \A r \in Runners : Live(r)' =>
           /\ Live(r) /\ runs'[r].row = runs[r].row /\ runs'[r].att = runs[r].att
           /\ rows'[runs[r].row].status \in Held
  PROVE  OwnerInv'
<1>1. \A r \in Runners : Live(r) => runs[r].row \in Backups /\ rows[runs[r].row].status # "none"
  BY DEF SecretInv, Live
<1>2. \A r \in Runners : Live(r)' =>
        /\ rows'[runs'[r].row].status \in Held
        /\ runs'[r].att = rows'[runs'[r].row].attempts
  BY <1>1 DEF OwnerInv, RowsCalm
<1>3. \A r, q \in Runners : Live(r)' /\ Live(q)' /\ runs'[r].row = runs'[q].row => r = q
  BY DEF OwnerInv
<1>4. \A b \in Backups : rows'[b].stale =>
        /\ Unattended(b)'
        /\ rows'[b].next # "later" /\ (rows'[b].next = "due" => rows'[b].secret)
  BY DEF OwnerInv, RowsCalm
<1>5. \A p \in Sweepers, b \in Backups : sweeps'[p].seen[b] # Unseen =>
        /\ Unattended(b)' /\ rows'[b].status # "none"
        /\ sweeps'[p].seen[b] = rows'[b].attempts
  BY DEF OwnerInv, RowsCalm
<1>6. QED
  BY <1>2, <1>3, <1>4, <1>5 DEF OwnerInv, Held, Live, Unseen

(* A runner goes on: nobody new is on a row.                               *)
LEMMA GoKeepsOwners ==
  ASSUME TypeOK, SecretInv, OwnerInv, RowsCalm,
         NEW r \in Runners, NEW step, Goto(r, step),
         runs[r].at # "idle", runs[r].at = "tail" => step = "idle",
         sweeps' = sweeps,
         \A c \in calls' : c \in calls \/ c.row = runs[r].row,
         \A q \in Runners : Live(q) /\ (q = r => step \notin {"idle", "tail"}) =>
           rows'[runs[q].row].status \in Held
  PROVE  OwnerInv'
<1>1. /\ \A q \in Runners : q # r => runs'[q] = runs[q]
      /\ step = "idle" => runs'[r] = Idle
      /\ step # "idle" => /\ runs'[r].at = step /\ runs'[r].row = runs[r].row
                         /\ runs'[r].att = runs[r].att
  BY GotoMoves
<1>2. \A q \in Runners : runs'[q].at # "idle" =>
        /\ runs[q].at # "idle" /\ runs'[q].row = runs[q].row /\ runs'[q].att = runs[q].att
        /\ Live(q)' => Live(q) /\ (q = r => step \notin {"idle", "tail"})
  BY <1>1 DEF Idle, Live
<1>3. \A b \in Backups : Unattended(b) => Unattended(b)'
  BY <1>2 DEF Unattended
<1>4. \A q \in Runners : Live(q)' => runs'[q].at # "idle"
  BY DEF Live
<1>5. \A q \in Runners : Live(q)' =>
        /\ Live(q) /\ runs'[q].row = runs[q].row /\ runs'[q].att = runs[q].att
        /\ rows'[runs[q].row].status \in Held
  BY <1>2, <1>4
<1>6. QED
  BY <1>3, <1>5, CalmKeepsOwners

(* No runner moves, and no call is queued.                                 *)
LEMMA StillKeepsOwners ==
  ASSUME TypeOK, SecretInv, OwnerInv, RowsCalm,
         runs' = runs, calls' \subseteq calls,
         \A p \in Sweepers, b \in Backups :
           sweeps'[p].seen[b] # Unseen => sweeps'[p].seen[b] = sweeps[p].seen[b],
         \A r \in Runners : Live(r) => rows'[runs[r].row].status \in Held
  PROVE  OwnerInv'
<1>1. \A b \in Backups : Unattended(b) => Unattended(b)'
  BY DEF Unattended
<1>2. \A r \in Runners : Live(r)' <=> Live(r)
  BY DEF Live
<1>3. QED
  BY <1>1, <1>2, CalmKeepsOwners

LEMMA SameIsCalm == rows' = rows => RowsCalm
BY DEF RowsCalm

LEMMA HeldRows ==
  ASSUME OwnerInv, NEW r \in Runners, Live(r)
  PROVE  rows[runs[r].row].status \in Held
BY DEF OwnerInv

(* A write that leaves the row neither stale nor counted again.            *)
LEMMA CalmWrite ==
  ASSUME TypeOK, NEW b \in Backups, NEW new, rows' = [rows EXCEPT ![b] = new],
         new.stale = FALSE, new.status # "none", new.attempts = rows[b].attempts
  PROVE  RowsCalm /\ rows'[b] = new /\ \A d \in Backups : d # b => rows'[d] = rows[d]
<1>1. rows'[b] = new /\ \A d \in Backups : d # b => rows'[d] = rows[d]
  BY DEF TypeOK
<1>2. QED
  BY <1>1 DEF RowsCalm

(* What fail_system_backup makes of the row, whatever it was.              *)
LEMMA FailsOutcome ==
  ASSUME TypeOK, NEW b \in Backups, NEW attempts, NEW inHand, NEW retryable,
         Fails(b, attempts, inHand, retryable)
  PROVE  /\ \A d \in Backups : d # b => rows'[d] = rows[d]
         /\ \/ rows[b].status = "gone" /\ rows'[b] = rows[b]
            \/ /\ rows[b].status # "gone" /\ rows'[b].stale = FALSE
               /\ rows'[b].attempts = rows[b].attempts /\ rows'[b].file = rows[b].file
               /\ rows'[b].secret = rows[b].secret
               /\ \/ rows'[b].status = "failed" /\ rows'[b].next = "none"
                  \/ /\ rows'[b].status = "pending" /\ rows'[b].next = "later"
                     /\ attempts < MaxAttempts
<1> DEFINE armed == [rows[b] EXCEPT !.status = "pending", !.next = "later", !.stale = FALSE]
           failed == [rows[b] EXCEPT !.status = "failed", !.next = "none", !.stale = FALSE]
<1>1. PICK up \in CeleryUp :
        rows' = [rows EXCEPT ![b] =
          IF rows[b].status = "gone" THEN rows[b]
          ELSE IF retryable /\ CanAutoRetry(attempts, rows[b].secret, inHand, up)
          THEN armed ELSE failed]
  BY DEF Fails
<1>2. rows[b] \in Row
  BY DEF TypeOK
<1>3. /\ armed.status = "pending" /\ armed.next = "later" /\ armed.stale = FALSE
      /\ armed.attempts = rows[b].attempts /\ armed.file = rows[b].file
      /\ armed.secret = rows[b].secret
  BY <1>2 DEF Row
<1>4. /\ failed.status = "failed" /\ failed.next = "none" /\ failed.stale = FALSE
      /\ failed.attempts = rows[b].attempts /\ failed.file = rows[b].file
      /\ failed.secret = rows[b].secret
  BY <1>2 DEF Row
<1> HIDE DEF armed, failed
<1>5. /\ \A d \in Backups : d # b => rows'[d] = rows[d]
      /\ rows'[b] = IF rows[b].status = "gone" THEN rows[b]
          ELSE IF retryable /\ CanAutoRetry(attempts, rows[b].secret, inHand, up)
          THEN armed ELSE failed
  BY <1>1 DEF TypeOK
<1>6. CASE rows[b].status = "gone"
  BY <1>5, <1>6
<1>7. CASE rows[b].status # "gone" /\ rows'[b] = armed /\ attempts < MaxAttempts
  BY <1>3, <1>5, <1>7
<1>8. CASE rows[b].status # "gone" /\ rows'[b] = failed
  BY <1>4, <1>5, <1>8
<1>9. QED
  BY <1>5, <1>6, <1>7, <1>8 DEF CanAutoRetry

LEMMA FailsIsCalm ==
  ASSUME TypeOK, SecretInv, NEW b \in Backups, NEW attempts, NEW inHand, NEW retryable,
         Fails(b, attempts, inHand, retryable)
  PROVE  RowsCalm /\ \A d \in Backups : d # b => rows'[d] = rows[d]
BY FailsOutcome DEF RowsCalm

(* The claim takes a pending row, which no run is on, and its own call.    *)
LEMMA ClaimKeepsOwners ==
  ASSUME TypeOK, SecretInv, OwnerInv, NEW r \in Runners, NEW c \in calls, Claim(r, c)
  PROVE  OwnerInv'
<1> DEFINE b == c.row
           att == rows[b].attempts + 1
           row == [rows[b] EXCEPT !.status = "running", !.attempts = att,
                                  !.next = "none", !.stale = FALSE]
           run == [row |-> b, att |-> att, pass |-> c.pass, via |-> c.via,
                   at |-> IF rows[b].secret /\ ~c.pass THEN "failing" ELSE "building"]
<1>1. b \in Backups /\ rows[b] \in Row
  BY DEF TypeOK, Call
<1>2. /\ rows' = [rows EXCEPT ![b] = row] /\ runs' = [runs EXCEPT ![r] = run]
      /\ sweeps' = sweeps /\ calls' \subseteq calls
      /\ runs[r].at = "idle" /\ rows[b].status = "pending"
  BY DEF Claim, Claimable, Delivered
<1>3. row.status = "running" /\ row.attempts = att /\ row.stale = FALSE
  BY <1>1 DEF Row
<1>4. run.at \in {"failing", "building"} /\ run.row = b /\ run.att = att
  OBVIOUS
<1> HIDE DEF row, run
<1>5. rows'[b] = row /\ \A d \in Backups : d # b => rows'[d] = rows[d]
  BY <1>1, <1>2 DEF TypeOK
<1>6. runs'[r] = run /\ \A q \in Runners : q # r => runs'[q] = runs[q]
  BY <1>2 DEF TypeOK
<1>7. \A q \in Runners : Live(q) => runs[q].row \in Backups /\ runs[q].row # b
  BY <1>2, HeldRows DEF SecretInv, Live, Held
<1>8. \A q \in Runners : q # r /\ Live(q)' =>
        Live(q) /\ runs'[q] = runs[q] /\ rows'[runs[q].row] = rows[runs[q].row]
  BY <1>5, <1>6, <1>7 DEF Live
<1>9. \A q \in Runners : Live(q)' =>
        /\ rows'[runs'[q].row].status \in Held
        /\ runs'[q].att = rows'[runs'[q].row].attempts
  <2> SUFFICES ASSUME NEW q \in Runners, Live(q)'
               PROVE  /\ rows'[runs'[q].row].status \in Held
                      /\ runs'[q].att = rows'[runs'[q].row].attempts
    OBVIOUS
  <2>1. CASE q = r
    BY <1>3, <1>4, <1>5, <1>6, <2>1 DEF Held
  <2>2. CASE q # r
    BY <1>8, <2>2 DEF OwnerInv
  <2>3. QED
    BY <2>1, <2>2
<1>10. \A p, q \in Runners :
         Live(p)' /\ Live(q)' /\ runs'[p].row = runs'[q].row => p = q
  <2> SUFFICES ASSUME NEW p \in Runners, NEW q \in Runners, Live(p)', Live(q)',
                      runs'[p].row = runs'[q].row, p # q
               PROVE  FALSE
    OBVIOUS
  <2>1. CASE p = r
    BY <1>4, <1>6, <1>7, <1>8, <2>1
  <2>2. CASE q = r
    BY <1>4, <1>6, <1>7, <1>8, <2>2
  <2>3. CASE p # r /\ q # r
    BY <1>8, <2>3 DEF OwnerInv
  <2>4. QED
    BY <2>1, <2>2, <2>3
<1>11. ~Unattended(b)
  BY DEF Unattended
<1>12. \A d \in Backups : d # b /\ Unattended(d) => Unattended(d)'
  BY <1>2, <1>4, <1>6 DEF Unattended
<1>13. \A d \in Backups : rows'[d].stale =>
         /\ Unattended(d)'
         /\ rows'[d].next # "later" /\ (rows'[d].next = "due" => rows'[d].secret)
  BY <1>3, <1>5, <1>12 DEF OwnerInv
<1>14. \A p \in Sweepers, d \in Backups : sweeps'[p].seen[d] # Unseen =>
         /\ Unattended(d)' /\ rows'[d].status # "none"
         /\ sweeps'[p].seen[d] = rows'[d].attempts
  BY <1>2, <1>5, <1>11, <1>12 DEF OwnerInv
<1>15. QED
  BY <1>9, <1>10, <1>13, <1>14 DEF OwnerInv, Held, Live, Unseen

LEMMA PassKeepsOwners ==
  ASSUME TypeOK, SecretInv, OwnerInv, NEW r \in Runners, NEW c \in calls, Pass(r, c)
  PROVE  OwnerInv'
<1>1. /\ rows' = rows /\ sweeps' = sweeps /\ calls' \subseteq calls
      /\ \A q \in Runners : q # r => runs'[q] = runs[q]
      /\ runs'[r].at \in {"idle", "tail"}
      /\ runs'[r].at # "idle" => runs'[r].row = c.row
  BY DEF Pass, Delivered, TypeOK, Idle
<1>2. \A b \in Backups : Unattended(b) => Unattended(b)'
  BY <1>1 DEF Unattended
<1>3. \A q \in Runners : Live(q)' => Live(q) /\ runs'[q] = runs[q]
  BY <1>1 DEF Live
<1>4. QED
  BY <1>1, <1>2, <1>3, SameIsCalm, HeldRows, CalmKeepsOwners

(* An action that only moves a runner on.                                  *)
LEMMA OnlyGoKeepsOwners ==
  ASSUME TypeOK, SecretInv, OwnerInv, NEW r \in Runners, NEW step, Goto(r, step),
         runs[r].at # "idle", runs[r].at = "tail" => step = "idle",
         rows' = rows, sweeps' = sweeps,
         \A c \in calls' : c \in calls \/ c.row = runs[r].row
  PROVE  OwnerInv'
BY SameIsCalm, HeldRows, GoKeepsOwners

LEMMA StepKeepsOwners ==
  ASSUME TypeOK, SecretInv, OwnerInv, NEW r \in Runners, Step(r) \/ Raise(r) \/ Crash(r)
  PROVE  OwnerInv'
<1> DEFINE b == runs[r].row
<1>1. CASE Report(r) \/ Store(r) \/ Conclude(r) \/ Raise(r) \/ Discard(r)
  <2>1. /\ rows' = rows /\ sweeps' = sweeps /\ calls' = calls
        /\ runs[r].at \notin {"idle", "tail"} /\ \E step \in Steps : Goto(r, step)
    BY <1>1 DEF Report, Store, Conclude, Raise, Discard, Steps, BuildSteps, AfterRun
  <2>2. QED
    BY <2>1, OnlyGoKeepsOwners
<1>2. CASE Finish(r)
  <2> DEFINE row == [rows[b] EXCEPT !.status = "completed", !.next = "none",
                                    !.stale = FALSE, !.file = runs[r].att]
  <2>1. runs[r].at = "stored" /\ sweeps' = sweeps /\ calls' = calls /\ Live(r)
    BY <1>2 DEF Finish, Live
  <2>2. b \in Backups /\ rows[b] \in Row
    BY <2>1, BusyRunHasRow
  <2>3. CASE rows[b].status # "running"
    BY <1>2, <2>1, <2>3, OnlyGoKeepsOwners DEF Finish
  <2>4. CASE rows[b].status = "running"
    <3>1. rows' = [rows EXCEPT ![b] = row] /\ Goto(r, "finished")
      BY <1>2, <2>4 DEF Finish
    <3>2. row.status = "completed" /\ row.stale = FALSE /\ row.attempts = rows[b].attempts
      BY <2>2 DEF Row
    <3> HIDE DEF row
    <3>3. RowsCalm /\ rows'[b] = row /\ \A d \in Backups : d # b => rows'[d] = rows[d]
      BY <2>2, <3>1, <3>2, CalmWrite
    <3>4. \A q \in Runners : Live(q) => rows'[runs[q].row].status \in Held
      BY <3>2, <3>3, HeldRows DEF Held, Live, SecretInv
    <3>5. QED
      BY <2>1, <3>1, <3>3, <3>4, GoKeepsOwners
  <2>5. QED
    BY <2>3, <2>4
<1>3. CASE FailRun(r)
  <2>1. PICK retryable \in BOOLEAN :
          Fails(b, runs[r].att, runs[r].via = "task" /\ runs[r].pass, retryable)
    BY <1>3 DEF FailRun
  <2>2. /\ runs[r].at = "failing" /\ Goto(r, AfterRun(runs[r].via)) /\ Live(r)
        /\ sweeps' = sweeps /\ calls' = calls
    BY <1>3 DEF FailRun, Live
  <2>3. b \in Backups
    BY <2>2, BusyRunHasRow
  <2>4. RowsCalm /\ \A d \in Backups : d # b => rows'[d] = rows[d]
    BY <2>1, <2>3, FailsIsCalm
  <2>5. AfterRun(runs[r].via) \in {"idle", "tail"}
    BY DEF AfterRun
  <2>6. \A q \in Runners : Live(q) /\ q # r => runs[q].row # b /\ runs[q].row \in Backups
    BY <2>2 DEF OwnerInv, SecretInv, Live
  <2>7. QED
    BY <2>2, <2>4, <2>5, <2>6, HeldRows, GoKeepsOwners
<1>4. CASE Requeue(r)
  <2>1. /\ runs[r].at = "tail" /\ Goto(r, "idle") /\ rows' = rows /\ sweeps' = sweeps
        /\ \A c \in calls' : c \in calls \/ c = Task(b, runs[r].pass)
    BY <1>4 DEF Requeue
  <2>2. QED
    BY <2>1, OnlyGoKeepsOwners DEF Task
<1>5. CASE EndCommand(r)
  <2> DEFINE cancelled == [rows[b] EXCEPT !.status = "cancelled", !.next = "none", !.stale = FALSE]
  <2>1. /\ runs[r].at = "tail" /\ Goto(r, "idle") /\ sweeps' = sweeps /\ calls' = calls
        /\ rows' = [rows EXCEPT ![b] = IF rows[b].status # "pending" THEN rows[b] ELSE cancelled]
    BY <1>5 DEF EndCommand
  <2>2. b \in Backups /\ rows[b] \in Row
    BY <2>1, BusyRunHasRow
  <2>3. CASE rows[b].status # "pending"
    <3>1. rows' = rows
      BY <2>1, <2>3 DEF TypeOK
    <3>2. QED
      BY <2>1, <3>1, OnlyGoKeepsOwners
  <2>4. CASE rows[b].status = "pending"
    <3>1. /\ cancelled.status = "cancelled" /\ cancelled.stale = FALSE
          /\ cancelled.attempts = rows[b].attempts
      BY <2>2 DEF Row
    <3> HIDE DEF cancelled
    <3>2. rows' = [rows EXCEPT ![b] = cancelled]
      BY <2>1, <2>4
    <3>3. RowsCalm /\ rows'[b] = cancelled /\ \A d \in Backups : d # b => rows'[d] = rows[d]
      BY <2>2, <3>1, <3>2, CalmWrite
    <3>4. \A q \in Runners : Live(q) => rows'[runs[q].row].status \in Held
      BY <3>1, <3>3, HeldRows DEF Held, Live, SecretInv
    <3>5. QED
      BY <2>1, <3>3, <3>4, GoKeepsOwners
  <2>5. QED
    BY <2>3, <2>4
<1>6. CASE Crash(r)
  BY <1>6, OnlyGoKeepsOwners DEF Crash
<1>7. QED
  BY <1>1, <1>2, <1>3, <1>4, <1>5, <1>6 DEF Step

LEMMA CreateKeepsOwners ==
  ASSUME TypeOK, SecretInv, OwnerInv, NEW b \in Backups, rows[b].status = "none",
         NEW trigger, NEW secret, rows' = [rows EXCEPT ![b] = NewRow(trigger, secret)],
         \A c \in calls' : c \in calls \/ c.row = b, runs' = runs,
         \A p \in Sweepers, d \in Backups :
           sweeps'[p].seen[d] # Unseen => sweeps'[p].seen[d] = sweeps[p].seen[d]
  PROVE  OwnerInv'
<1>1. NewRow(trigger, secret).status = "pending" /\ NewRow(trigger, secret).stale = FALSE
  BY DEF NewRow, NoRow
<1>2. /\ rows'[b] = NewRow(trigger, secret)
      /\ \A d \in Backups : d # b => rows'[d] = rows[d]
  BY DEF TypeOK
<1>3. RowsCalm
  BY <1>1, <1>2 DEF RowsCalm
<1>4. \A p \in Sweepers : sweeps'[p].seen[b] = Unseen
  BY DEF OwnerInv
<1>5. \A d \in Backups : Unattended(d) =>
        \/ Unattended(d)'
        \/ ~rows'[d].stale /\ \A p \in Sweepers : sweeps'[p].seen[d] = Unseen
  <2> SUFFICES ASSUME NEW d \in Backups, Unattended(d), d # b
               PROVE  Unattended(d)'
    BY <1>1, <1>2, <1>4
  <2>1. QED
    BY DEF Unattended
<1>6. \A q \in Runners : Live(q)' => Live(q)
  BY DEF Live
<1>7. \A q \in Runners : Live(q) => rows'[runs[q].row].status \in Held
  BY <1>2, HeldRows DEF SecretInv, Live
<1>8. QED
  BY <1>3, <1>5, <1>6, <1>7, CalmKeepsOwners

(* Two sweeps at once would break it: the second could fail a row which    *)
(* the first, having failed it, had dispatched again.                      *)
LEMMA SweepKeepsOwners ==
  ASSUME Timely, TypeOK, SecretInv, OwnerInv, NEW p \in Sweepers,
         Pace(p) \/ \E b \in Backups : CreateScheduled(p, b)
  PROVE  OwnerInv'
<1>1. \A q \in Sweepers : q = p
  BY DEF Timely
<1>2. CASE \E kind \in {"page", "beat"} : SweepStart(p, kind)
  <2>1. /\ rows' = rows /\ runs' = runs /\ calls' = calls
        /\ \A b \in Backups : sweeps'[p].seen[b] =
             IF Stalled(b) THEN rows[b].attempts ELSE Unseen
    BY <1>2 DEF SweepStart, TypeOK, Sweep
  <2>2. \A b \in Backups : Unattended(b)' <=> Unattended(b)
    BY <2>1 DEF Unattended
  <2>3. \A b \in Backups : sweeps'[p].seen[b] # Unseen =>
          /\ Unattended(b)' /\ rows'[b].status # "none"
          /\ sweeps'[p].seen[b] = rows'[b].attempts
    BY <2>1, <2>2 DEF Stalled, OwnerInv, Active, ActiveStatuses
  <2>4. \A q \in Sweepers, b \in Backups : sweeps'[q].seen[b] # Unseen =>
          /\ Unattended(b)' /\ rows'[b].status # "none"
          /\ sweeps'[q].seen[b] = rows'[b].attempts
    BY <1>1, <2>3
  <2>5. QED
    BY <2>1, <2>2, <2>4 DEF OwnerInv, Held, Live, Unseen
<1>3. CASE SweepEnd(p)
  <2>1. rows' = rows /\ runs' = runs /\ calls' = calls
        /\ \A q \in Sweepers, b \in Backups : sweeps'[q].seen[b] = Unseen
    BY <1>1, <1>3 DEF SweepEnd, Rested, TypeOK
  <2>2. QED
    BY <2>1, SameIsCalm, HeldRows, StillKeepsOwners
<1>4. CASE \E b \in Backups : SweepFail(p, b)
  <2>1. PICK b \in Backups : SweepFail(p, b)
    BY <1>4
  <2>2. /\ Fails(b, sweeps[p].seen[b], FALSE, TRUE) /\ runs' = runs /\ calls' = calls
        /\ sweeps[p].seen[b] # Unseen
    BY <2>1 DEF SweepFail
  <2>3. RowsCalm /\ \A d \in Backups : d # b => rows'[d] = rows[d]
    BY <2>2, FailsIsCalm
  <2>4. \A q \in Runners : Live(q) => runs[q].row \in Backups \ {b}
    BY <2>2 DEF OwnerInv, Unattended, Live, SecretInv
  <2>5. \A q \in Sweepers, d \in Backups :
          sweeps'[q].seen[d] # Unseen => sweeps'[q].seen[d] = sweeps[q].seen[d]
    <3> DEFINE next == [sweeps[p] EXCEPT !.seen[b] = Unseen]
    <3>1. sweeps' = [sweeps EXCEPT ![p] =
            IF rows[b].status = "gone" THEN Rested ELSE next]
      BY <2>1 DEF SweepFail
    <3>2. sweeps[p] \in Sweep
      BY DEF TypeOK
    <3>3. \A d \in Backups : next.seen[d] \in {sweeps[p].seen[d], Unseen}
      BY <3>2 DEF Sweep
    <3>4. \A d \in Backups : Rested.seen[d] = Unseen
      BY DEF Rested
    <3> HIDE DEF next
    <3>5. sweeps'[p] \in {Rested, next} /\ \A q \in Sweepers : q = p
      BY <1>1, <3>1 DEF TypeOK
    <3>6. QED
      BY <3>3, <3>4, <3>5
  <2>6. QED
    BY <2>2, <2>3, <2>4, <2>5, HeldRows, StillKeepsOwners
<1>5. CASE \E b \in Backups : DispatchDue(p, b)
  <2>1. PICK b \in Backups : DispatchDue(p, b)
    BY <1>5
  <2> DEFINE new == [rows[b] EXCEPT !.next = "none"]
  <2>2. /\ rows' = [rows EXCEPT ![b] = new] /\ runs' = runs /\ sweeps' = sweeps
        /\ Due(b) /\ Reaped(p)
        /\ \A c \in calls' : c \in calls \/ c.row = b
    BY <2>1 DEF DispatchDue, Task, Inline
  <2>3. /\ new.status = rows[b].status /\ new.stale = rows[b].stale
        /\ new.attempts = rows[b].attempts
    BY DEF TypeOK, Row
  <2> HIDE DEF new
  <2>4. ~rows[b].stale
    BY <2>2 DEF OwnerInv, Due
  <2>5. rows'[b] = new /\ \A d \in Backups : d # b => rows'[d] = rows[d]
    BY <2>2 DEF TypeOK
  <2>6. RowsCalm
    BY <2>3, <2>4, <2>5 DEF RowsCalm
  <2>7. \A q \in Sweepers : sweeps'[q].seen[b] = Unseen
    BY <1>1, <2>2 DEF Reaped
  <2>8. \A d \in Backups : d # b /\ Unattended(d) => Unattended(d)'
    BY <2>2 DEF Unattended
  <2>9. \A d \in Backups : Unattended(d) =>
          \/ Unattended(d)'
          \/ ~rows'[d].stale /\ \A q \in Sweepers : sweeps'[q].seen[d] = Unseen
    BY <2>3, <2>4, <2>5, <2>7, <2>8
  <2>10. \A q \in Runners : Live(q)' => Live(q)
    BY <2>2 DEF Live
  <2>11. \A q \in Runners : Live(q) => rows'[runs[q].row].status \in Held
    BY <2>3, <2>5, HeldRows DEF SecretInv, Live
  <2>12. QED
    BY <2>2, <2>6, <2>9, <2>10, <2>11, CalmKeepsOwners
<1>6. CASE \E b \in Backups : CreateScheduled(p, b)
  <2>1. PICK b \in Backups : CreateScheduled(p, b)
    BY <1>6
  <2>2. /\ rows[b].status = "none" /\ runs' = runs
        /\ rows' = [rows EXCEPT ![b] = NewRow("scheduled", FALSE)]
        /\ \A c \in calls' : c \in calls \/ c.row = b
        /\ \A q \in Sweepers, d \in Backups : sweeps'[q].seen[d] = Unseen
    BY <1>1, <2>1 DEF CreateScheduled, Inline, Rested, TypeOK
  <2>3. QED
    BY <2>2, CreateKeepsOwners
<1>7. QED
  BY <1>2, <1>3, <1>4, <1>5, <1>6 DEF Pace

LEMMA OperatorKeepsOwners ==
  ASSUME Timely, TypeOK, SecretInv, OwnerInv, NEW b \in Backups,
         \/ Resume(b) \/ Cancel(b) \/ DeleteRead(b) \/ DeleteRow(b)
         \/ BecomeDue(b) \/ BecomeStale(b)
  PROVE  OwnerInv'
<1>1. ~Resume(b)
  BY DEF Resume, Timely, TypeOK
<1>2. CASE DeleteRead(b)
  BY <1>2, SameIsCalm, HeldRows, StillKeepsOwners DEF DeleteRead
<1>3. CASE Cancel(b)
  <2> DEFINE new == [rows[b] EXCEPT !.status = "cancelled", !.next = "none", !.stale = FALSE]
  <2>1. /\ rows' = [rows EXCEPT ![b] = new]
        /\ runs' = runs /\ calls' = calls /\ sweeps' = sweeps
    BY <1>3 DEF Cancel
  <2>2. new.status = "cancelled" /\ new.stale = FALSE /\ new.attempts = rows[b].attempts
    BY DEF TypeOK, Row
  <2> HIDE DEF new
  <2>3. RowsCalm /\ rows'[b] = new /\ \A d \in Backups : d # b => rows'[d] = rows[d]
    BY <2>1, <2>2, CalmWrite
  <2>4. \A q \in Runners : Live(q) => rows'[runs[q].row].status \in Held
    BY <2>2, <2>3, HeldRows DEF Held, SecretInv, Live
  <2>5. QED
    BY <2>1, <2>3, <2>4, StillKeepsOwners
<1>4. CASE DeleteRow(b) \/ BecomeDue(b)
  <2> DEFINE gone == [rows[b] EXCEPT !.status = "gone", !.next = "none"]
             due == [rows[b] EXCEPT !.next = "due"]
  <2>1. /\ \/ rows' = [rows EXCEPT ![b] = gone]
           \/ rows' = [rows EXCEPT ![b] = due] /\ rows[b].next = "later"
        /\ runs' = runs /\ calls' = calls /\ sweeps' = sweeps
    BY <1>4 DEF DeleteRow, BecomeDue
  <2>2. /\ gone.status = "gone" /\ gone.next = "none" /\ gone.stale = rows[b].stale
        /\ gone.attempts = rows[b].attempts /\ gone.secret = rows[b].secret
        /\ due.status = rows[b].status /\ due.stale = rows[b].stale
        /\ due.attempts = rows[b].attempts
    BY DEF TypeOK, Row
  <2> HIDE DEF gone, due
  <2>3. /\ rows'[b] = gone \/ (rows'[b] = due /\ rows[b].next = "later")
        /\ \A d \in Backups : d # b => rows'[d] = rows[d]
    BY <2>1 DEF TypeOK
  <2>4. rows[b].next = "later" => ~rows[b].stale
    BY DEF OwnerInv
  <2>5. RowsCalm
    BY <2>2, <2>3, <2>4 DEF RowsCalm
  <2>6. \A q \in Runners : Live(q) => rows'[runs[q].row].status \in Held
    BY <2>2, <2>3, HeldRows DEF Held, SecretInv, Live
  <2>7. QED
    BY <2>1, <2>5, <2>6, StillKeepsOwners
<1>5. CASE BecomeStale(b)
  <2> DEFINE new == [rows[b] EXCEPT !.stale = TRUE]
  <2>1. /\ rows' = [rows EXCEPT ![b] = new] /\ rows[b].next # "later" /\ ~Attended(b)
        /\ rows[b].next = "due" => rows[b].secret
        /\ runs' = runs /\ calls' = calls /\ sweeps' = sweeps
    BY <1>5 DEF BecomeStale, Timely
  <2>2. /\ new.status = rows[b].status /\ new.next = rows[b].next
        /\ new.attempts = rows[b].attempts /\ new.secret = rows[b].secret
    BY DEF TypeOK, Row
  <2> HIDE DEF new
  <2>3. rows'[b] = new /\ \A d \in Backups : d # b => rows'[d] = rows[d]
    BY <2>1 DEF TypeOK
  <2>4. Unattended(b)
    <3>1. \A q \in Runners : runs[q].row = b => runs[q].att # rows[b].attempts /\ runs[q].at # "tail"
      BY <2>1 DEF Attended
    <3>2. \A q \in Runners : Live(q) => runs[q].row # b
      BY <3>1 DEF OwnerInv
    <3>3. QED
      BY <2>1, <3>1, <3>2 DEF Attended, Unattended, Live
  <2>5. \A d \in Backups : Unattended(d)' <=> Unattended(d)
    BY <2>1 DEF Unattended
  <2>6. \A d \in Backups : /\ rows'[d].status = rows[d].status
                          /\ rows'[d].attempts = rows[d].attempts
                          /\ rows'[d].next = rows[d].next /\ rows'[d].secret = rows[d].secret
    BY <2>2, <2>3
  <2>7. \A d \in Backups : rows'[d].stale =>
          /\ Unattended(d)'
          /\ rows'[d].next # "later" /\ (rows'[d].next = "due" => rows'[d].secret)
    BY <2>1, <2>3, <2>4, <2>5, <2>6 DEF OwnerInv
  <2>8. \A q \in Runners : Live(q) =>
          /\ rows'[runs[q].row].status \in Held
          /\ runs[q].att = rows'[runs[q].row].attempts
    BY <2>6 DEF OwnerInv, SecretInv, Live
  <2>9. \A q \in Sweepers, d \in Backups : sweeps[q].seen[d] # Unseen =>
          /\ Unattended(d)' /\ rows'[d].status # "none"
          /\ sweeps[q].seen[d] = rows'[d].attempts
    BY <2>5, <2>6 DEF OwnerInv
  <2>10. \A q, t \in Runners : Live(q) /\ Live(t) /\ runs[q].row = runs[t].row => q = t
    BY DEF OwnerInv
  <2>11. QED
    BY <2>1, <2>7, <2>8, <2>9, <2>10 DEF OwnerInv, Held, Live, Unseen
<1>6. QED
  BY <1>1, <1>2, <1>3, <1>4, <1>5

LEMMA NextKeepsOwners ==
  ASSUME Timely, TypeOK, SecretInv, OwnerInv, [Next]_vars
  PROVE  OwnerInv'
<1>1. CASE Create
  <2>1. PICK b \in Backups : \/ \E secret \in BOOLEAN : CreateManual(b, secret)
                             \/ \E via \in Vias : CreateForUpdate(b, via)
    BY <1>1 DEF Create
  <2>2. /\ rows[b].status = "none" /\ runs' = runs /\ sweeps' = sweeps
        /\ \E trigger, secret : rows' = [rows EXCEPT ![b] = NewRow(trigger, secret)]
    BY <2>1 DEF CreateManual, CreateForUpdate
  <2>3. \A c \in calls' : c \in calls \/ c.row = b
    <3>1. CASE \E secret \in BOOLEAN : CreateManual(b, secret)
      BY <3>1 DEF CreateManual, Dispatch, Task, Inline
    <3>2. CASE \E via \in Vias : CreateForUpdate(b, via)
      <4>1. PICK via \in Vias : CreateForUpdate(b, via)
        BY <3>2
      <4>2. [row |-> b, pass |-> FALSE, via |-> via].row = b
        OBVIOUS
      <4>3. QED
        BY <4>1, <4>2 DEF CreateForUpdate
    <3>3. QED
      BY <2>1, <3>1, <3>2
  <2>4. QED
    BY <2>2, <2>3, CreateKeepsOwners
<1>2. CASE \E b \in Backups : Deliver(b)
  BY <1>2, ClaimKeepsOwners, PassKeepsOwners DEF Deliver
<1>3. CASE \E r \in Runners : Step(r) \/ Raise(r) \/ Crash(r)
  BY <1>3, StepKeepsOwners
<1>4. CASE \E p \in Sweepers : Pace(p) \/ \E b \in Backups : CreateScheduled(p, b)
  BY <1>4, SweepKeepsOwners
<1>5. CASE \E b \in Backups : \/ Resume(b) \/ Cancel(b) \/ DeleteRead(b) \/ DeleteRow(b)
                            \/ BecomeDue(b) \/ BecomeStale(b)
  BY <1>5, OperatorKeepsOwners
<1>6. CASE (\E c \in calls : LoseCall(c)) \/ UNCHANGED vars
  <2>1. rows' = rows /\ runs' = runs /\ calls' \subseteq calls /\ sweeps' = sweeps
    BY <1>6 DEF LoseCall, vars
  <2>2. QED
    BY <2>1, SameIsCalm, HeldRows, StillKeepsOwners
<1>7. QED
  BY <1>1, <1>2, <1>3, <1>4, <1>5, <1>6 DEF Next

LEMMA InitHasOwners == Init => OwnerInv
BY DEF Init, OwnerInv, Live, Idle, NoRow, Rested, Unseen

LEMMA OwnersInductive == ASSUME Timely PROVE Spec => [](TypeOK /\ SecretInv /\ OwnerInv)
BY InitHolds, InitHasOwners, NextPreserves, NextKeepsOwners, PTL DEF Spec

(* No two processes build the same row at once, whatever crashes, raises,  *)
(* is lost, delivered twice, cancelled or deleted, as long as a sweep is   *)
(* alone and judges silence rightly, and nobody resumes.                   *)
THEOREM OneBuilder == ASSUME Timely PROVE Spec => []OneBuilderPerRow
<1>1. OwnerInv => OneBuilderPerRow
  <2> SUFFICES ASSUME OwnerInv, NEW b \in Backups
               PROVE  Cardinality(Building(b)) <= 1
    BY DEF OneBuilderPerRow
  <2>1. \A r, q \in Building(b) : r = q
    BY DEF OwnerInv, Building, Live, BuildSteps
  <2>2. CASE Building(b) = {}
    BY <2>2, FS_EmptySet
  <2>3. CASE Building(b) # {}
    <3>1. PICK r : Building(b) = {r}
      BY <2>1, <2>3
    <3>2. QED
      BY <3>1, FS_Singleton
  <2>4. QED
    BY <2>2, <2>3
<1>2. QED
  BY <1>1, OwnersInductive, PTL

(* No sweep fails an attempt that is still building.                       *)
THEOREM SweepsSpareTheLiving == ASSUME Timely PROVE Spec => ReapsOnlyTheDead
<1>1. ASSUME OwnerInv
      PROVE  \A p \in Sweepers, b \in Backups : SweepFail(p, b) =>
               \A r \in Building(b) : runs[r].att # rows[b].attempts
  BY <1>1 DEF OwnerInv, SweepFail, Building, Unattended, BuildSteps
<1>2. QED
  BY <1>1, OwnersInductive, PTL DEF ReapsOnlyTheDead

-----------------------------------------------------------------------------
(* A completed row stays completed.                                        *)

(* No failure is about to be written over a completed row.                 *)
NoLateFailure ==
  /\ \A r \in Runners : runs[r].at = "failing" => rows[runs[r].row].status # "completed"
  /\ \A p \in Sweepers, b \in Backups :
       sweeps[p].seen[b] # Unseen => rows[b].status # "completed"

Stays(b) == rows[b].status = "completed" => rows'[b].status \in {"completed", "gone"}

LEMMA WriteStays ==
  ASSUME TypeOK, NEW b \in Backups, NEW new, rows' = [rows EXCEPT ![b] = new],
         rows[b].status = "completed" => new.status \in {"completed", "gone"}
  PROVE  \A d \in Backups : Stays(d)
BY DEF TypeOK, Stays

LEMMA CompletedStays ==
  ASSUME TypeOK, SecretInv, NoLateFailure, [Next]_vars
  PROVE  \A d \in Backups : Stays(d)
<1>1. CASE rows' = rows
  BY <1>1 DEF Stays
<1>2. CASE Create \/ \E p \in Sweepers, b \in Backups : CreateScheduled(p, b)
  <2>1. PICK b \in Backups : /\ rows[b].status = "none"
                             /\ \E new : rows' = [rows EXCEPT ![b] = new]
    BY <1>2 DEF Create, CreateManual, CreateForUpdate, CreateScheduled
  <2>2. QED
    BY <2>1, WriteStays
<1>3. CASE \E b \in Backups : Deliver(b)
  <2>1. PICK r \in Runners, c \in calls : Claim(r, c) \/ Pass(r, c)
    BY <1>3 DEF Deliver
  <2>2. CASE Pass(r, c)
    BY <1>1, <2>2 DEF Pass
  <2>3. CASE Claim(r, c)
    <3>1. c.row \in Backups /\ rows[c.row].status = "pending"
          /\ \E new : rows' = [rows EXCEPT ![c.row] = new]
      BY <2>3 DEF Claim, Claimable, TypeOK, Call
    <3>2. QED
      BY <3>1, WriteStays
  <2>4. QED
    BY <2>1, <2>2, <2>3
<1>4. ASSUME NEW r \in Runners, Step(r) PROVE \A d \in Backups : Stays(d)
  <2> DEFINE b == runs[r].row
  <2>1. CASE Report(r) \/ Store(r) \/ Conclude(r) \/ Discard(r) \/ Requeue(r)
    BY <1>1, <2>1 DEF Report, Store, Conclude, Discard, Requeue
  <2>2. CASE Finish(r)
    <3>1. b \in Backups
      BY <2>2, BusyRunHasRow DEF Finish
    <3>2. CASE rows[b].status = "running"
      <4>1. \E new : rows' = [rows EXCEPT ![b] = new]
        BY <2>2, <3>2 DEF Finish
      <4>2. QED
        BY <3>1, <3>2, <4>1, WriteStays
    <3>3. CASE rows[b].status # "running"
      BY <1>1, <2>2, <3>3 DEF Finish
    <3>4. QED
      BY <3>2, <3>3
  <2>3. CASE FailRun(r)
    <3>1. b \in Backups /\ rows[b].status # "completed"
      BY <2>3, BusyRunHasRow DEF FailRun, NoLateFailure
    <3>2. PICK retryable \in BOOLEAN :
            Fails(b, runs[r].att, runs[r].via = "task" /\ runs[r].pass, retryable)
      BY <2>3 DEF FailRun
    <3>3. QED
      BY <3>1, <3>2, FailsOutcome DEF Stays
  <2>4. CASE EndCommand(r)
    <3> DEFINE new == IF rows[b].status # "pending" THEN rows[b] ELSE
                        [rows[b] EXCEPT !.status = "cancelled", !.next = "none", !.stale = FALSE]
    <3>1. b \in Backups /\ rows' = [rows EXCEPT ![b] = new]
      BY <2>4, BusyRunHasRow DEF EndCommand
    <3>2. rows[b].status = "completed" => new.status = "completed"
      OBVIOUS
    <3> HIDE DEF new
    <3>3. QED
      BY <3>1, <3>2, WriteStays
  <2>5. QED
    BY <1>4, <2>1, <2>2, <2>3, <2>4 DEF Step
<1>5. CASE \E r \in Runners : Raise(r) \/ Crash(r)
  BY <1>1, <1>5 DEF Raise, Crash
<1>6. ASSUME NEW p \in Sweepers, Pace(p) PROVE \A d \in Backups : Stays(d)
  <2>1. CASE (\E kind \in {"page", "beat"} : SweepStart(p, kind)) \/ SweepEnd(p)
    BY <1>1, <2>1 DEF SweepStart, SweepEnd
  <2>2. CASE \E b \in Backups : SweepFail(p, b)
    <3>1. PICK b \in Backups : SweepFail(p, b)
      BY <2>2
    <3>2. Fails(b, sweeps[p].seen[b], FALSE, TRUE) /\ rows[b].status # "completed"
      BY <3>1 DEF SweepFail, NoLateFailure
    <3>3. QED
      BY <3>2, FailsOutcome DEF Stays
  <2>3. CASE \E b \in Backups : DispatchDue(p, b)
    <3>1. PICK b \in Backups : /\ rows[b].status = "pending"
                               /\ rows' = [rows EXCEPT ![b].next = "none"]
      BY <2>3 DEF DispatchDue, Due
    <3>2. QED
      BY <3>1, WriteStays
  <2>4. QED
    BY <1>6, <2>1, <2>2, <2>3 DEF Pace
<1>7. ASSUME NEW b \in Backups,
             \/ Resume(b) \/ Cancel(b) \/ DeleteRead(b) \/ DeleteRow(b)
             \/ BecomeDue(b) \/ BecomeStale(b)
      PROVE  \A d \in Backups : Stays(d)
  <2> DEFINE gone == [rows[b] EXCEPT !.status = "gone", !.next = "none"]
             due == [rows[b] EXCEPT !.next = "due"]
  <2>1. gone.status = "gone" /\ due.status = rows[b].status
    BY DEF TypeOK, Row
  <2> HIDE DEF gone, due
  <2>2. \/ rows' = rows
        \/ rows[b].status # "completed" /\ \E new : rows' = [rows EXCEPT ![b] = new]
        \/ rows' = [rows EXCEPT ![b] = gone]
        \/ rows' = [rows EXCEPT ![b] = due]
    BY <1>7 DEF Resume, Cancel, DeleteRead, DeleteRow, BecomeDue, BecomeStale, Active,
       ActiveStatuses, gone, due
  <2>3. QED
    BY <1>1, <2>1, <2>2, WriteStays
<1>8. CASE (\E c \in calls : LoseCall(c)) \/ UNCHANGED vars
  BY <1>1, <1>8 DEF LoseCall, vars
<1>9. QED
  BY <1>2, <1>3, <1>4, <1>5, <1>6, <1>7, <1>8 DEF Next

-----------------------------------------------------------------------------
(* What a run and a sweep may still write, while nobody undoes a completed *)
(* backup.                                                                 *)

Ended == {"completed", "failed", "cancelled"}

(* Where the operator's Cancel and Delete may leave a row that a run, or a *)
(* sweep, is still about to fail.                                          *)
Aside == IF "cancel" \in Faults THEN {"cancelled", "gone"} ELSE {}

(* A run that has not finished is on a running row, one that has on a      *)
(* completed one; a sweep only holds rows that did not end; and a delete   *)
(* holds a row that ended, with its file.                                  *)
EndOf(b) ==
  /\ \A r \in Runners : Live(r) /\ runs[r].row = b =>
       rows[b].status \in IF runs[r].at = "finished" THEN {"completed", "gone"}
                          ELSE {"running"} \cup Aside
  /\ \A p \in Sweepers : sweeps[p].seen[b] # Unseen =>
       rows[b].status \in ActiveStatuses \cup Aside
  /\ deleting[b] # Unread /\ "cancel" \notin Faults =>
       rows[b].status \in Ended /\ deleting[b] = rows[b].file
  /\ rows[b].status = "none" => rows[b].attempts = 0 /\ rows[b].file = 0
  /\ 0 \notin stored[b]

EndInv == \A b \in Backups : EndOf(b)

(* What an action on row b leaves alone.                                   *)
Elsewhere(b) ==
  \A d \in Backups : d # b =>
    /\ rows'[d] = rows[d] /\ stored'[d] = stored[d] /\ deleting'[d] = deleting[d]
    /\ \A r \in Runners : Live(r)' /\ runs'[r].row = d => runs'[r] = runs[r]
    /\ \A p \in Sweepers : sweeps'[p].seen[d] # Unseen => sweeps[p].seen[d] # Unseen

LEMMA EndsElsewhere ==
  ASSUME EndInv, NEW b \in Backups, Elsewhere(b), EndOf(b)'
  PROVE  EndInv'
<1>1. ASSUME NEW d \in Backups, d # b PROVE EndOf(d)'
  <2>1. \A r \in Runners : Live(r)' /\ runs'[r].row = d => Live(r) /\ runs'[r] = runs[r]
    BY <1>1 DEF Elsewhere, Live
  <2>2. QED
    BY <1>1, <2>1 DEF Elsewhere, EndInv, EndOf, Ended, Aside, ActiveStatuses, Unseen, Unread
<1>2. QED
  BY <1>1 DEF EndInv

(* A runner that goes on, is no longer at its row, or does not finish.     *)
LEMMA GoKeepsEnds ==
  ASSUME TypeOK, SecretInv, OwnerInv, EndInv, NEW r \in Runners, NEW step, Goto(r, step),
         runs[r].at # "idle", step # "finished", runs[r].at = "tail" => step = "idle",
         runs[r].at = "finished" => step \in {"idle", "tail"},
         rows' = rows, sweeps' = sweeps, deleting' = deleting,
         \A d \in Backups : /\ d # runs[r].row => stored'[d] = stored[d]
                            /\ 0 \notin stored'[d]
  PROVE  EndInv'
<1>1. PICK b \in Backups : b = runs[r].row
  BY BusyRunHasRow
<1>2. /\ \A q \in Runners : q # r => runs'[q] = runs[q]
      /\ step = "idle" => runs'[r] = Idle
      /\ step # "idle" => runs'[r].at = step /\ runs'[r].row = b
  BY <1>1, GotoMoves
<1>3. Live(r)' => /\ runs'[r].row = b /\ runs'[r].at # "finished"
                  /\ Live(r) /\ runs[r].at # "finished"
  BY <1>2 DEF Live, Idle
<1>4. Elsewhere(b)
  BY <1>1, <1>2, <1>3 DEF Elsewhere, Unseen
<1>5. \A q \in Runners : Live(q)' /\ runs'[q].row = b =>
        rows'[b].status \in IF runs'[q].at = "finished" THEN {"completed", "gone"}
                            ELSE {"running"} \cup Aside
  BY <1>1, <1>2, <1>3 DEF EndInv, EndOf, Live
<1>6. EndOf(b)'
  BY <1>1, <1>5 DEF EndInv, EndOf, Ended, Aside, ActiveStatuses, Unseen, Unread, Live
<1>7. QED
  BY <1>1, <1>4, <1>6, EndsElsewhere

(* No sweep holds a row that is attended to.                               *)
LEMMA AttendedIsUnseen ==
  ASSUME OwnerInv, NEW b \in Backups,
         \/ \E r \in Runners : runs[r].at # "idle" /\ runs[r].row = b
         \/ \E c \in calls : c.row = b
  PROVE  \A p \in Sweepers : sweeps[p].seen[b] = Unseen
BY DEF OwnerInv, Unattended

LEMMA PassKeepsEnds ==
  ASSUME TypeOK, SecretInv, OwnerInv, EndInv, NEW r \in Runners, NEW c \in calls, Pass(r, c)
  PROVE  EndInv'
<1>1. /\ rows' = rows /\ stored' = stored /\ sweeps' = sweeps /\ deleting' = deleting
      /\ \A q \in Runners : q # r => runs'[q] = runs[q]
      /\ runs'[r].at \in {"idle", "tail"}
  BY DEF Pass, TypeOK, Idle
<1>2. \A q \in Runners : Live(q)' => Live(q) /\ runs'[q] = runs[q]
  BY <1>1 DEF Live
<1>3. ASSUME NEW b \in Backups PROVE EndOf(b)'
  <2>1. EndOf(b)
    BY DEF EndInv
  <2>2. QED
    BY <1>1, <1>2, <2>1 DEF EndOf, Ended, Aside, ActiveStatuses, Unseen, Unread
<1>4. QED
  BY <1>3 DEF EndInv

LEMMA ClaimKeepsEnds ==
  ASSUME TypeOK, SecretInv, OwnerInv, EndInv, NEW r \in Runners, NEW c \in calls, Claim(r, c)
  PROVE  EndInv'
<1>1. PICK b \in Backups : b = c.row
  BY DEF TypeOK, Call
<1> DEFINE row == [rows[b] EXCEPT !.status = "running", !.attempts = rows[b].attempts + 1,
                                  !.next = "none", !.stale = FALSE]
           run == [row |-> b, att |-> rows[b].attempts + 1, pass |-> c.pass, via |-> c.via,
                   at |-> IF rows[b].secret /\ ~c.pass THEN "failing" ELSE "building"]
<1>2. /\ rows' = [rows EXCEPT ![b] = row] /\ runs' = [runs EXCEPT ![r] = run]
      /\ sweeps' = sweeps /\ stored' = stored /\ deleting' = deleting
      /\ rows[b].status = "pending"
  BY <1>1 DEF Claim, Claimable
<1>3. row.status = "running"
  BY DEF TypeOK, Row
<1>4. run.at \in {"failing", "building"} /\ run.row = b
  OBVIOUS
<1> HIDE DEF row, run
<1>5. rows'[b] = row /\ \A d \in Backups : d # b => rows'[d] = rows[d]
  BY <1>2 DEF TypeOK
<1>6. runs'[r] = run /\ \A q \in Runners : q # r => runs'[q] = runs[q]
  BY <1>2 DEF TypeOK
<1>7. Elsewhere(b)
  BY <1>2, <1>4, <1>5, <1>6 DEF Elsewhere, Unseen
<1>8. \A q \in Runners : Live(q)' /\ runs'[q].row = b => runs'[q].at # "finished"
  <2> SUFFICES ASSUME NEW q \in Runners, q # r, Live(q)', runs'[q].row = b PROVE FALSE
    BY <1>4, <1>6
  <2>1. Live(q) /\ runs[q].row = b
    BY <1>6 DEF Live
  <2>2. QED
    BY <1>2, <2>1, HeldRows DEF Held
<1>9. \A p \in Sweepers : sweeps'[p].seen[b] = Unseen
  BY <1>1, <1>2, AttendedIsUnseen
<1>10. deleting[b] = Unread \/ "cancel" \in Faults
  BY <1>2 DEF EndInv, EndOf, Ended
<1>11. 0 \notin stored'[b]
  BY <1>2 DEF EndInv, EndOf
<1>12. EndOf(b)'
  BY <1>2, <1>3, <1>5, <1>8, <1>9, <1>10, <1>11 DEF EndOf, Unseen, Unread
<1>13. QED
  BY <1>7, <1>12, EndsElsewhere

(* A runner writes the row it was on, and is at most finished with it.     *)
LEMMA WriteKeepsEnds ==
  ASSUME TypeOK, SecretInv, OwnerInv, EndInv, NEW r \in Runners, runs[r].at # "idle",
         NEW b \in Backups, b = runs[r].row, NEW step, Goto(r, step),
         \A d \in Backups : d # b => rows'[d] = rows[d],
         stored' = stored, sweeps' = sweeps, deleting' = deleting,
         deleting[b] = Unread \/ "cancel" \in Faults \/ rows'[b] = rows[b],
         rows'[b].status # "none",
         \/ step = "finished" /\ rows'[b].status = "completed" /\ Live(r)
         \/ step \in {"idle", "tail"} /\ (Live(r) \/ rows[b].status \notin Held)
  PROVE  EndInv'
<1>1. /\ \A q \in Runners : q # r => runs'[q] = runs[q]
      /\ step = "idle" => runs'[r] = Idle
      /\ step # "idle" => runs'[r].at = step /\ runs'[r].row = b
  BY GotoMoves
<1>2. Live(r)' => runs'[r].row = b /\ runs'[r].at = "finished" /\ rows'[b].status = "completed"
  BY <1>1 DEF Live, Idle
<1>3. Elsewhere(b)
  BY <1>1, <1>2 DEF Elsewhere, Unseen
<1>4. \A q \in Runners : Live(q)' /\ runs'[q].row = b => q = r
  <2> SUFFICES ASSUME NEW q \in Runners, q # r, Live(q)', runs'[q].row = b PROVE FALSE
    OBVIOUS
  <2>1. Live(q) /\ runs[q].row = b
    BY <1>1 DEF Live
  <2>2. QED
    BY <2>1, HeldRows DEF OwnerInv
<1>5. \A p \in Sweepers : sweeps'[p].seen[b] = Unseen
  BY AttendedIsUnseen
<1>6. deleting'[b] # Unread /\ "cancel" \notin Faults =>
        rows'[b].status \in Ended /\ deleting'[b] = rows'[b].file
  BY DEF EndInv, EndOf, Unread
<1>7. 0 \notin stored'[b]
  BY DEF EndInv, EndOf
<1>8. EndOf(b)'
  BY <1>2, <1>4, <1>5, <1>6, <1>7 DEF EndOf, Unseen, Unread, Ended
<1>9. QED
  BY <1>3, <1>8, EndsElsewhere

LEMMA StepKeepsEnds ==
  ASSUME "post" \notin Faults, TypeOK, SecretInv, OwnerInv, ArchiveInv, EndInv,
         NEW r \in Runners, Step(r) \/ Raise(r) \/ Crash(r)
  PROVE  EndInv'
<1>1. \A d \in Backups : 0 \notin stored[d]
  BY DEF EndInv, EndOf
<1>2. CASE Report(r) \/ Conclude(r) \/ Raise(r) \/ Requeue(r) \/ Crash(r)
  <2>1. /\ rows' = rows /\ stored' = stored /\ sweeps' = sweeps /\ deleting' = deleting
        /\ runs[r].at # "idle"
        /\ \E step \in Steps \ {"finished"} :
             /\ Goto(r, step) /\ (runs[r].at = "tail" => step = "idle")
             /\ (runs[r].at = "finished" => step \in {"idle", "tail"})
    BY <1>2 DEF Report, Conclude, Raise, Requeue, Crash, Steps, BuildSteps, AfterRun
  <2>2. QED
    BY <1>1, <2>1, GoKeepsEnds
<1>3. CASE Store(r) \/ Discard(r)
  <2>1. /\ rows' = rows /\ sweeps' = sweeps /\ deleting' = deleting
        /\ runs[r].at \in {"storing", "dropping", "undoing"}
        /\ \E step \in {"stored", "failing", "idle", "tail"} : Goto(r, step)
    BY <1>3 DEF Store, Discard, AfterRun
  <2>2. PICK b \in Backups : b = runs[r].row
    BY <2>1, BusyRunHasRow
  <2>3. \/ stored' = [stored EXCEPT ![b] = stored[b] \cup {runs[r].att}]
        \/ stored' = [stored EXCEPT ![b] = stored[b] \ {runs[r].att}]
    BY <1>3, <2>2 DEF Store, Discard
  <2>4. 0 < runs[r].att
    BY <2>1 DEF ArchiveInv, Live
  <2>5. \A d \in Backups : /\ d # runs[r].row => stored'[d] = stored[d]
                          /\ 0 \notin stored'[d]
    <3>1. \A d \in Backups : d # b => stored'[d] = stored[d]
      BY <2>3 DEF TypeOK
    <3>2. stored'[b] \subseteq stored[b] \cup {runs[r].att}
      BY <2>3 DEF TypeOK
    <3>3. QED
      BY <1>1, <2>2, <2>4, <3>1, <3>2
  <2>6. QED
    BY <2>1, <2>5, GoKeepsEnds
<1>4. CASE Finish(r)
  <2>1. runs[r].at = "stored" /\ Live(r) /\ stored' = stored /\ sweeps' = sweeps
        /\ deleting' = deleting
    BY <1>4 DEF Finish, Live
  <2>2. PICK b \in Backups : b = runs[r].row
    BY <2>1, BusyRunHasRow
  <2>3. CASE rows[b].status # "running"
    <3>1. Goto(r, "dropping") /\ rows' = rows
      BY <1>4, <2>2, <2>3 DEF Finish
    <3>2. QED
      BY <1>1, <2>1, <3>1, GoKeepsEnds
  <2>4. CASE rows[b].status = "running"
    <3> DEFINE row == [rows[b] EXCEPT !.status = "completed", !.next = "none",
                                      !.stale = FALSE, !.file = runs[r].att]
    <3>1. rows' = [rows EXCEPT ![b] = row] /\ Goto(r, "finished")
      BY <1>4, <2>2, <2>4 DEF Finish
    <3>2. row.status = "completed"
      BY DEF TypeOK, Row
    <3> HIDE DEF row
    <3>3. rows'[b] = row /\ \A d \in Backups : d # b => rows'[d] = rows[d]
      BY <3>1 DEF TypeOK
    <3>4. deleting[b] = Unread \/ "cancel" \in Faults
      BY <2>4 DEF EndInv, EndOf, Ended
    <3>5. QED
      BY <2>1, <2>2, <3>1, <3>2, <3>3, <3>4, WriteKeepsEnds
  <2>5. QED
    BY <2>3, <2>4
<1>5. CASE FailRun(r)
  <2>1. /\ runs[r].at = "failing" /\ Live(r) /\ stored' = stored /\ sweeps' = sweeps
        /\ deleting' = deleting /\ Goto(r, AfterRun(runs[r].via))
        /\ AfterRun(runs[r].via) \in {"idle", "tail"}
    BY <1>5 DEF FailRun, Live, AfterRun
  <2>2. PICK b \in Backups : b = runs[r].row
    BY <2>1, BusyRunHasRow
  <2>3. PICK retryable \in BOOLEAN :
          Fails(b, runs[r].att, runs[r].via = "task" /\ runs[r].pass, retryable)
    BY <1>5, <2>2 DEF FailRun
  <2>4. /\ \A d \in Backups : d # b => rows'[d] = rows[d]
        /\ rows'[b].status # "none"
    BY <2>3, FailsOutcome
  <2>5. deleting[b] = Unread \/ "cancel" \in Faults
    BY <2>1, <2>2 DEF EndInv, EndOf, Ended, Aside
  <2>6. QED
    BY <2>1, <2>2, <2>4, <2>5, WriteKeepsEnds
<1>6. CASE EndCommand(r)
  <2>1. /\ runs[r].at = "tail" /\ stored' = stored /\ sweeps' = sweeps
        /\ deleting' = deleting /\ Goto(r, "idle")
    BY <1>6 DEF EndCommand
  <2>2. PICK b \in Backups : b = runs[r].row
    BY <2>1, BusyRunHasRow
  <2> DEFINE cancelled == [rows[b] EXCEPT !.status = "cancelled", !.next = "none", !.stale = FALSE]
  <2>3. rows' = [rows EXCEPT ![b] = IF rows[b].status # "pending" THEN rows[b] ELSE cancelled]
    BY <1>6, <2>2 DEF EndCommand
  <2>4. CASE rows[b].status # "pending"
    <3>1. rows' = rows
      BY <2>3, <2>4 DEF TypeOK
    <3>2. QED
      BY <1>1, <2>1, <3>1, GoKeepsEnds
  <2>5. CASE rows[b].status = "pending"
    <3>1. cancelled.status = "cancelled"
      BY DEF TypeOK, Row
    <3> HIDE DEF cancelled
    <3>2. rows'[b] = cancelled /\ \A d \in Backups : d # b => rows'[d] = rows[d]
      BY <2>3, <2>5 DEF TypeOK
    <3>3. deleting[b] = Unread \/ "cancel" \in Faults
      BY <2>5 DEF EndInv, EndOf, Ended
    <3>4. QED
      BY <2>1, <2>2, <2>5, <3>1, <3>2, <3>3, WriteKeepsEnds DEF Held
  <2>6. QED
    BY <2>4, <2>5
<1>7. QED
  BY <1>2, <1>3, <1>4, <1>5, <1>6 DEF Step

(* No runner moves, and one row is written.                                *)
LEMMA StillKeepsEnds ==
  ASSUME EndInv, NEW b \in Backups, runs' = runs,
         \A d \in Backups : d # b =>
           rows'[d] = rows[d] /\ stored'[d] = stored[d] /\ deleting'[d] = deleting[d],
         \A p \in Sweepers, d \in Backups :
           sweeps'[p].seen[d] # Unseen => sweeps[p].seen[d] # Unseen,
         EndOf(b)'
  PROVE  EndInv'
<1>1. Elsewhere(b)
  BY DEF Elsewhere, Unseen
<1>2. QED
  BY <1>1, EndsElsewhere

(* Only the schedule or the heartbeat of a row moves.                      *)
LEMMA SameStatusKeepsEnds ==
  ASSUME EndInv, runs' = runs, stored' = stored, deleting' = deleting,
         \A d \in Backups : /\ rows'[d].status = rows[d].status
                            /\ rows'[d].attempts = rows[d].attempts
                            /\ rows'[d].file = rows[d].file,
         \A p \in Sweepers, d \in Backups :
           sweeps'[p].seen[d] # Unseen => sweeps[p].seen[d] # Unseen \/ Stalled(d)
  PROVE  EndInv'
<1>1. SUFFICES ASSUME NEW d \in Backups PROVE EndOf(d)'
  BY DEF EndInv
<1>2. EndOf(d)
  BY DEF EndInv
<1>3. \A p \in Sweepers : sweeps'[p].seen[d] # Unseen =>
        rows[d].status \in ActiveStatuses \cup Aside
  BY <1>2 DEF EndOf, Stalled, Active
<1>4. \A r \in Runners : Live(r)' <=> Live(r)
  BY DEF Live
<1>5. QED
  BY <1>2, <1>3, <1>4 DEF EndOf, Ended, Aside, ActiveStatuses, Unseen, Unread

LEMMA CreateKeepsEnds ==
  ASSUME TypeOK, SecretInv, OwnerInv, EndInv, NEW b \in Backups, rows[b].status = "none",
         NEW trigger, NEW secret, rows' = [rows EXCEPT ![b] = NewRow(trigger, secret)],
         runs' = runs, stored' = stored, deleting' = deleting,
         \A p \in Sweepers, d \in Backups :
           sweeps'[p].seen[d] # Unseen => sweeps[p].seen[d] # Unseen
  PROVE  EndInv'
<1>1. NewRow(trigger, secret).status = "pending"
  BY DEF NewRow, NoRow
<1>2. /\ rows'[b].status = "pending"
      /\ \A d \in Backups : d # b => rows'[d] = rows[d]
  BY <1>1 DEF TypeOK
<1>3. \A q \in Runners : Live(q)' => runs'[q].row # b
  BY DEF SecretInv, Live
<1>4. \A p \in Sweepers : sweeps'[p].seen[b] = Unseen
  BY DEF OwnerInv
<1>5. deleting[b] = Unread \/ "cancel" \in Faults
  BY DEF EndInv, EndOf, Ended
<1>6. EndOf(b)'
  BY <1>2, <1>3, <1>4, <1>5 DEF EndInv, EndOf, Unseen, Unread
<1>7. QED
  BY <1>2, <1>6, StillKeepsEnds

LEMMA SweepKeepsEnds ==
  ASSUME Timely, TypeOK, SecretInv, OwnerInv, EndInv, NEW p \in Sweepers,
         Pace(p) \/ \E b \in Backups : CreateScheduled(p, b)
  PROVE  EndInv'
<1>1. \A q \in Sweepers : q = p
  BY DEF Timely
<1>2. CASE \E kind \in {"page", "beat"} : SweepStart(p, kind)
  <2>1. /\ rows' = rows /\ runs' = runs /\ stored' = stored /\ deleting' = deleting
        /\ \A b \in Backups : sweeps'[p].seen[b] =
             IF Stalled(b) THEN rows[b].attempts ELSE Unseen
    BY <1>2 DEF SweepStart, TypeOK, Sweep
  <2>2. QED
    BY <1>1, <2>1, SameStatusKeepsEnds
<1>3. CASE SweepEnd(p)
  <2>1. /\ rows' = rows /\ runs' = runs /\ stored' = stored /\ deleting' = deleting
        /\ \A q \in Sweepers, b \in Backups : sweeps'[q].seen[b] = Unseen
    BY <1>1, <1>3 DEF SweepEnd, Rested, TypeOK
  <2>2. QED
    BY <2>1, SameStatusKeepsEnds
<1>4. CASE \E b \in Backups : SweepFail(p, b)
  <2>1. PICK b \in Backups : SweepFail(p, b)
    BY <1>4
  <2>2. /\ Fails(b, sweeps[p].seen[b], FALSE, TRUE) /\ runs' = runs /\ stored' = stored
        /\ deleting' = deleting /\ sweeps[p].seen[b] # Unseen
    BY <2>1 DEF SweepFail
  <2>3. \A q \in Runners : Live(q)' => runs'[q].row # b
    BY <2>2 DEF OwnerInv, Unattended, Live
  <2>4. /\ \A d \in Backups : d # b => rows'[d] = rows[d]
        /\ rows'[b].status # "none"
        /\ rows'[b].status \in ActiveStatuses \/ (\A q \in Sweepers : sweeps'[q].seen[b] = Unseen)
    <3> DEFINE next == [sweeps[p] EXCEPT !.seen[b] = Unseen]
    <3>1. sweeps' = [sweeps EXCEPT ![p] =
            IF rows[b].status = "gone" THEN Rested ELSE next]
      BY <2>1 DEF SweepFail
    <3>2. next.seen[b] = Unseen /\ Rested.seen[b] = Unseen
      BY DEF TypeOK, Sweep, Rested
    <3> HIDE DEF next
    <3>3. \A q \in Sweepers : sweeps'[q].seen[b] = Unseen
      BY <1>1, <3>1, <3>2 DEF TypeOK
    <3>4. QED
      BY <2>2, <3>3, FailsOutcome
  <2>5. \A q \in Sweepers, d \in Backups : sweeps'[q].seen[d] # Unseen =>
          sweeps[q].seen[d] # Unseen
    <3> DEFINE next == [sweeps[p] EXCEPT !.seen[b] = Unseen]
    <3>1. sweeps' = [sweeps EXCEPT ![p] =
            IF rows[b].status = "gone" THEN Rested ELSE next]
      BY <2>1 DEF SweepFail
    <3>2. sweeps[p] \in Sweep
      BY DEF TypeOK
    <3>3. \A d \in Backups : next.seen[d] \in {sweeps[p].seen[d], Unseen}
      BY <3>2 DEF Sweep
    <3>4. \A d \in Backups : Rested.seen[d] = Unseen
      BY DEF Rested
    <3> HIDE DEF next
    <3>5. sweeps'[p] \in {Rested, next} /\ \A q \in Sweepers : q = p
      BY <1>1, <3>1 DEF TypeOK
    <3>6. QED
      BY <3>3, <3>4, <3>5
  <2>6. deleting'[b] # Unread /\ "cancel" \notin Faults => FALSE
    BY <2>2 DEF EndInv, EndOf, Ended, Aside, ActiveStatuses
  <2>7. EndOf(b)'
    BY <2>2, <2>3, <2>4, <2>6 DEF EndInv, EndOf, Unseen, Unread, Live
  <2>8. QED
    BY <2>2, <2>4, <2>5, <2>7, StillKeepsEnds
<1>5. CASE \E b \in Backups : DispatchDue(p, b)
  <2>1. PICK b \in Backups : DispatchDue(p, b)
    BY <1>5
  <2> DEFINE new == [rows[b] EXCEPT !.next = "none"]
  <2>2. /\ rows' = [rows EXCEPT ![b] = new] /\ runs' = runs /\ sweeps' = sweeps
        /\ stored' = stored /\ deleting' = deleting
    BY <2>1 DEF DispatchDue
  <2>3. /\ new.status = rows[b].status /\ new.file = rows[b].file
        /\ new.attempts = rows[b].attempts
    BY DEF TypeOK, Row
  <2> HIDE DEF new
  <2>4. rows'[b] = new /\ \A d \in Backups : d # b => rows'[d] = rows[d]
    BY <2>2 DEF TypeOK
  <2>5. QED
    BY <2>2, <2>3, <2>4, SameStatusKeepsEnds
<1>6. CASE \E b \in Backups : CreateScheduled(p, b)
  <2>1. PICK b \in Backups : CreateScheduled(p, b)
    BY <1>6
  <2>2. /\ rows[b].status = "none" /\ runs' = runs /\ stored' = stored /\ deleting' = deleting
        /\ rows' = [rows EXCEPT ![b] = NewRow("scheduled", FALSE)]
        /\ \A q \in Sweepers, d \in Backups : sweeps'[q].seen[d] = Unseen
    BY <1>1, <2>1 DEF CreateScheduled, Rested, TypeOK
  <2>3. QED
    BY <2>2, CreateKeepsEnds
<1>7. QED
  BY <1>2, <1>3, <1>4, <1>5, <1>6 DEF Pace

LEMMA OperatorKeepsEnds ==
  ASSUME Timely, TypeOK, SecretInv, OwnerInv, EndInv, NEW b \in Backups,
         \/ Resume(b) \/ Cancel(b) \/ DeleteRead(b) \/ DeleteRow(b)
         \/ BecomeDue(b) \/ BecomeStale(b)
  PROVE  EndInv'
<1>1. ~Resume(b)
  BY DEF Resume, Timely, TypeOK
<1>2. EndOf(b)
  BY DEF EndInv
<1>3. \A q \in Runners : runs' = runs => (Live(q)' <=> Live(q))
  BY DEF Live
<1>4. CASE Cancel(b)
  <2> DEFINE new == [rows[b] EXCEPT !.status = "cancelled", !.next = "none", !.stale = FALSE]
  <2>1. /\ rows' = [rows EXCEPT ![b] = new] /\ "cancel" \in Faults
        /\ rows[b].status \in ActiveStatuses
        /\ runs' = runs /\ sweeps' = sweeps /\ stored' = stored /\ deleting' = deleting
    BY <1>4 DEF Cancel, Active
  <2>2. new.status = "cancelled"
    BY DEF TypeOK, Row
  <2> HIDE DEF new
  <2>3. rows'[b] = new /\ \A d \in Backups : d # b => rows'[d] = rows[d]
    BY <2>1 DEF TypeOK
  <2>4. \A q \in Runners : Live(q) /\ runs[q].row = b => runs[q].at # "finished"
    BY <1>2, <2>1 DEF EndOf, ActiveStatuses
  <2>5. EndOf(b)'
    BY <1>2, <1>3, <2>1, <2>2, <2>3, <2>4 DEF EndOf, Aside
  <2>6. QED
    BY <2>1, <2>3, <2>5, StillKeepsEnds
<1>5. CASE DeleteRead(b)
  <2>1. /\ rows[b].status \in Ended /\ deleting' = [deleting EXCEPT ![b] = rows[b].file]
        /\ rows' = rows /\ runs' = runs /\ sweeps' = sweeps /\ stored' = stored
    BY <1>5 DEF DeleteRead, Ended
  <2>2. deleting'[b] = rows[b].file /\ \A d \in Backups : d # b => deleting'[d] = deleting[d]
    BY <2>1 DEF TypeOK
  <2>3. EndOf(b)'
    BY <1>2, <1>3, <2>1, <2>2 DEF EndOf, Aside, Unseen
  <2>4. QED
    BY <2>1, <2>2, <2>3, StillKeepsEnds
<1>6. CASE DeleteRow(b)
  <2> DEFINE new == [rows[b] EXCEPT !.status = "gone", !.next = "none"]
  <2>1. /\ deleting[b] # Unread /\ rows' = [rows EXCEPT ![b] = new]
        /\ stored' = [stored EXCEPT ![b] = stored[b] \ {deleting[b]}]
        /\ deleting' = [deleting EXCEPT ![b] = Unread]
        /\ runs' = runs /\ sweeps' = sweeps
    BY <1>6 DEF DeleteRow
  <2>2. new.status = "gone"
    BY DEF TypeOK, Row
  <2> HIDE DEF new
  <2>3. /\ rows'[b] = new /\ stored'[b] \subseteq stored[b] /\ deleting'[b] = Unread
        /\ \A d \in Backups : d # b =>
             rows'[d] = rows[d] /\ stored'[d] = stored[d] /\ deleting'[d] = deleting[d]
    BY <2>1 DEF TypeOK
  <2>4. "cancel" \notin Faults => rows[b].status \in Ended
    BY <1>2, <2>1 DEF EndOf
  <2>5. \A q \in Runners : Live(q) /\ runs[q].row = b =>
          runs[q].at = "finished" \/ "cancel" \in Faults
    BY <1>2, <2>4 DEF EndOf, Aside, Ended
  <2>6. \A q \in Sweepers : sweeps[q].seen[b] # Unseen => "cancel" \in Faults
    BY <1>2, <2>4 DEF EndOf, Aside, Ended, ActiveStatuses
  <2>7. EndOf(b)'
    BY <1>2, <1>3, <2>1, <2>2, <2>3, <2>5, <2>6 DEF EndOf, Aside, Unseen, Unread
  <2>8. QED
    BY <2>1, <2>3, <2>7, StillKeepsEnds
<1>7. CASE BecomeDue(b) \/ BecomeStale(b)
  <2> DEFINE due == [rows[b] EXCEPT !.next = "due"]
             old == [rows[b] EXCEPT !.stale = TRUE]
  <2>1. /\ rows' = [rows EXCEPT ![b] = due] \/ rows' = [rows EXCEPT ![b] = old]
        /\ runs' = runs /\ sweeps' = sweeps /\ stored' = stored /\ deleting' = deleting
    BY <1>7 DEF BecomeDue, BecomeStale
  <2>2. /\ due.status = rows[b].status /\ due.file = rows[b].file
        /\ due.attempts = rows[b].attempts
        /\ old.status = rows[b].status /\ old.file = rows[b].file
        /\ old.attempts = rows[b].attempts
    BY DEF TypeOK, Row
  <2> HIDE DEF due, old
  <2>3. rows'[b] \in {due, old} /\ \A d \in Backups : d # b => rows'[d] = rows[d]
    BY <2>1 DEF TypeOK
  <2>4. QED
    BY <2>1, <2>2, <2>3, SameStatusKeepsEnds
<1>8. QED
  BY <1>1, <1>4, <1>5, <1>6, <1>7

LEMMA NextKeepsEnds ==
  ASSUME Timely, "post" \notin Faults,
         TypeOK, SecretInv, ArchiveInv, OwnerInv, EndInv, [Next]_vars
  PROVE  EndInv'
<1>1. CASE Create
  <2>1. PICK b \in Backups : \/ \E secret \in BOOLEAN : CreateManual(b, secret)
                             \/ \E via \in Vias : CreateForUpdate(b, via)
    BY <1>1 DEF Create
  <2>2. /\ rows[b].status = "none" /\ runs' = runs /\ sweeps' = sweeps
        /\ stored' = stored /\ deleting' = deleting
        /\ \E trigger, secret : rows' = [rows EXCEPT ![b] = NewRow(trigger, secret)]
    BY <2>1 DEF CreateManual, CreateForUpdate
  <2>3. QED
    BY <2>2, CreateKeepsEnds
<1>2. CASE \E b \in Backups : Deliver(b)
  BY <1>2, ClaimKeepsEnds, PassKeepsEnds DEF Deliver
<1>3. CASE \E r \in Runners : Step(r) \/ Raise(r) \/ Crash(r)
  BY <1>3, StepKeepsEnds
<1>4. CASE \E p \in Sweepers : Pace(p) \/ \E b \in Backups : CreateScheduled(p, b)
  BY <1>4, SweepKeepsEnds
<1>5. CASE \E b \in Backups : \/ Resume(b) \/ Cancel(b) \/ DeleteRead(b) \/ DeleteRow(b)
                            \/ BecomeDue(b) \/ BecomeStale(b)
  BY <1>5, OperatorKeepsEnds
<1>6. CASE (\E c \in calls : LoseCall(c)) \/ UNCHANGED vars
  <2>1. /\ rows' = rows /\ runs' = runs /\ stored' = stored /\ sweeps' = sweeps
        /\ deleting' = deleting
    BY <1>6 DEF LoseCall, vars
  <2>2. QED
    BY <2>1, SameStatusKeepsEnds
<1>7. QED
  BY <1>1, <1>2, <1>3, <1>4, <1>5, <1>6 DEF Next

LEMMA InitHasEnds == Init => EndInv
BY DEF Init, EndInv, EndOf, Live, Idle, NoRow, NoFile, Rested, Unseen, Unread

Inv == TypeOK /\ SecretInv /\ ArchiveInv /\ OwnerInv /\ EndInv

LEMMA EndsInductive == ASSUME Timely, "post" \notin Faults PROVE Spec => []Inv
<1>1. Init => Inv
  BY InitHolds, InitHasArchives, InitHasOwners, InitHasEnds DEF Inv
<1>2. Inv /\ [Next]_vars => Inv'
  BY NextPreserves, NextKeepsArchive, NextKeepsOwners, NextKeepsEnds DEF Inv
<1>3. QED
  BY <1>1, <1>2, PTL DEF Spec

(* Nothing but Delete takes a row out of "completed", whatever crashes,    *)
(* raises, is lost, delivered twice, cancelled or deleted, while sweeps    *)
(* judge silence rightly and the bookkeeping after a build does not raise. *)
THEOREM CompletedStaysCompleted ==
  ASSUME Timely, "post" \notin Faults PROVE Spec => CompletedIsFinal
<1>1. Inv => NoLateFailure
  BY DEF Inv, EndInv, EndOf, NoLateFailure, Live, Aside, ActiveStatuses, SecretInv
<1>2. Inv /\ [Next]_vars =>
        \A b \in Backups : rows[b].status = "completed" =>
          rows'[b].status \in {"completed", "gone"}
  BY <1>1, CompletedStays DEF Inv, Stays
<1>3. QED
  BY <1>2, EndsInductive, PTL DEF CompletedIsFinal, Spec

-----------------------------------------------------------------------------
(* What a failed or cancelled attempt leaves on storage: nothing.          *)

Kept(b, a) == rows[b].status = "completed" /\ rows[b].file = a

(* The run that saved the archive has not yet settled it.                  *)
Holds(r, b, a) ==
  runs[r].row = b /\ runs[r].att = a /\ runs[r].at \in {"stored", "dropping", "undoing"}

SettledInv ==
  /\ deleting = [b \in Backups |-> Unread]
  /\ \A b \in Backups : \A a \in stored[b] : Kept(b, a) \/ \E r \in Runners : Holds(r, b, a)

(* The completed rows are as they were, and whoever holds an archive that  *)
(* stays holds it still.                                                   *)
LEMMA SettledKept ==
  ASSUME SettledInv, deleting' = deleting,
         \A b \in Backups : stored'[b] \subseteq stored[b],
         \A b \in Backups : rows[b].status = "completed" =>
           rows'[b].status = "completed" /\ rows'[b].file = rows[b].file,
         \A r \in Runners, b \in Backups : \A a \in stored'[b] :
           Holds(r, b, a) => Kept(b, a)' \/ Holds(r, b, a)'
  PROVE  SettledInv'
<1>1. ASSUME NEW b \in Backups, NEW a \in stored'[b]
      PROVE  Kept(b, a)' \/ \E r \in Runners : Holds(r, b, a)'
  <2>1. a \in stored[b]
    BY <1>1
  <2>2. CASE Kept(b, a)
    BY <2>2 DEF Kept
  <2>3. CASE \E r \in Runners : Holds(r, b, a)
    BY <1>1, <2>3
  <2>4. QED
    BY <2>1, <2>2, <2>3 DEF SettledInv
<1>2. QED
  BY <1>1 DEF SettledInv

(* One row that is not completed is written, and no run that holds an      *)
(* archive moves.                                                          *)
LEMMA SettledWrite ==
  ASSUME TypeOK, SettledInv, deleting' = deleting, stored' = stored,
         NEW b \in Backups, rows[b].status # "completed",
         \A d \in Backups : d # b => rows'[d] = rows[d],
         \A r \in Runners :
           runs[r].at \in {"stored", "dropping", "undoing"} => runs'[r] = runs[r]
  PROVE  SettledInv'
<1>1. \A d \in Backups : rows[d].status = "completed" =>
        rows'[d].status = "completed" /\ rows'[d].file = rows[d].file
  OBVIOUS
<1>2. \A r \in Runners, d \in Backups : \A a \in stored'[d] :
        Holds(r, d, a) => Holds(r, d, a)'
  BY DEF Holds
<1>3. QED
  BY <1>1, <1>2, SettledKept

(* A runner goes on with the archive it holds, or never held one.          *)
LEMMA SettledGo ==
  ASSUME TypeOK, SettledInv, deleting' = deleting, rows' = rows, stored' = stored,
         NEW r \in Runners, NEW step, Goto(r, step),
         \/ runs[r].at \notin {"stored", "dropping", "undoing"}
         \/ step \in {"dropping", "undoing"}
  PROVE  SettledInv'
<1>1. /\ \A q \in Runners : q # r => runs'[q] = runs[q]
      /\ step # "idle" => /\ runs'[r].at = step /\ runs'[r].row = runs[r].row
                         /\ runs'[r].att = runs[r].att
  BY GotoMoves
<1>2. \A q \in Runners, d \in Backups : \A a \in stored'[d] :
        Holds(q, d, a) => Holds(q, d, a)'
  BY <1>1 DEF Holds
<1>3. QED
  BY <1>2, SettledKept

LEMMA StepSettles ==
  ASSUME TypeOK, SecretInv, NoLateFailure, SettledInv, "post" \notin Faults,
         NEW r \in Runners, Step(r) \/ Raise(r)
  PROVE  SettledInv'
<1>1. PICK b \in Backups : b = runs[r].row /\ runs[r].at # "idle"
  BY BusyRunHasRow DEF Step, Raise, Report, Store, Finish, Conclude, Discard, FailRun,
       Requeue, EndCommand, BuildSteps
<1>2. CASE Report(r)
  BY <1>2, SettledGo DEF Report
<1>3. CASE Store(r)
  <2>1. /\ stored' = [stored EXCEPT ![b] = stored[b] \cup {runs[r].att}]
        /\ Goto(r, "stored") /\ runs[r].at = "storing" /\ rows' = rows /\ deleting' = deleting
    BY <1>1, <1>3 DEF Store
  <2>2. /\ runs'[r].at = "stored" /\ runs'[r].row = b /\ runs'[r].att = runs[r].att
        /\ \A q \in Runners : q # r => runs'[q] = runs[q]
    BY <1>1, <2>1, GotoMoves
  <2>3. \A d \in Backups : \A a \in stored'[d] :
          a \in stored[d] \/ (d = b /\ a = runs[r].att)
    BY <2>1 DEF TypeOK
  <2>4. ASSUME NEW d \in Backups, NEW a \in stored'[d]
        PROVE  Kept(d, a)' \/ \E q \in Runners : Holds(q, d, a)'
    <3>1. CASE a \in stored[d]
      <4>1. Kept(d, a) \/ \E q \in Runners : Holds(q, d, a)
        BY <3>1 DEF SettledInv
      <4>2. Kept(d, a) => Kept(d, a)'
        BY <2>1 DEF Kept
      <4>3. \A q \in Runners : Holds(q, d, a) => Holds(q, d, a)'
        BY <2>1, <2>2 DEF Holds
      <4>4. QED
        BY <4>1, <4>2, <4>3
    <3>2. CASE d = b /\ a = runs[r].att
      BY <2>2, <3>2 DEF Holds
    <3>3. QED
      BY <2>3, <2>4, <3>1, <3>2
  <2>5. QED
    BY <2>1, <2>4 DEF SettledInv
<1>4. CASE Finish(r)
  <2>1. CASE rows[b].status = "running"
    <3> DEFINE row == [rows[b] EXCEPT !.status = "completed", !.next = "none",
                                      !.stale = FALSE, !.file = runs[r].att]
    <3>1. /\ rows' = [rows EXCEPT ![b] = row] /\ Goto(r, "finished")
          /\ stored' = stored /\ deleting' = deleting
      BY <1>1, <1>4, <2>1 DEF Finish
    <3>2. row.status = "completed" /\ row.file = runs[r].att
      BY DEF TypeOK, Row
    <3> HIDE DEF row
    <3>3. rows'[b] = row /\ \A d \in Backups : d # b => rows'[d] = rows[d]
      BY <3>1 DEF TypeOK
    <3>4. \A q \in Runners : q # r => runs'[q] = runs[q]
      BY <3>1, GotoMoves
    <3>5. \A q \in Runners, d \in Backups : \A a \in stored'[d] :
            Holds(q, d, a) => Kept(d, a)' \/ Holds(q, d, a)'
      BY <1>1, <3>2, <3>3, <3>4 DEF Holds, Kept
    <3>6. QED
      BY <2>1, <3>1, <3>3, <3>5, SettledKept
  <2>2. CASE rows[b].status # "running"
    BY <1>1, <1>4, <2>2, SettledGo DEF Finish
  <2>3. QED
    BY <2>1, <2>2
<1>5. CASE Conclude(r) \/ Requeue(r)
  BY <1>5, SettledGo DEF Conclude, Requeue
<1>6. CASE Discard(r)
  <2>1. /\ stored' = [stored EXCEPT ![b] = stored[b] \ {runs[r].att}]
        /\ rows' = rows /\ deleting' = deleting /\ \E step : Goto(r, step)
    BY <1>1, <1>6 DEF Discard
  <2>2. \A q \in Runners : q # r => runs'[q] = runs[q]
    BY <2>1, GotoMoves
  <2>3. /\ \A d \in Backups : stored'[d] \subseteq stored[d]
        /\ runs[r].att \notin stored'[b]
    BY <2>1 DEF TypeOK
  <2>4. \A q \in Runners, d \in Backups : \A a \in stored'[d] :
          Holds(q, d, a) => Holds(q, d, a)'
    BY <1>1, <2>2, <2>3 DEF Holds
  <2>5. QED
    BY <2>1, <2>3, <2>4, SettledKept
<1>7. CASE FailRun(r)
  <2>1. /\ \A d \in Backups : d # b => rows'[d] = rows[d]
        /\ runs[r].at = "failing" /\ stored' = stored /\ deleting' = deleting
        /\ \E step : Goto(r, step)
    BY <1>1, <1>7, FailsOutcome DEF FailRun
  <2>2. rows[b].status # "completed"
    BY <1>1, <2>1 DEF NoLateFailure
  <2>3. \A q \in Runners : q # r => runs'[q] = runs[q]
    BY <2>1, GotoMoves
  <2>4. QED
    BY <2>1, <2>2, <2>3, SettledWrite
<1>8. CASE EndCommand(r)
  <2>1. /\ \E new : rows' = [rows EXCEPT ![b] = new]
        /\ rows[b].status # "pending" => rows' = [rows EXCEPT ![b] = rows[b]]
        /\ runs[r].at = "tail" /\ stored' = stored /\ deleting' = deleting /\ Goto(r, "idle")
    BY <1>1, <1>8 DEF EndCommand
  <2>2. CASE rows[b].status = "pending"
    <3>1. \A d \in Backups : d # b => rows'[d] = rows[d]
      BY <2>1 DEF TypeOK
    <3>2. \A q \in Runners : q # r => runs'[q] = runs[q]
      BY <2>1, GotoMoves
    <3>3. QED
      BY <2>1, <2>2, <3>1, <3>2, SettledWrite
  <2>3. CASE rows[b].status # "pending"
    <3>1. rows' = rows
      BY <2>1, <2>3 DEF TypeOK
    <3>2. QED
      BY <2>1, <3>1, SettledGo
  <2>4. QED
    BY <2>2, <2>3
<1>9. CASE Raise(r)
  BY <1>9, SettledGo DEF Raise
<1>10. QED
  BY <1>2, <1>3, <1>4, <1>5, <1>6, <1>7, <1>8, <1>9 DEF Step

LEMMA NextSettles ==
  ASSUME TypeOK, SecretInv, NoLateFailure, SettledInv,
         Faults \cap {"crash", "post", "delete"} = {}, [Next]_vars
  PROVE  SettledInv'
<1>1. ASSUME NEW b \in Backups, NEW new, rows' = [rows EXCEPT ![b] = new],
             rows[b].status # "completed", runs' = runs, stored' = stored,
             deleting' = deleting
      PROVE  SettledInv'
  <2>1. \A d \in Backups : d # b => rows'[d] = rows[d]
    BY <1>1 DEF TypeOK
  <2>2. QED
    BY <1>1, <2>1, SettledWrite
<1>2. ASSUME \A b \in Backups : rows'[b].status = rows[b].status /\ rows'[b].file = rows[b].file,
             runs' = runs, stored' = stored, deleting' = deleting
      PROVE  SettledInv'
  <2>1. \A r \in Runners, b \in Backups : \A a \in stored'[b] : Holds(r, b, a) => Holds(r, b, a)'
    BY <1>2 DEF Holds
  <2>2. QED
    BY <1>2, <2>1, SettledKept
<1>3. CASE Create \/ \E p \in Sweepers, b \in Backups : CreateScheduled(p, b)
  <2>1. PICK b \in Backups : /\ rows[b].status = "none"
                             /\ \E new : rows' = [rows EXCEPT ![b] = new]
                             /\ runs' = runs /\ stored' = stored /\ deleting' = deleting
    BY <1>3 DEF Create, CreateManual, CreateForUpdate, CreateScheduled
  <2>2. QED
    BY <1>1, <2>1
<1>4. CASE \E b \in Backups : Deliver(b)
  <2>1. PICK r \in Runners, c \in calls : Claim(r, c) \/ Pass(r, c)
    BY <1>4 DEF Deliver
  <2>2. /\ runs[r].at = "idle" /\ stored' = stored /\ deleting' = deleting
        /\ c.row \in Backups /\ \E run : runs' = [runs EXCEPT ![r] = run]
        /\ \E new : rows' = [rows EXCEPT ![c.row] = new]
        /\ rows[c.row].status = "completed" => rows' = rows
    BY <2>1 DEF Claim, Claimable, Pass, TypeOK, Call
  <2>3. \A q \in Runners : q # r => runs'[q] = runs[q]
    BY <2>2 DEF TypeOK
  <2>4. CASE rows[c.row].status = "completed"
    <3>1. \A q \in Runners, b \in Backups : \A a \in stored'[b] :
            Holds(q, b, a) => Holds(q, b, a)'
      BY <2>2, <2>3 DEF Holds
    <3>2. QED
      BY <2>2, <2>4, <3>1, SettledKept
  <2>5. CASE rows[c.row].status # "completed"
    <3>1. \A d \in Backups : d # c.row => rows'[d] = rows[d]
      BY <2>2 DEF TypeOK
    <3>2. QED
      BY <2>2, <2>3, <2>5, <3>1, SettledWrite
  <2>6. QED
    BY <2>4, <2>5
<1>5. CASE \E r \in Runners : Step(r) \/ Raise(r) \/ Crash(r)
  BY <1>5, StepSettles DEF Crash
<1>6. ASSUME NEW p \in Sweepers, Pace(p) PROVE SettledInv'
  <2>1. CASE (\E kind \in {"page", "beat"} : SweepStart(p, kind)) \/ SweepEnd(p)
    BY <1>2, <2>1 DEF SweepStart, SweepEnd
  <2>2. CASE \E b \in Backups : SweepFail(p, b)
    <3>1. PICK b \in Backups : SweepFail(p, b)
      BY <2>2
    <3>2. /\ rows[b].status # "completed" /\ runs' = runs /\ stored' = stored
          /\ deleting' = deleting /\ Fails(b, sweeps[p].seen[b], FALSE, TRUE)
      BY <3>1 DEF SweepFail, NoLateFailure
    <3>3. \E new : rows' = [rows EXCEPT ![b] = new]
      BY <3>2 DEF Fails
    <3>4. QED
      BY <1>1, <3>2, <3>3
  <2>3. CASE \E b \in Backups : DispatchDue(p, b)
    <3>1. PICK b \in Backups : DispatchDue(p, b)
      BY <2>3
    <3>2. /\ rows[b].status = "pending" /\ runs' = runs /\ stored' = stored
          /\ deleting' = deleting /\ \E new : rows' = [rows EXCEPT ![b] = new]
      BY <3>1 DEF DispatchDue, Due
    <3>3. QED
      BY <1>1, <3>2
  <2>4. QED
    BY <1>6, <2>1, <2>2, <2>3 DEF Pace
<1>7. ASSUME NEW b \in Backups,
             \/ Resume(b) \/ Cancel(b) \/ DeleteRead(b) \/ DeleteRow(b)
             \/ BecomeDue(b) \/ BecomeStale(b)
      PROVE  SettledInv'
  <2>1. ~DeleteRead(b) /\ ~DeleteRow(b)
    BY DEF DeleteRead, DeleteRow, SettledInv
  <2>2. CASE Resume(b) \/ Cancel(b)
    <3>1. /\ rows[b].status # "completed" /\ runs' = runs /\ stored' = stored
          /\ deleting' = deleting /\ \E new : rows' = [rows EXCEPT ![b] = new]
      BY <2>2 DEF Resume, Cancel, Active, ActiveStatuses
    <3>2. QED
      BY <1>1, <3>1
  <2>3. CASE BecomeDue(b) \/ BecomeStale(b)
    <3> DEFINE due == [rows[b] EXCEPT !.next = "due"]
               old == [rows[b] EXCEPT !.stale = TRUE]
    <3>1. /\ rows' = [rows EXCEPT ![b] = due] \/ rows' = [rows EXCEPT ![b] = old]
          /\ runs' = runs /\ stored' = stored /\ deleting' = deleting
      BY <2>3 DEF BecomeDue, BecomeStale
    <3>2. /\ due.status = rows[b].status /\ due.file = rows[b].file
          /\ old.status = rows[b].status /\ old.file = rows[b].file
      BY DEF TypeOK, Row
    <3> HIDE DEF due, old
    <3>3. \A d \in Backups : rows'[d].status = rows[d].status /\ rows'[d].file = rows[d].file
      BY <3>1, <3>2 DEF TypeOK
    <3>4. QED
      BY <1>2, <3>1, <3>3
  <2>4. QED
    BY <1>7, <2>1, <2>2, <2>3
<1>8. CASE (\E c \in calls : LoseCall(c)) \/ UNCHANGED vars
  BY <1>2, <1>8 DEF LoseCall, vars
<1>9. QED
  BY <1>3, <1>4, <1>5, <1>6, <1>7, <1>8 DEF Next

(* Whatever raises, is lost, delivered twice, swept or cancelled, while    *)
(* sweeps judge silence rightly: an attempt that fails or is cancelled     *)
(* takes its archive off storage, and no retry leaves one behind that is   *)
(* not the file of its row.  A killed runner does leave one, and so does a *)
(* delete that read a cancelled row, if the attempt still under way fails  *)
(* and its retry then completes.                                           *)
THEOREM FailuresLeaveNothing ==
  ASSUME Timely, Faults \cap {"crash", "post", "delete"} = {}
  PROVE  Spec => []NoOrphanArchive
<1>1. Init => SettledInv
  BY DEF Init, SettledInv
<1>2. Inv => TypeOK /\ SecretInv /\ NoLateFailure
  BY DEF Inv, EndInv, EndOf, NoLateFailure, Live, Aside, ActiveStatuses, SecretInv
<1>3. Inv /\ SettledInv /\ [Next]_vars => SettledInv'
  BY <1>2, NextSettles
<1>4. SettledInv => NoOrphanArchive
  BY DEF SettledInv, NoOrphanArchive, Kept, Holds
<1>5. Spec => []Inv
  BY EndsInductive
<1>6. QED
  BY <1>1, <1>3, <1>4, <1>5, PTL DEF Spec

-----------------------------------------------------------------------------
(* The life of a row.                                                      *)

Phase == [b \in Backups |-> rows[b].status]
Tries == [b \in Backups |-> rows[b].attempts]
Archived == {b \in Backups : rows[b].file \in stored[b]}

(* The reader of the Backup page sees one row change, or none.             *)
LEMMA OneRowShows ==
  ASSUME NEW b \in Backups,
         \A d \in Backups : d # b => rows'[d] = rows[d] /\ stored'[d] = stored[d]
  PROVE  /\ Phase' = [Phase EXCEPT ![b] = rows'[b].status]
         /\ rows'[b].attempts = rows[b].attempts => Tries' = Tries
         /\ Tries' = [Tries EXCEPT ![b] = rows'[b].attempts]
         /\ rows'[b].file = rows[b].file /\ stored'[b] = stored[b] => Archived' = Archived
         /\ rows'[b].file \in stored'[b] => Archived' = Archived \cup {b}
         /\ rows'[b].file \notin stored'[b] => Archived' = Archived \ {b}
BY DEF Phase, Tries, Archived

LEMMA NoRowShows ==
  ASSUME \A d \in Backups : /\ rows'[d].status = rows[d].status
                            /\ rows'[d].attempts = rows[d].attempts
                            /\ rows'[d].file \in stored'[d] <=> rows[d].file \in stored[d]
  PROVE  Phase' = Phase /\ Tries' = Tries /\ Archived' = Archived
BY DEF Phase, Tries, Archived

(* The steps of the life, as this module reads them.                       *)
LEMMA LifeSteps ==
  ASSUME NEW b \in Backups,
         \/ /\ \/ Phase[b] = "none" /\ Phase' = [Phase EXCEPT ![b] = "pending"]
               \/ /\ Phase[b] = "running" /\ Phase' = [Phase EXCEPT ![b] = "pending"]
                  /\ Tries[b] < MaxAttempts
               \/ Phase[b] \in ActiveStatuses /\ Phase' = [Phase EXCEPT ![b] = "failed"]
               \/ Phase[b] \in ActiveStatuses /\ Phase' = [Phase EXCEPT ![b] = "cancelled"]
            /\ Tries' = Tries /\ Archived' = Archived
         \/ /\ Phase[b] = "pending" /\ Phase' = [Phase EXCEPT ![b] = "running"]
            /\ Tries' = [Tries EXCEPT ![b] = Tries[b] + 1] /\ Archived' = Archived
         \/ /\ Phase[b] = "running" /\ Phase' = [Phase EXCEPT ![b] = "completed"]
            /\ Archived' = Archived \cup {b} /\ Tries' = Tries
         \/ /\ Phase[b] \in Ended /\ Phase' = [Phase EXCEPT ![b] = "gone"]
            /\ Archived' = Archived \ {b} /\ Tries' = Tries
  PROVE  Lifecycle!Next
<1>1. \/ Lifecycle!Request(b) \/ Lifecycle!Attempt(b) \/ Lifecycle!Retry(b) \/ Lifecycle!Keep(b)
      \/ Lifecycle!Fail(b) \/ Lifecycle!Cancel(b) \/ Lifecycle!Delete(b)
  BY DEF Lifecycle!Request, Lifecycle!Attempt, Lifecycle!Retry, Lifecycle!Keep, Lifecycle!Fail,
     Lifecycle!Cancel, Lifecycle!Delete, Lifecycle!Moves, Phase, Tries, Archived, ActiveStatuses,
     Ended
<1>2. QED
  BY <1>1 DEF Lifecycle!Next

Lives == Lifecycle!Next \/ (Phase' = Phase /\ Tries' = Tries /\ Archived' = Archived)

(* fail_system_backup ends an attempt under way, or schedules the next     *)
(* while attempts are left.                                                *)
LEMMA FailsLives ==
  ASSUME TypeOK, NEW b \in Backups, NEW inHand, NEW retryable,
         Fails(b, rows[b].attempts, inHand, retryable), stored' = stored,
         rows[b].status \in ActiveStatuses
  PROVE  Lives
<1>1. /\ \A d \in Backups : d # b => rows'[d] = rows[d]
      /\ rows'[b].attempts = rows[b].attempts /\ rows'[b].file = rows[b].file
      /\ \/ rows'[b].status = "failed"
         \/ rows'[b].status = "pending" /\ rows[b].attempts < MaxAttempts
  BY FailsOutcome DEF ActiveStatuses
<1>2. /\ Phase' = [Phase EXCEPT ![b] = rows'[b].status]
      /\ Tries' = Tries /\ Archived' = Archived
  BY <1>1, OneRowShows
<1>3. Phase[b] = rows[b].status /\ Tries[b] = rows[b].attempts
  BY DEF Phase, Tries
<1>4. CASE rows[b].status = "pending" /\ rows'[b].status = "pending"
  <2>1. \A d \in Backups : rows'[d].status = rows[d].status
    BY <1>1, <1>4
  <2>2. QED
    BY <1>2, <2>1 DEF Phase, Lives
<1>5. CASE rows[b].status = "running" /\ rows'[b].status = "pending"
  BY <1>1, <1>2, <1>3, <1>5, LifeSteps DEF Lives
<1>6. CASE rows'[b].status = "failed"
  BY <1>2, <1>3, <1>6, LifeSteps DEF Lives
<1>7. QED
  BY <1>1, <1>4, <1>5, <1>6 DEF ActiveStatuses

LEMMA CreateLives ==
  ASSUME Inv, NEW b \in Backups, rows[b].status = "none", NEW trigger, NEW secret,
         rows' = [rows EXCEPT ![b] = NewRow(trigger, secret)], stored' = stored
  PROVE  Lives
<1>1. /\ NewRow(trigger, secret).status = "pending"
      /\ NewRow(trigger, secret).attempts = 0 /\ NewRow(trigger, secret).file = 0
  BY DEF NewRow, NoRow, NoFile
<1>2. /\ rows'[b] = NewRow(trigger, secret)
      /\ \A d \in Backups : d # b => rows'[d] = rows[d]
  BY DEF Inv, TypeOK
<1>3. rows[b].attempts = 0 /\ rows[b].file = 0
  BY DEF Inv, EndInv, EndOf
<1>4. /\ Phase' = [Phase EXCEPT ![b] = "pending"]
      /\ Tries' = Tries /\ Archived' = Archived
  BY <1>1, <1>2, <1>3, OneRowShows
<1>5. Phase[b] = "none"
  BY DEF Phase
<1>6. QED
  BY <1>4, <1>5, LifeSteps DEF Lives

LEMMA ClaimLives ==
  ASSUME Inv, NEW r \in Runners, NEW c \in calls, Claim(r, c)
  PROVE  Lives
<1>1. PICK b \in Backups : b = c.row
  BY DEF Inv, TypeOK, Call
<1> DEFINE row == [rows[b] EXCEPT !.status = "running", !.attempts = rows[b].attempts + 1,
                                  !.next = "none", !.stale = FALSE]
<1>2. rows' = [rows EXCEPT ![b] = row] /\ stored' = stored /\ rows[b].status = "pending"
  BY <1>1 DEF Claim, Claimable
<1>3. /\ row.status = "running" /\ row.attempts = rows[b].attempts + 1
      /\ row.file = rows[b].file
  BY DEF Inv, TypeOK, Row
<1> HIDE DEF row
<1>4. rows'[b] = row /\ \A d \in Backups : d # b => rows'[d] = rows[d]
  BY <1>2 DEF Inv, TypeOK
<1>5. /\ Phase' = [Phase EXCEPT ![b] = "running"]
      /\ Tries' = [Tries EXCEPT ![b] = rows[b].attempts + 1] /\ Archived' = Archived
  BY <1>2, <1>3, <1>4, OneRowShows
<1>6. Phase[b] = "pending" /\ Tries[b] = rows[b].attempts
  BY <1>2 DEF Phase, Tries
<1>7. QED
  BY <1>5, <1>6, LifeSteps DEF Lives

LEMMA StepLives ==
  ASSUME Inv, Faults \cap {"cancel", "post"} = {}, NEW r \in Runners, Step(r)
  PROVE  Lives
<1> DEFINE b == runs[r].row
<1>1. CASE Report(r) \/ Conclude(r) \/ Requeue(r)
  <2>1. rows' = rows /\ stored' = stored
    BY <1>1 DEF Report, Conclude, Requeue
  <2>2. QED
    BY <2>1, NoRowShows DEF Lives
<1>2. CASE Store(r) \/ Discard(r)
  <2>1. /\ rows' = rows /\ runs[r].at \in {"storing", "dropping", "undoing"}
        /\ \/ stored' = [stored EXCEPT ![b] = stored[b] \cup {runs[r].att}]
           \/ stored' = [stored EXCEPT ![b] = stored[b] \ {runs[r].att}]
    BY <1>2 DEF Store, Discard
  <2>2. b \in Backups
    BY <2>1, BusyRunHasRow DEF Inv
  <2>3. rows[b].file # runs[r].att
    BY <2>1 DEF Inv, ArchiveInv, BuildSteps
  <2>4. \A d \in Backups : d # b => stored'[d] = stored[d]
    BY <2>1 DEF Inv, TypeOK
  <2>5. stored'[b] = stored[b] \cup {runs[r].att} \/ stored'[b] = stored[b] \ {runs[r].att}
    BY <2>1, <2>2 DEF Inv, TypeOK
  <2>6. QED
    BY <2>1, <2>3, <2>4, <2>5, NoRowShows DEF Lives
<1>3. CASE Finish(r)
  <2> DEFINE row == [rows[b] EXCEPT !.status = "completed", !.next = "none",
                                    !.stale = FALSE, !.file = runs[r].att]
  <2>1. runs[r].at = "stored" /\ stored' = stored
    BY <1>3 DEF Finish
  <2>2. b \in Backups
    BY <2>1, BusyRunHasRow DEF Inv
  <2>3. CASE rows[b].status # "running"
    BY <1>3, <2>1, <2>3, NoRowShows DEF Finish, Lives
  <2>4. CASE rows[b].status = "running"
    <3>1. rows' = [rows EXCEPT ![b] = row]
      BY <1>3, <2>4 DEF Finish
    <3>2. row.status = "completed" /\ row.file = runs[r].att /\ row.attempts = rows[b].attempts
      BY <2>2 DEF Inv, TypeOK, Row
    <3> HIDE DEF row
    <3>3. rows'[b] = row /\ \A d \in Backups : d # b => rows'[d] = rows[d]
      BY <2>2, <3>1 DEF Inv, TypeOK
    <3>4. rows'[b].file \in stored'[b]
      BY <2>1, <2>4, <3>2, <3>3 DEF Inv, ArchiveInv
    <3>5. /\ Phase' = [Phase EXCEPT ![b] = "completed"]
          /\ Tries' = Tries /\ Archived' = Archived \cup {b}
      BY <2>1, <2>2, <3>2, <3>3, <3>4, OneRowShows
    <3>6. Phase[b] = "running"
      BY <2>2, <2>4 DEF Phase
    <3>7. QED
      BY <2>2, <3>5, <3>6, LifeSteps DEF Lives
  <2>5. QED
    BY <2>3, <2>4
<1>4. CASE FailRun(r)
  <2>1. runs[r].at = "failing" /\ stored' = stored /\ Live(r)
    BY <1>4 DEF FailRun, Live
  <2>2. b \in Backups
    BY <2>1, BusyRunHasRow DEF Inv
  <2>3. runs[r].att = rows[b].attempts /\ rows[b].status = "running"
    BY <2>1, <2>2 DEF Inv, OwnerInv, EndInv, EndOf, Aside
  <2>4. QED
    BY <1>4, <2>1, <2>2, <2>3, FailsLives DEF FailRun, Inv, ActiveStatuses
<1>5. CASE EndCommand(r)
  <2> DEFINE cancelled == [rows[b] EXCEPT !.status = "cancelled", !.next = "none", !.stale = FALSE]
  <2>1. /\ runs[r].at = "tail" /\ stored' = stored
        /\ rows' = [rows EXCEPT ![b] = IF rows[b].status # "pending" THEN rows[b] ELSE cancelled]
    BY <1>5 DEF EndCommand
  <2>2. b \in Backups
    BY <2>1, BusyRunHasRow DEF Inv
  <2>3. CASE rows[b].status # "pending"
    <3>1. rows' = rows
      BY <2>1, <2>3 DEF Inv, TypeOK
    <3>2. QED
      BY <2>1, <3>1, NoRowShows DEF Lives
  <2>4. CASE rows[b].status = "pending"
    <3>1. /\ cancelled.status = "cancelled" /\ cancelled.file = rows[b].file
          /\ cancelled.attempts = rows[b].attempts
      BY <2>2 DEF Inv, TypeOK, Row
    <3> HIDE DEF cancelled
    <3>2. rows'[b] = cancelled /\ \A d \in Backups : d # b => rows'[d] = rows[d]
      BY <2>1, <2>2, <2>4 DEF Inv, TypeOK
    <3>3. /\ Phase' = [Phase EXCEPT ![b] = "cancelled"]
          /\ Tries' = Tries /\ Archived' = Archived
      BY <2>1, <2>2, <3>1, <3>2, OneRowShows
    <3>4. Phase[b] \in ActiveStatuses
      BY <2>2, <2>4 DEF Phase, ActiveStatuses
    <3>5. QED
      BY <2>2, <3>3, <3>4, LifeSteps DEF Lives
  <2>5. QED
    BY <2>3, <2>4
<1>6. QED
  BY <1>1, <1>2, <1>3, <1>4, <1>5 DEF Step

LEMMA OthersLive ==
  ASSUME Inv, Timely, Faults \cap {"cancel", "post"} = {}, NEW b \in Backups,
         \/ Resume(b) \/ Cancel(b) \/ DeleteRead(b) \/ DeleteRow(b)
         \/ BecomeDue(b) \/ BecomeStale(b)
         \/ \E p \in Sweepers : SweepFail(p, b) \/ DispatchDue(p, b)
  PROVE  Lives
<1>1. ~Resume(b) /\ ~Cancel(b)
  BY DEF Resume, Cancel, Timely, Inv, TypeOK
<1>2. CASE DeleteRead(b)
  BY <1>2, NoRowShows DEF DeleteRead, Lives
<1>3. CASE DeleteRow(b)
  <2> DEFINE new == [rows[b] EXCEPT !.status = "gone", !.next = "none"]
  <2>1. /\ rows' = [rows EXCEPT ![b] = new] /\ deleting[b] # Unread
        /\ stored' = [stored EXCEPT ![b] = stored[b] \ {deleting[b]}]
    BY <1>3 DEF DeleteRow
  <2>2. new.status = "gone" /\ new.file = rows[b].file /\ new.attempts = rows[b].attempts
    BY DEF Inv, TypeOK, Row
  <2> HIDE DEF new
  <2>3. /\ rows'[b] = new /\ stored'[b] = stored[b] \ {deleting[b]}
        /\ \A d \in Backups : d # b => rows'[d] = rows[d] /\ stored'[d] = stored[d]
    BY <2>1 DEF Inv, TypeOK
  <2>4. rows[b].status \in Ended /\ deleting[b] = rows[b].file
    BY <2>1 DEF Inv, EndInv, EndOf
  <2>5. /\ Phase' = [Phase EXCEPT ![b] = "gone"]
        /\ Tries' = Tries /\ Archived' = Archived \ {b}
    BY <2>2, <2>3, <2>4, OneRowShows
  <2>6. Phase[b] \in Ended
    BY <2>4 DEF Phase
  <2>7. QED
    BY <2>5, <2>6, LifeSteps DEF Lives
<1>4. CASE BecomeDue(b) \/ BecomeStale(b) \/ \E p \in Sweepers : DispatchDue(p, b)
  <2> DEFINE due == [rows[b] EXCEPT !.next = "due"]
             old == [rows[b] EXCEPT !.stale = TRUE]
             off == [rows[b] EXCEPT !.next = "none"]
  <2>1. /\ \/ rows' = [rows EXCEPT ![b] = due] \/ rows' = [rows EXCEPT ![b] = old]
           \/ rows' = [rows EXCEPT ![b] = off]
        /\ stored' = stored
    BY <1>4 DEF BecomeDue, BecomeStale, DispatchDue
  <2>2. \A new \in {due, old, off} : /\ new.status = rows[b].status /\ new.file = rows[b].file
                                     /\ new.attempts = rows[b].attempts
    BY DEF Inv, TypeOK, Row
  <2> HIDE DEF due, old, off
  <2>3. rows'[b] \in {due, old, off} /\ \A d \in Backups : d # b => rows'[d] = rows[d]
    BY <2>1 DEF Inv, TypeOK
  <2>4. QED
    BY <2>1, <2>2, <2>3, NoRowShows DEF Lives
<1>5. CASE \E p \in Sweepers : SweepFail(p, b)
  <2>1. PICK p \in Sweepers : SweepFail(p, b)
    BY <1>5
  <2>2. /\ Fails(b, sweeps[p].seen[b], FALSE, TRUE) /\ stored' = stored
        /\ sweeps[p].seen[b] # Unseen
    BY <2>1 DEF SweepFail
  <2>3. sweeps[p].seen[b] = rows[b].attempts /\ rows[b].status \in ActiveStatuses
    BY <2>2 DEF Inv, OwnerInv, EndInv, EndOf, Aside
  <2>4. QED
    BY <2>2, <2>3, FailsLives DEF Inv
<1>6. QED
  BY <1>1, <1>2, <1>3, <1>4, <1>5

LEMMA NextLives ==
  ASSUME Inv, Timely, Faults \cap {"cancel", "post"} = {}, [Next]_vars
  PROVE  Lives
<1>1. CASE Create \/ \E p \in Sweepers, b \in Backups : CreateScheduled(p, b)
  <2>1. ASSUME NEW b \in Backups, NEW secret \in BOOLEAN, CreateManual(b, secret)
        PROVE  Lives
    BY <2>1, CreateLives DEF CreateManual
  <2>2. ASSUME NEW b \in Backups, NEW via \in Vias, CreateForUpdate(b, via)
        PROVE  Lives
    BY <2>2, CreateLives DEF CreateForUpdate
  <2>3. ASSUME NEW b \in Backups, NEW p \in Sweepers, CreateScheduled(p, b)
        PROVE  Lives
    BY <2>3, CreateLives DEF CreateScheduled
  <2>4. QED
    BY <1>1, <2>1, <2>2, <2>3 DEF Create
<1>2. CASE \E b \in Backups : Deliver(b)
  <2>1. PICK r \in Runners, c \in calls : Claim(r, c) \/ Pass(r, c)
    BY <1>2 DEF Deliver
  <2>2. CASE Claim(r, c)
    BY <2>2, ClaimLives
  <2>3. CASE Pass(r, c)
    BY <2>3, NoRowShows DEF Pass, Lives
  <2>4. QED
    BY <2>1, <2>2, <2>3
<1>3. CASE \E r \in Runners : Step(r)
  BY <1>3, StepLives
<1>4. CASE \/ \E r \in Runners : Raise(r) \/ Crash(r)
           \/ \E p \in Sweepers : \/ \E kind \in {"page", "beat"} : SweepStart(p, kind)
                                  \/ SweepEnd(p)
           \/ \E c \in calls : LoseCall(c)
           \/ UNCHANGED vars
  <2>1. rows' = rows /\ stored' = stored
    BY <1>4 DEF Raise, Crash, SweepStart, SweepEnd, LoseCall, vars
  <2>2. QED
    BY <2>1, NoRowShows DEF Lives
<1>5. CASE \E b \in Backups :
             \/ Resume(b) \/ Cancel(b) \/ DeleteRead(b) \/ DeleteRow(b)
             \/ BecomeDue(b) \/ BecomeStale(b)
             \/ \E p \in Sweepers : SweepFail(p, b) \/ DispatchDue(p, b)
  BY <1>5, OthersLive
<1>6. QED
  BY <1>1, <1>2, <1>3, <1>4, <1>5 DEF Next, Pace

LEMMA LifeBegins == Init => Lifecycle!Init
BY DEF Init, Lifecycle!Init, NoRow, NoFile

(* Whatever crashes, raises, is lost, delivered twice or deleted, a row    *)
(* goes through the one life the Backup page shows of it: waiting, then    *)
(* one counted attempt after another while attempts are left, then kept    *)
(* with an archive, failed, or ended by the command that could not keep it. *)
THEOREM ImplementsTheLifecycle ==
  ASSUME Timely, Faults \cap {"cancel", "post"} = {}
  PROVE  Spec => FollowsTheLifecycle
<1>1. Inv /\ [Next]_vars => [Lifecycle!Next]_(Lifecycle!lifecycle)
  BY NextLives DEF Lives, Lifecycle!lifecycle, Phase, Tries, Archived
<1>2. "post" \notin Faults
  OBVIOUS
<1>3. Spec => []Inv
  BY <1>2, EndsInductive
<1>4. QED
  BY <1>1, <1>3, LifeBegins, PTL DEF Spec, FollowsTheLifecycle, Lifecycle!Spec

-----------------------------------------------------------------------------
(* The operator against the runs: nothing fails, the operator cancels and  *)
(* resumes whenever the page offers it.                                    *)

(* Builds do not fail, runners and queued calls are not lost, nothing is   *)
(* deleted, and a stored archive is not mistaken for silence.              *)
Smooth == Faults \cap {"crash", "error", "post", "lost", "silence", "delete"} = {}

(* Then a pending row has its call and a running row the run that claimed  *)
(* it last, so that no sweep ever finds a row to fail; and an archive is   *)
(* the file of a completed row, or its run still has to settle it.         *)
SmoothInv ==
  /\ \A b \in Backups : /\ rows[b].next = "none" /\ ~rows[b].stale
                        /\ rows[b].status # "gone" /\ deleting[b] = Unread
  /\ \A b \in Backups : rows[b].status = "pending" => \E c \in calls : c.row = b
  /\ \A b \in Backups : rows[b].status = "running" =>
       \E r \in Runners : /\ runs[r].row = b /\ runs[r].att = rows[b].attempts
                          /\ runs[r].at \in BuildSteps
  /\ \A r \in Runners : runs[r].at \notin {"undoing", "failing"}
  /\ \A p \in Sweepers, b \in Backups : sweeps[p].seen[b] = Unseen
  /\ \A b \in Backups : \A a \in stored[b] :
       \/ rows[b].file = a /\ rows[b].status = "completed"
       \/ \E r \in Runners : /\ runs[r].row = b /\ runs[r].att = a
                            /\ runs[r].at \in {"stored", "dropping"}

(* Rows are asked for or cancelled, and runners stop that have nothing to  *)
(* settle.                                                                 *)
LEMMA SmoothKept ==
  ASSUME TypeOK, SmoothInv, stored' = stored, deleting' = deleting,
         \A p \in Sweepers, b \in Backups : sweeps'[p].seen[b] = Unseen,
         \A b \in Backups :
           \/ rows'[b] = rows[b]
           \/ /\ rows[b].status # "completed" /\ rows'[b].status \in {"pending", "cancelled"}
              /\ rows'[b].next = "none" /\ rows'[b].stale = FALSE,
         \A b \in Backups : rows'[b].status = "pending" => \E c \in calls' : c.row = b,
         \A r \in Runners :
           \/ runs'[r] = runs[r]
           \/ /\ runs[r].at \in {"idle", "tail", "finished"}
              /\ runs'[r].at \in {"idle", "tail"}
  PROVE  SmoothInv'
<1>1. \A b \in Backups : /\ rows'[b].next = "none" /\ ~rows'[b].stale
                         /\ rows'[b].status # "gone" /\ deleting'[b] = Unread
  BY DEF SmoothInv
<1>2. \A r \in Runners : runs[r].at \in BuildSteps \cup {"dropping"} => runs'[r] = runs[r]
  BY DEF BuildSteps
<1>3. \A b \in Backups : rows'[b].status = "running" =>
        \E r \in Runners : /\ runs'[r].row = b /\ runs'[r].att = rows'[b].attempts
                           /\ runs'[r].at \in BuildSteps
  <2> SUFFICES ASSUME NEW b \in Backups, rows'[b].status = "running"
               PROVE  \E r \in Runners : /\ runs'[r].row = b /\ runs'[r].att = rows'[b].attempts
                                         /\ runs'[r].at \in BuildSteps
    OBVIOUS
  <2>1. rows'[b] = rows[b]
    OBVIOUS
  <2>2. PICK r \in Runners : /\ runs[r].row = b /\ runs[r].att = rows[b].attempts
                             /\ runs[r].at \in BuildSteps
    BY <2>1 DEF SmoothInv
  <2>3. QED
    BY <1>2, <2>1, <2>2
<1>4. \A r \in Runners : runs'[r].at \notin {"undoing", "failing"}
  BY DEF SmoothInv
<1>5. \A b \in Backups : \A a \in stored'[b] :
        \/ rows'[b].file = a /\ rows'[b].status = "completed"
        \/ \E r \in Runners : /\ runs'[r].row = b /\ runs'[r].att = a
                             /\ runs'[r].at \in {"stored", "dropping"}
  <2> SUFFICES ASSUME NEW b \in Backups, NEW a \in stored[b],
                      ~(rows'[b].file = a /\ rows'[b].status = "completed")
               PROVE  \E r \in Runners : /\ runs'[r].row = b /\ runs'[r].att = a
                                         /\ runs'[r].at \in {"stored", "dropping"}
    OBVIOUS
  <2>1. ~(rows[b].file = a /\ rows[b].status = "completed")
    OBVIOUS
  <2>2. PICK r \in Runners : /\ runs[r].row = b /\ runs[r].att = a
                             /\ runs[r].at \in {"stored", "dropping"}
    BY <2>1 DEF SmoothInv
  <2>3. runs'[r] = runs[r]
    BY <2>2
  <2>4. QED
    BY <2>2, <2>3
<1>6. QED
  BY <1>1, <1>3, <1>4, <1>5 DEF SmoothInv, Unseen, Unread, BuildSteps

LEMMA SmoothClaim ==
  ASSUME TypeOK, SecretInv, SmoothInv, NEW r \in Runners, NEW c \in calls, Claim(r, c)
  PROVE  SmoothInv'
<1>1. PICK b \in Backups : b = c.row
  BY DEF TypeOK, Call
<1> DEFINE att == rows[b].attempts + 1
           row == [rows[b] EXCEPT !.status = "running", !.attempts = att,
                                  !.next = "none", !.stale = FALSE]
           run == [row |-> b, att |-> att, pass |-> c.pass, via |-> c.via,
                   at |-> IF rows[b].secret /\ ~c.pass THEN "failing" ELSE "building"]
<1>2. /\ rows' = [rows EXCEPT ![b] = row] /\ runs' = [runs EXCEPT ![r] = run]
      /\ sweeps' = sweeps /\ stored' = stored /\ deleting' = deleting
      /\ rows[b].status = "pending" /\ runs[r].at = "idle" /\ calls \ {c} \subseteq calls'
  BY <1>1 DEF Claim, Claimable, Delivered
<1>3. /\ row.status = "running" /\ row.next = "none" /\ row.stale = FALSE
      /\ row.attempts = att
  BY DEF TypeOK, Row
<1>4. run.at = "building" /\ run.row = b /\ run.att = att
  BY <1>1 DEF SecretInv
<1> HIDE DEF row, run, att
<1>5. rows'[b] = row /\ \A d \in Backups : d # b => rows'[d] = rows[d]
  BY <1>2 DEF TypeOK
<1>6. runs'[r] = run /\ \A q \in Runners : q # r => runs'[q] = runs[q]
  BY <1>2 DEF TypeOK
<1>7. \A d \in Backups : /\ rows'[d].next = "none" /\ ~rows'[d].stale
                         /\ rows'[d].status # "gone" /\ deleting'[d] = Unread
  BY <1>2, <1>3, <1>5 DEF SmoothInv
<1>8. \A d \in Backups : rows'[d].status = "pending" => \E e \in calls' : e.row = d
  <2> SUFFICES ASSUME NEW d \in Backups, d # b, rows[d].status = "pending"
               PROVE  \E e \in calls' : e.row = d
    BY <1>3, <1>5
  <2>1. PICK e \in calls : e.row = d
    BY DEF SmoothInv
  <2>2. QED
    BY <1>1, <1>2, <2>1
<1>9. \A d \in Backups : rows'[d].status = "running" =>
        \E q \in Runners : /\ runs'[q].row = d /\ runs'[q].att = rows'[d].attempts
                           /\ runs'[q].at \in BuildSteps
  <2> SUFFICES ASSUME NEW d \in Backups, rows'[d].status = "running"
               PROVE  \E q \in Runners : /\ runs'[q].row = d /\ runs'[q].att = rows'[d].attempts
                                         /\ runs'[q].at \in BuildSteps
    OBVIOUS
  <2>1. CASE d = b
    BY <1>3, <1>4, <1>5, <1>6, <2>1 DEF BuildSteps
  <2>2. CASE d # b
    <3>1. PICK q \in Runners : /\ runs[q].row = d /\ runs[q].att = rows[d].attempts
                               /\ runs[q].at \in BuildSteps
      BY <1>5, <2>2 DEF SmoothInv
    <3>2. runs'[q] = runs[q]
      BY <1>2, <1>6, <3>1 DEF BuildSteps
    <3>3. QED
      BY <1>5, <2>2, <3>1, <3>2
  <2>3. QED
    BY <2>1, <2>2
<1>10. \A q \in Runners : runs'[q].at \notin {"undoing", "failing"}
  BY <1>4, <1>6 DEF SmoothInv
<1>11. \A d \in Backups : \A a \in stored'[d] :
         \/ rows'[d].file = a /\ rows'[d].status = "completed"
         \/ \E q \in Runners : /\ runs'[q].row = d /\ runs'[q].att = a
                              /\ runs'[q].at \in {"stored", "dropping"}
  <2> SUFFICES ASSUME NEW d \in Backups, NEW a \in stored[d],
                      ~(rows'[d].file = a /\ rows'[d].status = "completed")
               PROVE  \E q \in Runners : /\ runs'[q].row = d /\ runs'[q].att = a
                                         /\ runs'[q].at \in {"stored", "dropping"}
    BY <1>2
  <2>1. ~(rows[d].file = a /\ rows[d].status = "completed")
    BY <1>2, <1>5
  <2>2. PICK q \in Runners : /\ runs[q].row = d /\ runs[q].att = a
                             /\ runs[q].at \in {"stored", "dropping"}
    BY <2>1 DEF SmoothInv
  <2>3. runs'[q] = runs[q]
    BY <1>2, <1>6, <2>2
  <2>4. QED
    BY <2>2, <2>3
<1>12. QED
  BY <1>2, <1>7, <1>8, <1>9, <1>10, <1>11 DEF SmoothInv, Unseen, Unread, BuildSteps

(* A build under way: the row keeps its status, or completes.              *)
LEMMA SmoothBuild ==
  ASSUME TypeOK, SecretInv, SmoothInv, NEW r \in Runners,
         Report(r) \/ Store(r) \/ Finish(r) \/ Discard(r)
  PROVE  SmoothInv'
<1>1. runs[r].at \in BuildSteps \cup {"dropping"} /\ calls' = calls /\ sweeps' = sweeps
      /\ deleting' = deleting
  BY DEF Report, Store, Finish, Discard, BuildSteps, SmoothInv
<1>2. PICK b \in Backups : b = runs[r].row
  BY <1>1, BusyRunHasRow DEF BuildSteps
<1> DEFINE att == runs[r].att
<1>3. \/ /\ runs'[r].at = "storing" /\ runs[r].at = "building" /\ rows[b].status = "running"
         /\ rows' = rows /\ stored' = stored
      \/ /\ runs'[r].at = "dropping" /\ runs[r].at \in {"building", "stored"}
         /\ rows[b].status # "running" /\ rows' = rows /\ stored' = stored
      \/ /\ runs'[r].at = "stored" /\ runs[r].at = "storing"
         /\ rows' = rows /\ stored' = [stored EXCEPT ![b] = stored[b] \cup {att}]
      \/ /\ runs'[r].at = "finished" /\ runs[r].at = "stored" /\ rows[b].status = "running"
         /\ stored' = stored
         /\ rows' = [rows EXCEPT ![b] = [rows[b] EXCEPT !.status = "completed",
              !.next = "none", !.stale = FALSE, !.file = att]]
      \/ /\ runs'[r].at \in {"idle", "tail"} /\ runs[r].at = "dropping"
         /\ rows' = rows /\ stored' = [stored EXCEPT ![b] = stored[b] \ {att}]
  <2>1. CASE Report(r)
    <3>1. \/ Goto(r, "storing") /\ rows[b].status = "running"
          \/ Goto(r, "dropping") /\ rows[b].status # "running"
      BY <1>2, <2>1 DEF Report
    <3>2. QED
      BY <2>1, <3>1, GotoMoves DEF Report
  <2>2. CASE Store(r)
    BY <1>2, <2>2, GotoMoves DEF Store
  <2>3. CASE Finish(r)
    <3>1. CASE rows[b].status = "running"
      BY <1>2, <2>3, <3>1, GotoMoves DEF Finish
    <3>2. CASE rows[b].status # "running"
      BY <1>2, <2>3, <3>2, GotoMoves DEF Finish
    <3>3. QED
      BY <3>1, <3>2
  <2>4. CASE Discard(r)
    <3>1. runs[r].at = "dropping" /\ Goto(r, AfterRun(runs[r].via))
          /\ AfterRun(runs[r].via) \in {"idle", "tail"}
      BY <1>1, <2>4 DEF Discard, AfterRun, BuildSteps
    <3>2. runs'[r].at \in {"idle", "tail"}
      BY <3>1, GotoMoves DEF Idle
    <3>3. QED
      BY <1>2, <2>4, <3>1, <3>2 DEF Discard
  <2>5. QED
    BY <2>1, <2>2, <2>3, <2>4
<1>4. /\ \A q \in Runners : q # r => runs'[q] = runs[q]
      /\ runs'[r].at \notin {"idle", "tail"} => runs'[r].row = b /\ runs'[r].att = att
  <2>1. PICK step : Goto(r, step)
    BY DEF Report, Store, Finish, Discard
  <2>2. QED
    BY <1>2, <2>1, GotoMoves DEF Idle
<1>5. /\ \A d \in Backups : d # b => rows'[d] = rows[d] /\ stored'[d] = stored[d]
      /\ \/ rows'[b] = rows[b]
         \/ /\ rows'[b].status = "completed" /\ rows'[b].next = "none"
            /\ rows'[b].stale = FALSE /\ rows'[b].file = att
            /\ runs'[r].at = "finished" /\ rows[b].status = "running"
      /\ runs'[r].at = "finished" => rows'[b].status = "completed" /\ rows'[b].file = att
      /\ runs'[r].at \in {"idle", "tail"} => att \notin stored'[b]
      /\ runs'[r].at \in {"storing", "dropping"} => stored'[b] = stored[b]
  <2> DEFINE row == [rows[b] EXCEPT !.status = "completed", !.next = "none",
                                    !.stale = FALSE, !.file = att]
  <2>1. /\ row.status = "completed" /\ row.next = "none" /\ row.stale = FALSE
        /\ row.file = att
    BY DEF TypeOK, Row
  <2> HIDE DEF row
  <2>2. \/ rows' = rows /\ runs'[r].at # "finished"
        \/ rows' = [rows EXCEPT ![b] = row] /\ runs'[r].at = "finished" /\ rows[b].status = "running"
    BY <1>3 DEF row
  <2>3. /\ \A d \in Backups : d # b => stored'[d] = stored[d]
        /\ runs'[r].at \in {"idle", "tail"} => att \notin stored'[b]
        /\ runs'[r].at \in {"storing", "dropping"} => stored'[b] = stored[b]
    BY <1>3 DEF TypeOK
  <2>4. rows \in [Backups -> Row]
    BY DEF TypeOK
  <2>5. QED
    BY <2>1, <2>2, <2>3, <2>4
<1> HIDE DEF att
<1>6. \A d \in Backups : /\ rows'[d].next = "none" /\ ~rows'[d].stale
                         /\ rows'[d].status # "gone" /\ deleting'[d] = Unread
  BY <1>1, <1>5 DEF SmoothInv
<1>7. \A d \in Backups : rows'[d].status = "pending" => \E c \in calls' : c.row = d
  BY <1>1, <1>5 DEF SmoothInv
<1>8. \A d \in Backups : rows'[d].status = "running" =>
        \E q \in Runners : /\ runs'[q].row = d /\ runs'[q].att = rows'[d].attempts
                           /\ runs'[q].at \in BuildSteps
  <2> SUFFICES ASSUME NEW d \in Backups, rows'[d].status = "running"
               PROVE  \E q \in Runners : /\ runs'[q].row = d /\ runs'[q].att = rows'[d].attempts
                                         /\ runs'[q].at \in BuildSteps
    OBVIOUS
  <2>1. rows'[d] = rows[d]
    BY <1>5
  <2>2. PICK q \in Runners : /\ runs[q].row = d /\ runs[q].att = rows[d].attempts
                             /\ runs[q].at \in BuildSteps
    BY <2>1 DEF SmoothInv
  <2>3. CASE q # r
    BY <1>4, <2>1, <2>2, <2>3
  <2>4. CASE q = r
    <3>1. d = b /\ rows[b].status = "running"
      BY <1>2, <2>1, <2>2, <2>4
    <3>2. runs'[r].at \in {"storing", "stored"}
      BY <1>3, <1>5, <2>1, <2>2, <2>4, <3>1 DEF BuildSteps
    <3>3. QED
      BY <1>4, <2>1, <2>2, <2>4, <3>1, <3>2 DEF BuildSteps, att
  <2>5. QED
    BY <2>3, <2>4
<1>9. \A q \in Runners : runs'[q].at \notin {"undoing", "failing"}
  BY <1>3, <1>4 DEF SmoothInv
<1>10. \A d \in Backups : \A a \in stored'[d] :
         \/ rows'[d].file = a /\ rows'[d].status = "completed"
         \/ \E q \in Runners : /\ runs'[q].row = d /\ runs'[q].att = a
                              /\ runs'[q].at \in {"stored", "dropping"}
  <2> SUFFICES ASSUME NEW d \in Backups, NEW a \in stored'[d],
                      ~(rows'[d].file = a /\ rows'[d].status = "completed")
               PROVE  \E q \in Runners : /\ runs'[q].row = d /\ runs'[q].att = a
                                         /\ runs'[q].at \in {"stored", "dropping"}
    OBVIOUS
  <2>1. CASE d = b /\ a = att
    <3>1. runs'[r].at \in {"stored", "dropping"} \/
            (runs'[r].at = "storing" /\ a \in stored[b] /\ rows' = rows)
      BY <1>3, <1>5, <2>1
    <3>2. CASE runs'[r].at \in {"stored", "dropping"}
      BY <1>4, <2>1, <3>2
    <3>3. CASE runs'[r].at = "storing" /\ a \in stored[b] /\ rows' = rows
      <4>1. PICK q \in Runners : /\ runs[q].row = d /\ runs[q].att = a
                                 /\ runs[q].at \in {"stored", "dropping"}
        BY <2>1, <3>3 DEF SmoothInv
      <4>2. q # r
        BY <1>3, <3>3, <4>1
      <4>3. QED
        BY <1>4, <4>1, <4>2
    <3>4. QED
      BY <3>1, <3>2, <3>3
  <2>2. CASE d # b \/ a # att
    <3>1. a \in stored[d] /\ ~(rows[d].file = a /\ rows[d].status = "completed")
      BY <1>3, <1>5, <2>2 DEF TypeOK
    <3>2. PICK q \in Runners : /\ runs[q].row = d /\ runs[q].att = a
                               /\ runs[q].at \in {"stored", "dropping"}
      BY <3>1 DEF SmoothInv
    <3>3. q # r
      BY <1>2, <2>2, <3>2 DEF att
    <3>4. QED
      BY <1>4, <3>2, <3>3
  <2>3. QED
    BY <2>1, <2>2
<1>11. QED
  BY <1>1, <1>6, <1>7, <1>8, <1>9, <1>10 DEF SmoothInv, Unseen, Unread, BuildSteps

(* A row somebody asks for, or cancels: it was not completed, and if it is *)
(* to be built there is a call for it.                                     *)
LEMMA SmoothWrite ==
  ASSUME TypeOK, SmoothInv, NEW b \in Backups, rows[b].status # "completed",
         NEW new, rows' = [rows EXCEPT ![b] = new],
         new.status \in {"pending", "cancelled"}, new.next = "none", new.stale = FALSE,
         stored' = stored, deleting' = deleting, calls \subseteq calls',
         new.status = "pending" => \E c \in calls' : c.row = b,
         \A p \in Sweepers, d \in Backups : sweeps'[p].seen[d] = Unseen,
         \A r \in Runners :
           \/ runs'[r] = runs[r]
           \/ /\ runs[r].at \in {"idle", "tail", "finished"}
              /\ runs'[r].at \in {"idle", "tail"}
  PROVE  SmoothInv'
<1>1. rows'[b] = new /\ \A d \in Backups : d # b => rows'[d] = rows[d]
  BY DEF TypeOK
<1>2. \A d \in Backups : rows'[d].status = "pending" => \E c \in calls' : c.row = d
  BY <1>1 DEF SmoothInv
<1>3. QED
  BY <1>1, <1>2, SmoothKept

LEMMA SmoothCreate ==
  ASSUME TypeOK, SmoothInv, NEW b \in Backups, rows[b].status = "none",
         NEW trigger, NEW secret, rows' = [rows EXCEPT ![b] = NewRow(trigger, secret)],
         stored' = stored, deleting' = deleting, runs' = runs, calls \subseteq calls',
         \E c \in calls' : c.row = b,
         \A p \in Sweepers, d \in Backups : sweeps'[p].seen[d] = Unseen
  PROVE  SmoothInv'
<1>1. /\ NewRow(trigger, secret).status = "pending" /\ NewRow(trigger, secret).next = "none"
      /\ NewRow(trigger, secret).stale = FALSE
  BY DEF NewRow, NoRow
<1>2. QED
  BY <1>1, SmoothWrite

LEMMA DispatchCalls ==
  ASSUME NEW b, NEW pass, Dispatch(b, pass)
  PROVE  calls \subseteq calls' /\ \E c \in calls' : c.row = b
<1>1. PICK up \in CeleryUp : calls' = calls \cup {IF up THEN Task(b, pass) ELSE Inline(b, pass)}
  BY DEF Dispatch
<1>2. Task(b, pass).row = b /\ Inline(b, pass).row = b
  BY DEF Task, Inline
<1>3. QED
  BY <1>1, <1>2

LEMMA SmoothNext ==
  ASSUME Smooth, TypeOK, SecretInv, SmoothInv, [Next]_vars
  PROVE  SmoothInv'
<1>1. \A p \in Sweepers, b \in Backups : sweeps[p].seen[b] = Unseen
  BY DEF SmoothInv
<1>2. \A b \in Backups : rows[b].status = "pending" => \E c \in calls : c.row = b
  BY DEF SmoothInv
<1>3. CASE Create
  <2>1. ASSUME NEW b \in Backups, NEW secret \in BOOLEAN, CreateManual(b, secret)
        PROVE  SmoothInv'
    <3>1. calls \subseteq calls' /\ \E c \in calls' : c.row = b
      BY <2>1, DispatchCalls DEF CreateManual
    <3>2. /\ rows[b].status = "none" /\ rows' = [rows EXCEPT ![b] = NewRow("manual", secret)]
          /\ stored' = stored /\ deleting' = deleting /\ runs' = runs /\ sweeps' = sweeps
      BY <2>1 DEF CreateManual
    <3>3. QED
      BY <1>1, <3>1, <3>2, SmoothCreate
  <2>2. ASSUME NEW b \in Backups, NEW via \in Vias, CreateForUpdate(b, via)
        PROVE  SmoothInv'
    <3> DEFINE call == [row |-> b, pass |-> FALSE, via |-> via]
    <3>1. call.row = b /\ calls' = calls \cup {call}
      BY <2>2 DEF CreateForUpdate
    <3> HIDE DEF call
    <3>2. QED
      BY <1>1, <2>2, <3>1, SmoothCreate DEF CreateForUpdate
  <2>3. QED
    BY <1>3, <2>1, <2>2 DEF Create
<1>4. CASE \E b \in Backups : Deliver(b)
  <2>1. PICK r \in Runners, c \in calls : Claim(r, c) \/ Pass(r, c)
    BY <1>4 DEF Deliver
  <2>2. CASE Claim(r, c)
    BY <2>2, SmoothClaim
  <2>3. CASE Pass(r, c)
    <3>1. /\ rows' = rows /\ stored' = stored /\ sweeps' = sweeps /\ deleting' = deleting
          /\ calls \ {c} \subseteq calls' /\ ~Claimable(c.row) /\ runs[r].at = "idle"
          /\ runs'[r].at \in {"idle", "tail"}
          /\ \A q \in Runners : q # r => runs'[q] = runs[q]
      BY <2>3 DEF Pass, Delivered, TypeOK, Idle
    <3>2. \A b \in Backups : rows[b].status = "pending" => c.row # b
      BY <3>1 DEF Claimable, SmoothInv
    <3>3. \A b \in Backups : rows'[b].status = "pending" => \E d \in calls' : d.row = b
      BY <1>2, <3>1, <3>2
    <3>4. QED
      BY <1>1, <3>1, <3>3, SmoothKept
  <2>4. QED
    BY <2>1, <2>2, <2>3
<1>5. ASSUME NEW r \in Runners, Step(r) PROVE SmoothInv'
  <2>1. CASE Report(r) \/ Store(r) \/ Finish(r) \/ Discard(r)
    BY <2>1, SmoothBuild
  <2>2. CASE Conclude(r) \/ Requeue(r)
    <3>1. /\ rows' = rows /\ stored' = stored /\ sweeps' = sweeps /\ deleting' = deleting
          /\ calls \subseteq calls' /\ runs[r].at \in {"tail", "finished"}
          /\ \E step \in {"idle", "tail"} : Goto(r, step)
      BY <2>2 DEF Conclude, Requeue, AfterRun
    <3>2. /\ \A q \in Runners : q # r => runs'[q] = runs[q]
          /\ runs'[r].at \in {"idle", "tail"}
      BY <3>1, GotoMoves DEF Idle
    <3>3. \A b \in Backups : rows'[b].status = "pending" => \E c \in calls' : c.row = b
      BY <1>2, <3>1
    <3>4. QED
      BY <1>1, <3>1, <3>2, <3>3, SmoothKept
  <2>3. CASE FailRun(r)
    BY <2>3 DEF FailRun, SmoothInv
  <2>4. CASE EndCommand(r)
    <3> DEFINE cancelled == [rows[runs[r].row] EXCEPT !.status = "cancelled", !.next = "none", !.stale = FALSE]
    <3>1. /\ runs[r].at = "tail" /\ stored' = stored /\ sweeps' = sweeps /\ deleting' = deleting
          /\ calls' = calls /\ Goto(r, "idle")
      BY <2>4 DEF EndCommand
    <3>2. PICK b \in Backups : b = runs[r].row
      BY <3>1, BusyRunHasRow
    <3>3. rows' = [rows EXCEPT ![b] = IF rows[b].status # "pending" THEN rows[b] ELSE cancelled]
      BY <2>4, <3>2 DEF EndCommand
    <3>4. /\ \A q \in Runners : q # r => runs'[q] = runs[q]
          /\ runs'[r].at = "idle"
      BY <3>1, GotoMoves DEF Idle
    <3>5. CASE rows[b].status # "pending"
      <4>1. rows' = rows
        BY <3>3, <3>5 DEF TypeOK
      <4>2. QED
        BY <1>1, <1>2, <3>1, <3>4, <4>1, SmoothKept
    <3>6. CASE rows[b].status = "pending"
      <4>1. /\ cancelled.status = "cancelled" /\ cancelled.next = "none"
            /\ cancelled.stale = FALSE
        BY <3>2 DEF TypeOK, Row
      <4> HIDE DEF cancelled
      <4>2. rows' = [rows EXCEPT ![b] = cancelled]
        BY <3>3, <3>6
      <4>3. QED
        BY <1>1, <3>1, <3>4, <3>6, <4>1, <4>2, SmoothWrite
    <3>7. QED
      BY <3>5, <3>6
  <2>5. QED
    BY <1>5, <2>1, <2>2, <2>3, <2>4 DEF Step
<1>6. CASE \E r \in Runners : Raise(r) \/ Crash(r)
  BY <1>6 DEF Raise, Crash, Smooth
<1>7. ASSUME NEW p \in Sweepers, Pace(p) \/ \E b \in Backups : CreateScheduled(p, b)
      PROVE  SmoothInv'
  <2>1. CASE (\E kind \in {"page", "beat"} : SweepStart(p, kind)) \/ SweepEnd(p)
    <3>1. \A b \in Backups : ~Stalled(b)
      BY DEF Stalled, SmoothInv
    <3>2. \A b \in Backups : sweeps'[p].seen[b] = Unseen
      BY <2>1, <3>1 DEF SweepStart, SweepEnd, Rested, TypeOK, Sweep
    <3>3. /\ rows' = rows /\ stored' = stored /\ deleting' = deleting /\ runs' = runs
          /\ calls' = calls
          /\ \A q \in Sweepers : q # p => sweeps'[q] = sweeps[q]
      BY <2>1 DEF SweepStart, SweepEnd, TypeOK
    <3>4. QED
      BY <1>1, <1>2, <3>2, <3>3, SmoothKept
  <2>2. \A b \in Backups : ~SweepFail(p, b) /\ ~DispatchDue(p, b)
    <3>1. \A b \in Backups : ~SweepFail(p, b)
      BY <1>1, <1>7 DEF SweepFail
    <3>2. \A b \in Backups : rows[b].next = "none"
      BY DEF SmoothInv
    <3>3. \A b \in Backups : ~DispatchDue(p, b)
      BY <3>2 DEF DispatchDue, Due
    <3>4. QED
      BY <3>1, <3>3
  <2>3. ASSUME NEW b \in Backups, CreateScheduled(p, b) PROVE SmoothInv'
    <3>1. \A q \in Sweepers, d \in Backups : sweeps'[q].seen[d] = Unseen
      BY <1>1, <2>3 DEF CreateScheduled, Rested, TypeOK
    <3>2. calls \subseteq calls' /\ \E c \in calls' : c.row = b
      <4>1. Inline(b, FALSE).row = b
        BY DEF Inline
      <4>2. QED
        BY <2>3, <4>1 DEF CreateScheduled
    <3>3. QED
      BY <2>3, <3>1, <3>2, SmoothCreate DEF CreateScheduled
  <2>4. QED
    BY <1>7, <2>1, <2>2, <2>3 DEF Pace
<1>8. ASSUME NEW b \in Backups,
             \/ Resume(b) \/ Cancel(b) \/ DeleteRead(b) \/ DeleteRow(b)
             \/ BecomeDue(b) \/ BecomeStale(b)
      PROVE  SmoothInv'
  <2>1. ~DeleteRead(b) /\ ~DeleteRow(b) /\ ~BecomeDue(b)
    BY DEF DeleteRead, DeleteRow, BecomeDue, Smooth, SmoothInv
  <2>2. ~BecomeStale(b)
    <3>1. b \in Active => Attended(b)
      BY DEF Active, ActiveStatuses, Attended, SmoothInv
    <3>2. QED
      BY <3>1 DEF BecomeStale, Smooth
  <2>3. CASE Resume(b)
    <3> DEFINE new == [rows[b] EXCEPT !.status = "pending", !.next = "none", !.stale = FALSE]
    <3>1. new.status = "pending" /\ new.next = "none" /\ new.stale = FALSE
      BY DEF TypeOK, Row
    <3>2. /\ rows' = [rows EXCEPT ![b] = new] /\ rows[b].status # "completed"
          /\ Dispatch(b, rows[b].secret)
          /\ runs' = runs /\ stored' = stored /\ sweeps' = sweeps /\ deleting' = deleting
      BY <2>3 DEF Resume
    <3> HIDE DEF new
    <3>3. calls \subseteq calls' /\ \E c \in calls' : c.row = b
      BY <3>2, DispatchCalls
    <3>4. QED
      BY <1>1, <3>1, <3>2, <3>3, SmoothWrite
  <2>4. CASE Cancel(b)
    <3> DEFINE new == [rows[b] EXCEPT !.status = "cancelled", !.next = "none", !.stale = FALSE]
    <3>1. new.status = "cancelled" /\ new.next = "none" /\ new.stale = FALSE
      BY DEF TypeOK, Row
    <3>2. /\ rows' = [rows EXCEPT ![b] = new] /\ rows[b].status # "completed"
          /\ runs' = runs /\ stored' = stored /\ sweeps' = sweeps /\ deleting' = deleting
          /\ calls' = calls
      BY <2>4 DEF Cancel, Active, ActiveStatuses
    <3> HIDE DEF new
    <3>3. QED
      BY <1>1, <3>1, <3>2, SmoothWrite
  <2>5. QED
    BY <1>8, <2>1, <2>2, <2>3, <2>4
<1>9. CASE (\E c \in calls : LoseCall(c)) \/ UNCHANGED vars
  <2>1. /\ rows' = rows /\ stored' = stored /\ deleting' = deleting /\ runs' = runs
        /\ calls' = calls /\ sweeps' = sweeps
    BY <1>9 DEF LoseCall, Smooth, vars
  <2>2. QED
    BY <1>1, <1>2, <2>1, SmoothKept
<1>10. QED
  BY <1>3, <1>4, <1>5, <1>6, <1>7, <1>8, <1>9 DEF Next

LEMMA InitIsSmooth == Init => SmoothInv
BY DEF Init, SmoothInv, NoRow, Idle, Rested, Unread

LEMMA SmoothInductive == ASSUME Smooth PROVE Spec => [](TypeOK /\ SecretInv /\ SmoothInv)
BY InitHolds, InitIsSmooth, NextPreserves, SmoothNext, PTL DEF Spec

(* However often the operator cancels and resumes a row, whatever the      *)
(* broker delivers twice or does not answer, and however many runs and     *)
(* sweeps there are: no archive lingers that is neither its row's file nor *)
(* in the hands of a run that has still to settle it.                      *)
THEOREM NothingLingers == ASSUME Smooth PROVE Spec => []NoOrphanArchive
<1>1. SmoothInv => NoOrphanArchive
  BY DEF SmoothInv, NoOrphanArchive
<1>2. QED
  BY <1>1, SmoothInductive, PTL

(* Nor does a row leave "completed": a late call passes it over, a late    *)
(* attempt finds it no longer running, and no sweep holds it.              *)
THEOREM CompletedSurvivesTheOperator == ASSUME Smooth PROVE Spec => CompletedIsFinal
<1>1. SmoothInv => NoLateFailure
  BY DEF SmoothInv, NoLateFailure
<1>2. TypeOK /\ SecretInv /\ SmoothInv /\ [Next]_vars =>
        \A b \in Backups : rows[b].status = "completed" =>
          rows'[b].status \in {"completed", "gone"}
  BY <1>1, CompletedStays DEF Stays
<1>3. QED
  BY <1>2, SmoothInductive, PTL DEF CompletedIsFinal, Spec
=============================================================================
