--------------------------- MODULE SystemBackups ----------------------------
(***************************************************************************)
(* The life of a system backup row: who may create one, the claim that     *)
(* turns it into a running build, its progress writes, the failure path    *)
(* that arms a retry, the sweep that reaps rows whose runner went silent,  *)
(* and the operator's Resume, Cancel and Delete (dlux/backup/dispatch.py,  *)
(* create.py, retry.py, reporters.py, tasks.py, views/backup.py).          *)
(*                                                                         *)
(* What the archive contains is left out: it is the number of the attempt  *)
(* that wrote it.  Clocks are left out: a scheduled retry is "later" or    *)
(* "due", and a row is stale when its heartbeat is older than              *)
(* stall_timeout_minutes.  Chains and retention are not modelled here.     *)
(***************************************************************************)
EXTENDS Naturals, FiniteSets

CONSTANTS
  Backups,      \* the rows that may ever be created
  Nobody,       \* no row
  Runners,      \* processes that may execute run_system_backup
  Sweepers,     \* processes that may execute reap_stalled_system_backups
  MaxAttempts,  \* the policy's max_attempts
  MaxClaims,    \* bound on the claims of one row
  MaxResumes,   \* bound on the operator's Resume
  Faults        \* what may go wrong, see below

ASSUME SystemBackupsAssumption ==
  /\ Nobody \notin Backups
  /\ MaxAttempts \in Nat /\ MaxClaims \in Nat /\ MaxResumes \in Nat
  /\ Faults \subseteq
       {"crash",    \* a runner is killed
        "error",    \* a build raises
        "post",     \* the bookkeeping after a completed build raises
        "lost",     \* a queued call disappears, or its sender dies first
        "twice",    \* the broker delivers a call again
        "broker",   \* no worker answers the ping
        "silence",  \* storing an archive, or the queue, outlasts the stall timeout
        "late",     \* a due retry outlasts the stall timeout before a sweep
        "cancel", "delete"}  \* the operator cancels, deletes

VARIABLES
  rows,      \* SystemBackup rows
  calls,     \* queued Celery messages, and calls about to be made in process
  runs,      \* per runner: where run_system_backup is, and its locals
  stored,    \* archives on default_storage, by row and attempt
  sweeps,    \* per sweeper: the rows its query found stale
  deleting,  \* rows a delete request has read, with the file it read
  resumes    \* Resume requests made

vars == <<rows, calls, runs, stored, sweeps, deleting, resumes>>

ActiveStatuses == {"pending", "running"}
Statuses == ActiveStatuses \cup {"none", "completed", "failed", "cancelled", "gone"}
Triggers == {"none", "manual", "scheduled", "update"}
Claims == 0..MaxClaims
NoFile == 0

(* secret: passphrase_required; next: next_attempt_at.                     *)
Row == [status : Statuses, trigger : Triggers, secret : BOOLEAN,
        attempts : Claims, next : {"none", "later", "due"},
        stale : BOOLEAN, file : Claims]
NoRow == [status |-> "none", trigger |-> "none", secret |-> FALSE,
          attempts |-> 0, next |-> "none", stale |-> FALSE, file |-> NoFile]
(* Mutant: the trigger lands in the status column.                         *)
NewRowSwapped(trigger, secret) ==
  [NoRow EXCEPT !.status = trigger, !.trigger = trigger, !.secret = secret]

NewRow(trigger, secret) ==
  [NoRow EXCEPT !.status = "pending", !.trigger = trigger, !.secret = secret]

(* A call is run_system_backup(pk, passphrase): in build_system_backup_task, *)
(* in the caller's own process, or in the dlux_backup command.             *)
Vias == {"task", "inline", "command"}
Call == [row : Backups, pass : BOOLEAN, via : Vias]
Task(b, pass) == [row |-> b, pass |-> pass, via |-> "task"]
Inline(b, pass) == [row |-> b, pass |-> pass, via |-> "inline"]

BuildSteps == {"building", "storing", "stored"}
Steps == BuildSteps \cup
         {"idle", "finished", "dropping", "undoing", "failing", "tail"}
Run == [at : Steps, row : Backups \cup {Nobody}, att : Claims,
        pass : BOOLEAN, via : Vias]
Idle == [at |-> "idle", row |-> Nobody, att |-> 0, pass |-> FALSE, via |-> "task"]

Unseen == MaxClaims + 1
Sweep == [at : {"idle", "page", "beat"}, seen : [Backups -> Claims \cup {Unseen}]]
Rested == [at |-> "idle", seen |-> [b \in Backups |-> Unseen]]

Unread == MaxClaims + 1

Active == {b \in Backups : rows[b].status \in ActiveStatuses}
Building(b) == {r \in Runners : runs[r].row = b /\ runs[r].at \in BuildSteps}
CeleryUp == IF "broker" \in Faults THEN BOOLEAN ELSE {TRUE}

Init ==
  /\ rows = [b \in Backups |-> NoRow]
  /\ calls = {}
  /\ runs = [r \in Runners |-> Idle]
  /\ stored = [b \in Backups |-> {}]
  /\ sweeps = [p \in Sweepers |-> Rested]
  /\ deleting = [b \in Backups |-> Unread]
  /\ resumes = 0

-----------------------------------------------------------------------------
(* Creation.                                                               *)

(* dispatch_system_backup, and the inline run the views fall back to.      *)
Dispatch(b, pass) ==
  \E up \in CeleryUp :
    calls' = calls \cup {IF up THEN Task(b, pass) ELSE Inline(b, pass)}

(* POST sys/backup/create/: the second check is under the settings lock.   *)
CreateManual(b, secret) ==
  /\ rows[b].status = "none"
  /\ Active = {}
  /\ rows' = [rows EXCEPT ![b] = NewRow("manual", secret)]
  /\ Dispatch(b, secret)
  /\ UNCHANGED <<runs, stored, sweeps, deleting, resumes>>

(* The updater's pre-update backup, the agent bridge (both "inline") and   *)
(* the dlux_backup command: none looks for another backup.                 *)
CreateForUpdate(b, via) ==
  /\ rows[b].status = "none"
  /\ via \in {"inline", "command"}
  /\ rows' = [rows EXCEPT ![b] = NewRow("update", FALSE)]
  /\ calls' = calls \cup {[row |-> b, pass |-> FALSE, via |-> via]}
  /\ UNCHANGED <<runs, stored, sweeps, deleting, resumes>>

-----------------------------------------------------------------------------
(* run_system_backup.                                                      *)

(* Mutant: any row that did not end may be claimed.                        *)
ClaimableUnlessEnded(b) ==
  rows[b].status \in ActiveStatuses /\ rows[b].next # "later"

(* Mutant: only the schedule is looked at, not the status.                 *)
ClaimableUnscheduled(b) == rows[b].status # "gone" /\ rows[b].next # "later"

Claimable(b) == rows[b].status = "pending" /\ rows[b].next # "later"

(* Only a Celery task and the command do something after the run.          *)
AfterRun(via) == IF via = "inline" THEN "idle" ELSE "tail"
Goto(r, step) == runs' = [runs EXCEPT ![r] =
  IF step = "idle" THEN Idle ELSE [@ EXCEPT !.at = step]]

Delivered(c) ==
  \/ calls' = calls \ {c}
  \/ "twice" \in Faults /\ c.via = "task" /\ calls' = calls

(* pending -> running is the claim.  A secret row without its passphrase   *)
(* is failed right away.                                                   *)
Claim(r, c) ==
  LET b == c.row
      att == rows[b].attempts + 1
  IN /\ runs[r].at = "idle" /\ c \in calls
     /\ Claimable(b)
     /\ att \in Claims
     /\ Delivered(c)
     /\ rows' = [rows EXCEPT ![b] = [@ EXCEPT !.status = "running",
                   !.attempts = att, !.next = "none", !.stale = FALSE]]
     /\ runs' = [runs EXCEPT ![r] = [row |-> b, att |-> att, pass |-> c.pass,
                   via |-> c.via,
                   at |-> IF rows[b].secret /\ ~c.pass THEN "failing" ELSE "building"]]
     /\ UNCHANGED <<stored, sweeps, deleting, resumes>>

Pass(r, c) ==
  /\ runs[r].at = "idle" /\ c \in calls
  /\ ~Claimable(c.row)
  /\ Delivered(c)
  /\ runs' = [runs EXCEPT ![r] = IF AfterRun(c.via) = "idle" THEN Idle ELSE
       [at |-> "tail", row |-> c.row, att |-> 0, pass |-> c.pass, via |-> c.via]]
  /\ UNCHANGED <<rows, stored, sweeps, deleting, resumes>>

(* The last progress write of the build.  As all of them (see Reporting),  *)
(* it matches a running row, or is the sign of a cancel (BackupCancelled). *)
(* default_storage.save then reports nothing until it returns.             *)
Report(r) ==
  /\ runs[r].at = "building"
  /\ Goto(r, IF rows[runs[r].row].status = "running" THEN "storing" ELSE "dropping")
  /\ UNCHANGED rows
  /\ UNCHANGED <<calls, stored, sweeps, deleting, resumes>>

Store(r) ==
  /\ runs[r].at = "storing"
  /\ stored' = [stored EXCEPT ![runs[r].row] = @ \cup {runs[r].att}]
  /\ Goto(r, "stored")
  /\ UNCHANGED <<rows, calls, sweeps, deleting, resumes>>

Finish(r) ==
  /\ runs[r].at = "stored"
  /\ IF rows[runs[r].row].status = "running"
     THEN /\ rows' = [rows EXCEPT ![runs[r].row] = [@ EXCEPT !.status = "completed",
                        !.next = "none", !.stale = FALSE, !.file = runs[r].att]]
          /\ Goto(r, "finished")
     ELSE /\ Goto(r, "dropping")
          /\ UNCHANGED rows
  /\ UNCHANGED <<calls, stored, sweeps, deleting, resumes>>

Conclude(r) ==
  /\ runs[r].at = "finished"
  /\ Goto(r, AfterRun(runs[r].via))
  /\ UNCHANGED <<rows, calls, stored, sweeps, deleting, resumes>>

(* An exception, before or after the row completed.                        *)
Raise(r) ==
  /\ \/ "error" \in Faults /\ runs[r].at \in BuildSteps
     \/ "post" \in Faults /\ runs[r].at = "finished"
  /\ Goto(r, "undoing")
  /\ UNCHANGED <<rows, calls, stored, sweeps, deleting, resumes>>

(* Mutant: every archive of the row is deleted, not only the one this run saved. *)
DiscardByRow(r) ==
  /\ runs[r].at \in {"dropping", "undoing"}
  /\ stored' = [stored EXCEPT ![runs[r].row] = {}]
  /\ Goto(r, IF runs[r].at = "undoing" THEN "failing" ELSE AfterRun(runs[r].via))
  /\ UNCHANGED <<rows, calls, sweeps, deleting, resumes>>

(* Mutant: a cancelled run keeps the archive it saved.                     *)
DiscardOnErrorOnly(r) ==
  /\ runs[r].at \in {"dropping", "undoing"}
  /\ stored' = [stored EXCEPT ![runs[r].row] =
       IF runs[r].at = "undoing" THEN @ \ {runs[r].att} ELSE @]
  /\ Goto(r, IF runs[r].at = "undoing" THEN "failing" ELSE AfterRun(runs[r].via))
  /\ UNCHANGED <<rows, calls, sweeps, deleting, resumes>>

(* _discard(saved_paths) in the two except clauses.                        *)
Discard(r) ==
  /\ runs[r].at \in {"dropping", "undoing"}
  /\ stored' = [stored EXCEPT ![runs[r].row] = @ \ {runs[r].att}]
  /\ Goto(r, IF runs[r].at = "undoing" THEN "failing" ELSE AfterRun(runs[r].via))
  /\ UNCHANGED <<rows, calls, sweeps, deleting, resumes>>

-----------------------------------------------------------------------------
(* fail_system_backup.                                                     *)

(* _can_auto_retry with auto_retry_enabled on.                             *)
CanAutoRetry(attempts, secret, inHand, up) ==
  /\ attempts < MaxAttempts
  /\ secret => inHand
  /\ inHand \/ up

(* The save is by primary key alone: it overwrites whatever status the row *)
(* has by then.  The save of a deleted row raises and writes nothing.      *)
Fails(b, attempts, inHand, retryable) ==
  \E up \in CeleryUp :
    rows' = [rows EXCEPT ![b] =
      IF @.status = "gone" THEN @
      ELSE IF retryable /\ CanAutoRetry(attempts, @.secret, inHand, up)
      THEN [@ EXCEPT !.status = "pending", !.next = "later", !.stale = FALSE]
      ELSE [@ EXCEPT !.status = "failed", !.next = "none", !.stale = FALSE]]

(* Only ChainUnavailable is not retryable, and it comes from _chain_start. *)
FailRun(r) ==
  /\ runs[r].at = "failing"
  /\ \E retryable \in BOOLEAN :
       Fails(runs[r].row, runs[r].att, runs[r].via = "task" /\ runs[r].pass, retryable)
  /\ Goto(r, AfterRun(runs[r].via))
  /\ UNCHANGED <<calls, stored, sweeps, deleting, resumes>>

(* The task queues itself again while its row has a retry armed; the       *)
(* command cancels a row it would otherwise leave pending.                 *)
Requeue(r) ==
  LET b == runs[r].row
      armed == rows[b].status = "pending" /\ rows[b].next # "none"
  IN /\ runs[r].at = "tail" /\ runs[r].via = "task"
     /\ \/ armed /\ calls' = calls \cup {Task(b, runs[r].pass)}
        \/ (armed => "broker" \in Faults) /\ calls' = calls
     /\ Goto(r, "idle")
     /\ UNCHANGED <<rows, stored, sweeps, deleting, resumes>>

(* Mutant: the command cancels whatever it finds.                          *)
EndCommandAnyhow(r) ==
  /\ runs[r].at = "tail" /\ runs[r].via = "command"
  /\ rows' = [rows EXCEPT ![runs[r].row] = [@ EXCEPT !.status = "cancelled",
                !.next = "none", !.stale = FALSE]]
  /\ Goto(r, "idle")
  /\ UNCHANGED <<calls, stored, sweeps, deleting, resumes>>

EndCommand(r) ==
  LET b == runs[r].row
  IN /\ runs[r].at = "tail" /\ runs[r].via = "command"
     /\ rows' = [rows EXCEPT ![b] = IF @.status # "pending" THEN @ ELSE
          [@ EXCEPT !.status = "cancelled", !.next = "none", !.stale = FALSE]]
     /\ Goto(r, "idle")
     /\ UNCHANGED <<calls, stored, sweeps, deleting, resumes>>

-----------------------------------------------------------------------------
(* reap_stalled_system_backups, from the Backup page ("page"), or from a   *)
(* worker that starts or run_scheduled_system_backup, which then creates a *)
(* backup ("beat").                                                        *)

(* Mutant: the older check, which only ever looked at scheduled rows.      *)
StalledScheduled(b) ==
  /\ b \in Active /\ rows[b].trigger = "scheduled"
  /\ rows[b].next # "later" /\ rows[b].stale

(* Mutant: silence is not looked at.                                       *)
StalledOrNot(b) == b \in Active /\ rows[b].next # "later"

Stalled(b) == b \in Active /\ rows[b].next # "later" /\ rows[b].stale

SweepStart(p, kind) ==
  /\ sweeps[p].at = "idle"
  /\ sweeps' = [sweeps EXCEPT ![p] = [at |-> kind,
       seen |-> [b \in Backups |-> IF Stalled(b) THEN rows[b].attempts ELSE Unseen]]]
  /\ UNCHANGED <<rows, calls, runs, stored, deleting, resumes>>

(* Failing a row deleted since raises, which ends the whole sweep.         *)
SweepFail(p, b) ==
  /\ sweeps[p].at # "idle" /\ sweeps[p].seen[b] # Unseen
  /\ Fails(b, sweeps[p].seen[b], FALSE, TRUE)
  /\ sweeps' = [sweeps EXCEPT ![p] =
       IF rows[b].status = "gone" THEN Rested ELSE [@ EXCEPT !.seen[b] = Unseen]]
  /\ UNCHANGED <<calls, runs, stored, deleting, resumes>>

Reaped(p) == sweeps[p].at # "idle" /\ \A b \in Backups : sweeps[p].seen[b] = Unseen

(* Mutant: protected rows are swept like the others.                       *)
DueAnyway(b) == rows[b].status = "pending" /\ rows[b].next = "due"

Due(b) == rows[b].status = "pending" /\ rows[b].next = "due" /\ ~rows[b].secret

(* The conditional update that clears next_attempt_at, then the dispatch.  *)
(* The page never builds in its own request: it may leave the row pending  *)
(* with nothing scheduled.                                                 *)
DispatchDue(p, b) ==
  /\ Reaped(p) /\ Due(b)
  /\ rows' = [rows EXCEPT ![b].next = "none"]
  /\ \E up \in CeleryUp :
       calls' = calls \cup
         IF up THEN {Task(b, FALSE)}
         ELSE IF sweeps[p].at = "page" THEN {} ELSE {Inline(b, FALSE)}
  /\ UNCHANGED <<runs, stored, sweeps, deleting, resumes>>

SweepEnd(p) ==
  /\ Reaped(p)
  /\ (\E b \in Backups : Due(b)) => "broker" \in Faults /\ sweeps[p].at = "page"
  /\ sweeps' = [sweeps EXCEPT ![p] = Rested]
  /\ UNCHANGED <<rows, calls, runs, stored, deleting, resumes>>

(* The rest of run_scheduled_system_backup, under the settings lock: it    *)
(* looks only for another scheduled backup.  It runs in the beat task.     *)
CreateScheduled(p, b) ==
  /\ sweeps[p].at = "beat" /\ Reaped(p) /\ ~\E d \in Backups : Due(d)
  /\ rows[b].status = "none"
  /\ \A d \in Active : rows[d].trigger # "scheduled"
  /\ rows' = [rows EXCEPT ![b] = NewRow("scheduled", FALSE)]
  /\ calls' = calls \cup {Inline(b, FALSE)}
  /\ sweeps' = [sweeps EXCEPT ![p] = Rested]
  /\ UNCHANGED <<runs, stored, deleting, resumes>>

-----------------------------------------------------------------------------
(* The operator.                                                           *)

(* resume_system_backup writes only over the status it read.               *)
Resume(b) ==
  /\ resumes < MaxResumes
  /\ rows[b].status \in {"failed", "pending", "cancelled"}
  /\ resumes' = resumes + 1
  /\ rows' = [rows EXCEPT ![b] = [@ EXCEPT !.status = "pending",
                !.next = "none", !.stale = FALSE]]
  /\ Dispatch(b, rows[b].secret)
  /\ UNCHANGED <<runs, stored, sweeps, deleting>>

Cancel(b) ==
  /\ "cancel" \in Faults
  /\ b \in Active
  /\ rows' = [rows EXCEPT ![b] = [@ EXCEPT !.status = "cancelled",
                !.next = "none", !.stale = FALSE]]
  /\ UNCHANGED <<calls, runs, stored, sweeps, deleting, resumes>>

(* system_backup_delete_view checks is_active on the row it loaded, then   *)
(* removes that row's file and the row.                                    *)
DeleteRead(b) ==
  /\ "delete" \in Faults
  /\ rows[b].status \in {"completed", "failed", "cancelled"}
  /\ deleting' = [deleting EXCEPT ![b] = rows[b].file]
  /\ UNCHANGED <<rows, calls, runs, stored, sweeps, resumes>>

DeleteRow(b) ==
  /\ deleting[b] # Unread
  /\ stored' = [stored EXCEPT ![b] = @ \ {deleting[b]}]
  /\ rows' = [rows EXCEPT ![b] = [@ EXCEPT !.status = "gone", !.next = "none"]]
  /\ deleting' = [deleting EXCEPT ![b] = Unread]
  /\ UNCHANGED <<calls, runs, sweeps, resumes>>

-----------------------------------------------------------------------------
(* Faults and time.                                                        *)

Crash(r) ==
  /\ "crash" \in Faults /\ runs[r].at # "idle"
  /\ Goto(r, "idle")
  /\ UNCHANGED <<rows, calls, stored, sweeps, deleting, resumes>>

LoseCall(c) ==
  /\ "lost" \in Faults
  /\ calls' = calls \ {c}
  /\ UNCHANGED <<rows, runs, stored, sweeps, deleting, resumes>>

BecomeDue(b) ==
  /\ rows[b].next = "later"
  /\ rows' = [rows EXCEPT ![b].next = "due"]
  /\ UNCHANGED <<calls, runs, stored, sweeps, deleting, resumes>>

(* A build writes a heartbeat every few seconds over any running row.      *)
Reporting(b) ==
  rows[b].status = "running" /\ \E r \in Building(b) : runs[r].at = "building"

(* The attempt that claimed the row still runs, or a call for it is queued *)
(* or about to be.                                                         *)
Attended(b) ==
  \/ \E r \in Runners : /\ runs[r].row = b
                       /\ \/ runs[r].att = rows[b].attempts
                          \/ runs[r].at = "tail"
  \/ \E c \in calls : c.row = b

(* last_signal_at falls behind the stall timeout.  Unless "silence" or     *)
(* "late" is allowed, that takes a row nothing attends to, and a due retry *)
(* that no sweep may start.                                                *)
BecomeStale(b) ==
  /\ b \in Active /\ ~rows[b].stale /\ rows[b].next # "later"
  /\ ~Reporting(b)
  /\ "silence" \in Faults \/ ~Attended(b)
  /\ rows[b].next = "due" =>
       rows[b].secret \/ Faults \cap {"late", "broker"} # {}
  /\ rows' = [rows EXCEPT ![b].stale = TRUE]
  /\ UNCHANGED <<calls, runs, stored, sweeps, deleting, resumes>>

-----------------------------------------------------------------------------
Create ==
  \E b \in Backups :
    \/ \E secret \in BOOLEAN : CreateManual(b, secret)
    \/ \E via \in Vias : CreateForUpdate(b, via)

Deliver(b) ==
  \E r \in Runners, c \in calls : c.row = b /\ (Claim(r, c) \/ Pass(r, c))

Step(r) ==
  \/ Report(r) \/ Store(r) \/ Finish(r) \/ Conclude(r)
  \/ Discard(r) \/ FailRun(r) \/ Requeue(r) \/ EndCommand(r)

Pace(p) ==
  \/ \E kind \in {"page", "beat"} : SweepStart(p, kind)
  \/ \E b \in Backups : SweepFail(p, b) \/ DispatchDue(p, b)
  \/ SweepEnd(p)

Next ==
  \/ Create
  \/ \E b \in Backups : Deliver(b)
  \/ \E r \in Runners : Step(r) \/ Raise(r) \/ Crash(r)
  \/ \E p \in Sweepers : Pace(p) \/ \E b \in Backups : CreateScheduled(p, b)
  \/ \E b \in Backups : \/ Resume(b) \/ Cancel(b) \/ DeleteRead(b) \/ DeleteRow(b)
                        \/ BecomeDue(b) \/ BecomeStale(b)
  \/ \E c \in calls : LoseCall(c)

Spec == Init /\ [][Next]_vars

(* A live process goes on; the broker delivers what is queued; beat starts *)
(* a sweep every 15 minutes while scheduled backups are on, and so does an *)
(* open Backup page; time passes.                                          *)
Fairness ==
  /\ \A r \in Runners : WF_vars(Step(r))
  /\ \A p \in Sweepers : WF_vars(Pace(p))
  /\ \A b \in Backups : /\ SF_vars(Deliver(b))
                        /\ WF_vars(BecomeDue(b)) /\ WF_vars(BecomeStale(b))

FairSpec == Spec /\ Fairness

-----------------------------------------------------------------------------
TypeOK ==
  /\ rows \in [Backups -> Row]
  /\ calls \subseteq Call
  /\ runs \in [Runners -> Run]
  /\ stored \in [Backups -> SUBSET Claims]
  /\ sweeps \in [Sweepers -> Sweep]
  /\ deleting \in [Backups -> Claims \cup {Unread}]
  /\ resumes \in 0..MaxResumes

(* "a queued retry, a due-retry sweep, and an operator's Resume can all    *)
(* aim at the same row, and exactly one of them must build it"             *)
(* (create.py): no two processes build the same row at once.               *)
OneBuilderPerRow == \A b \in Backups : Cardinality(Building(b)) <= 1

(* "A restarted worker therefore retires exactly the backups it abandoned: *)
(* a run in a sibling worker heartbeats every few seconds and never falls  *)
(* inside the window" (docs/backups.md): no sweep fails a live attempt.    *)
ReapsOnlyTheDead ==
  [][\A p \in Sweepers, b \in Backups : SweepFail(p, b) =>
       \A r \in Building(b) : runs[r].att # rows[b].attempts]_vars

(* A completed row's file is on storage, unless the very run that wrote it *)
(* is undoing it: no cancelled, failed or late attempt removes it.         *)
CompletedHasItsArchive ==
  \A b \in Backups : rows[b].status = "completed" =>
    \/ rows[b].file \in stored[b]
    \/ \E r \in Runners : /\ runs[r].row = b /\ runs[r].att = rows[b].file
                         /\ runs[r].at = "failing"

(* "a cancel that lands while the file is being stored must win, and the   *)
(* stored file must not linger" (create.py): an archive is the file of its *)
(* row, or belongs to a run that still has to settle it.                   *)
NoOrphanArchive ==
  \A b \in Backups : \A a \in stored[b] :
    \/ rows[b].file = a /\ rows[b].status # "gone"
    \/ \E r \in Runners : runs[r].row = b /\ runs[r].att = a

(* "The row is reused so the history stays one line per requested backup"  *)
(* (dispatch.py): once it has completed, nothing but Delete takes a row    *)
(* out of "completed", neither a call queued before nor an older attempt.  *)
CompletedIsFinal ==
  [][\A b \in Backups : rows[b].status = "completed" =>
       rows'[b].status \in {"completed", "gone"}]_vars

(* "Never retried unattended" (docs/backups.md): no run claims a protected *)
(* row without its passphrase.                                             *)
SecretNeverUnattended ==
  \A r \in Runners : runs[r].at \in BuildSteps \cup {"failing"} =>
    (rows[runs[r].row].secret => runs[r].pass)

(* "A failed or stalled attempt is retried automatically" (docs/backups.md) *)
(* until one completes or max_attempts have failed: no row stays active.   *)
EveryBackupEnds ==
  \A b \in Backups : b \in Active ~> b \notin Active
-----------------------------------------------------------------------------
(* The refinement: a row's status, its attempts, and whether the file it   *)
(* names can be restored from.                                             *)

Lifecycle == INSTANCE BackupLifecycle WITH
  phase <- [b \in Backups |-> rows[b].status],
  tries <- [b \in Backups |-> rows[b].attempts],
  archived <- {b \in Backups : rows[b].file \in stored[b]}

(* Whoever starts, fails, sweeps, retries or resumes a row, in whatever    *)
(* order, it goes through the one life the Backup page shows of it: one    *)
(* attempt after another, counted, kept with an archive or ended           *)
(* (docs/backups.md, "Retries" and "Cancelling").                          *)
FollowsTheLifecycle == Lifecycle!Spec
=============================================================================
