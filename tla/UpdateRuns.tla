----------------------------- MODULE UpdateRuns -----------------------------
(***************************************************************************)
(* The write side of the DjangoLux updater: admission of check, apply,     *)
(* rollback and image-update requests through the DluxUpdateState row, the *)
(* Celery state tick that executes them (dlux/tasks.py, dlux/updater/      *)
(* service.py), and the hand-off to Composer, which lives outside the      *)
(* repository and is seen only through the files it reads and writes on    *)
(* the runtime volume.                                                     *)
(*                                                                         *)
(* A DluxUpdateRun and a DluxImageUpdate are both an "operation", numbered *)
(* in creation order; that number also stands for the row's token.  Each   *)
(* read or write of a row or a file that another process may get between   *)
(* is a step of its own; a transaction that holds the state row's lock is  *)
(* one step.                                                               *)
(***************************************************************************)
EXTENDS Naturals, FiniteSets

CONSTANTS
  MaxOps,    \* bound on the operations ever requested
  Workers,   \* Celery processes that may execute the state tick
  NoWorker,  \* the tick lock's cache key is absent
  Faults     \* what the environment may do: a worker is killed ("crash"), a
             \* step outlives the tick lock ("long"), a time-out elapses
             \* ("late"), Composer acts on a row that already ended ("tardy")

ASSUME UpdateRunsAssumption ==
  /\ MaxOps \in Nat
  /\ NoWorker \notin Workers
  /\ Faults \subseteq {"crash", "long", "late", "tardy"}

Ops == 1..MaxOps
NoOp == 0                 \* the empty token
Tokens == Ops \cup {NoOp}

VARIABLES
  ops,       \* DluxUpdateRun and DluxImageUpdate rows
  token,     \* DluxUpdateState.active_run_token
  lock,      \* cache key dlux.state_tick.lock, with the tick that added it
  tick,      \* per worker: where its tick is, and the locals it carries
  maint,     \* state/maintenance exists
  request,   \* token in package-update-request.json
  ack,       \* token in package-update-request.json.ack
  checkReq,  \* token in check-request.json
  checkAck,  \* token in check-request.json.ack
  trigger,   \* token in the image trigger file
  trigAck,   \* token in the image trigger's ack
  deploy,    \* deploy-status.json: its status, and whether it was written
             \* at or after the active image row's handoff_at
  busy,      \* operations Composer is executing
  did,       \* what Composer did for each operation
  rebuilt,   \* a recreated container has not reconciled its state row yet
  age        \* time-outs elapsed since started_at, check_requested_at or
             \* handoff_at, whichever the operation's deadline counts from

rows == <<ops, token>>
pkgFiles == <<request, ack>>
checkFiles == <<checkReq, checkAck>>
imageFiles == <<trigger, trigAck>>
files == <<maint, request, ack, checkReq, checkAck, trigger, trigAck, deploy>>
world == <<busy, did, rebuilt, age>>
vars == <<rows, lock, tick, files, world>>

RunKinds == {"check", "apply", "rollback"}
Kinds == RunKinds \cup {"image"}
ActiveStatuses == {"queued", "pending", "checking", "downloading",
                   "backing_up", "applying", "awaiting_recreate"}
TerminalStatuses == {"completed", "failed", "rolled_back"}
Statuses == {"none"} \cup ActiveStatuses \cup TerminalStatuses

(* pinned: the image target is a DjangoLux version and not a digest;       *)
(* skip: backup_mode is "skip"; backed: backup_token is set; asked: the    *)
(* run's report has a check_requested_at.                                  *)
Row == [kind : Kinds \cup {"none"}, status : Statuses, active : BOOLEAN,
        pinned : BOOLEAN, skip : BOOLEAN, backed : BOOLEAN, asked : BOOLEAN]
NoRow == [kind |-> "none", status |-> "none", active |-> FALSE,
          pinned |-> FALSE, skip |-> FALSE, backed |-> FALSE, asked |-> FALSE]

Steps == {"off", "reconcile", "claim", "ask", "load", "save", "finish",
          "handoff", "backup", "request", "applying", "check", "package",
          "collect", "settle", "image", "begin", "finalize", "image_backup",
          "maintain", "trigger", "await", "release"}
LongSteps == {"backup", "collect", "image_backup"}
Tick == [at : Steps, op : Tokens, snap : Tokens, next : Steps]
Idle == [at |-> "off", op |-> NoOp, snap |-> NoOp, next |-> "off"]

Outcomes == {"none", "applied", "rolled_back", "failed"}
DeployStatuses == {"none", "preparing", "running", "ready"} \cup Statuses

Active == {o \in Ops : ops[o].active}
ActiveImages == {o \in Active : ops[o].kind = "image"}
IsOldest(o, S) == o \in S /\ \A p \in S : o <= p     \* order_by("created_at").first()

Init ==
  /\ ops = [o \in Ops |-> NoRow]
  /\ token = NoOp
  /\ lock = NoWorker
  /\ tick = [w \in Workers |-> Idle]
  /\ maint = FALSE
  /\ request = NoOp /\ ack = NoOp
  /\ checkReq = NoOp /\ checkAck = NoOp
  /\ trigger = NoOp /\ trigAck = NoOp
  /\ deploy = [status |-> "none", fresh |-> FALSE]
  /\ busy = {}
  /\ did = [o \in Ops |-> "none"]
  /\ rebuilt = FALSE
  /\ age = [o \in Ops |-> 0]

-----------------------------------------------------------------------------
(* Admission, from web views, the agent bridge and the daily schedule.     *)

(* Mutant: the kind lands in the status column.                            *)
NewRowSwapped(kind, status, pinned, skip) ==
  [NoRow EXCEPT !.kind = kind, !.status = kind, !.active = TRUE,
                !.pinned = pinned, !.skip = skip]

NewRow(kind, status, pinned, skip) ==
  [NoRow EXCEPT !.kind = kind, !.status = status, !.active = TRUE,
                !.pinned = pinned, !.skip = skip]

Unused(o) == ops[o].kind = "none" /\ \A p \in Ops : p < o => ops[p].kind # "none"

(* queue_run under the state row's lock: a token that no longer names an   *)
(* active run is dropped.  Whether a release is on offer is UpdatePolicy's *)
(* concern, so an apply is admitted here whenever nothing else runs.       *)
QueueRun(kind) ==
  /\ ActiveImages = {}
  /\ token \in Active => ops[token].kind \notin RunKinds
  /\ \E o \in Ops, skip \in BOOLEAN :
       /\ Unused(o)
       /\ kind = "check" => ~skip
       /\ ops' = [ops EXCEPT ![o] = NewRow(kind, "queued", FALSE, skip)]
       /\ token' = o
  /\ UNCHANGED <<lock, tick, files, world>>

(* Mutant: an image update is queued beside an active run.                 *)
QueueImageBesideRun ==
  /\ ActiveImages = {}
  /\ \E o \in Ops, pinned, skip \in BOOLEAN :
       /\ Unused(o)
       /\ ops' = [ops EXCEPT ![o] = NewRow("image", "pending", pinned, skip)]
  /\ UNCHANGED <<token, lock, tick, files, world>>

(* queue_image_update: any recorded token refuses it, even a stale one.    *)
QueueImage ==
  /\ token = NoOp
  /\ ActiveImages = {}
  /\ \E o \in Ops, pinned, skip \in BOOLEAN :
       /\ Unused(o)
       /\ ops' = [ops EXCEPT ![o] = NewRow("image", "pending", pinned, skip)]
  /\ UNCHANGED <<token, lock, tick, files, world>>

-----------------------------------------------------------------------------
(* The state tick.  Goto moves a worker's tick to its next step, keeping   *)
(* its locals; Carry also records the row it holds.                        *)

At(w, step) == tick[w].at = step
Goto(w, step) == tick' = [tick EXCEPT ![w].at = step]
Carry(w, step, o, next) ==
  tick' = [tick EXCEPT ![w].at = step, ![w].op = o, ![w].next = next]

(* _mirror_inline_progress: an inline run publishes its phase into the     *)
(* same file Composer reports an image update in.                          *)
Mirror(o, status) ==
  deploy' = IF ops[o].kind \in {"apply", "rollback"}
              THEN [status |-> status, fresh |-> TRUE] ELSE deploy

SetStatus(o, status) == ops' = [ops EXCEPT ![o].status = status]

(* Mutant: a run that fails keeps the token.                               *)
FinishRunKeepsToken(o, status) ==
  /\ ops' = [ops EXCEPT ![o].status = status, ![o].active = FALSE]
  /\ token' = IF token = o /\ status # "failed" THEN NoOp ELSE token
  /\ Mirror(o, status)

(* run.finish and the token's release are one transaction on the state row.*)
FinishRun(o, status) ==
  /\ ops' = [ops EXCEPT ![o].status = status, ![o].active = FALSE]
  /\ token' = IF token = o THEN NoOp ELSE token
  /\ Mirror(o, status)

Complete(o, status) == FinishRun(o, status) /\ UNCHANGED maint
HandleFailure(o) == FinishRun(o, "failed") /\ maint' = FALSE

(* Mutant: a failed image update leaves the maintenance page up.           *)
FinishImageKeepsFlag(o, status) ==
  /\ ops' = [ops EXCEPT ![o].status = status, ![o].active = FALSE]
  /\ maint' = (maint /\ status = "failed")
  /\ UNCHANGED <<token, deploy>>

(* Mutant: an image update that could not begin is reported as completed.  *)
FinishImageAsCompleted(o, status) ==
  /\ ops' = [ops EXCEPT ![o].status = "completed", ![o].active = FALSE]
  /\ maint' = FALSE
  /\ UNCHANGED <<token, deploy>>

FinishImage(o, status) ==
  /\ ops' = [ops EXCEPT ![o].status = status, ![o].active = FALSE]
  /\ maint' = FALSE
  /\ UNCHANGED <<token, deploy>>

(* Mutant: cache.set in place of cache.add.                                *)
TickStartTakesLock(w) ==
  /\ At(w, "off")
  /\ lock' = w
  /\ tick' = [tick EXCEPT ![w] = [Idle EXCEPT !.at = "reconcile"]]
  /\ UNCHANGED <<rows, files, world>>

TickStart(w) ==
  /\ At(w, "off") /\ lock = NoWorker
  /\ lock' = w
  /\ tick' = [tick EXCEPT ![w] = [Idle EXCEPT !.at = "reconcile"]]
  /\ UNCHANGED <<rows, files, world>>

(* reconcile_state_if_due.  Of what reconcile does, the maintenance flag   *)
(* concerns this module: a newer baked image lowers it outright, a runtime *)
(* that has converged on a healthy release only when nothing owns it.      *)
(* Mutant: reconcile only looks for an inline owner.                       *)
MayLowerUnderImage == token = NoOp

MayLower == token = NoOp /\ ActiveImages = {}

Reconcile(w) ==
  /\ At(w, "reconcile")
  /\ \/ rebuilt /\ rebuilt' = FALSE /\ maint' = FALSE
     \/ ~rebuilt /\ MayLower /\ maint' = FALSE /\ UNCHANGED rebuilt
     \/ ~rebuilt /\ UNCHANGED <<maint, rebuilt>>
  /\ Goto(w, "claim")
  /\ UNCHANGED <<rows, lock, pkgFiles, checkFiles, imageFiles, deploy, busy, did, age>>

Queued == {o \in Active : ops[o].kind \in RunKinds /\ ops[o].status = "queued"}

Claim(w) ==
  /\ At(w, "claim")
  /\ \E o \in Queued :
       LET isCheck == ops[o].kind = "check"
       IN /\ IsOldest(o, Queued)
          /\ SetStatus(o, IF isCheck THEN "checking" ELSE "downloading")
          /\ Carry(w, IF isCheck THEN "ask" ELSE "handoff", o, "check")
  /\ UNCHANGED <<token, lock, files, world>>

ClaimNothing(w) ==
  /\ At(w, "claim") /\ Queued = {}
  /\ Goto(w, "check")
  /\ UNCHANGED <<rows, lock, files, world>>

(* _process_check_via_composer: an unwritable request falls back to the    *)
(* last published report.                                                  *)
AskComposer(w) ==
  /\ At(w, "ask")
  /\ \/ /\ checkReq' = tick[w].op
        /\ ops' = [ops EXCEPT ![tick[w].op].asked = TRUE]
        /\ Goto(w, "check")
     \/ Goto(w, "load") /\ UNCHANGED <<checkReq, ops>>
  /\ UNCHANGED <<token, lock, maint, pkgFiles, checkAck, imageFiles, deploy, world>>

(* _finish_check_from_report reads the state row, then saves every column  *)
(* of it, active_run_token included, then completes the run.               *)
LoadState(w) ==
  /\ At(w, "load")
  /\ tick' = [tick EXCEPT ![w].at = "save", ![w].snap = token]
  /\ UNCHANGED <<rows, lock, files, world>>

SaveState(w) ==
  /\ At(w, "save")
  /\ token' = tick[w].snap
  /\ Goto(w, "finish")
  /\ UNCHANGED <<ops, lock, files, world>>

FinishCheck(w) ==
  /\ At(w, "finish")
  /\ Complete(tick[w].op, "completed")
  /\ Goto(w, tick[w].next)
  /\ UNCHANGED <<lock, pkgFiles, checkFiles, imageFiles, world>>

(* The report could not be read into the row: _handle_failure instead.     *)
FailCheck(w) ==
  /\ At(w, "load")
  /\ HandleFailure(tick[w].op)
  /\ Goto(w, tick[w].next)
  /\ UNCHANGED <<lock, pkgFiles, checkFiles, imageFiles, world>>

(* _handoff_to_composer: refuse while a request is unacknowledged, back    *)
(* up, write the request, mark the run applying.                           *)
PendingRequest == request # NoOp /\ request # ack

(* Mutant: the unacknowledged request is not looked for.                   *)
BeginHandoffAnyway(w) ==
  /\ At(w, "handoff")
  /\ SetStatus(tick[w].op, "backing_up")
  /\ Mirror(tick[w].op, "backing_up")
  /\ Goto(w, "backup")
  /\ UNCHANGED <<token, lock, maint, pkgFiles, checkFiles, imageFiles, world>>

BeginHandoff(w) ==
  /\ At(w, "handoff") /\ ~PendingRequest
  /\ SetStatus(tick[w].op, "backing_up")
  /\ Mirror(tick[w].op, "backing_up")
  /\ Goto(w, "backup")
  /\ UNCHANGED <<token, lock, maint, pkgFiles, checkFiles, imageFiles, world>>

RefuseHandoff(w) ==
  /\ At(w, "handoff") /\ PendingRequest
  /\ HandleFailure(tick[w].op)
  /\ Goto(w, "check")
  /\ UNCHANGED <<lock, pkgFiles, checkFiles, imageFiles, world>>

(* _create_backup, run inline in the tick.                                 *)
BackUp(w) ==
  /\ At(w, "backup")
  /\ ops' = [ops EXCEPT ![tick[w].op].backed = ~ops[tick[w].op].skip]
  /\ Goto(w, "request")
  /\ UNCHANGED <<token, lock, files, world>>

(* Mutant: a failed hand-off does not return.                              *)
FailHandoffGoesOn(w) ==
  /\ \/ At(w, "backup") /\ ~ops[tick[w].op].skip
     \/ At(w, "request")
  /\ HandleFailure(tick[w].op)
  /\ Goto(w, "applying")
  /\ UNCHANGED <<lock, pkgFiles, checkFiles, imageFiles, world>>

(* The backup failed, or the request file could not be written.            *)
FailHandoff(w) ==
  /\ \/ At(w, "backup") /\ ~ops[tick[w].op].skip
     \/ At(w, "request")
  /\ HandleFailure(tick[w].op)
  /\ Goto(w, "check")
  /\ UNCHANGED <<lock, pkgFiles, checkFiles, imageFiles, world>>

WriteRequest(w) ==
  /\ At(w, "request")
  /\ request' = tick[w].op
  /\ Goto(w, "applying")
  /\ UNCHANGED <<rows, lock, maint, ack, checkFiles, imageFiles, deploy, world>>

MarkApplying(w) ==
  /\ At(w, "applying")
  /\ SetStatus(tick[w].op, "applying")
  /\ Goto(w, "check")
  /\ UNCHANGED <<token, lock, files, world>>

(* tick_check_request looks at the oldest check being processed only.      *)
Checking == {o \in Active : ops[o].kind = "check" /\ ops[o].status = "checking"}

CheckAnswered(o) ==
  IsOldest(o, Checking) /\ ops[o].asked /\ (checkAck = o \/ age[o] >= 1)

TickCheck(w) ==
  /\ At(w, "check")
  /\ \/ \E o \in Checking : CheckAnswered(o) /\ Carry(w, "load", o, "package")
     \/ (\A o \in Checking : ~CheckAnswered(o)) /\ Goto(w, "package")
  /\ UNCHANGED <<rows, lock, files, world>>

(* tick_package_update: only the run the token names, and only once it is  *)
(* applying.                                                               *)
Waiting == token \in Active /\ ops[token].kind \in RunKinds
                            /\ ops[token].status = "applying"

TickPackage(w) ==
  /\ At(w, "package")
  /\ \/ Waiting /\ ack = token /\ Carry(w, "collect", token, "image")
     \/ Waiting /\ ack # token /\ age[token] = 0 /\ Goto(w, "image")
     \/ ~Waiting /\ Goto(w, "image")
  /\ UNCHANGED <<rows, lock, files, world>>

ExpireHandoff(w) ==
  /\ At(w, "package") /\ Waiting /\ ack # token /\ age[token] >= 1
  /\ HandleFailure(token)
  /\ Goto(w, "image")
  /\ UNCHANGED <<lock, pkgFiles, checkFiles, imageFiles, world>>

(* _collect_static_after_handoff never raises, whatever collectstatic does.*)
CollectStatic(w) ==
  /\ At(w, "collect")
  /\ Goto(w, "settle")
  /\ UNCHANGED <<rows, lock, files, world>>

(* Mutant: anything Composer did not fail counts as applied.               *)
SettlePackageAsApplied(w) ==
  /\ At(w, "settle")
  /\ LET o == tick[w].op
     IN \/ did[o] \in {"applied", "rolled_back"} /\ Complete(o, "completed")
        \/ did[o] = "failed" /\ HandleFailure(o)
  /\ Goto(w, "image")
  /\ UNCHANGED <<lock, pkgFiles, checkFiles, imageFiles, world>>

SettlePackage(w) ==
  /\ At(w, "settle")
  /\ LET o == tick[w].op
     IN \/ did[o] = "applied" /\ Complete(o, "completed")
        \/ did[o] = "rolled_back" /\ Complete(o, "rolled_back")
        \/ did[o] = "failed" /\ HandleFailure(o)
  /\ Goto(w, "image")
  /\ UNCHANGED <<lock, pkgFiles, checkFiles, imageFiles, world>>

(* tick_image_update picks the oldest active image row and acts on the     *)
(* status it read; a row that is backing up is left alone.                 *)
TickImage(w) ==
  /\ At(w, "image")
  /\ \/ \E o \in ActiveImages :
          /\ IsOldest(o, ActiveImages)
          /\ \/ ops[o].status = "pending" /\ Carry(w, "begin", o, "release")
             \/ ops[o].status = "awaiting_recreate" /\ Carry(w, "finalize", o, "release")
             \/ ops[o].status = "backing_up" /\ Goto(w, "release")
     \/ ActiveImages = {} /\ Goto(w, "release")
  /\ UNCHANGED <<rows, lock, files, world>>

(* Mutant: the image backup is forgotten.                                  *)
BeginImageUnbacked(w) ==
  /\ At(w, "begin")
  /\ deploy' = [status |-> "preparing", fresh |-> TRUE]
  /\ SetStatus(tick[w].op, "backing_up")
  /\ Goto(w, "maintain")
  /\ UNCHANGED <<token, lock, maint, pkgFiles, checkFiles, imageFiles, world>>

BeginImage(w) ==
  /\ At(w, "begin")
  /\ deploy' = [status |-> "preparing", fresh |-> TRUE]
  /\ SetStatus(tick[w].op, "backing_up")
  /\ Goto(w, "image_backup")
  /\ UNCHANGED <<token, lock, maint, pkgFiles, checkFiles, imageFiles, world>>

BackUpImage(w) ==
  /\ At(w, "image_backup")
  /\ ops' = [ops EXCEPT ![tick[w].op].backed = ~ops[tick[w].op].skip]
  /\ Goto(w, "maintain")
  /\ UNCHANGED <<token, lock, files, world>>

RaiseMaintenance(w) ==
  /\ At(w, "maintain")
  /\ maint' = TRUE
  /\ Goto(w, "trigger")
  /\ UNCHANGED <<rows, lock, pkgFiles, checkFiles, imageFiles, deploy, world>>

WriteTrigger(w) ==
  /\ At(w, "trigger")
  /\ trigger' = tick[w].op
  /\ Goto(w, "await")
  /\ UNCHANGED <<rows, lock, maint, pkgFiles, checkFiles, trigAck, deploy, world>>

(* handoff_at is taken here, after the trigger is already visible.         *)
AwaitRecreate(w) ==
  /\ At(w, "await")
  /\ SetStatus(tick[w].op, "awaiting_recreate")
  /\ deploy' = [deploy EXCEPT !.fresh = FALSE]
  /\ Goto(w, "release")
  /\ UNCHANGED <<token, lock, maint, pkgFiles, checkFiles, imageFiles, world>>

(* The backup failed, or the flag or the trigger could not be written.     *)
FailImage(w) ==
  /\ \/ At(w, "image_backup") /\ ~ops[tick[w].op].skip
     \/ At(w, "maintain")
     \/ At(w, "trigger")
  /\ FinishImage(tick[w].op, "failed")
  /\ Goto(w, "release")
  /\ UNCHANGED <<lock, pkgFiles, checkFiles, imageFiles, world>>

(* _finalize_image_update: Composer's own ack, or any deploy status        *)
(* written since the hand-off; a target that is no version always passes.  *)
Acked(o) == trigAck = o
ReportsFailure(o) == (deploy.fresh /\ deploy.status = "failed") \/ (Acked(o) /\ did[o] = "failed")
ReportsReady(o) == (deploy.fresh /\ deploy.status = "ready") \/ (Acked(o) /\ did[o] = "applied")
TargetLive(o) == ops[o].pinned => did[o] = "applied"
(* Mutant: a Composer that reports progress is waited for without end.     *)
TimedOutUnlessHeard(o) == age[o] >= 1 /\ ~deploy.fresh /\ ~Acked(o)
TimedOut(o) == \/ age[o] >= 1 /\ ~deploy.fresh /\ ~Acked(o)
               \/ age[o] >= 2

Verdict(o) == IF ReportsFailure(o) THEN "failed"
              ELSE IF ReportsReady(o) /\ TargetLive(o) THEN "completed"
              ELSE IF TimedOut(o) THEN "failed" ELSE "none"

FinalizeImage(w) ==
  /\ At(w, "finalize")
  /\ LET o == tick[w].op
     IN IF Verdict(o) = "none" THEN UNCHANGED <<rows, maint, deploy>>
        ELSE FinishImage(o, Verdict(o))
  /\ Goto(w, "release")
  /\ UNCHANGED <<lock, pkgFiles, checkFiles, imageFiles, world>>

(* finally: cache.delete, whoever owns the key by now.                     *)
ReleaseLock(w) ==
  /\ At(w, "release")
  /\ lock' = NoWorker
  /\ tick' = [tick EXCEPT ![w] = Idle]
  /\ UNCHANGED <<rows, files, world>>

-----------------------------------------------------------------------------
(* The environment: the cache, killed workers, time, and Composer.         *)

(* The key's 120 s elapse: its tick died, or is inside a step that can     *)
(* take longer than that.                                                  *)
ExpireLock ==
  /\ lock # NoWorker
  /\ \/ At(lock, "off")
     \/ "long" \in Faults /\ tick[lock].at \in LongSteps
  /\ lock' = NoWorker
  /\ UNCHANGED <<rows, tick, files, world>>

(* The worker is killed mid-tick; `finally` does not run.                  *)
Crash(w) ==
  /\ "crash" \in Faults /\ ~At(w, "off")
  /\ tick' = [tick EXCEPT ![w] = Idle]
  /\ UNCHANGED <<rows, lock, files, world>>

Deadlines(o) == IF ops[o].kind = "image" THEN 2 ELSE 1
Timed(o) == /\ ops[o].active
            /\ \/ ops[o].kind \in {"apply", "rollback"} /\ ops[o].status # "queued"
               \/ ops[o].asked
               \/ ops[o].status = "awaiting_recreate"

TimePasses(o) ==
  /\ "late" \in Faults /\ Timed(o) /\ age[o] < Deadlines(o)
  /\ age' = [age EXCEPT ![o] = @ + 1]
  /\ UNCHANGED <<rows, lock, tick, files, busy, did, rebuilt>>

ComposerChecks ==
  /\ checkAck # checkReq
  /\ checkAck' = checkReq
  /\ UNCHANGED <<rows, lock, tick, maint, pkgFiles, checkReq, imageFiles, deploy, world>>

ComposerTakesPackage ==
  /\ PendingRequest /\ request \notin busy
  /\ busy' = busy \cup {request}
  /\ deploy' = [status |-> "running", fresh |-> TRUE]
  /\ UNCHANGED <<rows, lock, tick, maint, pkgFiles, checkFiles, imageFiles, did, rebuilt, age>>

ComposerTakesImage ==
  /\ trigger \notin {NoOp, trigAck} /\ trigger \notin busy
  /\ busy' = busy \cup {trigger}
  /\ deploy' = [status |-> "running", fresh |-> TRUE]
  /\ UNCHANGED <<rows, lock, tick, maint, pkgFiles, checkFiles, imageFiles, did, rebuilt, age>>

(* The release or the images are swapped and the containers restarted,     *)
(* which kills any tick.  Downloading takes Composer longer than the tick's*)
(* next database write, so the row already says so.                        *)
ComposerSwaps(o) ==
  /\ o \in busy /\ did[o] = "none" /\ ops[o].status # "backing_up"
  /\ ops[o].active \/ "tardy" \in Faults
  /\ \E outcome \in IF ops[o].kind = "image" THEN {"applied"} ELSE {"applied", "rolled_back"} :
       did' = [did EXCEPT ![o] = outcome]
  /\ tick' = [w \in Workers |-> Idle]
  /\ rebuilt' = (rebuilt \/ ops[o].kind = "image")
  /\ UNCHANGED <<rows, lock, files, busy, age>>

(* Composer reports the result and acknowledges.  A package result names   *)
(* its outcome, never one of the statuses an image update looks for.       *)
ComposerEnds(o) ==
  /\ o \in busy
  /\ busy' = busy \ {o}
  /\ did' = [did EXCEPT ![o] = IF @ = "none" THEN "failed" ELSE @]
  /\ IF ops[o].kind = "image"
       THEN /\ trigAck' = o /\ UNCHANGED ack
            /\ deploy' = [status |-> IF did[o] = "applied" THEN "ready" ELSE "failed", fresh |-> TRUE]
       ELSE /\ ack' = o /\ UNCHANGED trigAck
            /\ deploy' = [status |-> "none", fresh |-> TRUE]
  /\ UNCHANGED <<rows, lock, tick, maint, request, checkFiles, trigger, rebuilt, age>>

-----------------------------------------------------------------------------
Web == (\E kind \in RunKinds : QueueRun(kind)) \/ QueueImage

TickStep(w) ==
  \/ TickStart(w) \/ Reconcile(w) \/ Claim(w) \/ ClaimNothing(w)
  \/ AskComposer(w) \/ LoadState(w) \/ SaveState(w) \/ FinishCheck(w) \/ FailCheck(w)
  \/ BeginHandoff(w) \/ RefuseHandoff(w) \/ BackUp(w) \/ FailHandoff(w)
  \/ WriteRequest(w) \/ MarkApplying(w)
  \/ TickCheck(w) \/ TickPackage(w) \/ ExpireHandoff(w)
  \/ CollectStatic(w) \/ SettlePackage(w)
  \/ TickImage(w) \/ BeginImage(w) \/ BackUpImage(w) \/ RaiseMaintenance(w)
  \/ WriteTrigger(w) \/ AwaitRecreate(w) \/ FailImage(w) \/ FinalizeImage(w)
  \/ ReleaseLock(w)

Composer ==
  \/ ComposerChecks \/ ComposerTakesPackage \/ ComposerTakesImage
  \/ \E o \in Ops : ComposerSwaps(o) \/ ComposerEnds(o)

Environment ==
  \/ ExpireLock
  \/ \E w \in Workers : Crash(w)
  \/ \E o \in Ops : TimePasses(o)
  \/ Composer

Next == Web \/ (\E w \in Workers : TickStep(w)) \/ Environment

Spec == Init /\ [][Next]_vars

(* Beat fires the tick every five seconds and Celery runs it; the cache    *)
(* forgets an expired key; clocks advance.  Nothing is assumed of Composer *)
(* or of the web tier.                                                     *)
Fairness ==
  /\ \A w \in Workers : WF_vars(TickStep(w))
  /\ WF_vars(ExpireLock)
  /\ \A o \in Ops : WF_vars(TimePasses(o))

FairSpec == Spec /\ Fairness

-----------------------------------------------------------------------------
(* Properties.                                                             *)

(* Every variable keeps the type its column or file has.                   *)
TypeOK ==
  /\ ops \in [Ops -> Row]
  /\ token \in Tokens
  /\ lock \in Workers \cup {NoWorker}
  /\ tick \in [Workers -> Tick]
  /\ maint \in BOOLEAN
  /\ request \in Tokens /\ ack \in Tokens
  /\ checkReq \in Tokens /\ checkAck \in Tokens
  /\ trigger \in Tokens /\ trigAck \in Tokens
  /\ deploy \in [status : DeployStatuses, fresh : BOOLEAN]
  /\ busy \in SUBSET Ops
  /\ did \in [Ops -> Outcomes]
  /\ rebuilt \in BOOLEAN
  /\ age \in [Ops -> 0..2]

(* One tick at a time: the cache lock in dlux_state_tick_task, through the *)
(* kill of a worker that holds it; its expiry under a live tick is "long". *)
OneTick == \A v, w \in Workers : ~At(v, "off") /\ ~At(w, "off") => v = w

(* At most one operation, inline or image, is active: the admission        *)
(* promise of docs/inline-updater.md, kept by the state row's lock.        *)
OneOperation == \A o, p \in Active : o = p

(* The token names the active run, so tick_package_update can find it, and *)
(* names nothing else, so queue_image_update is not refused for ever.      *)
TokenNamesTheActiveRun ==
  \A o \in Ops : (ops[o].active /\ ops[o].kind \in RunKinds) <=> token = o

(* Composer is told to swap or recreate only once the operation's backup   *)
(* is taken, unless the operator skipped it (_handoff_to_composer,         *)
(* _begin_image_update).                                                   *)
BackupBeforeIntent ==
  \A o \in {request, trigger} \ {NoOp} : ops[o].backed \/ ops[o].skip

(* The maintenance flag, which makes the proxy answer 503 for the whole    *)
(* site, is up only while an image update that will lower it is active.    *)
MaintenanceIsOwned ==
  maint => \E o \in ActiveImages : ops[o].status \in {"backing_up", "awaiting_recreate"}

(* Between the hand-off of an image update and Composer's answer the site  *)
(* stays behind the maintenance page: no reconcile lowers the flag.        *)
AwaitingIsMasked ==
  \A o \in ActiveImages : ops[o].status = "awaiting_recreate" /\ did[o] = "none" => maint

(* An operation reported completed was really carried out by Composer, and *)
(* a rolled-back one was rolled back.                                      *)
VerdictIsComposers ==
  \A o \in Ops : /\ ops[o].status = "completed" /\ ops[o].kind # "check" => did[o] = "applied"
                 /\ ops[o].status = "rolled_back" => did[o] = "rolled_back"

(* A package request is never overwritten before Composer acknowledged it: *)
(* two swaps of one volume would race over active.json.                    *)
RequestIsNotOverwritten == [][request' # request => ~PendingRequest]_vars

(* A finished operation is never revived or given another verdict.         *)
TerminalIsFinal ==
  [][\A o \in Ops : ops[o].status \in TerminalStatuses => ops'[o].status = ops[o].status]_vars

(* Composer is never executing two operations on the runtime volume.       *)
ComposerDoesOneThing == Cardinality(busy) <= 1

(* Every admitted operation ends, so that the next one can be admitted.    *)
EveryOperationEnds == \A o \in Ops : ops[o].active ~> ~ops[o].active
-----------------------------------------------------------------------------
(* The refinement: the rows, and what Composer did for them, as the        *)
(* operator sees them.                                                     *)

UnderWay == IF Active = {} THEN NoOp ELSE CHOOSE o \in Active : TRUE
Asked(o) == CASE ops[o].kind = "none" -> "nothing"
              [] ops[o].kind = "check" -> "check"
              [] OTHER -> "change"

Promise == INSTANCE OneAtATime WITH
  current <- UnderWay,
  asked <- [o \in Ops |-> Asked(o)],
  effect <- [o \in Ops |-> IF did[o] = "failed" THEN "none" ELSE did[o]],
  verdict <- [o \in Ops |-> IF ops[o].status \in TerminalStatuses
                              THEN ops[o].status ELSE "none"]

(* Ticks of several workers, killed at any point, and Composer's files     *)
(* together do no more than one operation at a time, each carried out at   *)
(* most once and reported as what happened (docs/inline-updater.md).       *)
KeepsThePromise == Promise!Spec
=============================================================================
