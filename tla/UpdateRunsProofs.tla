-------------------------- MODULE UpdateRunsProofs --------------------------
(***************************************************************************)
(* Proofs about UpdateRuns, for any number of operations and workers: its  *)
(* types under every fault; admission, the tick, the maintenance flag, the *)
(* pre-update backup, and the finality of verdicts and requests when no    *)
(* step outlives the tick lock (with it, they do not hold); the mask over  *)
(* a hand-off when Composer leaves ended requests alone as well; Composer's *)
(* verdicts and the refinement of OneAtATime when nothing times out.       *)
(***************************************************************************)
EXTENDS UpdateRuns, FiniteSetTheorems, TLAPS

(* Where a tick carries a run, and where it carries an image row.           *)
RunSteps == {"ask", "load", "save", "finish", "handoff", "backup", "request",
             "applying", "collect", "settle"}
ImageBusySteps == {"image_backup", "maintain", "trigger", "await"}
ImageSteps == {"begin", "finalize"} \cup ImageBusySteps

(* Nobody ticks without the lock, unless the lock is the ticker's.         *)
LockHeld == \A w \in Workers : ~At(w, "off") => lock = w

(* What a tick at each step may count on: the row it carries is active and *)
(* of the kind the step expects, the token it is about to save is current, *)
(* and the backup behind the intent it is about to write is taken.         *)
Holds(t) ==
  /\ t.at \in RunSteps => t.op \in Active /\ ops[t.op].kind \in RunKinds
  /\ t.at \in ImageSteps => t.op \in ActiveImages
  /\ t.at \in ImageBusySteps => ops[t.op].status = "backing_up"
  /\ t.at = "save" => t.snap = t.op
  /\ t.at \in {"ask", "load", "save", "finish"} => t.next \in {"check", "package"}
  /\ t.at \in {"request", "maintain", "trigger"} => ops[t.op].backed \/ ops[t.op].skip

TickInv == LockHeld /\ \A w \in Workers : Holds(tick[w])

(* A row that was never created is blank; an intent names a created row.   *)
CreatedRows ==
  /\ \A o \in Ops : ops[o].kind = "none" => ~ops[o].active
  /\ \A o \in {request, trigger} \ {NoOp} : ops[o].kind # "none"

RowInv ==
  /\ CreatedRows
  /\ OneOperation
  /\ TokenNamesTheActiveRun
  /\ MaintenanceIsOwned
  /\ BackupBeforeIntent

IInv == TickInv /\ RowInv

(* Helpers of the actions keep the types.                                  *)
LEMMA NoRowType == NoRow \in Row
  BY DEF NoRow, Row, Statuses

LEMMA IdleType == Idle \in Tick
  BY DEF Idle, Tick, Steps, Tokens

LEMMA GotoType ==
  ASSUME NEW w \in Workers, NEW step \in Steps, TypeOK, Goto(w, step)
  PROVE  tick' \in [Workers -> Tick]
  BY DEF TypeOK, Goto, Tick

LEMMA CarryType ==
  ASSUME NEW w \in Workers, NEW step \in Steps, NEW o \in Tokens, NEW next \in Steps,
         TypeOK, Carry(w, step, o, next)
  PROVE  tick' \in [Workers -> Tick]
<1> DEFINE new == [tick[w] EXCEPT !.at = step, !.op = o, !.next = next]
<1>1. tick \in [Workers -> Tick] /\ tick[w] \in Tick
  BY DEF TypeOK
<1>2. new \in Tick
  BY <1>1 DEF Tick
<1>3. tick' = [tick EXCEPT ![w] = new]
  BY <1>1 DEF Carry
<1> HIDE DEF new
<1>4. QED
  BY <1>1, <1>2, <1>3

LEMMA SetStatusType ==
  ASSUME NEW o, NEW status \in Statuses, TypeOK, SetStatus(o, status)
  PROVE  ops' \in [Ops -> Row]
<1>1. ASSUME o \in Ops PROVE [ops[o] EXCEPT !.status = status] \in Row
  <2>1. ops[o] \in Row
    BY <1>1 DEF TypeOK
  <2> QED BY <2>1 DEF Row
<1>2. CASE o \in Ops
  BY <1>1, <1>2 DEF TypeOK, SetStatus
<1>3. CASE o \notin Ops
  BY <1>3 DEF TypeOK, SetStatus
<1> QED BY <1>2, <1>3

LEMMA BackedType ==
  ASSUME NEW o, TypeOK, ops' = [ops EXCEPT ![o].backed = ~ops[o].skip]
  PROVE  ops' \in [Ops -> Row]
<1>1. ASSUME o \in Ops PROVE [ops[o] EXCEPT !.backed = ~ops[o].skip] \in Row
  <2>1. ops[o] \in Row
    BY <1>1 DEF TypeOK
  <2> QED BY <2>1 DEF Row
<1>2. CASE o \in Ops
  BY <1>1, <1>2 DEF TypeOK
<1>3. CASE o \notin Ops
  BY <1>3 DEF TypeOK
<1> QED BY <1>2, <1>3

LEMMA EndRowType ==
  ASSUME NEW o, NEW status \in Statuses, TypeOK,
         ops' = [ops EXCEPT ![o].status = status, ![o].active = FALSE]
  PROVE  ops' \in [Ops -> Row]
<1> DEFINE r == [ops[o] EXCEPT !.status = status, !.active = FALSE]
<1>1. ASSUME o \in Ops PROVE r \in Row
  <2>1. ops[o] \in Row
    BY <1>1 DEF TypeOK
  <2>2. QED
    BY <2>1 DEF Row
<1>2. CASE o \in Ops
  <2>1. ops' = [ops EXCEPT ![o] = r]
    BY <1>2 DEF TypeOK
  <2> QED BY <1>1, <1>2, <2>1 DEF TypeOK
<1>3. CASE o \notin Ops
  BY <1>3 DEF TypeOK
<1> QED BY <1>2, <1>3

LEMMA FinishRunType ==
  ASSUME NEW o, NEW status \in Statuses, TypeOK, FinishRun(o, status)
  PROVE  /\ ops' \in [Ops -> Row]
         /\ token' \in Tokens
         /\ deploy' \in [status : DeployStatuses, fresh : BOOLEAN]
<1>1. ops' \in [Ops -> Row]
  BY EndRowType DEF FinishRun
<1>2. token' \in Tokens
  BY DEF TypeOK, FinishRun, Tokens
<1>3. deploy' \in [status : DeployStatuses, fresh : BOOLEAN]
  BY DEF TypeOK, FinishRun, Mirror, DeployStatuses
<1> QED BY <1>1, <1>2, <1>3

LEMMA FinishImageType ==
  ASSUME NEW o, NEW status \in Statuses, TypeOK, FinishImage(o, status)
  PROVE  /\ ops' \in [Ops -> Row]
         /\ token' \in Tokens
         /\ deploy' \in [status : DeployStatuses, fresh : BOOLEAN]
         /\ maint' \in BOOLEAN
<1>1. ops' \in [Ops -> Row]
  BY EndRowType DEF FinishImage
<1> QED BY <1>1 DEF TypeOK, FinishImage

LEMMA InitType == Init => TypeOK
<1> SUFFICES ASSUME Init PROVE TypeOK
  OBVIOUS
<1> USE DEF Init
<1>1. ops \in [Ops -> Row]
  BY NoRowType
<1>2. tick \in [Workers -> Tick]
  BY IdleType
<1>3. deploy \in [status : DeployStatuses, fresh : BOOLEAN]
  BY DEF DeployStatuses
<1>4. did \in [Ops -> Outcomes]
  BY DEF Outcomes
<1>5. age \in [Ops -> 0..2]
  OBVIOUS
<1> QED BY <1>1, <1>2, <1>3, <1>4, <1>5 DEF TypeOK, Tokens

LEMMA AskedType ==
  ASSUME NEW o, TypeOK, ops' = [ops EXCEPT ![o].asked = TRUE]
  PROVE  ops' \in [Ops -> Row]
<1>1. ASSUME o \in Ops PROVE [ops[o] EXCEPT !.asked = TRUE] \in Row
  <2>1. ops[o] \in Row
    BY <1>1 DEF TypeOK
  <2> QED BY <2>1 DEF Row
<1>2. CASE o \in Ops
  BY <1>1, <1>2 DEF TypeOK
<1>3. CASE o \notin Ops
  BY <1>3 DEF TypeOK
<1> QED BY <1>2, <1>3

LEMMA LoadedType ==
  ASSUME NEW w \in Workers, TypeOK, LoadState(w)
  PROVE  tick' \in [Workers -> Tick]
<1> DEFINE t == [tick[w] EXCEPT !.at = "save", !.snap = token]
<1>1. t \in Tick
  <2>1. tick[w] \in Tick /\ token \in Tokens
    BY DEF TypeOK
  <2>2. QED
    BY <2>1 DEF Tick, Steps
<1>2. tick' = [tick EXCEPT ![w] = t]
  BY DEF TypeOK, LoadState
<1> QED BY <1>1, <1>2 DEF TypeOK

(* Every step of a tick keeps the types.                                   *)
LEMMA TickType ==
  ASSUME TypeOK, NEW w \in Workers, TickStep(w)
  PROVE  TypeOK'
<1> USE DEF TypeOK, rows, files, pkgFiles, checkFiles, imageFiles, world
<1>1. ASSUME TickStart(w) PROVE TypeOK'
  BY <1>1 DEF TickStart, Tick, Idle, Steps, Tokens
<1>2. ASSUME Reconcile(w) PROVE TypeOK'
  BY <1>2, GotoType DEF Reconcile, Steps
<1>3. ASSUME Claim(w) PROVE TypeOK'
  <2>1. PICK o \in Tokens, step \in {"ask", "handoff"}, status \in {"checking", "downloading"} :
          SetStatus(o, status) /\ Carry(w, step, o, "check")
    BY <1>3 DEF Claim, Queued, Active, Tokens
  <2>2. ops' \in [Ops -> Row]
    BY <2>1, SetStatusType DEF Statuses, ActiveStatuses
  <2>3. tick' \in [Workers -> Tick]
    <3>1. step \in Steps /\ "check" \in Steps /\ Carry(w, step, o, "check")
      BY <2>1 DEF Steps
    <3> QED BY <3>1, CarryType
  <2> QED BY <1>3, <2>2, <2>3 DEF Claim
<1>4. ASSUME ClaimNothing(w) PROVE TypeOK'
  BY <1>4, GotoType DEF ClaimNothing, Steps
<1>5. ASSUME AskComposer(w) PROVE TypeOK'
  <2>1. tick[w].op \in Tokens
    BY DEF Tick
  <2>2. PICK step \in Steps : Goto(w, step)
    BY <1>5 DEF AskComposer, Steps
  <2>3. tick' \in [Workers -> Tick]
    BY <2>2, GotoType
  <2>4. ops' \in [Ops -> Row]
    BY <1>5, AskedType DEF AskComposer
  <2> QED BY <1>5, <2>1, <2>3, <2>4 DEF AskComposer
<1>6. ASSUME LoadState(w) PROVE TypeOK'
  BY <1>6, LoadedType DEF LoadState
<1>7. ASSUME SaveState(w) PROVE TypeOK'
  BY <1>7, GotoType DEF SaveState, Tick, Steps
<1>8. ASSUME FinishCheck(w) PROVE TypeOK'
  BY <1>8, FinishRunType, GotoType DEF FinishCheck, Complete, Tick,
     Statuses, TerminalStatuses
<1>9. ASSUME FailCheck(w) PROVE TypeOK'
  BY <1>9, FinishRunType, GotoType DEF FailCheck, HandleFailure, Tick,
     Statuses, TerminalStatuses
<1>10. ASSUME BeginHandoff(w) PROVE TypeOK'
  BY <1>10, SetStatusType, GotoType DEF BeginHandoff, Mirror,
     DeployStatuses, Steps, Statuses, ActiveStatuses
<1>11. ASSUME RefuseHandoff(w) PROVE TypeOK'
  BY <1>11, FinishRunType, GotoType DEF RefuseHandoff, HandleFailure, Steps,
     Statuses, TerminalStatuses
<1>12. ASSUME BackUp(w) PROVE TypeOK'
  BY <1>12, BackedType, GotoType DEF BackUp, Steps
<1>13. ASSUME FailHandoff(w) PROVE TypeOK'
  BY <1>13, FinishRunType, GotoType DEF FailHandoff, HandleFailure, Steps,
     Statuses, TerminalStatuses
<1>14. ASSUME WriteRequest(w) PROVE TypeOK'
  BY <1>14, GotoType DEF WriteRequest, Tick, Steps
<1>15. ASSUME MarkApplying(w) PROVE TypeOK'
  BY <1>15, SetStatusType, GotoType DEF MarkApplying, Steps, Statuses,
     ActiveStatuses
<1>16. ASSUME TickCheck(w) PROVE TypeOK'
  <2>1. tick' \in [Workers -> Tick]
    <3>1. CASE Goto(w, "package")
      BY <3>1, GotoType DEF Steps
    <3>2. ASSUME NEW o \in Checking, Carry(w, "load", o, "package")
          PROVE tick' \in [Workers -> Tick]
      BY <3>2, CarryType DEF Steps, Checking, Active, Tokens
    <3> QED BY <1>16, <3>1, <3>2 DEF TickCheck
  <2> QED BY <1>16, <2>1 DEF TickCheck
<1>17. ASSUME TickPackage(w) PROVE TypeOK'
  BY <1>17, GotoType, CarryType DEF TickPackage, Steps
<1>18. ASSUME ExpireHandoff(w) PROVE TypeOK'
  BY <1>18, FinishRunType, GotoType DEF ExpireHandoff, HandleFailure, Steps,
     Statuses, TerminalStatuses
<1>19. ASSUME CollectStatic(w) PROVE TypeOK'
  BY <1>19, GotoType DEF CollectStatic, Steps
<1>20. ASSUME SettlePackage(w) PROVE TypeOK'
  BY <1>20, FinishRunType, GotoType DEF SettlePackage, Complete,
     HandleFailure, Steps, Statuses, TerminalStatuses
<1>21. ASSUME TickImage(w) PROVE TypeOK'
  <2>1. tick' \in [Workers -> Tick]
    <3>1. CASE Goto(w, "release")
      BY <3>1, GotoType DEF Steps
    <3>2. ASSUME NEW o \in ActiveImages, Carry(w, "begin", o, "release")
          PROVE tick' \in [Workers -> Tick]
      BY <3>2, CarryType DEF Steps, ActiveImages, Active, Tokens
    <3>3. ASSUME NEW o \in ActiveImages, Carry(w, "finalize", o, "release")
          PROVE tick' \in [Workers -> Tick]
      BY <3>3, CarryType DEF Steps, ActiveImages, Active, Tokens
    <3> QED BY <1>21, <3>1, <3>2, <3>3 DEF TickImage
  <2> QED BY <1>21, <2>1 DEF TickImage
<1>22. ASSUME BeginImage(w) PROVE TypeOK'
  BY <1>22, SetStatusType, GotoType DEF BeginImage, DeployStatuses, Steps,
     Statuses, ActiveStatuses
<1>23. ASSUME BackUpImage(w) PROVE TypeOK'
  BY <1>23, BackedType, GotoType DEF BackUpImage, Steps
<1>24. ASSUME RaiseMaintenance(w) PROVE TypeOK'
  BY <1>24, GotoType DEF RaiseMaintenance, Steps
<1>25. ASSUME WriteTrigger(w) PROVE TypeOK'
  BY <1>25, GotoType DEF WriteTrigger, Tick, Steps
<1>26. ASSUME AwaitRecreate(w) PROVE TypeOK'
  BY <1>26, SetStatusType, GotoType DEF AwaitRecreate, Steps, Statuses,
     ActiveStatuses
<1>27. ASSUME FailImage(w) PROVE TypeOK'
  BY <1>27, FinishImageType, GotoType DEF FailImage, Steps, Statuses,
     TerminalStatuses
<1>28. ASSUME FinalizeImage(w) PROVE TypeOK'
  BY <1>28, FinishImageType, GotoType DEF FinalizeImage, Verdict, Steps,
     Statuses, TerminalStatuses
<1>29. ASSUME ReleaseLock(w) PROVE TypeOK'
  BY <1>29, IdleType DEF ReleaseLock
<1> QED
  BY TickStep(w), <1>1, <1>2, <1>3, <1>4, <1>5, <1>6, <1>7, <1>8, <1>9,
     <1>10, <1>11, <1>12, <1>13, <1>14, <1>15, <1>16, <1>17, <1>18, <1>19,
     <1>20, <1>21, <1>22, <1>23, <1>24, <1>25, <1>26, <1>27, <1>28, <1>29
     DEF TickStep

(* So does everything else that may happen.                                *)
LEMMA NextType == TypeOK /\ [Next]_vars => TypeOK'
<1> SUFFICES ASSUME TypeOK, [Next]_vars PROVE TypeOK'
  OBVIOUS
<1> USE DEF TypeOK, rows, files, pkgFiles, checkFiles, imageFiles, world
<1>1. ASSUME NEW kind \in RunKinds, QueueRun(kind) PROVE TypeOK'
  <2>1. ASSUME NEW skip \in BOOLEAN PROVE NewRow(kind, "queued", FALSE, skip) \in Row
    BY NoRowType DEF NewRow, Row, Kinds, Statuses, ActiveStatuses
  <2>2. PICK o \in Ops, skip \in BOOLEAN :
          /\ ops' = [ops EXCEPT ![o] = NewRow(kind, "queued", FALSE, skip)]
          /\ token' = o
          /\ UNCHANGED <<lock, tick, files, world>>
    BY <1>1 DEF QueueRun
  <2>3. ops' \in [Ops -> Row] /\ token' \in Tokens
    BY <2>1, <2>2 DEF Tokens
  <2> QED BY <2>2, <2>3
<1>2. ASSUME QueueImage PROVE TypeOK'
  <2>1. ASSUME NEW pinned \in BOOLEAN, NEW skip \in BOOLEAN
        PROVE NewRow("image", "pending", pinned, skip) \in Row
    BY NoRowType DEF NewRow, Row, Kinds, Statuses, ActiveStatuses
  <2> QED BY <1>2, <2>1 DEF QueueImage
<1>3. ASSUME NEW w \in Workers, TickStep(w) PROVE TypeOK'
  BY <1>3, TickType
<1>4. ASSUME ExpireLock PROVE TypeOK'
  BY <1>4 DEF ExpireLock
<1>5. ASSUME NEW w \in Workers, Crash(w) PROVE TypeOK'
  BY <1>5, IdleType DEF Crash
<1>6. ASSUME NEW o \in Ops, TimePasses(o) PROVE TypeOK'
  BY <1>6 DEF TimePasses, Deadlines
<1>7. ASSUME ComposerChecks PROVE TypeOK'
  BY <1>7 DEF ComposerChecks
<1>8. ASSUME ComposerTakesPackage PROVE TypeOK'
  BY <1>8 DEF ComposerTakesPackage, PendingRequest, Tokens, NoOp, DeployStatuses
<1>9. ASSUME ComposerTakesImage PROVE TypeOK'
  BY <1>9 DEF ComposerTakesImage, Tokens, NoOp, DeployStatuses
<1>10. ASSUME NEW o \in Ops, ComposerSwaps(o) PROVE TypeOK'
  BY <1>10, IdleType DEF ComposerSwaps, Outcomes
<1>11. ASSUME NEW o \in Ops, ComposerEnds(o) PROVE TypeOK'
  <2> DEFINE outcome == IF did[o] = "none" THEN "failed" ELSE did[o]
  <2>1. did' \in [Ops -> Outcomes]
    <3>1. outcome \in Outcomes
      BY DEF Outcomes
    <3>2. did' = [did EXCEPT ![o] = outcome]
      BY <1>11 DEF ComposerEnds
    <3> QED BY <3>1, <3>2
  <2>2. deploy' \in [status : DeployStatuses, fresh : BOOLEAN]
    <3>1. \E s \in {"ready", "failed", "none"} : deploy' = [status |-> s, fresh |-> TRUE]
      BY <1>11 DEF ComposerEnds
    <3> QED BY <3>1 DEF DeployStatuses, Statuses, TerminalStatuses
  <2>3. ack' \in Tokens /\ trigAck' \in Tokens
    BY <1>11 DEF ComposerEnds, Tokens
  <2> QED BY <1>11, <2>1, <2>2, <2>3 DEF ComposerEnds
<1>12. CASE UNCHANGED vars
  BY <1>12 DEF vars
<1> QED BY <1>1, <1>2, <1>3, <1>4, <1>5, <1>6, <1>7, <1>8, <1>9, <1>10, <1>11, <1>12
        DEF Next, Web, Environment, Composer

(* The variables keep their types, whatever the environment does.          *)
THEOREM TypeCorrect == Spec => []TypeOK
<1>1. Init => TypeOK
  BY InitType
<1>2. TypeOK /\ [Next]_vars => TypeOK'
  BY NextType
<1> QED BY <1>1, <1>2, PTL DEF Spec

-----------------------------------------------------------------------------
(* Safety, while no step outlives the tick lock.                           *)

(* What Goto and Carry do to the locals of every worker.                   *)
LEMMA GotoFacts ==
  ASSUME TypeOK, NEW w \in Workers, NEW step, Goto(w, step)
  PROVE  /\ \A v \in Workers : v # w => tick'[v] = tick[v]
         /\ tick'[w].at = step /\ tick'[w].op = tick[w].op
         /\ tick'[w].snap = tick[w].snap /\ tick'[w].next = tick[w].next
  BY DEF TypeOK, Goto, Tick

LEMMA CarryFacts ==
  ASSUME TypeOK, NEW w \in Workers, NEW step, NEW o, NEW next, Carry(w, step, o, next)
  PROVE  /\ \A v \in Workers : v # w => tick'[v] = tick[v]
         /\ tick'[w].at = step /\ tick'[w].op = o /\ tick'[w].next = next
  BY DEF TypeOK, Carry, Tick

(* A tick step moves the one worker that ticks; the others are off.        *)
LEMMA MoveOn ==
  ASSUME TickInv, NEW w \in Workers, ~At(w, "off"), lock' = lock,
         \A v \in Workers : v # w => tick'[v] = tick[v], Holds(tick[w])'
  PROVE  TickInv'
<1>1. ASSUME NEW v \in Workers, v # w PROVE tick'[v] = tick[v] /\ tick[v].at = "off"
  BY <1>1 DEF TickInv, LockHeld, At
<1>2. ASSUME NEW v \in Workers PROVE Holds(tick[v])'
  BY <1>1 DEF Holds, RunSteps, ImageSteps, ImageBusySteps
<1>3. LockHeld'
  BY <1>1 DEF TickInv, LockHeld, At
<1> QED BY <1>2, <1>3 DEF TickInv

(* Nothing a row property reads has changed.                               *)
LEMMA RowsKept ==
  ASSUME RowInv, UNCHANGED <<ops, token, request, trigger>>, maint' \in {maint, FALSE}
  PROVE  RowInv'
<1>1. Active' = Active /\ ActiveImages' = ActiveImages
  BY DEF Active, ActiveImages
<1>2. CreatedRows' /\ OneOperation'
  BY <1>1 DEF RowInv, CreatedRows, OneOperation
<1>3. TokenNamesTheActiveRun' /\ BackupBeforeIntent'
  BY DEF RowInv, TokenNamesTheActiveRun, BackupBeforeIntent
<1>4. MaintenanceIsOwned'
  BY <1>1 DEF RowInv, MaintenanceIsOwned
<1> QED BY <1>2, <1>3, <1>4 DEF RowInv

(* Writing the status of the active run.                                   *)
LEMMA RunStatusKept ==
  ASSUME TypeOK, RowInv, NEW o \in Active, ops[o].kind \in RunKinds, NEW status,
         SetStatus(o, status), UNCHANGED <<token, request, trigger, maint>>
  PROVE  /\ RowInv'
         /\ o \in Active' /\ ops'[o].kind = ops[o].kind
         /\ ops'[o].backed = ops[o].backed /\ ops'[o].skip = ops[o].skip
<1>1. \A p \in Ops : /\ ops'[p].active = ops[p].active
                     /\ ops'[p].kind = ops[p].kind
                     /\ ops'[p].backed = ops[p].backed /\ ops'[p].skip = ops[p].skip
                     /\ p # o => ops'[p].status = ops[p].status
  BY DEF TypeOK, SetStatus, Row, Active
<1>2. o \in Ops
  BY DEF Active
<1>3. MaintenanceIsOwned'
  BY <1>1, <1>2 DEF RowInv, MaintenanceIsOwned, Active, ActiveImages, RunKinds
<1>4. BackupBeforeIntent' /\ CreatedRows'
  BY <1>1 DEF RowInv, BackupBeforeIntent, CreatedRows, TypeOK, Tokens
<1>5. OneOperation' /\ TokenNamesTheActiveRun'
  BY <1>1 DEF RowInv, OneOperation, TokenNamesTheActiveRun, Active
<1> QED BY <1>1, <1>2, <1>3, <1>4, <1>5 DEF RowInv, Active

(* Writing an image row's status while it keeps the maintenance flag.      *)
LEMMA ImageStatusKept ==
  ASSUME TypeOK, RowInv, NEW o \in ActiveImages,
         NEW status \in {"backing_up", "awaiting_recreate"},
         SetStatus(o, status), UNCHANGED <<token, request, trigger, maint>>
  PROVE  /\ RowInv'
         /\ o \in ActiveImages' /\ ops'[o].status = status
<1>1. \A p \in Ops : /\ ops'[p].active = ops[p].active
                     /\ ops'[p].kind = ops[p].kind
                     /\ ops'[p].backed = ops[p].backed /\ ops'[p].skip = ops[p].skip
                     /\ p # o => ops'[p].status = ops[p].status
  BY DEF TypeOK, SetStatus, Row, Active, ActiveImages
<1>2. o \in Ops /\ ops'[o].status = status /\ o \in ActiveImages'
  BY <1>1 DEF TypeOK, SetStatus, Row, Active, ActiveImages
<1>3. MaintenanceIsOwned'
  BY <1>1, <1>2 DEF MaintenanceIsOwned, Active, ActiveImages
<1>4. BackupBeforeIntent' /\ CreatedRows'
  BY <1>1 DEF RowInv, BackupBeforeIntent, CreatedRows, TypeOK, Tokens
<1>5. OneOperation' /\ TokenNamesTheActiveRun'
  BY <1>1 DEF RowInv, OneOperation, TokenNamesTheActiveRun, Active
<1> QED BY <1>1, <1>2, <1>3, <1>4, <1>5 DEF RowInv

(* Recording the backup of the active operation.                           *)
LEMMA BackedKept ==
  ASSUME TypeOK, RowInv, NEW o \in Active,
         ops' = [ops EXCEPT ![o].backed = ~ops[o].skip],
         UNCHANGED <<token, request, trigger, maint>>
  PROVE  /\ RowInv'
         /\ o \in Active' /\ ops'[o].kind = ops[o].kind /\ ops'[o].status = ops[o].status
         /\ ops'[o].backed \/ ops'[o].skip
<1>1. \A p \in Ops : /\ ops'[p].active = ops[p].active
                     /\ ops'[p].kind = ops[p].kind
                     /\ ops'[p].status = ops[p].status
                     /\ ops'[p].skip = ops[p].skip
                     /\ p # o => ops'[p].backed = ops[p].backed
  BY DEF TypeOK, Row, Active
<1>2. o \in Ops /\ (ops'[o].backed \/ ops'[o].skip)
  BY <1>1 DEF TypeOK, Row, Active
<1>3. MaintenanceIsOwned'
  BY <1>1 DEF RowInv, MaintenanceIsOwned, Active, ActiveImages
<1>4. BackupBeforeIntent' /\ CreatedRows'
  BY <1>1, <1>2 DEF RowInv, BackupBeforeIntent, CreatedRows, TypeOK, Tokens
<1>5. OneOperation' /\ TokenNamesTheActiveRun'
  BY <1>1 DEF RowInv, OneOperation, TokenNamesTheActiveRun, Active
<1> QED BY <1>1, <1>2, <1>3, <1>4, <1>5 DEF RowInv, Active

(* Ending the active run releases the token with it.                       *)
LEMMA RunEnds ==
  ASSUME TypeOK, RowInv, NEW o \in Active, ops[o].kind \in RunKinds, NEW status,
         FinishRun(o, status), UNCHANGED <<request, trigger>>, maint' \in {maint, FALSE}
  PROVE  RowInv'
<1>1. \A p \in Ops : /\ ops'[p].active = (ops[p].active /\ p # o)
                     /\ ops'[p].kind = ops[p].kind
                     /\ ops'[p].backed = ops[p].backed /\ ops'[p].skip = ops[p].skip
                     /\ p # o => ops'[p].status = ops[p].status
  <2> DEFINE r == [ops[o] EXCEPT !.status = status, !.active = FALSE]
  <2>1. ops \in [Ops -> Row] /\ o \in Ops /\ ops[o] \in Row
    BY DEF TypeOK, Active
  <2>2. ops' = [ops EXCEPT ![o] = r]
    BY <2>1 DEF FinishRun
  <2>3. /\ ops'[o] = r
        /\ \A p \in Ops : p # o => ops'[p] = ops[p]
    BY <2>1, <2>2
  <2>4. /\ r.active = FALSE /\ r.kind = ops[o].kind
        /\ r.backed = ops[o].backed /\ r.skip = ops[o].skip
    BY <2>1 DEF Row
  <2>5. \A p \in Ops : ops[p].active \in BOOLEAN
    BY <2>1 DEF Row
  <2> HIDE DEF r
  <2>6. QED
    BY <2>3, <2>4, <2>5
<1>2. o \in Ops /\ token = o /\ token' = NoOp
  <2>1. o \in Ops /\ ops[o].active
    BY DEF Active
  <2>2. token = o
    BY <2>1 DEF RowInv, TokenNamesTheActiveRun
  <2>3. QED
    BY <2>1, <2>2 DEF FinishRun
<1>3. MaintenanceIsOwned'
  <2> SUFFICES ASSUME maint'
               PROVE  \E p \in ActiveImages' :
                        ops'[p].status \in {"backing_up", "awaiting_recreate"}
    BY DEF MaintenanceIsOwned
  <2>1. PICK p \in ActiveImages : ops[p].status \in {"backing_up", "awaiting_recreate"}
    BY DEF RowInv, MaintenanceIsOwned
  <2>2. p \in Ops /\ p # o /\ ops[p].active
    BY <2>1 DEF ActiveImages, Active, RunKinds
  <2>3. ops'[p].active /\ ops'[p].kind = "image" /\ ops'[p].status = ops[p].status
    BY <1>1, <2>1, <2>2 DEF ActiveImages
  <2>4. QED
    BY <2>1, <2>2, <2>3 DEF ActiveImages, Active
<1>4. BackupBeforeIntent' /\ CreatedRows'
  <2>1. request \in Ops \cup {NoOp} /\ trigger \in Ops \cup {NoOp}
    BY DEF TypeOK, Tokens
  <2>2. BackupBeforeIntent'
    BY <1>1, <2>1 DEF RowInv, BackupBeforeIntent
  <2>3. CreatedRows'
    BY <1>1, <2>1 DEF RowInv, CreatedRows
  <2>4. QED
    BY <2>2, <2>3
<1>5. OneOperation'
  BY <1>1 DEF RowInv, OneOperation, Active
<1>6. TokenNamesTheActiveRun'
  <2> SUFFICES ASSUME NEW p \in Ops
               PROVE  ~(ops'[p].active /\ ops'[p].kind \in RunKinds) /\ token' # p
    BY DEF TokenNamesTheActiveRun
  <2>1. token' # p
    BY <1>2, UpdateRunsAssumption DEF Ops, NoOp
  <2>2. p # o => ~(ops[p].active /\ ops[p].kind \in RunKinds)
    BY <1>2 DEF RowInv, TokenNamesTheActiveRun
  <2> QED BY <1>1, <2>1, <2>2
<1> QED BY <1>3, <1>4, <1>5, <1>6 DEF RowInv

(* Ending the active image update lowers the maintenance flag.             *)
LEMMA ImageEnds ==
  ASSUME TypeOK, RowInv, NEW o \in ActiveImages, NEW status,
         FinishImage(o, status), UNCHANGED <<request, trigger>>
  PROVE  RowInv'
<1>1. \A p \in Ops : /\ ops'[p].active = (ops[p].active /\ p # o)
                     /\ ops'[p].kind = ops[p].kind
                     /\ ops'[p].backed = ops[p].backed /\ ops'[p].skip = ops[p].skip
  BY DEF TypeOK, FinishImage, Row, Active, ActiveImages
<1>2. MaintenanceIsOwned'
  BY DEF MaintenanceIsOwned, FinishImage
<1>3. BackupBeforeIntent' /\ CreatedRows'
  <2>1. {request, trigger} \ {NoOp} \subseteq Ops /\ request' = request /\ trigger' = trigger
    BY DEF TypeOK, Tokens
  <2>2. BackupBeforeIntent'
    BY <1>1, <2>1 DEF RowInv, BackupBeforeIntent
  <2>3. CreatedRows'
    BY <1>1, <2>1 DEF RowInv, CreatedRows
  <2> QED BY <2>2, <2>3
<1>4. OneOperation'
  BY <1>1 DEF RowInv, OneOperation, Active
<1>5. TokenNamesTheActiveRun'
  BY <1>1 DEF RowInv, TokenNamesTheActiveRun, FinishImage, ActiveImages, RunKinds
<1> QED BY <1>2, <1>3, <1>4, <1>5 DEF RowInv

(* A tick that carries no row, or has just ended, owes nothing.            *)
LEMMA TickStartSafe ==
  ASSUME TypeOK, IInv, NEW w \in Workers, TickStart(w)
  PROVE  IInv'
<1> USE DEF rows, files, pkgFiles, checkFiles, imageFiles, world
<1>1. RowInv'
  BY RowsKept DEF IInv, TickStart
<1>2. \A v \in Workers : v # w => tick'[v] = tick[v] /\ tick[v].at = "off"
  BY UpdateRunsAssumption DEF TypeOK, IInv, TickInv, LockHeld, TickStart, At
<1>3. tick'[w].at = "reconcile" /\ lock' = w
  BY DEF TypeOK, TickStart, Idle
<1>4. LockHeld'
  BY <1>2, <1>3 DEF LockHeld, At
<1>5. \A v \in Workers : Holds(tick[v])'
  BY <1>2, <1>3 DEF Holds, RunSteps, ImageSteps, ImageBusySteps
<1> QED BY <1>1, <1>4, <1>5 DEF IInv, TickInv

LEMMA ReleaseLockSafe ==
  ASSUME TypeOK, IInv, NEW w \in Workers, ReleaseLock(w)
  PROVE  IInv'
<1> USE DEF rows, files, pkgFiles, checkFiles, imageFiles, world
<1>1. RowInv'
  BY RowsKept DEF IInv, ReleaseLock
<1>2. \A v \in Workers : tick'[v].at = "off"
  BY DEF TypeOK, IInv, TickInv, LockHeld, ReleaseLock, At, Idle
<1> QED BY <1>1, <1>2 DEF IInv, TickInv, LockHeld, At, Holds, RunSteps, ImageSteps,
     ImageBusySteps

(* The steps of a tick that write no row.                                  *)
LEMMA QuietStepSafe ==
  ASSUME TypeOK, IInv, NEW w \in Workers, 
         \/ Reconcile(w) \/ ClaimNothing(w) \/ LoadState(w) \/ TickCheck(w)
         \/ TickPackage(w) \/ CollectStatic(w) \/ TickImage(w)
  PROVE  IInv'
<1> USE DEF rows, files, pkgFiles, checkFiles, imageFiles, world
<1>1. /\ UNCHANGED <<ops, token, request, trigger, lock>>
      /\ maint' \in {maint, FALSE}
      /\ ~At(w, "off")
  BY DEF Reconcile, ClaimNothing, LoadState, TickCheck, TickPackage, CollectStatic,
         TickImage, At
<1>2. RowInv'
  BY <1>1, RowsKept DEF IInv
<1>3. \A v \in Workers : v # w => tick'[v] = tick[v]
  BY GotoFacts, CarryFacts DEF TypeOK, Reconcile, ClaimNothing, LoadState, TickCheck, TickPackage,
         CollectStatic, TickImage
<1>4. Holds(tick[w])'
  <2> USE DEF Holds, RunSteps, ImageSteps, ImageBusySteps, Active, ActiveImages
  <2>1. CASE Reconcile(w) \/ ClaimNothing(w)
    BY <2>1, GotoFacts DEF Reconcile, ClaimNothing
  <2>2. CASE LoadState(w)
    <3>1. /\ tick'[w].at = "save" /\ tick'[w].op = tick[w].op
          /\ tick'[w].snap = token /\ tick'[w].next = tick[w].next
      BY <2>2 DEF TypeOK, LoadState, Tick
    <3>2. tick[w].op \in Active /\ ops[tick[w].op].kind \in RunKinds /\ tick[w].next \in {"check", "package"}
      BY <2>2 DEF LoadState, At, IInv, TickInv
    <3>3. token = tick[w].op
      BY <3>2 DEF IInv, RowInv, TokenNamesTheActiveRun
    <3> QED BY <1>1, <3>1, <3>2, <3>3
  <2>3. CASE TickCheck(w)
    <3>1. ASSUME NEW o \in Checking, Carry(w, "load", o, "package")
          PROVE  Holds(tick[w])'
      BY <1>1, <3>1, CarryFacts DEF Checking, RunKinds
    <3>2. CASE Goto(w, "package")
      BY <3>2, GotoFacts
    <3> QED BY <2>3, <3>1, <3>2 DEF TickCheck
  <2>4. CASE TickPackage(w)
    <3>1. CASE Waiting /\ Carry(w, "collect", token, "image")
      BY <1>1, <3>1, CarryFacts DEF Waiting
    <3>2. CASE Goto(w, "image")
      BY <3>2, GotoFacts
    <3> QED BY <2>4, <3>1, <3>2 DEF TickPackage
  <2>5. CASE CollectStatic(w)
    <3>1. tick[w].op \in Active /\ ops[tick[w].op].kind \in RunKinds
      BY <2>5 DEF CollectStatic, At, IInv, TickInv
    <3> QED BY <1>1, <2>5, <3>1, GotoFacts DEF CollectStatic
  <2>6. CASE TickImage(w)
    <3>1. ASSUME NEW o \in ActiveImages,
                 Carry(w, "begin", o, "release") \/ Carry(w, "finalize", o, "release")
          PROVE  Holds(tick[w])'
      BY <1>1, <3>1, CarryFacts
    <3>2. CASE Goto(w, "release")
      BY <3>2, GotoFacts
    <3> QED BY <2>6, <3>1, <3>2 DEF TickImage
  <2> QED BY <2>1, <2>2, <2>3, <2>4, <2>5, <2>6
<1> QED BY <1>1, <1>2, <1>3, <1>4, MoveOn DEF IInv

(* The steps that only move the row their tick carries to another status.  *)
LEMMA ClaimSafe ==
  ASSUME TypeOK, IInv, NEW w \in Workers, Claim(w)
  PROVE  IInv'
<1> USE DEF rows, files, pkgFiles, checkFiles, imageFiles, world
<1> PICK o \in Queued :
       LET isCheck == ops[o].kind = "check"
       IN /\ SetStatus(o, IF isCheck THEN "checking" ELSE "downloading")
          /\ Carry(w, IF isCheck THEN "ask" ELSE "handoff", o, "check")
  BY DEF Claim
<1>1. o \in Active /\ ops[o].kind \in RunKinds
  BY DEF Queued
<1>2. RowInv' /\ o \in Active' /\ ops'[o].kind = ops[o].kind
  BY <1>1, RunStatusKept DEF IInv, Claim
<1>3. Holds(tick[w])'
  BY <1>1, <1>2, CarryFacts DEF Holds, RunSteps, ImageSteps, ImageBusySteps
<1> QED BY <1>2, <1>3, CarryFacts, MoveOn DEF IInv, Claim, At

LEMMA RunStatusSafe ==
  ASSUME TypeOK, IInv, NEW w \in Workers, BeginHandoff(w) \/ MarkApplying(w)
  PROVE  IInv'
<1> USE DEF rows, files, pkgFiles, checkFiles, imageFiles, world
<1> DEFINE o == tick[w].op
<1>1. o \in Active /\ ops[o].kind \in RunKinds /\ ~At(w, "off")
  BY DEF IInv, TickInv, Holds, RunSteps, BeginHandoff, MarkApplying, At
<1>2. /\ SetStatus(o, "backing_up") \/ SetStatus(o, "applying")
      /\ UNCHANGED <<token, request, trigger, maint, lock>>
  BY DEF BeginHandoff, MarkApplying
<1>3. RowInv' /\ o \in Active' /\ ops'[o].kind = ops[o].kind
  BY <1>1, <1>2, RunStatusKept DEF IInv
<1>4. Goto(w, "backup") \/ Goto(w, "check")
  BY DEF BeginHandoff, MarkApplying
<1>5. Holds(tick[w])'
  BY <1>1, <1>3, <1>4, GotoFacts DEF Holds, RunSteps, ImageSteps, ImageBusySteps
<1> QED BY <1>1, <1>2, <1>3, <1>4, <1>5, GotoFacts, MoveOn DEF IInv

LEMMA ImageStatusSafe ==
  ASSUME TypeOK, IInv, NEW w \in Workers, BeginImage(w) \/ AwaitRecreate(w)
  PROVE  IInv'
<1> USE DEF rows, files, pkgFiles, checkFiles, imageFiles, world
<1> DEFINE o == tick[w].op
<1>1. o \in ActiveImages /\ ~At(w, "off")
  BY DEF IInv, TickInv, Holds, ImageSteps, ImageBusySteps, BeginImage, AwaitRecreate, At
<1>2. UNCHANGED <<token, request, trigger, maint, lock>>
  BY DEF BeginImage, AwaitRecreate
<1>3. CASE BeginImage(w)
  <2>1. RowInv' /\ o \in ActiveImages' /\ ops'[o].status = "backing_up"
    BY <1>1, <1>2, <1>3, ImageStatusKept DEF IInv, BeginImage
  <2>2. Holds(tick[w])'
    BY <1>3, <2>1, GotoFacts DEF Holds, RunSteps, ImageSteps, ImageBusySteps, BeginImage
  <2> QED BY <1>1, <1>2, <1>3, <2>1, <2>2, GotoFacts, MoveOn DEF IInv, BeginImage
<1>4. CASE AwaitRecreate(w)
  <2>1. RowInv'
    BY <1>1, <1>2, <1>4, ImageStatusKept DEF IInv, AwaitRecreate
  <2>2. Holds(tick[w])'
    BY <1>4, GotoFacts DEF Holds, RunSteps, ImageSteps, ImageBusySteps, AwaitRecreate
  <2> QED BY <1>1, <1>2, <1>4, <2>1, <2>2, GotoFacts, MoveOn DEF IInv, AwaitRecreate
<1> QED BY <1>3, <1>4

(* The steps that end the operation their tick carries.                    *)
LEMMA RunEndSafe ==
  ASSUME TypeOK, IInv, NEW w \in Workers,
         \/ FinishCheck(w) \/ FailCheck(w) \/ RefuseHandoff(w) \/ FailHandoff(w)
         \/ ExpireHandoff(w) \/ SettlePackage(w)
  PROVE  IInv'
<1> USE DEF rows, files, pkgFiles, checkFiles, imageFiles, world
<1>1. PICK o \in Active, status \in TerminalStatuses :
         ops[o].kind \in RunKinds /\ FinishRun(o, status)
  <2>1. CASE ExpireHandoff(w)
    BY <2>1 DEF ExpireHandoff, Waiting, HandleFailure, TerminalStatuses
  <2>2. CASE ~ExpireHandoff(w)
    <3>1. tick[w].op \in Active /\ ops[tick[w].op].kind \in RunKinds
      BY <2>2 DEF IInv, TickInv, Holds, RunSteps, At, FinishCheck, FailCheck,
         RefuseHandoff, FailHandoff, SettlePackage
    <3> QED BY <2>2, <3>1 DEF FinishCheck, FailCheck, RefuseHandoff, FailHandoff,
         SettlePackage, Complete, HandleFailure, TerminalStatuses
  <2> QED BY <2>1, <2>2
<1>2. UNCHANGED <<request, trigger, lock>> /\ maint' \in {maint, FALSE} /\ ~At(w, "off")
  BY DEF FinishCheck, FailCheck, RefuseHandoff, FailHandoff, ExpireHandoff, SettlePackage,
         Complete, HandleFailure, At
<1>3. RowInv'
  BY <1>1, <1>2, RunEnds DEF IInv
<1>4. \E step \in {"check", "package", "image"} : Goto(w, step)
  BY DEF IInv, TickInv, Holds, At, FinishCheck, FailCheck, RefuseHandoff, FailHandoff,
         ExpireHandoff, SettlePackage
<1>5. Holds(tick[w])'
  BY <1>4, GotoFacts DEF Holds, RunSteps, ImageSteps, ImageBusySteps
<1> QED BY <1>2, <1>3, <1>4, <1>5, GotoFacts, MoveOn DEF IInv

LEMMA ImageEndSafe ==
  ASSUME TypeOK, IInv, NEW w \in Workers, FailImage(w) \/ FinalizeImage(w)
  PROVE  IInv'
<1> USE DEF rows, files, pkgFiles, checkFiles, imageFiles, world
<1>1. tick[w].op \in ActiveImages
  BY DEF IInv, TickInv, Holds, ImageSteps, ImageBusySteps, FailImage, FinalizeImage, At
<1>2. UNCHANGED <<request, trigger, lock>> /\ ~At(w, "off") /\ Goto(w, "release")
  BY DEF FailImage, FinalizeImage, At
<1>3. \/ UNCHANGED <<ops, token, maint>>
      \/ \E status \in Statuses : FinishImage(tick[w].op, status)
  BY DEF FailImage, FinalizeImage, Verdict, Statuses, TerminalStatuses
<1>4. RowInv'
  BY <1>1, <1>2, <1>3, ImageEnds, RowsKept DEF IInv
<1>5. Holds(tick[w])'
  BY <1>2, GotoFacts DEF Holds, RunSteps, ImageSteps, ImageBusySteps
<1> QED BY <1>2, <1>4, <1>5, GotoFacts, MoveOn DEF IInv

(* The steps between a status and the next one.                            *)
LEMMA AskComposerSafe ==
  ASSUME TypeOK, IInv, NEW w \in Workers, AskComposer(w)
  PROVE  IInv'
<1> USE DEF rows, files, pkgFiles, checkFiles, imageFiles, world
<1> DEFINE o == tick[w].op
<1>1. /\ o \in Active /\ ops[o].kind \in RunKinds /\ ~At(w, "off")
      /\ tick[w].next \in {"check", "package"}
  BY DEF IInv, TickInv, Holds, RunSteps, AskComposer, At
<1>2. UNCHANGED <<token, request, trigger, maint, lock>>
  BY DEF AskComposer
<1>3. CASE ops' = [ops EXCEPT ![o].asked = TRUE] /\ Goto(w, "check")
  <2>1. \A p \in Ops : /\ ops'[p].active = ops[p].active /\ ops'[p].kind = ops[p].kind
                       /\ ops'[p].status = ops[p].status
                       /\ ops'[p].backed = ops[p].backed /\ ops'[p].skip = ops[p].skip
    BY <1>1, <1>3 DEF TypeOK, Row, Active
  <2>2. Active' = Active /\ ActiveImages' = ActiveImages
    BY <2>1 DEF Active, ActiveImages
  <2>3. CreatedRows' /\ BackupBeforeIntent'
    BY <1>2, <2>1 DEF IInv, RowInv, CreatedRows, BackupBeforeIntent, TypeOK, Tokens
  <2>4. OneOperation' /\ TokenNamesTheActiveRun'
    BY <1>2, <2>1, <2>2 DEF IInv, RowInv, OneOperation, TokenNamesTheActiveRun
  <2>5. MaintenanceIsOwned'
    BY <1>2, <2>1, <2>2 DEF IInv, RowInv, MaintenanceIsOwned, ActiveImages, Active
  <2>6. Holds(tick[w])'
    BY <1>3, GotoFacts DEF Holds, RunSteps, ImageSteps, ImageBusySteps
  <2> QED BY <1>1, <1>2, <1>3, <2>3, <2>4, <2>5, <2>6, GotoFacts, MoveOn DEF IInv, RowInv
<1>4. CASE ops' = ops /\ Goto(w, "load")
  <2>1. RowInv'
    BY <1>2, <1>4, RowsKept DEF IInv
  <2>2. Holds(tick[w])'
    BY <1>1, <1>4, GotoFacts DEF Holds, RunSteps, ImageSteps, ImageBusySteps, Active
  <2> QED BY <1>1, <1>2, <1>4, <2>1, <2>2, GotoFacts, MoveOn DEF IInv
<1> QED BY <1>3, <1>4 DEF AskComposer

(* The column save writes back the token the row still has.                *)
LEMMA SaveStateSafe ==
  ASSUME TypeOK, IInv, NEW w \in Workers, SaveState(w)
  PROVE  IInv'
<1> USE DEF rows, files, pkgFiles, checkFiles, imageFiles, world
<1> DEFINE o == tick[w].op
<1>1. /\ o \in Active /\ ops[o].kind \in RunKinds /\ ~At(w, "off")
      /\ tick[w].snap = o /\ tick[w].next \in {"check", "package"}
  BY DEF IInv, TickInv, Holds, RunSteps, SaveState, At
<1>2. token = o
  BY <1>1 DEF IInv, RowInv, TokenNamesTheActiveRun, Active
<1>3. RowInv'
  BY <1>1, <1>2, RowsKept DEF IInv, SaveState
<1>4. Holds(tick[w])'
  BY <1>1, GotoFacts DEF SaveState, Holds, RunSteps, ImageSteps, ImageBusySteps, Active
<1> QED BY <1>1, <1>3, <1>4, GotoFacts, MoveOn DEF IInv, SaveState

LEMMA BackUpSafe ==
  ASSUME TypeOK, IInv, NEW w \in Workers, BackUp(w)
  PROVE  IInv'
<1> USE DEF rows, files, pkgFiles, checkFiles, imageFiles, world
<1> DEFINE o == tick[w].op
<1>1. o \in Active /\ ops[o].kind \in RunKinds /\ ~At(w, "off")
  BY DEF IInv, TickInv, Holds, RunSteps, BackUp, At
<1>2. /\ RowInv' /\ o \in Active' /\ ops'[o].kind = ops[o].kind
      /\ ops'[o].backed \/ ops'[o].skip
  BY <1>1, BackedKept DEF IInv, BackUp
<1>3. Holds(tick[w])'
  BY <1>1, <1>2, GotoFacts DEF BackUp, Holds, RunSteps, ImageSteps, ImageBusySteps
<1> QED BY <1>1, <1>2, <1>3, GotoFacts, MoveOn DEF IInv, BackUp

LEMMA BackUpImageSafe ==
  ASSUME TypeOK, IInv, NEW w \in Workers, BackUpImage(w)
  PROVE  IInv'
<1> USE DEF rows, files, pkgFiles, checkFiles, imageFiles, world
<1> DEFINE o == tick[w].op
<1>1. o \in ActiveImages /\ ops[o].status = "backing_up" /\ ~At(w, "off")
  BY DEF IInv, TickInv, Holds, ImageSteps, ImageBusySteps, BackUpImage, At
<1>2. /\ RowInv' /\ o \in Active' /\ ops'[o].kind = "image"
      /\ ops'[o].status = "backing_up"
      /\ ops'[o].backed \/ ops'[o].skip
  BY <1>1, BackedKept DEF IInv, BackUpImage, ActiveImages
<1>3. Holds(tick[w])'
  BY <1>1, <1>2, GotoFacts DEF BackUpImage, Holds, RunSteps, ImageSteps, ImageBusySteps, ActiveImages
<1> QED BY <1>1, <1>2, <1>3, GotoFacts, MoveOn DEF IInv, BackUpImage

LEMMA WriteRequestSafe ==
  ASSUME TypeOK, IInv, NEW w \in Workers, WriteRequest(w)
  PROVE  IInv'
<1> USE DEF rows, files, pkgFiles, checkFiles, imageFiles, world
<1> DEFINE o == tick[w].op
<1>1. /\ o \in Active /\ ops[o].kind \in RunKinds /\ ~At(w, "off")
      /\ ops[o].backed \/ ops[o].skip
  BY DEF IInv, TickInv, Holds, RunSteps, WriteRequest, At
<1>2. CreatedRows' /\ BackupBeforeIntent'
  BY <1>1 DEF IInv, RowInv, CreatedRows, BackupBeforeIntent, WriteRequest, RunKinds
<1>3. OneOperation' /\ TokenNamesTheActiveRun' /\ MaintenanceIsOwned'
  BY DEF IInv, RowInv, OneOperation, TokenNamesTheActiveRun, MaintenanceIsOwned, Active,
         ActiveImages, WriteRequest
<1>4. Holds(tick[w])'
  BY <1>1, GotoFacts DEF WriteRequest, Holds, RunSteps, ImageSteps, ImageBusySteps, Active
<1> QED BY <1>1, <1>2, <1>3, <1>4, GotoFacts, MoveOn DEF IInv, RowInv, WriteRequest

LEMMA RaiseMaintenanceSafe ==
  ASSUME TypeOK, IInv, NEW w \in Workers, RaiseMaintenance(w)
  PROVE  IInv'
<1> USE DEF rows, files, pkgFiles, checkFiles, imageFiles, world
<1> DEFINE o == tick[w].op
<1>1. /\ o \in ActiveImages /\ ops[o].status = "backing_up" /\ ~At(w, "off")
      /\ ops[o].backed \/ ops[o].skip
  BY DEF IInv, TickInv, Holds, ImageSteps, ImageBusySteps, RaiseMaintenance, At
<1>2. CreatedRows' /\ BackupBeforeIntent' /\ TokenNamesTheActiveRun'
  BY DEF IInv, RowInv, CreatedRows, BackupBeforeIntent, TokenNamesTheActiveRun, RaiseMaintenance
<1>3. ActiveImages' = ActiveImages /\ Active' = Active
  BY DEF RaiseMaintenance, Active, ActiveImages
<1>4. OneOperation' /\ MaintenanceIsOwned'
  BY <1>1, <1>3 DEF IInv, RowInv, OneOperation, MaintenanceIsOwned, RaiseMaintenance
<1>5. Holds(tick[w])'
  BY <1>1, <1>3, GotoFacts DEF RaiseMaintenance, Holds, RunSteps, ImageSteps, ImageBusySteps
<1> QED BY <1>1, <1>2, <1>4, <1>5, GotoFacts, MoveOn DEF IInv, RowInv, RaiseMaintenance

LEMMA WriteTriggerSafe ==
  ASSUME TypeOK, IInv, NEW w \in Workers, WriteTrigger(w)
  PROVE  IInv'
<1> USE DEF rows, files, pkgFiles, checkFiles, imageFiles, world
<1> DEFINE o == tick[w].op
<1>1. /\ o \in ActiveImages /\ ops[o].status = "backing_up" /\ ~At(w, "off")
      /\ ops[o].backed \/ ops[o].skip
  BY DEF IInv, TickInv, Holds, ImageSteps, ImageBusySteps, WriteTrigger, At
<1>2. CreatedRows' /\ BackupBeforeIntent'
  BY <1>1 DEF IInv, RowInv, CreatedRows, BackupBeforeIntent, WriteTrigger, ActiveImages
<1>3. ActiveImages' = ActiveImages /\ Active' = Active
  BY DEF WriteTrigger, Active, ActiveImages
<1>4. OneOperation' /\ TokenNamesTheActiveRun' /\ MaintenanceIsOwned'
  BY <1>3 DEF IInv, RowInv, OneOperation, TokenNamesTheActiveRun, MaintenanceIsOwned, WriteTrigger
<1>5. Holds(tick[w])'
  BY <1>1, <1>3, GotoFacts DEF WriteTrigger, Holds, RunSteps, ImageSteps, ImageBusySteps
<1> QED BY <1>1, <1>2, <1>4, <1>5, GotoFacts, MoveOn DEF IInv, RowInv, WriteTrigger

(* Every step of a tick keeps the invariant.                               *)
LEMMA TickSafe ==
  ASSUME TypeOK, IInv, NEW w \in Workers, TickStep(w)
  PROVE  IInv'
  BY TickStartSafe, ReleaseLockSafe, QuietStepSafe, ClaimSafe, RunStatusSafe, ImageStatusSafe,
     RunEndSafe, ImageEndSafe, AskComposerSafe, SaveStateSafe, BackUpSafe, BackUpImageSafe,
     WriteRequestSafe, RaiseMaintenanceSafe, WriteTriggerSafe DEF TickStep

(* A row being created: the rows before it and their intents stay.         *)
LEMMA RowCreated ==
  ASSUME TypeOK, IInv, Active = {}, NEW o \in Ops, Unused(o), NEW kind \in Kinds,
         NEW status, NEW pinned, NEW skip,
         ops' = [ops EXCEPT ![o] = NewRow(kind, status, pinned, skip)],
         token' = IF kind \in RunKinds THEN o ELSE NoOp,
         UNCHANGED <<lock, tick, maint, request, trigger>>
  PROVE  IInv'
<1>1. \A p \in Ops : /\ p # o => ops'[p] = ops[p]
                     /\ ~ops[p].active
                     /\ ops'[p].active <=> p = o
  <2>1. ops'[o].active
    BY DEF TypeOK, NewRow, NoRow
  <2>2. \A p \in Ops : ~ops[p].active
    BY DEF Active
  <2>3. \A p \in Ops : p # o => ops'[p] = ops[p]
    BY DEF TypeOK
  <2> QED BY <2>1, <2>2, <2>3
<1>2. ops'[o].kind = kind
  BY DEF TypeOK, NewRow, NoRow
<1>3. CreatedRows' /\ BackupBeforeIntent'
  <2>1. \A p \in {request, trigger} \ {NoOp} : p \in Ops /\ p # o
    BY DEF IInv, RowInv, CreatedRows, Unused, TypeOK, Tokens
  <2>2. kind # "none"
    BY DEF Kinds, RunKinds
  <2> QED BY <1>1, <1>2, <2>1, <2>2 DEF IInv, RowInv, CreatedRows, BackupBeforeIntent
<1>4. OneOperation'
  BY <1>1 DEF OneOperation, Active
<1>5. TokenNamesTheActiveRun'
  <2>1. NoOp \notin Ops
    BY UpdateRunsAssumption DEF NoOp, Ops
  <2> QED BY <1>1, <1>2, <2>1 DEF TokenNamesTheActiveRun
<1>6. ~maint
  BY DEF IInv, RowInv, MaintenanceIsOwned, ActiveImages
<1>7. MaintenanceIsOwned'
  BY <1>6 DEF MaintenanceIsOwned
<1>8. LockHeld'
  BY DEF IInv, TickInv, LockHeld, At
<1>9. ASSUME NEW w \in Workers PROVE Holds(tick[w])'
  <2>1. tick[w].at \notin RunSteps \cup ImageSteps
    BY DEF IInv, TickInv, Holds, ActiveImages
  <2> QED BY <2>1 DEF Holds, RunSteps, ImageSteps, ImageBusySteps
<1> QED BY <1>3, <1>4, <1>5, <1>7, <1>8, <1>9 DEF IInv, TickInv, RowInv

(* What admission reads tells it that nothing is active.                   *)
LEMMA QueueRunSafe ==
  ASSUME TypeOK, IInv, NEW kind \in RunKinds, QueueRun(kind)
  PROVE  IInv'
<1> USE DEF rows, files, pkgFiles, checkFiles, imageFiles, world
<1>1. \A p \in Active : ops[p].kind \in Kinds
  BY DEF TypeOK, IInv, RowInv, CreatedRows, Active, Row
<1>2. Active = {}
  BY <1>1 DEF QueueRun, IInv, RowInv, TokenNamesTheActiveRun, Active, ActiveImages, Kinds
<1> QED BY <1>2, RowCreated DEF QueueRun, Kinds

LEMMA QueueImageSafe ==
  ASSUME TypeOK, IInv, QueueImage
  PROVE  IInv'
<1> USE DEF rows, files, pkgFiles, checkFiles, imageFiles, world
<1>1. \A p \in Active : ops[p].kind \in Kinds
  BY DEF TypeOK, IInv, RowInv, CreatedRows, Active, Row
<1>2. Active = {}
  <2>1. NoOp \notin Ops
    BY UpdateRunsAssumption DEF NoOp, Ops
  <2> QED BY <1>1, <2>1 DEF QueueImage, IInv, RowInv, TokenNamesTheActiveRun, Active, ActiveImages, Kinds
<1> QED BY <1>2, RowCreated DEF QueueImage, Kinds, RunKinds

(* The environment may stop ticks and forget the lock, and writes no row.  *)
LEMMA EnvironmentSafe ==
  ASSUME TypeOK, IInv, "long" \notin Faults, Environment
  PROVE  IInv'
<1> USE DEF rows, files, pkgFiles, checkFiles, imageFiles, world
<1>1. UNCHANGED <<ops, token, maint, request, trigger>>
  BY DEF Environment, ExpireLock, Crash, TimePasses, Composer, ComposerChecks,
         ComposerTakesPackage, ComposerTakesImage, ComposerSwaps, ComposerEnds
<1>2. RowInv'
  BY <1>1, RowsKept DEF IInv
<1>3. \A v \in Workers : tick'[v] = tick[v] \/ tick'[v] = Idle
  BY DEF TypeOK, Environment, ExpireLock, Crash, TimePasses, Composer, ComposerChecks,
         ComposerTakesPackage, ComposerTakesImage, ComposerSwaps, ComposerEnds
<1>4. ASSUME NEW v \in Workers PROVE Holds(tick[v])'
  BY <1>1, <1>3 DEF IInv, TickInv, Holds, RunSteps, ImageSteps, ImageBusySteps, Idle, Active,
         ActiveImages
<1>5. LockHeld'
  <2>1. CASE ExpireLock
    BY <2>1 DEF ExpireLock, IInv, TickInv, LockHeld, At, LongSteps
  <2>2. CASE lock' = lock
    BY <1>3, <2>2 DEF IInv, TickInv, LockHeld, At, Idle
  <2> QED BY <2>1, <2>2 DEF Environment, Crash, TimePasses, Composer, ComposerChecks,
         ComposerTakesPackage, ComposerTakesImage, ComposerSwaps, ComposerEnds
<1> QED BY <1>2, <1>4, <1>5 DEF IInv, TickInv

LEMMA InitSafe == Init => IInv
<1> SUFFICES ASSUME Init PROVE IInv
  OBVIOUS
<1>1. \A o \in Ops : ops[o].kind = "none" /\ ~ops[o].active
  BY DEF Init, NoRow
<1>2. \A o \in Ops : token # o
  BY UpdateRunsAssumption DEF Init, Ops, NoOp
<1>3. RowInv
  BY <1>1, <1>2 DEF Init, RowInv, CreatedRows, OneOperation, TokenNamesTheActiveRun,
         MaintenanceIsOwned, BackupBeforeIntent, Active
<1>4. TickInv
  BY DEF Init, TickInv, LockHeld, At, Idle, Holds, RunSteps, ImageSteps, ImageBusySteps
<1> QED BY <1>3, <1>4 DEF IInv

LEMMA NextSafe ==
  ASSUME TypeOK, IInv, "long" \notin Faults, [Next]_vars
  PROVE  IInv'
<1>1. CASE UNCHANGED vars
  <2> USE <1>1 DEF vars, rows, files, pkgFiles, checkFiles, imageFiles, world
  <2>1. RowInv'
    BY RowsKept DEF IInv
  <2>2. TickInv'
    BY DEF IInv, TickInv, LockHeld, At, Holds, Active, ActiveImages
  <2> QED BY <2>1, <2>2 DEF IInv
<1> QED BY <1>1, QueueRunSafe, QueueImageSafe, TickSafe, EnvironmentSafe DEF Next, Web

(* The invariant the safety theorems rest on.                              *)
LEMMA Inductive == ASSUME "long" \notin Faults PROVE Spec => []IInv
<1>1. Init => TypeOK /\ IInv
  BY InitType, InitSafe
<1>2. TypeOK /\ IInv /\ [Next]_vars => TypeOK' /\ IInv'
  BY NextType, NextSafe
<1> QED BY <1>1, <1>2, PTL DEF Spec

(* While no step outlives the tick lock, at most one operation is ever     *)
(* active, whoever queued it.                                              *)
THEOREM OperationsDoNotOverlap == ASSUME "long" \notin Faults PROVE Spec => []OneOperation
<1>1. IInv => OneOperation
  BY DEF IInv, RowInv
<1> QED BY <1>1, Inductive, PTL

(* Then the state row's token always names the active run and no other:    *)
(* neither a lost hand-off nor a refusal of every later operation.         *)
THEOREM TokenIsExact == ASSUME "long" \notin Faults PROVE Spec => []TokenNamesTheActiveRun
<1>1. IInv => TokenNamesTheActiveRun
  BY DEF IInv, RowInv
<1> QED BY <1>1, Inductive, PTL

(* Then the maintenance flag is only up while an active image update will  *)
(* lower it.                                                               *)
THEOREM MaintenanceHasAnOwner == ASSUME "long" \notin Faults PROVE Spec => []MaintenanceIsOwned
<1>1. IInv => MaintenanceIsOwned
  BY DEF IInv, RowInv
<1> QED BY <1>1, Inductive, PTL

(* Then no request or trigger reaches Composer before its backup.          *)
THEOREM BackupComesFirst == ASSUME "long" \notin Faults PROVE Spec => []BackupBeforeIntent
<1>1. IInv => BackupBeforeIntent
  BY DEF IInv, RowInv
<1> QED BY <1>1, Inductive, PTL
-----------------------------------------------------------------------------
(* How a step moves the ticks.                                             *)

(* While one worker ticks, the others are off and stay off.                *)
LEMMA OthersOff ==
  ASSUME TypeOK, IInv, NEW w \in Workers, TickStep(w)
  PROVE  \A v \in Workers : v # w => tick'[v] = tick[v] /\ tick[v].at = "off"
<1> SUFFICES ASSUME NEW v \in Workers, v # w
             PROVE  tick'[v] = tick[v] /\ tick[v].at = "off"
  OBVIOUS
<1>1. tick'[v] = tick[v]
  <2>1. ASSUME NEW step, Goto(w, step) PROVE tick'[v] = tick[v]
    BY <2>1, GotoFacts
  <2>2. ASSUME NEW step, NEW o, NEW next, Carry(w, step, o, next) PROVE tick'[v] = tick[v]
    BY <2>2, CarryFacts
  <2>3. CASE TickStart(w) \/ LoadState(w) \/ ReleaseLock(w)
    BY <2>3 DEF TypeOK, TickStart, LoadState, ReleaseLock
  <2>4. CASE Claim(w) \/ TickCheck(w) \/ TickPackage(w) \/ TickImage(w)
    BY <2>1, <2>2, <2>4 DEF Claim, TickCheck, TickPackage, TickImage
  <2> QED
    BY <2>1, <2>3, <2>4 DEF TickStep, Reconcile, ClaimNothing, AskComposer, SaveState,
       FinishCheck, FailCheck, BeginHandoff, RefuseHandoff, BackUp, FailHandoff, WriteRequest,
       MarkApplying, ExpireHandoff, CollectStatic, SettlePackage, BeginImage, BackUpImage,
       RaiseMaintenance, WriteTrigger, AwaitRecreate, FailImage, FinalizeImage
<1>2. CASE TickStart(w)
  BY <1>1, <1>2, UpdateRunsAssumption DEF TypeOK, IInv, TickInv, LockHeld, TickStart, At
<1>3. CASE ~At(w, "off")
  BY <1>1, <1>3 DEF IInv, TickInv, LockHeld, At
<1>4. TickStart(w) \/ ~At(w, "off")
  BY DEF TickStep, Reconcile, Claim, ClaimNothing, AskComposer, LoadState,
         SaveState, FinishCheck, FailCheck, BeginHandoff, RefuseHandoff, BackUp, FailHandoff,
         WriteRequest, MarkApplying, TickCheck, TickPackage, ExpireHandoff, CollectStatic,
         SettlePackage, TickImage, BeginImage, BackUpImage, RaiseMaintenance, WriteTrigger,
         AwaitRecreate, FailImage, FinalizeImage, ReleaseLock, At
<1> QED BY <1>1, <1>2, <1>3, <1>4

(* Nothing but a tick step moves a tick on; the environment may stop it.   *)
LEMMA EnvironmentStopsTicks ==
  ASSUME TypeOK, Environment
  PROVE  \A v \in Workers : tick'[v] = tick[v] \/ tick'[v] = Idle
  BY DEF TypeOK, Environment, ExpireLock, Crash, TimePasses, Composer, ComposerChecks,
         ComposerTakesPackage, ComposerTakesImage, ComposerSwaps, ComposerEnds, world

(* How a tick got to where it is, and with which row in hand.              *)
ArrivesWithRun(t, u) ==
  /\ u.at = "ask" => u.op \in Active /\ ops[u.op].kind = "check"
  /\ u.at = "load" => \/ t.at = "ask" /\ u.op = t.op
                      \/ u.op \in Active /\ ops[u.op].kind = "check"
  /\ u.at = "save" => t.at = "load" /\ u.op = t.op
  /\ u.at = "finish" => t.at = "save" /\ u.op = t.op
  /\ u.at = "handoff" => u.op \in Queued /\ ops[u.op].kind # "check"
  /\ u.at = "backup" => t.at = "handoff" /\ u.op = t.op /\ ~PendingRequest
  /\ u.at = "request" => t.at = "backup" /\ u.op = t.op
  /\ u.at = "applying" => t.at = "request" /\ u.op = t.op
  /\ u.at = "collect" => u.op = token /\ ack = token
  /\ u.at = "settle" => t.at = "collect" /\ u.op = t.op

ArrivesWithImage(t, u) ==
  /\ u.at = "begin" => u.op \in ActiveImages /\ ops[u.op].status = "pending"
  /\ u.at = "finalize" => u.op \in ActiveImages /\ ops[u.op].status = "awaiting_recreate"
  /\ u.at = "image_backup" => t.at = "begin" /\ u.op = t.op
  /\ u.at = "maintain" => t.at = "image_backup" /\ u.op = t.op
  /\ u.at = "trigger" => t.at = "maintain" /\ u.op = t.op
  /\ u.at = "await" => t.at = "trigger" /\ u.op = t.op

ArrivesBy(w, step) ==
  /\ step = "handoff" => Claim(w)
  /\ step = "backup" => BeginHandoff(w)
  /\ step = "request" => BackUp(w)
  /\ step = "finalize" => TickImage(w)
  /\ step = "trigger" => RaiseMaintenance(w)
  /\ step = "await" => WriteTrigger(w)

Arrives(w, t, u) ==
  /\ ArrivesWithRun(t, u)
  /\ ArrivesWithImage(t, u)
  /\ ArrivesBy(w, u.at)
  /\ u.at \notin {"off", "reconcile"} => t.at # "off"

LEMMA TickArrives ==
  ASSUME TypeOK, IInv, NEW w \in Workers, TickStep(w)
  PROVE  Arrives(w, tick[w], tick'[w])
<1> USE DEF Arrives, ArrivesWithRun, ArrivesWithImage, ArrivesBy
<1>1. ASSUME NEW step \in {"claim", "check", "package", "image", "release"},
             ~At(w, "off"), Goto(w, step)
      PROVE  Arrives(w, tick[w], tick'[w])
  BY <1>1, GotoFacts DEF At
<1>2. CASE TickStart(w) \/ ReleaseLock(w)
  BY <1>2 DEF TypeOK, TickStart, ReleaseLock, Idle
<1>3. CASE \/ Reconcile(w) \/ ClaimNothing(w) \/ RefuseHandoff(w) \/ FailHandoff(w)
           \/ MarkApplying(w) \/ ExpireHandoff(w) \/ SettlePackage(w) \/ AwaitRecreate(w)
           \/ FailImage(w) \/ FinalizeImage(w)
  BY <1>1, <1>3 DEF Reconcile, ClaimNothing, RefuseHandoff, FailHandoff, MarkApplying,
     ExpireHandoff, SettlePackage, AwaitRecreate, FailImage, FinalizeImage, At
<1>4. CASE FinishCheck(w) \/ FailCheck(w)
  <2>1. tick[w].next \in {"check", "package"}
    BY <1>4 DEF FinishCheck, FailCheck, At, IInv, TickInv, Holds
  <2> QED BY <1>1, <1>4, <2>1 DEF FinishCheck, FailCheck, At
<1>5. CASE Claim(w)
  <2>1. PICK o \in Queued :
          Carry(w, IF ops[o].kind = "check" THEN "ask" ELSE "handoff", o, "check")
    BY <1>5 DEF Claim
  <2> QED BY <1>5, <2>1, CarryFacts DEF Claim, At, Queued
<1>6. CASE AskComposer(w)
  BY <1>6, GotoFacts DEF AskComposer, At
<1>7. CASE LoadState(w)
  BY <1>7 DEF TypeOK, LoadState, At, Tick
<1>8. CASE \/ SaveState(w) \/ BeginHandoff(w) \/ BackUp(w) \/ WriteRequest(w)
           \/ CollectStatic(w) \/ BeginImage(w) \/ BackUpImage(w) \/ RaiseMaintenance(w)
           \/ WriteTrigger(w)
  BY <1>8, GotoFacts DEF SaveState, BeginHandoff, BackUp, WriteRequest, CollectStatic,
     BeginImage, BackUpImage, RaiseMaintenance, WriteTrigger, At
<1>9. CASE TickCheck(w)
  <2>1. ASSUME NEW o \in Checking, Carry(w, "load", o, "package")
        PROVE  Arrives(w, tick[w], tick'[w])
    BY <1>9, <2>1, CarryFacts DEF TickCheck, At, Checking
  <2> QED BY <1>1, <1>9, <2>1 DEF TickCheck, At
<1>10. CASE TickPackage(w)
  <2>1. CASE ack = token /\ Carry(w, "collect", token, "image")
    BY <1>10, <2>1, CarryFacts DEF TickPackage, At
  <2> QED BY <1>1, <1>10, <2>1 DEF TickPackage, At
<1>11. CASE TickImage(w)
  <2>1. ASSUME NEW o \in ActiveImages,
               \/ ops[o].status = "pending" /\ Carry(w, "begin", o, "release")
               \/ ops[o].status = "awaiting_recreate" /\ Carry(w, "finalize", o, "release")
        PROVE  Arrives(w, tick[w], tick'[w])
    BY <1>11, <2>1, CarryFacts DEF TickImage, At
  <2> QED BY <1>1, <1>11, <2>1 DEF TickImage, At
<1> QED BY <1>2, <1>3, <1>4, <1>5, <1>6, <1>7, <1>8, <1>9, <1>10, <1>11 DEF TickStep

-----------------------------------------------------------------------------
(* What a step may do to a row: nothing that matters to its life, or       *)
(* create it while nothing is active, or move or end it while it is active.*)
StartedStatuses == ActiveStatuses \ {"queued", "pending"}

Kept(o) ==
  ops'[o].kind = ops[o].kind /\ ops'[o].status = ops[o].status /\ ops'[o].active = ops[o].active
Created(o) ==
  /\ Active = {} /\ ops[o].kind = "none"
  /\ ops'[o].kind \in Kinds /\ ops'[o].active /\ ops'[o].status \in {"queued", "pending"}
Moved(o) ==
  /\ o \in Active
  /\ ops'[o].kind = ops[o].kind /\ ops'[o].active /\ ops'[o].status \in StartedStatuses
Ended(o) ==
  /\ o \in Active
  /\ ops'[o].kind = ops[o].kind /\ ~ops'[o].active /\ ops'[o].status \in TerminalStatuses

RowSteps == \A o \in Ops : Kept(o) \/ Created(o) \/ Moved(o) \/ Ended(o)

LEMMA QueuedAlone ==
  ASSUME TypeOK, IInv, (\E kind \in RunKinds : QueueRun(kind)) \/ QueueImage
  PROVE  Active = {}
<1>1. \A p \in Active : ops[p].kind \in Kinds
  BY DEF TypeOK, IInv, RowInv, CreatedRows, Active, Row
<1>2. NoOp \notin Ops
  BY UpdateRunsAssumption DEF NoOp, Ops
<1>3. ActiveImages = {}
  BY DEF QueueRun, QueueImage
<1>4. token = NoOp \/ (token \in Active => ops[token].kind \notin RunKinds)
  BY DEF QueueRun, QueueImage
<1>5. ASSUME NEW p \in Active PROVE FALSE
  <2>1. p \in Ops /\ ops[p].active /\ ops[p].kind \in RunKinds
    BY <1>1, <1>3, <1>5 DEF ActiveImages, Active, Kinds
  <2>2. token = p
    BY <2>1 DEF IInv, RowInv, TokenNamesTheActiveRun
  <2>3. QED
    BY <1>2, <1>4, <1>5, <2>1, <2>2
<1> QED BY <1>5

LEMMA QueuedRow ==
  ASSUME TypeOK, Active = {}, NEW o \in Ops, Unused(o), NEW kind \in Kinds,
         NEW status \in {"queued", "pending"}, NEW pinned, NEW skip,
         ops' = [ops EXCEPT ![o] = NewRow(kind, status, pinned, skip)]
  PROVE  Created(o) /\ \A p \in Ops : p # o => Kept(p)
<1>1. /\ ops'[o].kind = kind /\ ops'[o].active /\ ops'[o].status = status
      /\ \A p \in Ops : p # o => ops'[p] = ops[p]
  BY DEF TypeOK, NewRow, NoRow
<1> QED BY <1>1 DEF Created, Kept, Unused

LEMMA StatusMoves ==
  ASSUME TypeOK, NEW o \in Active, NEW status \in StartedStatuses, SetStatus(o, status)
  PROVE  /\ Moved(o) /\ ops'[o].status = status
         /\ \A p \in Ops : p # o => Kept(p)
  BY DEF TypeOK, SetStatus, Row, Active, Moved, Kept

LEMMA RowEnds ==
  ASSUME TypeOK, NEW o \in Active, NEW status \in TerminalStatuses,
         ops' = [ops EXCEPT ![o].status = status, ![o].active = FALSE]
  PROVE  /\ Ended(o) /\ ops'[o].status = status
         /\ \A p \in Ops : p # o => Kept(p)
  BY DEF TypeOK, Row, Active, Ended, Kept

LEMMA ColumnKept ==
  ASSUME TypeOK, NEW o,
         \/ ops' = [ops EXCEPT ![o].asked = TRUE]
         \/ ops' = [ops EXCEPT ![o].backed = ~ops[o].skip]
  PROVE  \A p \in Ops : Kept(p)
  BY DEF TypeOK, Row, Kept

(* The tick steps that write a row's status, each with the row in hand.    *)
LEMMA TickMovesRow ==
  ASSUME TypeOK, IInv, NEW w \in Workers,
         \/ Claim(w) \/ BeginHandoff(w) \/ MarkApplying(w) \/ BeginImage(w) \/ AwaitRecreate(w)
  PROVE  \E o \in Active, status \in StartedStatuses : SetStatus(o, status)
<1>1. CASE Claim(w)
  BY <1>1 DEF Claim, Queued, StartedStatuses, ActiveStatuses
<1>2. CASE ~Claim(w)
  <2>1. tick[w].op \in Active
    BY <1>2 DEF IInv, TickInv, Holds, RunSteps, ImageSteps, ImageBusySteps, At, ActiveImages,
       BeginHandoff, MarkApplying, BeginImage, AwaitRecreate
  <2> QED BY <1>2, <2>1 DEF BeginHandoff, MarkApplying, BeginImage, AwaitRecreate,
            StartedStatuses, ActiveStatuses
<1> QED BY <1>1, <1>2

LEMMA TickEndsRun ==
  ASSUME TypeOK, IInv, NEW w \in Workers,
         \/ FinishCheck(w) \/ FailCheck(w) \/ RefuseHandoff(w) \/ FailHandoff(w)
         \/ ExpireHandoff(w) \/ SettlePackage(w)
  PROVE  \E o \in Active, status \in TerminalStatuses :
           ops[o].kind \in RunKinds /\ FinishRun(o, status)
<1>1. CASE ExpireHandoff(w)
  BY <1>1 DEF ExpireHandoff, Waiting, HandleFailure, TerminalStatuses
<1>2. CASE ~ExpireHandoff(w)
  <2>1. tick[w].op \in Active /\ ops[tick[w].op].kind \in RunKinds
    BY <1>2 DEF IInv, TickInv, Holds, RunSteps, At, FinishCheck, FailCheck, RefuseHandoff,
       FailHandoff, SettlePackage
  <2> QED BY <1>2, <2>1 DEF FinishCheck, FailCheck, RefuseHandoff, FailHandoff, SettlePackage,
            Complete, HandleFailure, TerminalStatuses
<1> QED BY <1>1, <1>2

LEMMA TickEndsImage ==
  ASSUME TypeOK, IInv, NEW w \in Workers, FailImage(w) \/ FinalizeImage(w)
  PROVE  /\ tick[w].op \in ActiveImages
         /\ \/ UNCHANGED <<rows, maint, deploy>>
            \/ \E status \in TerminalStatuses : FinishImage(tick[w].op, status)
<1>1. tick[w].op \in ActiveImages
  <2>1. tick[w].at \in {"image_backup", "maintain", "trigger", "finalize"}
    BY DEF FailImage, FinalizeImage, At
  <2>2. QED
    BY <2>1 DEF IInv, TickInv, Holds, ImageSteps, ImageBusySteps
<1>2. \/ UNCHANGED <<rows, maint, deploy>>
      \/ \E status \in TerminalStatuses : FinishImage(tick[w].op, status)
  BY DEF FailImage, FinalizeImage, Verdict, TerminalStatuses
<1> QED BY <1>1, <1>2

LEMMA RowsMove ==
  ASSUME TypeOK, IInv, [Next]_vars
  PROVE  RowSteps
<1> USE DEF rows, files, pkgFiles, checkFiles, imageFiles, world, RowSteps
<1>1. CASE Web
  <2>1. Active = {}
    BY <1>1, QueuedAlone DEF Web
  <2>2. ASSUME NEW kind \in RunKinds, QueueRun(kind) PROVE RowSteps
    BY <2>1, <2>2, QueuedRow DEF QueueRun, Kinds
  <2>3. CASE QueueImage
    <3>1. PICK o \in Ops, pinned, skip \in BOOLEAN :
            Unused(o) /\ ops' = [ops EXCEPT ![o] = NewRow("image", "pending", pinned, skip)]
      BY <2>3 DEF QueueImage
    <3>2. "image" \in Kinds
      BY DEF Kinds
    <3>3. Created(o) /\ \A p \in Ops : p # o => Kept(p)
      BY <2>1, <3>1, <3>2, QueuedRow
    <3> QED BY <3>3
  <2> QED BY <1>1, <2>2, <2>3 DEF Web
<1>2. ASSUME NEW w \in Workers, TickStep(w) PROVE RowSteps
  <2>1. CASE \/ Claim(w) \/ BeginHandoff(w) \/ MarkApplying(w) \/ BeginImage(w)
             \/ AwaitRecreate(w)
    BY <2>1, TickMovesRow, StatusMoves
  <2>2. CASE \/ FinishCheck(w) \/ FailCheck(w) \/ RefuseHandoff(w) \/ FailHandoff(w)
             \/ ExpireHandoff(w) \/ SettlePackage(w)
    BY <2>2, TickEndsRun, RowEnds DEF FinishRun
  <2>3. CASE ops' = ops
    BY <2>3 DEF Kept
  <2>4. CASE FailImage(w) \/ FinalizeImage(w)
    <3>1. \/ ops' = ops
          \/ \E status \in TerminalStatuses : FinishImage(tick[w].op, status)
      BY <2>4, TickEndsImage
    <3>2. tick[w].op \in Active
      BY <2>4, TickEndsImage DEF ActiveImages
    <3> QED BY <2>3, <3>1, <3>2, RowEnds DEF FinishImage
  <2>5. CASE AskComposer(w) \/ BackUp(w) \/ BackUpImage(w)
    BY <2>3, <2>5, ColumnKept DEF AskComposer, BackUp, BackUpImage
  <2>6. CASE \/ TickStart(w) \/ Reconcile(w) \/ ClaimNothing(w) \/ LoadState(w) \/ SaveState(w)
             \/ WriteRequest(w) \/ TickCheck(w) \/ TickPackage(w) \/ CollectStatic(w)
             \/ TickImage(w) \/ RaiseMaintenance(w) \/ WriteTrigger(w) \/ ReleaseLock(w)
    BY <2>3, <2>6 DEF TickStart, Reconcile, ClaimNothing, LoadState, SaveState, WriteRequest,
       TickCheck, TickPackage, CollectStatic, TickImage, RaiseMaintenance, WriteTrigger,
       ReleaseLock
  <2> QED BY <1>2, <2>1, <2>2, <2>4, <2>5, <2>6 DEF TickStep
<1>3. CASE Environment \/ UNCHANGED vars
  BY <1>3 DEF vars, Environment, ExpireLock, Crash, TimePasses, Composer, ComposerChecks,
     ComposerTakesPackage, ComposerTakesImage, ComposerSwaps, ComposerEnds, Kept
<1> QED BY <1>1, <1>2, <1>3 DEF Next

(* A row is active exactly while its status says so, and a blank row has   *)
(* no status.                                                              *)
StatusInv ==
  \A o \in Ops : /\ ops[o].active <=> ops[o].status \in ActiveStatuses
                 /\ ops[o].kind = "none" => ops[o].status = "none"

LEMMA StatusKept ==
  ASSUME RowSteps, StatusInv
  PROVE  StatusInv' /\ \A o \in Ops : ops[o].status \in TerminalStatuses
                                        => ops'[o].status = ops[o].status
<1> SUFFICES ASSUME NEW o \in Ops
             PROVE  /\ ops'[o].active <=> ops'[o].status \in ActiveStatuses
                    /\ ops'[o].kind = "none" => ops'[o].status = "none"
                    /\ ops[o].status \in TerminalStatuses => ops'[o].status = ops[o].status
  BY DEF StatusInv
<1> USE DEF StatusInv, ActiveStatuses, TerminalStatuses
<1>1. CASE Kept(o)
  BY <1>1 DEF Kept
<1>2. CASE Created(o)
  BY <1>2 DEF Created, Kinds, RunKinds
<1>3. CASE Moved(o)
  BY <1>3 DEF Moved, Active, StartedStatuses
<1>4. CASE Ended(o)
  BY <1>4 DEF Ended, Active
<1> QED BY <1>1, <1>2, <1>3, <1>4 DEF RowSteps

LEMMA StatusInductive == ASSUME "long" \notin Faults PROVE Spec => []StatusInv
<1>1. Init => StatusInv
  BY DEF Init, StatusInv, NoRow, ActiveStatuses
<1>2. TypeOK /\ IInv /\ StatusInv /\ [Next]_vars => StatusInv'
  BY RowsMove, StatusKept
<1> QED BY <1>1, <1>2, TypeCorrect, Inductive, PTL DEF Spec

(* While no step outlives the tick lock, a finished operation is never     *)
(* revived, and never given another verdict.                               *)
THEOREM VerdictsAreFinal == ASSUME "long" \notin Faults PROVE Spec => TerminalIsFinal
<1>1. TypeOK /\ IInv /\ StatusInv /\ [Next]_vars
        => [\A o \in Ops : ops[o].status \in TerminalStatuses
                             => ops'[o].status = ops[o].status]_vars
  BY RowsMove, StatusKept
<1> QED BY <1>1, TypeCorrect, Inductive, StatusInductive, PTL DEF Spec, TerminalIsFinal

-----------------------------------------------------------------------------
(* The hand-off to Composer.                                               *)

(* A request names an inline change and a trigger an image update; a step  *)
(* that hands a run over carries a change, one that closes a check carries *)
(* a check.                                                                *)
IntentKinds ==
  /\ request # NoOp => ops[request].kind \in {"apply", "rollback"}
  /\ trigger # NoOp => ops[trigger].kind = "image"

HandsOver(t) ==
  /\ t.at \in {"handoff", "backup", "request", "applying"}
       => ops[t.op].kind \in {"apply", "rollback"}
  /\ t.at \in {"ask", "load", "save", "finish"} => ops[t.op].kind = "check"
  /\ t.at \in {"backup", "request"} => ~PendingRequest

(* Composer works on no inline change but the one whose request is still   *)
(* unacknowledged: the file it took it from has not moved under it.        *)
HandoffInv ==
  /\ IntentKinds
  /\ \A o \in busy : ops[o].kind # "image" => o = request /\ request # ack
  /\ \A w \in Workers : HandsOver(tick[w])

(* A created row keeps its kind.                                           *)
LEMMA KindKept ==
  ASSUME RowSteps, NEW o \in Ops, ops[o].kind # "none"
  PROVE  ops'[o].kind = ops[o].kind
  BY DEF RowSteps, Kept, Created, Moved, Ended

(* What Composer and the tick write into the hand-off files.               *)
LEMMA FilesOfOthers ==
  ASSUME NEW w \in Workers, TickStep(w), ~WriteRequest(w), ~WriteTrigger(w)
  PROVE  UNCHANGED <<request, ack, trigger, trigAck, busy, did, age>>
<1> USE DEF rows, files, pkgFiles, checkFiles, imageFiles, world
<1>1. CASE \/ TickStart(w) \/ Reconcile(w) \/ Claim(w) \/ ClaimNothing(w) \/ AskComposer(w)
           \/ LoadState(w) \/ SaveState(w) \/ FinishCheck(w) \/ FailCheck(w)
           \/ BeginHandoff(w) \/ RefuseHandoff(w) \/ BackUp(w) \/ FailHandoff(w)
           \/ MarkApplying(w) \/ TickCheck(w)
  BY <1>1 DEF TickStart, Reconcile, Claim, ClaimNothing, AskComposer, LoadState, SaveState,
     FinishCheck, FailCheck, BeginHandoff, RefuseHandoff, BackUp, FailHandoff, MarkApplying,
     TickCheck
<1>2. CASE \/ TickPackage(w) \/ ExpireHandoff(w) \/ CollectStatic(w) \/ SettlePackage(w)
           \/ TickImage(w) \/ BeginImage(w) \/ BackUpImage(w) \/ RaiseMaintenance(w)
           \/ AwaitRecreate(w) \/ FailImage(w) \/ FinalizeImage(w) \/ ReleaseLock(w)
  BY <1>2 DEF TickPackage, ExpireHandoff, CollectStatic, SettlePackage, TickImage, BeginImage,
     BackUpImage, RaiseMaintenance, AwaitRecreate, FailImage, FinalizeImage, ReleaseLock
<1> QED BY <1>1, <1>2 DEF TickStep

LEMMA InitHandoff == Init => HandoffInv
  BY DEF Init, HandoffInv, IntentKinds, HandsOver, Idle

LEMMA TickHandoff ==
  ASSUME TypeOK, IInv, HandoffInv, RowSteps, NEW w \in Workers, TickStep(w)
  PROVE  HandoffInv'
<1> DEFINE t == tick[w]
           u == tick'[w]
<1> USE DEF rows, files, pkgFiles, checkFiles, imageFiles, world
<1>1. Arrives(w, t, u)
  BY TickArrives
<1>2. t.at \in RunSteps \cup ImageSteps => t.op \in Ops /\ ops[t.op].kind # "none"
  BY DEF IInv, TickInv, Holds, RowInv, CreatedRows, Active, ActiveImages
<1>3. request' = request \/ WriteRequest(w)
  BY FilesOfOthers DEF WriteTrigger
<1>4. UNCHANGED <<ack, busy>>
  BY FilesOfOthers DEF WriteRequest, WriteTrigger
<1>5. \A o \in {request, trigger} \ {NoOp} : o \in Ops /\ ops[o].kind # "none"
  BY DEF TypeOK, Tokens, IInv, RowInv, CreatedRows
<1>6. IntentKinds'
  <2>1. request' # NoOp => ops'[request'].kind \in {"apply", "rollback"}
    <3>1. CASE request' = request
      BY <1>5, <3>1, KindKept DEF HandoffInv, IntentKinds
    <3>2. CASE WriteRequest(w)
      BY <3>2 DEF WriteRequest, At, HandoffInv, HandsOver
    <3> QED BY <1>3, <3>1, <3>2
  <2>2. trigger' # NoOp => ops'[trigger'].kind = "image"
    <3>1. CASE trigger' = trigger
      BY <1>5, <3>1, KindKept DEF HandoffInv, IntentKinds
    <3>2. CASE WriteTrigger(w)
      BY <3>2 DEF WriteTrigger, At, IInv, TickInv, Holds, ImageSteps, ImageBusySteps, ActiveImages
    <3> QED BY <3>1, <3>2, FilesOfOthers DEF WriteRequest
  <2> QED BY <2>1, <2>2 DEF IntentKinds
<1>7. ASSUME NEW o \in busy', ops'[o].kind # "image" PROVE o = request' /\ request' # ack'
  <2>1. o \in busy /\ ops[o].kind # "image"
    BY <1>4, <1>7, KindKept DEF TypeOK
  <2>2. o = request /\ request # ack /\ request # NoOp
    BY <2>1, UpdateRunsAssumption DEF HandoffInv, TypeOK, Ops, NoOp
  <2>3. ~WriteRequest(w)
    BY <2>2 DEF WriteRequest, At, HandoffInv, HandsOver, PendingRequest
  <2> QED BY <1>3, <1>4, <2>2, <2>3
<1>8. HandsOver(tick[w])'
  <2>1. u.at \in {"handoff", "backup", "request", "applying"}
          => ops'[u.op].kind \in {"apply", "rollback"}
    <3>1. u.at \in {"handoff", "backup", "request", "applying"}
            => u.op \in Ops /\ ops[u.op].kind \in {"apply", "rollback"}
      BY <1>1, <1>2 DEF Arrives, ArrivesWithRun, HandoffInv, HandsOver, Queued, Active,
         RunKinds, RunSteps
    <3> QED BY <3>1, KindKept
  <2>2. u.at \in {"ask", "load", "save", "finish"} => ops'[u.op].kind = "check"
    <3>1. u.at \in {"ask", "load", "save", "finish"} => u.op \in Ops /\ ops[u.op].kind = "check"
      BY <1>1, <1>2 DEF Arrives, ArrivesWithRun, HandoffInv, HandsOver, Active, RunSteps
    <3> QED BY <3>1, KindKept
  <2>3. u.at \in {"backup", "request"} => ~PendingRequest'
    <3>1. u.at \in {"backup", "request"} => ~PendingRequest
      BY <1>1 DEF Arrives, ArrivesWithRun, HandoffInv, HandsOver
    <3>2. u.at \in {"backup", "request"} => ~WriteRequest(w)
      BY GotoFacts DEF WriteRequest
    <3> QED BY <1>3, <1>4, <3>1, <3>2 DEF PendingRequest
  <2> QED BY <2>1, <2>2, <2>3 DEF HandsOver
<1>9. ASSUME NEW v \in Workers, v # w PROVE HandsOver(tick[v])'
  BY <1>9, OthersOff DEF HandsOver
<1> QED BY <1>6, <1>7, <1>8, <1>9 DEF HandoffInv

LEMMA EnvironmentHandoff ==
  ASSUME TypeOK, IInv, HandoffInv, Environment
  PROVE  HandoffInv'
<1> USE DEF rows, files, pkgFiles, checkFiles, imageFiles, world
<1>1. UNCHANGED <<ops, request, trigger>>
  BY DEF Environment, ExpireLock, Crash, TimePasses, Composer, ComposerChecks,
     ComposerTakesPackage, ComposerTakesImage, ComposerSwaps, ComposerEnds
<1>2. IntentKinds'
  BY <1>1 DEF HandoffInv, IntentKinds
<1>3. /\ \A o \in busy' : ops'[o].kind # "image" => o = request' /\ request' # ack'
      /\ PendingRequest' => PendingRequest
  <2>1. CASE UNCHANGED <<busy, ack>>
    BY <1>1, <2>1 DEF HandoffInv, PendingRequest
  <2>2. CASE ComposerTakesPackage
    BY <1>1, <2>2 DEF ComposerTakesPackage, HandoffInv, PendingRequest
  <2>3. CASE ComposerTakesImage
    BY <1>1, <2>3 DEF ComposerTakesImage, HandoffInv, PendingRequest, IntentKinds
  <2>4. ASSUME NEW o \in Ops, ComposerEnds(o)
        PROVE  /\ \A p \in busy' : ops'[p].kind # "image" => p = request' /\ request' # ack'
               /\ PendingRequest' => PendingRequest
    BY <1>1, <2>4 DEF ComposerEnds, HandoffInv, PendingRequest
  <2> QED BY <2>1, <2>2, <2>3, <2>4 DEF Environment, ExpireLock, Crash, TimePasses, Composer,
            ComposerChecks, ComposerSwaps
<1>4. ASSUME NEW v \in Workers PROVE HandsOver(tick[v])'
  BY <1>1, <1>3, EnvironmentStopsTicks DEF HandoffInv, HandsOver, Idle
<1> QED BY <1>2, <1>3, <1>4 DEF HandoffInv

LEMMA NextHandoff ==
  ASSUME TypeOK, IInv, HandoffInv, [Next]_vars
  PROVE  HandoffInv'
<1> USE DEF rows, files, pkgFiles, checkFiles, imageFiles, world
<1>1. RowSteps
  BY RowsMove
<1>2. CASE Web
  <2>1. UNCHANGED <<tick, request, ack, trigger, busy>>
    BY <1>2 DEF Web, QueueRun, QueueImage
  <2>2. Active = {}
    BY <1>2, QueuedAlone DEF Web
  <2>3. \A w \in Workers : tick[w].at \notin RunSteps
    BY <2>2 DEF IInv, TickInv, Holds
  <2>4. \A w \in Workers : HandsOver(tick[w])'
    BY <2>1, <2>3 DEF HandsOver, RunSteps
  <2>5. IntentKinds'
    <3>1. \A o \in {request, trigger} \ {NoOp} : ops'[o].kind = ops[o].kind
      BY <1>1, KindKept DEF TypeOK, Tokens, IInv, RowInv, CreatedRows
    <3> QED BY <2>1, <3>1 DEF HandoffInv, IntentKinds
  <2>6. ASSUME NEW o \in busy', ops'[o].kind # "image" PROVE o = request' /\ request' # ack'
    BY <1>1, <2>1, <2>6, KindKept DEF HandoffInv, TypeOK
  <2> QED BY <2>4, <2>5, <2>6 DEF HandoffInv
<1>3. ASSUME NEW w \in Workers, TickStep(w) PROVE HandoffInv'
  BY <1>1, <1>3, TickHandoff
<1>4. CASE UNCHANGED vars
  BY <1>4 DEF vars, HandoffInv, IntentKinds, HandsOver, PendingRequest
<1> QED BY <1>2, <1>3, <1>4, EnvironmentHandoff DEF Next

LEMMA HandoffInductive == ASSUME "long" \notin Faults PROVE Spec => []HandoffInv
<1>1. TypeOK /\ IInv /\ HandoffInv /\ [Next]_vars => HandoffInv'
  BY NextHandoff
<1> QED BY <1>1, InitHandoff, TypeCorrect, Inductive, PTL DEF Spec

(* While no step outlives the tick lock, a package request that Composer   *)
(* has not acknowledged is never overwritten by a later one, however late  *)
(* Composer is and whatever became of the run that wrote it.               *)
THEOREM RequestsAreNotOverwritten ==
  ASSUME "long" \notin Faults PROVE Spec => RequestIsNotOverwritten
<1>1. TypeOK /\ IInv /\ HandoffInv /\ [Next]_vars
        => [request' # request => ~PendingRequest]_vars
  <2> SUFFICES ASSUME TypeOK, IInv, HandoffInv, Next, request' # request
               PROVE  ~PendingRequest
    OBVIOUS
  <2> USE DEF rows, files, pkgFiles, checkFiles, imageFiles, world
  <2>1. PICK w \in Workers : TickStep(w)
    BY DEF Next, Web, QueueRun, QueueImage, Environment, ExpireLock, Crash, TimePasses, Composer,
       ComposerChecks, ComposerTakesPackage, ComposerTakesImage, ComposerSwaps, ComposerEnds
  <2>2. WriteRequest(w)
    BY <2>1, FilesOfOthers DEF WriteTrigger
  <2> QED BY <2>2 DEF WriteRequest, At, HandoffInv, HandsOver
<1> QED BY <1>1, TypeCorrect, Inductive, HandoffInductive, PTL
        DEF Spec, RequestIsNotOverwritten

-----------------------------------------------------------------------------
(* The maintenance page during an image update.                            *)

(* A tick past its reconcile has dealt with a recreated container; one     *)
(* that writes the trigger has raised the flag.                            *)
Masks(t) ==
  /\ t.at \notin {"off", "reconcile"} => ~rebuilt
  /\ t.at \in {"trigger", "await"} => maint

(* A container is recreated by the update under way, or by one that ended  *)
(* before the next had begun.                                              *)
MaskInv ==
  /\ \A w \in Workers : Masks(tick[w])
  /\ rebuilt => \A o \in ActiveImages : ops[o].status = "pending" \/ did[o] # "none"
  /\ AwaitingIsMasked

(* The maintenance flag changes only where the tick says so.               *)
LEMMA FlagOfOthers ==
  ASSUME NEW w \in Workers, TickStep(w), ~Reconcile(w)
  PROVE  /\ UNCHANGED <<did, rebuilt>>
         /\ \/ maint' \in {maint, TRUE}
            \/ FailCheck(w) \/ RefuseHandoff(w) \/ FailHandoff(w) \/ ExpireHandoff(w)
            \/ SettlePackage(w) \/ FailImage(w) \/ FinalizeImage(w)
<1> USE DEF rows, files, pkgFiles, checkFiles, imageFiles, world
<1>1. CASE \/ TickStart(w) \/ Claim(w) \/ ClaimNothing(w) \/ AskComposer(w)
           \/ LoadState(w) \/ SaveState(w) \/ FinishCheck(w)
           \/ BeginHandoff(w) \/ BackUp(w) \/ WriteRequest(w)
           \/ MarkApplying(w) \/ TickCheck(w)
  BY <1>1 DEF TickStart, Claim, ClaimNothing, AskComposer, LoadState, SaveState,
     FinishCheck, BeginHandoff, BackUp, WriteRequest, MarkApplying, TickCheck, Complete
<1>2. CASE \/ TickPackage(w) \/ CollectStatic(w)
           \/ TickImage(w) \/ BeginImage(w) \/ BackUpImage(w) \/ RaiseMaintenance(w)
           \/ AwaitRecreate(w) \/ WriteTrigger(w) \/ ReleaseLock(w)
  BY <1>2 DEF TickPackage, CollectStatic, TickImage, BeginImage,
     BackUpImage, RaiseMaintenance, AwaitRecreate, WriteTrigger, ReleaseLock
<1>3. CASE \/ FailCheck(w) \/ RefuseHandoff(w) \/ FailHandoff(w) \/ ExpireHandoff(w)
           \/ SettlePackage(w) \/ FailImage(w) \/ FinalizeImage(w)
  BY <1>3 DEF FailCheck, RefuseHandoff, FailHandoff, ExpireHandoff, SettlePackage, FailImage,
     FinalizeImage
<1> QED BY <1>1, <1>2, <1>3 DEF TickStep

(* What becomes of the image updates that are active after a tick step.    *)
LEMMA ImagesAfterTick ==
  ASSUME TypeOK, IInv, NEW w \in Workers, TickStep(w), NEW o \in ActiveImages'
  PROVE  /\ o \in ActiveImages
         /\ \/ ops'[o].status = ops[o].status
            \/ BeginImage(w)
            \/ AwaitRecreate(w)
         /\ ~FinishCheck(w) /\ ~FailCheck(w) /\ ~RefuseHandoff(w) /\ ~FailHandoff(w)
         /\ ~ExpireHandoff(w) /\ ~SettlePackage(w)
         /\ FailImage(w) \/ FinalizeImage(w) => UNCHANGED <<rows, maint, deploy>>
<1> USE DEF rows, files, pkgFiles, checkFiles, imageFiles, world
<1>1. RowSteps
  BY RowsMove DEF Next
<1>2. ASSUME NEW p \in Active, NEW status, FinishRun(p, status), ops[p].kind \in RunKinds
      PROVE  FALSE
  <2>1. o # p /\ o \in Active
    BY <1>1, <1>2 DEF RowSteps, Kept, Created, Moved, Ended, FinishRun, TypeOK, Row, Active,
       ActiveImages, RunKinds
  <2> QED BY <2>1 DEF IInv, RowInv, OneOperation
<1>3. ASSUME \/ FailCheck(w) \/ RefuseHandoff(w) \/ FailHandoff(w)
             \/ ExpireHandoff(w) \/ SettlePackage(w) \/ FinishCheck(w)
      PROVE  FALSE
  BY <1>2, <1>3, TickEndsRun
<1>4. FailImage(w) \/ FinalizeImage(w) => UNCHANGED <<rows, maint, deploy>>
  <2> SUFFICES ASSUME NEW status, tick[w].op \in ActiveImages, FinishImage(tick[w].op, status)
               PROVE  FALSE
    BY TickEndsImage
  <2>1. o # tick[w].op /\ o \in Active
    <3>1. tick[w].op \in Ops /\ ops[tick[w].op].active
      BY DEF ActiveImages, Active
    <3>2. ~ops'[tick[w].op].active
      BY <3>1 DEF FinishImage, TypeOK, Row
    <3>3. o \in Ops /\ ops'[o].active
      BY DEF ActiveImages, Active
    <3>4. Kept(o) \/ Created(o) \/ Moved(o) \/ Ended(o)
      BY <1>1, <3>3 DEF RowSteps
    <3>5. Active # {}
      BY <3>1 DEF Active
    <3> QED BY <3>2, <3>3, <3>4, <3>5 DEF Kept, Created, Moved, Ended, Active
  <2> QED BY <2>1 DEF IInv, RowInv, OneOperation, ActiveImages
<1>5. CASE ops' = ops
  BY <1>3, <1>4, <1>5 DEF Active, ActiveImages
<1>6. CASE BeginImage(w) \/ AwaitRecreate(w)
  <2>1. o \in ActiveImages
    BY <1>6 DEF BeginImage, AwaitRecreate, SetStatus, TypeOK, Row, Active, ActiveImages
  <2> QED BY <1>3, <1>4, <1>6, <2>1
<1>7. CASE AskComposer(w) \/ BackUp(w) \/ BackUpImage(w)
  <2>1. ops' = ops \/ Kept(o)
    BY <1>7, ColumnKept DEF AskComposer, BackUp, BackUpImage, Active, ActiveImages
  <2> QED BY <1>3, <1>4, <1>5, <2>1 DEF Kept, Active, ActiveImages
<1>8. CASE Claim(w) \/ BeginHandoff(w) \/ MarkApplying(w)
  <2>1. PICK p \in Active, status \in StartedStatuses :
          SetStatus(p, status) /\ ops[p].kind \in RunKinds
    <3>1. CASE Claim(w)
      BY <3>1 DEF Claim, Queued, StartedStatuses, ActiveStatuses
    <3>2. CASE BeginHandoff(w) \/ MarkApplying(w)
      BY <3>2 DEF IInv, TickInv, Holds, RunSteps, At, BeginHandoff, MarkApplying,
         StartedStatuses, ActiveStatuses
    <3> QED BY <1>8, <3>1, <3>2
  <2>2. Moved(p) /\ \A q \in Ops : q # p => Kept(q)
    BY <2>1, StatusMoves
  <2>3. o # p /\ Kept(o)
    BY <2>1, <2>2 DEF Moved, ActiveImages, Active, RunKinds
  <2> QED BY <1>3, <1>4, <2>3 DEF Kept, Active, ActiveImages
<1>9. CASE \/ TickStart(w) \/ Reconcile(w) \/ ClaimNothing(w) \/ LoadState(w) \/ SaveState(w)
           \/ WriteRequest(w) \/ TickCheck(w) \/ TickPackage(w) \/ CollectStatic(w)
           \/ TickImage(w) \/ RaiseMaintenance(w) \/ WriteTrigger(w) \/ ReleaseLock(w)
  BY <1>5, <1>9 DEF TickStart, Reconcile, ClaimNothing, LoadState, SaveState, WriteRequest,
     TickCheck, TickPackage, CollectStatic, TickImage, RaiseMaintenance, WriteTrigger,
     ReleaseLock
<1> QED BY <1>3, <1>4, <1>5, <1>6, <1>7, <1>8, <1>9 DEF TickStep

LEMMA TickMasks ==
  ASSUME TypeOK, IInv, MaskInv, NEW w \in Workers, TickStep(w)
  PROVE  MaskInv'
<1> USE DEF rows, files, pkgFiles, checkFiles, imageFiles, world
<1>1. Arrives(w, tick[w], tick'[w])
  BY TickArrives
<1>2. CASE Reconcile(w)
  <2>1. /\ UNCHANGED <<ops, did>> /\ ~rebuilt' /\ tick'[w].at = "claim"
        /\ maint' # maint => rebuilt \/ ActiveImages = {}
    <3>1. UNCHANGED <<ops, did>> /\ tick'[w].at = "claim"
      BY <1>2, GotoFacts DEF Reconcile
    <3>2. ~rebuilt'
      <4>1. rebuilt' = FALSE \/ (~rebuilt /\ rebuilt' = rebuilt)
        BY <1>2 DEF Reconcile
      <4> QED BY <4>1
    <3>3. maint' # maint => rebuilt \/ ActiveImages = {}
      BY <1>2 DEF Reconcile, MayLower
    <3> QED BY <3>1, <3>2, <3>3
  <2>2. \A v \in Workers : Masks(tick[v])'
    BY <2>1, OthersOff DEF Masks
  <2>3. AwaitingIsMasked'
    BY <2>1 DEF MaskInv, AwaitingIsMasked, ActiveImages, Active
  <2> QED BY <2>1, <2>2, <2>3 DEF MaskInv
<1>3. CASE ~Reconcile(w)
  <2>1. UNCHANGED <<did, rebuilt>>
    BY <1>3, FlagOfOthers
  <2>2. ASSUME NEW o \in ActiveImages' PROVE maint => maint'
    BY <1>3, <2>2, FlagOfOthers, ImagesAfterTick DEF TypeOK
  <2>3. AwaitRecreate(w) => maint
    BY DEF AwaitRecreate, At, MaskInv, Masks
  <2>4. BeginImage(w) => ~rebuilt
    BY DEF BeginImage, At, MaskInv, Masks
  <2>5. rebuilt' => \A o \in ActiveImages' : ops'[o].status = "pending" \/ did'[o] # "none"
    <3>1. AwaitRecreate(w) => ~rebuilt
      BY DEF AwaitRecreate, At, MaskInv, Masks
    <3> QED BY <2>1, <2>4, <3>1, ImagesAfterTick DEF MaskInv
  <2>6. AwaitingIsMasked'
    <3> SUFFICES ASSUME NEW o \in ActiveImages', ops'[o].status = "awaiting_recreate",
                        did'[o] = "none"
                 PROVE  maint'
      BY DEF AwaitingIsMasked
    <3>1. CASE BeginImage(w)
      <4>1. o \in ActiveImages /\ o # tick[w].op
        BY <3>1, ImagesAfterTick DEF BeginImage, SetStatus, TypeOK, Row, ActiveImages, Active
      <4>2. tick[w].op \in Active
        BY <3>1 DEF BeginImage, At, IInv, TickInv, Holds, ImageSteps, ActiveImages
      <4> QED BY <4>1, <4>2 DEF IInv, RowInv, OneOperation, ActiveImages
    <3>2. CASE ~BeginImage(w) /\ ~AwaitRecreate(w)
      BY <2>1, <2>2, <3>2, ImagesAfterTick DEF MaskInv, AwaitingIsMasked
    <3> QED BY <2>2, <2>3, <3>1, <3>2
  <2>7. Masks(tick[w])'
    <3>1. tick'[w].at \notin {"off", "reconcile"} => ~rebuilt'
      <4>1. tick'[w].at \notin {"off", "reconcile"} => tick[w].at # "off"
        BY <1>1 DEF Arrives
      <4>2. tick[w].at = "reconcile" => FALSE
        BY <1>3 DEF TickStep, TickStart, Claim, ClaimNothing, AskComposer, LoadState,
           SaveState, FinishCheck, FailCheck, BeginHandoff, RefuseHandoff, BackUp, FailHandoff,
           WriteRequest, MarkApplying, TickCheck, TickPackage, ExpireHandoff, CollectStatic,
           SettlePackage, TickImage, BeginImage, BackUpImage, RaiseMaintenance, WriteTrigger,
           AwaitRecreate, FailImage, FinalizeImage, ReleaseLock, At
      <4> QED BY <2>1, <4>1, <4>2 DEF MaskInv, Masks
    <3>2. ASSUME tick'[w].at \in {"trigger", "await"} PROVE maint'
      <4>1. RaiseMaintenance(w) \/ WriteTrigger(w)
        BY <1>1, <3>2 DEF Arrives, ArrivesBy
      <4> QED BY <4>1 DEF RaiseMaintenance, WriteTrigger, At, MaskInv, Masks
    <3> QED BY <3>1, <3>2 DEF Masks
  <2>8. \A v \in Workers : v # w => Masks(tick[v])'
    BY OthersOff DEF Masks
  <2> QED BY <2>5, <2>6, <2>7, <2>8 DEF MaskInv
<1> QED BY <1>2, <1>3

LEMMA EnvironmentMasks ==
  ASSUME TypeOK, IInv, MaskInv, "tardy" \notin Faults, Environment
  PROVE  MaskInv'
<1> USE DEF rows, files, pkgFiles, checkFiles, imageFiles, world
<1>1. UNCHANGED <<ops, maint>> /\ ActiveImages' = ActiveImages
  BY DEF Environment, ExpireLock, Crash, TimePasses, Composer, ComposerChecks,
     ComposerTakesPackage, ComposerTakesImage, ComposerSwaps, ComposerEnds, Active, ActiveImages
<1>2. \A o \in Ops : did[o] # "none" => did'[o] # "none"
  BY DEF TypeOK, Environment, ExpireLock, Crash, TimePasses, Composer, ComposerChecks,
     ComposerTakesPackage, ComposerTakesImage, ComposerSwaps, ComposerEnds
<1>3. AwaitingIsMasked'
  BY <1>1, <1>2 DEF MaskInv, AwaitingIsMasked, ActiveImages, Active
<1>4. CASE UNCHANGED rebuilt
  BY <1>1, <1>2, <1>3, <1>4, EnvironmentStopsTicks DEF MaskInv, Masks, Idle, ActiveImages, Active
<1>5. ASSUME NEW o \in Ops, ComposerSwaps(o) PROVE MaskInv'
  <2>1. o \in Active /\ did'[o] # "none"
    BY <1>5 DEF ComposerSwaps, Active, TypeOK
  <2>2. \A p \in ActiveImages' : p = o
    BY <1>1, <2>1 DEF IInv, RowInv, OneOperation, ActiveImages
  <2>3. \A v \in Workers : Masks(tick[v])'
    BY <1>5 DEF ComposerSwaps, Masks, Idle
  <2> QED BY <1>3, <2>1, <2>2, <2>3 DEF MaskInv
<1> QED BY <1>4, <1>5 DEF Environment, ExpireLock, Crash, TimePasses, Composer, ComposerChecks,
        ComposerTakesPackage, ComposerTakesImage, ComposerEnds

LEMMA WebMasks ==
  ASSUME TypeOK, IInv, MaskInv, Web
  PROVE  MaskInv'
<1> USE DEF rows, files, pkgFiles, checkFiles, imageFiles, world
<1>1. UNCHANGED <<tick, maint, did, rebuilt>>
  BY DEF Web, QueueRun, QueueImage
<1>2. RowSteps
  BY RowsMove DEF Next
<1>3. Active = {}
  BY QueuedAlone DEF Web
<1>4. ASSUME NEW o \in ActiveImages' PROVE ops'[o].status = "pending"
  <2>1. o \in Ops /\ ops'[o].active /\ ops'[o].kind = "image" /\ ~ops[o].active
    BY <1>3 DEF ActiveImages, Active
  <2>2. CASE QueueImage
    <3>1. PICK p \in Ops, pinned \in BOOLEAN, skip \in BOOLEAN :
            Unused(p) /\ ops' = [ops EXCEPT ![p] = NewRow("image", "pending", pinned, skip)]
      BY <2>2 DEF QueueImage
    <3> QED BY <2>1, <3>1 DEF TypeOK, NewRow, NoRow
  <2>3. ASSUME NEW kind \in RunKinds, QueueRun(kind) PROVE FALSE
    <3>1. PICK p \in Ops, skip \in BOOLEAN :
            Unused(p) /\ ops' = [ops EXCEPT ![p] = NewRow(kind, "queued", FALSE, skip)]
      BY <2>3 DEF QueueRun
    <3> QED BY <2>1, <3>1 DEF TypeOK, NewRow, NoRow, RunKinds
  <2> QED BY <2>2, <2>3 DEF Web
<1> QED BY <1>1, <1>4 DEF MaskInv, Masks, AwaitingIsMasked

LEMMA MaskInductive ==
  ASSUME "long" \notin Faults, "tardy" \notin Faults
  PROVE  Spec => []MaskInv
<1>1. Init => MaskInv
  BY DEF Init, MaskInv, Masks, AwaitingIsMasked, Idle, ActiveImages, Active, NoRow
<1>2. TypeOK /\ IInv /\ MaskInv /\ [Next]_vars => MaskInv'
  <2>1. TypeOK /\ MaskInv /\ UNCHANGED vars => MaskInv'
    BY DEF vars, rows, files, world, MaskInv, Masks, AwaitingIsMasked, ActiveImages, Active
  <2> QED BY <2>1, TickMasks, EnvironmentMasks, WebMasks DEF Next
<1> QED BY <1>1, <1>2, TypeCorrect, Inductive, PTL DEF Spec

(* While no step outlives the tick lock and Composer leaves alone what has *)
(* ended, the site stays behind the maintenance page from the hand-off of  *)
(* an image update to Composer's answer: no reconcile, not even that of a  *)
(* container recreated by an earlier update, lowers the flag under it.     *)
THEOREM HandoffsAreMasked ==
  ASSUME "long" \notin Faults, "tardy" \notin Faults
  PROVE  Spec => []AwaitingIsMasked
<1>1. MaskInv => AwaitingIsMasked
  BY DEF MaskInv
<1> QED BY <1>1, MaskInductive, PTL

-----------------------------------------------------------------------------
(* Composer carries out what is under way, while nothing times out.        *)

(* The operations Composer has been told of and has not answered.          *)
Outstanding == {o \in Ops : (o = request /\ request # ack) \/ (o = trigger /\ trigger # trigAck)}
Untouched(o) == o \notin {request, trigger}

(* What the row a tick carries has been through at each step.              *)
InHand(t) ==
  /\ t.at \in {"handoff", "backup", "request", "begin", "image_backup", "maintain", "trigger"}
       => Untouched(t.op)
  /\ t.at \in {"handoff", "backup", "request"} => ops[t.op].status \in StartedStatuses
  /\ t.at \in {"collect", "settle"} => ack = t.op
  /\ t.at = "finalize" => ops[t.op].status = "awaiting_recreate"

(* A deploy status the image update would take for its own is its own.     *)
ReportIsOwn ==
  \A o \in ActiveImages :
    ops[o].status = "awaiting_recreate" /\ deploy.fresh
      => /\ deploy.status \in {"ready", "failed"} => Acked(o)
         /\ deploy.status = "ready" => did[o] = "applied"

ComposerInv ==
  /\ \A o \in Ops : age[o] = 0
  /\ busy \subseteq Outstanding
  /\ Outstanding \subseteq Active
  /\ \A o \in Active : ops[o].status \in {"queued", "pending"} => Untouched(o)
  /\ \A w \in Workers : InHand(tick[w])
  /\ ReportIsOwn
  /\ VerdictIsComposers

(* A tick ends the operation it carries, or the run that waits too long.   *)
LEMMA EndingStep ==
  ASSUME TypeOK, IInv, NEW w \in Workers, TickStep(w), NEW o \in Ops, Ended(o)
  PROVE  \/ ExpireHandoff(w) /\ o = token
         \/ /\ o = tick[w].op /\ o \in Active
            /\ \/ FinishCheck(w) \/ FailCheck(w) \/ RefuseHandoff(w) \/ FailHandoff(w)
               \/ SettlePackage(w) \/ FailImage(w) \/ FinalizeImage(w)
<1> USE DEF rows, files, pkgFiles, checkFiles, imageFiles, world
<1>1. ~Kept(o) /\ ~Moved(o) /\ ops' # ops
  BY DEF Ended, Active, Kept, Moved, TypeOK, Row
<1>2. CASE \/ Claim(w) \/ BeginHandoff(w) \/ MarkApplying(w) \/ BeginImage(w)
           \/ AwaitRecreate(w)
  BY <1>1, <1>2, TickMovesRow, StatusMoves
<1>3. CASE AskComposer(w) \/ BackUp(w) \/ BackUpImage(w)
  BY <1>1, <1>3, ColumnKept DEF AskComposer, BackUp, BackUpImage
<1>4. ASSUME NEW p \in Active, NEW status \in TerminalStatuses,
             ops' = [ops EXCEPT ![p].status = status, ![p].active = FALSE]
      PROVE  o = p
  BY <1>1, <1>4, RowEnds
<1>5. CASE ExpireHandoff(w)
  BY <1>4, <1>5 DEF ExpireHandoff, Waiting, HandleFailure, FinishRun, TerminalStatuses
<1>6. CASE \/ FinishCheck(w) \/ FailCheck(w) \/ RefuseHandoff(w) \/ FailHandoff(w)
           \/ SettlePackage(w)
  <2>1. tick[w].op \in Active
    BY <1>6 DEF IInv, TickInv, Holds, RunSteps, At, FinishCheck, FailCheck, RefuseHandoff,
       FailHandoff, SettlePackage
  <2>2. \E status \in TerminalStatuses : FinishRun(tick[w].op, status)
    BY <1>6 DEF FinishCheck, FailCheck, RefuseHandoff, FailHandoff, SettlePackage, Complete,
       HandleFailure, TerminalStatuses
  <2> QED BY <1>4, <1>6, <2>1, <2>2 DEF FinishRun
<1>7. CASE FailImage(w) \/ FinalizeImage(w)
  BY <1>1, <1>4, <1>7, TickEndsImage DEF FinishImage, ActiveImages
<1>8. CASE \/ TickStart(w) \/ Reconcile(w) \/ ClaimNothing(w) \/ LoadState(w) \/ SaveState(w)
           \/ WriteRequest(w) \/ TickCheck(w) \/ TickPackage(w) \/ CollectStatic(w)
           \/ TickImage(w) \/ RaiseMaintenance(w) \/ WriteTrigger(w) \/ ReleaseLock(w)
  BY <1>1, <1>8 DEF TickStart, Reconcile, ClaimNothing, LoadState, SaveState, WriteRequest,
     TickCheck, TickPackage, CollectStatic, TickImage, RaiseMaintenance, WriteTrigger,
     ReleaseLock
<1> QED BY <1>2, <1>3, <1>5, <1>6, <1>7, <1>8 DEF TickStep

(* An operation ends with nothing outstanding, and its verdict is what     *)
(* Composer did.                                                           *)
Truthful(o) ==
  /\ ops'[o].status = "completed" /\ ops[o].kind # "check" => did[o] = "applied"
  /\ ops'[o].status = "rolled_back" => did[o] = "rolled_back"

LEMMA EndsAnswered ==
  ASSUME TypeOK, IInv, HandoffInv, ComposerInv, NEW w \in Workers, TickStep(w),
         NEW o \in Ops, Ended(o)
  PROVE  o \notin Outstanding /\ Truthful(o)
<1> DEFINE Ends == ops' = [ops EXCEPT ![o].status = "failed", ![o].active = FALSE]
<1> USE DEF rows, files, pkgFiles, checkFiles, imageFiles, world
<1>1. ASSUME NEW status, ops' = [ops EXCEPT ![o].status = status, ![o].active = FALSE]
      PROVE  ops'[o].status = status
  BY <1>1 DEF TypeOK, Row
<1>2. Ends => Truthful(o)
  BY <1>1 DEF Truthful
<1>3. CASE ExpireHandoff(w) /\ o = token
  BY <1>3 DEF ExpireHandoff, ComposerInv
<1>4. CASE o = tick[w].op /\ (FinishCheck(w) \/ FailCheck(w))
  <2>1. ops[o].kind = "check"
    BY <1>4 DEF FinishCheck, FailCheck, At, HandoffInv, HandsOver
  <2>2. o \notin Outstanding
    BY <2>1, UpdateRunsAssumption DEF Outstanding, HandoffInv, IntentKinds, Ops, NoOp
  <2>3. ops'[o].status \in {"completed", "failed"}
    BY <1>1, <1>4 DEF FinishCheck, FailCheck, Complete, HandleFailure, FinishRun
  <2> QED BY <2>1, <2>2, <2>3 DEF Truthful
<1>5. CASE o = tick[w].op /\ RefuseHandoff(w)
  <2>1. request \in Active /\ o \in Active
    BY <1>5 DEF RefuseHandoff, PendingRequest, TypeOK, Tokens, ComposerInv, Outstanding, Ended
  <2> QED BY <1>5, <2>1 DEF RefuseHandoff, At, ComposerInv, InHand, Untouched, IInv, RowInv,
            OneOperation
<1>6. CASE o = tick[w].op /\ (FailHandoff(w) \/ FailImage(w))
  <2>1. Ends
    BY <1>6 DEF FailHandoff, FailImage, HandleFailure, FinishRun, FinishImage
  <2>2. Untouched(o)
    BY <1>6 DEF FailHandoff, FailImage, At, ComposerInv, InHand
  <2> QED BY <1>2, <2>1, <2>2 DEF Untouched, Outstanding
<1>7. CASE o = tick[w].op /\ SettlePackage(w)
  <2>1. ack = o /\ ops[o].kind \in RunKinds
    BY <1>7 DEF SettlePackage, At, ComposerInv, InHand, IInv, TickInv, Holds, RunSteps
  <2>2. o \notin Outstanding
    BY <2>1, UpdateRunsAssumption DEF Outstanding, HandoffInv, IntentKinds, Ops, NoOp, RunKinds
  <2>3. \/ did[o] = "applied" /\ ops'[o].status = "completed"
        \/ did[o] = "rolled_back" /\ ops'[o].status = "rolled_back"
        \/ ops'[o].status = "failed"
    BY <1>1, <1>7 DEF SettlePackage, Complete, HandleFailure, FinishRun
  <2> QED BY <2>2, <2>3 DEF Truthful
<1>8. CASE o = tick[w].op /\ FinalizeImage(w)
  <2>1. o \in ActiveImages /\ ops[o].status = "awaiting_recreate"
    BY <1>8 DEF FinalizeImage, At, ComposerInv, InHand, IInv, TickInv, Holds, ImageSteps
  <2>2. Verdict(o) # "none" /\ FinishImage(o, Verdict(o))
    BY <1>8 DEF FinalizeImage, Ended, Active
  <2>3. ~TimedOut(o)
    BY DEF ComposerInv, TimedOut
  <2>4. ReportsFailure(o) \/ ReportsReady(o)
    BY <2>2, <2>3 DEF Verdict
  <2>5. Acked(o) /\ (ReportsReady(o) => did[o] = "applied")
    BY <2>1, <2>4 DEF ReportsFailure, ReportsReady, ComposerInv, ReportIsOwn
  <2>6. o \notin Outstanding
    BY <2>1, <2>5, UpdateRunsAssumption DEF Outstanding, HandoffInv, IntentKinds, Ops, NoOp,
       Acked, ActiveImages
  <2>7. ops'[o].status = Verdict(o)
    BY <1>1, <2>2 DEF FinishImage
  <2>8. Truthful(o)
    BY <2>3, <2>4, <2>5, <2>7 DEF Truthful, Verdict
  <2> QED BY <2>6, <2>8
<1> QED BY <1>3, <1>4, <1>5, <1>6, <1>7, <1>8, EndingStep

(* What is outstanding after a tick step is what was, or what it wrote.    *)
LEMMA TickLeavesOutstanding ==
  ASSUME TypeOK, IInv, HandoffInv, ComposerInv, NEW w \in Workers, TickStep(w)
  PROVE  /\ busy' \subseteq Outstanding'
         /\ Outstanding' \subseteq Active'
<1> USE DEF rows, files, pkgFiles, checkFiles, imageFiles, world
<1>1. RowSteps
  BY RowsMove DEF Next
<1>2. ASSUME NEW o \in Outstanding PROVE o \in Active'
  <2>1. o \in Ops /\ o \in Active /\ ~Ended(o)
    BY EndsAnswered DEF ComposerInv, Outstanding
  <2> QED BY <1>1, <2>1 DEF RowSteps, Kept, Created, Moved, Active
<1>3. CASE ~WriteRequest(w) /\ ~WriteTrigger(w)
  <2>1. UNCHANGED <<busy, Outstanding>>
    BY <1>3, FilesOfOthers DEF Outstanding
  <2> QED BY <1>2, <2>1 DEF ComposerInv
<1>4. CASE WriteRequest(w)
  <2>1. tick[w].op \in Active' /\ tick[w].op \notin busy
    BY <1>4 DEF WriteRequest, At, IInv, TickInv, Holds, RunSteps, ComposerInv, InHand, Untouched,
       Outstanding, Active
  <2>2. ~PendingRequest
    BY <1>4 DEF WriteRequest, At, HandoffInv, HandsOver
  <2>3. Outstanding' \subseteq Outstanding \cup {tick[w].op} /\ busy' = busy
    BY <1>4 DEF WriteRequest, Outstanding
  <2>4. Outstanding \subseteq Outstanding'
    BY <1>4, <2>2, UpdateRunsAssumption DEF WriteRequest, Outstanding, PendingRequest, Ops, NoOp
  <2> QED BY <1>2, <2>1, <2>3, <2>4 DEF ComposerInv
<1>5. CASE WriteTrigger(w)
  <2>1. tick[w].op \in Active /\ tick[w].op \in Active' /\ tick[w].op \notin {request, trigger}
    BY <1>5 DEF WriteTrigger, At, IInv, TickInv, Holds, ImageSteps, ImageBusySteps, ComposerInv,
       InHand, Untouched, Active, ActiveImages
  <2>2. Outstanding = {}
    BY <2>1 DEF ComposerInv, IInv, RowInv, OneOperation, Outstanding
  <2>3. Outstanding' \subseteq {tick[w].op}
    BY <1>5, <2>2 DEF WriteTrigger, Outstanding
  <2>4. busy' = {}
    BY <1>5, <2>2 DEF WriteTrigger, ComposerInv
  <2> QED BY <2>1, <2>3, <2>4
<1> QED BY <1>3, <1>4, <1>5

(* Nothing is written about an operation that has not begun.               *)
LEMMA TickLeavesUntouched ==
  ASSUME TypeOK, IInv, HandoffInv, ComposerInv, NEW w \in Workers, TickStep(w),
         NEW o \in Active', ops'[o].status \in {"queued", "pending"}
  PROVE  Untouched(o)'
<1> USE DEF rows, files, pkgFiles, checkFiles, imageFiles, world
<1>1. Active # {}
  <2> SUFFICES ASSUME Active = {} PROVE FALSE
    OBVIOUS
  <2>1. ops' = ops
    BY DEF IInv, TickInv, Holds, RunSteps, ImageSteps, ImageBusySteps, At, ActiveImages, Queued,
       Waiting, TickStep, TickStart, Reconcile, Claim, ClaimNothing, AskComposer, LoadState,
       SaveState, FinishCheck, FailCheck, BeginHandoff, RefuseHandoff, BackUp, FailHandoff,
       WriteRequest, MarkApplying, TickCheck, TickPackage, ExpireHandoff, CollectStatic,
       SettlePackage, TickImage, BeginImage, BackUpImage, RaiseMaintenance, WriteTrigger,
       AwaitRecreate, FailImage, FinalizeImage, ReleaseLock
  <2> QED BY <2>1 DEF Active
<1>2. o \in Active /\ ops[o].status \in {"queued", "pending"} /\ o \in Ops
  <2>1. Kept(o) \/ Created(o) \/ Moved(o) \/ Ended(o)
    BY RowsMove DEF Next, RowSteps, Active
  <2> QED BY <1>1, <2>1 DEF Kept, Created, Moved, Ended, Active, StartedStatuses
<1>3. Untouched(o)
  BY <1>2 DEF ComposerInv
<1>4. CASE ~WriteRequest(w) /\ ~WriteTrigger(w)
  BY <1>3, <1>4, FilesOfOthers DEF Untouched
<1>5. CASE WriteRequest(w)
  <2>1. tick[w].op \in Active /\ tick[w].op # o
    BY <1>2, <1>5 DEF WriteRequest, At, IInv, TickInv, Holds, RunSteps, ComposerInv, InHand,
       StartedStatuses
  <2> QED BY <1>2, <2>1 DEF IInv, RowInv, OneOperation
<1>6. CASE WriteTrigger(w)
  <2>1. tick[w].op \in Active /\ tick[w].op # o
    BY <1>2, <1>6 DEF WriteTrigger, At, IInv, TickInv, Holds, ImageSteps, ImageBusySteps,
       ActiveImages
  <2> QED BY <1>2, <2>1 DEF IInv, RowInv, OneOperation
<1> QED BY <1>4, <1>5, <1>6

LEMMA TickInHand ==
  ASSUME TypeOK, IInv, HandoffInv, ComposerInv, NEW w \in Workers, TickStep(w)
  PROVE  \A v \in Workers : InHand(tick[v])'
<1> DEFINE t == tick[w]
           u == tick'[w]
<1> USE DEF rows, files, pkgFiles, checkFiles, imageFiles, world
<1>1. Arrives(w, t, u)
  BY TickArrives
<1>2. t.at \in RunSteps \cup ImageSteps => t.op \in Active
  BY DEF IInv, TickInv, Holds, ActiveImages
<1>3. ASSUME u.at \in {"handoff", "backup", "request", "begin", "image_backup", "maintain",
                       "trigger"}
      PROVE  u.op \notin {request', trigger'}
  <2>1. ~WriteRequest(w) /\ ~WriteTrigger(w)
    BY <1>3, GotoFacts DEF WriteRequest, WriteTrigger
  <2>2. Untouched(u.op)
    BY <1>1, <1>3 DEF Arrives, ArrivesWithRun, ArrivesWithImage, ComposerInv, InHand, Queued,
       ActiveImages
  <2> QED BY <2>1, <2>2, FilesOfOthers DEF Untouched
<1>4. ASSUME u.at \in {"handoff", "backup", "request"} PROVE ops'[u.op].status \in StartedStatuses
  <2>1. u.op \in Active
    BY <1>1, <1>2, <1>4 DEF Arrives, ArrivesWithRun, Queued, RunSteps
  <2>2. Kept(u.op) \/ Moved(u.op) \/ Ended(u.op)
    BY <2>1, RowsMove DEF Next, RowSteps, Created, Active
  <2>3. CASE u.at \in {"backup", "request"}
    <3>1. ops[u.op].status \in StartedStatuses
      BY <1>1, <2>3 DEF Arrives, ArrivesWithRun, ComposerInv, InHand
    <3>2. CASE BeginHandoff(w)
      BY <3>2, TickMovesRow, StatusMoves, <2>1, <2>2, <3>1 DEF Moved, Kept, Active
    <3>3. CASE BackUp(w)
      BY <2>1, <3>1, <3>3, ColumnKept DEF BackUp, Kept, Active
    <3> QED BY <1>1, <2>3, <3>2, <3>3 DEF Arrives, ArrivesBy
  <2>4. CASE u.at = "handoff"
    <3>1. Claim(w)
      BY <1>1, <2>4 DEF Arrives, ArrivesBy
    <3>2. PICK o \in Queued, status \in StartedStatuses :
            SetStatus(o, status) /\ (\E step : Carry(w, step, o, "check"))
      BY <3>1 DEF Claim, StartedStatuses, ActiveStatuses
    <3>3. u.op = o
      BY <3>2, CarryFacts
    <3> QED BY <3>2, <3>3, StatusMoves DEF Queued
  <2> QED BY <1>4, <2>3, <2>4
<1>5. u.at \in {"collect", "settle"} => ack' = u.op
  BY <1>1, FilesOfOthers DEF Arrives, ArrivesWithRun, ComposerInv, InHand, WriteRequest,
     WriteTrigger
<1>6. ASSUME u.at = "finalize" PROVE ops'[u.op].status = "awaiting_recreate"
  <2>1. u.op \in ActiveImages /\ ops[u.op].status = "awaiting_recreate" /\ t.at # "off"
    BY <1>1, <1>6 DEF Arrives, ArrivesWithImage
  <2>2. ops' = ops
    BY <1>1, <1>6 DEF Arrives, ArrivesBy, TickImage
  <2> QED BY <2>1, <2>2
<1>7. InHand(tick[w])'
  BY <1>3, <1>4, <1>5, <1>6 DEF InHand, Untouched
<1> QED BY <1>7, OthersOff DEF InHand

(* The deploy status is the active image update's, or says nothing to it.  *)
LEMMA TickReport ==
  ASSUME TypeOK, IInv, HandoffInv, ComposerInv, NEW w \in Workers, TickStep(w)
  PROVE  ReportIsOwn'
<1> USE DEF rows, files, pkgFiles, checkFiles, imageFiles, world
<1> SUFFICES ASSUME NEW o \in ActiveImages', ops'[o].status = "awaiting_recreate", deploy'.fresh
             PROVE  /\ deploy'.status \in {"ready", "failed"} => trigAck' = o
                    /\ deploy'.status = "ready" => did'[o] = "applied"
  BY DEF ReportIsOwn, Acked
<1>1. o \in ActiveImages
  BY ImagesAfterTick
<1>2. ~AwaitRecreate(w)
  BY DEF AwaitRecreate, TypeOK
<1>3. ~BeginImage(w)
  <2> SUFFICES ASSUME BeginImage(w) PROVE FALSE
    OBVIOUS
  <2>1. tick[w].op \in Active /\ tick[w].op = o
    BY <1>1 DEF BeginImage, At, IInv, TickInv, Holds, ImageSteps, ActiveImages, RowInv,
       OneOperation
  <2> QED BY <2>1 DEF BeginImage, SetStatus, TypeOK, Row, Active
<1>4. ~BeginHandoff(w)
  BY <1>1 DEF BeginHandoff, At, IInv, TickInv, Holds, RunSteps, RowInv, OneOperation,
     ActiveImages, RunKinds
<1>5. ops'[o].status = ops[o].status
  BY <1>2, <1>3, ImagesAfterTick
<1>6. deploy' = deploy
  <2>1. CASE FailImage(w) \/ FinalizeImage(w)
    BY <2>1, ImagesAfterTick
  <2>2. CASE \/ TickStart(w) \/ Reconcile(w) \/ Claim(w) \/ ClaimNothing(w) \/ AskComposer(w)
             \/ LoadState(w) \/ SaveState(w) \/ BackUp(w) \/ WriteRequest(w)
             \/ MarkApplying(w) \/ TickCheck(w)
    BY <2>2 DEF TickStart, Reconcile, Claim, ClaimNothing, AskComposer, LoadState, SaveState,
       BackUp, WriteRequest, MarkApplying, TickCheck
  <2>3. CASE \/ TickPackage(w) \/ CollectStatic(w) \/ TickImage(w) \/ BackUpImage(w)
             \/ RaiseMaintenance(w) \/ WriteTrigger(w) \/ ReleaseLock(w)
    BY <2>3 DEF TickPackage, CollectStatic, TickImage, BackUpImage, RaiseMaintenance,
       WriteTrigger, ReleaseLock
  <2> QED BY <1>2, <1>3, <1>4, <2>1, <2>2, <2>3, ImagesAfterTick DEF TickStep
<1>7. UNCHANGED <<trigAck, did>>
  BY FilesOfOthers DEF WriteRequest, WriteTrigger
<1> QED BY <1>1, <1>5, <1>6, <1>7 DEF ComposerInv, ReportIsOwn, Acked

(* A verdict given by a tick step is what Composer did.                    *)
LEMMA TickVerdict ==
  ASSUME TypeOK, IInv, HandoffInv, ComposerInv, NEW w \in Workers, TickStep(w)
  PROVE  VerdictIsComposers'
<1> USE DEF rows, files, pkgFiles, checkFiles, imageFiles, world
<1> SUFFICES ASSUME NEW o \in Ops
             PROVE  /\ ops'[o].status = "completed" /\ ops'[o].kind # "check"
                         => did[o] = "applied"
                    /\ ops'[o].status = "rolled_back" => did[o] = "rolled_back"
  <2>1. did' = did
    BY FilesOfOthers DEF WriteRequest, WriteTrigger
  <2> QED BY <2>1 DEF VerdictIsComposers
<1>1. CASE Kept(o)
  BY <1>1 DEF Kept, ComposerInv, VerdictIsComposers
<1>2. CASE Created(o) \/ Moved(o)
  BY <1>2 DEF Created, Moved, StartedStatuses, ActiveStatuses
<1>3. CASE Ended(o)
  BY <1>3, EndsAnswered DEF Truthful, Ended
<1> QED BY <1>1, <1>2, <1>3, RowsMove DEF Next, RowSteps

LEMMA TickComposer ==
  ASSUME TypeOK, IInv, HandoffInv, ComposerInv, NEW w \in Workers, TickStep(w)
  PROVE  ComposerInv'
<1>1. age' = age
  BY FilesOfOthers DEF WriteRequest, WriteTrigger, world
<1> QED BY <1>1, TickLeavesOutstanding, TickLeavesUntouched, TickInHand, TickReport, TickVerdict
        DEF ComposerInv

(* Composer answers what it was told of, and touches nothing else.         *)
LEMMA EnvironmentComposer ==
  ASSUME TypeOK, IInv, HandoffInv, ComposerInv, "late" \notin Faults, "tardy" \notin Faults,
         Environment
  PROVE  ComposerInv'
<1> USE DEF rows, files, pkgFiles, checkFiles, imageFiles, world
<1>1. UNCHANGED <<ops, request, trigger, age>> /\ Active' = Active /\ ActiveImages' = ActiveImages
  BY DEF Environment, ExpireLock, Crash, TimePasses, Composer, ComposerChecks,
     ComposerTakesPackage, ComposerTakesImage, ComposerSwaps, ComposerEnds, Active, ActiveImages
<1>2. \A v \in Workers : tick'[v] = tick[v] \/ tick'[v] = Idle
  BY EnvironmentStopsTicks
<1>3. NoOp \notin Ops
  BY UpdateRunsAssumption DEF Ops, NoOp
<1>4. CASE UNCHANGED <<ack, trigAck, busy, did, deploy>>
  <2>1. \A v \in Workers : InHand(tick[v])'
    BY <1>1, <1>2, <1>4 DEF ComposerInv, InHand, Untouched, Idle
  <2>2. Outstanding' = Outstanding /\ ReportIsOwn' /\ VerdictIsComposers'
    BY <1>1, <1>4 DEF ComposerInv, Outstanding, ReportIsOwn, Acked, VerdictIsComposers
  <2> QED BY <1>1, <1>4, <2>1, <2>2 DEF ComposerInv, Untouched
<1>5. CASE ComposerTakesPackage \/ ComposerTakesImage
  <2>1. \A v \in Workers : InHand(tick[v])'
    BY <1>1, <1>2, <1>5 DEF ComposerInv, InHand, Untouched, Idle, ComposerTakesPackage,
       ComposerTakesImage
  <2>2. Outstanding' = Outstanding /\ VerdictIsComposers'
    BY <1>1, <1>5 DEF ComposerInv, Outstanding, VerdictIsComposers, ComposerTakesPackage,
       ComposerTakesImage
  <2>3. busy' \subseteq Outstanding
    BY <1>5 DEF ComposerInv, Outstanding, ComposerTakesPackage, ComposerTakesImage,
       PendingRequest, TypeOK, Tokens
  <2>4. ReportIsOwn'
    BY <1>5 DEF ReportIsOwn, ComposerTakesPackage, ComposerTakesImage
  <2> QED BY <1>1, <2>1, <2>2, <2>3, <2>4 DEF ComposerInv, Untouched
<1>6. ASSUME NEW o \in Ops, ComposerSwaps(o) PROVE ComposerInv'
  <2>1. /\ UNCHANGED <<ack, trigAck, busy, deploy>> /\ did[o] = "none"
        /\ \A p \in Ops : p # o => did'[p] = did[p]
    BY <1>6 DEF ComposerSwaps, TypeOK
  <2>2. \A v \in Workers : InHand(tick[v])'
    BY <1>6 DEF ComposerSwaps, InHand, Idle
  <2>3. Outstanding' = Outstanding /\ Untouched(o)' = Untouched(o)
    BY <1>1, <2>1 DEF Outstanding, Untouched
  <2>4. VerdictIsComposers'
    BY <1>1, <2>1 DEF ComposerInv, VerdictIsComposers
  <2>5. ReportIsOwn'
    BY <1>1, <2>1 DEF ComposerInv, ReportIsOwn, Acked, ActiveImages, Active
  <2> QED BY <1>1, <2>1, <2>2, <2>3, <2>4, <2>5 DEF ComposerInv, Untouched
<1>7. ASSUME NEW o \in Ops, ComposerEnds(o) PROVE ComposerInv'
  <2>1. /\ o \in Outstanding /\ o \in Active
        /\ \A p \in Active : p = o
    BY <1>7 DEF ComposerEnds, ComposerInv, IInv, RowInv, OneOperation
  <2>2. /\ busy' = busy \ {o} /\ tick' = tick
        /\ did' = [did EXCEPT ![o] = IF @ = "none" THEN "failed" ELSE @]
    BY <1>7 DEF ComposerEnds
  <2>3. \/ /\ ops[o].kind = "image" /\ o = trigger /\ o # request
           /\ trigAck' = o /\ ack' = ack
           /\ deploy' = [status |-> IF did[o] = "applied" THEN "ready" ELSE "failed", fresh |-> TRUE]
        \/ /\ ops[o].kind # "image" /\ o = request /\ o # trigger
           /\ ack' = o /\ trigAck' = trigAck
    BY <1>3, <1>7, <2>1 DEF ComposerEnds, Outstanding, HandoffInv, IntentKinds
  <2>4. Outstanding' = {}
    BY <1>1, <2>1, <2>3 DEF Outstanding, ComposerInv
  <2>5. busy' = {}
    BY <2>1, <2>2 DEF ComposerInv
  <2>6. ASSUME NEW v \in Workers PROVE InHand(tick[v])'
    <3>1. tick[v].at \in {"collect", "settle"} => ack' = tick[v].op
      <4>1. tick[v].at \in {"collect", "settle"}
              => tick[v].op \in Active /\ ack = tick[v].op /\ ops[tick[v].op].kind \in RunKinds
        BY DEF ComposerInv, InHand, IInv, TickInv, Holds, RunSteps
      <4> QED BY <2>1, <2>3, <4>1
    <3> QED BY <1>1, <2>2, <3>1 DEF ComposerInv, InHand, Untouched
  <2>7. ReportIsOwn'
    BY <1>1, <2>1, <2>2, <2>3 DEF ReportIsOwn, Acked, TypeOK, ActiveImages
  <2>8. VerdictIsComposers'
    BY <1>1, <2>2 DEF ComposerInv, VerdictIsComposers, TypeOK
  <2> QED BY <1>1, <2>4, <2>5, <2>6, <2>7, <2>8 DEF ComposerInv, Untouched
<1> QED BY <1>4, <1>5, <1>6, <1>7 DEF Environment, ExpireLock, Crash, TimePasses, Composer,
        ComposerChecks

LEMMA WebComposer ==
  ASSUME TypeOK, IInv, ComposerInv, Web
  PROVE  ComposerInv'
<1> USE DEF rows, files, pkgFiles, checkFiles, imageFiles, world
<1>1. UNCHANGED <<tick, request, ack, trigger, trigAck, busy, did, deploy, age>>
  BY DEF Web, QueueRun, QueueImage
<1>2. Active = {} /\ Outstanding = {} /\ Outstanding' = {}
  BY <1>1, QueuedAlone DEF Web, ComposerInv, Outstanding
<1>3. \A v \in Workers : tick[v].at \notin RunSteps \cup ImageSteps
  BY <1>2 DEF IInv, TickInv, Holds, ActiveImages
<1>4. ASSUME NEW o \in Active'
      PROVE  Untouched(o)' /\ ops'[o].status \in {"queued", "pending"}
  <2>1. Created(o)
    BY <1>2, RowsMove DEF Next, RowSteps, Kept, Moved, Ended, Active
  <2> QED BY <1>1, <2>1, UpdateRunsAssumption DEF Created, Untouched, IInv, RowInv, CreatedRows,
            Active, Ops, NoOp
<1>5. ReportIsOwn'
  BY <1>4 DEF ReportIsOwn, ActiveImages
<1>6. VerdictIsComposers'
  <2>1. ASSUME NEW o \in Ops PROVE Kept(o) \/ ops'[o].status \in {"queued", "pending"}
    BY <1>2, RowsMove DEF Next, RowSteps, Created, Moved, Ended
  <2> QED BY <1>1, <2>1 DEF Kept, ComposerInv, VerdictIsComposers
<1>7. \A v \in Workers : InHand(tick[v])'
  BY <1>1, <1>3 DEF InHand, RunSteps, ImageSteps, ImageBusySteps
<1> QED BY <1>1, <1>2, <1>4, <1>5, <1>6, <1>7 DEF ComposerInv

LEMMA InitComposer == Init => ComposerInv
  BY UpdateRunsAssumption DEF Init, ComposerInv, Outstanding, InHand, Idle, ReportIsOwn,
     VerdictIsComposers, ActiveImages, Active, NoRow, Untouched, Ops, NoOp

LEMMA NextComposer ==
  ASSUME TypeOK, IInv, HandoffInv, ComposerInv, "late" \notin Faults, "tardy" \notin Faults,
         [Next]_vars
  PROVE  ComposerInv'
<1>1. CASE UNCHANGED vars
  BY <1>1 DEF vars, rows, files, pkgFiles, imageFiles, world, ComposerInv, Outstanding, InHand,
     ReportIsOwn, VerdictIsComposers, ActiveImages, Active, Untouched, Acked
<1> QED BY <1>1, TickComposer, EnvironmentComposer, WebComposer DEF Next

LEMMA ComposerInductive ==
  ASSUME Faults \subseteq {"crash"}
  PROVE  Spec => [](HandoffInv /\ ComposerInv)
<1>1. "long" \notin Faults /\ "late" \notin Faults /\ "tardy" \notin Faults
  OBVIOUS
<1>2. TypeOK /\ IInv /\ HandoffInv /\ ComposerInv /\ [Next]_vars => ComposerInv'
  BY <1>1, NextComposer
<1>3. Spec => []IInv
  BY <1>1, Inductive
<1>4. Spec => []HandoffInv
  BY <1>1, HandoffInductive
<1> QED BY <1>2, <1>3, <1>4, InitComposer, TypeCorrect, PTL DEF Spec

(* While workers may be killed at any point but nothing times out, the     *)
(* verdict of every operation is what Composer did: completed if it was    *)
(* applied, rolled back if it was rolled back.                             *)
THEOREM VerdictsAreComposers ==
  ASSUME Faults \subseteq {"crash"} PROVE Spec => []VerdictIsComposers
<1>1. HandoffInv /\ ComposerInv => VerdictIsComposers
  BY DEF ComposerInv
<1> QED BY <1>1, ComposerInductive, PTL

(* Then Composer is never at work on two operations.                       *)
THEOREM ComposerIsAlone ==
  ASSUME Faults \subseteq {"crash"} PROVE Spec => []ComposerDoesOneThing
<1>1. IInv /\ ComposerInv => ComposerDoesOneThing
  <2> SUFFICES ASSUME IInv, ComposerInv PROVE ComposerDoesOneThing
    OBVIOUS
  <2>1. busy = {} \/ \E o \in busy : busy = {o}
    BY DEF ComposerInv, IInv, RowInv, OneOperation
  <2>2. Cardinality(busy) \in {0, 1}
    BY <2>1, FS_EmptySet, FS_Singleton
  <2> QED BY <2>2 DEF ComposerDoesOneThing
<1>2. Spec => []IInv
  BY Inductive
<1> QED BY <1>1, <1>2, ComposerInductive, PTL

-----------------------------------------------------------------------------
(* UpdateRuns implements OneAtATime.                                       *)

Effect(o) == IF did[o] = "failed" THEN "none" ELSE did[o]
Told(o) == IF ops[o].status \in TerminalStatuses THEN ops[o].status ELSE "none"

(* The operation under way, before and after a step.                       *)
LEMMA UnderWayIs ==
  /\ Active = {} => UnderWay = NoOp
  /\ OneOperation => \A o \in Active : UnderWay = o
<1>1. ASSUME OneOperation, NEW o \in Active PROVE UnderWay = o
  BY <1>1 DEF OneOperation, UnderWay
<1> QED BY <1>1 DEF UnderWay

LEMMA UnderWayBecomes ==
  /\ Active' = {} => UnderWay' = NoOp
  /\ OneOperation' => \A o \in Active' : UnderWay' = o
<1>1. ASSUME OneOperation', NEW o \in Active' PROVE UnderWay' = o
  BY <1>1 DEF OneOperation, UnderWay
<1> QED BY <1>1 DEF UnderWay

LEMMA PromiseInit == Init => Promise!Init
<1> SUFFICES ASSUME Init PROVE Promise!Init
  OBVIOUS
<1>1. \A o \in Ops : ops[o].kind = "none" /\ ops[o].status = "none" /\ ~ops[o].active /\ did[o] = "none"
  BY DEF Init, NoRow
<1>2. UnderWay = NoOp
  BY <1>1 DEF UnderWay, Active
<1>3. \A o \in Ops : Asked(o) = "nothing" /\ Effect(o) = "none" /\ Told(o) = "none"
  BY <1>1 DEF Asked, Effect, Told, TerminalStatuses
<1> QED BY <1>2, <1>3 DEF Promise!Init, Effect, Told

(* What a row shows the operator after a step that keeps, moves, creates   *)
(* or ends it.                                                             *)
LEMMA Shown ==
  ASSUME TypeOK, StatusInv, NEW o \in Ops
  PROVE  /\ Kept(o) \/ Moved(o) => Asked(o)' = Asked(o) /\ Told(o)' = Told(o)
         /\ Created(o) => /\ Asked(o) = "nothing" /\ Asked(o)' \in {"check", "change"}
                          /\ Told(o)' = Told(o)
         /\ Ended(o) => /\ Asked(o)' = Asked(o)
                        /\ Told(o)' = ops'[o].status
<1>1. Kept(o) => Asked(o)' = Asked(o) /\ Told(o)' = Told(o)
  BY DEF Kept, Asked, Told
<1>2. Moved(o) => Asked(o)' = Asked(o) /\ Told(o)' = Told(o)
  BY DEF Moved, Asked, Told, StatusInv, Active, StartedStatuses, ActiveStatuses, TerminalStatuses
<1>3. Created(o) => /\ Asked(o) = "nothing" /\ Asked(o)' \in {"check", "change"}
                    /\ Told(o)' = Told(o)
  BY DEF Created, Asked, Told, StatusInv, TerminalStatuses, Kinds, RunKinds
<1>4. Ended(o) => Asked(o)' = Asked(o) /\ Told(o)' = ops'[o].status
  BY DEF Ended, Asked, Told
<1> QED BY <1>1, <1>2, <1>3, <1>4

(* A row that is created is the operator's new operation.                  *)
LEMMA StepAdmits ==
  ASSUME TypeOK, IInv, IInv', StatusInv, RowSteps, NEW o \in Ops, Created(o), did' = did
  PROVE  Promise!Next
<1>1. UnderWay = NoOp /\ UnderWay' = o
  BY UnderWayIs, UnderWayBecomes DEF Created, IInv, RowInv, Active
<1>2. ASSUME NEW p \in Ops, p # o PROVE Asked(p)' = Asked(p) /\ Told(p)' = Told(p)
  <2>1. ~Created(p)
    BY <1>2 DEF Created, IInv, RowInv, OneOperation, Active
  <2>2. ~Moved(p) /\ ~Ended(p)
    BY DEF Created, Moved, Ended
  <2> QED BY <2>1, <2>2, Shown DEF RowSteps
<1>3. /\ Asked(o) = "nothing" /\ Asked(o)' \in {"check", "change"} /\ Told(o)' = Told(o)
  BY Shown
<1>4. [p \in Ops |-> Asked(p)]' = [[p \in Ops |-> Asked(p)] EXCEPT ![o] = Asked(o)']
  BY <1>2
<1>5. UNCHANGED <<[p \in Ops |-> Effect(p)], [p \in Ops |-> Told(p)]>>
  BY <1>2, <1>3 DEF Effect
<1>6. Promise!Admit(o)
  BY <1>1, <1>3, <1>4, <1>5 DEF Promise!Admit, Effect, Told
<1> QED BY <1>6 DEF Promise!Next

(* A row that ends was the one under way, and its verdict is true.         *)
LEMMA StepEnds ==
  ASSUME TypeOK, IInv, StatusInv, RowSteps, NEW o \in Ops, Ended(o), Truthful(o), did' = did
  PROVE  Promise!Next
<1>1. \A p \in Active : p = o
  BY DEF Ended, IInv, RowInv, OneOperation
<1>2. ASSUME NEW p \in Ops, p # o PROVE Kept(p)
  BY <1>1, <1>2 DEF RowSteps, Created, Moved, Ended
<1>3. UnderWay = o
  BY UnderWayIs DEF Ended, IInv, RowInv
<1>4. UnderWay' = NoOp
  <2>1. Active' = {}
    BY <1>1, <1>2 DEF Kept, Ended, Active
  <2> QED BY <2>1, UnderWayBecomes
<1>5. [p \in Ops |-> Told(p)]' = [[p \in Ops |-> Told(p)] EXCEPT ![o] = ops'[o].status]
  BY <1>2, Shown
<1>6. UNCHANGED <<[p \in Ops |-> Effect(p)], [p \in Ops |-> Asked(p)]>>
  BY <1>2, Shown DEF Effect
<1>7. Promise!Truthful(o, ops'[o].status)
  <2>1. Asked(o) = "change" => ops[o].kind # "check"
    BY DEF Asked
  <2>2. did[o] \in {"applied", "rolled_back"} => Effect(o) = did[o]
    BY DEF Effect
  <2> QED BY <2>1, <2>2 DEF Truthful, Promise!Truthful, Effect
<1>8. ops'[o].status \in {"completed", "failed", "rolled_back"}
  BY DEF Ended, TerminalStatuses
<1>9. Promise!End(o)
  BY <1>3, <1>4, <1>5, <1>6, <1>7, <1>8 DEF Promise!End, Effect, Told
<1> QED BY <1>9 DEF Promise!Next

(* A step that creates and ends nothing shows the operator nothing.        *)
LEMMA StepShowsNothing ==
  ASSUME TypeOK, IInv, IInv', StatusInv, RowSteps,
         \A o \in Ops : ~Created(o) /\ ~Ended(o) /\ Effect(o)' = Effect(o)
  PROVE  UNCHANGED Promise!promise
<1>1. \A o \in Ops : Asked(o)' = Asked(o) /\ Told(o)' = Told(o)
  BY Shown DEF RowSteps
<1>2. Active' = Active
  BY DEF RowSteps, Kept, Moved, Active
<1>3. UnderWay' = UnderWay
  <2>1. CASE Active = {}
    BY <1>2, <2>1, UnderWayIs, UnderWayBecomes
  <2>2. ASSUME NEW o \in Active PROVE UnderWay' = UnderWay
    BY <1>2, UnderWayIs, UnderWayBecomes DEF IInv, RowInv
  <2> QED BY <2>1, <2>2
<1>4. UNCHANGED <<[o \in Ops |-> Asked(o)], [o \in Ops |-> Effect(o)], [o \in Ops |-> Told(o)]>>
  BY <1>1
<1> QED BY <1>3, <1>4 DEF Promise!promise, Effect, Told

(* Composer's swap carries out the operation under way.                    *)
LEMMA StepCarriesOut ==
  ASSUME TypeOK, IInv, HandoffInv, ComposerInv, "tardy" \notin Faults,
         NEW o \in Ops, ComposerSwaps(o)
  PROVE  Promise!Next
<1> USE DEF rows, files, pkgFiles, checkFiles, imageFiles, world
<1>1. ops' = ops /\ o \in Active /\ o \in Outstanding /\ did[o] = "none"
  BY DEF ComposerSwaps, Active, ComposerInv
<1>2. UnderWay = o /\ UnderWay' = o
  BY <1>1, UnderWayIs DEF IInv, RowInv, UnderWay, Active
<1>3. Asked(o) = "change"
  BY <1>1, UpdateRunsAssumption DEF Asked, Outstanding, HandoffInv, IntentKinds, Ops, NoOp
<1>4. PICK what \in {"applied", "rolled_back"} : did' = [did EXCEPT ![o] = what]
  BY DEF ComposerSwaps
<1>5. [p \in Ops |-> Effect(p)]' = [[p \in Ops |-> Effect(p)] EXCEPT ![o] = what]
  BY <1>4 DEF Effect, TypeOK
<1>6. Effect(o) = "none"
  BY <1>1 DEF Effect
<1>7. UNCHANGED <<[p \in Ops |-> Asked(p)], [p \in Ops |-> Told(p)]>>
  BY <1>1 DEF Asked, Told
<1>8. Promise!CarryOut(o)
  BY <1>2, <1>3, <1>4, <1>5, <1>6, <1>7 DEF Promise!CarryOut, Effect, Told
<1> QED BY <1>8 DEF Promise!Next

LEMMA PromiseStep ==
  ASSUME TypeOK, IInv, IInv', StatusInv, HandoffInv, ComposerInv, "tardy" \notin Faults,
         [Next]_vars
  PROVE  [Promise!Next]_(Promise!promise)
<1> USE DEF rows, files, pkgFiles, checkFiles, imageFiles, world
<1>1. RowSteps
  BY RowsMove
<1>2. CASE Web \/ \E w \in Workers : TickStep(w)
  <2>1. did' = did
    BY <1>2, FilesOfOthers DEF Web, QueueRun, QueueImage, WriteRequest, WriteTrigger
  <2>2. \A o \in Ops : Effect(o)' = Effect(o)
    BY <2>1 DEF Effect
  <2>3. ASSUME NEW o \in Ops, Ended(o) PROVE Truthful(o)
    <3>1. ~Web
      BY <2>3, QueuedAlone DEF Web, Ended
    <3> QED BY <1>2, <2>3, <3>1, EndsAnswered
  <2> QED BY <1>1, <2>1, <2>2, <2>3, StepAdmits, StepEnds, StepShowsNothing
<1>3. ASSUME NEW o \in Ops, ComposerSwaps(o) PROVE Promise!Next
  BY <1>3, StepCarriesOut
<1>4. CASE ops' = ops /\ \A o \in Ops : Effect(o)' = Effect(o)
  <2>1. \A o \in Ops : ~Created(o) /\ ~Ended(o)
    BY <1>4 DEF Created, Ended, Active
  <2> QED BY <1>1, <1>4, <2>1, StepShowsNothing
<1>5. ASSUME NEW o \in Ops, ComposerEnds(o)
      PROVE  ops' = ops /\ \A p \in Ops : Effect(p)' = Effect(p)
  BY <1>5 DEF ComposerEnds, Effect, TypeOK
<1>6. ASSUME \/ UNCHANGED vars \/ ExpireLock \/ ComposerChecks \/ ComposerTakesPackage
             \/ ComposerTakesImage \/ \E w \in Workers : Crash(w)
             \/ \E o \in Ops : TimePasses(o)
      PROVE  ops' = ops /\ \A p \in Ops : Effect(p)' = Effect(p)
  BY <1>6 DEF vars, ExpireLock, ComposerChecks, ComposerTakesPackage, ComposerTakesImage, Crash,
     TimePasses, Effect
<1> QED BY <1>2, <1>3, <1>4, <1>5, <1>6 DEF Next, Environment, Composer

(* While workers may be killed at any point but nothing times out, ticks,  *)
(* web requests and Composer together do what OneAtATime promises: one     *)
(* operation at a time, carried out at most once, reported as it went.     *)
THEOREM ImplementsThePromise ==
  ASSUME Faults \subseteq {"crash"} PROVE Spec => KeepsThePromise
<1>1. "long" \notin Faults /\ "tardy" \notin Faults
  OBVIOUS
<1>2. TypeOK /\ IInv /\ IInv' /\ StatusInv /\ HandoffInv /\ ComposerInv /\ [Next]_vars
        => [Promise!Next]_(Promise!promise)
  BY <1>1, PromiseStep
<1>3. Spec => []IInv
  BY <1>1, Inductive
<1>4. Spec => []StatusInv
  BY <1>1, StatusInductive
<1> QED BY <1>2, <1>3, <1>4, PromiseInit, TypeCorrect, ComposerInductive, PTL
        DEF Spec, KeepsThePromise, Promise!Spec
=============================================================================
