------------------------------- MODULE OpsRuns -------------------------------
(***************************************************************************)
(* Deployment operations: the rows an administrator queues, the request    *)
(* file the state tick hands Composer, Composer's answer and the time-out  *)
(* (dlux/updater/ops.py, service.queue_ops_run and tick_ops_run).          *)
(*                                                                         *)
(* What a check finds is the state of the deployment's files, a number;    *)
(* its digest stands for it.  Composer is external: it takes a request     *)
(* whose token it has not acknowledged, and refuses a repair of another    *)
(* state than the one the digest names.                                    *)
(***************************************************************************)
EXTENDS Naturals

CONSTANTS
  MaxRuns,   \* bound on DluxOpsRun rows
  MaxState   \* bound on the states the deployment goes through

Runs == 1..MaxRuns           \* in the order of created_at
Operations == {"check", "apply"}   \* read-only; needs a preview
None == 0

VARIABLES
  rows,      \* DluxOpsRun rows
  asked,     \* operations whose web request has passed its checks
  handing,   \* the run whose request the tick has just written
  request,   \* ops-request.json
  ack,       \* ops-request.json.ack
  result,    \* ops-result.json
  composer,  \* the request Composer is performing
  deployed   \* the deployment's files

ops == <<rows, asked, handing, request, ack, result, composer, deployed>>

Statuses == {"none", "queued", "running", "completed", "failed"}
Active == {"queued", "running"}
Row == [status : Statuses, operation : Operations, late : BOOLEAN,
        result : [run : Runs \cup {None}, shown : 0..MaxState]]
NoResult == [run |-> None, shown |-> 0]
NoRow == [status |-> "none", operation |-> "check", late |-> FALSE, result |-> NoResult]
Request == [run : Runs \cup {None}, operation : Operations, digest : 0..MaxState]
NoRequest == [run |-> None, operation |-> "check", digest |-> 0]
NoAck == [run |-> None, error |-> FALSE]

Init ==
  /\ rows = [r \in Runs |-> NoRow]
  /\ asked = {} /\ handing = None
  /\ request = NoRequest /\ ack = NoAck /\ result = NoResult
  /\ composer = NoRequest
  /\ deployed = 1

-----------------------------------------------------------------------------
LastOf(S) == {r \in S : \A q \in S : q <= r}
Completed(operations) ==
  {r \in Runs : rows[r].status = "completed" /\ rows[r].operation \in operations}

(* Mutant: an apply does not consume the preview before it.                *)
LatestCheck ==
  LET last == LastOf(Completed({"check"}))
  IN IF last = {} THEN 0 ELSE rows[CHOOSE r \in last : TRUE].result.shown

(* _latest_preview_digest, 0 for none.                                     *)
LatestPreview ==
  LET last == LastOf(Completed(Operations))
  IN IF last = {} \/ \E r \in last : rows[r].operation = "apply" THEN 0
     ELSE rows[CHOOSE r \in last : TRUE].result.shown

(* queue_ops_run in one web process: its checks ...                        *)
Ask(operation) ==
  /\ operation = "apply" => LatestPreview # 0
  /\ \A r \in Runs : rows[r].status \notin Active
  /\ asked' = asked \cup {operation}
  /\ UNCHANGED <<rows, handing, request, ack, result, composer, deployed>>

(* ... and its insert.  No row is locked when none is active, so another   *)
(* process may insert in between.                                          *)
Insert(r, operation) ==
  /\ operation \in asked
  /\ rows[r].status = "none" /\ \A q \in Runs : q < r => rows[q].status # "none"
  /\ rows' = [rows EXCEPT ![r] = [NoRow EXCEPT !.status = "queued", !.operation = operation]]
  /\ asked' = asked \ {operation}
  /\ UNCHANGED <<handing, request, ack, result, composer, deployed>>

-----------------------------------------------------------------------------
(* tick_ops_run; only one tick runs.                                       *)

OldestActive ==
  LET active == {r \in Runs : rows[r].status \in Active}
  IN {r \in active : \A q \in active : r <= q}

Usable(r) == rows[r].operation = "apply" => LatestPreview # 0

(* write_request, which refuses an apply whose preview is gone.            *)
HandOver(r) ==
  /\ handing = None /\ r \in OldestActive /\ rows[r].status = "queued" /\ Usable(r)
  /\ request' = [run |-> r, operation |-> rows[r].operation,
                 digest |-> IF rows[r].operation = "apply" THEN LatestPreview ELSE 0]
  /\ handing' = r
  /\ UNCHANGED <<rows, asked, ack, result, composer, deployed>>

RefuseHandOver(r) ==
  /\ handing = None /\ r \in OldestActive /\ rows[r].status = "queued" /\ ~Usable(r)
  /\ rows' = [rows EXCEPT ![r].status = "failed"]
  /\ UNCHANGED <<asked, handing, request, ack, result, composer, deployed>>

MarkRunning ==
  /\ handing # None
  /\ rows' = [rows EXCEPT ![handing].status = "running", ![handing].late = FALSE]
  /\ handing' = None
  /\ UNCHANGED <<asked, request, ack, result, composer, deployed>>

(* The worker is killed between the file and the row.                      *)
Crash ==
  /\ handing # None /\ handing' = None
  /\ UNCHANGED <<rows, asked, request, ack, result, composer, deployed>>

Answered(r) == ack.run = r

(* read_ack, read_result and the save.                                     *)
Finish(r) ==
  /\ handing = None /\ r \in OldestActive /\ rows[r].status = "running" /\ Answered(r)
  /\ rows' = [rows EXCEPT
       ![r].status = IF ack.error THEN "failed" ELSE "completed", ![r].result = result]
  /\ UNCHANGED <<asked, handing, request, ack, result, composer, deployed>>

GiveUp(r) ==
  /\ handing = None /\ r \in OldestActive /\ rows[r].status = "running"
  /\ ~Answered(r) /\ rows[r].late
  /\ rows' = [rows EXCEPT ![r].status = "failed"]
  /\ UNCHANGED <<asked, handing, request, ack, result, composer, deployed>>

(* timeout_for has passed since requested_at.                              *)
BecomeLate(r) ==
  /\ rows[r].status = "running" /\ ~rows[r].late
  /\ rows' = [rows EXCEPT ![r].late = TRUE]
  /\ UNCHANGED <<asked, handing, request, ack, result, composer, deployed>>

-----------------------------------------------------------------------------
(* Composer, and whoever edits the deployment's files.                     *)

ComposerTakes ==
  /\ composer = NoRequest /\ request.run \notin {None, ack.run}
  /\ composer' = request
  /\ UNCHANGED <<rows, asked, handing, request, ack, result, deployed>>

ComposerAnswers ==
  LET applies == composer.operation = "apply" /\ composer.digest = deployed
  IN /\ composer # NoRequest
     /\ deployed' = IF applies /\ deployed < MaxState THEN deployed + 1 ELSE deployed
     /\ \E fails \in BOOLEAN :
          /\ composer.operation = "apply" => fails = ~applies
          /\ ack' = [run |-> composer.run, error |-> fails]
     /\ result' = [run |-> composer.run, shown |-> deployed']
     /\ composer' = NoRequest
     /\ UNCHANGED <<rows, asked, handing, request>>

Edit ==
  /\ deployed < MaxState /\ deployed' = deployed + 1
  /\ UNCHANGED <<rows, asked, handing, request, ack, result, composer>>

-----------------------------------------------------------------------------
Tick ==
  \/ MarkRunning
  \/ \E r \in Runs : HandOver(r) \/ RefuseHandOver(r) \/ Finish(r) \/ GiveUp(r)
Time == \E r \in Runs : BecomeLate(r)
Next ==
  \/ \E operation \in Operations : Ask(operation) \/ \E r \in Runs : Insert(r, operation)
  \/ Tick \/ Time \/ Crash \/ ComposerTakes \/ ComposerAnswers \/ Edit

Spec == Init /\ [][Next]_ops

-----------------------------------------------------------------------------
OpsTypeOK ==
  /\ rows \in [Runs -> Row] /\ asked \subseteq Operations /\ handing \in Runs \cup {None}
  /\ {request, composer} \subseteq Request
  /\ ack \in [run : Runs \cup {None}, error : BOOLEAN]
  /\ result \in [run : Runs \cup {None}, shown : 0..MaxState]
  /\ deployed \in 1..MaxState

(* "A result whose token does not match the run is ignored": a completed   *)
(* run holds what Composer answered to it, whatever timed out before it.   *)
AnswersAreTheirOwn ==
  \A r \in Runs : rows[r].status = "completed" => rows[r].result.run = r

(* Two administrators may queue at once, but Composer gets one at a time:  *)
(* the request of a run that waits for its answer is never replaced.       *)
OneHandedOver ==
  \A r \in Runs : rows[r].status = "running" => request.run = r

(* "it may only apply the repair a preview showed", and only once: a check *)
(* before it showed that digest, and no apply has completed since.         *)
AppliesWhatWasShown ==
  \A asking \in {request, composer} :
    asking.operation = "apply" =>
      \E c \in Runs :
        /\ c < asking.run /\ rows[c].status = "completed"
        /\ rows[c].operation = "check" /\ rows[c].result.shown = asking.digest
        /\ \A a \in Runs : c < a /\ a < asking.run =>
             ~(rows[a].operation = "apply" /\ rows[a].status = "completed")

OpsRunsAreServedInOrder == OneHandedOver /\ AnswersAreTheirOwn /\ AppliesWhatWasShown

(* In the end no run waits, "rather than sitting on running for ever"      *)
(* (docs/inline-updater.md).                                               *)
NoneWaits == \A r \in Runs : rows[r].status \notin Active
=============================================================================
