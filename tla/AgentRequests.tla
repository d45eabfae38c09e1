---------------------------- MODULE AgentRequests ----------------------------
(***************************************************************************)
(* Requests the Composer agent drops into the bridge's spool and the        *)
(* results the state tick publishes for it (dlux/updater/agent_bridge.py:  *)
(* consume_agent_requests, publish_agent_results).                         *)
(*                                                                         *)
(* A request is named by its operation id, which is also its file name, so *)
(* a request sent again is the same file.  What happens to an admitted     *)
(* image update or backup is in UpdateRuns and SystemBackups: here it only *)
(* moves on and ends.                                                      *)
(***************************************************************************)
EXTENDS Naturals

CONSTANTS
  Images,    \* operation ids of dlux.image_update requests
  Backups,   \* operation ids of dlux.backup.create requests
  Nobody,    \* no operation id
  MaxSends   \* bound on what the agent sends

Ids == Images \cup Backups

VARIABLES
  spool,     \* agent/requests/
  rows,      \* DluxImageUpdate by control_operation_id, SystemBackup by token
  results,   \* agent/results/
  worker,    \* where consume_agent_requests is
  elsewhere, \* an update that no request asked for is under way
  sends

agent == <<spool, rows, results, worker, elsewhere, sends>>

Ended == {"completed", "failed"}
Statuses == {"none", "pending", "running"} \cup Ended
Outcomes == Statuses \cup {"rejected"}      \* "none": no result file
Steps == {"idle", "building", "acted", "answered"}
AtRest == [at |-> "idle", id |-> Nobody, outcome |-> "none"]

Init ==
  /\ spool = {} /\ worker = AtRest /\ elsewhere = FALSE /\ sends = 0
  /\ rows = [id \in Ids |-> "none"] /\ results = [id \in Ids |-> "none"]

-----------------------------------------------------------------------------
(* The agent may send again what it has sent before.                       *)
Send(id) ==
  /\ sends < MaxSends /\ sends' = sends + 1
  /\ spool' = spool \cup {id}
  /\ UNCHANGED <<rows, results, worker, elsewhere>>

OtherUpdate ==
  /\ elsewhere \/ \A id \in Images : rows[id] \in {"none"} \cup Ended
  /\ elsewhere' = ~elsewhere
  /\ UNCHANGED <<spool, rows, results, worker, sends>>

-----------------------------------------------------------------------------
(* consume_agent_requests: look the row up, or make one.                   *)

Become(id, outcome) == worker' = [at |-> "acted", id |-> id, outcome |-> outcome]
Busy == elsewhere \/ \E id \in Images : rows[id] \notin {"none"} \cup Ended

(* Mutant: the row is not looked for; a second insert of its operation id  *)
(* is refused by the database, and so is the request.                      *)
NeverExists(id) == FALSE

Exists(id) == rows[id] # "none"

ActOnImage(id) ==
  /\ worker = AtRest /\ id \in spool \cap Images
  /\ IF Exists(id) THEN Become(id, rows[id]) /\ rows' = rows
     ELSE IF Busy \/ rows[id] # "none" THEN Become(id, "rejected") /\ rows' = rows
     ELSE rows' = [rows EXCEPT ![id] = "pending"] /\ Become(id, "pending")
  /\ UNCHANGED <<spool, results, elsewhere, sends>>

(* get_or_create, and the build in this process while the row is pending,  *)
(* unless that is a retry which is not due yet.                            *)
ActOnBackup(id) ==
  /\ worker = AtRest /\ id \in spool \cap Backups
  /\ \/ /\ rows[id] \in {"none", "pending"}
        /\ rows' = [rows EXCEPT ![id] = "running"]
        /\ worker' = [at |-> "building", id |-> id, outcome |-> "none"]
     \/ rows[id] # "none" /\ rows' = rows /\ Become(id, rows[id])
  /\ UNCHANGED <<spool, results, elsewhere, sends>>

(* Pending again when a retry has been armed.                              *)
Build ==
  /\ worker.at = "building" /\ rows[worker.id] = "running"
  /\ \E status \in Ended \cup {"pending"} :
       rows' = [rows EXCEPT ![worker.id] = status] /\ Become(worker.id, status)
  /\ UNCHANGED <<spool, results, elsewhere, sends>>

Answer ==
  /\ worker.at = "acted"
  /\ results' = [results EXCEPT ![worker.id] = worker.outcome]
  /\ worker' = [worker EXCEPT !.at = "answered"]
  /\ UNCHANGED <<spool, rows, elsewhere, sends>>

(* _archive_request moves the file, whatever it holds by now.              *)
Archive ==
  /\ worker.at = "answered"
  /\ spool' = spool \ {worker.id} /\ worker' = AtRest
  /\ UNCHANGED <<rows, results, elsewhere, sends>>

(* The rest of the tick: image updates move on, and ...                    *)
MoveOn(id) ==
  /\ worker = AtRest /\ id \in Images /\ rows[id] \in {"pending", "running"}
  /\ \E status \in {"running"} \cup Ended :
       status # rows[id] /\ rows' = [rows EXCEPT ![id] = status]
  /\ UNCHANGED <<spool, results, worker, elsewhere, sends>>

Published == {id \in Images : rows[id] # "none"}

(* ... publish_agent_results.                                              *)
Publish ==
  /\ worker = AtRest
  /\ results' = [id \in Ids |-> IF id \in Published THEN rows[id] ELSE results[id]]
  /\ UNCHANGED <<spool, rows, worker, elsewhere, sends>>

-----------------------------------------------------------------------------
(* A backup's retry, and the sweep of one whose runner died.               *)
Retry(id) ==
  /\ id \in Backups /\ worker.id # id
  /\ \/ rows[id] = "pending" /\ \E status \in Ended : rows' = [rows EXCEPT ![id] = status]
     \/ rows[id] = "running" /\ \E status \in {"pending", "failed"} :
                                  rows' = [rows EXCEPT ![id] = status]
  /\ UNCHANGED <<spool, results, worker, elsewhere, sends>>

(* The worker is killed: the request is still in the spool.                *)
Crash ==
  /\ worker # AtRest /\ worker' = AtRest
  /\ UNCHANGED <<spool, rows, results, elsewhere, sends>>

Consume == \/ \E id \in Ids : ActOnImage(id) \/ ActOnBackup(id)
           \/ Build \/ Answer \/ Archive
Settle == \E id \in Ids : MoveOn(id)
Next ==
  \/ \E id \in Ids : Send(id) \/ Retry(id)
  \/ Consume \/ Settle \/ Publish \/ OtherUpdate \/ Crash

Spec == Init /\ [][Next]_agent

-----------------------------------------------------------------------------
RequestsTypeOK ==
  /\ spool \subseteq Ids /\ elsewhere \in BOOLEAN /\ sends \in 0..MaxSends
  /\ rows \in [Ids -> Statuses] /\ results \in [Ids -> Outcomes]
  /\ worker \in [at : Steps, id : Ids \cup {Nobody}, outcome : Outcomes]

(* However often the agent sends a request and wherever the worker is      *)
(* killed, an operation that was admitted is never reported as rejected    *)
(* afterwards: the answer "rejected" stands for one that does not exist,   *)
(* or whose worker has not come to answer yet.                             *)
AdmittedIsNotRejected ==
  \A id \in Ids : rows[id] # "none" /\ results[id] = "rejected" =>
    id \in spool \/ worker.id = id

(* In the end "the outcome of each request" (docs/composer-agent.md): what *)
(* an image update came to is published, when its request came in the      *)
(* middle of a killed tick, too.  (A backup's result is written once.)     *)
Told == \A id \in Images : rows[id] \in Ended => results[id] = rows[id]
=============================================================================
