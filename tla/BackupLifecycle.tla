-------------------------- MODULE BackupLifecycle ---------------------------
(***************************************************************************)
(* What a system backup row promises whoever reads it: it waits, is worked *)
(* on by one attempt after another, at most MaxAttempts unless the operator *)
(* resumes it, and ends once, kept (with an archive), failed or cancelled. *)
(* Only Resume takes a row back from failed or cancelled, only Delete from *)
(* kept.  Nothing is said of who acts, of messages or of files.            *)
(***************************************************************************)
EXTENDS Naturals

CONSTANTS
  Backups,      \* the rows that may ever be created
  MaxAttempts   \* attempts made without the operator, a number

VARIABLES
  phase,     \* status of each row
  tries,     \* attempts begun on each row
  archived   \* the rows with an archive to restore from

lifecycle == <<phase, tries, archived>>

Phases == {"none", "pending", "running", "completed", "failed", "cancelled", "gone"}

Init ==
  /\ phase = [b \in Backups |-> "none"]
  /\ tries = [b \in Backups |-> 0]
  /\ archived = {}

Moves(b, from, to) ==
  /\ phase[b] \in from
  /\ phase' = [phase EXCEPT ![b] = to]

Request(b) == Moves(b, {"none"}, "pending") /\ UNCHANGED <<tries, archived>>

Attempt(b) ==
  /\ Moves(b, {"pending"}, "running")
  /\ tries' = [tries EXCEPT ![b] = @ + 1]
  /\ UNCHANGED archived

Retry(b) ==
  /\ Moves(b, {"running"}, "pending")
  /\ tries[b] < MaxAttempts
  /\ UNCHANGED <<tries, archived>>

Keep(b) ==
  /\ Moves(b, {"running"}, "completed")
  /\ archived' = archived \cup {b}
  /\ UNCHANGED tries

Fail(b) == Moves(b, {"pending", "running"}, "failed") /\ UNCHANGED <<tries, archived>>

Cancel(b) ==
  Moves(b, {"pending", "running"}, "cancelled") /\ UNCHANGED <<tries, archived>>

Resume(b) ==
  Moves(b, {"failed", "cancelled"}, "pending") /\ UNCHANGED <<tries, archived>>

Delete(b) ==
  /\ Moves(b, {"completed", "failed", "cancelled"}, "gone")
  /\ archived' = archived \ {b}
  /\ UNCHANGED tries

Next ==
  \E b \in Backups :
    \/ Request(b) \/ Attempt(b) \/ Retry(b) \/ Keep(b)
    \/ Fail(b) \/ Cancel(b) \/ Resume(b) \/ Delete(b)

Spec == Init /\ [][Next]_lifecycle
=============================================================================
