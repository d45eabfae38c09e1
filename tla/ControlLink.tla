----------------------------- MODULE ControlLink -----------------------------
(***************************************************************************)
(* Pairing with a control panel: the row the operator's request leaves,    *)
(* the state tick that publishes it as enroll-request.json, the agent that *)
(* redeems it, and the alert when a connection is lost                     *)
(* (dlux/updater/control_link.py, service.tick_control_link).              *)
(***************************************************************************)
EXTENDS Naturals

CONSTANTS
  MaxAsks,   \* bound on the operator's requests
  MaxDrops   \* bound on connections lost

Asks == 1..MaxAsks      \* operation ids, in the order of created_at
None == 0
Actions == {"enroll", "cancel"}

VARIABLES
  rows,       \* DluxControlLinkRequest rows
  inserting,  \* web requests that have deleted the rows and not inserted theirs
  newest,     \* the row inserted last
  published,  \* enroll-request.json
  tick,       \* where tick_control_link is, and the rows it still has to apply
  redeeming,  \* the request the agent is redeeming
  last,       \* last_enroll in agent-status.json
  connected,  \* enrolled and not revoked, in agent-status.json
  notice,     \* control-link-notice.json
  drops

link == <<rows, inserting, newest, published, tick, redeeming, last, connected, notice, drops>>

Row == [id : Asks, action : Actions, failed : BOOLEAN]
NoTick == [at |-> "off", todo |-> {}]

Init ==
  /\ rows = {} /\ inserting = {}
  /\ newest = [id |-> None, action |-> "cancel"]
  /\ published = None /\ tick = NoTick
  /\ redeeming = None /\ last = [id |-> None, ok |-> FALSE]
  /\ connected = FALSE
  /\ notice = [seen |-> FALSE, told |-> FALSE]
  /\ drops = 0

-----------------------------------------------------------------------------
(* queue_enroll_request and queue_cancel_request, in web processes: every  *)
(* earlier row goes, then the new one is inserted.                         *)

Ask(action) ==
  /\ action \notin inserting
  /\ newest.id < MaxAsks
  /\ rows' = {} /\ inserting' = inserting \cup {action}
  /\ UNCHANGED <<newest, published, tick, redeeming, last, connected, notice, drops>>

Insert(action) ==
  /\ action \in inserting /\ newest.id < MaxAsks
  /\ newest' = [id |-> newest.id + 1, action |-> action]
  /\ rows' = rows \cup {[id |-> newest.id + 1, action |-> action, failed |-> FALSE]}
  /\ inserting' = inserting \ {action}
  /\ UNCHANGED <<published, tick, redeeming, last, connected, notice, drops>>

-----------------------------------------------------------------------------
(* tick_control_link: it reads the rows once, then applies them in order.  *)

Others == UNCHANGED <<inserting, newest, redeeming, last, connected, drops>>

Read ==
  /\ tick.at = "off"
  /\ tick' = [at |-> "rows", todo |-> {row \in rows : ~row.failed}]
  /\ UNCHANGED <<rows, published, notice>> /\ Others

Oldest == {row \in tick.todo : \A other \in tick.todo : row.id <= other.id}

Publish ==
  /\ tick.at = "rows"
  /\ \E row \in Oldest : published' = IF row.action = "cancel" THEN None ELSE row.id
  /\ tick' = [tick EXCEPT !.at = "written"]
  /\ UNCHANGED <<rows, notice>> /\ Others

Applied(row) == {other \in rows : other.id = row.id}

(* The row may have gone, or been followed by another, since it was read.  *)
DeleteRow ==
  /\ tick.at = "written"
  /\ \E row \in Oldest : /\ rows' = rows \ Applied(row)
                         /\ tick' = [at |-> "rows", todo |-> tick.todo \ {row}]
  /\ UNCHANGED <<published, notice>> /\ Others

(* The file cannot be written: the row keeps the error, without its token. *)
(* If it has gone meanwhile the save raises and the tick is over.          *)
FailRow ==
  /\ tick.at = "rows"
  /\ \E row \in Oldest :
       IF row \in rows
       THEN /\ rows' = (rows \ {row}) \cup {[row EXCEPT !.failed = TRUE]}
            /\ tick' = [tick EXCEPT !.todo = @ \ {row}]
       ELSE rows' = rows /\ tick' = NoTick
  /\ UNCHANGED <<published, notice>> /\ Others

(* A request the agent has confirmed is retired; then                      *)
(* _detect_control_link_disconnect.                                        *)
Retire ==
  /\ tick.at = "rows" /\ tick.todo = {}
  /\ published' = IF last.ok /\ last.id = published THEN None ELSE published
  /\ notice' = IF connected THEN [seen |-> TRUE, told |-> FALSE]
               ELSE [notice EXCEPT !.told = @ \/ notice.seen]
  /\ tick' = NoTick
  /\ UNCHANGED rows /\ Others

(* The worker is killed.                                                   *)
Crash ==
  /\ tick.at # "off" /\ tick' = NoTick
  /\ UNCHANGED <<rows, published, notice>> /\ Others

-----------------------------------------------------------------------------
(* The agent.                                                              *)

Take ==
  /\ redeeming = None /\ published \notin {None, last.id}
  /\ redeeming' = published
  /\ UNCHANGED <<rows, inserting, newest, published, tick, last, connected, notice, drops>>

Report ==
  /\ redeeming # None /\ redeeming' = None
  /\ \E ok \in BOOLEAN : last' = [id |-> redeeming, ok |-> ok] /\ connected' = (connected \/ ok)
  /\ UNCHANGED <<rows, inserting, newest, published, tick, notice, drops>>

Drop ==
  /\ connected /\ drops < MaxDrops
  /\ connected' = FALSE /\ drops' = drops + 1
  /\ UNCHANGED <<rows, inserting, newest, published, tick, redeeming, last, notice>>

Tick == Read \/ Publish \/ DeleteRow \/ FailRow \/ Retire
Next ==
  \/ \E action \in Actions : Ask(action) \/ Insert(action)
  \/ Tick \/ Crash \/ Take \/ Report \/ Drop

Spec == Init /\ [][Next]_link

-----------------------------------------------------------------------------
LinkTypeOK ==
  /\ rows \subseteq Row /\ tick.todo \subseteq Row /\ inserting \subseteq Actions
  /\ newest \in [id : Asks \cup {None}, action : Actions]
  /\ {published, redeeming, last.id} \subseteq Asks \cup {None}
  /\ connected \in BOOLEAN /\ notice \in [seen : BOOLEAN, told : BOOLEAN]

(* "the newest submission wins": once operators, the agent and the host    *)
(* leave it alone, what is published is the last submission, unless it was *)
(* confirmed, withdrawn or could not be written, which its row says; and   *)
(* a connection the worker has seen and that is gone has been alerted.     *)
NewestWins ==
  \/ inserting # {} \/ newest.id = None
  \/ \E row \in rows : row.id = newest.id /\ row.failed
  \/ newest.action = "cancel" /\ published = None
  \/ newest.action = "enroll" /\ published = newest.id
  \/ newest.action = "enroll" /\ published = None /\ last = [id |-> newest.id, ok |-> TRUE]
LossIsTold == notice.seen /\ ~connected => notice.told
=============================================================================
