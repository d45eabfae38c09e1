------------------------------- MODULE Sessions -------------------------------
(***************************************************************************)
(* One user's sessions: signing in, the eviction of every other session,   *)
(* the presence history each request writes, the sign-out of one session   *)
(* from the profile page (dlux/auth/trust.py, auth/session_history.py,     *)
(* views/users.py, views/twofa.py, views/profile.py, middleware.py).       *)
(*                                                                         *)
(* Sessions are numbered in the order of their sign-in; a trusted device   *)
(* is evicted like any other.  Passwords, codes and trust are left open,   *)
(* and prevent_multiple_active_sessions is on: without it nothing evicts.  *)
(***************************************************************************)
EXTENDS Naturals

CONSTANT MaxLogins      \* bound on sign-ins

Sessions == 1..MaxLogins

VARIABLES
  engine,     \* SESSION_ENGINE: only the database's sessions can be listed
  stored,     \* the session store: no row, one without a user yet, with, deleted
  presence,   \* UserPresenceSession rows
  acts,       \* the request of each session, and the sessions it ends
  winner,     \* the session that has evicted the others last
  missed,     \* sessions the last eviction could not see or did not get to
  disturbed   \* a sign-in overlapped another, or the profile page

signins == <<engine, stored, presence, acts, winner, missed, disturbed>>

Row == [row : BOOLEAN, ended : BOOLEAN, revoked : BOOLEAN]
NoRow == [row |-> FALSE, ended |-> FALSE, revoked |-> FALSE]
SigningIn == {"meeting", "entering", "evicting", "marking", "leaving"}
Later == {"idle", "page", "closing", "again", "striking", "revoking", "noting"}
Act(at, doomed) == [at |-> at, doomed |-> doomed, left |-> doomed]
Off == Act("off", {})

Init ==
  /\ engine \in {"database", "cache"}
  /\ stored = [s \in Sessions |-> "none"]
  /\ presence = [s \in Sessions |-> NoRow]
  /\ acts = [s \in Sessions |-> Off]
  /\ winner = 0 /\ missed = {} /\ disturbed = FALSE

At(s, at) == acts[s].at = at
Go(s, at) == acts' = [acts EXCEPT ![s].at = at]
Alive == {s \in Sessions : stored[s] = "user"}
Open == {s \in Sessions : presence[s].row /\ ~presence[s].ended /\ ~presence[s].revoked}
Enforcing == {s \in Sessions : acts[s].at \in SigningIn \cup {"again", "striking"}}

-----------------------------------------------------------------------------
(* terminate_other_user_sessions: the sessions it finds, in the table and  *)
(* in the presence history.                                                *)

(* Mutant: the table alone, which an engine in the cache leaves empty.     *)
SeenInTheTable == IF engine = "database" THEN Alive ELSE {}

Seen == (IF engine = "database" THEN Alive ELSE {}) \cup Open

(* What no list names: a session in the cache before its first request.    *)
Unseen == IF engine = "cache" THEN {s \in Alive : ~presence[s].row} ELSE {}

Evict(s, deleting) ==
  /\ acts' = [acts EXCEPT ![s] = Act(deleting, Seen \ {s})]
  /\ missed' = ((missed \ Seen) \cup Unseen) \ {s}

(* Session by session, then the presence rows of them all.                 *)
Delete(s) ==
  /\ acts[s].at \in {"evicting", "striking", "revoking"}
  /\ IF acts[s].left = {}
       THEN /\ Go(s, IF At(s, "evicting") THEN "marking" ELSE "noting")
            /\ winner' = IF At(s, "striking") THEN s ELSE winner
            /\ UNCHANGED stored
       ELSE \E t \in acts[s].left :
              /\ stored' = [stored EXCEPT ![t] = "gone"]
              /\ acts' = [acts EXCEPT ![s].left = @ \ {t}]
              /\ UNCHANGED winner
  /\ UNCHANGED <<engine, presence, missed, disturbed>>

MarkEnded(s) ==
  /\ acts[s].at \in {"marking", "noting"}
  /\ presence' = [t \in Sessions |->
       IF t \in acts[s].doomed /\ presence[t].row
         THEN [row |-> TRUE, ended |-> TRUE, revoked |-> TRUE] ELSE presence[t]]
  /\ \/ At(s, "marking") /\ acts' = [acts EXCEPT ![s] = Act("leaving", {})]
     \/ At(s, "noting") /\ acts' = [acts EXCEPT ![s] = Act("idle", {})]
     \/ /\ At(s, "marking") /\ presence[s].row        \* trust asked for with the code
        /\ acts' = [acts EXCEPT ![s] = Act("meeting", {})]
  /\ UNCHANGED <<engine, stored, winner, missed, disturbed>>

-----------------------------------------------------------------------------
(* Signing in.  login() stores a session without a user; one after a code, *)
(* or from a trusted device, has its presence written at once; the session *)
(* middleware stores the user last, if the session is still there.         *)

LogIn(s) ==
  /\ At(s, "off") /\ \A t \in Sessions : t < s => ~At(t, "off")
  /\ stored' = [stored EXCEPT ![s] = "blank"]
  /\ \E first \in {"meeting", "entering"} : Go(s, first)
  /\ disturbed' = (disturbed \/ Enforcing # {} \/ \E t \in Sessions : At(t, "closing"))
  /\ UNCHANGED <<engine, presence, winner, missed>>

Met(s) == presence' = [presence EXCEPT ![s].row = TRUE, ![s].ended = FALSE]

Meet(s) ==
  /\ At(s, "meeting") /\ Met(s) /\ Go(s, "entering")
  /\ UNCHANGED <<engine, stored, winner, missed, disturbed>>

Enforce(s) ==
  /\ At(s, "entering") /\ Evict(s, "evicting")
  /\ UNCHANGED <<engine, stored, presence, winner, disturbed>>

Leave(s) ==
  /\ At(s, "leaving") /\ Go(s, "idle") /\ winner' = s
  /\ stored' = IF stored[s] = "blank" THEN [stored EXCEPT ![s] = "user"] ELSE stored
  /\ UNCHANGED <<engine, presence, missed, disturbed>>

-----------------------------------------------------------------------------
(* Requests of a session that is in.  One that was loaded before its       *)
(* session was deleted still writes its presence, and cannot store the     *)
(* session again.                                                          *)

Page(s) ==
  /\ At(s, "idle") /\ s \in Alive /\ Go(s, "page")
  /\ UNCHANGED <<engine, stored, presence, winner, missed, disturbed>>

(* remember_request_presence, at most once a minute.                       *)
Remember(s) ==
  /\ At(s, "page") /\ Go(s, "idle")
  /\ Met(s) \/ (presence[s].row /\ UNCHANGED presence)
  /\ UNCHANGED <<engine, stored, winner, missed, disturbed>>

(* Log out, or a time-out: only the session goes.                          *)
LogOut(s) ==
  /\ At(s, "idle") /\ s \in Alive
  /\ stored' = [stored EXCEPT ![s] = "gone"]
  /\ UNCHANGED <<engine, presence, acts, winner, missed, disturbed>>

(* trust_current_device evicts the others once more.                       *)
Trust(s) ==
  /\ At(s, "idle") /\ s \in Alive /\ Met(s) /\ Go(s, "again")
  /\ disturbed' = (disturbed \/ Enforcing # {})
  /\ UNCHANGED <<engine, stored, winner, missed>>

EnforceAgain(s) ==
  /\ At(s, "again") /\ Evict(s, "striking")
  /\ UNCHANGED <<engine, stored, presence, winner, disturbed>>

(* _profile_sessions_for_user: open presence of what is no session of the  *)
(* user is closed.                                                         *)
ReadProfile(s) ==
  /\ At(s, "idle") /\ s \in Alive
  /\ acts' = [acts EXCEPT ![s] = Act("closing", Open \ (Alive \cup {s}))]
  /\ disturbed' = (disturbed \/ Enforcing # {})
  /\ UNCHANGED <<engine, stored, presence, winner, missed>>

CloseStale(s) ==
  /\ At(s, "closing")
  /\ presence' = [t \in Sessions |->
       IF t \in acts[s].doomed THEN [presence[t] EXCEPT !.ended = TRUE] ELSE presence[t]]
  /\ acts' = [acts EXCEPT ![s] = Act("idle", {})]
  /\ UNCHANGED <<engine, stored, winner, missed, disturbed>>

(* revoke_profile_session, of this session or another.                     *)
Revoke(s) ==
  /\ At(s, "idle") /\ s \in Alive
  /\ \E t \in Alive : acts' = [acts EXCEPT ![s] = Act("revoking", {t})]
  /\ UNCHANGED <<engine, stored, presence, winner, missed, disturbed>>

(* A web worker is killed.                                                 *)
Kill(s) ==
  /\ acts[s].at \notin {"off", "idle", "killed"}
  /\ acts' = [acts EXCEPT ![s] = Act(IF acts[s].at \in SigningIn THEN "killed" ELSE "idle", {})]
  /\ missed' = IF At(s, "revoking") THEN missed ELSE missed \cup acts[s].left \cup {s}
  /\ UNCHANGED <<engine, stored, presence, winner, disturbed>>

Next == \E s \in Sessions :
  \/ LogIn(s) \/ Meet(s) \/ Enforce(s) \/ Delete(s) \/ MarkEnded(s) \/ Leave(s)
  \/ Page(s) \/ Remember(s) \/ LogOut(s) \/ Trust(s) \/ EnforceAgain(s)
  \/ ReadProfile(s) \/ CloseStale(s) \/ Revoke(s) \/ Kill(s)

Spec == Init /\ [][Next]_signins

-----------------------------------------------------------------------------
SessionsTypeOK ==
  /\ engine \in {"database", "cache"} /\ disturbed \in BOOLEAN
  /\ stored \in [Sessions -> {"none", "blank", "user", "gone"}]
  /\ presence \in [Sessions -> Row]
  /\ acts \in [Sessions -> [at : {"off", "killed"} \cup SigningIn \cup Later,
                            doomed : SUBSET Sessions, left : SUBSET Sessions]]
  /\ missed \subseteq Sessions /\ winner \in Sessions \cup {0}

(* "Each successful login or completed 2FA login becomes the user's only   *)
(* active session" (docs/reference.md), whatever requests of the older     *)
(* sessions are under way; sign-ins that overlap, and sessions in the      *)
(* cache that have made no request yet, apart.                             *)
NewestLoginWins ==
  ~disturbed /\ Enforcing = {} => Alive \subseteq missed \cup {winner}
=============================================================================
