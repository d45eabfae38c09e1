---------------------------- MODULE SessionsProofs ----------------------------
(***************************************************************************)
(* Proofs about what users do online: their sessions (Sessions, whose      *)
(* names stand as they are), the settings' row under requests that overlap *)
(* (SettingsStore, as S) and its older and newer forms (SettingsForms, as  *)
(* F); for any number of sign-ins, web processes and requests, either      *)
(* session engine and any values of the settings.                          *)
(***************************************************************************)
EXTENDS Sessions, Integers, Sequences, FiniteSets, FiniteSetTheorems, TLAPS

Stages == {"off", "killed"} \cup SigningIn \cup Later
Request == [at : Stages, doomed : SUBSET Sessions, left : SUBSET Sessions]

-----------------------------------------------------------------------------
(* What a step does to one request, and to one presence row.               *)

LEMMA RequestsAre ==
  /\ Off \in Request /\ Off.at = "off"
  /\ \A at \in Stages, doomed \in SUBSET Sessions :
       /\ Act(at, doomed) \in Request
       /\ Act(at, doomed).at = at /\ Act(at, doomed).doomed = doomed
       /\ Act(at, doomed).left = doomed
BY DEF Off, Act, Request, Stages

LEMMA ActIs ==
  ASSUME acts \in [Sessions -> Request], NEW s \in Sessions, NEW a \in Request,
         acts' = [acts EXCEPT ![s] = a]
  PROVE  /\ acts' \in [Sessions -> Request] /\ acts'[s] = a
         /\ \A t \in Sessions : t # s => acts'[t] = acts[t]
OBVIOUS

LEMMA GoIs ==
  ASSUME acts \in [Sessions -> Request], NEW s \in Sessions, NEW at \in Stages, Go(s, at)
  PROVE  /\ acts' \in [Sessions -> Request] /\ acts'[s].at = at
         /\ acts'[s].doomed = acts[s].doomed /\ acts'[s].left = acts[s].left
         /\ \A t \in Sessions : t # s => acts'[t] = acts[t]
<1>1. acts[s] \in Request /\ acts' = [acts EXCEPT ![s] = [acts[s] EXCEPT !.at = at]]
  BY DEF Go
<1>2. /\ [acts[s] EXCEPT !.at = at] \in Request
      /\ [acts[s] EXCEPT !.at = at].at = at
      /\ [acts[s] EXCEPT !.at = at].doomed = acts[s].doomed
      /\ [acts[s] EXCEPT !.at = at].left = acts[s].left
  BY <1>1 DEF Request
<1>3. QED
  BY <1>1, <1>2

LEMMA LeftIs ==
  ASSUME acts \in [Sessions -> Request], NEW s \in Sessions, NEW t \in Sessions,
         acts' = [acts EXCEPT ![s].left = @ \ {t}]
  PROVE  /\ acts' \in [Sessions -> Request] /\ acts'[s].at = acts[s].at
         /\ acts'[s].doomed = acts[s].doomed /\ acts'[s].left = acts[s].left \ {t}
         /\ \A u \in Sessions : u # s => acts'[u] = acts[u]
<1>1. /\ acts[s] \in Request
      /\ acts' = [acts EXCEPT ![s] = [acts[s] EXCEPT !.left = acts[s].left \ {t}]]
  OBVIOUS
<1>2. /\ [acts[s] EXCEPT !.left = acts[s].left \ {t}] \in Request
      /\ [acts[s] EXCEPT !.left = acts[s].left \ {t}].at = acts[s].at
      /\ [acts[s] EXCEPT !.left = acts[s].left \ {t}].doomed = acts[s].doomed
      /\ [acts[s] EXCEPT !.left = acts[s].left \ {t}].left = acts[s].left \ {t}
  BY <1>1 DEF Request
<1>3. QED
  BY <1>1, <1>2

LEMMA MetIs ==
  ASSUME presence \in [Sessions -> Row], NEW s \in Sessions, Met(s)
  PROVE  /\ presence' \in [Sessions -> Row]
         /\ presence'[s].row /\ ~presence'[s].ended
         /\ presence'[s].revoked = presence[s].revoked
         /\ \A t \in Sessions : t # s => presence'[t] = presence[t]
<1>1. /\ presence[s] \in Row
      /\ presence' = [presence EXCEPT
           ![s] = [[presence[s] EXCEPT !.row = TRUE] EXCEPT !.ended = FALSE]]
  BY DEF Met
<1>2. [presence[s] EXCEPT !.row = TRUE] \in Row
  BY <1>1 DEF Row
<1>3. [[presence[s] EXCEPT !.row = TRUE] EXCEPT !.ended = FALSE] \in Row
  BY <1>2 DEF Row
<1>4. /\ [[presence[s] EXCEPT !.row = TRUE] EXCEPT !.ended = FALSE].row
      /\ ~[[presence[s] EXCEPT !.row = TRUE] EXCEPT !.ended = FALSE].ended
      /\ [[presence[s] EXCEPT !.row = TRUE] EXCEPT !.ended = FALSE].revoked
            = presence[s].revoked
  BY <1>1, <1>2 DEF Row
<1>5. QED
  BY <1>1, <1>3, <1>4

LEMMA StoredIs ==
  ASSUME stored \in [Sessions -> {"none", "blank", "user", "gone"}],
         NEW s \in Sessions, NEW x \in {"none", "blank", "user", "gone"},
         stored' = [stored EXCEPT ![s] = x]
  PROVE  /\ stored' \in [Sessions -> {"none", "blank", "user", "gone"}]
         /\ stored'[s] = x
         /\ \A t \in Sessions : t # s => stored'[t] = stored[t]
OBVIOUS

-----------------------------------------------------------------------------
(* Type correctness.                                                       *)

LEMMA TypesAre ==
  SessionsTypeOK <=>
    /\ engine \in {"database", "cache"} /\ disturbed \in BOOLEAN
    /\ stored \in [Sessions -> {"none", "blank", "user", "gone"}]
    /\ presence \in [Sessions -> Row] /\ acts \in [Sessions -> Request]
    /\ missed \subseteq Sessions /\ winner \in Sessions \cup {0}
BY DEF SessionsTypeOK, Request, Stages

LEMMA TypesWillBe ==
  SessionsTypeOK' <=>
    /\ engine' \in {"database", "cache"} /\ disturbed' \in BOOLEAN
    /\ stored' \in [Sessions -> {"none", "blank", "user", "gone"}]
    /\ presence' \in [Sessions -> Row] /\ acts' \in [Sessions -> Request]
    /\ missed' \subseteq Sessions /\ winner' \in Sessions \cup {0}
BY DEF SessionsTypeOK, Request, Stages

(* MarkEnded and CloseStale write a set of presence rows.                  *)
LEMMA EndedTypes ==
  ASSUME SessionsTypeOK, NEW s \in Sessions, MarkEnded(s) \/ CloseStale(s)
  PROVE  presence' \in [Sessions -> Row]
<1>1. \A t \in Sessions : presence[t] \in Row /\ [presence[t] EXCEPT !.ended = TRUE] \in Row
  BY DEF SessionsTypeOK, Row
<1>2. [row |-> TRUE, ended |-> TRUE, revoked |-> TRUE] \in Row
  BY DEF Row
<1>3. CASE MarkEnded(s)
  BY <1>1, <1>2, <1>3 DEF MarkEnded
<1>4. CASE CloseStale(s)
  BY <1>1, <1>4 DEF CloseStale
<1>5. QED
  BY <1>3, <1>4

LEMMA NextTypes == SessionsTypeOK /\ [Next]_signins => SessionsTypeOK'
<1> SUFFICES ASSUME SessionsTypeOK, [Next]_signins
             PROVE  SessionsTypeOK'
  OBVIOUS
<1>1. CASE UNCHANGED signins
  BY <1>1 DEF SessionsTypeOK, signins
<1>2. ASSUME NEW s \in Sessions, LogIn(s)
      PROVE  SessionsTypeOK'
  BY <1>2, TypesAre, TypesWillBe, GoIs, StoredIs DEF LogIn, SigningIn, Stages
<1>3. ASSUME NEW s \in Sessions, Meet(s)
      PROVE  SessionsTypeOK'
  BY <1>3, TypesAre, TypesWillBe, GoIs, MetIs DEF Meet, SigningIn, Stages
<1>4. ASSUME NEW s \in Sessions, Enforce(s) \/ EnforceAgain(s)
      PROVE  SessionsTypeOK'
  <2>1. Seen \ {s} \subseteq Sessions /\ Unseen \subseteq Sessions
    BY DEF Seen, Unseen, Alive, Open
  <2>2. PICK at \in Stages : Evict(s, at)
    BY <1>4 DEF Enforce, EnforceAgain, Stages, SigningIn, Later
  <2>3. Act(at, Seen \ {s}) \in Request
    BY <2>1, RequestsAre
  <2>4. acts' \in [Sessions -> Request]
    BY <2>2, <2>3, TypesAre DEF Evict
  <2>5. QED
    BY <1>4, <2>1, <2>2, <2>4, TypesAre, TypesWillBe DEF Enforce, EnforceAgain, Evict
<1>5. ASSUME NEW s \in Sessions, Delete(s)
      PROVE  SessionsTypeOK'
  <2>1. CASE acts[s].left = {}
    <3>1. PICK at \in Stages : Go(s, at)
      BY <1>5, <2>1 DEF Delete, Stages, SigningIn, Later
    <3>2. QED
      BY <1>5, <2>1, <3>1, TypesAre, TypesWillBe, GoIs DEF Delete
  <2>2. CASE acts[s].left # {}
    <3>1. PICK t \in acts[s].left : /\ stored' = [stored EXCEPT ![t] = "gone"]
                                    /\ acts' = [acts EXCEPT ![s].left = @ \ {t}]
      BY <1>5, <2>2 DEF Delete
    <3>2. t \in Sessions
      BY <3>1, TypesAre DEF Request
    <3>3. acts' \in [Sessions -> Request]
      BY <3>1, <3>2, TypesAre, LeftIs
    <3>4. QED
      BY <1>5, <2>2, <3>1, <3>2, <3>3, TypesAre, TypesWillBe, StoredIs DEF Delete
  <2>3. QED
    BY <2>1, <2>2
<1>6. ASSUME NEW s \in Sessions, MarkEnded(s)
      PROVE  SessionsTypeOK'
  <2>1. PICK at \in Stages : acts' = [acts EXCEPT ![s] = Act(at, {})]
    BY <1>6 DEF MarkEnded, Stages, SigningIn, Later
  <2>2. acts' \in [Sessions -> Request]
    BY <2>1, RequestsAre, TypesAre
  <2>3. presence' \in [Sessions -> Row]
    BY <1>6, EndedTypes
  <2>4. QED
    BY <1>6, <2>2, <2>3, TypesAre, TypesWillBe DEF MarkEnded
<1>7. ASSUME NEW s \in Sessions, Leave(s)
      PROVE  SessionsTypeOK'
  BY <1>7, TypesAre, TypesWillBe, GoIs, StoredIs DEF Leave, Later, Stages
<1>8. ASSUME NEW s \in Sessions, Page(s) \/ Remember(s) \/ Trust(s)
      PROVE  SessionsTypeOK'
  <2>1. PICK at \in Stages : Go(s, at)
    BY <1>8 DEF Page, Remember, Trust, Later, Stages
  <2>2. QED
    BY <1>8, <2>1, TypesAre, TypesWillBe, GoIs, MetIs DEF Page, Remember, Trust
<1>9. ASSUME NEW s \in Sessions, LogOut(s)
      PROVE  SessionsTypeOK'
  BY <1>9, TypesAre, TypesWillBe, StoredIs DEF LogOut
<1>10. ASSUME NEW s \in Sessions, ReadProfile(s) \/ Revoke(s)
       PROVE  SessionsTypeOK'
  <2>1. PICK at \in Stages, X \in SUBSET Sessions : acts' = [acts EXCEPT ![s] = Act(at, X)]
    BY <1>10 DEF ReadProfile, Revoke, Open, Alive, Later, Stages
  <2>2. acts' \in [Sessions -> Request]
    BY <2>1, RequestsAre, TypesAre
  <2>3. QED
    BY <1>10, <2>2, TypesAre, TypesWillBe DEF ReadProfile, Revoke
<1>11. ASSUME NEW s \in Sessions, CloseStale(s)
       PROVE  SessionsTypeOK'
  <2>1. acts' \in [Sessions -> Request]
    BY <1>11, RequestsAre, TypesAre DEF CloseStale, Later, Stages
  <2>2. presence' \in [Sessions -> Row]
    BY <1>11, EndedTypes
  <2>3. QED
    BY <1>11, <2>1, <2>2, TypesAre, TypesWillBe DEF CloseStale
<1>12. ASSUME NEW s \in Sessions, Kill(s)
       PROVE  SessionsTypeOK'
  <2>1. PICK at \in Stages : acts' = [acts EXCEPT ![s] = Act(at, {})]
    BY <1>12 DEF Kill, Later, Stages
  <2>2. acts' \in [Sessions -> Request]
    BY <2>1, RequestsAre, TypesAre
  <2>3. missed' \subseteq Sessions
    BY <1>12, TypesAre DEF Kill, Request
  <2>4. QED
    BY <1>12, <2>2, <2>3, TypesAre, TypesWillBe DEF Kill
<1>13. QED
  BY <1>1, <1>2, <1>3, <1>4, <1>5, <1>6, <1>7, <1>8, <1>9, <1>10, <1>11, <1>12 DEF Next

LEMMA InitTypes == Init => SessionsTypeOK
<1>1. NoRow \in Row
  BY DEF NoRow, Row
<1> SUFFICES ASSUME Init PROVE SessionsTypeOK
  OBVIOUS
<1>2. presence \in [Sessions -> Row] /\ acts \in [Sessions -> Request]
  BY <1>1, RequestsAre DEF Init
<1>3. stored \in [Sessions -> {"none", "blank", "user", "gone"}]
  BY DEF Init
<1>4. QED
  BY <1>2, <1>3, TypesAre DEF Init

(* Every request stays at one of its steps, and names sessions.            *)
THEOREM TypeCorrect == Spec => []SessionsTypeOK
BY InitTypes, NextTypes, PTL DEF Spec

-----------------------------------------------------------------------------
(* What each request has done so far: one that is signing in has no user   *)
(* in the store yet, and one that deletes sessions has deleted those it    *)
(* has struck off its list, which names nobody that has yet to sign in.    *)

Deleting == {"evicting", "striking", "revoking", "marking", "noting"}

RequestKept(s) ==
  /\ acts[s].at = "off" => stored[s] = "none" /\ ~presence[s].row
  /\ \A t \in acts[s].left : acts[t].at # "off"
  /\ acts[s].at \in SigningIn => stored[s] \in {"blank", "gone"}
  /\ acts[s].at \in {"marking", "noting"} => acts[s].left = {}
  /\ acts[s].at \in Deleting =>
       \A t \in acts[s].doomed : t \in acts[s].left \/ stored[t] = "gone"

RequestInv == \A s \in Sessions : RequestKept(s)

(* A deleted session stays deleted, one without a row gets it at its       *)
(* sign-in only, and one gets its user at the end of its sign-in only.     *)
LEMMA StoreMoves ==
  ASSUME SessionsTypeOK, RequestInv, NEW s \in Sessions, NEW t \in Sessions,
         LogIn(s) \/ Delete(s) \/ Leave(s) \/ LogOut(s)
  PROVE  /\ stored[t] = "gone" => stored'[t] = "gone"
         /\ stored'[t] = stored[t] \/ stored'[t] = "gone" \/ (s = t /\ (LogIn(s) \/ Leave(s)))
<1>1. CASE LogIn(s)
  <2>1. stored[s] = "none" /\ stored' = [stored EXCEPT ![s] = "blank"]
    BY <1>1 DEF LogIn, At, RequestInv, RequestKept
  <2>2. QED
    BY <1>1, <2>1, TypesAre
<1>2. CASE Delete(s)
  BY <1>2, TypesAre DEF Delete
<1>3. CASE Leave(s)
  BY <1>3, TypesAre DEF Leave
<1>4. CASE LogOut(s)
  BY <1>4, TypesAre DEF LogOut
<1>5. QED
  BY <1>1, <1>2, <1>3, <1>4

(* Sessions a request finds have signed in.                                *)
LEMMA FoundAreIn ==
  ASSUME SessionsTypeOK, RequestInv, NEW t \in Alive \cup Open
  PROVE  t \in Sessions /\ acts[t].at # "off"
BY TypesAre DEF Alive, Open, RequestInv, RequestKept

(* Steps that leave the store alone and move one request to a step that    *)
(* claims no more than the one it was at.                                  *)
LEMMA RequestMoves ==
  ASSUME SessionsTypeOK, RequestInv, NEW s \in Sessions, UNCHANGED stored,
         acts' \in [Sessions -> Request],
         \A t \in Sessions : t # s => acts'[t] = acts[t],
         acts[s].at # "off", acts'[s].at # "off",
         \A t \in Sessions : presence'[t].row => presence[t].row \/ t = s,
         \A t \in acts'[s].left : acts[t].at # "off",
         acts'[s].at \in SigningIn => stored[s] \in {"blank", "gone"},
         acts'[s].at \notin {"marking", "noting"},
         acts'[s].at \in Deleting => acts'[s].left = acts'[s].doomed
  PROVE  RequestInv'
<1>1. RequestKept(s)'
  <2>1. acts'[s].left \subseteq Sessions /\ acts'[s].doomed \subseteq Sessions
    BY DEF Request
  <2>2. QED
    BY <2>1 DEF RequestKept
<1>2. ASSUME NEW u \in Sessions, u # s
      PROVE  RequestKept(u)'
  <2>1. acts[u].left \subseteq Sessions /\ acts[u].doomed \subseteq Sessions
    BY TypesAre DEF Request
  <2>2. RequestKept(u)
    BY DEF RequestInv
  <2>3. QED
    BY <1>2, <2>1, <2>2 DEF RequestKept
<1>3. QED
  BY <1>1, <1>2 DEF RequestInv

LEMMA RequestStays == SessionsTypeOK /\ RequestInv /\ [Next]_signins => RequestInv'
<1> SUFFICES ASSUME SessionsTypeOK, RequestInv, [Next]_signins
             PROVE  RequestInv'
  OBVIOUS
<1> USE TypesAre
<1>1. CASE UNCHANGED signins
  BY <1>1 DEF RequestInv, RequestKept, signins
<1>2. ASSUME NEW s \in Sessions, LogIn(s)
      PROVE  RequestInv'
  <2>1. PICK first \in {"meeting", "entering"} : Go(s, first)
    BY <1>2 DEF LogIn
  <2>2. /\ acts'[s].at = first /\ \A t \in Sessions : t # s => acts'[t] = acts[t]
    BY <2>1, GoIs DEF SigningIn, Stages
  <2>3. /\ stored'[s] = "blank" /\ stored[s] = "none"
        /\ \A t \in Sessions : t # s => stored'[t] = stored[t]
    BY <1>2, StoredIs DEF LogIn, At, RequestInv, RequestKept
  <2>4. \A u \in Sessions : RequestKept(u)'
    <3>1. RequestKept(s)'
      <4>1. acts'[s].left = acts[s].left /\ acts[s].left \subseteq Sessions
        BY <2>1, GoIs DEF SigningIn, Stages, Request
      <4>2. QED
        BY <2>2, <2>3, <4>1 DEF RequestKept, RequestInv, Deleting
    <3>2. ASSUME NEW u \in Sessions, u # s
          PROVE  RequestKept(u)'
      <4>1. acts[u].doomed \subseteq Sessions /\ acts[u].left \subseteq Sessions
        BY DEF Request
      <4>2. UNCHANGED presence
        BY <1>2 DEF LogIn
      <4>3. QED
        BY <2>2, <2>3, <3>2, <4>1, <4>2 DEF RequestInv, RequestKept
    <3>3. QED
      BY <3>1, <3>2
  <2>5. QED
    BY <2>4 DEF RequestInv
<1>3. ASSUME NEW s \in Sessions, Meet(s)
      PROVE  RequestInv'
  <2>1. /\ acts' \in [Sessions -> Request] /\ acts'[s].at = "entering"
        /\ acts'[s].left = acts[s].left /\ UNCHANGED stored
        /\ \A t \in Sessions : t # s => acts'[t] = acts[t]
    BY <1>3, GoIs DEF Meet, SigningIn, Stages
  <2>2. acts[s].at = "meeting"
    BY <1>3 DEF Meet, At
  <2>3. \A t \in Sessions : t # s => presence'[t] = presence[t]
    BY <1>3, MetIs DEF Meet
  <2>4. QED
    BY <2>1, <2>2, <2>3, RequestMoves DEF SigningIn, Deleting, RequestInv, RequestKept
<1>4. ASSUME NEW s \in Sessions, Enforce(s) \/ EnforceAgain(s)
      PROVE  RequestInv'
  <2>1. PICK at \in {"evicting", "striking"} :
          /\ Evict(s, at)
          /\ at = "evicting" => stored[s] \in {"blank", "gone"}
    BY <1>4 DEF Enforce, EnforceAgain, At, SigningIn, RequestInv, RequestKept
  <2>2. Seen \ {s} \subseteq Sessions
    BY DEF Seen, Alive, Open
  <2>3. Act(at, Seen \ {s}) \in Request /\ acts' = [acts EXCEPT ![s] = Act(at, Seen \ {s})]
    <3>1. at \in Stages
      BY DEF Stages, SigningIn, Later
    <3>2. QED
      BY <2>1, <2>2, <3>1, RequestsAre DEF Evict
  <2>4. /\ acts' \in [Sessions -> Request] /\ acts'[s] = Act(at, Seen \ {s})
        /\ \A t \in Sessions : t # s => acts'[t] = acts[t]
    BY <2>3, ActIs
  <2>5. /\ acts'[s].at = at /\ acts'[s].left = acts'[s].doomed
        /\ acts'[s].left = Seen \ {s}
    BY <2>4 DEF Act
  <2>6. UNCHANGED <<stored, presence>> /\ acts[s].at # "off"
    BY <1>4 DEF Enforce, EnforceAgain, At
  <2>7. \A t \in Seen \ {s} : acts[t].at # "off"
    BY FoundAreIn DEF Seen
  <2>8. acts'[s].at \in SigningIn => stored[s] \in {"blank", "gone"}
    BY <2>1, <2>5 DEF SigningIn
  <2>9. at # "off" /\ at \notin {"marking", "noting"}
    OBVIOUS
  <2>10. QED
    BY <2>4, <2>5, <2>6, <2>7, <2>8, <2>9, RequestMoves
<1>5. ASSUME NEW s \in Sessions, Delete(s)
      PROVE  RequestInv'
  <2>1. acts[s].at \in {"evicting", "striking", "revoking"}
    BY <1>5 DEF Delete
  <2>2. CASE acts[s].left = {}
    <3>1. PICK at \in {"marking", "noting"} :
            Go(s, at) /\ (at = "marking" => At(s, "evicting"))
      BY <1>5, <2>2 DEF Delete
    <3>2. /\ acts'[s].at = at /\ acts'[s].doomed = acts[s].doomed
          /\ acts'[s].left = acts[s].left
          /\ \A t \in Sessions : t # s => acts'[t] = acts[t]
      BY <3>1, GoIs DEF SigningIn, Later, Stages
    <3>3. UNCHANGED <<stored, presence>>
      BY <1>5, <2>2 DEF Delete
    <3>4. RequestKept(s)'
      BY <2>1, <2>2, <3>1, <3>2, <3>3 DEF RequestKept, RequestInv, Deleting, At, SigningIn
    <3>5. ASSUME NEW u \in Sessions, u # s
          PROVE  RequestKept(u)'
      <4>1. acts[u].left \subseteq Sessions /\ RequestKept(u)
        BY DEF RequestInv, Request
      <4>2. QED
        BY <3>2, <3>3, <3>5, <4>1 DEF RequestKept
    <3>6. QED
      BY <3>4, <3>5 DEF RequestInv
  <2>3. CASE acts[s].left # {}
    <3>1. PICK t \in acts[s].left : /\ stored' = [stored EXCEPT ![t] = "gone"]
                                    /\ acts' = [acts EXCEPT ![s].left = @ \ {t}]
      BY <1>5, <2>3 DEF Delete
    <3>2. t \in Sessions
      BY <3>1 DEF Request
    <3>3. /\ acts'[s].at = acts[s].at /\ acts'[s].doomed = acts[s].doomed
          /\ acts'[s].left = acts[s].left \ {t}
          /\ \A u \in Sessions : u # s => acts'[u] = acts[u]
      BY <3>1, <3>2, LeftIs
    <3>4. /\ stored'[t] = "gone"
          /\ \A u \in Sessions : u # t => stored'[u] = stored[u]
      BY <3>1, <3>2, StoredIs
    <3>5. ASSUME NEW u \in Sessions
          PROVE  RequestKept(u)'
      <4>1. /\ RequestKept(u) /\ RequestKept(s)
            /\ acts[u].doomed \subseteq Sessions /\ acts[u].left \subseteq Sessions
        BY DEF RequestInv, Request
      <4>2. acts[u].at # "off" \/ u # t
        BY <3>1, <4>1 DEF RequestKept
      <4>3. UNCHANGED presence
        BY <1>5 DEF Delete
      <4>4. \A v \in Sessions : acts'[v].at = acts[v].at
        BY <3>3
      <4>5. QED
        BY <3>3, <3>4, <4>1, <4>2, <4>3, <4>4 DEF RequestKept
    <3>6. QED
      BY <3>5 DEF RequestInv
  <2>4. QED
    BY <2>2, <2>3
<1>6. ASSUME NEW s \in Sessions, MarkEnded(s)
      PROVE  RequestInv'
  <2>1. PICK at \in {"leaving", "idle", "meeting"} :
          /\ acts' = [acts EXCEPT ![s] = Act(at, {})]
          /\ at # "idle" => At(s, "marking")
    BY <1>6 DEF MarkEnded
  <2>2. Act(at, {}) \in Request
    BY RequestsAre DEF Stages, SigningIn, Later
  <2>3. /\ acts' \in [Sessions -> Request] /\ acts'[s] = Act(at, {})
        /\ \A t \in Sessions : t # s => acts'[t] = acts[t]
    BY <2>1, <2>2, ActIs
  <2>4. acts'[s].at = at /\ acts'[s].left = {}
    BY <2>3 DEF Act
  <2>5. at # "idle" => stored[s] \in {"blank", "gone"}
    BY <2>1 DEF At, SigningIn, RequestInv, RequestKept
  <2>6. UNCHANGED stored /\ acts[s].at # "off"
    BY <1>6 DEF MarkEnded
  <2>7. \A t \in Sessions : presence'[t].row => presence[t].row \/ t = s
    BY <1>6 DEF MarkEnded
  <2>8. at \notin Deleting \cup {"off", "marking", "noting"} /\ (at = "idle" => at \notin SigningIn)
    BY DEF SigningIn, Deleting
  <2>9. QED
    BY <2>3, <2>4, <2>5, <2>6, <2>7, <2>8, RequestMoves
<1>7. ASSUME NEW s \in Sessions, Leave(s)
      PROVE  RequestInv'
  <2>1. /\ acts'[s].at = "idle" /\ acts'[s].left = acts[s].left /\ UNCHANGED presence
        /\ acts[s].at = "leaving" /\ \A t \in Sessions : t # s => acts'[t] = acts[t]
    BY <1>7, GoIs DEF Leave, At, Later, Stages
  <2>2. /\ \A t \in Sessions : t # s => stored'[t] = stored[t]
        /\ \A t \in Sessions : stored[t] = "gone" => stored'[t] = "gone"
    BY <1>7, StoreMoves, StoredIs DEF Leave
  <2>3. ASSUME NEW u \in Sessions
        PROVE  RequestKept(u)'
    <3>1. /\ RequestKept(u)
          /\ acts[u].doomed \subseteq Sessions /\ acts[u].left \subseteq Sessions
      BY DEF RequestInv, Request
    <3>2. QED
      BY <2>1, <2>2, <3>1 DEF RequestKept, SigningIn, Deleting
  <2>4. QED
    BY <2>3 DEF RequestInv
<1>8. ASSUME NEW s \in Sessions, Page(s) \/ Remember(s) \/ Trust(s)
      PROVE  RequestInv'
  <2>1. PICK at \in {"page", "idle", "again"} : Go(s, at)
    BY <1>8 DEF Page, Remember, Trust
  <2>2. UNCHANGED stored /\ acts[s].at # "off"
    BY <1>8 DEF Page, Remember, Trust, At
  <2>3. /\ acts' \in [Sessions -> Request] /\ acts'[s].at = at /\ acts'[s].left = acts[s].left
        /\ \A t \in Sessions : t # s => acts'[t] = acts[t]
    BY <2>1, GoIs DEF Later, Stages
  <2>4. \A t \in Sessions : t # s => presence'[t] = presence[t]
    BY <1>8, MetIs DEF Page, Remember, Trust
  <2>5. \A t \in acts[s].left : acts[t].at # "off"
    BY DEF RequestInv, RequestKept
  <2>6. at \notin SigningIn \cup Deleting \cup {"off", "marking", "noting"}
    BY DEF SigningIn, Deleting
  <2>7. QED
    BY <2>2, <2>3, <2>4, <2>5, <2>6, RequestMoves
<1>9. ASSUME NEW s \in Sessions, LogOut(s)
      PROVE  RequestInv'
  <2>1. /\ stored'[s] = "gone" /\ \A t \in Sessions : t # s => stored'[t] = stored[t]
    BY <1>9, StoredIs DEF LogOut
  <2>2. ASSUME NEW u \in Sessions
        PROVE  RequestKept(u)'
    <3>1. RequestKept(u) /\ acts[u].doomed \subseteq Sessions
      BY DEF RequestInv, Request
    <3>2. UNCHANGED <<acts, presence>> /\ acts[s].at = "idle"
      BY <1>9 DEF LogOut, At
    <3>3. QED
      BY <2>1, <3>1, <3>2 DEF RequestKept
  <2>3. QED
    BY <2>2 DEF RequestInv
<1>10. ASSUME NEW s \in Sessions, ReadProfile(s) \/ Revoke(s)
       PROVE  RequestInv'
  <2>1. PICK at \in {"closing", "revoking"}, X \in SUBSET Sessions :
          X \subseteq Alive \cup Open /\ acts' = [acts EXCEPT ![s] = Act(at, X)]
    BY <1>10 DEF ReadProfile, Revoke, Open, Alive
  <2>2. Act(at, X) \in Request
    BY RequestsAre DEF Stages, Later
  <2>3. /\ acts' \in [Sessions -> Request] /\ acts'[s] = Act(at, X)
        /\ \A t \in Sessions : t # s => acts'[t] = acts[t]
    BY <2>1, <2>2, ActIs
  <2>4. acts'[s].at = at /\ acts'[s].left = acts'[s].doomed /\ acts'[s].left = X
    BY <2>3 DEF Act
  <2>5. UNCHANGED <<stored, presence>> /\ acts[s].at # "off"
    BY <1>10 DEF ReadProfile, Revoke, At
  <2>6. \A t \in X : acts[t].at # "off"
    BY <2>1, FoundAreIn
  <2>7. at \notin SigningIn \cup {"off", "marking", "noting"}
    BY DEF SigningIn
  <2>8. QED
    BY <2>3, <2>4, <2>5, <2>6, <2>7, RequestMoves
<1>11. ASSUME NEW s \in Sessions, CloseStale(s) \/ Kill(s)
       PROVE  RequestInv'
  <2>1. PICK at \in {"idle", "killed"} : acts' = [acts EXCEPT ![s] = Act(at, {})]
    BY <1>11 DEF CloseStale, Kill
  <2>2. Act(at, {}) \in Request
    BY RequestsAre DEF Stages, Later
  <2>3. /\ acts' \in [Sessions -> Request] /\ acts'[s] = Act(at, {})
        /\ \A t \in Sessions : t # s => acts'[t] = acts[t]
    BY <2>1, <2>2, ActIs
  <2>4. acts'[s].at = at /\ acts'[s].left = {}
    BY <2>3 DEF Act
  <2>5. UNCHANGED stored /\ acts[s].at # "off"
    BY <1>11 DEF CloseStale, Kill, At
  <2>6. \A t \in Sessions : presence'[t].row => presence[t].row
    <3>1. \A t \in Sessions : presence[t] \in Row
      OBVIOUS
    <3>2. QED
      BY <1>11, <3>1 DEF CloseStale, Kill, Row
  <2>7. at \notin SigningIn \cup Deleting \cup {"off", "marking", "noting"}
    BY DEF SigningIn, Deleting
  <2>8. QED
    BY <2>3, <2>4, <2>5, <2>6, <2>7, RequestMoves
<1>12. QED
  BY <1>1, <1>2, <1>3, <1>4, <1>5, <1>6, <1>7, <1>8, <1>9, <1>10, <1>11 DEF Next

-----------------------------------------------------------------------------
(* Sign-ins that nothing disturbs.  One session at a time evicts the       *)
(* others; the presence of a session that is in, or about to be, is open,  *)
(* so that an eviction finds it; and what is in the store apart from the   *)
(* last winner was missed, or is on the list of the one that is at work.   *)

Live(s) == stored[s] = "user" \/ (stored[s] = "blank" /\ acts[s].at \in SigningIn)
Striking == {"evicting", "striking"}
Swept == {"marking", "leaving"}

FreshInv == \A s \in Sessions :
  Live(s) /\ presence[s].row => ~presence[s].ended /\ ~presence[s].revoked
ClosedInv == \A s \in Sessions :
  acts[s].at = "closing" => \A t \in acts[s].doomed : ~Live(t)
AloneInv == \A s, t \in Enforcing : s = t
SweptInv ==
  /\ (\A s \in Sessions : acts[s].at \notin Striking \cup Swept) => Alive \subseteq missed \cup {winner}
  /\ \A s \in Sessions : acts[s].at \in Striking => Alive \subseteq missed \cup acts[s].left \cup {s}
  /\ \A s \in Sessions : acts[s].at \in Swept => Alive \subseteq missed \cup {s}

UndisturbedInv == ~disturbed => FreshInv /\ ClosedInv /\ AloneInv /\ SweptInv

Step(s) ==
  \/ LogIn(s) \/ Meet(s) \/ Enforce(s) \/ Delete(s) \/ MarkEnded(s) \/ Leave(s)
  \/ Page(s) \/ Remember(s) \/ LogOut(s) \/ Trust(s) \/ EnforceAgain(s)
  \/ ReadProfile(s) \/ CloseStale(s) \/ Revoke(s) \/ Kill(s)

(* A step is of one request, and signing in, trusting a device and reading *)
(* the profile page start where they say.                                  *)
LEMMA StepIs ==
  ASSUME SessionsTypeOK, NEW s \in Sessions, Step(s)
  PROVE  /\ \A t \in Sessions : t # s => acts'[t] = acts[t]
         /\ acts'[s].at \in SigningIn => acts[s].at \in SigningIn \/ LogIn(s)
         /\ acts'[s].at \in {"again", "striking"} =>
              acts[s].at \in {"again", "striking"} \/ Trust(s)
         /\ acts'[s].at = "closing" => ReadProfile(s)
<1> USE TypesAre
<1> DEFINE P == /\ \A t \in Sessions : t # s => acts'[t] = acts[t]
                /\ acts'[s].at \in SigningIn => acts[s].at \in SigningIn \/ LogIn(s)
                /\ acts'[s].at \in {"again", "striking"} =>
                     acts[s].at \in {"again", "striking"} \/ Trust(s)
                /\ acts'[s].at = "closing" => ReadProfile(s)
<1>1. CASE LogIn(s)
  <2>1. PICK first \in {"meeting", "entering"} : Go(s, first)
    BY <1>1 DEF LogIn
  <2>2. QED
    BY <1>1, <2>1, GoIs DEF SigningIn, Stages
<1>2. CASE Meet(s) \/ Leave(s) \/ Page(s) \/ Remember(s)
  <2>1. PICK at \in {"entering", "idle", "page"} : Go(s, at) /\ (at = "entering" => Meet(s))
    BY <1>2 DEF Meet, Leave, Page, Remember
  <2>2. QED
    BY <2>1, GoIs DEF Meet, At, SigningIn, Later, Stages
<1>3. CASE Trust(s)
  BY <1>3, GoIs DEF Trust, SigningIn, Later, Stages
<1>4. CASE Delete(s)
  <2>1. CASE acts[s].left = {}
    <3>1. PICK at \in {"marking", "noting"} :
            Go(s, at) /\ (at = "marking" => At(s, "evicting"))
      BY <1>4, <2>1 DEF Delete
    <3>2. QED
      BY <3>1, GoIs DEF At, SigningIn, Later, Stages
  <2>2. CASE acts[s].left # {}
    <3>1. PICK t \in acts[s].left : acts' = [acts EXCEPT ![s].left = @ \ {t}]
      BY <1>4, <2>2 DEF Delete
    <3>2. t \in Sessions
      BY <3>1 DEF Request
    <3>3. acts[s].at # "closing"
      BY <1>4 DEF Delete
    <3>4. QED
      BY <3>1, <3>2, <3>3, LeftIs
  <2>3. QED
    BY <2>1, <2>2
<1>5. CASE LogOut(s)
  BY <1>5 DEF LogOut, At
<1>6. CASE Enforce(s) \/ EnforceAgain(s) \/ MarkEnded(s) \/ CloseStale(s) \/ Kill(s)
           \/ ReadProfile(s) \/ Revoke(s)
  <2>1. PICK at \in {"evicting", "striking", "leaving", "idle", "meeting", "killed",
                     "closing", "revoking"}, X \in SUBSET Sessions :
          /\ acts' = [acts EXCEPT ![s] = Act(at, X)]
          /\ at \in {"evicting", "leaving", "meeting"} => acts[s].at \in {"entering", "marking"}
          /\ at = "striking" => acts[s].at = "again"
          /\ at = "closing" => ReadProfile(s)
    <3>1. CASE Enforce(s) \/ EnforceAgain(s)
      BY <3>1 DEF Enforce, EnforceAgain, Evict, At, Seen, Alive, Open
    <3>2. CASE MarkEnded(s)
      BY <3>2 DEF MarkEnded, At
    <3>3. CASE CloseStale(s) \/ Kill(s)
      BY <3>3 DEF CloseStale, Kill
    <3>4. CASE ReadProfile(s)
      <4>1. Open \ (Alive \cup {s}) \in SUBSET Sessions
        BY DEF Open
      <4>2. QED
        BY <3>4, <4>1 DEF ReadProfile
    <3>5. CASE Revoke(s)
      <4>1. PICK t \in Alive : acts' = [acts EXCEPT ![s] = Act("revoking", {t})]
        BY <3>5 DEF Revoke
      <4>2. {t} \in SUBSET Sessions
        BY DEF Alive
      <4>3. QED
        BY <4>1, <4>2
    <3>6. QED
      BY <1>6, <3>1, <3>2, <3>3, <3>4, <3>5
  <2>2. Act(at, X) \in Request /\ Act(at, X).at = at
    BY RequestsAre DEF Stages, SigningIn, Later
  <2>3. acts'[s].at = at /\ \A t \in Sessions : t # s => acts'[t] = acts[t]
    BY <2>1, <2>2, ActIs
  <2>4. QED
    BY <2>1, <2>3 DEF SigningIn
<1>7. QED
  BY <1>1, <1>2, <1>3, <1>4, <1>5, <1>6 DEF Step

LEMMA LiveStays ==
  ASSUME SessionsTypeOK, RequestInv, NEW s \in Sessions, Step(s), NEW t \in Sessions, Live(t)'
  PROVE  Live(t) \/ (t = s /\ LogIn(s))
<1>1. CASE LogIn(s) \/ Delete(s) \/ Leave(s) \/ LogOut(s)
  <2>1. stored'[t] = stored[t] \/ (s = t /\ (LogIn(s) \/ Leave(s)))
    BY <1>1, StoreMoves DEF Live
  <2>2. s = t /\ Leave(s) => Live(t)
    BY TypesAre DEF Leave, At, Live, SigningIn
  <2>3. QED
    BY <2>1, <2>2, StepIs DEF Live
<1>2. CASE UNCHANGED stored
  BY <1>2, StepIs DEF Live
<1>3. QED
  BY <1>1, <1>2 DEF Step, Meet, Enforce, MarkEnded, Page, Remember, Trust, EnforceAgain,
                    ReadProfile, CloseStale, Revoke, Kill

LEMMA EnforcersAre ==
  ASSUME SessionsTypeOK, NEW s \in Sessions, Step(s), NEW t \in Enforcing'
  PROVE  t \in Enforcing \/ (t = s /\ (LogIn(s) \/ Trust(s)))
BY StepIs DEF Enforcing

(* Nothing disturbs a step that leaves disturbed alone.                    *)
LEMMA DisturbedIs ==
  ASSUME SessionsTypeOK, NEW s \in Sessions, Step(s), ~disturbed'
  PROVE  /\ ~disturbed
         /\ LogIn(s) \/ Trust(s) \/ ReadProfile(s) => Enforcing = {}
         /\ LogIn(s) => \A t \in Sessions : acts[t].at # "closing"
<1>1. CASE LogIn(s)
  <2>1. ~LogIn(s) \/ (~Trust(s) /\ ~ReadProfile(s))
    BY DEF LogIn, Trust, ReadProfile, At
  <2>2. QED
    BY <1>1, <2>1 DEF LogIn, At
<1>2. CASE Trust(s) \/ ReadProfile(s)
  <2>1. ~LogIn(s)
    BY <1>2 DEF LogIn, Trust, ReadProfile, At
  <2>2. QED
    BY <1>2, <2>1 DEF Trust, ReadProfile
<1>3. CASE ~LogIn(s) /\ ~Trust(s) /\ ~ReadProfile(s)
  BY <1>3 DEF Step, Meet, Enforce, Delete, MarkEnded, Leave, Page, Remember, LogOut,
              EnforceAgain, CloseStale, Revoke, Kill
<1>4. QED
  BY <1>1, <1>2, <1>3

(* A presence row is revoked only once it is there.                        *)
PresenceInv == \A s \in Sessions : presence[s].revoked => presence[s].row

LEMMA PresenceStays ==
  ASSUME SessionsTypeOK, PresenceInv, NEW s \in Sessions, Step(s)
  PROVE  PresenceInv'
<1>1. CASE UNCHANGED presence
  BY <1>1 DEF PresenceInv
<1>2. CASE Met(s)
  BY <1>2, MetIs, TypesAre DEF PresenceInv
<1>3. CASE MarkEnded(s) \/ CloseStale(s)
  <2>1. ASSUME NEW t \in Sessions, presence'[t].revoked
        PROVE  presence'[t].row
    <3>1. presence[t] \in Row /\ (presence[t].revoked => presence[t].row)
      BY TypesAre DEF PresenceInv
    <3>2. [presence[t] EXCEPT !.ended = TRUE].row = presence[t].row
            /\ [presence[t] EXCEPT !.ended = TRUE].revoked = presence[t].revoked
      BY <3>1 DEF Row
    <3>3. \/ presence'[t] = presence[t]
          \/ presence'[t] = [presence[t] EXCEPT !.ended = TRUE]
          \/ presence'[t] = [row |-> TRUE, ended |-> TRUE, revoked |-> TRUE]
      BY <1>3 DEF MarkEnded, CloseStale
    <3>4. CASE presence'[t] = [row |-> TRUE, ended |-> TRUE, revoked |-> TRUE]
      BY <3>4
    <3>5. CASE presence'[t] \in {presence[t], [presence[t] EXCEPT !.ended = TRUE]}
      BY <2>1, <3>1, <3>2, <3>5
    <3>6. QED
      BY <3>3, <3>4, <3>5
  <2>2. QED
    BY <2>1 DEF PresenceInv
<1>4. QED
  BY <1>1, <1>2, <1>3 DEF Step, LogIn, Meet, Enforce, Delete, Leave, Page, Remember, LogOut,
       Trust, EnforceAgain, ReadProfile, Revoke, Kill

LEMMA AloneStays ==
  ASSUME SessionsTypeOK, UndisturbedInv, NEW s \in Sessions, Step(s), ~disturbed'
  PROVE  AloneInv'
<1>1. AloneInv /\ (LogIn(s) \/ Trust(s) => Enforcing = {})
  BY DisturbedIs DEF UndisturbedInv
<1>2. ASSUME NEW t \in Enforcing', NEW u \in Enforcing'
      PROVE  t = u
  BY <1>1, <1>2, EnforcersAre DEF AloneInv
<1>3. QED
  BY <1>2 DEF AloneInv

(* A page that closes stale presence has found nobody who is in or signing *)
(* in, and nobody signs in beside it.                                      *)
LEMMA ClosedStays ==
  ASSUME SessionsTypeOK, RequestInv, UndisturbedInv, NEW s \in Sessions, Step(s), ~disturbed'
  PROVE  ClosedInv'
<1> SUFFICES ASSUME NEW u \in Sessions, acts'[u].at = "closing",
                    NEW t \in acts'[u].doomed, Live(t)'
             PROVE  FALSE
  BY DEF ClosedInv
<1>1. ClosedInv /\ t \in Sessions
  BY DisturbedIs, NextTypes, TypesAre, TypesWillBe DEF UndisturbedInv, Request, Step, Next
<1>2. CASE ReadProfile(s) /\ u = s
  <2>1. /\ acts' = [acts EXCEPT ![s] = Act("closing", Open \ (Alive \cup {s}))]
        /\ Enforcing = {}
    BY <1>2, DisturbedIs DEF ReadProfile
  <2>2. acts'[s].doomed = Open \ (Alive \cup {s})
    BY <2>1, TypesAre DEF Act
  <2>3. ~Live(t)
    BY <1>1, <1>2, <2>1, <2>2 DEF Live, Alive, Enforcing
  <2>4. ~LogIn(s)
    BY <1>2 DEF ReadProfile, LogIn, At
  <2>5. QED
    BY <1>1, <2>3, <2>4, LiveStays
<1>3. CASE ~ReadProfile(s) \/ u # s
  <2>1. u # s /\ acts'[u] = acts[u]
    BY <1>3, StepIs
  <2>2. acts[u].at = "closing" /\ ~Live(t)
    BY <1>1, <2>1 DEF ClosedInv
  <2>3. LogIn(s)
    BY <1>1, <2>2, LiveStays
  <2>4. QED
    BY <2>2, <2>3, DisturbedIs
<1>4. QED
  BY <1>2, <1>3

LEMMA FreshStays ==
  ASSUME SessionsTypeOK, RequestInv, PresenceInv, UndisturbedInv, NEW s \in Sessions, Step(s), ~disturbed'
  PROVE  FreshInv'
<1> USE TypesAre
<1> SUFFICES ASSUME NEW t \in Sessions, Live(t)', presence'[t].row
             PROVE  ~presence'[t].ended /\ ~presence'[t].revoked
  BY DEF FreshInv
<1>1. FreshInv /\ ClosedInv
  BY DisturbedIs DEF UndisturbedInv
<1>2. CASE LogIn(s)
  <2>1. UNCHANGED presence /\ acts[s].at = "off"
    BY <1>2 DEF LogIn, At
  <2>2. ~presence[s].row
    BY <2>1 DEF RequestInv, RequestKept
  <2>3. Live(t)
    BY <2>1, <2>2, LiveStays
  <2>4. QED
    BY <1>1, <2>1, <2>3 DEF FreshInv
<1>3. CASE ~LogIn(s)
  <2>1. Live(t)
    BY <1>3, LiveStays
  <2>2. CASE UNCHANGED presence
    BY <1>1, <2>1, <2>2 DEF FreshInv
  <2>3. CASE Met(s)
    <3>1. CASE t = s
      <4>1. presence[s].row \/ ~presence[s].revoked
        BY DEF PresenceInv
      <4>2. QED
        BY <1>1, <2>1, <2>3, <3>1, <4>1, MetIs DEF FreshInv
    <3>2. CASE t # s
      BY <1>1, <2>1, <2>3, <3>2, MetIs DEF FreshInv
    <3>3. QED
      BY <3>1, <3>2
  <2>4. CASE MarkEnded(s) \/ CloseStale(s)
    <3>1. t \notin acts[s].doomed
      <4>1. CASE MarkEnded(s)
        <5>1. acts[s].at \in Deleting /\ acts[s].left = {}
          BY <4>1 DEF MarkEnded, Deleting, RequestInv, RequestKept
        <5>2. \A u \in acts[s].doomed : stored[u] = "gone"
          BY <5>1 DEF RequestInv, RequestKept
        <5>3. QED
          BY <2>1, <5>2 DEF Live
      <4>2. CASE CloseStale(s)
        BY <1>1, <2>1, <4>2 DEF CloseStale, At, ClosedInv
      <4>3. QED
        BY <2>4, <4>1, <4>2
    <3>2. presence'[t] = presence[t]
      BY <2>4, <3>1 DEF MarkEnded, CloseStale
    <3>3. QED
      BY <1>1, <2>1, <3>2 DEF FreshInv
  <2>5. QED
    BY <1>3, <2>2, <2>3, <2>4 DEF Step, Meet, Enforce, Delete, Leave, Page, Remember, LogOut,
         Trust, EnforceAgain, ReadProfile, Revoke, Kill
<1>4. QED
  BY <1>2, <1>3

(* An eviction finds every session in the store, or gives it up as missed. *)
LEMMA EvictFinds ==
  ASSUME SessionsTypeOK, FreshInv
  PROVE  Alive \subseteq Seen \cup Unseen
BY TypesAre DEF FreshInv, Live, Alive, Seen, Unseen, Open

(* Who is signing in is not in the store yet, and at most one is at work.  *)
LEMMA AtWork ==
  ASSUME SessionsTypeOK, RequestInv, AloneInv, NEW s \in Sessions, s \in Enforcing
  PROVE  /\ \A t \in Sessions : t # s => t \notin Enforcing
         /\ acts[s].at \in SigningIn => s \notin Alive
BY DEF AloneInv, Enforcing, RequestInv, RequestKept, Alive

(* Steps between which neither the store grows nor a list gets shorter.    *)
LEMMA SweptMoves ==
  ASSUME SessionsTypeOK, SweptInv, NEW s \in Sessions,
         \A t \in Sessions : t # s => acts'[t] = acts[t],
         Alive' \subseteq Alive, missed \subseteq missed', winner' = winner,
         acts[s].at \notin Striking \cup Swept, acts'[s].at \notin Striking \cup Swept
  PROVE  SweptInv'
BY DEF SweptInv

LEMMA SweptStays ==
  ASSUME SessionsTypeOK, RequestInv, UndisturbedInv, NEW s \in Sessions, Step(s), ~disturbed'
  PROVE  SweptInv'
<1> USE TypesAre
<1>1. FreshInv /\ AloneInv /\ SweptInv
  BY DisturbedIs DEF UndisturbedInv
<1>2. \A t \in Sessions : t # s => acts'[t] = acts[t]
  BY StepIs
<1>3. ASSUME s \in Enforcing, NEW t \in Sessions, t # s
      PROVE  /\ acts[t].at \notin Striking \cup Swept
             /\ acts'[t].at \notin Striking \cup Swept
  BY <1>1, <1>2, <1>3, AtWork DEF Enforcing, Striking, Swept, SigningIn
<1>4. acts[s].at \in Striking \cup Swept \cup {"entering", "again"} => s \in Enforcing
  BY DEF Enforcing, Striking, Swept, SigningIn
<1>5. CASE LogIn(s) \/ Trust(s)
  <2>1. Enforcing = {} /\ UNCHANGED <<missed, winner>>
    BY <1>5, DisturbedIs DEF LogIn, Trust
  <2>2. Alive' \subseteq Alive
    BY <1>5 DEF LogIn, Trust, Alive
  <2>3. acts'[s].at \in {"meeting", "entering", "again"}
    BY <1>5, GoIs DEF LogIn, Trust, SigningIn, Later, Stages
  <2>4. QED
    BY <1>1, <1>2, <1>4, <2>1, <2>2, <2>3, SweptMoves DEF Striking, Swept
<1>6. CASE Meet(s) \/ Page(s) \/ Remember(s) \/ LogOut(s)
  <2>1. UNCHANGED <<missed, winner>> /\ Alive' \subseteq Alive
    BY <1>6 DEF Meet, Page, Remember, LogOut, Alive
  <2>2. /\ acts[s].at \in {"meeting", "idle", "page"}
        /\ acts'[s].at \in {"entering", "page", "idle"}
    BY <1>6, GoIs DEF Meet, Page, Remember, LogOut, At, SigningIn, Later, Stages
  <2>3. QED
    BY <1>1, <1>2, <2>1, <2>2, SweptMoves DEF Striking, Swept
<1>7. CASE ReadProfile(s) \/ CloseStale(s) \/ Revoke(s)
  <2>1. UNCHANGED <<missed, winner>> /\ Alive' \subseteq Alive
    BY <1>7 DEF ReadProfile, CloseStale, Revoke, Alive
  <2>2. acts[s].at \in {"idle", "closing"}
    BY <1>7 DEF ReadProfile, CloseStale, Revoke, At
  <2>3. acts'[s].at \in {"idle", "closing", "revoking"}
    BY <1>7 DEF ReadProfile, CloseStale, Revoke, Act
  <2>4. QED
    BY <1>1, <1>2, <2>1, <2>2, <2>3, SweptMoves DEF Striking, Swept
<1>8. CASE Kill(s)
  <2>1. acts'[s].at \in {"idle", "killed"} /\ UNCHANGED winner /\ Alive' = Alive
    BY <1>8 DEF Kill, Act, Alive
  <2>2. missed \subseteq missed'
    BY <1>8 DEF Kill
  <2>3. CASE acts[s].at \notin Striking \cup Swept
    BY <1>1, <1>2, <2>1, <2>2, <2>3, SweptMoves DEF Striking, Swept
  <2>4. CASE acts[s].at \in Striking \cup Swept
    <3>1. missed' = missed \cup acts[s].left \cup {s}
      BY <1>8, <2>4 DEF Kill, At, Striking, Swept
    <3>2. Alive' \subseteq missed'
      BY <1>1, <2>1, <2>4, <3>1 DEF SweptInv
    <3>3. QED
      BY <3>2 DEF SweptInv
  <2>5. QED
    BY <2>3, <2>4
<1>9. CASE Enforce(s) \/ EnforceAgain(s)
  <2>1. PICK at \in Striking : Evict(s, at)
    BY <1>9 DEF Enforce, EnforceAgain, Striking
  <2>2. acts'[s].at = at /\ acts'[s].left = Seen \ {s}
    BY <2>1 DEF Evict, Act
  <2>3. Alive' = Alive /\ acts[s].at \in {"entering", "again"}
    BY <1>9 DEF Enforce, EnforceAgain, Alive, At
  <2>4. missed' = ((missed \ Seen) \cup Unseen) \ {s}
    BY <2>1 DEF Evict
  <2>5. Alive' \subseteq missed' \cup acts'[s].left \cup {s}
    BY <1>1, <2>2, <2>3, <2>4, EvictFinds
  <2>6. acts'[s].at \in Striking /\ acts'[s].at \notin Swept
    BY <2>2 DEF Striking, Swept
  <2>7. QED
    BY <1>3, <1>4, <2>3, <2>5, <2>6 DEF SweptInv
<1>10. CASE Delete(s)
  <2>1. acts[s].at \in Striking \cup {"revoking"} /\ UNCHANGED missed
    BY <1>10 DEF Delete, Striking
  <2>2. CASE acts[s].left = {}
    <3>1. /\ Go(s, IF At(s, "evicting") THEN "marking" ELSE "noting")
          /\ winner' = IF At(s, "striking") THEN s ELSE winner
          /\ Alive' = Alive
      BY <1>10, <2>2 DEF Delete, Alive
    <3>2. acts'[s].at = IF At(s, "evicting") THEN "marking" ELSE "noting"
      BY <3>1, GoIs DEF SigningIn, Later, Stages
    <3>3. CASE acts[s].at = "revoking"
      <4>1. winner' = winner /\ acts'[s].at = "noting"
        BY <3>1, <3>2, <3>3 DEF At
      <4>2. QED
        BY <1>1, <1>2, <2>1, <3>1, <3>3, <4>1, SweptMoves DEF Striking, Swept
    <3>4. CASE acts[s].at \in Striking
      <4>1. Alive' \subseteq missed' \cup {s}
        BY <1>1, <2>1, <2>2, <3>1, <3>4 DEF SweptInv
      <4>2. CASE acts[s].at = "evicting"
        <5>1. acts'[s].at = "marking"
          BY <3>2, <4>2 DEF At
        <5>2. QED
          BY <1>3, <1>4, <3>4, <4>1, <5>1 DEF SweptInv, Striking, Swept
      <4>3. CASE acts[s].at = "striking"
        <5>1. acts'[s].at = "noting" /\ winner' = s
          BY <3>1, <3>2, <4>3 DEF At
        <5>2. QED
          BY <1>3, <1>4, <3>4, <4>1, <5>1 DEF SweptInv, Striking, Swept
      <4>4. QED
        BY <3>4, <4>2, <4>3 DEF Striking
    <3>5. QED
      BY <2>1, <3>3, <3>4
  <2>3. CASE acts[s].left # {}
    <3>1. PICK t \in acts[s].left : /\ stored' = [stored EXCEPT ![t] = "gone"]
                                    /\ acts' = [acts EXCEPT ![s].left = @ \ {t}]
      BY <1>10, <2>3 DEF Delete
    <3>2. t \in Sessions /\ UNCHANGED winner
      BY <1>10, <2>3, <3>1 DEF Delete, Request
    <3>3. /\ acts'[s].at = acts[s].at /\ acts'[s].left = acts[s].left \ {t}
      BY <3>1, <3>2, LeftIs
    <3>4. Alive' = Alive \ {t}
      BY <3>1, <3>2 DEF Alive
    <3>5. CASE acts[s].at = "revoking"
      BY <1>1, <1>2, <2>1, <3>2, <3>3, <3>4, <3>5, SweptMoves DEF Striking, Swept
    <3>6. CASE acts[s].at \in Striking
      <4>1. Alive' \subseteq missed' \cup acts'[s].left \cup {s}
        BY <1>1, <2>1, <3>3, <3>4, <3>6 DEF SweptInv
      <4>2. QED
        BY <1>3, <1>4, <3>3, <3>6, <4>1 DEF SweptInv, Striking, Swept
    <3>7. QED
      BY <2>1, <3>5, <3>6
  <2>4. QED
    BY <2>2, <2>3
<1>11. CASE MarkEnded(s)
  <2>1. UNCHANGED <<missed, winner>> /\ Alive' = Alive
    BY <1>11 DEF MarkEnded, Alive
  <2>2. acts'[s].at \in {"leaving", "idle", "meeting"}
    BY <1>11 DEF MarkEnded, Act
  <2>3. CASE acts[s].at = "noting"
    <3>1. acts'[s].at = "idle"
      BY <1>11, <2>3 DEF MarkEnded, Act, At
    <3>2. QED
      BY <1>1, <1>2, <2>1, <2>3, <3>1, SweptMoves DEF Striking, Swept
  <2>4. CASE acts[s].at = "marking"
    <3>1. s \in Enforcing /\ s \notin Alive
      BY <1>1, <2>4, AtWork DEF Enforcing, SigningIn
    <3>2. Alive' \subseteq missed'
      BY <1>1, <2>1, <2>4, <3>1 DEF SweptInv, Swept
    <3>3. QED
      BY <3>2 DEF SweptInv
  <2>5. QED
    BY <1>11, <2>3, <2>4 DEF MarkEnded
<1>12. CASE Leave(s)
  <2>1. acts[s].at = "leaving" /\ acts'[s].at = "idle" /\ winner' = s /\ UNCHANGED missed
    BY <1>12, GoIs DEF Leave, At, Later, Stages
  <2>2. Alive' \subseteq Alive \cup {s}
    BY <1>12 DEF Leave, Alive
  <2>3. Alive' \subseteq missed' \cup {winner'}
    BY <1>1, <2>1, <2>2 DEF SweptInv, Swept
  <2>4. QED
    BY <1>3, <1>4, <2>1, <2>3 DEF SweptInv, Striking, Swept
<1>13. QED
  BY <1>5, <1>6, <1>7, <1>8, <1>9, <1>10, <1>11, <1>12 DEF Step

LEMMA UndisturbedStays ==
  SessionsTypeOK /\ RequestInv /\ PresenceInv /\ UndisturbedInv /\ [Next]_signins
    => PresenceInv' /\ UndisturbedInv'
<1> SUFFICES ASSUME SessionsTypeOK, RequestInv, PresenceInv, UndisturbedInv, [Next]_signins
             PROVE  PresenceInv' /\ UndisturbedInv'
  OBVIOUS
<1>1. CASE UNCHANGED signins
  BY <1>1 DEF signins, PresenceInv, UndisturbedInv, FreshInv, ClosedInv, AloneInv, SweptInv,
              Live, Alive, Enforcing
<1>2. CASE Next
  <2>1. PICK s \in Sessions : Step(s)
    BY <1>2 DEF Next, Step
  <2>2. QED
    BY <2>1, PresenceStays, FreshStays, ClosedStays, AloneStays, SweptStays DEF UndisturbedInv
<1>3. QED
  BY <1>1, <1>2

(* Whatever requests of older sessions are under way, the last sign-in or  *)
(* trusted device is the only session once it is done: its eviction finds  *)
(* every session of the user, in the store or in the presence history, but *)
(* those counted as missed.  No sign-in overlapped another, or a profile   *)
(* page, so far.                                                           *)
THEOREM LastSignInIsAlone == Spec => []NewestLoginWins
<1>1. Init => RequestInv /\ PresenceInv /\ UndisturbedInv
  <2> SUFFICES ASSUME Init PROVE RequestInv /\ PresenceInv /\ UndisturbedInv
    OBVIOUS
  <2>1. \A s \in Sessions : /\ acts[s].at = "off" /\ acts[s].left = {} /\ stored[s] = "none"
                            /\ ~presence[s].row /\ ~presence[s].revoked
    BY DEF Init, Off, Act, NoRow
  <2>2. Alive = {} /\ Enforcing = {}
    BY <2>1 DEF Alive, Enforcing, SigningIn
  <2>3. RequestInv
    BY <2>1 DEF RequestInv, RequestKept, SigningIn, Deleting
  <2>4. QED
    BY <2>1, <2>2, <2>3 DEF PresenceInv, UndisturbedInv, FreshInv, ClosedInv, AloneInv, SweptInv,
         Live
<1>2. SessionsTypeOK /\ UndisturbedInv => NewestLoginWins
  BY DEF NewestLoginWins, UndisturbedInv, SweptInv, Enforcing, Striking, Swept, SigningIn
<1>3. QED
  BY <1>1, <1>2, InitTypes, NextTypes, RequestStays, UndisturbedStays, PTL DEF Spec

-----------------------------------------------------------------------------
(* The settings' row, its cached copy and the requests that save it.       *)

CONSTANTS MaxProcesses, MaxRequests
VARIABLES row, cached, jobs, lock, snapshots, started, wanted, replaced, tested, overlapped
S == INSTANCE SettingsStore WITH disturbed <- overlapped

(* The bounds are numbers.                                                 *)
StoreConstants == MaxProcesses \in Nat /\ MaxRequests \in Nat

(* Who is in a transaction has the row's lock; one that reverts, something *)
(* to revert.                                                              *)
Locked(r) == jobs[r].at \in {"locked", "commit"}
LocksAreHeld ==
  \A r \in S!Requests :
    /\ S!At(r, "lock") \/ Locked(r) => jobs[r].kind \in S!Locking
    /\ Locked(r) => lock = r /\ (jobs[r].kind = "revert" => snapshots # <<>>)

(* An import in progress has not had its snapshot taken.                   *)
Importing == {r \in S!Requests : S!Active(r) /\ jobs[r].kind = "apply"}
ImportsAreRequests == Len(snapshots) + Cardinality(Importing) <= started

StoreTypes == S!StoreTypeOK /\ LocksAreHeld /\ ImportsAreRequests

(* The inductive invariant: both forms of the home page agree wherever a   *)
(* save, or a load, has been.                                              *)
AllInStep ==
  /\ S!InStep(row) /\ S!InStep(cached) /\ \A i \in DOMAIN snapshots : S!InStep(snapshots[i])
  /\ \A r \in S!Requests : jobs[r].at \in {"fill", "saved", "commit"} => S!InStep(jobs[r].held)

(* One request at a time: what it holds, as far as it has come.            *)
Verified(s) == s.verified \in tested \cup {S!Unverified}

Serves(r) ==
  LET job == jobs[r]
  IN /\ job.at \in {"fill", "act", "locked", "saved"} => job.held = row
     /\ job.at = "commit" => job.held = S!Asked(job) /\ Verified(job.held)
     /\ job.at # "commit" /\ job.at # "saved" => cached \in {S!Missing, row}
     /\ job.at = "commit" => cached \in {S!Missing, job.held}
     /\ job.kind = "record" /\ job.value = 1 => S!Connection(row) \in tested

OneAtATime ==
  ~overlapped =>
    /\ row = wanted /\ Verified(row)
    /\ \A r, q \in S!Requests : S!Active(r) /\ S!Active(q) => r = q
    /\ (\A r \in S!Requests : ~S!Active(r)) => cached \in {S!Missing, row}
    /\ \A r \in S!Requests : S!Active(r) => Serves(r)
    /\ Len(replaced) = Len(snapshots)
    /\ \A i \in DOMAIN snapshots : snapshots[i] = S!Exported(replaced[i])

StoreInv == StoreTypes /\ AllInStep /\ OneAtATime

-----------------------------------------------------------------------------
(* Settings, and what the helpers make of them.                            *)
LEMMA DefaultIs ==
  /\ S!Default \in S!Settings /\ S!InStep(S!Default) /\ S!Default.verified = S!Unverified
  /\ S!Off \in S!Job /\ S!Off.at = "off" /\ S!InStep(S!Missing)
  /\ S!Missing \notin S!Settings /\ S!Missing \notin S!Export
<1>1. S!Default \in S!Settings
  BY DEF S!Default, S!Settings, S!Values, S!NoLogo
<1>2. S!Missing \notin S!Settings /\ S!Missing \notin S!Export
  BY DEF S!Missing, S!Settings, S!Export, S!Values
<1>3. S!Off \in S!Job
  BY <1>1 DEF S!Off, S!Job, S!Kinds, S!Values
<1>4. QED
  BY <1>1, <1>2, <1>3 DEF S!Default, S!InStep, S!Off

LEMMA FieldsAre ==
  ASSUME NEW s \in S!Settings
  PROVE  /\ s.home \in S!Values /\ s.legacy \in S!Values /\ s.conn \in S!Values
         /\ s.secret \in S!Values /\ s.extra \in S!Values
         /\ s.logo \in S!Values \cup {S!NoLogo}
         /\ s.verified \in (S!Values \X S!Values) \cup {S!Unverified}
         /\ S!Connection(s) \in S!Values \X S!Values /\ S!Exported(s) \in S!Export
BY DEF S!Settings, S!Export, S!Connection, S!Exported

(* What a snapshot restores, and what it was asked to restore.             *)
LEMMA RestoredIs ==
  ASSUME NEW s \in S!Settings, NEW export \in S!Export
  PROVE  /\ S!Restored(s, export) \in S!Settings
         /\ S!Restored(s, export).home = export.home /\ S!Restored(s, export).legacy = export.legacy
         /\ S!Restored(s, export).verified = S!Unverified
<1> DEFINE logo == IF export.logo = S!NoLogo THEN s.logo ELSE export.logo
<1>1. /\ export.home \in S!Values /\ export.legacy \in S!Values /\ export.conn \in S!Values
      /\ export.extra \in S!Values /\ export.logo \in S!Values \cup {S!NoLogo}
  BY DEF S!Export
<1>2. logo \in S!Values \cup {S!NoLogo}
  BY <1>1, FieldsAre
<1>3. S!Restored(s, export) = [s EXCEPT !.home = export.home, !.legacy = export.legacy,
        !.conn = export.conn, !.verified = S!Unverified, !.logo = logo, !.extra = export.extra]
  BY DEF S!Restored, S!Settings
<1> HIDE DEF logo
<1>4. QED
  BY <1>1, <1>2, <1>3 DEF S!Settings

LEMMA RevertedIs ==
  ASSUME NEW before \in S!Settings, wanted \in S!Settings
  PROVE  /\ S!Reverted(before) \in S!Settings
         /\ S!Reverted(before) = S!Restored(wanted, S!Exported(before))
<1> DEFINE logo == IF before.logo = S!NoLogo THEN wanted.logo ELSE before.logo
<1>1. logo \in S!Values \cup {S!NoLogo} /\ wanted.secret \in S!Values
  BY FieldsAre
<1>2. S!Reverted(before) = [before EXCEPT !.secret = wanted.secret, !.verified = S!Unverified,
                                          !.logo = logo]
  BY DEF S!Reverted, S!Settings
<1>3. S!Restored(wanted, S!Exported(before))
        = [wanted EXCEPT !.home = before.home, !.legacy = before.legacy, !.conn = before.conn,
             !.verified = S!Unverified, !.logo = logo, !.extra = before.extra]
  BY DEF S!Restored, S!Exported, S!Settings
<1>4. S!Unverified \in (S!Values \X S!Values) \cup {S!Unverified}
  OBVIOUS
<1> DEFINE result == [home |-> before.home, legacy |-> before.legacy, conn |-> before.conn,
                      secret |-> wanted.secret, verified |-> S!Unverified,
                      logo |-> logo, extra |-> before.extra]
<1> HIDE DEF logo
<1>5. S!Reverted(before) = result
  BY <1>2 DEF S!Settings
<1>6. S!Restored(wanted, S!Exported(before)) = result
  BY <1>3 DEF S!Settings
<1>7. result \in S!Settings
  BY <1>1, <1>4, FieldsAre DEF S!Settings
<1>8. QED
  BY <1>5, <1>6, <1>7

(* What a request that saves makes of the instance.                        *)
Saving == S!Whole \cup S!Partial \cup S!Locking

LEMMA EditedIs ==
  ASSUME NEW job \in S!Job, job.kind \in Saving, snapshots \in Seq(S!Export),
         job.kind = "revert" => snapshots # <<>>
  PROVE  S!Edited(job) \in S!Settings
<1> DEFINE s == job.held
           v == job.value
<1>1. s \in S!Settings /\ v \in S!Values
  BY DEF S!Job
<1>2. CASE job.kind \in {"form", "apply", "import", "scanlink", "app"}
  <2>1. S!Edited(job) \in {[s EXCEPT !.home = v], [s EXCEPT !.home = v, !.logo = v],
                          [s EXCEPT !.legacy = v], [s EXCEPT !.extra = v]}
    BY <1>2 DEF S!Edited
  <2>2. QED
    BY <1>1, <2>1 DEF S!Settings
<1>3. CASE job.kind = "email"
  <2> DEFINE verified == IF s.verified = <<v, v>> THEN s.verified ELSE S!Unverified
  <2>1. S!Edited(job) = [s EXCEPT !.conn = v, !.secret = v, !.verified = verified]
    BY <1>1, <1>3 DEF S!Edited, S!WithMail, S!Settings
  <2>2. verified \in (S!Values \X S!Values) \cup {S!Unverified}
    BY <1>1, FieldsAre
  <2> HIDE DEF verified
  <2>3. QED
    BY <1>1, <2>1, <2>2 DEF S!Settings
<1>4. CASE job.kind = "record"
  <2> DEFINE verified == IF v = 1 THEN S!Connection(s) ELSE S!Unverified
  <2>1. S!Edited(job) = [s EXCEPT !.verified = verified]
    BY <1>4 DEF S!Edited
  <2>2. verified \in (S!Values \X S!Values) \cup {S!Unverified}
    BY <1>1, FieldsAre
  <2> HIDE DEF verified
  <2>3. QED
    BY <1>1, <2>1, <2>2 DEF S!Settings
<1>5. CASE job.kind = "revert"
  <2>1. S!Last(snapshots) \in S!Export
    BY <1>5 DEF S!Last
  <2>2. S!Edited(job) = S!Restored(s, S!Last(snapshots))
    BY <1>5 DEF S!Edited
  <2>3. QED
    BY <1>1, <2>1, <2>2, RestoredIs
<1>6. QED
  BY <1>2, <1>3, <1>4, <1>5 DEF Saving, S!Whole, S!Partial, S!Locking

LEMMA SyncedIs ==
  ASSUME NEW job \in S!Job, job.kind \in Saving, snapshots \in Seq(S!Export), row \in S!Settings,
         job.kind = "revert" => snapshots # <<>>
  PROVE  S!Synced(job) \in S!Settings /\ S!InStep(S!Synced(job))
<1>1. S!Edited(job) \in S!Settings
  BY EditedIs
<1>2. S!ChosenHome(S!Edited(job)) \in S!Values
  <2>1. S!Edited(job).home \in S!Values /\ S!Edited(job).legacy \in S!Values
    BY <1>1, FieldsAre
  <2>2. QED
    BY <2>1 DEF S!ChosenHome
<1>3. QED
  BY <1>1, <1>2 DEF S!Synced, S!Settings, S!InStep

LEMMA WrittenIs ==
  ASSUME NEW s \in S!Settings, S!InStep(s), row \in S!Settings, S!InStep(row), NEW kind
  PROVE  S!Written(s, kind) \in S!Settings /\ S!InStep(S!Written(s, kind))
<1>1. s.home = s.legacy /\ row.home = row.legacy
  BY DefaultIs DEF S!InStep
<1>2. QED
  BY <1>1 DEF S!Written, S!InStep, S!Settings

LEMMA AskedIs ==
  ASSUME NEW job \in S!Job, job.kind \in Saving, snapshots \in Seq(S!Export), wanted \in S!Settings,
         replaced \in Seq(S!Settings), job.kind = "revert" => snapshots # <<>> /\ replaced # <<>>
  PROVE  S!Asked(job) \in S!Settings
<1> DEFINE asking == [job EXCEPT !.held = wanted]
<1>1. asking \in S!Job /\ asking.kind = job.kind
  BY DEF S!Job
<1>2. S!Edited(asking) \in S!Settings
  BY <1>1, EditedIs
<1>3. job.kind = "revert" => S!Reverted(S!Last(replaced)) \in S!Settings
  <2>1. job.kind = "revert" => S!Last(replaced) \in S!Settings
    BY DEF S!Last
  <2>2. QED
    BY <2>1, RevertedIs
<1>4. job.value \in S!Values /\ S!Edited(asking).home \in S!Values
  BY <1>2, FieldsAre DEF S!Job
<1>5. /\ [S!Edited(asking) EXCEPT !.home = job.value] \in S!Settings
      /\ [S!Edited(asking) EXCEPT !.legacy = S!Edited(asking).home] \in S!Settings
  BY <1>2, <1>4 DEF S!Settings
<1>6. QED
  BY <1>3, <1>5 DEF S!Asked

(* A request that holds what the row has writes what it was asked for, and *)
(* the row has what its instance holds.                                    *)
LEMMA SavedIsAsked ==
  ASSUME NEW job \in S!Job, job.kind \in Saving, snapshots \in Seq(S!Export), row \in S!Settings,
         S!InStep(row), row = wanted, job.held = row, row.verified \in tested \cup {S!Unverified},
         job.kind = "revert" => /\ snapshots # <<>> /\ S!Last(snapshots).home = S!Last(snapshots).legacy
                                /\ S!Last(replaced) \in S!Settings
                                /\ S!Last(snapshots) = S!Exported(S!Last(replaced)),
         job.kind = "record" /\ job.value = 1 => S!Connection(row) \in tested
  PROVE  /\ S!Synced(job) = S!Asked(job) /\ S!Written(S!Synced(job), job.kind) = S!Synced(job)
         /\ S!Synced(job).verified \in tested \cup {S!Unverified}
         /\ job.kind = "record" => S!Connection(S!Synced(job)) = S!Connection(row)
<1> DEFINE s == S!Edited(job)
<1>1. /\ s \in S!Settings /\ row.home = row.legacy /\ job.value \in S!Values
  BY EditedIs, DefaultIs DEF S!InStep, S!Job
<1>2. [job EXCEPT !.held = wanted] = job
  BY DEF S!Job
<1>3. S!Asked(job) = IF job.kind = "revert" THEN S!Reverted(S!Last(replaced))
                   ELSE IF job.kind = "import" THEN [s EXCEPT !.home = job.value]
                   ELSE [s EXCEPT !.legacy = s.home]
  BY <1>2 DEF S!Asked
<1>4. CASE job.kind = "form"
  <2>1. s = [row EXCEPT !.home = job.value]
    BY <1>4 DEF S!Edited
  <2>2. S!ChosenHome(s) = job.value
    BY <1>1, <2>1 DEF S!ChosenHome, S!Settings
  <2>3. S!Synced(job) = [row EXCEPT !.home = job.value, !.legacy = job.value]
    BY <2>1, <2>2 DEF S!Synced, S!Settings
  <2>4. S!Asked(job) = [row EXCEPT !.home = job.value, !.legacy = job.value]
    BY <1>3, <1>4, <2>1 DEF S!Settings
  <2>5. S!Written(S!Synced(job), job.kind) = S!Synced(job)
    BY <1>4 DEF S!Written, S!Partial
  <2>6. QED
    BY <1>4, <2>3, <2>4, <2>5 DEF S!Settings
<1>5. CASE job.kind = "apply"
  <2>1. s = [row EXCEPT !.home = job.value, !.logo = job.value]
    BY <1>5 DEF S!Edited
  <2>2. S!ChosenHome(s) = job.value
    BY <1>1, <2>1 DEF S!ChosenHome, S!Settings
  <2>3. S!Synced(job) = [row EXCEPT !.home = job.value, !.legacy = job.value, !.logo = job.value]
    BY <2>1, <2>2 DEF S!Synced, S!Settings
  <2>4. S!Asked(job) = [row EXCEPT !.home = job.value, !.legacy = job.value, !.logo = job.value]
    BY <1>3, <1>5, <2>1 DEF S!Settings
  <2>5. S!Written(S!Synced(job), job.kind) = S!Synced(job)
    BY <1>5 DEF S!Written, S!Partial
  <2>6. QED
    BY <1>5, <2>3, <2>4, <2>5 DEF S!Settings
<1>6. CASE job.kind = "import"
  <2>1. s = [row EXCEPT !.legacy = job.value]
    BY <1>6 DEF S!Edited
  <2>2. S!ChosenHome(s) = job.value
    BY <1>1, <2>1 DEF S!ChosenHome, S!Settings
  <2>3. S!Synced(job) = [row EXCEPT !.home = job.value, !.legacy = job.value]
    BY <2>1, <2>2 DEF S!Synced, S!Settings
  <2>4. S!Asked(job) = [row EXCEPT !.home = job.value, !.legacy = job.value]
    BY <1>3, <1>6, <2>1 DEF S!Settings
  <2>5. S!Written(S!Synced(job), job.kind) = S!Synced(job)
    BY <1>6 DEF S!Written, S!Partial
  <2>6. QED
    BY <1>6, <2>3, <2>4, <2>5 DEF S!Settings
<1>7. CASE job.kind \in {"scanlink", "app"}
  <2>1. s = [row EXCEPT !.extra = job.value]
    BY <1>7 DEF S!Edited
  <2>2. S!ChosenHome(s) = row.home
    BY <1>1, <2>1 DEF S!ChosenHome, S!Settings
  <2>3. S!Synced(job) = [row EXCEPT !.extra = job.value]
    BY <1>1, <2>1, <2>2 DEF S!Synced, S!Settings
  <2>4. S!Asked(job) = [row EXCEPT !.extra = job.value]
    BY <1>1, <1>3, <1>7, <2>1 DEF S!Settings
  <2>5. S!Written(S!Synced(job), job.kind) = S!Synced(job)
    BY <1>7, <2>3 DEF S!Written, S!Partial, S!Settings
  <2>6. QED
    BY <1>7, <2>3, <2>4, <2>5 DEF S!Settings
<1>8. CASE job.kind = "email"
  <2> DEFINE both == <<job.value, job.value>>
             verified == IF row.verified = both THEN row.verified ELSE S!Unverified
  <2>1. s = [row EXCEPT !.conn = job.value, !.secret = job.value, !.verified = verified]
    BY <1>8 DEF S!Edited, S!WithMail, S!Settings
  <2>2. verified \in tested \cup {S!Unverified}
    OBVIOUS
  <2> HIDE DEF verified, both
  <2>3. S!ChosenHome(s) = row.home
    BY <1>1, <2>1 DEF S!ChosenHome, S!Settings
  <2>4. S!Synced(job) = [row EXCEPT !.conn = job.value, !.secret = job.value, !.verified = verified]
    BY <1>1, <2>1, <2>3 DEF S!Synced, S!Settings
  <2>5. S!Asked(job) = [row EXCEPT !.conn = job.value, !.secret = job.value, !.verified = verified]
    <3>1. S!Asked(job) = [s EXCEPT !.legacy = s.home]
      BY <1>3, <1>8
    <3>2. s.home = row.home /\ s.legacy = row.legacy
      BY <2>1 DEF S!Settings
    <3>3. [s EXCEPT !.legacy = s.legacy] = s
      BY <1>1 DEF S!Settings
    <3>4. QED
      BY <1>1, <2>1, <3>1, <3>2, <3>3
  <2>6. S!Written(S!Synced(job), job.kind) = S!Synced(job)
    BY <1>8, <2>4 DEF S!Written, S!Partial, S!Settings
  <2>7. S!Synced(job).verified = verified
    BY <2>4 DEF S!Settings
  <2>8. QED
    BY <1>8, <2>2, <2>4, <2>5, <2>6, <2>7
<1>9. CASE job.kind = "record"
  <2> DEFINE verified == IF job.value = 1 THEN S!Connection(row) ELSE S!Unverified
  <2>1. s = [row EXCEPT !.verified = verified]
    BY <1>9 DEF S!Edited
  <2>2. verified \in tested \cup {S!Unverified}
    BY <1>9
  <2> HIDE DEF verified
  <2>3. S!ChosenHome(s) = row.home
    BY <1>1, <2>1 DEF S!ChosenHome, S!Settings
  <2>4. S!Synced(job) = [row EXCEPT !.verified = verified]
    BY <1>1, <2>1, <2>3 DEF S!Synced, S!Settings
  <2>5. S!Asked(job) = [row EXCEPT !.verified = verified]
    BY <1>1, <1>3, <1>9, <2>1 DEF S!Settings
  <2>6. S!Written(S!Synced(job), job.kind) = S!Synced(job)
    BY <1>9, <2>4 DEF S!Written, S!Partial, S!Settings
  <2>7. S!Synced(job).verified = verified /\ S!Connection(S!Synced(job)) = S!Connection(row)
    BY <2>4 DEF S!Settings, S!Connection
  <2>8. QED
    BY <2>2, <2>4, <2>5, <2>6, <2>7
<1>10. CASE job.kind = "revert"
  <2>1. S!Last(snapshots) \in S!Export
    BY <1>10 DEF S!Last
  <2>2. s = S!Restored(row, S!Last(snapshots))
    BY <1>10 DEF S!Edited
  <2>3. /\ s.home = S!Last(snapshots).home /\ s.legacy = S!Last(snapshots).legacy
        /\ s.verified = S!Unverified
    BY <2>1, <2>2, RestoredIs
  <2>4. S!ChosenHome(s) = s.home /\ s.home = s.legacy
    BY <1>10, <2>3 DEF S!ChosenHome
  <2>5. S!Synced(job) = s
    BY <1>1, <2>4 DEF S!Synced, S!Settings
  <2>6. S!Asked(job) = s
    <3>1. S!Reverted(S!Last(replaced)) = S!Restored(wanted, S!Exported(S!Last(replaced)))
      BY <1>10, RevertedIs
    <3>2. QED
      BY <1>3, <1>10, <2>2, <3>1
  <2>7. S!Written(S!Synced(job), job.kind) = S!Synced(job)
    BY <1>10 DEF S!Written, S!Partial
  <2>8. QED
    BY <1>10, <2>3, <2>5, <2>6, <2>7
<1>11. QED
  BY <1>4, <1>5, <1>6, <1>7, <1>8, <1>9, <1>10 DEF Saving, S!Whole, S!Partial, S!Locking

LEMMA StoreInit == ASSUME StoreConstants PROVE S!Init => StoreInv
<1> SUFFICES ASSUME S!Init PROVE StoreInv
  OBVIOUS
<1>1. /\ row = S!Default /\ cached = S!Missing /\ wanted = S!Default /\ lock = S!Nobody /\ snapshots = <<>>
      /\ replaced = <<>> /\ started = 0 /\ tested = {} /\ overlapped = FALSE
      /\ \A r \in S!Requests : jobs[r] = S!Off
      /\ jobs \in [S!Requests -> S!Job]
  BY DefaultIs DEF S!Init
<1>2. Importing = {} /\ Cardinality(Importing) = 0
  <2>1. Importing = {}
    BY <1>1, DefaultIs DEF Importing, S!Active
  <2>2. QED
    BY <2>1, FS_EmptySet
<1>3. snapshots \in Seq(S!Export) /\ replaced \in Seq(S!Settings) /\ Len(snapshots) = 0 /\ Len(replaced) = 0
      /\ DOMAIN snapshots = {}
  BY <1>1
<1>4. S!StoreTypeOK
  <2>1. started \in 0..MaxRequests /\ tested \subseteq S!Values \X S!Values /\ Len(snapshots) <= MaxRequests
    BY <1>1, <1>3 DEF StoreConstants
  <2>2. row \in S!Settings /\ cached \in S!Settings \cup {S!Missing} /\ wanted \in S!Settings
    BY <1>1, DefaultIs
  <2>3. overlapped \in BOOLEAN
    BY DEF S!Init
  <2>4. QED
    BY <1>1, <1>3, <2>1, <2>2, <2>3 DEF S!StoreTypeOK
<1>5. LocksAreHeld /\ ImportsAreRequests
  BY <1>1, <1>2, <1>3, DefaultIs DEF LocksAreHeld, Locked, S!At, ImportsAreRequests
<1>6. AllInStep
  BY <1>1, <1>3, DefaultIs DEF AllInStep
<1>7. OneAtATime
  BY <1>1, <1>3, DefaultIs DEF OneAtATime, Verified, S!Active
<1>8. QED
  BY <1>4, <1>5, <1>6, <1>7 DEF StoreInv, StoreTypes

LEMMA StoreTypesAre ==
  ASSUME StoreConstants
  PROVE
  /\ S!StoreTypeOK <=>
       /\ row \in S!Settings /\ cached \in S!Settings \cup {S!Missing} /\ wanted \in S!Settings
       /\ jobs \in [S!Requests -> S!Job] /\ lock \in S!Requests \cup {S!Nobody}
       /\ snapshots \in Seq(S!Export) /\ replaced \in Seq(S!Settings) /\ Len(snapshots) <= MaxRequests
       /\ started \in 0..MaxRequests /\ tested \subseteq S!Values \X S!Values /\ overlapped \in BOOLEAN
  /\ S!StoreTypeOK' <=>
       /\ row' \in S!Settings /\ cached' \in S!Settings \cup {S!Missing} /\ wanted' \in S!Settings
       /\ jobs' \in [S!Requests -> S!Job] /\ lock' \in S!Requests \cup {S!Nobody}
       /\ snapshots' \in Seq(S!Export) /\ replaced' \in Seq(S!Settings) /\ Len(snapshots') <= MaxRequests
       /\ started' \in 0..MaxRequests /\ tested' \subseteq S!Values \X S!Values /\ overlapped' \in BOOLEAN
BY DEF S!StoreTypeOK

(* A request that moves on with an instance, and one that ends.            *)
LEMMA Stepped ==
  ASSUME jobs \in [S!Requests -> S!Job], NEW r \in S!Requests, NEW held \in S!Settings,
         NEW at \in {"off", "load", "fill", "act", "saved", "lock", "locked", "commit"}, S!Step(r, at, held)
  PROVE  /\ jobs' \in [S!Requests -> S!Job] /\ jobs'[r].at = at /\ jobs'[r].held = held
         /\ jobs'[r].kind = jobs[r].kind /\ jobs'[r].value = jobs[r].value
         /\ \A q \in S!Requests : q # r => jobs'[q] = jobs[q]
<1>1. jobs' = [jobs EXCEPT ![r] = [[jobs[r] EXCEPT !.at = at] EXCEPT !.held = held]] /\ jobs[r] \in S!Job
  BY DEF S!Step
<1>2. jobs'[r] = [[jobs[r] EXCEPT !.at = at] EXCEPT !.held = held]
  BY <1>1
<1>3. jobs'[r] \in S!Job /\ jobs'[r].at = at /\ jobs'[r].held = held
      /\ jobs'[r].kind = jobs[r].kind /\ jobs'[r].value = jobs[r].value
  BY <1>1, <1>2 DEF S!Job
<1>4. QED
  BY <1>1, <1>3

LEMMA JobDone ==
  ASSUME jobs \in [S!Requests -> S!Job], NEW r \in S!Requests, jobs' = [jobs EXCEPT ![r] = S!Off]
  PROVE  /\ jobs' \in [S!Requests -> S!Job] /\ jobs'[r] = S!Off /\ jobs'[r].at = "off"
         /\ \A q \in S!Requests : q # r => jobs'[q] = jobs[q]
BY DefaultIs

LEMMA OneMore ==
  ASSUME NEW T, IsFiniteSet(T), NEW x
  PROVE  /\ IsFiniteSet(T \cup {x}) /\ Cardinality(T \cup {x}) \in Nat
         /\ Cardinality(T \cup {x}) <= Cardinality(T) + 1
<1>1. Cardinality(T) \in Nat
  BY FS_CardinalityType
<1>2. IsFiniteSet(T \cup {x}) /\ Cardinality(T \cup {x}) = IF x \in T THEN Cardinality(T) ELSE Cardinality(T) + 1
  BY FS_AddElement
<1>3. QED
  BY <1>1, <1>2

(* Imports in progress are counted as requests.                            *)
LEMMA ImportsAre ==
  ASSUME StoreConstants
  PROVE  /\ IsFiniteSet(Importing) /\ Cardinality(Importing) \in Nat
         /\ IsFiniteSet(Importing') /\ Cardinality(Importing') \in Nat
         /\ Importing' \subseteq Importing => Cardinality(Importing') <= Cardinality(Importing)
         /\ \A r \in S!Requests : Importing' \subseteq Importing \cup {r} =>
              Cardinality(Importing') <= Cardinality(Importing) + 1
         /\ \A r \in Importing : Importing' \subseteq Importing \ {r} =>
              Cardinality(Importing') + 1 <= Cardinality(Importing)
<1>1. IsFiniteSet(S!Requests)
  BY FS_Interval DEF StoreConstants, S!Requests
<1>2. IsFiniteSet(Importing) /\ IsFiniteSet(Importing')
  BY <1>1, FS_Subset DEF Importing
<1>3. Cardinality(Importing) \in Nat /\ Cardinality(Importing') \in Nat
  BY <1>2, FS_CardinalityType
<1>4. Importing' \subseteq Importing => Cardinality(Importing') <= Cardinality(Importing)
  BY <1>2, FS_Subset
<1>5. ASSUME NEW r \in S!Requests, Importing' \subseteq Importing \cup {r}
      PROVE  Cardinality(Importing') <= Cardinality(Importing) + 1
  <2>1. IsFiniteSet(Importing \cup {r}) /\ Cardinality(Importing \cup {r}) \in Nat
        /\ Cardinality(Importing \cup {r}) <= Cardinality(Importing) + 1
    BY <1>2, OneMore
  <2>2. Cardinality(Importing') <= Cardinality(Importing \cup {r})
    BY <1>5, <2>1, FS_Subset
  <2>3. QED
    BY <1>3, <2>1, <2>2
<1>6. ASSUME NEW r \in Importing, Importing' \subseteq Importing \ {r}
      PROVE  Cardinality(Importing') + 1 <= Cardinality(Importing)
  <2>1. IsFiniteSet(Importing \ {r}) /\ Cardinality(Importing \ {r}) = Cardinality(Importing) - 1
    BY <1>2, FS_RemoveElement
  <2>2. Cardinality(Importing') <= Cardinality(Importing \ {r})
    BY <1>6, <2>1, FS_Subset
  <2>3. QED
    BY <1>3, <2>1, <2>2
<1>7. QED
  BY <1>2, <1>3, <1>4, <1>5, <1>6

(* The types: by the actions, each of which moves one request.             *)
LEMMA StartTypes ==
  ASSUME StoreConstants, StoreTypes, NEW r \in S!Requests, NEW kind \in S!Kinds, NEW value \in S!Values,
         S!Start(r, kind, value)
  PROVE  StoreTypes'
<1> DEFINE job == [kind |-> kind, value |-> value, held |-> S!Default,
                   at |-> IF kind \in S!Locking THEN "lock" ELSE "load"]
<1>1. /\ row \in S!Settings /\ cached \in S!Settings \cup {S!Missing} /\ wanted \in S!Settings
      /\ jobs \in [S!Requests -> S!Job] /\ lock \in S!Requests \cup {S!Nobody}
      /\ snapshots \in Seq(S!Export) /\ replaced \in Seq(S!Settings) /\ Len(snapshots) <= MaxRequests
      /\ started \in 0..MaxRequests /\ tested \subseteq S!Values \X S!Values /\ overlapped \in BOOLEAN
  BY StoreTypesAre DEF StoreTypes
<1>2. /\ jobs' = [jobs EXCEPT ![r] = job] /\ ~S!Active(r) /\ started' = started + 1 /\ started < MaxRequests
      /\ UNCHANGED <<row, cached, lock, snapshots>>
      /\ S!Disturb \/ UNCHANGED S!account
  BY DEF S!Start
<1>3. job \in S!Job /\ ~(job.at \in {"locked", "commit"}) /\ (job.at = "lock" => job.kind \in S!Locking)
  BY DefaultIs DEF S!Job
<1> HIDE DEF job
<1>4. jobs' \in [S!Requests -> S!Job] /\ jobs'[r] = job /\ \A q \in S!Requests : q # r => jobs'[q] = jobs[q]
  BY <1>1, <1>2, <1>3
<1>5. wanted' \in S!Settings /\ replaced' \in Seq(S!Settings) /\ tested' \subseteq S!Values \X S!Values /\ overlapped' \in BOOLEAN
  <2>1. CASE S!Disturb
    <3>1. replaced' = <<>> /\ wanted' = S!Default /\ tested' = {}
      BY <2>1 DEF S!Disturb
    <3>2. overlapped' \in BOOLEAN
      BY <2>1 DEF S!Disturb
    <3>3. <<>> \in Seq(S!Settings)
      OBVIOUS
    <3>4. QED
      BY <3>1, <3>2, <3>3, DefaultIs
  <2>2. CASE UNCHANGED S!account
    BY <1>1, <2>2 DEF S!account
  <2>3. QED
    BY <1>2, <2>1, <2>2
<1>6. started' \in 0..MaxRequests
  BY <1>1, <1>2 DEF StoreConstants
<1>7. S!StoreTypeOK'
  BY <1>1, <1>2, <1>4, <1>5, <1>6, StoreTypesAre
<1>8. LocksAreHeld'
  BY <1>2, <1>3, <1>4 DEF StoreTypes, LocksAreHeld, Locked, S!At
<1>9. ImportsAreRequests'
  <2>1. Importing' \subseteq Importing \cup {r}
    BY <1>4 DEF Importing, S!Active
  <2>2. Cardinality(Importing') <= Cardinality(Importing) + 1
        /\ Cardinality(Importing) \in Nat /\ Cardinality(Importing') \in Nat
    BY <2>1, ImportsAre
  <2>3. QED
    BY <1>1, <1>2, <2>2 DEF StoreTypes, ImportsAreRequests
<1>10. QED
  BY <1>7, <1>8, <1>9 DEF StoreTypes

(* A request that holds an instance, read from the row or the cache.       *)
LEMMA HoldTypes ==
  ASSUME StoreConstants, StoreTypes, NEW r \in S!Requests, S!Load(r) \/ S!Fill(r) \/ S!Lock(r)
  PROVE  StoreTypes'
<1>1. /\ row \in S!Settings /\ cached \in S!Settings \cup {S!Missing} /\ wanted \in S!Settings
      /\ jobs \in [S!Requests -> S!Job] /\ lock \in S!Requests \cup {S!Nobody}
      /\ snapshots \in Seq(S!Export) /\ replaced \in Seq(S!Settings) /\ Len(snapshots) <= MaxRequests
      /\ started \in 0..MaxRequests /\ tested \subseteq S!Values \X S!Values /\ overlapped \in BOOLEAN
      /\ jobs[r].held \in S!Settings
  BY StoreTypesAre DEF StoreTypes, S!Job
<1>2. PICK at \in {"act", "fill", "locked"}, held \in S!Settings : S!Step(r, at, held) /\ (at = "locked" <=> S!Lock(r))
  BY <1>1 DEF S!Load, S!Fill, S!Lock, S!At
<1>3. /\ jobs' \in [S!Requests -> S!Job] /\ jobs'[r].at = at /\ jobs'[r].held = held
      /\ jobs'[r].kind = jobs[r].kind /\ jobs'[r].value = jobs[r].value
      /\ \A q \in S!Requests : q # r => jobs'[q] = jobs[q]
  BY <1>1, <1>2, Stepped
<1>4. cached' \in S!Settings \cup {S!Missing} /\ lock' \in S!Requests \cup {S!Nobody}
      /\ UNCHANGED <<row, snapshots, started, wanted, replaced, tested, overlapped>>
  BY <1>1 DEF S!Load, S!Fill, S!Lock, S!account
<1>5. S!StoreTypeOK'
  BY <1>1, <1>3, <1>4, StoreTypesAre
<1>6. LocksAreHeld'
  <2>1. ASSUME NEW q \in S!Requests
        PROVE  /\ S!At(q, "lock")' \/ Locked(q)' => jobs'[q].kind \in S!Locking
               /\ Locked(q)' => lock' = q /\ (jobs'[q].kind = "revert" => snapshots' # <<>>)
    <3>1. CASE q = r
      BY <1>2, <1>3, <1>4, <3>1 DEF Locked, S!At, S!Lock, StoreTypes, LocksAreHeld
    <3>2. CASE q # r
      <4>1. jobs'[q] = jobs[q]
        BY <1>3, <3>2
      <4>2. Locked(q) => lock = q /\ q # S!Nobody
        BY DEF StoreTypes, LocksAreHeld, S!Requests, S!Nobody, StoreConstants
      <4>3. Locked(q) => UNCHANGED lock
        BY <4>2 DEF S!Load, S!Fill, S!Lock
      <4>4. QED
        BY <1>4, <4>1, <4>2, <4>3 DEF StoreTypes, LocksAreHeld, Locked, S!At
    <3>3. QED
      BY <3>1, <3>2
  <2>2. QED
    BY <2>1 DEF LocksAreHeld
<1>7. ImportsAreRequests'
  <2>1. Importing' \subseteq Importing
    BY <1>1, <1>3 DEF Importing, S!Active, S!Load, S!Fill, S!Lock, S!At
  <2>2. Cardinality(Importing') <= Cardinality(Importing)
        /\ Cardinality(Importing) \in Nat /\ Cardinality(Importing') \in Nat
    BY <2>1, ImportsAre
  <2>3. QED
    BY <1>1, <1>4, <2>2 DEF StoreTypes, ImportsAreRequests
<1>8. QED
  BY <1>5, <1>6, <1>7 DEF StoreTypes

LEMMA StoreTypesHold ==
  ASSUME StoreConstants, StoreTypes
  PROVE  /\ row \in S!Settings /\ cached \in S!Settings \cup {S!Missing} /\ wanted \in S!Settings
         /\ jobs \in [S!Requests -> S!Job] /\ lock \in S!Requests \cup {S!Nobody}
         /\ snapshots \in Seq(S!Export) /\ replaced \in Seq(S!Settings) /\ Len(snapshots) <= MaxRequests
         /\ started \in 0..MaxRequests /\ tested \subseteq S!Values \X S!Values /\ overlapped \in BOOLEAN
         /\ \A r \in S!Requests : /\ jobs[r] \in S!Job /\ jobs[r].held \in S!Settings /\ jobs[r].value \in S!Values
                                  /\ jobs[r].kind \in S!Kinds /\ r # S!Nobody
<1>1. \A r \in S!Requests : r # S!Nobody
  BY DEF S!Requests, S!Nobody, StoreConstants
<1>2. QED
  BY <1>1, StoreTypesAre DEF StoreTypes, S!Job

(* The locks and the count, when one request moves and the rows of         *)
(* snapshots stay.                                                         *)
LEMMA LocksStay ==
  ASSUME StoreConstants, StoreTypes, NEW r \in S!Requests, jobs' \in [S!Requests -> S!Job],
         \A q \in S!Requests : q # r => jobs'[q] = jobs[q],
         S!At(r, "lock")' \/ Locked(r)' => jobs'[r].kind \in S!Locking,
         Locked(r)' => lock' = r /\ (jobs'[r].kind = "revert" => snapshots # <<>>),
         lock' = lock \/ lock \in {r, S!Nobody}, snapshots' = snapshots,
         S!Active(r)' /\ jobs'[r].kind = "apply" => S!Active(r) /\ jobs[r].kind = "apply", started' = started
  PROVE  LocksAreHeld' /\ ImportsAreRequests'
<1>1. LocksAreHeld'
  <2>1. ASSUME NEW q \in S!Requests
        PROVE  /\ S!At(q, "lock")' \/ Locked(q)' => jobs'[q].kind \in S!Locking
               /\ Locked(q)' => lock' = q /\ (jobs'[q].kind = "revert" => snapshots' # <<>>)
    <3>1. CASE q = r
      BY <3>1
    <3>2. CASE q # r
      <4>1. jobs'[q] = jobs[q]
        BY <3>2
      <4>2. Locked(q) => lock = q /\ q # S!Nobody
        BY StoreTypesHold DEF StoreTypes, LocksAreHeld
      <4>3. QED
        BY <3>2, <4>1, <4>2 DEF StoreTypes, LocksAreHeld, Locked, S!At
    <3>3. QED
      BY <3>1, <3>2
  <2>2. QED
    BY <2>1 DEF LocksAreHeld
<1>2. ImportsAreRequests'
  <2>1. Importing' \subseteq Importing
    BY DEF Importing, S!Active
  <2>2. Cardinality(Importing') <= Cardinality(Importing)
        /\ Cardinality(Importing) \in Nat /\ Cardinality(Importing') \in Nat
    BY <2>1, ImportsAre
  <2>3. Len(snapshots) \in Nat /\ started \in Nat
    BY StoreTypesHold DEF StoreConstants
  <2>4. QED
    BY <2>2, <2>3 DEF StoreTypes, ImportsAreRequests
<1>3. QED
  BY <1>1, <1>2

LEMMA EndTypes ==
  ASSUME StoreConstants, StoreTypes, NEW r \in S!Requests,
         S!Answered(r) \/ S!NothingToRevert(r) \/ S!Refresh(r) \/ S!Die(r)
  PROVE  StoreTypes'
<1>1. /\ row \in S!Settings /\ cached \in S!Settings \cup {S!Missing} /\ wanted \in S!Settings
      /\ jobs \in [S!Requests -> S!Job] /\ lock \in S!Requests \cup {S!Nobody}
      /\ snapshots \in Seq(S!Export) /\ replaced \in Seq(S!Settings) /\ Len(snapshots) <= MaxRequests
      /\ started \in 0..MaxRequests /\ tested \subseteq S!Values \X S!Values /\ overlapped \in BOOLEAN
      /\ jobs[r].held \in S!Settings
  BY StoreTypesHold
<1>2. jobs' = [jobs EXCEPT ![r] = S!Off] /\ UNCHANGED <<row, snapshots, started>>
      /\ cached' \in {cached, jobs[r].held} /\ (lock' = lock \/ (lock = r /\ lock' = S!Nobody))
      /\ (S!Disturb \/ UNCHANGED S!account)
  BY DEF S!Answered, S!NothingToRevert, S!Refresh, S!Die
<1>3. /\ jobs' \in [S!Requests -> S!Job] /\ jobs'[r].at = "off" /\ \A q \in S!Requests : q # r => jobs'[q] = jobs[q]
  BY <1>1, <1>2, JobDone
<1>4. wanted' \in S!Settings /\ replaced' \in Seq(S!Settings) /\ tested' \subseteq S!Values \X S!Values /\ overlapped' \in BOOLEAN
  <2>1. CASE S!Disturb
    <3>1. replaced' = <<>> /\ wanted' = S!Default /\ tested' = {}
      BY <2>1 DEF S!Disturb
    <3>2. overlapped' \in BOOLEAN
      BY <2>1 DEF S!Disturb
    <3>3. <<>> \in Seq(S!Settings)
      OBVIOUS
    <3>4. QED
      BY <3>1, <3>2, <3>3, DefaultIs
  <2>2. CASE UNCHANGED S!account
    BY <1>1, <2>2 DEF S!account
  <2>3. QED
    BY <1>2, <2>1, <2>2
<1>5. S!StoreTypeOK'
  BY <1>1, <1>2, <1>3, <1>4, StoreTypesAre
<1>6. LocksAreHeld' /\ ImportsAreRequests'
  BY <1>2, <1>3, LocksStay DEF Locked, S!At, S!Active
<1>7. QED
  BY <1>5, <1>6 DEF StoreTypes

LEMMA TestTypes ==
  ASSUME StoreConstants, StoreTypes, NEW r \in S!Requests, S!SendTest(r)
  PROVE  StoreTypes'
<1>1. /\ row \in S!Settings /\ cached \in S!Settings \cup {S!Missing} /\ wanted \in S!Settings
      /\ jobs \in [S!Requests -> S!Job] /\ lock \in S!Requests \cup {S!Nobody}
      /\ snapshots \in Seq(S!Export) /\ replaced \in Seq(S!Settings) /\ Len(snapshots) <= MaxRequests
      /\ started \in 0..MaxRequests /\ tested \subseteq S!Values \X S!Values /\ overlapped \in BOOLEAN
      /\ jobs[r].held \in S!Settings /\ jobs[r] \in S!Job
  BY StoreTypesHold
<1>2. jobs' = [jobs EXCEPT ![r] = [[jobs[r] EXCEPT !.kind = "record"] EXCEPT !.at = "load"]]
  BY <1>1 DEF S!SendTest
<1>3. [[jobs[r] EXCEPT !.kind = "record"] EXCEPT !.at = "load"] \in S!Job
  BY <1>1 DEF S!Job, S!Kinds, S!Partial
<1>4. /\ jobs' \in [S!Requests -> S!Job] /\ jobs'[r].at = "load" /\ jobs'[r].kind = "record"
      /\ \A q \in S!Requests : q # r => jobs'[q] = jobs[q]
  BY <1>1, <1>2, <1>3 DEF S!Job
<1>5. tested' \subseteq S!Values \X S!Values
  <2>1. S!Connection(jobs[r].held) \in S!Values \X S!Values
    BY <1>1, FieldsAre
  <2>2. QED
    BY <1>1, <2>1 DEF S!SendTest
<1>6. UNCHANGED <<row, cached, lock, snapshots, started, wanted, replaced, overlapped>>
  BY DEF S!SendTest
<1>7. S!StoreTypeOK'
  BY <1>1, <1>4, <1>5, <1>6, StoreTypesAre
<1>8. LocksAreHeld' /\ ImportsAreRequests'
  BY <1>4, <1>6, LocksStay DEF Locked, S!At, S!Active
<1>9. QED
  BY <1>7, <1>8 DEF StoreTypes

LEMMA AccountTypes ==
  ASSUME StoreConstants, StoreTypes, NEW r \in S!Requests, jobs[r].kind \in Saving, S!Account(S!Asked(jobs[r])),
         jobs[r].kind = "revert" => snapshots # <<>> /\ (~overlapped => replaced # <<>>)
  PROVE  wanted' \in S!Settings
<1>1. CASE overlapped
  BY <1>1, DefaultIs DEF S!Account
<1>2. CASE ~overlapped
  BY <1>2, StoreTypesHold, AskedIs DEF S!Account
<1>3. QED
  BY <1>1, <1>2

LEMMA SaveTypes ==
  ASSUME StoreConstants, StoreTypes, S!InStep(row), NEW r \in S!Requests, S!Save(r) \/ S!SaveLocked(r)
  PROVE  StoreTypes'
<1>1. /\ row \in S!Settings /\ cached \in S!Settings \cup {S!Missing} /\ wanted \in S!Settings
      /\ jobs \in [S!Requests -> S!Job] /\ lock \in S!Requests \cup {S!Nobody}
      /\ snapshots \in Seq(S!Export) /\ replaced \in Seq(S!Settings) /\ Len(snapshots) <= MaxRequests
      /\ started \in 0..MaxRequests /\ tested \subseteq S!Values \X S!Values /\ overlapped \in BOOLEAN
      /\ jobs[r] \in S!Job
  BY StoreTypesHold
<1>2. /\ jobs[r].kind \in Saving /\ (jobs[r].kind = "revert" => snapshots # <<>>)
      /\ S!SaveLocked(r) => jobs[r].kind \in S!Locking /\ lock = r
      /\ S!Save(r) => jobs[r].kind \notin S!Locking
  BY DEF S!Save, S!SaveLocked, Saving, S!Whole, S!Partial, S!Locking, StoreTypes, LocksAreHeld, Locked, S!At
<1>3. S!Synced(jobs[r]) \in S!Settings /\ S!InStep(S!Synced(jobs[r]))
  BY <1>1, <1>2, SyncedIs
<1>4. S!Written(S!Synced(jobs[r]), jobs[r].kind) \in S!Settings
  BY <1>1, <1>3, WrittenIs
<1>5. PICK at \in {"saved", "commit"} : S!Step(r, at, S!Synced(jobs[r])) /\ (at = "commit" <=> S!SaveLocked(r))
  BY DEF S!Save, S!SaveLocked, S!At
<1>6. /\ jobs' \in [S!Requests -> S!Job] /\ jobs'[r].at = at /\ jobs'[r].kind = jobs[r].kind
      /\ \A q \in S!Requests : q # r => jobs'[q] = jobs[q]
  BY <1>1, <1>3, <1>5, Stepped
<1>7. row' \in S!Settings /\ cached' \in S!Settings \cup {S!Missing} /\ wanted' \in S!Settings
  <2>1. CASE S!Save(r)
    <3>1. row' = S!Written(S!Synced(jobs[r]), jobs[r].kind) /\ S!Account(S!Asked(jobs[r])) /\ UNCHANGED cached
          /\ jobs[r].kind # "revert"
      BY <2>1 DEF S!Save, S!Whole, S!Partial
    <3>2. QED
      BY <1>1, <1>2, <1>4, <3>1, AccountTypes
  <2>2. CASE S!SaveLocked(r)
    BY <1>1, <1>3, <2>2 DEF S!SaveLocked, S!account
  <2>3. QED
    BY <2>1, <2>2
<1>8. UNCHANGED <<lock, snapshots, started, replaced, tested, overlapped>>
  BY DEF S!Save, S!SaveLocked, S!account
<1>9. S!StoreTypeOK'
  BY <1>1, <1>6, <1>7, <1>8, StoreTypesAre
<1>10. LocksAreHeld' /\ ImportsAreRequests'
  <2>1. S!Active(r)
    BY DEF S!Save, S!SaveLocked, S!Active, S!At
  <2>2. /\ S!At(r, "lock")' \/ Locked(r)' => jobs'[r].kind \in S!Locking
        /\ Locked(r)' => lock' = r /\ (jobs'[r].kind = "revert" => snapshots # <<>>)
    BY <1>2, <1>5, <1>6, <1>8 DEF Locked, S!At
  <2>3. QED
    BY <1>6, <1>8, <2>1, <2>2, LocksStay
<1>11. QED
  BY <1>9, <1>10 DEF StoreTypes

LEMMA ExpireTypes == ASSUME StoreConstants, StoreTypes, S!Expire PROVE StoreTypes'
<1>1. cached' = S!Missing /\ UNCHANGED <<row, jobs, lock, snapshots, started, wanted, replaced, tested, overlapped>>
  BY DEF S!Expire, S!account
<1>2. S!StoreTypeOK'
  BY <1>1, StoreTypesHold, StoreTypesAre
<1>3. LocksAreHeld' /\ ImportsAreRequests'
  BY <1>1 DEF StoreTypes, LocksAreHeld, Locked, S!At, ImportsAreRequests, Importing, S!Active
<1>4. QED
  BY <1>2, <1>3 DEF StoreTypes

LEMMA FrontIs ==
  ASSUME NEW T, NEW s \in Seq(T), s # <<>>
  PROVE  /\ S!Front(s) \in Seq(T) /\ Len(S!Front(s)) = Len(s) - 1 /\ Len(s) \in Nat \ {0}
         /\ \A i \in 1..(Len(s) - 1) : S!Front(s)[i] = s[i]
<1>1. PICK n \in Nat : n = Len(s) - 1 /\ Len(s) = n + 1
  <2>1. Len(s) \in Nat /\ Len(s) # 0
    OBVIOUS
  <2>2. Len(s) - 1 \in Nat /\ Len(s) = (Len(s) - 1) + 1
    BY <2>1
  <2>3. QED
    BY <2>2
<1>2. S!Front(s) = SubSeq(s, 1, n)
  BY <1>1 DEF S!Front
<1>3. SubSeq(s, 1, n) = [i \in 1..n |-> s[i]]
  BY <1>1
<1>4. \A i \in 1..n : s[i] \in T
  BY <1>1
<1>5. [i \in 1..n |-> s[i]] \in Seq(T) /\ Len([i \in 1..n |-> s[i]]) = n
  BY <1>4
<1>6. QED
  BY <1>1, <1>2, <1>3, <1>5

(* A commit: the import whose snapshot is taken is in progress no longer.  *)
LEMMA CommitTypes ==
  ASSUME StoreConstants, StoreInv, NEW r \in S!Requests, S!Commit(r)
  PROVE  StoreTypes'
<1> DEFINE job == jobs[r]
<1>1. /\ row \in S!Settings /\ cached \in S!Settings \cup {S!Missing} /\ wanted \in S!Settings
      /\ jobs \in [S!Requests -> S!Job] /\ lock \in S!Requests \cup {S!Nobody}
      /\ snapshots \in Seq(S!Export) /\ replaced \in Seq(S!Settings) /\ Len(snapshots) <= MaxRequests
      /\ started \in 0..MaxRequests /\ tested \subseteq S!Values \X S!Values /\ overlapped \in BOOLEAN
      /\ job \in S!Job /\ job.held \in S!Settings /\ Len(snapshots) \in Nat /\ started \in Nat
  BY StoreTypesHold DEF StoreInv, StoreConstants
<1>2. /\ S!At(r, "commit") /\ lock' = S!Nobody
      /\ row' = S!Written(job.held, job.kind) /\ S!Account(S!Asked(job))
      /\ snapshots' = CASE job.kind = "apply" -> Append(snapshots, S!Taken)
                        [] job.kind = "revert" -> S!Front(snapshots)
                        [] OTHER -> snapshots
      /\ replaced' = IF overlapped THEN <<>>
                     ELSE CASE job.kind = "apply" -> Append(replaced, wanted)
                            [] job.kind = "revert" -> S!Front(replaced)
                            [] OTHER -> replaced
      /\ jobs' = [jobs EXCEPT ![r] = S!Off]
      /\ UNCHANGED <<cached, started, tested, overlapped>>
  BY DEF S!Commit
<1>3. /\ jobs' \in [S!Requests -> S!Job] /\ jobs'[r].at = "off" /\ \A q \in S!Requests : q # r => jobs'[q] = jobs[q]
  BY <1>1, <1>2, JobDone
<1>4. /\ lock = r /\ job.kind \in S!Locking /\ (job.kind = "revert" => snapshots # <<>>)
      /\ S!InStep(job.held) /\ S!InStep(row)
  BY <1>2 DEF StoreInv, StoreTypes, LocksAreHeld, Locked, S!At, AllInStep
<1>5. row' \in S!Settings
  BY <1>1, <1>2, <1>4, WrittenIs
<1>6. ~overlapped => Len(replaced) = Len(snapshots)
  BY DEF StoreInv, OneAtATime
<1>7. job.kind = "revert" /\ ~overlapped => replaced # <<>>
  BY <1>1, <1>4, <1>6
<1>8. wanted' \in S!Settings
  BY <1>2, <1>4, <1>7, AccountTypes DEF StoreInv, Saving
<1>9. S!Taken \in S!Export
  BY <1>1, FieldsAre DEF S!Taken
<1>10. snapshots' \in Seq(S!Export) /\ Len(snapshots') = CASE job.kind = "apply" -> Len(snapshots) + 1
                                                              [] job.kind = "revert" -> Len(snapshots) - 1
                                                              [] OTHER -> Len(snapshots)
  <2>1. CASE job.kind = "apply"
    BY <1>1, <1>2, <1>9, <2>1
  <2>2. CASE job.kind = "revert"
    <3>1. snapshots' = S!Front(snapshots) /\ snapshots # <<>>
      BY <1>2, <1>4, <2>2
    <3>2. QED
      BY <1>1, <2>2, <3>1, FrontIs
  <2>3. CASE job.kind \notin {"apply", "revert"}
    BY <1>1, <1>2, <2>3
  <2>4. QED
    BY <2>1, <2>2, <2>3
<1>11. replaced' \in Seq(S!Settings)
  <2>1. CASE overlapped
    BY <1>2, <2>1
  <2>2. CASE ~overlapped /\ job.kind = "apply"
    BY <1>1, <1>2, <2>2
  <2>3. CASE ~overlapped /\ job.kind = "revert"
    <3>1. replaced' = S!Front(replaced) /\ replaced # <<>>
      BY <1>2, <1>7, <2>3
    <3>2. QED
      BY <1>1, <3>1, FrontIs
  <2>4. CASE ~overlapped /\ job.kind \notin {"apply", "revert"}
    BY <1>1, <1>2, <2>4
  <2>5. QED
    BY <2>1, <2>2, <2>3, <2>4
<1>12. Len(snapshots) + Cardinality(Importing) <= started /\ Cardinality(Importing) \in Nat
       /\ Cardinality(Importing') \in Nat
  BY ImportsAre DEF StoreInv, StoreTypes, ImportsAreRequests
<1>13. ImportsAreRequests'
  <2>1. CASE job.kind = "apply"
    <3>1. r \in Importing /\ Importing' \subseteq Importing \ {r}
      BY <1>2, <1>3, <2>1 DEF Importing, S!Active, S!At
    <3>2. Cardinality(Importing') + 1 <= Cardinality(Importing)
      BY <3>1, ImportsAre
    <3>3. Len(snapshots') = Len(snapshots) + 1
      BY <1>10, <2>1
    <3>4. QED
      BY <1>1, <1>2, <1>12, <3>2, <3>3 DEF ImportsAreRequests
  <2>2. CASE job.kind # "apply"
    <3>1. Importing' \subseteq Importing
      BY <1>3 DEF Importing, S!Active
    <3>2. Cardinality(Importing') <= Cardinality(Importing)
      BY <3>1, ImportsAre
    <3>3. Len(snapshots') <= Len(snapshots) /\ Len(snapshots') \in Nat
      BY <1>1, <1>10, <2>2
    <3>4. QED
      BY <1>1, <1>2, <1>12, <3>2, <3>3 DEF ImportsAreRequests
  <2>3. QED
    BY <2>1, <2>2
<1>14. Len(snapshots') <= MaxRequests
  <2>1. Len(snapshots') \in Nat /\ started' \in 0..MaxRequests
    BY <1>1, <1>2, <1>10
  <2>2. QED
    BY <1>12, <1>13, <2>1 DEF ImportsAreRequests, StoreConstants
<1>15. S!StoreTypeOK'
  BY <1>1, <1>2, <1>3, <1>5, <1>8, <1>10, <1>11, <1>14, StoreTypesAre
<1>16. LocksAreHeld'
  <2>1. \A q \in S!Requests : ~Locked(q)'
    <3>1. \A q \in S!Requests : Locked(q) => lock = q
      BY DEF StoreInv, StoreTypes, LocksAreHeld
    <3>2. QED
      BY <1>3, <1>4, <3>1 DEF Locked
  <2>2. \A q \in S!Requests : S!At(q, "lock")' => jobs'[q].kind \in S!Locking
    BY <1>3 DEF S!At, StoreInv, StoreTypes, LocksAreHeld
  <2>3. QED
    BY <2>1, <2>2 DEF LocksAreHeld
<1>17. QED
  BY <1>13, <1>15, <1>16 DEF StoreTypes

LEMMA StoreTypesNext ==
  ASSUME StoreConstants, StoreInv, [S!Next]_S!store
  PROVE  StoreTypes'
<1>1. StoreTypes /\ S!InStep(row)
  BY DEF StoreInv, AllInStep
<1>2. CASE UNCHANGED S!store
  BY <1>1, <1>2 DEF S!store, S!account, StoreTypes, S!StoreTypeOK, LocksAreHeld, Locked, S!At, ImportsAreRequests,
     Importing, S!Active
<1>3. CASE S!Next
  BY <1>1, <1>3, StartTypes, HoldTypes, EndTypes, TestTypes, SaveTypes, ExpireTypes, CommitTypes
     DEF S!Next, S!Serving, S!Proceed
<1>4. QED
  BY <1>2, <1>3

(* One home page: what a step leaves in the row, the cache, the snapshots  *)
(* and in the instance of the request that moves.                          *)
LEMMA InStepMoves ==
  ASSUME AllInStep, NEW r \in S!Requests, \A q \in S!Requests : q # r => jobs'[q] = jobs[q],
         S!InStep(row'), S!InStep(cached'), \A i \in DOMAIN snapshots' : S!InStep(snapshots'[i]),
         jobs'[r].at \in {"fill", "saved", "commit"} => S!InStep(jobs'[r].held)
  PROVE  AllInStep'
BY DEF AllInStep, S!InStep

LEMMA LoadInStep ==
  ASSUME StoreConstants, StoreInv, NEW r \in S!Requests, S!Load(r) \/ S!Fill(r) \/ S!Lock(r) PROVE AllInStep'
<1>1. AllInStep /\ S!InStep(row) /\ S!InStep(cached) /\ \A i \in DOMAIN snapshots : S!InStep(snapshots[i])
  BY DEF StoreInv, AllInStep
<1>2. UNCHANGED <<row, snapshots>>
  BY DEF S!Load, S!Fill, S!Lock
<1>3. jobs[r].held \in S!Settings /\ row \in S!Settings /\ cached \in S!Settings \cup {S!Missing}
      /\ jobs \in [S!Requests -> S!Job]
  BY StoreTypesHold DEF StoreInv
<1>4. S!InStep(cached')
  <2>1. CASE S!Fill(r)
    BY <2>1 DEF S!Fill, S!At, StoreInv, AllInStep
  <2>2. CASE S!Load(r) \/ S!Lock(r)
    BY <1>1, <2>2 DEF S!Load, S!Lock
  <2>3. QED
    BY <2>1, <2>2
<1>5. PICK at \in {"act", "fill", "locked"}, held \in S!Settings : S!Step(r, at, held) /\ (at = "fill" => held = row)
  BY <1>3 DEF S!Load, S!Fill, S!Lock
<1>6. /\ jobs'[r].at = at /\ jobs'[r].held = held /\ \A q \in S!Requests : q # r => jobs'[q] = jobs[q]
  BY <1>3, <1>5, Stepped
<1>7. QED
  BY <1>1, <1>2, <1>4, <1>5, <1>6, InStepMoves

LEMMA QuietInStep ==
  ASSUME StoreConstants, StoreInv, NEW r \in S!Requests,
         \/ S!Answered(r) \/ S!NothingToRevert(r) \/ S!Refresh(r) \/ S!Die(r) \/ S!SendTest(r)
         \/ \E kind \in S!Kinds, value \in S!Values : S!Start(r, kind, value)
  PROVE  AllInStep'
<1>1. AllInStep /\ S!InStep(row) /\ S!InStep(cached) /\ \A i \in DOMAIN snapshots : S!InStep(snapshots[i])
  BY DEF StoreInv, AllInStep
<1>2. UNCHANGED <<row, snapshots>>
  BY DEF S!Answered, S!NothingToRevert, S!Refresh, S!Die, S!SendTest, S!Start
<1>3. jobs \in [S!Requests -> S!Job] /\ jobs[r] \in S!Job
  BY StoreTypesHold DEF StoreInv
<1>4. S!InStep(cached')
  <2>1. CASE S!Refresh(r)
    BY <2>1 DEF S!Refresh, S!At, StoreInv, AllInStep
  <2>2. CASE ~S!Refresh(r)
    BY <1>1, <2>2 DEF S!Answered, S!NothingToRevert, S!Die, S!SendTest, S!Start
  <2>3. QED
    BY <2>1, <2>2
<1>5. PICK job : jobs' = [jobs EXCEPT ![r] = job] /\ job.at \in {"off", "lock", "load"}
  <2>1. CASE S!SendTest(r)
    <3> DEFINE job == [[jobs[r] EXCEPT !.kind = "record"] EXCEPT !.at = "load"]
    <3>1. jobs' = [jobs EXCEPT ![r] = job]
      BY <1>3, <2>1 DEF S!SendTest
    <3>2. job.at = "load"
      BY <1>3 DEF S!Job
    <3>3. QED
      BY <3>1, <3>2
  <2>2. CASE \E kind \in S!Kinds, value \in S!Values : S!Start(r, kind, value)
    <3>1. PICK kind \in S!Kinds, value \in S!Values : S!Start(r, kind, value)
      BY <2>2
    <3> DEFINE job == [kind |-> kind, value |-> value, held |-> S!Default,
                       at |-> IF kind \in S!Locking THEN "lock" ELSE "load"]
    <3>2. jobs' = [jobs EXCEPT ![r] = job]
      BY <3>1 DEF S!Start
    <3>3. job.at \in {"lock", "load"}
      OBVIOUS
    <3>4. QED
      BY <3>2, <3>3
  <2>3. CASE S!Answered(r) \/ S!NothingToRevert(r) \/ S!Refresh(r) \/ S!Die(r)
    BY <2>3, DefaultIs DEF S!Answered, S!NothingToRevert, S!Refresh, S!Die
  <2>4. QED
    BY <2>1, <2>2, <2>3
<1>6. jobs'[r] = job /\ \A q \in S!Requests : q # r => jobs'[q] = jobs[q]
  BY <1>3, <1>5
<1>7. QED
  BY <1>1, <1>2, <1>4, <1>5, <1>6, InStepMoves

LEMMA SavesInStep ==
  ASSUME StoreConstants, StoreInv, NEW r \in S!Requests, S!Save(r) \/ S!SaveLocked(r) PROVE AllInStep'
<1>1. AllInStep /\ S!InStep(row) /\ S!InStep(cached) /\ \A i \in DOMAIN snapshots : S!InStep(snapshots[i])
  BY DEF StoreInv, AllInStep
<1>2. jobs \in [S!Requests -> S!Job] /\ jobs[r] \in S!Job /\ row \in S!Settings /\ snapshots \in Seq(S!Export)
  BY StoreTypesHold DEF StoreInv
<1>3. jobs[r].kind \in Saving /\ (jobs[r].kind = "revert" => snapshots # <<>>)
  BY DEF S!Save, S!SaveLocked, Saving, S!Whole, S!Partial, S!Locking, StoreInv, StoreTypes, LocksAreHeld, Locked, S!At
<1>4. S!Synced(jobs[r]) \in S!Settings /\ S!InStep(S!Synced(jobs[r]))
  BY <1>2, <1>3, SyncedIs
<1>5. S!InStep(S!Written(S!Synced(jobs[r]), jobs[r].kind))
  BY <1>1, <1>2, <1>4, WrittenIs
<1>6. S!InStep(row') /\ S!InStep(cached') /\ UNCHANGED snapshots
  BY <1>1, <1>4, <1>5 DEF S!Save, S!SaveLocked
<1>7. PICK at \in {"saved", "commit"} : S!Step(r, at, S!Synced(jobs[r]))
  BY DEF S!Save, S!SaveLocked
<1>8. jobs'[r].held = S!Synced(jobs[r]) /\ \A q \in S!Requests : q # r => jobs'[q] = jobs[q]
  BY <1>2, <1>4, <1>7, Stepped
<1>9. QED
  BY <1>1, <1>4, <1>6, <1>8, InStepMoves

LEMMA CommitInStep ==
  ASSUME StoreConstants, StoreInv, NEW r \in S!Requests, S!Commit(r) PROVE AllInStep'
<1> DEFINE job == jobs[r]
<1>1. AllInStep /\ S!InStep(row) /\ S!InStep(cached) /\ \A i \in DOMAIN snapshots : S!InStep(snapshots[i])
  BY DEF StoreInv, AllInStep
<1>2. jobs \in [S!Requests -> S!Job] /\ job.held \in S!Settings /\ row \in S!Settings /\ snapshots \in Seq(S!Export)
  BY StoreTypesHold DEF StoreInv
<1>3. S!InStep(job.held) /\ (job.kind = "revert" => snapshots # <<>>)
  BY DEF S!Commit, S!At, Locked, StoreInv, AllInStep, StoreTypes, LocksAreHeld
<1>4. S!InStep(row') /\ S!InStep(cached')
  BY <1>1, <1>2, <1>3, WrittenIs DEF S!Commit
<1>5. jobs'[r].at = "off" /\ \A q \in S!Requests : q # r => jobs'[q] = jobs[q]
  BY <1>2, JobDone DEF S!Commit
<1>6. \A i \in DOMAIN snapshots' : S!InStep(snapshots'[i])
  <2>1. CASE job.kind = "apply"
    <3>1. snapshots' = Append(snapshots, S!Taken)
      BY <2>1 DEF S!Commit
    <3>2. S!InStep(S!Taken)
      BY <1>1, <1>2 DEF S!Taken, S!Exported, S!InStep, S!Settings, S!Missing
    <3>3. \A i \in DOMAIN snapshots' : snapshots'[i] = S!Taken \/ (i \in DOMAIN snapshots /\ snapshots'[i] = snapshots[i])
      BY <1>2, <3>1
    <3>4. QED
      BY <1>1, <3>2, <3>3
  <2>2. CASE job.kind = "revert"
    <3>1. snapshots' = S!Front(snapshots)
      BY <2>2 DEF S!Commit
    <3>2. S!Front(snapshots) \in Seq(S!Export) /\ Len(S!Front(snapshots)) = Len(snapshots) - 1 /\ Len(snapshots) \in Nat
          /\ \A i \in 1..(Len(snapshots) - 1) : S!Front(snapshots)[i] = snapshots[i]
      BY <1>2, <1>3, <2>2, FrontIs
    <3>3. \A i \in DOMAIN snapshots' : i \in DOMAIN snapshots /\ snapshots'[i] = snapshots[i]
      BY <1>2, <3>1, <3>2
    <3>4. QED
      BY <1>1, <3>3
  <2>3. CASE job.kind \notin {"apply", "revert"}
    BY <1>1, <2>3 DEF S!Commit
  <2>4. QED
    BY <2>1, <2>2, <2>3
<1>7. QED
  BY <1>1, <1>4, <1>5, <1>6, InStepMoves

LEMMA AllInStepNext ==
  ASSUME StoreConstants, StoreInv, [S!Next]_S!store
  PROVE  AllInStep'
<1>1. CASE UNCHANGED S!store
  BY <1>1 DEF S!store, S!account, StoreInv, AllInStep
<1>2. CASE S!Expire
  BY <1>2, DefaultIs DEF S!Expire, StoreInv, AllInStep
<1>3. ASSUME NEW r \in S!Requests,
             S!Die(r) \/ S!Proceed(r) \/ \E kind \in S!Kinds \ {"record"}, value \in S!Values : S!Start(r, kind, value)
      PROVE  AllInStep'
  BY <1>3, LoadInStep, QuietInStep, SavesInStep, CommitInStep DEF S!Proceed
<1>4. QED
  BY <1>1, <1>2, <1>3 DEF S!Next, S!Serving

(* One request at a time: what a request finds, and what it has to leave.  *)
LockstepOf ==
  /\ Len(replaced) = Len(snapshots)
  /\ \A i \in DOMAIN snapshots : snapshots[i] = S!Exported(replaced[i])

LEMMA AloneFinds ==
  ASSUME StoreInv, ~overlapped, NEW r \in S!Requests, S!Active(r)
  PROVE  /\ row = wanted /\ Verified(row) /\ Serves(r) /\ LockstepOf
         /\ \A q \in S!Requests : q # r => ~S!Active(q)
BY DEF StoreInv, OneAtATime, LockstepOf

LEMMA AloneLeaves ==
  ASSUME NEW r \in S!Requests, \A q \in S!Requests : q # r => ~S!Active(q) /\ jobs'[q] = jobs[q],
         row' = wanted', Verified(row)', LockstepOf',
         ~S!Active(r)' => cached' \in {S!Missing, row'}, S!Active(r)' => Serves(r)'
  PROVE  OneAtATime'
<1>1. \A q \in S!Requests : q # r => ~S!Active(q)'
  BY DEF S!Active
<1>2. (\A q \in S!Requests : ~S!Active(q)') => cached' \in {S!Missing, row'}
  OBVIOUS
<1>3. /\ \A q, p \in S!Requests : S!Active(q)' /\ S!Active(p)' => q = p
      /\ \A q \in S!Requests : S!Active(q)' => Serves(q)'
  BY <1>1
<1>4. QED
  BY <1>2, <1>3 DEF OneAtATime, LockstepOf

LEMMA LoadAlone ==
  ASSUME StoreConstants, StoreInv, ~overlapped, NEW r \in S!Requests, S!Load(r) \/ S!Fill(r) \/ S!Lock(r)
  PROVE  OneAtATime'
<1>1. S!Active(r)
  BY DEF S!Load, S!Fill, S!Lock, S!At, S!Active
<1>2. row = wanted /\ Verified(row) /\ Serves(r) /\ LockstepOf /\ \A q \in S!Requests : q # r => ~S!Active(q)
  BY <1>1, AloneFinds
<1>3. UNCHANGED <<row, snapshots, wanted, replaced, tested>>
  BY DEF S!Load, S!Fill, S!Lock, S!account
<1>4. row \in S!Settings /\ jobs \in [S!Requests -> S!Job]
  BY StoreTypesHold DEF StoreInv
<1>5. cached \in {S!Missing, row} /\ (S!At(r, "fill") => jobs[r].held = row)
  BY <1>2 DEF S!Load, S!Fill, S!Lock, S!At, Serves
<1>6. cached' \in {S!Missing, row} /\ \E at \in {"act", "fill", "locked"} : S!Step(r, at, row)
  BY <1>5 DEF S!Load, S!Fill, S!Lock
<1>7. PICK at \in {"act", "fill", "locked"} : S!Step(r, at, row)
  BY <1>6
<1>8. /\ jobs'[r].at = at /\ jobs'[r].held = row /\ jobs'[r].kind = jobs[r].kind /\ jobs'[r].value = jobs[r].value
      /\ \A q \in S!Requests : q # r => jobs'[q] = jobs[q]
  BY <1>4, <1>7, Stepped
<1>9. Serves(r)' /\ Verified(row)' /\ LockstepOf' /\ S!Active(r)'
  BY <1>2, <1>3, <1>6, <1>8 DEF Serves, Verified, LockstepOf, S!Active
<1>10. QED
  BY <1>2, <1>3, <1>8, <1>9, AloneLeaves

LEMMA EndAlone ==
  ASSUME StoreConstants, StoreInv, ~overlapped, NEW r \in S!Requests,
         S!Answered(r) \/ S!NothingToRevert(r) \/ S!Refresh(r)
  PROVE  OneAtATime'
<1>1. S!Active(r)
  BY DEF S!Answered, S!NothingToRevert, S!Refresh, S!At, S!Active
<1>2. row = wanted /\ Verified(row) /\ Serves(r) /\ LockstepOf /\ \A q \in S!Requests : q # r => ~S!Active(q)
  BY <1>1, AloneFinds
<1>3. UNCHANGED <<row, snapshots, wanted, replaced, tested>> /\ jobs' = [jobs EXCEPT ![r] = S!Off]
  BY DEF S!Answered, S!NothingToRevert, S!Refresh, S!account
<1>4. jobs'[r].at = "off" /\ \A q \in S!Requests : q # r => jobs'[q] = jobs[q]
  BY <1>3, StoreTypesHold, JobDone DEF StoreInv
<1>5. cached' \in {S!Missing, row'}
  BY <1>2, <1>3 DEF S!Answered, S!NothingToRevert, S!Refresh, S!At, Serves
<1>6. Verified(row)' /\ LockstepOf' /\ ~S!Active(r)'
  BY <1>2, <1>3, <1>4 DEF Verified, LockstepOf, S!Active
<1>7. QED
  BY <1>2, <1>3, <1>4, <1>5, <1>6, AloneLeaves

LEMMA TestAlone ==
  ASSUME StoreConstants, StoreInv, ~overlapped, NEW r \in S!Requests, S!SendTest(r)
  PROVE  OneAtATime'
<1>1. S!Active(r)
  BY DEF S!SendTest, S!At, S!Active
<1>2. row = wanted /\ Verified(row) /\ Serves(r) /\ LockstepOf /\ \A q \in S!Requests : q # r => ~S!Active(q)
  BY <1>1, AloneFinds
<1>3. UNCHANGED <<row, cached, snapshots, wanted, replaced>>
      /\ tested' = IF jobs[r].value = 1 THEN tested \cup {S!Connection(jobs[r].held)} ELSE tested
  BY DEF S!SendTest
<1>4. jobs \in [S!Requests -> S!Job] /\ jobs[r] \in S!Job
  BY StoreTypesHold DEF StoreInv
<1>5. jobs' = [jobs EXCEPT ![r] = [[jobs[r] EXCEPT !.kind = "record"] EXCEPT !.at = "load"]]
  BY <1>4 DEF S!SendTest
<1>6. jobs'[r].at = "load" /\ jobs'[r].value = jobs[r].value /\ \A q \in S!Requests : q # r => jobs'[q] = jobs[q]
  BY <1>4, <1>5 DEF S!Job
<1>7. jobs[r].held = row /\ cached \in {S!Missing, row}
  BY <1>2 DEF Serves, S!SendTest, S!At
<1>8. Verified(row)' /\ LockstepOf' /\ S!Active(r)'
  BY <1>2, <1>3, <1>6 DEF Verified, LockstepOf, S!Active
<1>9. Serves(r)'
  BY <1>3, <1>6, <1>7 DEF Serves
<1>10. QED
  BY <1>2, <1>3, <1>6, <1>8, <1>9, AloneLeaves

(* What a revert finds; what is asked for does not depend on the instance. *)
LEMMA RevertsTo ==
  ASSUME StoreConstants, StoreInv, LockstepOf, snapshots # <<>>
  PROVE  /\ S!Last(snapshots).home = S!Last(snapshots).legacy
         /\ S!Last(replaced) \in S!Settings
         /\ S!Last(snapshots) = S!Exported(S!Last(replaced))
<1>1. snapshots \in Seq(S!Export) /\ Len(snapshots) \in DOMAIN snapshots
  BY StoreTypesHold DEF StoreInv
<1>2. S!InStep(S!Last(snapshots)) /\ S!Last(snapshots) \in S!Export
  BY <1>1 DEF StoreInv, AllInStep, S!Last
<1>3. S!Last(snapshots) = S!Exported(S!Last(replaced))
  BY <1>1 DEF LockstepOf, S!Last
<1>4. S!Last(replaced) \in S!Settings
  <2>1. replaced \in Seq(S!Settings) /\ Len(replaced) \in DOMAIN replaced
    BY <1>1, StoreTypesHold DEF StoreInv, LockstepOf
  <2>2. QED
    BY <2>1 DEF S!Last
<1>5. QED
  BY <1>2, <1>3, <1>4, DefaultIs DEF S!InStep

LEMMA AskedAlike ==
  ASSUME NEW job \in S!Job, NEW other \in S!Job, job.kind = other.kind, job.value = other.value
  PROVE  S!Asked(job) = S!Asked(other)
<1>1. S!Edited([job EXCEPT !.held = wanted]) = S!Edited([other EXCEPT !.held = wanted])
  BY DEF S!Edited, S!WithMail, S!Restored, S!Connection, S!Job
<1>2. QED
  BY <1>1 DEF S!Asked

LEMMA SaveAlone ==
  ASSUME StoreConstants, StoreInv, ~overlapped, NEW r \in S!Requests, S!Save(r)
  PROVE  OneAtATime'
<1> DEFINE job == jobs[r]
<1>1. S!Active(r)
  BY DEF S!Save, S!At, S!Active
<1>2. row = wanted /\ Verified(row) /\ Serves(r) /\ LockstepOf /\ \A q \in S!Requests : q # r => ~S!Active(q)
  BY <1>1, AloneFinds
<1>3. /\ jobs \in [S!Requests -> S!Job] /\ job \in S!Job /\ row \in S!Settings /\ snapshots \in Seq(S!Export)
      /\ S!InStep(row) /\ job.kind \in Saving /\ job.kind # "revert" /\ job.at = "act"
  BY StoreTypesHold DEF StoreInv, AllInStep, S!Save, S!At, Saving, S!Whole, S!Partial
<1>4. job.held = row /\ (job.kind = "record" /\ job.value = 1 => S!Connection(row) \in tested)
  BY <1>2, <1>3 DEF Serves
<1>5. /\ S!Synced(job) = S!Asked(job) /\ S!Written(S!Synced(job), job.kind) = S!Synced(job)
      /\ S!Synced(job).verified \in tested \cup {S!Unverified}
      /\ job.kind = "record" => S!Connection(S!Synced(job)) = S!Connection(row)
  BY <1>2, <1>3, <1>4, SavedIsAsked DEF Verified
<1>6. /\ row' = S!Synced(job) /\ wanted' = S!Asked(job) /\ S!Step(r, "saved", S!Synced(job))
      /\ UNCHANGED <<snapshots, replaced, tested>>
  BY <1>5 DEF S!Save, S!Account
<1>7. S!Synced(job) \in S!Settings
  BY <1>3, SyncedIs
<1>8. /\ jobs'[r].at = "saved" /\ jobs'[r].held = S!Synced(job) /\ jobs'[r].kind = job.kind
      /\ jobs'[r].value = job.value /\ \A q \in S!Requests : q # r => jobs'[q] = jobs[q]
  BY <1>3, <1>6, <1>7, Stepped
<1>9. Verified(row)' /\ LockstepOf' /\ S!Active(r)' /\ row' = wanted'
  BY <1>2, <1>5, <1>6, <1>8 DEF Verified, LockstepOf, S!Active
<1>10. Serves(r)'
  BY <1>4, <1>5, <1>6, <1>8 DEF Serves
<1>11. QED
  BY <1>2, <1>8, <1>9, <1>10, AloneLeaves

LEMMA SaveLockedAlone ==
  ASSUME StoreConstants, StoreInv, ~overlapped, NEW r \in S!Requests, S!SaveLocked(r)
  PROVE  OneAtATime'
<1> DEFINE job == jobs[r]
<1>1. S!Active(r)
  BY DEF S!SaveLocked, S!At, S!Active
<1>2. row = wanted /\ Verified(row) /\ Serves(r) /\ LockstepOf /\ \A q \in S!Requests : q # r => ~S!Active(q)
  BY <1>1, AloneFinds
<1>3. /\ jobs \in [S!Requests -> S!Job] /\ job \in S!Job /\ row \in S!Settings /\ snapshots \in Seq(S!Export)
      /\ S!InStep(row) /\ job.kind \in S!Locking /\ (job.kind = "revert" => snapshots # <<>>) /\ job.at = "locked"
  BY StoreTypesHold DEF StoreInv, AllInStep, S!SaveLocked, S!At, StoreTypes, LocksAreHeld, Locked
<1>4. job.held = row /\ job.kind \in Saving /\ job.kind # "record"
  BY <1>2, <1>3 DEF Serves, Saving, S!Locking
<1>5. job.kind = "revert" => /\ snapshots # <<>> /\ S!Last(snapshots).home = S!Last(snapshots).legacy
                             /\ S!Last(replaced) \in S!Settings
                             /\ S!Last(snapshots) = S!Exported(S!Last(replaced))
  BY <1>2, <1>3, RevertsTo
<1>6. S!Synced(job) = S!Asked(job) /\ S!Synced(job).verified \in tested \cup {S!Unverified}
  BY <1>2, <1>3, <1>4, <1>5, SavedIsAsked DEF Verified
<1>7. cached' = S!Synced(job) /\ S!Step(r, "commit", S!Synced(job)) /\ UNCHANGED <<row, snapshots, wanted, replaced, tested>>
  BY DEF S!SaveLocked, S!account
<1>8. S!Synced(job) \in S!Settings
  BY <1>3, <1>4, SyncedIs
<1>9. /\ jobs' \in [S!Requests -> S!Job] /\ jobs'[r].at = "commit" /\ jobs'[r].held = S!Synced(job)
      /\ jobs'[r].kind = job.kind /\ jobs'[r].value = job.value /\ \A q \in S!Requests : q # r => jobs'[q] = jobs[q]
  BY <1>3, <1>7, <1>8, Stepped
<1>10. S!Asked(jobs[r])' = S!Asked(job)
  <2>1. S!Asked(jobs'[r]) = S!Asked(job)
    BY <1>3, <1>9, AskedAlike
  <2>2. S!Edited([jobs[r] EXCEPT !.held = wanted])' = S!Edited([jobs'[r] EXCEPT !.held = wanted])
    BY <1>7 DEF S!Edited, S!WithMail, S!Restored, S!Connection
  <2>3. S!Asked(jobs[r])' = S!Asked(jobs'[r])
    BY <1>7, <2>2 DEF S!Asked, S!Reverted
  <2>4. QED
    BY <2>1, <2>3
<1>11. Verified(row)' /\ LockstepOf' /\ S!Active(r)' /\ row' = wanted'
  BY <1>2, <1>7, <1>9 DEF Verified, LockstepOf, S!Active
<1>12. Verified(jobs[r].held)'
  BY <1>6, <1>7, <1>9 DEF Verified
<1>13. Serves(r)'
  BY <1>4, <1>6, <1>7, <1>9, <1>10, <1>12 DEF Serves
<1>14. QED
  BY <1>2, <1>9, <1>11, <1>13, AloneLeaves

LEMMA CommitAlone ==
  ASSUME StoreConstants, StoreInv, ~overlapped, NEW r \in S!Requests, S!Commit(r)
  PROVE  OneAtATime'
<1> DEFINE job == jobs[r]
           asking == [job EXCEPT !.held = row]
<1>1. S!Active(r)
  BY DEF S!Commit, S!At, S!Active
<1>2. row = wanted /\ Verified(row) /\ Serves(r) /\ LockstepOf /\ \A q \in S!Requests : q # r => ~S!Active(q)
  BY <1>1, AloneFinds
<1>3. /\ jobs \in [S!Requests -> S!Job] /\ job \in S!Job /\ row \in S!Settings /\ snapshots \in Seq(S!Export)
      /\ replaced \in Seq(S!Settings) /\ wanted \in S!Settings
      /\ S!InStep(row) /\ job.kind \in S!Locking /\ (job.kind = "revert" => snapshots # <<>>) /\ job.at = "commit"
  BY StoreTypesHold DEF StoreInv, AllInStep, S!Commit, S!At, StoreTypes, LocksAreHeld, Locked
<1>4. /\ job.held = S!Asked(job) /\ Verified(job.held) /\ cached \in {S!Missing, job.held}
      /\ job.kind \in Saving /\ job.kind # "record"
  BY <1>2, <1>3 DEF Serves, Saving, S!Locking
<1>5. job.kind = "revert" => /\ snapshots # <<>> /\ S!Last(snapshots).home = S!Last(snapshots).legacy
                             /\ S!Last(replaced) \in S!Settings
                             /\ S!Last(snapshots) = S!Exported(S!Last(replaced))
  BY <1>2, <1>3, RevertsTo
<1>6. asking \in S!Job /\ asking.kind = job.kind /\ asking.value = job.value /\ asking.held = row
  BY <1>3 DEF S!Job
<1> HIDE DEF asking
<1>7. S!Synced(asking) = S!Asked(asking) /\ S!Written(S!Synced(asking), job.kind) = S!Synced(asking)
  BY <1>2, <1>3, <1>4, <1>5, <1>6, SavedIsAsked DEF Verified
<1>8. S!Written(job.held, job.kind) = job.held
  BY <1>3, <1>4, <1>6, <1>7, AskedAlike
<1>9. /\ row' = job.held /\ wanted' = job.held /\ UNCHANGED <<cached, tested>>
      /\ jobs' = [jobs EXCEPT ![r] = S!Off]
      /\ snapshots' = CASE job.kind = "apply" -> Append(snapshots, S!Taken)
                        [] job.kind = "revert" -> S!Front(snapshots)
                        [] OTHER -> snapshots
      /\ replaced' = CASE job.kind = "apply" -> Append(replaced, wanted)
                       [] job.kind = "revert" -> S!Front(replaced)
                       [] OTHER -> replaced
  BY <1>4, <1>8 DEF S!Commit, S!Account
<1>10. jobs'[r].at = "off" /\ \A q \in S!Requests : q # r => jobs'[q] = jobs[q]
  BY <1>3, <1>9, JobDone
<1>11. Len(replaced') = Len(snapshots')
       /\ \A i \in DOMAIN snapshots' : snapshots'[i] = S!Exported(replaced'[i])
  <2>1. CASE job.kind = "apply"
    <3>1. snapshots' = Append(snapshots, S!Taken) /\ replaced' = Append(replaced, row)
      BY <1>2, <1>9, <2>1
    <3>2. S!Taken = S!Exported(row)
      BY DEF S!Taken
    <3> DEFINE taken == S!Taken
    <3> HIDE DEF taken
    <3>3. /\ Len(Append(snapshots, taken)) = Len(snapshots) + 1 /\ Len(Append(replaced, row)) = Len(replaced) + 1
          /\ Append(snapshots, taken)[Len(snapshots) + 1] = taken
          /\ Append(replaced, row)[Len(replaced) + 1] = row
          /\ \A i \in 1..Len(snapshots) : Append(snapshots, taken)[i] = snapshots[i]
          /\ \A i \in 1..Len(replaced) : Append(replaced, row)[i] = replaced[i]
          /\ DOMAIN Append(snapshots, taken) = 1..(Len(snapshots) + 1)
          /\ DOMAIN snapshots = 1..Len(snapshots) /\ Len(snapshots) \in Nat
      BY <1>3
    <3>4. \A i \in 1..(Len(snapshots) + 1) : i \in 1..Len(snapshots) \/ i = Len(snapshots) + 1
      BY <3>3
    <3>5. taken = S!Exported(row)
      BY <3>2 DEF taken
    <3>6. snapshots' = Append(snapshots, taken)
      BY <3>1 DEF taken
    <3>7. Len(replaced) = Len(snapshots)
          /\ \A i \in 1..Len(snapshots) : snapshots[i] = S!Exported(replaced[i])
      BY <1>2, <3>3 DEF LockstepOf
    <3>8. \A i \in 1..(Len(snapshots) + 1) :
            Append(snapshots, taken)[i] = S!Exported(Append(replaced, row)[i])
      <4>1. ASSUME NEW i \in 1..Len(snapshots)
            PROVE  Append(snapshots, taken)[i] = S!Exported(Append(replaced, row)[i])
        BY <3>3, <3>7
      <4>2. Append(snapshots, taken)[Len(snapshots) + 1]
            = S!Exported(Append(replaced, row)[Len(snapshots) + 1])
        BY <3>3, <3>5, <3>7
      <4>3. QED
        BY <3>4, <4>1, <4>2
    <3>9. QED
      BY <3>1, <3>3, <3>6, <3>7, <3>8
  <2>2. CASE job.kind = "revert"
    <3>1. snapshots' = S!Front(snapshots) /\ replaced' = S!Front(replaced) /\ snapshots # <<>>
      BY <1>3, <1>9, <2>2
    <3>2. replaced # <<>> /\ Len(replaced) = Len(snapshots)
      BY <1>2, <1>3, <3>1 DEF LockstepOf
    <3>3. /\ S!Front(snapshots) \in Seq(S!Export) /\ Len(S!Front(snapshots)) = Len(snapshots) - 1
          /\ Len(snapshots) \in Nat \ {0}
          /\ \A i \in 1..(Len(snapshots) - 1) : S!Front(snapshots)[i] = snapshots[i]
      BY <1>3, <3>1, FrontIs
    <3>4. /\ Len(S!Front(replaced)) = Len(replaced) - 1
          /\ \A i \in 1..(Len(replaced) - 1) : S!Front(replaced)[i] = replaced[i]
      BY <1>3, <3>2, FrontIs
    <3>5. DOMAIN S!Front(snapshots) = 1..(Len(snapshots) - 1) /\ DOMAIN snapshots = 1..Len(snapshots)
      BY <1>3, <3>3
    <3>6. \A i \in 1..(Len(snapshots) - 1) : i \in 1..Len(snapshots)
      BY <3>3
    <3>7. QED
      BY <1>2, <3>1, <3>2, <3>3, <3>4, <3>5, <3>6 DEF LockstepOf
  <2>3. CASE job.kind \notin {"apply", "revert"}
    BY <1>2, <1>9, <2>3 DEF LockstepOf
  <2>4. QED
    BY <2>1, <2>2, <2>3
<1>12. Verified(row)' /\ LockstepOf' /\ ~S!Active(r)' /\ row' = wanted'
  BY <1>4, <1>9, <1>10, <1>11 DEF Verified, LockstepOf, S!Active
<1>13. QED
  BY <1>2, <1>4, <1>9, <1>10, <1>12, AloneLeaves

LEMMA StartAlone ==
  ASSUME StoreConstants, StoreInv, ~overlapped', NEW r \in S!Requests, NEW kind \in S!Kinds \ {"record"},
         NEW value \in S!Values, S!Start(r, kind, value)
  PROVE  OneAtATime'
<1> DEFINE job == [kind |-> kind, value |-> value, held |-> S!Default,
                   at |-> IF kind \in S!Locking THEN "lock" ELSE "load"]
<1>1. (\A q \in S!Requests : ~S!Active(q)) /\ UNCHANGED S!account /\ UNCHANGED <<row, cached, snapshots>>
      /\ jobs' = [jobs EXCEPT ![r] = job]
  BY DEF S!Start, S!Disturb
<1>2. ~overlapped
  BY <1>1 DEF S!account
<1>3. /\ row = wanted /\ Verified(row) /\ cached \in {S!Missing, row} /\ LockstepOf
  BY <1>1, <1>2 DEF StoreInv, OneAtATime, LockstepOf
<1>4. job.at \in {"lock", "load"} /\ job.kind # "record"
  OBVIOUS
<1> HIDE DEF job
<1>5. jobs'[r] = job /\ \A q \in S!Requests : q # r => jobs'[q] = jobs[q]
  BY <1>1, StoreTypesHold DEF StoreInv
<1>6. Verified(row)' /\ LockstepOf' /\ S!Active(r)' /\ row' = wanted'
  BY <1>1, <1>3, <1>4, <1>5 DEF Verified, LockstepOf, S!Active, S!account
<1>7. Serves(r)'
  BY <1>1, <1>3, <1>4, <1>5 DEF Serves
<1>8. QED
  BY <1>1, <1>5, <1>6, <1>7, AloneLeaves

(* A request goes on being served rightly while nothing but the cache      *)
(* moves, and the cache at most expires.                                   *)
LEMMA SameServes ==
  ASSUME jobs' = jobs, row' = row, tested' = tested, wanted' = wanted, replaced' = replaced,
         snapshots' = snapshots, cached' \in {cached, S!Missing},
         NEW r \in S!Requests, Serves(r)
  PROVE  Serves(r)'
<1>1. S!Asked(jobs[r])' = S!Asked(jobs[r]) /\ jobs'[r] = jobs[r]
  BY DEF S!Asked, S!Reverted, S!Edited, S!WithMail, S!Restored, S!Connection
<1>2. Verified(jobs[r].held)' <=> Verified(jobs[r].held)
  BY <1>1 DEF Verified
<1>3. QED
  BY <1>1, <1>2 DEF Serves

LEMMA OneAtATimeNext ==
  ASSUME StoreConstants, StoreInv, [S!Next]_S!store
  PROVE  OneAtATime'
<1> SUFFICES ASSUME ~overlapped' PROVE OneAtATime'
  BY DEF OneAtATime
<1>1. CASE UNCHANGED S!store
  <2>1. UNCHANGED <<row, cached, jobs, lock, snapshots, started, wanted, replaced, tested, overlapped>>
    BY <1>1 DEF S!store, S!account
  <2>2. \A r \in S!Requests : Serves(r) => Serves(r)'
    BY <2>1, SameServes
  <2>3. QED
    BY <2>1, <2>2 DEF StoreInv, OneAtATime, Verified, S!Active
<1>2. CASE S!Expire
  <2>1. cached' = S!Missing /\ UNCHANGED <<row, jobs, lock, snapshots, started, wanted, replaced, tested, overlapped>>
    BY <1>2 DEF S!Expire, S!account
  <2>2. \A r \in S!Requests : Serves(r) => Serves(r)'
    BY <2>1, SameServes
  <2>3. QED
    BY <2>1, <2>2 DEF StoreInv, OneAtATime, Verified, S!Active
<1>3. ASSUME NEW r \in S!Requests, S!Proceed(r) PROVE OneAtATime'
  <2>1. ~overlapped
    BY <1>3 DEF S!Proceed, S!Load, S!Fill, S!Answered, S!SendTest, S!Save, S!Refresh, S!Lock, S!NothingToRevert, S!SaveLocked,
       S!Commit, S!account
  <2>2. QED
    BY <1>3, <2>1, LoadAlone, EndAlone, TestAlone, SaveAlone, SaveLockedAlone, CommitAlone DEF S!Proceed
<1>4. ASSUME NEW r \in S!Requests, S!Die(r) \/ \E kind \in S!Kinds \ {"record"}, value \in S!Values : S!Start(r, kind, value)
      PROVE  OneAtATime'
  BY <1>4, StartAlone DEF S!Die, S!Disturb
<1>5. QED
  BY <1>1, <1>2, <1>3, <1>4 DEF S!Next, S!Serving

LEMMA StoreStep == ASSUME StoreConstants, StoreInv, [S!Next]_S!store PROVE StoreInv'
<1>1. StoreTypes' /\ AllInStep' /\ OneAtATime'
  BY StoreTypesNext, AllInStepNext, OneAtATimeNext
<1>2. QED
  BY <1>1 DEF StoreInv

LEMMA StoreFollows == ASSUME StoreInv PROVE S!StoreTypeOK /\ S!SavesStick
BY DEF StoreInv, StoreTypes, AllInStep, OneAtATime, S!SavesStick, Verified

(* However requests interleave and die, both forms of the home page agree  *)
(* in the row and the cache; and requests that come one at a time find     *)
(* what they saved, beside what the others did.  A revert is found to have *)
(* brought back its import's predecessor but for the mail password, what   *)
(* was verified, and a logo where there was none: these stay as they are,  *)
(* are void, and stay (apply_system_settings_import of a redacted export). *)
THEOREM StoreSavesStick == ASSUME StoreConstants PROVE S!Spec => [](S!StoreTypeOK /\ S!SavesStick)
<1>1. S!Init => StoreInv
  BY StoreInit
<1>2. StoreInv /\ [S!Next]_S!store => StoreInv'
  BY StoreStep
<1>3. StoreInv => S!StoreTypeOK /\ S!SavesStick
  BY StoreFollows
<1>4. QED
  BY <1>1, <1>2, <1>3, PTL DEF S!Spec

-----------------------------------------------------------------------------
(* The two forms of a setting.                                             *)

CONSTANT Options
VARIABLES formRow, formWanted
F == INSTANCE SettingsForms WITH Values <- Options, row <- formRow, wanted <- formWanted

(* What was asked of a search that is off says nothing of its display.     *)
FormsInv ==
  /\ F!FormsTypeOK /\ F!FormsAgree
  /\ formWanted.search \in [enabled : BOOLEAN, display : F!Displays \cup {F!Unsaid}, data : BOOLEAN]
  /\ formWanted.search.display = F!Unsaid => ~formWanted.search.enabled
  /\ formWanted.tables \in F!Tables

LEMMA SearchesAre ==
  /\ \A s \in F!Searches : F!TitlebarOf(s) \in F!Titlebars
  /\ \A t \in F!Titlebars : F!SearchOf(t) \in F!Searches
  /\ \A t, u \in F!Titlebars : F!SearchOf(t) = F!SearchOf(u) => t = u
  /\ F!Unsaid \notin F!Displays /\ F!DefaultDisplay \in F!Displays
<1>1. F!Unsaid \notin F!Displays /\ F!DefaultDisplay \in F!Displays /\ "disabled" \notin F!Displays
  BY DEF F!Displays, F!Unsaid, F!DefaultDisplay
<1>2. ASSUME NEW s \in F!Searches PROVE F!TitlebarOf(s) \in F!Titlebars
  BY DEF F!TitlebarOf, F!Searches, F!Titlebars
<1>3. ASSUME NEW t \in F!Titlebars PROVE F!SearchOf(t) \in F!Searches
  <2>1. (t.mode # "disabled") \in BOOLEAN
    OBVIOUS
  <2>2. QED
    BY <1>1, <2>1 DEF F!SearchOf, F!Searches, F!Titlebars
<1>4. ASSUME NEW t \in F!Titlebars, NEW u \in F!Titlebars, F!SearchOf(t) = F!SearchOf(u) PROVE t = u
  <2>1. /\ F!SearchOf(t).enabled <=> F!SearchOf(u).enabled
        /\ F!SearchOf(t).display = F!SearchOf(u).display /\ F!SearchOf(t).data = F!SearchOf(u).data
    BY <1>4
  <2>2. t.mode = u.mode /\ t.data = u.data
    BY <2>1 DEF F!SearchOf
  <2>3. QED
    BY <2>2 DEF F!Titlebars
<1>5. QED
  BY <1>1, <1>2, <1>3, <1>4

LEMMA DisplayIs ==
  ASSUME NEW s \in F!Searches, NEW d
  PROVE  /\ s = [[s EXCEPT !.display = d] EXCEPT !.display = s.display]
         /\ [s EXCEPT !.display = d].display = d
         /\ [s EXCEPT !.display = d].enabled = s.enabled
BY DEF F!Searches

(* The edits, by their forms, and what a partial save names.               *)
LEMMA EditsAre ==
  /\ \A edit \in F!SearchEdits : /\ edit.form \in {"none", "newer", "older", "both"}
                                 /\ edit.form \in {"newer", "both"} => edit.to \in F!Searches
                                 /\ edit.form = "older" => edit.to \in F!Titlebars
  /\ \A edit \in F!TableEdits : /\ edit.form \in {"none", "newer", "older", "both"}
                                /\ edit.form \in {"newer", "both"} => edit.to \in F!Tables
                                /\ edit.form = "older" => edit.to \in Options
BY DEF F!SearchEdits, F!TableEdits, F!Same

LEMMA NamedIs ==
  ASSUME NEW search \in F!SearchEdits, NEW tables \in F!TableEdits
  PROVE  /\ "search" \in F!Named(search, tables) <=> search.form \in {"newer", "both"}
         /\ "titlebar" \in F!Named(search, tables) <=> search.form \in {"older", "both"}
         /\ "tables" \in F!Named(search, tables) <=> tables.form \in {"newer", "both"}
         /\ "layout" \in F!Named(search, tables) <=> tables.form \in {"older", "both"}
<1>1. search.form \in {"none", "newer", "older", "both"} /\ tables.form \in {"none", "newer", "older", "both"}
  BY EditsAre
<1> DEFINE first == CASE search.form = "newer" -> {"search"} [] search.form = "older" -> {"titlebar"}
                      [] search.form = "both" -> {"search", "titlebar"} [] OTHER -> {}
           second == CASE tables.form = "newer" -> {"tables"} [] tables.form = "older" -> {"layout"}
                       [] tables.form = "both" -> {"tables", "layout"} [] OTHER -> {}
<1>2. F!Named(search, tables) = first \cup second
  BY DEF F!Named
<1>3. /\ "search" \in first <=> search.form \in {"newer", "both"}
      /\ "titlebar" \in first <=> search.form \in {"older", "both"}
      /\ "tables" \notin first /\ "layout" \notin first
  BY <1>1
<1>4. /\ "tables" \in second <=> tables.form \in {"newer", "both"}
      /\ "layout" \in second <=> tables.form \in {"older", "both"}
      /\ "search" \notin second /\ "titlebar" \notin second
  BY <1>1
<1> HIDE DEF first, second
<1>5. QED
  BY <1>2, <1>3, <1>4

(* The search, and its older form, after a save.                           *)
LEMMA SearchStep ==
  ASSUME FormsInv, NEW search \in F!SearchEdits, NEW tables \in F!TableEdits, NEW other \in Options,
         NEW whole \in BOOLEAN, F!Save(search, tables, other, whole)
  PROVE  /\ formRow'.search \in F!Searches /\ formRow'.titlebar = F!TitlebarOf(formRow'.search)
         /\ formRow'.search \in {formWanted'.search} \cup {[formWanted'.search EXCEPT !.display = d] :
                               d \in {e \in F!Displays : formWanted'.search.display = F!Unsaid}}
         /\ formWanted'.search \in [enabled : BOOLEAN, display : F!Displays \cup {F!Unsaid}, data : BOOLEAN]
         /\ formWanted'.search.display = F!Unsaid => ~formWanted'.search.enabled
<1> DEFINE held == F!Edited(search, tables, other)
           named == IF whole THEN {} ELSE F!Named(search, tables)
           chosen == F!ChosenSearch(held, named)
           asked == F!AskedSearch(search, whole)
           writes == whole \/ named \cap {"search", "titlebar"} # {}
           Says(s, w) == \/ s = w
                         \/ w.display = F!Unsaid /\ \E d \in F!Displays : s = [w EXCEPT !.display = d]
           Fits(s, w) == /\ s \in F!Searches /\ Says(s, w)
                         /\ w \in [enabled : BOOLEAN, display : F!Displays \cup {F!Unsaid}, data : BOOLEAN]
                         /\ w.display = F!Unsaid => ~w.enabled
<1>1. /\ formRow'.search = (IF writes THEN chosen ELSE formRow.search)
      /\ formRow'.titlebar = (IF writes THEN F!TitlebarOf(chosen) ELSE formRow.titlebar)
      /\ formWanted'.search = asked
  <2> DEFINE synced == [held EXCEPT !.search = chosen, !.titlebar = F!TitlebarOf(chosen),
                          !.tables = F!ChosenTables(held, named), !.layout = F!ChosenTables(held, named).density]
  <2>1. synced.search = chosen /\ synced.titlebar = F!TitlebarOf(chosen)
    BY DEF F!Edited
  <2>2. QED
    BY <2>1 DEF F!Save, F!Written
<1>2. /\ held.search = IF search.form \in {"newer", "both"} THEN search.to ELSE formRow.search
      /\ held.titlebar = CASE search.form = "both" -> F!TitlebarOf(search.to)
                           [] search.form = "older" -> search.to
                           [] OTHER -> formRow.titlebar
  BY DEF F!Edited
<1>3. /\ formRow.search \in F!Searches /\ formRow.titlebar \in F!Titlebars /\ formRow.titlebar = F!TitlebarOf(formRow.search)
      /\ Fits(formRow.search, formWanted.search)
  BY DEF FormsInv, F!FormsTypeOK, F!FormsAgree, F!Row
<1>4. F!TitlebarOf(formRow.search) = F!TitlebarOf(formWanted.search)
  BY <1>3, SearchesAre DEF F!TitlebarOf, F!Searches
<1>5. /\ search.form \in {"none", "newer", "older", "both"}
      /\ search.form \in {"newer", "both"} => search.to \in F!Searches
      /\ search.form = "older" => search.to \in F!Titlebars
  BY EditsAre
<1>6. /\ "search" \in named <=> ~whole /\ search.form \in {"newer", "both"}
      /\ "titlebar" \in named <=> ~whole /\ search.form \in {"older", "both"}
  BY NamedIs
<1>7. chosen = IF \/ "search" \in named
                  \/ /\ "titlebar" \notin named
                     /\ \/ held.search # formRow.search
                        \/ F!SearchOf(held.titlebar) = F!SearchOf(formRow.titlebar)
               THEN held.search ELSE F!SearchOf(held.titlebar)
  BY DEF F!ChosenSearch
<1>8. writes <=> whole \/ search.form # "none"
  BY <1>5, <1>6
<1> HIDE DEF held, named, chosen, asked, writes
<1>9. ASSUME NEW s \in F!Searches PROVE Fits(s, s)
  BY SearchesAre DEF F!Searches
<1>14. ASSUME NEW s, NEW w, Fits(s, w)
       PROVE  /\ s \in F!Searches
              /\ s \in {w} \cup {[w EXCEPT !.display = d] : d \in {e \in F!Displays : w.display = F!Unsaid}}
              /\ w \in [enabled : BOOLEAN, display : F!Displays \cup {F!Unsaid}, data : BOOLEAN]
              /\ w.display = F!Unsaid => ~w.enabled
  BY <1>14
<1> HIDE DEF Says, Fits
<1> SUFFICES Fits(formRow'.search, formWanted'.search) /\ formRow'.titlebar = F!TitlebarOf(formRow'.search)
  BY <1>14
<1>10. CASE search.form \in {"newer", "both"}
  <2>1. asked = search.to
    BY <1>10 DEF asked, F!AskedSearch
  <2>2. chosen = search.to
    BY <1>2, <1>3, <1>6, <1>7, <1>10
  <2>3. QED
    BY <1>1, <1>5, <1>8, <1>9, <1>10, <2>1, <2>2
<1>11. CASE search.form = "none"
  <2>1. asked = formWanted.search
    BY <1>11 DEF asked, F!AskedSearch
  <2>2. chosen = formRow.search
    BY <1>2, <1>3, <1>6, <1>7, <1>11
  <2>3. QED
    BY <1>1, <1>3, <1>11, <2>1, <2>2
<1>12. CASE search.form = "older"
  <2>1. held.search = formRow.search /\ held.titlebar = search.to /\ search.to \in F!Titlebars /\ writes
    BY <1>2, <1>5, <1>8, <1>12
  <2>2. asked = IF whole /\ search.to = F!TitlebarOf(formWanted.search) THEN formWanted.search
                ELSE IF search.to.mode = "disabled" THEN [F!SearchOf(search.to) EXCEPT !.display = F!Unsaid]
                ELSE F!SearchOf(search.to)
    BY <1>12 DEF asked, F!AskedSearch
  <2>3. CASE whole /\ search.to = F!TitlebarOf(formWanted.search)
    <3>1. search.to = formRow.titlebar
      BY <1>3, <1>4, <2>3
    <3>2. chosen = formRow.search
      BY <1>6, <1>7, <2>1, <2>3, <3>1
    <3>3. QED
      BY <1>1, <1>3, <2>1, <2>2, <2>3, <3>2
  <2>4. CASE ~(whole /\ search.to = F!TitlebarOf(formWanted.search))
    <3>1. chosen = F!SearchOf(search.to)
      <4>1. CASE ~whole
        BY <1>6, <1>7, <1>12, <2>1, <4>1
      <4>2. CASE whole
        <5>1. search.to # formRow.titlebar
          BY <1>3, <1>4, <2>4, <4>2
        <5>2. F!SearchOf(search.to) # F!SearchOf(formRow.titlebar)
          BY <1>3, <2>1, <5>1, SearchesAre
        <5>3. QED
          BY <1>6, <1>7, <2>1, <4>2, <5>2
      <4>3. QED
        BY <4>1, <4>2
    <3>2. F!SearchOf(search.to) \in F!Searches
      BY <2>1, SearchesAre
    <3>3. CASE search.to.mode = "disabled"
      <4> DEFINE w == [F!SearchOf(search.to) EXCEPT !.display = F!Unsaid]
      <4>1. asked = w
        BY <2>2, <2>4, <3>3
      <4>5. F!SearchOf(search.to).display = F!DefaultDisplay /\ ~F!SearchOf(search.to).enabled
        BY <3>3 DEF F!SearchOf
      <4>2. F!SearchOf(search.to) = [w EXCEPT !.display = F!DefaultDisplay] /\ ~w.enabled /\ w.display = F!Unsaid
        BY <3>2, <4>5, DisplayIs
      <4>3. w \in [enabled : BOOLEAN, display : F!Displays \cup {F!Unsaid}, data : BOOLEAN]
        BY <3>2 DEF F!Searches
      <4> HIDE DEF w
      <4>6. Fits(F!SearchOf(search.to), w)
        BY <3>2, <4>2, <4>3, SearchesAre DEF Fits, Says
      <4>4. QED
        BY <1>1, <2>1, <3>1, <4>1, <4>6
    <3>4. CASE search.to.mode # "disabled"
      BY <1>1, <1>9, <2>1, <2>2, <2>4, <3>1, <3>2, <3>4
    <3>5. QED
      BY <3>3, <3>4
  <2>5. QED
    BY <2>3, <2>4
<1>13. QED
  BY <1>5, <1>10, <1>11, <1>12

(* The tables, and the older form of their density, after a save.          *)
LEMMA TablesStep ==
  ASSUME FormsInv, NEW search \in F!SearchEdits, NEW tables \in F!TableEdits, NEW other \in Options,
         NEW whole \in BOOLEAN, F!Save(search, tables, other, whole)
  PROVE  /\ formRow'.tables \in F!Tables /\ formRow'.layout = formRow'.tables.density
         /\ formRow'.tables = formWanted'.tables /\ formRow'.other = formWanted'.other /\ formRow'.other \in Options
<1> DEFINE held == F!Edited(search, tables, other)
           named == IF whole THEN {} ELSE F!Named(search, tables)
           chosen == F!ChosenTables(held, named)
           asked == F!AskedTables(tables)
           writes == whole \/ named \cap {"tables", "layout"} # {}
<1>1. /\ formRow'.tables = (IF writes THEN chosen ELSE formRow.tables)
      /\ formRow'.layout = (IF writes THEN chosen.density ELSE formRow.layout)
      /\ formRow'.other = other /\ formWanted'.tables = asked /\ formWanted'.other = other
  <2> DEFINE synced == [held EXCEPT !.search = F!ChosenSearch(held, named),
                          !.titlebar = F!TitlebarOf(F!ChosenSearch(held, named)),
                          !.tables = chosen, !.layout = chosen.density]
  <2>1. synced.tables = chosen /\ synced.layout = chosen.density /\ synced.other = other
    BY DEF F!Edited
  <2>2. QED
    BY <2>1 DEF F!Save, F!Written
<1>2. /\ held.tables = IF tables.form \in {"newer", "both"} THEN tables.to ELSE formRow.tables
      /\ held.layout = CASE tables.form = "both" -> tables.to.density
                         [] tables.form = "older" -> tables.to
                         [] OTHER -> formRow.layout
  BY DEF F!Edited
<1>3. formRow.tables \in F!Tables /\ formRow.layout = formRow.tables.density /\ formRow.tables = formWanted.tables
  BY DEF FormsInv, F!FormsTypeOK, F!FormsAgree, F!Row
<1>4. /\ tables.form \in {"none", "newer", "older", "both"}
      /\ tables.form \in {"newer", "both"} => tables.to \in F!Tables
      /\ tables.form = "older" => tables.to \in Options
  BY EditsAre
<1>5. /\ "tables" \in named <=> ~whole /\ tables.form \in {"newer", "both"}
      /\ "layout" \in named <=> ~whole /\ tables.form \in {"older", "both"}
  BY NamedIs
<1>6. chosen = IF /\ held.layout # formRow.layout \/ "layout" \in named
                  /\ ~(held.tables # formRow.tables \/ "tables" \in named)
               THEN [held.tables EXCEPT !.density = held.layout] ELSE held.tables
  BY DEF F!ChosenTables
<1>7. writes <=> whole \/ tables.form # "none"
  BY <1>4, <1>5
<1> HIDE DEF held, named, chosen, asked, writes
<1>8. CASE tables.form \in {"newer", "both"}
  <2>1. asked = tables.to
    BY <1>8 DEF asked, F!AskedTables
  <2>2. chosen = tables.to
    BY <1>2, <1>3, <1>5, <1>6, <1>8
  <2>3. QED
    BY <1>1, <1>4, <1>7, <1>8, <2>1, <2>2
<1>9. CASE tables.form = "none"
  <2>1. asked = formWanted.tables
    BY <1>9 DEF asked, F!AskedTables
  <2>2. chosen = formRow.tables
    BY <1>2, <1>3, <1>5, <1>6, <1>9
  <2>3. QED
    BY <1>1, <1>3, <1>9, <2>1, <2>2
<1>10. CASE tables.form = "older"
  <2>1. asked = [formWanted.tables EXCEPT !.density = tables.to]
    BY <1>10 DEF asked, F!AskedTables
  <2>2. held.tables = formRow.tables /\ held.layout = tables.to
    BY <1>2, <1>10
  <2>3. [formRow.tables EXCEPT !.density = formRow.layout] = formRow.tables
    BY <1>3 DEF F!Tables
  <2>4. chosen = [formRow.tables EXCEPT !.density = tables.to]
    BY <1>3, <1>5, <1>6, <1>10, <2>2, <2>3
  <2>5. chosen \in F!Tables /\ chosen = asked
    BY <1>3, <1>4, <1>10, <2>1, <2>4 DEF F!Tables
  <2>6. QED
    BY <1>1, <1>3, <1>7, <1>10, <2>5
<1>11. QED
  BY <1>4, <1>8, <1>9, <1>10

LEMMA FormsStep == ASSUME FormsInv, [F!Next]_F!forms PROVE FormsInv'
<1>1. CASE UNCHANGED F!forms
  BY <1>1 DEF F!forms, FormsInv, F!FormsTypeOK, F!FormsAgree
<1>2. ASSUME NEW search \in F!SearchEdits, NEW tables \in F!TableEdits, NEW other \in Options,
             NEW whole \in BOOLEAN, F!Save(search, tables, other, whole)
      PROVE  FormsInv'
  <2>1. /\ formRow'.search \in F!Searches /\ formRow'.titlebar = F!TitlebarOf(formRow'.search)
        /\ formRow'.search \in {formWanted'.search} \cup {[formWanted'.search EXCEPT !.display = d] :
                               d \in {e \in F!Displays : formWanted'.search.display = F!Unsaid}}
        /\ formWanted'.search \in [enabled : BOOLEAN, display : F!Displays \cup {F!Unsaid}, data : BOOLEAN]
        /\ formWanted'.search.display = F!Unsaid => ~formWanted'.search.enabled
    BY <1>2, SearchStep
  <2>2. /\ formRow'.tables \in F!Tables /\ formRow'.layout = formRow'.tables.density
        /\ formRow'.tables = formWanted'.tables /\ formRow'.other = formWanted'.other /\ formRow'.other \in Options
    BY <1>2, TablesStep
  <2>3. formRow' = [search |-> formRow'.search, titlebar |-> formRow'.titlebar, tables |-> formRow'.tables,
                layout |-> formRow'.layout, other |-> formRow'.other]
    BY <1>2 DEF F!Save, F!Written
  <2>4. formRow'.titlebar \in F!Titlebars /\ formRow'.layout \in Options
    BY <2>1, <2>2, SearchesAre DEF F!Tables
  <2>5. formRow' \in F!Row
    BY <2>1, <2>2, <2>3, <2>4 DEF F!Row
  <2>6. QED
    BY <2>1, <2>2, <2>5 DEF FormsInv, F!FormsTypeOK, F!FormsAgree
<1>3. QED
  BY <1>1, <1>2 DEF F!Next

LEMMA FormsInit == F!Init => FormsInv
<1> SUFFICES ASSUME NEW v \in Options,
                    formRow = [search |-> [enabled |-> TRUE, display |-> F!DefaultDisplay, data |-> FALSE],
                           titlebar |-> F!TitlebarOf([enabled |-> TRUE, display |-> F!DefaultDisplay, data |-> FALSE]),
                           tables |-> [density |-> v, columns |-> v], layout |-> v, other |-> v],
                    formWanted = [search |-> [enabled |-> TRUE, display |-> F!DefaultDisplay, data |-> FALSE],
                              tables |-> [density |-> v, columns |-> v], other |-> v]
             PROVE  FormsInv
  BY DEF F!Init
<1> DEFINE search == [enabled |-> TRUE, display |-> F!DefaultDisplay, data |-> FALSE]
<1>1. search \in F!Searches /\ search.display # F!Unsaid
  BY DEF F!Searches, F!Displays, F!DefaultDisplay, F!Unsaid
<1>2. F!TitlebarOf(search) \in F!Titlebars
  BY <1>1, SearchesAre
<1>3. [density |-> v, columns |-> v] \in F!Tables /\ [density |-> v, columns |-> v].density = v
  BY DEF F!Tables
<1> HIDE DEF search
<1>4. QED
  BY <1>1, <1>2, <1>3 DEF FormsInv, F!FormsTypeOK, F!FormsAgree, F!Row, F!Searches, search

(* The two forms of a setting agree after every save, and say what was     *)
(* last asked for.                                                         *)
THEOREM BothFormsAgree == F!Init /\ [][F!Next]_F!forms => [](F!FormsTypeOK /\ F!FormsAgree)
<1>1. F!Init => FormsInv
  BY FormsInit
<1>2. FormsInv /\ [F!Next]_F!forms => FormsInv'
  BY FormsStep
<1>3. FormsInv => F!FormsTypeOK /\ F!FormsAgree
  BY DEF FormsInv
<1>4. QED
  BY <1>1, <1>2, <1>3, PTL
=============================================================================
