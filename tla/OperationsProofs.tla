--------------------------- MODULE OperationsProofs ---------------------------
(***************************************************************************)
(* Proofs about what is done in the background: the operations the tick    *)
(* exchanges with Composer (OpsRuns, whose names stand as they are) and    *)
(* with its agent (AgentRequests, as A; ControlLink, as L), the weather    *)
(* (WeatherReadings, as W), what a backup covers (ModelSelection, as C)    *)
(* and how its archive is written (ArchivePipeline, as P); for any number  *)
(* of operations, requests, models and units of the archive.               *)
(***************************************************************************)
EXTENDS OpsRuns, Integers, Sequences, FiniteSets, FiniteSetTheorems, WellFoundedInduction,
        TLAPS

OpsConstants == MaxRuns \in Nat /\ MaxState \in Nat \ {0}

LEMMA RowsAre ==
  ASSUME OpsConstants
  PROVE  /\ NoRow \in Row /\ NoRow.status = "none" /\ NoRequest \in Request
         /\ NoRequest.run = None /\ NoRequest.operation = "check"
         /\ NoAck \in [run : Runs \cup {None}, error : BOOLEAN] /\ NoAck.run = None
         /\ NoResult \in [run : Runs \cup {None}, shown : 0..MaxState] /\ NoResult.run = None
         /\ None \notin Runs /\ Runs \subseteq Nat
BY DEF OpsConstants, NoRow, Row, Statuses, Operations, NoResult, NoRequest, Request, NoAck,
       None, Runs

(* One row changes.                                                        *)
LEMMA RowIs ==
  ASSUME rows \in [Runs -> Row], NEW r \in Runs, NEW row \in Row,
         rows' = [rows EXCEPT ![r] = row]
  PROVE  /\ rows' \in [Runs -> Row] /\ rows'[r] = row
         /\ \A q \in Runs : q # r => rows'[q] = rows[q]
OBVIOUS

LEMMA StatusIs ==
  ASSUME rows \in [Runs -> Row], NEW r \in Runs, NEW status \in Statuses,
         rows' = [rows EXCEPT ![r].status = status]
  PROVE  /\ rows' \in [Runs -> Row] /\ rows'[r].status = status
         /\ rows'[r].operation = rows[r].operation /\ rows'[r].result = rows[r].result
         /\ \A q \in Runs : q # r => rows'[q] = rows[q]
<1>1. rows[r] \in Row /\ rows' = [rows EXCEPT ![r] = [rows[r] EXCEPT !.status = status]]
  OBVIOUS
<1>2. /\ [rows[r] EXCEPT !.status = status] \in Row
      /\ [rows[r] EXCEPT !.status = status].status = status
      /\ [rows[r] EXCEPT !.status = status].operation = rows[r].operation
      /\ [rows[r] EXCEPT !.status = status].result = rows[r].result
  BY <1>1 DEF Row
<1>3. QED
  BY <1>1, <1>2, RowIs

LEMMA LateIs ==
  ASSUME rows \in [Runs -> Row], NEW r \in Runs, rows' = [rows EXCEPT ![r].late = TRUE]
  PROVE  /\ rows' \in [Runs -> Row] /\ rows'[r].status = rows[r].status
         /\ rows'[r].operation = rows[r].operation /\ rows'[r].result = rows[r].result
         /\ \A q \in Runs : q # r => rows'[q] = rows[q]
<1>1. rows[r] \in Row /\ rows' = [rows EXCEPT ![r] = [rows[r] EXCEPT !.late = TRUE]]
  OBVIOUS
<1>2. /\ [rows[r] EXCEPT !.late = TRUE] \in Row
      /\ [rows[r] EXCEPT !.late = TRUE].status = rows[r].status
      /\ [rows[r] EXCEPT !.late = TRUE].operation = rows[r].operation
      /\ [rows[r] EXCEPT !.late = TRUE].result = rows[r].result
  BY <1>1 DEF Row
<1>3. QED
  BY <1>1, <1>2, RowIs

LEMMA QueuedIs ==
  ASSUME OpsConstants, OpsTypeOK, NEW r \in Runs, NEW operation \in Operations,
         Insert(r, operation)
  PROVE  /\ rows' \in [Runs -> Row] /\ rows'[r].status = "queued"
         /\ \A q \in Runs : q # r => rows'[q] = rows[q]
<1> DEFINE queued == [NoRow EXCEPT !.status = "queued", !.operation = operation]
<1>1. queued \in Row /\ queued.status = "queued"
  BY RowsAre DEF NoRow, Row, Statuses, NoResult
<1>2. rows' = [rows EXCEPT ![r] = queued]
  BY DEF Insert
<1> HIDE DEF queued
<1>3. QED
  BY <1>1, <1>2, RowIs DEF OpsTypeOK

LEMMA RunningIs ==
  ASSUME OpsTypeOK, MarkRunning
  PROVE  /\ handing \in Runs /\ rows' \in [Runs -> Row] /\ rows'[handing].status = "running"
         /\ \A q \in Runs : q # handing => rows'[q] = rows[q]
<1>1. handing \in Runs /\ rows[handing] \in Row
  BY DEF OpsTypeOK, MarkRunning
<1>2. rows' = [rows EXCEPT ![handing] =
        [[rows[handing] EXCEPT !.status = "running"] EXCEPT !.late = FALSE]]
  BY <1>1 DEF MarkRunning, OpsTypeOK
<1>3. [rows[handing] EXCEPT !.status = "running"] \in Row
  BY <1>1 DEF Row, Statuses
<1>4. /\ [[rows[handing] EXCEPT !.status = "running"] EXCEPT !.late = FALSE] \in Row
      /\ [[rows[handing] EXCEPT !.status = "running"] EXCEPT !.late = FALSE].status = "running"
  BY <1>1, <1>3 DEF Row
<1>5. QED
  BY <1>1, <1>2, <1>4 DEF OpsTypeOK

LEMMA FinishedIs ==
  ASSUME OpsTypeOK, NEW r \in Runs, Finish(r)
  PROVE  /\ rows' \in [Runs -> Row] /\ rows'[r].status \in {"failed", "completed"}
         /\ rows'[r].result = result
         /\ \A q \in Runs : q # r => rows'[q] = rows[q]
<1> DEFINE status == IF ack.error THEN "failed" ELSE "completed"
<1>1. rows[r] \in Row /\ status \in {"failed", "completed"}
  BY DEF OpsTypeOK
<1>2. rows' = [rows EXCEPT ![r] = [[rows[r] EXCEPT !.status = status] EXCEPT !.result = result]]
  BY DEF Finish, OpsTypeOK
<1> HIDE DEF status
<1>3. [rows[r] EXCEPT !.status = status] \in Row /\ [rows[r] EXCEPT !.status = status].status = status
  BY <1>1 DEF Row, Statuses
<1>4. /\ [[rows[r] EXCEPT !.status = status] EXCEPT !.result = result] \in Row
      /\ [[rows[r] EXCEPT !.status = status] EXCEPT !.result = result].status = status
      /\ [[rows[r] EXCEPT !.status = status] EXCEPT !.result = result].result = result
  BY <1>3 DEF Row, OpsTypeOK
<1>5. QED
  BY <1>1, <1>2, <1>4, RowIs DEF OpsTypeOK

(* The latest preview is of a check, the last run that completed.          *)
LEMMA PreviewIs ==
  ASSUME OpsConstants, OpsTypeOK, LatestPreview # 0
  PROVE  \E c \in Runs : /\ rows[c].status = "completed" /\ rows[c].operation = "check"
                         /\ rows[c].result.shown = LatestPreview
                         /\ \A q \in Runs : rows[q].status = "completed" => q <= c
<1> DEFINE last == LastOf(Completed(Operations))
<1>1. /\ last # {} /\ \A r \in last : rows[r].operation # "apply"
      /\ LatestPreview = rows[CHOOSE r \in last : TRUE].result.shown
  BY DEF LatestPreview
<1>2. PICK c : c = CHOOSE r \in last : TRUE
  OBVIOUS
<1>3. c \in last
  BY <1>1, <1>2
<1>4. \A r \in Runs : rows[r].operation \in Operations
  BY DEF OpsTypeOK, Row
<1>5. /\ c \in Runs /\ rows[c].status = "completed"
      /\ \A q \in Runs : rows[q].status = "completed" => q <= c
  BY <1>3, <1>4 DEF LastOf, Completed
<1>6. rows[c].operation = "check"
  BY <1>1, <1>3, <1>4, <1>5 DEF Operations
<1>7. QED
  BY <1>1, <1>2, <1>5, <1>6

LEMMA PreviewTypes ==
  ASSUME OpsConstants, OpsTypeOK PROVE LatestPreview \in 0..MaxState
<1>1. CASE LatestPreview = 0
  BY <1>1 DEF OpsConstants
<1>2. CASE LatestPreview # 0
  <2>1. PICK c \in Runs : rows[c].result.shown = LatestPreview
    BY <1>2, PreviewIs
  <2>2. QED
    BY <2>1 DEF OpsTypeOK, Row
<1>3. QED
  BY <1>1, <1>2

-----------------------------------------------------------------------------
(* Type correctness.                                                       *)

LEMMA TypesWillBe ==
  OpsTypeOK' <=>
    /\ rows' \in [Runs -> Row] /\ asked' \subseteq Operations /\ handing' \in Runs \cup {None}
    /\ request' \in Request /\ composer' \in Request
    /\ ack' \in [run : Runs \cup {None}, error : BOOLEAN]
    /\ result' \in [run : Runs \cup {None}, shown : 0..MaxState]
    /\ deployed' \in 1..MaxState
BY DEF OpsTypeOK

LEMMA InitTypes == OpsConstants /\ Init => OpsTypeOK
<1> SUFFICES ASSUME OpsConstants, Init PROVE OpsTypeOK
  OBVIOUS
<1>1. 1 \in 1..MaxState
  BY DEF OpsConstants
<1>2. QED
  BY <1>1, RowsAre DEF Init, OpsTypeOK

LEMMA NextTypes == OpsConstants /\ OpsTypeOK /\ [Next]_ops => OpsTypeOK'
<1> SUFFICES ASSUME OpsConstants, OpsTypeOK, [Next]_ops
             PROVE  OpsTypeOK'
  OBVIOUS
<1>1. CASE UNCHANGED ops
  BY <1>1 DEF ops, OpsTypeOK
<1>2. ASSUME NEW operation \in Operations, Ask(operation)
      PROVE  OpsTypeOK'
  BY <1>2 DEF Ask, OpsTypeOK
<1>3. ASSUME NEW operation \in Operations, NEW r \in Runs, Insert(r, operation)
      PROVE  OpsTypeOK'
  BY <1>3, QueuedIs, TypesWillBe DEF Insert, OpsTypeOK
<1>4. CASE MarkRunning
  BY <1>4, RunningIs, TypesWillBe DEF MarkRunning, OpsTypeOK
<1>5. ASSUME NEW r \in Runs, HandOver(r)
      PROVE  OpsTypeOK'
  <2>1. rows[r].operation \in Operations
    BY DEF OpsTypeOK, Row
  <2>2. request' \in Request
    BY <1>5, <2>1, PreviewTypes DEF HandOver, Request, OpsConstants
  <2>3. QED
    BY <1>5, <2>2, TypesWillBe DEF HandOver, OpsTypeOK
<1>6. ASSUME NEW r \in Runs, RefuseHandOver(r) \/ GiveUp(r)
      PROVE  OpsTypeOK'
  <2>1. rows' \in [Runs -> Row]
    BY <1>6, StatusIs DEF RefuseHandOver, GiveUp, OpsTypeOK, Statuses
  <2>2. QED
    BY <1>6, <2>1, TypesWillBe DEF RefuseHandOver, GiveUp, OpsTypeOK
<1>7. ASSUME NEW r \in Runs, Finish(r)
      PROVE  OpsTypeOK'
  BY <1>7, FinishedIs, TypesWillBe DEF Finish, OpsTypeOK
<1>8. ASSUME NEW r \in Runs, BecomeLate(r)
      PROVE  OpsTypeOK'
  BY <1>8, LateIs, TypesWillBe DEF BecomeLate, OpsTypeOK
<1>9. CASE Crash \/ ComposerTakes
  BY <1>9 DEF Crash, ComposerTakes, OpsTypeOK
<1>10. CASE ComposerAnswers
  <2>1. composer.run \in Runs \cup {None}
    BY DEF OpsTypeOK, Request
  <2>2. deployed' \in 1..MaxState
    BY <1>10 DEF ComposerAnswers, OpsTypeOK, OpsConstants
  <2>3. PICK fails \in BOOLEAN : ack' = [run |-> composer.run, error |-> fails]
    BY <1>10 DEF ComposerAnswers
  <2>4. result' = [run |-> composer.run, shown |-> deployed'] /\ composer' = NoRequest
    BY <1>10 DEF ComposerAnswers
  <2>5. /\ ack' \in [run : Runs \cup {None}, error : BOOLEAN]
        /\ result' \in [run : Runs \cup {None}, shown : 0..MaxState]
    BY <2>1, <2>2, <2>3, <2>4 DEF OpsConstants
  <2>6. QED
    BY <1>10, <2>2, <2>4, <2>5, RowsAre, TypesWillBe DEF ComposerAnswers, OpsTypeOK
<1>11. CASE Edit
  BY <1>11 DEF Edit, OpsTypeOK, OpsConstants
<1>12. QED
  BY <1>1, <1>2, <1>3, <1>4, <1>5, <1>6, <1>7, <1>8, <1>9, <1>10, <1>11 DEF Next, Tick, Time

(* Rows, files and Composer's request keep their types.                    *)
THEOREM TypeCorrect == ASSUME OpsConstants PROVE Spec => []OpsTypeOK
BY InitTypes, NextTypes, PTL DEF Spec

-----------------------------------------------------------------------------
(* Rows fill up in order and are served in order: whatever is below a row  *)
(* that left the queue has ended.  So has what is below the run of a       *)
(* request, whether it lies in the file or with Composer, which is why the *)
(* check an apply repeats still is the last that completed before it.      *)

Ended == {"completed", "failed"}
EndedBelow(n) == \A q \in Runs : q < n => rows[q].status \in Ended

Shown(asking) ==
  \E c \in Runs :
    /\ c < asking.run /\ rows[c].status = "completed"
    /\ rows[c].operation = "check" /\ rows[c].result.shown = asking.digest
    /\ \A a \in Runs : c < a /\ a < asking.run =>
         ~(rows[a].operation = "apply" /\ rows[a].status = "completed")
Grounded(asking) ==
  /\ asking.run # None => EndedBelow(asking.run)
  /\ asking.operation = "apply" => asking.run # None /\ Shown(asking)

OrderInv ==
  /\ \A r \in Runs : rows[r].status # "none" => \A q \in Runs : q < r => rows[q].status # "none"
  /\ \A r \in Runs : rows[r].status \in {"running"} \cup Ended => EndedBelow(r)
HandingInv ==
  handing # None =>
    request.run = handing /\ rows[handing].status = "queued" /\ EndedBelow(handing)
FilesInv == ack.run = result.run /\ Grounded(request) /\ Grounded(composer)

OpsInv ==
  /\ OrderInv /\ HandingInv /\ FilesInv /\ OneHandedOver /\ AnswersAreTheirOwn

LEMMA BelowStays ==
  ASSUME OpsConstants, NEW r \in Runs, rows[r].status \notin Ended,
         \A q \in Runs : q # r => rows'[q] = rows[q]
  PROVE  \A n \in Nat : EndedBelow(n) =>
           EndedBelow(n)' /\ \A q \in Runs : q < n => rows'[q] = rows[q]
BY DEF EndedBelow

LEMMA GroundedStays ==
  ASSUME OpsConstants, NEW r \in Runs, rows[r].status \notin Ended,
         \A q \in Runs : q # r => rows'[q] = rows[q],
         NEW asking \in Request, Grounded(asking)
  PROVE  Grounded(asking)'
<1>1. asking.run \in Nat
  BY DEF Request, Runs, None
<1>2. CASE asking.run = None
  BY <1>2 DEF Grounded
<1>3. CASE asking.run # None
  <2>1. /\ EndedBelow(asking.run)'
        /\ \A q \in Runs : q < asking.run => rows'[q] = rows[q]
    BY <1>1, <1>3, BelowStays DEF Grounded
  <2>2. Shown(asking) => Shown(asking)'
    BY <2>1 DEF Shown
  <2>3. QED
    BY <1>3, <2>1, <2>2 DEF Grounded
<1>4. QED
  BY <1>2, <1>3

(* A row that has not ended changes, while the files stay as they are.     *)
LEMMA RowMoves ==
  ASSUME OpsConstants, OpsTypeOK, OpsInv, NEW r \in Runs, rows[r].status \notin Ended,
         \A q \in Runs : q # r => rows'[q] = rows[q],
         UNCHANGED <<request, composer, ack, result>>,
         rows'[r].status # "none", \A q \in Runs : q < r => rows[q].status # "none",
         rows'[r].status \in {"running"} \cup Ended => EndedBelow(r),
         rows'[r].status = "running" => request.run = r,
         rows'[r].status = "completed" => rows'[r].result.run = r,
         handing' # None => handing' = handing /\ r # handing
  PROVE  OpsInv'
<1>1. Runs \subseteq Nat
  BY DEF Runs
<1>2. OrderInv'
  <2>1. \A p \in Runs : rows'[p].status # "none" =>
          \A q \in Runs : q < p => rows'[q].status # "none"
    BY <1>1 DEF OpsInv, OrderInv
  <2>2. ASSUME NEW p \in Runs, rows'[p].status \in {"running"} \cup Ended
        PROVE  EndedBelow(p)'
    <3>1. EndedBelow(p)
      BY <2>2 DEF OpsInv, OrderInv
    <3>2. QED
      BY <1>1, <3>1, BelowStays
  <2>3. QED
    BY <2>1, <2>2 DEF OrderInv
<1>3. HandingInv'
  <2> SUFFICES ASSUME handing' # None
               PROVE  request'.run = handing' /\ rows'[handing'].status = "queued"
                      /\ EndedBelow(handing)'
    BY DEF HandingInv
  <2>1. handing \in Runs /\ handing # r /\ handing' = handing
    BY DEF OpsTypeOK
  <2>2. PICK n \in Runs : n = handing
    BY <2>1
  <2>3. EndedBelow(n) /\ request.run = n /\ rows[n].status = "queued"
    BY <2>1, <2>2 DEF OpsInv, HandingInv
  <2>4. EndedBelow(n)'
    BY <1>1, <2>3, BelowStays
  <2>5. QED
    BY <2>1, <2>2, <2>3, <2>4
<1>4. FilesInv'
  <2>1. PICK p \in Request, q \in Request : p = request /\ q = composer
    BY DEF OpsTypeOK
  <2>2. Grounded(p)' /\ Grounded(q)'
    BY <2>1, GroundedStays DEF OpsInv, FilesInv
  <2>3. ack'.run = result'.run /\ p = request' /\ q = composer'
    BY <2>1 DEF OpsInv, FilesInv
  <2>4. QED
    BY <2>2, <2>3 DEF FilesInv
<1>5. OneHandedOver' /\ AnswersAreTheirOwn'
  BY DEF OpsInv, OneHandedOver, AnswersAreTheirOwn
<1>6. QED
  BY <1>2, <1>3, <1>4, <1>5 DEF OpsInv

LEMMA OldestIs ==
  ASSUME OpsConstants, OpsTypeOK, OpsInv, NEW r \in OldestActive
  PROVE  /\ r \in Runs /\ rows[r].status \in Active /\ rows[r].status \notin Ended
         /\ EndedBelow(r) /\ \A q \in Runs : q < r => rows[q].status # "none"
<1>1. /\ r \in Runs /\ rows[r].status \in Active
      /\ \A q \in Runs : rows[q].status \in Active => r <= q
  BY DEF OldestActive
<1>2. \A q \in Runs : q < r => rows[q].status # "none" /\ rows[q].status \notin Active
  <2>1. \A q \in Runs : q < r => ~ (r <= q)
    BY <1>1 DEF Runs
  <2>2. \A q \in Runs : q < r => rows[q].status \notin Active
    BY <1>1, <2>1
  <2>3. rows[r].status # "none"
    BY <1>1 DEF Active
  <2>4. \A q \in Runs : q < r => rows[q].status # "none"
    BY <1>1, <2>3 DEF OpsInv, OrderInv
  <2>5. QED
    BY <2>2, <2>4
<1>3. \A q \in Runs : rows[q].status \in Statuses
  BY DEF OpsTypeOK, Row
<1>4. QED
  BY <1>1, <1>2, <1>3 DEF EndedBelow, Statuses, Active, Ended

(* What is handed over is the oldest run; the repair it may ask for is the *)
(* one the last run that completed has shown, and that run is below it.    *)
LEMMA HandOverIs ==
  ASSUME OpsConstants, OpsTypeOK, OpsInv, NEW r \in Runs, HandOver(r)
  PROVE  OpsInv'
<1>1. /\ r \in OldestActive /\ rows[r].status = "queued"
      /\ handing' = r /\ UNCHANGED <<rows, ack, result, composer>>
      /\ request' = [run |-> r, operation |-> rows[r].operation,
                     digest |-> IF rows[r].operation = "apply" THEN LatestPreview ELSE 0]
  BY DEF HandOver
<1>2. EndedBelow(r)
  BY <1>1, OldestIs
<1>3. PICK asked_for : asked_for = request'
  OBVIOUS
<1>4. asked_for.run = r /\ asked_for.operation = rows[r].operation
  BY <1>1, <1>3
<1>5. Grounded(asked_for)
  <2>1. r # None
    BY RowsAre
  <2>2. ASSUME asked_for.operation = "apply"
        PROVE  Shown(asked_for)
    <3>1. LatestPreview # 0 /\ asked_for.digest = LatestPreview
      BY <1>1, <1>3, <2>2, <1>4 DEF HandOver, Usable
    <3>2. PICK c \in Runs : /\ rows[c].status = "completed" /\ rows[c].operation = "check"
                            /\ rows[c].result.shown = LatestPreview
                            /\ \A q \in Runs : rows[q].status = "completed" => q <= c
      BY <3>1, PreviewIs
    <3>3. c < r
      <4>1. ~ (r < c)
        <5>1. EndedBelow(c)
          BY <3>2 DEF OpsInv, OrderInv, Ended
        <5>2. QED
          BY <1>1, <5>1 DEF EndedBelow, Ended
      <4>2. c # r /\ c \in Nat /\ r \in Nat
        BY <1>1, <3>2 DEF Runs
      <4>3. QED
        BY <4>1, <4>2
    <3>4. \A a \in Runs : c < a => rows[a].status # "completed"
      BY <3>2 DEF Runs
    <3>5. QED
      BY <1>4, <3>1, <3>2, <3>3, <3>4 DEF Shown
  <2>3. QED
    BY <1>2, <1>4, <2>1, <2>2 DEF Grounded
<1>6. Grounded(asked_for)'
  BY <1>1, <1>5 DEF Grounded, EndedBelow, Shown
<1>7. FilesInv'
  <2>1. PICK p : p = composer
    OBVIOUS
  <2>2. Grounded(p)'
    BY <1>1, <2>1 DEF OpsInv, FilesInv, Grounded, EndedBelow, Shown
  <2>3. composer' = p /\ request' = asked_for /\ ack'.run = result'.run
    BY <1>1, <1>3, <2>1 DEF OpsInv, FilesInv
  <2>4. QED
    BY <1>6, <2>2, <2>3 DEF FilesInv
<1>8. OneHandedOver'
  <2>1. ASSUME NEW q \in Runs, rows[q].status = "running"
        PROVE  FALSE
    <3>1. EndedBelow(q) /\ ~ (q < r)
      BY <1>2, <2>1 DEF OpsInv, OrderInv, EndedBelow, Ended
    <3>2. r < q
      BY <1>1, <2>1, <3>1 DEF Runs
    <3>3. QED
      BY <1>1, <3>1, <3>2 DEF EndedBelow, Ended
  <2>2. QED
    BY <1>1, <2>1 DEF OneHandedOver
<1>9. HandingInv'
  BY <1>1, <1>2 DEF HandingInv, EndedBelow
<1>10. OrderInv' /\ AnswersAreTheirOwn'
  BY <1>1 DEF OpsInv, OrderInv, AnswersAreTheirOwn, EndedBelow
<1>11. QED
  BY <1>7, <1>8, <1>9, <1>10 DEF OpsInv

LEMMA OpsStays == OpsConstants /\ OpsTypeOK /\ OpsInv /\ [Next]_ops => OpsInv'
<1> SUFFICES ASSUME OpsConstants, OpsTypeOK, OpsInv, [Next]_ops
             PROVE  OpsInv'
  OBVIOUS
<1>1. CASE UNCHANGED <<rows, handing, request, ack, result, composer>>
  BY <1>1 DEF OpsInv, OrderInv, HandingInv, FilesInv, OneHandedOver, AnswersAreTheirOwn,
              EndedBelow, Grounded, Shown
<1>2. ASSUME NEW operation \in Operations, NEW r \in Runs, Insert(r, operation)
      PROVE  OpsInv'
  <2>1. /\ rows[r].status = "none" /\ \A q \in Runs : q < r => rows[q].status # "none"
        /\ UNCHANGED <<handing, request, ack, result, composer>>
    BY <1>2 DEF Insert
  <2>2. rows'[r].status = "queued" /\ \A q \in Runs : q # r => rows'[q] = rows[q]
    BY <1>2, QueuedIs
  <2>3. handing # None => r # handing
    BY <2>1 DEF OpsInv, HandingInv
  <2>4. QED
    BY <2>1, <2>2, <2>3, RowMoves DEF Ended
<1>3. CASE MarkRunning
  <2>1. PICK r \in Runs : r = handing
    BY <1>3, RunningIs
  <2>2. request.run = r /\ rows[r].status = "queued" /\ EndedBelow(r) /\ r # None
    BY <1>3, <2>1 DEF MarkRunning, OpsInv, HandingInv
  <2>3. rows'[r].status = "running" /\ \A q \in Runs : q # r => rows'[q] = rows[q]
    BY <1>3, <2>1, RunningIs
  <2>4. \A q \in Runs : q < r => rows[q].status # "none"
    BY <2>2 DEF EndedBelow, Ended
  <2>5. handing' = None /\ UNCHANGED <<request, ack, result, composer>>
    BY <1>3 DEF MarkRunning
  <2>6. QED
    BY <2>2, <2>3, <2>4, <2>5, RowMoves DEF Ended
<1>4. ASSUME NEW r \in Runs, HandOver(r)
      PROVE  OpsInv'
  BY <1>4, HandOverIs
<1>5. ASSUME NEW r \in Runs, RefuseHandOver(r) \/ GiveUp(r)
      PROVE  OpsInv'
  <2>1. /\ r \in OldestActive /\ handing' = None /\ UNCHANGED <<request, ack, result, composer>>
        /\ rows' = [rows EXCEPT ![r].status = "failed"]
    BY <1>5 DEF RefuseHandOver, GiveUp
  <2>2. rows'[r].status = "failed" /\ \A q \in Runs : q # r => rows'[q] = rows[q]
    BY <2>1, StatusIs DEF OpsTypeOK, Statuses
  <2>3. QED
    BY <2>1, <2>2, OldestIs, RowMoves
<1>6. ASSUME NEW r \in Runs, Finish(r)
      PROVE  OpsInv'
  <2>1. /\ r \in OldestActive /\ handing' = None /\ UNCHANGED <<request, ack, result, composer>>
        /\ ack.run = r
    BY <1>6 DEF Finish, Answered
  <2>2. result.run = r
    BY <2>1 DEF OpsInv, FilesInv
  <2>3. /\ rows'[r].status \in {"failed", "completed"} /\ rows'[r].result.run = r
        /\ \A q \in Runs : q # r => rows'[q] = rows[q]
    BY <1>6, <2>2, FinishedIs
  <2>4. QED
    BY <2>1, <2>3, OldestIs, RowMoves
<1>7. ASSUME NEW r \in Runs, BecomeLate(r)
      PROVE  OpsInv'
  <2>1. /\ rows[r].status = "running" /\ UNCHANGED <<handing, request, ack, result, composer>>
        /\ rows' = [rows EXCEPT ![r].late = TRUE]
    BY <1>7 DEF BecomeLate
  <2>2. /\ rows'[r].status = "running" /\ \A q \in Runs : q # r => rows'[q] = rows[q]
    BY <2>1, LateIs DEF OpsTypeOK
  <2>3. EndedBelow(r) /\ request.run = r /\ (handing # None => r # handing)
    BY <2>1 DEF OpsInv, OrderInv, OneHandedOver, HandingInv
  <2>4. \A q \in Runs : q < r => rows[q].status # "none"
    BY <2>3 DEF EndedBelow, Ended
  <2>5. QED
    BY <2>1, <2>2, <2>3, <2>4, RowMoves DEF Ended
<1>8. CASE Crash
  BY <1>8 DEF Crash, OpsInv, OrderInv, HandingInv, FilesInv, OneHandedOver, AnswersAreTheirOwn,
              EndedBelow, Grounded, Shown
<1>9. CASE ComposerTakes
  BY <1>9 DEF ComposerTakes, OpsInv, OrderInv, HandingInv, FilesInv, OneHandedOver,
              AnswersAreTheirOwn, EndedBelow, Grounded, Shown
<1>10. CASE ComposerAnswers
  <2>1. ack'.run = result'.run /\ composer' = NoRequest /\ UNCHANGED <<rows, handing, request>>
    BY <1>10 DEF ComposerAnswers
  <2>2. composer'.run = None /\ composer'.operation = "check"
    BY <2>1, RowsAre
  <2>3. QED
    BY <2>1, <2>2 DEF OpsInv, OrderInv, HandingInv, FilesInv, OneHandedOver, AnswersAreTheirOwn,
                      EndedBelow, Grounded, Shown
<1>11. QED
  BY <1>1, <1>2, <1>3, <1>4, <1>5, <1>6, <1>7, <1>8, <1>9, <1>10
     DEF Next, Tick, Time, ops, Ask, Edit

LEMMA InitIsOrderly == OpsConstants /\ Init => OpsInv
<1> SUFFICES ASSUME OpsConstants, Init PROVE OpsInv
  OBVIOUS
<1>1. /\ \A r \in Runs : rows[r].status = "none"
      /\ handing = None /\ request.run = None /\ composer.run = None
      /\ request.operation = "check" /\ composer.operation = "check" /\ ack.run = result.run
  BY RowsAre DEF Init
<1>2. QED
  BY <1>1 DEF OpsInv, OrderInv, HandingInv, FilesInv, OneHandedOver, AnswersAreTheirOwn,
              Grounded, Ended

LEMMA OpsServed == OpsInv => OpsRunsAreServedInOrder
BY DEF OpsInv, FilesInv, Grounded, Shown, AppliesWhatWasShown, OpsRunsAreServedInOrder

-----------------------------------------------------------------------------
(* AgentRequests.  A rejected operation has no row when its answer is      *)
(* written, and a request stays in the spool while the worker is at it, so *)
(* that one which is admitted after a rejection still is to be answered.   *)

CONSTANTS Images, Backups, Nobody, MaxSends
VARIABLES spool, outcomes, results, worker, elsewhere, sends
A == INSTANCE AgentRequests WITH rows <- outcomes

AgentConstants == Nobody \notin A!Ids /\ MaxSends \in Nat

AgentInv ==
  /\ worker.at # "idle" => worker.id \in spool
  /\ worker.at \in {"acted", "answered"} /\ worker.outcome = "rejected" =>
       outcomes[worker.id] = "none"
  /\ worker.at = "answered" => results[worker.id] = worker.outcome
  /\ \A id \in A!Ids : outcomes[id] # "none" /\ results[id] = "rejected" => id \in spool

LEMMA AgentTypes == AgentConstants /\ A!RequestsTypeOK /\ [A!Next]_A!agent => A!RequestsTypeOK'
<1> SUFFICES ASSUME AgentConstants, A!RequestsTypeOK, [A!Next]_A!agent
             PROVE  A!RequestsTypeOK'
  OBVIOUS
<1> USE DEF A!Statuses, A!Outcomes, A!Ended, A!Steps
<1>1. CASE UNCHANGED A!agent
  BY <1>1 DEF A!agent, A!RequestsTypeOK
<1>2. ASSUME NEW id \in A!Ids, A!Send(id) \/ A!Retry(id) \/ A!MoveOn(id)
      PROVE  A!RequestsTypeOK'
  BY <1>2 DEF A!Send, A!Retry, A!MoveOn, A!RequestsTypeOK, AgentConstants
<1>3. ASSUME NEW id \in A!Ids, A!ActOnImage(id) \/ A!ActOnBackup(id)
      PROVE  A!RequestsTypeOK'
  BY <1>3 DEF A!ActOnImage, A!ActOnBackup, A!Become, A!RequestsTypeOK
<1>4. CASE A!Build \/ A!Answer \/ A!Archive \/ A!Crash
  BY <1>4 DEF A!Build, A!Become, A!Answer, A!Archive, A!Crash, A!AtRest, A!RequestsTypeOK
<1>5. CASE A!Publish
  <2>1. \A id \in A!Ids : outcomes[id] \in A!Outcomes /\ results[id] \in A!Outcomes
    BY DEF A!RequestsTypeOK
  <2>2. results' \in [A!Ids -> A!Outcomes]
    BY <1>5, <2>1 DEF A!Publish
  <2>3. QED
    BY <1>5, <2>2 DEF A!Publish, A!RequestsTypeOK
<1>6. CASE A!OtherUpdate
  BY <1>6 DEF A!OtherUpdate, A!RequestsTypeOK
<1>7. QED
  BY <1>1, <1>2, <1>3, <1>4, <1>5, <1>6 DEF A!Next, A!Consume, A!Settle

LEMMA AgentStays ==
  AgentConstants /\ A!RequestsTypeOK /\ AgentInv /\ [A!Next]_A!agent => AgentInv'
<1> SUFFICES ASSUME AgentConstants, A!RequestsTypeOK, AgentInv, [A!Next]_A!agent
             PROVE  AgentInv'
  OBVIOUS
<1> USE DEF A!Statuses, A!Outcomes, A!Ended, A!Steps, A!RequestsTypeOK
<1>1. CASE UNCHANGED A!agent
  BY <1>1 DEF A!agent, AgentInv
<1>2. ASSUME NEW id \in A!Ids, A!Send(id) \/ A!Retry(id) \/ A!MoveOn(id)
      PROVE  AgentInv'
  BY <1>2 DEF A!Send, A!Retry, A!MoveOn, AgentInv, A!AtRest
<1>3. ASSUME NEW id \in A!Ids, A!ActOnImage(id)
      PROVE  AgentInv'
  BY <1>3 DEF A!ActOnImage, A!Become, A!Exists, AgentInv, A!AtRest
<1>4. ASSUME NEW id \in A!Ids, A!ActOnBackup(id)
      PROVE  AgentInv'
  BY <1>4 DEF A!ActOnBackup, A!Become, AgentInv, A!AtRest
<1>5. CASE A!Build
  BY <1>5 DEF A!Build, A!Become, AgentInv
<1>6. CASE A!Answer
  BY <1>6 DEF A!Answer, AgentInv
<1>7. CASE A!Archive
  BY <1>7 DEF A!Archive, A!AtRest, AgentInv
<1>8. CASE A!Crash \/ A!OtherUpdate
  BY <1>8 DEF A!Crash, A!OtherUpdate, A!AtRest, AgentInv
<1>9. CASE A!Publish
  BY <1>9 DEF A!Publish, A!Published, A!AtRest, AgentInv
<1>10. QED
  BY <1>1, <1>2, <1>3, <1>4, <1>5, <1>6, <1>7, <1>8, <1>9 DEF A!Next, A!Consume, A!Settle

LEMMA AgentInit == AgentConstants /\ A!Init => A!RequestsTypeOK /\ AgentInv
<1> SUFFICES ASSUME AgentConstants, A!Init PROVE A!RequestsTypeOK /\ AgentInv
  OBVIOUS
<1>1. sends \in 0..MaxSends
  BY DEF AgentConstants, A!Init
<1>2. /\ worker.at = "idle" /\ worker \in [at : A!Steps, id : A!Ids \cup {Nobody}, outcome : A!Outcomes]
      /\ outcomes \in [A!Ids -> A!Statuses] /\ results \in [A!Ids -> A!Outcomes]
      /\ \A id \in A!Ids : outcomes[id] = "none"
  BY DEF A!Init, A!AtRest, A!Steps, A!Outcomes, A!Statuses
<1>3. QED
  BY <1>1, <1>2 DEF A!Init, A!RequestsTypeOK, AgentInv

(* However many administrators queue operations, whatever times out and    *)
(* wherever the tick is killed, Composer gets them one at a time and in    *)
(* order, each keeps the answer to itself, and a repair is one a check has *)
(* shown.                                                                  *)
THEOREM OpsRunsAreServed == ASSUME OpsConstants PROVE Spec => []OpsRunsAreServedInOrder
BY InitTypes, InitIsOrderly, NextTypes, OpsStays, OpsServed, PTL DEF Spec

(* However often the agent sends a request, it is not told that an         *)
(* operation was rejected that has been admitted.                          *)
THEOREM AdmittedStays == ASSUME AgentConstants PROVE A!Spec => []A!AdmittedIsNotRejected
<1>1. A!RequestsTypeOK /\ AgentInv /\ [A!Next]_A!agent => (A!RequestsTypeOK /\ AgentInv)'
  BY AgentTypes, AgentStays
<1>2. AgentInv => A!AdmittedIsNotRejected
  BY DEF AgentInv, A!AdmittedIsNotRejected
<1>3. QED
  BY <1>1, <1>2, AgentInit, PTL DEF A!Spec

-----------------------------------------------------------------------------
(* The requests to pair with an agent, and the link.                       *)

CONSTANTS MaxAsks, MaxDrops
VARIABLES pairings, inserting, newest, published, tick, redeeming, latest, connected, notice, drops
L == INSTANCE ControlLink WITH rows <- pairings, last <- latest

(* The bound on requests is a number.                                      *)
LinkConstants == MaxAsks \in Nat

(* Every message and file has its form.                                    *)
LinkTypes ==
  /\ L!LinkTypeOK
  /\ tick \in [at : {"off", "rows", "written"}, todo : SUBSET L!Row]
  /\ latest \in [id : L!Asks \cup {L!None}, ok : BOOLEAN]

LEMMA LinkInit == ASSUME L!Init PROVE LinkTypes
<1>1. pairings = {} /\ inserting = {} /\ published = L!None /\ redeeming = L!None /\ tick = L!NoTick
  BY DEF L!Init
<1>2. newest \in [id : L!Asks \cup {L!None}, action : L!Actions]
  BY DEF L!Init, L!Actions
<1>3. latest \in [id : L!Asks \cup {L!None}, ok : BOOLEAN] /\ latest.id = L!None
  BY DEF L!Init
<1>4. connected \in BOOLEAN
  BY DEF L!Init
<1>5. notice \in [seen : BOOLEAN, told : BOOLEAN]
  BY DEF L!Init
<1>6. L!NoTick \in [at : {"off", "rows", "written"}, todo : SUBSET L!Row] /\ L!NoTick.todo = {}
  BY DEF L!NoTick
<1>7. QED
  BY <1>1, <1>2, <1>3, <1>4, <1>5, <1>6 DEF LinkTypes, L!LinkTypeOK

(* One step of the operator, the tick, or the agent.                       *)
LEMMA LinkNext == ASSUME LinkConstants, LinkTypes, [L!Next]_L!link PROVE LinkTypes'
<1> USE DEF LinkConstants
<1>1. /\ pairings \subseteq L!Row /\ tick.todo \subseteq L!Row /\ inserting \subseteq L!Actions
      /\ newest \in [id : L!Asks \cup {L!None}, action : L!Actions]
      /\ published \in L!Asks \cup {L!None} /\ redeeming \in L!Asks \cup {L!None} /\ latest.id \in L!Asks \cup {L!None}
      /\ connected \in BOOLEAN /\ notice \in [seen : BOOLEAN, told : BOOLEAN]
      /\ tick \in [at : {"off", "rows", "written"}, todo : SUBSET L!Row]
      /\ latest \in [id : L!Asks \cup {L!None}, ok : BOOLEAN]
  BY DEF LinkTypes, L!LinkTypeOK
<1> DEFINE Typed ==
      /\ pairings' \subseteq L!Row /\ inserting' \subseteq L!Actions
      /\ newest' \in [id : L!Asks \cup {L!None}, action : L!Actions]
      /\ published' \in L!Asks \cup {L!None} /\ redeeming' \in L!Asks \cup {L!None}
      /\ connected' \in BOOLEAN /\ notice' \in [seen : BOOLEAN, told : BOOLEAN]
      /\ tick' \in [at : {"off", "rows", "written"}, todo : SUBSET L!Row]
      /\ latest' \in [id : L!Asks \cup {L!None}, ok : BOOLEAN]
<1>2. SUFFICES Typed
  <2>1. ASSUME Typed PROVE tick'.todo \subseteq L!Row /\ latest'.id \in L!Asks \cup {L!None}
    BY <2>1
  <2>2. QED
    BY <2>1 DEF LinkTypes, L!LinkTypeOK
<1>3. L!NoTick \in [at : {"off", "rows", "written"}, todo : SUBSET L!Row]
  BY DEF L!NoTick
<1>4. ASSUME NEW row \in L!Oldest PROVE row \in L!Row /\ row \in tick.todo
  BY <1>1, <1>4 DEF L!Oldest
<1>5. ASSUME NEW action \in L!Actions, L!Ask(action) PROVE Typed
  BY <1>1, <1>5 DEF L!Ask
<1>6. ASSUME NEW action \in L!Actions, L!Insert(action) PROVE Typed
  <2>1. newest.id \in L!Asks \cup {L!None} /\ newest.id < MaxAsks
    BY <1>1, <1>6 DEF L!Insert
  <2>2. newest.id + 1 \in L!Asks
    BY <2>1 DEF L!Asks, L!None
  <2>3. [id |-> newest.id + 1, action |-> action, failed |-> FALSE] \in L!Row
    BY <1>6, <2>2 DEF L!Row
  <2>4. newest' \in [id : L!Asks \cup {L!None}, action : L!Actions]
    BY <1>6, <2>2 DEF L!Insert
  <2>5. QED
    BY <1>1, <1>6, <2>3, <2>4 DEF L!Insert
<1>7. CASE L!Read
  <2>1. tick' \in [at : {"off", "rows", "written"}, todo : SUBSET L!Row]
    BY <1>1, <1>7 DEF L!Read
  <2>2. QED
    BY <1>1, <1>7, <2>1 DEF L!Read, L!Others
<1>8. CASE L!Publish
  <2>1. PICK row \in L!Oldest : published' = IF row.action = "cancel" THEN L!None ELSE row.id
    BY <1>8 DEF L!Publish
  <2>2. published' \in L!Asks \cup {L!None}
    BY <1>4, <2>1 DEF L!Row
  <2>3. tick' \in [at : {"off", "rows", "written"}, todo : SUBSET L!Row]
    BY <1>1, <1>8 DEF L!Publish
  <2>4. QED
    BY <1>1, <1>8, <2>2, <2>3 DEF L!Publish, L!Others
<1>9. CASE L!DeleteRow
  <2>1. PICK row \in L!Oldest : /\ pairings' = pairings \ L!Applied(row)
                                /\ tick' = [at |-> "rows", todo |-> tick.todo \ {row}]
    BY <1>9 DEF L!DeleteRow
  <2>2. tick' \in [at : {"off", "rows", "written"}, todo : SUBSET L!Row]
    BY <1>1, <2>1
  <2>3. QED
    BY <1>1, <1>9, <2>1, <2>2 DEF L!DeleteRow, L!Others
<1>10. CASE L!FailRow
  <2>1. PICK row \in L!Oldest :
          IF row \in pairings
          THEN /\ pairings' = (pairings \ {row}) \cup {[row EXCEPT !.failed = TRUE]}
               /\ tick' = [tick EXCEPT !.todo = @ \ {row}]
          ELSE pairings' = pairings /\ tick' = L!NoTick
    BY <1>10 DEF L!FailRow
  <2>2. [row EXCEPT !.failed = TRUE] \in L!Row
    BY <1>4 DEF L!Row
  <2>3. [tick EXCEPT !.todo = @ \ {row}] \in [at : {"off", "rows", "written"}, todo : SUBSET L!Row]
    BY <1>1
  <2>4. pairings' \subseteq L!Row /\ tick' \in [at : {"off", "rows", "written"}, todo : SUBSET L!Row]
    BY <1>1, <1>3, <2>1, <2>2, <2>3
  <2>5. QED
    BY <1>1, <1>10, <2>4 DEF L!FailRow, L!Others
<1>11. CASE L!Retire
  <2>1. published' \in L!Asks \cup {L!None}
    BY <1>1, <1>11 DEF L!Retire
  <2>2. notice' \in [seen : BOOLEAN, told : BOOLEAN]
    <3>1. [seen |-> TRUE, told |-> FALSE] \in [seen : BOOLEAN, told : BOOLEAN]
      OBVIOUS
    <3>2. (notice.told \/ notice.seen) \in BOOLEAN
      OBVIOUS
    <3>3. [notice EXCEPT !.told = @ \/ notice.seen] \in [seen : BOOLEAN, told : BOOLEAN]
      BY <1>1, <3>2
    <3>4. QED
      BY <1>11, <3>1, <3>3 DEF L!Retire
  <2>3. QED
    BY <1>1, <1>3, <1>11, <2>1, <2>2 DEF L!Retire, L!Others
<1>12. CASE L!Crash
  BY <1>1, <1>3, <1>12 DEF L!Crash, L!Others
<1>13. CASE L!Take
  BY <1>1, <1>13 DEF L!Take
<1>14. CASE L!Report
  <2>1. PICK ok \in BOOLEAN : latest' = [id |-> redeeming, ok |-> ok] /\ connected' = (connected \/ ok)
    BY <1>14 DEF L!Report
  <2>2. latest' \in [id : L!Asks \cup {L!None}, ok : BOOLEAN]
    BY <1>1, <2>1
  <2>3. connected' \in BOOLEAN
    BY <2>1
  <2>4. QED
    BY <1>1, <1>14, <2>2, <2>3 DEF L!Report
<1>15. CASE L!Drop
  <2>1. connected' \in BOOLEAN
    BY <1>15 DEF L!Drop
  <2>2. QED
    BY <1>1, <1>15, <2>1 DEF L!Drop
<1>16. CASE UNCHANGED L!link
  BY <1>1, <1>16 DEF L!link
<1>17. QED
  BY <1>5, <1>6, <1>7, <1>8, <1>9, <1>10, <1>11, <1>12, <1>13, <1>14, <1>15, <1>16
    DEF L!Next, L!Tick

(* What the pairing's rows and files hold has its type, whatever is        *)
(* requested, published and redeemed.                                      *)
THEOREM LinkIsTyped == ASSUME LinkConstants PROVE L!Spec => []L!LinkTypeOK
<1>1. LinkTypes /\ [L!Next]_L!link => LinkTypes'
  BY LinkNext
<1>2. LinkTypes => L!LinkTypeOK
  BY DEF LinkTypes
<1>3. QED
  BY <1>1, <1>2, LinkInit, PTL DEF L!Spec

-----------------------------------------------------------------------------
(* The weather, its marks and who asks for it.                             *)

CONSTANTS MaxVisits, MaxWorkers, MaxTasks, MaxTroubles
VARIABLES reading, lease, error, reached, running, tasks, visits, workers, shown, troubles
W == INSTANCE WeatherReadings

(* The bounds on what waits and what goes wrong are numbers.               *)
WeatherConstants == MaxTasks \in Nat /\ MaxTroubles \in Nat

VisitStages == {"off", "asking", "asking again"} \cup W!Readings
WorkerStages == {"off", "agent", "itself", "answered", "kept"}

LEMMA WeatherInit == ASSUME WeatherConstants, W!Init PROVE W!WeatherTypeOK
<1>1. reading \in W!Readings /\ shown \in W!Answers
  BY DEF W!Init, W!Readings, W!Answers
<1>2. lease \in BOOLEAN /\ error \in BOOLEAN
  BY DEF W!Init
<1>3. visits \in [W!Visits -> VisitStages] /\ workers \in [W!Workers -> WorkerStages]
  BY DEF W!Init, VisitStages, WorkerStages
<1>4. tasks \in 0..MaxTasks /\ troubles \in 0..MaxTroubles
  BY DEF W!Init, WeatherConstants
<1>5. running \in BOOLEAN /\ reached \in {"unasked", "yes", "no"}
  BY DEF W!Init
<1>6. QED
  BY <1>1, <1>2, <1>3, <1>4, <1>5 DEF W!WeatherTypeOK, VisitStages, WorkerStages

(* One step of a visit, a refresh, or time.                                *)
LEMMA WeatherNext == ASSUME WeatherConstants, W!WeatherTypeOK, [W!Next]_W!weather PROVE W!WeatherTypeOK'
<1>1. /\ reading \in W!Readings /\ shown \in W!Answers
      /\ lease \in BOOLEAN /\ error \in BOOLEAN /\ running \in BOOLEAN
      /\ reached \in {"unasked", "yes", "no"}
      /\ visits \in [W!Visits -> VisitStages] /\ workers \in [W!Workers -> WorkerStages]
      /\ tasks \in 0..MaxTasks /\ troubles \in 0..MaxTroubles
      /\ MaxTasks \in Nat /\ MaxTroubles \in Nat
  BY DEF W!WeatherTypeOK, VisitStages, WorkerStages, WeatherConstants
<1> DEFINE Typed ==
      /\ reading' \in W!Readings /\ shown' \in W!Answers
      /\ lease' \in BOOLEAN /\ error' \in BOOLEAN /\ running' \in BOOLEAN
      /\ reached' \in {"unasked", "yes", "no"}
      /\ visits' \in [W!Visits -> VisitStages] /\ workers' \in [W!Workers -> WorkerStages]
      /\ tasks' \in 0..MaxTasks /\ troubles' \in 0..MaxTroubles
<1>2. SUFFICES Typed
  BY DEF W!WeatherTypeOK, VisitStages, WorkerStages
<1>3. ASSUME NEW v \in W!Visits, NEW at \in VisitStages, visits' = [visits EXCEPT ![v] = at]
      PROVE  visits' \in [W!Visits -> VisitStages]
  BY <1>1, <1>3
<1>4. ASSUME NEW w \in W!Workers, NEW at \in WorkerStages, W!Move(w, at)
      PROVE  workers' \in [W!Workers -> WorkerStages]
  BY <1>1, <1>4 DEF W!Move
<1>5. TRUE \in BOOLEAN /\ FALSE \in BOOLEAN
  OBVIOUS
<1>6. ASSUME W!Trouble PROVE troubles' \in 0..MaxTroubles
  BY <1>1, <1>6 DEF W!Trouble
<1>7. "off" \in VisitStages /\ "off" \in WorkerStages
  BY DEF VisitStages, WorkerStages
<1>8. ASSUME NEW v \in W!Visits, NEW answer \in W!Answers, W!Leave(v, answer)
      PROVE  visits' \in [W!Visits -> VisitStages] /\ shown' \in W!Answers
  BY <1>3, <1>7, <1>8 DEF W!Leave
<1>9. /\ "stale" \in W!Answers /\ "fresh" \in W!Answers /\ "pending" \in W!Answers
      /\ "unavailable" \in W!Answers /\ "fresh" \in W!Readings /\ "stale" \in W!Readings /\ "none" \in W!Readings
  BY DEF W!Answers, W!Readings
<1>10. ASSUME NEW v \in W!Visits, W!Read(v) PROVE Typed
  <2>1. CASE reading = "fresh"
    BY <1>1, <1>9, <1>10, <2>1 DEF W!Read
  <2>2. CASE reading # "fresh"
    <3>1. reading \in VisitStages
      BY <1>1 DEF VisitStages
    <3>2. visits' \in [W!Visits -> VisitStages]
      BY <1>3, <1>10, <2>2, <3>1 DEF W!Read
    <3>3. QED
      BY <1>1, <1>10, <2>2, <3>2 DEF W!Read
  <2>3. QED
    BY <2>1, <2>2
<1>11. ASSUME NEW v \in W!Visits, W!Wait(v) PROVE Typed
  <2>1. (IF W!Had(v) THEN "stale" ELSE IF error THEN "unavailable" ELSE "pending") \in W!Answers
    BY <1>9
  <2>2. visits' \in [W!Visits -> VisitStages] /\ shown' \in W!Answers
    BY <1>8, <1>11, <2>1 DEF W!Wait
  <2>3. QED
    BY <1>1, <1>11, <2>2 DEF W!Wait
<1>12. ASSUME NEW v \in W!Visits, W!TakeLease(v) PROVE Typed
  <2>1. (IF W!Had(v) THEN "asking again" ELSE "asking") \in VisitStages
    BY DEF VisitStages
  <2>2. visits' \in [W!Visits -> VisitStages]
    BY <1>3, <1>12, <2>1 DEF W!TakeLease
  <2>3. lease' \in BOOLEAN
    BY <1>12 DEF W!TakeLease
  <2>4. QED
    BY <1>1, <1>12, <2>2, <2>3 DEF W!TakeLease
<1>13. ASSUME NEW v \in W!Visits, W!Ping(v) PROVE Typed
  BY <1>1, <1>13 DEF W!Ping
<1>14. ASSUME NEW v \in W!Visits, W!Dispatch(v) PROVE Typed
  <2>1. (IF visits[v] = "asking again" THEN "stale" ELSE "pending") \in W!Answers
    BY <1>9
  <2>2. visits' \in [W!Visits -> VisitStages] /\ shown' \in W!Answers
    BY <1>8, <1>14, <2>1 DEF W!Dispatch
  <2>5. tasks < MaxTasks /\ tasks' = tasks + 1
    BY <1>14 DEF W!Dispatch
  <2>3. tasks' \in 0..MaxTasks
    BY <1>1, <2>5
  <2>4. QED
    BY <1>1, <1>14, <2>2, <2>3 DEF W!Dispatch
<1>15. ASSUME NEW v \in W!Visits, W!GiveUp(v) PROVE Typed
  <2>1. (IF visits[v] = "asking again" THEN "stale" ELSE "unavailable") \in W!Answers
    BY <1>9
  <2>2. visits' \in [W!Visits -> VisitStages] /\ shown' \in W!Answers
    BY <1>8, <1>15, <2>1 DEF W!GiveUp
  <2>3. error' \in BOOLEAN
    BY <1>15 DEF W!GiveUp
  <2>4. troubles' \in 0..MaxTroubles
    BY <1>1, <1>6, <1>15 DEF W!GiveUp
  <2>5. QED
    BY <1>1, <1>15, <2>2, <2>3, <2>4 DEF W!GiveUp
<1>16. ASSUME NEW w \in W!Workers, W!Begin(w) PROVE Typed
  <2>1. PICK by \in {"agent", "itself"} : W!Move(w, by)
    BY <1>16 DEF W!Begin
  <2>2. by \in WorkerStages
    BY DEF WorkerStages
  <2>3. tasks' \in 0..MaxTasks
    BY <1>1, <1>16 DEF W!Begin
  <2>4. workers' \in [W!Workers -> WorkerStages]
    BY <1>4, <2>1, <2>2
  <2>5. QED
    BY <1>1, <1>16, <2>3, <2>4 DEF W!Begin
<1>17. ASSUME NEW w \in W!Workers, W!Answer(w) PROVE Typed
  <2>1. "answered" \in WorkerStages
    BY DEF WorkerStages
  <2>2. workers' \in [W!Workers -> WorkerStages]
    BY <1>4, <1>17, <2>1 DEF W!Answer
  <2>3. QED
    BY <1>1, <1>17, <2>2 DEF W!Answer
<1>18. ASSUME NEW w \in W!Workers, W!Fail(w) PROVE Typed
  <2>1. workers' \in [W!Workers -> WorkerStages]
    BY <1>4, <1>7, <1>18 DEF W!Fail
  <2>2. error' \in BOOLEAN
    BY <1>18 DEF W!Fail
  <2>3. troubles' \in 0..MaxTroubles
    BY <1>6, <1>18 DEF W!Fail
  <2>4. QED
    BY <1>1, <1>18, <2>1, <2>2, <2>3 DEF W!Fail
<1>19. ASSUME NEW w \in W!Workers, W!Keep(w) PROVE Typed
  <2>1. "kept" \in WorkerStages
    BY DEF WorkerStages
  <2>2. workers' \in [W!Workers -> WorkerStages]
    BY <1>4, <1>19, <2>1 DEF W!Keep
  <2>3. QED
    BY <1>1, <1>9, <1>19, <2>2 DEF W!Keep
<1>20. ASSUME NEW w \in W!Workers, W!Clear(w) PROVE Typed
  <2>1. workers' \in [W!Workers -> WorkerStages]
    BY <1>4, <1>7, <1>20 DEF W!Clear
  <2>2. error' \in BOOLEAN
    BY <1>20 DEF W!Clear
  <2>3. QED
    BY <1>1, <1>20, <2>1, <2>2 DEF W!Clear
<1>21. CASE W!ExpireLease
  <2>1. lease' \in BOOLEAN
    BY <1>21 DEF W!ExpireLease
  <2>2. QED
    BY <1>1, <1>21, <2>1 DEF W!ExpireLease
<1>22. CASE W!ExpireError
  <2>1. error' \in BOOLEAN
    BY <1>22 DEF W!ExpireError
  <2>2. QED
    BY <1>1, <1>22, <2>1 DEF W!ExpireError
<1>23. CASE W!ForgetReached
  BY <1>1, <1>23 DEF W!ForgetReached
<1>24. CASE W!Age
  <2>1. troubles' \in 0..MaxTroubles /\ reading' \in W!Readings
    BY <1>6, <1>9, <1>24 DEF W!Age
  <2>2. QED
    BY <1>1, <1>24, <2>1 DEF W!Age
<1>25. CASE W!Disturb
  <2>1. troubles' \in 0..MaxTroubles
    BY <1>6, <1>25 DEF W!Disturb
  <2>2. CASE running /\ running' = FALSE /\ workers' = [w \in W!Workers |-> "off"] /\ UNCHANGED tasks
    <3>1. running' \in BOOLEAN
      BY <2>2
    <3>2. workers' \in [W!Workers -> WorkerStages]
      BY <1>7, <2>2
    <3>3. QED
      BY <1>1, <1>25, <2>1, <2>2, <3>1, <3>2 DEF W!Disturb
  <2>3. CASE tasks > 0 /\ tasks' = tasks - 1 /\ UNCHANGED <<running, workers>>
    <3>1. tasks' \in 0..MaxTasks
      BY <1>1, <2>3
    <3>2. QED
      BY <1>1, <1>25, <2>1, <2>3, <3>1 DEF W!Disturb
  <2>4. QED
    BY <1>25, <2>2, <2>3 DEF W!Disturb
<1>26. CASE W!Start
  <2>1. running' \in BOOLEAN
    BY <1>26 DEF W!Start
  <2>2. QED
    BY <1>1, <1>26, <2>1 DEF W!Start
<1>27. CASE UNCHANGED W!weather
  BY <1>1, <1>27 DEF W!weather
<1>28. QED
  BY <1>10, <1>11, <1>12, <1>13, <1>14, <1>15, <1>16, <1>17, <1>18, <1>19, <1>20, <1>21,
       <1>22, <1>23,
     <1>24, <1>25, <1>26, <1>27 DEF W!Next, W!Serve, W!Refresh, W!Visit, W!Expire

(* What the cache, the visits and the workers hold has its type, however   *)
(* readings, marks and workers come and go.                                *)
THEOREM WeatherIsTyped == ASSUME WeatherConstants PROVE W!Init /\ [][W!Next]_W!weather => []W!WeatherTypeOK
<1>1. W!WeatherTypeOK /\ [W!Next]_W!weather => W!WeatherTypeOK'
  BY WeatherNext
<1>2. QED
  BY <1>1, WeatherInit, PTL

-----------------------------------------------------------------------------
(* The models a backup covers, and their order.                            *)

CONSTANT Count
VARIABLES refs, dropped, ordered, path, own
C == INSTANCE ModelSelection

LEMMA ModelsCounted == ASSUME NEW S PROVE C!Cardinality(S) = Cardinality(S)
BY DEF C!Cardinality, Cardinality

(* The models can be counted.                                              *)
SelectionConstants == Count \in Nat

Refers == refs \in [C!Models -> SUBSET C!Models]

(* What lies one reference further, and a set that holds what it refers to.*)
Onward(models) == models \cup UNION {refs[m] : m \in models}
Closed(models) == \A m \in models : refs[m] \subseteq models

-----------------------------------------------------------------------------
(* What is false of nothing first is false of nothing.                     *)
LEMMA FirstOf ==
  ASSUME NEW T \in SUBSET Nat, T # {}
  PROVE  \E n \in T : \A m \in T : n <= m
<1>1. IsWellFoundedOn(OpToRel(<, Nat), Nat)
  BY NatLessThanWellFounded
<1>2. PICK n \in T : \A m \in T : <<m, n>> \notin OpToRel(<, Nat)
  BY <1>1, WFMin
<1>3. \A m \in T : ~ (m < n)
  BY <1>2 DEF OpToRel
<1>4. QED
  BY <1>3

LEMMA NoneIsFirst ==
  ASSUME NEW N \in Nat, NEW Bad \in SUBSET (0..N), 0 \notin Bad,
         \A n \in 0..N : n + 1 \in Bad => n \in Bad
  PROVE  Bad = {}
<1>1. SUFFICES ASSUME Bad # {} PROVE FALSE
  OBVIOUS
<1>2. PICK n \in Bad : \A m \in Bad : n <= m
  BY <1>1, FirstOf
<1>3. n \in 0..N /\ n # 0
  OBVIOUS
<1>4. PICK k \in 0..N : n = k + 1
  <2>1. n - 1 \in 0..N /\ n = (n - 1) + 1
    BY <1>3
  <2>2. QED
    BY <2>1
<1>5. k \in Bad
  BY <1>4
<1>6. n <= k
  BY <1>2, <1>5
<1>7. QED
  BY <1>4, <1>6

(* The sets that are reached step by step exist.                           *)
Growing(w, n, from) == w = [i \in 0..n |-> IF i = 0 THEN from ELSE Onward(w[i - 1])]

LEMMA GrowthExists ==
  ASSUME NEW N \in Nat, NEW from
  PROVE  \E w : Growing(w, N, from)
<1> DEFINE Bad == {n \in 0..N : \A w : ~Growing(w, n, from)}
<1>1. 0 \notin Bad
  <2>1. Growing([i \in 0..0 |-> from], 0, from)
    BY DEF Growing
  <2>2. QED
    BY <2>1
<1>2. ASSUME NEW n \in 0..N, n + 1 \in Bad PROVE n \in Bad
  <2>1. SUFFICES ASSUME NEW w, Growing(w, n, from) PROVE FALSE
    OBVIOUS
  <2> DEFINE v == [i \in 0..(n + 1) |-> IF i = n + 1 THEN Onward(w[n]) ELSE w[i]]
  <2>2. ASSUME NEW i \in 0..(n + 1) PROVE v[i] = IF i = 0 THEN from ELSE Onward(v[i - 1])
    <3>1. CASE i = n + 1
      <4>1. i # 0 /\ i - 1 = n /\ n \in 0..(n + 1) /\ n # n + 1
        BY <3>1
      <4>2. v[i] = Onward(w[n]) /\ v[n] = w[n]
        BY <3>1, <4>1
      <4>3. QED
        BY <4>1, <4>2
    <3>2. CASE i # n + 1
      <4>1. i \in 0..n /\ v[i] = w[i]
        BY <3>2
      <4>2. w[i] = IF i = 0 THEN from ELSE Onward(w[i - 1])
        BY <2>1, <4>1 DEF Growing
      <4>3. i # 0 => i - 1 \in 0..(n + 1) /\ i - 1 # n + 1
        BY <4>1
      <4>4. i # 0 => v[i - 1] = w[i - 1]
        BY <4>3
      <4>5. QED
        BY <4>1, <4>2, <4>4
    <3>3. QED
      BY <3>1, <3>2
  <2>3. v = [i \in 0..(n + 1) |-> v[i]]
    OBVIOUS
  <2> HIDE DEF v
  <2>4. v = [i \in 0..(n + 1) |-> IF i = 0 THEN from ELSE Onward(v[i - 1])]
    BY <2>2, <2>3
  <2>5. Growing(v, n + 1, from)
    BY <2>4 DEF Growing
  <2>6. QED
    BY <1>2, <2>5
<1>3. Bad \in SUBSET (0..N)
  OBVIOUS
<1>4. Bad = {}
  <2> HIDE DEF Bad
  <2>1. QED
    BY <1>1, <1>2, <1>3, NoneIsFirst
<1>5. N \in 0..N
  OBVIOUS
<1>6. QED
  BY <1>4, <1>5

LEMMA ReachedIs ==
  ASSUME SelectionConstants, NEW from
  PROVE  \E w : Growing(w, Count, from) /\ C!Reached(from) = w[Count]
<1> DEFINE w == CHOOSE w : Growing(w, Count, from)
<1>1. Growing(w, Count, from)
  BY GrowthExists DEF SelectionConstants
<1>2. C!Reached(from) = w[Count]
  BY DEF C!Reached, Growing, Onward
<1>3. QED
  BY <1>1, <1>2

-----------------------------------------------------------------------------
(* What is reached holds where it starts, is least and is closed.          *)
LEMMA GrowthIs ==
  ASSUME NEW N \in Nat, NEW from, NEW w, Growing(w, N, from)
  PROVE  w[0] = from /\ \A n \in 0..N : n + 1 \in 0..N => w[n + 1] = Onward(w[n])
BY DEF Growing

LEMMA ReachedHolds ==
  ASSUME SelectionConstants, NEW from
  PROVE  /\ from \subseteq C!Reached(from)
         /\ \A models : from \subseteq models /\ Closed(models) => C!Reached(from) \subseteq models
<1>1. PICK w : Growing(w, Count, from) /\ C!Reached(from) = w[Count]
  BY ReachedIs
<1>2. w[0] = from /\ \A n \in 0..Count : n + 1 \in 0..Count => w[n + 1] = Onward(w[n])
  BY <1>1, GrowthIs DEF SelectionConstants
<1>3. from \subseteq w[Count]
  <2> DEFINE Bad == {n \in 0..Count : ~(from \subseteq w[n])}
  <2>1. Bad \in SUBSET (0..Count) /\ 0 \notin Bad
    BY <1>2
  <2>2. ASSUME NEW n \in 0..Count, n + 1 \in Bad PROVE n \in Bad
    <3>1. w[n] \subseteq w[n + 1]
      BY <1>2, <2>2 DEF Onward
    <3>2. QED
      BY <2>2, <3>1
  <2>3. Bad = {}
    <3> HIDE DEF Bad
    <3>1. QED
      BY <2>1, <2>2, NoneIsFirst DEF SelectionConstants
  <2>4. Count \in 0..Count
    BY DEF SelectionConstants
  <2>5. QED
    BY <2>3, <2>4
<1>4. ASSUME NEW models, from \subseteq models, Closed(models) PROVE w[Count] \subseteq models
  <2> DEFINE Bad == {n \in 0..Count : ~(w[n] \subseteq models)}
  <2>1. Bad \in SUBSET (0..Count) /\ 0 \notin Bad
    BY <1>2, <1>4
  <2>2. ASSUME NEW n \in 0..Count, n + 1 \in Bad PROVE n \in Bad
    <3>1. SUFFICES ASSUME w[n] \subseteq models PROVE w[n + 1] \subseteq models
      BY <2>2
    <3>2. w[n + 1] = Onward(w[n])
      BY <1>2, <2>2
    <3>3. QED
      BY <1>4, <3>1, <3>2 DEF Onward, Closed
  <2>3. Bad = {}
    <3> HIDE DEF Bad
    <3>1. QED
      BY <2>1, <2>2, NoneIsFirst DEF SelectionConstants
  <2>4. Count \in 0..Count
    BY DEF SelectionConstants
  <2>5. QED
    BY <2>3, <2>4
<1>5. QED
  BY <1>1, <1>3, <1>4

(* Models are as many as the steps: while something new is reached, each   *)
(* step adds one at least.                                                 *)
LEMMA ReachedIsClosed ==
  ASSUME SelectionConstants, Refers, NEW from \in SUBSET C!Models
  PROVE  C!Reached(from) \subseteq C!Models /\ Closed(C!Reached(from))
<1>1. PICK w : Growing(w, Count, from) /\ C!Reached(from) = w[Count]
  BY ReachedIs
<1>2. w[0] = from /\ \A n \in 0..Count : n + 1 \in 0..Count => w[n + 1] = Onward(w[n])
  BY <1>1, GrowthIs DEF SelectionConstants
<1>3. Closed(C!Models)
  BY DEF Closed, Refers
<1>4. IsFiniteSet(C!Models) /\ Cardinality(C!Models) = Count
  BY FS_Interval DEF C!Models, SelectionConstants
<1>5. \A n \in 0..Count : w[n] \subseteq C!Models
  <2> DEFINE Bad == {n \in 0..Count : ~(w[n] \subseteq C!Models)}
  <2>1. Bad \in SUBSET (0..Count) /\ 0 \notin Bad
    BY <1>2
  <2>2. ASSUME NEW n \in 0..Count, n + 1 \in Bad PROVE n \in Bad
    <3>1. SUFFICES ASSUME w[n] \subseteq C!Models PROVE w[n + 1] \subseteq C!Models
      BY <2>2
    <3>2. w[n + 1] = Onward(w[n])
      BY <1>2, <2>2
    <3>3. QED
      BY <1>3, <3>1, <3>2 DEF Onward, Closed
  <2>3. Bad = {}
    <3> HIDE DEF Bad
    <3>1. QED
      BY <2>1, <2>2, NoneIsFirst DEF SelectionConstants
  <2>4. QED
    BY <2>3
<1>6. SUFFICES ASSUME ~Closed(w[Count]) PROVE FALSE
  <2>1. Count \in 0..Count
    BY DEF SelectionConstants
  <2>2. QED
    BY <1>1, <1>5, <2>1
<1>7. ASSUME NEW n \in 0..Count, n + 1 \in 0..Count PROVE w[n + 1] # w[n]
  <2>1. SUFFICES ASSUME w[n + 1] = w[n] PROVE FALSE
    OBVIOUS
  <2>2. Onward(w[n]) = w[n]
    BY <1>2, <1>7, <2>1
  <2> DEFINE Bad == {k \in 0..Count : k >= n /\ w[k] # w[n]}
  <2>3. Bad \in SUBSET (0..Count) /\ 0 \notin Bad
    <3>1. 0 >= n => n = 0
      OBVIOUS
    <3>2. QED
      BY <3>1
  <2>4. ASSUME NEW k \in 0..Count, k + 1 \in Bad PROVE k \in Bad
    <3>1. SUFFICES ASSUME k < n \/ w[k] = w[n] PROVE k + 1 < n \/ w[k + 1] = w[n]
      BY <2>4
    <3>2. w[k + 1] = Onward(w[k])
      BY <1>2, <2>4
    <3>3. CASE k < n
      <4>1. k + 1 < n \/ k + 1 = n
        BY <3>3
      <4>2. QED
        BY <4>1
    <3>4. CASE w[k] = w[n]
      BY <2>2, <3>2, <3>4
    <3>5. QED
      BY <3>1, <3>3, <3>4
  <2>5. Bad = {}
    <3> HIDE DEF Bad
    <3>1. QED
      BY <2>3, <2>4, NoneIsFirst DEF SelectionConstants
  <2>6. Count \in 0..Count /\ Count >= n
    BY DEF SelectionConstants
  <2>7. w[Count] = w[n]
    BY <2>5, <2>6
  <2>8. QED
    BY <1>6, <2>2, <2>7 DEF Closed, Onward
<1>8. \A n \in 0..Count : IsFiniteSet(w[n]) /\ Cardinality(w[n]) >= n
  <2> DEFINE Bad == {n \in 0..Count : ~(Cardinality(w[n]) >= n)}
  <2>1. \A n \in 0..Count : IsFiniteSet(w[n]) /\ Cardinality(w[n]) \in Nat
    BY <1>4, <1>5, FS_Subset, FS_CardinalityType
  <2>2. Bad \in SUBSET (0..Count) /\ 0 \notin Bad
    BY <2>1
  <2>3. ASSUME NEW n \in 0..Count, n + 1 \in Bad PROVE n \in Bad
    <3>1. n + 1 \in 0..Count
      BY <2>3
    <3>2. w[n] \subseteq w[n + 1] /\ w[n + 1] # w[n]
      BY <1>2, <1>7, <3>1 DEF Onward
    <3>3. IsFiniteSet(w[n + 1]) /\ Cardinality(w[n + 1]) \in Nat /\ Cardinality(w[n]) \in Nat
      BY <2>1, <3>1
    <3>4. Cardinality(w[n]) <= Cardinality(w[n + 1]) /\ Cardinality(w[n + 1]) # Cardinality(w[n])
      BY <3>2, <3>3, FS_Subset
    <3>5. ~(Cardinality(w[n + 1]) >= n + 1)
      BY <2>3
    <3>6. ~(Cardinality(w[n]) >= n)
      BY <3>3, <3>4, <3>5
    <3>7. QED
      BY <3>6
  <2>4. Bad = {}
    <3> HIDE DEF Bad
    <3>1. QED
      BY <2>2, <2>3, NoneIsFirst DEF SelectionConstants
  <2>5. QED
    BY <2>1, <2>4
<1>9. w[Count] = C!Models
  <2>1. Count \in 0..Count /\ Count \in Nat
    BY DEF SelectionConstants
  <2>2. w[Count] \subseteq C!Models /\ Cardinality(w[Count]) >= Cardinality(C!Models)
    BY <1>4, <1>5, <1>8, <2>1
  <2>3. Cardinality(w[Count]) <= Cardinality(C!Models)
    BY <1>4, <2>2, FS_Subset
  <2>4. Cardinality(w[Count]) \in Nat /\ Cardinality(C!Models) \in Nat
    BY <1>4, <1>8, <2>1, FS_CardinalityType
  <2>5. Cardinality(w[Count]) = Cardinality(C!Models)
    BY <2>2, <2>3, <2>4
  <2>6. QED
    BY <1>4, <2>2, <2>5, FS_Subset
<1>10. QED
  BY <1>3, <1>6, <1>9

-----------------------------------------------------------------------------
(* The inductive invariant: what stays is needed; a model is visited once  *)
(* and refers to those below it on the path; what a visited one refers to  *)
(* came before, or led to it.                                              *)
SelectionTypes == Refers /\ C!SelectionTypeOK

Placed(models) == \A i, j \in DOMAIN models : models[i] = models[j] => i = j
Linked == \A k \in DOMAIN path : k - 1 \in DOMAIN path => path[k] \in refs[path[k - 1]]
Accounted(i) ==
  \A r \in refs[ordered[i]] \cap C!Kept :
    (\E j \in DOMAIN ordered : j < i /\ ordered[j] = r) \/ ordered[i] \in C!Reached({r})

SelectionInv ==
  /\ SelectionTypes /\ C!Kept \subseteq C!Reached(C!Models \ own)
  /\ C!Visited \cup C!Visiting \subseteq C!Kept /\ C!Visited \cap C!Visiting = {}
  /\ Placed(ordered) /\ Placed(path) /\ Linked
  /\ \A i \in DOMAIN ordered : Accounted(i)

LEMMA SelectionInit == ASSUME SelectionConstants, C!Init PROVE SelectionInv
<1>1. SelectionTypes
  BY DEF C!Init, SelectionTypes, C!SelectionTypeOK, Refers
<1>2. C!Kept \subseteq C!Models \ own
  BY DEF C!Init, C!Kept
<1>3. C!Models \ own \subseteq C!Reached(C!Models \ own)
  BY ReachedHolds
<1>4. ordered = <<>> /\ path = <<>> /\ DOMAIN ordered = {} /\ DOMAIN path = {}
  BY DEF C!Init
<1>5. C!Visited = {} /\ C!Visiting = {}
  BY <1>4 DEF C!Visited, C!Visiting, C!Range
<1>6. QED
  BY <1>1, <1>2, <1>3, <1>4, <1>5 DEF SelectionInv, Placed, Linked

(* The least of some models is one of them.                                *)
LEMMA LeastIs ==
  ASSUME NEW models \in SUBSET C!Models
  PROVE  (C!LeastOf(models) = C!NoOne /\ models = {}) \/ (C!LeastOf(models) \in models /\ C!LeastOf(models) # C!NoOne)
<1>1. CASE models = {}
  BY <1>1 DEF C!LeastOf
<1>2. CASE models # {}
  <2>1. \E m \in models : \A n \in models : m <= n
    BY <1>2, FirstOf DEF C!Models
  <2>2. C!LeastOf(models) \in models
    BY <1>2, <2>1 DEF C!LeastOf
  <2>3. QED
    BY <2>2 DEF C!Models, C!NoOne
<1>3. QED
  BY <1>1, <1>2

(* Which model comes next.                                                 *)
LEMMA NextIs ==
  ASSUME SelectionTypes
  PROVE  /\ C!NextModel # C!NoOne =>
              /\ C!Fresh(C!NextModel) /\ C!NextModel \in C!Models
              /\ path # <<>> => C!NextModel \in refs[C!Last(path)]
         /\ C!NextModel = C!NoOne => \A m \in (IF path = <<>> THEN C!Models ELSE refs[C!Last(path)]) : ~C!Fresh(m)
<1> DEFINE among == IF path = <<>> THEN C!Models ELSE refs[C!Last(path)]
<1>1. among \subseteq C!Models
  <2>1. CASE path # <<>>
    <3>1. C!Last(path) \in C!Models
      BY <2>1 DEF SelectionTypes, C!SelectionTypeOK, C!Last
    <3>2. QED
      BY <3>1 DEF SelectionTypes, Refers
  <2>2. QED
    BY <2>1
<1>2. C!NextModel = C!LeastOf({m \in among : C!Fresh(m)})
  BY DEF C!NextModel
<1> HIDE DEF among
<1>3. {m \in among : C!Fresh(m)} \in SUBSET C!Models
  BY <1>1
<1>4. \/ C!NextModel = C!NoOne /\ {m \in among : C!Fresh(m)} = {}
      \/ C!NextModel \in {m \in among : C!Fresh(m)} /\ C!NextModel # C!NoOne
  BY <1>2, <1>3, LeastIs
<1>5. QED
  BY <1>1, <1>4 DEF among

(* What is added, and what is taken off the end.                           *)
LEMMA AddedIs ==
  ASSUME NEW S, NEW s \in Seq(S), NEW m \in S
  PROVE  /\ Append(s, m) \in Seq(S) /\ Len(s) \in Nat
         /\ DOMAIN s = 1..Len(s) /\ DOMAIN Append(s, m) = 1..(Len(s) + 1)
         /\ Append(s, m)[Len(s) + 1] = m
         /\ \A i \in DOMAIN s : Append(s, m)[i] = s[i] /\ i \in DOMAIN Append(s, m)
         /\ C!Range(Append(s, m)) = C!Range(s) \cup {m}
<1>1. /\ Append(s, m) \in Seq(S) /\ Len(s) \in Nat
      /\ DOMAIN s = 1..Len(s) /\ DOMAIN Append(s, m) = 1..(Len(s) + 1)
      /\ Append(s, m)[Len(s) + 1] = m
  OBVIOUS
<1>2. \A i \in DOMAIN s : Append(s, m)[i] = s[i] /\ i \in DOMAIN Append(s, m)
  OBVIOUS
<1>3. \A i \in DOMAIN Append(s, m) : i = Len(s) + 1 \/ i \in DOMAIN s
  BY <1>1
<1>4. Len(s) + 1 \in DOMAIN Append(s, m)
  BY <1>1
<1>5. QED
  BY <1>1, <1>2, <1>3, <1>4 DEF C!Range

LEMMA FrontIs ==
  ASSUME NEW S, NEW s \in Seq(S), s # <<>>
  PROVE  /\ C!Front(s) \in Seq(S) /\ C!Last(s) \in S /\ Len(s) \in DOMAIN s /\ C!Last(s) = s[Len(s)]
         /\ DOMAIN C!Front(s) = DOMAIN s \ {Len(s)}
         /\ \A i \in DOMAIN C!Front(s) : C!Front(s)[i] = s[i]
         /\ C!Range(s) = C!Range(C!Front(s)) \cup {C!Last(s)}
<1>1. PICK n \in Nat : n = Len(s) - 1 /\ Len(s) = n + 1
  <2>1. Len(s) \in Nat /\ Len(s) # 0
    OBVIOUS
  <2>2. Len(s) - 1 \in Nat /\ Len(s) = (Len(s) - 1) + 1
    BY <2>1
  <2>3. QED
    BY <2>2
<1>2. C!Front(s) = SubSeq(s, 1, n)
  BY <1>1 DEF C!Front
<1>3. SubSeq(s, 1, n) = [i \in 1..n |-> s[i]]
  BY <1>1
<1>4. \A i \in 1..n : s[i] \in S
  BY <1>1
<1>5. [i \in 1..n |-> s[i]] \in Seq(S) /\ DOMAIN [i \in 1..n |-> s[i]] = 1..n
  BY <1>4
<1>6. /\ C!Front(s) \in Seq(S) /\ DOMAIN C!Front(s) = 1..n
      /\ \A i \in DOMAIN C!Front(s) : C!Front(s)[i] = s[i]
  BY <1>2, <1>3, <1>5
<1>7. DOMAIN s = 1..(n + 1) /\ n + 1 = Len(s)
  BY <1>1
<1>8. Len(s) \in DOMAIN s /\ C!Last(s) = s[Len(s)] /\ C!Last(s) \in S
  BY <1>7 DEF C!Last
<1>9. DOMAIN C!Front(s) = DOMAIN s \ {Len(s)}
  BY <1>1, <1>6, <1>7
<1>10. C!Range(s) = C!Range(C!Front(s)) \cup {C!Last(s)}
  BY <1>6, <1>8, <1>9 DEF C!Range
<1>11. QED
  BY <1>6, <1>8, <1>9, <1>10

(* The end of the path is reached from every model on it.                  *)
LEMMA PathReaches ==
  ASSUME SelectionConstants, SelectionTypes, Linked, NEW k \in DOMAIN path
  PROVE  C!Last(path) \in C!Reached({path[k]})
<1>1. path \in Seq(C!Models) /\ DOMAIN path = 1..Len(path) /\ Len(path) \in Nat /\ path[k] \in C!Models
  BY DEF SelectionTypes, C!SelectionTypeOK
<1>2. /\ {path[k]} \subseteq C!Reached({path[k]}) /\ Closed(C!Reached({path[k]}))
      /\ C!Reached({path[k]}) \subseteq C!Models
  BY <1>1, ReachedHolds, ReachedIsClosed DEF SelectionTypes
<1> DEFINE Bad == {i \in 0..Len(path) : i >= k /\ path[i] \notin C!Reached({path[k]})}
<1>3. Bad \in SUBSET (0..Len(path)) /\ 0 \notin Bad
  BY <1>1
<1>4. ASSUME NEW i \in 0..Len(path), i + 1 \in Bad PROVE i \in Bad
  <2>1. i + 1 # k /\ i + 1 >= k /\ i + 1 <= Len(path) /\ path[i + 1] \notin C!Reached({path[k]})
    BY <1>2, <1>4
  <2>2. i >= k /\ i \in DOMAIN path /\ i + 1 \in DOMAIN path /\ (i + 1) - 1 = i
    BY <1>1, <2>1
  <2>3. path[i + 1] \in refs[path[i]]
    BY <2>2 DEF Linked
  <2>4. path[i] \notin C!Reached({path[k]})
    BY <1>2, <2>1, <2>3 DEF Closed
  <2>5. QED
    BY <2>2, <2>4
<1>5. Bad = {}
  <2> HIDE DEF Bad
  <2>1. QED
    BY <1>1, <1>3, <1>4, NoneIsFirst
<1>6. Len(path) \in 0..Len(path) /\ Len(path) >= k
  BY <1>1
<1>7. QED
  BY <1>5, <1>6 DEF C!Last

-----------------------------------------------------------------------------
(* Each step.                                                              *)
LEMMA AccountedStays ==
  ASSUME UNCHANGED <<refs, ordered>>, C!Kept' = C!Kept, \A r : C!Reached({r})' = C!Reached({r}),
         NEW i \in DOMAIN ordered, Accounted(i)
  PROVE  Accounted(i)'
<1>1. SUFFICES ASSUME NEW r \in refs[ordered[i]] \cap C!Kept
               PROVE  (\E j \in DOMAIN ordered : j < i /\ ordered[j] = r) \/ ordered[i] \in C!Reached({r})
  BY DEF Accounted
<1>2. QED
  BY <1>1 DEF Accounted

LEMMA KeepStep == ASSUME SelectionConstants, SelectionInv, C!Keep PROVE SelectionInv'
<1>1. PICK r \in C!Missed : dropped' = dropped \ {r}
  BY DEF C!Keep
<1>2. PICK m \in C!Kept : r \in refs[m] /\ r \in dropped
  BY <1>1 DEF C!Missed
<1>3. UNCHANGED <<refs, ordered, path, own>> /\ ordered = <<>> /\ path = <<>>
  BY DEF C!Keep
<1>4. dropped \subseteq own /\ own \subseteq C!Models /\ Refers
  BY DEF SelectionInv, SelectionTypes, C!SelectionTypeOK
<1>5. SelectionTypes'
  BY <1>1, <1>3 DEF SelectionInv, SelectionTypes, C!SelectionTypeOK, Refers
<1>6. Closed(C!Reached(C!Models \ own)) /\ C!Kept \subseteq C!Reached(C!Models \ own)
  BY <1>4, ReachedIsClosed DEF SelectionInv
<1>7. r \in C!Reached(C!Models \ own)
  BY <1>2, <1>6 DEF Closed
<1>8. C!Kept' = C!Kept \cup {r}
  BY <1>1, <1>2, <1>4 DEF C!Kept
<1>9. C!Reached(C!Models \ own)' = C!Reached(C!Models \ own)
  BY <1>3 DEF C!Reached
<1>10. DOMAIN ordered' = {} /\ DOMAIN path' = {} /\ C!Visited' = {} /\ C!Visiting' = {}
  BY <1>3 DEF C!Visited, C!Visiting, C!Range
<1>11. Placed(ordered)' /\ Placed(path)' /\ Linked' /\ \A i \in DOMAIN ordered' : Accounted(i)'
  BY <1>10 DEF Placed, Linked
<1>12. C!Kept' \subseteq C!Reached(C!Models \ own)'
  BY <1>6, <1>7, <1>8, <1>9
<1>13. QED
  BY <1>5, <1>10, <1>11, <1>12 DEF SelectionInv

LEMMA VisitStep == ASSUME SelectionConstants, SelectionInv, C!Visit PROVE SelectionInv'
<1> DEFINE m == C!NextModel
<1>1. path' = Append(path, m) /\ m # C!NoOne /\ UNCHANGED <<refs, dropped, ordered, own>>
  BY DEF C!Visit
<1>2. C!Fresh(m) /\ m \in C!Models /\ (path # <<>> => m \in refs[C!Last(path)])
  BY <1>1, NextIs DEF SelectionInv
<1> HIDE DEF m
<1>3. path \in Seq(C!Models)
  BY DEF SelectionInv, SelectionTypes, C!SelectionTypeOK
<1>4. /\ path' \in Seq(C!Models) /\ Len(path) \in Nat
      /\ DOMAIN path = 1..Len(path) /\ DOMAIN path' = 1..(Len(path) + 1) /\ path'[Len(path) + 1] = m
      /\ \A i \in DOMAIN path : path'[i] = path[i] /\ i \in DOMAIN path'
      /\ C!Range(path') = C!Range(path) \cup {m}
  BY <1>1, <1>2, <1>3, AddedIs
<1>5. SelectionTypes'
  BY <1>1, <1>4 DEF SelectionInv, SelectionTypes, C!SelectionTypeOK, Refers
<1>6. C!Kept' = C!Kept /\ C!Visited' = C!Visited /\ C!Visiting' = C!Visiting \cup {m}
  BY <1>1, <1>4 DEF C!Kept, C!Visited, C!Visiting
<1>7. m \in C!Kept /\ m \notin C!Visited /\ m \notin C!Visiting
  BY <1>2 DEF C!Fresh
<1>8. Placed(path)'
  <2>1. \A i \in DOMAIN path : path[i] # m
    BY <1>7 DEF C!Visiting, C!Range
  <2>2. \A i \in DOMAIN path' : i = Len(path) + 1 \/ i \in DOMAIN path
    BY <1>4
  <2>3. Placed(path)
    BY DEF SelectionInv
  <2>4. QED
    BY <1>4, <2>1, <2>2, <2>3 DEF Placed
<1>9. Linked'
  <2>1. SUFFICES ASSUME NEW k \in DOMAIN path', k - 1 \in DOMAIN path'
                 PROVE  path'[k] \in refs[path'[k - 1]]
    BY <1>1 DEF Linked
  <2>2. CASE k \in DOMAIN path
    <3>1. k - 1 \in DOMAIN path
      BY <1>4, <2>1, <2>2
    <3>2. path[k] \in refs[path[k - 1]]
      BY <2>2, <3>1 DEF SelectionInv, Linked
    <3>3. QED
      BY <1>4, <2>2, <3>1, <3>2
  <2>3. CASE k \notin DOMAIN path
    <3>1. k = Len(path) + 1 /\ k - 1 = Len(path) /\ Len(path) \in DOMAIN path
      BY <1>4, <2>1, <2>3
    <3>2. path # <<>>
      BY <1>4, <3>1
    <3>3. m \in refs[path[Len(path)]]
      BY <1>2, <3>2 DEF C!Last
    <3>4. QED
      BY <1>4, <3>1, <3>3
  <2>4. QED
    BY <2>2, <2>3
<1>10. C!Reached(C!Models \ own)' = C!Reached(C!Models \ own) /\ \A r : C!Reached({r})' = C!Reached({r})
  BY <1>1 DEF C!Reached
<1>11. ASSUME NEW i \in DOMAIN ordered' PROVE Accounted(i)'
  BY <1>1, <1>6, <1>10, <1>11, AccountedStays DEF SelectionInv
<1>12. Placed(ordered)'
  BY <1>1 DEF SelectionInv, Placed
<1>13. QED
  BY <1>5, <1>6, <1>7, <1>8, <1>9, <1>10, <1>11, <1>12 DEF SelectionInv

LEMMA LeaveStep == ASSUME SelectionConstants, SelectionInv, C!Leave PROVE SelectionInv'
<1> DEFINE m == C!Last(path)
           n == Len(ordered)
<1>1. /\ path # <<>> /\ C!NextModel = C!NoOne /\ ordered' = Append(ordered, m) /\ path' = C!Front(path)
      /\ UNCHANGED <<refs, dropped, own>>
  BY DEF C!Leave
<1>2. path \in Seq(C!Models) /\ ordered \in Seq(C!Models) /\ Refers
  BY DEF SelectionInv, SelectionTypes, C!SelectionTypeOK
<1>3. /\ path' \in Seq(C!Models) /\ m \in C!Models /\ Len(path) \in DOMAIN path /\ m = path[Len(path)]
      /\ DOMAIN path' = DOMAIN path \ {Len(path)}
      /\ \A i \in DOMAIN path' : path'[i] = path[i]
      /\ C!Range(path) = C!Range(path') \cup {m}
  BY <1>1, <1>2, FrontIs
<1>4. \A r \in refs[m] : ~C!Fresh(r)
  BY <1>1, NextIs DEF SelectionInv
<1>5. \A k \in DOMAIN path : m \in C!Reached({path[k]})
  BY PathReaches DEF SelectionInv
<1> HIDE DEF m
<1>6. /\ ordered' \in Seq(C!Models) /\ n \in Nat
      /\ DOMAIN ordered = 1..n /\ DOMAIN ordered' = 1..(n + 1) /\ ordered'[n + 1] = m
      /\ \A i \in DOMAIN ordered : ordered'[i] = ordered[i] /\ i \in DOMAIN ordered'
      /\ C!Range(ordered') = C!Range(ordered) \cup {m}
  BY <1>1, <1>2, <1>3, AddedIs
<1> HIDE DEF n
<1>7. SelectionTypes'
  BY <1>1, <1>3, <1>6 DEF SelectionInv, SelectionTypes, C!SelectionTypeOK, Refers
<1>8. C!Kept' = C!Kept /\ C!Visited' = C!Visited \cup {m} /\ C!Visiting = C!Visiting' \cup {m}
  BY <1>1, <1>3, <1>6 DEF C!Kept, C!Visited, C!Visiting
<1>9. m \notin C!Visiting' /\ m \notin C!Visited
  <2>1. \A i \in DOMAIN path' : path'[i] # m
    BY <1>3 DEF SelectionInv, Placed
  <2>2. m \notin C!Visiting'
    BY <2>1 DEF C!Visiting, C!Range
  <2>3. QED
    BY <1>8, <2>2 DEF SelectionInv
<1>10. C!Visited' \cup C!Visiting' \subseteq C!Kept' /\ C!Visited' \cap C!Visiting' = {}
  BY <1>8, <1>9 DEF SelectionInv
<1>11. Placed(path)'
  BY <1>3 DEF SelectionInv, Placed
<1>12. Placed(ordered)'
  <2>1. \A i \in DOMAIN ordered : ordered[i] # m
    BY <1>9 DEF C!Visited, C!Range
  <2>2. \A i \in DOMAIN ordered' : i = n + 1 \/ i \in DOMAIN ordered
    BY <1>6
  <2>3. Placed(ordered)
    BY DEF SelectionInv
  <2>4. QED
    BY <1>6, <2>1, <2>2, <2>3 DEF Placed
<1>13. Linked'
  <2>1. SUFFICES ASSUME NEW k \in DOMAIN path', k - 1 \in DOMAIN path'
                 PROVE  path'[k] \in refs[path'[k - 1]]
    BY <1>1 DEF Linked
  <2>2. path[k] \in refs[path[k - 1]]
    BY <1>3, <2>1 DEF SelectionInv, Linked
  <2>3. QED
    BY <1>3, <2>1, <2>2
<1>14. C!Reached(C!Models \ own)' = C!Reached(C!Models \ own) /\ \A r : C!Reached({r})' = C!Reached({r})
  BY <1>1 DEF C!Reached
<1>15. ASSUME NEW i \in DOMAIN ordered' PROVE Accounted(i)'
  <2>1. SUFFICES ASSUME NEW r \in refs[ordered'[i]] \cap C!Kept
                 PROVE  (\E j \in DOMAIN ordered' : j < i /\ ordered'[j] = r) \/ ordered'[i] \in C!Reached({r})
    BY <1>1, <1>8, <1>14 DEF Accounted
  <2>2. CASE i \in DOMAIN ordered
    <3>1. r \in refs[ordered[i]] \cap C!Kept
      BY <1>6, <2>1, <2>2
    <3>2. (\E j \in DOMAIN ordered : j < i /\ ordered[j] = r) \/ ordered[i] \in C!Reached({r})
      BY <2>2, <3>1 DEF SelectionInv, Accounted
    <3>3. QED
      BY <1>6, <2>2, <3>2
  <2>3. CASE i \notin DOMAIN ordered
    <3>1. i = n + 1 /\ ordered'[i] = m
      BY <1>6, <2>3
    <3>2. r \in C!Kept /\ ~C!Fresh(r)
      BY <1>4, <2>1, <3>1
    <3>3. r \in C!Visited \/ r \in C!Visiting
      BY <3>2 DEF C!Fresh
    <3>4. CASE r \in C!Visited
      <4>1. PICK j \in DOMAIN ordered : ordered[j] = r
        BY <3>4 DEF C!Visited, C!Range
      <4>2. j < i
        BY <1>6, <3>1
      <4>3. QED
        BY <1>6, <4>1, <4>2
    <3>5. CASE r \in C!Visiting
      <4>1. PICK k \in DOMAIN path : path[k] = r
        BY <3>5 DEF C!Visiting, C!Range
      <4>2. QED
        BY <1>5, <3>1, <4>1
    <3>6. QED
      BY <3>3, <3>4, <3>5
  <2>4. QED
    BY <2>2, <2>3
<1>16. QED
  BY <1>7, <1>8, <1>10, <1>11, <1>12, <1>13, <1>14, <1>15 DEF SelectionInv

LEMMA SelectionStep == ASSUME SelectionConstants, SelectionInv, [C!Next]_C!selection PROVE SelectionInv'
<1>1. CASE UNCHANGED C!selection
  <2>1. UNCHANGED <<refs, dropped, ordered, path, own>>
    BY <1>1 DEF C!selection
  <2>2. /\ C!Kept' = C!Kept /\ C!Visited' = C!Visited /\ C!Visiting' = C!Visiting
        /\ C!Reached(C!Models \ own)' = C!Reached(C!Models \ own) /\ \A r : C!Reached({r})' = C!Reached({r})
    BY <2>1 DEF C!Kept, C!Visited, C!Visiting, C!Reached
  <2>3. ASSUME NEW i \in DOMAIN ordered' PROVE Accounted(i)'
    BY <2>1, <2>2, <2>3, AccountedStays DEF SelectionInv
  <2>4. SelectionTypes' /\ Placed(ordered)' /\ Placed(path)' /\ Linked'
    BY <2>1 DEF SelectionInv, SelectionTypes, C!SelectionTypeOK, Refers, Placed, Linked
  <2>5. QED
    BY <2>2, <2>3, <2>4 DEF SelectionInv
<1>2. QED
  BY <1>1, KeepStep, VisitStep, LeaveStep DEF C!Next

(* What the invariant says of a selection that is complete.                *)
LEMMA SelectionFollows ==
  ASSUME SelectionConstants, SelectionInv PROVE C!SelectionTypeOK /\ C!SelectionIsComplete
<1>1. SelectionTypes /\ Refers /\ dropped \subseteq own /\ own \subseteq C!Models /\ ordered \in Seq(C!Models)
  BY DEF SelectionInv, SelectionTypes, C!SelectionTypeOK
<1>2. SUFFICES ASSUME C!Missed = {}, C!Visited = C!Kept
               PROVE  /\ C!Kept = C!Reached(C!Models \ own) /\ Len(ordered) = Cardinality(C!Kept)
                      /\ \A i, j \in DOMAIN ordered :
                           ordered[j] \in refs[ordered[i]] /\ ordered[i] \notin C!Reached({ordered[j]}) => j < i
  BY <1>1, ModelsCounted DEF SelectionTypes, C!SelectionIsComplete, C!Ready
<1>3. Closed(C!Kept)
  BY <1>1, <1>2 DEF Closed, C!Kept, C!Missed, Refers
<1>4. C!Models \ own \subseteq C!Kept
  BY <1>1 DEF C!Kept
<1>5. C!Kept = C!Reached(C!Models \ own)
  <2>1. C!Kept \subseteq C!Reached(C!Models \ own)
    BY DEF SelectionInv
  <2>2. C!Reached(C!Models \ own) \subseteq C!Kept
    BY <1>3, <1>4, ReachedHolds
  <2>3. QED
    BY <2>1, <2>2
<1>6. Len(ordered) = Cardinality(C!Kept)
  <2>1. DOMAIN ordered = 1..Len(ordered) /\ Len(ordered) \in Nat
    BY <1>1
  <2>2. ordered \in [1..Len(ordered) -> C!Kept]
    BY <1>1, <1>2, <2>1 DEF C!Visited, C!Range
  <2>5. \A i, j \in 1..Len(ordered) : ordered[i] = ordered[j] => i = j
    BY <2>1 DEF SelectionInv, Placed
  <2>6. \A m \in C!Kept : \E i \in 1..Len(ordered) : ordered[i] = m
    BY <1>2, <2>1 DEF C!Visited, C!Range
  <2>3. ordered \in Bijection(1..Len(ordered), C!Kept)
    BY <2>2, <2>5, <2>6 DEF Bijection, Injection, Surjection, IsInjective
  <2>4. QED
    BY <2>1, <2>3, FS_CountingElements DEF ExistsBijection
<1>7. ASSUME NEW i \in DOMAIN ordered, NEW j \in DOMAIN ordered,
             ordered[j] \in refs[ordered[i]], ordered[i] \notin C!Reached({ordered[j]})
      PROVE  j < i
  <2>1. ordered[j] \in C!Kept
    BY <1>2, <1>7 DEF C!Visited, C!Range
  <2>2. PICK k \in DOMAIN ordered : k < i /\ ordered[k] = ordered[j]
    BY <1>7, <2>1 DEF SelectionInv, Accounted
  <2>3. k = j
    BY <2>2 DEF SelectionInv, Placed
  <2>4. QED
    BY <2>2, <2>3
<1>8. QED
  BY <1>5, <1>6, <1>7

(* However the models refer to each other, and whichever are bookkeeping,  *)
(* a complete selection holds what is needed, once, and in order.          *)
THEOREM SelectionCompletes ==
  ASSUME SelectionConstants PROVE C!Init /\ [][C!Next]_C!selection => [](C!SelectionTypeOK /\ C!SelectionIsComplete)
<1>1. SelectionInv /\ [C!Next]_C!selection => SelectionInv'
  BY SelectionStep
<1>2. SelectionInv => C!SelectionTypeOK /\ C!SelectionIsComplete
  BY SelectionFollows
<1>3. QED
  BY <1>1, <1>2, SelectionInit, PTL

-----------------------------------------------------------------------------
(* The threads that write an archive, and who opens it.                    *)

CONSTANTS Size, Frame, MaxReports
VARIABLES written, buffer, queue, payload, builder, encryptor, reporter, row, file, reopened
P == INSTANCE ArchivePipeline WITH opened <- reopened

(* A ZIP has an end record at least, a full frame holds something.         *)
PipelineConstants == Size \in Nat \ {0} /\ Frame \in Nat \ {0}

Units == 1..Size
BeforeStop == {"building", "posted", "offering", "unwinding", "closing", "flushing", "stopping"}
AfterJoin == {"hushing", "leaving"} \cup P!Ended
Closing == {"closing", "flushing", "stopping", "joining", "hushing", "leaving", "done"}
Steps == BeforeStop \cup {"joining"} \cup AfterJoin
Pending == P!Reports \cup {P!NoReport}

Building == [at : Steps, frame : Seq(Units), reports : Nat, sealed : BOOLEAN, failing : BOOLEAN]
Encrypting == [at : {"waiting", "busy", "gone"}, frame : Seq(Units), failed : BOOLEAN]
Reporting == [at : {"waiting", "reporting", "gone"}, pending : Pending, item : Pending,
              stopping : BOOLEAN, cancelled : BOOLEAN, unheard : BOOLEAN]

(* Every thread's state has its form.                                      *)
PipelineTypes ==
  /\ written \in 0..Size /\ buffer \in Seq(Units) /\ payload \in Seq(Seq(Units))
  /\ queue \in Seq(Seq(Units)) /\ Len(queue) <= P!QueueSize
  /\ builder \in Building
  /\ encryptor \in Encrypting /\ reporter \in Reporting
  /\ row \in [status : {"running", "cancelled"}, early : BOOLEAN]

(* The stop is the last thing in the queue, and the thread ends with it.   *)
StopIsLast ==
  /\ builder.at \in BeforeStop => encryptor.at # "gone" /\ \A k \in DOMAIN queue : queue[k] # P!Stop
  /\ P!At("joining") /\ encryptor.at # "gone" =>
       /\ queue # <<>> /\ queue[Len(queue)] = P!Stop
       /\ \A k \in DOMAIN queue : queue[k] = P!Stop => k = Len(queue)
  /\ encryptor.at = "gone" => queue = <<>>
  /\ builder.at \in AfterJoin => encryptor.at = "gone"
  /\ builder.at \in {"offering", "flushing"} => builder.frame # <<>>

(* The frames there are, and that each holds a unit at least.              *)
Sent == IF P!At("joining") /\ encryptor.at # "gone" THEN 1 ELSE 0
Busy == IF encryptor.at = "busy" THEN 1 ELSE 0
Offered == IF builder.at \in {"offering", "flushing"} THEN 1 ELSE 0
Handed == Len(payload) + Busy + Len(queue) - Sent + Offered
FramesHoldUnits == Handed + Len(buffer) <= written

(* What the building thread knows where it is.                             *)
BuilderKnows ==
  /\ P!At("building") => ~builder.failing /\ ~builder.sealed
  /\ P!At("posted") => ~builder.failing
  /\ P!At("unwinding") => builder.failing
  /\ P!At("offering") /\ ~builder.failing => ~builder.sealed
  /\ builder.sealed => written = Size
  /\ builder.at \in Closing /\ ~builder.failing => builder.sealed
  /\ builder.at \in {"flushing", "stopping", "joining"} /\ ~encryptor.failed => buffer = <<>>

(* The last report is the seal's; who cancelled before it is noticed.      *)
SealIsLast ==
  /\ reporter.stopping => builder.at \in {"leaving"} \cup P!Ended
  /\ reporter.at = "gone" => reporter.stopping /\ reporter.pending = P!NoReport
  /\ reporter.pending = "seal" => builder.sealed
  /\ reporter.at = "reporting" /\ reporter.item = "seal" => builder.sealed /\ reporter.pending = P!NoReport
  /\ reporter.unheard => builder.sealed /\ reporter.pending = P!NoReport /\ reporter.at # "reporting"
  /\ row.early => row.status = "cancelled"
  /\ builder.sealed /\ row.early =>
       \/ reporter.pending = "seal" \/ reporter.cancelled \/ reporter.unheard
       \/ reporter.at = "reporting" /\ reporter.item = "seal"
  /\ P!At("done") => builder.sealed /\ reporter.at = "gone" /\ ~reporter.cancelled

(* While nothing fails: consecutive frames, each where the one before it   *)
(* ends, and after them what is in the buffer.                             *)
Span(a, b) == [j \in 1..(b - a) |-> a + j]
Piece(frame, a, b) == a < b /\ frame = Span(a, b)
Sequenced(cut) ==
  /\ cut[0] = 0
  /\ \A k \in DOMAIN payload : Piece(payload[k], cut[k - 1], cut[k])
  /\ Busy = 1 => Piece(encryptor.frame, cut[Len(payload)], cut[Len(payload) + 1])
  /\ \A k \in DOMAIN queue :
       queue[k] # P!Stop => Piece(queue[k], cut[Len(payload) + Busy + k - 1], cut[Len(payload) + Busy + k])
  /\ Offered = 1 => Piece(builder.frame, cut[Handed - 1], cut[Handed])
  /\ cut[Handed] <= written /\ buffer = Span(cut[Handed], written)
InSequence ==
  builder.at \in BeforeStop \cup {"joining"} /\ ~builder.failing /\ ~encryptor.failed =>
    \E cut \in [Nat -> Nat] : Sequenced(cut)

(* What came of the container.                                             *)
Readable ==
  /\ P!Opened(file, TRUE) = P!Whole
  /\ \A n \in 0..Len(file), rightKey \in BOOLEAN : P!Opened(SubSeq(file, 1, n), rightKey) \in {P!Refused, P!Whole}
FileIsReadable ==
  /\ P!At("done") \/ (builder.at \in {"hushing", "leaving"} /\ ~builder.failing) => Readable
  /\ reopened \in {<<>>, P!Refused, P!Whole}

PipelineCore == PipelineTypes /\ StopIsLast /\ FramesHoldUnits /\ BuilderKnows /\ SealIsLast
PipelineInv == PipelineCore /\ InSequence /\ FileIsReadable

-----------------------------------------------------------------------------
(* What a step makes of the building thread's state.                       *)
LEMMA BuildingIs ==
  ASSUME NEW b \in Building, NEW at \in Steps, NEW frame \in Seq(Units)
  PROVE  /\ [b EXCEPT !.at = at] \in Building /\ [b EXCEPT !.at = at].at = at
         /\ [b EXCEPT !.at = at].frame = b.frame /\ [b EXCEPT !.at = at].sealed = b.sealed
         /\ [b EXCEPT !.at = at].failing = b.failing
         /\ [b EXCEPT !.at = at, !.failing = TRUE] \in Building
         /\ [b EXCEPT !.at = at, !.failing = TRUE].at = at
         /\ [b EXCEPT !.at = at, !.failing = TRUE].frame = b.frame
         /\ [b EXCEPT !.at = at, !.failing = TRUE].sealed = b.sealed
         /\ [b EXCEPT !.at = at, !.failing = TRUE].failing
         /\ [b EXCEPT !.at = at, !.frame = frame] \in Building
         /\ [b EXCEPT !.at = at, !.frame = frame].at = at
         /\ [b EXCEPT !.at = at, !.frame = frame].frame = frame
         /\ [b EXCEPT !.at = at, !.frame = frame].sealed = b.sealed
         /\ [b EXCEPT !.at = at, !.frame = frame].failing = b.failing
BY DEF Building

LEMMA GoIs ==
  ASSUME PipelineTypes, NEW at \in Steps, P!Go(at)
  PROVE  /\ builder' \in Building /\ builder'.at = at /\ builder'.frame = builder.frame
         /\ builder'.sealed = builder.sealed /\ builder'.failing = builder.failing
BY BuildingIs DEF PipelineTypes, P!Go, Building

LEMMA RaiseIs ==
  ASSUME PipelineTypes, P!Raise
  PROVE  /\ builder' \in Building /\ builder'.at = (IF written = Size THEN "closing" ELSE "unwinding")
         /\ builder'.frame = builder.frame /\ builder'.sealed = builder.sealed /\ builder'.failing
<1> DEFINE at == IF written = Size THEN "closing" ELSE "unwinding"
<1>1. at \in Steps
  BY DEF Steps, BeforeStop
<1>2. builder' = [builder EXCEPT !.at = at, !.failing = TRUE]
  BY DEF P!Raise
<1>3. builder \in Building /\ builder.frame \in Seq(Units)
  BY DEF PipelineTypes, Building
<1> HIDE DEF at
<1>4. QED
  BY <1>1, <1>2, <1>3, BuildingIs DEF at

(* The parts of the invariant that a step does not touch.                  *)
LEMMA SealStays ==
  ASSUME PipelineTypes, SealIsLast, UNCHANGED <<reporter, row>>, builder'.sealed <=> builder.sealed,
         reporter.stopping => builder'.at \in {"leaving"} \cup P!Ended, builder'.at # "done" \/ UNCHANGED builder
  PROVE  SealIsLast'
BY DEF SealIsLast, P!At

LEMMA StopStays ==
  ASSUME StopIsLast, UNCHANGED <<queue, encryptor>>, builder.at \in BeforeStop, builder'.at \in BeforeStop,
         builder'.at \in {"offering", "flushing"} => builder'.frame # <<>>
  PROVE  StopIsLast'
BY DEF StopIsLast, P!At, BeforeStop, AfterJoin, P!Ended

LEMMA InitIs == ASSUME PipelineConstants, P!Init PROVE PipelineCore
<1>1. written = 0 /\ buffer = <<>> /\ queue = <<>> /\ payload = <<>>
  BY DEF P!Init
<1>2. /\ <<>> \in Seq(Units) /\ <<>> \in Seq(Seq(Units)) /\ Len(<<>>) = 0 /\ DOMAIN <<>> = {}
  OBVIOUS
<1>3. builder \in Building /\ builder.at = "building" /\ ~builder.sealed /\ ~builder.failing
  BY <1>2 DEF P!Init, Building, Steps, BeforeStop
<1>4. encryptor \in Encrypting /\ encryptor.at = "waiting"
  BY <1>2 DEF P!Init, Encrypting
<1>5. /\ reporter \in Reporting /\ reporter.at = "waiting" /\ reporter.pending = P!NoReport
      /\ ~reporter.stopping /\ ~reporter.unheard
  BY DEF P!Init, Reporting, Pending
<1>6. row \in [status : {"running", "cancelled"}, early : BOOLEAN] /\ ~row.early
  BY DEF P!Init
<1>7. PipelineTypes
  BY <1>1, <1>2, <1>3, <1>4, <1>5, <1>6 DEF PipelineTypes, PipelineConstants, P!QueueSize
<1>8. StopIsLast /\ BuilderKnows
  BY <1>1, <1>2, <1>3, <1>4 DEF StopIsLast, BuilderKnows, P!At, AfterJoin, P!Ended, Closing
<1>9. FramesHoldUnits
  BY <1>1, <1>2, <1>3, <1>4 DEF FramesHoldUnits, Handed, Sent, Busy, Offered, P!At
<1>10. SealIsLast
  BY <1>3, <1>5, <1>6 DEF SealIsLast, P!At, P!NoReport
<1>11. QED
  BY <1>7, <1>8, <1>9, <1>10 DEF PipelineCore

-----------------------------------------------------------------------------
(* Sequences that are added to and cut.                                    *)
LEMMA Lengths ==
  ASSUME NEW S, NEW s \in Seq(S), NEW n \in Nat, n <= Len(s)
  PROVE  /\ SubSeq(s, 1, n) \in Seq(S) /\ Len(SubSeq(s, 1, n)) = n
         /\ SubSeq(s, n + 1, Len(s)) \in Seq(S) /\ Len(SubSeq(s, n + 1, Len(s))) = Len(s) - n
         /\ \A i \in 1..n : SubSeq(s, 1, n)[i] = s[i]
         /\ \A i \in 1..(Len(s) - n) : SubSeq(s, n + 1, Len(s))[i] = s[n + i]
<1>1. Len(s) \in Nat /\ DOMAIN s = 1..Len(s) /\ \A i \in 1..Len(s) : s[i] \in S
  OBVIOUS
<1>2. SubSeq(s, 1, n) = [i \in 1..n |-> s[i]]
  <2>1. SubSeq(s, 1, n) = [i \in 1..(1 + n - 1) |-> s[1 + i - 1]]
    BY <1>1
  <2>2. \A i \in 1..n : 1 + i - 1 = i
    OBVIOUS
  <2>3. QED
    BY <2>1, <2>2
<1>3. SubSeq(s, n + 1, Len(s)) = [i \in 1..(Len(s) - n) |-> s[n + i]]
  <2>1. SubSeq(s, n + 1, Len(s)) = [i \in 1..(1 + Len(s) - (n + 1)) |-> s[n + 1 + i - 1]]
    BY <1>1
  <2>2. 1 + Len(s) - (n + 1) = Len(s) - n /\ \A i \in 1..(Len(s) - n) : n + 1 + i - 1 = n + i
    BY <1>1
  <2>3. QED
    BY <2>1, <2>2
<1>4. \A i \in 1..n : s[i] \in S
  BY <1>1
<1>5. Len(s) - n \in Nat /\ \A i \in 1..(Len(s) - n) : s[n + i] \in S
  BY <1>1
<1>6. [i \in 1..n |-> s[i]] \in Seq(S) /\ Len([i \in 1..n |-> s[i]]) = n
  BY <1>4
<1>7. /\ [i \in 1..(Len(s) - n) |-> s[n + i]] \in Seq(S)
      /\ Len([i \in 1..(Len(s) - n) |-> s[n + i]]) = Len(s) - n
  BY <1>5
<1>8. QED
  BY <1>2, <1>3, <1>6, <1>7

LEMMA Joined ==
  ASSUME NEW S, NEW s \in Seq(S), NEW t \in Seq(S)
  PROVE  /\ s \o t \in Seq(S) /\ Len(s \o t) = Len(s) + Len(t) /\ Len(s) \in Nat /\ Len(t) \in Nat
         /\ \A i \in 1..Len(s) : (s \o t)[i] = s[i]
         /\ \A i \in 1..Len(t) : (s \o t)[Len(s) + i] = t[i]
OBVIOUS

(* What a put makes of the queue.                                          *)
LEMMA PutIs ==
  ASSUME PipelineTypes, NEW frame \in Seq(Units), P!Put(frame)
  PROVE  /\ queue' \in Seq(Seq(Units)) /\ Len(queue') = Len(queue) + 1 /\ Len(queue') <= P!QueueSize
         /\ Len(queue) \in Nat /\ DOMAIN queue = 1..Len(queue) /\ DOMAIN queue' = 1..(Len(queue) + 1)
         /\ queue' # <<>> /\ queue'[Len(queue) + 1] = frame
         /\ \A k \in DOMAIN queue : queue'[k] = queue[k]
BY DEF PipelineTypes, P!Put, P!QueueSize

-----------------------------------------------------------------------------
(* Each step keeps the threads' states in their form and in step.          *)
LEMMA WriteCore == ASSUME PipelineConstants, PipelineCore, P!Write PROVE PipelineCore'
<1>1. /\ PipelineTypes /\ StopIsLast /\ FramesHoldUnits /\ BuilderKnows /\ SealIsLast
      /\ UNCHANGED <<queue, payload, builder, encryptor, reporter, row, file, reopened>>
      /\ P!At("building") /\ Size \in Nat /\ written \in Nat /\ written < Size
  BY DEF PipelineCore, P!Write, PipelineTypes, PipelineConstants
<1>2. PICK n \in 1..(Size - written) :
        buffer' = buffer \o [i \in 1..n |-> written + i] /\ written' = written + n
  BY DEF P!Write
<1> DEFINE more == [i \in 1..n |-> written + i]
<1>3. more \in Seq(Units) /\ Len(more) = n
  <2>1. n \in Nat /\ \A i \in 1..n : written + i \in Units
    BY <1>1 DEF Units
  <2>2. QED
    BY <2>1
<1> HIDE DEF more
<1>4. buffer \in Seq(Units) /\ buffer' = buffer \o more
  BY <1>1, <1>2 DEF PipelineTypes, more
<1>5. buffer' \in Seq(Units) /\ Len(buffer') = Len(buffer) + n /\ Len(buffer) \in Nat
  <2>1. Len(buffer \o more) = Len(buffer) + Len(more) /\ buffer \o more \in Seq(Units) /\ Len(buffer) \in Nat
    BY <1>3, <1>4, Joined
  <2>2. QED
    BY <1>3, <1>4, <2>1
<1>6. written' = written + n /\ written' \in 0..Size
  BY <1>1, <1>2
<1>7. PipelineTypes'
  BY <1>1, <1>5, <1>6 DEF PipelineTypes
<1>8. StopIsLast' /\ SealIsLast'
  BY <1>1 DEF StopIsLast, SealIsLast, P!At
<1>9. FramesHoldUnits'
  <2>1. Handed' = Handed
    BY <1>1 DEF Handed, Sent, Busy, Offered, P!At
  <2>2. Handed \in Int
    BY <1>1 DEF Handed, Sent, Busy, Offered, PipelineTypes
  <2>3. QED
    BY <1>1, <1>5, <1>6, <2>1, <2>2 DEF FramesHoldUnits
<1>10. BuilderKnows'
  BY <1>1 DEF BuilderKnows, P!At, Closing
<1>11. QED
  BY <1>7, <1>8, <1>9, <1>10 DEF PipelineCore

LEMMA SubmitCore == ASSUME PipelineConstants, PipelineCore, P!Submit PROVE PipelineCore'
<1>1. /\ PipelineTypes /\ StopIsLast /\ FramesHoldUnits /\ BuilderKnows /\ SealIsLast
      /\ UNCHANGED <<written, queue, payload, encryptor, reporter, row, file, reopened>>
      /\ builder.at \in {"building", "unwinding"} /\ Len(buffer) >= Frame /\ Frame \in Nat /\ Frame > 0
      /\ buffer' = SubSeq(buffer, Frame + 1, Len(buffer)) /\ buffer \in Seq(Units)
  BY DEF PipelineCore, P!Submit, PipelineConstants, PipelineTypes
<1>2. /\ buffer' \in Seq(Units) /\ Len(buffer') = Len(buffer) - Frame /\ Len(buffer) \in Nat
      /\ SubSeq(buffer, 1, Frame) \in Seq(Units) /\ SubSeq(buffer, 1, Frame) # <<>>
  <2>1. Len(SubSeq(buffer, 1, Frame)) = Frame /\ SubSeq(buffer, 1, Frame) \in Seq(Units)
    BY <1>1, Lengths
  <2>2. /\ SubSeq(buffer, Frame + 1, Len(buffer)) \in Seq(Units)
        /\ Len(SubSeq(buffer, Frame + 1, Len(buffer))) = Len(buffer) - Frame
    BY <1>1, Lengths
  <2>3. Len(buffer) \in Nat /\ Len(<<>>) = 0
    BY <1>1
  <2>4. SubSeq(buffer, 1, Frame) # <<>>
    BY <1>1, <2>1, <2>3
  <2>5. QED
    BY <1>1, <2>1, <2>2, <2>3, <2>4
<1>3. /\ builder' \in Building /\ builder'.sealed = builder.sealed
      /\ \/ /\ builder'.at \in {"closing", "unwinding"} /\ builder'.failing
         \/ /\ builder'.at = "offering" /\ builder'.frame = SubSeq(buffer, 1, Frame)
            /\ builder'.failing = builder.failing
  <2>1. CASE encryptor.failed
    <3>1. CASE P!At("unwinding")
      <4>1. P!Go("closing") /\ builder.failing
        BY <1>1, <2>1, <3>1 DEF P!Submit, BuilderKnows
      <4>2. "closing" \in Steps
        BY DEF Steps, BeforeStop
      <4>3. QED
        BY <1>1, <4>1, <4>2, GoIs
    <3>2. CASE ~P!At("unwinding")
      <4>1. P!Raise
        BY <2>1, <3>2 DEF P!Submit
      <4>2. QED
        BY <1>1, <4>1, RaiseIs
    <3>3. QED
      BY <3>1, <3>2
  <2>2. CASE ~encryptor.failed
    <3>1. builder' = [builder EXCEPT !.at = "offering", !.frame = SubSeq(buffer, 1, Frame)]
      BY <2>2 DEF P!Submit
    <3>2. "offering" \in Steps /\ builder \in Building
      BY <1>1 DEF Steps, BeforeStop, PipelineTypes
    <3> DEFINE frame == SubSeq(buffer, 1, Frame)
    <3>3. frame \in Seq(Units) /\ builder' = [builder EXCEPT !.at = "offering", !.frame = frame]
      BY <1>2, <3>1
    <3> HIDE DEF frame
    <3>4. /\ builder' \in Building /\ builder'.sealed = builder.sealed
          /\ builder'.at = "offering" /\ builder'.frame = frame /\ builder'.failing = builder.failing
      <4>1. builder' \in Building
        BY <3>2, <3>3 DEF Building
      <4>2. builder'.sealed = builder.sealed /\ builder'.failing = builder.failing
        BY <3>2, <3>3 DEF Building
      <4>3. builder'.at = "offering" /\ builder'.frame = frame
        BY <3>2, <3>3 DEF Building
      <4>4. QED
        BY <4>1, <4>2, <4>3
    <3>5. QED
      BY <3>4 DEF frame
  <2>3. QED
    BY <2>1, <2>2
<1>4. PipelineTypes'
  BY <1>1, <1>2, <1>3 DEF PipelineTypes
<1>5. StopIsLast'
  BY <1>1, <1>2, <1>3, StopStays DEF BeforeStop
<1>6. FramesHoldUnits'
  <2>1. Sent' = 0 /\ Sent = 0 /\ Offered = 0 /\ Offered' \in {0, 1} /\ Busy' = Busy /\ Busy \in {0, 1}
    BY <1>1, <1>3 DEF Sent, Offered, Busy, P!At
  <2>2. Len(payload') = Len(payload) /\ Len(queue') = Len(queue) /\ written' = written
    BY <1>1
  <2>3. /\ Len(payload) \in Nat /\ Len(queue) \in Nat /\ Len(buffer) \in Nat /\ written \in Nat
        /\ Len(payload) + Busy + Len(queue) + Len(buffer) <= written
    BY <1>1, <2>1 DEF PipelineTypes, PipelineConstants, FramesHoldUnits, Handed
  <2>4. Len(payload') + Busy' + Len(queue') - Sent' + Offered' + Len(buffer') <= written'
    BY <1>1, <1>2, <2>1, <2>2, <2>3
  <2>5. QED
    BY <2>4 DEF FramesHoldUnits, Handed
<1>7. BuilderKnows'
  BY <1>1, <1>3 DEF BuilderKnows, P!At, Closing
<1>8. SealIsLast'
  BY <1>1, <1>3, SealStays DEF SealIsLast, P!Ended, P!At
<1>9. QED
  BY <1>4, <1>5, <1>6, <1>7, <1>8 DEF PipelineCore

LEMMA OfferCore == ASSUME PipelineConstants, PipelineCore, P!Offer PROVE PipelineCore'
<1>1. /\ PipelineTypes /\ StopIsLast /\ FramesHoldUnits /\ BuilderKnows /\ SealIsLast
      /\ UNCHANGED <<written, buffer, payload, encryptor, reporter, row, file, reopened>>
      /\ P!At("offering") /\ P!Put(builder.frame) /\ builder.frame \in Seq(Units) /\ builder.frame # <<>>
  BY DEF PipelineCore, P!Offer, PipelineTypes, Building, StopIsLast, P!At
<1>2. /\ queue' \in Seq(Seq(Units)) /\ Len(queue') = Len(queue) + 1 /\ Len(queue') <= P!QueueSize
      /\ Len(queue) \in Nat /\ DOMAIN queue = 1..Len(queue) /\ DOMAIN queue' = 1..(Len(queue) + 1)
      /\ queue'[Len(queue) + 1] = builder.frame /\ \A k \in DOMAIN queue : queue'[k] = queue[k]
  BY <1>1, PutIs
<1>3. /\ builder' \in Building /\ builder'.sealed = builder.sealed /\ builder'.failing = builder.failing
      /\ builder'.at = IF builder.failing THEN "unwinding" ELSE "building"
  <2>1. (IF builder.failing THEN "unwinding" ELSE "building") \in Steps
    BY DEF Steps, BeforeStop
  <2>2. QED
    BY <1>1, <2>1, GoIs DEF P!Offer
<1>4. PipelineTypes'
  BY <1>1, <1>2, <1>3 DEF PipelineTypes
<1>5. StopIsLast'
  <2>1. builder.at \in BeforeStop /\ builder'.at \in BeforeStop /\ builder'.at \in {"unwinding", "building"}
    BY <1>1, <1>3 DEF BeforeStop, P!At
  <2>2. encryptor.at # "gone" /\ \A k \in DOMAIN queue : queue[k] # P!Stop
    BY <1>1, <2>1 DEF StopIsLast
  <2>3. \A k \in DOMAIN queue' : k = Len(queue) + 1 \/ k \in DOMAIN queue
    BY <1>2
  <2>4. \A k \in DOMAIN queue' : queue'[k] # P!Stop
    BY <1>1, <1>2, <2>2, <2>3 DEF P!Stop
  <2>5. QED
    BY <1>1, <2>1, <2>2, <2>4 DEF StopIsLast, P!At, BeforeStop, AfterJoin, P!Ended
<1>6. FramesHoldUnits'
  <2>1. Sent' = 0 /\ Sent = 0 /\ Offered = 1 /\ Offered' = 0 /\ Busy' = Busy /\ Busy \in {0, 1}
    BY <1>1, <1>3 DEF Sent, Offered, Busy, P!At
  <2>2. Len(payload) \in Nat
    BY <1>1 DEF PipelineTypes
  <2>3. Handed' = Handed
    BY <1>1, <1>2, <2>1, <2>2 DEF Handed
  <2>4. QED
    BY <1>1, <2>3 DEF FramesHoldUnits
<1>7. BuilderKnows'
  BY <1>1, <1>3 DEF BuilderKnows, P!At, Closing
<1>8. SealIsLast'
  BY <1>1, <1>3, SealStays DEF SealIsLast, P!Ended, P!At
<1>9. QED
  BY <1>4, <1>5, <1>6, <1>7, <1>8 DEF PipelineCore

(* The steps that move the building thread alone, up to its closing.       *)
LEMMA MovesCore ==
  ASSUME PipelineConstants, PipelineCore, builder.at \in BeforeStop, builder'.at \in BeforeStop,
         UNCHANGED <<written, buffer, queue, payload, encryptor, row>>,
         builder' \in Building, builder'.at \notin {"offering", "flushing", "stopping"},
         builder.at \notin {"offering", "flushing"},
         reporter' \in Reporting, BuilderKnows', SealIsLast'
  PROVE  PipelineCore'
<1>1. PipelineTypes'
  BY DEF PipelineTypes, PipelineCore
<1>2. StopIsLast'
  BY StopStays DEF PipelineCore
<1>3. Handed' = Handed
  BY DEF Handed, Sent, Busy, Offered, P!At, BeforeStop
<1>4. FramesHoldUnits'
  BY <1>3 DEF FramesHoldUnits, PipelineCore
<1>5. QED
  BY <1>1, <1>2, <1>4 DEF PipelineCore

LEMMA PostCore ==
  ASSUME PipelineConstants, PipelineCore, NEW report \in P!Reports, P!Post(report) PROVE PipelineCore'
<1>1. /\ PipelineTypes /\ StopIsLast /\ FramesHoldUnits /\ BuilderKnows /\ SealIsLast
      /\ UNCHANGED <<written, buffer, queue, payload, encryptor, row, file, reopened>>
      /\ P!At("building") /\ builder.at \in BeforeStop /\ builder \in Building /\ reporter \in Reporting
      /\ ~builder.sealed /\ ~builder.failing /\ (report = "seal" => written = Size)
  BY DEF PipelineCore, P!Post, PipelineTypes, BuilderKnows, P!At, BeforeStop
<1>2. CASE reporter.cancelled
  <2>1. P!Raise /\ reporter' = reporter
    BY <1>2 DEF P!Post
  <2>2. /\ builder' \in Building /\ builder'.at \in {"closing", "unwinding"}
        /\ builder'.sealed = builder.sealed /\ builder'.failing
    BY <1>1, <2>1, RaiseIs
  <2>3. BuilderKnows'
    BY <1>1, <2>2 DEF BuilderKnows, P!At, Closing
  <2>4. SealIsLast'
    BY <1>1, <2>1, <2>2, SealStays DEF SealIsLast, P!Ended, P!At
  <2>5. QED
    BY <1>1, <2>1, <2>2, <2>3, <2>4, MovesCore DEF P!At, BeforeStop
<1>3. CASE ~reporter.cancelled
  <2> DEFINE sealed == (report = "seal")
             reports == IF report = "seal" THEN builder.reports ELSE builder.reports + 1
  <2>1. builder' = [builder EXCEPT !.at = "posted", !.sealed = sealed, !.reports = reports]
    BY <1>3 DEF P!Post
  <2>2. sealed \in BOOLEAN /\ reports \in Nat /\ "posted" \in Steps
    BY <1>1 DEF Building, Steps, BeforeStop
  <2> HIDE DEF reports
  <2>3. /\ builder' \in Building /\ builder'.at = "posted" /\ (builder'.sealed <=> report = "seal")
        /\ ~builder'.failing
    BY <1>1, <2>1, <2>2 DEF Building
  <2>4. /\ reporter' \in Reporting /\ reporter'.at = reporter.at /\ reporter'.item = reporter.item
        /\ reporter'.stopping = reporter.stopping /\ reporter'.cancelled = reporter.cancelled
        /\ reporter'.unheard = reporter.unheard
        /\ reporter'.pending \in {report, "checkpoint"} /\ (report = "seal" => reporter'.pending = "seal")
    <3>1. CASE report = "tick" /\ reporter.pending = "checkpoint"
      BY <1>1, <1>3, <3>1 DEF P!Post
    <3>2. CASE ~(report = "tick" /\ reporter.pending = "checkpoint")
      <4>1. reporter' = [reporter EXCEPT !.pending = report]
        BY <1>3, <3>2 DEF P!Post
      <4>2. report \in Pending
        BY DEF Pending
      <4>3. QED
        BY <1>1, <4>1, <4>2 DEF Reporting
    <3>3. QED
      BY <3>1, <3>2
  <2>5. BuilderKnows'
    BY <1>1, <2>3 DEF BuilderKnows, P!At, Closing
  <2>6. SealIsLast'
    BY <1>1, <2>3, <2>4 DEF SealIsLast, P!Ended, P!At
  <2>7. QED
    BY <1>1, <2>3, <2>4, <2>5, <2>6, MovesCore DEF P!At, BeforeStop
<1>4. QED
  BY <1>2, <1>3

LEMMA PostedCore == ASSUME PipelineConstants, PipelineCore, P!Posted PROVE PipelineCore'
<1>1. /\ PipelineTypes /\ StopIsLast /\ FramesHoldUnits /\ BuilderKnows /\ SealIsLast
      /\ UNCHANGED <<written, buffer, queue, payload, encryptor, reporter, row, file, reopened>>
      /\ P!At("posted") /\ builder.at \in BeforeStop /\ reporter \in Reporting /\ ~builder.failing
  BY DEF PipelineCore, P!Posted, PipelineTypes, BuilderKnows, P!At, BeforeStop
<1>2. /\ builder' \in Building /\ builder'.sealed = builder.sealed
      /\ \/ builder'.at \in {"closing", "unwinding"} /\ builder'.failing
         \/ builder'.at = "closing" /\ builder.sealed /\ ~builder'.failing
         \/ builder'.at = "building" /\ ~builder.sealed /\ ~builder'.failing
  <2>1. CASE reporter.cancelled
    BY <1>1, <2>1, RaiseIs DEF P!Posted
  <2>2. CASE ~reporter.cancelled
    <3>1. "closing" \in Steps /\ "building" \in Steps
      BY DEF Steps, BeforeStop
    <3>2. (builder.sealed /\ P!Go("closing")) \/ (~builder.sealed /\ P!Go("building"))
      BY <2>2 DEF P!Posted
    <3>3. QED
      BY <1>1, <3>1, <3>2, GoIs
  <2>3. QED
    BY <2>1, <2>2
<1>3. BuilderKnows'
  BY <1>1, <1>2 DEF BuilderKnows, P!At, Closing
<1>4. SealIsLast'
  BY <1>1, <1>2, SealStays DEF SealIsLast, P!Ended, P!At
<1>5. QED
  BY <1>1, <1>2, <1>3, <1>4, MovesCore DEF P!At, BeforeStop

LEMMA FailsCore == ASSUME PipelineConstants, PipelineCore, P!BuildFails PROVE PipelineCore'
<1>1. /\ PipelineTypes /\ StopIsLast /\ FramesHoldUnits /\ BuilderKnows /\ SealIsLast
      /\ UNCHANGED <<written, buffer, queue, payload, encryptor, reporter, row, file, reopened>>
      /\ P!At("building") /\ builder.at \in BeforeStop /\ reporter \in Reporting /\ P!Raise
  BY DEF PipelineCore, P!BuildFails, PipelineTypes, P!At, BeforeStop
<1>2. /\ builder' \in Building /\ builder'.at \in {"closing", "unwinding"}
      /\ builder'.sealed = builder.sealed /\ builder'.failing
  BY <1>1, RaiseIs
<1>3. BuilderKnows'
  BY <1>1, <1>2 DEF BuilderKnows, P!At, Closing
<1>4. SealIsLast'
  BY <1>1, <1>2, SealStays DEF SealIsLast, P!Ended, P!At
<1>5. QED
  BY <1>1, <1>2, <1>3, <1>4, MovesCore DEF P!At, BeforeStop

LEMMA UnwindCore == ASSUME PipelineConstants, PipelineCore, P!Unwind PROVE PipelineCore'
<1>1. /\ PipelineTypes /\ StopIsLast /\ FramesHoldUnits /\ BuilderKnows /\ SealIsLast
      /\ UNCHANGED <<queue, payload, encryptor, reporter, row, file, reopened>>
      /\ P!At("unwinding") /\ builder.at \in BeforeStop /\ reporter \in Reporting /\ builder.failing
      /\ Size \in Nat /\ written \in 0..Size /\ buffer \in Seq(Units) /\ Size > 0
  BY DEF PipelineCore, P!Unwind, PipelineTypes, BuilderKnows, P!At, BeforeStop,
       PipelineConstants
<1>2. CASE P!Go("closing") /\ UNCHANGED <<written, buffer>>
  <2>1. "closing" \in Steps
    BY DEF Steps, BeforeStop
  <2>2. /\ builder' \in Building /\ builder'.at = "closing"
        /\ builder'.sealed = builder.sealed /\ builder'.failing
    BY <1>1, <1>2, <2>1, GoIs
  <2>3. BuilderKnows'
    BY <1>1, <1>2, <2>2 DEF BuilderKnows, P!At, Closing
  <2>4. SealIsLast'
    BY <1>1, <2>2, SealStays DEF SealIsLast, P!Ended, P!At
  <2>5. QED
    BY <1>1, <1>2, <2>2, <2>3, <2>4, MovesCore DEF P!At, BeforeStop
<1>3. CASE written < Size /\ written' = Size /\ buffer' = Append(buffer, P!End) /\ UNCHANGED builder
  <2>1. P!End \in Units
    BY <1>1 DEF P!End, Units
  <2>2. buffer' \in Seq(Units) /\ Len(buffer') = Len(buffer) + 1 /\ Len(buffer) \in Nat
    BY <1>1, <1>3, <2>1
  <2>3. PipelineTypes'
    BY <1>1, <1>3, <2>2 DEF PipelineTypes
  <2>4. StopIsLast' /\ SealIsLast'
    BY <1>1, <1>3 DEF StopIsLast, SealIsLast, P!At
  <2>5. BuilderKnows'
    BY <1>1, <1>3 DEF BuilderKnows, P!At, Closing
  <2>6. Handed' = Handed
    BY <1>1, <1>3 DEF Handed, Sent, Busy, Offered, P!At
  <2>7. Handed \in Int
    BY <1>1 DEF Handed, Sent, Busy, Offered, PipelineTypes
  <2>8. FramesHoldUnits'
    BY <1>1, <1>3, <2>2, <2>6, <2>7 DEF FramesHoldUnits
  <2>9. QED
    BY <2>3, <2>4, <2>5, <2>8 DEF PipelineCore
<1>4. QED
  BY <1>2, <1>3 DEF P!Unwind

LEMMA CloseCore == ASSUME PipelineConstants, PipelineCore, P!CloseBuffer PROVE PipelineCore'
<1>1. /\ PipelineTypes /\ StopIsLast /\ FramesHoldUnits /\ BuilderKnows /\ SealIsLast
      /\ UNCHANGED <<written, queue, payload, encryptor, reporter, row, file, reopened>>
      /\ P!At("closing") /\ builder.at \in BeforeStop /\ builder \in Building
      /\ (~builder.failing => builder.sealed)
      /\ buffer \in Seq(Units) /\ written \in Nat
  BY DEF PipelineCore, P!CloseBuffer, PipelineTypes, BuilderKnows, P!At, BeforeStop, Closing,
       PipelineConstants
<1>2. /\ Sent = 0 /\ Offered = 0 /\ Busy \in {0, 1} /\ Len(payload) \in Nat /\ Len(queue) \in Nat
      /\ Len(buffer) \in Nat
  BY <1>1 DEF Sent, Offered, Busy, P!At, PipelineTypes
<1>3. CASE buffer # <<>> /\ ~encryptor.failed
  <2>1. builder' = [builder EXCEPT !.at = "flushing", !.frame = buffer] /\ buffer' = <<>>
    BY <1>3 DEF P!CloseBuffer
  <2>2. "flushing" \in Steps /\ <<>> \in Seq(Units) /\ Len(<<>>) = 0
    BY DEF Steps, BeforeStop
  <2>3. builder' \in Building
    BY <1>1, <2>1, <2>2 DEF Building
  <2>4. builder'.sealed = builder.sealed /\ builder'.failing = builder.failing
    BY <1>1, <2>1 DEF Building
  <2>5. builder'.at = "flushing" /\ builder'.frame = buffer
    BY <1>1, <2>1 DEF Building
  <2>6. PipelineTypes'
    BY <1>1, <2>1, <2>2, <2>3 DEF PipelineTypes
  <2>7. StopIsLast'
    BY <1>1, <1>3, <2>5, StopStays DEF BeforeStop
  <2>8. BuilderKnows'
    BY <1>1, <2>1, <2>4, <2>5 DEF BuilderKnows, P!At, Closing
  <2>9. SealIsLast'
    BY <1>1, <2>4, <2>5, SealStays DEF SealIsLast, P!Ended, P!At
  <2>10. Sent' = 0 /\ Offered' = 1 /\ Busy' = Busy
    BY <1>1, <2>5 DEF Sent, Offered, Busy, P!At
  <2>11. Len(buffer) > 0
    BY <1>1, <1>3
  <2>12. FramesHoldUnits'
    <3>1. Len(payload) + Busy + Len(queue) + Len(buffer) <= written
      BY <1>1, <1>2 DEF FramesHoldUnits, Handed
    <3>2. Len(payload) + Busy + Len(queue) - 0 + 1 + 0 <= written
      BY <1>1, <1>2, <2>11, <3>1
    <3>3. Handed' = Len(payload) + Busy + Len(queue) - 0 + 1 /\ Len(buffer') = 0 /\ written' = written
      BY <1>1, <2>1, <2>2, <2>10 DEF Handed
    <3>4. QED
      BY <3>2, <3>3 DEF FramesHoldUnits
  <2>13. QED
    BY <2>6, <2>7, <2>8, <2>9, <2>12 DEF PipelineCore
<1>4. CASE ~(buffer # <<>> /\ ~encryptor.failed)
  <2>1. P!Go("stopping") /\ buffer' = buffer
    BY <1>4 DEF P!CloseBuffer
  <2>2. "stopping" \in Steps
    BY DEF Steps, BeforeStop
  <2>3. /\ builder' \in Building /\ builder'.at = "stopping"
        /\ builder'.sealed = builder.sealed /\ builder'.failing = builder.failing
    BY <1>1, <2>1, <2>2, GoIs
  <2>4. PipelineTypes'
    BY <1>1, <2>1, <2>3 DEF PipelineTypes
  <2>5. StopIsLast'
    BY <1>1, <2>3, StopStays DEF BeforeStop
  <2>6. BuilderKnows'
    BY <1>1, <1>4, <2>1, <2>3 DEF BuilderKnows, P!At, Closing
  <2>7. SealIsLast'
    BY <1>1, <2>3, SealStays DEF SealIsLast, P!Ended, P!At
  <2>8. Handed' = Handed
    BY <1>1, <2>3 DEF Handed, Sent, Busy, Offered, P!At
  <2>9. FramesHoldUnits'
    BY <1>1, <2>1, <2>8 DEF FramesHoldUnits
  <2>10. QED
    BY <2>4, <2>5, <2>6, <2>7, <2>9 DEF PipelineCore
<1>5. QED
  BY <1>3, <1>4

LEMMA FlushCore == ASSUME PipelineConstants, PipelineCore, P!Flush PROVE PipelineCore'
<1>1. /\ PipelineTypes /\ StopIsLast /\ FramesHoldUnits /\ BuilderKnows /\ SealIsLast
      /\ UNCHANGED <<written, buffer, payload, encryptor, reporter, row, file, reopened>>
      /\ P!At("flushing") /\ P!Put(builder.frame) /\ builder.frame \in Seq(Units) /\ builder.frame # <<>>
      /\ (~builder.failing => builder.sealed) /\ (~encryptor.failed => buffer = <<>>)
  BY DEF PipelineCore, P!Flush, PipelineTypes, Building, StopIsLast, P!At, BuilderKnows,
       Closing
<1>2. /\ queue' \in Seq(Seq(Units)) /\ Len(queue') = Len(queue) + 1 /\ Len(queue') <= P!QueueSize
      /\ Len(queue) \in Nat /\ DOMAIN queue = 1..Len(queue) /\ DOMAIN queue' = 1..(Len(queue) + 1)
      /\ queue'[Len(queue) + 1] = builder.frame /\ \A k \in DOMAIN queue : queue'[k] = queue[k]
  BY <1>1, PutIs
<1>3. /\ builder' \in Building /\ builder'.sealed = builder.sealed /\ builder'.failing = builder.failing
      /\ builder'.at = "stopping"
  <2>1. "stopping" \in Steps
    BY DEF Steps, BeforeStop
  <2>2. QED
    BY <1>1, <2>1, GoIs DEF P!Flush
<1>4. PipelineTypes'
  BY <1>1, <1>2, <1>3 DEF PipelineTypes
<1>5. StopIsLast'
  <2>1. builder.at \in BeforeStop /\ builder'.at \in BeforeStop
    BY <1>1, <1>3 DEF BeforeStop, P!At
  <2>2. encryptor.at # "gone" /\ \A k \in DOMAIN queue : queue[k] # P!Stop
    BY <1>1, <2>1 DEF StopIsLast
  <2>3. \A k \in DOMAIN queue' : k = Len(queue) + 1 \/ k \in DOMAIN queue
    BY <1>2
  <2>4. \A k \in DOMAIN queue' : queue'[k] # P!Stop
    BY <1>1, <1>2, <2>2, <2>3 DEF P!Stop
  <2>5. QED
    BY <1>1, <1>3, <2>1, <2>2, <2>4 DEF StopIsLast, P!At, BeforeStop, AfterJoin, P!Ended
<1>6. FramesHoldUnits'
  <2>1. Sent' = 0 /\ Sent = 0 /\ Offered = 1 /\ Offered' = 0 /\ Busy' = Busy /\ Busy \in {0, 1}
    BY <1>1, <1>3 DEF Sent, Offered, Busy, P!At
  <2>2. Len(payload) \in Nat
    BY <1>1 DEF PipelineTypes
  <2>3. Handed' = Handed
    BY <1>1, <1>2, <2>1, <2>2 DEF Handed
  <2>4. QED
    BY <1>1, <2>3 DEF FramesHoldUnits
<1>7. BuilderKnows'
  BY <1>1, <1>3 DEF BuilderKnows, P!At, Closing
<1>8. SealIsLast'
  BY <1>1, <1>3, SealStays DEF SealIsLast, P!Ended, P!At
<1>9. QED
  BY <1>4, <1>5, <1>6, <1>7, <1>8 DEF PipelineCore

LEMMA StopCore == ASSUME PipelineConstants, PipelineCore, P!SendStop PROVE PipelineCore'
<1>1. /\ PipelineTypes /\ StopIsLast /\ FramesHoldUnits /\ BuilderKnows /\ SealIsLast
      /\ UNCHANGED <<written, buffer, payload, encryptor, reporter, row, file, reopened>>
      /\ P!At("stopping") /\ P!Put(P!Stop) /\ P!Stop \in Seq(Units)
      /\ (~builder.failing => builder.sealed) /\ (~encryptor.failed => buffer = <<>>)
  BY DEF PipelineCore, P!SendStop, PipelineTypes, P!At, BuilderKnows, Closing, P!Stop
<1>2. /\ queue' \in Seq(Seq(Units)) /\ Len(queue') = Len(queue) + 1 /\ Len(queue') <= P!QueueSize
      /\ Len(queue) \in Nat /\ DOMAIN queue = 1..Len(queue) /\ DOMAIN queue' = 1..(Len(queue) + 1)
      /\ queue'[Len(queue) + 1] = P!Stop /\ queue' # <<>> /\ \A k \in DOMAIN queue : queue'[k] = queue[k]
  BY <1>1, PutIs
<1>3. /\ builder' \in Building /\ builder'.sealed = builder.sealed /\ builder'.failing = builder.failing
      /\ builder'.at = "joining"
  <2>1. "joining" \in Steps
    BY DEF Steps, BeforeStop
  <2>2. QED
    BY <1>1, <2>1, GoIs DEF P!SendStop
<1>4. PipelineTypes'
  BY <1>1, <1>2, <1>3 DEF PipelineTypes
<1>5. encryptor.at # "gone" /\ \A k \in DOMAIN queue : queue[k] # P!Stop
  BY <1>1 DEF StopIsLast, P!At, BeforeStop
<1>6. StopIsLast'
  <2>1. \A k \in DOMAIN queue' : k = Len(queue) + 1 \/ k \in DOMAIN queue
    BY <1>2
  <2>2. \A k \in DOMAIN queue' : queue'[k] = P!Stop => k = Len(queue')
    BY <1>2, <1>5, <2>1
  <2>3. QED
    BY <1>1, <1>2, <1>3, <1>5, <2>2 DEF StopIsLast, P!At, BeforeStop, AfterJoin, P!Ended
<1>7. FramesHoldUnits'
  <2>1. Sent' = 1 /\ Sent = 0 /\ Offered = 0 /\ Offered' = 0 /\ Busy' = Busy /\ Busy \in {0, 1}
    BY <1>1, <1>3, <1>5 DEF Sent, Offered, Busy, P!At
  <2>2. Len(payload) \in Nat
    BY <1>1 DEF PipelineTypes
  <2>3. Handed' = Handed
    BY <1>1, <1>2, <2>1, <2>2 DEF Handed
  <2>4. QED
    BY <1>1, <2>3 DEF FramesHoldUnits
<1>8. BuilderKnows'
  BY <1>1, <1>3 DEF BuilderKnows, P!At, Closing
<1>9. SealIsLast'
  BY <1>1, <1>3, SealStays DEF SealIsLast, P!Ended, P!At
<1>10. QED
  BY <1>4, <1>6, <1>7, <1>8, <1>9 DEF PipelineCore

(* The steps after the join leave the frames alone.                        *)
LEMMA AfterCore ==
  ASSUME PipelineConstants, PipelineCore, encryptor.at = "gone",
         builder.at \in {"joining", "hushing", "leaving"}, builder'.at \in AfterJoin,
         UNCHANGED <<written, buffer, queue, payload, encryptor, row>>,
         builder' \in Building, reporter' \in Reporting, BuilderKnows', SealIsLast'
  PROVE  PipelineCore'
<1>1. PipelineTypes'
  BY DEF PipelineTypes, PipelineCore
<1>2. StopIsLast'
  BY DEF PipelineCore, StopIsLast, P!At, AfterJoin, P!Ended, BeforeStop
<1>3. Handed' = Handed
  BY DEF Handed, Sent, Busy, Offered, P!At, AfterJoin, P!Ended
<1>4. FramesHoldUnits'
  BY <1>3 DEF FramesHoldUnits, PipelineCore
<1>5. QED
  BY <1>1, <1>2, <1>4 DEF PipelineCore

LEMMA FinishCore == ASSUME PipelineConstants, PipelineCore, P!Finish PROVE PipelineCore'
<1>1. /\ PipelineTypes /\ BuilderKnows /\ SealIsLast /\ builder \in Building
      /\ UNCHANGED <<written, buffer, queue, payload, encryptor, reporter, row, reopened>>
      /\ P!At("joining") /\ encryptor.at = "gone" /\ reporter \in Reporting
      /\ (~builder.failing => builder.sealed)
  BY DEF PipelineCore, P!Finish, PipelineTypes, P!At, BuilderKnows, Closing
<1>2. /\ builder' \in Building /\ builder'.at = "hushing" /\ builder'.sealed = builder.sealed
      /\ (builder'.failing \/ (~builder'.failing /\ ~builder.failing))
  <2>1. "hushing" \in Steps
    BY DEF Steps, AfterJoin
  <2>2. \/ builder' = [builder EXCEPT !.at = "hushing", !.failing = TRUE]
        \/ P!Go("hushing") /\ ~builder.failing
    BY DEF P!Finish
  <2>3. CASE builder' = [builder EXCEPT !.at = "hushing", !.failing = TRUE]
    <3>1. builder' \in Building
      BY <1>1, <2>1, <2>3 DEF Building
    <3>2. builder'.at = "hushing" /\ builder'.sealed = builder.sealed /\ builder'.failing
      BY <1>1, <2>3 DEF Building
    <3>3. QED
      BY <3>1, <3>2
  <2>4. CASE P!Go("hushing") /\ ~builder.failing
    BY <1>1, <2>1, <2>4, GoIs
  <2>5. QED
    BY <2>2, <2>3, <2>4
<1>3. BuilderKnows'
  BY <1>1, <1>2 DEF BuilderKnows, P!At, Closing
<1>4. SealIsLast'
  BY <1>1, <1>2, SealStays DEF SealIsLast, P!Ended, P!At
<1>5. QED
  BY <1>1, <1>2, <1>3, <1>4, AfterCore DEF P!At, AfterJoin

LEMMA HushCore == ASSUME PipelineConstants, PipelineCore, P!Hush PROVE PipelineCore'
<1>1. /\ PipelineTypes /\ StopIsLast /\ BuilderKnows /\ SealIsLast /\ builder \in Building
      /\ UNCHANGED <<written, buffer, queue, payload, encryptor, row, file, reopened>>
      /\ P!At("hushing") /\ encryptor.at = "gone" /\ reporter \in Reporting
      /\ reporter' = [reporter EXCEPT !.stopping = TRUE] /\ P!Go("leaving")
  BY DEF PipelineCore, P!Hush, PipelineTypes, P!At, StopIsLast, AfterJoin
<1>2. "leaving" \in Steps
  BY DEF Steps, AfterJoin
<1>3. /\ builder' \in Building /\ builder'.at = "leaving" /\ builder'.sealed = builder.sealed
      /\ builder'.failing = builder.failing
  BY <1>1, <1>2, GoIs
<1>4. /\ reporter' \in Reporting /\ reporter'.at = reporter.at /\ reporter'.item = reporter.item
      /\ reporter'.pending = reporter.pending /\ reporter'.cancelled = reporter.cancelled
      /\ reporter'.unheard = reporter.unheard /\ reporter'.stopping
  BY <1>1 DEF Reporting
<1>5. BuilderKnows'
  BY <1>1, <1>3 DEF BuilderKnows, P!At, Closing
<1>6. SealIsLast'
  BY <1>1, <1>3, <1>4 DEF SealIsLast, P!Ended, P!At
<1>7. QED
  BY <1>1, <1>3, <1>4, <1>5, <1>6, AfterCore DEF P!At, AfterJoin

LEMMA LeaveCore == ASSUME PipelineConstants, PipelineCore, P!Leave PROVE PipelineCore'
<1>1. /\ PipelineTypes /\ StopIsLast /\ BuilderKnows /\ SealIsLast /\ builder \in Building
      /\ UNCHANGED <<written, buffer, queue, payload, encryptor, reporter, row, file, reopened>>
      /\ P!At("leaving") /\ encryptor.at = "gone" /\ reporter \in Reporting /\ reporter.at = "gone"
      /\ (~builder.failing => builder.sealed)
  BY DEF PipelineCore, P!Leave, PipelineTypes, P!At, StopIsLast, AfterJoin, BuilderKnows,
       Closing
<1> DEFINE last == IF reporter.cancelled THEN "cancelled" ELSE IF builder.failing THEN "failed" ELSE "done"
<1>2. last \in P!Ended /\ last \in Steps /\ (last = "done" => ~reporter.cancelled /\ ~builder.failing)
  BY DEF Steps, AfterJoin, P!Ended
<1>3. P!Go(last)
  BY DEF P!Leave
<1> HIDE DEF last
<1>4. /\ builder' \in Building /\ builder'.at = last /\ builder'.sealed = builder.sealed
      /\ builder'.failing = builder.failing
  BY <1>1, <1>2, <1>3, GoIs
<1>5. BuilderKnows'
  BY <1>1, <1>2, <1>4 DEF BuilderKnows, P!At, Closing, P!Ended
<1>6. SealIsLast'
  BY <1>1, <1>2, <1>4 DEF SealIsLast, P!Ended, P!At
<1>7. QED
  BY <1>1, <1>2, <1>4, <1>5, <1>6, AfterCore DEF P!At, AfterJoin

(* The encrypting thread's steps.                                          *)
LEMMA Tails ==
  ASSUME NEW S, NEW s \in Seq(S), s # <<>>
  PROVE  /\ Tail(s) \in Seq(S) /\ Len(s) \in Nat /\ Len(s) > 0 /\ Len(Tail(s)) = Len(s) - 1
         /\ Head(s) = s[1] /\ s[1] \in S /\ DOMAIN s = 1..Len(s) /\ DOMAIN Tail(s) = 1..(Len(s) - 1)
         /\ \A k \in 1..(Len(s) - 1) : Tail(s)[k] = s[k + 1]
OBVIOUS

LEMMA Appended ==
  ASSUME NEW S, NEW s \in Seq(S), NEW x \in S
  PROVE  /\ Append(s, x) \in Seq(S) /\ Len(s) \in Nat /\ Len(Append(s, x)) = Len(s) + 1
         /\ Append(s, x)[Len(s) + 1] = x /\ DOMAIN s = 1..Len(s) /\ DOMAIN Append(s, x) = 1..(Len(s) + 1)
         /\ \A k \in 1..Len(s) : Append(s, x)[k] = s[k]
OBVIOUS

LEMMA TakeCore == ASSUME PipelineConstants, PipelineCore, P!Take PROVE PipelineCore'
<1>1. /\ PipelineTypes /\ StopIsLast /\ FramesHoldUnits /\ BuilderKnows /\ SealIsLast
      /\ UNCHANGED <<written, buffer, payload, builder, reporter, row, file, reopened>>
      /\ encryptor.at = "waiting" /\ queue # <<>> /\ queue' = Tail(queue)
      /\ queue \in Seq(Seq(Units)) /\ encryptor \in Encrypting /\ builder \in Building
  BY DEF PipelineCore, P!Take, PipelineTypes
<1>2. /\ queue' \in Seq(Seq(Units)) /\ Len(queue) \in Nat /\ Len(queue) > 0 /\ Len(queue') = Len(queue) - 1
      /\ Head(queue) = queue[1] /\ queue[1] \in Seq(Units)
      /\ DOMAIN queue = 1..Len(queue) /\ DOMAIN queue' = 1..(Len(queue) - 1)
      /\ \A k \in 1..(Len(queue) - 1) : queue'[k] = queue[k + 1]
  BY <1>1, Tails
<1>3. Len(queue) <= P!QueueSize /\ Len(queue') <= P!QueueSize /\ Len(payload) \in Nat /\ P!QueueSize = 2
  BY <1>1, <1>2 DEF PipelineTypes, P!QueueSize
<1>4. builder.at \notin AfterJoin /\ builder.at \in BeforeStop \cup {"joining"}
  BY <1>1 DEF StopIsLast, Building, Steps
<1>5. \A e : encryptor' = e /\ e.failed = encryptor.failed => BuilderKnows'
  BY <1>1 DEF BuilderKnows, P!At
<1>6. SealIsLast'
  BY <1>1 DEF SealIsLast, P!At
<1>7. CASE queue[1] = P!Stop
  <2>1. encryptor' = [encryptor EXCEPT !.at = "gone"]
    BY <1>1, <1>2, <1>7 DEF P!Take
  <2>2. /\ encryptor' \in Encrypting /\ encryptor'.at = "gone" /\ encryptor'.failed = encryptor.failed
    BY <1>1, <2>1 DEF Encrypting
  <2>3. P!At("joining")
    <3>1. 1 \in DOMAIN queue
      BY <1>2
    <3>2. builder.at \notin BeforeStop
      BY <1>1, <1>7, <3>1 DEF StopIsLast
    <3>3. QED
      BY <1>4, <3>2 DEF P!At
  <2>4. Len(queue) = 1
    BY <1>1, <1>2, <1>7, <2>3 DEF StopIsLast
  <2>5. queue' = <<>>
    BY <1>2, <2>4
  <2>6. PipelineTypes'
    BY <1>1, <1>2, <1>3, <2>2 DEF PipelineTypes
  <2>7. StopIsLast'
    BY <1>1, <2>2, <2>3, <2>5 DEF StopIsLast, P!At, BeforeStop, AfterJoin, P!Ended
  <2>8. Sent = 1 /\ Sent' = 0 /\ Offered' = Offered /\ Busy = 0 /\ Busy' = 0
    BY <1>1, <2>2, <2>3 DEF Sent, Offered, Busy, P!At
  <2>9. Handed' = Handed
    BY <1>1, <1>2, <1>3, <2>3, <2>8 DEF Handed, Offered, P!At
  <2>10. FramesHoldUnits'
    BY <1>1, <2>9 DEF FramesHoldUnits
  <2>11. BuilderKnows'
    BY <1>5, <2>2
  <2>12. QED
    BY <1>6, <2>6, <2>7, <2>10, <2>11 DEF PipelineCore
<1>8. CASE queue[1] # P!Stop
  <2>1. \/ encryptor' = encryptor
        \/ encryptor' = [encryptor EXCEPT !.at = "busy", !.frame = queue[1]]
    BY <1>1, <1>2, <1>8 DEF P!Take
  <2>2. encryptor' \in Encrypting
    BY <1>1, <1>2, <2>1 DEF Encrypting
  <2>3. encryptor'.at \in {"waiting", "busy"} /\ encryptor'.failed = encryptor.failed
    BY <1>1, <2>1 DEF Encrypting
  <2>4. PipelineTypes'
    BY <1>1, <1>2, <1>3, <2>2 DEF PipelineTypes
  <2>5. StopIsLast'
    <3>1. CASE P!At("joining")
      <4>1. /\ queue[Len(queue)] = P!Stop /\ \A k \in DOMAIN queue : queue[k] = P!Stop => k = Len(queue)
        BY <1>1, <3>1 DEF StopIsLast
      <4>2. Len(queue) > 1
        BY <1>2, <1>8, <4>1
      <4>3. queue' # <<>> /\ queue'[Len(queue')] = P!Stop
        BY <1>2, <4>1, <4>2
      <4>4. \A k \in DOMAIN queue' : queue'[k] = P!Stop => k = Len(queue')
        <5>1. \A k \in 1..(Len(queue) - 1) : k + 1 \in DOMAIN queue /\ k \in Int
          BY <1>2
        <5>2. \A k \in 1..(Len(queue) - 1) : queue'[k] = P!Stop => k + 1 = Len(queue)
          BY <1>2, <4>1, <5>1
        <5>3. \A k \in 1..(Len(queue) - 1) : k + 1 = Len(queue) => k = Len(queue) - 1
          BY <1>2
        <5>4. QED
          BY <1>2, <5>2, <5>3
      <4>5. QED
        BY <1>1, <2>3, <3>1, <4>3, <4>4 DEF StopIsLast, P!At, BeforeStop, AfterJoin, P!Ended
    <3>2. CASE builder.at \in BeforeStop
      <4>1. \A k \in DOMAIN queue : queue[k] # P!Stop
        BY <1>1, <3>2 DEF StopIsLast
      <4>2. \A k \in DOMAIN queue' : queue'[k] # P!Stop
        <5>1. \A k \in 1..(Len(queue) - 1) : k + 1 \in DOMAIN queue
          BY <1>2
        <5>2. QED
          BY <1>2, <4>1, <5>1
      <4>3. QED
        BY <1>1, <2>3, <3>2, <4>2 DEF StopIsLast, P!At, BeforeStop, AfterJoin, P!Ended
    <3>3. QED
      BY <1>4, <3>1, <3>2 DEF P!At
  <2>6. /\ Sent' = Sent /\ Offered' = Offered /\ Busy = 0 /\ Busy' \in {0, 1} /\ Sent \in {0, 1}
        /\ Offered \in {0, 1}
    BY <1>1, <2>3 DEF Sent, Offered, Busy, P!At
  <2>7. Handed' <= Handed /\ Handed \in Int /\ Handed' \in Int
    BY <1>1, <1>2, <1>3, <2>6 DEF Handed
  <2>8. Len(buffer) \in Nat /\ written \in Int
    BY <1>1 DEF PipelineTypes
  <2>9. FramesHoldUnits'
    BY <1>1, <2>7, <2>8 DEF FramesHoldUnits
  <2>10. BuilderKnows'
    BY <1>5, <2>3
  <2>11. QED
    BY <1>6, <2>4, <2>5, <2>9, <2>10 DEF PipelineCore
<1>9. QED
  BY <1>7, <1>8

LEMMA EncryptCore == ASSUME PipelineConstants, PipelineCore, P!Encrypt PROVE PipelineCore'
<1>1. /\ PipelineTypes /\ StopIsLast /\ FramesHoldUnits /\ BuilderKnows /\ SealIsLast
      /\ UNCHANGED <<written, buffer, queue, builder, reporter, row, file, reopened>>
      /\ encryptor.at = "busy" /\ encryptor \in Encrypting /\ payload \in Seq(Seq(Units))
      /\ encryptor.frame \in Seq(Units)
  BY DEF PipelineCore, P!Encrypt, PipelineTypes, Encrypting
<1>2. \/ payload' = Append(payload, encryptor.frame) /\ encryptor' = [encryptor EXCEPT !.at = "waiting"]
      \/ encryptor' = [encryptor EXCEPT !.at = "waiting", !.failed = TRUE] /\ payload' = payload
  BY DEF P!Encrypt
<1>3. /\ encryptor' \in Encrypting /\ encryptor'.at = "waiting"
      /\ (~encryptor'.failed => ~encryptor.failed)
  BY <1>1, <1>2 DEF Encrypting
<1>4. payload' \in Seq(Seq(Units)) /\ Len(payload) \in Nat /\ Len(payload') <= Len(payload) + 1 /\ Len(payload') \in Nat
  BY <1>1, <1>2, Appended
<1>5. PipelineTypes'
  BY <1>1, <1>3, <1>4 DEF PipelineTypes
<1>6. StopIsLast'
  BY <1>1, <1>3 DEF StopIsLast, P!At, BeforeStop, AfterJoin, P!Ended
<1>7. SealIsLast'
  BY <1>1 DEF SealIsLast, P!At
<1>8. BuilderKnows'
  BY <1>1, <1>3 DEF BuilderKnows, P!At
<1>9. FramesHoldUnits'
  <2>1. /\ Busy = 1 /\ Busy' = 0 /\ Sent' = Sent /\ Offered' = Offered /\ Sent \in {0, 1}
        /\ Offered \in {0, 1} /\ Len(queue) \in Nat /\ Len(buffer) \in Nat /\ written \in Int
    BY <1>1, <1>3 DEF Sent, Offered, Busy, P!At, PipelineTypes
  <2>2. Len(payload) + 1 + Len(queue) - Sent + Offered + Len(buffer) <= written
    BY <1>1, <2>1 DEF FramesHoldUnits, Handed
  <2>3. Len(payload') + 0 + Len(queue) - Sent + Offered + Len(buffer) <= written
    BY <1>4, <2>1, <2>2
  <2>4. QED
    BY <1>1, <2>1, <2>3 DEF FramesHoldUnits, Handed
<1>10. QED
  BY <1>5, <1>6, <1>7, <1>8, <1>9 DEF PipelineCore

(* Steps of the progress thread, of whoever cancels, and of the reader.    *)
LEMMA OthersCore ==
  ASSUME PipelineCore, UNCHANGED <<written, buffer, queue, payload, builder, encryptor>>,
         reporter' \in Reporting, row' \in [status : {"running", "cancelled"}, early : BOOLEAN], SealIsLast'
  PROVE  PipelineCore'
<1>1. PipelineTypes'
  BY DEF PipelineTypes, PipelineCore
<1>2. StopIsLast' /\ BuilderKnows'
  BY DEF PipelineCore, StopIsLast, BuilderKnows, P!At
<1>3. Handed' = Handed
  BY DEF Handed, Sent, Busy, Offered, P!At
<1>4. FramesHoldUnits'
  BY <1>3 DEF FramesHoldUnits, PipelineCore
<1>5. QED
  BY <1>1, <1>2, <1>4 DEF PipelineCore

LEMMA WakeCore == ASSUME PipelineConstants, PipelineCore, P!Wake PROVE PipelineCore'
<1>1. /\ SealIsLast /\ UNCHANGED <<written, buffer, queue, payload, builder, encryptor, row, file, reopened>>
      /\ reporter \in Reporting /\ row \in [status : {"running", "cancelled"}, early : BOOLEAN]
      /\ reporter.at = "waiting" /\ (reporter.pending # P!NoReport \/ reporter.stopping)
  BY DEF PipelineCore, P!Wake, PipelineTypes
<1>2. CASE reporter.pending = P!NoReport
  <2>1. reporter' = [reporter EXCEPT !.at = "gone"]
    BY <1>2 DEF P!Wake
  <2>2. /\ reporter' \in Reporting /\ reporter'.at = "gone" /\ reporter'.item = reporter.item
        /\ reporter'.pending = reporter.pending /\ reporter'.cancelled = reporter.cancelled
        /\ reporter'.unheard = reporter.unheard /\ reporter'.stopping = reporter.stopping
    BY <1>1, <2>1 DEF Reporting
  <2>3. SealIsLast'
    BY <1>1, <1>2, <2>2 DEF SealIsLast, P!At, P!NoReport
  <2>4. QED
    BY <1>1, <2>2, <2>3, OthersCore
<1>3. CASE reporter.pending # P!NoReport
  <2>1. reporter' = [reporter EXCEPT !.at = "reporting", !.item = reporter.pending, !.pending = P!NoReport]
    BY <1>3 DEF P!Wake
  <2>2. reporter.pending \in Pending /\ P!NoReport \in Pending
    BY <1>1 DEF Pending, Reporting
  <2>3. /\ reporter' \in Reporting /\ reporter'.at = "reporting" /\ reporter'.item = reporter.pending
        /\ reporter'.pending = P!NoReport /\ reporter'.cancelled = reporter.cancelled
        /\ reporter'.unheard = reporter.unheard /\ reporter'.stopping = reporter.stopping
    BY <1>1, <2>1, <2>2 DEF Reporting
  <2>4. SealIsLast'
    BY <1>1, <1>3, <2>3 DEF SealIsLast, P!At, P!NoReport
  <2>5. QED
    BY <1>1, <2>3, <2>4, OthersCore
<1>4. QED
  BY <1>2, <1>3

LEMMA ReportCore == ASSUME PipelineConstants, PipelineCore, P!Report PROVE PipelineCore'
<1>1. /\ SealIsLast /\ UNCHANGED <<written, buffer, queue, payload, builder, encryptor, row, file, reopened>>
      /\ reporter \in Reporting /\ row \in [status : {"running", "cancelled"}, early : BOOLEAN]
      /\ reporter.at = "reporting" /\ builder.sealed \in BOOLEAN
  BY DEF PipelineCore, P!Report, PipelineTypes, Building
<1> DEFINE heard == reporter.cancelled \/ row.status = "cancelled"
           unheard == (reporter.item = "seal")
<1>2. heard \in BOOLEAN /\ unheard \in BOOLEAN
  BY <1>1 DEF Reporting
<1>3. \/ reporter' = [reporter EXCEPT !.at = "waiting", !.cancelled = heard]
      \/ reporter.item = "tick" /\ reporter' = [reporter EXCEPT !.at = "waiting"]
      \/ reporter' = [reporter EXCEPT !.at = "waiting", !.unheard = unheard]
  BY DEF P!Report
<1>4. /\ (heard <=> reporter.cancelled \/ row.status = "cancelled") /\ (unheard <=> reporter.item = "seal")
  OBVIOUS
<1> HIDE DEF heard, unheard
<1>5. reporter' \in Reporting
  BY <1>1, <1>2, <1>3 DEF Reporting
<1>6. /\ reporter'.at = "waiting" /\ reporter'.item = reporter.item /\ reporter'.pending = reporter.pending
      /\ reporter'.stopping = reporter.stopping
      /\ \/ (reporter'.cancelled <=> heard) /\ reporter'.unheard = reporter.unheard
         \/ reporter.item = "tick" /\ reporter'.cancelled = reporter.cancelled /\ reporter'.unheard = reporter.unheard
         \/ reporter'.cancelled = reporter.cancelled /\ (reporter'.unheard <=> unheard)
  BY <1>1, <1>2, <1>3 DEF Reporting
<1>7. ~reporter.unheard /\ reporter.at # "gone" /\ builder.at # "done"
  BY <1>1 DEF SealIsLast, P!At
<1>8. SealIsLast'
  BY <1>1, <1>4, <1>6, <1>7 DEF SealIsLast, P!At
<1>9. QED
  BY <1>1, <1>5, <1>8, OthersCore

LEMMA CancelCore == ASSUME PipelineConstants, PipelineCore, P!Cancel PROVE PipelineCore'
<1>1. /\ SealIsLast /\ UNCHANGED <<written, buffer, queue, payload, builder, encryptor, reporter, file, reopened>>
      /\ reporter \in Reporting /\ builder.sealed \in BOOLEAN /\ builder.at \notin P!Ended
      /\ row' = [status |-> "cancelled", early |-> ~builder.sealed]
  BY DEF PipelineCore, P!Cancel, PipelineTypes, Building
<1>2. /\ row' \in [status : {"running", "cancelled"}, early : BOOLEAN]
      /\ row'.status = "cancelled" /\ (row'.early <=> ~builder.sealed)
  BY <1>1
<1>3. SealIsLast'
  BY <1>1, <1>2 DEF SealIsLast, P!At, P!Ended
<1>4. QED
  BY <1>1, <1>2, <1>3, OthersCore

LEMMA CoreIsKept == ASSUME PipelineConstants, PipelineCore, [P!Next]_P!pipeline PROVE PipelineCore'
<1>1. CASE UNCHANGED P!pipeline \/ P!Open
  <2>1. /\ UNCHANGED <<written, buffer, queue, payload, builder, encryptor, reporter, row>>
        /\ reporter' \in Reporting /\ row' \in [status : {"running", "cancelled"}, early : BOOLEAN]
        /\ SealIsLast
    BY <1>1 DEF P!Open, P!pipeline, PipelineCore, PipelineTypes
  <2>2. SealIsLast'
    BY <2>1 DEF SealIsLast, P!At
  <2>3. QED
    BY <2>1, <2>2, OthersCore
<1>2. CASE P!Build
  <2>1. CASE \E report \in P!Reports : P!Post(report)
    BY <2>1, PostCore
  <2>2. CASE P!Write
    BY <2>2, WriteCore
  <2>3. CASE P!Submit
    BY <2>3, SubmitCore
  <2>4. CASE P!Offer
    BY <2>4, OfferCore
  <2>5. CASE P!Posted
    BY <2>5, PostedCore
  <2>6. CASE P!BuildFails
    BY <2>6, FailsCore
  <2>7. CASE P!Unwind
    BY <2>7, UnwindCore
  <2>8. CASE P!CloseBuffer
    BY <2>8, CloseCore
  <2>9. CASE P!Flush
    BY <2>9, FlushCore
  <2>10. CASE P!SendStop
    BY <2>10, StopCore
  <2>11. CASE P!Finish
    BY <2>11, FinishCore
  <2>12. CASE P!Hush
    BY <2>12, HushCore
  <2>13. CASE P!Leave
    BY <2>13, LeaveCore
  <2>14. QED
    BY <1>2, <2>1, <2>2, <2>3, <2>4, <2>5, <2>6, <2>7, <2>8, <2>9, <2>10, <2>11, <2>12,
         <2>13 DEF P!Build
<1>3. CASE P!Threads
  BY <1>3, TakeCore, EncryptCore, WakeCore, ReportCore DEF P!Threads
<1>4. CASE P!Cancel
  BY <1>4, CancelCore
<1>5. QED
  BY <1>1, <1>2, <1>3, <1>4 DEF P!Next

(* What the form of the threads' states says.                              *)
LEMMA TypesFollow ==
  ASSUME PipelineConstants, PipelineCore PROVE P!PipelineTypeOK /\ P!CancelIsNoticed
<1>1. /\ PipelineTypes /\ StopIsLast /\ FramesHoldUnits /\ BuilderKnows /\ SealIsLast
  BY DEF PipelineCore
<1>2. /\ Sent \in {0, 1} /\ Busy \in {0, 1} /\ Offered \in {0, 1} /\ Len(payload) \in Nat
      /\ Len(queue) \in Nat /\ Len(buffer) \in Nat /\ written \in 0..Size /\ Size \in Nat
  BY <1>1 DEF Sent, Busy, Offered, PipelineTypes, PipelineConstants
<1>3. Sent <= Len(queue)
  <2>1. CASE Sent = 0
    BY <1>2, <2>1
  <2>2. CASE Sent = 1
    <3>1. queue # <<>> /\ queue \in Seq(Seq(Units))
      BY <1>1, <2>2 DEF Sent, StopIsLast, PipelineTypes
    <3>2. QED
      BY <1>2, <2>2, <3>1
  <2>3. QED
    BY <1>2, <2>1, <2>2
<1>4. Len(payload) <= Size /\ Len(buffer) <= Size
  BY <1>1, <1>2, <1>3 DEF FramesHoldUnits, Handed
<1>5. builder.at \in P!Ended \cup {"building", "posted", "offering", "unwinding", "closing", "flushing",
                                 "stopping", "joining", "hushing", "leaving"}
  BY <1>1 DEF PipelineTypes, Building, Steps, BeforeStop, AfterJoin
<1>6. P!PipelineTypeOK
  BY <1>1, <1>2, <1>4, <1>5 DEF P!PipelineTypeOK, PipelineTypes, Encrypting, Reporting,
       Pending
<1>7. P!CancelIsNoticed
  BY <1>1 DEF P!CancelIsNoticed, SealIsLast, P!At, P!NoReport
<1>8. QED
  BY <1>6, <1>7

LEMMA NoneIsLast ==
  ASSUME NEW N \in Nat, NEW Bad \in SUBSET (0..N), \A i \in Bad : \E j \in Bad : i < j
  PROVE  Bad = {}
<1>1. SUFFICES ASSUME Bad # {} PROVE FALSE
  OBVIOUS
<1> DEFINE Rest == {r \in 0..N : N - r \in Bad}
<1>2. \A i \in Bad : N - i \in Rest /\ N - i \in 0..N
  <2>1. SUFFICES ASSUME NEW i \in Bad PROVE N - i \in Rest /\ N - i \in 0..N
    OBVIOUS
  <2>2. i \in 0..N /\ N - (N - i) = i
    OBVIOUS
  <2>3. QED
    BY <2>1, <2>2
<1>3. Rest \in SUBSET Nat /\ Rest # {}
  <2>1. Rest \in SUBSET Nat
    OBVIOUS
  <2>2. PICK i \in Bad : TRUE
    BY <1>1
  <2>3. N - i \in Rest
    BY <1>2, <2>2
  <2>4. QED
    BY <2>1, <2>3
<1> HIDE DEF Rest
<1>4. PICK r \in Rest : \A m \in Rest : r <= m
  BY <1>3, FirstOf
<1>5. r \in 0..N /\ N - r \in Bad
  BY <1>4 DEF Rest
<1>6. PICK j \in Bad : N - r < j
  BY <1>5
<1>7. N - j \in Rest /\ j \in 0..N
  BY <1>2, <1>6
<1>8. r <= N - j
  BY <1>4, <1>7
<1>9. QED
  BY <1>5, <1>6, <1>7, <1>8

LEMMA SameSeq ==
  ASSUME NEW S, NEW s \in Seq(S), NEW t \in Seq(S), Len(s) = Len(t), \A i \in 1..Len(s) : s[i] = t[i]
  PROVE  s = t
OBVIOUS

(* What a run of consecutive units is, joined and cut.                     *)
LEMMA SpanIs ==
  ASSUME NEW a \in Nat, NEW b \in Nat, a <= b
  PROVE  /\ Span(a, b) \in Seq(Nat) /\ Len(Span(a, b)) = b - a
         /\ \A j \in 1..(b - a) : Span(a, b)[j] = a + j
<1>1. b - a \in Nat /\ \A j \in 1..(b - a) : a + j \in Nat
  OBVIOUS
<1>2. [j \in 1..(b - a) |-> a + j] \in Seq(Nat) /\ Len([j \in 1..(b - a) |-> a + j]) = b - a
  BY <1>1
<1>3. QED
  BY <1>2 DEF Span

LEMMA SpanJoin ==
  ASSUME NEW a \in Nat, NEW b \in Nat, NEW c \in Nat, a <= b, b <= c
  PROVE  Span(a, b) \o Span(b, c) = Span(a, c)
<1> DEFINE s == Span(a, b)
           t == Span(b, c)
           u == Span(a, c)
<1>1. /\ s \in Seq(Nat) /\ Len(s) = b - a /\ \A j \in 1..(b - a) : s[j] = a + j
      /\ t \in Seq(Nat) /\ Len(t) = c - b /\ \A j \in 1..(c - b) : t[j] = b + j
      /\ u \in Seq(Nat) /\ Len(u) = c - a /\ \A j \in 1..(c - a) : u[j] = a + j
  <2>1. s \in Seq(Nat) /\ Len(s) = b - a /\ \A j \in 1..(b - a) : s[j] = a + j
    BY SpanIs
  <2>2. t \in Seq(Nat) /\ Len(t) = c - b /\ \A j \in 1..(c - b) : t[j] = b + j
    BY SpanIs
  <2>3. a <= c
    OBVIOUS
  <2>4. u \in Seq(Nat) /\ Len(u) = c - a /\ \A j \in 1..(c - a) : u[j] = a + j
    BY <2>3, SpanIs
  <2>5. QED
    BY <2>1, <2>2, <2>4
<1> HIDE DEF s, t, u
<1>2. /\ s \o t \in Seq(Nat) /\ Len(s \o t) = (b - a) + (c - b)
      /\ \A i \in 1..(b - a) : (s \o t)[i] = s[i]
      /\ \A i \in 1..(c - b) : (s \o t)[(b - a) + i] = t[i]
  <2>1. s \in Seq(Nat) /\ t \in Seq(Nat)
    BY <1>1
  <2>2. /\ s \o t \in Seq(Nat) /\ Len(s \o t) = Len(s) + Len(t)
        /\ \A i \in 1..Len(s) : (s \o t)[i] = s[i]
        /\ \A i \in 1..Len(t) : (s \o t)[Len(s) + i] = t[i]
    BY <2>1, Joined
  <2>3. Len(s) = b - a /\ Len(t) = c - b
    BY <1>1
  <2>4. QED
    BY <2>2, <2>3
<1>3. ASSUME NEW i \in 1..(c - a) PROVE (s \o t)[i] = u[i]
  <2>1. CASE i <= b - a
    BY <1>1, <1>2, <2>1
  <2>2. CASE i > b - a
    <3>1. i - (b - a) \in 1..(c - b) /\ i = (b - a) + (i - (b - a))
      BY <2>2
    <3>2. (s \o t)[i] = t[i - (b - a)]
      BY <1>2, <3>1
    <3>3. t[i - (b - a)] = b + (i - (b - a))
      BY <1>1, <3>1
    <3>4. u[i] = a + i /\ i \in Int
      BY <1>1
    <3>5. b + (i - (b - a)) = a + i
      BY <3>4
    <3>6. QED
      BY <3>2, <3>3, <3>4, <3>5
  <2>3. i <= b - a \/ i > b - a
    <3>1. i \in Int /\ b - a \in Int
      OBVIOUS
    <3>2. QED
      BY <3>1
  <2>4. QED
    BY <2>1, <2>2, <2>3
<1>4. s \o t = u
  <2>1. Len(s \o t) = c - a /\ Len(u) = c - a
    BY <1>1, <1>2
  <2>2. s \o t \in Seq(Nat) /\ u \in Seq(Nat)
    BY <1>1, <1>2
  <2>3. \A i \in 1..Len(s \o t) : (s \o t)[i] = u[i]
    BY <1>3, <2>1
  <2>4. QED
    BY <2>1, <2>2, <2>3, SameSeq
<1>5. QED
  BY <1>4 DEF s, t, u

LEMMA SpanCut ==
  ASSUME NEW a \in Nat, NEW b \in Nat, NEW c \in Nat, a <= b, b <= c
  PROVE  /\ SubSeq(Span(a, c), 1, b - a) = Span(a, b)
         /\ SubSeq(Span(a, c), (b - a) + 1, Len(Span(a, c))) = Span(b, c)
<1> DEFINE s == Span(a, b)
           t == Span(b, c)
           u == Span(a, c)
<1>1. /\ s \in Seq(Nat) /\ Len(s) = b - a /\ \A j \in 1..(b - a) : s[j] = a + j
      /\ t \in Seq(Nat) /\ Len(t) = c - b /\ \A j \in 1..(c - b) : t[j] = b + j
      /\ u \in Seq(Nat) /\ Len(u) = c - a /\ \A j \in 1..(c - a) : u[j] = a + j
  <2>1. s \in Seq(Nat) /\ Len(s) = b - a /\ \A j \in 1..(b - a) : s[j] = a + j
    BY SpanIs
  <2>2. t \in Seq(Nat) /\ Len(t) = c - b /\ \A j \in 1..(c - b) : t[j] = b + j
    BY SpanIs
  <2>3. a <= c
    OBVIOUS
  <2>4. u \in Seq(Nat) /\ Len(u) = c - a /\ \A j \in 1..(c - a) : u[j] = a + j
    BY <2>3, SpanIs
  <2>5. QED
    BY <2>1, <2>2, <2>4
<1> HIDE DEF s, t, u
<1> DEFINE n == b - a
           front == SubSeq(u, 1, n)
           rest == SubSeq(u, n + 1, Len(u))
<1>2. n \in Nat /\ n <= Len(u)
  BY <1>1
<1> HIDE DEF n
<1>3. /\ front \in Seq(Nat) /\ Len(front) = n
      /\ rest \in Seq(Nat) /\ Len(rest) = Len(u) - n
      /\ \A i \in 1..n : front[i] = u[i]
      /\ \A i \in 1..(Len(u) - n) : rest[i] = u[n + i]
  <2>1. u \in Seq(Nat)
    BY <1>1
  <2>2. QED
    BY <1>2, <2>1, Lengths
<1> HIDE DEF front, rest
<1>4. Len(front) = Len(s) /\ \A i \in 1..Len(front) : front[i] = s[i]
  BY <1>1, <1>3 DEF n
<1>5. Len(rest) = Len(t) /\ \A i \in 1..Len(rest) : rest[i] = t[i]
  BY <1>1, <1>3 DEF n
<1>6. front = s
  BY <1>1, <1>3, <1>4, SameSeq
<1>7. rest = t
  BY <1>1, <1>3, <1>5, SameSeq
<1>8. QED
  BY <1>6, <1>7 DEF s, t, u, front, rest, n

Cuts == [Nat -> Nat]

(* The numbers of frames, where they are.                                  *)
LEMMA Counts ==
  ASSUME PipelineConstants, PipelineCore
  PROVE  /\ Sent \in {0, 1} /\ Busy \in {0, 1} /\ Offered \in {0, 1} /\ Len(payload) \in Nat
         /\ Len(queue) \in Nat /\ DOMAIN queue = 1..Len(queue) /\ DOMAIN payload = 1..Len(payload)
         /\ Sent <= Len(queue) /\ Handed \in Nat /\ written \in Nat /\ Size \in Nat /\ written <= Size
         /\ (Offered = 1 => Handed >= 1)
         /\ (builder.at # "joining" => Sent = 0)
         /\ Handed = Len(payload) + Busy + Len(queue) - Sent + Offered
<1>1. PipelineTypes /\ StopIsLast /\ queue \in Seq(Seq(Units)) /\ payload \in Seq(Seq(Units))
  BY DEF PipelineCore, PipelineTypes
<1>2. /\ Sent \in {0, 1} /\ Busy \in {0, 1} /\ Offered \in {0, 1} /\ Len(payload) \in Nat
      /\ Len(queue) \in Nat /\ DOMAIN queue = 1..Len(queue) /\ DOMAIN payload = 1..Len(payload)
      /\ written \in Nat /\ Size \in Nat /\ written <= Size
  BY <1>1 DEF Sent, Busy, Offered, PipelineTypes, PipelineConstants
<1>3. Sent <= Len(queue)
  <2>1. CASE Sent = 0
    BY <1>2, <2>1
  <2>2. CASE Sent = 1
    <3>1. queue # <<>>
      BY <1>1, <2>2 DEF Sent, StopIsLast
    <3>2. QED
      BY <1>1, <1>2, <2>2, <3>1
  <2>3. QED
    BY <1>2, <2>1, <2>2
<1>4. Handed = Len(payload) + Busy + Len(queue) - Sent + Offered
  BY DEF Handed
<1>5. builder.at # "joining" => Sent = 0
  BY DEF Sent, P!At
<1>6. Handed \in Nat /\ (Offered = 1 => Handed >= 1)
  BY <1>2, <1>3, <1>4
<1>7. QED
  BY <1>2, <1>3, <1>4, <1>5, <1>6

(* Steps that leave the frames where they are.                             *)
LEMMA SequencedAlike ==
  ASSUME NEW cut \in Cuts, Sequenced(cut), UNCHANGED <<written, buffer, queue, payload>>,
         encryptor'.at = encryptor.at, encryptor'.frame = encryptor.frame,
         Handed' = Handed, Offered' = Offered, Offered = 1 => builder'.frame = builder.frame
  PROVE  Sequenced(cut)'
<1>1. Busy' = Busy
  BY DEF Busy
<1>2. QED
  BY <1>1 DEF Sequenced

LEMMA SequencedAtFirst ==
  ASSUME PipelineConstants, P!Init PROVE InSequence
<1> DEFINE cut == [n \in Nat |-> 0]
<1>1. cut \in Cuts /\ \A n \in Nat : cut[n] = 0
  BY DEF Cuts
<1> HIDE DEF cut
<1>2. /\ written = 0 /\ buffer = <<>> /\ queue = <<>> /\ payload = <<>> /\ Len(<<>>) = 0 /\ DOMAIN <<>> = {}
      /\ builder.at = "building" /\ encryptor.at = "waiting"
  BY DEF P!Init
<1>3. Busy = 0 /\ Offered = 0 /\ Sent = 0
  BY <1>2 DEF Busy, Offered, Sent, P!At
<1>4. Handed = 0
  BY <1>2, <1>3 DEF Handed
<1>5. Span(0, 0) = <<>>
  <2>1. Span(0, 0) \in Seq(Nat) /\ Len(Span(0, 0)) = 0
    BY SpanIs
  <2>2. QED
    BY <2>1
<1>6. Sequenced(cut)
  BY <1>1, <1>2, <1>3, <1>4, <1>5 DEF Sequenced
<1>7. QED
  BY <1>1, <1>6 DEF InSequence, Cuts

LEMMA WriteOrder ==
  ASSUME PipelineConstants, PipelineCore, P!Write, NEW cut \in Cuts, Sequenced(cut)
  PROVE  Sequenced(cut)'
<1>1. /\ UNCHANGED <<queue, payload, builder, encryptor, reporter, row, file, reopened>>
      /\ P!At("building") /\ written \in Nat /\ Handed \in Nat /\ Size \in Nat
  BY Counts DEF P!Write
<1>2. PICK n \in 1..(Size - written) :
        buffer' = buffer \o [i \in 1..n |-> written + i] /\ written' = written + n
  BY DEF P!Write
<1>3. Busy' = Busy /\ Offered' = Offered /\ Handed' = Handed /\ Offered = 0
  BY <1>1 DEF Busy, Offered, Handed, Sent, P!At
<1>4. cut[Handed] \in Nat /\ cut[Handed] <= written /\ buffer = Span(cut[Handed], written)
  BY <1>1 DEF Sequenced, Cuts
<1>5. [i \in 1..n |-> written + i] = Span(written, written + n)
  <2>1. (written + n) - written = n
    BY <1>1
  <2>2. QED
    BY <2>1 DEF Span
<1>6. n \in Nat /\ written + n \in Nat /\ written <= written + n
  BY <1>1
<1>7. buffer' = Span(cut[Handed], written + n)
  <2>1. PICK a \in Nat : a = cut[Handed]
    BY <1>4
  <2>2. Span(a, written) \o Span(written, written + n) = Span(a, written + n)
    BY <1>1, <1>4, <1>6, <2>1, SpanJoin
  <2>3. buffer' = Span(a, written) \o Span(written, written + n)
    BY <1>2, <1>4, <1>5, <2>1
  <2>4. QED
    BY <2>1, <2>2, <2>3
<1>8. cut[Handed] <= written + n
  BY <1>1, <1>4, <1>6
<1>9. QED
  BY <1>1, <1>2, <1>3, <1>7, <1>8 DEF Sequenced

(* The frame that is handed over ends where the rest of the buffer begins. *)
LEMMA FrameIsHandedOver ==
  ASSUME PipelineConstants, PipelineCore, NEW cut \in Cuts, Sequenced(cut),
         Offered = 0, Sent = 0, Offered' = 1, Sent' = 0, NEW b \in Nat, cut[Handed] < b, b <= written,
         builder'.frame = Span(cut[Handed], b), buffer' = Span(b, written),
         UNCHANGED <<written, queue, payload, encryptor>>
  PROVE  \E c \in Cuts : Sequenced(c)'
<1>0. PICK h \in Nat : h = Handed
  BY Counts
<1> DEFINE c == [cut EXCEPT ![h + 1] = b]
<1>1. /\ Busy \in {0, 1} /\ Len(payload) \in Nat /\ Len(queue) \in Nat /\ DOMAIN queue = 1..Len(queue)
      /\ DOMAIN payload = 1..Len(payload) /\ Handed \in Nat /\ Handed = Len(payload) + Busy + Len(queue)
  BY Counts
<1>2. c \in Cuts /\ c[Handed + 1] = b /\ \A k \in 0..Handed : c[k] = cut[k]
  <2>1. c \in Cuts /\ h + 1 \in Nat
    BY <1>0 DEF Cuts
  <2>2. c[h + 1] = b
    BY <2>1 DEF Cuts
  <2>3. \A k \in 0..h : k \in Nat /\ k # h + 1
    BY <1>0
  <2>4. \A k \in 0..h : c[k] = cut[k]
    BY <2>1, <2>3 DEF Cuts
  <2>5. QED
    BY <1>0, <2>1, <2>2, <2>4
<1>3. Busy' = Busy /\ Handed' = Handed + 1
  BY <1>1 DEF Busy, Handed
<1> HIDE DEF c
<1>4. c[0] = 0
  BY <1>1, <1>2 DEF Sequenced
<1>5. ASSUME NEW k \in DOMAIN payload' PROVE Piece(payload'[k], c[k - 1], c[k])
  <2>1. k \in DOMAIN payload /\ k \in 0..Handed /\ k - 1 \in 0..Handed
    BY <1>1
  <2>2. Piece(payload[k], cut[k - 1], cut[k])
    BY <2>1 DEF Sequenced
  <2>3. QED
    BY <1>2, <2>1, <2>2
<1>6. Busy' = 1 => Piece(encryptor'.frame, c[Len(payload')], c[Len(payload') + 1])
  <2>1. SUFFICES ASSUME Busy = 1 PROVE Piece(encryptor.frame, c[Len(payload)], c[Len(payload) + 1])
    BY <1>3
  <2>2. Len(payload) \in 0..Handed /\ Len(payload) + 1 \in 0..Handed
    BY <1>1, <2>1
  <2>3. Piece(encryptor.frame, cut[Len(payload)], cut[Len(payload) + 1])
    BY <2>1 DEF Sequenced
  <2>4. QED
    BY <1>2, <2>2, <2>3
<1>7. ASSUME NEW k \in DOMAIN queue', queue'[k] # P!Stop
      PROVE  Piece(queue'[k], c[Len(payload') + Busy' + k - 1], c[Len(payload') + Busy' + k])
  <2>1. k \in 1..Len(queue) /\ k \in DOMAIN queue /\ queue[k] # P!Stop
    BY <1>1, <1>7
  <2>2. Len(payload) + Busy + k \in 0..Handed /\ Len(payload) + Busy + k - 1 \in 0..Handed
    BY <1>1, <2>1
  <2>3. Piece(queue[k], cut[Len(payload) + Busy + k - 1], cut[Len(payload) + Busy + k])
    BY <2>1 DEF Sequenced
  <2>4. QED
    BY <1>2, <1>3, <2>2, <2>3
<1>8. Piece(builder'.frame, c[Handed' - 1], c[Handed'])
  <2>1. Handed' - 1 = Handed /\ Handed \in 0..Handed
    BY <1>1, <1>3
  <2>2. c[Handed' - 1] = cut[Handed] /\ c[Handed'] = b
    BY <1>2, <1>3, <2>1
  <2>3. QED
    BY <2>2 DEF Piece
<1>9. c[Handed'] <= written' /\ buffer' = Span(c[Handed'], written')
  BY <1>2, <1>3
<1>10. Sequenced(c)'
  BY <1>4, <1>5, <1>6, <1>7, <1>8, <1>9 DEF Sequenced
<1>11. QED
  BY <1>2, <1>10

LEMMA SubmitOrder ==
  ASSUME PipelineConstants, PipelineCore, P!Submit, ~builder.failing, ~encryptor.failed,
         NEW cut \in Cuts, Sequenced(cut)
  PROVE  \E c \in Cuts : Sequenced(c)'
<1>1. /\ UNCHANGED <<written, queue, payload, encryptor>> /\ builder.at \in {"building", "unwinding"}
      /\ Len(buffer) >= Frame /\ Frame \in Nat /\ Frame > 0
      /\ buffer' = SubSeq(buffer, Frame + 1, Len(buffer)) /\ builder \in Building
      /\ builder' = [builder EXCEPT !.at = "offering", !.frame = SubSeq(buffer, 1, Frame)]
  BY DEF P!Submit, PipelineCore, PipelineTypes, PipelineConstants
<1>2. written \in Nat /\ Handed \in Nat
  BY Counts
<1>3. cut[Handed] \in Nat /\ cut[Handed] <= written /\ buffer = Span(cut[Handed], written)
  BY <1>2 DEF Sequenced, Cuts
<1> DEFINE a == cut[Handed]
           b == a + Frame
<1>4. Len(buffer) = written - a
  BY <1>2, <1>3, SpanIs
<1>5. a \in Nat /\ b \in Nat /\ a < b /\ b <= written /\ a <= b /\ b - a = Frame /\ buffer = Span(a, written)
  BY <1>1, <1>2, <1>3, <1>4
<1> HIDE DEF b, a
<1>6. /\ SubSeq(Span(a, written), 1, b - a) = Span(a, b)
      /\ SubSeq(Span(a, written), (b - a) + 1, Len(Span(a, written))) = Span(b, written)
  BY <1>2, <1>5, SpanCut
<1>7. SubSeq(buffer, 1, Frame) = Span(a, b) /\ buffer' = Span(b, written)
  BY <1>1, <1>5, <1>6
<1>8. builder'.at = "offering" /\ builder'.frame = SubSeq(buffer, 1, Frame)
  <2> DEFINE frame == SubSeq(buffer, 1, Frame)
  <2>1. builder' = [builder EXCEPT !.at = "offering", !.frame = frame]
    BY <1>1
  <2> HIDE DEF frame
  <2>2. builder'.at = "offering" /\ builder'.frame = frame
    BY <1>1, <2>1 DEF Building
  <2>3. QED
    BY <2>2 DEF frame
<1>9. Offered = 0 /\ Sent = 0 /\ Offered' = 1 /\ Sent' = 0
  BY <1>1, <1>8 DEF Offered, Sent, P!At
<1>10. QED
  BY <1>1, <1>5, <1>7, <1>8, <1>9, FrameIsHandedOver DEF a

LEMMA CloseOrder ==
  ASSUME PipelineConstants, PipelineCore, P!CloseBuffer, ~builder.failing, ~encryptor.failed,
         NEW cut \in Cuts, Sequenced(cut)
  PROVE  \E c \in Cuts : Sequenced(c)'
<1>1. UNCHANGED <<written, queue, payload, encryptor>> /\ builder.at = "closing" /\ builder \in Building
  BY DEF P!CloseBuffer, P!At, PipelineCore, PipelineTypes
<1>2. written \in Nat /\ Handed \in Nat
  BY Counts
<1>3. cut[Handed] \in Nat /\ cut[Handed] <= written /\ buffer = Span(cut[Handed], written)
  BY <1>2 DEF Sequenced, Cuts
<1>4. CASE buffer # <<>>
  <2>1. builder' = [builder EXCEPT !.at = "flushing", !.frame = buffer] /\ buffer' = <<>>
    BY <1>4 DEF P!CloseBuffer
  <2>2. builder'.at = "flushing" /\ builder'.frame = buffer
    BY <1>1, <2>1 DEF Building
  <2>3. Offered = 0 /\ Sent = 0 /\ Offered' = 1 /\ Sent' = 0
    BY <1>1, <2>2 DEF Offered, Sent, P!At
  <2>4. Span(written, written) = <<>>
    <3>1. Span(written, written) \in Seq(Nat) /\ Len(Span(written, written)) = written - written
      BY <1>2, SpanIs
    <3>2. Len(Span(written, written)) = 0
      BY <1>2, <3>1
    <3>3. QED
      BY <3>1, <3>2
  <2>5. cut[Handed] # written
    BY <1>3, <1>4, <2>4
  <2>6. cut[Handed] < written /\ written <= written
    BY <1>2, <1>3, <2>5
  <2>7. QED
    BY <1>1, <1>2, <1>3, <2>1, <2>2, <2>3, <2>4, <2>6, FrameIsHandedOver
<1>5. CASE buffer = <<>>
  <2>1. P!Go("stopping") /\ buffer' = buffer
    BY <1>5 DEF P!CloseBuffer
  <2>2. builder' = [builder EXCEPT !.at = "stopping"]
    BY <2>1 DEF P!Go
  <2>3. builder'.at = "stopping"
    BY <1>1, <2>2 DEF Building
  <2>4. Offered = 0 /\ Offered' = Offered /\ Handed' = Handed
    BY <1>1, <2>1, <2>3 DEF Offered, Handed, Sent, Busy, P!At
  <2>5. Sequenced(cut)'
    BY <1>1, <2>1, <2>4, SequencedAlike
  <2>6. QED
    BY <2>5
<1>6. QED
  BY <1>4, <1>5

(* A frame, or the stop, is put behind what is in the queue.               *)
LEMMA OfferOrder ==
  ASSUME PipelineConstants, PipelineCore, P!Offer \/ P!Flush, NEW cut \in Cuts, Sequenced(cut)
  PROVE  Sequenced(cut)'
<1>1. /\ UNCHANGED <<written, buffer, payload, encryptor>> /\ builder.at \in {"offering", "flushing"}
      /\ P!Put(builder.frame) /\ builder.frame \in Seq(Units) /\ PipelineTypes
  BY DEF P!Offer, P!Flush, P!At, PipelineCore, PipelineTypes, Building
<1>2. /\ Len(queue') = Len(queue) + 1 /\ Len(queue) \in Nat /\ DOMAIN queue = 1..Len(queue)
      /\ DOMAIN queue' = 1..(Len(queue) + 1)
      /\ queue'[Len(queue) + 1] = builder.frame /\ \A k \in DOMAIN queue : queue'[k] = queue[k]
  BY <1>1, PutIs
<1>3. builder'.at \in {"building", "unwinding", "stopping"}
  <2>1. \E at \in {"building", "unwinding", "stopping"} : P!Go(at)
    BY DEF P!Offer, P!Flush
  <2>2. PICK at \in {"building", "unwinding", "stopping"} : P!Go(at)
    BY <2>1
  <2>3. at \in Steps
    BY DEF Steps, BeforeStop
  <2>4. QED
    BY <1>1, <2>2, <2>3, GoIs
<1>4. Offered = 1 /\ Offered' = 0 /\ Sent = 0 /\ Sent' = 0 /\ Busy' = Busy
  BY <1>1, <1>3 DEF Offered, Sent, Busy, P!At
<1>5. /\ Busy \in {0, 1} /\ Len(payload) \in Nat /\ Handed = Len(payload) + Busy + Len(queue) + 1 /\ Handed \in Nat
  BY <1>4, Counts
<1>6. Handed' = Handed
  <2>1. Handed' = Len(payload) + Busy + (Len(queue) + 1) - 0 + 0
    BY <1>1, <1>2, <1>4 DEF Handed
  <2>2. QED
    BY <1>2, <1>5, <2>1
<1>7. ASSUME NEW k \in DOMAIN queue', queue'[k] # P!Stop
      PROVE  Piece(queue'[k], cut[Len(payload') + Busy' + k - 1], cut[Len(payload') + Busy' + k])
  <2>1. CASE k \in DOMAIN queue
    BY <1>1, <1>2, <1>4, <1>7, <2>1 DEF Sequenced
  <2>2. CASE k = Len(queue) + 1
    <3>1. Piece(builder.frame, cut[Handed - 1], cut[Handed])
      BY <1>4 DEF Sequenced
    <3>2. Len(payload) + Busy + k - 1 = Handed - 1 /\ Len(payload) + Busy + k = Handed
      BY <1>2, <1>5, <2>2
    <3>3. QED
      BY <1>1, <1>2, <1>4, <2>2, <3>1, <3>2
  <2>3. QED
    BY <1>2, <2>1, <2>2
<1>8. QED
  BY <1>1, <1>4, <1>6, <1>7 DEF Sequenced

LEMMA StopOrder ==
  ASSUME PipelineConstants, PipelineCore, P!SendStop, NEW cut \in Cuts, Sequenced(cut)
  PROVE  Sequenced(cut)'
<1>1. /\ UNCHANGED <<written, buffer, payload, encryptor>> /\ builder.at = "stopping"
      /\ P!Put(P!Stop) /\ P!Stop \in Seq(Units) /\ PipelineTypes /\ encryptor.at # "gone"
  BY DEF P!SendStop, P!At, PipelineCore, PipelineTypes, P!Stop, StopIsLast, BeforeStop
<1>2. /\ Len(queue') = Len(queue) + 1 /\ Len(queue) \in Nat /\ DOMAIN queue = 1..Len(queue)
      /\ DOMAIN queue' = 1..(Len(queue) + 1)
      /\ queue'[Len(queue) + 1] = P!Stop /\ \A k \in DOMAIN queue : queue'[k] = queue[k]
  BY <1>1, PutIs
<1>3. builder'.at = "joining"
  <2>1. P!Go("joining") /\ "joining" \in Steps
    BY DEF P!SendStop, Steps
  <2>2. QED
    BY <1>1, <2>1, GoIs
<1>4. Offered = 0 /\ Offered' = 0 /\ Sent = 0 /\ Sent' = 1 /\ Busy' = Busy
  BY <1>1, <1>3 DEF Offered, Sent, Busy, P!At
<1>5. Busy \in {0, 1} /\ Len(payload) \in Nat /\ Handed = Len(payload) + Busy + Len(queue)
  BY <1>4, Counts
<1>6. Handed' = Handed
  <2>1. Handed' = Len(payload) + Busy + (Len(queue) + 1) - 1 + 0
    BY <1>1, <1>2, <1>4 DEF Handed
  <2>2. QED
    BY <1>2, <1>5, <2>1
<1>7. ASSUME NEW k \in DOMAIN queue', queue'[k] # P!Stop
      PROVE  Piece(queue'[k], cut[Len(payload') + Busy' + k - 1], cut[Len(payload') + Busy' + k])
  <2>1. k \in DOMAIN queue /\ queue'[k] = queue[k]
    BY <1>2, <1>7
  <2>2. QED
    BY <1>1, <1>4, <1>7, <2>1 DEF Sequenced
<1>8. QED
  BY <1>1, <1>4, <1>6, <1>7 DEF Sequenced

(* The encrypting thread takes the first frame and appends it.             *)
LEMMA TakeOrder ==
  ASSUME PipelineConstants, PipelineCore, P!Take, ~encryptor.failed, NEW cut \in Cuts, Sequenced(cut)
  PROVE  Sequenced(cut)'
<1>1. /\ UNCHANGED <<written, buffer, payload, builder>> /\ encryptor.at = "waiting" /\ queue # <<>>
      /\ queue' = Tail(queue) /\ queue \in Seq(Seq(Units)) /\ encryptor \in Encrypting /\ StopIsLast
      /\ builder \in Building
  BY DEF P!Take, PipelineCore, PipelineTypes
<1>2. /\ Len(queue) \in Nat /\ Len(queue) > 0 /\ Len(queue') = Len(queue) - 1 /\ Head(queue) = queue[1]
      /\ DOMAIN queue = 1..Len(queue) /\ DOMAIN queue' = 1..(Len(queue) - 1) /\ 1 \in DOMAIN queue
      /\ \A k \in 1..(Len(queue) - 1) : queue'[k] = queue[k + 1]
  BY <1>1, Tails
<1>3. /\ Busy = 0 /\ Len(payload) \in Nat /\ Sent \in {0, 1} /\ Offered \in {0, 1}
      /\ Handed = Len(payload) + Len(queue) - Sent + Offered
  <2>1. Busy = 0
    BY <1>1 DEF Busy
  <2>2. QED
    BY <2>1, Counts
<1>4. CASE queue[1] = P!Stop
  <2>1. encryptor' = [encryptor EXCEPT !.at = "gone"]
    BY <1>1, <1>2, <1>4 DEF P!Take
  <2>2. encryptor'.at = "gone"
    BY <1>1, <2>1 DEF Encrypting
  <2>3. builder.at \notin BeforeStop /\ builder.at \notin AfterJoin
    BY <1>1, <1>2, <1>4 DEF StopIsLast
  <2>4. P!At("joining")
    BY <1>1, <2>3 DEF Building, Steps, P!At
  <2>5. Len(queue) = 1
    BY <1>1, <1>2, <1>4, <2>4 DEF StopIsLast
  <2>6. Busy' = 0 /\ Sent = 1 /\ Sent' = 0 /\ Offered = 0 /\ Offered' = 0
    BY <1>1, <2>2, <2>4 DEF Busy, Sent, Offered, P!At
  <2>7. Handed = Len(payload) + 1 - 1 + 0
    BY <1>3, <2>5, <2>6
  <2>8. Handed' = Len(payload) + 0 + 0 - 0 + 0
    BY <1>1, <1>2, <2>5, <2>6 DEF Handed
  <2>9. Handed' = Handed
    BY <1>3, <2>7, <2>8
  <2>10. DOMAIN queue' = {}
    BY <1>2, <2>5
  <2>11. QED
    BY <1>1, <2>6, <2>9, <2>10 DEF Sequenced
<1>5. CASE queue[1] # P!Stop
  <2>1. encryptor' = [encryptor EXCEPT !.at = "busy", !.frame = queue[1]]
    BY <1>1, <1>2, <1>5 DEF P!Take
  <2>2. encryptor'.at = "busy" /\ encryptor'.frame = queue[1]
    BY <1>1, <2>1 DEF Encrypting
  <2>3. Busy' = 1 /\ Offered' = Offered /\ Sent' = Sent
    BY <1>1, <2>2 DEF Busy, Sent, Offered, P!At
  <2>4. Handed' = Handed
    <3>1. Handed' = Len(payload) + 1 + (Len(queue) - 1) - Sent + Offered
      BY <1>1, <1>2, <2>3 DEF Handed
    <3>2. QED
      BY <1>2, <1>3, <3>1
  <2>5. Piece(encryptor'.frame, cut[Len(payload)], cut[Len(payload) + 1])
    <3>1. Piece(queue[1], cut[Len(payload) + Busy + 1 - 1], cut[Len(payload) + Busy + 1])
      BY <1>2, <1>5 DEF Sequenced
    <3>2. Len(payload) + Busy + 1 - 1 = Len(payload) /\ Len(payload) + Busy + 1 = Len(payload) + 1
      BY <1>3
    <3>3. QED
      BY <2>2, <3>1, <3>2
  <2>6. ASSUME NEW k \in DOMAIN queue', queue'[k] # P!Stop
        PROVE  Piece(queue'[k], cut[Len(payload') + Busy' + k - 1], cut[Len(payload') + Busy' + k])
    <3>1. k + 1 \in DOMAIN queue /\ queue'[k] = queue[k + 1]
      BY <1>2
    <3>2. Piece(queue[k + 1], cut[Len(payload) + Busy + (k + 1) - 1], cut[Len(payload) + Busy + (k + 1)])
      BY <2>6, <3>1 DEF Sequenced
    <3>3. /\ Len(payload) + Busy + (k + 1) - 1 = Len(payload) + 1 + k - 1
          /\ Len(payload) + Busy + (k + 1) = Len(payload) + 1 + k
      BY <1>2, <1>3
    <3>4. QED
      BY <1>1, <2>3, <3>1, <3>2, <3>3
  <2>7. QED
    BY <1>1, <2>3, <2>4, <2>5, <2>6 DEF Sequenced
<1>6. QED
  BY <1>4, <1>5

LEMMA EncryptOrder ==
  ASSUME PipelineConstants, PipelineCore, P!Encrypt, ~encryptor'.failed, NEW cut \in Cuts, Sequenced(cut)
  PROVE  Sequenced(cut)'
<1>1. /\ UNCHANGED <<written, buffer, queue, builder>> /\ encryptor.at = "busy" /\ encryptor \in Encrypting
      /\ payload \in Seq(Seq(Units)) /\ encryptor.frame \in Seq(Units)
  BY DEF PipelineCore, P!Encrypt, PipelineTypes, Encrypting
<1>2. payload' = Append(payload, encryptor.frame) /\ encryptor' = [encryptor EXCEPT !.at = "waiting"]
  <2>1. ASSUME encryptor' = [encryptor EXCEPT !.at = "waiting", !.failed = TRUE] PROVE FALSE
    BY <1>1, <2>1 DEF Encrypting
  <2>2. QED
    BY <2>1 DEF P!Encrypt
<1>3. encryptor'.at = "waiting"
  BY <1>1, <1>2 DEF Encrypting
<1>4. Busy = 1 /\ Busy' = 0 /\ Offered' = Offered /\ Sent' = Sent
  BY <1>1, <1>3 DEF Busy, Sent, Offered, P!At
<1>5. /\ Len(payload) \in Nat /\ Len(payload') = Len(payload) + 1 /\ DOMAIN payload = 1..Len(payload)
      /\ DOMAIN payload' = 1..(Len(payload) + 1)
      /\ payload'[Len(payload) + 1] = encryptor.frame /\ \A k \in 1..Len(payload) : payload'[k] = payload[k]
  BY <1>1, <1>2, Appended
<1>6. Len(queue) \in Nat /\ Sent \in {0, 1} /\ Offered \in {0, 1} /\ DOMAIN queue = 1..Len(queue)
  BY Counts
<1>7. Handed' = Handed
  <2>1. Handed' = (Len(payload) + 1) + 0 + Len(queue) - Sent + Offered
    BY <1>1, <1>4, <1>5 DEF Handed
  <2>2. Handed = Len(payload) + 1 + Len(queue) - Sent + Offered
    BY <1>4 DEF Handed
  <2>3. QED
    BY <1>5, <1>6, <2>1, <2>2
<1>8. ASSUME NEW k \in DOMAIN payload' PROVE Piece(payload'[k], cut[k - 1], cut[k])
  <2>1. CASE k \in 1..Len(payload)
    BY <1>5, <2>1 DEF Sequenced
  <2>2. CASE k = Len(payload) + 1
    <3>1. Piece(encryptor.frame, cut[Len(payload)], cut[Len(payload) + 1])
      BY <1>4 DEF Sequenced
    <3>2. k - 1 = Len(payload)
      BY <1>5, <2>2
    <3>3. QED
      BY <1>5, <2>2, <3>1, <3>2
  <2>3. QED
    BY <1>5, <2>1, <2>2
<1>9. ASSUME NEW k \in DOMAIN queue', queue'[k] # P!Stop
      PROVE  Piece(queue'[k], cut[Len(payload') + Busy' + k - 1], cut[Len(payload') + Busy' + k])
  <2>1. Piece(queue[k], cut[Len(payload) + Busy + k - 1], cut[Len(payload) + Busy + k]) /\ k \in 1..Len(queue)
    BY <1>1, <1>6, <1>9 DEF Sequenced
  <2>2. Len(payload') + Busy' + k - 1 = Len(payload) + Busy + k - 1 /\ Len(payload') + Busy' + k = Len(payload) + Busy + k
    BY <1>4, <1>5, <1>6, <2>1
  <2>3. QED
    BY <1>1, <2>1, <2>2
<1>10. QED
  BY <1>1, <1>4, <1>7, <1>8, <1>9 DEF Sequenced

(* The frames stay in order while nothing fails.                           *)
LEMMA OrderIsKept ==
  ASSUME PipelineConstants, PipelineCore, PipelineCore', InSequence, [P!Next]_P!pipeline
  PROVE  InSequence'
<1>1. SUFFICES ASSUME builder'.at \in BeforeStop \cup {"joining"}, ~builder'.failing, ~encryptor'.failed
               PROVE  \E c \in Cuts : Sequenced(c)'
  BY DEF InSequence, Cuts
<1>2. builder \in Building /\ encryptor \in Encrypting /\ PipelineTypes
  BY DEF PipelineCore, PipelineTypes
<1>3. CASE UNCHANGED <<written, buffer, queue, payload, builder, encryptor>>
  <2>1. PICK cut \in Cuts : Sequenced(cut)
    BY <1>1, <1>3 DEF InSequence, Cuts
  <2>2. Handed' = Handed /\ Offered' = Offered
    BY <1>3 DEF Handed, Offered, Sent, Busy, P!At
  <2>3. QED
    BY <1>3, <2>1, <2>2, SequencedAlike
<1>4. CASE P!Submit
  <2>1. builder.at \in BeforeStop /\ encryptor' = encryptor
    BY <1>4 DEF P!Submit, BeforeStop
  <2>2. ~builder.failing
    <3>1. ASSUME builder.failing PROVE builder'.failing
      <4> DEFINE frame == SubSeq(buffer, 1, Frame)
      <4>1. builder' = [builder EXCEPT !.at = "offering", !.frame = frame] \/ P!Go("closing") \/ P!Raise
        BY <1>4 DEF P!Submit
      <4> HIDE DEF frame
      <4>2. QED
        BY <1>2, <3>1, <4>1 DEF P!Go, P!Raise, Building
    <3>2. QED
      BY <1>1, <3>1
  <2>3. PICK cut \in Cuts : Sequenced(cut)
    BY <1>1, <2>1, <2>2 DEF InSequence, Cuts
  <2>4. QED
    BY <1>1, <1>4, <2>1, <2>2, <2>3, SubmitOrder
<1>5. CASE P!CloseBuffer
  <2>1. builder.at \in BeforeStop /\ encryptor' = encryptor
    BY <1>5 DEF P!CloseBuffer, BeforeStop, P!At
  <2>2. ~builder.failing
    <3>1. builder' = [builder EXCEPT !.at = "flushing", !.frame = buffer] \/ builder' = [builder EXCEPT !.at = "stopping"]
      BY <1>5 DEF P!CloseBuffer, P!Go
    <3>2. builder'.failing = builder.failing
      BY <1>2, <3>1 DEF Building
    <3>3. QED
      BY <1>1, <3>2
  <2>3. PICK cut \in Cuts : Sequenced(cut)
    BY <1>1, <2>1, <2>2 DEF InSequence, Cuts
  <2>4. QED
    BY <1>1, <1>5, <2>1, <2>2, <2>3, CloseOrder
<1>6. ASSUME \/ P!Write \/ P!Offer \/ P!Flush \/ P!SendStop PROVE \E cut \in Cuts : Sequenced(cut)
  <2>1. builder.at \in BeforeStop /\ encryptor' = encryptor
    BY <1>6 DEF P!Write, P!Offer, P!Flush, P!SendStop, BeforeStop, P!At
  <2>2. builder'.failing = builder.failing
    <3>1. builder' = builder \/ \E at \in Steps : P!Go(at)
      BY <1>6 DEF P!Write, P!Offer, P!Flush, P!SendStop, Steps, BeforeStop
    <3>2. QED
      BY <1>2, <3>1, GoIs
  <2>3. QED
    BY <1>1, <2>1, <2>2 DEF InSequence, Cuts
<1>7. CASE \/ P!Write \/ P!Offer \/ P!Flush \/ P!SendStop
  BY <1>6, <1>7, WriteOrder, OfferOrder, StopOrder
<1>8. CASE P!Posted \/ \E report \in P!Reports : P!Post(report)
  <2>1. UNCHANGED <<written, buffer, queue, payload, encryptor>> /\ builder.at \in {"building", "posted"}
    BY <1>8 DEF P!Posted, P!Post, P!At
  <2>2. ~builder.failing
    BY <2>1 DEF PipelineCore, BuilderKnows, P!At
  <2>3. builder'.at \notin {"offering", "flushing", "joining"}
    <3>1. CASE P!Posted
      <4>1. P!Raise \/ \E at \in {"closing", "building"} : P!Go(at)
        BY <3>1 DEF P!Posted
      <4>2. {"closing", "building"} \subseteq Steps
        BY DEF Steps, BeforeStop
      <4>3. QED
        BY <1>2, <4>1, <4>2, GoIs, RaiseIs
    <3>2. CASE \E report \in P!Reports : P!Post(report)
      <4>1. PICK report \in P!Reports : P!Post(report)
        BY <3>2
      <4> DEFINE sealed == (report = "seal")
                 reports == IF report = "seal" THEN builder.reports ELSE builder.reports + 1
      <4>2. P!Raise \/ builder' = [builder EXCEPT !.at = "posted", !.sealed = sealed, !.reports = reports]
        BY <4>1 DEF P!Post
      <4> HIDE DEF sealed, reports
      <4>3. CASE P!Raise
        BY <1>2, <4>3, RaiseIs
      <4>4. CASE builder' = [builder EXCEPT !.at = "posted", !.sealed = sealed, !.reports = reports]
        BY <1>2, <4>4 DEF Building
      <4>5. QED
        BY <4>2, <4>3, <4>4
    <3>3. QED
      BY <1>8, <3>1, <3>2
  <2>4. Offered = 0 /\ Offered' = 0 /\ Handed' = Handed
    BY <2>1, <2>3 DEF Offered, Handed, Sent, Busy, P!At
  <2>5. PICK cut \in Cuts : Sequenced(cut)
    BY <1>1, <2>1, <2>2 DEF InSequence, Cuts, BeforeStop
  <2>6. QED
    BY <2>1, <2>4, <2>5, SequencedAlike
<1>9. CASE P!BuildFails
  <2>1. P!Raise
    BY <1>9 DEF P!BuildFails
  <2>2. QED
    BY <1>1, <1>2, <2>1, RaiseIs
<1>10. CASE P!Unwind
  <2>1. builder.failing /\ (builder' = builder \/ P!Go("closing")) /\ "closing" \in Steps
    BY <1>10 DEF P!Unwind, P!At, PipelineCore, BuilderKnows, Steps, BeforeStop
  <2>2. builder'.failing
    BY <1>2, <2>1, GoIs
  <2>3. QED
    BY <1>1, <2>2
<1>11. CASE P!Finish \/ P!Hush \/ P!Leave
  <2>1. PICK at \in {"hushing", "leaving"} \cup P!Ended :
          P!Go(at) \/ builder' = [builder EXCEPT !.at = at, !.failing = TRUE]
    BY <1>11 DEF P!Finish, P!Hush, P!Leave, P!Ended
  <2>2. at \in Steps
    BY DEF Steps, AfterJoin
  <2>3. builder'.at = at
    BY <1>2, <2>1, <2>2, GoIs DEF Building
  <2>4. QED
    BY <1>1, <2>3 DEF BeforeStop, P!Ended
<1>12. CASE P!Take
  <2>1. builder' = builder
    BY <1>12 DEF P!Take
  <2>2. ~encryptor.failed
    <3>1. \/ encryptor' = [encryptor EXCEPT !.at = "gone"] \/ encryptor' = encryptor
          \/ encryptor' = [encryptor EXCEPT !.at = "busy", !.frame = Head(queue)]
      BY <1>12 DEF P!Take
    <3>2. encryptor'.failed = encryptor.failed
      BY <1>2, <3>1 DEF Encrypting
    <3>3. QED
      BY <1>1, <3>2
  <2>3. PICK cut \in Cuts : Sequenced(cut)
    BY <1>1, <2>1, <2>2 DEF InSequence, Cuts
  <2>4. QED
    BY <1>12, <2>2, <2>3, TakeOrder
<1>13. CASE P!Encrypt
  <2>1. builder' = builder
    BY <1>13 DEF P!Encrypt
  <2>2. ~encryptor.failed
    <3>1. \/ encryptor' = [encryptor EXCEPT !.at = "waiting"]
          \/ encryptor' = [encryptor EXCEPT !.at = "waiting", !.failed = TRUE]
      BY <1>13 DEF P!Encrypt
    <3>2. QED
      BY <1>1, <1>2, <3>1 DEF Encrypting
  <2>3. PICK cut \in Cuts : Sequenced(cut)
    BY <1>1, <2>1, <2>2 DEF InSequence, Cuts
  <2>4. QED
    BY <1>1, <1>13, <2>3, EncryptOrder
<1>14. CASE P!Wake \/ P!Report \/ P!Cancel \/ P!Open \/ UNCHANGED P!pipeline
  BY <1>3, <1>14 DEF P!Wake, P!Report, P!Cancel, P!Open, P!pipeline
<1>15. QED
  BY <1>4, <1>5, <1>7, <1>8, <1>9, <1>10, <1>11, <1>12, <1>13, <1>14 DEF P!Next, P!Build,
       P!Threads

(* The recursive functions exist, whatever the frames.                     *)
Copying(f, frames, encrypted, low) ==
  f = [i \in low..(Len(frames) + 1) |->
         IF i > Len(frames) THEN <<>> ELSE P!Framed(frames[i], encrypted) \o f[i + 1]]

LEMMA CopyingExists ==
  ASSUME NEW S, NEW frames \in Seq(S), NEW encrypted
  PROVE  \E f : Copying(f, frames, encrypted, 1)
<1> DEFINE N == Len(frames)
           Bad == {n \in 0..N : \A f : ~Copying(f, frames, encrypted, N + 1 - n)}
<1>1. N \in Nat /\ Bad \in SUBSET (0..N)
  OBVIOUS
<1>2. 0 \notin Bad
  <2>1. N + 1 - 0 = N + 1 /\ \A i \in (N + 1)..(N + 1) : i > N
    BY <1>1
  <2> DEFINE f == [i \in (N + 1)..(N + 1) |-> <<>>]
  <2>2. Copying(f, frames, encrypted, N + 1)
    BY <2>1 DEF Copying
  <2>3. QED
    BY <2>1, <2>2
<1>3. ASSUME NEW n \in 0..N, n + 1 \in Bad PROVE n \in Bad
  <2>1. SUFFICES ASSUME NEW f, Copying(f, frames, encrypted, N + 1 - n)
                 PROVE  \E g : Copying(g, frames, encrypted, N + 1 - (n + 1))
    BY <1>3
  <2> DEFINE low == N - n
             g == [i \in low..(N + 1) |-> IF i = low THEN P!Framed(frames[low], encrypted) \o f[low + 1] ELSE f[i]]
  <2>2. n + 1 \in 0..N
    BY <1>3
  <2>3. /\ N + 1 - n = low + 1 /\ N + 1 - (n + 1) = low /\ low \in Nat /\ low <= N
        /\ \A i \in low..(N + 1) : i # low => i \in (low + 1)..(N + 1)
        /\ \A i \in low..(N + 1) : i <= N => i + 1 \in low..(N + 1) /\ i + 1 # low
    BY <1>1, <2>2
  <2>4. f = [i \in (low + 1)..(N + 1) |-> IF i > N THEN <<>> ELSE P!Framed(frames[i], encrypted) \o f[i + 1]]
    BY <2>1, <2>3 DEF Copying
  <2>5. ASSUME NEW i \in low..(N + 1)
        PROVE  g[i] = IF i > N THEN <<>> ELSE P!Framed(frames[i], encrypted) \o g[i + 1]
    <3>1. i <= N => g[i + 1] = f[i + 1]
      BY <2>3
    <3>2. CASE i = low
      <4>1. g[i] = P!Framed(frames[low], encrypted) \o f[low + 1]
        BY <3>2
      <4>2. ~(i > N) /\ i <= N
        BY <1>1, <2>3, <3>2
      <4>3. g[i] = P!Framed(frames[i], encrypted) \o g[i + 1]
        BY <3>1, <3>2, <4>1, <4>2
      <4> HIDE DEF g
      <4>4. QED
        BY <4>2, <4>3
    <3>3. CASE i # low
      <4>1. g[i] = f[i] /\ i \in (low + 1)..(N + 1)
        BY <2>3, <3>3
      <4>2. f[i] = IF i > N THEN <<>> ELSE P!Framed(frames[i], encrypted) \o f[i + 1]
        BY <2>4, <4>1
      <4>3. i \in Int /\ N \in Int
        BY <1>1, <2>3
      <4>4. QED
        BY <3>1, <4>1, <4>2, <4>3
    <3>4. QED
      BY <3>2, <3>3
  <2>6. g = [i \in low..(N + 1) |-> g[i]]
    OBVIOUS
  <2> HIDE DEF g
  <2>7. g = [i \in low..(N + 1) |-> IF i > N THEN <<>> ELSE P!Framed(frames[i], encrypted) \o g[i + 1]]
    BY <2>5, <2>6
  <2>8. QED
    BY <2>3, <2>7 DEF Copying
<1> HIDE DEF Bad
<1>4. Bad = {}
  BY <1>1, <1>2, <1>3, NoneIsFirst
<1>5. N \in 0..N /\ N + 1 - N = 1
  BY <1>1
<1>6. QED
  BY <1>4, <1>5 DEF Bad

LEMMA ContentsAre ==
  ASSUME NEW S, NEW frames \in Seq(S), NEW encrypted
  PROVE  \E f : Copying(f, frames, encrypted, 1) /\ P!Contents(frames, encrypted) = f[1]
<1> DEFINE f == CHOOSE f : Copying(f, frames, encrypted, 1)
<1>1. Copying(f, frames, encrypted, 1)
  BY CopyingExists
<1>2. P!Contents(frames, encrypted) = f[1]
  BY DEF P!Contents, Copying
<1>3. QED
  BY <1>1, <1>2

(* A frame is opened before what follows it.                               *)
Unfolded(f, frames, i) ==
  IF i > Len(frames) THEN <<>>
  ELSE LET last == i + frames[i] - Size
       IN IF last <= i \/ last > Len(frames) \/ f[last + 1] = P!Refused THEN P!Refused
          ELSE SubSeq(frames, i + 1, last) \o f[last + 1]
Deciphering(f, frames, low) == f = [i \in low..(Len(frames) + 1) |-> Unfolded(f, frames, i)]

LEMMA DecipheringExists ==
  ASSUME PipelineConstants, NEW frames \in Seq(Int)
  PROVE  \E f : Deciphering(f, frames, 1)
<1> DEFINE N == Len(frames)
           Bad == {n \in 0..N : \A f : ~Deciphering(f, frames, N + 1 - n)}
<1>1. N \in Nat /\ Bad \in SUBSET (0..N)
  OBVIOUS
<1>2. 0 \notin Bad
  <2>1. N + 1 - 0 = N + 1 /\ \A i \in (N + 1)..(N + 1) : i > N
    BY <1>1
  <2> DEFINE f == [i \in (N + 1)..(N + 1) |-> <<>>]
  <2>2. Deciphering(f, frames, N + 1)
    BY <2>1 DEF Deciphering, Unfolded
  <2>3. QED
    BY <2>1, <2>2
<1>3. ASSUME NEW n \in 0..N, n + 1 \in Bad PROVE n \in Bad
  <2>1. SUFFICES ASSUME NEW f, Deciphering(f, frames, N + 1 - n)
                 PROVE  \E g : Deciphering(g, frames, N + 1 - (n + 1))
    BY <1>3
  <2> DEFINE low == N - n
             g == [i \in low..(N + 1) |-> IF i = low THEN Unfolded(f, frames, low) ELSE f[i]]
  <2>2. n + 1 \in 0..N
    BY <1>3
  <2>3. /\ N + 1 - n = low + 1 /\ N + 1 - (n + 1) = low /\ low \in Nat /\ low <= N /\ low >= 1 - 1
        /\ \A i \in low..(N + 1) : i # low => i \in (low + 1)..(N + 1)
    BY <1>1, <2>2
  <2>4. f = [i \in (low + 1)..(N + 1) |-> Unfolded(f, frames, i)]
    BY <2>1, <2>3 DEF Deciphering
  <2>5. \A j \in low..(N + 1) : j > low => g[j] = f[j]
    BY <2>3
  <2>6. ASSUME NEW i \in low..(N + 1), i > 0 PROVE Unfolded(g, frames, i) = Unfolded(f, frames, i)
    <3>1. CASE i > N
      BY <3>1 DEF Unfolded
    <3>2. CASE ~(i > N)
      <4> DEFINE last == i + frames[i] - Size
      <4>1. last \in Int /\ i \in Int /\ i >= low
        <5>1. i \in 1..N
          BY <1>1, <2>3, <2>6, <3>2
        <5>2. frames[i] \in Int
          BY <5>1
        <5>3. QED
          BY <1>1, <2>3, <5>1, <5>2 DEF PipelineConstants
      <4>2. ~(last <= i \/ last > N) => last + 1 \in low..(N + 1) /\ last + 1 > low
        BY <1>1, <2>3, <4>1
      <4>3. ~(last <= i \/ last > N) => g[last + 1] = f[last + 1]
        BY <2>5, <4>2
      <4> HIDE DEF g
      <4>4. QED
        BY <3>2, <4>3 DEF Unfolded
    <3>3. QED
      BY <3>1, <3>2
  <2>7. ASSUME NEW i \in low..(N + 1) PROVE g[i] = Unfolded(f, frames, i)
    <3>1. CASE i = low
      BY <3>1
    <3>2. CASE i # low
      BY <2>3, <2>4, <3>2
    <3>3. QED
      BY <3>1, <3>2
  <2>8. g = [i \in low..(N + 1) |-> g[i]]
    OBVIOUS
  <2> HIDE DEF g
  <2>9. low > 0 \/ n = N
    BY <1>1
  <2>10. n # N
    BY <1>1, <2>2
  <2>11. \A i \in low..(N + 1) : i > 0
    BY <2>3, <2>9, <2>10
  <2>12. \A i \in low..(N + 1) : g[i] = Unfolded(g, frames, i)
    BY <2>6, <2>7, <2>11
  <2>13. g = [i \in low..(N + 1) |-> Unfolded(g, frames, i)]
    BY <2>8, <2>12
  <2>14. QED
    BY <2>3, <2>13 DEF Deciphering
<1> HIDE DEF Bad
<1>4. Bad = {}
  BY <1>1, <1>2, <1>3, NoneIsFirst
<1>5. N \in 0..N /\ N + 1 - N = 1
  BY <1>1
<1>6. QED
  BY <1>4, <1>5 DEF Bad

LEMMA DecipheredIs ==
  ASSUME PipelineConstants, NEW frames \in Seq(Int)
  PROVE  \E f : Deciphering(f, frames, 1) /\ P!Deciphered(frames) = f[1]
<1> DEFINE f == CHOOSE f : Deciphering(f, frames, 1)
<1>1. Deciphering(f, frames, 1)
  BY DecipheringExists
<1>2. P!Deciphered(frames) = f[1]
  BY DEF P!Deciphered, Deciphering, Unfolded
<1>3. QED
  BY <1>1, <1>2

(* The frames of a whole payload, each where the one before it ends.       *)
Lined(cut, frames) ==
  /\ cut \in Cuts /\ frames \in Seq(Seq(Units)) /\ cut[0] = 0 /\ cut[Len(frames)] = Size
  /\ \A k \in 1..Len(frames) : Piece(frames[k], cut[k - 1], cut[k])

LEMMA CutsRise ==
  ASSUME PipelineConstants, NEW cut, NEW frames, Lined(cut, frames)
  PROVE  /\ Len(frames) \in Nat /\ Size \in Nat /\ \A k \in 0..Len(frames) : cut[k] \in Nat
         /\ \A b \in 0..Len(frames) : \A a \in 0..b : cut[b] - cut[a] >= b - a
<1> DEFINE N == Len(frames)
           Bad == {n \in 0..N : \E a \in 0..n : ~(cut[n] - cut[a] >= n - a)}
<1>1. N \in Nat /\ Size \in Nat /\ \A k \in 0..N : cut[k] \in Nat
  BY DEF Lined, Cuts, PipelineConstants
<1>2. Bad \in SUBSET (0..N) /\ 0 \notin Bad
  BY <1>1
<1>3. ASSUME NEW n \in 0..N, n + 1 \in Bad PROVE n \in Bad
  <2>1. PICK a \in 0..(n + 1) : ~(cut[n + 1] - cut[a] >= (n + 1) - a)
    BY <1>3
  <2>2. n + 1 \in 1..N /\ (n + 1) - 1 = n
    BY <1>1, <1>3
  <2>3. cut[n] < cut[n + 1]
    BY <2>2 DEF Lined, Piece
  <2>4. cut[n] \in Nat /\ cut[n + 1] \in Nat
    BY <1>1, <2>2
  <2>5. a # n + 1
    <3>1. SUFFICES ASSUME a = n + 1 PROVE cut[n + 1] - cut[a] >= (n + 1) - a
      BY <2>1
    <3>2. QED
      BY <2>4, <3>1
  <2>6. a \in 0..n /\ cut[a] \in Nat
    BY <1>1, <2>2, <2>5
  <2>7. ~(cut[n] - cut[a] >= n - a)
    BY <2>1, <2>3, <2>4, <2>6
  <2>8. QED
    BY <2>6, <2>7
<1> HIDE DEF Bad
<1>4. Bad = {}
  BY <1>1, <1>2, <1>3, NoneIsFirst
<1>5. QED
  BY <1>1, <1>4 DEF Bad

LEMMA SpanOfNone == ASSUME NEW a \in Nat PROVE Span(a, a) = <<>>
<1>1. Span(a, a) \in Seq(Nat) /\ Len(Span(a, a)) = a - a
  BY SpanIs
<1>2. Len(Span(a, a)) = 0
  BY <1>1
<1>3. QED
  BY <1>1, <1>2

LEMMA PlainIs ==
  ASSUME PipelineConstants, NEW cut, NEW frames, Lined(cut, frames)
  PROVE  P!Contents(frames, FALSE) = Span(0, Size)
<1> DEFINE N == Len(frames)
<1>1. N \in Nat /\ Size \in Nat /\ \A k \in 0..N : cut[k] \in Nat /\ cut[N] - cut[k] >= N - k
  <2>1. /\ N \in Nat /\ Size \in Nat /\ \A k \in 0..N : cut[k] \in Nat
        /\ \A b \in 0..N : \A a \in 0..b : cut[b] - cut[a] >= b - a
    BY CutsRise
  <2>2. N \in 0..N
    BY <2>1
  <2>3. QED
    BY <2>1, <2>2
<1>2. PICK f : Copying(f, frames, FALSE, 1) /\ P!Contents(frames, FALSE) = f[1]
  BY ContentsAre DEF Lined
<1>3. \A i \in 1..(N + 1) : f[i] = IF i > N THEN <<>> ELSE frames[i] \o f[i + 1]
  BY <1>2 DEF Copying, P!Framed
<1> DEFINE Bad == {i \in 1..(N + 1) : f[i] # Span(cut[i - 1], Size)}
<1>4. ASSUME NEW i \in Bad PROVE \E j \in Bad : i < j
  <2>1. i \in 1..(N + 1) /\ i - 1 \in 0..N /\ cut[i - 1] \in Nat /\ cut[i - 1] <= Size
    BY <1>1 DEF Lined
  <2>2. i # N + 1
    <3>1. SUFFICES ASSUME i = N + 1 PROVE f[i] = Span(cut[i - 1], Size)
      OBVIOUS
    <3>2. i - 1 = N /\ cut[i - 1] = Size /\ i > N
      BY <1>1, <3>1 DEF Lined
    <3>3. f[i] = <<>>
      BY <1>3, <3>2
    <3>4. QED
      BY <1>1, <3>2, <3>3, SpanOfNone
  <2>3. i \in 1..N /\ i + 1 \in 1..(N + 1) /\ (i + 1) - 1 = i /\ i < i + 1
    BY <1>1, <2>1, <2>2
  <2>4. cut[i - 1] < cut[i] /\ frames[i] = Span(cut[i - 1], cut[i]) /\ cut[i] \in Nat /\ cut[i] <= Size
    <3>1. i \in 0..N
      BY <2>3
    <3>2. cut[i] <= Size
      <4>1. cut[i] \in Nat /\ cut[N] - cut[i] >= N - i /\ cut[N] = Size
        BY <1>1, <3>1 DEF Lined
      <4>2. PICK c \in Nat : c = cut[i]
        BY <4>1
      <4>3. Size - c >= N - i /\ i \in Nat /\ i <= N
        BY <3>1, <4>1, <4>2
      <4>4. c <= Size
        BY <1>1, <4>3
      <4>5. QED
        BY <4>2, <4>4
    <3>3. QED
      BY <1>1, <2>3, <3>1, <3>2 DEF Lined, Piece
  <2>5. f[i] = frames[i] \o f[i + 1]
    <3>1. ~(i > N)
      BY <1>1, <2>3
    <3>2. QED
      BY <1>3, <2>1, <3>1
  <2>6. f[i + 1] # Span(cut[i], Size)
    <3>1. SUFFICES ASSUME f[i + 1] = Span(cut[i], Size) PROVE f[i] = Span(cut[i - 1], Size)
      OBVIOUS
    <3>2. cut[i - 1] <= cut[i]
      BY <2>1, <2>4
    <3>3. Span(cut[i - 1], cut[i]) \o Span(cut[i], Size) = Span(cut[i - 1], Size)
      BY <1>1, <2>1, <2>4, <3>2, SpanJoin
    <3>4. QED
      BY <2>4, <2>5, <3>1, <3>3
  <2>7. i + 1 \in Bad
    BY <2>3, <2>6
  <2>8. QED
    BY <2>3, <2>7
<1>5. N + 1 \in Nat /\ Bad \in SUBSET (0..(N + 1))
  BY <1>1
<1> HIDE DEF Bad
<1>6. Bad = {}
  BY <1>4, <1>5, NoneIsLast
<1>7. 1 \in 1..(N + 1) /\ 1 - 1 = 0 /\ cut[0] = 0
  BY <1>1 DEF Lined
<1>8. f[1] = Span(cut[1 - 1], Size)
  BY <1>6, <1>7 DEF Bad
<1>9. QED
  BY <1>2, <1>7, <1>8

(* What the container holds from a frame on: before each frame its length, *)
(* and where both are.                                                     *)
RestIs(r, cut, N, i) ==
  /\ r \in Seq(Int) /\ Len(r) = Size - cut[i - 1] + N - (i - 1)
  /\ \A k \in i..N :
       /\ r[(cut[k - 1] + k) - (cut[i - 1] + i) + 1] = Size + (cut[k] - cut[k - 1])
       /\ \A j \in 1..(cut[k] - cut[k - 1]) :
            r[(cut[k - 1] + k) - (cut[i - 1] + i) + 1 + j] = cut[k - 1] + j

LEMMA FramedIs ==
  ASSUME PipelineConstants, NEW a \in Nat, NEW b \in Nat, a <= b
  PROVE  /\ P!Framed(Span(a, b), TRUE) \in Seq(Int) /\ Len(P!Framed(Span(a, b), TRUE)) = (b - a) + 1
         /\ P!Framed(Span(a, b), TRUE)[1] = Size + (b - a)
         /\ \A j \in 1..(b - a) : P!Framed(Span(a, b), TRUE)[1 + j] = a + j
<1> DEFINE s == Span(a, b)
           p == <<Size + (b - a)>>
<1>1. /\ s \in Seq(Nat) /\ Len(s) = b - a /\ \A j \in 1..(b - a) : s[j] = a + j
  BY SpanIs
<1> HIDE DEF s
<1>2. s \in Seq(Int)
  BY <1>1
<1>3. Size + (b - a) \in Int
  BY DEF PipelineConstants
<1>4. p \in Seq(Int) /\ Len(p) = 1 /\ p[1] = Size + (b - a)
  BY <1>3
<1>5. P!Framed(Span(a, b), TRUE) = p \o s
  BY <1>1 DEF P!Framed, P!Prefix, s
<1> HIDE DEF p
<1>6. /\ p \o s \in Seq(Int) /\ Len(p \o s) = Len(p) + Len(s)
      /\ \A i \in 1..Len(p) : (p \o s)[i] = p[i]
      /\ \A i \in 1..Len(s) : (p \o s)[Len(p) + i] = s[i]
  <2>1. p \in Seq(Int) /\ s \in Seq(Int)
    BY <1>2, <1>4
  <2>2. QED
    BY <2>1, Joined
<1>7. Len(p \o s) = (b - a) + 1 /\ (p \o s)[1] = Size + (b - a)
  BY <1>1, <1>4, <1>6
<1>8. \A j \in 1..(b - a) : (p \o s)[1 + j] = a + j
  BY <1>1, <1>4, <1>6
<1>9. QED
  BY <1>5, <1>6, <1>7, <1>8

LEMMA RestGrows ==
  ASSUME PipelineConstants, NEW cut, NEW frames, Lined(cut, frames), NEW i \in 1..Len(frames),
         NEW r, RestIs(r, cut, Len(frames), i + 1)
  PROVE  RestIs(P!Framed(frames[i], TRUE) \o r, cut, Len(frames), i)
<1> DEFINE N == Len(frames)
           h == P!Framed(frames[i], TRUE)
           a == cut[i - 1]
           b == cut[i]
<1>1. /\ N \in Nat /\ Size \in Nat /\ \A k \in 0..N : cut[k] \in Nat
      /\ \A y \in 0..N : \A x \in 0..y : cut[y] - cut[x] >= y - x
  BY CutsRise
<1>2. i - 1 \in 0..N /\ i \in 0..N /\ (i + 1) - 1 = i /\ cut[N] = Size /\ N \in 0..N
  BY <1>1 DEF Lined
<1>3. a \in Nat /\ b \in Nat /\ a < b /\ frames[i] = Span(a, b) /\ b <= Size
  <2>1. Piece(frames[i], cut[i - 1], cut[i])
    BY DEF Lined
  <2>2. cut[N] - cut[i] >= N - i
    BY <1>1, <1>2
  <2>3. QED
    BY <1>1, <1>2, <2>1, <2>2 DEF Piece
<1>4. r \in Seq(Int) /\ Len(r) = Size - b + N - i
  BY <1>2 DEF RestIs
<1>5. /\ h \in Seq(Int) /\ Len(h) = (b - a) + 1 /\ h[1] = Size + (b - a)
      /\ \A j \in 1..(b - a) : h[1 + j] = a + j
  <2>1. PICK x \in Nat, y \in Nat : x = a /\ y = b /\ x <= y /\ frames[i] = Span(x, y)
    BY <1>3
  <2>2. /\ P!Framed(Span(x, y), TRUE) \in Seq(Int) /\ Len(P!Framed(Span(x, y), TRUE)) = (y - x) + 1
        /\ P!Framed(Span(x, y), TRUE)[1] = Size + (y - x)
        /\ \A j \in 1..(y - x) : P!Framed(Span(x, y), TRUE)[1 + j] = x + j
    BY <2>1, FramedIs
  <2>3. h = P!Framed(Span(x, y), TRUE)
    BY <2>1
  <2> HIDE DEF h, a, b
  <2>4. QED
    BY <2>1, <2>2, <2>3
<1> HIDE DEF h
<1>6. /\ h \o r \in Seq(Int) /\ Len(h \o r) = Len(h) + Len(r)
      /\ \A x \in 1..Len(h) : (h \o r)[x] = h[x]
      /\ \A x \in 1..Len(r) : (h \o r)[Len(h) + x] = r[x]
  <2>1. h \in Seq(Int) /\ r \in Seq(Int)
    BY <1>4, <1>5
  <2>2. QED
    BY <2>1, Joined
<1>7. Len(h \o r) = Size - a + N - (i - 1)
  <2>1. Len(h \o r) = ((b - a) + 1) + (Size - b + N - i)
    BY <1>4, <1>5, <1>6
  <2>2. i \in Nat
    OBVIOUS
  <2> HIDE DEF a, b
  <2>3. QED
    BY <1>1, <1>3, <2>1, <2>2
<1>8. ASSUME NEW k \in i..N
      PROVE  /\ (h \o r)[(cut[k - 1] + k) - (a + i) + 1] = Size + (cut[k] - cut[k - 1])
             /\ \A j \in 1..(cut[k] - cut[k - 1]) : (h \o r)[(cut[k - 1] + k) - (a + i) + 1 + j] = cut[k - 1] + j
  <2>1. CASE k = i
    <3>1. (cut[k - 1] + k) - (a + i) + 1 = 1
      BY <1>3, <2>1
    <3>2. (h \o r)[1] = Size + (b - a)
      BY <1>3, <1>5, <1>6
    <3>3. \A j \in 1..(b - a) : (h \o r)[1 + j] = a + j
      <4>1. \A j \in 1..(b - a) : 1 + j \in 1..Len(h)
        BY <1>3, <1>5
      <4>2. QED
        BY <1>5, <1>6, <4>1
    <3>4. QED
      BY <2>1, <3>1, <3>2, <3>3
  <2>2. CASE k # i
    <3>1. k \in (i + 1)..N /\ k - 1 \in 0..N /\ k \in 0..N
      BY <1>1, <1>2, <2>2
    <3>2. /\ cut[k - 1] \in Nat /\ cut[k] \in Nat /\ cut[k - 1] - b >= (k - 1) - i
          /\ Size - cut[k - 1] >= N - (k - 1) /\ Size - cut[k] >= N - k
      <4>1. i \in 0..(k - 1) /\ k - 1 \in 0..N
        BY <1>2, <3>1
      <4>2. cut[k - 1] - cut[i] >= (k - 1) - i
        BY <1>1, <4>1
      <4>3. cut[N] - cut[k - 1] >= N - (k - 1) /\ cut[N] - cut[k] >= N - k
        BY <1>1, <1>2, <3>1
      <4>4. QED
        BY <1>1, <1>2, <3>1, <4>2, <4>3
    <3> DEFINE y == (cut[k - 1] + k) - (b + (i + 1)) + 1
    <3>3. /\ r[y] = Size + (cut[k] - cut[k - 1])
          /\ \A j \in 1..(cut[k] - cut[k - 1]) : r[y + j] = cut[k - 1] + j
      BY <1>2, <3>1 DEF RestIs
    <3>4. y \in Int /\ y >= 1 /\ y + (cut[k] - cut[k - 1]) <= Len(r) /\ (cut[k - 1] + k) - (a + i) + 1 = Len(h) + y
      <4>1. k \in Nat /\ i \in Nat /\ k >= i + 1 /\ k <= N
        BY <3>1
      <4>2. /\ y \in Int /\ y >= 1 /\ y + (cut[k] - cut[k - 1]) <= Size - b + N - i
            /\ (cut[k - 1] + k) - (a + i) + 1 = ((b - a) + 1) + y
        <5>1. PICK c \in Nat, d \in Nat, u \in Nat, v \in Nat :
                c = cut[k - 1] /\ d = cut[k] /\ u = a /\ v = b
          BY <1>3, <3>2
        <5>2. c - v >= (k - 1) - i /\ Size - d >= N - k
          BY <3>2, <5>1
        <5> HIDE DEF a, b
        <5>3. /\ (c + k) - (v + (i + 1)) + 1 \in Int /\ (c + k) - (v + (i + 1)) + 1 >= 1
              /\ ((c + k) - (v + (i + 1)) + 1) + (d - c) <= Size - v + N - i
              /\ (c + k) - (u + i) + 1 = ((v - u) + 1) + ((c + k) - (v + (i + 1)) + 1)
          BY <1>1, <4>1, <5>2
        <5>4. QED
          BY <5>1, <5>3
      <4>3. QED
        BY <1>4, <1>5, <4>2
    <3>5. cut[k] - cut[k - 1] >= 0
      <4>1. Piece(frames[k], cut[k - 1], cut[k])
        BY <1>2, <3>1 DEF Lined
      <4>2. QED
        BY <3>2, <4>1 DEF Piece
    <3> HIDE DEF y
    <3>6. y \in 1..Len(r)
      <4>1. PICK d \in Int : d = cut[k] - cut[k - 1]
        BY <3>2
      <4>2. d >= 0 /\ y + d <= Len(r) /\ y \in Int /\ y >= 1
        BY <3>4, <3>5, <4>1
      <4>3. Len(r) \in Nat
        BY <1>4
      <4>4. QED
        BY <4>2, <4>3
    <3>7. (h \o r)[Len(h) + y] = Size + (cut[k] - cut[k - 1])
      BY <1>6, <3>3, <3>6
    <3>8. ASSUME NEW j \in 1..(cut[k] - cut[k - 1]) PROVE (h \o r)[Len(h) + y + j] = cut[k - 1] + j
      <4>1. y + j \in 1..Len(r) /\ Len(h) + (y + j) = Len(h) + y + j
        <5>1. Len(h) \in Int /\ Len(r) \in Int
          BY <1>4, <1>5
        <5>2. j \in Int /\ j >= 1 /\ j <= cut[k] - cut[k - 1] /\ cut[k] - cut[k - 1] \in Int
          BY <3>2
        <5>3. QED
          BY <3>4, <5>1, <5>2
      <4>2. (h \o r)[Len(h) + (y + j)] = r[y + j]
        BY <1>6, <4>1
      <4>3. QED
        BY <3>3, <4>1, <4>2
    <3>9. QED
      BY <3>4, <3>7, <3>8
  <2>3. QED
    BY <2>1, <2>2
<1>9. QED
  BY <1>6, <1>7, <1>8 DEF RestIs, h

LEMMA BodyIs ==
  ASSUME PipelineConstants, NEW cut, NEW frames, Lined(cut, frames)
  PROVE  RestIs(P!Contents(frames, TRUE), cut, Len(frames), 1)
<1> DEFINE N == Len(frames)
<1>1. N \in Nat /\ Size \in Nat /\ \A k \in 0..N : cut[k] \in Nat
  BY CutsRise
<1>2. PICK f : Copying(f, frames, TRUE, 1) /\ P!Contents(frames, TRUE) = f[1]
  BY ContentsAre DEF Lined
<1>3. \A i \in 1..(N + 1) : f[i] = IF i > N THEN <<>> ELSE P!Framed(frames[i], TRUE) \o f[i + 1]
  BY <1>2 DEF Copying
<1> DEFINE Bad == {i \in 1..(N + 1) : ~RestIs(f[i], cut, N, i)}
<1>4. ASSUME NEW i \in Bad PROVE \E j \in Bad : i < j
  <2>1. i # N + 1
    <3>1. SUFFICES ASSUME i = N + 1 PROVE RestIs(f[i], cut, N, i)
      OBVIOUS
    <3>2. i - 1 = N /\ cut[i - 1] = Size /\ i > N /\ i..N = {} /\ i \in 1..(N + 1)
      BY <1>1, <3>1 DEF Lined
    <3>3. f[i] = <<>>
      BY <1>3, <3>2
    <3>4. <<>> \in Seq(Int) /\ Len(<<>>) = Size - Size + N - N
      BY <1>1
    <3>5. QED
      BY <3>2, <3>3, <3>4 DEF RestIs
  <2>2. i \in 1..N /\ i + 1 \in 1..(N + 1) /\ i < i + 1 /\ ~(i > N)
    BY <1>1, <2>1
  <2>3. f[i] = P!Framed(frames[i], TRUE) \o f[i + 1]
    BY <1>3, <2>2
  <2>4. ~RestIs(f[i + 1], cut, N, i + 1)
    <3>1. SUFFICES ASSUME RestIs(f[i + 1], cut, N, i + 1) PROVE RestIs(f[i], cut, N, i)
      OBVIOUS
    <3>2. RestIs(P!Framed(frames[i], TRUE) \o f[i + 1], cut, N, i)
      BY <2>2, <3>1, RestGrows
    <3>3. QED
      BY <2>3, <3>2
  <2>5. i + 1 \in Bad
    BY <2>2, <2>4
  <2>6. QED
    BY <2>2, <2>5
<1>5. N + 1 \in Nat /\ Bad \in SUBSET (0..(N + 1))
  BY <1>1
<1> HIDE DEF Bad
<1>6. Bad = {}
  BY <1>4, <1>5, NoneIsLast
<1>7. 1 \in 1..(N + 1)
  BY <1>1
<1>8. RestIs(f[1], cut, N, 1)
  BY <1>6, <1>7 DEF Bad
<1>9. QED
  BY <1>2, <1>8

LEMMA SpanNotRefused ==
  ASSUME NEW a \in Nat, NEW b \in Nat, a <= b PROVE Span(a, b) # P!Refused
<1>1. Span(a, b) \in Seq(Nat) /\ Len(Span(a, b)) = b - a /\ \A j \in 1..(b - a) : Span(a, b)[j] = a + j
  BY SpanIs
<1>2. SUFFICES ASSUME Span(a, b) = P!Refused PROVE FALSE
  OBVIOUS
<1>3. Len(P!Refused) = 1 /\ P!Refused[1] = 0
  BY DEF P!Refused
<1>4. b - a = 1
  BY <1>1, <1>2, <1>3
<1>5. Span(a, b)[1] = a + 1
  BY <1>1, <1>4
<1>6. QED
  BY <1>2, <1>3, <1>5

(* A body of frames, and where they are in it.                             *)
Bodied(body, cut, N) ==
  /\ N \in Nat /\ Size \in Nat /\ body \in Seq(Int) /\ Len(body) = Size + N
  /\ cut[0] = 0 /\ cut[N] = Size /\ \A k \in 0..N : cut[k] \in Nat
  /\ \A b \in 0..N : \A a \in 0..b : cut[b] - cut[a] >= b - a
  /\ \A k \in 1..N : /\ body[cut[k - 1] + k] = Size + (cut[k] - cut[k - 1])
                     /\ \A j \in 1..(cut[k] - cut[k - 1]) : body[cut[k - 1] + k + j] = cut[k - 1] + j

LEMMA BodiedIs ==
  ASSUME PipelineConstants, NEW cut, NEW frames, Lined(cut, frames)
  PROVE  Bodied(P!Contents(frames, TRUE), cut, Len(frames))
<1> DEFINE N == Len(frames)
           body == P!Contents(frames, TRUE)
<1>1. /\ N \in Nat /\ Size \in Nat /\ \A k \in 0..N : cut[k] \in Nat
      /\ \A b \in 0..N : \A a \in 0..b : cut[b] - cut[a] >= b - a
  BY CutsRise
<1>2. RestIs(body, cut, N, 1)
  BY BodyIs
<1>3. cut[0] = 0 /\ cut[N] = Size
  BY DEF Lined
<1> HIDE DEF body
<1>4. 1 - 1 = 0
  OBVIOUS
<1>5. body \in Seq(Int) /\ Len(body) = Size + N
  <2>1. body \in Seq(Int) /\ Len(body) = Size - cut[0] + N - (1 - 1)
    BY <1>2, <1>4 DEF RestIs
  <2>2. QED
    BY <1>1, <1>3, <2>1
<1>6. ASSUME NEW k \in 1..N
      PROVE  /\ body[cut[k - 1] + k] = Size + (cut[k] - cut[k - 1])
             /\ \A j \in 1..(cut[k] - cut[k - 1]) : body[cut[k - 1] + k + j] = cut[k - 1] + j
  <2>1. k - 1 \in 0..N /\ cut[k - 1] \in Nat
    BY <1>1
  <2>2. (cut[k - 1] + k) - (cut[1 - 1] + 1) + 1 = cut[k - 1] + k
    BY <1>3, <1>4, <2>1
  <2>3. /\ body[(cut[k - 1] + k) - (cut[1 - 1] + 1) + 1] = Size + (cut[k] - cut[k - 1])
        /\ \A j \in 1..(cut[k] - cut[k - 1]) :
             body[(cut[k - 1] + k) - (cut[1 - 1] + 1) + 1 + j] = cut[k - 1] + j
    BY <1>2 DEF RestIs
  <2>4. QED
    BY <2>2, <2>3
<1>7. QED
  BY <1>1, <1>3, <1>5, <1>6 DEF Bodied, body

(* What is read of a frame that lies in a copy of the body's beginning.    *)
Holds(copy, cut, k) ==
  /\ cut[k - 1] < cut[k] /\ copy[cut[k - 1] + k] = Size + (cut[k] - cut[k - 1])
  /\ (cut[k] + k <= Len(copy) =>
        SubSeq(copy, (cut[k - 1] + k) + 1, cut[k] + k) = Span(cut[k - 1], cut[k]))

LEMMA FrameOfCopy ==
  ASSUME PipelineConstants, NEW body, NEW cut, NEW N, Bodied(body, cut, N),
         NEW m \in 0..Len(body), NEW k \in 1..N, cut[k - 1] + k <= m
  PROVE  Holds(SubSeq(body, 1, m), cut, k)
<1> DEFINE copy == SubSeq(body, 1, m)
<1>1. body \in Seq(Int) /\ m \in Nat /\ m <= Len(body) /\ N \in Nat
  BY DEF Bodied
<1>2. copy \in Seq(Int) /\ Len(copy) = m /\ \A i \in 1..m : copy[i] = body[i]
  <2>1. /\ SubSeq(body, 1, m) \in Seq(Int) /\ Len(SubSeq(body, 1, m)) = m
        /\ \A i \in 1..m : SubSeq(body, 1, m)[i] = body[i]
    BY <1>1, Lengths
  <2>2. QED
    BY <2>1
<1> HIDE DEF copy
<1>3. k - 1 \in 0..N /\ k \in 0..N /\ k - 1 \in 0..k /\ k - (k - 1) = 1
  BY <1>1
<1>4. cut[k - 1] \in Nat /\ cut[k] \in Nat /\ cut[k - 1] < cut[k]
  <2>1. cut[k - 1] \in Nat /\ cut[k] \in Nat /\ cut[k] - cut[k - 1] >= k - (k - 1)
    BY <1>3 DEF Bodied
  <2>2. QED
    BY <1>3, <2>1
<1>5. PICK a \in Nat, b \in Nat : a = cut[k - 1] /\ b = cut[k] /\ a < b
  BY <1>4
<1>6. body[a + k] = Size + (b - a) /\ \A j \in 1..(b - a) : body[a + k + j] = a + j
  BY <1>5 DEF Bodied
<1>7. a + k \in 1..m
  BY <1>1, <1>5
<1>8. copy[a + k] = Size + (b - a)
  BY <1>2, <1>6, <1>7
<1>9. ASSUME b + k <= m PROVE SubSeq(copy, (a + k) + 1, b + k) = Span(a, b)
  <2>1. SubSeq(copy, (a + k) + 1, b + k) = [j \in 1..(1 + (b + k) - ((a + k) + 1)) |-> copy[((a + k) + 1) + j - 1]]
    <3>1. PICK p \in Nat, q \in Nat : p = (a + k) + 1 /\ q = b + k
      BY <1>1
    <3>2. p >= 1 /\ q <= Len(copy) /\ p <= q + 1 /\ Len(copy) \in Nat
      <4>1. k \in Nat /\ k >= 1 /\ Len(copy) = m /\ m \in Nat /\ a \in Nat /\ b \in Nat /\ a < b /\ b + k <= m
        BY <1>1, <1>2, <1>5, <1>9
      <4>2. p \in Nat /\ q \in Nat /\ p = (a + k) + 1 /\ q = b + k
        BY <3>1
      <4>3. p >= 1 /\ p <= q + 1
        BY <4>1, <4>2
      <4>4. QED
        BY <4>1, <4>2, <4>3
    <3>4. SubSeq(copy, p, q) = [j \in 1..(1 + q - p) |-> copy[p + j - 1]]
      BY <1>2, <3>2
    <3>3. QED
      BY <3>1, <3>4
  <2>2. 1 + (b + k) - ((a + k) + 1) = b - a
    BY <1>5
  <2>3. ASSUME NEW j \in 1..(b - a) PROVE copy[((a + k) + 1) + j - 1] = a + j
    <3>1. ((a + k) + 1) + j - 1 = a + k + j /\ a + k + j \in 1..m
      <4>1. j \in Int /\ j >= 1 /\ j <= b - a /\ k \in Nat
        BY <1>1, <1>5
      <4>2. k \in Nat /\ a \in Nat /\ b \in Nat /\ m \in Nat /\ b + k <= m
        BY <1>1, <1>9, <4>1
      <4>3. a + k + j <= m /\ a + k + j >= 1 /\ a + k + j \in Int
        BY <4>1, <4>2
      <4>4. QED
        BY <4>1, <4>2, <4>3
    <3>2. QED
      BY <1>2, <1>6, <3>1
  <2>4. QED
    BY <2>1, <2>2, <2>3 DEF Span
<1>10. Holds(copy, cut, k)
  BY <1>2, <1>5, <1>8, <1>9 DEF Holds
<1>11. QED
  BY <1>10 DEF copy

(* A copy that ends where a frame ends yields the frames up to there.      *)
LEMMA EndsWithAFrame ==
  ASSUME PipelineConstants, NEW body, NEW cut, NEW N, Bodied(body, cut, N), NEW l \in 0..N
  PROVE  P!Deciphered(SubSeq(body, 1, cut[l] + l)) = Span(0, cut[l])
<1>1. /\ N \in Nat /\ Size \in Nat /\ cut[0] = 0 /\ cut[N] = Size /\ cut[l] \in Nat /\ N \in 0..N
      /\ body \in Seq(Int) /\ Len(body) = Size + N
  BY DEF Bodied
<1>2. PICK e \in Nat : e = cut[l]
  BY <1>1
<1> DEFINE m == e + l
           copy == SubSeq(body, 1, m)
<1>3. m \in 0..Len(body) /\ m \in Nat
  <2>1. cut[N] - cut[l] >= N - l
    BY <1>1 DEF Bodied
  <2>2. QED
    BY <1>1, <1>2, <2>1
<1>4. copy \in Seq(Int) /\ Len(copy) = m
  BY <1>1, <1>3, Lengths
<1>5. PICK f : Deciphering(f, copy, 1) /\ P!Deciphered(copy) = f[1]
  BY <1>4, DecipheredIs
<1> HIDE DEF m, copy
<1>6. \A i \in 1..(m + 1) : f[i] = Unfolded(f, copy, i)
  BY <1>4, <1>5 DEF Deciphering
<1> DEFINE Bad == {k \in 1..(l + 1) : f[cut[k - 1] + k] # Span(cut[k - 1], e)}
<1>b. \A k : k \in Bad <=> k \in 1..(l + 1) /\ f[cut[k - 1] + k] # Span(cut[k - 1], e)
  OBVIOUS
<1>8. l + 1 \in Nat /\ Bad \in SUBSET (0..(l + 1)) /\ l \in Nat
  <2>1. l \in Nat
    BY <1>1
  <2>2. QED
    BY <2>1
<1> HIDE DEF Bad
<1>7. ASSUME NEW k \in Bad PROVE \E j \in Bad : k < j
  <2>0. k \in 1..(l + 1) /\ f[cut[k - 1] + k] # Span(cut[k - 1], e)
    BY <1>b
  <2>1. k \in 1..(l + 1) /\ k - 1 \in 0..N /\ k - 1 \in 0..l /\ l \in 0..N /\ k \in Nat
    BY <1>1, <1>8, <2>0
  <2>2. cut[k - 1] \in Nat /\ e - cut[k - 1] >= l - (k - 1)
    <3>1. cut[k - 1] \in Nat /\ cut[l] - cut[k - 1] >= l - (k - 1)
      BY <2>1 DEF Bodied
    <3>2. QED
      BY <1>2, <3>1
  <2>3. k # l + 1
    <3>1. SUFFICES ASSUME k = l + 1 PROVE f[cut[k - 1] + k] = Span(cut[k - 1], e)
      BY <2>0
    <3>2. cut[k - 1] = e /\ cut[k - 1] + k = m + 1 /\ m + 1 \in 1..(m + 1) /\ m + 1 > m
      <4>1. k - 1 = l
        BY <3>1
      <4>2. QED
        BY <1>2, <1>3, <3>1, <4>1 DEF m
    <3>3. f[m + 1] = <<>>
      BY <1>4, <1>6, <3>2 DEF Unfolded
    <3>4. QED
      BY <1>2, <3>2, <3>3, SpanOfNone
  <2>4. k \in 1..l /\ k \in 1..N /\ k + 1 \in 1..(l + 1) /\ (k + 1) - 1 = k /\ k < k + 1 /\ k \in 0..l /\ k \in 0..N
    BY <1>1, <2>1, <2>3
  <2>5. cut[k] \in Nat /\ e - cut[k] >= l - k
    <3>1. cut[k] \in Nat /\ cut[l] - cut[k] >= l - k
      BY <2>1, <2>4 DEF Bodied
    <3>2. QED
      BY <1>2, <3>1
  <2>6. PICK a \in Nat, b \in Nat : a = cut[k - 1] /\ b = cut[k] /\ e - a >= l - (k - 1) /\ e - b >= l - k
    BY <2>2, <2>5
  <2>7. cut[k - 1] + k <= m
    BY <2>4, <2>6 DEF m
  <2>8. /\ a < b /\ copy[a + k] = Size + (b - a)
        /\ (b + k <= m => SubSeq(copy, (a + k) + 1, b + k) = Span(a, b))
    <3>1. m \in 0..Len(body) /\ copy = SubSeq(body, 1, m) /\ k \in 1..N /\ cut[k - 1] + k <= m
      BY <1>3, <2>4, <2>7 DEF copy
    <3>2. /\ cut[k - 1] < cut[k] /\ copy[cut[k - 1] + k] = Size + (cut[k] - cut[k - 1])
          /\ (cut[k] + k <= m =>
                SubSeq(copy, (cut[k - 1] + k) + 1, cut[k] + k) = Span(cut[k - 1], cut[k]))
      <4>1. Holds(copy, cut, k)
        BY <3>1, FrameOfCopy
      <4>2. QED
        BY <1>4, <4>1 DEF Holds
    <3>3. QED
      BY <2>6, <3>2
  <2>9. b + k <= m /\ a + k \in 1..(m + 1) /\ ~(a + k > m)
    <3>1. m = e + l /\ l \in Nat /\ k \in Nat /\ k <= l /\ 1 <= k
      BY <1>8, <2>1, <2>4 DEF m
    <3>2. a + k <= m
      BY <2>6, <2>7
    <3>3. QED
      BY <2>6, <3>1, <3>2
  <2>10. (a + k) + copy[a + k] - Size = b + k
    BY <1>1, <2>1, <2>8
  <2>11. f[a + k] = IF b + k <= a + k \/ b + k > m \/ f[(b + k) + 1] = P!Refused THEN P!Refused
                   ELSE SubSeq(copy, (a + k) + 1, b + k) \o f[(b + k) + 1]
    BY <1>4, <1>6, <2>9, <2>10 DEF Unfolded
  <2>12. ~(b + k <= a + k) /\ ~(b + k > m)
    BY <1>3, <2>4, <2>8, <2>9
  <2>13. f[(b + k) + 1] # Span(b, e)
    <3>1. SUFFICES ASSUME f[(b + k) + 1] = Span(b, e) PROVE f[a + k] = Span(a, e)
      BY <2>0, <2>6
    <3>2. a <= b /\ b <= e
      <4>1. k \in Nat /\ l \in Nat /\ k <= l
        BY <1>8, <2>1, <2>4
      <4>2. e - b >= l - k /\ a < b
        BY <2>6, <2>8
      <4>3. QED
        BY <4>1, <4>2
    <3>3. Span(b, e) # P!Refused
      BY <3>2, SpanNotRefused
    <3>4. f[a + k] = Span(a, b) \o Span(b, e)
      BY <2>8, <2>9, <2>11, <2>12, <3>1, <3>3
    <3>5. QED
      BY <3>2, <3>4, SpanJoin
  <2>14. (b + k) + 1 = cut[(k + 1) - 1] + (k + 1) /\ b = cut[(k + 1) - 1]
    BY <2>4, <2>6
  <2>15. k + 1 \in Bad
    BY <1>b, <2>4, <2>13, <2>14
  <2>16. QED
    BY <2>4, <2>15
<1>9. Bad = {}
  BY <1>7, <1>8, NoneIsLast
<1>10. 1 \in 1..(l + 1) /\ 1 - 1 = 0
  BY <1>1
<1>11. f[cut[1 - 1] + 1] = Span(cut[1 - 1], e)
  BY <1>9, <1>10 DEF Bad
<1>12. f[1] = Span(0, e)
  BY <1>1, <1>10, <1>11
<1>13. QED
  BY <1>2, <1>5, <1>12 DEF copy, m

(* A copy that ends within a frame is refused.                             *)
LEMMA EndsWithinAFrame ==
  ASSUME PipelineConstants, NEW body, NEW cut, NEW N, Bodied(body, cut, N), NEW m \in 0..Len(body),
         \A l \in 0..N : m # cut[l] + l
  PROVE  P!Deciphered(SubSeq(body, 1, m)) = P!Refused
<1>1. /\ N \in Nat /\ Size \in Nat /\ cut[0] = 0 /\ cut[N] = Size /\ m \in Nat /\ N \in 0..N
      /\ body \in Seq(Int) /\ Len(body) = Size + N /\ m <= Size + N
  BY DEF Bodied
<1> DEFINE copy == SubSeq(body, 1, m)
<1>2. copy \in Seq(Int) /\ Len(copy) = m
  BY <1>1, Lengths
<1>3. PICK f : Deciphering(f, copy, 1) /\ P!Deciphered(copy) = f[1]
  BY <1>2, DecipheredIs
<1> HIDE DEF copy
<1>4. \A i \in 1..(m + 1) : f[i] = Unfolded(f, copy, i)
  BY <1>2, <1>3 DEF Deciphering
<1> DEFINE Bad == {k \in 1..(N + 1) : cut[k - 1] + k <= m + 1 /\ f[cut[k - 1] + k] # P!Refused}
<1>b. \A k : k \in Bad <=> k \in 1..(N + 1) /\ cut[k - 1] + k <= m + 1 /\ f[cut[k - 1] + k] # P!Refused
  OBVIOUS
<1>6. N + 1 \in Nat /\ Bad \in SUBSET (0..(N + 1))
  BY <1>1
<1> HIDE DEF Bad
<1>5. ASSUME NEW k \in Bad PROVE \E j \in Bad : k < j
  <2>0. k \in 1..(N + 1) /\ cut[k - 1] + k <= m + 1 /\ f[cut[k - 1] + k] # P!Refused
    BY <1>b
  <2>1. k \in Nat /\ k - 1 \in 0..N /\ cut[k - 1] \in Nat
    BY <1>1, <2>0 DEF Bodied
  <2>2. m # cut[k - 1] + (k - 1)
    BY <2>1
  <2>3. cut[k - 1] + k <= m
    <3>1. PICK a \in Nat : a = cut[k - 1]
      BY <2>1
    <3>2. a + k <= m + 1 /\ m # a + (k - 1)
      BY <2>0, <2>2, <3>1
    <3>3. a + k <= m
      BY <1>1, <2>1, <3>2
    <3>4. QED
      BY <3>1, <3>3
  <2>4. k # N + 1
    <3>1. ASSUME k = N + 1 PROVE FALSE
      <4>1. k - 1 = N /\ cut[k - 1] = Size
        BY <1>1, <3>1
      <4>2. QED
        BY <1>1, <2>3, <3>1, <4>1
    <3>2. QED
      BY <3>1
  <2>5. k \in 1..N /\ k + 1 \in 1..(N + 1) /\ (k + 1) - 1 = k /\ k < k + 1 /\ k \in 0..N
    BY <1>1, <2>0, <2>1, <2>4
  <2>6. cut[k] \in Nat
    BY <2>5 DEF Bodied
  <2>7. PICK a \in Nat, b \in Nat : a = cut[k - 1] /\ b = cut[k]
    BY <2>1, <2>6
  <2>8. a < b /\ copy[a + k] = Size + (b - a)
    <3>1. copy = SubSeq(body, 1, m) /\ k \in 1..N /\ cut[k - 1] + k <= m
      BY <2>3, <2>5 DEF copy
    <3>2. cut[k - 1] < cut[k] /\ copy[cut[k - 1] + k] = Size + (cut[k] - cut[k - 1])
      <4>1. Holds(copy, cut, k)
        BY <3>1, FrameOfCopy
      <4>2. QED
        BY <4>1 DEF Holds
    <3>3. QED
      BY <2>7, <3>2
  <2>9. a + k \in 1..(m + 1) /\ ~(a + k > m)
    <3>1. a + k <= m /\ k >= 1
      BY <2>0, <2>3, <2>7
    <3>2. QED
      BY <1>1, <2>1, <3>1
  <2>10. (a + k) + copy[a + k] - Size = b + k
    BY <1>1, <2>1, <2>8
  <2>11. f[a + k] = IF b + k <= a + k \/ b + k > m \/ f[(b + k) + 1] = P!Refused THEN P!Refused
                   ELSE SubSeq(copy, (a + k) + 1, b + k) \o f[(b + k) + 1]
    BY <1>2, <1>4, <2>9, <2>10 DEF Unfolded
  <2>12. f[a + k] # P!Refused
    BY <2>0, <2>7
  <2>13. ~(b + k > m) /\ f[(b + k) + 1] # P!Refused
    BY <2>11, <2>12
  <2>14. (b + k) + 1 = cut[(k + 1) - 1] + (k + 1) /\ (b + k) + 1 <= m + 1
    <3>1. (b + k) + 1 <= m + 1 /\ (b + k) + 1 = b + (k + 1)
      BY <1>1, <2>1, <2>13
    <3>2. QED
      BY <2>5, <2>7, <3>1
  <2>15. k + 1 \in Bad
    BY <1>b, <2>5, <2>13, <2>14
  <2>16. QED
    BY <2>5, <2>15
<1>7. Bad = {}
  BY <1>5, <1>6, NoneIsLast
<1>8. 1 \in 1..(N + 1) /\ 1 - 1 = 0 /\ cut[1 - 1] + 1 = 1 /\ 1 <= m + 1
  BY <1>1
<1>9. f[1] = P!Refused
  BY <1>7, <1>8 DEF Bad
<1>10. QED
  BY <1>3, <1>9 DEF copy

-----------------------------------------------------------------------------
(* What opening a container yields.                                        *)
LEMMA WholeIs ==
  ASSUME PipelineConstants
  PROVE  /\ P!Whole = Span(0, Size) /\ P!Whole \in Seq(Int) /\ Len(P!Whole) = Size
         /\ P!Whole # <<>> /\ P!Whole[Len(P!Whole)] = P!End /\ \A i \in 1..Size : P!Whole[i] = i
<1>1. Size \in Nat /\ Size > 0 /\ Size - 0 = Size /\ \A i \in 1..Size : 0 + i = i /\ i \in Int
  BY DEF PipelineConstants
<1>2. P!Whole = Span(0, Size)
  BY <1>1 DEF P!Whole, Span
<1>3. [i \in 1..Size |-> i] \in Seq(Int) /\ Len([i \in 1..Size |-> i]) = Size
  BY <1>1
<1>4. P!Whole \in Seq(Int) /\ Len(P!Whole) = Size /\ \A i \in 1..Size : P!Whole[i] = i
  BY <1>3 DEF P!Whole
<1>5. P!Whole[Size] = Size /\ Size \in 1..Size
  BY <1>1, <1>4
<1>6. Len(<<>>) = 0
  OBVIOUS
<1>7. QED
  BY <1>1, <1>2, <1>4, <1>5, <1>6 DEF P!End

(* What a beginning of the units is taken for.                             *)
Taken(inner) == IF inner # <<>> /\ inner[Len(inner)] = P!End THEN inner ELSE P!Refused

LEMMA RefusedIsRefused == ASSUME PipelineConstants PROVE Taken(P!Refused) = P!Refused
BY DEF Taken

LEMMA BeginningIsRefused ==
  ASSUME PipelineConstants, NEW e \in Nat, e < Size PROVE Taken(Span(0, e)) = P!Refused
<1>1. Span(0, e) \in Seq(Nat) /\ Len(Span(0, e)) = e - 0 /\ \A j \in 1..(e - 0) : Span(0, e)[j] = 0 + j
  <2>1. 0 \in Nat /\ 0 <= e
    OBVIOUS
  <2>2. QED
    BY <2>1, SpanIs
<1>2. e - 0 = e
  OBVIOUS
<1>3. CASE e = 0
  BY <1>3, SpanOfNone DEF Taken
<1>4. CASE e # 0
  <2>1. e \in 1..(e - 0) /\ 0 + e = e
    BY <1>2, <1>4
  <2>2. Span(0, e)[Len(Span(0, e))] = e
    BY <1>1, <1>2, <2>1
  <2>3. QED
    BY <2>2 DEF Taken, P!End, PipelineConstants
<1>5. QED
  BY <1>3, <1>4

LEMMA AllIsTaken == ASSUME PipelineConstants PROVE Taken(P!Whole) = P!Whole
BY WholeIs DEF Taken

(* Copies of a container's header and body.                                *)
LEMMA CopyIs ==
  ASSUME NEW h \in Int, NEW body \in Seq(Int), NEW n \in 0..(Len(body) + 1)
  PROVE  /\ <<h>> \o body \in Seq(Int) /\ Len(<<h>> \o body) = Len(body) + 1 /\ Len(body) \in Nat
         /\ n = 0 => SubSeq(<<h>> \o body, 1, n) = <<>>
         /\ n # 0 => /\ SubSeq(<<h>> \o body, 1, n) # <<>> /\ Head(SubSeq(<<h>> \o body, 1, n)) = h
                     /\ Len(SubSeq(<<h>> \o body, 1, n)) = n /\ n - 1 \in 0..Len(body)
                     /\ Tail(SubSeq(<<h>> \o body, 1, n)) = SubSeq(body, 1, n - 1)
<1> DEFINE p == <<h>>
           box == p \o body
           copy == SubSeq(box, 1, n)
<1>1. p \in Seq(Int) /\ Len(p) = 1 /\ p[1] = h /\ n \in Nat
  OBVIOUS
<1> HIDE DEF p
<1>2. /\ box \in Seq(Int) /\ Len(box) = Len(p) + Len(body) /\ Len(body) \in Nat
      /\ \A i \in 1..Len(p) : box[i] = p[i]
      /\ \A i \in 1..Len(body) : box[Len(p) + i] = body[i]
  <2>1. p \in Seq(Int) /\ body \in Seq(Int)
    BY <1>1
  <2>2. QED
    BY <2>1, Joined
<1>3. Len(box) = Len(body) + 1 /\ box[1] = h /\ \A i \in 1..Len(body) : box[1 + i] = body[i]
  BY <1>1, <1>2
<1> HIDE DEF box
<1>4. n <= Len(box)
  BY <1>2, <1>3
<1>5. copy \in Seq(Int) /\ Len(copy) = n /\ \A i \in 1..n : copy[i] = box[i]
  BY <1>1, <1>2, <1>4, Lengths
<1> HIDE DEF copy
<1>6. n = 0 => copy = <<>>
  BY <1>5
<1>7. ASSUME n # 0
      PROVE  copy # <<>> /\ Head(copy) = h /\ n - 1 \in 0..Len(body) /\ Tail(copy) = SubSeq(body, 1, n - 1)
  <2>1. n >= 1 /\ n - 1 \in Nat /\ n - 1 <= Len(body) /\ Len(<<>>) = 0
    BY <1>1, <1>2, <1>7
  <2>2. copy # <<>>
    BY <1>5, <2>1
  <2>3. /\ Tail(copy) \in Seq(Int) /\ Len(Tail(copy)) = n - 1 /\ Head(copy) = copy[1]
        /\ \A k \in 1..(n - 1) : Tail(copy)[k] = copy[k + 1]
    BY <1>5, <2>2, Tails
  <2>4. copy[1] = h
    BY <1>3, <1>5, <1>1, <2>1
  <2>5. /\ SubSeq(body, 1, n - 1) \in Seq(Int) /\ Len(SubSeq(body, 1, n - 1)) = n - 1
        /\ \A i \in 1..(n - 1) : SubSeq(body, 1, n - 1)[i] = body[i]
    BY <2>1, Lengths
  <2>6. ASSUME NEW k \in 1..(n - 1) PROVE Tail(copy)[k] = SubSeq(body, 1, n - 1)[k]
    <3>1. k + 1 \in 1..n /\ k \in 1..Len(body) /\ k + 1 = 1 + k
      BY <2>1, <1>1
    <3>2. Tail(copy)[k] = box[1 + k]
      BY <1>5, <2>3, <3>1
    <3>3. QED
      BY <1>3, <2>5, <3>1, <3>2
  <2>7. Tail(copy) = SubSeq(body, 1, n - 1)
    <3>1. \A k \in 1..Len(Tail(copy)) : Tail(copy)[k] = SubSeq(body, 1, n - 1)[k]
      BY <2>3, <2>6
    <3>2. QED
      BY <2>3, <2>5, <3>1, SameSeq
  <2>8. QED
    BY <2>1, <2>2, <2>3, <2>4, <2>7
<1>8. QED
  BY <1>2, <1>3, <1>5, <1>6, <1>7 DEF p, box, copy

LEMMA OpenedIs ==
  ASSUME NEW copy, NEW rightKey
  PROVE  P!Opened(copy, rightKey) =
           Taken(IF copy = <<>> THEN P!Refused
                 ELSE IF Head(copy) # P!Header(TRUE) THEN Tail(copy)
                 ELSE IF rightKey \/ Len(copy) = 1 THEN P!Deciphered(Tail(copy)) ELSE P!Refused)
BY DEF P!Opened, Taken

(* A container that is not encrypted.                                      *)
LEMMA PlainIsReadable ==
  ASSUME PipelineConstants, NEW n \in 0..(Size + 1), NEW rightKey \in BOOLEAN
  PROVE  /\ <<P!Header(FALSE)>> \o P!Whole \in Seq(Int) /\ Len(<<P!Header(FALSE)>> \o P!Whole) = Size + 1
         /\ P!Opened(SubSeq(<<P!Header(FALSE)>> \o P!Whole, 1, n), rightKey) \in {P!Refused, P!Whole}
         /\ n = Size + 1 => P!Opened(SubSeq(<<P!Header(FALSE)>> \o P!Whole, 1, n), rightKey) = P!Whole
<1> DEFINE box == <<P!Header(FALSE)>> \o P!Whole
           copy == SubSeq(box, 1, n)
<1>1. P!Header(FALSE) \in Int /\ P!Header(FALSE) # P!Header(TRUE) /\ Size \in Nat
  BY DEF P!Header, PipelineConstants
<1>2. P!Whole \in Seq(Int) /\ Len(P!Whole) = Size /\ P!Whole = Span(0, Size)
  BY WholeIs
<1>3. n \in 0..(Len(P!Whole) + 1) /\ n \in Nat
  BY <1>2
<1>4. box \in Seq(Int) /\ Len(box) = Size + 1
  BY <1>1, <1>2, <1>3, CopyIs
<1>5. n = 0 => copy = <<>>
  BY <1>1, <1>2, <1>3, CopyIs
<1>6. n # 0 => copy # <<>> /\ Head(copy) = P!Header(FALSE) /\ Tail(copy) = SubSeq(P!Whole, 1, n - 1)
  BY <1>1, <1>2, <1>3, CopyIs
<1> HIDE DEF copy
<1>7. CASE n = 0
  <2>1. P!Opened(copy, rightKey) = P!Refused
    BY <1>5, <1>7, OpenedIs, RefusedIsRefused
  <2>2. n # Size + 1
    BY <1>1, <1>7
  <2>3. QED
    BY <1>4, <2>1, <2>2 DEF copy
<1>8. CASE n # 0
  <2>1. PICK e \in Nat : e = n - 1 /\ e <= Size
    BY <1>1, <1>3, <1>8
  <2>2. SubSeq(P!Whole, 1, e) = Span(0, e)
    <3>1. 0 <= e /\ e - 0 = e /\ 0 \in Nat
      BY <2>1
    <3>2. SubSeq(Span(0, Size), 1, e - 0) = Span(0, e)
      BY <1>1, <2>1, <3>1, SpanCut
    <3>3. QED
      BY <1>2, <3>1, <3>2
  <2>3. P!Opened(copy, rightKey) = Taken(Span(0, e))
    BY <1>1, <1>6, <1>8, <2>1, <2>2, OpenedIs
  <2>4. CASE e = Size
    BY <1>2, <1>4, <2>3, <2>4, AllIsTaken DEF copy
  <2>5. CASE e # Size
    <3>1. e < Size /\ n # Size + 1
      BY <1>1, <1>3, <2>1, <2>5
    <3>2. P!Opened(copy, rightKey) = P!Refused
      BY <2>1, <2>3, <3>1, BeginningIsRefused
    <3>3. QED
      BY <1>4, <3>1, <3>2 DEF copy
  <2>6. QED
    BY <2>4, <2>5
<1>9. QED
  BY <1>7, <1>8

(* A container that is encrypted.                                          *)
LEMMA EncryptedIsReadable ==
  ASSUME PipelineConstants, NEW body, NEW cut, NEW N, Bodied(body, cut, N),
         NEW n \in 0..(Len(body) + 1), NEW rightKey \in BOOLEAN
  PROVE  /\ <<P!Header(TRUE)>> \o body \in Seq(Int) /\ Len(<<P!Header(TRUE)>> \o body) = Len(body) + 1
         /\ P!Opened(SubSeq(<<P!Header(TRUE)>> \o body, 1, n), rightKey) \in {P!Refused, P!Whole}
         /\ n = Len(body) + 1 /\ rightKey =>
              P!Opened(SubSeq(<<P!Header(TRUE)>> \o body, 1, n), rightKey) = P!Whole
<1> DEFINE box == <<P!Header(TRUE)>> \o body
           copy == SubSeq(box, 1, n)
<1>1. /\ P!Header(TRUE) \in Int /\ N \in Nat /\ Size \in Nat /\ body \in Seq(Int) /\ Len(body) = Size + N
      /\ cut[0] = 0 /\ cut[N] = Size /\ \A k \in 0..N : cut[k] \in Nat
  BY DEF P!Header, Bodied
<1>2. box \in Seq(Int) /\ Len(box) = Len(body) + 1 /\ Len(body) \in Nat /\ n \in Nat
  <2>1. box \in Seq(Int) /\ Len(box) = Len(body) + 1 /\ Len(body) \in Nat
    BY <1>1, CopyIs
  <2>2. n \in Nat
    BY <2>1
  <2>3. QED
    BY <2>1, <2>2
<1>3. n = 0 => copy = <<>>
  BY <1>1, CopyIs
<1>4. n # 0 => /\ copy # <<>> /\ Head(copy) = P!Header(TRUE) /\ n - 1 \in 0..Len(body)
               /\ Tail(copy) = SubSeq(body, 1, n - 1) /\ Len(copy) = n
  BY <1>1, CopyIs
<1> HIDE DEF copy
<1>5. CASE n = 0
  <2>1. P!Opened(copy, rightKey) = P!Refused
    BY <1>3, <1>5, OpenedIs, RefusedIsRefused
  <2>2. n # Len(body) + 1
    BY <1>2, <1>5
  <2>3. QED
    BY <1>2, <2>1, <2>2 DEF copy
<1>6. CASE n # 0 /\ ~(rightKey \/ n = 1)
  <2>1. P!Opened(copy, rightKey) = P!Refused
    BY <1>4, <1>6, OpenedIs, RefusedIsRefused
  <2>2. QED
    BY <1>2, <1>6, <2>1 DEF copy
<1>7. CASE n # 0 /\ (rightKey \/ n = 1)
  <2>1. PICK m \in 0..Len(body) : m = n - 1
    BY <1>4, <1>7
  <2>2. P!Opened(copy, rightKey) = Taken(P!Deciphered(SubSeq(body, 1, m)))
    BY <1>4, <1>7, <2>1, OpenedIs
  <2>3. CASE \E l \in 0..N : m = cut[l] + l
    <3>1. PICK l \in 0..N : m = cut[l] + l
      BY <2>3
    <3>2. cut[l] \in Nat /\ cut[N] - cut[l] >= N - l
      <4>1. N \in 0..N /\ l \in 0..N /\ cut[l] \in Nat
        BY <1>1, <3>1
      <4>2. QED
        BY <4>1 DEF Bodied
    <3>3. P!Deciphered(SubSeq(body, 1, m)) = Span(0, cut[l])
      BY <3>1, EndsWithAFrame
    <3>4. CASE l = N
      <4>1. P!Opened(copy, rightKey) = P!Whole
        BY <1>1, <2>2, <3>3, <3>4, WholeIs, AllIsTaken
      <4>2. QED
        BY <1>2, <4>1 DEF copy
    <3>5. CASE l # N
      <4>1. cut[l] < Size /\ m # Len(body)
        <5>1. PICK c \in Nat : c = cut[l]
          BY <3>2
        <5>2. /\ N \in Nat /\ l \in Nat /\ l < N /\ Size \in Nat
              /\ Size - c >= N - l /\ m = c + l /\ Len(body) = Size + N
          BY <1>1, <3>1, <3>2, <3>5, <5>1
        <5>3. c < Size /\ c + l # Size + N
          BY <5>2
        <5>4. QED
          BY <5>1, <5>2, <5>3
      <4>2. P!Opened(copy, rightKey) = P!Refused
        BY <2>2, <3>2, <3>3, <4>1, BeginningIsRefused
      <4>3. n # Len(body) + 1
        BY <1>2, <2>1, <4>1
      <4>4. QED
        BY <1>2, <4>2, <4>3 DEF copy
    <3>6. QED
      BY <3>4, <3>5
  <2>4. CASE \A l \in 0..N : m # cut[l] + l
    <3>1. P!Opened(copy, rightKey) = P!Refused
      BY <2>2, <2>4, EndsWithinAFrame, RefusedIsRefused
    <3>2. m # Len(body)
      <4>1. N \in 0..N /\ m # cut[N] + N
        BY <1>1, <2>4
      <4>2. QED
        BY <1>1, <4>1
    <3>3. n # Len(body) + 1
      BY <1>2, <2>1, <3>2
    <3>4. QED
      BY <1>2, <3>1, <3>3 DEF copy
  <2>5. QED
    BY <2>3, <2>4
<1>8. QED
  BY <1>5, <1>6, <1>7

(* What the steps keep, of the container.                                  *)
ReadableFile(box) ==
  /\ P!Opened(box, TRUE) = P!Whole
  /\ \A n \in 0..Len(box), rightKey \in BOOLEAN : P!Opened(SubSeq(box, 1, n), rightKey) \in {P!Refused, P!Whole}

LEMMA FullCopy == ASSUME NEW box \in Seq(Int) PROVE SubSeq(box, 1, Len(box)) = box
OBVIOUS

LEMMA LinedIsReadable ==
  ASSUME PipelineConstants, NEW cut, NEW frames, Lined(cut, frames), NEW encrypted \in BOOLEAN
  PROVE  ReadableFile(<<P!Header(encrypted)>> \o P!Contents(frames, encrypted))
<1> DEFINE box == <<P!Header(encrypted)>> \o P!Contents(frames, encrypted)
<1>1. /\ box \in Seq(Int)
      /\ \A n \in 0..Len(box), rightKey \in BOOLEAN :
           /\ P!Opened(SubSeq(box, 1, n), rightKey) \in {P!Refused, P!Whole}
           /\ n = Len(box) /\ rightKey => P!Opened(SubSeq(box, 1, n), rightKey) = P!Whole
  <2>1. CASE encrypted
    <3>1. Bodied(P!Contents(frames, TRUE), cut, Len(frames))
      BY BodiedIs
    <3>2. encrypted = TRUE
      BY <2>1
    <3> DEFINE body == P!Contents(frames, TRUE)
               b == <<P!Header(TRUE)>> \o body
    <3>3. box = b
      BY <3>2
    <3>4. Bodied(body, cut, Len(frames)) /\ body \in Seq(Int) /\ Len(body) \in Nat
      <4>1. Bodied(body, cut, Len(frames)) /\ body \in Seq(Int)
        BY <3>1 DEF Bodied
      <4> HIDE DEF body
      <4>2. Len(body) \in Nat
        BY <4>1
      <4>3. QED
        BY <4>1, <4>2
    <3> HIDE DEF body, box
    <3>5. \A n \in 0..(Len(body) + 1), rightKey \in BOOLEAN :
            /\ b \in Seq(Int) /\ Len(b) = Len(body) + 1
            /\ P!Opened(SubSeq(b, 1, n), rightKey) \in {P!Refused, P!Whole}
            /\ n = Len(body) + 1 /\ rightKey => P!Opened(SubSeq(b, 1, n), rightKey) = P!Whole
      BY <3>4, EncryptedIsReadable
    <3>6. 0 \in 0..(Len(body) + 1) /\ TRUE \in BOOLEAN
      BY <3>4
    <3> HIDE DEF b
    <3>7. b \in Seq(Int) /\ Len(b) = Len(body) + 1
      BY <3>5, <3>6
    <3>8. QED
      BY <3>3, <3>5, <3>7
  <2>2. CASE ~encrypted
    <3>1. encrypted = FALSE /\ Size \in Nat
      BY <2>2 DEF PipelineConstants
    <3> DEFINE b == <<P!Header(FALSE)>> \o P!Whole
    <3>2. box = b
      BY <3>1, PlainIs, WholeIs
    <3> HIDE DEF box
    <3>3. \A n \in 0..(Size + 1), rightKey \in BOOLEAN :
            /\ b \in Seq(Int) /\ Len(b) = Size + 1
            /\ P!Opened(SubSeq(b, 1, n), rightKey) \in {P!Refused, P!Whole}
            /\ n = Size + 1 => P!Opened(SubSeq(b, 1, n), rightKey) = P!Whole
      BY PlainIsReadable
    <3>4. 0 \in 0..(Size + 1) /\ TRUE \in BOOLEAN
      BY <3>1
    <3> HIDE DEF b
    <3>5. b \in Seq(Int) /\ Len(b) = Size + 1
      BY <3>3, <3>4
    <3>6. QED
      BY <3>2, <3>3, <3>5
  <2>3. QED
    BY <2>1, <2>2
<1> HIDE DEF box
<1>2. Len(box) \in 0..Len(box) /\ TRUE \in BOOLEAN
  BY <1>1
<1>3. P!Opened(SubSeq(box, 1, Len(box)), TRUE) = P!Whole
  BY <1>1, <1>2
<1>4. P!Opened(box, TRUE) = P!Whole
  BY <1>1, <1>3, FullCopy
<1>5. QED
  BY <1>1, <1>4 DEF ReadableFile, box

-----------------------------------------------------------------------------
(* When the container is written its frames are the whole ZIP.             *)
LEMMA JoinedIsLined ==
  ASSUME PipelineConstants, PipelineCore, InSequence, P!At("joining"), encryptor.at = "gone",
         ~builder.failing, ~encryptor.failed
  PROVE  \E cut \in Cuts : Lined(cut, payload)
<1>1. /\ PipelineTypes /\ StopIsLast /\ BuilderKnows /\ payload \in Seq(Seq(Units)) /\ Size \in Nat
  BY DEF PipelineCore, PipelineTypes, PipelineConstants
<1>2. PICK cut \in Cuts : Sequenced(cut)
  BY DEF InSequence, Cuts, P!At
<1>3. queue = <<>> /\ buffer = <<>> /\ written = Size
  BY <1>1 DEF StopIsLast, BuilderKnows, Closing, P!At
<1>4. Sent = 0 /\ Busy = 0 /\ Offered = 0 /\ Len(<<>>) = 0
  BY DEF Sent, Busy, Offered, P!At
<1>5. Len(payload) \in Nat /\ DOMAIN payload = 1..Len(payload)
  BY <1>1
<1>6. Handed = Len(payload)
  BY <1>3, <1>4, <1>5 DEF Handed
<1>7. cut[Len(payload)] \in Nat /\ cut[Len(payload)] <= Size /\ Span(cut[Len(payload)], Size) = <<>>
  BY <1>2, <1>3, <1>5, <1>6 DEF Sequenced, Cuts
<1>8. cut[Len(payload)] = Size
  <2>1. PICK a \in Nat : a = cut[Len(payload)] /\ a <= Size /\ Span(a, Size) = <<>>
    BY <1>7
  <2>2. Len(Span(a, Size)) = Size - a
    BY <1>1, <2>1, SpanIs
  <2>3. Size - a = 0
    BY <1>4, <2>1, <2>2
  <2>4. QED
    BY <1>1, <2>1, <2>3
<1>9. Lined(cut, payload)
  BY <1>1, <1>2, <1>5, <1>8 DEF Lined, Sequenced
<1>10. QED
  BY <1>9

LEMMA FileIsKept ==
  ASSUME PipelineConstants, PipelineCore, PipelineCore', InSequence, FileIsReadable, [P!Next]_P!pipeline
  PROVE  FileIsReadable'
<1>1. PipelineTypes /\ builder \in Building
  BY DEF PipelineCore, PipelineTypes
<1>2. Readable <=> ReadableFile(file)
  BY DEF Readable, ReadableFile
<1>3. Readable' <=> ReadableFile(file')
  BY DEF Readable, ReadableFile
<1>4. CASE P!Finish
  <2>1. reopened' = reopened /\ P!At("joining") /\ encryptor.at = "gone"
    BY <1>4 DEF P!Finish
  <2>2. CASE builder' = [builder EXCEPT !.at = "hushing", !.failing = TRUE]
    <3>1. builder'.failing /\ builder'.at = "hushing"
      BY <1>1, <2>2 DEF Building
    <3>2. QED
      BY <2>1, <3>1 DEF FileIsReadable, P!At
  <2>3. CASE /\ ~builder.failing /\ ~encryptor.failed
             /\ \E encrypted \in BOOLEAN : file' = <<P!Header(encrypted)>> \o P!Contents(payload, encrypted)
    <3>1. PICK cut \in Cuts : Lined(cut, payload)
      BY <2>1, <2>3, JoinedIsLined
    <3>2. PICK encrypted \in BOOLEAN : file' = <<P!Header(encrypted)>> \o P!Contents(payload, encrypted)
      BY <2>3
    <3>3. ReadableFile(file')
      BY <3>1, <3>2, LinedIsReadable
    <3>4. QED
      BY <1>3, <2>1, <3>3 DEF FileIsReadable
  <2>4. QED
    BY <1>4, <2>2, <2>3 DEF P!Finish
<1>5. CASE P!Open
  <2>1. UNCHANGED <<builder, file>> /\ P!At("done")
    BY <1>5 DEF P!Open
  <2>2. Readable
    BY <2>1 DEF FileIsReadable
  <2>3. reopened' \in {P!Refused, P!Whole}
    BY <1>5, <2>2 DEF P!Open, Readable
  <2>4. Readable'
    BY <1>2, <1>3, <2>1, <2>2
  <2>5. QED
    BY <2>3, <2>4 DEF FileIsReadable
<1>6. ASSUME UNCHANGED <<file, reopened>>,
             P!At("done")' \/ (builder'.at \in {"hushing", "leaving"} /\ ~builder'.failing) =>
               P!At("done") \/ (builder.at \in {"hushing", "leaving"} /\ ~builder.failing)
      PROVE  FileIsReadable'
  BY <1>2, <1>3, <1>6 DEF FileIsReadable
<1>7. CASE P!Hush
  <2>1. UNCHANGED <<file, reopened>> /\ P!Go("leaving") /\ P!At("hushing") /\ "leaving" \in Steps
    BY <1>7 DEF P!Hush, Steps, AfterJoin
  <2>2. builder'.at = "leaving" /\ builder'.failing = builder.failing
    BY <1>1, <2>1, GoIs
  <2>3. QED
    BY <1>6, <2>1, <2>2 DEF P!At
<1>8. CASE P!Leave
  <2> DEFINE last == IF reporter.cancelled THEN "cancelled" ELSE IF builder.failing THEN "failed" ELSE "done"
  <2>1. UNCHANGED <<file, reopened>> /\ P!Go(last) /\ P!At("leaving") /\ last \in P!Ended /\ last \in Steps
    BY <1>8 DEF P!Leave, Steps, AfterJoin, P!Ended
  <2>2. last = "done" => ~builder.failing
    OBVIOUS
  <2> HIDE DEF last
  <2>3. builder'.at = last
    BY <1>1, <2>1, GoIs
  <2>4. QED
    BY <1>6, <2>1, <2>2, <2>3 DEF P!At, P!Ended
<1>9. ASSUME UNCHANGED <<file, reopened>>, builder' = builder \/ builder'.at \notin {"hushing", "leaving", "done"}
      PROVE  FileIsReadable'
  BY <1>6, <1>9 DEF P!At
<1>10. CASE P!CloseBuffer \/ P!Submit
  <2>1. UNCHANGED <<file, reopened>>
    BY <1>10 DEF P!CloseBuffer, P!Submit
  <2>2. builder'.at \notin {"hushing", "leaving", "done"}
    <3>1. CASE P!CloseBuffer
      <4>1. builder' = [builder EXCEPT !.at = "flushing", !.frame = buffer] \/ builder' = [builder EXCEPT !.at = "stopping"]
        BY <3>1 DEF P!CloseBuffer, P!Go
      <4>2. QED
        BY <1>1, <4>1 DEF Building
    <3>2. CASE P!Submit
      <4> DEFINE frame == SubSeq(buffer, 1, Frame)
      <4>1. builder' = [builder EXCEPT !.at = "offering", !.frame = frame] \/ P!Go("closing") \/ P!Raise
        BY <3>2 DEF P!Submit
      <4>2. "closing" \in Steps
        BY DEF Steps, BeforeStop
      <4> HIDE DEF frame
      <4>3. CASE builder' = [builder EXCEPT !.at = "offering", !.frame = frame]
        BY <1>1, <4>3 DEF Building
      <4>4. CASE P!Go("closing") \/ P!Raise
        BY <1>1, <4>2, <4>4, GoIs, RaiseIs
      <4>5. QED
        BY <4>1, <4>3, <4>4
    <3>3. QED
      BY <1>10, <3>1, <3>2
  <2>3. QED
    BY <1>9, <2>1, <2>2
<1>11. CASE \E report \in P!Reports : P!Post(report)
  <2>1. PICK report \in P!Reports : P!Post(report)
    BY <1>11
  <2> DEFINE sealed == (report = "seal")
             reports == IF report = "seal" THEN builder.reports ELSE builder.reports + 1
  <2>2. /\ UNCHANGED <<file, reopened>>
        /\ P!Raise \/ builder' = [builder EXCEPT !.at = "posted", !.sealed = sealed, !.reports = reports]
    BY <2>1 DEF P!Post
  <2> HIDE DEF sealed, reports
  <2>3. CASE P!Raise
    BY <1>1, <1>9, <2>2, <2>3, RaiseIs
  <2>4. CASE builder' = [builder EXCEPT !.at = "posted", !.sealed = sealed, !.reports = reports]
    <3>1. builder'.at = "posted"
      BY <1>1, <2>4 DEF Building
    <3>2. QED
      BY <1>9, <2>2, <3>1
  <2>5. QED
    BY <2>2, <2>3, <2>4
<1>12. CASE \/ P!Write \/ P!Offer \/ P!Posted \/ P!BuildFails \/ P!Unwind \/ P!Flush \/ P!SendStop
  <2>1. /\ UNCHANGED <<file, reopened>>
        /\ builder' = builder \/ P!Raise \/ \E at \in {"building", "unwinding", "closing", "stopping", "joining"} : P!Go(at)
    BY <1>12 DEF P!Write, P!Offer, P!Posted, P!BuildFails, P!Unwind, P!Flush, P!SendStop
  <2>2. {"building", "unwinding", "closing", "stopping", "joining"} \subseteq Steps
    BY DEF Steps, BeforeStop
  <2>3. builder' = builder \/ builder'.at \in {"building", "unwinding", "closing", "stopping", "joining"}
    BY <1>1, <2>1, <2>2, GoIs, RaiseIs
  <2>4. QED
    BY <1>9, <2>1, <2>3
<1>13. CASE P!Take \/ P!Encrypt \/ P!Wake \/ P!Report \/ P!Cancel \/ UNCHANGED P!pipeline
  <2>1. UNCHANGED <<file, reopened, builder>>
    BY <1>13 DEF P!Take, P!Encrypt, P!Wake, P!Report, P!Cancel, P!pipeline
  <2>2. QED
    BY <1>9, <2>1
<1>14. QED
  BY <1>4, <1>5, <1>7, <1>8, <1>10, <1>11, <1>12, <1>13 DEF P!Next, P!Build, P!Threads

(* A finished container holds everything, a copy of it that is cut short   *)
(* is refused, and a cancel made in time is noticed.                       *)
THEOREM ArchivesAreComplete ==
  ASSUME PipelineConstants
  PROVE  P!Init /\ [][P!Next]_P!pipeline => [](P!PipelineTypeOK /\ P!ArchivesAreWhole)
<1>1. P!Init => PipelineInv
  <2>1. SUFFICES ASSUME P!Init PROVE PipelineInv
    OBVIOUS
  <2>2. builder.at = "building" /\ reopened = <<>>
    BY <2>1 DEF P!Init
  <2>3. FileIsReadable
    BY <2>2 DEF FileIsReadable, P!At
  <2>4. QED
    BY <2>1, <2>3, InitIs, SequencedAtFirst DEF PipelineInv
<1>2. PipelineInv /\ [P!Next]_P!pipeline => PipelineInv'
  <2>1. SUFFICES ASSUME PipelineInv, [P!Next]_P!pipeline PROVE PipelineInv'
    OBVIOUS
  <2>2. PipelineCore /\ InSequence /\ FileIsReadable
    BY <2>1 DEF PipelineInv
  <2>3. PipelineCore'
    BY <2>1, <2>2, CoreIsKept
  <2>4. InSequence'
    BY <2>1, <2>2, <2>3, OrderIsKept
  <2>5. FileIsReadable'
    BY <2>1, <2>2, <2>3, FileIsKept
  <2>6. QED
    BY <2>3, <2>4, <2>5 DEF PipelineInv
<1>3. PipelineInv => P!PipelineTypeOK /\ P!ArchivesAreWhole
  <2>1. SUFFICES ASSUME PipelineInv PROVE P!PipelineTypeOK /\ P!ArchivesAreWhole
    OBVIOUS
  <2>2. P!PipelineTypeOK /\ P!CancelIsNoticed
    BY <2>1, TypesFollow DEF PipelineInv
  <2>3. P!FinishedIsWhole
    BY <2>1 DEF PipelineInv, FileIsReadable, Readable, P!FinishedIsWhole
  <2>4. QED
    BY <2>2, <2>3 DEF P!ArchivesAreWhole
<1>4. QED
  BY <1>1, <1>2, <1>3, PTL
=============================================================================
