---------------------------- MODULE ReleaseState ----------------------------
(***************************************************************************)
(* Which DjangoLux release a deployment runs and which one it offers: the  *)
(* image's release, the runtime volume's pointer, generation and staged    *)
(* releases, the processes the supervisor restarts, the DluxUpdateState    *)
(* row, the channel policy and Composer's report (dlux/updater: service,   *)
(* runtime, supervisor, channel; dlux_reconcile).                          *)
(*                                                                         *)
(* Versions are numbers, in release order.  The operations that carry an   *)
(* update out are in UpdateRuns: here Composer activates a release in one  *)
(* step.  No code records a wheel any more, so a recorded release has none *)
(* to be rebuilt from.                                                     *)
(***************************************************************************)
EXTENDS Naturals

CONSTANTS
  Last,        \* versions are 1..Last
  Betas,       \* those that are prereleases
  MaxEvents,   \* bound on what operators, Composer and the host do
  Mishaps      \* what may go wrong, see below

(* Mishaps: "wipe", the runtime volume is recreated; "lost", a staged      *)
(* release disappears; "damage", the pointer becomes unreadable.           *)
ASSUME ReleaseStateAssumption == Last \in Nat \ {0} /\ MaxEvents \in Nat

Versions == 1..Last
None == 0            \* "" in a version field, no report, no request
Channels == {"stable", "beta"}
Processes == {"web", "celery"}

VARIABLES
  baked,      \* the image's release
  releases,   \* directories staged under releases/
  active,     \* state/active.json
  generation, \* state/generation
  procs,      \* per process: the release it runs, the generation it started at
  reconciled, \* celery's _RECONCILED_GENERATION, -1 until it has reconciled
  row,        \* DluxUpdateState
  policy,     \* state/channel-policy.json
  request,    \* a channel request nobody has acknowledged
  report,     \* Composer's availability report
  copy,       \* the state row and the report as a check has read them
  form,       \* the request web is serving, and the offer as it has read it
  missed,     \* history: no such request has seen the offer that it might refuse
  events      \* events so far

panel == <<form, missed>>
release == <<baked, releases, active, generation, procs, reconciled, row,
             policy, request, report, copy, panel, events>>

Pointer == [source : {"image", "volume", "missing", "unreadable"},
            version : Versions \cup {None}, generation : Nat]
StateRow == [baked : Versions, active : Versions, previous : Versions \cup {None},
             latest : Versions \cup {None}, compatible : BOOLEAN, degraded : BOOLEAN,
             generation : Nat, channel : Channels, skipped : SUBSET Versions]
Report == [version : Versions \cup {None}, safe : BOOLEAN]
NoReport == [version |-> None, safe |-> FALSE]
Fresh == [baked |-> 1, active |-> 1, previous |-> None, latest |-> None,
          compatible |-> FALSE, degraded |-> FALSE, generation |-> 0,
          channel |-> "stable", skipped |-> {}]
Asks == {"channel", "skip", "unskip"}
Offer == [active : Versions, latest : Versions \cup {None}, compatible : BOOLEAN,
          skipped : SUBSET Versions]
OfferOf(r) == [active |-> r.active, latest |-> r.latest, compatible |-> r.compatible,
               skipped |-> r.skipped]
Form == [step : {"none", "loaded", "saved"}, ask : Asks, channel : Channels,
         version : Versions, row : Offer]
NoForm == [step |-> "none", ask |-> "channel", channel |-> "stable",
           version |-> 1, row |-> OfferOf(Fresh)]
Idle == [taken |-> FALSE, row |-> Fresh, report |-> NoReport]
NoPointer == [source |-> "missing", version |-> None, generation |-> 0]
Never == Last * MaxEvents + 1   \* no generation is that large

(* resolve_release: a volume release runs only when it is newer.           *)
Resolve(image, pointer, staged) ==
  IF /\ pointer.source = "volume" /\ pointer.version \in staged
     /\ pointer.version > image
  THEN pointer.version ELSE image

Init ==
  /\ baked = 1 /\ releases = {} /\ active = NoPointer /\ generation = 0
  /\ procs = [p \in Processes |-> [runs |-> 1, started |-> 0]]
  /\ reconciled = Never
  /\ row = Fresh
  /\ policy = "missing" /\ request = "none" /\ report = NoReport
  /\ copy = Idle /\ form = NoForm /\ missed = FALSE /\ events = 0

Event == events < MaxEvents /\ events' = events + 1

-----------------------------------------------------------------------------
(* Processes.                                                              *)

Started(image, pointer, staged, gen) ==
  [runs |-> Resolve(image, pointer, staged), started |-> gen]

(* Mutant: the generation is taken to only grow.                           *)
MovedOn(p) == procs[p].started < generation

Moved(p) == procs[p].started # generation

(* A request that web was serving is never finished.                       *)
WebEnds == form' = NoForm /\ missed' = (missed \/ form.step = "saved")

(* The supervisor restarts its child when the generation moves.            *)
Supervise(p) ==
  /\ Moved(p)
  /\ procs' = [procs EXCEPT ![p] = Started(baked, active, releases, generation)]
  /\ reconciled' = IF p = "celery" THEN Never ELSE reconciled
  /\ copy' = IF p = "celery" THEN Idle ELSE copy
  /\ IF p = "web" THEN WebEnds ELSE UNCHANGED panel
  /\ UNCHANGED <<baked, releases, active, generation, row, policy, request, report, events>>

Restart(p) ==
  /\ Event
  /\ procs' = [procs EXCEPT ![p] = Started(baked, active, releases, generation)]
  /\ reconciled' = IF p = "celery" THEN Never ELSE reconciled
  /\ copy' = IF p = "celery" THEN Idle ELSE copy
  /\ IF p = "web" THEN WebEnds ELSE UNCHANGED panel
  /\ UNCHANGED <<baked, releases, active, generation, row, policy, request, report>>

(* dlux_reconcile, before celery starts in a new container.                *)
Repaired(image, pointer, staged, gen) ==
  IF /\ pointer.source = "volume" /\ pointer.version \in staged
     /\ ~(pointer.version > image)
  THEN [source |-> "image", version |-> image, generation |-> gen]
  ELSE pointer

(* The project's image is rebuilt, up or down, and the stack recreated.    *)
Rebuild(image) ==
  /\ Event
  /\ baked' = image
  /\ active' = Repaired(image, active, releases, generation)
  /\ procs' = [p \in Processes |-> Started(image, active', releases, generation)]
  /\ reconciled' = Never /\ copy' = Idle /\ WebEnds
  /\ UNCHANGED <<releases, generation, row, policy, request, report>>

Wipe ==
  /\ "wipe" \in Mishaps /\ Event
  /\ releases' = {} /\ active' = NoPointer /\ generation' = 0
  /\ policy' = "missing" /\ request' = "none" /\ report' = NoReport
  /\ procs' = [p \in Processes |-> Started(baked, NoPointer, {}, 0)]
  /\ reconciled' = Never /\ copy' = Idle /\ WebEnds
  /\ UNCHANGED <<baked, row>>

(* A staged release is gone, or the pointer spoilt, when the stack is next *)
(* started.                                                                *)
Lose(v) ==
  /\ \/ "lost" \in Mishaps /\ v \in releases /\ releases' = releases \ {v} /\ active' = active
     \/ /\ "damage" \in Mishaps /\ active.source # "missing"
        /\ active' = [active EXCEPT !.source = "unreadable"] /\ releases' = releases
  /\ Event
  /\ procs' = [p \in Processes |-> Started(baked, active', releases', generation)]
  /\ reconciled' = Never /\ copy' = Idle /\ WebEnds
  /\ UNCHANGED <<baked, generation, row, policy, request, report>>

-----------------------------------------------------------------------------
(* Composer, as this code sees it.                                         *)

(* Its operations take minutes; a supervisor polls every second, and has   *)
(* seen the generation of one operation before the next.  (It may go back: *)
(* a restored pointer takes the row's.)                                    *)
Polled == \A p \in Processes : procs[p].started = generation

Activate(v) ==
  /\ Event /\ Polled /\ v > Resolve(baked, active, releases)
  /\ releases' = releases \cup {v}
  /\ active' = [source |-> "volume", version |-> v, generation |-> generation + 1]
  /\ generation' = generation + 1
  /\ UNCHANGED <<baked, procs, reconciled, row, policy, request, report, copy, panel>>

Below(v, staged) == {w \in staged : w < v}
NewestOf(S) == CHOOSE v \in S : \A w \in S : w <= v

(* "the newest staged release below the active one, else the image's".     *)
ComposerTarget ==
  LET below == Below(Resolve(baked, active, releases), releases)
  IN IF below = {} THEN baked ELSE NewestOf(below)

Rollback ==
  /\ Polled /\ row.previous # None /\ ComposerTarget # Resolve(baked, active, releases)
  /\ Event
  /\ active' = [source |-> IF ComposerTarget \in releases THEN "volume" ELSE "image",
                version |-> ComposerTarget, generation |-> generation + 1]
  /\ generation' = generation + 1
  /\ UNCHANGED <<baked, releases, procs, reconciled, row, policy, request, report,
                 copy, panel>>

(* Composer resolves against the published policy and knows no skips.      *)
Check(v, safe) ==
  /\ Event /\ (v \in Betas => policy = "beta")
  /\ report' = [version |-> v, safe |-> safe]
  /\ UNCHANGED <<baked, releases, active, generation, procs, reconciled, row,
                 policy, request, copy, panel>>

(* composer dlux channel.                                                  *)
RequestChannel(c) ==
  /\ Event /\ request' = c
  /\ UNCHANGED <<baked, releases, active, generation, procs, reconciled, row,
                 policy, report, copy, panel>>

-----------------------------------------------------------------------------
(* The operator, in web, one request at a time: it loads the row, without  *)
(* a lock, judges what it has loaded and saves the columns that this asks  *)
(* it to change; the rest of the row may be newer by then.                 *)

RowOnly == UNCHANGED <<baked, releases, active, generation, procs, reconciled,
                       policy, request, report, copy>>

Load(asked) ==
  /\ Event /\ form.step = "none"
  /\ form' = [asked EXCEPT !.step = "loaded", !.row = OfferOf(row)]
  /\ UNCHANGED <<row, missed>> /\ RowOnly

SetChannel(c) == row.channel # c /\ Load([NoForm EXCEPT !.ask = "channel", !.channel = c])
Skip(v) ==
  (v \in row.skipped => row.latest = v) /\ Load([NoForm EXCEPT !.ask = "skip", !.version = v])
Unskip(v) == v \in row.skipped /\ Load([NoForm EXCEPT !.ask = "unskip", !.version = v])

Save(ask, saved, next) ==
  /\ form.step = "loaded" /\ form.ask = ask
  /\ row' = saved /\ form' = next
  /\ UNCHANGED <<missed, events>> /\ RowOnly

Refused(version, c) == version \in Betas /\ c # "beta"

(* set_update_channel saves the choice ...                                 *)
SaveChannel ==
  Save("channel", [row EXCEPT !.channel = form.channel],
       IF Refused(form.row.latest, form.channel) THEN [form EXCEPT !.step = "saved"] ELSE NoForm)

(* ... and _invalidate_stale_offer drops the offer that it has loaded.     *)
DropOffer ==
  /\ form.step = "saved"
  /\ row' = [row EXCEPT !.latest = form.row.active, !.compatible = FALSE]
  /\ form' = NoForm
  /\ UNCHANGED <<missed, events>> /\ RowOnly

(* set_version_skipped saves what differs from the row that it has loaded. *)
SaveSkip ==
  LET old == form.row
      offered == old.latest = form.version
  IN Save("skip",
       [row EXCEPT !.skipped = IF form.version \in old.skipped THEN @
                               ELSE old.skipped \cup {form.version},
                   !.latest = IF offered /\ old.latest # old.active THEN old.active ELSE @,
                   !.compatible = @ /\ ~(offered /\ old.compatible)],
       NoForm)

SaveUnskip ==
  Save("unskip", [row EXCEPT !.skipped = form.row.skipped \ {form.version}], NoForm)

-----------------------------------------------------------------------------
(* The tick, in celery: one at a time, its steps in this order.            *)

Ticking == ~copy.taken

(* Mutant: only a change of the image is watched for.                      *)
DueOnRebuild == reconciled = Never \/ row.baked # baked

(* reconcile_state_if_due.                                                 *)
Due == reconciled = Never \/ row.baked # baked \/ generation # reconciled

ImagePointer(gen) == [source |-> "image", version |-> baked, generation |-> gen]

(* read_active: what the volume says is active, or that it is unreadable.  *)
ReadActive(pointer, gen) ==
  IF pointer.source = "missing" THEN ImagePointer(gen)
  ELSE IF pointer.source = "image"
    THEN ImagePointer(IF pointer.generation = 0 THEN gen ELSE pointer.generation)
  ELSE IF pointer.source = "volume" /\ pointer.version \in releases
    THEN [pointer EXCEPT !.generation = IF @ = 0 THEN gen ELSE @]
  ELSE [NoPointer EXCEPT !.source = "unreadable"]

(* _reset_to_baked_image.                                                  *)
ResetRow(r, gen) ==
  [r EXCEPT !.active = baked, !.previous = None, !.latest = None,
            !.compatible = FALSE, !.generation = gen, !.degraded = FALSE]

(* The first half of reconcile: which release is to be active.  "written"  *)
(* is the pointer file, "gen" the generation file, "read" what read_active *)
(* then says, "restored" that a recorded release was given up or restored. *)
Superseded ==
  LET read == ReadActive(active, generation)
      here == [row EXCEPT !.baked = baked]
      same == [row |-> here, written |-> active, gen |-> generation,
               read |-> read, restored |-> FALSE]
  IN IF read.source = "volume" /\ baked > read.version
     THEN [same EXCEPT !.row = ResetRow(here, generation + 1),
             !.written = ImagePointer(generation + 1), !.gen = generation + 1,
             !.read = ImagePointer(generation + 1)]
     ELSE IF read.source = "image" /\ baked > row.active
     THEN [same EXCEPT !.row = ResetRow(here, generation),
             !.written = ImagePointer(generation), !.read = ImagePointer(generation)]
     ELSE same

Recovered ==
  LET s == Superseded
      wanting == \/ s.read.source = "unreadable"
                 \/ s.written.source = "missing" /\ s.row.active # baked
  IN IF ~wanting THEN s
     ELSE IF s.row.active # baked /\ s.row.active \notin releases
     THEN [s EXCEPT !.row = ResetRow(s.row, s.gen + 1), !.written = ImagePointer(s.gen + 1),
             !.gen = s.gen + 1, !.read = ImagePointer(s.gen + 1), !.restored = TRUE]
     ELSE IF s.row.active = baked
     THEN [s EXCEPT !.written = ImagePointer(s.row.generation), !.gen = s.row.generation,
             !.read = ImagePointer(s.row.generation), !.restored = TRUE]
     ELSE [s EXCEPT !.row.degraded = TRUE, !.read.source = "unreadable"]

(* _volume_rollback_target.                                                *)
RollbackTarget(version) ==
  LET below == Below(version, releases)
  IN IF below # {} THEN (IF baked > NewestOf(below) THEN None ELSE NewestOf(below))
     ELSE IF baked # version THEN baked ELSE None

StoodDown(r) ==
  IF r.latest # None /\ ~(r.latest > r.active) THEN [r EXCEPT !.compatible = FALSE] ELSE r

(* The second half: the files and the row follow what was read.            *)
Reconcile ==
  LET s == Recovered
      served == s.read.source # "unreadable"
      healthy == s.restored \/ (s.read.source = "image" /\ s.read.version = baked)
      r == IF served
           THEN [s.row EXCEPT !.active = s.read.version, !.generation = s.read.generation,
                   !.degraded = @ /\ ~healthy]
           ELSE s.row
  IN /\ Ticking /\ Due
     /\ generation' = IF served THEN s.read.generation ELSE s.gen
     /\ active' = IF served /\ s.read.source = "image" /\ s.written.source # "missing"
                     /\ s.written.version # baked
                  THEN ImagePointer(s.read.generation) ELSE s.written
     /\ row' = StoodDown([r EXCEPT !.previous = RollbackTarget(r.active)])
     /\ reconciled' = generation'
     /\ UNCHANGED <<baked, releases, procs, policy, request, report, copy,
                    panel, events>>

(* A channel chosen on the host: the tick saves it and drops the offer.    *)
Dropped(r) == [r EXCEPT !.latest = r.active, !.compatible = FALSE]
Rechannelled(r, c) ==
  [IF r.channel # c /\ Refused(r.latest, c) THEN Dropped(r) ELSE r EXCEPT !.channel = c]

(* read_policy: without a file the channel is stable.                      *)
Published == IF policy = "missing" THEN "stable" ELSE policy

(* reconcile_channel_policy: a request first, else the column.             *)
ReconcileChannel ==
  /\ Ticking
  /\ IF request # "none"
     THEN row' = Rechannelled(row, request) /\ policy' = request /\ request' = "none"
     ELSE Published # row.channel /\ policy' = row.channel /\ UNCHANGED <<row, request>>
  /\ UNCHANGED <<baked, releases, active, generation, procs, reconciled, report, copy,
                 panel, events>>

(* _finish_check_from_report: it loads the row, reads the report ...       *)
LoadCheck ==
  /\ Ticking /\ copy' = [taken |-> TRUE, row |-> row, report |-> report]
  /\ UNCHANGED <<baked, releases, active, generation, procs, reconciled, row,
                 policy, request, report, panel, events>>

(* Mutant: the report is trusted, skips and channel are not looked at.     *)
AdmitsSafe(r, found) == found.version > r.active /\ found.safe

Admits(r, found) ==
  /\ found.version > r.active /\ found.safe
  /\ found.version \notin r.skipped
  /\ (found.version \in Betas => r.channel = "beta")

(* ... and saves the whole row, the operator's fields as it loaded them.   *)
SaveCheck ==
  /\ ~Ticking
  /\ row' = IF copy.report = NoReport THEN [copy.row EXCEPT !.compatible = FALSE]
            ELSE [copy.row EXCEPT !.latest = copy.report.version,
                    !.compatible = Admits(copy.row, copy.report)]
  /\ copy' = Idle /\ missed' = (form.step # "none")
  /\ UNCHANGED <<baked, releases, active, generation, procs, reconciled, policy,
                 request, report, form, events>>

-----------------------------------------------------------------------------
Tick == Reconcile \/ ReconcileChannel \/ LoadCheck \/ SaveCheck
Serve == SaveChannel \/ DropOffer \/ SaveSkip \/ SaveUnskip
Choose ==
  \/ \E c \in Channels : RequestChannel(c) \/ SetChannel(c)
  \/ \E v \in Versions \ {1} : Skip(v) \/ Unskip(v)   \* 1 is newer than none
Next ==
  \/ \E p \in Processes : Supervise(p) \/ Restart(p)
  \/ \E v \in Versions : Rebuild(v) \/ Lose(v) \/ Activate(v)
                         \/ \E safe \in BOOLEAN : Check(v, safe)
  \/ Wipe \/ Rollback \/ Choose \/ Serve \/ Tick

Spec == Init /\ [][Next]_release

(* Every poll of the supervisor looks at the generation, and every tick    *)
(* starts with reconcile and the channel, whatever the tick before did.    *)
FairSpec ==
  /\ Spec
  /\ \A p \in Processes : WF_release(Supervise(p))
  /\ SF_release(Reconcile) /\ SF_release(ReconcileChannel) /\ WF_release(SaveCheck)

-----------------------------------------------------------------------------
ReleaseTypeOK ==
  /\ baked \in Versions /\ releases \subseteq Versions
  /\ active \in Pointer /\ (active.version = None <=> active.source = "missing")
  /\ generation \in Nat
  /\ procs \in [Processes -> [runs : Versions, started : Nat]]
  /\ reconciled \in Nat /\ row \in StateRow
  /\ policy \in Channels \cup {"missing"} /\ request \in Channels \cup {"none"}
  /\ report \in Report /\ copy \in [taken : BOOLEAN, row : StateRow, report : Report]
  /\ form \in Form /\ missed \in BOOLEAN
  /\ events \in 0..MaxEvents

(* "Drop it rather than let an opt-out leave a prerelease sitting in the   *)
(* Apply button" (updater/service.py): it holds only what every rule admits *)
(* now, newer than what is installed, not skipped, no prerelease off the   *)
(* beta channel; through rebuilds, rollbacks, a lost volume and a check    *)
(* that saves a stale row.  Not so while a request has saved the channel   *)
(* and not yet dropped the offer, or when the offer was saved while one    *)
(* was at work, which then judges the row without it.                      *)
OfferIsAdmitted ==
  row.compatible /\ ~missed /\ form.step # "saved" =>
    /\ row.latest > row.active /\ row.latest \notin row.skipped
    /\ ~Refused(row.latest, row.channel)

(* "exactly how Composer picks its rollback target.  A target below the    *)
(* baked version is not offered" (docs/inline-updater.md): once reconciled *)
(* with the volume, the button names what a rollback would bring back, and *)
(* nothing the next reconcile would undo.                                  *)
RollbackIsWhatIsOffered ==
  ~Due /\ row.previous # None /\ ~row.degraded =>
    row.previous = ComposerTarget /\ row.previous >= baked

(* When operators, Composer and the host leave it alone, the deployment    *)
(* converges: nothing restarts for ever, every process runs the release    *)
(* the row reports or the row says it is degraded, and the published       *)
(* channel is the chosen one.                                              *)
Converges ==
  <>[](/\ \A p \in Processes : procs[p].started = generation
       /\ row.degraded \/ \A p \in Processes : procs[p].runs = row.active
       /\ Published = row.channel)
=============================================================================
