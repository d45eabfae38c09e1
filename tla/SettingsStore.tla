---------------------------- MODULE SettingsStore ----------------------------
(***************************************************************************)
(* The SystemSettings row, its copy in the shared cache, and the web       *)
(* requests that read and write both (SingletonModel.load and save in      *)
(* dlux/models/base.py, SystemSettings.save in models/settings.py, the     *)
(* views and helpers that call them).                                      *)
(*                                                                         *)
(* Five settings stand for the rest: the home page, stored twice (in       *)
(* homepage_config and in the older fields), the mail server and its       *)
(* password (in the database), over which of both a test mail went out,    *)
(* the logo and extra_config.                                              *)
(***************************************************************************)
EXTENDS Naturals, SequencesExt

CONSTANTS
  MaxProcesses, \* how many web processes there are
  MaxRequests   \* bound on requests

Requests == 1..MaxProcesses     \* the first one that is free serves a request
Nobody == 0
Values == {1, 2}
NoLogo == 0
Unverified == <<0, 0>>
Settings == [home : Values, legacy : Values, conn : Values, secret : Values,
             verified : (Values \X Values) \cup {Unverified},
             logo : Values \cup {NoLogo}, extra : Values]
Missing == [home |-> 0]     \* nothing in the cache

(* The requests: a settings form, an import of a file that knows only the  *)
(* older fields, the ScanLink switch; the mail step, the test mail and its *)
(* outcome; an app's configuration, a reviewed import and its revert.      *)
Whole == {"form", "import", "scanlink"}
Partial == {"email", "record"}
Locking == {"app", "apply", "revert"}
Kinds == Whole \cup Partial \cup Locking \cup {"test", "read"}
Export == [home : Values, legacy : Values, conn : Values,
           logo : Values \cup {NoLogo}, extra : Values]
Job == [kind : Kinds, value : Values, at : {"off", "load", "fill", "act", "saved", "lock", "locked", "commit"},
        held : Settings]

VARIABLES
  row,        \* the row of SystemSettings
  cached,     \* the cache's copy
  jobs,       \* the request each process serves, and the instance it holds
  lock,       \* who holds the row's lock
  snapshots,  \* SystemSettingsSnapshot rows not reverted, oldest first
  started,    \* requests so far
  wanted,     \* what the requests asked for, one after the other
  replaced,   \* what was wanted before each import not reverted
  tested,     \* connections over which a test mail went out
  disturbed   \* two requests overlapped, or one was killed

account == <<wanted, replaced, tested, disturbed>>
store == <<row, cached, jobs, lock, snapshots, started, account>>

Default == [home |-> 1, legacy |-> 1, conn |-> 1, secret |-> 1, verified |-> Unverified,
            logo |-> NoLogo, extra |-> 1]
Off == [kind |-> "read", value |-> 1, at |-> "off", held |-> Default]

Init ==
  /\ row = Default /\ cached = Missing /\ wanted = Default
  /\ jobs = [r \in Requests |-> Off] /\ lock = Nobody
  /\ snapshots = <<>> /\ replaced = <<>> /\ started = 0 /\ tested = {} /\ disturbed = FALSE

Active(r) == jobs[r].at # "off"
At(r, at) == jobs[r].at = at
Step(r, at, held) == jobs' = [jobs EXCEPT ![r].at = at, ![r].held = held]

(* From here on nobody keeps account.                                      *)
Disturb == disturbed' = TRUE /\ wanted' = Default /\ replaced' = <<>> /\ tested' = {}
Account(settings) == wanted' = IF disturbed THEN Default ELSE settings

-----------------------------------------------------------------------------
(* What a request does to the instance it holds, and what it was asked for. *)

Connection(s) == <<s.conn, s.secret>>

(* The mail step saves a server and its password; verified is for both.    *)
WithMail(s, v) ==
  [s EXCEPT !.conn = v, !.secret = v, !.verified = IF @ = <<v, v>> THEN @ ELSE Unverified]

(* apply_system_settings_import of a snapshot: the export names no secret, *)
(* so the current one stays, no verified connection, and an image only     *)
(* where there is one.                                                     *)
Restored(s, export) ==
  [s EXCEPT !.home = export.home, !.legacy = export.legacy, !.conn = export.conn,
            !.verified = Unverified, !.logo = IF export.logo = NoLogo THEN @ ELSE export.logo,
            !.extra = export.extra]

Edited(job) ==
  LET s == job.held
  IN CASE job.kind = "form"     -> [s EXCEPT !.home = job.value]
       [] job.kind = "apply"    -> [s EXCEPT !.home = job.value, !.logo = job.value]
       [] job.kind = "import"   -> [s EXCEPT !.legacy = job.value]
       [] job.kind \in {"scanlink", "app"} -> [s EXCEPT !.extra = job.value]
       [] job.kind = "email"    -> WithMail(s, job.value)
       [] job.kind = "record"   ->
            [s EXCEPT !.verified = IF job.value = 1 THEN Connection(s) ELSE Unverified]
       [] OTHER -> Restored(s, Last(snapshots))     \* "revert"

(* A revert is for what was wanted before its import, but for the secret,  *)
(* what was verified, and a logo where there was none.                     *)
Reverted(before) ==
  [before EXCEPT !.secret = wanted.secret, !.verified = Unverified,
                 !.logo = IF @ = NoLogo THEN wanted.logo ELSE @]

Asked(job) ==
  LET s == Edited([job EXCEPT !.held = wanted])
  IN IF job.kind = "revert" THEN Reverted(Last(replaced))
     ELSE IF job.kind = "import" THEN [s EXCEPT !.home = job.value]
     ELSE [s EXCEPT !.legacy = s.home]

(* Mutant: the newer field always wins.                                    *)
NewerHome(held) == held.home

(* _sync_compat_configs: which of the two was changed.                     *)
ChosenHome(held) ==
  IF held.home # row.home \/ held.legacy = row.legacy THEN held.home ELSE held.legacy

(* save() keeps the pair in step, in the instance; update_fields says what *)
(* of it is written.                                                       *)
Synced(job) ==
  LET home == ChosenHome(Edited(job))
  IN [Edited(job) EXCEPT !.home = home, !.legacy = home]

Written(s, kind) ==
  CASE kind \in Partial ->
         [row EXCEPT !.conn = s.conn, !.secret = s.secret, !.verified = s.verified]
    [] kind = "app" -> [row EXCEPT !.extra = s.extra]
    [] OTHER -> s

-----------------------------------------------------------------------------
Start(r, kind, value) ==
  /\ ~Active(r) /\ \A q \in Requests : q < r => Active(q)
  /\ started < MaxRequests /\ started' = started + 1
  /\ kind = "read" => value = 1
  /\ kind = "revert" => snapshots # <<>> /\ value = 1
  /\ jobs' = [jobs EXCEPT ![r] = [kind |-> kind, value |-> value, held |-> Default,
                                  at |-> IF kind \in Locking THEN "lock" ELSE "load"]]
  /\ IF \E q \in Requests : Active(q) THEN Disturb ELSE UNCHANGED account
  /\ UNCHANGED <<row, cached, lock, snapshots>>

(* load(): from the cache, or from the row and then into the cache.        *)
Load(r) ==
  /\ At(r, "load")
  /\ IF cached # Missing THEN Step(r, "act", cached) ELSE Step(r, "fill", row)
  /\ UNCHANGED <<row, cached, lock, snapshots, started, account>>

Fill(r) ==
  /\ At(r, "fill") /\ cached' = jobs[r].held /\ Step(r, "act", jobs[r].held)
  /\ UNCHANGED <<row, lock, snapshots, started, account>>

Answered(r) ==
  /\ At(r, "act") /\ jobs[r].kind = "read" /\ jobs' = [jobs EXCEPT ![r] = Off]
  /\ UNCHANGED <<row, cached, lock, snapshots, started, account>>

(* email_send_test_view: the mail goes out, then its outcome is recorded   *)
(* on the settings as they are loaded by then.                             *)
SendTest(r) ==
  /\ At(r, "act") /\ jobs[r].kind = "test"
  /\ tested' = IF jobs[r].value = 1 /\ ~disturbed THEN tested \cup {Connection(jobs[r].held)} ELSE tested
  /\ jobs' = [jobs EXCEPT ![r].kind = "record", ![r].at = "load"]
  /\ UNCHANGED <<row, cached, lock, snapshots, started, wanted, replaced, disturbed>>

(* An unlocked save waits only for the row's lock.                         *)
Save(r) ==
  /\ At(r, "act") /\ jobs[r].kind \in Whole \cup Partial /\ lock = Nobody
  /\ row' = Written(Synced(jobs[r]), jobs[r].kind)
  /\ Account(Asked(jobs[r]))
  /\ Step(r, "saved", Synced(jobs[r]))
  /\ UNCHANGED <<cached, lock, snapshots, started, replaced, tested, disturbed>>

(* refresh_cache(): the instance, with whatever else it holds.             *)
Refresh(r) ==
  /\ At(r, "saved") /\ cached' = jobs[r].held
  /\ jobs' = [jobs EXCEPT ![r] = Off]
  /\ UNCHANGED <<row, lock, snapshots, started, account>>

(* write_app_system_configs, settings_import_apply_view and _revert_view:  *)
(* one transaction under the row's lock, whose save refreshes the cache    *)
(* before the commit.                                                      *)
Lock(r) ==
  /\ At(r, "lock") /\ lock = Nobody /\ lock' = r
  /\ jobs[r].kind = "revert" => snapshots # <<>>
  /\ Step(r, "locked", row)
  /\ UNCHANGED <<row, cached, snapshots, started, account>>

NothingToRevert(r) ==
  /\ At(r, "lock") /\ jobs[r].kind = "revert" /\ lock = Nobody /\ snapshots = <<>>
  /\ jobs' = [jobs EXCEPT ![r] = Off]
  /\ UNCHANGED <<row, cached, lock, snapshots, started, account>>

SaveLocked(r) ==
  /\ At(r, "locked")
  /\ cached' = Synced(jobs[r])
  /\ Step(r, "commit", Synced(jobs[r]))
  /\ UNCHANGED <<row, lock, snapshots, started, account>>

(* The export's payload: neither secret nor verified connection.           *)
Exported(s) == [home |-> s.home, legacy |-> s.legacy, conn |-> s.conn, logo |-> s.logo,
                extra |-> s.extra]
Taken == Exported(row)

Commit(r) ==
  LET job == jobs[r]
  IN /\ At(r, "commit") /\ lock' = Nobody
     /\ row' = Written(job.held, job.kind)
     /\ Account(Asked(job))
     /\ snapshots' = CASE job.kind = "apply" -> Append(snapshots, Taken)
                       [] job.kind = "revert" -> Front(snapshots)
                       [] OTHER -> snapshots
     /\ replaced' = IF disturbed THEN <<>>
                    ELSE CASE job.kind = "apply" -> Append(replaced, wanted)
                           [] job.kind = "revert" -> Front(replaced)
                           [] OTHER -> replaced
     /\ jobs' = [jobs EXCEPT ![r] = Off]
     /\ UNCHANGED <<cached, started, tested, disturbed>>

(* The process is killed; an open transaction is rolled back.              *)
Die(r) ==
  /\ Active(r) /\ jobs' = [jobs EXCEPT ![r] = Off]
  /\ lock' = IF lock = r THEN Nobody ELSE lock
  /\ Disturb
  /\ UNCHANGED <<row, cached, snapshots, started>>

(* After 24 hours, or when the cache is emptied.                           *)
Expire ==
  /\ cached # Missing /\ cached' = Missing
  /\ UNCHANGED <<row, jobs, lock, snapshots, started, account>>

Proceed(r) ==
  \/ Load(r) \/ Fill(r) \/ Answered(r) \/ SendTest(r) \/ Save(r) \/ Refresh(r)
  \/ Lock(r) \/ NothingToRevert(r) \/ SaveLocked(r) \/ Commit(r)
Serving == \E r \in Requests : Proceed(r)
Next ==
  \/ \E r \in Requests :
       Die(r) \/ \E kind \in Kinds \ {"record"}, value \in Values : Start(r, kind, value)
  \/ Serving \/ Expire

Spec == Init /\ [][Next]_store

-----------------------------------------------------------------------------
StoreTypeOK ==
  /\ row \in Settings /\ cached \in Settings \cup {Missing} /\ wanted \in Settings
  /\ jobs \in [Requests -> Job] /\ lock \in Requests \cup {Nobody}
  /\ snapshots \in Seq(Export) /\ Len(snapshots) <= MaxRequests
  /\ replaced \in Seq(Settings)
  /\ started \in 0..MaxRequests /\ tested \subseteq Values \X Values /\ disturbed \in BOOLEAN

(* However requests interleave and die, a reader of the older fields and   *)
(* one of homepage_config see the same home page, in the row and in the    *)
(* cache.  And while requests come one at a time, every one of them finds  *)
(* its change in the row and in the cache beside those of all the others,  *)
(* a revert brings back what was there before its import (but a secret,    *)
(* and the absence of an image, are not in what it restores), and nothing  *)
(* is called verified that was not tested, password included.              *)
InStep(s) == s = Missing \/ s.home = s.legacy
SavesStick ==
  /\ InStep(row) /\ InStep(cached)
  /\ ~disturbed /\ (\A r \in Requests : ~Active(r)) =>
       row = wanted /\ cached \in {Missing, row} /\ row.verified \in tested \cup {Unverified}

(* Interleaved saves, killed processes and rolled-back imports leave the   *)
(* cache with settings that are not the row's: not for ever.               *)
InCache == cached \in {Missing, row}
=============================================================================
