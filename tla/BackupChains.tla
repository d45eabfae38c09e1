---------------------------- MODULE BackupChains ----------------------------
(***************************************************************************)
(* Incremental backup chains: which member an increment continues, what it *)
(* stores, how a chain is closed, rotated and deleted, and what restoring a *)
(* file brings back (dlux/backup/chain.py, create.py, restore.py,          *)
(* dispatch.py, views/backup.py).                                          *)
(*                                                                         *)
(* The data are rows, by primary key, with a version each.  An index is    *)
(* the data it describes, so that two indexes have one root exactly when   *)
(* they describe the same data.  Every model has a unique column, and a    *)
(* version is the value a row has in it.  Which process runs a row, retries *)
(* heartbeats are the concern of SystemBackups: here an attempt fails, is  *)
(* repeated or is killed.  Media are not modelled.                         *)
(***************************************************************************)
EXTENDS Naturals, FiniteSetsExt, Functions

CONSTANTS
  Keys,        \* primary keys
  Versions,    \* contents a row may have
  MaxMembers,  \* bound on SystemBackup rows
  MaxFiles,    \* bound on archives at a time
  MaxSchema,   \* bound on migrations applied
  MaxLength,   \* the policy's max_chain_length
  MaxKept,     \* the policy's max_backups_to_keep, 0 for no limit
  Hazards      \* what may happen, see below

ASSUME BackupChainsAssumption ==
  /\ {MaxMembers, MaxFiles, MaxSchema, MaxLength, MaxKept} \subseteq Nat
  /\ 0 \notin Versions
  /\ Hazards \subseteq
       {"overlap",  \* a backup, a Resume or a delete starts during another
        "crash",    \* a runner is killed
        "error",    \* a build raises
        "cut",      \* whoever deletes is killed, or storage refuses, in between
        "upload"}   \* a downloaded archive is uploaded again

Members == 1..MaxMembers      \* in creation order
FileIds == 1..MaxFiles
Nothing == 0                  \* no member, no file; an absent row

VARIABLES
  data,      \* the live rows
  schema,    \* migrations applied
  rows,      \* SystemBackup rows
  files,     \* the .dlb files that were stored by a runner
  sidecars,  \* those of them whose .idx is there
  uploads,   \* copies that were downloaded and uploaded again
  build,     \* per row: how far its runner is, and the parent's index it read
  doomed     \* per deleter: the rows it still has to delete

chains == <<data, schema, rows, files, sidecars, uploads, build, doomed>>

Index == [Keys -> Versions \cup {Nothing}]
Unique(now) == \A k, j \in Keys : now[k] = now[j] /\ now[k] # Nothing => k = j
Empty == [k \in Keys |-> Nothing]

Statuses == {"none", "pending", "running", "completed", "failed", "gone"}
Scopes == {"site", "other"}   \* what a scheduled backup takes, anything else
Row == [status : Statuses, scope : Scopes, increment : BOOLEAN,
        parent : Members \cup {Nothing}, chain : Members \cup {Nothing},
        seq : Nat, file : FileIds \cup {Nothing}, root : Index, schema : Nat,
        done : Nat,                \* completed_at, by order
        before : SUBSET Members]   \* created_at: the rows completed by then
NoRow == [status |-> "none", scope |-> "site", increment |-> FALSE,
          parent |-> Nothing, chain |-> Nothing, seq |-> 0, file |-> Nothing,
          root |-> Empty, schema |-> 0, done |-> 0, before |-> {}]

(* The cleartext header of a .dlb, and its members data/ and deleted/.     *)
File == [chain : Members, seq : Nat, root : Index, parentRoot : Index,
         schema : Nat, changed : Index, deleted : SUBSET Keys]

Steps == {"off", "started", "stored", "retain"}
Build == [at : Steps, previous : Index, chain : Members \cup {Nothing}, seq : Nat,
          parentRoot : Index, file : FileIds \cup {Nothing}]
Off == [at |-> "off", previous |-> Empty, chain |-> Nothing, seq |-> 0,
        parentRoot |-> Empty, file |-> Nothing]

Operator == 0
Deleters == Members \cup {Operator}

Completed == {m \in Members : rows[m].status = "completed"}
Active == {m \in Members : rows[m].status \in {"pending", "running"}}

Init ==
  /\ data \in {now \in Index : Unique(now)}
  /\ schema = 0
  /\ rows = [m \in Members |-> NoRow]
  /\ files = << >>
  /\ sidecars = {}
  /\ uploads = << >>
  /\ build = [m \in Members |-> Off]
  /\ doomed = [d \in Deleters |-> {}]

-----------------------------------------------------------------------------
(* The site: its rows change, and a release may bring migrations.          *)

Edit(k, v) ==
  /\ data[k] # v
  /\ data' = [data EXCEPT ![k] = v]
  /\ Unique(data')
  /\ UNCHANGED <<schema, rows, files, sidecars, uploads, build, doomed>>

Migrate ==
  /\ schema < MaxSchema
  /\ schema' = schema + 1
  /\ UNCHANGED <<data, rows, files, sidecars, uploads, build, doomed>>

-----------------------------------------------------------------------------
(* open_chain_head.                                                        *)

(* order_by("-completed_at").                                              *)
Newest(S) == {m \in S : \A n \in S : rows[n].done <= rows[m].done}

HasLater(m) ==
  \E n \in Completed : rows[n].chain = rows[m].chain /\ rows[n].seq > rows[m].seq

(* _chain_head_reason; whether the base is too old is left open.           *)
Continuable(m) ==
  /\ rows[m].chain \in Completed
  /\ rows[m].seq < MaxLength
  /\ rows[m].schema = schema
  /\ rows[m].file \in sidecars

(* Automatic is the newest completed member, and none when that one is     *)
(* closed; the operator may instead pick the last member of any chain.     *)
AutomaticHead(scopes) ==
  {m \in Newest({n \in Completed : rows[n].scope \in scopes}) : Continuable(m)}

(* Mutant: an earlier member of a chain may be picked.                     *)
PickedAny == {m \in Completed : Continuable(m)}

PickedHead == {m \in Completed : ~HasLater(m) /\ Continuable(m)}

-----------------------------------------------------------------------------
(* Creation, under the settings lock.                                      *)

Unused(m) == rows[m].status = "none" /\ \A n \in Members : n < m => rows[n].status # "none"
At(m, step) == build[m].at = step

Idle ==
  /\ Active = {}
  /\ \A m \in Members : At(m, "off")
  /\ \A d \in Deleters : doomed[d] = {}
Alone == Idle \/ "overlap" \in Hazards

Add(m, row) ==
  /\ Unused(m)
  /\ rows' = [rows EXCEPT ![m] = row]
  /\ UNCHANGED <<data, schema, files, sidecars, uploads, build, doomed>>

NewFull(scope) ==
  [NoRow EXCEPT !.status = "pending", !.scope = scope, !.before = Completed]
NewIncrement(head) ==
  [NewFull(rows[head].scope) EXCEPT !.increment = TRUE, !.parent = head]

(* The create form refuses while any backup is pending or running.         *)
CreateManual(m) ==
  /\ Active = {} /\ Alone
  /\ \/ \E scope \in Scopes : Add(m, NewFull(scope))
     \/ \E head \in AutomaticHead(Scopes) \cup PickedHead : Add(m, NewIncrement(head))

(* The scheduler and the updater do not look at backups of other triggers. *)
CreateScheduled(m) ==
  /\ Alone
  /\ \/ \E head \in AutomaticHead({"site"}) : Add(m, NewIncrement(head))
     \/ Add(m, NewFull("site"))

-----------------------------------------------------------------------------
(* run_system_backup, as far as chains go.                                 *)

ParentUsable(p) ==
  /\ p \in Completed
  /\ rows[p].schema = schema
  /\ rows[p].file \in sidecars

SeqAfter(p) == rows[p].seq + 1

(* _chain_start: the parent's chain, sequence and index are read here.     *)
Start(m) ==
  LET p == rows[m].parent
  IN /\ rows[m].status = "pending" /\ At(m, "off")
     /\ rows[m].increment => ParentUsable(p)
     /\ rows' = [rows EXCEPT ![m].status = "running"]
     /\ build' = [build EXCEPT ![m] =
          IF rows[m].increment
          THEN [Off EXCEPT !.at = "started", !.previous = rows[p].root,
                  !.chain = rows[p].chain, !.seq = SeqAfter(p),
                  !.parentRoot = rows[p].root]
          ELSE [Off EXCEPT !.at = "started", !.chain = m]]
     /\ UNCHANGED <<data, schema, files, sidecars, uploads, doomed>>

(* resume_system_backup: a failed (or cancelled) row is to run once more,  *)
(* against the parent it was given, whatever continued that since.         *)
Resume(m) ==
  /\ rows[m].status = "failed" /\ Alone
  /\ rows' = [rows EXCEPT ![m].status = "pending"]
  /\ UNCHANGED <<data, schema, files, sidecars, uploads, build, doomed>>

(* ChainUnavailable, which is not retried.                                 *)
Refuse(m) ==
  /\ rows[m].status = "pending" /\ At(m, "off")
  /\ rows[m].increment /\ ~ParentUsable(rows[m].parent)
  /\ rows' = [rows EXCEPT ![m].status = "failed"]
  /\ UNCHANGED <<data, schema, files, sidecars, uploads, build, doomed>>

Gone(previous, now) == {k \in Keys : previous[k] # Nothing /\ now[k] = Nothing}

(* observe(): the rows whose digest is not the parent's.                   *)
Changed(previous, now) ==
  [k \in Keys |-> IF now[k] = previous[k] THEN Nothing ELSE now[k]]

With(function, f, value) ==
  [g \in DOMAIN function \cup {f} |-> IF g = f THEN value ELSE function[g]]
Without(function, f) == Restrict(function, DOMAIN function \ {f})

NewFile ==
  LET used == DOMAIN files \cup DOMAIN uploads \cup sidecars \cup {rows[m].file : m \in Members}
  IN {f \in FileIds \ used : \A g \in FileIds \ used : f <= g}

(* write_system_backup reads one snapshot of the data; the archive and its *)
(* sidecar are then stored under names no other file has.                  *)
Write(m) ==
  /\ At(m, "started")
  /\ \E f \in NewFile :
       /\ files' = With(files, f,
            [chain |-> build[m].chain, seq |-> build[m].seq, root |-> data,
             parentRoot |-> build[m].parentRoot, schema |-> schema,
             changed |-> Changed(build[m].previous, data),
             deleted |-> Gone(build[m].previous, data)])
       /\ sidecars' = sidecars \cup {f}
       /\ build' = [build EXCEPT ![m].at = "stored", ![m].file = f]
  /\ UNCHANGED <<data, schema, rows, uploads, doomed>>

(* The completing update, then release_parent_links.                       *)
Complete(m) ==
  LET f == build[m].file
      later == 1 + Max({0} \cup {rows[n].done : n \in Members})
  IN /\ At(m, "stored") /\ rows[m].status = "running"
     /\ rows' = [n \in Members |->
          IF n = m THEN [rows[m] EXCEPT !.status = "completed", !.parent = Nothing,
                           !.chain = files[f].chain, !.seq = files[f].seq,
                           !.file = f, !.root = files[f].root,
                           !.schema = files[f].schema, !.done = later]
          ELSE IF n \in Completed THEN [rows[n] EXCEPT !.parent = Nothing]
          ELSE rows[n]]
     /\ build' = [build EXCEPT ![m] = [Off EXCEPT !.at = "retain"]]
     /\ UNCHANGED <<data, schema, files, sidecars, uploads, doomed>>

(* The build raises: its file is discarded, the row retried or failed.     *)
Fail(m) ==
  /\ "error" \in Hazards /\ build[m].at \in {"started", "stored"}
  /\ files' = Without(files, build[m].file)
  /\ sidecars' = sidecars \ {build[m].file}
  /\ \E next \in {"pending", "failed"} : rows' = [rows EXCEPT ![m].status = next]
  /\ build' = [build EXCEPT ![m] = Off]
  /\ UNCHANGED <<data, schema, uploads, doomed>>

(* The runner is killed; the sweep later retries or fails the row, and the *)
(* archive it had stored stays behind.                                     *)
Crash(m) ==
  /\ "crash" \in Hazards /\ ~At(m, "off")
  /\ \E next \in {"pending", "failed"} :
       rows' = [rows EXCEPT ![m].status = IF @ = "running" THEN next ELSE @]
  /\ build' = [build EXCEPT ![m] = Off]
  /\ UNCHANGED <<data, schema, files, sidecars, uploads, doomed>>

-----------------------------------------------------------------------------
(* Retention and Delete.                                                   *)

Chains == {rows[m].chain : m \in Completed}
LastOf(c) == CHOOSE m \in Completed :
  rows[m].chain = c /\ \A n \in Completed : rows[n].chain = c => n <= m

(* Mutant: nothing is spared.                                              *)
SparesNone(m) == {}

Spared(m) == {rows[n].chain : n \in {m} \cap Completed}

(* apply_backup_retention: chains by their newest member; the age limit,   *)
(* some point in creation order, and the count; never the chain of m.      *)
Retain(m) ==
  /\ At(m, "retain") /\ doomed[m] = {}
  /\ \E cutoff \in 0..MaxMembers :
       LET old == {c \in Chains : LastOf(c) <= cutoff}
           surplus == IF MaxKept = 0 THEN {} ELSE
             {c \in Chains : Cardinality({d \in Chains : LastOf(d) > LastOf(c)}) >= MaxKept}
       IN doomed' = [doomed EXCEPT ![m] =
            {n \in Members : rows[n].status \notin {"none", "gone"}
                             /\ rows[n].chain \in (old \cup surplus) \ Spared(m)}]
  /\ build' = [build EXCEPT ![m] = Off]
  /\ UNCHANGED <<data, schema, rows, files, sidecars, uploads>>

(* A completed member takes the later members of its chain with it.        *)
Delete(m) ==
  /\ doomed[Operator] = {}
  /\ rows[m].status \in {"completed", "failed"} /\ Alone
  /\ doomed' = [doomed EXCEPT ![Operator] =
       IF m \notin Completed THEN {m} ELSE
         {n \in Members : /\ rows[n].status # "gone"
                          /\ rows[n].chain = rows[m].chain /\ rows[n].seq >= rows[m].seq}]
  /\ UNCHANGED <<data, schema, rows, files, sidecars, uploads, build>>

(* Mutant: the oldest member first.                                        *)
NextOutOldest(d) ==
  {m \in doomed[d] : \A n \in doomed[d] :
     rows[n].chain = rows[m].chain => rows[m].seq <= rows[n].seq}

(* The newest member of a chain goes first.                                *)
NextOut(d) ==
  {m \in doomed[d] : \A n \in doomed[d] :
     rows[n].chain = rows[m].chain => rows[n].seq <= rows[m].seq}

(* delete_backup_files: the archive, then its sidecar.                     *)
RemoveFile(d) ==
  \E m \in NextOut(d) :
    LET f == rows[m].file
    IN /\ f \in DOMAIN files \cup sidecars
       /\ files' = Without(files, f)
       /\ sidecars' = IF f \in DOMAIN files THEN sidecars ELSE sidecars \ {f}
       /\ UNCHANGED <<data, schema, rows, uploads, build, doomed>>

(* The row goes; an increment that continued it loses its parent.          *)
RemoveRow(d) ==
  \E m \in NextOut(d) :
    /\ rows[m].file \notin DOMAIN files \cup sidecars
    /\ rows' = [n \in Members |->
         IF n = m THEN [NoRow EXCEPT !.status = "gone"]
         ELSE IF rows[n].parent = m THEN [rows[n] EXCEPT !.parent = Nothing] ELSE rows[n]]
    /\ doomed' = [e \in Deleters |-> doomed[e] \ {m}]
    /\ UNCHANGED <<data, schema, files, sidecars, uploads, build>>

(* The request or the runner that deletes is killed.                       *)
Abandon(d) ==
  /\ "cut" \in Hazards /\ doomed[d] # {}
  /\ doomed' = [doomed EXCEPT ![d] = {}]
  /\ UNCHANGED <<data, schema, rows, files, sidecars, uploads, build>>

(* system_backup_upload_view, of an archive that had been downloaded.      *)
Upload(f) ==
  /\ "upload" \in Hazards
  /\ uploads' = With(uploads, f, files[f])
  /\ UNCHANGED <<data, schema, rows, files, sidecars, build, doomed>>

-----------------------------------------------------------------------------
(* Restore, from the files alone.                                          *)

Stored ==
  [f \in DOMAIN files \cup DOMAIN uploads |-> IF f \in DOMAIN files THEN files[f] ELSE uploads[f]]

(* Mutant: links are followed by position only.                            *)
ContinuesByPosition(f, g) ==
  Stored[f].chain = Stored[g].chain /\ Stored[g].seq = Stored[f].seq + 1

(* resolve_chain_paths: g was taken after f.                               *)
Continues(f, g) ==
  /\ Stored[f].chain = Stored[g].chain
  /\ Stored[g].seq = Stored[f].seq + 1
  /\ Stored[g].parentRoot = Stored[f].root

(* The ways to resolve f into files base to f, by position.                *)
Resolutions(f) ==
  {path \in [0..Stored[f].seq -> DOMAIN Stored] :
     /\ path[Stored[f].seq] = f
     /\ Stored[path[0]].seq = 0
     /\ \A i \in 1..Stored[f].seq : Continues(path[i - 1], path[i])}

Applied(file, before) ==
  [k \in Keys |-> IF k \in file.deleted THEN Nothing
                  ELSE IF file.changed[k] # Nothing THEN file.changed[k] ELSE before[k]]

(* _wipe_and_load: the base, then _apply_increment for each later member.  *)
Loaded(path) ==
  LET after[i \in DOMAIN path] ==
        Applied(Stored[path[i]], IF i = 0 THEN Empty ELSE after[i - 1])
  IN after

(* _apply_increment saves the changed rows before it deletes those that    *)
(* are gone, and a unique column is checked at once.  (Values exchanged    *)
(* among the changed rows, a matter of their order, are left out.)         *)
Raises(file, before) ==
  \E k, j \in Keys : /\ k # j /\ file.changed[k] # Nothing
                     /\ file.changed[k] = before[j] /\ file.changed[j] = Nothing

Loads(path) ==
  \A i \in DOMAIN path \ {0} : ~Raises(Stored[path[i]], Loaded(path)[i - 1])

(* One transaction; a schema change within the chain, or a schema that is  *)
(* not this system's, refuses it (ignore_version_mismatch is left out).    *)
Restore(f) ==
  /\ \E path \in Resolutions(f) :
       /\ \A i \in DOMAIN path : Stored[path[i]].schema = schema
       /\ Loads(path)
       /\ data' = Loaded(path)[Stored[f].seq]
  /\ UNCHANGED <<schema, rows, files, sidecars, uploads, build, doomed>>

-----------------------------------------------------------------------------
Run(m) == Start(m) \/ Refuse(m) \/ Write(m) \/ Complete(m) \/ Fail(m) \/ Crash(m) \/ Retain(m)

Next ==
  \/ \E k \in Keys, v \in Versions \cup {Nothing} : Edit(k, v)
  \/ Migrate
  \/ \E m \in Members : CreateManual(m) \/ CreateScheduled(m) \/ Resume(m) \/ Run(m) \/ Delete(m)
  \/ \E d \in Deleters : RemoveFile(d) \/ RemoveRow(d) \/ Abandon(d)
  \/ \E f \in DOMAIN files : Upload(f)
  \/ \E f \in DOMAIN Stored : Restore(f)

Spec == Init /\ [][Next]_chains

-----------------------------------------------------------------------------
ChainsTypeOK ==
  /\ data \in Index /\ schema \in 0..MaxSchema
  /\ rows \in [Members -> Row] /\ build \in [Members -> Build]
  /\ {DOMAIN files, DOMAIN uploads, sidecars} \subseteq SUBSET FileIds
  /\ \A f \in DOMAIN Stored : Stored[f] \in File
  /\ doomed \in [Deleters -> SUBSET Members]

(* Restoring any file that resolves, strays of killed attempts and uploads *)
(* included, gives the rows its index describes, none more and none older  *)
(* (docs/backups.md, "Restoring a chain").                                 *)
RestoreIsExact ==
  \A f \in DOMAIN Stored : \A path \in Resolutions(f) :
    Loaded(path)[Stored[f].seq] = Stored[f].root

(* A completed member whose archive is there has every member before it,   *)
(* however rotation, deletes, failures, kills and Resumes came between;    *)
(* unless a deletion had stopped between an archive and its sidecar, which *)
(* is all that the next increment looks for.                               *)
KeptIsRestorable ==
  \A m \in Completed :
    \/ rows[m].file \notin DOMAIN files
    \/ Resolutions(rows[m].file) # {}
    \/ \E n \in Completed : /\ rows[n].chain = rows[m].chain /\ rows[n].seq < rows[m].seq
                             /\ rows[n].file \in sidecars \ DOMAIN files

(* "neither the wipe nor the load order matters; integrity is verified     *)
(* before commit" (restore.py): a chain that resolves can be loaded.       *)
KeptIsLoadable ==
  \A f \in DOMAIN files : \A path \in Resolutions(f) : Loads(path)

(* One was requested after the other had completed.                        *)
Apart(m, n) == m \in rows[n].before \/ n \in rows[m].before

(* "Earlier members of a chain cannot be picked, so a chain stays linear"  *)
(* (docs/backups.md): no two of its members hold the same place, as long   *)
(* as each was requested after those requested before it had completed.    *)
(* Automatic takes the newest member, and one that is picked has none      *)
(* after it; but a row that failed keeps its parent, and a Resume of it    *)
(* does not ask whether another increment has continued that since.        *)
LinearWhenApart ==
  \A m, n \in Completed :
    rows[m].chain = rows[n].chain /\ rows[m].seq = rows[n].seq /\ m # n =>
      \E x, y \in Completed : /\ x # y /\ ~Apart(x, y)
                               /\ rows[x].chain = rows[m].chain /\ rows[y].chain = rows[m].chain

(* "The chain of the backup that just completed is never removed": once    *)
(* there is an archive to restore from, only the operator's Delete can     *)
(* leave none.                                                             *)
Restorable == \E m \in Completed : rows[m].file \in DOMAIN files
RetentionLeavesARestorable ==
  [][Restorable /\ doomed[Operator] = {} => Restorable']_chains
=============================================================================
