------------------------- MODULE BackupChainsProofs -------------------------
(***************************************************************************)
(* Proofs about BackupChains, for every set of keys and versions, any      *)
(* number of rows, archives and migrations, and every policy.              *)
(***************************************************************************)
EXTENDS BackupChains, WellFoundedInduction, TLAPS

USE BackupChainsAssumption

(* Functions lose one value of their domain.                               *)
LEMMA WithoutIs ==
  ASSUME NEW function, NEW f
  PROVE  /\ DOMAIN Without(function, f) = DOMAIN function \ {f}
         /\ \A g \in DOMAIN function \ {f} : Without(function, f)[g] = function[g]
BY DEF Without, Restrict

-----------------------------------------------------------------------------
(* Least and greatest elements of sets of naturals.  The library states    *)
(* induction for an operator, which no prover here can instantiate; that   *)
(* "<" is well founded says the same of sets.                              *)

(* A set of naturals that is not empty has a least element.                *)
LEMMA LeastOf ==
  ASSUME NEW T \in SUBSET Nat, T # {}
  PROVE  \E n \in T : \A m \in T : n <= m
<1>1. IsWellFoundedOn(OpToRel(<, Nat), Nat)
  BY NatLessThanWellFounded
<1>2. PICK n \in T : \A m \in T : <<m, n>> \notin OpToRel(<, Nat)
  BY <1>1, WFMin
<1>3. \A m \in T : ~ (m < n)
  BY <1>2 DEF OpToRel
<1>4. QED
  BY <1>3

(* One that is bounded as well has a greatest element.                     *)
LEMMA GreatestOf ==
  ASSUME NEW S \in SUBSET Nat, S # {}, NEW bound \in Nat, \A n \in S : n <= bound
  PROVE  \E n \in S : \A m \in S : n >= m
<1> DEFINE Gaps == {g \in Nat : \E n \in S : g = bound - n}
<1>1. Gaps # {}
  <2>1. PICK n \in S : TRUE
    OBVIOUS
  <2>2. bound - n \in Gaps
    BY <2>1
  <2>3. QED
    BY <2>2
<1>2. PICK g \in Gaps : \A h \in Gaps : g <= h
  <2>1. Gaps \in SUBSET Nat
    OBVIOUS
  <2> HIDE DEF Gaps
  <2>2. QED
    BY <1>1, <2>1, LeastOf
<1>3. PICK n \in S : g = bound - n
  OBVIOUS
<1>4. \A m \in S : bound - m \in Gaps
  OBVIOUS
<1> HIDE DEF Gaps
<1>5. ASSUME NEW m \in S PROVE n >= m
  <2>1. g <= bound - m
    BY <1>2, <1>4
  <2>2. m \in Nat /\ n \in Nat
    OBVIOUS
  <2>3. QED
    BY <1>3, <2>1, <2>2
<1>6. QED
  BY <1>5

-----------------------------------------------------------------------------
(* What an archive holds and what loading a chain gives.                   *)

(* An archive turns the data its parent describes into the data it         *)
(* describes itself; a base turns the empty site into them.                *)
Exact(file) ==
  /\ file.seq = 0 => file.parentRoot = Empty
  /\ Applied(file, file.parentRoot) = file.root

Sound(archives) == \A f \in DOMAIN archives : archives[f] \in File /\ Exact(archives[f])

LEMMA WhatWasWritten ==
  ASSUME NEW previous \in Index, NEW now \in Index, NEW file,
         file.changed = Changed(previous, now), file.deleted = Gone(previous, now)
  PROVE  /\ Applied(file, previous) = now
         /\ Changed(previous, now) \in Index /\ Gone(previous, now) \in SUBSET Keys
<1>1. ASSUME NEW k \in Keys PROVE Applied(file, previous)[k] = now[k]
  BY DEF Applied, Changed, Gone, Index
<1>2. Applied(file, previous) = now
  BY <1>1 DEF Applied, Index
<1>3. QED
  BY <1>2 DEF Changed, Gone, Index

(* Each member of a resolved chain, loaded after those before it, gives    *)
(* what its own index describes.                                           *)
LEMMA LoadedIsRoot ==
  ASSUME Sound(Stored), NEW f \in DOMAIN Stored, NEW path \in Resolutions(f)
  PROVE  \A i \in 0..Stored[f].seq : Loaded(path)[i] = Stored[path[i]].root
<1> DEFINE N == Stored[f].seq
           Follow(g) == [i \in 0..N |->
                           Applied(Stored[path[i]], IF i = 0 THEN Empty ELSE g[i - 1])]
           roots == [i \in 0..N |-> Stored[path[i]].root]
<1>1. /\ N \in Nat /\ path \in [0..N -> DOMAIN Stored] /\ Stored[path[0]].seq = 0
      /\ \A i \in 1..N : Continues(path[i - 1], path[i])
  BY DEF Sound, File, Resolutions
<1>2. ASSUME NEW i \in 0..N
      PROVE  Applied(Stored[path[i]], IF i = 0 THEN Empty ELSE roots[i - 1]) = roots[i]
  <2>1. Exact(Stored[path[i]])
    BY <1>1 DEF Sound
  <2>2. CASE i = 0
    BY <1>1, <2>1, <2>2 DEF Exact
  <2>3. CASE i # 0
    <3>1. i \in 1..N /\ i - 1 \in 0..N
      BY <1>1, <2>3
    <3>2. Stored[path[i]].parentRoot = roots[i - 1]
      BY <1>1, <3>1 DEF Continues
    <3>3. QED
      BY <2>1, <2>3, <3>2 DEF Exact
  <2>4. QED
    BY <2>2, <2>3
<1>3. roots = Follow(roots)
  BY <1>2
<1>4. Loaded(path) = Follow(Loaded(path))
  <2>1. DOMAIN path = 0..N
    BY <1>1
  <2>2. Loaded(path) = CHOOSE g : g = Follow(g)
    BY <2>1 DEF Loaded
  <2> HIDE DEF roots, Follow
  <2>3. QED
    BY <1>3, <2>2
<1>5. ASSUME NEW i \in 0..N
      PROVE  Loaded(path)[i] = Applied(Stored[path[i]], IF i = 0 THEN Empty ELSE Loaded(path)[i - 1])
  BY <1>4
<1> DEFINE Wrong == {i \in 0..N : Loaded(path)[i] # roots[i]}
<1>6. CASE Wrong = {}
  BY <1>6
<1>7. CASE Wrong # {}
  <2>1. PICK i \in Wrong : \A j \in Wrong : i <= j
    <3>1. Wrong \in SUBSET Nat
      OBVIOUS
    <3> HIDE DEF Wrong
    <3>2. QED
      BY <1>7, <3>1, LeastOf
  <2>2. i # 0 => Loaded(path)[i - 1] = roots[i - 1]
    <3>1. SUFFICES ASSUME i # 0 PROVE i - 1 \notin Wrong
      BY <1>1
    <3>2. ~(i <= i - 1)
      OBVIOUS
    <3>3. QED
      BY <2>1, <3>2
  <2>3. Loaded(path)[i] = roots[i]
    BY <1>2, <1>5, <2>2
  <2>4. QED
    BY <2>3
<1>8. QED
  BY <1>6, <1>7

-----------------------------------------------------------------------------
(* Types.  A runner that builds has a place in a chain for its archive and, *)
(* once that is stored, an archive no row names and no other runner stored; *)
(* the order of completion is bounded, so that there is a next number.     *)

Typed ==
  /\ data \in Index /\ schema \in 0..MaxSchema
  /\ rows \in [Members -> Row] /\ build \in [Members -> Build]
  /\ DOMAIN files \subseteq FileIds /\ DOMAIN uploads \subseteq FileIds
  /\ sidecars \subseteq FileIds
  /\ doomed \in [Deleters -> SUBSET Members]

Writing(m) == build[m].at \in {"started", "stored"}

Placed(m) == m \in Completed => rows[m].chain \in Members

Built(m) ==
  /\ Writing(m) => build[m].chain \in Members
  /\ At(m, "started") => /\ build[m].file = Nothing
                         /\ build[m].previous = build[m].parentRoot
                         /\ build[m].seq = 0 => build[m].previous = Empty
  /\ At(m, "stored") =>
       /\ build[m].file \in DOMAIN files
       /\ \A n \in Members : rows[n].file # build[m].file
       /\ \A n \in Members \ {m} : At(n, "stored") => build[n].file # build[m].file

ArchiveInv ==
  /\ Typed
  /\ Sound(files) /\ Sound(uploads)
  /\ \A m \in Members : Placed(m) /\ Built(m)
  /\ \E bound \in Nat : \A m \in Members : rows[m].done <= bound

LEMMA StoredIsSound ==
  ASSUME Sound(files), Sound(uploads)
  PROVE  Sound(Stored)
BY DEF Sound, Stored

LEMMA TypesFollow == ArchiveInv => ChainsTypeOK
<1>1. ASSUME ArchiveInv PROVE \A f \in DOMAIN Stored : Stored[f] \in File
  BY <1>1, StoredIsSound DEF ArchiveInv, Sound
<1>2. QED
  BY <1>1 DEF ArchiveInv, Typed, ChainsTypeOK

LEMMA ExactlyRestored == ArchiveInv => RestoreIsExact
<1> SUFFICES ASSUME ArchiveInv, NEW f \in DOMAIN Stored, NEW path \in Resolutions(f)
             PROVE  Loaded(path)[Stored[f].seq] = Stored[f].root
  BY DEF RestoreIsExact
<1>1. Sound(Stored)
  BY StoredIsSound DEF ArchiveInv
<1>2. Stored[f].seq \in Nat /\ path[Stored[f].seq] = f
  BY <1>1 DEF Sound, File, Resolutions
<1>3. Stored[f].seq \in 0..Stored[f].seq
  BY <1>2
<1>4. QED
  BY <1>1, <1>2, <1>3, LoadedIsRoot

LEMMA NoMemberZero == Nothing \notin Members /\ Nothing \notin FileIds
BY DEF Nothing, Members, FileIds

LEMMA EmptyIsIndex == Empty \in Index
BY DEF Empty, Index, Nothing

LEMMA InitHolds == Init => ArchiveInv
<1> SUFFICES ASSUME Init PROVE ArchiveInv
  OBVIOUS
<1>1. NoRow \in Row /\ Off \in Build
  BY EmptyIsIndex DEF NoRow, Row, Statuses, Scopes, Off, Build, Steps
<1>2. Typed
  BY <1>1 DEF Init, Typed
<1>3. Sound(files) /\ Sound(uploads)
  BY DEF Init, Sound
<1>4. \A m \in Members : Placed(m) /\ Built(m)
  BY DEF Init, Placed, Built, Writing, At, Completed, NoRow, Off
<1>5. 0 \in Nat /\ \A m \in Members : rows[m].done <= 0
  BY DEF Init, NoRow
<1>6. QED
  BY <1>2, <1>3, <1>4, <1>5 DEF ArchiveInv

(* What disturbs neither archives nor builds: it writes rows, none of which *)
(* gets an archive, a number or a place that it did not have.              *)
LEMMA RowsPreserve ==
  ASSUME ArchiveInv, Typed', files' = files, build' = build,
         \A f \in DOMAIN uploads' : \/ f \in DOMAIN uploads /\ uploads'[f] = uploads[f]
                                    \/ f \in DOMAIN files /\ uploads'[f] = files[f],
         \A m \in Members :
           /\ rows'[m].file \in {rows[m].file, Nothing}
           /\ rows'[m].done \in {rows[m].done, 0}
           /\ m \in Completed' => rows'[m].chain = rows[m].chain /\ m \in Completed
  PROVE  ArchiveInv'
<1>1. Sound(files)' /\ Sound(uploads)'
  BY DEF ArchiveInv, Sound
<1>2. \A m \in Members : Placed(m)'
  BY DEF ArchiveInv, Placed
<1>3. \A m \in Members : At(m, "stored") => build[m].file # Nothing
  BY NoMemberZero DEF ArchiveInv, Built, Typed
<1>4. \A m \in Members : Built(m)'
  BY <1>3 DEF ArchiveInv, Built, Writing, At
<1>5. PICK bound \in Nat : \A m \in Members : rows[m].done <= bound
  BY DEF ArchiveInv
<1>6. \A m \in Members : rows'[m].done <= bound
  BY <1>5
<1>7. QED
  BY <1>1, <1>2, <1>4, <1>6 DEF ArchiveInv

LEMMA HeadsAreMembers ==
  /\ \A scopes : AutomaticHead(scopes) \subseteq Completed
  /\ PickedHead \subseteq Completed /\ Completed \subseteq Members
BY DEF AutomaticHead, Newest, PickedHead, Completed

LEMMA NewRows ==
  ASSUME Typed
  PROVE  /\ \A scope \in Scopes : NewFull(scope) \in Row
         /\ \A head \in Members : NewIncrement(head) \in Row
<1>1. NoRow \in Row
  BY EmptyIsIndex DEF NoRow, Row, Statuses, Scopes
<1>2. \A scope \in Scopes : NewFull(scope) \in Row
  BY <1>1, HeadsAreMembers DEF NewFull, Row, Statuses
<1>3. ASSUME NEW head \in Members PROVE NewIncrement(head) \in Row
  <2>1. NewFull(rows[head].scope) \in Row
    BY <1>2 DEF Typed, Row
  <2>2. QED
    BY <2>1 DEF NewIncrement, Row
<1>4. QED
  BY <1>2, <1>3

LEMMA AddPreserves ==
  ASSUME ArchiveInv, NEW m \in Members, NEW row \in Row, row.status = "pending",
         row.file = Nothing, row.done = 0, Add(m, row)
  PROVE  ArchiveInv'
<1>1. rows' = [rows EXCEPT ![m] = row] /\ rows \in [Members -> Row]
  BY DEF Add, ArchiveInv, Typed
<1>2. Typed'
  BY <1>1 DEF Add, ArchiveInv, Typed
<1>3. \A n \in Members :
        /\ rows'[n].file \in {rows[n].file, Nothing}
        /\ rows'[n].done \in {rows[n].done, 0}
        /\ n \in Completed' => rows'[n].chain = rows[n].chain /\ n \in Completed
  BY <1>1 DEF Completed
<1>4. QED
  BY <1>2, <1>3, RowsPreserve DEF Add

LEMMA CreatePreserves ==
  ASSUME ArchiveInv, NEW m \in Members, CreateManual(m) \/ CreateScheduled(m)
  PROVE  ArchiveInv'
<1>1. ASSUME NEW scope \in Scopes, Add(m, NewFull(scope)) PROVE ArchiveInv'
  <2>1. /\ NewFull(scope).status = "pending" /\ NewFull(scope).file = Nothing
        /\ NewFull(scope).done = 0
    BY DEF NewFull, NoRow
  <2>2. QED
    BY <1>1, <2>1, NewRows, AddPreserves DEF ArchiveInv
<1>2. ASSUME NEW head \in Completed, Add(m, NewIncrement(head)) PROVE ArchiveInv'
  <2>1. /\ NewIncrement(head).status = "pending" /\ NewIncrement(head).file = Nothing
        /\ NewIncrement(head).done = 0
    BY DEF NewIncrement, NewFull, NoRow
  <2>2. NewIncrement(head) \in Row
    BY HeadsAreMembers, NewRows DEF ArchiveInv
  <2>3. QED
    BY <1>2, <2>1, <2>2, AddPreserves
<1>3. "site" \in Scopes
  BY DEF Scopes
<1>4. QED
  BY <1>1, <1>2, <1>3, HeadsAreMembers DEF CreateManual, CreateScheduled

(* Whoever deletes, uploads or edits touches no archive of a build.        *)
LEMMA OthersPreserve ==
  ASSUME ArchiveInv,
         \/ \E k \in Keys, v \in Versions \cup {Nothing} : Edit(k, v)
         \/ Migrate
         \/ \E m \in Members : Resume(m) \/ Refuse(m) \/ Delete(m)
         \/ \E d \in Deleters : RemoveRow(d) \/ Abandon(d)
         \/ \E f \in DOMAIN files : Upload(f)
         \/ UNCHANGED chains
  PROVE  ArchiveInv'
<1> USE DEF ArchiveInv
<1>1. CASE \E k \in Keys, v \in Versions \cup {Nothing} : Edit(k, v)
  BY <1>1, RowsPreserve DEF Edit, Typed, Index, Completed
<1>2. CASE Migrate
  <2>1. schema' \in 0..MaxSchema
    BY <1>2 DEF Migrate, Typed
  <2>2. QED
    BY <1>2, <2>1, RowsPreserve DEF Migrate, Typed, Completed
<1>3. ASSUME NEW m \in Members, Resume(m) \/ Refuse(m) PROVE ArchiveInv'
  <2>1. PICK next \in {"pending", "failed"} :
          rows' = [rows EXCEPT ![m].status = next] /\ rows \in [Members -> Row]
    BY <1>3 DEF Resume, Refuse, Typed
  <2>2. rows' \in [Members -> Row]
    BY <2>1 DEF Row, Statuses
  <2>3. \A n \in Members :
          /\ rows'[n].file = rows[n].file /\ rows'[n].done = rows[n].done
          /\ n \in Completed' => rows'[n].chain = rows[n].chain /\ n \in Completed
    BY <2>1 DEF Completed, Row
  <2>4. QED
    BY <1>3, <2>2, <2>3, RowsPreserve DEF Resume, Refuse, Typed
<1>4. ASSUME NEW m \in Members, Delete(m) PROVE ArchiveInv'
  <2>1. PICK doom \in SUBSET Members : doomed' = [doomed EXCEPT ![Operator] = doom]
    BY <1>4 DEF Delete
  <2>2. doomed' \in [Deleters -> SUBSET Members]
    BY <2>1 DEF Typed
  <2>3. QED
    BY <1>4, <2>2, RowsPreserve DEF Delete, Typed, Completed
<1>5. ASSUME NEW d \in Deleters, RemoveRow(d) PROVE ArchiveInv'
  <2>1. PICK m \in Members :
          /\ rows' = [n \in Members |->
               IF n = m THEN [NoRow EXCEPT !.status = "gone"]
               ELSE IF rows[n].parent = m THEN [rows[n] EXCEPT !.parent = Nothing] ELSE rows[n]]
          /\ doomed' = [e \in Deleters |-> doomed[e] \ {m}]
    BY <1>5 DEF RemoveRow, NextOut, Typed
  <2>2. [NoRow EXCEPT !.status = "gone"] \in Row
    BY EmptyIsIndex DEF NoRow, Row, Statuses, Scopes
  <2>3. ASSUME NEW n \in Members PROVE [rows[n] EXCEPT !.parent = Nothing] \in Row
    <3>1. rows[n] \in Row
      BY DEF Typed
    <3>2. QED
      BY <3>1 DEF Row
  <2>4. rows' \in [Members -> Row] /\ doomed' \in [Deleters -> SUBSET Members]
    BY <2>1, <2>2, <2>3 DEF Typed
  <2>5. \A n \in Members :
          /\ rows'[n].file \in {rows[n].file, Nothing}
          /\ rows'[n].done \in {rows[n].done, 0}
          /\ n \in Completed' => rows'[n].chain = rows[n].chain /\ n \in Completed
    <3>1. /\ rows'[m].file = Nothing /\ rows'[m].done = 0 /\ rows'[m].status = "gone"
      BY <2>1 DEF NoRow
    <3>2. \A n \in Members \ {m} :
            /\ rows'[n].file = rows[n].file /\ rows'[n].done = rows[n].done
            /\ rows'[n].status = rows[n].status /\ rows'[n].chain = rows[n].chain
      BY <2>1 DEF Typed, Row
    <3>3. QED
      BY <3>1, <3>2 DEF Completed
  <2>6. QED
    BY <1>5, <2>4, <2>5, RowsPreserve DEF RemoveRow, Typed
<1>6. ASSUME NEW d \in Deleters, Abandon(d) PROVE ArchiveInv'
  <2>1. doomed' \in [Deleters -> SUBSET Members]
    BY <1>6 DEF Abandon, Typed
  <2>2. QED
    BY <1>6, <2>1, RowsPreserve DEF Abandon, Typed, Completed
<1>7. ASSUME NEW f \in DOMAIN files, Upload(f) PROVE ArchiveInv'
  <2>1. /\ DOMAIN uploads' = DOMAIN uploads \cup {f} /\ uploads'[f] = files[f]
        /\ \A g \in DOMAIN uploads : g # f => uploads'[g] = uploads[g]
    <3>1. uploads' = With(uploads, f, files[f])
      BY <1>7 DEF Upload
    <3>2. /\ DOMAIN With(uploads, f, files[f]) = DOMAIN uploads \cup {f}
          /\ With(uploads, f, files[f])[f] = files[f]
          /\ \A g \in DOMAIN uploads : g # f => With(uploads, f, files[f])[g] = uploads[g]
      BY DEF With
    <3>3. QED
      BY <3>1, <3>2
  <2>2. Typed'
    BY <1>7, <2>1 DEF Upload, Typed
  <2>3. QED
    BY <1>7, <2>1, <2>2, RowsPreserve DEF Upload, Completed
<1>8. CASE UNCHANGED chains
  BY <1>8, RowsPreserve DEF chains, Typed, Completed
<1>9. QED
  BY <1>1, <1>2, <1>3, <1>4, <1>5, <1>6, <1>7, <1>8

LEMMA RestorePreserves ==
  ASSUME ArchiveInv, NEW f \in DOMAIN Stored, Restore(f)
  PROVE  ArchiveInv'
<1>1. PICK path \in Resolutions(f) : data' = Loaded(path)[Stored[f].seq]
  BY DEF Restore
<1>2. data' = Stored[f].root
  BY <1>1, ExactlyRestored DEF RestoreIsExact
<1>3. data' \in Index
  BY <1>2, StoredIsSound DEF ArchiveInv, Sound, File
<1>4. QED
  BY <1>3, RowsPreserve DEF Restore, ArchiveInv, Typed, Completed

-----------------------------------------------------------------------------
(* What the runner of m does.                                              *)

(* A write of one runner's progress, and of rows that keep their archive.  *)
LEMMA RunPreserves ==
  ASSUME ArchiveInv, NEW m \in Members, NEW new \in Build,
         build' = [build EXCEPT ![m] = new],
         new.at \in {"started", "off", "retain"},
         new.at = "started" => /\ new.file = Nothing
                               /\ new.chain \in Members /\ new.previous = new.parentRoot
                               /\ new.seq = 0 => new.previous = Empty,
         rows' \in [Members -> Row], doomed' \in [Deleters -> SUBSET Members],
         \A n \in Members :
           /\ rows'[n].file = rows[n].file /\ rows'[n].done = rows[n].done
           /\ n \in Completed' => rows'[n].chain = rows[n].chain /\ n \in Completed,
         data' = data, schema' = schema, uploads' = uploads, sidecars' \subseteq FileIds,
         DOMAIN files' \subseteq DOMAIN files,
         \A f \in DOMAIN files : f \in DOMAIN files' => files'[f] = files[f],
         \A f \in DOMAIN files : f \in DOMAIN files' \/ (At(m, "stored") /\ f = build[m].file)
  PROVE  ArchiveInv'
<1>1. Typed'
  BY DEF ArchiveInv, Typed
<1>2. Sound(files)' /\ Sound(uploads)'
  BY DEF ArchiveInv, Sound
<1>3. \A n \in Members : Placed(n)'
  BY DEF ArchiveInv, Placed
<1>4. /\ build'[m] = new
      /\ \A n \in Members \ {m} : build'[n] = build[n]
  BY DEF ArchiveInv, Typed
<1>5. Built(m)'
  BY <1>4 DEF Built, Writing, At
<1>6. ASSUME NEW n \in Members \ {m} PROVE Built(n)'
  <2>1. Built(n) /\ build'[n] = build[n]
    BY <1>4 DEF ArchiveInv
  <2>2. ASSUME At(n, "stored")
        PROVE  /\ build[n].file \in DOMAIN files'
               /\ \A o \in Members \ {n} : At(o, "stored")' => build'[o].file # build[n].file
    <3>1. At(m, "stored") => build[m].file # build[n].file
      BY <2>2 DEF ArchiveInv, Built
    <3>2. build[n].file \in DOMAIN files'
      BY <2>1, <2>2, <3>1 DEF Built
    <3>3. \A o \in Members \ {n} : At(o, "stored")' => build'[o].file # build[n].file
      BY <1>4, <2>1, <2>2 DEF Built, At
    <3>4. QED
      BY <3>2, <3>3
  <2>3. QED
    BY <2>1, <2>2 DEF Built, Writing, At
<1>7. PICK bound \in Nat : \A n \in Members : rows[n].done <= bound
  BY DEF ArchiveInv
<1>8. \A n \in Members : rows'[n].done <= bound
  BY <1>7
<1>9. QED
  BY <1>1, <1>2, <1>3, <1>5, <1>6, <1>8 DEF ArchiveInv

LEMMA OffIsBuild ==
  /\ Off \in Build /\ [Off EXCEPT !.at = "retain"] \in Build
  /\ Off.at = "off" /\ [Off EXCEPT !.at = "retain"].at = "retain"
BY EmptyIsIndex DEF Off, Build, Steps

(* What Start hands to the runner of m.                                    *)
Begun(m) ==
  LET p == rows[m].parent
  IN IF rows[m].increment
     THEN [Off EXCEPT !.at = "started", !.previous = rows[p].root,
             !.chain = rows[p].chain, !.seq = SeqAfter(p), !.parentRoot = rows[p].root]
     ELSE [Off EXCEPT !.at = "started", !.chain = m]

LEMMA BegunIs ==
  ASSUME Typed, NEW m \in Members, Placed(rows[m].parent),
         rows[m].increment => rows[m].parent \in Completed
  PROVE  /\ Begun(m) \in Build /\ Begun(m).at = "started" /\ Begun(m).chain \in Members
         /\ Begun(m).file = Nothing
         /\ Begun(m).previous = Begun(m).parentRoot
         /\ rows[m].increment =>
              /\ Begun(m).chain = rows[rows[m].parent].chain
              /\ Begun(m).seq = rows[rows[m].parent].seq + 1
              /\ Begun(m).parentRoot = rows[rows[m].parent].root
         /\ ~rows[m].increment =>
              Begun(m).chain = m /\ Begun(m).seq = 0 /\ Begun(m).parentRoot = Empty
         /\ Begun(m).seq = 0 => Begun(m).previous = Empty
<1>1. CASE ~rows[m].increment
  BY <1>1, OffIsBuild DEF Begun, Off, Build, Steps
<1>2. CASE rows[m].increment
  <2> DEFINE p == rows[m].parent
  <2>1. p \in Members /\ rows[p] \in Row /\ rows[p].chain \in Members
    BY <1>2 DEF Completed, Typed, Placed
  <2>2. Begun(m) = [at |-> "started", previous |-> rows[p].root, chain |-> rows[p].chain,
                    seq |-> rows[p].seq + 1, parentRoot |-> rows[p].root, file |-> Nothing]
    BY <1>2 DEF Begun, Off, SeqAfter
  <2>3. rows[p].seq \in Nat /\ rows[p].root \in Index
    BY <2>1 DEF Row
  <2> HIDE DEF p
  <2>4. Begun(m) \in Build
    BY <2>1, <2>2, <2>3 DEF Build, Steps
  <2>5. rows[p].seq + 1 # 0
    BY <2>3
  <2>6. QED
    BY <1>2, <2>1, <2>2, <2>4, <2>5 DEF p
<1>3. QED
  BY <1>1, <1>2 DEF Typed, Row

LEMMA StartPreserves ==
  ASSUME ArchiveInv, NEW m \in Members, Start(m)
  PROVE  ArchiveInv'
<1>1. /\ Begun(m) \in Build /\ build' = [build EXCEPT ![m] = Begun(m)]
      /\ Begun(m).at = "started" /\ Begun(m).chain \in Members /\ Begun(m).file = Nothing
      /\ Begun(m).previous = Begun(m).parentRoot
      /\ Begun(m).seq = 0 => Begun(m).previous = Empty
  <2>1. build' = [build EXCEPT ![m] = Begun(m)]
    BY DEF Start, Begun
  <2>2. rows[m].increment => rows[m].parent \in Completed
    BY DEF Start, ParentUsable
  <2>3. Placed(rows[m].parent)
    BY DEF ArchiveInv, Placed, Completed
  <2>4. QED
    BY <2>1, <2>2, <2>3, BegunIs DEF ArchiveInv
<1>2. rows' = [rows EXCEPT ![m].status = "running"] /\ rows \in [Members -> Row]
  BY DEF Start, ArchiveInv, Typed
<1>3. rows' \in [Members -> Row]
  BY <1>2 DEF Row, Statuses
<1>4. \A n \in Members :
        /\ rows'[n].file = rows[n].file /\ rows'[n].done = rows[n].done
        /\ n \in Completed' => rows'[n].chain = rows[n].chain /\ n \in Completed
  BY <1>2 DEF Completed, Row
<1>5. /\ data' = data /\ schema' = schema /\ files' = files /\ uploads' = uploads
      /\ sidecars' \subseteq FileIds /\ doomed' \in [Deleters -> SUBSET Members]
  BY DEF Start, ArchiveInv, Typed
<1>6. QED
  BY <1>1, <1>3, <1>4, <1>5, RunPreserves

LEMMA SetbacksPreserve ==
  ASSUME ArchiveInv, NEW m \in Members, Fail(m) \/ Crash(m) \/ Retain(m)
  PROVE  ArchiveInv'
<1>1. build' = [build EXCEPT ![m] = Off] /\ rows \in [Members -> Row]
  BY DEF Fail, Crash, Retain, ArchiveInv, Typed
<1> DEFINE Same ==
      /\ rows' \in [Members -> Row]
      /\ \A n \in Members :
           /\ rows'[n].file = rows[n].file /\ rows'[n].done = rows[n].done
           /\ n \in Completed' => rows'[n].chain = rows[n].chain /\ n \in Completed
<1>2. Same
  <2>1. CASE rows' = rows
    BY <1>1, <2>1 DEF Completed
  <2>2. ASSUME NEW next \in {"pending", "failed"}, rows' = [rows EXCEPT ![m].status = next]
        PROVE  Same
    <3>1. rows' \in [Members -> Row]
      BY <1>1, <2>2 DEF Row, Statuses
    <3>2. QED
      BY <1>1, <2>2, <3>1 DEF Completed, Row
  <2>3. \/ rows' = rows
        \/ \E next \in {"pending", "failed"} : rows' = [rows EXCEPT ![m].status = next]
    <3>1. CASE Fail(m) \/ Retain(m)
      BY <3>1 DEF Fail, Retain
    <3>2. CASE Crash(m)
      <4>1. rows[m].status # "running" => [rows EXCEPT ![m].status = rows[m].status] = rows
        BY <1>1 DEF Row
      <4>2. PICK next \in {"pending", "failed"} :
              rows' = [rows EXCEPT ![m].status =
                         IF rows[m].status = "running" THEN next ELSE rows[m].status]
        BY <3>2 DEF Crash
      <4>3. QED
        BY <4>1, <4>2
    <3>3. QED
      BY <3>1, <3>2
  <2>4. QED
    BY <2>1, <2>2, <2>3
<1>3. /\ data' = data /\ schema' = schema /\ uploads' = uploads /\ sidecars' \subseteq FileIds
  BY DEF Fail, Crash, Retain, ArchiveInv, Typed
<1>4. doomed' \in [Deleters -> SUBSET Members]
  <2>1. \E doom \in SUBSET Members, d \in Deleters :
          doomed' = doomed \/ doomed' = [doomed EXCEPT ![d] = doom]
    <3>1. m \in Deleters
      BY DEF Deleters
    <3>2. QED
      BY <3>1 DEF Fail, Crash, Retain
  <2>2. QED
    BY <2>1 DEF ArchiveInv, Typed
<1>5. /\ DOMAIN files' \subseteq DOMAIN files
      /\ \A f \in DOMAIN files : f \in DOMAIN files' => files'[f] = files[f]
      /\ \A f \in DOMAIN files : f \in DOMAIN files' \/ (At(m, "stored") /\ f = build[m].file)
  <2>1. CASE files' = files
    BY <2>1
  <2>2. CASE Fail(m)
    <3>1. files' = Without(files, build[m].file)
      BY <2>2 DEF Fail
    <3>2. /\ DOMAIN files' = DOMAIN files \ {build[m].file}
          /\ \A g \in DOMAIN files' : files'[g] = files[g]
      BY <3>1, WithoutIs
    <3>3. At(m, "started") \/ At(m, "stored")
      BY <2>2 DEF Fail, At
    <3>4. At(m, "started") => build[m].file \notin DOMAIN files
      BY NoMemberZero DEF ArchiveInv, Typed, Built
    <3>5. QED
      BY <3>2, <3>3, <3>4
  <2>3. QED
    BY <2>1, <2>2 DEF Crash, Retain
<1>6. QED
  BY <1>1, <1>2, <1>3, <1>4, <1>5, OffIsBuild, RunPreserves

(* The archive takes the place _chain_start chose, and holds what the data *)
(* it was written from differ by from those of the parent.                 *)
Archive(m) ==
  [chain |-> build[m].chain, seq |-> build[m].seq, root |-> data,
   parentRoot |-> build[m].parentRoot, schema |-> schema,
   changed |-> Changed(build[m].previous, data),
   deleted |-> Gone(build[m].previous, data)]

LEMMA ArchiveIs ==
  ASSUME ArchiveInv, NEW m \in Members, At(m, "started")
  PROVE  Archive(m) \in File /\ Exact(Archive(m))
<1>1. /\ build[m] \in Build /\ data \in Index /\ schema \in Nat
      /\ build[m].chain \in Members /\ build[m].previous = build[m].parentRoot
      /\ build[m].seq = 0 => build[m].previous = Empty
  BY DEF ArchiveInv, Typed, Built, Writing, At
<1>2. build[m].previous \in Index /\ build[m].seq \in Nat
  BY <1>1 DEF Build
<1>3. /\ Archive(m).changed = Changed(build[m].previous, data)
      /\ Archive(m).deleted = Gone(build[m].previous, data)
      /\ Archive(m).parentRoot = build[m].previous /\ Archive(m).seq = build[m].seq
      /\ Archive(m).root = data
  BY <1>1 DEF Archive
<1>4. /\ Applied(Archive(m), build[m].previous) = data
      /\ Changed(build[m].previous, data) \in Index
      /\ Gone(build[m].previous, data) \in SUBSET Keys
  BY <1>1, <1>2, <1>3, WhatWasWritten
<1>5. Archive(m) \in File
  BY <1>1, <1>2, <1>4 DEF Archive, File
<1>6. Exact(Archive(m))
  BY <1>1, <1>3, <1>4 DEF Exact
<1>7. QED
  BY <1>5, <1>6

(* A fresh name: no archive has it and no row.                             *)
LEMMA Written ==
  ASSUME ArchiveInv, NEW m \in Members, Write(m)
  PROVE  \E f \in FileIds :
           /\ f \notin DOMAIN files /\ f \notin DOMAIN uploads
           /\ \A n \in Members : rows[n].file # f
           /\ DOMAIN files' = DOMAIN files \cup {f} /\ files'[f] = Archive(m)
           /\ \A g \in DOMAIN files : files'[g] = files[g]
           /\ sidecars' = sidecars \cup {f}
           /\ build'[m] = [build[m] EXCEPT !.at = "stored", !.file = f]
           /\ \A n \in Members \ {m} : build'[n] = build[n]
           /\ build' \in [Members -> Build]
<1>1. PICK f \in NewFile :
        /\ files' = With(files, f, Archive(m))
        /\ sidecars' = sidecars \cup {f}
        /\ build' = [build EXCEPT ![m].at = "stored", ![m].file = f]
  BY DEF Write, Archive
<1>2. /\ f \in FileIds /\ f \notin DOMAIN files /\ f \notin DOMAIN uploads
      /\ \A n \in Members : rows[n].file # f
  BY DEF NewFile
<1>3. /\ DOMAIN With(files, f, Archive(m)) = DOMAIN files \cup {f}
      /\ With(files, f, Archive(m))[f] = Archive(m)
      /\ \A g \in DOMAIN files : g # f => With(files, f, Archive(m))[g] = files[g]
  BY DEF With
<1>4. /\ build'[m] = [build[m] EXCEPT !.at = "stored", !.file = f]
      /\ \A n \in Members \ {m} : build'[n] = build[n]
  BY <1>1 DEF ArchiveInv, Typed
<1>5. build[m] \in Build
  BY DEF ArchiveInv, Typed
<1>6. [build[m] EXCEPT !.at = "stored", !.file = f] \in Build
  BY <1>2, <1>5 DEF Build, Steps
<1>7. build' \in [Members -> Build]
  BY <1>1, <1>6 DEF ArchiveInv, Typed
<1>8. QED
  BY <1>1, <1>2, <1>3, <1>4, <1>7

LEMMA WritePreserves ==
  ASSUME ArchiveInv, NEW m \in Members, Write(m)
  PROVE  ArchiveInv'
<1>1. PICK f \in FileIds :
        /\ f \notin DOMAIN files /\ f \notin DOMAIN uploads
        /\ \A n \in Members : rows[n].file # f
        /\ DOMAIN files' = DOMAIN files \cup {f} /\ files'[f] = Archive(m)
        /\ \A g \in DOMAIN files : files'[g] = files[g]
        /\ sidecars' = sidecars \cup {f}
        /\ build'[m] = [build[m] EXCEPT !.at = "stored", !.file = f]
        /\ \A n \in Members \ {m} : build'[n] = build[n]
        /\ build' \in [Members -> Build]
  BY Written
<1>2. /\ At(m, "started") /\ data' = data /\ schema' = schema /\ rows' = rows
      /\ uploads' = uploads /\ doomed' = doomed
  BY DEF Write
<1>3. build'[m].at = "stored" /\ build'[m].file = f /\ build'[m].chain = build[m].chain
  BY <1>1 DEF ArchiveInv, Typed, Build
<1>4. Typed'
  BY <1>1, <1>2 DEF ArchiveInv, Typed
<1>5. Sound(files)' /\ Sound(uploads)'
  BY <1>1, <1>2, ArchiveIs DEF ArchiveInv, Sound
<1>6. \A n \in Members : Placed(n)'
  BY <1>2 DEF ArchiveInv, Placed, Completed
<1>7. \A n \in Members \ {m} : At(n, "stored") => build[n].file \in DOMAIN files
  BY DEF ArchiveInv, Built
<1>8. Built(m)'
  <2>1. build[m].chain \in Members
    BY <1>2 DEF ArchiveInv, Built, Writing, At
  <2>2. \A n \in Members \ {m} : At(n, "stored")' => build'[n].file # f
    BY <1>1, <1>7 DEF At
  <2>3. QED
    BY <1>1, <1>2, <1>3, <2>1, <2>2 DEF Built, Writing, At
<1>9. ASSUME NEW n \in Members \ {m} PROVE Built(n)'
  <2>1. Built(n) /\ build'[n] = build[n]
    BY <1>1 DEF ArchiveInv
  <2>2. \A o \in Members \ {n} : At(n, "stored") /\ At(o, "stored")' => build'[o].file # build[n].file
    <3>1. At(n, "stored") => build[n].file # f
      BY <1>1, <1>7
    <3>2. QED
      BY <1>1, <1>3, <2>1, <3>1 DEF Built, At
  <2>3. QED
    BY <1>1, <1>2, <2>1, <2>2 DEF Built, Writing, At
<1>10. QED
  BY <1>2, <1>4, <1>5, <1>6, <1>8, <1>9 DEF ArchiveInv

(* What completing does to the rows.                                       *)
LEMMA CompletedRow ==
  ASSUME ArchiveInv, NEW m \in Members, Complete(m)
  PROVE  \E later \in Nat :
           LET file == files[build[m].file] IN
           /\ file \in File
           /\ rows'[m] = [rows[m] EXCEPT !.status = "completed", !.parent = Nothing,
                            !.chain = file.chain, !.seq = file.seq, !.file = build[m].file,
                            !.root = file.root, !.schema = file.schema, !.done = later]
           /\ rows'[m] \in Row
           /\ \A n \in Members : rows[n].done < later
           /\ \A n \in Members \ {m} :
                rows'[n] = IF n \in Completed THEN [rows[n] EXCEPT !.parent = Nothing] ELSE rows[n]
           /\ rows' \in [Members -> Row]
<1> DEFINE done == {0} \cup {rows[n].done : n \in Members}
           later == 1 + Max(done)
<1>1. PICK bound \in Nat : \A n \in Members : rows[n].done <= bound
  BY DEF ArchiveInv
<1>2. later \in Nat /\ \A n \in Members : rows[n].done < later
  <2>1. \A n \in Members : rows[n].done \in Nat
    BY DEF ArchiveInv, Typed, Row
  <2>2. done \in SUBSET Nat /\ done # {} /\ \A x \in done : x <= bound
    BY <1>1, <2>1
  <2>3. \A n \in Members : rows[n].done \in done
    OBVIOUS
  <2> HIDE DEF done
  <2>4. \E x \in done : \A y \in done : x >= y
    BY <2>2, GreatestOf
  <2>5. Max(done) \in done /\ \A y \in done : Max(done) >= y
    BY <2>4 DEF Max
  <2>6. Max(done) \in Nat
    BY <2>2, <2>5
  <2>7. QED
    BY <2>1, <2>3, <2>5, <2>6
<1> DEFINE file == files[build[m].file]
           new == [rows[m] EXCEPT !.status = "completed", !.parent = Nothing,
                     !.chain = file.chain, !.seq = file.seq, !.file = build[m].file,
                     !.root = file.root, !.schema = file.schema, !.done = later]
<1>3. rows' = [n \in Members |->
          IF n = m THEN new
          ELSE IF n \in Completed THEN [rows[n] EXCEPT !.parent = Nothing]
          ELSE rows[n]]
  BY DEF Complete
<1> HIDE DEF later
<1>4. build[m].file \in DOMAIN files /\ build[m].file \in FileIds
  BY DEF Complete, ArchiveInv, Built, Typed
<1>5. file \in File
  BY <1>4 DEF ArchiveInv, Sound
<1> HIDE DEF file
<1>6. /\ file.chain \in Members /\ file.seq \in Nat /\ file.root \in Index
      /\ file.schema \in Nat
  BY <1>5 DEF File
<1>7. rows[m] \in Row
  BY DEF ArchiveInv, Typed
<1>8. new \in Row
  BY <1>2, <1>4, <1>6, <1>7 DEF Row, Statuses
<1> HIDE DEF new
<1>9. \A n \in Members \ {m} : [rows[n] EXCEPT !.parent = Nothing] \in Row
  BY DEF ArchiveInv, Typed, Row
<1>10. rows' \in [Members -> Row]
  BY <1>3, <1>8, <1>9 DEF ArchiveInv, Typed
<1>11. rows'[m] = new /\ rows'[m] \in Row
  BY <1>3, <1>8
<1>12. \A n \in Members \ {m} :
         rows'[n] = IF n \in Completed THEN [rows[n] EXCEPT !.parent = Nothing] ELSE rows[n]
  BY <1>3
<1>13. QED
  BY <1>2, <1>5, <1>10, <1>11, <1>12 DEF file, new

LEMMA CompletePreserves ==
  ASSUME ArchiveInv, NEW m \in Members, Complete(m)
  PROVE  ArchiveInv'
<1> DEFINE file == files[build[m].file]
<1>1. PICK later \in Nat :
        /\ file \in File
        /\ rows'[m] = [rows[m] EXCEPT !.status = "completed", !.parent = Nothing,
                         !.chain = file.chain, !.seq = file.seq, !.file = build[m].file,
                         !.root = file.root, !.schema = file.schema, !.done = later]
        /\ rows'[m] \in Row
        /\ \A n \in Members : rows[n].done < later
        /\ \A n \in Members \ {m} :
             rows'[n] = IF n \in Completed THEN [rows[n] EXCEPT !.parent = Nothing] ELSE rows[n]
        /\ rows' \in [Members -> Row]
  BY CompletedRow
<1>2. /\ At(m, "stored") /\ build' = [build EXCEPT ![m] = [Off EXCEPT !.at = "retain"]]
      /\ data' = data /\ schema' = schema /\ files' = files /\ uploads' = uploads
      /\ sidecars' = sidecars /\ doomed' = doomed
  BY DEF Complete
<1>3. rows[m] \in Row /\ \A n \in Members : rows[n] \in Row /\ rows[n].done \in Nat
  BY DEF ArchiveInv, Typed, Row
<1>4. /\ rows'[m].file = build[m].file /\ rows'[m].done = later
      /\ rows'[m].chain = file.chain
  BY <1>1, <1>3 DEF Row
<1>5. ASSUME NEW n \in Members \ {m}
      PROVE  /\ rows'[n].file = rows[n].file /\ rows'[n].done = rows[n].done
             /\ rows'[n].chain = rows[n].chain /\ rows'[n].status = rows[n].status
  <2>1. rows'[n] \in {rows[n], [rows[n] EXCEPT !.parent = Nothing]} /\ rows[n] \in Row
    BY <1>1, <1>3
  <2>2. QED
    BY <2>1 DEF Row
<1>6. /\ build'[m].at = "retain" /\ \A n \in Members \ {m} : build'[n] = build[n]
      /\ build' \in [Members -> Build]
  BY <1>2, OffIsBuild DEF ArchiveInv, Typed
<1>7. Typed'
  BY <1>1, <1>2, <1>6 DEF ArchiveInv, Typed
<1>8. Sound(files)' /\ Sound(uploads)'
  BY <1>2 DEF ArchiveInv, Sound
<1>9. file.chain \in Members
  BY <1>1 DEF File
<1>10. \A n \in Members : Placed(n)'
  BY <1>4, <1>5, <1>9 DEF ArchiveInv, Placed, Completed
<1>11. Built(m)'
  BY <1>6 DEF Built, Writing, At
<1>12. ASSUME NEW n \in Members \ {m} PROVE Built(n)'
  <2>1. Built(n) /\ build'[n] = build[n]
    BY <1>6 DEF ArchiveInv
  <2>2. At(n, "stored") => \A o \in Members : rows'[o].file # build[n].file
    <3>1. At(n, "stored") => build[m].file # build[n].file
      BY <1>2 DEF ArchiveInv, Built
    <3>2. QED
      BY <1>4, <1>5, <2>1, <3>1 DEF Built
  <2>3. \A o \in Members \ {n} : At(o, "stored")' => At(o, "stored") /\ build'[o] = build[o]
    BY <1>6 DEF At
  <2>4. QED
    BY <1>2, <2>1, <2>2, <2>3 DEF Built, Writing, At
<1>13. \A n \in Members : rows'[n].done <= later
  <2>1. \A n \in Members : rows[n].done <= later
    BY <1>1, <1>3
  <2>2. QED
    BY <1>4, <1>5, <2>1
<1>14. QED
  BY <1>7, <1>8, <1>10, <1>11, <1>12, <1>13 DEF ArchiveInv

LEMMA RemoveFilePreserves ==
  ASSUME ArchiveInv, NEW d \in Deleters, RemoveFile(d)
  PROVE  ArchiveInv'
<1>1. PICK m \in Members : files' = Without(files, rows[m].file)
  BY DEF RemoveFile, NextOut, ArchiveInv, Typed
<1>2. /\ DOMAIN files' = DOMAIN files \ {rows[m].file}
      /\ \A f \in DOMAIN files' : files'[f] = files[f]
  BY <1>1, WithoutIs
<1>3. /\ data' = data /\ schema' = schema /\ rows' = rows /\ uploads' = uploads
      /\ build' = build /\ doomed' = doomed
  BY DEF RemoveFile
<1>4. sidecars' \subseteq FileIds
  BY DEF RemoveFile, ArchiveInv, Typed
<1>5. Typed'
  BY <1>2, <1>3, <1>4 DEF ArchiveInv, Typed
<1>6. Sound(files)' /\ Sound(uploads)'
  BY <1>2, <1>3 DEF ArchiveInv, Sound
<1>7. \A n \in Members : Placed(n)' /\ Built(n)'
  BY <1>2, <1>3 DEF ArchiveInv, Placed, Completed, Built, Writing, At
<1>8. QED
  BY <1>3, <1>5, <1>6, <1>7 DEF ArchiveInv

LEMMA ArchivesInductive == ArchiveInv /\ [Next]_chains => ArchiveInv'
<1> SUFFICES ASSUME ArchiveInv, [Next]_chains PROVE ArchiveInv'
  OBVIOUS
<1>1. ASSUME NEW m \in Members, CreateManual(m) \/ CreateScheduled(m) \/ Run(m) \/ Delete(m)
      PROVE  ArchiveInv'
  BY <1>1, CreatePreserves, StartPreserves, WritePreserves, CompletePreserves,
     SetbacksPreserve, OthersPreserve DEF Run
<1>2. ASSUME NEW d \in Deleters, RemoveFile(d) \/ RemoveRow(d) \/ Abandon(d)
      PROVE  ArchiveInv'
  BY <1>2, RemoveFilePreserves, OthersPreserve
<1>3. ASSUME NEW f \in DOMAIN Stored, Restore(f) PROVE ArchiveInv'
  BY <1>3, RestorePreserves
<1>4. QED
  BY <1>1, <1>2, <1>3, OthersPreserve DEF Next

(* Rows, archives and builds keep their types, through every overlap,      *)
(* failure and kill; a restore gives the site well-typed rows again.       *)
THEOREM TypeCorrect == Spec => []ChainsTypeOK
BY InitHolds, ArchivesInductive, TypesFollow, PTL DEF Spec

(* Restoring any archive that resolves, however long its chain, gives      *)
(* exactly what its index describes: whatever was left behind by killed    *)
(* attempts, uploaded again, deleted half-way or built at the same time.   *)
THEOREM RestoresAreExact == Spec => []RestoreIsExact
BY InitHolds, ArchivesInductive, ExactlyRestored, PTL DEF Spec

-----------------------------------------------------------------------------
(* Chains, when backups, Resumes and deletions wait for each other.        *)
(* Failures, kills, uploads and deletions given up half-way may happen.    *)

Orderly == "overlap" \notin Hazards

Busy(m) == m \in Active \/ ~At(m, "off")

Kept(m) == rows[m].file \in DOMAIN files

(* One row is asked for, built or pruned after, or one deletion goes on.   *)
AloneInv ==
  /\ \A m, n \in Members : Busy(m) /\ Busy(n) => m = n
  /\ \A m \in Members, d \in Deleters : Busy(m) => doomed[d] = {}
  /\ \A d, e \in Deleters : doomed[d] # {} /\ doomed[e] # {} => d = e
  /\ \A m \in Members :
       /\ rows[m].status = "running" <=> Writing(m)
       /\ At(m, "retain") => m \in Completed /\ Kept(m)
       /\ m \notin Completed => rows[m].chain = Nothing /\ rows[m].file = Nothing

Later(m, n) == rows[n].chain = rows[m].chain /\ rows[n].seq > rows[m].seq

(* Whatever follows a member that is to go is to go as well, and pruning   *)
(* spares the row that was completed before it, and its archive.           *)
DoomInv ==
  \A d \in Deleters : \A m \in doomed[d] :
    /\ rows[m].status \in {"completed", "failed"}
    /\ m \in Completed => \A n \in Completed : Later(m, n) => n \in doomed[d]
    /\ d # Operator => d \in Completed /\ d \notin doomed[d] /\ Kept(d)

(* What the archive of a completed member says is what its row says.       *)
Recorded(m) ==
  LET file == files[rows[m].file]
  IN file.chain = rows[m].chain /\ file.seq = rows[m].seq /\ file.root = rows[m].root

(* p is at the place before m and is what the archive of m was taken of;   *)
(* if its archive is gone, its sidecar is not.                             *)
Continued(p, m) ==
  /\ rows[p].chain = rows[m].chain /\ rows[p].seq + 1 = rows[m].seq
  /\ Kept(p) \/ rows[p].file \in sidecars
  /\ Kept(m) => files[rows[m].file].parentRoot = rows[p].root

(* A completed member has its base and the member it continues.            *)
Chained(m) ==
  /\ rows[m].file # Nothing
  /\ rows[m].seq = 0 <=> rows[m].chain = m
  /\ rows[m].chain \in Completed /\ rows[rows[m].chain].chain = rows[m].chain
  /\ Kept(m) => Recorded(m)
  /\ rows[m].seq # 0 => \E p \in Completed : Continued(p, m)

(* x completed before y, at the place of y or a later one, though the two  *)
(* are apart: then what y continues completed after x as well.             *)
Behind(x, y) ==
  /\ rows[x].chain = rows[y].chain /\ rows[x].done < rows[y].done
  /\ rows[x].seq >= rows[y].seq /\ Apart(x, y)
  => \E p \in Completed : /\ rows[p].chain = rows[y].chain /\ rows[p].seq + 1 = rows[y].seq
                          /\ rows[x].done < rows[p].done

(* No two members share a number or an archive, or belong to one chain     *)
(* with different scopes.                                                  *)
Linked(m, n) ==
  /\ rows[m].chain = rows[n].chain => rows[m].scope = rows[n].scope
  /\ rows[m].done = rows[n].done => m = n
  /\ rows[m].file = rows[n].file => m = n
  /\ Behind(m, n)

ChainInv ==
  /\ \A m \in Completed : Chained(m)
  /\ \A m, n \in Completed : Linked(m, n)

(* What had completed when a row was requested can only have gone since.   *)
BornInv ==
  \A m \in Members : \A n \in rows[m].before : rows[n].status \in {"completed", "gone"}

(* A row that is not completed has, if any, a parent that no later member  *)
(* had outlived in the order of completion when it was requested; this is  *)
(* so of a failed row as well, which a Resume may run.                     *)
Follows(m) ==
  LET p == rows[m].parent
  IN /\ p \in Completed /\ rows[p].scope = rows[m].scope
     /\ \A x \in Completed : Later(p, x) /\ x \in rows[m].before => rows[x].done < rows[p].done

(* What the runner of an increment read of its parent is still true.       *)
Reads(m) ==
  LET p == rows[m].parent
  IN /\ p # Nothing /\ rows[p].file \in sidecars
     /\ build[m].chain = rows[p].chain /\ build[m].seq = rows[p].seq + 1
     /\ build[m].parentRoot = rows[p].root

Opens(m) == build[m].chain = m /\ build[m].seq = 0

Stamped(m) ==
  LET file == files[build[m].file]
  IN /\ file.chain = build[m].chain /\ file.seq = build[m].seq
     /\ file.parentRoot = build[m].parentRoot

ParentInv ==
  /\ \A m \in Members \ Completed : rows[m].parent # Nothing => Follows(m)
  /\ \A m \in Active :
       /\ Writing(m) /\ rows[m].increment => Reads(m)
       /\ Writing(m) /\ ~rows[m].increment => Opens(m)
       /\ At(m, "stored") => Stamped(m)

OrderInv == AloneInv /\ DoomInv /\ ChainInv /\ BornInv /\ ParentInv

(* Two members at one place are in the order of completion, so one is      *)
(* behind the other; were all members apart, each such pair would have one *)
(* at an earlier place, without end.                                       *)
LEMMA ForksFollow ==
  ASSUME ArchiveInv, OrderInv
  PROVE  LinearWhenApart
<1> SUFFICES ASSUME NEW m \in Completed, NEW n \in Completed, m # n,
                    rows[m].chain = rows[n].chain, rows[m].seq = rows[n].seq,
                    \A x, y \in Completed :
                      rows[x].chain = rows[m].chain /\ rows[y].chain = rows[m].chain /\ x # y
                      => Apart(x, y)
             PROVE  FALSE
  BY DEF LinearWhenApart
<1> DEFINE Passed(x, y) == /\ rows[x].chain = rows[m].chain /\ rows[y].chain = rows[m].chain
                           /\ rows[x].done < rows[y].done /\ rows[x].seq >= rows[y].seq
           Places == {i \in Nat : \E x, y \in Completed : Passed(x, y) /\ rows[y].seq = i}
<1>1. \A x \in Completed : rows[x].seq \in Nat /\ rows[x].done \in Nat
  BY DEF ArchiveInv, Typed, Row, Completed
<1>2. Passed(m, n) \/ Passed(n, m)
  <2>1. rows[m].done # rows[n].done
    BY DEF OrderInv, ChainInv, Linked
  <2>2. QED
    BY <1>1, <2>1
<1>3. Places # {}
  <2>1. rows[m].seq \in Nat /\ rows[n].seq \in Nat
    BY <1>1
  <2> HIDE DEF Passed
  <2>2. rows[n].seq \in Places \/ rows[m].seq \in Places
    BY <1>2, <2>1
  <2>3. QED
    BY <2>2
<1>4. PICK i \in Places : \A j \in Places : i <= j
  <2>1. Places \in SUBSET Nat
    OBVIOUS
  <2> HIDE DEF Places
  <2>2. QED
    BY <1>3, <2>1, LeastOf
<1>5. PICK x \in Completed, y \in Completed : Passed(x, y) /\ rows[y].seq = i
  OBVIOUS
<1>6. x # y /\ Apart(x, y)
  BY <1>1, <1>5
<1>7. PICK p \in Completed : /\ rows[p].chain = rows[y].chain /\ rows[p].seq + 1 = rows[y].seq
                             /\ rows[x].done < rows[p].done
  BY <1>5, <1>6 DEF OrderInv, ChainInv, Linked, Behind
<1>8. Passed(x, p) /\ rows[p].seq \in Nat
  BY <1>1, <1>5, <1>7
<1>9. rows[p].seq \in Places
  <2> HIDE DEF Passed
  <2>1. QED
    BY <1>8
<1>10. i <= rows[p].seq /\ rows[p].seq + 1 = i
  BY <1>4, <1>5, <1>7, <1>9
<1>11. QED
  BY <1>8, <1>10

(* How far down a member resolves: the first one, by place, whose archive  *)
(* does not would continue one whose archive does.                         *)
LEMMA MembersResolve ==
  ASSUME ArchiveInv, OrderInv
  PROVE  KeptIsRestorable
<1> DEFINE Lost(m) == \E n \in Completed : /\ rows[n].chain = rows[m].chain
                                           /\ rows[n].seq < rows[m].seq
                                           /\ rows[n].file \in sidecars \ DOMAIN files
           Bad == {m \in Completed : Kept(m) /\ Resolutions(rows[m].file) = {} /\ ~Lost(m)}
           Places == {i \in Nat : \E m \in Bad : rows[m].seq = i}
<1>1. SUFFICES ASSUME Bad # {} PROVE FALSE
  BY DEF KeptIsRestorable, Kept
<1>2. /\ \A m \in Completed : rows[m].seq \in Nat
      /\ \A f \in DOMAIN files : f \in DOMAIN Stored /\ Stored[f] = files[f]
  BY DEF ArchiveInv, Typed, Row, Completed, Stored
<1>3. PICK m \in Bad : \A n \in Bad : rows[m].seq <= rows[n].seq
  <2>1. Places \in SUBSET Nat
    OBVIOUS
  <2>2. Places # {}
    <3>1. PICK n \in Bad : TRUE
      BY <1>1
    <3>2. rows[n].seq \in Nat
      BY <1>2
    <3> HIDE DEF Bad
    <3>3. rows[n].seq \in Places
      BY <3>2
    <3>4. QED
      BY <3>3
  <2>3. \A n \in Bad : rows[n].seq \in Nat
    BY <1>2
  <2>4. PICK i \in Places : \A j \in Places : i <= j
    <3> HIDE DEF Places
    <3>1. QED
      BY <2>1, <2>2, LeastOf
  <2> HIDE DEF Bad
  <2>5. QED
    BY <2>3, <2>4
<1> DEFINE f == rows[m].file
           N == rows[m].seq
<1>4. /\ m \in Completed /\ Kept(m) /\ Resolutions(f) = {} /\ ~Lost(m)
      /\ N \in Nat /\ f \in DOMAIN files /\ f \in DOMAIN Stored /\ Stored[f] = files[f]
      /\ Chained(m) /\ Recorded(m)
  BY <1>2 DEF Kept, OrderInv, ChainInv, Chained
<1>5. Stored[f].chain = rows[m].chain /\ Stored[f].seq = N /\ Stored[f].root = rows[m].root
  BY <1>4 DEF Recorded
<1>6. CASE N = 0
  <2> DEFINE path == [i \in 0..0 |-> f]
  <2>1. /\ path \in [0..Stored[f].seq -> DOMAIN Stored] /\ path[Stored[f].seq] = f
        /\ Stored[path[0]].seq = 0 /\ 1..Stored[f].seq = {}
    BY <1>4, <1>5, <1>6
  <2> HIDE DEF path
  <2>2. path \in Resolutions(f)
    BY <2>1 DEF Resolutions
  <2>3. QED
    BY <1>4, <2>2
<1>7. CASE N # 0
  <2>1. PICK p \in Completed : Continued(p, m)
    BY <1>4, <1>7 DEF Chained
  <2>2. /\ rows[p].chain = rows[m].chain /\ rows[p].seq + 1 = N /\ rows[p].seq \in Nat
        /\ files[f].parentRoot = rows[p].root
    BY <1>2, <1>4, <2>1 DEF Continued
  <2>3. rows[p].seq < N
    BY <1>4, <2>2
  <2>4. Kept(p)
    BY <1>4, <2>1, <2>2, <2>3 DEF Continued, Kept
  <2>5. ~Lost(p)
    <3>1. SUFFICES ASSUME NEW n \in Completed, rows[n].chain = rows[p].chain,
                          rows[n].seq < rows[p].seq, rows[n].file \in sidecars \ DOMAIN files
                   PROVE  FALSE
      OBVIOUS
    <3>2. rows[n].seq < N /\ rows[n].chain = rows[m].chain
      BY <1>2, <1>4, <2>2, <2>3, <3>1
    <3>3. QED
      BY <1>4, <3>1, <3>2
  <2>6. ~(N <= rows[p].seq)
    BY <1>4, <2>2, <2>3
  <2>7. p \notin Bad
    BY <1>3, <2>6
  <2>8. PICK path : path \in Resolutions(rows[p].file)
    BY <2>4, <2>5, <2>7
  <2> DEFINE g == rows[p].file
             longer == [i \in 0..N |-> IF i = N THEN f ELSE path[i]]
  <2>9. /\ g \in DOMAIN Stored /\ Stored[g] = files[g] /\ Recorded(p)
    BY <1>2, <2>4 DEF Kept, OrderInv, ChainInv, Chained
  <2>10. Stored[g].chain = rows[m].chain /\ Stored[g].seq = N - 1 /\ Stored[g].root = rows[p].root
    BY <1>4, <2>2, <2>9 DEF Recorded
  <2>11. /\ path \in [0..(N - 1) -> DOMAIN Stored] /\ path[N - 1] = g
         /\ Stored[path[0]].seq = 0
         /\ \A i \in 1..(N - 1) : Continues(path[i - 1], path[i])
    BY <2>8, <2>10 DEF Resolutions
  <2> HIDE DEF g
  <2>12. Continues(g, f)
    BY <1>4, <1>5, <2>2, <2>10 DEF Continues
  <2>13. longer \in [0..N -> DOMAIN Stored] /\ longer[N] = f /\ longer[0] = path[0]
    <3>1. \A i \in 0..N : i # N => i \in 0..(N - 1)
      BY <1>4
    <3>2. 0 \in 0..N /\ N \in 0..N
      BY <1>4
    <3>3. QED
      BY <1>4, <1>7, <2>11, <3>1, <3>2
  <2>14. ASSUME NEW i \in 1..N PROVE Continues(longer[i - 1], longer[i])
    <3>1. i \in 0..N /\ i - 1 \in 0..N /\ i - 1 # N
      BY <1>4
    <3>2. CASE i = N
      BY <2>11, <2>12, <3>1, <3>2
    <3>3. CASE i # N
      <4>1. i \in 1..(N - 1)
        BY <1>4, <3>3
      <4>2. longer[i] = path[i] /\ longer[i - 1] = path[i - 1]
        BY <3>1, <3>3
      <4>3. QED
        BY <2>11, <4>1, <4>2
    <3>4. QED
      BY <3>2, <3>3
  <2> HIDE DEF longer
  <2>15. longer \in Resolutions(f)
    BY <1>5, <2>11, <2>13, <2>14 DEF Resolutions
  <2>16. QED
    BY <1>4, <2>15
<1>8. QED
  BY <1>6, <1>7

LEMMA InitIsOrderly == Init => OrderInv
<1> SUFFICES ASSUME Init PROVE OrderInv
  OBVIOUS
<1>1. /\ Completed = {} /\ Active = {}
      /\ \A m \in Members : /\ At(m, "off") /\ ~Writing(m) /\ rows[m].status = "none"
                            /\ rows[m].chain = Nothing /\ rows[m].file = Nothing
                            /\ rows[m].parent = Nothing /\ rows[m].before = {}
      /\ \A d \in Deleters : doomed[d] = {}
  BY DEF Init, NoRow, Off, Completed, Active, At, Writing
<1>2. AloneInv
  BY <1>1 DEF AloneInv, Busy, At
<1>3. DoomInv /\ ChainInv /\ BornInv /\ ParentInv
  BY <1>1 DEF DoomInv, ChainInv, BornInv, ParentInv
<1>4. QED
  BY <1>2, <1>3 DEF OrderInv

(* While m is busy, nothing else is, and nothing is to be deleted.         *)
LEMMA NobodyElse ==
  ASSUME ArchiveInv, OrderInv, NEW m \in Members, Busy(m)
  PROVE  /\ \A n \in Members \ {m} : n \notin Active /\ At(n, "off") /\ ~Writing(n)
         /\ \A d \in Deleters : doomed[d] = {}
<1>1. \A n \in Members \ {m} : ~Busy(n)
  BY DEF OrderInv, AloneInv
<1>2. \A n \in Members \ {m} : n \notin Active /\ At(n, "off") /\ ~Writing(n)
  BY <1>1 DEF Busy, At, Writing
<1>3. \A d \in Deleters : doomed[d] = {}
  BY DEF OrderInv, AloneInv
<1>4. QED
  BY <1>2, <1>3

(* What m alone does.                                                      *)
LEMMA OneMoves ==
  ASSUME ArchiveInv, OrderInv, NEW m \in Members,
         \A n \in Members : Busy(n) => n = m,
         \A d \in Deleters : doomed[d] = {},
         \A n \in Members \ {m} :
           /\ rows'[n].status = rows[n].status /\ rows'[n].chain = rows[n].chain
           /\ rows'[n].file = rows[n].file /\ build'[n] = build[n],
         doomed' = doomed,
         rows'[m].status = "running" <=> Writing(m)',
         At(m, "retain")' => rows'[m].status = "completed" /\ Kept(m)',
         rows'[m].status # "completed" => rows'[m].chain = Nothing /\ rows'[m].file = Nothing
  PROVE  AloneInv'
<1>1. \A n \in Members \ {m} : /\ ~Busy(n) /\ (Busy(n)' <=> Busy(n))
                               /\ (n \in Completed' <=> n \in Completed)
                               /\ (Writing(n)' <=> Writing(n))
                               /\ ~At(n, "retain")'
  BY DEF Busy, Active, At, Completed, Writing
<1>2. \A n \in Members \ {m} :
        /\ rows'[n].status = "running" <=> Writing(n)'
        /\ n \notin Completed' => rows'[n].chain = Nothing /\ rows'[n].file = Nothing
  BY <1>1 DEF OrderInv, AloneInv
<1>3. /\ At(m, "retain")' => m \in Completed' /\ Kept(m)'
      /\ m \notin Completed' => rows'[m].chain = Nothing /\ rows'[m].file = Nothing
  BY DEF Completed
<1>4. \A n \in Members :
        /\ rows'[n].status = "running" <=> Writing(n)'
        /\ At(n, "retain")' => n \in Completed' /\ Kept(n)'
        /\ n \notin Completed' => rows'[n].chain = Nothing /\ rows'[n].file = Nothing
  BY <1>1, <1>2, <1>3
<1>5. \A n, o \in Members : Busy(n)' /\ Busy(o)' => n = o
  BY <1>1
<1>6. QED
  BY <1>4, <1>5 DEF AloneInv

(* Neither completed rows nor their archives change.                       *)
LEMMA ChainsStay ==
  ASSUME ArchiveInv, ChainInv, Completed' = Completed,
         \A n \in Completed :
           /\ rows'[n].chain = rows[n].chain /\ rows'[n].seq = rows[n].seq
           /\ rows'[n].file = rows[n].file /\ rows'[n].root = rows[n].root
           /\ rows'[n].scope = rows[n].scope /\ rows'[n].done = rows[n].done
           /\ rows'[n].before = rows[n].before
           /\ rows[n].file \in DOMAIN files' <=> rows[n].file \in DOMAIN files
           /\ rows[n].file \in sidecars => rows[n].file \in sidecars'
           /\ Kept(n) => files'[rows[n].file] = files[rows[n].file]
  PROVE  ChainInv'
<1>1. ASSUME NEW n \in Completed
      PROVE  /\ Kept(n)' <=> Kept(n)
             /\ Kept(n) => files'[rows'[n].file] = files[rows[n].file]
  BY DEF Kept
<1>2. ASSUME NEW n \in Completed PROVE Chained(n)'
  <2>1. Chained(n)
    BY DEF ChainInv
  <2>2. Kept(n)' => Recorded(n)'
    BY <1>1, <2>1 DEF Chained, Recorded
  <2>3. rows'[n].seq # 0 => \E p \in Completed' : Continued(p, n)'
    <3>1. SUFFICES ASSUME rows[n].seq # 0 PROVE \E p \in Completed' : Continued(p, n)'
      OBVIOUS
    <3>2. PICK p \in Completed : Continued(p, n)
      BY <2>1, <3>1 DEF Chained
    <3>3. Continued(p, n)'
      BY <1>1, <3>2 DEF Continued
    <3>4. QED
      BY <3>3
  <2>4. /\ rows'[n].chain \in Completed' /\ rows'[rows'[n].chain].chain = rows'[n].chain
    BY <2>1 DEF Chained
  <2>5. QED
    BY <2>1, <2>2, <2>3, <2>4 DEF Chained
<1>3. ASSUME NEW m \in Completed, NEW n \in Completed PROVE Linked(m, n)'
  <2>1. Linked(m, n)
    BY DEF ChainInv
  <2>2. Behind(m, n)'
    BY <2>1 DEF Linked, Behind, Apart
  <2>3. QED
    BY <2>1, <2>2 DEF Linked
<1>4. QED
  BY <1>2, <1>3 DEF ChainInv

(* The site changes, is migrated or restored, or an archive is uploaded.   *)
LEMMA SiteKeepsOrder ==
  ASSUME ArchiveInv, OrderInv, rows' = rows, files' = files, sidecars' = sidecars,
         build' = build, doomed' = doomed
  PROVE  OrderInv'
<1>1. Completed' = Completed /\ Active' = Active
  BY DEF Completed, Active
<1>2. AloneInv'
  BY <1>1 DEF OrderInv, AloneInv, Busy, Writing, At, Kept
<1>3. DoomInv'
  BY <1>1 DEF OrderInv, DoomInv, Later, Kept
<1>4. ChainInv'
  BY <1>1, ChainsStay DEF OrderInv
<1>5. ParentInv' /\ BornInv'
  BY <1>1 DEF OrderInv, ParentInv, BornInv, Follows, Reads, Opens, Stamped, Later, Writing, At
<1>6. QED
  BY <1>2, <1>3, <1>4, <1>5 DEF OrderInv

(* The row of m changes, and it was not and is not completed: what remains *)
(* to be seen is what m is to continue.                                    *)
LEMMA RowMoves ==
  ASSUME ArchiveInv, OrderInv, NEW m \in Members, rows[m].status \notin {"completed", "gone"},
         \A n \in Members : Busy(n) => n = m,
         \A d \in Deleters : doomed[d] = {}, doomed' = doomed,
         rows' = [rows EXCEPT ![m] = rows'[m]], rows'[m].status # "completed",
         rows'[m].chain = Nothing, rows'[m].file = Nothing,
         rows'[m].before \in {rows[m].before, Completed},
         rows'[m].status = "running" <=> Writing(m)', ~At(m, "retain")',
         \A n \in Members \ {m} : build'[n] = build[n],
         \A n \in Completed : /\ rows[n].file \in DOMAIN files' <=> rows[n].file \in DOMAIN files
                              /\ rows[n].file \in sidecars => rows[n].file \in sidecars'
                              /\ Kept(n) => files'[rows[n].file] = files[rows[n].file],
         rows'[m].parent # Nothing => Follows(m)',
         m \in Active' => /\ Writing(m)' /\ rows'[m].increment => Reads(m)'
                          /\ Writing(m)' /\ ~rows'[m].increment => Opens(m)'
                          /\ At(m, "stored")' => Stamped(m)'
  PROVE  OrderInv'
<1>1. rows \in [Members -> Row] /\ \A n \in Members \ {m} : rows'[n] = rows[n]
  BY DEF ArchiveInv, Typed
<1>2. Completed' = Completed /\ \A n \in Completed : rows'[n] = rows[n]
  BY <1>1 DEF Completed
<1>3. AloneInv'
  BY <1>1, OneMoves
<1>4. DoomInv'
  BY DEF DoomInv
<1>5. ChainInv'
  BY <1>2, ChainsStay DEF OrderInv
<1>6. BornInv'
  <2>1. ASSUME NEW n \in Members, NEW o \in rows[n].before \cup Completed
        PROVE  rows'[o].status \in {"completed", "gone"}
    <3>1. rows[o].status \in {"completed", "gone"}
      BY DEF OrderInv, BornInv, Completed
    <3>2. o \in Members
      BY <1>1 DEF Row, Completed
    <3>3. QED
      BY <1>1, <3>1, <3>2
  <2>2. QED
    BY <1>1, <2>1 DEF BornInv
<1>7. ParentInv'
  <2>1. \A n \in Active' : n = m
    BY <1>1 DEF Busy, Active
  <2>2. ASSUME NEW n \in Members \ Completed', rows'[n].parent # Nothing PROVE Follows(n)'
    <3>1. CASE n = m
      BY <2>2, <3>1
    <3>2. CASE n # m
      <4>1. Follows(n) /\ rows'[n] = rows[n]
        BY <1>1, <1>2, <2>2, <3>2 DEF OrderInv, ParentInv
      <4>2. QED
        BY <1>2, <4>1 DEF Follows, Later
    <3>3. QED
      BY <3>1, <3>2
  <2>3. QED
    BY <2>1, <2>2 DEF ParentInv
<1>8. QED
  BY <1>3, <1>4, <1>5, <1>6, <1>7 DEF OrderInv

(* An automatic or picked head is the last of its chain, by place or by    *)
(* completion.                                                             *)
LEMMA HeadsAreLast ==
  ASSUME ArchiveInv, ChainInv, NEW S \in SUBSET Scopes,
         NEW head \in AutomaticHead(S) \cup PickedHead
  PROVE  /\ head \in Completed
         /\ \A x \in Completed : Later(head, x) => rows[x].done < rows[head].done
<1>1. CASE head \in PickedHead
  BY <1>1 DEF PickedHead, HasLater, Later
<1>2. CASE head \in AutomaticHead(S)
  <2>1. /\ head \in Completed /\ rows[head].scope \in S
        /\ \A n \in Completed : rows[n].scope \in S => rows[n].done <= rows[head].done
    BY <1>2 DEF AutomaticHead, Newest
  <2>2. ASSUME NEW x \in Completed, Later(head, x)
        PROVE  rows[x].done < rows[head].done
    <3>1. /\ rows[x].scope = rows[head].scope
          /\ rows[x].done = rows[head].done => x = head
      BY <2>1, <2>2 DEF ChainInv, Linked, Later
    <3>2. /\ rows[x].seq \in Nat /\ rows[head].seq \in Nat
          /\ rows[x].done \in Nat /\ rows[head].done \in Nat
      BY <2>1 DEF ArchiveInv, Typed, Row, Completed
    <3>3. rows[x].done <= rows[head].done /\ x # head
      BY <2>1, <2>2, <3>1, <3>2 DEF Later
    <3>4. QED
      BY <3>1, <3>2, <3>3
  <2>3. QED
    BY <2>1, <2>2
<1>3. QED
  BY <1>1, <1>2

LEMMA CreateKeepsOrder ==
  ASSUME Orderly, ArchiveInv, OrderInv, NEW m \in Members,
         CreateManual(m) \/ CreateScheduled(m)
  PROVE  OrderInv'
<1>1. /\ \A n \in Members : ~Busy(n)
      /\ \A d \in Deleters : doomed[d] = {}
  BY DEF Orderly, CreateManual, CreateScheduled, Alone, Idle, Busy, At
<1>2. ASSUME NEW row \in Row, row.status = "pending", row.chain = Nothing, row.file = Nothing,
             row.before = Completed, Add(m, row),
             row.parent # Nothing =>
               /\ row.parent \in Completed /\ rows[row.parent].scope = row.scope
               /\ \A x \in Completed : Later(row.parent, x) => rows[x].done < rows[row.parent].done
      PROVE  OrderInv'
  <2>1. /\ rows' = [rows EXCEPT ![m] = row] /\ rows'[m] = row
        /\ rows[m].status = "none"
        /\ files' = files /\ sidecars' = sidecars /\ build' = build /\ doomed' = doomed
    BY <1>2 DEF Add, Unused, ArchiveInv, Typed
  <2>2. ~Writing(m)' /\ ~At(m, "retain")' /\ ~At(m, "stored")'
    BY <1>1, <2>1 DEF Busy, Writing, At
  <2>3. rows'[m].parent # Nothing => Follows(m)'
    <3>1. \A n \in Completed : rows'[n] = rows[n]
      BY <2>1 DEF ArchiveInv, Typed, Completed
    <3>2. Completed' = Completed
      BY <1>2, <2>1 DEF ArchiveInv, Typed, Completed
    <3>3. QED
      BY <1>2, <2>1, <3>1, <3>2 DEF Follows, Later
  <2>4. QED
    BY <1>1, <1>2, <2>1, <2>2, <2>3, RowMoves
<1>3. ASSUME NEW scope \in Scopes, Add(m, NewFull(scope)) PROVE OrderInv'
  <2>1. /\ NewFull(scope).status = "pending" /\ NewFull(scope).file = Nothing
        /\ NewFull(scope).chain = Nothing /\ NewFull(scope).parent = Nothing
        /\ NewFull(scope).before = Completed
    BY DEF NewFull, NoRow
  <2>2. QED
    BY <1>2, <1>3, <2>1, NewRows DEF ArchiveInv
<1>4. ASSUME NEW S \in SUBSET Scopes, NEW head \in AutomaticHead(S) \cup PickedHead,
             Add(m, NewIncrement(head))
      PROVE  OrderInv'
  <2>1. /\ NewIncrement(head).status = "pending" /\ NewIncrement(head).file = Nothing
        /\ NewIncrement(head).chain = Nothing /\ NewIncrement(head).parent = head
        /\ NewIncrement(head).scope = rows[head].scope
        /\ NewIncrement(head).before = Completed
    BY DEF NewIncrement, NewFull, NoRow
  <2>2. /\ head \in Completed
        /\ \A x \in Completed : Later(head, x) => rows[x].done < rows[head].done
    BY <1>4, HeadsAreLast DEF OrderInv
  <2>3. NewIncrement(head) \in Row
    BY <2>2, NewRows DEF ArchiveInv, Completed
  <2>4. QED
    BY <1>2, <1>4, <2>1, <2>2, <2>3
<1>5. "site" \in Scopes /\ {"site"} \in SUBSET Scopes /\ Scopes \in SUBSET Scopes
  BY DEF Scopes
<1>6. CASE CreateManual(m)
  <2>1. \/ \E scope \in Scopes : Add(m, NewFull(scope))
        \/ \E head \in AutomaticHead(Scopes) \cup PickedHead : Add(m, NewIncrement(head))
    BY <1>6 DEF CreateManual
  <2>2. QED
    BY <1>3, <1>4, <1>5, <2>1
<1>7. CASE CreateScheduled(m)
  <2>1. \/ \E head \in AutomaticHead({"site"}) : Add(m, NewIncrement(head))
        \/ Add(m, NewFull("site"))
    BY <1>7 DEF CreateScheduled
  <2>2. QED
    BY <1>3, <1>4, <1>5, <2>1
<1>8. QED
  BY <1>6, <1>7

(* The row of m gets another status, and nothing else of it changes.       *)
LEMMA NewStatus ==
  ASSUME ArchiveInv, NEW m \in Members, NEW next \in Statuses,
         rows' = [rows EXCEPT ![m].status = next]
  PROVE  /\ rows' = [rows EXCEPT ![m] = rows'[m]]
         /\ rows'[m].status = next /\ rows'[m].chain = rows[m].chain
         /\ rows'[m].file = rows[m].file /\ rows'[m].increment = rows[m].increment
         /\ rows'[m].parent = rows[m].parent /\ rows'[m].scope = rows[m].scope
         /\ rows'[m].before = rows[m].before
         /\ \A n \in Members \ {m} : rows'[n] = rows[n]
<1>1. rows \in [Members -> Row] /\ rows[m] \in Row
  BY DEF ArchiveInv, Typed
<1>2. rows' = [rows EXCEPT ![m] = [rows[m] EXCEPT !.status = next]]
  BY <1>1
<1>3. rows'[m] = [rows[m] EXCEPT !.status = next]
  BY <1>1, <1>2
<1>4. QED
  BY <1>1, <1>2, <1>3 DEF Row

(* The parent of a row that is not completed is as good as it was.         *)
LEMMA StillFollows ==
  ASSUME ArchiveInv, OrderInv, NEW m \in Members, m \notin Completed, rows[m].parent # Nothing,
         Completed' = Completed, \A n \in Completed : rows'[n] = rows[n],
         rows'[m].parent = rows[m].parent, rows'[m].scope = rows[m].scope,
         rows'[m].before = rows[m].before
  PROVE  Follows(m)'
<1>1. Follows(m)
  BY DEF OrderInv, ParentInv
<1>2. QED
  BY <1>1 DEF Follows, Later

LEMMA ResumeKeepsOrder ==
  ASSUME Orderly, ArchiveInv, OrderInv, NEW m \in Members, Resume(m)
  PROVE  OrderInv'
<1>1. /\ \A n \in Members : ~Busy(n)
      /\ \A d \in Deleters : doomed[d] = {}
  BY DEF Orderly, Resume, Alone, Idle, Busy, At
<1>2. /\ rows' = [rows EXCEPT ![m] = rows'[m]]
      /\ rows'[m].status = "pending" /\ rows'[m].chain = rows[m].chain
      /\ rows'[m].file = rows[m].file /\ rows'[m].parent = rows[m].parent
      /\ rows'[m].scope = rows[m].scope /\ rows'[m].before = rows[m].before
      /\ \A n \in Members \ {m} : rows'[n] = rows[n]
  BY NewStatus DEF Resume, Statuses
<1>3. rows[m].status = "failed" /\ m \notin Completed
  BY DEF Resume, Completed
<1>4. /\ files' = files /\ sidecars' = sidecars /\ build' = build /\ doomed' = doomed
      /\ rows[m].chain = Nothing /\ rows[m].file = Nothing
  BY <1>3 DEF Resume, OrderInv, AloneInv
<1>5. ~Writing(m)' /\ ~At(m, "retain")' /\ ~At(m, "stored")'
  BY <1>1, <1>4 DEF Busy, Writing, At
<1>6. rows'[m].parent # Nothing => Follows(m)'
  <2>1. Completed' = Completed /\ \A n \in Completed : rows'[n] = rows[n]
    BY <1>2, <1>3 DEF Completed
  <2>2. QED
    BY <1>2, <1>3, <2>1, StillFollows
<1>7. QED
  BY <1>1, <1>2, <1>3, <1>4, <1>5, <1>6, RowMoves

(* A row to be built, or that is, and what its runner may know of it.      *)
LEMMA Underway ==
  ASSUME ArchiveInv, OrderInv, NEW m \in Active
  PROVE  /\ m \in Members /\ m \notin Completed /\ Busy(m) /\ rows[m] \in Row
         /\ rows[m].status \notin {"completed", "gone"}
         /\ rows[m].chain = Nothing /\ rows[m].file = Nothing /\ ~At(m, "retain")
         /\ \A n \in Members : Busy(n) => n = m
         /\ \A d \in Deleters : doomed[d] = {}
         /\ rows[m].parent # Nothing => Follows(m)
         /\ Writing(m) /\ rows[m].increment => Reads(m)
         /\ Writing(m) /\ ~rows[m].increment => Opens(m)
         /\ At(m, "stored") => Stamped(m)
<1>1. /\ m \in Members /\ m \notin Completed /\ Busy(m)
      /\ rows[m].status \notin {"completed", "gone"}
  BY DEF Active, Completed, Busy
<1>2. rows[m].chain = Nothing /\ rows[m].file = Nothing /\ ~At(m, "retain")
  BY <1>1 DEF OrderInv, AloneInv
<1>3. /\ \A n \in Members : Busy(n) => n = m
      /\ \A d \in Deleters : doomed[d] = {}
  BY <1>1 DEF OrderInv, AloneInv
<1>4. /\ rows[m].parent # Nothing => Follows(m)
      /\ Writing(m) /\ rows[m].increment => Reads(m)
      /\ Writing(m) /\ ~rows[m].increment => Opens(m)
      /\ At(m, "stored") => Stamped(m)
  BY <1>1 DEF OrderInv, ParentInv
<1>5. QED
  BY <1>1, <1>2, <1>3, <1>4 DEF ArchiveInv, Typed

LEMMA StartKeepsOrder ==
  ASSUME ArchiveInv, OrderInv, NEW m \in Members, Start(m)
  PROVE  OrderInv'
<1>1. m \in Active /\ rows \in [Members -> Row] /\ build \in [Members -> Build]
  BY DEF Start, Active, ArchiveInv, Typed
<1>2. /\ rows' = [rows EXCEPT ![m].status = "running"]
      /\ build' = [build EXCEPT ![m] = Begun(m)]
      /\ files' = files /\ sidecars' = sidecars /\ doomed' = doomed
  BY DEF Start, Begun
<1>3. /\ rows' = [rows EXCEPT ![m] = rows'[m]]
      /\ rows'[m].status = "running" /\ rows'[m].chain = rows[m].chain
      /\ rows'[m].file = rows[m].file /\ rows'[m].increment = rows[m].increment
      /\ rows'[m].parent = rows[m].parent /\ rows'[m].scope = rows[m].scope
      /\ rows'[m].before = rows[m].before
      /\ \A n \in Members \ {m} : rows'[n] = rows[n]
  BY <1>2, NewStatus DEF Statuses
<1>4. build'[m] = Begun(m) /\ \A n \in Members \ {m} : build'[n] = build[n]
  BY <1>1, <1>2
<1>5. rows[m].increment => /\ rows[m].parent \in Completed
                           /\ rows[rows[m].parent].file \in sidecars
  BY DEF Start, ParentUsable
<1>6. /\ Begun(m).at = "started"
      /\ rows[m].increment =>
           /\ Begun(m).chain = rows[rows[m].parent].chain
           /\ Begun(m).seq = rows[rows[m].parent].seq + 1
           /\ Begun(m).parentRoot = rows[rows[m].parent].root
      /\ ~rows[m].increment => Begun(m).chain = m /\ Begun(m).seq = 0
  <2>1. Placed(rows[m].parent)
    BY DEF ArchiveInv, Placed, Completed
  <2>2. QED
    BY <1>5, <2>1, BegunIs DEF ArchiveInv
<1>7. Writing(m)' /\ ~At(m, "retain")' /\ ~At(m, "stored")'
  BY <1>4, <1>6 DEF Writing, At
<1>8. m \notin Completed /\ Completed' = Completed /\ \A n \in Completed : rows'[n] = rows[n]
  BY <1>1, <1>3 DEF Completed, Active
<1>9. rows'[m].increment => Reads(m)'
  <2>1. SUFFICES ASSUME rows[m].increment PROVE Reads(m)'
    BY <1>3
  <2>2. rows[m].parent \in Completed /\ rows[m].parent # Nothing
    BY <1>5, <2>1, NoMemberZero DEF Completed
  <2>3. QED
    BY <1>2, <1>3, <1>4, <1>5, <1>6, <1>8, <2>1, <2>2 DEF Reads
<1>10. ~rows'[m].increment => Opens(m)'
  BY <1>3, <1>4, <1>6 DEF Opens
<1>11. rows'[m].parent # Nothing => Follows(m)'
  BY <1>3, <1>8, StillFollows
<1>12. /\ \A n \in Members : Busy(n) => n = m
       /\ \A d \in Deleters : doomed[d] = {}
       /\ rows[m].status \notin {"completed", "gone"}
       /\ rows[m].chain = Nothing /\ rows[m].file = Nothing
  BY <1>1, Underway
<1>13. QED
  BY <1>2, <1>3, <1>4, <1>7, <1>9, <1>10, <1>11, <1>12, RowMoves

(* A build that fails or is killed, or a row whose parent is of no use: the *)
(* archives of the others stay.                                            *)
LEMMA SetbacksKeepOrder ==
  ASSUME ArchiveInv, OrderInv, NEW m \in Members,
         Refuse(m) \/ Fail(m) \/ (Crash(m) /\ ~At(m, "retain"))
  PROVE  OrderInv'
<1>1. rows \in [Members -> Row] /\ build \in [Members -> Build]
  BY DEF ArchiveInv, Typed
<1>2. m \in Active
  BY DEF Refuse, Fail, Crash, Active, OrderInv, AloneInv, Writing, At, ArchiveInv, Typed,
         Build, Steps
<1>3. PICK next \in {"pending", "failed"} : rows' = [rows EXCEPT ![m].status = next]
  <2>1. CASE Refuse(m) \/ Fail(m)
    BY <2>1 DEF Refuse, Fail
  <2>2. CASE Crash(m) /\ ~At(m, "retain")
    <3>1. rows[m].status = "running"
      BY <1>1, <2>2 DEF Crash, At, OrderInv, AloneInv, Writing, Build, Steps
    <3>2. QED
      BY <2>2, <3>1 DEF Crash
  <2>3. QED
    BY <2>1, <2>2
<1>4. /\ rows' = [rows EXCEPT ![m] = rows'[m]]
      /\ rows'[m].status = next /\ rows'[m].chain = rows[m].chain
      /\ rows'[m].file = rows[m].file /\ rows'[m].increment = rows[m].increment
      /\ rows'[m].parent = rows[m].parent /\ rows'[m].scope = rows[m].scope
      /\ rows'[m].before = rows[m].before
      /\ \A n \in Members \ {m} : rows'[n] = rows[n]
  BY <1>3, NewStatus DEF Statuses
<1>5. /\ build'[m].at = "off" /\ doomed' = doomed
      /\ \A n \in Members \ {m} : build'[n] = build[n]
  BY <1>1, OffIsBuild DEF Refuse, Fail, Crash, At
<1>6. ~Writing(m)' /\ ~At(m, "retain")' /\ ~At(m, "stored")'
  BY <1>5 DEF Writing, At
<1>7. \A n \in Completed : /\ rows[n].file \in DOMAIN files' <=> rows[n].file \in DOMAIN files
                           /\ rows[n].file \in sidecars => rows[n].file \in sidecars'
                           /\ Kept(n) => files'[rows[n].file] = files[rows[n].file]
  <2>1. CASE files' = files /\ sidecars' = sidecars
    BY <2>1
  <2>2. CASE Fail(m)
    <3>1. files' = Without(files, build[m].file) /\ sidecars' = sidecars \ {build[m].file}
      BY <2>2 DEF Fail
    <3>2. /\ DOMAIN files' = DOMAIN files \ {build[m].file}
          /\ \A f \in DOMAIN files \ {build[m].file} : files'[f] = files[f]
      BY <3>1, WithoutIs
    <3>3. \A n \in Completed : rows[n].file # build[m].file
      <4>1. At(m, "started") \/ At(m, "stored")
        BY <2>2 DEF Fail, At
      <4>2. At(m, "started") => build[m].file = Nothing
        BY DEF ArchiveInv, Built
      <4>3. \A n \in Completed : rows[n].file # Nothing
        BY DEF OrderInv, ChainInv, Chained
      <4>4. QED
        BY <4>1, <4>2, <4>3 DEF ArchiveInv, Built, Completed
    <3>4. QED
      BY <3>1, <3>2, <3>3 DEF Kept
  <2>3. QED
    BY <2>1, <2>2 DEF Refuse, Crash
<1>8. rows'[m].parent # Nothing => Follows(m)'
  <2>1. m \notin Completed /\ Completed' = Completed /\ \A n \in Completed : rows'[n] = rows[n]
    BY <1>1, <1>2, <1>4 DEF Completed, Active
  <2>2. QED
    BY <1>4, <2>1, StillFollows
<1>9. QED
  BY <1>2, <1>4, <1>5, <1>6, <1>7, <1>8, Underway, RowMoves

LEMMA WriteKeepsOrder ==
  ASSUME ArchiveInv, OrderInv, NEW m \in Members, Write(m)
  PROVE  OrderInv'
<1>1. PICK f \in FileIds :
        /\ f \notin DOMAIN files /\ f \notin DOMAIN uploads
        /\ \A n \in Members : rows[n].file # f
        /\ DOMAIN files' = DOMAIN files \cup {f} /\ files'[f] = Archive(m)
        /\ \A g \in DOMAIN files : files'[g] = files[g]
        /\ sidecars' = sidecars \cup {f}
        /\ build'[m] = [build[m] EXCEPT !.at = "stored", !.file = f]
        /\ \A n \in Members \ {m} : build'[n] = build[n]
        /\ build' \in [Members -> Build]
  BY Written
<1>2. At(m, "started") /\ rows' = rows /\ doomed' = doomed
  BY DEF Write
<1>3. /\ build'[m].at = "stored" /\ build'[m].file = f /\ build'[m].chain = build[m].chain
      /\ build'[m].seq = build[m].seq /\ build'[m].parentRoot = build[m].parentRoot
  BY <1>1 DEF ArchiveInv, Typed, Build
<1>4. rows[m].status = "running" /\ m \in Active
  BY <1>2 DEF OrderInv, AloneInv, Writing, At, Active
<1>5. Writing(m) /\ Writing(m)' /\ ~At(m, "retain")'
  BY <1>2, <1>3 DEF Writing, At
<1>6. \A n \in Completed : /\ rows[n].file \in DOMAIN files' <=> rows[n].file \in DOMAIN files
                           /\ rows[n].file \in sidecars => rows[n].file \in sidecars'
                           /\ Kept(n) => files'[rows[n].file] = files[rows[n].file]
  BY <1>1 DEF Kept, Completed
<1>7. Stamped(m)'
  BY <1>1, <1>3 DEF Stamped, Archive
<1>8. /\ rows'[m].increment => Reads(m)'
      /\ ~rows'[m].increment => Opens(m)'
  <2>1. /\ rows[m].increment => Reads(m)
        /\ ~rows[m].increment => Opens(m)
    BY <1>4, <1>5, Underway
  <2>2. QED
    BY <1>1, <1>2, <1>3, <2>1 DEF Reads, Opens
<1>9. rows'[m].parent # Nothing => Follows(m)'
  <2>1. m \notin Completed /\ Completed' = Completed
    BY <1>2, <1>4 DEF Completed
  <2>2. QED
    BY <1>2, <2>1, StillFollows
<1>10. rows' = [rows EXCEPT ![m] = rows'[m]]
  BY <1>2 DEF ArchiveInv, Typed
<1>11. QED
  BY <1>1, <1>2, <1>4, <1>5, <1>6, <1>7, <1>8, <1>9, <1>10, Underway, RowMoves

(* The completed member takes the place after its parent, or opens a chain *)
(* of its own.  A member that is at this place or a later one and had      *)
(* completed when the row was requested had completed before the parent.   *)
LEMMA CompleteKeepsOrder ==
  ASSUME ArchiveInv, OrderInv, NEW m \in Members, Complete(m)
  PROVE  OrderInv'
<1> DEFINE file == files[build[m].file]
           p == rows[m].parent
<1>1. PICK later \in Nat :
        /\ file \in File
        /\ rows'[m] = [rows[m] EXCEPT !.status = "completed", !.parent = Nothing,
                         !.chain = file.chain, !.seq = file.seq, !.file = build[m].file,
                         !.root = file.root, !.schema = file.schema, !.done = later]
        /\ rows'[m] \in Row
        /\ \A n \in Members : rows[n].done < later
        /\ \A n \in Members \ {m} :
             rows'[n] = IF n \in Completed THEN [rows[n] EXCEPT !.parent = Nothing] ELSE rows[n]
        /\ rows' \in [Members -> Row]
  BY CompletedRow
<1>2. /\ At(m, "stored") /\ build' = [build EXCEPT ![m] = [Off EXCEPT !.at = "retain"]]
      /\ files' = files /\ sidecars' = sidecars /\ doomed' = doomed /\ m \in Active
      /\ rows[m].status = "running"
  BY DEF Complete, Active
<1>3. /\ m \notin Completed /\ \A n \in Members : Busy(n) => n = m
      /\ \A d \in Deleters : doomed[d] = {}
      /\ p # Nothing => Follows(m)
      /\ rows[m].increment => Reads(m)
      /\ ~rows[m].increment => Opens(m)
      /\ Stamped(m) /\ Writing(m)
  BY <1>2, Underway DEF Writing, At
<1>4. \A n \in Members : rows[n] \in Row
  BY DEF ArchiveInv, Typed
<1>5. /\ rows'[m].status = "completed" /\ rows'[m].file = build[m].file
      /\ rows'[m].chain = build[m].chain /\ rows'[m].seq = build[m].seq
      /\ rows'[m].root = file.root /\ rows'[m].scope = rows[m].scope
      /\ rows'[m].done = later /\ rows'[m].before = rows[m].before
      /\ file.parentRoot = build[m].parentRoot
  BY <1>1, <1>3, <1>4 DEF Row, Stamped
<1>6. ASSUME NEW n \in Members \ {m}
      PROVE  /\ rows'[n].status = rows[n].status /\ rows'[n].file = rows[n].file
             /\ rows'[n].chain = rows[n].chain /\ rows'[n].seq = rows[n].seq
             /\ rows'[n].root = rows[n].root /\ rows'[n].scope = rows[n].scope
             /\ rows'[n].done = rows[n].done /\ rows'[n].before = rows[n].before
  <2>1. rows'[n] \in {rows[n], [rows[n] EXCEPT !.parent = Nothing]} /\ rows[n] \in Row
    BY <1>1, <1>4
  <2>2. QED
    BY <2>1 DEF Row
<1>7. Completed' = Completed \cup {m} /\ \A n \in Completed : n \in Members \ {m}
  BY <1>3, <1>5, <1>6 DEF Completed
<1>8. build'[m].at = "retain" /\ \A n \in Members \ {m} : build'[n] = build[n]
  BY <1>2, OffIsBuild DEF ArchiveInv, Typed
<1>9. /\ build[m].file \in DOMAIN files /\ build[m].file # Nothing
      /\ \A n \in Members : rows[n].file # build[m].file
      /\ build[m].seq \in Nat
  BY <1>2, NoMemberZero DEF ArchiveInv, Built, Typed, Build
<1>10. Kept(m)' /\ \A n \in Completed : Kept(n)' <=> Kept(n)
  BY <1>2, <1>5, <1>6, <1>7, <1>9 DEF Kept
<1>11. AloneInv'
  <2>1. ~Writing(m)'
    BY <1>8 DEF Writing
  <2>2. QED
    BY <1>2, <1>3, <1>5, <1>6, <1>8, <1>10, <2>1, OneMoves
<1>12. DoomInv'
  BY <1>2, <1>3 DEF DoomInv
(* The parent of an increment is completed and has the place before it.    *)
<1>13. ASSUME rows[m].increment
       PROVE  /\ p \in Completed /\ rows[p].scope = rows[m].scope
              /\ \A x \in Completed : Later(p, x) /\ x \in rows[m].before => rows[x].done < rows[p].done
              /\ build[m].chain = rows[p].chain /\ build[m].seq = rows[p].seq + 1
              /\ build[m].parentRoot = rows[p].root /\ rows[p].file \in sidecars
              /\ rows[p].seq \in Nat /\ Chained(p)
  <2>1. Reads(m) /\ Follows(m)
    BY <1>3, <1>13 DEF Reads
  <2>2. p \in Completed
    BY <2>1 DEF Follows
  <2>3. QED
    BY <1>4, <2>1, <2>2 DEF Follows, Reads, Completed, Row, OrderInv, ChainInv
<1>14. ASSUME NEW n \in Completed, rows[n].chain = build[m].chain
       PROVE  rows[m].increment
  <2>1. SUFFICES ASSUME ~rows[m].increment PROVE FALSE
    OBVIOUS
  <2>2. rows[n].chain = m
    BY <1>3, <1>14, <2>1 DEF Opens
  <2>3. QED
    BY <1>3, <2>2 DEF OrderInv, ChainInv, Chained
<1> HIDE DEF file, p
<1>15. Chained(m)'
  <2>1. rows'[m].file # Nothing /\ Recorded(m)'
    BY <1>2, <1>3, <1>5, <1>9 DEF Recorded, Stamped, file
  <2>2. CASE rows[m].increment
    <3>1. /\ rows[p].chain \in Completed /\ rows[rows[p].chain].chain = rows[p].chain
          /\ build[m].seq # 0
      BY <1>13, <2>2 DEF Chained
    <3>2. /\ build[m].chain \in Completed' /\ build[m].chain # m
          /\ rows'[build[m].chain].chain = build[m].chain
      BY <1>6, <1>7, <1>13, <2>2, <3>1
    <3>3. PICK q \in Completed : q = p
      BY <1>13, <2>2
    <3>4. /\ rows'[q].chain = build[m].chain /\ rows'[q].seq + 1 = build[m].seq
          /\ rows'[q].root = build[m].parentRoot /\ rows'[q].file \in sidecars'
      BY <1>2, <1>6, <1>7, <1>13, <2>2, <3>3
    <3>5. files'[rows'[m].file].parentRoot = build[m].parentRoot
      BY <1>2, <1>5 DEF file
    <3>6. Continued(q, m)'
      BY <1>5, <3>4, <3>5 DEF Continued
    <3>7. q \in Completed'
      BY <1>7, <3>3
    <3>8. rows'[m].seq # 0 /\ rows'[m].chain # m
      BY <1>5, <3>1, <3>2
    <3>9. QED
      BY <1>5, <2>1, <3>2, <3>6, <3>7, <3>8 DEF Chained
  <2>3. CASE ~rows[m].increment
    <3>1. build[m].chain = m /\ build[m].seq = 0
      BY <1>3, <2>3 DEF Opens
    <3>2. QED
      BY <1>5, <1>7, <2>1, <3>1 DEF Chained
  <2>4. QED
    BY <2>2, <2>3
<1>16. ASSUME NEW n \in Completed PROVE Chained(n)'
  <2>1. n \in Members \ {m} /\ Chained(n)
    BY <1>7 DEF OrderInv, ChainInv
  <2>2. Kept(n)' => Recorded(n)'
    BY <1>2, <1>6, <1>10, <2>1 DEF Chained, Recorded
  <2>3. rows[n].seq # 0 => \E q \in Completed' : Continued(q, n)'
    <3>1. SUFFICES ASSUME rows[n].seq # 0 PROVE \E q \in Completed' : Continued(q, n)'
      OBVIOUS
    <3>2. PICK q \in Completed : Continued(q, n)
      BY <2>1, <3>1 DEF Chained
    <3>3. q \in Members \ {m} /\ q \in Completed'
      BY <1>7
    <3>4. Continued(q, n)'
      BY <1>2, <1>6, <1>10, <2>1, <3>2, <3>3 DEF Continued
    <3>5. QED
      BY <3>3, <3>4
  <2>4. /\ rows[n].chain \in Members \ {m} /\ rows[n].chain \in Completed'
        /\ rows'[rows[n].chain].chain = rows[n].chain
    BY <1>6, <1>7, <2>1 DEF Chained
  <2>5. QED
    BY <1>6, <2>1, <2>2, <2>3, <2>4 DEF Chained
<1>17. ASSUME NEW n \in Completed PROVE Linked(n, m)' /\ Linked(m, n)'
  <2>1. n \in Members \ {m} /\ rows'[n].done < rows'[m].done /\ rows'[n].done \in Nat /\ later \in Nat
    BY <1>1, <1>4, <1>5, <1>6, <1>7 DEF Row
  <2>2. rows'[n].file # rows'[m].file /\ rows'[n].done # rows'[m].done
        /\ ~(rows'[m].done < rows'[n].done)
    BY <1>5, <1>6, <1>9, <2>1
  <2>3. rows'[n].chain = rows'[m].chain => rows'[n].scope = rows'[m].scope
    <3>1. SUFFICES ASSUME rows[n].chain = build[m].chain PROVE rows[n].scope = rows[m].scope
      BY <1>5, <1>6, <2>1
    <3>2. p \in Completed /\ rows[p].chain = rows[n].chain /\ rows[p].scope = rows[m].scope
      BY <1>13, <1>14, <3>1
    <3>3. QED
      BY <3>2 DEF OrderInv, ChainInv, Linked
  <2>4. Behind(n, m)'
    <3>1. SUFFICES ASSUME rows[n].chain = build[m].chain, rows[n].seq >= build[m].seq,
                          Apart(n, m)'
                   PROVE  \E q \in Completed' : /\ rows'[q].chain = build[m].chain
                                                /\ rows'[q].seq + 1 = build[m].seq
                                                /\ rows'[n].done < rows'[q].done
      BY <1>5, <1>6, <2>1 DEF Behind
    <3>2. rows[m].increment
      BY <1>14, <3>1
    <3>3. m \notin rows[n].before
      BY <1>2, <2>1 DEF OrderInv, BornInv
    <3>4. n \in rows[m].before
      BY <1>5, <1>6, <2>1, <3>1, <3>3 DEF Apart
    <3>5. rows[n].seq \in Nat
      BY <1>4, <2>1 DEF Row
    <3>6. Later(p, n)
      BY <1>13, <3>1, <3>2, <3>5 DEF Later
    <3>7. rows[n].done < rows[p].done
      BY <1>13, <3>2, <3>4, <3>6
    <3>8. p \in Members \ {m} /\ p \in Completed'
      BY <1>7, <1>13, <3>2
    <3>9. QED
      BY <1>6, <1>13, <2>1, <3>2, <3>7, <3>8
  <2>5. Behind(m, n)'
    BY <2>2 DEF Behind
  <2>6. QED
    BY <2>2, <2>3, <2>4, <2>5 DEF Linked
<1>18. ASSUME NEW n \in Completed, NEW o \in Completed PROVE Linked(n, o)'
  <2>1. n \in Members \ {m} /\ o \in Members \ {m} /\ Linked(n, o)
    BY <1>7 DEF OrderInv, ChainInv
  <2>2. Behind(n, o)'
    <3>1. SUFFICES ASSUME rows[n].chain = rows[o].chain, rows[n].done < rows[o].done,
                          rows[n].seq >= rows[o].seq, Apart(n, o)
                   PROVE  \E q \in Completed' : /\ rows'[q].chain = rows[o].chain
                                                /\ rows'[q].seq + 1 = rows[o].seq
                                                /\ rows[n].done < rows'[q].done
      BY <1>6, <2>1 DEF Behind, Apart
    <3>2. PICK q \in Completed : /\ rows[q].chain = rows[o].chain /\ rows[q].seq + 1 = rows[o].seq
                                 /\ rows[n].done < rows[q].done
      BY <2>1, <3>1 DEF Linked, Behind
    <3>3. q \in Members \ {m} /\ q \in Completed'
      BY <1>7
    <3>4. QED
      BY <1>6, <3>2, <3>3
  <2>3. QED
    BY <1>6, <2>1, <2>2 DEF Linked
<1>19. Linked(m, m)'
  <2>1. ~(rows'[m].done < rows'[m].done)
    BY <1>5
  <2>2. QED
    BY <2>1 DEF Linked, Behind
<1>20. ChainInv'
  BY <1>7, <1>15, <1>16, <1>17, <1>18, <1>19 DEF ChainInv
<1>21. BornInv'
  <2>1. \A n \in Members : rows'[n].before = rows[n].before
    BY <1>5, <1>6
  <2>2. ASSUME NEW n \in Members, NEW o \in rows[n].before
        PROVE  rows'[o].status \in {"completed", "gone"}
    <3>1. o \in Members /\ rows[o].status \in {"completed", "gone"}
      BY <1>4 DEF OrderInv, BornInv, Row
    <3>2. QED
      BY <1>5, <1>6, <3>1
  <2>3. QED
    BY <2>1, <2>2 DEF BornInv
<1>22. ParentInv'
  <2>1. Active' = {}
    BY <1>3, <1>5, <1>6 DEF Active, Busy
  <2>2. ASSUME NEW n \in Members \ Completed', rows'[n].parent # Nothing PROVE Follows(n)'
    <3>1. n \in Members \ {m} /\ rows'[n] = rows[n] /\ n \notin Completed
      BY <1>1, <1>7
    <3>2. Follows(n)
      BY <2>2, <3>1 DEF OrderInv, ParentInv
    <3>3. m \notin rows[n].before
      BY <1>2, <3>1 DEF OrderInv, BornInv
    <3>4. PICK q \in Completed :
            /\ q = rows[n].parent /\ rows[q].scope = rows[n].scope
            /\ \A x \in Completed : Later(q, x) /\ x \in rows[n].before
                                  => rows[x].done < rows[q].done
      BY <3>2 DEF Follows
    <3>5. q \in Completed' /\ q \in Members \ {m} /\ rows'[q].scope = rows[n].scope
      BY <1>6, <1>7, <3>4
    <3>6. ASSUME NEW x \in Completed', Later(q, x)', x \in rows[n].before
          PROVE  rows'[x].done < rows'[q].done
      <4>1. x \in Completed /\ x \in Members \ {m}
        BY <1>7, <3>3, <3>6
      <4>2. Later(q, x)
        BY <1>6, <3>5, <3>6, <4>1 DEF Later
      <4>3. QED
        BY <1>6, <3>4, <3>5, <3>6, <4>1, <4>2
    <3>7. rows'[n].parent = q /\ rows'[n].scope = rows[n].scope /\ rows'[n].before = rows[n].before
      BY <3>1, <3>4
    <3>8. QED
      BY <3>5, <3>6, <3>7 DEF Follows
  <2>3. QED
    BY <2>1, <2>2 DEF ParentInv
<1>23. QED
  BY <1>11, <1>12, <1>20, <1>21, <1>22 DEF OrderInv

(* Pruning dooms whole chains, and not that of the row just completed.     *)
LEMMA RetainKeepsOrder ==
  ASSUME ArchiveInv, OrderInv, NEW m \in Members,
         Retain(m) \/ (Crash(m) /\ At(m, "retain"))
  PROVE  OrderInv'
<1>1. At(m, "retain") /\ Busy(m) /\ m \in Completed /\ Kept(m)
  BY DEF Retain, At, Busy, OrderInv, AloneInv
<1>2. /\ \A n \in Members \ {m} : n \notin Active /\ At(n, "off") /\ ~Writing(n)
      /\ \A d \in Deleters : doomed[d] = {}
  BY <1>1, NobodyElse
<1>3. rows' = rows /\ files' = files /\ sidecars' = sidecars
  <2>1. CASE Retain(m)
    BY <2>1 DEF Retain
  <2>2. CASE Crash(m)
    <3>1. [rows EXCEPT ![m].status = rows[m].status] = rows
      BY DEF ArchiveInv, Typed, Row
    <3>2. rows[m].status # "running"
      BY <1>1 DEF Completed
    <3>3. QED
      BY <2>2, <3>1, <3>2 DEF Crash
  <2>3. QED
    BY <2>1, <2>2
<1>4. build'[m].at = "off" /\ \A n \in Members \ {m} : build'[n] = build[n]
  BY OffIsBuild DEF Retain, Crash, ArchiveInv, Typed
<1>5. Completed' = Completed /\ Active' = Active /\ m \notin Active
  BY <1>1, <1>3 DEF Completed, Active
<1>6. \A n \in Members : ~Busy(n)'
  BY <1>2, <1>4, <1>5 DEF Busy, At
<1>7. /\ \A d \in Deleters : d # m => doomed'[d] = {}
      /\ doomed'[m] \subseteq {n \in Completed : rows[n].chain # rows[m].chain}
      /\ \A n \in doomed'[m] : \A o \in Completed : rows[o].chain = rows[n].chain => o \in doomed'[m]
  <2>1. CASE doomed' = doomed
    BY <1>2, <2>1 DEF Deleters
  <2>2. CASE Retain(m)
    <3>1. PICK out \in SUBSET Chains :
            doomed' = [doomed EXCEPT ![m] =
              {n \in Members : rows[n].status \notin {"none", "gone"}
                               /\ rows[n].chain \in out \ Spared(m)}]
      <4>1. PICK cutoff \in 0..MaxMembers :
              doomed' = [doomed EXCEPT ![m] =
                {n \in Members : rows[n].status \notin {"none", "gone"}
                   /\ rows[n].chain \in
                        ({c \in Chains : LastOf(c) <= cutoff} \cup
                         (IF MaxKept = 0 THEN {} ELSE
                            {c \in Chains : Cardinality({d \in Chains : LastOf(d) > LastOf(c)})
                                              >= MaxKept})) \ Spared(m)}]
        BY <2>2 DEF Retain
      <4> DEFINE old == {c \in Chains : LastOf(c) <= cutoff}
                 surplus == IF MaxKept = 0 THEN {} ELSE
                   {c \in Chains : Cardinality({d \in Chains : LastOf(d) > LastOf(c)}) >= MaxKept}
      <4>2. old \cup surplus \in SUBSET Chains
        OBVIOUS
      <4>3. doomed' = [doomed EXCEPT ![m] =
              {n \in Members : rows[n].status \notin {"none", "gone"}
                               /\ rows[n].chain \in (old \cup surplus) \ Spared(m)}]
        BY <4>1
      <4> HIDE DEF old, surplus
      <4>4. QED
        BY <4>2, <4>3
    <3>2. /\ \A d \in Deleters : d # m => doomed'[d] = {}
          /\ doomed'[m] = {n \in Members : rows[n].status \notin {"none", "gone"}
                                           /\ rows[n].chain \in out \ Spared(m)}
      BY <1>2, <3>1 DEF ArchiveInv, Typed, Deleters
    <3>3. Spared(m) = {rows[m].chain}
      BY <1>1 DEF Spared
    <3>4. Nothing \notin out
      BY NoMemberZero DEF Chains, ArchiveInv, Placed, Completed
    <3>5. \A n \in doomed'[m] : n \in Completed
      BY <3>2, <3>4 DEF OrderInv, AloneInv
    <3>6. \A o \in Completed : o \in Members /\ rows[o].status \notin {"none", "gone"}
      BY DEF Completed
    <3>7. QED
      BY <3>2, <3>3, <3>5, <3>6
  <2>3. QED
    BY <2>1, <2>2 DEF Crash
<1>8. AloneInv'
  <2>1. ~Writing(m) /\ ~Writing(m)'
    BY <1>1, <1>4 DEF Writing, At
  <2>2. \A n \in Members :
          /\ rows'[n].status = "running" <=> Writing(n)'
          /\ ~At(n, "retain")'
          /\ n \notin Completed' => rows'[n].chain = Nothing /\ rows'[n].file = Nothing
    BY <1>2, <1>3, <1>4, <1>5, <2>1 DEF OrderInv, AloneInv, Writing, At
  <2>3. QED
    BY <1>6, <1>7, <2>2 DEF AloneInv
<1>9. DoomInv'
  <2>1. ASSUME NEW d \in Deleters, NEW n \in doomed'[d]
        PROVE  /\ rows'[n].status \in {"completed", "failed"}
               /\ n \in Completed' => \A o \in Completed' : Later(n, o)' => o \in doomed'[d]
               /\ d # Operator => d \in Completed' /\ d \notin doomed'[d] /\ Kept(d)'
    <3>1. d = m
      BY <1>7, <2>1
    <3>2. n \in Completed /\ m \notin doomed'[m]
      BY <1>7, <2>1, <3>1
    <3>3. \A o \in Completed : Later(n, o)' => o \in doomed'[m]
      BY <1>3, <1>7, <2>1, <3>1 DEF Later
    <3>4. Kept(m)'
      BY <1>1, <1>3 DEF Kept
    <3>5. QED
      BY <1>1, <1>3, <1>5, <3>1, <3>2, <3>3, <3>4 DEF Completed
  <2>2. QED
    BY <2>1 DEF DoomInv
<1>10. ChainInv'
  BY <1>3, <1>5, ChainsStay DEF OrderInv
<1>11. BornInv' /\ ParentInv'
  <2>1. \A n \in Members : rows[n].parent # Nothing /\ n \notin Completed => Follows(n)'
    BY <1>3, <1>5 DEF OrderInv, ParentInv, Follows, Later
  <2>2. Active' = {}
    BY <1>2, <1>5 DEF Active
  <2>3. QED
    BY <1>3, <1>5, <2>1, <2>2 DEF OrderInv, BornInv, ParentInv
<1>12. QED
  BY <1>8, <1>9, <1>10, <1>11 DEF OrderInv

LEMMA DeleteKeepsOrder ==
  ASSUME Orderly, ArchiveInv, OrderInv, NEW m \in Members, Delete(m)
  PROVE  OrderInv'
<1>1. /\ \A n \in Members : ~Busy(n)
      /\ \A d \in Deleters : doomed[d] = {}
  BY DEF Orderly, Delete, Alone, Idle, Busy, At
<1>2. /\ rows' = rows /\ files' = files /\ sidecars' = sidecars /\ build' = build
      /\ Completed' = Completed /\ Active' = Active
      /\ rows[m].status \in {"completed", "failed"}
  BY DEF Delete, Completed, Active
<1>3. /\ \A d \in Deleters : d # Operator => doomed'[d] = {}
      /\ doomed'[Operator] = IF m \notin Completed THEN {m} ELSE
           {n \in Members : /\ rows[n].status # "gone"
                            /\ rows[n].chain = rows[m].chain /\ rows[n].seq >= rows[m].seq}
  BY <1>1 DEF Delete, ArchiveInv, Typed, Deleters
<1>4. AloneInv'
  BY <1>1, <1>2, <1>3 DEF OrderInv, AloneInv, Busy, Writing, At
<1>5. DoomInv'
  <2>1. CASE m \notin Completed
    BY <1>2, <1>3, <2>1 DEF DoomInv
  <2>2. CASE m \in Completed
    <3>1. rows[m].chain # Nothing
      BY <2>2, NoMemberZero DEF ArchiveInv, Placed, Completed
    <3>2. \A n \in doomed'[Operator] : n \in Completed
      BY <1>3, <2>2, <3>1 DEF OrderInv, AloneInv
    <3>3. ASSUME NEW n \in doomed'[Operator], NEW o \in Completed, Later(n, o)
          PROVE  o \in doomed'[Operator]
      <4>1. rows[n].chain = rows[m].chain /\ rows[n].seq >= rows[m].seq
        BY <1>3, <2>2
      <4>2. n \in Completed
        BY <3>2
      <4>3. rows[n].seq \in Nat /\ rows[m].seq \in Nat /\ rows[o].seq \in Nat
        BY <2>2, <4>2 DEF ArchiveInv, Typed, Row, Completed
      <4>4. rows[o].chain = rows[m].chain /\ rows[o].seq >= rows[m].seq
        BY <3>3, <4>1, <4>3 DEF Later
      <4>5. QED
        BY <1>3, <2>2, <4>4 DEF Completed
    <3>4. QED
      BY <1>2, <1>3, <3>2, <3>3 DEF DoomInv, Later, Completed
  <2>3. QED
    BY <2>1, <2>2
<1>6. ChainInv'
  BY <1>2, ChainsStay DEF OrderInv
<1>7. BornInv' /\ ParentInv'
  <2>1. \A n \in Members : rows[n].parent # Nothing /\ n \notin Completed => Follows(n)'
    BY <1>2 DEF OrderInv, ParentInv, Follows, Later
  <2>2. Active' = {}
    BY <1>1, <1>2 DEF Active, Busy
  <2>3. QED
    BY <1>2, <2>1, <2>2 DEF OrderInv, BornInv, ParentInv
<1>8. QED
  BY <1>4, <1>5, <1>6, <1>7 DEF OrderInv

(* While something is deleted nothing is asked for or built, and the next  *)
(* to go is the last of its chain.                                         *)
LEMMA LastGoes ==
  ASSUME ArchiveInv, OrderInv, NEW d \in Deleters, NEW m \in NextOut(d)
  PROVE  /\ m \in Members /\ m \in doomed[d] /\ \A n \in Members : ~Busy(n)
         /\ \A e \in Deleters : doomed[e] # {} => e = d
         /\ ~HasLater(m)
         /\ d # Operator => d \in Completed /\ d # m /\ Kept(d)
         /\ \A n \in doomed[d] : rows[n].status \in {"completed", "failed"}
<1>1. /\ m \in doomed[d]
      /\ \A n \in doomed[d] : rows[n].chain = rows[m].chain => rows[n].seq <= rows[m].seq
  BY DEF NextOut
<1>2. m \in Members /\ rows[m] \in Row
  BY <1>1 DEF ArchiveInv, Typed
<1>3. /\ \A n \in Members : ~Busy(n)
      /\ \A e \in Deleters : doomed[e] # {} => e = d
  BY <1>1 DEF OrderInv, AloneInv
<1>4. /\ m \in Completed => \A n \in Completed : Later(m, n) => n \in doomed[d]
      /\ d # Operator => d \in Completed /\ d # m /\ Kept(d)
      /\ \A n \in doomed[d] : rows[n].status \in {"completed", "failed"}
  BY <1>1 DEF OrderInv, DoomInv
<1>5. ~HasLater(m)
  <2>1. SUFFICES ASSUME NEW n \in Completed, rows[n].chain = rows[m].chain,
                        rows[n].seq > rows[m].seq
                 PROVE  FALSE
    BY DEF HasLater
  <2>2. m \in Completed
    <3>1. rows[n].chain \in Members
      BY DEF ArchiveInv, Placed, Completed
    <3>2. QED
      BY <1>2, <2>1, <3>1, NoMemberZero DEF OrderInv, AloneInv
  <2>3. rows[n].seq <= rows[m].seq
    BY <1>1, <1>4, <2>1, <2>2 DEF Later
  <2>4. rows[n].seq \in Nat /\ rows[m].seq \in Nat
    BY <1>2 DEF ArchiveInv, Typed, Row, Completed
  <2>5. QED
    BY <2>1, <2>3, <2>4
<1>6. QED
  BY <1>1, <1>2, <1>3, <1>4, <1>5

LEMMA RemoveFileKeepsOrder ==
  ASSUME ArchiveInv, OrderInv, NEW d \in Deleters, RemoveFile(d)
  PROVE  OrderInv'
<1>1. PICK m \in NextOut(d) :
        /\ rows[m].file \in DOMAIN files \cup sidecars
        /\ files' = Without(files, rows[m].file)
        /\ sidecars' \in {sidecars, sidecars \ {rows[m].file}}
  BY DEF RemoveFile
<1>2. /\ rows' = rows /\ build' = build /\ doomed' = doomed
      /\ Completed' = Completed /\ Active' = Active
  BY DEF RemoveFile, Completed, Active
<1>3. /\ DOMAIN files' = DOMAIN files \ {rows[m].file}
      /\ \A f \in DOMAIN files \ {rows[m].file} : files'[f] = files[f]
  BY <1>1, WithoutIs
<1>4. /\ m \in Members /\ m \in doomed[d] /\ \A n \in Members : ~Busy(n)
      /\ ~HasLater(m)
      /\ \A e \in Deleters : doomed[e] # {} => e = d
      /\ d # Operator => d \in Completed /\ d # m /\ Kept(d)
  BY LastGoes
<1>5. m \in Completed
  <2>1. rows[m].file # Nothing
    BY <1>1, NoMemberZero DEF ArchiveInv, Typed
  <2>2. QED
    BY <1>4, <2>1 DEF OrderInv, AloneInv
<1>6. ASSUME NEW n \in Completed, n # m
      PROVE  /\ Kept(n)' <=> Kept(n)
             /\ rows[n].file \in sidecars => rows[n].file \in sidecars'
             /\ Kept(n) => files'[rows[n].file] = files[rows[n].file]
  <2>1. rows[n].file # rows[m].file
    BY <1>5, <1>6 DEF OrderInv, ChainInv, Linked
  <2>2. QED
    BY <1>1, <1>2, <1>3, <2>1 DEF Kept
<1>7. ~Kept(m)'
  BY <1>2, <1>3 DEF Kept
<1>8. AloneInv'
  <2>1. \A n \in Members : ~At(n, "retain")' /\ ~Busy(n)'
    BY <1>2, <1>4 DEF Busy, At
  <2>2. QED
    BY <1>2, <2>1 DEF OrderInv, AloneInv, Writing
<1>9. DoomInv'
  <2>1. ASSUME NEW e \in Deleters, NEW n \in doomed[e], e # Operator PROVE Kept(e)'
    BY <1>4, <1>6, <2>1
  <2>2. QED
    BY <1>2, <2>1 DEF OrderInv, DoomInv, Later
<1>10. BornInv' /\ ParentInv'
  <2>1. \A n \in Members : rows[n].parent # Nothing /\ n \notin Completed => Follows(n)'
    BY <1>2 DEF OrderInv, ParentInv, Follows, Later
  <2>2. Active' = {}
    BY <1>2, <1>4 DEF Active, Busy
  <2>3. QED
    BY <1>2, <2>1, <2>2 DEF OrderInv, BornInv, ParentInv
<1>11. ASSUME NEW n \in Completed PROVE Chained(n)'
  <2>1. Chained(n)
    BY DEF OrderInv, ChainInv
  <2>2. Kept(n)' => n # m /\ Kept(n) /\ files'[rows[n].file] = files[rows[n].file]
    BY <1>6, <1>7
  <2>3. Kept(n)' => Recorded(n)'
    BY <1>2, <2>1, <2>2 DEF Chained, Recorded
  <2>4. rows[n].seq # 0 => \E p \in Completed' : Continued(p, n)'
    <3>1. SUFFICES ASSUME rows[n].seq # 0 PROVE \E p \in Completed' : Continued(p, n)'
      OBVIOUS
    <3>2. PICK p \in Completed : Continued(p, n)
      BY <2>1, <3>1 DEF Chained
    <3>3. p # m
      <4>1. rows[p].seq \in Nat
        BY DEF ArchiveInv, Typed, Row, Completed
      <4>2. rows[n].chain = rows[p].chain /\ rows[n].seq > rows[p].seq
        BY <3>2, <4>1 DEF Continued
      <4>3. QED
        BY <1>4, <4>2 DEF HasLater
    <3>4. Continued(p, n)'
      BY <1>2, <1>6, <2>2, <3>2, <3>3 DEF Continued
    <3>5. QED
      BY <1>2, <3>4
  <2>5. QED
    BY <1>2, <2>1, <2>3, <2>4 DEF Chained
<1>12. ASSUME NEW n \in Completed, NEW o \in Completed PROVE Linked(n, o)'
  BY <1>2 DEF OrderInv, ChainInv, Linked, Behind, Apart
<1>13. ChainInv'
  BY <1>2, <1>11, <1>12 DEF ChainInv
<1>14. QED
  BY <1>8, <1>9, <1>10, <1>13 DEF OrderInv

LEMMA RemoveRowKeepsOrder ==
  ASSUME ArchiveInv, OrderInv, NEW d \in Deleters, RemoveRow(d)
  PROVE  OrderInv'
<1>1. PICK m \in NextOut(d) :
        /\ rows[m].file \notin DOMAIN files \cup sidecars
        /\ rows' = [n \in Members |->
             IF n = m THEN [NoRow EXCEPT !.status = "gone"]
             ELSE IF rows[n].parent = m THEN [rows[n] EXCEPT !.parent = Nothing] ELSE rows[n]]
        /\ doomed' = [e \in Deleters |-> doomed[e] \ {m}]
        /\ files' = files /\ sidecars' = sidecars /\ build' = build
  BY DEF RemoveRow
<1>2. /\ m \in Members /\ m \in doomed[d] /\ \A n \in Members : ~Busy(n)
      /\ \A e \in Deleters : doomed[e] # {} => e = d
      /\ ~HasLater(m)
      /\ d # Operator => d \in Completed /\ d # m
  BY LastGoes
<1>3. /\ rows'[m].status = "gone" /\ rows'[m].chain = Nothing /\ rows'[m].file = Nothing
      /\ rows'[m].parent = Nothing /\ rows'[m].before = {}
  BY <1>1, <1>2 DEF NoRow
<1>4. ASSUME NEW n \in Members \ {m}
      PROVE  /\ rows'[n].status = rows[n].status /\ rows'[n].file = rows[n].file
             /\ rows'[n].chain = rows[n].chain /\ rows'[n].seq = rows[n].seq
             /\ rows'[n].root = rows[n].root /\ rows'[n].scope = rows[n].scope
             /\ rows'[n].done = rows[n].done /\ rows'[n].before = rows[n].before
             /\ rows'[n].parent = IF rows[n].parent = m THEN Nothing ELSE rows[n].parent
  <2>1. rows[n] \in Row
    BY DEF ArchiveInv, Typed
  <2>2. rows'[n] = IF rows[n].parent = m THEN [rows[n] EXCEPT !.parent = Nothing] ELSE rows[n]
    BY <1>1
  <2>3. QED
    BY <2>1, <2>2 DEF Row
<1>5. Completed' = Completed \ {m} /\ \A n \in Members : ~Busy(n)'
  BY <1>1, <1>2, <1>3, <1>4 DEF Completed, Busy, Active, At
<1>6. AloneInv'
  <2>1. \A n \in Members :
          /\ rows'[n].status = "running" <=> Writing(n)'
          /\ ~At(n, "retain")'
          /\ n \notin Completed' => rows'[n].chain = Nothing /\ rows'[n].file = Nothing
    <3>1. ASSUME NEW n \in Members \ {m}
          PROVE  /\ rows'[n].status = "running" <=> Writing(n)'
                 /\ n \notin Completed' => rows'[n].chain = Nothing /\ rows'[n].file = Nothing
      BY <1>1, <1>4, <1>5 DEF OrderInv, AloneInv, Writing
    <3>2. \A n \in Members : At(n, "off")' /\ ~Writing(n)' /\ ~At(n, "retain")'
      BY <1>5 DEF Busy, At, Writing
    <3>3. QED
      BY <1>3, <3>1, <3>2
  <2>2. \A e \in Deleters : doomed'[e] # {} => e = d
    BY <1>1, <1>2
  <2>3. QED
    BY <1>5, <2>1, <2>2 DEF AloneInv
<1>7. ASSUME NEW n \in Completed'
      PROVE  n \in Members \ {m} /\ n \in Completed /\ (Kept(n)' <=> Kept(n))
  BY <1>1, <1>4, <1>5 DEF Completed, Kept
<1>8. DoomInv'
  <2>1. ASSUME NEW e \in Deleters, NEW n \in doomed'[e]
        PROVE  /\ rows'[n].status \in {"completed", "failed"}
               /\ n \in Completed' => \A o \in Completed' : Later(n, o)' => o \in doomed'[e]
               /\ e # Operator => e \in Completed' /\ e \notin doomed'[e] /\ Kept(e)'
    <3>1. e = d /\ n \in doomed[d] /\ n # m /\ n \in Members
      BY <1>1, <1>2, <2>1 DEF ArchiveInv, Typed
    <3>2. /\ rows[n].status \in {"completed", "failed"}
          /\ n \in Completed => \A o \in Completed : Later(n, o) => o \in doomed[d]
          /\ d # Operator => d \in Completed /\ d \notin doomed[d] /\ Kept(d)
      BY <3>1 DEF OrderInv, DoomInv
    <3>3. \A o \in Completed' : Later(n, o)' => Later(n, o) /\ o # m
      BY <1>4, <1>5, <3>1 DEF Later, Completed
    <3>4. d # Operator => d \in Completed' /\ Kept(d)'
      BY <1>2, <1>5, <1>7, <3>2
    <3>5. QED
      BY <1>1, <1>2, <1>4, <1>5, <3>1, <3>2, <3>3, <3>4
  <2>2. QED
    BY <2>1 DEF DoomInv
<1>9. BornInv'
  <2>1. ASSUME NEW n \in Members \ {m}, NEW o \in rows[n].before
        PROVE  rows'[o].status \in {"completed", "gone"}
    <3>1. o \in Members /\ rows[o].status \in {"completed", "gone"}
      BY DEF OrderInv, BornInv, ArchiveInv, Typed, Row
    <3>2. QED
      BY <1>3, <1>4, <3>1
  <2>2. QED
    BY <1>3, <1>4, <2>1 DEF BornInv
(* A row that continued m has no parent; the parent of any other remains.  *)
<1>10. ParentInv'
  <2>1. Active' = {}
    BY <1>5 DEF Active, Busy
  <2>2. ASSUME NEW n \in Members \ Completed', rows'[n].parent # Nothing PROVE Follows(n)'
    <3>1. n \in Members \ {m} /\ n \notin Completed /\ rows[n].parent # m
          /\ rows'[n].parent = rows[n].parent
      BY <1>3, <1>4, <1>5, <2>2
    <3>2. PICK q \in Completed :
            /\ q = rows[n].parent /\ rows[q].scope = rows[n].scope
            /\ \A x \in Completed : Later(q, x) /\ x \in rows[n].before
                                  => rows[x].done < rows[q].done
      BY <2>2, <3>1 DEF OrderInv, ParentInv, Follows
    <3>3. q \in Completed' /\ q \in Members \ {m}
      BY <1>5, <1>7, <3>1, <3>2
    <3>4. ASSUME NEW x \in Completed', Later(q, x)', x \in rows[n].before
          PROVE  rows'[x].done < rows'[q].done
      <4>1. x \in Completed /\ x \in Members \ {m}
        BY <1>7
      <4>2. Later(q, x)
        BY <1>4, <3>3, <3>4, <4>1 DEF Later
      <4>3. QED
        BY <1>4, <3>2, <3>3, <3>4, <4>1, <4>2
    <3>5. rows'[q].scope = rows'[n].scope /\ rows'[n].before = rows[n].before
      BY <1>4, <3>1, <3>2, <3>3
    <3>6. QED
      BY <3>1, <3>2, <3>3, <3>4, <3>5 DEF Follows
  <2>3. QED
    BY <2>1, <2>2 DEF ParentInv
<1>11. \A n \in Completed : rows[n].seq \in Nat
  BY DEF ArchiveInv, Typed, Row, Completed
<1>12. ASSUME NEW n \in Completed' PROVE Chained(n)'
  <2>1. Chained(n) /\ n \in Members \ {m} /\ n \in Completed /\ (Kept(n)' <=> Kept(n))
    BY <1>7 DEF OrderInv, ChainInv
  <2>2. Kept(n)' => Recorded(n)'
    BY <1>1, <1>4, <2>1 DEF Chained, Recorded
  <2>3. rows[n].seq # 0 => \E p \in Completed' : Continued(p, n)'
    <3>1. SUFFICES ASSUME rows[n].seq # 0 PROVE \E p \in Completed' : Continued(p, n)'
      OBVIOUS
    <3>2. PICK p \in Completed : Continued(p, n)
      BY <2>1, <3>1 DEF Chained
    <3>3. p # m
      <4>1. rows[n].chain = rows[p].chain /\ rows[n].seq > rows[p].seq
        BY <1>11, <3>2 DEF Continued
      <4>2. QED
        BY <1>2, <2>1, <4>1 DEF HasLater
    <3>4. p \in Completed' /\ p \in Members \ {m} /\ (Kept(p)' <=> Kept(p))
      BY <1>5, <1>7, <3>3
    <3>5. Continued(p, n)'
      BY <1>1, <1>4, <2>1, <3>2, <3>4 DEF Continued
    <3>6. QED
      BY <3>4, <3>5
  <2>4. /\ rows[n].chain \in Completed' /\ rows[n].chain \in Members \ {m}
    <3>1. rows[n].chain \in Completed /\ rows[rows[n].chain].chain = rows[n].chain
      BY <2>1 DEF Chained
    <3>2. Chained(rows[n].chain)
      BY <3>1 DEF OrderInv, ChainInv
    <3>3. (rows[rows[n].chain].seq = 0 /\ rows[n].seq # 0) \/ rows[n].chain = n
      BY <2>1, <3>1, <3>2 DEF Chained
    <3>4. CASE rows[n].chain = n
      BY <1>7, <3>4
    <3>5. CASE rows[rows[n].chain].seq = 0 /\ rows[n].seq # 0
      <4>1. rows[n].seq > rows[rows[n].chain].seq
        BY <1>11, <2>1, <3>5
      <4>2. HasLater(rows[n].chain)
        BY <2>1, <3>1, <4>1 DEF HasLater
      <4>3. rows[n].chain # m
        BY <1>2, <4>2
      <4>4. QED
        BY <1>5, <1>7, <3>1, <4>3
    <3>6. QED
      BY <3>3, <3>4, <3>5
  <2>5. QED
    BY <1>4, <2>1, <2>2, <2>3, <2>4 DEF Chained
(* What m is the last of, it is not the member before the last.            *)
<1>13. ASSUME NEW n \in Completed', NEW o \in Completed' PROVE Linked(n, o)'
  <2>1. Linked(n, o) /\ n \in Members \ {m} /\ o \in Members \ {m}
        /\ n \in Completed /\ o \in Completed
    BY <1>7 DEF OrderInv, ChainInv
  <2>2. Behind(n, o)'
    <3>1. SUFFICES ASSUME rows[n].chain = rows[o].chain, rows[n].done < rows[o].done,
                          rows[n].seq >= rows[o].seq, Apart(n, o)
                   PROVE  \E q \in Completed' : /\ rows'[q].chain = rows[o].chain
                                                /\ rows'[q].seq + 1 = rows[o].seq
                                                /\ rows[n].done < rows'[q].done
      BY <1>4, <2>1 DEF Behind, Apart
    <3>2. PICK q \in Completed : /\ rows[q].chain = rows[o].chain /\ rows[q].seq + 1 = rows[o].seq
                                 /\ rows[n].done < rows[q].done
      BY <2>1, <3>1 DEF Linked, Behind
    <3>3. q # m
      <4>1. rows[o].seq > rows[q].seq
        BY <1>11, <2>1, <3>2
      <4>2. QED
        BY <1>2, <2>1, <3>2, <4>1 DEF HasLater
    <3>4. q \in Members \ {m} /\ q \in Completed'
      BY <1>5, <1>7, <3>3
    <3>5. QED
      BY <1>4, <3>2, <3>4
  <2>3. QED
    BY <1>4, <2>1, <2>2 DEF Linked
<1>14. ChainInv'
  BY <1>12, <1>13 DEF ChainInv
<1>15. QED
  BY <1>6, <1>8, <1>9, <1>10, <1>14 DEF OrderInv

(* A deletion given up leaves the rows it did not come to.                 *)
LEMMA AbandonKeepsOrder ==
  ASSUME ArchiveInv, OrderInv, NEW d \in Deleters, Abandon(d)
  PROVE  OrderInv'
<1>1. /\ rows' = rows /\ files' = files /\ sidecars' = sidecars /\ build' = build
      /\ Completed' = Completed /\ Active' = Active
  BY DEF Abandon, Completed, Active
<1>2. \A e \in Deleters : doomed'[e] \in {doomed[e], {}}
  BY DEF Abandon, ArchiveInv, Typed
<1>3. AloneInv'
  BY <1>1, <1>2 DEF OrderInv, AloneInv, Busy, Writing, At, Kept
<1>4. DoomInv'
  BY <1>1, <1>2 DEF OrderInv, DoomInv, Later, Kept
<1>5. ChainInv'
  BY <1>1, ChainsStay DEF OrderInv
<1>6. ParentInv' /\ BornInv'
  BY <1>1 DEF OrderInv, ParentInv, BornInv, Follows, Reads, Opens, Stamped, Later, Writing, At
<1>7. QED
  BY <1>3, <1>4, <1>5, <1>6 DEF OrderInv

LEMMA OrderInductive ==
  ASSUME Orderly, ArchiveInv, OrderInv, [Next]_chains
  PROVE  OrderInv'
<1>1. ASSUME NEW m \in Members,
             CreateManual(m) \/ CreateScheduled(m) \/ Resume(m) \/ Run(m) \/ Delete(m)
      PROVE  OrderInv'
  BY <1>1, CreateKeepsOrder, ResumeKeepsOrder, StartKeepsOrder, WriteKeepsOrder,
     CompleteKeepsOrder, SetbacksKeepOrder, RetainKeepsOrder, DeleteKeepsOrder DEF Run
<1>2. ASSUME NEW d \in Deleters, RemoveFile(d) \/ RemoveRow(d) \/ Abandon(d)
      PROVE  OrderInv'
  BY <1>2, RemoveFileKeepsOrder, RemoveRowKeepsOrder, AbandonKeepsOrder
<1>3. CASE \/ \E k \in Keys, v \in Versions \cup {Nothing} : Edit(k, v)
           \/ Migrate
           \/ \E f \in DOMAIN files : Upload(f)
           \/ \E f \in DOMAIN Stored : Restore(f)
           \/ UNCHANGED chains
  BY <1>3, SiteKeepsOrder DEF Edit, Migrate, Upload, Restore, chains
<1>4. QED
  BY <1>1, <1>2, <1>3 DEF Next

LEMMA OrderAlways == ASSUME Orderly PROVE Spec => [](ArchiveInv /\ OrderInv)
BY InitHolds, InitIsOrderly, ArchivesInductive, OrderInductive, PTL DEF Spec

(* A chain forks only where a row that had failed was run once more after  *)
(* its parent had been continued: the two had been requested before either *)
(* was completed.                                                          *)
THEOREM ForksAreResumed == ASSUME Orderly PROVE Spec => []LinearWhenApart
BY OrderAlways, ForksFollow, PTL

(* Whatever is rotated, deleted, failed, killed or resumed, a completed    *)
(* member whose archive is there resolves down to its base.                *)
THEOREM KeptStaysRestorable == ASSUME Orderly PROVE Spec => []KeptIsRestorable
BY OrderAlways, MembersResolve, PTL

(* Only a deletion takes the archive of a completed row.                   *)
LEMMA ArchivesStay ==
  ASSUME ArchiveInv, OrderInv, [Next]_chains, NEW n \in Completed, Kept(n),
         \A d \in Deleters : ~RemoveFile(d) /\ ~RemoveRow(d)
  PROVE  Restorable'
<1>1. n \in Members /\ rows[n] \in Row /\ rows \in [Members -> Row] /\ rows[n].status = "completed"
  BY DEF Completed, ArchiveInv, Typed
<1>2. ASSUME rows'[n].status = "completed", rows'[n].file = rows[n].file,
             rows[n].file \in DOMAIN files'
      PROVE  Restorable'
  BY <1>1, <1>2 DEF Restorable, Completed
<1>3. ASSUME rows' = rows, files' = files PROVE Restorable'
  BY <1>1, <1>2, <1>3 DEF Kept
<1>4. ASSUME NEW m \in Members, CreateManual(m) \/ CreateScheduled(m) PROVE Restorable'
  <2>1. PICK row : Add(m, row)
    BY <1>4 DEF CreateManual, CreateScheduled
  <2>2. rows'[n] = rows[n] /\ files' = files
    BY <1>1, <2>1 DEF Add, Unused
  <2>3. QED
    BY <1>1, <1>2, <2>2 DEF Kept
<1>5. ASSUME NEW m \in Members, Start(m) \/ Refuse(m) \/ Resume(m) PROVE Restorable'
  <2>1. rows'[n] = rows[n] /\ files' = files
    BY <1>1, <1>5 DEF Start, Refuse, Resume
  <2>2. QED
    BY <1>1, <1>2, <2>1 DEF Kept
<1>6. ASSUME NEW m \in Members, Write(m) PROVE Restorable'
  <2>1. DOMAIN files \subseteq DOMAIN files' /\ rows' = rows
    BY <1>6, Written DEF Write
  <2>2. QED
    BY <1>1, <1>2, <2>1 DEF Kept
<1>7. ASSUME NEW m \in Members, Complete(m) PROVE Restorable'
  <2>1. m # n /\ files' = files
    BY <1>1, <1>7 DEF Complete
  <2>2. rows'[n] = [rows[n] EXCEPT !.parent = Nothing]
    BY <1>1, <1>7, <2>1 DEF Complete
  <2>3. rows'[n].status = "completed" /\ rows'[n].file = rows[n].file
    BY <1>1, <2>2 DEF Row
  <2>4. QED
    BY <1>2, <2>1, <2>3 DEF Kept
<1>8. ASSUME NEW m \in Members, Fail(m) \/ Crash(m) PROVE Restorable'
  <2>1. /\ rows'[n].status = "completed" /\ rows'[n].file = rows[n].file
    <3>1. CASE m # n
      BY <1>1, <1>8, <3>1 DEF Fail, Crash
    <3>2. CASE m = n
      <4>1. ~Fail(m)
        BY <1>1, <3>2 DEF Fail, OrderInv, AloneInv, Writing
      <4>2. QED
        BY <1>1, <1>8, <3>2, <4>1 DEF Crash, Row
    <3>3. QED
      BY <3>1, <3>2
  <2>2. rows[n].file \in DOMAIN files'
    <3>1. CASE files' = files
      BY <3>1 DEF Kept
    <3>2. CASE Fail(m)
      <4>1. files' = Without(files, build[m].file)
        BY <3>2 DEF Fail
      <4>2. DOMAIN files' = DOMAIN files \ {build[m].file}
        BY <4>1, WithoutIs
      <4>3. rows[n].file # build[m].file
        <5>1. At(m, "started") \/ At(m, "stored")
          BY <3>2 DEF Fail, At
        <5>2. At(m, "started") => build[m].file = Nothing
          BY DEF ArchiveInv, Built
        <5>3. rows[n].file # Nothing
          BY DEF OrderInv, ChainInv, Chained
        <5>4. QED
          BY <1>1, <5>1, <5>2, <5>3 DEF ArchiveInv, Built
      <4>4. QED
        BY <4>2, <4>3 DEF Kept
    <3>3. QED
      BY <1>8, <3>1, <3>2 DEF Crash
  <2>3. QED
    BY <1>2, <2>1, <2>2
<1>9. CASE \/ \E k \in Keys, v \in Versions \cup {Nothing} : Edit(k, v)
           \/ Migrate
           \/ \E m \in Members : Retain(m) \/ Delete(m)
           \/ \E d \in Deleters : Abandon(d)
           \/ \E f \in DOMAIN files : Upload(f)
           \/ \E f \in DOMAIN Stored : Restore(f)
           \/ UNCHANGED chains
  BY <1>3, <1>9 DEF Edit, Migrate, Retain, Delete, Abandon, Upload, Restore, chains
<1>10. QED
  BY <1>4, <1>5, <1>6, <1>7, <1>8, <1>9 DEF Next, Run

(* The row whose completion started a pruning keeps its archive.           *)
LEMMA PruningSparesOne ==
  ASSUME ArchiveInv, OrderInv, doomed[Operator] = {},
         NEW d \in Deleters, RemoveFile(d) \/ RemoveRow(d)
  PROVE  Restorable'
<1>1. PICK m \in NextOut(d) :
        /\ files' = files \/ files' = Without(files, rows[m].file)
        /\ \/ rows' = rows
           \/ d # m => rows'[d] \in {rows[d], [rows[d] EXCEPT !.parent = Nothing]}
  <2>1. CASE RemoveFile(d)
    BY <2>1 DEF RemoveFile
  <2>2. CASE RemoveRow(d)
    <3>1. PICK m \in NextOut(d) :
            /\ rows' = [n \in Members |->
                 IF n = m THEN [NoRow EXCEPT !.status = "gone"]
                 ELSE IF rows[n].parent = m THEN [rows[n] EXCEPT !.parent = Nothing] ELSE rows[n]]
            /\ files' = files
      BY <2>2 DEF RemoveRow
    <3>2. d \in Members
      BY LastGoes, <3>1 DEF Completed
    <3>3. QED
      BY <3>1, <3>2
  <2>3. QED
    BY <2>1, <2>2
<1>2. m \in doomed[d] /\ d # Operator
  BY LastGoes
<1>3. /\ d \in Completed /\ d # m
      /\ \A e \in Deleters : doomed[e] # {} => e = d
  BY <1>2, LastGoes
<1>4. d \in Members /\ rows[d] \in Row /\ rows[d].status = "completed"
  BY <1>3 DEF Completed, ArchiveInv, Typed
<1>5. Kept(d)
  BY <1>2, LastGoes
<1>6. rows[d].file # rows[m].file
  <2>1. CASE m \in Completed
    BY <1>3, <2>1 DEF OrderInv, ChainInv, Linked
  <2>2. CASE m \notin Completed
    <3>1. rows[m].file = Nothing /\ rows[d].file # Nothing
      BY <1>3, <2>2, LastGoes DEF OrderInv, AloneInv, ChainInv, Chained
    <3>2. QED
      BY <3>1
  <2>3. QED
    BY <2>1, <2>2
<1>7. rows[d].file \in DOMAIN files'
  <2>1. CASE files' = files
    BY <1>5, <2>1 DEF Kept
  <2>2. CASE files' = Without(files, rows[m].file)
    <3>1. DOMAIN files' = DOMAIN files \ {rows[m].file}
      BY <2>2 DEF Without, Restrict
    <3>2. QED
      BY <1>5, <1>6, <3>1 DEF Kept
  <2>3. QED
    BY <1>1, <2>1, <2>2
<1>8. rows'[d].status = "completed" /\ rows'[d].file = rows[d].file
  BY <1>1, <1>3, <1>4 DEF Row
<1>9. QED
  BY <1>4, <1>7, <1>8 DEF Restorable, Completed

(* Pruning alone never leaves a site without an archive to restore from.   *)
THEOREM RetentionSparesOne == ASSUME Orderly PROVE Spec => RetentionLeavesARestorable
<1>1. ASSUME ArchiveInv, OrderInv, [Next]_chains
      PROVE  [Restorable /\ doomed[Operator] = {} => Restorable']_chains
  <2>1. SUFFICES ASSUME Restorable, doomed[Operator] = {} PROVE Restorable'
    OBVIOUS
  <2>2. PICK n \in Completed : Kept(n)
    BY <2>1 DEF Restorable, Kept
  <2>3. QED
    BY <1>1, <2>1, <2>2, ArchivesStay, PruningSparesOne
<1>2. QED
  BY <1>1, OrderAlways, PTL DEF RetentionLeavesARestorable, Spec
=============================================================================
