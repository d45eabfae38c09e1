------------------------- MODULE ReleaseStateProofs -------------------------
(***************************************************************************)
(* Proofs about ReleaseState, for any number of releases, any prereleases  *)
(* among them, any number of events and every set of mishaps.              *)
(***************************************************************************)
EXTENDS ReleaseState, WellFoundedInduction, TLAPS

USE ReleaseStateAssumption

-----------------------------------------------------------------------------
(* Types.                                                                  *)

LEMMA VersionsAre ==
  /\ Versions \subseteq Nat \ {None} /\ 1 \in Versions
  /\ Never \in Nat
BY DEF Versions, None, Never

LEMMA NewestIs ==
  ASSUME NEW S \in SUBSET Versions, S # {}
  PROVE  NewestOf(S) \in S /\ \A w \in S : w <= NewestOf(S)
<1> DEFINE Gaps == {g \in Nat : \E v \in S : g = Last - v}
<1>1. \A v \in S : v \in Nat /\ Last - v \in Gaps
  BY DEF Versions
<1>2. PICK g \in Gaps : \A h \in Gaps : ~ (h < g)
  <2>1. Gaps # {} /\ Gaps \in SUBSET Nat
    BY <1>1
  <2> HIDE DEF Gaps
  <2>2. PICK g \in Gaps : \A h \in Gaps : <<h, g>> \notin OpToRel(<, Nat)
    BY <2>1, WFMin, NatLessThanWellFounded
  <2>3. QED
    BY <2>1, <2>2 DEF OpToRel
<1>3. PICK v \in S : g = Last - v
  OBVIOUS
<1> HIDE DEF Gaps
<1>4. \A w \in S : w <= v
  BY <1>1, <1>2, <1>3
<1>5. QED
  BY <1>4 DEF NewestOf

LEMMA ResolveIs ==
  ASSUME NEW image \in Versions, NEW staged \in SUBSET Versions, NEW pointer
  PROVE  Resolve(image, pointer, staged) \in Versions
BY DEF Resolve

LEMMA TargetIs ==
  ASSUME baked \in Versions, releases \subseteq Versions, NEW version \in Versions
  PROVE  RollbackTarget(version) \in Versions \cup {None}
<1>1. Below(version, releases) \in SUBSET Versions
  BY DEF Below
<1>2. CASE Below(version, releases) = {}
  BY <1>2 DEF RollbackTarget
<1>3. CASE Below(version, releases) # {}
  BY <1>1, <1>3, NewestIs DEF RollbackTarget
<1>4. QED
  BY <1>2, <1>3

LEMMA PointersAre ==
  ASSUME baked \in Versions, NEW gen \in Nat
  PROVE  /\ ImagePointer(gen) \in Pointer /\ ImagePointer(gen).version = baked
         /\ ImagePointer(gen).source = "image" /\ ImagePointer(gen).generation = gen
         /\ NoPointer \in Pointer /\ NoPointer.version = None /\ NoPointer.source = "missing"
BY DEF ImagePointer, NoPointer, Pointer, None

LEMMA FreshIsRow == Fresh \in StateRow /\ Idle.row \in StateRow /\ NoReport \in Report
BY VersionsAre DEF Fresh, Idle, StateRow, Channels, NoReport, Report

(* What reconcile has settled on, half-way: the row it will save keeps the *)
(* operator's choices, and what it read is what it has written.            *)
Sane(s) ==
  /\ s.row \in StateRow /\ s.row.baked = baked
  /\ s.row.skipped = row.skipped /\ s.row.channel = row.channel
  /\ s.row.compatible => row.compatible /\ s.row.latest = row.latest
  /\ s.written \in Pointer /\ (s.written.version = None <=> s.written.source = "missing")
  /\ s.gen \in Nat /\ s.read \in Pointer /\ s.read.source # "missing"
  /\ s.read.source = "image" => s.read.version = baked
  /\ s.read.source = "volume" => /\ s.read.version \in releases
                                 /\ s.read.version >= baked
                                 /\ s.written.source = "volume"
                                 /\ s.written.version = s.read.version

LEMMA ReadIs ==
  ASSUME ReleaseTypeOK
  PROVE  LET read == ReadActive(active, generation) IN
         /\ read \in Pointer /\ read.source # "missing"
         /\ read.source = "image" => read.version = baked
         /\ read.source = "volume" => /\ read.version \in releases /\ active.source = "volume"
                                      /\ active.version = read.version
<1>1. baked \in Versions /\ active \in Pointer /\ generation \in Nat /\ releases \subseteq Versions
  BY DEF ReleaseTypeOK
<1>2. /\ active.source \in {"image", "volume", "missing", "unreadable"}
      /\ active.version \in Versions \cup {None} /\ active.generation \in Nat
  BY <1>1 DEF Pointer
<1>3. CASE active.source = "missing"
  BY <1>1, <1>3, PointersAre DEF ReadActive
<1>4. CASE active.source = "image"
  BY <1>1, <1>2, <1>4, PointersAre DEF ReadActive
<1>5. CASE active.source = "volume" /\ active.version \in releases
  <2>1. ReadActive(active, generation) =
          [active EXCEPT !.generation = IF active.generation = 0 THEN generation
                                        ELSE active.generation]
    BY <1>5 DEF ReadActive
  <2>2. QED
    BY <1>1, <1>2, <1>5, <2>1 DEF Pointer
<1>6. CASE active.source = "unreadable" \/ (active.source = "volume" /\ active.version \notin releases)
  <2>1. ReadActive(active, generation) = [NoPointer EXCEPT !.source = "unreadable"]
    BY <1>6 DEF ReadActive
  <2>2. QED
    BY <2>1 DEF NoPointer, Pointer
<1>7. QED
  BY <1>2, <1>3, <1>4, <1>5, <1>6

LEMMA ResetIs ==
  ASSUME baked \in Versions, NEW r \in StateRow, NEW gen \in Nat
  PROVE  /\ ResetRow(r, gen) \in StateRow /\ ~ResetRow(r, gen).compatible
         /\ ResetRow(r, gen).baked = r.baked /\ ResetRow(r, gen).skipped = r.skipped
         /\ ResetRow(r, gen).channel = r.channel
BY DEF ResetRow, StateRow

(* Falling back to the image is sane, whichever row it starts from.        *)
LEMMA ResetIsSane ==
  ASSUME baked \in Versions, NEW r \in StateRow, NEW gen \in Nat, NEW restored,
         r.baked = baked, r.skipped = row.skipped, r.channel = row.channel
  PROVE  Sane([row |-> ResetRow(r, gen), written |-> ImagePointer(gen), gen |-> gen,
               read |-> ImagePointer(gen), restored |-> restored])
<1> DEFINE new == ResetRow(r, gen)
           image == ImagePointer(gen)
<1>1. /\ new \in StateRow /\ ~new.compatible /\ new.baked = baked
      /\ new.skipped = row.skipped /\ new.channel = row.channel
  BY ResetIs
<1>2. /\ image \in Pointer /\ image.version = baked /\ image.source = "image"
      /\ baked # None
  BY PointersAre, VersionsAre
<1> DEFINE s == [row |-> new, written |-> image, gen |-> gen, read |-> image,
                 restored |-> restored]
<1> HIDE DEF new, image
<1>3. s.row = new /\ s.written = image /\ s.gen = gen /\ s.read = image
  OBVIOUS
<1> HIDE DEF s
<1>4. Sane(s)
  BY <1>1, <1>2, <1>3 DEF Sane
<1>5. QED
  BY <1>4 DEF s, new, image

LEMMA SupersededIsSane == ReleaseTypeOK => Sane(Superseded)
<1> SUFFICES ASSUME ReleaseTypeOK PROVE Sane(Superseded)
  OBVIOUS
<1> DEFINE read == ReadActive(active, generation)
           here == [row EXCEPT !.baked = baked]
<1>1. /\ baked \in Versions /\ row \in StateRow /\ active \in Pointer /\ generation \in Nat
      /\ releases \subseteq Versions /\ (active.version = None <=> active.source = "missing")
  BY DEF ReleaseTypeOK
<1>2. /\ here \in StateRow /\ here.baked = baked /\ here.skipped = row.skipped
      /\ here.channel = row.channel /\ here.compatible = row.compatible
      /\ here.latest = row.latest
  BY <1>1 DEF StateRow
<1>3. /\ read \in Pointer /\ read.source # "missing"
      /\ read.source = "image" => read.version = baked
      /\ read.source = "volume" => /\ read.version \in releases /\ active.source = "volume"
                                   /\ active.version = read.version
  BY ReadIs
<1> HIDE DEF read, here
<1>4. CASE read.source = "volume" /\ baked > read.version
  <2>1. Superseded = [row |-> ResetRow(here, generation + 1),
                      written |-> ImagePointer(generation + 1), gen |-> generation + 1,
                      read |-> ImagePointer(generation + 1), restored |-> FALSE]
    BY <1>4 DEF Superseded, read, here
  <2>2. generation + 1 \in Nat
    BY <1>1
  <2>3. QED
    BY <1>1, <1>2, <2>1, <2>2, ResetIsSane
<1>5. CASE read.source = "image" /\ baked > row.active
  <2>1. Superseded = [row |-> ResetRow(here, generation),
                      written |-> ImagePointer(generation), gen |-> generation,
                      read |-> ImagePointer(generation), restored |-> FALSE]
    BY <1>5 DEF Superseded, read, here
  <2>2. QED
    BY <1>1, <1>2, <2>1, ResetIsSane
<1>6. CASE /\ ~(read.source = "volume" /\ baked > read.version)
           /\ ~(read.source = "image" /\ baked > row.active)
  <2>1. Superseded = [row |-> here, written |-> active, gen |-> generation,
                      read |-> read, restored |-> FALSE]
    BY <1>6 DEF Superseded, read, here
  <2>2. read.source = "volume" => read.version >= baked
    <3>1. baked \in Nat /\ (read.source = "volume" => read.version \in Nat)
      BY <1>1, <1>3, VersionsAre
    <3>2. QED
      BY <1>6, <3>1
  <2>3. QED
    BY <1>1, <1>2, <1>3, <2>1, <2>2 DEF Sane
<1>7. QED
  BY <1>4, <1>5, <1>6

LEMMA RecoveredIsSane ==
  ASSUME ReleaseTypeOK
  PROVE  /\ Sane(Recovered)
         /\ Recovered.read.source = "unreadable" => Recovered.row.degraded
<1> DEFINE s == Superseded
<1>1. Sane(s) /\ baked \in Versions
  BY SupersededIsSane DEF ReleaseTypeOK
<1>2. DOMAIN s = {"row", "written", "gen", "read", "restored"}
      /\ s = [row |-> s.row, written |-> s.written, gen |-> s.gen, read |-> s.read,
              restored |-> s.restored]
  BY DEF Superseded
<1> HIDE DEF s
<1> DEFINE wanting == \/ s.read.source = "unreadable"
                      \/ s.written.source = "missing" /\ s.row.active # baked
<1>3. /\ s.row \in StateRow /\ s.gen \in Nat /\ s.gen + 1 \in Nat /\ s.row.generation \in Nat
      /\ s.read \in Pointer
  BY <1>1 DEF Sane, StateRow
<1>4. CASE ~wanting
  BY <1>1, <1>4 DEF Recovered, s, Sane
<1>5. CASE wanting /\ s.row.active # baked /\ s.row.active \notin releases
  <2>1. Recovered = [row |-> ResetRow(s.row, s.gen + 1), written |-> ImagePointer(s.gen + 1),
                     gen |-> s.gen + 1, read |-> ImagePointer(s.gen + 1), restored |-> TRUE]
    BY <1>2, <1>5 DEF Recovered, s
  <2>2. /\ s.row.baked = baked /\ s.row.skipped = row.skipped /\ s.row.channel = row.channel
        /\ Recovered.read.source = "image"
    BY <1>1, <2>1, PointersAre, <1>3 DEF Sane
  <2>3. QED
    BY <1>1, <1>3, <2>1, <2>2, ResetIsSane
<1>6. CASE wanting /\ s.row.active = baked
  <2>1. Recovered = [row |-> s.row, written |-> ImagePointer(s.row.generation),
                     gen |-> s.row.generation, read |-> ImagePointer(s.row.generation),
                     restored |-> TRUE]
    BY <1>2, <1>6 DEF Recovered, s
  <2>2. QED
    BY <1>1, <1>3, <2>1, PointersAre, VersionsAre DEF Sane
<1>7. CASE wanting /\ s.row.active # baked /\ s.row.active \in releases
  <2> DEFINE gone == [s.read EXCEPT !.source = "unreadable"]
             worn == [s.row EXCEPT !.degraded = TRUE]
  <2>1. Recovered = [row |-> worn, written |-> s.written, gen |-> s.gen, read |-> gone,
                     restored |-> s.restored]
    BY <1>2, <1>7 DEF Recovered, s
  <2>2. gone \in Pointer /\ gone.source = "unreadable"
    BY <1>3 DEF Pointer
  <2>3. /\ worn \in StateRow /\ worn.baked = s.row.baked /\ worn.skipped = s.row.skipped
        /\ worn.channel = s.row.channel /\ worn.compatible = s.row.compatible
        /\ worn.latest = s.row.latest /\ worn.degraded
    BY <1>3 DEF StateRow
  <2> HIDE DEF gone, worn
  <2>4. QED
    BY <1>1, <2>1, <2>2, <2>3 DEF Sane
<1>8. QED
  BY <1>4, <1>5, <1>6, <1>7

LEMMA StoodDownIs ==
  ASSUME NEW r \in StateRow
  PROVE  /\ StoodDown(r) \in StateRow
         /\ \A f \in DOMAIN r : f # "compatible" => StoodDown(r)[f] = r[f]
         /\ StoodDown(r).compatible =>
              r.compatible /\ (r.latest # None => r.latest > r.active)
<1>1. CASE r.latest # None /\ ~(r.latest > r.active)
  <2>1. StoodDown(r) = [r EXCEPT !.compatible = FALSE]
    BY <1>1 DEF StoodDown
  <2>2. QED
    BY <2>1 DEF StateRow
<1>2. CASE ~(r.latest # None /\ ~(r.latest > r.active))
  BY <1>2 DEF StoodDown
<1>3. QED
  BY <1>1, <1>2

(* What a reconcile leaves, in full.                                       *)
LEMMA ReconcileIs ==
  ASSUME ReleaseTypeOK, Reconcile
  PROVE  LET s == Recovered IN
         /\ row' \in StateRow
         /\ row'.baked = baked /\ row'.skipped = row.skipped /\ row'.channel = row.channel
         /\ row'.compatible => /\ row.compatible
                               /\ row'.latest = row.latest
                               /\ row'.latest # None => row'.latest > row'.active
         /\ row'.previous = RollbackTarget(row'.active)
         /\ IF s.read.source = "unreadable"
            THEN row'.degraded /\ generation' = s.gen /\ active' = s.written
            ELSE /\ row'.active = s.read.version /\ row'.generation = s.read.generation
                 /\ generation' = s.read.generation
                 /\ active' = IF s.read.source = "image" /\ s.written.source # "missing"
                                 /\ s.written.version # baked
                              THEN ImagePointer(s.read.generation) ELSE s.written
         /\ s.read.source # "unreadable" => s.read.version \in Versions
<1> DEFINE s == Recovered
           served == s.read.source # "unreadable"
           healthy == s.restored \/ (s.read.source = "image" /\ s.read.version = baked)
           worn == s.row.degraded /\ ~healthy
           r == IF served
                THEN [s.row EXCEPT !.active = s.read.version, !.generation = s.read.generation,
                        !.degraded = @ /\ ~healthy]
                ELSE s.row
           saved == [r EXCEPT !.previous = RollbackTarget(r.active)]
<1>1. /\ Sane(s) /\ (s.read.source = "unreadable" => s.row.degraded)
      /\ baked \in Versions /\ releases \subseteq Versions
  BY RecoveredIsSane DEF ReleaseTypeOK
<1>2. /\ row' = StoodDown(saved)
      /\ generation' = IF served THEN s.read.generation ELSE s.gen
      /\ active' = IF served /\ s.read.source = "image" /\ s.written.source # "missing"
                      /\ s.written.version # baked
                   THEN ImagePointer(s.read.generation) ELSE s.written
  BY DEF Reconcile
<1> HIDE DEF s
<1>3. served => s.read.version \in Versions /\ s.read.generation \in Nat
  <2>1. s.read.source \in {"image", "volume", "unreadable"} /\ s.read.generation \in Nat
    BY <1>1 DEF Sane, Pointer
  <2>2. QED
    BY <1>1, <2>1 DEF Sane
<1>4. /\ r \in StateRow /\ r.baked = baked /\ r.skipped = row.skipped /\ r.channel = row.channel
      /\ r.compatible => row.compatible /\ r.latest = row.latest
      /\ served => r.active = s.read.version /\ r.generation = s.read.generation
      /\ ~served => r.degraded
  <2>1. /\ s.row \in StateRow /\ s.row.baked = baked /\ s.row.skipped = row.skipped
        /\ s.row.channel = row.channel /\ (s.row.compatible => row.compatible /\ s.row.latest = row.latest)
    BY <1>1 DEF Sane
  <2>2. CASE ~served
    BY <1>1, <2>1, <2>2
  <2>3. CASE served
    <3>1. r = [s.row EXCEPT !.active = s.read.version, !.generation = s.read.generation,
                            !.degraded = worn]
      BY <2>3
    <3>2. worn \in BOOLEAN
      BY <2>1 DEF StateRow
    <3> HIDE DEF worn, r
    <3>3. QED
      BY <1>3, <2>1, <2>3, <3>1, <3>2 DEF StateRow
  <2>4. QED
    BY <2>2, <2>3
<1> HIDE DEF r
<1>5. /\ saved \in StateRow /\ saved.previous = RollbackTarget(r.active)
      /\ saved.active = r.active /\ saved.baked = r.baked /\ saved.skipped = r.skipped
      /\ saved.channel = r.channel /\ saved.compatible = r.compatible /\ saved.latest = r.latest
      /\ saved.degraded = r.degraded /\ saved.generation = r.generation
  <2>1. r.active \in Versions
    BY <1>4 DEF StateRow
  <2>2. RollbackTarget(r.active) \in Versions \cup {None}
    BY <1>1, <2>1, TargetIs
  <2>3. QED
    BY <1>4, <2>2 DEF StateRow
<1> HIDE DEF saved
<1>6. /\ StoodDown(saved) \in StateRow
      /\ StoodDown(saved).compatible =>
           saved.compatible /\ (saved.latest # None => saved.latest > saved.active)
      /\ \A f \in {"active", "baked", "skipped", "channel", "latest", "degraded",
                   "generation", "previous"} : StoodDown(saved)[f] = saved[f]
  <2>1. DOMAIN saved = {"baked", "active", "previous", "latest", "compatible", "degraded",
                        "generation", "channel", "skipped"}
    BY <1>5 DEF StateRow
  <2>2. QED
    BY <1>5, <2>1, StoodDownIs
<1>7. /\ row' \in StateRow /\ row'.baked = baked /\ row'.skipped = row.skipped
      /\ row'.channel = row.channel /\ row'.previous = RollbackTarget(row'.active)
      /\ row'.active = r.active /\ row'.latest = r.latest /\ row'.degraded = r.degraded
      /\ row'.generation = r.generation
      /\ row'.compatible => r.compatible /\ (r.latest # None => r.latest > r.active)
  BY <1>2, <1>4, <1>5, <1>6
<1>8. IF ~served
      THEN row'.degraded /\ generation' = s.gen /\ active' = s.written
      ELSE /\ row'.active = s.read.version /\ row'.generation = s.read.generation
           /\ generation' = s.read.generation
           /\ active' = IF s.read.source = "image" /\ s.written.source # "missing"
                           /\ s.written.version # baked
                        THEN ImagePointer(s.read.generation) ELSE s.written
  BY <1>2, <1>4, <1>7
<1>9. QED
  BY <1>3, <1>4, <1>7, <1>8 DEF s

LEMMA DroppedIs ==
  ASSUME NEW r \in StateRow
  PROVE  /\ Dropped(r) \in StateRow /\ ~Dropped(r).compatible
         /\ Dropped(r).skipped = r.skipped /\ Dropped(r).channel = r.channel
         /\ Dropped(r).baked = r.baked /\ Dropped(r).active = r.active
         /\ Dropped(r).previous = r.previous /\ Dropped(r).degraded = r.degraded
BY DEF Dropped, StateRow

LEMMA RechannelledIs ==
  ASSUME NEW r \in StateRow, NEW c \in Channels
  PROVE  LET n == Rechannelled(r, c) IN
         /\ n \in StateRow /\ n.channel = c /\ n.skipped = r.skipped
         /\ n.baked = r.baked /\ n.active = r.active
         /\ n.previous = r.previous /\ n.degraded = r.degraded
         /\ n.compatible => /\ r.compatible /\ n.latest = r.latest
                            /\ r.channel = c \/ ~Refused(r.latest, c)
<1>1. CASE r.channel # c /\ Refused(r.latest, c)
  <2>1. Rechannelled(r, c) = [Dropped(r) EXCEPT !.channel = c]
    BY <1>1 DEF Rechannelled
  <2>2. QED
    BY <2>1, DroppedIs DEF StateRow
<1>2. CASE ~(r.channel # c /\ Refused(r.latest, c))
  <2>1. Rechannelled(r, c) = [r EXCEPT !.channel = c]
    BY <1>2 DEF Rechannelled
  <2>2. QED
    BY <1>2, <2>1 DEF StateRow
<1>3. QED
  BY <1>1, <1>2

(* What a skip leaves of the row, column by column.                        *)
LEMMA SkipIs ==
  ASSUME ReleaseTypeOK, SaveSkip
  PROVE  \E sk \in SUBSET Versions, la \in Versions \cup {None}, co \in BOOLEAN :
           /\ row' = [row EXCEPT !.skipped = sk, !.latest = la, !.compatible = co]
           /\ sk \in {row.skipped, form.row.skipped \cup {form.version}}
           /\ co => row.compatible /\ ~(form.row.latest = form.version /\ form.row.compatible)
           /\ form.row.latest # form.version => la = row.latest
<1>1. /\ row.skipped \in SUBSET Versions /\ form.row.skipped \in SUBSET Versions
      /\ row.latest \in Versions \cup {None} /\ form.row.active \in Versions
      /\ row.compatible \in BOOLEAN
  BY DEF ReleaseTypeOK, StateRow, Form, Offer
<1> DEFINE sk == IF form.version \in form.row.skipped THEN row.skipped
                 ELSE form.row.skipped \cup {form.version}
           la == IF form.row.latest = form.version /\ form.row.latest # form.row.active
                 THEN form.row.active ELSE row.latest
           co == row.compatible /\ ~(form.row.latest = form.version /\ form.row.compatible)
<1>2. row' = [row EXCEPT !.skipped = sk, !.latest = la, !.compatible = co]
  BY DEF SaveSkip, Save
<1>3. form.version \in Versions
  BY DEF SaveSkip, Save, ReleaseTypeOK, Form
<1>4. sk \in SUBSET Versions /\ la \in Versions \cup {None} /\ co \in BOOLEAN
  BY <1>1, <1>3
<1>5. QED
  BY <1>2, <1>4

(* A request keeps every column that it is not about; an offer that it     *)
(* leaves is the one that was there.                                       *)
LEMMA ServeIs ==
  ASSUME ReleaseTypeOK, Serve
  PROVE  /\ row' \in StateRow /\ row'.baked = row.baked /\ row'.active = row.active
         /\ row'.previous = row.previous /\ row'.degraded = row.degraded
         /\ form' \in {[form EXCEPT !.step = "saved"], NoForm}
<1>1. /\ row \in StateRow /\ form.row \in Offer /\ form.channel \in Channels
      /\ form.version \in Versions
  BY DEF ReleaseTypeOK, Form
<1>2. /\ form.row.active \in Versions /\ form.row.skipped \in SUBSET Versions
      /\ form.row.latest \in Versions \cup {None} /\ form.row.compatible \in BOOLEAN
  BY <1>1 DEF Offer
<1>3. CASE SaveChannel
  <2>1. row' = [row EXCEPT !.channel = form.channel]
    BY <1>3 DEF SaveChannel, Save
  <2>2. form' \in {[form EXCEPT !.step = "saved"], NoForm}
    BY <1>3 DEF SaveChannel, Save
  <2>3. QED
    BY <1>1, <2>1, <2>2 DEF StateRow
<1>4. CASE DropOffer
  <2>1. row' = [row EXCEPT !.latest = form.row.active, !.compatible = FALSE] /\ form' = NoForm
    BY <1>4 DEF DropOffer
  <2>2. QED
    BY <1>1, <1>2, <2>1 DEF StateRow
<1>5. CASE SaveSkip
  <2>1. PICK sk \in SUBSET Versions, la \in Versions \cup {None}, co \in BOOLEAN :
          row' = [row EXCEPT !.skipped = sk, !.latest = la, !.compatible = co]
    BY <1>1, <1>2, <1>5, SkipIs
  <2>2. form' = NoForm
    BY <1>5 DEF SaveSkip, Save
  <2>3. QED
    BY <1>1, <2>1, <2>2 DEF StateRow
<1>6. CASE SaveUnskip
  <2>1. row' = [row EXCEPT !.skipped = form.row.skipped \ {form.version}] /\ form' = NoForm
    BY <1>6 DEF SaveUnskip, Save
  <2>2. QED
    BY <1>1, <1>2, <2>1 DEF StateRow
<1>7. QED
  BY <1>3, <1>4, <1>5, <1>6 DEF Serve

LEMMA SaveIs ==
  ASSUME ReleaseTypeOK, SaveCheck
  PROVE  /\ row' \in StateRow /\ row'.skipped = copy.row.skipped
         /\ row'.channel = copy.row.channel /\ row'.baked = copy.row.baked
         /\ row'.active = copy.row.active /\ row'.previous = copy.row.previous
         /\ row'.degraded = copy.row.degraded
         /\ row'.compatible => row'.latest = copy.report.version /\ Admits(copy.row, copy.report)
<1>1. /\ copy.row \in StateRow /\ copy.report.version \in Versions \cup {None}
      /\ copy.report.safe \in BOOLEAN
  BY DEF ReleaseTypeOK, Report
<1>2. CASE copy.report = NoReport
  <2>1. row' = [copy.row EXCEPT !.compatible = FALSE]
    BY <1>2 DEF SaveCheck
  <2>2. QED
    BY <1>1, <2>1 DEF StateRow
<1>3. CASE copy.report # NoReport
  <2> DEFINE admitted == Admits(copy.row, copy.report)
  <2>1. row' = [copy.row EXCEPT !.latest = copy.report.version, !.compatible = admitted]
    BY <1>3 DEF SaveCheck
  <2>2. admitted \in BOOLEAN
    BY DEF Admits
  <2> HIDE DEF admitted
  <2>3. /\ row' \in StateRow /\ row'.skipped = copy.row.skipped
        /\ row'.channel = copy.row.channel /\ row'.baked = copy.row.baked
        /\ row'.active = copy.row.active /\ row'.previous = copy.row.previous
        /\ row'.degraded = copy.row.degraded
        /\ row'.compatible = admitted /\ row'.latest = copy.report.version
    BY <1>1, <2>1, <2>2 DEF StateRow
  <2>4. QED
    BY <2>3 DEF admitted
<1>4. QED
  BY <1>2, <1>3

-----------------------------------------------------------------------------
(* Type correctness.                                                       *)

LEMMA StartedIs ==
  ASSUME NEW image \in Versions, NEW staged \in SUBSET Versions, NEW pointer,
         NEW gen \in Nat
  PROVE  Started(image, pointer, staged, gen) \in [runs : Versions, started : Nat]
BY ResolveIs DEF Started

LEMMA EventIs == ReleaseTypeOK /\ Event => events' \in 0..MaxEvents
BY DEF ReleaseTypeOK, Event

LEMMA NoFormIs == NoForm \in Form
BY VersionsAre DEF NoForm, Form, Asks, Channels, Offer, OfferOf, Fresh

LEMMA PanelIs ==
  ASSUME ReleaseTypeOK, WebEnds \/ UNCHANGED panel
  PROVE  form' \in {form, NoForm} /\ missed' \in BOOLEAN
BY DEF ReleaseTypeOK, WebEnds, panel

LEMMA LoadTypes == ASSUME ReleaseTypeOK, NEW asked \in Form, Load(asked) PROVE ReleaseTypeOK'
<1>1. OfferOf(row) \in Offer
  BY DEF ReleaseTypeOK, StateRow, OfferOf, Offer
<1>2. form' \in Form
  BY <1>1 DEF Load, Form
<1>3. QED
  BY <1>2, EventIs DEF Load, RowOnly, ReleaseTypeOK

LEMMA InitTypes == Init => ReleaseTypeOK
<1> SUFFICES ASSUME Init PROVE ReleaseTypeOK
  OBVIOUS
<1>1. baked = 1 /\ 1 \in Versions
  BY VersionsAre DEF Init
<1>2. active = NoPointer /\ NoPointer \in Pointer /\ NoPointer.version = None
      /\ NoPointer.source = "missing"
  BY <1>1, PointersAre DEF Init
<1>3. /\ reconciled \in Nat /\ row \in StateRow /\ report \in Report
      /\ copy \in [taken : BOOLEAN, row : StateRow, report : Report]
  BY VersionsAre, FreshIsRow DEF Init, Idle
<1>4. procs \in [Processes -> [runs : Versions, started : Nat]]
  BY <1>1 DEF Init
<1>5. events \in 0..MaxEvents
  BY DEF Init
<1>6. form \in Form /\ missed = FALSE
  BY NoFormIs DEF Init
<1>7. QED
  BY <1>1, <1>2, <1>3, <1>4, <1>5, <1>6 DEF ReleaseTypeOK, Init

(* What every step of the host, of Composer and of the supervisor leaves   *)
(* well typed, given what it does to the volume.                           *)
LEMMA HostTypes ==
  ASSUME ReleaseTypeOK,
         baked' \in Versions, releases' \subseteq Versions, active' \in Pointer,
         active'.version = None <=> active'.source = "missing",
         generation' \in Nat, procs' \in [Processes -> [runs : Versions, started : Nat]],
         reconciled' \in {reconciled, Never}, row' = row,
         policy' \in {policy, "missing"}, request' \in {request, "none"} \cup Channels,
         report' \in Report, copy' \in {copy, Idle}, WebEnds \/ UNCHANGED panel,
         events' \in 0..MaxEvents
  PROVE  ReleaseTypeOK'
<1>1. Idle \in [taken : BOOLEAN, row : StateRow, report : Report]
  BY FreshIsRow DEF Idle
<1>2. QED
  BY <1>1, NoFormIs, PanelIs, VersionsAre DEF ReleaseTypeOK

LEMMA NextTypes == ReleaseTypeOK /\ [Next]_release => ReleaseTypeOK'
<1> SUFFICES ASSUME ReleaseTypeOK, [Next]_release PROVE ReleaseTypeOK'
  OBVIOUS
<1>1. /\ baked \in Versions /\ releases \subseteq Versions /\ active \in Pointer
      /\ (active.version = None <=> active.source = "missing") /\ generation \in Nat
      /\ procs \in [Processes -> [runs : Versions, started : Nat]]
      /\ row \in StateRow /\ report \in Report /\ events \in 0..MaxEvents
  BY DEF ReleaseTypeOK
<1>2. CASE UNCHANGED release
  BY <1>2 DEF ReleaseTypeOK, release, panel
<1>3. ASSUME NEW p \in Processes, Supervise(p) \/ Restart(p) PROVE ReleaseTypeOK'
  <2>1. procs' = [procs EXCEPT ![p] = Started(baked, active, releases, generation)]
    BY <1>3 DEF Supervise, Restart
  <2>2. procs' \in [Processes -> [runs : Versions, started : Nat]]
    BY <1>1, <2>1, StartedIs
  <2>3. events' \in 0..MaxEvents
    BY <1>1, <1>3, EventIs DEF Supervise, Restart
  <2>4. /\ reconciled' \in {reconciled, Never} /\ copy' \in {copy, Idle}
        /\ WebEnds \/ UNCHANGED panel
        /\ UNCHANGED <<baked, releases, active, generation, row, policy, request, report>>
    BY <1>3 DEF Supervise, Restart
  <2>5. QED
    BY <1>1, <2>2, <2>3, <2>4, HostTypes
<1>4. ASSUME NEW v \in Versions, Rebuild(v) PROVE ReleaseTypeOK'
  <2>1. /\ active' \in Pointer /\ (active'.version = None <=> active'.source = "missing")
    <3>1. active' = Repaired(v, active, releases, generation)
      BY <1>4 DEF Rebuild
    <3>2. QED
      BY <1>1, <3>1, VersionsAre DEF Repaired, Pointer
  <2>2. procs' \in [Processes -> [runs : Versions, started : Nat]]
    <3>1. Started(v, active', releases, generation) \in [runs : Versions, started : Nat]
      BY <1>1, StartedIs
    <3>2. QED
      BY <1>4, <3>1 DEF Rebuild
  <2>3. QED
    BY <1>1, <1>4, <2>1, <2>2, EventIs, HostTypes DEF Rebuild
<1>5. CASE Wipe
  <2>1. Started(baked, NoPointer, {}, 0) \in [runs : Versions, started : Nat]
    BY <1>1, StartedIs
  <2>2. procs' \in [Processes -> [runs : Versions, started : Nat]]
    BY <1>5, <2>1 DEF Wipe
  <2>3. /\ active' \in Pointer /\ (active'.version = None <=> active'.source = "missing")
    BY <1>1, <1>5, PointersAre DEF Wipe
  <2>4. QED
    BY <1>1, <1>5, <2>2, <2>3, EventIs, FreshIsRow, HostTypes DEF Wipe
<1>6. ASSUME NEW v \in Versions, Lose(v) PROVE ReleaseTypeOK'
  <2>1. releases' \subseteq Versions
    BY <1>1, <1>6 DEF Lose
  <2>2. /\ active' \in Pointer /\ (active'.version = None <=> active'.source = "missing")
    <3>1. CASE active' = active
      BY <1>1, <3>1
    <3>2. CASE active.source # "missing" /\ active' = [active EXCEPT !.source = "unreadable"]
      BY <1>1, <3>2 DEF Pointer
    <3>3. QED
      BY <1>6, <3>1, <3>2 DEF Lose
  <2>3. Started(baked, active', releases', generation) \in [runs : Versions, started : Nat]
    BY <1>1, <2>1, StartedIs
  <2>4. procs' \in [Processes -> [runs : Versions, started : Nat]]
    BY <1>6, <2>3 DEF Lose
  <2>5. QED
    BY <1>1, <1>6, <2>1, <2>2, <2>4, EventIs, HostTypes DEF Lose
<1>7. ASSUME NEW v \in Versions, Activate(v) PROVE ReleaseTypeOK'
  <2>1. /\ active' \in Pointer /\ (active'.version = None <=> active'.source = "missing")
        /\ generation' \in Nat
    BY <1>1, <1>7, VersionsAre DEF Activate, Pointer
  <2>2. QED
    BY <1>1, <1>7, <2>1, EventIs, HostTypes DEF Activate
<1>8. CASE Rollback
  <2>1. ComposerTarget \in Versions
    <3> DEFINE below == Below(Resolve(baked, active, releases), releases)
    <3>1. below \in SUBSET Versions
      BY <1>1 DEF Below
    <3>2. CASE below = {}
      BY <1>1, <3>2 DEF ComposerTarget
    <3>3. CASE below # {}
      <4>1. ComposerTarget = NewestOf(below)
        BY <3>3 DEF ComposerTarget
      <4> HIDE DEF below
      <4>2. QED
        BY <3>1, <3>3, <4>1, NewestIs
    <3>4. QED
      BY <3>2, <3>3
  <2>2. /\ active' \in Pointer /\ (active'.version = None <=> active'.source = "missing")
        /\ generation' \in Nat
    BY <1>1, <1>8, <2>1, VersionsAre DEF Rollback, Pointer
  <2>3. QED
    BY <1>1, <1>8, <2>2, EventIs, HostTypes DEF Rollback
<1>9. ASSUME NEW v \in Versions, NEW safe \in BOOLEAN, Check(v, safe) PROVE ReleaseTypeOK'
  <2>1. report' \in Report
    BY <1>9 DEF Check, Report
  <2>2. QED
    BY <1>1, <1>9, <2>1, EventIs, HostTypes DEF Check
<1>10. ASSUME NEW c \in Channels, RequestChannel(c) PROVE ReleaseTypeOK'
  BY <1>1, <1>10, EventIs, HostTypes DEF RequestChannel
<1>11. ASSUME NEW c \in Channels, SetChannel(c) PROVE ReleaseTypeOK'
  <2>1. [NoForm EXCEPT !.ask = "channel", !.channel = c] \in Form
    BY NoFormIs DEF Form, Asks
  <2>2. QED
    BY <1>11, <2>1, LoadTypes DEF SetChannel
<1>12. ASSUME NEW v \in Versions, Skip(v) \/ Unskip(v) PROVE ReleaseTypeOK'
  <2>1. /\ [NoForm EXCEPT !.ask = "skip", !.version = v] \in Form
        /\ [NoForm EXCEPT !.ask = "unskip", !.version = v] \in Form
    BY NoFormIs DEF Form, Asks
  <2>2. QED
    BY <1>12, <2>1, LoadTypes DEF Skip, Unskip
<1>13. CASE Serve
  <2>1. [form EXCEPT !.step = "saved"] \in Form /\ form' \in Form
    BY <1>13, NoFormIs, ServeIs DEF ReleaseTypeOK, Form
  <2>2. UNCHANGED <<baked, releases, active, generation, procs, reconciled, policy,
                    request, report, copy, missed, events>>
    BY <1>13 DEF Serve, SaveChannel, DropOffer, SaveSkip, SaveUnskip, Save, RowOnly
  <2>3. QED
    BY <1>13, <2>1, <2>2, ServeIs DEF ReleaseTypeOK
<1>14. CASE Reconcile
  <2>1. /\ Sane(Recovered) /\ row' \in StateRow
    BY <1>14, RecoveredIsSane, ReconcileIs
  <2>2. Recovered.gen \in Nat /\ Recovered.read.generation \in Nat
        /\ Recovered.written \in Pointer
        /\ (Recovered.written.version = None <=> Recovered.written.source = "missing")
    BY <2>1 DEF Sane, Pointer
  <2>3. generation' \in Nat /\ reconciled' = generation'
    BY <1>14, <2>2, ReconcileIs DEF Reconcile
  <2>4. /\ active' \in Pointer /\ (active'.version = None <=> active'.source = "missing")
    <3>1. active' \in {Recovered.written, ImagePointer(Recovered.read.generation)}
      BY <1>14, ReconcileIs
    <3>2. QED
      BY <1>1, <2>2, <3>1, PointersAre, VersionsAre
  <2>5. UNCHANGED <<baked, releases, procs, policy, request, report, copy,
                    form, missed, events>>
    BY <1>14 DEF Reconcile, panel
  <2>6. QED
    BY <2>1, <2>3, <2>4, <2>5 DEF ReleaseTypeOK
<1>15. CASE ReconcileChannel
  <2>1. /\ row' \in StateRow /\ policy' \in Channels \cup {"missing"}
        /\ request' \in Channels \cup {"none"}
    <3>1. CASE request # "none"
      <4>1. request \in Channels
        BY <3>1 DEF ReleaseTypeOK
      <4>2. QED
        BY <1>1, <1>15, <3>1, <4>1, RechannelledIs DEF ReconcileChannel
    <3>2. CASE request = "none"
      BY <1>1, <1>15, <3>2 DEF ReconcileChannel, StateRow
    <3>3. QED
      BY <3>1, <3>2
  <2>2. QED
    BY <1>15, <2>1 DEF ReconcileChannel, ReleaseTypeOK, panel
<1>16. CASE LoadCheck
  BY <1>1, <1>16 DEF LoadCheck, ReleaseTypeOK, panel
<1>17. CASE SaveCheck
  <2>1. row' \in StateRow /\ copy' = Idle
    BY <1>17, SaveIs DEF SaveCheck
  <2>2. Idle \in [taken : BOOLEAN, row : StateRow, report : Report]
    BY FreshIsRow DEF Idle
  <2>3. QED
    BY <1>17, <2>1, <2>2 DEF SaveCheck, ReleaseTypeOK
<1>18. QED
  BY <1>2, <1>3, <1>4, <1>5, <1>6, <1>7, <1>8, <1>9, <1>10, <1>11, <1>12, <1>13, <1>14,
     <1>15, <1>16, <1>17 DEF Next, Choose, Tick

(* Every field keeps its range, through every mishap.                      *)
THEOREM TypeCorrect == Spec => []ReleaseTypeOK
BY InitTypes, NextTypes, PTL DEF Spec

-----------------------------------------------------------------------------
(* The offer.                                                              *)

(* The request at work has seen the offer that is there, unless a check    *)
(* has saved one over it: no other step brings an offer.                   *)
FormAgrees ==
  row.compatible /\ ~missed /\ form.step = "loaded" =>
    form.row.compatible /\ form.row.latest = row.latest /\ row.latest \notin form.row.skipped

OfferInv == OfferIsAdmitted /\ FormAgrees

(* What leaves the request alone and brings no offer keeps the invariant,  *)
(* if it keeps what admitted it.                                           *)
LEMMA NoNewOffer ==
  ASSUME OfferInv, WebEnds \/ UNCHANGED panel,
         row'.compatible => /\ row.compatible /\ row'.latest = row.latest
                            /\ row'.skipped = row.skipped
                            /\ row.latest > row.active => row'.latest > row'.active
                            /\ row'.channel = row.channel \/ ~Refused(row.latest, row'.channel)
  PROVE  OfferInv'
<1>1. CASE WebEnds
  BY <1>1 DEF OfferInv, OfferIsAdmitted, FormAgrees, WebEnds, NoForm, Refused
<1>2. CASE UNCHANGED panel
  BY <1>2 DEF OfferInv, OfferIsAdmitted, FormAgrees, panel, Refused
<1>3. QED
  BY <1>1, <1>2

LEMMA LoadsAgree == ASSUME OfferInv, NEW asked \in Form, Load(asked) PROVE OfferInv'
<1>1. /\ row' = row /\ missed' = missed /\ form.step = "none"
      /\ form' = [asked EXCEPT !.step = "loaded", !.row = OfferOf(row)]
  BY DEF Load
<1>2. form'.step = "loaded" /\ form'.row = OfferOf(row)
  BY <1>1 DEF Form
<1>3. QED
  BY <1>1, <1>2 DEF OfferInv, OfferIsAdmitted, FormAgrees, OfferOf

LEMMA ServesAdmitted == ASSUME ReleaseTypeOK, OfferInv, Serve PROVE OfferInv'
<1>1. row \in StateRow /\ form.row \in Offer /\ NoForm.step = "none"
  BY DEF ReleaseTypeOK, Form, NoForm
<1>2. missed' = missed
  BY DEF Serve, SaveChannel, DropOffer, SaveSkip, SaveUnskip, Save
<1>3. CASE SaveChannel
  <2>1. row' = [row EXCEPT !.channel = form.channel] /\ form.step = "loaded"
    BY <1>3 DEF SaveChannel, Save
  <2>2. CASE Refused(form.row.latest, form.channel)
    <3>1. form' = [form EXCEPT !.step = "saved"]
      BY <1>3, <2>2 DEF SaveChannel, Save
    <3>2. form'.step = "saved"
      BY <3>1 DEF ReleaseTypeOK, Form
    <3>3. QED
      BY <3>2 DEF OfferInv, OfferIsAdmitted, FormAgrees
  <2>3. CASE ~Refused(form.row.latest, form.channel)
    <3>1. form' = NoForm
      BY <1>3, <2>3 DEF SaveChannel, Save
    <3>2. /\ row'.compatible = row.compatible /\ row'.latest = row.latest
          /\ row'.active = row.active /\ row'.skipped = row.skipped
          /\ row'.channel = form.channel
      BY <1>1, <2>1 DEF StateRow
    <3>3. QED
      BY <1>1, <1>2, <2>1, <2>3, <3>1, <3>2 DEF OfferInv, OfferIsAdmitted, FormAgrees
  <2>4. QED
    BY <2>2, <2>3
<1>4. CASE DropOffer
  <2>1. ~row'.compatible
    BY <1>1, <1>4 DEF DropOffer, StateRow
  <2>2. QED
    BY <2>1 DEF OfferInv, OfferIsAdmitted, FormAgrees
<1>5. CASE SaveSkip
  <2>1. PICK sk \in SUBSET Versions, la \in Versions \cup {None}, co \in BOOLEAN :
           /\ row' = [row EXCEPT !.skipped = sk, !.latest = la, !.compatible = co]
           /\ sk \in {row.skipped, form.row.skipped \cup {form.version}}
           /\ co => row.compatible /\ ~(form.row.latest = form.version /\ form.row.compatible)
           /\ form.row.latest # form.version => la = row.latest
    BY <1>5, SkipIs
  <2>2. /\ row'.compatible = co /\ row'.latest = la /\ row'.skipped = sk
        /\ row'.active = row.active /\ row'.channel = row.channel
    BY <1>1, <2>1 DEF StateRow
  <2>3. form.step = "loaded" /\ form' = NoForm
    BY <1>5 DEF SaveSkip, Save
  <2>4. co /\ ~missed => /\ row.compatible /\ la = row.latest /\ row.latest # form.version
                         /\ row.latest \notin form.row.skipped
    BY <2>1, <2>3 DEF OfferInv, FormAgrees
  <2>5. QED
    BY <1>1, <1>2, <2>1, <2>2, <2>3, <2>4 DEF OfferInv, OfferIsAdmitted, FormAgrees
<1>6. CASE SaveUnskip
  <2>1. /\ row' = [row EXCEPT !.skipped = form.row.skipped \ {form.version}]
        /\ form.step = "loaded" /\ form' = NoForm
    BY <1>6 DEF SaveUnskip, Save
  <2>2. /\ row'.compatible = row.compatible /\ row'.latest = row.latest
        /\ row'.active = row.active /\ row'.channel = row.channel
        /\ row'.skipped = form.row.skipped \ {form.version}
    BY <1>1, <2>1 DEF StateRow
  <2>3. QED
    BY <1>1, <1>2, <2>1, <2>2 DEF OfferInv, OfferIsAdmitted, FormAgrees
<1>7. QED
  BY <1>3, <1>4, <1>5, <1>6 DEF Serve

LEMMA OfferStays == ReleaseTypeOK /\ OfferInv /\ [Next]_release => OfferInv'
<1> SUFFICES ASSUME ReleaseTypeOK, OfferInv, [Next]_release PROVE OfferInv'
  OBVIOUS
<1>1. row \in StateRow /\ row.active \in Nat \ {None}
  BY VersionsAre DEF ReleaseTypeOK, StateRow
<1>2. CASE row' = row /\ (WebEnds \/ UNCHANGED panel)
  BY <1>2, NoNewOffer
<1>3. ASSUME NEW c \in Channels, NEW v \in Versions, SetChannel(c) \/ Skip(v) \/ Unskip(v)
      PROVE  OfferInv'
  <2>1. /\ [NoForm EXCEPT !.ask = "channel", !.channel = c] \in Form
        /\ [NoForm EXCEPT !.ask = "skip", !.version = v] \in Form
        /\ [NoForm EXCEPT !.ask = "unskip", !.version = v] \in Form
    BY NoFormIs DEF Form, Asks
  <2>2. QED
    BY <1>3, <2>1, LoadsAgree DEF SetChannel, Skip, Unskip
<1>4. CASE Serve
  BY <1>4, ServesAdmitted
<1>5. CASE Reconcile
  <2>1. row'.compatible => /\ row'.skipped = row.skipped /\ row'.channel = row.channel
                           /\ row.compatible /\ row'.latest = row.latest
                           /\ row'.latest # None => row'.latest > row'.active
    BY <1>5, ReconcileIs
  <2>2. row.latest > row.active => row.latest # None
    BY <1>1 DEF None
  <2>3. UNCHANGED panel
    BY <1>5 DEF Reconcile
  <2>4. QED
    BY <2>1, <2>2, <2>3, NoNewOffer
<1>6. CASE ReconcileChannel
  <2>1. UNCHANGED panel
    BY <1>6 DEF ReconcileChannel
  <2>2. CASE request = "none"
    BY <1>2, <1>6, <2>1, <2>2 DEF ReconcileChannel
  <2>3. CASE request # "none"
    <3>1. request \in Channels /\ row' = Rechannelled(row, request)
      BY <1>6, <2>3 DEF ReleaseTypeOK, ReconcileChannel
    <3>2. /\ row'.channel = request /\ row'.skipped = row.skipped /\ row'.active = row.active
          /\ row'.compatible => /\ row.compatible /\ row'.latest = row.latest
                                /\ row.channel = request \/ ~Refused(row.latest, request)
      BY <1>1, <3>1, RechannelledIs
    <3>3. QED
      BY <2>1, <3>2, NoNewOffer
  <2>4. QED
    BY <2>2, <2>3
<1>7. CASE SaveCheck
  <2>1. missed' = (form.step # "none") /\ form' = form
    BY <1>7 DEF SaveCheck
  <2>2. row'.compatible => /\ row'.latest > row'.active /\ row'.latest \notin row'.skipped
                           /\ ~Refused(row'.latest, row'.channel)
    BY <1>7, SaveIs DEF Admits, Refused
  <2>3. QED
    BY <2>1, <2>2 DEF OfferInv, OfferIsAdmitted, FormAgrees
<1>8. QED
  <2>1. CASE UNCHANGED release
    BY <1>2, <2>1 DEF release
  <2>2. ASSUME NEW p \in Processes, Supervise(p) \/ Restart(p)
        PROVE  row' = row /\ (WebEnds \/ UNCHANGED panel)
    BY <2>2 DEF Supervise, Restart
  <2>3. ASSUME NEW v \in Versions,
               Rebuild(v) \/ Lose(v) \/ Activate(v) \/ \E safe \in BOOLEAN : Check(v, safe)
        PROVE  row' = row /\ (WebEnds \/ UNCHANGED panel)
    BY <2>3 DEF Rebuild, Lose, Activate, Check
  <2>4. CASE Wipe \/ Rollback \/ (\E c \in Channels : RequestChannel(c)) \/ LoadCheck
    BY <1>2, <2>4 DEF Wipe, Rollback, RequestChannel, LoadCheck
  <2>5. QED
    BY <1>2, <1>3, <1>4, <1>5, <1>6, <1>7, <2>1, <2>2, <2>3, <2>4, VersionsAre
       DEF Next, Choose, Tick, Channels

(* The Apply button holds only what every rule admits, whatever the host,  *)
(* Composer and the operators do between a check's reads and its save, and *)
(* between a request's; but for an offer that a check saves while a        *)
(* request is at work, which the request has not read.                     *)
THEOREM OffersAreAdmitted == Spec => []OfferIsAdmitted
<1>1. Init => OfferInv
  BY DEF Init, OfferInv, OfferIsAdmitted, FormAgrees, Fresh, NoForm
<1>2. OfferInv => OfferIsAdmitted
  BY DEF OfferInv
<1>3. QED
  BY <1>1, <1>2, InitTypes, NextTypes, OfferStays, PTL DEF Spec

-----------------------------------------------------------------------------
(* The rollback target.  Between reconciles the row cannot follow the      *)
(* volume, so the invariant speaks of the reconciled moments, and carries  *)
(* what keeps a later step from faking one: a generation reconciled is not *)
(* ahead of the volume's (Activate and Rollback only add to it, and what   *)
(* takes it back forgets the reconcile), and the row a check will save     *)
(* still agrees with the row on what reconcile wrote.                      *)

Settled ==
  reconciled # Never /\ generation = reconciled /\ row.baked = baked /\ ~row.degraded =>
    /\ row.active = Resolve(baked, active, releases)
    /\ row.previous = RollbackTarget(row.active)

CopyAgrees ==
  copy.taken => /\ copy.row.baked = row.baked /\ copy.row.active = row.active
                /\ copy.row.previous = row.previous /\ copy.row.degraded = row.degraded

SettledInv ==
  /\ reconciled = Never \/ reconciled <= generation
  /\ CopyAgrees
  /\ Settled

(* After a reconcile the row's active release is the one that would run.   *)
LEMMA ReconcileSettles ==
  ASSUME ReleaseTypeOK, Reconcile
  PROVE  row'.degraded \/ row'.active = Resolve(baked, active', releases)
<1> DEFINE s == Recovered
<1>1. Sane(s) /\ baked \in Versions /\ releases \subseteq Versions
  BY RecoveredIsSane DEF ReleaseTypeOK
<1>2. IF s.read.source = "unreadable"
      THEN row'.degraded /\ generation' = s.gen /\ active' = s.written
      ELSE /\ row'.active = s.read.version /\ row'.generation = s.read.generation
           /\ generation' = s.read.generation
           /\ active' = IF s.read.source = "image" /\ s.written.source # "missing"
                           /\ s.written.version # baked
                        THEN ImagePointer(s.read.generation) ELSE s.written
  BY ReconcileIs
<1> HIDE DEF s
<1>3. CASE s.read.source = "unreadable"
  BY <1>2, <1>3
<1>4. CASE s.read.source = "image"
  <2>1. row'.active = baked /\ baked \in Nat
    BY <1>1, <1>2, <1>4, VersionsAre DEF Sane
  <2>2. CASE s.written.source # "missing" /\ s.written.version # baked
    <3>1. active' = ImagePointer(s.read.generation)
      BY <1>2, <1>4, <2>2
    <3>2. QED
      BY <2>1, <3>1 DEF Resolve, ImagePointer
  <2>3. CASE s.written.source = "missing" \/ s.written.version = baked
    <3>1. active' = s.written
      BY <1>2, <1>4, <2>3
    <3>2. QED
      BY <2>1, <2>3, <3>1 DEF Resolve
  <2>4. QED
    BY <2>2, <2>3
<1>5. CASE s.read.source = "volume"
  <2>1. /\ row'.active = s.read.version /\ active' = s.written
        /\ s.read.version \in releases /\ s.read.version >= baked
        /\ s.written.source = "volume" /\ s.written.version = s.read.version
    BY <1>1, <1>2, <1>5 DEF Sane
  <2>2. s.read.version \in Nat /\ baked \in Nat
    BY <1>1, <2>1, VersionsAre
  <2>3. QED
    BY <2>1, <2>2 DEF Resolve
<1>6. QED
  BY <1>1, <1>3, <1>4, <1>5 DEF Sane, Pointer

(* What changes no more than the operator's columns leaves it settled.     *)
LEMMA ColumnsKeepSettled ==
  ASSUME SettledInv,
         UNCHANGED <<baked, releases, active, generation>>,
         reconciled' \in {reconciled, Never},
         row'.baked = row.baked, row'.active = row.active,
         row'.previous = row.previous, row'.degraded = row.degraded,
         copy' \in {copy, Idle} \/ (copy'.taken => copy'.row = row')
  PROVE  SettledInv'
<1>1. ~Idle.taken
  BY DEF Idle
<1>2. CopyAgrees'
  BY <1>1 DEF SettledInv, CopyAgrees
<1>3. Settled'
  BY DEF SettledInv, Settled, RollbackTarget, Below
<1>4. QED
  BY <1>2, <1>3 DEF SettledInv

(* So does what sends the next tick to reconcile.                          *)
LEMMA DueKeepsSettled ==
  ASSUME ReleaseTypeOK, SettledInv, row' = row,
         \/ reconciled' = Never /\ copy' = Idle
         \/ reconciled' = reconciled /\ copy' = copy /\ generation' = generation + 1
  PROVE  SettledInv'
<1>1. reconciled \in Nat /\ generation \in Nat
  BY DEF ReleaseTypeOK
<1>2. CopyAgrees'
  BY DEF SettledInv, CopyAgrees, Idle
<1>3. CASE reconciled' = Never
  BY <1>2, <1>3 DEF SettledInv, Settled
<1>4. CASE reconciled' = reconciled /\ reconciled # Never /\ generation' = generation + 1
  <2>1. reconciled' <= generation' /\ generation' # reconciled'
    BY <1>1, <1>4 DEF SettledInv
  <2>2. QED
    BY <1>2, <2>1 DEF SettledInv, Settled
<1>5. QED
  BY <1>3, <1>4

LEMMA SettledStays == ReleaseTypeOK /\ SettledInv /\ [Next]_release => SettledInv'
<1> SUFFICES ASSUME ReleaseTypeOK, SettledInv, [Next]_release PROVE SettledInv'
  OBVIOUS
<1>1. row \in StateRow
  BY DEF ReleaseTypeOK
<1>2. CASE UNCHANGED release
  BY <1>2, ColumnsKeepSettled DEF release
<1>3. ASSUME NEW p \in Processes, Supervise(p) \/ Restart(p) PROVE SettledInv'
  BY <1>3, ColumnsKeepSettled DEF Supervise, Restart
<1>4. ASSUME NEW v \in Versions, Rebuild(v) \/ Lose(v) \/ Activate(v) PROVE SettledInv'
  BY <1>4, DueKeepsSettled DEF Rebuild, Lose, Activate
<1>5. CASE Wipe \/ Rollback
  BY <1>5, DueKeepsSettled DEF Wipe, Rollback
<1>6. ASSUME NEW v \in Versions, NEW safe \in BOOLEAN, Check(v, safe) PROVE SettledInv'
  BY <1>6, ColumnsKeepSettled DEF Check
<1>7. ASSUME NEW c \in Channels, RequestChannel(c) PROVE SettledInv'
  BY <1>7, ColumnsKeepSettled DEF RequestChannel
<1>8. ASSUME NEW asked, Load(asked) PROVE SettledInv'
  BY <1>8, ColumnsKeepSettled DEF Load, RowOnly
<1>9. ASSUME NEW v \in Versions, NEW c \in Channels, SetChannel(c) \/ Skip(v) \/ Unskip(v)
      PROVE  SettledInv'
  BY <1>8, <1>9 DEF SetChannel, Skip, Unskip
<1>10. CASE Serve
  <2>1. /\ UNCHANGED <<baked, releases, active, generation, reconciled, copy>>
    BY <1>10 DEF Serve, SaveChannel, DropOffer, SaveSkip, SaveUnskip, Save, RowOnly
  <2>2. QED
    BY <1>10, <2>1, ServeIs, ColumnsKeepSettled
<1>11. CASE Reconcile
  <2>1. /\ row'.degraded \/ row'.active = Resolve(baked, active', releases)
        /\ row'.previous = RollbackTarget(row'.active)
    BY <1>11, ReconcileSettles, ReconcileIs
  <2>2. /\ reconciled' = generation' /\ baked' = baked /\ releases' = releases
        /\ copy' = copy /\ ~copy.taken
    BY <1>11 DEF Reconcile, Ticking
  <2>3. Settled' /\ CopyAgrees'
    BY <2>1, <2>2 DEF Settled, CopyAgrees, RollbackTarget, Below
  <2>4. generation' \in Nat
    BY <1>11, NextTypes DEF ReleaseTypeOK, Next, Tick
  <2>5. QED
    BY <2>2, <2>3, <2>4 DEF SettledInv
<1>12. CASE ReconcileChannel
  <2>1. /\ row'.baked = row.baked /\ row'.active = row.active
        /\ row'.previous = row.previous /\ row'.degraded = row.degraded
    <3>1. CASE request = "none"
      BY <1>12, <3>1 DEF ReconcileChannel
    <3>2. CASE request # "none"
      <4>1. request \in Channels /\ row' = Rechannelled(row, request)
        BY <1>12, <3>2 DEF ReleaseTypeOK, ReconcileChannel
      <4>2. QED
        BY <1>1, <4>1, RechannelledIs
    <3>3. QED
      BY <3>1, <3>2
  <2>2. QED
    BY <1>12, <2>1, ColumnsKeepSettled DEF ReconcileChannel, Ticking
<1>13. CASE LoadCheck
  <2>1. copy'.row = row'
    BY <1>13 DEF LoadCheck
  <2>2. QED
    BY <1>13, <2>1, ColumnsKeepSettled DEF LoadCheck
<1>14. CASE SaveCheck
  <2>1. copy.taken /\ copy' = Idle
    BY <1>14 DEF SaveCheck, Ticking
  <2>2. /\ row'.baked = row.baked /\ row'.active = row.active
        /\ row'.previous = row.previous /\ row'.degraded = row.degraded
    BY <1>14, <2>1, SaveIs DEF SettledInv, CopyAgrees
  <2>3. QED
    BY <1>14, <2>1, <2>2, ColumnsKeepSettled DEF SaveCheck
<1>15. QED
  BY <1>2, <1>3, <1>4, <1>5, <1>6, <1>7, <1>9, <1>10, <1>11, <1>12, <1>13, <1>14,
     VersionsAre DEF Next, Choose, Tick, Channels

(* Settled, the row names what Composer would bring back.                  *)
LEMMA SettledIsOffered == ReleaseTypeOK /\ SettledInv => RollbackIsWhatIsOffered
<1> SUFFICES ASSUME ReleaseTypeOK, SettledInv, ~Due, row.previous # None, ~row.degraded
             PROVE  row.previous = ComposerTarget /\ row.previous >= baked
  BY DEF RollbackIsWhatIsOffered
<1> DEFINE below == Below(Resolve(baked, active, releases), releases)
<1>1. /\ row.active = Resolve(baked, active, releases)
      /\ row.previous = RollbackTarget(row.active)
  BY DEF Due, SettledInv, Settled
<1>2. baked \in Nat /\ baked \in Versions /\ below \in SUBSET Versions
  BY VersionsAre DEF ReleaseTypeOK, Below
<1>3. /\ row.previous = IF below # {}
                        THEN (IF baked > NewestOf(below) THEN None ELSE NewestOf(below))
                        ELSE IF baked # row.active THEN baked ELSE None
      /\ ComposerTarget = IF below = {} THEN baked ELSE NewestOf(below)
  BY <1>1 DEF RollbackTarget, ComposerTarget
<1> HIDE DEF below
<1>4. CASE below = {}
  BY <1>2, <1>3, <1>4
<1>5. CASE below # {}
  <2>1. NewestOf(below) \in Nat
    BY <1>2, <1>5, NewestIs, VersionsAre
  <2>2. ~(baked > NewestOf(below)) /\ row.previous = NewestOf(below)
    BY <1>3, <1>5
  <2>3. ComposerTarget = NewestOf(below)
    BY <1>3, <1>5
  <2>4. NewestOf(below) >= baked
    BY <1>2, <2>1, <2>2
  <2>5. QED
    BY <2>2, <2>3, <2>4
<1>6. QED
  BY <1>4, <1>5

(* Reconciled and not degraded, the rollback button names the release      *)
(* Composer would return to, never one below the image's: through image    *)
(* rebuilds, a recreated volume, lost releases and spoilt pointers.        *)
THEOREM RollbacksAreWhatIsOffered == Spec => []RollbackIsWhatIsOffered
<1>1. Init => SettledInv
  BY DEF Init, SettledInv, Settled, CopyAgrees, Idle
<1>2. QED
  BY <1>1, InitTypes, NextTypes, SettledStays, SettledIsOffered, PTL DEF Spec
=============================================================================
