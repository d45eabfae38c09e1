---------------------------- MODULE ModelSelection ----------------------------
(***************************************************************************)
(* Which models a backup covers and in which order they are written and    *)
(* loaded: the application's own bookkeeping is left out of a portable     *)
(* backup unless a model that stays refers to it, and what a model refers  *)
(* to comes before it, cycles apart (dlux/backup/config.py).               *)
(***************************************************************************)
EXTENDS Naturals, FiniteSetsExt, SequencesExt

CONSTANT Count      \* how many models are installed

Models == 1..Count      \* in the order of INSTALLED_APPS; names sort alike
NoOne == 0

VARIABLES
  refs,       \* the models each refers to by foreign key or many-to-many
  dropped,    \* what is left out
  ordered,    \* the models visited so far
  path,       \* the models being visited
  own         \* the bookkeeping, or nothing when the backup is not portable

selection == <<refs, dropped, ordered, path, own>>

Init ==
  /\ refs \in [Models -> SUBSET Models] /\ \A m \in Models : m \notin refs[m]
  /\ own \in SUBSET Models /\ dropped = own
  /\ ordered = <<>> /\ path = <<>>

Kept == Models \ dropped
Visited == Range(ordered)
Visiting == Range(path)

-----------------------------------------------------------------------------
(* Mutant: one round, over the models that were never candidates.          *)
MissedByOneRound == {r \in dropped : \E m \in Models \ own : r \in refs[m]}

(* _system_data_exclusions, round after round: what a model that stays     *)
(* refers to stays.                                                        *)
Missed == {r \in dropped : \E m \in Kept : r \in refs[m]}

Keep ==
  /\ ordered = <<>> /\ path = <<>>
  /\ \E r \in Missed : dropped' = dropped \ {r}
  /\ UNCHANGED <<refs, ordered, path, own>>

(* _dependency_sorted: visit a model, first what it refers to by name; one *)
(* that is being visited, on a cycle, is passed over.                      *)
Fresh(m) == m \in Kept /\ m \notin Visited \cup Visiting
LeastOf(models) == IF models = {} THEN NoOne ELSE CHOOSE m \in models : \A n \in models : m <= n
NextModel ==
  LeastOf({m \in (IF path = <<>> THEN Models ELSE refs[Last(path)]) : Fresh(m)})

Visit ==
  /\ Missed = {} /\ NextModel # NoOne /\ path' = Append(path, NextModel)
  /\ UNCHANGED <<refs, dropped, ordered, own>>

Leave ==
  /\ path # <<>> /\ NextModel = NoOne
  /\ ordered' = Append(ordered, Last(path)) /\ path' = Front(path)
  /\ UNCHANGED <<refs, dropped, own>>

Next == Keep \/ Visit \/ Leave

-----------------------------------------------------------------------------
SelectionTypeOK ==
  /\ dropped \subseteq own /\ own \subseteq Models
  /\ ordered \in Seq(Models) /\ path \in Seq(Models)

Reached(from) ==
  LET Within[n \in 0..Count] ==
        IF n = 0 THEN from ELSE Within[n - 1] \cup UNION {refs[m] : m \in Within[n - 1]}
  IN Within[Count]

Ready == Missed = {} /\ path = <<>> /\ Visited = Kept

(* Once it is complete, the list holds every model that is not bookkeeping *)
(* and what these refer to, in any number of steps, and nothing else; each *)
(* comes once, and after what it refers to unless that refers back to it.  *)
SelectionIsComplete ==
  Ready =>
    /\ Kept = Reached(Models \ own)
    /\ Len(ordered) = Cardinality(Kept)
    /\ \A i, j \in DOMAIN ordered :
         ordered[j] \in refs[ordered[i]] /\ ordered[i] \notin Reached({ordered[j]}) => j < i
=============================================================================
