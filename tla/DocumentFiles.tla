---------------------------- MODULE DocumentFiles ----------------------------
(***************************************************************************)
(* One document and the history of its file: the modal form, the page      *)
(* editor, soft deletion that takes the history along and restoring        *)
(* (dlux/files/history.py, files/views.py, views/sections.py,              *)
(* models/base.py).                                                        *)
(***************************************************************************)
EXTENDS Naturals, Sequences, FiniteSets

CONSTANTS
  Forms,     \* requests of the modal form
  MaxFiles,  \* bound on files that become the document's
  MaxSaves,  \* bound on saves of the document's row
  MaxTime    \* bound on the times of deletions

VARIABLES
  doc,       \* the document's row
  versions,  \* its FileVersion rows, by version number
  names,     \* files that have been the document's
  forms,     \* the instance each request of the form has loaded
  editor,    \* the revision the page editor was opened at, 0 for none
  deletion,  \* a request that deletes or restores the document
  clock,     \* timezone.now()
  alone,     \* versions deleted on their own
  replaced,  \* files a form wrote over without having seen them
  crossed    \* a deletion, or its undoing, met another one half-way

docfiles == <<doc, versions, names, forms, editor, deletion, clock, alone, replaced, crossed>>

Times == 0..MaxTime        \* 0: not deleted
Names == 0..MaxFiles       \* 0: no file
Doc == [file : Names, deleted_at : Times, saves : 1..MaxSaves]
NoForm == [at |-> "off"]
NoDeletion == [at |-> "off", deleted_at |-> 0]

Init ==
  /\ doc = [file |-> 0, deleted_at |-> 0, saves |-> 1]
  /\ versions = <<>> /\ names = {} /\ alone = {} /\ replaced = {}
  /\ forms = [f \in Forms |-> NoForm]
  /\ editor = 0 /\ deletion = NoDeletion /\ clock = 0 /\ crossed = FALSE

Live == doc.deleted_at = 0
NextName == Cardinality(names) + 1
CanSave == doc.saves < MaxSaves
Halfway == deletion.at \in {"deleted", "restored"}

(* archive_previous: a copy of the previous file, numbered after the       *)
(* latest, deleted ones included.                                          *)
Archive(file) ==
  IF file = 0 THEN versions ELSE Append(versions, [of |-> file, deleted_at |-> 0])

-----------------------------------------------------------------------------
(* DynamicModalView.post: the instance is read without a lock; then one    *)
(* transaction writes the whole row and moves the file it had into the     *)
(* history.                                                                *)
Load(f) ==
  /\ forms[f].at = "off" /\ Live
  /\ forms' = [forms EXCEPT ![f] = [at |-> "loaded", doc |-> doc]]
  /\ UNCHANGED <<doc, versions, names, editor, deletion, clock, alone, replaced, crossed>>

(* Mutant: the file it had is not taken before the form binds.             *)
BoundBefore(seen, file) == file

Before(seen, file) == seen.file

Submit(f, file) ==
  LET seen == forms[f].doc
  IN /\ forms[f].at = "loaded" /\ CanSave
     /\ file \in {0, seen.file, NextName} \ {MaxFiles + 1}
     /\ doc' = [file |-> file, deleted_at |-> seen.deleted_at, saves |-> doc.saves + 1]
     /\ versions' = IF file = seen.file THEN versions ELSE Archive(Before(seen, file))
     /\ names' = names \cup ({file} \ {0})
     /\ replaced' = IF doc.file = seen.file THEN replaced ELSE replaced \cup {doc.file}
     /\ crossed' = (crossed \/ Halfway \/ ~Live)
     /\ forms' = [forms EXCEPT ![f] = NoForm]
     /\ UNCHANGED <<editor, deletion, clock, alone>>

(* Refused, or the previous file is missing: the transaction is undone.    *)
Refuse(f) ==
  /\ forms[f].at = "loaded" /\ forms' = [forms EXCEPT ![f] = NoForm]
  /\ UNCHANGED <<doc, versions, names, editor, deletion, clock, alone, replaced, crossed>>

(* PdfEditorView: opened at a revision, saved under the row's lock if the  *)
(* row still has it.                                                       *)
OpenEditor ==
  /\ editor = 0 /\ Live /\ editor' = doc.saves
  /\ UNCHANGED <<doc, versions, names, forms, deletion, clock, alone, replaced, crossed>>

SaveEdited ==
  /\ editor # 0 /\ editor' = 0
  /\ IF Live /\ editor = doc.saves /\ CanSave /\ NextName \in Names
     THEN /\ doc' = [doc EXCEPT !.file = NextName, !.saves = @ + 1]
          /\ versions' = Archive(doc.file)
          /\ names' = names \cup {NextName}
     ELSE UNCHANGED <<doc, versions, names>>
  /\ UNCHANGED <<forms, deletion, clock, alone, replaced, crossed>>

-----------------------------------------------------------------------------
(* ScopedModel.delete and restore: the row, then the signal that takes the *)
(* history along.                                                          *)
LoadToDelete ==
  /\ deletion.at = "off" /\ Live /\ deletion' = [NoDeletion EXCEPT !.at = "deleting"]
  /\ UNCHANGED <<doc, versions, names, forms, editor, clock, alone, replaced, crossed>>

Delete ==
  /\ deletion.at = "deleting" /\ clock < MaxTime /\ CanSave /\ clock' = clock + 1
  /\ doc' = [doc EXCEPT !.deleted_at = clock', !.saves = @ + 1]
  /\ deletion' = [at |-> "deleted", deleted_at |-> clock']
  /\ UNCHANGED <<versions, names, forms, editor, alone, replaced, crossed>>

CascadeDelete ==
  /\ deletion.at = "deleted" /\ deletion' = NoDeletion
  /\ versions' = [v \in DOMAIN versions |->
       IF versions[v].deleted_at = 0 THEN [versions[v] EXCEPT !.deleted_at = deletion.deleted_at]
                                     ELSE versions[v]]
  /\ UNCHANGED <<doc, names, forms, editor, clock, alone, replaced, crossed>>

Restore ==
  /\ deletion.at = "off" /\ ~Live /\ CanSave
  /\ doc' = [doc EXCEPT !.deleted_at = 0, !.saves = @ + 1]
  /\ deletion' = [at |-> "restored", deleted_at |-> doc.deleted_at]
  /\ UNCHANGED <<versions, names, forms, editor, clock, alone, replaced, crossed>>

DeletedAt(time) == {v \in DOMAIN versions : versions[v].deleted_at = time}

CascadeRestore ==
  /\ deletion.at = "restored" /\ deletion' = NoDeletion
  /\ versions' = [v \in DOMAIN versions |->
       IF v \in DeletedAt(deletion.deleted_at) THEN [versions[v] EXCEPT !.deleted_at = 0] ELSE versions[v]]
  /\ UNCHANGED <<doc, names, forms, editor, clock, alone, replaced, crossed>>

(* The process dies before the signal.                                     *)
Die ==
  /\ Halfway /\ deletion' = NoDeletion /\ crossed' = TRUE
  /\ UNCHANGED <<doc, versions, names, forms, editor, clock, alone, replaced>>

(* A second request deletes what the first one has just deleted.           *)
DeleteAgain ==
  /\ ~Live /\ clock < MaxTime /\ CanSave /\ clock' = clock + 1
  /\ doc' = [doc EXCEPT !.deleted_at = clock', !.saves = @ + 1] /\ crossed' = TRUE
  /\ UNCHANGED <<versions, names, forms, editor, deletion, alone, replaced>>

(* run_data_reset, softly: the rows are marked and nothing is announced.   *)
Reset ==
  /\ Live /\ deletion.at = "off" /\ clock < MaxTime /\ CanSave /\ clock' = clock + 1
  /\ doc' = [doc EXCEPT !.deleted_at = clock', !.saves = @ + 1]
  /\ UNCHANGED <<versions, names, forms, editor, deletion, alone, replaced, crossed>>

DeleteVersion(v) ==
  /\ v \in DOMAIN versions /\ versions[v].deleted_at = 0 /\ ~Halfway
  /\ clock < MaxTime /\ clock' = clock + 1
  /\ versions' = [versions EXCEPT ![v].deleted_at = clock'] /\ alone' = alone \cup {v}
  /\ UNCHANGED <<doc, names, forms, editor, deletion, replaced, crossed>>

Next ==
  \/ OpenEditor \/ SaveEdited \/ LoadToDelete \/ Delete \/ CascadeDelete \/ Restore \/ CascadeRestore
  \/ Die \/ DeleteAgain \/ Reset
  \/ \E f \in Forms : Load(f) \/ Refuse(f) \/ \E file \in Names : Submit(f, file)
  \/ \E v \in 1..MaxSaves : DeleteVersion(v)

Spec == Init /\ [][Next]_docfiles

-----------------------------------------------------------------------------
DocumentsTypeOK ==
  /\ doc \in Doc /\ versions \in Seq([of : Names, deleted_at : Times])
  /\ {names, replaced} \subseteq SUBSET Names /\ alone \subseteq DOMAIN versions
  /\ forms \in [Forms -> {NoForm} \cup [at : {"loaded"}, doc : Doc]]
  /\ editor \in 0..MaxSaves /\ clock \in Times /\ crossed \in BOOLEAN
  /\ deletion \in [at : {"off", "deleting", "deleted", "restored"}, deleted_at : Times]

(* A file that has been the document's is its file or in its history,      *)
(* unless a form that had not seen it wrote over it; and while the         *)
(* document is there, the history that is hidden is what was deleted on    *)
(* its own, unless two deletions met.                                      *)
HistoryIsKept ==
  /\ \A file \in names : file \in {doc.file} \cup replaced \cup {versions[v].of : v \in DOMAIN versions}
  /\ Live /\ ~Halfway /\ ~crossed =>
       \A v \in DOMAIN versions : versions[v].deleted_at # 0 <=> v \in alone
=============================================================================
