---------------------------- MODULE AssetLibrary ----------------------------
(***************************************************************************)
(* Managed assets: an upload that reuses an identical row, the pickers     *)
(* that save a reference to it, adoption of an old file in place, and      *)
(* three ways to remove what nothing uses: one delete, the manager's clean *)
(* up, and dlux_prune_assets (dlux/assets.py, models/assets.py,            *)
(* forms/asset_fields.py, views/assets.py).                                *)
(***************************************************************************)
EXTENDS Naturals

CONSTANTS
  Contents,    \* checksums of uploads, in one namespace
  MaxAssets    \* bound on ManagedAsset rows

Assets == 1..MaxAssets
Legacy == 0                          \* the file an ImageField had before
Files == Assets \cup {Legacy}        \* an upload's file is named after its row
Holders == {"branding", "product"}   \* a plain foreign key, a ManagedAssetField
Checksums == Contents \cup {Legacy}

VARIABLES
  rows,     \* ManagedAsset rows
  stored,   \* files in the storage
  refs,     \* the asset each record points at, 0 for none
  forms,    \* the form of each record being filled in and saved
  removal,  \* a delete or clean-up in the manager, or dlux_prune_assets --apply
  struck    \* files the command removed, and one deleted while it was adopted

library == <<rows, stored, refs, forms, removal, struck>>

NoRow == [is |-> "none", content |-> Legacy, file |-> Legacy]
Row == [is : {"none", "there", "gone"}, content : Checksums, file : Files]
NoForm == [at |-> "off", content |-> Legacy, asset |-> 0]
NoRemoval == [at |-> "off", left |-> {}, file |-> Legacy]

Init ==
  /\ rows = [a \in Assets |-> NoRow]
  /\ stored = {Legacy} /\ struck = {}
  /\ refs = [h \in Holders |-> 0]
  /\ forms = [h \in Holders |-> NoForm]
  /\ removal = NoRemoval

There(a) == a \in Assets /\ rows[a].is = "there"
Same(content) == {a \in Assets : There(a) /\ rows[a].content = content}
Fresh(a) == rows[a].is = "none" /\ \A b \in Assets : b < a => rows[b].is # "none"
Add(a, content, file) ==
  rows' = [rows EXCEPT ![a] = [is |-> "there", content |-> content, file |-> file]]

-----------------------------------------------------------------------------
Picked(a) == [NoForm EXCEPT !.at = "chosen", !.asset = a]

(* Forms: an upload, instant or with the form, an asset from the library,  *)
(* or, with neither asset nor choice, the old file.                        *)

Upload(h, c) ==
  /\ forms[h].at = "off"
  /\ \/ \E a \in Same(c) : forms' = [forms EXCEPT ![h] = Picked(a)]
     \/ Same(c) = {} /\ forms' = [forms EXCEPT ![h] = [NoForm EXCEPT !.at = "storing", !.content = c]]
  /\ UNCHANGED <<rows, stored, refs, removal, struck>>

Choose(h, a) ==
  /\ forms[h].at = "off" /\ There(a)
  /\ forms' = [forms EXCEPT ![h] = Picked(a)]
  /\ UNCHANGED <<rows, stored, refs, removal, struck>>

Create(h, a) ==
  /\ forms[h].at = "storing" /\ Fresh(a)
  /\ Add(a, forms[h].content, a) /\ stored' = stored \cup {a}
  /\ forms' = [forms EXCEPT ![h] = Picked(a)]
  /\ UNCHANGED <<refs, removal, struck>>

(* adopt_stored_asset: the file is there and valid, then a row names it.   *)
Adopt ==
  /\ forms["product"].at = "off" /\ refs["product"] = 0 /\ Legacy \in stored
  /\ forms' = [forms EXCEPT !["product"].at = IF Same(Legacy) = {} THEN "adopting" ELSE "saving",
                            !["product"].asset = IF Same(Legacy) = {} THEN 0
                                                 ELSE CHOOSE a \in Same(Legacy) : TRUE]
  /\ UNCHANGED <<rows, stored, refs, removal, struck>>

Adopted(a) ==
  /\ forms["product"].at = "adopting" /\ Fresh(a) /\ Add(a, Legacy, Legacy)
  /\ struck' = IF removal.at = "deleting" /\ removal.file = Legacy THEN struck \cup {Legacy} ELSE struck
  /\ forms' = [forms EXCEPT !["product"].at = "saving", !["product"].asset = a]
  /\ UNCHANGED <<stored, refs, removal>>

(* AssetPickerField.clean: the asset is still there ...                    *)
Clean(h) ==
  /\ forms[h].at = "chosen"
  /\ forms' = [forms EXCEPT ![h] = IF There(@.asset) THEN [@ EXCEPT !.at = "saving"] ELSE NoForm]
  /\ UNCHANGED <<rows, stored, refs, removal, struck>>

(* ... and the foreign key holds when the record is saved.                 *)
Save(h) ==
  /\ forms[h].at = "saving"
  /\ refs' = IF There(forms[h].asset) THEN [refs EXCEPT ![h] = forms[h].asset] ELSE refs
  /\ forms' = [forms EXCEPT ![h] = NoForm]
  /\ UNCHANGED <<rows, stored, removal, struck>>

Clear(h) ==
  /\ forms[h].at = "off" /\ refs[h] # 0 /\ refs' = [refs EXCEPT ![h] = 0]
  /\ UNCHANGED <<rows, stored, forms, removal, struck>>

Leave(h) ==
  /\ forms[h].at # "off" /\ forms' = [forms EXCEPT ![h] = NoForm]
  /\ UNCHANGED <<rows, stored, refs, removal, struck>>

-----------------------------------------------------------------------------
(* The asset manager.                                                      *)

(* collect_related_objects does not see a ManagedAssetField.               *)
Usages(a) == {h \in {"branding"} : refs[h] = a}
Protected(a) == \E h \in Holders : refs[h] = a

Delete(a) ==
  /\ removal.at = "off" /\ There(a) /\ Usages(a) = {}
  /\ removal' = [NoRemoval EXCEPT !.at = "removing", !.left = {a}]
  /\ UNCHANGED <<rows, stored, refs, forms, struck>>

(* prunable_assets: uploads of the last 24 hours are left alone.           *)
CleanUp ==
  /\ removal.at = "off"
  /\ \E recent \in SUBSET Assets :
       removal' = [NoRemoval EXCEPT !.at = "removing",
                     !.left = {a \in Assets \ recent : There(a) /\ Usages(a) = {}}]
  /\ UNCHANGED <<rows, stored, refs, forms, struck>>

(* asset.delete(): PROTECT, the row, and then its file.                    *)
Remove(a) ==
  /\ removal.at = "removing" /\ a \in removal.left
  /\ IF There(a) /\ ~Protected(a)
     THEN /\ rows' = [rows EXCEPT ![a].is = "gone"]
          /\ removal' = [removal EXCEPT !.at = "checking", !.left = @ \ {a}, !.file = rows[a].file]
     ELSE rows' = rows /\ removal' = [removal EXCEPT !.left = @ \ {a}]
  /\ UNCHANGED <<stored, refs, forms, struck>>

(* Mutant: the file goes whatever else has it.                             *)
AloneAnyway(file) == TRUE

Alone(file) == \A a \in Assets : There(a) => rows[a].file # file

CheckFile ==
  /\ removal.at = "checking"
  /\ removal' = [removal EXCEPT !.at = IF Alone(removal.file) THEN "deleting" ELSE "removing"]
  /\ UNCHANGED <<rows, stored, refs, forms, struck>>

DeleteFile ==
  /\ removal.at = "deleting" /\ stored' = stored \ {removal.file}
  /\ struck' = IF removal.file = Legacy /\ forms["product"].at = "adopting"
               THEN struck \cup {Legacy} ELSE struck
  /\ removal' = [removal EXCEPT !.at = "removing", !.file = Legacy]
  /\ UNCHANGED <<rows, refs, forms>>

(* Done, or killed on the way.                                             *)
EndRemoval ==
  /\ removal.at # "off" /\ removal' = NoRemoval
  /\ UNCHANGED <<rows, stored, refs, forms, struck>>

-----------------------------------------------------------------------------
(* dlux_prune_assets --apply: every asset that no ManagedAssetField points *)
(* at is listed; then the file goes, and the row if PROTECT lets it.       *)

Declared == {refs["product"]}

Prune ==
  /\ removal.at = "off"
  /\ removal' = [NoRemoval EXCEPT !.at = "pruning",
                   !.left = {a \in Assets : There(a) /\ a \notin Declared}]
  /\ UNCHANGED <<rows, stored, refs, forms, struck>>

Strike(a) ==
  /\ removal.at = "pruning" /\ a \in removal.left
  /\ stored' = stored \ {rows[a].file} /\ struck' = struck \cup {rows[a].file}
  /\ removal' = [removal EXCEPT !.left = @ \ {a}]
  /\ rows' = IF Protected(a) THEN rows ELSE [rows EXCEPT ![a].is = "gone"]
  /\ UNCHANGED <<refs, forms>>

Next ==
  \/ Adopt \/ CleanUp \/ CheckFile \/ DeleteFile \/ EndRemoval \/ Prune
  \/ \E h \in Holders : Clean(h) \/ Save(h) \/ Clear(h) \/ Leave(h) \/ \E c \in Contents : Upload(h, c)
  \/ \E a \in Assets :
       \/ Adopted(a) \/ Delete(a) \/ Remove(a) \/ Strike(a)
       \/ \E h \in Holders : Choose(h, a) \/ Create(h, a)

Spec == Init /\ [][Next]_library

-----------------------------------------------------------------------------
AssetsTypeOK ==
  /\ rows \in [Assets -> Row] /\ {stored, struck} \subseteq SUBSET Files
  /\ refs \in [Holders -> Assets \cup {0}]
  /\ forms \in [Holders -> [at : {"off", "storing", "chosen", "adopting", "saving"},
                            content : Checksums, asset : Assets \cup {0}]]
  /\ removal \in [at : {"off", "removing", "checking", "deleting", "pruning"}, left : SUBSET Assets, file : Files]

(* Whatever forms are open while assets are deleted and cleaned up, and    *)
(* however many rows share one file: what a record points at is a row that *)
(* is there, with its file, unless the command struck that file.           *)
ReferencedIsKept ==
  \A h \in Holders : refs[h] # 0 =>
    There(refs[h]) /\ (rows[refs[h]].file \in stored \/ rows[refs[h]].file \in struck)
=============================================================================
