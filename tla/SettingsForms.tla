----------------------------- MODULE SettingsForms -----------------------------
(***************************************************************************)
(* A setting kept in two forms: the newer groups (search_config,           *)
(* tables_config) and the older keys of titlebar_config and layout_config  *)
(* that applications and files of earlier releases still use.  Saves come  *)
(* one at a time here (SettingsStore has them overlap) and may change      *)
(* either form; SystemSettings.save brings the two together                *)
(* (dlux/models/settings.py, dlux/system/normalizers.py).                  *)
(***************************************************************************)

CONSTANT Values     \* densities, column overlays and other settings there are

Displays == {"always", "icon"}
Searches == [enabled : BOOLEAN, display : Displays, data : BOOLEAN]
Titlebars == [mode : Displays \cup {"disabled"}, data : BOOLEAN]
Tables == [density : Values, columns : Values]
Row == [search : Searches, titlebar : Titlebars, tables : Tables, layout : Values, other : Values]

VARIABLES
  row,      \* the row of SystemSettings
  wanted    \* what has been asked for, in the newer form

forms == <<row, wanted>>

Unsaid == "unsaid"      \* the older form of a search that is off has no display
DefaultDisplay == "icon"

-----------------------------------------------------------------------------
(* normalize_search_config of the older keys, search_config_legacy_values. *)
SearchOf(titlebar) ==
  [enabled |-> titlebar.mode # "disabled", data |-> titlebar.data,
   display |-> IF titlebar.mode = "disabled" THEN DefaultDisplay ELSE titlebar.mode]

TitlebarOf(search) ==
  [mode |-> IF search.enabled THEN search.display ELSE "disabled", data |-> search.data]

(* An edit changes one form of a setting, both alike (the settings form,   *)
(* an imported file), or none; a save names what it changed, or is of all. *)
Same == [form |-> "none"]
SearchEdits ==
  {Same} \cup [form : {"newer", "both"}, to : Searches] \cup [form : {"older"}, to : Titlebars]
TableEdits ==
  {Same} \cup [form : {"newer"}, to : Tables] \cup [form : {"older"}, to : Values]
         \cup [form : {"both"}, to : Tables]

Edited(search, tables, other) ==
  [search   |-> IF search.form \in {"newer", "both"} THEN search.to ELSE row.search,
   titlebar |-> CASE search.form = "both" -> TitlebarOf(search.to)
                  [] search.form = "older" -> search.to
                  [] OTHER -> row.titlebar,
   tables   |-> IF tables.form \in {"newer", "both"} THEN tables.to ELSE row.tables,
   layout   |-> CASE tables.form = "both" -> tables.to.density
                  [] tables.form = "older" -> tables.to
                  [] OTHER -> row.layout,
   other    |-> other]

(* Mutant: what is not known to have changed in the newer form is taken    *)
(* from the older one.                                                     *)
OlderSearch(held, named) ==
  IF "search" \in named \/ held.search # row.search THEN held.search ELSE SearchOf(held.titlebar)

(* _sync_compat_configs: the form that was named, or else that changed.    *)
ChosenSearch(held, named) ==
  IF \/ "search" \in named
     \/ "titlebar" \notin named
        /\ \/ held.search # row.search
           \/ SearchOf(held.titlebar) = SearchOf(row.titlebar)
  THEN held.search
  ELSE SearchOf(held.titlebar)

ChosenTables(held, named) ==
  LET changed == held.tables # row.tables \/ "tables" \in named
      older == held.layout # row.layout \/ "layout" \in named
  IN IF older /\ ~changed THEN [held.tables EXCEPT !.density = held.layout] ELSE held.tables

Named(search, tables) ==
  (CASE search.form = "newer" -> {"search"} [] search.form = "older" -> {"titlebar"}
     [] search.form = "both" -> {"search", "titlebar"} [] OTHER -> {})
  \cup
  (CASE tables.form = "newer" -> {"tables"} [] tables.form = "older" -> {"layout"}
     [] tables.form = "both" -> {"tables", "layout"} [] OTHER -> {})

(* save(): both forms of what is named are written, or the whole row.      *)
Written(held, named, whole) ==
  LET search == ChosenSearch(held, named)
      tables == ChosenTables(held, named)
      synced == [held EXCEPT !.search = search, !.titlebar = TitlebarOf(search),
                             !.tables = tables, !.layout = tables.density]
      writesSearch == whole \/ named \cap {"search", "titlebar"} # {}
      writesTables == whole \/ named \cap {"tables", "layout"} # {}
  IN [search   |-> IF writesSearch THEN synced.search ELSE row.search,
      titlebar |-> IF writesSearch THEN synced.titlebar ELSE row.titlebar,
      tables   |-> IF writesTables THEN synced.tables ELSE row.tables,
      layout   |-> IF writesTables THEN synced.layout ELSE row.layout,
      other    |-> synced.other]

(* What a request asks for, whatever the row holds.                        *)
AskedSearch(edit, whole) ==
  CASE edit.form \in {"newer", "both"} -> edit.to
    [] edit.form = "older" ->
         IF whole /\ edit.to = TitlebarOf(wanted.search) THEN wanted.search
         ELSE IF edit.to.mode = "disabled" THEN [SearchOf(edit.to) EXCEPT !.display = Unsaid]
         ELSE SearchOf(edit.to)
    [] OTHER -> wanted.search

AskedTables(edit) ==
  CASE edit.form \in {"newer", "both"} -> edit.to
    [] edit.form = "older" -> [wanted.tables EXCEPT !.density = edit.to]
    [] OTHER -> wanted.tables

-----------------------------------------------------------------------------
Init ==
  \E v \in Values :
    LET search == [enabled |-> TRUE, display |-> DefaultDisplay, data |-> FALSE]
        tables == [density |-> v, columns |-> v]
    IN /\ row = [search |-> search, titlebar |-> TitlebarOf(search), tables |-> tables,
                 layout |-> v, other |-> v]
       /\ wanted = [search |-> search, tables |-> tables, other |-> v]

Save(search, tables, other, whole) ==
  LET named == IF whole THEN {} ELSE Named(search, tables)
  IN /\ row' = Written(Edited(search, tables, other), named, whole)
     /\ wanted' = [search |-> AskedSearch(search, whole), tables |-> AskedTables(tables), other |-> other]

Next ==
  \E search \in SearchEdits, tables \in TableEdits, other \in Values, whole \in BOOLEAN :
    Save(search, tables, other, whole)

FormsTypeOK == row \in Row

(* The two forms agree after every save and say what was last asked for,   *)
(* and nothing changes that was not.                                       *)
FormsAgree ==
  /\ row.titlebar = TitlebarOf(row.search) /\ row.layout = row.tables.density
  /\ row.search \in {wanted.search} \cup {[wanted.search EXCEPT !.display = d] :
                       d \in {e \in Displays : wanted.search.display = Unsaid}}
  /\ row.tables = wanted.tables /\ row.other = wanted.other
=============================================================================
