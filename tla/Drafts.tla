-------------------------------- MODULE Drafts --------------------------------
(***************************************************************************)
(* Drafts and optimistic versions: one row, of user_settings or of tags,   *)
(* the handlers that read and save it, and the forms of the browser tabs   *)
(* that edit it (SettingsForm and TagsScreen of screens.tsx; NoteForm      *)
(* holds its note as the tag form holds its tag).                          *)
(*                                                                         *)
(* A content is told by the version it was saved as; a form's fields, by   *)
(* the last version their author has seen when the fields were filled.     *)
(* TanStack Query is external.  A tag or note that is deleted meanwhile    *)
(* answers 404, which changes nothing here; two tags with one name clash   *)
(* as two first settings do, and no draft is about that.                   *)
(***************************************************************************)
EXTENDS Naturals

CONSTANTS
  Tabs,
  Kind,          (* What the row is: "settings" or "tag".                    *)
  MaxVersion     (* Bound: versions of the row.                              *)

VARIABLES
  row,           (* The version of the row, 0 while there is none.           *)
  author,        (* History: the tab that saved the row last.                *)
  query,         (* Of each tab: its query of the row.                       *)
  form,          (* Of each tab: its form, if one is mounted.                *)
  save           (* Of each tab: its PATCH.                                  *)

vars == <<row, author, query, form, save>>

Versions == 0 .. MaxVersion

(* None of the tabs: the defaults of _settings, or another client.           *)
Nobody == 0

(* "inserting": the GET found no row.  data: the version cached, 0 for none; *)
(* failed: isError, until data arrives.                                      *)
Queries == [at: {"idle", "asked", "inserting", "answered"}, answer: Versions,
            data: Versions, failed: BOOLEAN]

(* held: the version of the data the form was filled from; seen: the latest  *)
(* of its row that its author has seen.  open: it is mounted, or for a tag   *)
(* `editing` is set.                                                         *)
Forms == [open: BOOLEAN, held: Versions, seen: Versions]

NoForm == [open |-> FALSE, held |-> 0, seen |-> 0]

(* own: the form that sent it is still there.                                *)
Saves == [at: {"none", "sent", "saved", "refused"}, expected: Versions, seen: Versions,
          answer: Versions, own: BOOLEAN]

NoSave == [at |-> "none", expected |-> 0, seen |-> 0, answer |-> 0, own |-> FALSE]

Asked(q) == [q EXCEPT !.at = "asked", !.answer = 0]
Answered(q, version) == [q EXCEPT !.at = "answered", !.answer = version]
Rested(q) == [q EXCEPT !.at = "idle", !.answer = 0]
Cached(q, version) == [q EXCEPT !.data = version, !.failed = FALSE]

Told(f, version) == [f EXCEPT !.seen = version]

(* Tab t no longer has the form that sent its save.                          *)
Orphaned(t) == [save EXCEPT ![t] = [@ EXCEPT !.own = FALSE]]

-----------------------------------------------------------------------------
(* The query of a tab, and get_profile_settings or list_tags. *)

(* The first mount, an invalidation, a focus: the answer to come is new.     *)
Ask(t) ==
  /\ query' = [query EXCEPT ![t] = Asked(@)]
  /\ UNCHANGED <<row, author, form, save>>

Read(t) ==
  /\ query[t].at = "asked"
  /\ query' = [query EXCEPT ![t] = IF row = 0 THEN [@ EXCEPT !.at = "inserting"]
                                   ELSE Answered(@, row)]
  /\ UNCHANGED <<row, author, form, save>>

(* _settings inserts the defaults.  Of two requests that found no row, one   *)
(* fails on the primary key (500) and the client tries again.                *)
Insert(t) ==
  /\ query[t].at = "inserting"
  /\ IF row = 0
     THEN /\ row' = 1
          /\ query' = [query EXCEPT ![t] = Answered(@, 1)]
     ELSE /\ query' = [query EXCEPT ![t] = Asked(@)]
          /\ UNCHANGED row
  /\ UNCHANGED <<author, form, save>>

Land(t) ==
  /\ query[t].at = "answered"
  /\ query' = [query EXCEPT ![t] = Rested(Cached(@, @.answer))]
  /\ UNCHANGED <<row, author, form, save>>

(* After the retries.  SettingsScreen shows the error in place of its form.  *)
QueryFails(t) ==
  /\ query[t].at # "idle"
  /\ query' = [query EXCEPT ![t] = [Rested(@) EXCEPT !.failed = TRUE]]
  /\ IF Kind = "settings"
     THEN form' = [form EXCEPT ![t] = NoForm] /\ save' = Orphaned(t)
     ELSE UNCHANGED <<form, save>>
  /\ UNCHANGED <<row, author>>

-----------------------------------------------------------------------------
(* The form of a tab. *)

(* SettingsForm mounts with the data; a tag is chosen from the list.         *)
Fill(t) ==
  /\ query[t].data # 0 /\ ~query[t].failed
  /\ Kind = "settings" => ~form[t].open
  /\ form' = [form EXCEPT ![t] = [open |-> TRUE, held |-> query[t].data,
                                  seen |-> query[t].data]]
  /\ save' = Orphaned(t)
  /\ UNCHANGED <<row, author, query>>

(* The screen is left, or the edit cancelled.                                *)
Leave(t) ==
  /\ form[t].open
  /\ form' = [form EXCEPT ![t] = NoForm]
  /\ save' = Orphaned(t)
  /\ UNCHANGED <<row, author, query>>

(* expected_version: settings.version is a prop that follows the query,      *)
(* editing.version stays with the draft.                                     *)
Expected(t) == IF Kind = "settings" THEN query[t].data ELSE form[t].held

(* One PATCH at a time: the settings button is disabled meanwhile, and a     *)
(* second one of the tag form has the same version, so it can only be        *)
(* refused.                                                                  *)
Submit(t) ==
  /\ form[t].open
  /\ save[t].at = "none"
  /\ save' = [save EXCEPT ![t] = [at |-> "sent", expected |-> Expected(t),
                                  seen |-> form[t].seen, answer |-> 0, own |-> TRUE]]
  /\ UNCHANGED <<row, author, query, form>>

(* update_profile_settings, update_tag: the row is locked, compared, saved.  *)
Patch(t) ==
  /\ save[t].at = "sent"
  /\ IF row = save[t].expected
     THEN /\ row < MaxVersion
          /\ row' = row + 1 /\ author' = t
          /\ save' = [save EXCEPT ![t] = [@ EXCEPT !.at = "saved", !.answer = row + 1]]
     ELSE /\ save' = [save EXCEPT ![t] = [@ EXCEPT !.at = "refused", !.answer = row]]
          /\ UNCHANGED <<row, author>>
  /\ UNCHANGED <<query, form>>

(* Success puts the saved settings into the cache and leaves the form; for a *)
(* tag it asks for the list and resets the form, unless the screen has been  *)
(* left and opened again.  A conflict keeps the draft and says that the row  *)
(* has changed.                                                              *)
Reply(t) ==
  LET told == IF save[t].own THEN [form EXCEPT ![t] = Told(@, save[t].answer)] ELSE form
  IN  /\ save' = [save EXCEPT ![t] = NoSave]
      /\ \/ /\ save[t].at = "refused"
            /\ form' = told
            /\ UNCHANGED query
         \/ /\ save[t].at = "saved" /\ Kind = "settings"
            /\ form' = told
            /\ query' = [query EXCEPT ![t] = Cached(@, save[t].answer)]
         \/ /\ save[t].at = "saved" /\ Kind = "tag"
            /\ \/ form' = [form EXCEPT ![t] = NoForm]
               \/ ~save[t].own /\ UNCHANGED form
            /\ query' = [query EXCEPT ![t] = Asked(@)]
      /\ UNCHANGED <<row, author>>

(* The request or its answer is lost; mutations are not retried.             *)
Lost(t) ==
  /\ save[t].at # "none"
  /\ save' = [save EXCEPT ![t] = NoSave]
  /\ UNCHANGED <<row, author, query, form>>

-----------------------------------------------------------------------------
(* A tag is there before it is edited; the settings row may not be.          *)
Init ==
  /\ row = IF Kind = "settings" THEN 0 ELSE 1
  /\ author = Nobody
  /\ query = [t \in Tabs |-> [at |-> "asked", answer |-> 0, data |-> 0, failed |-> FALSE]]
  /\ form = [t \in Tabs |-> NoForm]
  /\ save = [t \in Tabs |-> NoSave]

Next ==
  \E t \in Tabs :
    \/ Ask(t) \/ Read(t) \/ Insert(t) \/ Land(t) \/ QueryFails(t)
    \/ Fill(t) \/ Leave(t) \/ Submit(t) \/ Patch(t) \/ Reply(t) \/ Lost(t)

Spec == Init /\ [][Next]_vars

-----------------------------------------------------------------------------
(* Every variable has its type. *)
TypeOK ==
  /\ row \in Versions /\ author \in Tabs \cup {Nobody}
  /\ query \in [Tabs -> Queries] /\ form \in [Tabs -> Forms] /\ save \in [Tabs -> Saves]

(* "Concurrent edits cannot silently overwrite each other" (PLAN.md): a save *)
(* replaces what its author had seen when it was sent, or the author's own   *)
(* save, whatever refetches, conflicts and lost answers came in between.     *)
NoSilentOverwrite ==
  [][\A t \in Tabs :
       row # 0 /\ row' # row /\ author' = t => save[t].seen = row \/ author = t]_vars
=============================================================================
