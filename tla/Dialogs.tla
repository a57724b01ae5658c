------------------------------- MODULE Dialogs -------------------------------
(***************************************************************************)
(* The drawers of the console's pages (apps/web/src/app/(admin)/admin).    *)
(* A page keeps the text of its forms in its own state, so that what a     *)
(* drawer shows when it opens is whatever its open handler, the answer of  *)
(* an earlier submit or the closing of another drawer left there, and the  *)
(* answer of a submit acts on the state of the page as it is by then: the  *)
(* drawer can be closed, and another opened, while the request is under    *)
(* way.  The text itself is abstracted to its origin: read from a row or   *)
(* typed, for which record, and whether it was already saved.              *)
(***************************************************************************)
EXTENDS Naturals, FiniteSets

CONSTANTS Listed,                 \* the rows the page lists
          MaxPending             \* submits under way at once (a bound)
ASSUME ListedAssumption == Listed \subseteq Nat \ {0} /\ Listed # {}

VARIABLES screen,                \* the page
          dialog,                \* the drawer in front, and its record
          ink,                   \* what each part of the page's forms holds
          pending,               \* by drawer: the submit under way
          chosen                 \* the parent the page has selected
dialogVars == <<screen, dialog, ink, pending, chosen>>

Fresh == 0                       \* the record a create drawer will make
Marks == [from: {"typed", "row"}, of: Listed \cup {Fresh}, saved: BOOLEAN]
Typed(r) == [from |-> "typed", of |-> r, saved |-> FALSE]
Copied(r) == [from |-> "row", of |-> r, saved |-> FALSE]

(***************************************************************************)
(* A drawer is for a new record, for a row, or for the chosen parent.  Its *)
(* open handler blanks a part, copies the row into it or leaves it as it   *)
(* is ("kept"); an effect copies the row again whenever it is read         *)
(* ("loaded").  leaves are the parts that closing it blanks.               *)
(***************************************************************************)
Drawer(on, fills, leaves) == [on |-> on, fills |-> fills, leaves |-> leaves]
\* A button of a drawer: what it sends, and what its answer blanks, closes
\* and (moves) does to the chosen parent.
Button(in, sends, clears, closes, moves) ==
  [in |-> in, sends |-> sends, clears |-> clears, closes |-> closes,
   moves |-> moves]

\* The form that is opened as it was left and reset when it was saved.
Draft == Drawer("new", [draft |-> "kept"], {})
SaveDraft == Button("create", {"draft"}, {"draft"}, {"create"}, FALSE)
SaveNew(k, p) == Button(k, {p}, {p}, {k}, FALSE)
SaveRow(k, parts) == Button(k, parts, {}, {k}, FALSE)
SimplePage(drawer) == [dialogs |-> [create |-> drawer], buttons |-> {SaveDraft}]

\* One form for both: it is reset by an effect when the edited row changes.
NewEntry == Drawer("new", [form |-> "kept"], {})
EditEntry == Drawer("row", [form |-> "row"], {"form"})
EditorPage ==
  [dialogs |-> [create |-> NewEntry, edit |-> EditEntry],
   buttons |-> {Button(k, {"form"}, {}, {"create", "edit"}, FALSE)
                  : k \in {"create", "edit"}}]
AgendaPage == EditorPage
BeritaPage == EditorPage
PembangunanPage == EditorPage

NewProgram == Draft
NewEvent == Draft
AsetPage == SimplePage(Draft)
BantuanSosialPage == SimplePage(NewProgram)
PeristiwaPage == SimplePage(NewEvent)
Photo == Drawer("new", [draft |-> "kept", file |-> "kept"], {})
GaleriPage ==
  [dialogs |-> [create |-> Photo],
   buttons |-> {Button("create", {"draft", "file"}, {"draft", "file"},
                       {"create"}, FALSE)}]
NewUnitOfBumdes == Draft
FinancialRecord == Drawer("new", [record |-> "kept"], {})
BumdesPage ==
  [dialogs |-> [create |-> NewUnitOfBumdes, record |-> FinancialRecord],
   buttons |-> {SaveDraft, SaveNew("record", "record")}]

NewResident == Drawer("new", [form |-> "blank", address |-> "blank"], {})
EditResident == Drawer("row", [edit |-> "row", address |-> "kept"], {})
MutateResident == Drawer("row", [mutate |-> "blank"], {})
ImportResidents == Drawer("new", <<>>, {})
PendudukPage ==
  [dialogs |-> [create |-> NewResident, edit |-> EditResident,
                mutate |-> MutateResident, import |-> ImportResidents],
   buttons |-> LET Save(k, sends) ==
                     Button(k, sends, {}, {"create", "edit", "mutate", "import"}, FALSE) IN
               {Save("create", {"form", "address"}),
                Save("edit", {"edit", "address"}),
                Save("mutate", {"mutate"}), Save("import", {})}]

NewFamily == Drawer("new", [draft |-> "kept", address |-> "kept"], {})
EditFamily == Drawer("row", [edit |-> "row", editAddress |-> "blank"], {})
AddMember == Drawer("row", [member |-> "kept"], {})
KeluargaPage ==
  [dialogs |-> [create |-> NewFamily, edit |-> EditFamily, member |-> AddMember],
   buttons |-> {Button("create", {"draft", "address"}, {"draft", "address"},
                       {"create"}, FALSE),
                SaveRow("edit", {"edit", "editAddress"}), SaveNew("member", "member")}]

NewUser == Draft
EditUser == Drawer("row", [edit |-> "row"], {})
UsersPage ==
  [dialogs |-> [create |-> NewUser, edit |-> EditUser],
   buttons |-> {SaveDraft, SaveRow("edit", {"edit"})}]
NewRole == Draft
EditRole == Drawer("row", [edit |-> "loaded"], {})
RolesPage ==
  [dialogs |-> [create |-> NewRole, edit |-> EditRole],
   buttons |-> {SaveDraft, SaveRow("edit", {"edit"})}]

NewRequest == Draft
RequestDetail == Drawer("row", [notes |-> "blank"], {"notes"})
SuratPage ==
  [dialogs |-> [create |-> NewRequest, detail |-> RequestDetail],
   buttons |-> {SaveDraft, Button("detail", {"notes"}, {}, {}, FALSE)}]
NewComplaint == Draft
ComplaintDetail == Drawer("row", [response |-> "blank", assignee |-> "row"], {})
PengaduanPage ==
  [dialogs |-> [create |-> NewComplaint, detail |-> ComplaintDetail],
   buttons |-> {SaveDraft,
                Button("detail", {"response"}, {"response"}, {}, FALSE),
                Button("detail", {"assignee"}, {"assignee"}, {}, FALSE)}]

SaveParent == [SaveDraft EXCEPT !.moves = TRUE]
NewBudgetYear == Draft
NewBudgetItem == Drawer("chosen", [item |-> "kept"], {})
NewRealization == Drawer("row", [entry |-> "blank"], {})
KeuanganPage ==
  [dialogs |-> [create |-> NewBudgetYear, item |-> NewBudgetItem, realization |-> NewRealization],
   buttons |-> {SaveParent, SaveNew("item", "item"), SaveRow("realization", {"entry"})}]
NewHamlet == Draft
NewUnit == Drawer("chosen", [unit |-> "kept"], {})
WilayahPage ==
  [dialogs |-> [create |-> NewHamlet, unit |-> NewUnit],
   buttons |-> {SaveParent, SaveNew("unit", "unit")}]
NewVillage == Drawer("new", [village |-> "kept", admin |-> "kept"], {})
KabupatenPage ==
  [dialogs |-> [create |-> NewVillage],
   buttons |-> {Button("create", {"village", "admin"}, {"village"},
                       {"create"}, FALSE)}]

Screens ==
  [agenda |-> AgendaPage, berita |-> BeritaPage, pembangunan |-> PembangunanPage,
   aset |-> AsetPage, bantuan |-> BantuanSosialPage, peristiwa |-> PeristiwaPage,
   galeri |-> GaleriPage, bumdes |-> BumdesPage, penduduk |-> PendudukPage,
   keluarga |-> KeluargaPage, users |-> UsersPage, roles |-> RolesPage,
   surat |-> SuratPage, pengaduan |-> PengaduanPage, keuangan |-> KeuanganPage,
   wilayah |-> WilayahPage, kabupaten |-> KabupatenPage]
DialogsOf == [s \in DOMAIN Screens |-> Screens[s].dialogs]
ButtonsOf == [s \in DOMAIN Screens |-> Screens[s].buttons]
KindsOf == [s \in DOMAIN Screens |-> DOMAIN Screens[s].dialogs]
PartsOf == [s \in DOMAIN Screens |->
              LET d == Screens[s].dialogs IN UNION {DOMAIN d[k].fills : k \in DOMAIN d}]

NoDialog == [kind |-> "none", on |-> Fresh]
NoSubmit == [button |-> NoDialog, on |-> Fresh, sent |-> <<>>]

DialogsInit ==
  /\ screen \in DOMAIN Screens
  /\ dialog = NoDialog
  /\ ink = [p \in PartsOf[screen] |-> {}]
  /\ pending = [k \in KindsOf[screen] |-> NoSubmit]
  /\ chosen = CHOOSE r \in Listed : TRUE

RecordsOf(d) == CASE d.on = "new" -> {Fresh}
                  [] d.on = "row" -> Listed
                  [] d.on = "chosen" -> {chosen}

\* What a part holds once drawer d is open for record r.
Filled(d, r) ==
  [p \in DOMAIN ink |->
     IF p \notin DOMAIN d.fills \/ d.fills[p] = "kept" THEN ink[p]
     ELSE IF d.fills[p] = "blank" THEN {} ELSE {Copied(r)}]
OpenDialog(k) ==
  /\ dialog = NoDialog
  /\ \E r \in RecordsOf(DialogsOf[screen][k]) :
       /\ dialog' = [kind |-> k, on |-> r]
       /\ ink' = Filled(DialogsOf[screen][k], r)
  /\ UNCHANGED <<screen, pending, chosen>>

\* The row of an open drawer is read again and its effect runs again.
Reread ==
  /\ dialog # NoDialog
  /\ LET fills == DialogsOf[screen][dialog.kind].fills IN
     \E p \in DOMAIN fills :
       /\ fills[p] = "loaded"
       /\ ink' = [ink EXCEPT ![p] = {Copied(dialog.on)}]
  /\ UNCHANGED <<screen, dialog, pending, chosen>>

TypeIn(p) ==
  /\ dialog # NoDialog
  /\ p \in DOMAIN DialogsOf[screen][dialog.kind].fills
  /\ ink' = [ink EXCEPT ![p] = @ \cup {Typed(dialog.on)}]
  /\ UNCHANGED <<screen, dialog, pending, chosen>>

\* What the drawer in front blanks when it closes.
MutOnClose == {}
OnClose == IF dialog = NoDialog THEN {}
           ELSE DialogsOf[screen][dialog.kind].leaves
Blanked(f, parts) == [p \in DOMAIN f |-> IF p \in parts THEN {} ELSE f[p]]
\* Cancel and the cross are never disabled, the submit under way goes on.
CloseDialog ==
  /\ dialog # NoDialog
  /\ dialog' = NoDialog
  /\ ink' = Blanked(ink, OnClose)
  /\ UNCHANGED <<screen, pending, chosen>>

Choose == /\ dialog = NoDialog
          /\ \E k \in KindsOf[screen] : DialogsOf[screen][k].on = "chosen"
          /\ chosen' \in Listed
          /\ UNCHANGED <<screen, dialog, ink, pending>>

\* A submit is sent to the record of its drawer, and one for the chosen
\* parent to the parent chosen by now.
TargetNow == IF DialogsOf[screen][dialog.kind].on = "chosen" THEN chosen
             ELSE dialog.on
Waiting == {k \in DOMAIN pending : pending[k] # NoSubmit}
SubmitForm(b) ==
  /\ dialog.kind = b.in
  /\ Cardinality(Waiting) < MaxPending
  /\ pending[b.in] = NoSubmit
  /\ screen \in {"agenda", "berita", "pembangunan"} =>
       Waiting = {}
  /\ pending' = [pending EXCEPT ![b.in] =
                   [button |-> b, on |-> TargetNow,
                    sent |-> [p \in b.sends |-> ink[p]]]]
  /\ UNCHANGED <<screen, dialog, ink, chosen>>

AsSaved(marks, sent) ==
  LET typed == {m \in marks \cap sent : m.from = "typed"} IN
  (marks \ typed) \cup {[m EXCEPT !.saved = TRUE] : m \in typed}
\* The success handler closes and blanks what is there by then.
Saved(k) ==
  /\ pending[k] # NoSubmit
  /\ LET b == pending[k].button
         sent == pending[k].sent
         kept == [p \in DOMAIN ink |->
                    IF p \in DOMAIN sent THEN AsSaved(ink[p], sent[p])
                    ELSE ink[p]]
         shut == dialog.kind \in b.closes IN
     /\ ink' = Blanked(kept, b.clears \cup (IF shut THEN OnClose ELSE {}))
     /\ dialog' = IF shut THEN NoDialog ELSE dialog
     /\ chosen' \in IF b.moves THEN Listed ELSE {chosen}
  /\ pending' = [pending EXCEPT ![k] = NoSubmit]
  /\ UNCHANGED screen
\* An error is shown and everything stays.
Rejected(k) ==
  /\ pending[k] # NoSubmit
  /\ pending' = [pending EXCEPT ![k] = NoSubmit]
  /\ UNCHANGED <<screen, dialog, ink, chosen>>

DialogsNext ==
  \/ \E k \in KindsOf[screen] : OpenDialog(k) \/ Saved(k) \/ Rejected(k)
  \/ \E p \in PartsOf[screen] : TypeIn(p)
  \/ \E b \in ButtonsOf[screen] : SubmitForm(b)
  \/ Reread \/ CloseDialog \/ Choose

DialogsSpec == DialogsInit /\ [][DialogsNext]_dialogVars
-----------------------------------------------------------------------------
(* Types: the drawer in front is one of the page's, a part holds marks.    *)
DialogsTypeOK ==
  /\ screen \in DOMAIN Screens
  /\ dialog # NoDialog =>
       /\ dialog.kind \in KindsOf[screen]
       /\ dialog.on \in Listed \cup {Fresh}
  /\ ink \in [PartsOf[screen] -> SUBSET Marks]
  /\ DOMAIN pending = KindsOf[screen]
  /\ \A k \in DOMAIN pending : pending[k] # NoSubmit =>
       /\ pending[k].button \in ButtonsOf[screen]
       /\ pending[k].button.in = k
  /\ chosen \in Listed

\* The parts that keep what was typed for one record until another is open,
\* and the forms whose parent can move while they are open.
Wanders == {<<"penduduk", "edit", "address">>, <<"keluarga", "member", "member">>,
            <<"wilayah", "unit", "unit">>, <<"keuangan", "item", "item">>}
\* The parts that still hold what they saved.
Repeats == {<<s, "create", "form">> : s \in {"agenda", "berita", "pembangunan"}}
             \cup {<<"kabupaten", "create", "admin">>, <<"surat", "detail", "notes">>,
                   <<"penduduk", "edit", "address">>}

\* Whatever order drawers are opened, left, submitted and answered in, a
\* submit sends to a record only what was read from it or typed for it: the
\* code misses this on the four parts of Wanders only.
SentOwn ==
  \A k \in Waiting : \A p \in DOMAIN pending[k].sent : \A m \in pending[k].sent[p] :
    m.of = pending[k].on \/ <<screen, k, p>> \in Wanders
\* What was typed once is saved once: a form that was saved does not offer its
\* text for the next record, outside the parts of Repeats.
SentOnce ==
  \A k \in Waiting : \A p \in DOMAIN pending[k].sent : \A m \in pending[k].sent[p] :
    m.from = "typed" /\ m.saved => <<screen, k, p>> \in Repeats

\* What a submit carries, whatever was open before it.
FormsSound == DialogsTypeOK /\ SentOwn /\ SentOnce
=============================================================================
