------------------------------ MODULE Households ------------------------------
(***************************************************************************)
(* Family cards (KK) and residents of SIDPRO: the calls of FamiliesService *)
(* and PopulationService that create, link and soft-delete them, and the   *)
(* triggers of the migration 20260628000700 that detach a resident who is  *)
(* deleted.  A link is kept in three places: residents.family_id, the rows *)
(* of family_members, and families.head_resident_id.                       *)
(*                                                                         *)
(* A call reads and checks, one statement after the other, and then writes *)
(* in a transaction that does not look at what was checked again.  Where   *)
(* the transaction first touches the member rows that it sees and then     *)
(* goes on, these are two steps (READ COMMITTED): the rows stay locked,    *)
(* and rows that are inserted in between are not touched.                  *)
(*                                                                         *)
(* All rows are of one tenant.  A family stands for its KK number and a    *)
(* resident for their NIK, both unique also among soft-deleted rows.       *)
(***************************************************************************)
EXTENDS Naturals, Sequences, FiniteSets

CONSTANTS
  Family, Resident,
  Calls,         \* calls that may be in flight
  Serialized,    \* TRUE: one call at a time
  MaxRows,       \* bound of the model on the member rows ever inserted
  NoFamily, NoResident

ASSUME HouseholdsAssumption ==
  /\ Serialized \in BOOLEAN
  /\ MaxRows \in Nat
  /\ NoFamily \notin Family /\ NoResident \notin Resident

VARIABLES
  resident,      \* residents: no row, live, or deleted_at set
  familyOf,      \* residents.family_id
  family,        \* families: no row, live, or deleted_at set
  head,          \* families.head_resident_id
  rows,          \* family_members
  made,          \* number of the member rows ever inserted (their ids)
  call           \* what each call is doing

rowVars == <<resident, familyOf, family, head, rows, made>>
vars == <<rowVars, call>>

State == {"none", "live", "deleted"}
Row   == [id : 1 .. MaxRows, family : Family, resident : Resident, isHead : BOOLEAN]
Op    == {"createFamily", "updateFamily", "removeFamily", "addMember", "removeMember",
          "createResident", "updateResident", "removeResident", "restoreResident"}

\* A call: its input, the number of its checks that have passed, and the ids of
\* the member rows that its open transaction has locked.
Idle   == [op |-> "none"]
Active == [op : Op, family : Family \cup {NoFamily}, resident : Resident \cup {NoResident},
           isHead : BOOLEAN, row : 0 .. MaxRows, passed : 0 .. 4, open : BOOLEAN,
           locked : SUBSET (1 .. MaxRows)]

TypeOK ==
  /\ resident \in [Resident -> State]
  /\ familyOf \in [Resident -> Family \cup {NoFamily}]
  /\ family \in [Family -> State]
  /\ head \in [Family -> Resident \cup {NoResident}]
  /\ rows \subseteq Row
  /\ made \in 0 .. MaxRows
  /\ call \in [Calls -> Active \cup {Idle}]

Init ==
  /\ resident = [r \in Resident |-> "none"]
  /\ familyOf = [r \in Resident |-> NoFamily]
  /\ family = [f \in Family |-> "none"]
  /\ head = [f \in Family |-> NoResident]
  /\ rows = {}
  /\ made = 0
  /\ call = [c \in Calls |-> Idle]

-----------------------------------------------------------------------------
FamilyLive(w)   == w.family = NoFamily \/ family[w.family] = "live"
ResidentLive(w) == w.resident = NoResident \/ resident[w.resident] = "live"
NotMember(w)    == ~\E m \in rows : m.family = w.family /\ m.resident = w.resident
NoOtherHead(w)  == w.isHead => ~\E m \in rows : m.family = w.family /\ m.isHead

\* The checks of each operation, in the order in which the code makes them.
Checks(w) ==
  CASE w.op = "createFamily"   -> <<family[w.family] = "none", ResidentLive(w)>>
    [] w.op = "updateFamily"   -> <<FamilyLive(w), ResidentLive(w)>>
    [] w.op = "removeFamily"   -> <<FamilyLive(w)>>
    [] w.op = "addMember"      -> <<FamilyLive(w), NotMember(w), ResidentLive(w), NoOtherHead(w)>>
    [] w.op = "createResident" -> <<resident[w.resident] = "none", FamilyLive(w)>>
    [] w.op = "updateResident" -> <<ResidentLive(w), FamilyLive(w)>>
    [] w.op = "removeResident" -> <<ResidentLive(w)>>
    [] OTHER                   -> <<>>

Begin(c, op, f, r, isHead, row) ==
  /\ call[c] = Idle
  /\ Serialized => \A j \in Calls : call[j] = Idle
  /\ call' = [call EXCEPT ![c] = [op |-> op, family |-> f, resident |-> r, isHead |-> isHead,
                                  row |-> row, passed |-> 0, open |-> FALSE, locked |-> {}]]
  /\ UNCHANGED rowVars

\* removeMember starts by reading the row; a row of an import, by reading the
\* resident with its NIK, and restores one that is deleted (a new NIK is created
\* as in PopulationService.create, without a family).
BeginRemoveMember(c) ==
  \E m \in rows : Begin(c, "removeMember", m.family, m.resident, m.isHead, m.id)

BeginImport(c, r) ==
  resident[r] = "deleted" /\ Begin(c, "restoreResident", NoFamily, r, FALSE, 0)

Check(c) ==
  LET w == call[c] IN
  /\ w # Idle
  /\ w.passed < Len(Checks(w))
  /\ Checks(w)[w.passed + 1]
  /\ call' = [call EXCEPT ![c] = [w EXCEPT !.passed = @ + 1]]
  /\ UNCHANGED rowVars

\* A check does not hold, the database refuses the transaction (a unique key, a
\* row that is gone, a deadlock), or the connection is lost: nothing is written.
Fail(c) ==
  /\ call[c] # Idle
  /\ call' = [call EXCEPT ![c] = Idle]
  /\ UNCHANGED rowVars

Ready(c, op) == call[c].op = op /\ call[c].passed = Len(Checks(call[c]))
Done(c)      == call' = [call EXCEPT ![c] = Idle]

\* Another transaction has locked one of these member rows.
Waits(c, ids) == \E j \in Calls \ {c} : call[j] # Idle /\ call[j].locked \cap ids # {}
Ids(S)        == {m.id : m \in S}

-----------------------------------------------------------------------------
\* FamiliesService.create and update.
CreateFamily(c) ==
  LET w == call[c] IN
  /\ Ready(c, "createFamily")
  /\ family[w.family] = "none"
  /\ family' = [family EXCEPT ![w.family] = "live"]
  /\ head' = [head EXCEPT ![w.family] = w.resident]
  /\ Done(c)
  /\ UNCHANGED <<resident, familyOf, rows, made>>

UpdateFamily(c) ==
  LET w == call[c] IN
  /\ Ready(c, "updateFamily")
  /\ head' = [head EXCEPT ![w.family] = w.resident]
  /\ Done(c)
  /\ UNCHANGED <<resident, familyOf, family, rows, made>>

\* The first statement of a transaction on the member rows of a family:
\* remove deletes all of them, addMember demotes the heads.
Touched(w) == {m \in rows : m.family = w.family /\ (w.op = "addMember" => m.isHead)}

OpenTransaction(c) ==
  LET w == call[c] IN
  /\ \/ Ready(c, "removeFamily")
     \/ Ready(c, "addMember") /\ w.isHead
  /\ ~w.open
  /\ ~Waits(c, Ids(Touched(w)))
  /\ call' = [call EXCEPT ![c] = [w EXCEPT !.open = TRUE, !.locked = Ids(Touched(w))]]
  /\ UNCHANGED rowVars

\* Mutant: the residents of a deleted family keep their link to it.
MutDetached(f) == familyOf

Detached(f) == [r \in Resident |-> IF familyOf[r] = f THEN NoFamily ELSE familyOf[r]]

RemoveFamily(c) ==
  LET w == call[c] IN
  /\ Ready(c, "removeFamily") /\ w.open
  /\ rows' = {m \in rows : m.id \notin w.locked}
  /\ familyOf' = Detached(w.family)
  /\ family' = [family EXCEPT ![w.family] = "deleted"]
  /\ head' = [head EXCEPT ![w.family] = NoResident]
  /\ Done(c)
  /\ UNCHANGED <<resident, made>>

\* Mutant: a member is a head whatever the request says.
MutNewRow(w) == [id |-> made + 1, family |-> w.family, resident |-> w.resident, isHead |-> TRUE]

NewRow(w) == [id |-> made + 1, family |-> w.family, resident |-> w.resident, isHead |-> w.isHead]

\* addMember: the heads that were seen are demoted, the new row is inserted
\* (the pair is a unique key) and the resident is linked to the family.
AddMember(c) ==
  LET w == call[c] IN
  /\ Ready(c, "addMember")
  /\ w.isHead => w.open
  /\ NotMember(w) /\ made < MaxRows
  /\ rows' = {[m EXCEPT !.isHead = @ /\ m.id \notin w.locked] : m \in rows} \cup {NewRow(w)}
  /\ made' = made + 1
  /\ head' = IF w.isHead THEN [head EXCEPT ![w.family] = w.resident] ELSE head
  /\ familyOf' = [familyOf EXCEPT ![w.resident] = w.family]
  /\ Done(c)
  /\ UNCHANGED <<resident, family>>

\* Mutant: whoever leaves a family has no family afterwards.
MutLeaves(w) == [familyOf EXCEPT ![w.resident] = NoFamily]

Leaves(w) == [familyOf EXCEPT ![w.resident] = IF @ = w.family THEN NoFamily ELSE @]

\* Mutant: the family keeps pointing at the head that is removed.
MutHeadAfter(w) == head

HeadAfter(w) == IF w.isHead THEN [head EXCEPT ![w.family] = NoResident] ELSE head

\* removeMember deletes by the id of the row it has read, and fails without it.
RemoveMember(c) ==
  LET w == call[c] IN
  /\ Ready(c, "removeMember")
  /\ w.row \in Ids(rows) /\ ~Waits(c, {w.row})
  /\ rows' = {m \in rows : m.id # w.row}
  /\ familyOf' = Leaves(w)
  /\ head' = HeadAfter(w)
  /\ Done(c)
  /\ UNCHANGED <<resident, family, made>>

-----------------------------------------------------------------------------
\* PopulationService.create, update, remove and importResidents.
CreateResident(c) ==
  LET w == call[c] IN
  /\ Ready(c, "createResident")
  /\ resident[w.resident] = "none"
  /\ resident' = [resident EXCEPT ![w.resident] = "live"]
  /\ familyOf' = [familyOf EXCEPT ![w.resident] = w.family]
  /\ Done(c)
  /\ UNCHANGED <<family, head, rows, made>>

\* family: { connect } or { disconnect }.
UpdateResident(c) ==
  LET w == call[c] IN
  /\ Ready(c, "updateResident")
  /\ familyOf' = [familyOf EXCEPT ![w.resident] = w.family]
  /\ Done(c)
  /\ UNCHANGED <<resident, family, head, rows, made>>

\* Mutant: the triggers leave the head of the family alone.
MutUnheaded(r) == head

Unheaded(r) == [f \in Family |-> IF head[f] = r THEN NoResident ELSE head[f]]

\* The triggers fire only when deleted_at was NULL.
RemoveResident(c) ==
  LET r == call[c].resident IN
  /\ Ready(c, "removeResident")
  /\ ~Waits(c, Ids({m \in rows : m.resident = r}))
  /\ resident' = [resident EXCEPT ![r] = "deleted"]
  /\ IF resident[r] = "live"
     THEN /\ familyOf' = [familyOf EXCEPT ![r] = NoFamily]
          /\ rows' = {m \in rows : m.resident # r}
          /\ head' = Unheaded(r)
     ELSE UNCHANGED <<familyOf, rows, head>>
  /\ Done(c)
  /\ UNCHANGED <<family, made>>

RestoreResident(c) ==
  LET w == call[c] IN
  /\ Ready(c, "restoreResident")
  /\ resident' = [resident EXCEPT ![w.resident] = "live"]
  /\ Done(c)
  /\ UNCHANGED <<familyOf, family, head, rows, made>>

-----------------------------------------------------------------------------
Request(c) ==
  \/ \E f \in Family, r \in Resident \cup {NoResident} : Begin(c, "createFamily", f, r, FALSE, 0)
  \/ \E f \in Family, r \in Resident : Begin(c, "updateFamily", f, r, FALSE, 0)
  \/ \E f \in Family : Begin(c, "removeFamily", f, NoResident, FALSE, 0)
  \/ \E f \in Family, r \in Resident, h \in BOOLEAN : Begin(c, "addMember", f, r, h, 0)
  \/ \E r \in Resident, f \in Family \cup {NoFamily} : Begin(c, "createResident", f, r, FALSE, 0)
  \/ \E r \in Resident, f \in Family \cup {NoFamily} : Begin(c, "updateResident", f, r, FALSE, 0)
  \/ \E r \in Resident : Begin(c, "removeResident", NoFamily, r, FALSE, 0)
  \/ \E r \in Resident : BeginImport(c, r)
  \/ BeginRemoveMember(c)

Next ==
  \E c \in Calls :
    \/ Request(c) \/ Check(c) \/ OpenTransaction(c) \/ Fail(c)
    \/ CreateFamily(c) \/ UpdateFamily(c) \/ RemoveFamily(c) \/ AddMember(c) \/ RemoveMember(c)
    \/ CreateResident(c) \/ UpdateResident(c) \/ RemoveResident(c) \/ RestoreResident(c)

Spec == Init /\ [][Next]_vars

-----------------------------------------------------------------------------
\* With one call at a time, a resident who is soft-deleted is in no family: no
\* link, no member row, and heads none (FamiliesService has no such check: this
\* is up to the triggers and to the checks before a link is made).
DeletedDetached ==
  \A r \in Resident : resident[r] = "deleted" =>
    /\ familyOf[r] = NoFamily
    /\ \A m \in rows : m.resident # r
    /\ \A f \in Family : head[f] # r

\* With one call at a time, a deleted family holds nobody.
DeletedFamilyEmpty ==
  \A f \in Family : family[f] # "live" =>
    /\ head[f] = NoResident
    /\ \A m \in rows : m.family # f
    /\ \A r \in Resident : familyOf[r] # f

\* With one call at a time, a family card has one head.
OneHead == \A m, n \in rows : m.isHead /\ n.isHead /\ m.family = n.family => m = n

\* However calls overlap, whoever is the head among the members of a family and
\* leaves it is no longer the head on its card either.
HeadLeavesOffice ==
  [][\A m \in rows : m.isHead /\ m.id \notin Ids(rows') => head'[m.family] # m.resident]_vars

\* However calls overlap, a resident who is taken off a family card keeps the
\* family that they have moved to: only a deletion, or the request to unlink
\* the resident, leaves them without the family they had.
MovedStays ==
  [][\A r \in Resident : familyOf[r] # NoFamily /\ familyOf'[r] = NoFamily =>
       \/ resident'[r] = "deleted"
       \/ family'[familyOf[r]] = "deleted"
       \/ \E c \in Calls : /\ call[c] # Idle /\ call'[c] = Idle
                           /\ call[c].resident = r
                           /\ \/ call[c].op = "updateResident"
                              \/ call[c].family = familyOf[r]]_vars
=============================================================================
