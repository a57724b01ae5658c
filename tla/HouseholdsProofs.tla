--------------------------- MODULE HouseholdsProofs ---------------------------
(***************************************************************************)
(* What is proved of Households, for every set of families, residents and  *)
(* calls.                                                                  *)
(***************************************************************************)
EXTENDS Households, TLAPS

FamilyOps   == {"createFamily", "updateFamily", "removeFamily", "addMember", "removeMember"}
ResidentOps == {"updateFamily", "addMember", "removeMember", "createResident",
                "updateResident", "removeResident", "restoreResident"}

\* What each operation works on.
InputOK(w) == /\ w.op \in FamilyOps => w.family \in Family
              /\ w.op \in ResidentOps => w.resident \in Resident

InputInv == \A c \in Calls : call[c] # Idle => InputOK(call[c])
TypeInv  == TypeOK /\ InputInv

LEMMA ActiveNotIdle == ASSUME NEW w \in Active PROVE w # Idle /\ w.op # "none"
BY DEF Active, Idle, Op

LEMMA ReadyActive ==
  ASSUME TypeInv, NEW c \in Calls, NEW op \in Op, call[c].op = op
  PROVE  call[c] \in Active /\ call[c] # Idle /\ InputOK(call[c])
BY ActiveNotIdle DEF TypeInv, InputInv, TypeOK, Idle, Op

LEMMA FewChecks == ASSUME NEW w PROVE Len(Checks(w)) \in 0 .. 4
<1>1. CASE w.op = "createFamily"   BY <1>1 DEF Checks
<1>2. CASE w.op = "updateFamily"   BY <1>2 DEF Checks
<1>3. CASE w.op = "removeFamily"   BY <1>3 DEF Checks
<1>4. CASE w.op = "addMember"      BY <1>4 DEF Checks
<1>5. CASE w.op = "createResident" BY <1>5 DEF Checks
<1>6. CASE w.op = "updateResident" BY <1>6 DEF Checks
<1>7. CASE w.op = "removeResident" BY <1>7 DEF Checks
<1>8. CASE w.op \notin {"createFamily", "updateFamily", "removeFamily", "addMember",
                        "createResident", "updateResident", "removeResident"}
  BY <1>8 DEF Checks
<1> QED BY <1>1, <1>2, <1>3, <1>4, <1>5, <1>6, <1>7, <1>8

\* A call that begins has a typed input.
LEMMA BeginTyped ==
  ASSUME HouseholdsAssumption, TypeInv, NEW c \in Calls, NEW op \in Op,
         NEW f \in Family \cup {NoFamily}, NEW r \in Resident \cup {NoResident},
         NEW h \in BOOLEAN, NEW k \in 0 .. MaxRows,
         op \in FamilyOps => f \in Family, op \in ResidentOps => r \in Resident,
         Begin(c, op, f, r, h, k)
  PROVE  TypeInv'
<1> DEFINE w == [op |-> op, family |-> f, resident |-> r, isHead |-> h, row |-> k,
                 passed |-> 0, open |-> FALSE, locked |-> {}]
<1>1. w \in Active /\ InputOK(w)
  BY DEF Active, InputOK
<1>2. call' = [call EXCEPT ![c] = w] /\ UNCHANGED rowVars
  BY DEF Begin
<1> HIDE DEF w
<1>3. call' \in [Calls -> Active \cup {Idle}]
  BY <1>1, <1>2 DEF TypeInv, TypeOK
<1>4. TypeOK'
  BY <1>2, <1>3 DEF TypeInv, TypeOK, rowVars
<1>5. InputInv'
  BY <1>1, <1>2 DEF TypeInv, TypeOK, InputInv
<1> QED BY <1>4, <1>5 DEF TypeInv

\* A call that ends.
LEMMA DoneTyped ==
  ASSUME TypeInv, NEW c \in Calls, Done(c)
  PROVE  call' \in [Calls -> Active \cup {Idle}] /\ InputInv'
BY DEF Done, TypeInv, TypeOK, InputInv

LEMMA RequestTyped ==
  ASSUME HouseholdsAssumption, TypeInv, NEW c \in Calls, Request(c)
  PROVE  TypeInv'
<1> 0 \in 0 .. MaxRows
  BY DEF HouseholdsAssumption
<1>1. CASE \E f \in Family, r \in Resident \cup {NoResident} : Begin(c, "createFamily", f, r, FALSE, 0)
  <2> PICK f \in Family, r \in Resident \cup {NoResident} : Begin(c, "createFamily", f, r, FALSE, 0)
    BY <1>1
  <2> QED BY BeginTyped DEF Op, FamilyOps, ResidentOps
<1>2. CASE \E f \in Family, r \in Resident : Begin(c, "updateFamily", f, r, FALSE, 0)
  <2> PICK f \in Family, r \in Resident : Begin(c, "updateFamily", f, r, FALSE, 0)
    BY <1>2
  <2> QED BY BeginTyped DEF Op, FamilyOps, ResidentOps
<1>3. CASE \E f \in Family : Begin(c, "removeFamily", f, NoResident, FALSE, 0)
  <2> PICK f \in Family : Begin(c, "removeFamily", f, NoResident, FALSE, 0)
    BY <1>3
  <2> QED BY BeginTyped DEF Op, FamilyOps, ResidentOps
<1>4. CASE \E f \in Family, r \in Resident, h \in BOOLEAN : Begin(c, "addMember", f, r, h, 0)
  <2> PICK f \in Family, r \in Resident, h \in BOOLEAN : Begin(c, "addMember", f, r, h, 0)
    BY <1>4
  <2> QED BY BeginTyped DEF Op, FamilyOps, ResidentOps
<1>5. CASE \E r \in Resident, f \in Family \cup {NoFamily} : Begin(c, "createResident", f, r, FALSE, 0)
  <2> PICK r \in Resident, f \in Family \cup {NoFamily} : Begin(c, "createResident", f, r, FALSE, 0)
    BY <1>5
  <2> QED BY BeginTyped DEF Op, FamilyOps, ResidentOps
<1>6. CASE \E r \in Resident, f \in Family \cup {NoFamily} : Begin(c, "updateResident", f, r, FALSE, 0)
  <2> PICK r \in Resident, f \in Family \cup {NoFamily} : Begin(c, "updateResident", f, r, FALSE, 0)
    BY <1>6
  <2> QED BY BeginTyped DEF Op, FamilyOps, ResidentOps
<1>7. CASE \E r \in Resident : Begin(c, "removeResident", NoFamily, r, FALSE, 0)
  <2> PICK r \in Resident : Begin(c, "removeResident", NoFamily, r, FALSE, 0)
    BY <1>7
  <2> QED BY BeginTyped DEF Op, FamilyOps, ResidentOps
<1>8. CASE \E r \in Resident : BeginImport(c, r)
  <2> PICK r \in Resident : Begin(c, "restoreResident", NoFamily, r, FALSE, 0)
    BY <1>8 DEF BeginImport
  <2> QED BY BeginTyped DEF Op, FamilyOps, ResidentOps
<1>9. CASE BeginRemoveMember(c)
  <2> PICK m \in rows : Begin(c, "removeMember", m.family, m.resident, m.isHead, m.id)
    BY <1>9 DEF BeginRemoveMember
  <2> m \in Row
    BY DEF TypeInv, TypeOK
  <2>1. /\ m.family \in Family /\ m.resident \in Resident
        /\ m.isHead \in BOOLEAN /\ m.id \in 0 .. MaxRows
    BY DEF Row, HouseholdsAssumption
  <2> QED BY <2>1, BeginTyped DEF Op, FamilyOps, ResidentOps
<1> QED BY <1>1, <1>2, <1>3, <1>4, <1>5, <1>6, <1>7, <1>8, <1>9 DEF Request

LEMMA CheckTyped ==
  ASSUME TypeInv, NEW c \in Calls, Check(c)
  PROVE  TypeInv'
<1> DEFINE w == call[c]
           v == [w EXCEPT !.passed = @ + 1]
<1>1. w \in Active /\ InputOK(w)
  BY DEF Check, TypeInv, TypeOK, InputInv
<1>2. w.passed + 1 \in 0 .. 4
  BY <1>1, FewChecks DEF Check, Active
<1>3. call' = [call EXCEPT ![c] = v] /\ UNCHANGED rowVars
  BY DEF Check
<1>4. v \in Active /\ v.op = w.op /\ v.family = w.family /\ v.resident = w.resident
  BY <1>1, <1>2 DEF Active
<1>5. InputOK(v)
  BY <1>1, <1>4 DEF InputOK
<1> HIDE DEF v
<1>6. TypeOK'
  BY <1>3, <1>4 DEF TypeInv, TypeOK, rowVars
<1>7. InputInv'
  BY <1>3, <1>5 DEF TypeInv, TypeOK, InputInv
<1> QED BY <1>6, <1>7 DEF TypeInv

LEMMA RowIds ==
  ASSUME TypeInv, NEW S, S \subseteq rows
  PROVE  Ids(S) \subseteq 1 .. MaxRows
BY DEF TypeInv, TypeOK, Ids, Row

LEMMA OpenTyped ==
  ASSUME TypeInv, NEW c \in Calls, OpenTransaction(c)
  PROVE  TypeInv'
<1> DEFINE w == call[c]
           v == [w EXCEPT !.open = TRUE, !.locked = Ids(Touched(w))]
<1>1. w \in Active /\ InputOK(w)
  BY ReadyActive DEF OpenTransaction, Ready, Op
<1>2. Ids(Touched(w)) \subseteq 1 .. MaxRows
  BY RowIds DEF Touched
<1>3. call' = [call EXCEPT ![c] = v] /\ UNCHANGED rowVars
  BY DEF OpenTransaction
<1>4. v \in Active /\ v.op = w.op /\ v.family = w.family /\ v.resident = w.resident
  BY <1>1, <1>2 DEF Active
<1>5. InputOK(v)
  BY <1>1, <1>4 DEF InputOK
<1> HIDE DEF v
<1>6. TypeOK'
  BY <1>3, <1>4 DEF TypeInv, TypeOK, rowVars
<1>7. InputInv'
  BY <1>3, <1>5 DEF TypeInv, TypeOK, InputInv
<1> QED BY <1>6, <1>7 DEF TypeInv

\* The member rows after addMember.
Demoted(m, w) == [m EXCEPT !.isHead = @ /\ m.id \notin w.locked]

LEMMA DemotedRow ==
  ASSUME NEW m \in Row, NEW w
  PROVE  /\ Demoted(m, w) \in Row
         /\ Demoted(m, w).id = m.id /\ Demoted(m, w).family = m.family
         /\ Demoted(m, w).resident = m.resident
         /\ Demoted(m, w).isHead => m.isHead
<1>1. m.isHead \in BOOLEAN /\ (m.isHead /\ m.id \notin w.locked) \in BOOLEAN
  BY DEF Row
<1>2. m = [id |-> m.id, family |-> m.family, resident |-> m.resident, isHead |-> m.isHead]
  BY DEF Row
<1> DEFINE b == m.isHead /\ m.id \notin w.locked
<1>3. Demoted(m, w) = [m EXCEPT !.isHead = b]
  BY DEF Demoted
<1> b \in BOOLEAN /\ (b => m.isHead)
  BY <1>1
<1> HIDE DEF b
<1>4. Demoted(m, w) = [id |-> m.id, family |-> m.family, resident |-> m.resident, isHead |-> b]
  BY <1>2, <1>3
<1> QED BY <1>4 DEF Row

LEMMA RowsAfterAdd ==
  ASSUME NEW c \in Calls, AddMember(c)
  PROVE  rows' = {Demoted(m, call[c]) : m \in rows} \cup {NewRow(call[c])}
BY DEF AddMember, Demoted

-----------------------------------------------------------------------------
LEMMA StepTyped ==
  ASSUME HouseholdsAssumption, TypeInv, [Next]_vars
  PROVE  TypeInv'
<1>1. CASE UNCHANGED vars
  BY <1>1 DEF vars, rowVars, TypeInv, TypeOK, InputInv
<1>2. ASSUME NEW c \in Calls, Request(c) PROVE TypeInv'
  BY <1>2, RequestTyped
<1>3. ASSUME NEW c \in Calls, Check(c) PROVE TypeInv'
  BY <1>3, CheckTyped
<1>4. ASSUME NEW c \in Calls, OpenTransaction(c) PROVE TypeInv'
  BY <1>4, OpenTyped
<1>5. ASSUME NEW c \in Calls, Fail(c) PROVE TypeInv'
  <2>1. call' \in [Calls -> Active \cup {Idle}] /\ InputInv'
    BY <1>5, DoneTyped DEF Fail, Done
  <2> QED BY <1>5, <2>1 DEF Fail, rowVars, TypeInv, TypeOK
<1>6. ASSUME NEW c \in Calls, CreateFamily(c) PROVE TypeInv'
  <2>1. call' \in [Calls -> Active \cup {Idle}] /\ InputInv'
    BY <1>6, DoneTyped DEF CreateFamily
  <2>2. call[c] \in Active
    BY <1>6, ReadyActive DEF CreateFamily, Ready, Op
  <2>3. head' \in [Family -> Resident \cup {NoResident}]
    BY <1>6, <2>2 DEF CreateFamily, TypeInv, TypeOK, Active
  <2>4. family' \in [Family -> State]
    BY <1>6 DEF CreateFamily, TypeInv, TypeOK, State
  <2> QED BY <1>6, <2>1, <2>3, <2>4 DEF CreateFamily, TypeInv, TypeOK
<1>7. ASSUME NEW c \in Calls, UpdateFamily(c) PROVE TypeInv'
  <2>1. call' \in [Calls -> Active \cup {Idle}] /\ InputInv'
    BY <1>7, DoneTyped DEF UpdateFamily
  <2>2. call[c] \in Active
    BY <1>7, ReadyActive DEF UpdateFamily, Ready, Op
  <2>3. head' \in [Family -> Resident \cup {NoResident}]
    BY <1>7, <2>2 DEF UpdateFamily, TypeInv, TypeOK, Active
  <2> QED BY <1>7, <2>1, <2>3 DEF UpdateFamily, TypeInv, TypeOK
<1>8. ASSUME NEW c \in Calls, RemoveFamily(c) PROVE TypeInv'
  <2>1. call' \in [Calls -> Active \cup {Idle}] /\ InputInv'
    BY <1>8, DoneTyped DEF RemoveFamily
  <2>2. familyOf' \in [Resident -> Family \cup {NoFamily}]
    BY <1>8 DEF RemoveFamily, Detached, TypeInv, TypeOK
  <2>3. /\ head' \in [Family -> Resident \cup {NoResident}]
        /\ family' \in [Family -> State] /\ rows' \subseteq Row
    BY <1>8 DEF RemoveFamily, TypeInv, TypeOK, State
  <2> QED BY <1>8, <2>1, <2>2, <2>3 DEF RemoveFamily, TypeInv, TypeOK
<1>9. ASSUME NEW c \in Calls, AddMember(c) PROVE TypeInv'
  <2>1. call' \in [Calls -> Active \cup {Idle}] /\ InputInv'
    BY <1>9, DoneTyped DEF AddMember
  <2>2. call[c] \in Active /\ call[c].family \in Family /\ call[c].resident \in Resident
    BY <1>9, ReadyActive DEF AddMember, Ready, Op, InputOK, FamilyOps, ResidentOps
  <2>3. made' \in 0 .. MaxRows /\ made + 1 \in 1 .. MaxRows
    BY <1>9 DEF AddMember, TypeInv, TypeOK, HouseholdsAssumption
  <2>4. NewRow(call[c]) \in Row
    BY <2>2, <2>3 DEF NewRow, Row, Active
  <2>5. \A m \in rows : Demoted(m, call[c]) \in Row
    BY DemotedRow DEF TypeInv, TypeOK
  <2>6. rows' \subseteq Row
    BY <1>9, <2>4, <2>5, RowsAfterAdd
  <2>7. head' \in [Family -> Resident \cup {NoResident}]
    BY <1>9, <2>2 DEF AddMember, TypeInv, TypeOK
  <2>8. familyOf' \in [Resident -> Family \cup {NoFamily}]
    BY <1>9, <2>2 DEF AddMember, TypeInv, TypeOK
  <2> QED BY <1>9, <2>1, <2>3, <2>6, <2>7, <2>8 DEF AddMember, TypeInv, TypeOK
<1>10. ASSUME NEW c \in Calls, RemoveMember(c) PROVE TypeInv'
  <2>1. call' \in [Calls -> Active \cup {Idle}] /\ InputInv'
    BY <1>10, DoneTyped DEF RemoveMember
  <2>2. head' \in [Family -> Resident \cup {NoResident}]
    BY <1>10 DEF RemoveMember, HeadAfter, TypeInv, TypeOK
  <2>3. familyOf' \in [Resident -> Family \cup {NoFamily}]
    BY <1>10 DEF RemoveMember, Leaves, TypeInv, TypeOK
  <2> QED BY <1>10, <2>1, <2>2, <2>3 DEF RemoveMember, TypeInv, TypeOK
<1>11. ASSUME NEW c \in Calls, CreateResident(c) PROVE TypeInv'
  <2>1. call' \in [Calls -> Active \cup {Idle}] /\ InputInv'
    BY <1>11, DoneTyped DEF CreateResident
  <2>2. call[c] \in Active
    BY <1>11, ReadyActive DEF CreateResident, Ready, Op
  <2>3. resident' \in [Resident -> State] /\ familyOf' \in [Resident -> Family \cup {NoFamily}]
    BY <1>11, <2>2 DEF CreateResident, TypeInv, TypeOK, Active, State
  <2> QED BY <1>11, <2>1, <2>3 DEF CreateResident, TypeInv, TypeOK
<1>12. ASSUME NEW c \in Calls, UpdateResident(c) PROVE TypeInv'
  <2>1. call' \in [Calls -> Active \cup {Idle}] /\ InputInv'
    BY <1>12, DoneTyped DEF UpdateResident
  <2>2. call[c] \in Active
    BY <1>12, ReadyActive DEF UpdateResident, Ready, Op
  <2>3. familyOf' \in [Resident -> Family \cup {NoFamily}]
    BY <1>12, <2>2 DEF UpdateResident, TypeInv, TypeOK, Active
  <2> QED BY <1>12, <2>1, <2>3 DEF UpdateResident, TypeInv, TypeOK
<1>13. ASSUME NEW c \in Calls, RemoveResident(c) PROVE TypeInv'
  <2>1. call' \in [Calls -> Active \cup {Idle}] /\ InputInv'
    BY <1>13, DoneTyped DEF RemoveResident
  <2>2. resident' \in [Resident -> State] /\ familyOf' \in [Resident -> Family \cup {NoFamily}]
    BY <1>13 DEF RemoveResident, TypeInv, TypeOK, State
  <2>3. head' \in [Family -> Resident \cup {NoResident}] /\ rows' \subseteq Row
    BY <1>13 DEF RemoveResident, Unheaded, TypeInv, TypeOK
  <2> QED BY <1>13, <2>1, <2>2, <2>3 DEF RemoveResident, TypeInv, TypeOK
<1>14. ASSUME NEW c \in Calls, RestoreResident(c) PROVE TypeInv'
  <2>1. call' \in [Calls -> Active \cup {Idle}] /\ InputInv'
    BY <1>14, DoneTyped DEF RestoreResident
  <2>2. resident' \in [Resident -> State]
    BY <1>14 DEF RestoreResident, TypeInv, TypeOK, State
  <2> QED BY <1>14, <2>1, <2>2 DEF RestoreResident, TypeInv, TypeOK
<1> QED BY <1>1, <1>2, <1>3, <1>4, <1>5, <1>6, <1>7, <1>8, <1>9, <1>10, <1>11, <1>12, <1>13, <1>14
         DEF Next

\* Type correctness: whatever overlaps, the links point at rows of their table.
THEOREM TypeCorrect == Spec => []TypeOK
<1>1. Init => TypeInv
  BY HouseholdsAssumption DEF Init, TypeInv, TypeOK, InputInv, State, HouseholdsAssumption
<1>2. TypeInv /\ [Next]_vars => TypeInv'
  BY HouseholdsAssumption, StepTyped
<1>3. TypeInv => TypeOK
  BY DEF TypeInv
<1> QED BY <1>1, <1>2, <1>3, PTL DEF Spec

-----------------------------------------------------------------------------
(* With one call at a time, what a call has checked still holds when it      *)
(* writes, and an open deletion of a family has locked all of its members.   *)

Covers(w) == w.op = "removeFamily" /\ w.open =>
               \A m \in rows : m.family = w.family => m.id \in w.locked

Alone(c) == \A j \in Calls : j # c => call[j] = Idle

FreshInv == Serialized => \A c \in Calls : call[c] # Idle =>
              /\ Alone(c)
              /\ \A i \in 1 .. call[c].passed : Checks(call[c])[i]
              /\ Covers(call[c])

LEMMA ChecksSame ==
  ASSUME NEW c \in Calls, UNCHANGED rowVars,
         call'[c].op = call[c].op, call'[c].family = call[c].family,
         call'[c].resident = call[c].resident, call'[c].isHead = call[c].isHead
  PROVE  Checks(call[c])' = Checks(call[c])
<1>1. UNCHANGED <<resident, familyOf, family, head, rows, made>>
  BY DEF rowVars
<1>2. /\ FamilyLive(call[c])' = FamilyLive(call[c])
      /\ ResidentLive(call[c])' = ResidentLive(call[c])
      /\ NotMember(call[c])' = NotMember(call[c])
      /\ NoOtherHead(call[c])' = NoOtherHead(call[c])
  BY <1>1 DEF FamilyLive, ResidentLive, NotMember, NoOtherHead
<1> QED BY <1>1, <1>2 DEF Checks

\* A step that ends a call leaves no call behind.
LEMMA DoneFresh ==
  ASSUME TypeInv, FreshInv, NEW c \in Calls, call[c] # Idle, Done(c)
  PROVE  FreshInv'
<1> SUFFICES ASSUME Serialized, NEW j \in Calls PROVE call'[j] = Idle
  BY DEF FreshInv
<1> QED BY DEF FreshInv, Alone, Done, TypeInv, TypeOK

LEMMA BeginFresh ==
  ASSUME TypeInv, FreshInv, NEW c \in Calls, NEW op \in Op,
         NEW f, NEW r, NEW h, NEW k, Begin(c, op, f, r, h, k)
  PROVE  FreshInv'
<1> SUFFICES ASSUME Serialized, NEW j \in Calls, call'[j] # Idle
             PROVE  /\ Alone(j)'
                    /\ \A i \in 1 .. call'[j].passed : Checks(call[j])'[i]
                    /\ Covers(call[j])'
  BY DEF FreshInv
<1>1. \A i \in Calls : call[i] = Idle
  BY DEF Begin
<1>2. j = c /\ Alone(j)'
  BY <1>1 DEF Begin, Alone, TypeInv, TypeOK
<1>3. call'[c].passed = 0 /\ call'[c].open = FALSE
  BY DEF Begin, TypeInv, TypeOK
<1>4. Covers(call[j])'
  BY <1>2, <1>3 DEF Covers
<1> QED BY <1>2, <1>3, <1>4

LEMMA RequestFresh ==
  ASSUME TypeInv, FreshInv, NEW c \in Calls, Request(c)
  PROVE  FreshInv'
<1>1. PICK op \in Op : \E f, r, h, k : Begin(c, op, f, r, h, k)
  BY DEF Request, BeginImport, BeginRemoveMember, Op
<1> QED BY <1>1, BeginFresh

LEMMA CheckFresh ==
  ASSUME TypeInv, FreshInv, NEW c \in Calls, Check(c)
  PROVE  FreshInv'
<1> SUFFICES ASSUME Serialized, NEW j \in Calls, call'[j] # Idle
             PROVE  /\ Alone(j)'
                    /\ \A i \in 1 .. call'[j].passed : Checks(call[j])'[i]
                    /\ Covers(call[j])'
  BY DEF FreshInv
<1>1. call[c] # Idle /\ call[c] \in Active
  BY DEF Check, TypeInv, TypeOK
<1>2. Alone(c)
  BY <1>1 DEF FreshInv
<1>3. j = c /\ Alone(j)'
  BY <1>2 DEF Check, Alone, TypeInv, TypeOK
<1>4. call'[c] = [call[c] EXCEPT !.passed = @ + 1]
  BY DEF Check, TypeInv, TypeOK
<1>5. /\ call'[c].op = call[c].op /\ call'[c].family = call[c].family
      /\ call'[c].resident = call[c].resident /\ call'[c].isHead = call[c].isHead
      /\ call'[c].open = call[c].open /\ call'[c].locked = call[c].locked
      /\ call'[c].passed = call[c].passed + 1 /\ call[c].passed \in 0 .. 4
  BY <1>1, <1>4 DEF Active
<1>6. UNCHANGED rowVars
  BY DEF Check
<1>7. Checks(call[c])' = Checks(call[c])
  BY <1>5, <1>6, ChecksSame
<1>8. Checks(call[c])[call[c].passed + 1]
  BY DEF Check
<1>9. \A i \in 1 .. call[c].passed : Checks(call[c])[i]
  BY <1>1 DEF FreshInv
<1>10. \A i \in 1 .. call'[c].passed : Checks(call[c])[i]
  BY <1>5, <1>8, <1>9
<1>11. Covers(call[c])'
  BY <1>1, <1>5, <1>6 DEF FreshInv, Covers, rowVars
<1> QED BY <1>3, <1>7, <1>10, <1>11

LEMMA OpenFresh ==
  ASSUME TypeInv, FreshInv, NEW c \in Calls, OpenTransaction(c)
  PROVE  FreshInv'
<1> SUFFICES ASSUME Serialized, NEW j \in Calls, call'[j] # Idle
             PROVE  /\ Alone(j)'
                    /\ \A i \in 1 .. call'[j].passed : Checks(call[j])'[i]
                    /\ Covers(call[j])'
  BY DEF FreshInv
<1>1. call[c] # Idle /\ call[c] \in Active
  BY ReadyActive DEF OpenTransaction, Ready, Op
<1>2. Alone(c)
  BY <1>1 DEF FreshInv
<1>3. j = c /\ Alone(j)'
  BY <1>2 DEF OpenTransaction, Alone, TypeInv, TypeOK
<1>4. call'[c] = [call[c] EXCEPT !.open = TRUE, !.locked = Ids(Touched(call[c]))]
  BY DEF OpenTransaction, TypeInv, TypeOK
<1>5. /\ call'[c].op = call[c].op /\ call'[c].family = call[c].family
      /\ call'[c].resident = call[c].resident /\ call'[c].isHead = call[c].isHead
      /\ call'[c].locked = Ids(Touched(call[c])) /\ call'[c].passed = call[c].passed
  BY <1>1, <1>4 DEF Active
<1>6. UNCHANGED rowVars
  BY DEF OpenTransaction
<1>7. Checks(call[c])' = Checks(call[c])
  BY <1>5, <1>6, ChecksSame
<1>8. Covers(call[c])'
  BY <1>5, <1>6 DEF Covers, rowVars, Ids, Touched
<1> QED BY <1>1, <1>3, <1>5, <1>7, <1>8 DEF FreshInv

LEMMA StepFresh ==
  ASSUME TypeInv, FreshInv, [Next]_vars
  PROVE  FreshInv'
<1>1. CASE UNCHANGED vars
  <2>1. \A c \in Calls : Checks(call[c])' = Checks(call[c])
    BY <1>1, ChecksSame DEF vars
  <2> QED BY <1>1, <2>1 DEF vars, rowVars, FreshInv, Alone, Covers
<1>2. ASSUME NEW c \in Calls, Request(c) PROVE FreshInv'
  BY <1>2, RequestFresh
<1>3. ASSUME NEW c \in Calls, Check(c) PROVE FreshInv'
  BY <1>3, CheckFresh
<1>4. ASSUME NEW c \in Calls, OpenTransaction(c) PROVE FreshInv'
  BY <1>4, OpenFresh
<1>5. ASSUME NEW c \in Calls, Fail(c) PROVE FreshInv'
  BY <1>5, DoneFresh DEF Fail, Done
<1>6. ASSUME NEW c \in Calls,
             \/ CreateFamily(c) \/ UpdateFamily(c) \/ RemoveFamily(c) \/ AddMember(c)
             \/ RemoveMember(c) \/ CreateResident(c) \/ UpdateResident(c)
             \/ RemoveResident(c) \/ RestoreResident(c)
      PROVE  FreshInv'
  <2>1. \E op \in Op : call[c].op = op
    BY <1>6 DEF CreateFamily, UpdateFamily, RemoveFamily, AddMember, RemoveMember,
                CreateResident, UpdateResident, RemoveResident, RestoreResident, Ready, Op
  <2>2. Done(c)
    BY <1>6 DEF CreateFamily, UpdateFamily, RemoveFamily, AddMember, RemoveMember,
                CreateResident, UpdateResident, RemoveResident, RestoreResident
  <2> QED BY <2>1, <2>2, ReadyActive, DoneFresh
<1> QED BY <1>1, <1>2, <1>3, <1>4, <1>5, <1>6 DEF Next

-----------------------------------------------------------------------------
(* What a call that is ready to write has checked, with one call at a time.  *)

LEMMA Checked ==
  ASSUME TypeInv, FreshInv, Serialized, NEW c \in Calls, NEW op \in Op, Ready(c, op)
  PROVE  /\ \A i \in 1 .. Len(Checks(call[c])) : Checks(call[c])[i]
         /\ Covers(call[c])
<1>1. call[c] # Idle
  BY ReadyActive DEF Ready
<1> QED BY <1>1 DEF FreshInv, Ready

LEMMA CreateFamilyChecked ==
  ASSUME TypeInv, FreshInv, Serialized, NEW c \in Calls, Ready(c, "createFamily")
  PROVE  ResidentLive(call[c])
<1>1. Checks(call[c]) = <<family[call[c].family] = "none", ResidentLive(call[c])>>
  BY DEF Checks, Ready
<1>2. \A i \in 1 .. Len(Checks(call[c])) : Checks(call[c])[i]
  BY Checked DEF Op
<1>3. Checks(call[c])[2]
  BY <1>1, <1>2
<1> QED BY <1>1, <1>3

LEMMA UpdateFamilyChecked ==
  ASSUME TypeInv, FreshInv, Serialized, NEW c \in Calls, Ready(c, "updateFamily")
  PROVE  FamilyLive(call[c]) /\ ResidentLive(call[c])
<1>1. Checks(call[c]) = <<FamilyLive(call[c]), ResidentLive(call[c])>>
  BY DEF Checks, Ready
<1>2. \A i \in 1 .. Len(Checks(call[c])) : Checks(call[c])[i]
  BY Checked DEF Op
<1>3. Checks(call[c])[1] /\ Checks(call[c])[2]
  BY <1>1, <1>2
<1> QED BY <1>1, <1>3

LEMMA AddMemberChecked ==
  ASSUME TypeInv, FreshInv, Serialized, NEW c \in Calls, Ready(c, "addMember")
  PROVE  FamilyLive(call[c]) /\ ResidentLive(call[c]) /\ NoOtherHead(call[c])
<1>1. Checks(call[c]) = <<FamilyLive(call[c]), NotMember(call[c]),
                          ResidentLive(call[c]), NoOtherHead(call[c])>>
  BY DEF Checks, Ready
<1>2. \A i \in 1 .. Len(Checks(call[c])) : Checks(call[c])[i]
  BY Checked DEF Op
<1>3. Checks(call[c])[1] /\ Checks(call[c])[3] /\ Checks(call[c])[4]
  BY <1>1, <1>2
<1> QED BY <1>1, <1>3

LEMMA CreateResidentChecked ==
  ASSUME TypeInv, FreshInv, Serialized, NEW c \in Calls, Ready(c, "createResident")
  PROVE  FamilyLive(call[c])
<1>1. Checks(call[c]) = <<resident[call[c].resident] = "none", FamilyLive(call[c])>>
  BY DEF Checks, Ready
<1>2. \A i \in 1 .. Len(Checks(call[c])) : Checks(call[c])[i]
  BY Checked DEF Op
<1>3. Checks(call[c])[2]
  BY <1>1, <1>2
<1> QED BY <1>1, <1>3

LEMMA UpdateResidentChecked ==
  ASSUME TypeInv, FreshInv, Serialized, NEW c \in Calls, Ready(c, "updateResident")
  PROVE  FamilyLive(call[c]) /\ ResidentLive(call[c])
<1>1. Checks(call[c]) = <<ResidentLive(call[c]), FamilyLive(call[c])>>
  BY DEF Checks, Ready
<1>2. \A i \in 1 .. Len(Checks(call[c])) : Checks(call[c])[i]
  BY Checked DEF Op
<1>3. Checks(call[c])[1] /\ Checks(call[c])[2]
  BY <1>1, <1>2
<1> QED BY <1>1, <1>3

LEMMA RemoveResidentChecked ==
  ASSUME TypeInv, FreshInv, Serialized, NEW c \in Calls, Ready(c, "removeResident")
  PROVE  ResidentLive(call[c])
<1>1. Checks(call[c]) = <<ResidentLive(call[c])>>
  BY DEF Checks, Ready
<1>2. \A i \in 1 .. Len(Checks(call[c])) : Checks(call[c])[i]
  BY Checked DEF Op
<1>3. Checks(call[c])[1]
  BY <1>1, <1>2
<1> QED BY <1>1, <1>3

-----------------------------------------------------------------------------
Tidy == DeletedDetached /\ DeletedFamilyEmpty /\ OneHead

TidyInv == Serialized => Tidy

LEMMA StepTidy ==
  ASSUME HouseholdsAssumption, TypeInv, FreshInv, TidyInv, [Next]_vars
  PROVE  TidyInv'
<1> SUFFICES ASSUME Serialized PROVE Tidy'
  BY DEF TidyInv
<1> Tidy
  BY DEF TidyInv
<1> USE DEF Tidy
<1>1. CASE UNCHANGED rowVars
  BY <1>1 DEF rowVars, DeletedDetached, DeletedFamilyEmpty, OneHead
<1>2. ASSUME NEW c \in Calls, CreateFamily(c) PROVE Tidy'
  <2>1. ResidentLive(call[c]) /\ call[c].family \in Family
    BY <1>2, CreateFamilyChecked, ReadyActive
       DEF CreateFamily, Ready, Op, InputOK, FamilyOps
  <2>2. call[c].resident = NoResident \/ resident[call[c].resident] = "live"
    BY <2>1 DEF ResidentLive
  <2>3. DeletedDetached'
    BY <1>2, <2>1, <2>2, HouseholdsAssumption
       DEF CreateFamily, DeletedDetached, HouseholdsAssumption, TypeInv, TypeOK
  <2>4. DeletedFamilyEmpty'
    BY <1>2, <2>1 DEF CreateFamily, DeletedFamilyEmpty, TypeInv, TypeOK
  <2> QED BY <1>2, <2>3, <2>4 DEF CreateFamily, OneHead
<1>3. ASSUME NEW c \in Calls, UpdateFamily(c) PROVE Tidy'
  <2>1. /\ ResidentLive(call[c]) /\ FamilyLive(call[c])
        /\ call[c].family \in Family /\ call[c].resident \in Resident
    BY <1>3, UpdateFamilyChecked, ReadyActive
       DEF UpdateFamily, Ready, Op, InputOK, FamilyOps, ResidentOps
  <2>2. resident[call[c].resident] = "live" /\ family[call[c].family] = "live"
    BY <2>1, HouseholdsAssumption DEF ResidentLive, FamilyLive, HouseholdsAssumption
  <2>3. DeletedDetached'
    BY <1>3, <2>1, <2>2 DEF UpdateFamily, DeletedDetached, TypeInv, TypeOK
  <2>4. DeletedFamilyEmpty'
    BY <1>3, <2>1, <2>2 DEF UpdateFamily, DeletedFamilyEmpty, TypeInv, TypeOK
  <2> QED BY <1>3, <2>3, <2>4 DEF UpdateFamily, OneHead
<1>4. ASSUME NEW c \in Calls, RemoveFamily(c) PROVE Tidy'
  <2>1. Covers(call[c]) /\ call[c].family \in Family
    BY <1>4, Checked, ReadyActive DEF RemoveFamily, Ready, Op, InputOK, FamilyOps
  <2>2. rows' \subseteq rows /\ \A m \in rows' : m.family # call[c].family
    BY <1>4, <2>1 DEF RemoveFamily, Ready, Covers
  <2>3. DeletedDetached'
    BY <1>4, <2>1, <2>2, HouseholdsAssumption
       DEF RemoveFamily, Detached, DeletedDetached, HouseholdsAssumption, TypeInv, TypeOK
  <2>4. DeletedFamilyEmpty'
    BY <1>4, <2>1, <2>2, HouseholdsAssumption
       DEF RemoveFamily, Detached, DeletedFamilyEmpty, HouseholdsAssumption, TypeInv, TypeOK
  <2> QED BY <2>2, <2>3, <2>4 DEF OneHead
<1>5. ASSUME NEW c \in Calls, AddMember(c) PROVE Tidy'
  <2> DEFINE w == call[c]
  <2>1. /\ FamilyLive(w) /\ ResidentLive(w) /\ NoOtherHead(w)
        /\ w.family \in Family /\ w.resident \in Resident
    BY <1>5, AddMemberChecked, ReadyActive
       DEF AddMember, Ready, Op, InputOK, FamilyOps, ResidentOps
  <2>2. resident[w.resident] = "live" /\ family[w.family] = "live"
    BY <2>1, HouseholdsAssumption DEF ResidentLive, FamilyLive, HouseholdsAssumption
  <2>3. /\ resident' = resident /\ family' = family
        /\ familyOf' = [familyOf EXCEPT ![w.resident] = w.family]
        /\ head' = IF w.isHead THEN [head EXCEPT ![w.family] = w.resident] ELSE head
    BY <1>5 DEF AddMember
  <2>4. \A n \in rows' : \/ n = NewRow(w)
                         \/ \E m \in rows : n = Demoted(m, w)
    BY <1>5, RowsAfterAdd
  <2>5. \A m \in rows : /\ Demoted(m, w).family = m.family /\ Demoted(m, w).resident = m.resident
                        /\ Demoted(m, w).isHead => m.isHead
    BY DemotedRow DEF TypeInv, TypeOK
  <2>6. /\ NewRow(w).family = w.family /\ NewRow(w).resident = w.resident
        /\ NewRow(w).isHead = w.isHead
    BY DEF NewRow
  <2> HIDE DEF w
  <2>7. DeletedDetached'
    <3> SUFFICES ASSUME NEW r \in Resident, resident'[r] = "deleted"
                 PROVE  /\ familyOf'[r] = NoFamily
                        /\ \A m \in rows' : m.resident # r
                        /\ \A f \in Family : head'[f] # r
      BY DEF DeletedDetached
    <3>1. r # w.resident /\ resident[r] = "deleted"
      BY <2>2, <2>3
    <3>2. /\ familyOf[r] = NoFamily /\ \A m \in rows : m.resident # r
          /\ \A f \in Family : head[f] # r
      BY <3>1 DEF DeletedDetached
    <3>3. familyOf'[r] = NoFamily
      BY <2>3, <3>1, <3>2 DEF TypeInv, TypeOK
    <3>4. \A m \in rows' : m.resident # r
      BY <2>4, <2>5, <2>6, <3>1, <3>2
    <3>5. \A f \in Family : head'[f] # r
      BY <2>3, <3>1, <3>2 DEF TypeInv, TypeOK
    <3> QED BY <3>3, <3>4, <3>5
  <2>8. DeletedFamilyEmpty'
    <3> SUFFICES ASSUME NEW f \in Family, family'[f] # "live"
                 PROVE  /\ head'[f] = NoResident
                        /\ \A m \in rows' : m.family # f
                        /\ \A r \in Resident : familyOf'[r] # f
      BY DEF DeletedFamilyEmpty
    <3>1. f # w.family /\ family[f] # "live"
      BY <2>2, <2>3
    <3>2. /\ head[f] = NoResident /\ \A m \in rows : m.family # f
          /\ \A r \in Resident : familyOf[r] # f
      BY <3>1 DEF DeletedFamilyEmpty
    <3>3. head'[f] = NoResident
      BY <2>3, <3>1, <3>2 DEF TypeInv, TypeOK
    <3>4. \A m \in rows' : m.family # f
      BY <2>4, <2>5, <2>6, <3>1, <3>2
    <3>5. \A r \in Resident : familyOf'[r] # f
      BY <2>3, <3>1, <3>2 DEF TypeInv, TypeOK
    <3> QED BY <3>3, <3>4, <3>5
  <2>9. OneHead'
    <3> SUFFICES ASSUME NEW m \in rows', NEW n \in rows', m.isHead, n.isHead, m.family = n.family
                 PROVE  m = n
      BY DEF OneHead
    <3>1. CASE m = NewRow(w) /\ n = NewRow(w)
      BY <3>1
    <3>2. ASSUME NEW a \in rows, n = Demoted(a, w), m = NewRow(w) PROVE FALSE
      <4>1. w.isHead /\ a.isHead /\ a.family = w.family
        BY <2>5, <2>6, <3>2
      <4> QED BY <2>1, <4>1 DEF NoOtherHead
    <3>3. ASSUME NEW a \in rows, m = Demoted(a, w), n = NewRow(w) PROVE FALSE
      <4>1. w.isHead /\ a.isHead /\ a.family = w.family
        BY <2>5, <2>6, <3>3
      <4> QED BY <2>1, <4>1 DEF NoOtherHead
    <3>4. ASSUME NEW a \in rows, NEW b \in rows, m = Demoted(a, w), n = Demoted(b, w)
          PROVE  m = n
      <4>1. a.isHead /\ b.isHead /\ a.family = b.family
        BY <2>5, <3>4
      <4>2. a = b
        BY <4>1 DEF OneHead
      <4> QED BY <3>4, <4>2
    <3> QED BY <2>4, <3>1, <3>2, <3>3, <3>4
  <2> QED BY <2>7, <2>8, <2>9
<1>6. ASSUME NEW c \in Calls, RemoveMember(c) PROVE Tidy'
  <2>1. rows' \subseteq rows
    BY <1>6 DEF RemoveMember
  <2>2. \A r \in Resident : familyOf'[r] \in {familyOf[r], NoFamily}
    BY <1>6 DEF RemoveMember, Leaves, TypeInv, TypeOK
  <2>3. \A f \in Family : head'[f] \in {head[f], NoResident}
    BY <1>6 DEF RemoveMember, HeadAfter, TypeInv, TypeOK
  <2>4. resident' = resident /\ family' = family
    BY <1>6 DEF RemoveMember
  <2> QED BY <2>1, <2>2, <2>3, <2>4, HouseholdsAssumption
          DEF DeletedDetached, DeletedFamilyEmpty, OneHead, HouseholdsAssumption
<1>7. ASSUME NEW c \in Calls, CreateResident(c) PROVE Tidy'
  <2>1. FamilyLive(call[c]) /\ call[c].resident \in Resident
    BY <1>7, CreateResidentChecked, ReadyActive
       DEF CreateResident, Ready, Op, InputOK, ResidentOps
  <2>2. call[c].family = NoFamily \/ family[call[c].family] = "live"
    BY <2>1 DEF FamilyLive
  <2>3. DeletedDetached'
    BY <1>7, <2>1 DEF CreateResident, DeletedDetached, TypeInv, TypeOK
  <2>4. DeletedFamilyEmpty'
    BY <1>7, <2>1, <2>2, HouseholdsAssumption
       DEF CreateResident, DeletedFamilyEmpty, HouseholdsAssumption, TypeInv, TypeOK
  <2> QED BY <1>7, <2>3, <2>4 DEF CreateResident, OneHead
<1>8. ASSUME NEW c \in Calls, UpdateResident(c) PROVE Tidy'
  <2>1. FamilyLive(call[c]) /\ ResidentLive(call[c]) /\ call[c].resident \in Resident
    BY <1>8, UpdateResidentChecked, ReadyActive
       DEF UpdateResident, Ready, Op, InputOK, ResidentOps
  <2>2. call[c].family = NoFamily \/ family[call[c].family] = "live"
    BY <2>1 DEF FamilyLive
  <2>3. resident[call[c].resident] = "live"
    BY <2>1, HouseholdsAssumption DEF ResidentLive, HouseholdsAssumption
  <2>4. DeletedDetached'
    BY <1>8, <2>1, <2>3 DEF UpdateResident, DeletedDetached, TypeInv, TypeOK
  <2>5. DeletedFamilyEmpty'
    BY <1>8, <2>1, <2>2, HouseholdsAssumption
       DEF UpdateResident, DeletedFamilyEmpty, HouseholdsAssumption, TypeInv, TypeOK
  <2> QED BY <1>8, <2>4, <2>5 DEF UpdateResident, OneHead
<1>9. ASSUME NEW c \in Calls, RemoveResident(c) PROVE Tidy'
  <2> DEFINE r == call[c].resident
  <2>1. ResidentLive(call[c]) /\ r \in Resident
    BY <1>9, RemoveResidentChecked, ReadyActive
       DEF RemoveResident, Ready, Op, InputOK, ResidentOps
  <2>2. resident[r] = "live"
    BY <2>1, HouseholdsAssumption DEF ResidentLive, HouseholdsAssumption
  <2>3. /\ resident' = [resident EXCEPT ![r] = "deleted"] /\ family' = family
        /\ familyOf' = [familyOf EXCEPT ![r] = NoFamily]
        /\ rows' = {m \in rows : m.resident # r}
        /\ head' = [f \in Family |-> IF head[f] = r THEN NoResident ELSE head[f]]
    BY <1>9, <2>2 DEF RemoveResident, Unheaded
  <2> HIDE DEF r
  <2>4. DeletedDetached'
    BY <2>1, <2>3, HouseholdsAssumption
       DEF DeletedDetached, HouseholdsAssumption, TypeInv, TypeOK
  <2>5. DeletedFamilyEmpty'
    BY <2>1, <2>3, HouseholdsAssumption
       DEF DeletedFamilyEmpty, HouseholdsAssumption, TypeInv, TypeOK
  <2> QED BY <2>3, <2>4, <2>5 DEF OneHead
<1>10. ASSUME NEW c \in Calls, RestoreResident(c) PROVE Tidy'
  <2>1. \A r \in Resident : resident'[r] = "deleted" => resident[r] = "deleted"
    BY <1>10 DEF RestoreResident, TypeInv, TypeOK
  <2> QED BY <1>10, <2>1 DEF RestoreResident, DeletedDetached, DeletedFamilyEmpty, OneHead
<1>11. ASSUME NEW c \in Calls, Request(c) \/ Check(c) \/ OpenTransaction(c) \/ Fail(c)
       PROVE  UNCHANGED rowVars
  BY <1>11 DEF Request, BeginImport, BeginRemoveMember, Begin, Check, OpenTransaction, Fail
<1> QED BY <1>1, <1>2, <1>3, <1>4, <1>5, <1>6, <1>7, <1>8, <1>9, <1>10, <1>11
        DEF Next, vars

\* With one call at a time, deletions leave no link behind and a family card has
\* one head, for every set of families and residents.
THEOREM TidyWhenSerialized ==
  ASSUME Serialized
  PROVE  Spec => [](DeletedDetached /\ DeletedFamilyEmpty /\ OneHead)
<1> DEFINE Inv == TypeInv /\ FreshInv /\ TidyInv
<1>1. Init => Inv
  <2>1. Init => TypeInv
    BY HouseholdsAssumption DEF Init, TypeInv, TypeOK, InputInv, State, HouseholdsAssumption
  <2> QED BY <2>1, HouseholdsAssumption
          DEF Init, FreshInv, TidyInv, Tidy, DeletedDetached, DeletedFamilyEmpty, OneHead,
              HouseholdsAssumption
<1>2. Inv /\ [Next]_vars => Inv'
  BY HouseholdsAssumption, StepTyped, StepFresh, StepTidy
<1>3. Inv => DeletedDetached /\ DeletedFamilyEmpty /\ OneHead
  BY DEF TidyInv, Tidy
<1> QED BY <1>1, <1>2, <1>3, PTL DEF Spec

-----------------------------------------------------------------------------
(* The rest holds however calls overlap.  What a removal has read of its     *)
(* member row stays true of it, except that it may stop being the head.      *)

Same(n, m) == /\ n.id = m.id /\ n.family = m.family /\ n.resident = m.resident
              /\ n.isHead => m.isHead

CallKnowsRows(w) ==
  /\ w.op = "removeMember" =>
       /\ w.row <= made
       /\ \A m \in rows : m.id = w.row => (m.isHead => w.isHead /\ m.family = w.family)
  /\ w.op = "removeFamily" =>
       \A k \in w.locked : k <= made /\ \A m \in rows : m.id = k => m.family = w.family

RowInv == /\ \A m, n \in rows : m.id = n.id => m = n
          /\ \A m \in rows : m.id <= made
          /\ \A c \in Calls : CallKnowsRows(call[c])

\* A row keeps its id, its family and its resident, and never becomes a head.
RowsEvolve == /\ made' \in {made, made + 1}
              /\ \A n \in rows' : \/ n.id = made + 1 /\ made' = made + 1
                                 \/ \E m \in rows : Same(n, m)
              /\ \A m, n \in rows' : m.id = n.id => m = n

LEMMA FewerRows ==
  ASSUME RowInv, rows' \subseteq rows, made' = made
  PROVE  RowsEvolve
BY DEF RowInv, RowsEvolve, Same

LEMMA AddEvolves ==
  ASSUME TypeInv, RowInv, NEW c \in Calls, AddMember(c)
  PROVE  RowsEvolve
<1> DEFINE w == call[c]
<1>1. rows' = {Demoted(m, w) : m \in rows} \cup {NewRow(w)} /\ made' = made + 1
  BY RowsAfterAdd DEF AddMember
<1>2. NewRow(w).id = made + 1
  BY DEF NewRow
<1>3. \A m \in rows : Same(Demoted(m, w), m)
  BY DemotedRow DEF Same, TypeInv, TypeOK
<1>4. \A m \in rows : m.id \in Nat /\ m.id <= made /\ made \in Nat
  BY DEF RowInv, TypeInv, TypeOK, Row
<1> HIDE DEF w
<1>5. \A n \in rows' : n = NewRow(w) \/ \E m \in rows : n = Demoted(m, w)
  BY <1>1
<1>6. ASSUME NEW m \in rows', NEW n \in rows', m.id = n.id PROVE m = n
  <2>1. CASE m = NewRow(w) /\ n = NewRow(w)
    BY <2>1
  <2>2. ASSUME NEW a \in rows, n = Demoted(a, w), m = NewRow(w) PROVE FALSE
    BY <1>2, <1>3, <1>4, <1>6, <2>2 DEF Same
  <2>3. ASSUME NEW a \in rows, m = Demoted(a, w), n = NewRow(w) PROVE FALSE
    BY <1>2, <1>3, <1>4, <1>6, <2>3 DEF Same
  <2>4. ASSUME NEW a \in rows, NEW b \in rows, m = Demoted(a, w), n = Demoted(b, w) PROVE m = n
    <3>1. a.id = b.id
      BY <1>3, <1>6, <2>4 DEF Same
    <3> QED BY <2>4, <3>1 DEF RowInv
  <2> QED BY <1>5, <2>1, <2>2, <2>3, <2>4
<1> QED BY <1>1, <1>2, <1>3, <1>5, <1>6 DEF RowsEvolve

\* What the steps that end a call do to the rows.
LEMMA WriteEvolves ==
  ASSUME TypeInv, RowInv, NEW c \in Calls,
         \/ Fail(c) \/ CreateFamily(c) \/ UpdateFamily(c) \/ RemoveFamily(c) \/ AddMember(c)
         \/ RemoveMember(c) \/ CreateResident(c) \/ UpdateResident(c)
         \/ RemoveResident(c) \/ RestoreResident(c)
  PROVE  RowsEvolve /\ Done(c)
<1>1. CASE AddMember(c)
  BY <1>1, AddEvolves DEF AddMember
<1>2. CASE Fail(c)
  BY <1>2, FewerRows DEF Fail, Done, rowVars
<1>3. CASE RemoveResident(c)
  <2>1. rows' \subseteq rows /\ made' = made /\ Done(c)
    BY <1>3 DEF RemoveResident
  <2> QED BY <2>1, FewerRows
<1>4. CASE RemoveFamily(c) \/ RemoveMember(c)
  BY <1>4, FewerRows DEF RemoveFamily, RemoveMember
<1>5. CASE CreateFamily(c) \/ UpdateFamily(c) \/ CreateResident(c) \/ UpdateResident(c)
           \/ RestoreResident(c)
  BY <1>5, FewerRows DEF CreateFamily, UpdateFamily, CreateResident, UpdateResident, RestoreResident
<1> QED BY <1>1, <1>2, <1>3, <1>4, <1>5

LEMMA EvolveKnows ==
  ASSUME TypeInv, RowInv, RowsEvolve, NEW c \in Calls, call'[c] = call[c] \/ call'[c] = Idle
  PROVE  CallKnowsRows(call[c])'
<1>1. CASE call'[c] = Idle
  BY <1>1 DEF CallKnowsRows, Idle
<1>2. CASE call'[c] = call[c] /\ call[c] = Idle
  BY <1>2 DEF CallKnowsRows, Idle
<1>3. CASE call'[c] = call[c] /\ call[c] \in Active
  <2> DEFINE w == call[c]
  <2>1. made \in Nat /\ made' \in {made, made + 1} /\ w.row \in Nat /\ w.locked \subseteq Nat
    BY <1>3 DEF RowsEvolve, TypeInv, TypeOK, Active
  <2>2. CallKnowsRows(w)
    BY DEF RowInv
  <2>3. \A n \in rows' : n.id = made + 1 \/ \E m \in rows : Same(n, m)
    BY DEF RowsEvolve
  <2> HIDE DEF w
  <2>4. ASSUME w.op = "removeMember"
        PROVE  /\ w.row <= made'
               /\ \A n \in rows' : n.id = w.row => (n.isHead => w.isHead /\ n.family = w.family)
    <3>1. w.row <= made /\ \A m \in rows : m.id = w.row => (m.isHead => w.isHead /\ m.family = w.family)
      BY <2>2, <2>4 DEF CallKnowsRows
    <3> SUFFICES ASSUME NEW n \in rows', n.id = w.row, n.isHead
                 PROVE  w.isHead /\ n.family = w.family
      BY <2>1, <3>1
    <3>2. PICK m \in rows : Same(n, m)
      BY <2>1, <2>3, <3>1
    <3> QED BY <3>1, <3>2 DEF Same
  <2>5. ASSUME w.op = "removeFamily", NEW k \in w.locked
        PROVE  k <= made' /\ \A n \in rows' : n.id = k => n.family = w.family
    <3>1. k <= made /\ \A m \in rows : m.id = k => m.family = w.family
      BY <2>2, <2>5 DEF CallKnowsRows
    <3> SUFFICES ASSUME NEW n \in rows', n.id = k
                 PROVE  n.family = w.family
      BY <2>1, <3>1
    <3>2. PICK m \in rows : Same(n, m)
      BY <2>1, <2>3, <3>1
    <3> QED BY <3>1, <3>2 DEF Same
  <2>6. call'[c] = w
    BY <1>3 DEF w
  <2> QED BY <2>4, <2>5, <2>6 DEF CallKnowsRows
<1> QED BY <1>1, <1>2, <1>3 DEF TypeInv, TypeOK

LEMMA BeginKnows ==
  ASSUME TypeInv, RowInv, NEW c \in Calls, Request(c)
  PROVE  CallKnowsRows(call[c])'
<1> \A m \in rows : m.id \in Nat /\ m.id <= made
  BY DEF RowInv, TypeInv, TypeOK, Row
<1>1. UNCHANGED <<rows, made>>
  BY DEF Request, BeginImport, BeginRemoveMember, Begin, rowVars
<1>2. CASE BeginRemoveMember(c)
  <2> PICK k \in rows : Begin(c, "removeMember", k.family, k.resident, k.isHead, k.id)
    BY <1>2 DEF BeginRemoveMember
  <2>1. /\ call'[c].op = "removeMember" /\ call'[c].row = k.id
        /\ call'[c].isHead = k.isHead /\ call'[c].family = k.family
    BY DEF Begin, TypeInv, TypeOK
  <2>2. \A m \in rows : m.id = k.id => m = k
    BY DEF RowInv
  <2> QED BY <1>1, <2>1, <2>2 DEF CallKnowsRows
<1>3. CASE ~BeginRemoveMember(c)
  <2>1. call'[c].op # "removeMember" /\ call'[c].locked = {}
    BY <1>3 DEF Request, BeginImport, Begin, TypeInv, TypeOK
  <2> QED BY <2>1 DEF CallKnowsRows
<1> QED BY <1>2, <1>3

LEMMA StepRows ==
  ASSUME TypeInv, RowInv, [Next]_vars
  PROVE  RowInv'
<1>1. CASE UNCHANGED vars
  BY <1>1 DEF vars, rowVars, RowInv, CallKnowsRows
<1>2. ASSUME NEW c \in Calls, Request(c) PROVE RowInv'
  <2>1. UNCHANGED <<rows, made>> /\ \A j \in Calls \ {c} : call'[j] = call[j]
    BY <1>2 DEF Request, BeginImport, BeginRemoveMember, Begin, rowVars, TypeInv, TypeOK
  <2>2. \A j \in Calls \ {c} : CallKnowsRows(call[j])'
    BY <2>1 DEF RowInv, CallKnowsRows
  <2>3. CallKnowsRows(call[c])'
    BY <1>2, BeginKnows
  <2> QED BY <2>1, <2>2, <2>3 DEF RowInv
<1>3. ASSUME NEW c \in Calls, Check(c) PROVE RowInv'
  <2>1. UNCHANGED <<rows, made>> /\ \A j \in Calls \ {c} : call'[j] = call[j]
    BY <1>3 DEF Check, rowVars, TypeInv, TypeOK
  <2>2. call[c] \in Active /\ call'[c] = [call[c] EXCEPT !.passed = @ + 1]
    BY <1>3 DEF Check, TypeInv, TypeOK
  <2>3. /\ call'[c].op = call[c].op /\ call'[c].row = call[c].row
        /\ call'[c].isHead = call[c].isHead /\ call'[c].family = call[c].family
        /\ call'[c].locked = call[c].locked
    BY <2>2 DEF Active
  <2>4. \A j \in Calls \ {c} : CallKnowsRows(call[j])'
    BY <2>1 DEF RowInv, CallKnowsRows
  <2>5. CallKnowsRows(call[c])'
    BY <2>1, <2>3 DEF RowInv, CallKnowsRows
  <2> QED BY <2>1, <2>4, <2>5 DEF RowInv
<1>4. ASSUME NEW c \in Calls, OpenTransaction(c) PROVE RowInv'
  <2>1. UNCHANGED <<rows, made>> /\ \A j \in Calls \ {c} : call'[j] = call[j]
    BY <1>4 DEF OpenTransaction, rowVars, TypeInv, TypeOK
  <2>2. call[c] \in Active
    BY <1>4, ReadyActive DEF OpenTransaction, Ready, Op
  <2>3. call'[c] = [call[c] EXCEPT !.open = TRUE, !.locked = Ids(Touched(call[c]))]
    BY <1>4 DEF OpenTransaction, TypeInv, TypeOK
  <2>4. /\ call'[c].op = call[c].op /\ call'[c].row = call[c].row
        /\ call'[c].isHead = call[c].isHead /\ call'[c].family = call[c].family
        /\ call'[c].locked = Ids(Touched(call[c]))
    BY <2>2, <2>3 DEF Active
  <2>5. \A j \in Calls \ {c} : CallKnowsRows(call[j])'
    BY <2>1 DEF RowInv, CallKnowsRows
  <2>6. \A k \in Ids(Touched(call[c])) : \E m \in rows : m.id = k /\ m.family = call[c].family
    BY DEF Ids, Touched
  <2>7. \A k \in Ids(Touched(call[c])) :
           k <= made /\ \A m \in rows : m.id = k => m.family = call[c].family
    BY <2>6 DEF RowInv
  <2>8. CallKnowsRows(call[c])'
    BY <2>1, <2>4, <2>7 DEF RowInv, CallKnowsRows
  <2> QED BY <2>1, <2>5, <2>8 DEF RowInv
<1>5. ASSUME NEW c \in Calls,
             \/ Fail(c) \/ CreateFamily(c) \/ UpdateFamily(c) \/ RemoveFamily(c) \/ AddMember(c)
             \/ RemoveMember(c) \/ CreateResident(c) \/ UpdateResident(c)
             \/ RemoveResident(c) \/ RestoreResident(c)
      PROVE  RowInv'
  <2>1. RowsEvolve /\ Done(c)
    BY <1>5, WriteEvolves
  <2>2. \A j \in Calls : call'[j] = call[j] \/ call'[j] = Idle
    BY <2>1 DEF Done, TypeInv, TypeOK
  <2>3. \A j \in Calls : CallKnowsRows(call[j])'
    BY <2>1, <2>2, EvolveKnows
  <2>4. \A n \in rows' : n.id <= made'
    <3>1. \A m \in rows : m.id \in Nat /\ m.id <= made /\ made \in Nat
      BY DEF RowInv, TypeInv, TypeOK, Row
    <3> QED BY <2>1, <3>1 DEF RowsEvolve, Same, TypeInv, TypeOK
  <2> QED BY <2>1, <2>3, <2>4 DEF RowsEvolve, RowInv
<1> QED BY <1>1, <1>2, <1>3, <1>4, <1>5 DEF Next

LEMMA StepOffice ==
  ASSUME HouseholdsAssumption, TypeInv, RowInv, Next,
         NEW m \in rows, m.isHead, m.id \notin Ids(rows')
  PROVE  head'[m.family] # m.resident
<1>1. m.family \in Family /\ m.resident \in Resident /\ m.resident # NoResident
  BY HouseholdsAssumption DEF TypeInv, TypeOK, Row, HouseholdsAssumption
<1>2. m \notin rows'
  BY DEF Ids
<1>3. ASSUME NEW c \in Calls, RemoveFamily(c) PROVE head'[m.family] # m.resident
  <2>1. m.id \in call[c].locked
    BY <1>2, <1>3 DEF RemoveFamily
  <2>2. m.family = call[c].family
    BY <1>3, <2>1 DEF RowInv, CallKnowsRows, RemoveFamily, Ready
  <2> QED BY <1>1, <1>3, <2>2 DEF RemoveFamily, TypeInv, TypeOK
<1>4. ASSUME NEW c \in Calls, RemoveMember(c) PROVE head'[m.family] # m.resident
  <2>1. m.id = call[c].row
    BY <1>2, <1>4 DEF RemoveMember
  <2>2. call[c].isHead /\ m.family = call[c].family
    BY <1>4, <2>1 DEF RowInv, CallKnowsRows, RemoveMember, Ready
  <2> QED BY <1>1, <1>4, <2>2 DEF RemoveMember, HeadAfter, TypeInv, TypeOK
<1>5. ASSUME NEW c \in Calls, RemoveResident(c) PROVE head'[m.family] # m.resident
  <2>1. /\ rows' = {k \in rows : k.resident # call[c].resident}
        /\ head' = Unheaded(call[c].resident)
    BY <1>2, <1>5 DEF RemoveResident
  <2>2. m.resident = call[c].resident
    BY <1>2, <2>1
  <2> QED BY <1>1, <2>1, <2>2 DEF Unheaded
<1>6. ASSUME NEW c \in Calls, AddMember(c) PROVE FALSE
  <2>1. Demoted(m, call[c]) \in rows'
    BY <1>6, RowsAfterAdd
  <2>2. Demoted(m, call[c]).id = m.id
    BY DemotedRow DEF TypeInv, TypeOK
  <2> QED BY <2>1, <2>2 DEF Ids
<1>7. ASSUME NEW c \in Calls,
             \/ Request(c) \/ Check(c) \/ OpenTransaction(c) \/ Fail(c) \/ CreateFamily(c)
             \/ UpdateFamily(c) \/ CreateResident(c) \/ UpdateResident(c) \/ RestoreResident(c)
      PROVE  FALSE
  <2>1. rows' = rows
    BY <1>7 DEF Request, BeginImport, BeginRemoveMember, Begin, Check, OpenTransaction, Fail,
                CreateFamily, UpdateFamily, CreateResident, UpdateResident, RestoreResident, rowVars
  <2> QED BY <1>2, <2>1
<1> QED BY <1>3, <1>4, <1>5, <1>6, <1>7 DEF Next

LEMMA InitRows == HouseholdsAssumption /\ Init => TypeInv /\ RowInv
<1>1. HouseholdsAssumption /\ Init => TypeInv
  BY DEF Init, TypeInv, TypeOK, InputInv, State, HouseholdsAssumption
<1>2. Init => RowInv
  BY DEF Init, RowInv, CallKnowsRows, Idle
<1> QED BY <1>1, <1>2

\* Whoever is the head among the members and leaves is not the head on the card
\* any more: removeMember decides this on a row it has read before, which is
\* safe because a row never becomes a head later.
THEOREM HeadsLeaveOffice == Spec => HeadLeavesOffice
<1> DEFINE Inv == TypeInv /\ RowInv
           Office == \A m \in rows : m.isHead /\ m.id \notin Ids(rows') => head'[m.family] # m.resident
<1>1. Init => Inv
  BY InitRows, HouseholdsAssumption
<1>2. Inv /\ [Next]_vars => Inv'
  BY HouseholdsAssumption, StepTyped, StepRows
<1>3. Inv /\ [Next]_vars => [Office]_vars
  BY HouseholdsAssumption, StepOffice
<1> QED BY <1>1, <1>2, <1>3, PTL DEF Spec, HeadLeavesOffice

-----------------------------------------------------------------------------
(* A resident without a row has no family: a call links only residents that  *)
(* it has seen, and rows of residents are never removed.                     *)

Seen(w) == \/ w.op = "addMember" /\ w.passed >= 3
           \/ w.op = "updateResident" /\ w.passed >= 1

SeenInv == /\ \A r \in Resident : resident[r] = "none" => familyOf[r] = NoFamily
           /\ \A c \in Calls : Seen(call[c]) => resident[call[c].resident] # "none"

LEMMA StepResident ==
  ASSUME TypeInv, [Next]_vars, NEW r \in Resident, resident'[r] = "none"
  PROVE  resident[r] = "none"
<1>1. CASE resident' = resident
  BY <1>1
<1>2. ASSUME NEW c \in Calls, CreateResident(c) \/ RemoveResident(c) \/ RestoreResident(c)
      PROVE  resident[r] = "none"
  BY <1>2 DEF CreateResident, RemoveResident, RestoreResident, TypeInv, TypeOK
<1>3. ASSUME NEW c \in Calls,
             \/ Request(c) \/ Check(c) \/ OpenTransaction(c) \/ Fail(c) \/ CreateFamily(c)
             \/ UpdateFamily(c) \/ RemoveFamily(c) \/ AddMember(c) \/ RemoveMember(c)
             \/ UpdateResident(c)
      PROVE  resident' = resident
  BY <1>3 DEF Request, BeginImport, BeginRemoveMember, Begin, Check, OpenTransaction, Fail,
              CreateFamily, UpdateFamily, RemoveFamily, AddMember, RemoveMember, UpdateResident, rowVars
<1> QED BY <1>1, <1>2, <1>3 DEF Next, vars, rowVars

LEMMA CheckSees ==
  ASSUME HouseholdsAssumption, TypeInv, SeenInv, NEW c \in Calls, Check(c), Seen(call'[c])
  PROVE  resident[call[c].resident] # "none"
<1> DEFINE w == call[c]
<1>1. w \in Active /\ InputOK(w)
  BY DEF Check, TypeInv, TypeOK, InputInv
<1>2. call'[c] = [w EXCEPT !.passed = @ + 1]
  BY DEF Check, TypeInv, TypeOK
<1>3. call'[c].op = w.op /\ call'[c].passed = w.passed + 1 /\ w.passed \in 0 .. 4
  BY <1>1, <1>2 DEF Active
<1>4. Checks(w)[w.passed + 1]
  BY DEF Check
<1>5. CASE Seen(w)
  BY <1>5 DEF SeenInv
<1>6. CASE w.op = "addMember" /\ w.passed = 2
  <2>1. Checks(w) = <<FamilyLive(w), NotMember(w), ResidentLive(w), NoOtherHead(w)>>
    BY <1>6 DEF Checks
  <2>2. Checks(w)[3]
    BY <1>4, <1>6
  <2>3. ResidentLive(w)
    BY <2>1, <2>2
  <2> QED BY <1>1, <1>6, <2>3, HouseholdsAssumption
          DEF ResidentLive, InputOK, ResidentOps, HouseholdsAssumption
<1>7. CASE w.op = "updateResident" /\ w.passed = 0
  <2>1. Checks(w) = <<ResidentLive(w), FamilyLive(w)>>
    BY <1>7 DEF Checks
  <2>2. Checks(w)[1]
    BY <1>4, <1>7
  <2>3. ResidentLive(w)
    BY <2>1, <2>2
  <2> QED BY <1>1, <1>7, <2>3, HouseholdsAssumption
          DEF ResidentLive, InputOK, ResidentOps, HouseholdsAssumption
<1> HIDE DEF w
<1>8. Seen(w) \/ (w.op = "addMember" /\ w.passed = 2) \/ (w.op = "updateResident" /\ w.passed = 0)
  BY <1>3 DEF Seen
<1> QED BY <1>5, <1>6, <1>7, <1>8 DEF w

LEMMA ReadySeen ==
  ASSUME TypeInv, SeenInv, NEW c \in Calls, Ready(c, "addMember") \/ Ready(c, "updateResident")
  PROVE  resident[call[c].resident] # "none"
<1>1. CASE Ready(c, "addMember")
  <2>1. Len(Checks(call[c])) = 4
    BY <1>1 DEF Checks, Ready
  <2> QED BY <1>1, <2>1 DEF Ready, Seen, SeenInv
<1>2. CASE Ready(c, "updateResident")
  <2>1. Len(Checks(call[c])) = 2
    BY <1>2 DEF Checks, Ready
  <2> QED BY <1>2, <2>1 DEF Ready, Seen, SeenInv
<1> QED BY <1>1, <1>2

LEMMA StepSeen ==
  ASSUME HouseholdsAssumption, TypeInv, SeenInv, [Next]_vars
  PROVE  SeenInv'
<1>1. ASSUME NEW r \in Resident, resident'[r] = "none" PROVE familyOf'[r] = NoFamily
  <2>1. resident[r] = "none" /\ familyOf[r] = NoFamily
    BY <1>1, StepResident DEF SeenInv
  <2>2. ASSUME NEW c \in Calls, AddMember(c) \/ UpdateResident(c) PROVE familyOf'[r] = familyOf[r]
    <3>1. call[c].resident # r
      BY <2>1, <2>2, ReadySeen DEF AddMember, UpdateResident
    <3> QED BY <2>2, <3>1 DEF AddMember, UpdateResident, TypeInv, TypeOK
  <2>3. ASSUME NEW c \in Calls, CreateResident(c) PROVE familyOf'[r] = familyOf[r]
    <3>1. call[c].resident # r
      BY <1>1, <2>3 DEF CreateResident, TypeInv, TypeOK
    <3> QED BY <2>3, <3>1 DEF CreateResident, TypeInv, TypeOK
  <2>4. ASSUME NEW c \in Calls, RemoveFamily(c) \/ RemoveMember(c) \/ RemoveResident(c)
        PROVE  familyOf'[r] = NoFamily
    BY <2>1, <2>4 DEF RemoveFamily, Detached, RemoveMember, Leaves, RemoveResident, TypeInv, TypeOK
  <2>5. ASSUME NEW c \in Calls,
               \/ Request(c) \/ Check(c) \/ OpenTransaction(c) \/ Fail(c)
               \/ CreateFamily(c) \/ UpdateFamily(c) \/ RestoreResident(c)
        PROVE  familyOf' = familyOf
    BY <2>5 DEF Request, BeginImport, BeginRemoveMember, Begin, Check, OpenTransaction, Fail,
                CreateFamily, UpdateFamily, RestoreResident, rowVars
  <2> QED BY <2>1, <2>2, <2>3, <2>4, <2>5 DEF Next, vars, rowVars
<1>2. ASSUME NEW c \in Calls, Seen(call'[c]) PROVE resident'[call'[c].resident] # "none"
  <2>1. call'[c] # Idle
    BY <1>2 DEF Seen, Idle
  <2>2. CASE call'[c] = call[c]
    <3>1. resident[call[c].resident] # "none"
      BY <1>2, <2>2 DEF SeenInv
    <3>2. call[c].resident \in Resident
      BY <1>2, <2>1, <2>2 DEF Seen, TypeInv, InputInv, InputOK, ResidentOps
    <3> QED BY <2>2, <3>1, <3>2, StepResident
  <2>3. ASSUME Check(c) PROVE resident'[call'[c].resident] # "none"
    <3>1. resident[call[c].resident] # "none"
      BY <1>2, <2>3, CheckSees
    <3>2. call[c] \in Active /\ call'[c] = [call[c] EXCEPT !.passed = @ + 1]
      BY <2>3 DEF Check, TypeInv, TypeOK
    <3>3. call'[c].resident = call[c].resident /\ resident' = resident
      BY <2>3, <3>2 DEF Active, Check, rowVars
    <3> QED BY <3>1, <3>3
  <2>4. ASSUME OpenTransaction(c) PROVE resident'[call'[c].resident] # "none"
    <3>1. call[c] \in Active
      BY <2>4, ReadyActive DEF OpenTransaction, Ready, Op
    <3>2. call'[c] = [call[c] EXCEPT !.open = TRUE, !.locked = Ids(Touched(call[c]))]
      BY <2>4 DEF OpenTransaction, TypeInv, TypeOK
    <3>3. /\ call'[c].resident = call[c].resident /\ call'[c].op = call[c].op
          /\ call'[c].passed = call[c].passed /\ resident' = resident
      BY <2>4, <3>1, <3>2 DEF Active, OpenTransaction, rowVars
    <3>4. Seen(call[c])
      BY <1>2, <3>3 DEF Seen
    <3> QED BY <3>3, <3>4 DEF SeenInv
  <2>5. ASSUME Request(c) PROVE FALSE
    <3>1. call'[c].passed = 0
      BY <2>5 DEF Request, BeginImport, BeginRemoveMember, Begin, TypeInv, TypeOK
    <3> QED BY <1>2, <3>1 DEF Seen
  <2>6. ASSUME NEW j \in Calls, j # c, Request(j) \/ Check(j) \/ OpenTransaction(j)
        PROVE  call'[c] = call[c]
    BY <2>6 DEF Request, BeginImport, BeginRemoveMember, Begin, Check, OpenTransaction, TypeInv, TypeOK
  <2>7. ASSUME NEW j \in Calls, Done(j) PROVE call'[c] = call[c]
    BY <2>1, <2>7 DEF Done, TypeInv, TypeOK
  <2>8. ASSUME NEW j \in Calls,
               \/ Fail(j) \/ CreateFamily(j) \/ UpdateFamily(j) \/ RemoveFamily(j) \/ AddMember(j)
               \/ RemoveMember(j) \/ CreateResident(j) \/ UpdateResident(j)
               \/ RemoveResident(j) \/ RestoreResident(j)
        PROVE  Done(j)
    BY <2>8 DEF Fail, Done, CreateFamily, UpdateFamily, RemoveFamily, AddMember, RemoveMember,
                CreateResident, UpdateResident, RemoveResident, RestoreResident
  <2> QED BY <2>2, <2>3, <2>4, <2>5, <2>6, <2>7, <2>8 DEF Next, vars
<1> QED BY <1>1, <1>2 DEF SeenInv

Unlinked(r) == familyOf[r] # NoFamily /\ familyOf'[r] = NoFamily

LEMMA StepMoved ==
  ASSUME HouseholdsAssumption, TypeInv, SeenInv, Next, NEW r \in Resident, Unlinked(r)
  PROVE  \/ resident'[r] = "deleted"
         \/ family'[familyOf[r]] = "deleted"
         \/ \E c \in Calls : /\ call[c] # Idle /\ call'[c] = Idle
                             /\ call[c].resident = r
                             /\ \/ call[c].op = "updateResident"
                                \/ call[c].family = familyOf[r]
<1> familyOf[r] # NoFamily /\ familyOf'[r] = NoFamily
  BY DEF Unlinked
<1>1. ASSUME NEW c \in Calls, RemoveFamily(c) PROVE family'[familyOf[r]] = "deleted"
  <2>1. familyOf[r] = call[c].family
    BY <1>1 DEF RemoveFamily, Detached
  <2>2. familyOf[r] \in Family
    BY DEF TypeInv, TypeOK
  <2> QED BY <1>1, <2>1, <2>2 DEF RemoveFamily, TypeInv, TypeOK
<1>2. ASSUME NEW c \in Calls, RemoveMember(c)
      PROVE  /\ call[c] # Idle /\ call'[c] = Idle
             /\ call[c].resident = r /\ call[c].family = familyOf[r]
  <2>1. call[c] # Idle /\ call'[c] = Idle
    BY <1>2, ReadyActive DEF RemoveMember, Ready, Op, Done, TypeInv, TypeOK
  <2>2. familyOf' = [familyOf EXCEPT ![call[c].resident] =
                        IF @ = call[c].family THEN NoFamily ELSE @]
    BY <1>2 DEF RemoveMember, Leaves
  <2>3. call[c].resident = r /\ call[c].family = familyOf[r]
    BY <2>2 DEF TypeInv, TypeOK
  <2> QED BY <2>1, <2>3
<1>3. ASSUME NEW c \in Calls, UpdateResident(c)
      PROVE  /\ call[c] # Idle /\ call'[c] = Idle
             /\ call[c].resident = r /\ call[c].op = "updateResident"
  <2>1. call[c] # Idle /\ call'[c] = Idle /\ call[c].op = "updateResident"
    BY <1>3, ReadyActive DEF UpdateResident, Ready, Op, Done, TypeInv, TypeOK
  <2>2. call[c].resident = r
    BY <1>3 DEF UpdateResident, TypeInv, TypeOK
  <2> QED BY <2>1, <2>2
<1>4. ASSUME NEW c \in Calls, RemoveResident(c) PROVE resident'[r] = "deleted"
  <2>1. r = call[c].resident
    BY <1>4 DEF RemoveResident, TypeInv, TypeOK
  <2> QED BY <1>4, <2>1 DEF RemoveResident, TypeInv, TypeOK
<1>5. ASSUME NEW c \in Calls, CreateResident(c) PROVE FALSE
  <2>1. r = call[c].resident
    BY <1>5 DEF CreateResident, TypeInv, TypeOK
  <2> QED BY <1>5, <2>1 DEF CreateResident, SeenInv
<1>6. ASSUME NEW c \in Calls, AddMember(c) PROVE FALSE
  <2>1. call[c].family \in Family
    BY <1>6, ReadyActive DEF AddMember, Ready, Op, InputOK, FamilyOps
  <2> QED BY <1>6, <2>1, HouseholdsAssumption DEF AddMember, HouseholdsAssumption, TypeInv, TypeOK
<1>7. ASSUME NEW c \in Calls,
             \/ Request(c) \/ Check(c) \/ OpenTransaction(c) \/ Fail(c)
             \/ CreateFamily(c) \/ UpdateFamily(c) \/ RestoreResident(c)
      PROVE  familyOf' = familyOf
  BY <1>7 DEF Request, BeginImport, BeginRemoveMember, Begin, Check, OpenTransaction, Fail,
              CreateFamily, UpdateFamily, RestoreResident, rowVars
<1> QED BY <1>1, <1>2, <1>3, <1>4, <1>5, <1>6, <1>7 DEF Next

\* However calls overlap, taking a resident off one family card never takes them
\* out of another family.
THEOREM MovedResidentsStay == Spec => MovedStays
<1> DEFINE Inv == TypeInv /\ SeenInv
           Moved == \A r \in Resident : familyOf[r] # NoFamily /\ familyOf'[r] = NoFamily =>
                      \/ resident'[r] = "deleted"
                      \/ family'[familyOf[r]] = "deleted"
                      \/ \E c \in Calls : /\ call[c] # Idle /\ call'[c] = Idle
                                          /\ call[c].resident = r
                                          /\ \/ call[c].op = "updateResident"
                                             \/ call[c].family = familyOf[r]
<1>1. Init => Inv
  <2>1. Init => SeenInv
    BY DEF Init, SeenInv, Seen, Idle
  <2> QED BY <2>1, InitRows, HouseholdsAssumption
<1>2. Inv /\ [Next]_vars => Inv'
  BY HouseholdsAssumption, StepTyped, StepSeen
<1>3. Inv /\ [Next]_vars => [Moved]_vars
  BY HouseholdsAssumption, StepMoved DEF Unlinked
<1> QED BY <1>1, <1>2, <1>3, PTL DEF Spec, MovedStays
=============================================================================
