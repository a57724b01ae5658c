----------------------------- MODULE TenantsProofs -----------------------------
(* Proofs about tenants: their tree (Hierarchy), the script that seeds one   *)
(* (Seed), and the triggers that keep them apart (TenantLinks).              *)
EXTENDS Hierarchy, Seed, TenantLinks, TLAPS

Tenancies == [level : {"kabupaten", "kecamatan", "desa"}, parent : Nodes \cup {Nil},
              status : {"active", "inactive"}, code : TenantCodes]
Standing(n) == tree[n] \in Tenancies
TreeTyped == tree \in [Nodes -> Tenancies \cup {Absent, Dissolved}]

\* The fields of what a caller is doing.
Shaped(r) == r = [op |-> r.op, step |-> r.step, on |-> r.on, code |-> r.code,
                  todo |-> r.todo, found |-> r.found, total |-> r.total, each |-> r.each]
\* The parent of a village about to be inserted had the level, if it is still there.
Aimed(r) ==
  r.step = "insert" =>
    /\ r.op \in {"provision", "create"} /\ r.code \in TenantCodes
    /\ \/ r.op = "create" /\ r.on = Nil
       \/ r.op = "provision" /\ r.on \in Nodes
          /\ (tree[r.on] = Dissolved \/ (Standing(r.on) /\ tree[r.on].level \in {"kabupaten", "kecamatan"}))

\* The villages below one of ms.
Beneath(ms) == UNION {Reaches(m) : m \in ms}

\* What an overview that nothing disturbed has found, and has still to look under.
Surveyed(r) ==
  /\ r.step \in {"collect", "each", "answered"}
  /\ r.on \in Nodes
  /\ r.step = "collect" => /\ r.todo \subseteq Nodes
                           /\ r.found \cup Beneath(r.todo) = Reaches(r.on)
  /\ r.step = "each" => r.found = Reaches(r.on)
  /\ r.step \in {"each", "answered"} => r.total = Headcount(Reaches(r.on))
  /\ r.step = "answered" => r.each = [m \in Reaches(r.on) |-> people[m]]

TreeInv ==
  /\ TreeTyped /\ HierarchyTypeOK /\ ParentAbove
  /\ DOMAIN admin = RegencyAdmins /\ admin = [a \in RegencyAdmins |-> admin[a]]
  /\ \A a \in RegencyAdmins : Shaped(admin[a]) /\ Aimed(admin[a])
  /\ unmoved \subseteq RegencyAdmins /\ \A a \in unmoved : Surveyed(admin[a])

LEMMA AnyIsOne ==
  ASSUME NEW S, S # {}
  PROVE  AnyOf(S) \in S
BY Zenon DEF AnyOf

LEMMA RowKinds ==
  /\ Absent \notin Tenancies /\ Dissolved \notin Tenancies /\ Absent # Dissolved
  /\ Absent.parent = Nil /\ Dissolved.parent = Nil /\ Absent.status = "none" /\ Dissolved.status = "none"
  /\ Absent.level = "none" /\ Dissolved.level = "gone"
BY DEF Absent, Dissolved, Tenancies

LEMMA ExistStanding ==
  ASSUME TreeTyped, NEW n \in Nodes
  PROVE  n \in Exist <=> Standing(n)
BY RowKinds DEF TreeTyped, Exist, Standing

LEMMA NoWorkShaped == Shaped(NoWork) /\ NoWork.step = "idle" /\ NoWork.op = "idle"
BY DEF NoWork, Shaped

\* The work that a call begins with.
CreateWork(c) == [NoWork EXCEPT !.op = "create", !.step = "insert", !.code = c]
ProvisionWork(p, c) == [NoWork EXCEPT !.op = "provision", !.step = "insert", !.on = p, !.code = c]
OverviewWork(n, ns) == [NoWork EXCEPT !.op = "overview", !.step = "collect", !.on = n, !.todo = ns]

LEMMA CreateBegun ==
  ASSUME NEW c
  PROVE  LET w == CreateWork(c) IN
         Shaped(w) /\ w.op = "create" /\ w.step = "insert" /\ w.on = Nil /\ w.code = c
<1> DEFINE r == NoWork
           a == [r EXCEPT !.op = "create"]
           b == [a EXCEPT !.step = "insert"]
           d == [b EXCEPT !.code = c]
<1>1. Shaped(r) /\ r.on = Nil
  BY NoWorkShaped DEF NoWork
<1>2. CreateWork(c) = d
  BY DEF CreateWork
<1> HIDE DEF r
<1>3. a = [op |-> "create", step |-> r.step, on |-> r.on, code |-> r.code,
           todo |-> r.todo, found |-> r.found, total |-> r.total, each |-> r.each]
  BY <1>1 DEF Shaped
<1> HIDE DEF a
<1>4. b = [op |-> "create", step |-> "insert", on |-> r.on, code |-> r.code,
           todo |-> r.todo, found |-> r.found, total |-> r.total, each |-> r.each]
  BY <1>3
<1> HIDE DEF b
<1>5. d = [op |-> "create", step |-> "insert", on |-> r.on, code |-> c,
           todo |-> r.todo, found |-> r.found, total |-> r.total, each |-> r.each]
  BY <1>4
<1> HIDE DEF d
<1> QED BY <1>1, <1>2, <1>5 DEF Shaped

LEMMA ProvisionBegun ==
  ASSUME NEW p, NEW c
  PROVE  LET w == ProvisionWork(p, c) IN
         Shaped(w) /\ w.op = "provision" /\ w.step = "insert" /\ w.on = p /\ w.code = c
<1> DEFINE r == NoWork
           a == [r EXCEPT !.op = "provision"]
           b == [a EXCEPT !.step = "insert"]
           d == [b EXCEPT !.on = p]
           e == [d EXCEPT !.code = c]
<1>1. Shaped(r)
  BY NoWorkShaped
<1>2. ProvisionWork(p, c) = e
  BY DEF ProvisionWork
<1> HIDE DEF r
<1>3. a = [op |-> "provision", step |-> r.step, on |-> r.on, code |-> r.code,
           todo |-> r.todo, found |-> r.found, total |-> r.total, each |-> r.each]
  BY <1>1 DEF Shaped
<1> HIDE DEF a
<1>4. b = [op |-> "provision", step |-> "insert", on |-> r.on, code |-> r.code,
           todo |-> r.todo, found |-> r.found, total |-> r.total, each |-> r.each]
  BY <1>3
<1> HIDE DEF b
<1>5. d = [op |-> "provision", step |-> "insert", on |-> p, code |-> r.code,
           todo |-> r.todo, found |-> r.found, total |-> r.total, each |-> r.each]
  BY <1>4
<1> HIDE DEF d
<1>6. e = [op |-> "provision", step |-> "insert", on |-> p, code |-> c,
           todo |-> r.todo, found |-> r.found, total |-> r.total, each |-> r.each]
  BY <1>5
<1> HIDE DEF e
<1> QED BY <1>2, <1>6 DEF Shaped

LEMMA OverviewBegun ==
  ASSUME NEW n, NEW ns
  PROVE  LET w == OverviewWork(n, ns) IN
         Shaped(w) /\ w.step = "collect" /\ w.on = n /\ w.todo = ns /\ w.found = {}
<1> DEFINE r == NoWork
           a == [r EXCEPT !.op = "overview"]
           b == [a EXCEPT !.step = "collect"]
           d == [b EXCEPT !.on = n]
           e == [d EXCEPT !.todo = ns]
<1>1. Shaped(r) /\ r.found = {}
  BY NoWorkShaped DEF NoWork
<1>2. OverviewWork(n, ns) = e
  BY DEF OverviewWork
<1> HIDE DEF r
<1>3. a = [op |-> "overview", step |-> r.step, on |-> r.on, code |-> r.code,
           todo |-> r.todo, found |-> r.found, total |-> r.total, each |-> r.each]
  BY <1>1 DEF Shaped
<1> HIDE DEF a
<1>4. b = [op |-> "overview", step |-> "collect", on |-> r.on, code |-> r.code,
           todo |-> r.todo, found |-> r.found, total |-> r.total, each |-> r.each]
  BY <1>3
<1> HIDE DEF b
<1>5. d = [op |-> "overview", step |-> "collect", on |-> n, code |-> r.code,
           todo |-> r.todo, found |-> r.found, total |-> r.total, each |-> r.each]
  BY <1>4
<1> HIDE DEF d
<1>6. e = [op |-> "overview", step |-> "collect", on |-> n, code |-> r.code,
           todo |-> ns, found |-> r.found, total |-> r.total, each |-> r.each]
  BY <1>5
<1> HIDE DEF e
<1> QED BY <1>1, <1>2, <1>6 DEF Shaped

LEMMA TreeInit == HierarchyInit => TreeInv
<1> SUFFICES ASSUME HierarchyInit PROVE TreeInv
  OBVIOUS
<1> DEFINE c == AnyOf(TenantCodes)
           e == AnyOf(TenantCodes \ {c})
<1>1. c \in TenantCodes /\ e \in TenantCodes /\ c # e
  <2>1. TenantCodes # {} /\ \A x : TenantCodes \ {x} # {}
    BY AboveAssumption
  <2>2. c \in TenantCodes /\ e \in TenantCodes \ {c}
    BY <2>1, AnyIsOne, Zenon
  <2> QED BY <2>2
<1>2. PICK ds : /\ \E d : ds \subseteq {d}
                /\ tree = [n \in Nodes |->
                     IF n = Above THEN Tenant("kabupaten", Nil, "active", c)
                     ELSE IF n \in ds THEN Tenant("kecamatan", Above, "active", e)
                     ELSE Absent]
  BY Zenon DEF HierarchyInit
<1> HIDE DEF c, e
<1>3. PICK d : ds \subseteq {d}
  BY <1>2
<1>4. /\ people = [n \in Nodes |-> 0] /\ admin = [a \in RegencyAdmins |-> NoWork] /\ unmoved = {}
  BY Zenon DEF HierarchyInit
<1>5. \A n \in Nodes :
        \/ n = Above /\ tree[n] = [level |-> "kabupaten", parent |-> Nil, status |-> "active", code |-> c]
        \/ n # Above /\ n = d /\ tree[n] = [level |-> "kecamatan", parent |-> Above, status |-> "active", code |-> e]
        \/ tree[n] = Absent
  BY <1>2, <1>3 DEF Tenant
<1>6. TreeTyped
  BY <1>1, <1>2, <1>5, AboveAssumption DEF TreeTyped, Tenancies
<1>7. HierarchyTypeOK
  <2>1. \A n \in Exist : tree[n].level \in {"kabupaten", "kecamatan", "desa"} /\ tree[n].code \in TenantCodes
    BY <1>6, ExistStanding DEF Exist, Standing, Tenancies
  <2>2. \A n, m \in Exist : n # m => tree[n].code # tree[m].code
    BY <1>1, <1>5 DEF Exist
  <2>3. people \in [Nodes -> 0 .. MaxPeople]
    BY <1>4, AboveAssumption
  <2> QED BY <2>1, <2>2, <2>3 DEF HierarchyTypeOK
<1>8. ParentAbove
  <2> SUFFICES ASSUME NEW n \in Exist, tree[n].parent # Nil
               PROVE  tree[n].parent \in Exist /\ Rank[tree[tree[n].parent].level] < Rank[tree[n].level]
    BY DEF ParentAbove
  <2>1. n \in Nodes /\ tree[n] = [level |-> "kecamatan", parent |-> Above, status |-> "active", code |-> e]
    BY <1>5 DEF Exist
  <2>2. Above \in Nodes /\ tree[Above] = [level |-> "kabupaten", parent |-> Nil, status |-> "active", code |-> c]
    BY <1>2, AboveAssumption DEF Tenant
  <2>3. Above \in Exist
    BY <1>1, <1>6, <2>2, ExistStanding DEF Standing, Tenancies
  <2> QED BY <2>1, <2>2, <2>3 DEF Rank
<1>9. \A a \in RegencyAdmins : Shaped(admin[a]) /\ Aimed(admin[a])
  BY <1>4, NoWorkShaped DEF Aimed
<1> QED BY <1>4, <1>6, <1>7, <1>8, <1>9 DEF TreeInv

-----------------------------------------------------------------------------
(* What is below a tenant.                                                 *)
LEMMA Ranks ==
  Rank["kabupaten"] = 1 /\ Rank["kecamatan"] = 2 /\ Rank["desa"] = 3
BY DEF Rank

LEMMA ChildStanding ==
  ASSUME TreeTyped, ParentAbove, NEW m \in Nodes, NEW k \in Nodes, tree[k].parent = m
  PROVE  /\ Standing(k) /\ Standing(m)
         /\ Rank[tree[m].level] < Rank[tree[k].level]
<1>1. m # Nil
  BY AboveAssumption
<1>2. Standing(k)
  BY <1>1, RowKinds DEF TreeTyped, Standing
<1>3. k \in Exist
  BY <1>2, ExistStanding
<1>4. m \in Exist /\ Rank[tree[m].level] < Rank[tree[k].level]
  BY <1>1, <1>3 DEF ParentAbove
<1> QED BY <1>2, <1>4, ExistStanding

LEMMA LevelRank ==
  ASSUME NEW n, Standing(n)
  PROVE  /\ Rank[tree[n].level] \in 1 .. 3
         /\ tree[n].level = "desa" <=> Rank[tree[n].level] = 3
BY Ranks DEF Standing, Tenancies

\* The villages below m are its own and those below its children that are none.
LEMMA BelowByChildren ==
  ASSUME TreeTyped, ParentAbove, NEW m \in Nodes
  PROVE  Reaches(m) = Villages(ChildrenOf(m))
                        \cup UNION {Reaches(k) : k \in ChildrenOf(m) \ Villages(ChildrenOf(m))}
<1> DEFINE kids == ChildrenOf(m)
           deeper == UNION {Reaches(k) : k \in kids \ Villages(kids)}
<1>1. ASSUME NEW x \in Reaches(m)
      PROVE  x \in Villages(kids) \cup deeper
  <2>1. x \in Nodes /\ tree[x].level = "desa" /\ tree[x].status = "active"
    BY DEF Reaches
  <2>2. CASE tree[x].parent = m
    BY <2>1, <2>2 DEF ChildrenOf, Villages
  <2>3. CASE tree[x].parent # m
    <3> DEFINE p == tree[x].parent
    <3>1. p \in Exist /\ tree[p].status = "active" /\ tree[p].parent = m
      BY <2>3 DEF Reaches
    <3>2. p \in Nodes /\ p \in kids
      BY <3>1 DEF Exist, ChildrenOf
    <3>3. Standing(x) /\ Standing(p) /\ Rank[tree[p].level] < Rank[tree[x].level]
      BY <2>1, <3>2, ChildStanding
    <3>4. tree[p].level # "desa"
      BY <3>3, LevelRank
    <3>5. x \in Reaches(p) /\ p \in kids \ Villages(kids)
      BY <2>1, <3>2, <3>4 DEF Reaches, Villages
    <3> QED BY <3>5
  <2> QED BY <2>2, <2>3
<1>2. ASSUME NEW x \in Villages(kids)
      PROVE  x \in Reaches(m)
  BY DEF Villages, ChildrenOf, Reaches
<1>3. ASSUME NEW k \in kids \ Villages(kids), NEW x \in Reaches(k)
      PROVE  x \in Reaches(m)
  <2>1. k \in Nodes /\ tree[k].parent = m /\ tree[k].status = "active" /\ tree[k].level # "desa"
    BY DEF Villages, ChildrenOf
  <2>2. x \in Nodes /\ tree[x].level = "desa" /\ tree[x].status = "active"
    BY DEF Reaches
  <2>3. Standing(k) /\ Standing(m) /\ Rank[tree[m].level] < Rank[tree[k].level]
    BY <2>1, ChildStanding
  <2>4. CASE tree[x].parent = k
    BY <2>1, <2>2, <2>3, <2>4, ExistStanding DEF Reaches
  <2>5. CASE tree[x].parent # k
    <3> DEFINE p == tree[x].parent
    <3>1. p \in Nodes /\ tree[p].parent = k
      BY <2>5 DEF Reaches, Exist
    <3>2. Rank[tree[k].level] < Rank[tree[p].level] /\ Standing(p)
      BY <2>1, <3>1, ChildStanding
    <3>3. Rank[tree[p].level] < Rank[tree[x].level] /\ Standing(x)
      BY <2>2, <3>1, ChildStanding
    <3> QED BY <2>3, <3>2, <3>3, LevelRank
  <2> QED BY <2>4, <2>5
<1> QED BY <1>1, <1>2, <1>3

-----------------------------------------------------------------------------
(* Callers read.                                                           *)
LEMMA HeadcountSame ==
  ASSUME people' = people, NEW S
  PROVE  Headcount(S)' = Headcount(S)
BY Zenon DEF Headcount

LEMMA ReachesSame ==
  ASSUME tree' = tree, NEW n
  PROVE  Reaches(n)' = Reaches(n)
BY DEF Reaches, Exist

LEMMA BeneathSame ==
  ASSUME tree' = tree, NEW ms
  PROVE  Beneath(ms)' = Beneath(ms)
BY ReachesSame DEF Beneath

LEMMA SurveyedSame ==
  ASSUME UNCHANGED <<tree, people>>, NEW r
  PROVE  Surveyed(r)' <=> Surveyed(r)
<1>1. Reaches(r.on)' = Reaches(r.on) /\ Beneath(r.todo)' = Beneath(r.todo)
  BY ReachesSame, BeneathSame
<1>2. Headcount(Reaches(r.on))' = Headcount(Reaches(r.on))
  BY <1>1, HeadcountSame
<1> QED BY <1>1, <1>2 DEF Surveyed

\* A caller's step that changes no table leaves the work of the others as it is.
LEMMA CallerSteps ==
  ASSUME TreeInv, UNCHANGED <<tree, people>>, NEW a \in RegencyAdmins,
         DOMAIN admin' = RegencyAdmins, admin' = [b \in RegencyAdmins |-> admin'[b]],
         \A b \in RegencyAdmins \ {a} : admin'[b] = admin[b],
         Shaped(admin[a])', Aimed(admin[a])', unmoved' \subseteq unmoved \cup {a},
         a \in unmoved' => Surveyed(admin'[a])
  PROVE  TreeInv'
<1>1. TreeTyped' /\ HierarchyTypeOK' /\ ParentAbove'
  BY DEF TreeInv, TreeTyped, HierarchyTypeOK, ParentAbove, Exist
<1>2. \A b \in RegencyAdmins \ {a} : (Shaped(admin[b]) /\ Aimed(admin[b]))'
  BY DEF TreeInv, Shaped, Aimed, Standing
<1>3. ASSUME NEW b \in unmoved' \ {a} PROVE Surveyed(admin[b])'
  <2>1. b \in RegencyAdmins /\ b \in unmoved /\ admin'[b] = admin[b]
    BY DEF TreeInv
  <2>2. Surveyed(admin[b])
    BY <2>1 DEF TreeInv
  <2> QED BY <2>1, <2>2, SurveyedSame
<1>4. a \in unmoved' => Surveyed(admin[a])'
  BY SurveyedSame
<1>5. unmoved' \subseteq RegencyAdmins
  BY DEF TreeInv
<1> QED BY <1>1, <1>2, <1>3, <1>4, <1>5 DEF TreeInv

LEMMA TreeChecksKeep ==
  ASSUME TreeInv, NEW a \in RegencyAdmins,
         ProvisionCheck(a) \/ CreateCheck(a) \/ InsertRefused(a) \/ OverviewRead(a)
  PROVE  TreeInv'
<1>1. UNCHANGED <<tree, people>> /\ unmoved' \subseteq unmoved
  BY DEF ProvisionCheck, CreateCheck, InsertRefused, OverviewRead
<1>2. CASE InsertRefused(a) \/ OverviewRead(a)
  <2>1. admin' = [admin EXCEPT ![a] = NoWork] /\ a \notin unmoved'
    BY <1>2 DEF InsertRefused, OverviewRead, Done, TreeInv, Surveyed
  <2>2. Shaped(admin[a])' /\ Aimed(admin[a])'
    BY <2>1, NoWorkShaped DEF TreeInv, Aimed, Shaped
  <2> QED BY <1>1, <2>1, <2>2, CallerSteps DEF TreeInv
<1>3. CASE CreateCheck(a)
  <2>1. PICK c \in TenantCodes :
          admin' = [admin EXCEPT ![a] = [NoWork EXCEPT !.op = "create", !.step = "insert", !.code = c]]
    BY <1>3 DEF CreateCheck
  <2> DEFINE w == CreateWork(c)
  <2>2. Shaped(w) /\ w.op = "create" /\ w.step = "insert" /\ w.on = Nil /\ w.code = c
    BY CreateBegun
  <2>4. admin' = [admin EXCEPT ![a] = w]
    BY <2>1 DEF CreateWork
  <2> HIDE DEF w
  <2>3. a \notin unmoved'
    BY <1>3, NoWorkShaped DEF CreateCheck, TreeInv, Surveyed
  <2>5. Shaped(admin[a])' /\ Aimed(admin[a])'
    BY <2>2, <2>4 DEF TreeInv, Aimed, Shaped
  <2> QED BY <1>1, <2>3, <2>4, <2>5, CallerSteps DEF TreeInv
<1>4. CASE ProvisionCheck(a)
  <2>1. PICK p \in Exist, c \in TenantCodes :
          /\ tree[p].level \in {"kabupaten", "kecamatan"}
          /\ admin' = [admin EXCEPT ![a] = [NoWork EXCEPT !.op = "provision", !.step = "insert", !.on = p, !.code = c]]
    BY <1>4 DEF ProvisionCheck
  <2> DEFINE w == ProvisionWork(p, c)
  <2>2. Shaped(w) /\ w.op = "provision" /\ w.step = "insert" /\ w.on = p /\ w.code = c
    BY ProvisionBegun
  <2>4. admin' = [admin EXCEPT ![a] = w]
    BY <2>1 DEF ProvisionWork
  <2> HIDE DEF w
  <2>3. a \notin unmoved'
    BY <1>4, NoWorkShaped DEF ProvisionCheck, TreeInv, Surveyed
  <2>5. p \in Nodes /\ Standing(p)
    BY ExistStanding DEF Exist, TreeInv
  <2>6. Shaped(admin[a])' /\ Aimed(admin[a])'
    BY <1>1, <2>1, <2>2, <2>4, <2>5 DEF TreeInv, Aimed, Shaped, Standing
  <2> QED BY <1>1, <2>3, <2>4, <2>6, CallerSteps DEF TreeInv
<1> QED BY <1>2, <1>3, <1>4

LEMMA TreeStartKeeps ==
  ASSUME TreeInv, NEW a \in RegencyAdmins, OverviewStart(a)
  PROVE  TreeInv'
<1>1. UNCHANGED <<tree, people>> /\ unmoved' = unmoved \cup {a}
  BY DEF OverviewStart
<1>2. PICK n \in Exist :
        admin' = [admin EXCEPT ![a] = [NoWork EXCEPT !.op = "overview", !.step = "collect", !.on = n, !.todo = {n}]]
  BY DEF OverviewStart
<1> DEFINE w == OverviewWork(n, {n})
<1>3. Shaped(w) /\ w.step = "collect" /\ w.on = n /\ w.todo = {n} /\ w.found = {}
  BY OverviewBegun
<1>4. admin' = [admin EXCEPT ![a] = w] /\ admin'[a] = w
  BY <1>2 DEF OverviewWork, TreeInv
<1> HIDE DEF w
<1>5. Shaped(admin[a])' /\ Aimed(admin[a])'
  BY <1>3, <1>4 DEF Aimed, Shaped
<1>6. Surveyed(w)
  <2>1. n \in Nodes
    BY DEF Exist
  <2>2. {} \cup Beneath({n}) = Reaches(n)
    BY DEF Beneath
  <2> QED BY <1>3, <2>1, <2>2 DEF Surveyed
<1> QED BY <1>1, <1>4, <1>5, <1>6, CallerSteps DEF TreeInv

LEMMA DescendKeeps ==
  ASSUME TreeInv, NEW a \in RegencyAdmins, Descend(a)
  PROVE  TreeInv'
<1> DEFINE r == admin[a]
<1>1. UNCHANGED <<tree, people, unmoved>> /\ Shaped(r) /\ r.step = "collect"
  BY DEF Descend, TreeInv
<1>2. PICK n \in r.todo :
        admin' = [admin EXCEPT ![a].todo = (@ \ {n}) \cup (ChildrenOf(n) \ Villages(ChildrenOf(n))),
                               ![a].found = @ \cup Villages(ChildrenOf(n))]
  BY DEF Descend
<1> DEFINE kids == ChildrenOf(n)
           deeper == kids \ Villages(kids)
           todo == (r.todo \ {n}) \cup deeper
           found == r.found \cup Villages(kids)
           p == [r EXCEPT !.todo = todo]
           q == [p EXCEPT !.found = @ \cup Villages(kids)]
<1>3. admin' = [b \in RegencyAdmins |-> IF b = a THEN q ELSE admin[b]]
  BY <1>2 DEF TreeInv
<1> HIDE DEF kids
<1>4. Shaped(q) /\ q.step = "collect" /\ q.on = r.on /\ q.todo = todo /\ q.found = found
  <2> HIDE DEF todo
  <2>1. p = [op |-> r.op, step |-> r.step, on |-> r.on, code |-> r.code, todo |-> todo,
             found |-> r.found, total |-> r.total, each |-> r.each]
    BY <1>1 DEF Shaped
  <2>2. p.found = r.found /\ p.todo = todo
    BY <2>1
  <2> HIDE DEF p
  <2>3. p.found \cup Villages(kids) = found
    BY <2>2
  <2> HIDE DEF found
  <2>4. q = [op |-> r.op, step |-> r.step, on |-> r.on, code |-> r.code, todo |-> todo,
             found |-> found, total |-> r.total, each |-> r.each]
    BY <2>1, <2>3
  <2> QED BY <1>1, <2>4 DEF Shaped
<1> HIDE DEF q
<1>5. /\ DOMAIN admin' = RegencyAdmins /\ admin' = [b \in RegencyAdmins |-> admin'[b]]
      /\ admin'[a] = q /\ \A b \in RegencyAdmins \ {a} : admin'[b] = admin[b]
  BY <1>3
<1>6. Shaped(admin[a])' /\ Aimed(admin[a])'
  BY <1>4, <1>5 DEF Shaped, Aimed
<1>7. a \in unmoved => Surveyed(q)
  <2> SUFFICES ASSUME a \in unmoved PROVE Surveyed(q)
    OBVIOUS
  <2>1. Surveyed(r)
    BY DEF TreeInv
  <2>2. r.todo \subseteq Nodes /\ kids \subseteq Nodes /\ r.on \in Nodes
    BY <1>1, <2>1 DEF Surveyed, ChildrenOf, kids
  <2>3. Reaches(n) = Villages(kids) \cup Beneath(deeper)
    BY <2>2, BelowByChildren DEF TreeInv, Beneath, kids
  <2>4. r.found \cup Beneath(r.todo) = Reaches(r.on)
    BY <1>1, <2>1 DEF Surveyed
  <2>5. found \cup Beneath(todo) = Reaches(r.on)
    <3>1. Beneath(r.todo) = Reaches(n) \cup Beneath(r.todo \ {n})
      BY DEF Beneath
    <3>2. Beneath(todo) = Beneath(r.todo \ {n}) \cup Beneath(deeper)
      <4> HIDE DEF deeper
      <4> QED BY DEF Beneath
    <3> HIDE DEF deeper, todo
    <3> QED BY <2>3, <2>4, <3>1, <3>2
  <2>6. todo \subseteq Nodes
    BY <2>2
  <2> HIDE DEF todo, found
  <2> QED BY <1>4, <2>2, <2>5, <2>6 DEF Surveyed
<1> QED BY <1>1, <1>5, <1>6, <1>7, CallerSteps

LEMMA TotalsKeep ==
  ASSUME TreeInv, NEW a \in RegencyAdmins, CountTotals(a)
  PROVE  TreeInv'
<1> DEFINE r == admin[a]
           total == Headcount(r.found)
           p == [r EXCEPT !.step = "each"]
           q == [p EXCEPT !.total = total]
<1>1. UNCHANGED <<tree, people, unmoved>> /\ Shaped(r) /\ r.step = "collect" /\ r.todo = {}
  BY DEF CountTotals, TreeInv
<1>2. admin' = [b \in RegencyAdmins |-> IF b = a THEN q ELSE admin[b]]
  BY DEF CountTotals, TreeInv
<1> HIDE DEF total
<1>3. Shaped(q) /\ q.step = "each" /\ q.on = r.on /\ q.found = r.found /\ q.total = total
  <2>1. p = [op |-> r.op, step |-> "each", on |-> r.on, code |-> r.code, todo |-> r.todo,
             found |-> r.found, total |-> r.total, each |-> r.each]
    BY <1>1 DEF Shaped
  <2> HIDE DEF p
  <2>2. q = [op |-> r.op, step |-> "each", on |-> r.on, code |-> r.code, todo |-> r.todo,
             found |-> r.found, total |-> total, each |-> r.each]
    BY <2>1
  <2> QED BY <2>2 DEF Shaped
<1> HIDE DEF q
<1>4. /\ DOMAIN admin' = RegencyAdmins /\ admin' = [b \in RegencyAdmins |-> admin'[b]]
      /\ admin'[a] = q /\ \A b \in RegencyAdmins \ {a} : admin'[b] = admin[b]
  BY <1>2
<1>5. Shaped(admin[a])' /\ Aimed(admin[a])'
  BY <1>3, <1>4 DEF Shaped, Aimed
<1>6. a \in unmoved => Surveyed(q)
  <2> SUFFICES ASSUME a \in unmoved PROVE Surveyed(q)
    OBVIOUS
  <2>1. r.found \cup Beneath(r.todo) = Reaches(r.on) /\ r.on \in Nodes
    BY <1>1 DEF TreeInv, Surveyed
  <2>2. r.found = Reaches(r.on)
    BY <1>1, <2>1 DEF Beneath
  <2> QED BY <1>3, <2>1, <2>2 DEF Surveyed, total
<1> QED BY <1>1, <1>4, <1>5, <1>6, CallerSteps

LEMMA EachKeeps ==
  ASSUME TreeInv, NEW a \in RegencyAdmins, CountEach(a)
  PROVE  TreeInv'
<1> DEFINE r == admin[a]
           each == [m \in r.found \cap Exist |-> people[m]]
           p == [r EXCEPT !.step = "answered"]
           q == [p EXCEPT !.each = each]
<1>1. UNCHANGED <<tree, people, unmoved>> /\ Shaped(r) /\ r.step = "each"
  BY DEF CountEach, TreeInv
<1>2. admin' = [b \in RegencyAdmins |-> IF b = a THEN q ELSE admin[b]]
  BY DEF CountEach, TreeInv
<1> HIDE DEF each
<1>3. Shaped(q) /\ q.step = "answered" /\ q.on = r.on /\ q.total = r.total /\ q.each = each
  <2>1. p = [op |-> r.op, step |-> "answered", on |-> r.on, code |-> r.code, todo |-> r.todo,
             found |-> r.found, total |-> r.total, each |-> r.each]
    BY <1>1 DEF Shaped
  <2> HIDE DEF p
  <2>2. q = [op |-> r.op, step |-> "answered", on |-> r.on, code |-> r.code, todo |-> r.todo,
             found |-> r.found, total |-> r.total, each |-> each]
    BY <2>1
  <2> QED BY <2>2 DEF Shaped
<1> HIDE DEF q
<1>4. /\ DOMAIN admin' = RegencyAdmins /\ admin' = [b \in RegencyAdmins |-> admin'[b]]
      /\ admin'[a] = q /\ \A b \in RegencyAdmins \ {a} : admin'[b] = admin[b]
  BY <1>2
<1>5. Shaped(admin[a])' /\ Aimed(admin[a])'
  BY <1>3, <1>4 DEF Shaped, Aimed
<1>6. a \in unmoved => Surveyed(q)
  <2> SUFFICES ASSUME a \in unmoved PROVE Surveyed(q)
    OBVIOUS
  <2>1. r.found = Reaches(r.on) /\ r.on \in Nodes /\ r.total = Headcount(Reaches(r.on))
    BY <1>1 DEF TreeInv, Surveyed
  <2>2. ASSUME NEW x \in Reaches(r.on) PROVE x \in Exist
    <3>1. x \in Nodes /\ tree[x].level = "desa"
      BY DEF Reaches
    <3> QED BY <3>1, RowKinds DEF Exist
  <2>3. r.found \cap Exist = Reaches(r.on)
    BY <2>1, <2>2
  <2> QED BY <1>3, <2>1, <2>3 DEF Surveyed, each
<1> QED BY <1>1, <1>4, <1>5, <1>6, CallerSteps

-----------------------------------------------------------------------------
(* The tables change.                                                      *)
\* Tenants stay or go, and keep their level.
LevelsStay ==
  \A n \in Nodes :
    /\ tree[n] = Dissolved => tree'[n] = Dissolved
    /\ Standing(n) => tree'[n] = Dissolved \/ (Standing(n)' /\ tree'[n].level = tree[n].level)

LEMMA TablesChange ==
  ASSUME TreeInv, TreeTyped', HierarchyTypeOK', ParentAbove', unmoved' = {}, LevelsStay,
         admin' = admin \/ \E a \in RegencyAdmins : admin' = [admin EXCEPT ![a] = NoWork]
  PROVE  TreeInv'
<1>1. DOMAIN admin' = RegencyAdmins /\ admin' = [a \in RegencyAdmins |-> admin'[a]]
  BY DEF TreeInv
<1>2. ASSUME NEW a \in RegencyAdmins PROVE Shaped(admin[a])' /\ Aimed(admin[a])'
  <2>1. admin'[a] = admin[a] \/ admin'[a] = NoWork
    BY DEF TreeInv
  <2>2. CASE admin'[a] = NoWork
    <3>1. Shaped(NoWork)' /\ Aimed(NoWork)'
      BY NoWorkShaped DEF Shaped, Aimed
    <3> QED BY <2>2, NoWorkShaped DEF Shaped, Aimed
  <2>3. CASE admin'[a] = admin[a]
    <3>1. Shaped(admin[a]) /\ Aimed(admin[a])
      BY DEF TreeInv
    <3> QED BY <2>3, <3>1 DEF Shaped, Aimed, LevelsStay
  <2> QED BY <2>1, <2>2, <2>3
<1> QED BY <1>1, <1>2 DEF TreeInv

LEMMA InsertTenantKeeps ==
  ASSUME TreeInv, NEW a \in RegencyAdmins, InsertTenant(a)
  PROVE  TreeInv'
<1> DEFINE w == admin[a]
           n == AnyOf(Free)
<1>1. n \in Nodes /\ tree[n] = Absent
  <2>1. n \in Free
    BY AnyIsOne DEF InsertTenant
  <2> QED BY <2>1 DEF Free
<1> HIDE DEF n
<1>2. PICK s \in {"active", "inactive"} :
        tree' = [tree EXCEPT ![n] = Tenant("desa", w.on, s, w.code)] /\ people' = [people EXCEPT ![n] = 0]
  BY DEF InsertTenant, n
<1>3. /\ admin' = [admin EXCEPT ![a] = NoWork] /\ unmoved' = {}
      /\ w.code \notin CodesUsed /\ w.on \in Exist \cup {Nil}
  BY DEF InsertTenant, Done, Moved, Accepts
<1>4. /\ w.code \in TenantCodes
      /\ w.on # Nil => w.on \in Exist /\ w.on \in Nodes /\ Standing(w.on) /\ tree[w.on].level \in {"kabupaten", "kecamatan"}
  <2>1. Aimed(w) /\ w.step = "insert"
    BY DEF TreeInv, InsertTenant
  <2>2. Nil \notin Nodes
    BY AboveAssumption
  <2> QED BY <1>3, <2>1, <2>2, RowKinds DEF Aimed, Exist
<1> DEFINE new == [level |-> "desa", parent |-> w.on, status |-> s, code |-> w.code]
<1>5. new \in Tenancies /\ tree' = [tree EXCEPT ![n] = new]
  BY <1>2, <1>4 DEF Tenancies, Tenant
<1>6. new.level = "desa" /\ new.parent = w.on /\ new.code = w.code
  OBVIOUS
<1> HIDE DEF new
<1>7. TreeTyped'
  BY <1>1, <1>5 DEF TreeInv, TreeTyped
<1>8. tree'[n] = new /\ \A m \in Nodes \ {n} : tree'[m] = tree[m]
  BY <1>1, <1>5 DEF TreeInv, TreeTyped
<1>9. n \notin Exist /\ Exist' = Exist \cup {n}
  <2>1. new \notin {Absent, Dissolved}
    BY <1>5, RowKinds
  <2> QED BY <1>1, <1>8, <2>1 DEF Exist
<1>10. HierarchyTypeOK'
  <2>1. \A m \in Exist' : tree'[m].level \in {"kabupaten", "kecamatan", "desa"} /\ tree'[m].code \in TenantCodes
    BY <1>4, <1>6, <1>8, <1>9 DEF TreeInv, HierarchyTypeOK, Exist
  <2>2. \A m, k \in Exist' : m # k => tree'[m].code # tree'[k].code
    <3>1. \A m \in Exist : tree[m].code # w.code /\ m # n /\ m \in Nodes
      BY <1>3, <1>9 DEF CodesUsed, Exist
    <3> QED BY <1>6, <1>8, <1>9, <3>1 DEF TreeInv, HierarchyTypeOK
  <2>3. people' \in [Nodes -> 0 .. MaxPeople]
    <3>1. people \in [Nodes -> 0 .. MaxPeople]
      BY DEF TreeInv, HierarchyTypeOK
    <3>2. 0 \in 0 .. MaxPeople
      BY AboveAssumption
    <3>3. people' = [people EXCEPT ![n] = 0]
      BY <1>2
    <3> QED BY <3>1, <3>2, <3>3
  <2> QED BY <2>1, <2>2, <2>3 DEF HierarchyTypeOK
<1>11. ParentAbove'
  <2> SUFFICES ASSUME NEW m \in Exist', tree'[m].parent # Nil
               PROVE  tree'[m].parent \in Exist' /\ Rank[tree'[tree'[m].parent].level] < Rank[tree'[m].level]
    BY DEF ParentAbove, Rank
  <2>1. CASE m = n
    <3>1. w.on \in Exist /\ w.on # n /\ tree[w.on].level \in {"kabupaten", "kecamatan"} /\ w.on \in Nodes
      BY <1>4, <1>6, <1>8, <1>9, <2>1
    <3> QED BY <1>6, <1>8, <1>9, <2>1, <3>1, Ranks
  <2>2. CASE m # n
    <3>1. m \in Exist /\ m \in Nodes /\ tree'[m] = tree[m]
      BY <1>8, <1>9, <2>2 DEF Exist
    <3>2. tree[m].parent \in Exist /\ Rank[tree[tree[m].parent].level] < Rank[tree[m].level]
      BY <3>1 DEF TreeInv, ParentAbove
    <3>3. tree'[tree[m].parent] = tree[tree[m].parent]
      BY <1>8, <1>9, <3>2 DEF Exist
    <3> QED BY <1>9, <3>1, <3>2, <3>3
  <2> QED BY <2>1, <2>2
<1>12. LevelsStay
  BY <1>1, <1>8, RowKinds DEF LevelsStay, Standing
<1> QED BY <1>3, <1>7, <1>10, <1>11, <1>12, TablesChange

LEMMA UpdateTenantKeeps ==
  ASSUME TreeInv, NEW n \in Nodes, NEW s \in {"active", "inactive"}, UpdateTenant(n, s)
  PROVE  TreeInv'
<1> DEFINE new == [tree[n] EXCEPT !.status = s]
<1>1. n \in Exist /\ tree' = [tree EXCEPT ![n] = new] /\ unmoved' = {} /\ UNCHANGED <<people, admin>>
  BY DEF UpdateTenant, Moved
<1>2. tree[n] \in Tenancies
  BY <1>1, ExistStanding DEF TreeInv, Standing
<1>3. new \in Tenancies /\ new.level = tree[n].level /\ new.parent = tree[n].parent /\ new.code = tree[n].code
  BY <1>2 DEF Tenancies
<1> HIDE DEF new
<1>4. TreeTyped' /\ tree'[n] = new /\ \A m \in Nodes \ {n} : tree'[m] = tree[m]
  BY <1>1, <1>3 DEF TreeInv, TreeTyped
<1>5. Exist' = Exist
  BY <1>1, <1>3, <1>4, RowKinds DEF Exist
<1>6. \A m \in Nodes : tree'[m].level = tree[m].level /\ tree'[m].parent = tree[m].parent /\ tree'[m].code = tree[m].code
  BY <1>3, <1>4
<1>7. HierarchyTypeOK'
  BY <1>1, <1>5, <1>6 DEF TreeInv, HierarchyTypeOK, Exist
<1>8. ParentAbove'
  <2> SUFFICES ASSUME NEW m \in Exist', tree'[m].parent # Nil
               PROVE  tree'[m].parent \in Exist' /\ Rank[tree'[tree'[m].parent].level] < Rank[tree'[m].level]
    BY DEF ParentAbove, Rank
  <2>1. tree[m].parent \in Exist /\ Rank[tree[tree[m].parent].level] < Rank[tree[m].level] /\ m \in Nodes
    BY <1>5, <1>6 DEF TreeInv, ParentAbove, Exist
  <2> QED BY <1>5, <1>6, <2>1 DEF Exist
<1>9. LevelsStay
  BY <1>2, <1>3, <1>4, RowKinds DEF LevelsStay, Standing
<1> QED BY <1>1, <1>4, <1>7, <1>8, <1>9, TablesChange

LEMMA RemoveTenantKeeps ==
  ASSUME TreeInv, NEW n \in Nodes, RemoveTenant(n)
  PROVE  TreeInv'
<1>1. /\ n \in Exist /\ unmoved' = {} /\ UNCHANGED admin /\ people' = [people EXCEPT ![n] = 0]
      /\ tree' = [m \in Nodes |-> IF m = n THEN Dissolved
                                 ELSE IF tree[m].parent = n THEN [tree[m] EXCEPT !.parent = Nil]
                                 ELSE tree[m]]
  BY DEF RemoveTenant, Moved
<1>2. n # Nil
  BY AboveAssumption
<1>3. tree'[n] = Dissolved
  BY <1>1
<1>4. ASSUME NEW m \in Nodes \ {n}
      PROVE  /\ tree[m] \in Tenancies =>
                  /\ tree'[m] \in Tenancies /\ tree'[m].level = tree[m].level /\ tree'[m].code = tree[m].code
                  /\ tree'[m].parent = IF tree[m].parent = n THEN Nil ELSE tree[m].parent
             /\ tree[m] \notin Tenancies => tree'[m] = tree[m]
  <2>1. tree[m] \in Tenancies \cup {Absent, Dissolved}
    BY DEF TreeInv, TreeTyped
  <2>2. CASE tree[m].parent # n
    BY <1>1, <2>2
  <2>3. CASE tree[m].parent = n
    <3>1. tree'[m] = [tree[m] EXCEPT !.parent = Nil]
      BY <1>1, <2>3
    <3>2. tree[m] \in Tenancies
      BY <1>2, <2>1, <2>3, RowKinds
    <3> QED BY <2>3, <3>1, <3>2 DEF Tenancies
  <2> QED BY <2>2, <2>3
<1>5. TreeTyped'
  <2>1. \A m \in Nodes : tree'[m] \in Tenancies \cup {Absent, Dissolved}
    BY <1>3, <1>4 DEF TreeInv, TreeTyped
  <2> QED BY <1>1, <2>1 DEF TreeTyped
<1>6. \A m \in Nodes : m \in Exist' <=> m \in Exist /\ m # n
  <2> SUFFICES ASSUME NEW m \in Nodes PROVE m \in Exist' <=> m \in Exist /\ m # n
    OBVIOUS
  <2>1. m \in Exist' <=> tree'[m] \in Tenancies
    BY <1>5, RowKinds DEF TreeTyped, Exist
  <2>2. m \in Exist <=> tree[m] \in Tenancies
    BY ExistStanding DEF Standing, TreeInv
  <2> QED BY <1>3, <1>4, <2>1, <2>2, RowKinds DEF TreeInv, TreeTyped
<1>7. \A m \in Exist' : m \in Nodes /\ m # n /\ m \in Exist /\ tree[m] \in Tenancies
  <2>1. \A m \in Exist' : m \in Nodes
    BY DEF Exist
  <2> QED BY <1>6, <2>1, ExistStanding DEF Standing, TreeInv
<1>8. HierarchyTypeOK'
  <2>1. people' \in [Nodes -> 0 .. MaxPeople]
    BY <1>1, AboveAssumption DEF TreeInv, HierarchyTypeOK
  <2>2. \A m \in Exist' : tree'[m].level = tree[m].level /\ tree'[m].code = tree[m].code
    BY <1>4, <1>7
  <2> QED BY <1>7, <2>1, <2>2 DEF TreeInv, HierarchyTypeOK
<1>9. ParentAbove'
  <2> SUFFICES ASSUME NEW m \in Exist', tree'[m].parent # Nil
               PROVE  tree'[m].parent \in Exist' /\ Rank[tree'[tree'[m].parent].level] < Rank[tree'[m].level]
    BY DEF ParentAbove, Rank
  <2>1. /\ m \in Nodes \ {n} /\ m \in Exist /\ tree'[m].level = tree[m].level
        /\ tree[m].parent # n /\ tree'[m].parent = tree[m].parent
    BY <1>4, <1>7
  <2> DEFINE p == tree[m].parent
  <2>2. p \in Exist /\ Rank[tree[p].level] < Rank[tree[m].level] /\ p \in Nodes \ {n}
    BY <2>1 DEF TreeInv, ParentAbove, Exist
  <2>3. p \in Exist' /\ tree'[p].level = tree[p].level
    BY <1>4, <1>6, <1>7, <2>2
  <2> QED BY <2>1, <2>2, <2>3
<1>10. LevelsStay
  BY <1>3, <1>4, RowKinds DEF LevelsStay, Standing
<1> QED BY <1>1, <1>5, <1>8, <1>9, <1>10, TablesChange

LEMMA MovePeopleKeeps ==
  ASSUME TreeInv, NEW n \in Nodes, PeopleMove(n)
  PROVE  TreeInv'
<1>1. /\ UNCHANGED <<tree, admin>> /\ unmoved' = {}
      /\ \E k \in 0 .. MaxPeople : people' = [people EXCEPT ![n] = k]
  BY DEF PeopleMove, Moved
<1>2. people' \in [Nodes -> 0 .. MaxPeople]
  BY <1>1 DEF TreeInv, HierarchyTypeOK
<1>3. TreeTyped' /\ HierarchyTypeOK' /\ ParentAbove' /\ LevelsStay
  BY <1>1, <1>2 DEF TreeInv, TreeTyped, HierarchyTypeOK, ParentAbove, Exist, LevelsStay, Standing
<1> QED BY <1>1, <1>3, TablesChange

LEMMA TreeStep == TreeInv /\ [HierarchyNext]_treeVars => TreeInv'
<1> SUFFICES ASSUME TreeInv, [HierarchyNext]_treeVars PROVE TreeInv'
  OBVIOUS
<1>1. CASE UNCHANGED treeVars
  <2>1. UNCHANGED <<tree, people, admin, unmoved>>
    BY <1>1 DEF treeVars
  <2>2. TreeTyped' /\ HierarchyTypeOK' /\ ParentAbove'
    BY <2>1 DEF TreeInv, TreeTyped, HierarchyTypeOK, ParentAbove, Exist
  <2>3. \A a \in RegencyAdmins : (Shaped(admin[a]) /\ Aimed(admin[a]))'
    BY <2>1 DEF TreeInv, Shaped, Aimed, Standing
  <2>4. \A a \in unmoved' : Surveyed(admin[a])'
    BY <2>1, SurveyedSame DEF TreeInv
  <2> QED BY <2>1, <2>2, <2>3, <2>4 DEF TreeInv
<1>2. CASE HierarchyNext
  <2>1. ASSUME NEW a \in RegencyAdmins,
               \/ ProvisionCheck(a) \/ CreateCheck(a) \/ InsertTenant(a) \/ InsertRefused(a)
               \/ OverviewStart(a) \/ Descend(a) \/ CountTotals(a) \/ CountEach(a) \/ OverviewRead(a)
        PROVE  TreeInv'
    BY <2>1, TreeChecksKeep, InsertTenantKeeps, TreeStartKeeps, DescendKeeps, TotalsKeep, EachKeeps
  <2>2. ASSUME NEW n \in Nodes, RemoveTenant(n) \/ PeopleMove(n)
        PROVE  TreeInv'
    BY <2>2, RemoveTenantKeeps, MovePeopleKeeps
  <2>3. ASSUME NEW n \in Nodes, NEW s \in {"active", "inactive"}, UpdateTenant(n, s)
        PROVE  TreeInv'
    BY <2>3, UpdateTenantKeeps
  <2> QED BY <1>2, <2>1, <2>2, <2>3 DEF HierarchyNext
<1> QED BY <1>1, <1>2

LEMMA TreeFollows == TreeInv => TreeSound
<1> SUFFICES ASSUME TreeInv PROVE TreeSound
  OBVIOUS
<1>1. OverviewExact
  <2> SUFFICES ASSUME NEW a \in unmoved, admin[a].step = "answered"
               PROVE  /\ DOMAIN admin[a].each = Reaches(admin[a].on)
                      /\ admin[a].total = Headcount(Reaches(admin[a].on))
                      /\ \A m \in DOMAIN admin[a].each : admin[a].each[m] = people[m]
    BY DEF OverviewExact
  <2>1. Surveyed(admin[a])
    BY DEF TreeInv
  <2> QED BY <2>1 DEF Surveyed
<1> QED BY <1>1 DEF TreeInv, TreeSound

\* The tree keeps its order whatever villages are provisioned, created, changed and removed
\* meanwhile, and an overview during which nothing moved gives every village below its tenant
\* with its own headcount, and their total.
THEOREM TreeStands == HierarchySpec => []TreeSound
BY TreeInit, TreeStep, TreeFollows, PTL DEF HierarchySpec
-----------------------------------------------------------------------------
(***************************************************************************)
(* The seed script, for any number of processes that run it, of runs and of *)
(* changes by the staff.                                                    *)
(***************************************************************************)
\* The names of the rows it writes, and the steps it is made of.
Names == {"permissions", "regency", "district", "tenant", "village", "hamlet", "units",
          "superadmin", "roles", "grants", "admin", "adminRole", "letterTypes", "template",
          "settings", "agenda", "head", "resident", "family", "link", "member", "post",
          "gallery", "year", "items", "document", "project", "aid", "asset", "unit",
          "record", "gis"}
Steps == [how : {"upsert", "find", "insert", "first"}, rows : Seq(Names)]
StepFits(st) ==
  /\ Len(st.rows) >= 1
  /\ st.how = "insert" => Len(st.rows) = 1 /\ st.rows[1] = "superadmin"
  /\ Len(st.rows) > 1 => /\ st.rows[1] = "head"
                         /\ \A j \in DOMAIN st.rows : st.rows[j] \notin Followed \cup Skippable
\* The steps of a part of the script write the rows R, each in one place.
Fits(steps, R) ==
  /\ steps \in Seq(Steps) /\ Len(steps) >= 1
  /\ \A i \in DOMAIN steps : StepFits(steps[i])
  /\ \A i \in DOMAIN steps : \A j \in DOMAIN steps[i].rows : steps[i].rows[j] \in R
  /\ \A i, k \in DOMAIN steps : \A j \in DOMAIN steps[i].rows, l \in DOMAIN steps[k].rows :
       steps[i].rows[j] = steps[k].rows[l] => i = k /\ j = l

LEMMA Joined ==
  ASSUME NEW s, NEW R, NEW t, NEW Q, Fits(s, R), Fits(t, Q), R \cap Q = {}
  PROVE  Fits(s \o t, R \cup Q)
<1> DEFINE u == s \o t
<1>1. s \in Seq(Steps) /\ t \in Seq(Steps)
  BY DEF Fits
<1>2. /\ u \in Seq(Steps) /\ DOMAIN u = 1 .. (Len(s) + Len(t))
      /\ Len(u) = Len(s) + Len(t) /\ Len(s) >= 1 /\ Len(t) >= 1
  BY <1>1 DEF Fits
<1>3. \A i \in DOMAIN u : \/ i \in DOMAIN s /\ u[i] = s[i]
                          \/ i \notin DOMAIN s /\ i - Len(s) \in DOMAIN t /\ u[i] = t[i - Len(s)]
  BY <1>1
<1> HIDE DEF u
<1>4. \A i \in DOMAIN u : StepFits(u[i])
  BY <1>3 DEF Fits
<1>5. \A i \in DOMAIN u : \A j \in DOMAIN u[i].rows :
        u[i].rows[j] \in R \cup Q /\ (i \in DOMAIN s <=> u[i].rows[j] \in R)
  BY <1>3 DEF Fits
<1>6. ASSUME NEW i \in DOMAIN u, NEW k \in DOMAIN u,
             NEW j \in DOMAIN u[i].rows, NEW l \in DOMAIN u[k].rows,
             u[i].rows[j] = u[k].rows[l]
      PROVE  i = k /\ j = l
  <2>1. i \in DOMAIN s <=> k \in DOMAIN s
    BY <1>5, <1>6
  <2>2. CASE i \in DOMAIN s
    BY <1>3, <1>6, <2>1, <2>2 DEF Fits
  <2>3. CASE i \notin DOMAIN s
    <3>1. i - Len(s) = k - Len(s) /\ j = l
      BY <1>3, <1>6, <2>1, <2>3 DEF Fits
    <3>. QED
      BY <1>1, <1>2, <3>1
  <2>. QED
    BY <2>2, <2>3
<1>. QED
  BY <1>2, <1>4, <1>5, <1>6 DEF Fits, u

LEMMA EachFits ==
  ASSUME NEW how \in {"upsert", "find", "first"}, NEW names \in Seq(Names), Len(names) >= 1,
         \A i, k \in DOMAIN names : names[i] = names[k] => i = k
  PROVE  Fits(Each(how, names), {names[i] : i \in DOMAIN names})
<1> DEFINE u == Each(how, names)
<1>1. u = [i \in 1 .. Len(names) |-> [how |-> how, rows |-> <<names[i]>>]]
  BY DEF Each, SeedStep
<1>2. \A i \in 1 .. Len(names) : <<names[i]>> \in Seq(Names)
  OBVIOUS
<1>3. \A i \in 1 .. Len(names) : [how |-> how, rows |-> <<names[i]>>] \in Steps
  BY <1>2 DEF Steps
<1>4. u \in Seq(Steps) /\ Len(u) = Len(names)
  BY <1>1, <1>3
<1>5. DOMAIN u = DOMAIN names
  BY <1>1
<1>6. \A i \in DOMAIN u : /\ u[i].how = how /\ Len(u[i].rows) = 1
                          /\ DOMAIN u[i].rows = {1} /\ u[i].rows[1] = names[i]
  BY <1>1
<1> HIDE DEF u
<1>7. \A i \in DOMAIN u : StepFits(u[i])
  <2> SUFFICES ASSUME NEW i \in DOMAIN u
               PROVE  StepFits(u[i])
    OBVIOUS
  <2>1. u[i].how # "insert" /\ Len(u[i].rows) = 1
    BY <1>6
  <2>. QED
    BY <2>1 DEF StepFits
<1>. QED
  BY <1>4, <1>5, <1>6, <1>7 DEF Fits, u

LEMMA StepFitsAlone ==
  ASSUME NEW how \in {"upsert", "find", "first", "insert"}, NEW r \in Names,
         how = "insert" => r = "superadmin"
  PROVE  Fits(<<SeedStep(how, <<r>>)>>, {r})
<1> DEFINE st == [how |-> how, rows |-> <<r>>]
<1>1. st \in Steps /\ st.how = how /\ DOMAIN st.rows = {1} /\ Len(st.rows) = 1 /\ st.rows[1] = r
  BY DEF Steps
<1>2. StepFits(st)
  BY <1>1 DEF StepFits
<1> HIDE DEF st
<1>. QED
  BY <1>1, <1>2 DEF Fits, SeedStep, st

LEMMA PeopleFit == Fits(SeedPeople, {"head", "resident", "family", "link", "member"})
<1> DEFINE five == <<"head", "resident", "family", "link", "member">>
           st == [how |-> "first", rows |-> five]
<1>1. five \in Seq(Names) /\ DOMAIN five = 1 .. 5 /\ Len(five) = 5
  BY DEF Names
<1>2. /\ five[1] = "head" /\ five[2] = "resident" /\ five[3] = "family"
      /\ five[4] = "link" /\ five[5] = "member"
  OBVIOUS
<1> HIDE DEF five
<1>3. \A j \in 1 .. 5 : j \in {1, 2, 3, 4, 5}
  OBVIOUS
<1>4. \A j \in DOMAIN five : five[j] \notin Followed \cup Skippable
  BY <1>1, <1>2, <1>3 DEF Followed, Skippable
<1>5. \A j, l \in DOMAIN five : five[j] = five[l] => j = l
  BY <1>1, <1>2, <1>3
<1>6. \A j \in DOMAIN five : five[j] \in {"head", "resident", "family", "link", "member"}
  BY <1>1, <1>2, <1>3
<1>7. st \in Steps /\ st.how = "first" /\ st.rows = five
  BY <1>1 DEF Steps
<1>8. StepFits(st)
  BY <1>1, <1>2, <1>4, <1>7 DEF StepFits
<1> HIDE DEF st
<1>9. SeedPeople = <<st>>
  BY DEF SeedPeople, SeedStep, st, five
<1>. QED
  BY <1>5, <1>6, <1>7, <1>8, <1>9 DEF Fits

LEMMA TerritoryFit ==
  Fits(Territory, {"permissions", "regency", "district", "tenant", "village", "hamlet", "units"})
<1> DEFINE names == <<"permissions", "regency", "district", "tenant", "village", "hamlet", "units">>
<1>1. names \in Seq(Names) /\ DOMAIN names = 1 .. 7 /\ Len(names) = 7
  BY DEF Names
<1>2. \A i \in 1 .. 7 : i \in {1, 2, 3, 4, 5, 6, 7}
  OBVIOUS
<1>3. /\ names[1] = "permissions" /\ names[2] = "regency" /\ names[3] = "district"
      /\ names[4] = "tenant" /\ names[5] = "village" /\ names[6] = "hamlet" /\ names[7] = "units"
  OBVIOUS
<1> HIDE DEF names
<1>4. \A i, k \in DOMAIN names : names[i] = names[k] => i = k
  BY <1>1, <1>2, <1>3
<1>5. {names[i] : i \in DOMAIN names}
        = {"permissions", "regency", "district", "tenant", "village", "hamlet", "units"}
  BY <1>1, <1>2, <1>3
<1>6. Len(names) >= 1
  BY <1>1
<1>7. Fits(Each("upsert", names), {names[i] : i \in DOMAIN names})
  BY <1>1, <1>4, <1>6, EachFits
<1>. QED
  BY <1>5, <1>7 DEF Territory, Upserts, names

LEMMA OneFits ==
  ASSUME NEW how \in {"upsert", "find", "first"}, NEW a \in Names
  PROVE  Fits(Each(how, <<a>>), {a})
<1>1. <<a>> \in Seq(Names) /\ DOMAIN <<a>> = {1} /\ Len(<<a>>) = 1
  OBVIOUS
<1>2. {<<a>>[i] : i \in DOMAIN <<a>>} = {a}
  BY <1>1
<1>3. \A i, k \in DOMAIN <<a>> : <<a>>[i] = <<a>>[k] => i = k
  BY <1>1
<1>4. Len(<<a>>) >= 1
  BY <1>1
<1>5. Fits(Each(how, <<a>>), {<<a>>[i] : i \in DOMAIN <<a>>})
  BY <1>1, <1>3, <1>4, EachFits
<1>. QED
  BY <1>2, <1>5

LEMMA TwoFit ==
  ASSUME NEW how \in {"upsert", "find", "first"}, NEW a \in Names, NEW b \in Names, a # b
  PROVE  Fits(Each(how, <<a, b>>), {a, b})
<1>1. <<a, b>> \in Seq(Names) /\ DOMAIN <<a, b>> = {1, 2} /\ Len(<<a, b>>) = 2
  OBVIOUS
<1>2. {<<a, b>>[i] : i \in DOMAIN <<a, b>>} = {a, b}
  BY <1>1
<1>3. \A i, k \in DOMAIN <<a, b>> : <<a, b>>[i] = <<a, b>>[k] => i = k
  BY <1>1
<1>4. Len(<<a, b>>) >= 1
  BY <1>1
<1>5. Fits(Each(how, <<a, b>>), {<<a, b>>[i] : i \in DOMAIN <<a, b>>})
  BY <1>1, <1>3, <1>4, EachFits
<1>. QED
  BY <1>2, <1>5

LEMMA ThreeFit ==
  ASSUME NEW how \in {"upsert", "find", "first"}, NEW a \in Names, NEW b \in Names,
         NEW c \in Names, a # b, a # c, b # c
  PROVE  Fits(Each(how, <<a, b, c>>), {a, b, c})
<1> DEFINE names == <<a, b, c>>
<1>1. names \in Seq(Names) /\ DOMAIN names = {1, 2, 3} /\ Len(names) = 3
  OBVIOUS
<1>2. names[1] = a /\ names[2] = b /\ names[3] = c
  OBVIOUS
<1> HIDE DEF names
<1>3. {names[i] : i \in DOMAIN names} = {a, b, c}
  BY <1>1, <1>2
<1>4. \A i, k \in DOMAIN names : names[i] = names[k] => i = k
  BY <1>1, <1>2
<1>5. Len(names) >= 1
  BY <1>1
<1>6. Fits(Each(how, names), {names[i] : i \in DOMAIN names})
  BY <1>1, <1>4, <1>5, EachFits
<1>. QED
  BY <1>3, <1>6 DEF names

LEMMA ScriptFits == Fits(Script, Names)
<1>1. Fits(Roles, {"superadmin", "roles", "grants"})
  <2>1. Fits(<<SeedStep("insert", <<"superadmin">>)>>, {"superadmin"})
    BY StepFitsAlone DEF Names
  <2>2. Fits(Each("upsert", <<"roles", "grants">>), {"roles", "grants"})
    BY TwoFit DEF Names
  <2>3. Fits(Roles, {"superadmin"} \cup {"roles", "grants"})
    BY <2>1, <2>2, Joined DEF Roles, Upserts
  <2>4. {"superadmin"} \cup {"roles", "grants"} = {"superadmin", "roles", "grants"}
    OBVIOUS
  <2>. QED
    BY <2>3, <2>4
<1>2. Fits(SeedAdmins, {"admin", "adminRole"})
  BY TwoFit DEF SeedAdmins, Upserts, Names
<1>3. Fits(Letters, {"letterTypes", "template"})
  <2>1. Fits(Each("upsert", <<"letterTypes">>), {"letterTypes"})
    BY OneFits DEF Names
  <2>2. Fits(<<SeedStep("find", <<"template">>)>>, {"template"})
    BY StepFitsAlone DEF Names
  <2>3. Fits(Letters, {"letterTypes"} \cup {"template"})
    BY <2>1, <2>2, Joined DEF Letters, Upserts
  <2>4. {"letterTypes"} \cup {"template"} = {"letterTypes", "template"}
    OBVIOUS
  <2>. QED
    BY <2>3, <2>4
<1>4. Fits(SeedSettings, {"settings"})
  BY OneFits DEF SeedSettings, Upserts, Names
<1>5. Fits(Agendas, {"agenda"})
  BY StepFitsAlone DEF Agendas, Names
<1>6. Fits(Content, {"post", "gallery"})
  BY TwoFit DEF Content, Names
<1>7. Fits(Budget, {"year", "items", "document"})
  <2>1. Fits(Each("upsert", <<"year">>), {"year"})
    BY OneFits DEF Names
  <2>2. Fits(Each("first", <<"items", "document">>), {"items", "document"})
    BY TwoFit DEF Names
  <2>3. Fits(Budget, {"year"} \cup {"items", "document"})
    BY <2>1, <2>2, Joined DEF Budget, Upserts
  <2>4. {"year"} \cup {"items", "document"} = {"year", "items", "document"}
    OBVIOUS
  <2>. QED
    BY <2>3, <2>4
<1>8. Fits(Works, {"project", "aid", "asset"})
  BY ThreeFit DEF Works, Names
<1>9. Fits(Bumdes, {"unit", "record"})
  BY TwoFit DEF Bumdes, Names
<1>10. Fits(Maps, {"gis"})
  BY OneFits DEF Maps, Upserts, Names
<1> DEFINE T == {"permissions", "regency", "district", "tenant", "village", "hamlet", "units"}
           P == {"head", "resident", "family", "link", "member"}
           s1 == Territory \o Roles
           R1 == T \cup {"superadmin", "roles", "grants"}
           s2 == s1 \o SeedAdmins
           R2 == R1 \cup {"admin", "adminRole"}
           s3 == s2 \o Letters
           R3 == R2 \cup {"letterTypes", "template"}
           s4 == s3 \o SeedSettings
           R4 == R3 \cup {"settings"}
           s5 == s4 \o Agendas
           R5 == R4 \cup {"agenda"}
           s6 == s5 \o SeedPeople
           R6 == R5 \cup P
           s7 == s6 \o Content
           R7 == R6 \cup {"post", "gallery"}
           s8 == s7 \o Budget
           R8 == R7 \cup {"year", "items", "document"}
           s9 == s8 \o Works
           R9 == R8 \cup {"project", "aid", "asset"}
           s10 == s9 \o Bumdes
           R10 == R9 \cup {"unit", "record"}
<1>11. Fits(s1, R1)
  BY <1>1, TerritoryFit, Joined
<1>12. Fits(s2, R2)
  <2>1. R1 \cap {"admin", "adminRole"} = {}
    OBVIOUS
  <2> HIDE DEF R1, s1
  <2>. QED
    BY <1>2, <1>11, <2>1, Joined
<1>13. Fits(s3, R3)
  <2>1. R2 \cap {"letterTypes", "template"} = {}
    OBVIOUS
  <2> HIDE DEF R2, s2
  <2>. QED
    BY <1>3, <1>12, <2>1, Joined
<1>14. Fits(s4, R4)
  <2>1. R3 \cap {"settings"} = {}
    OBVIOUS
  <2> HIDE DEF R3, s3
  <2>. QED
    BY <1>4, <1>13, <2>1, Joined
<1>15. Fits(s5, R5)
  <2>1. R4 \cap {"agenda"} = {}
    OBVIOUS
  <2> HIDE DEF R4, s4
  <2>. QED
    BY <1>5, <1>14, <2>1, Joined
<1>16. Fits(s6, R6)
  <2>1. R5 \cap P = {}
    OBVIOUS
  <2> HIDE DEF R5, s5
  <2>. QED
    BY <1>15, <2>1, PeopleFit, Joined
<1>17. Fits(s7, R7)
  <2>1. R6 \cap {"post", "gallery"} = {}
    OBVIOUS
  <2> HIDE DEF R6, s6
  <2>. QED
    BY <1>6, <1>16, <2>1, Joined
<1>18. Fits(s8, R8)
  <2>1. R7 \cap {"year", "items", "document"} = {}
    OBVIOUS
  <2> HIDE DEF R7, s7
  <2>. QED
    BY <1>7, <1>17, <2>1, Joined
<1>19. Fits(s9, R9)
  <2>1. R8 \cap {"project", "aid", "asset"} = {}
    OBVIOUS
  <2> HIDE DEF R8, s8
  <2>. QED
    BY <1>8, <1>18, <2>1, Joined
<1>20. Fits(s10, R10)
  <2>1. R9 \cap {"unit", "record"} = {}
    OBVIOUS
  <2> HIDE DEF R9, s9
  <2>. QED
    BY <1>9, <1>19, <2>1, Joined
<1>21. Fits(s10 \o Maps, R10 \cup {"gis"})
  <2>1. R10 \cap {"gis"} = {}
    OBVIOUS
  <2> HIDE DEF R10, s10
  <2>. QED
    BY <1>10, <1>20, <2>1, Joined
<1>22. R10 \cup {"gis"} \subseteq Names
  BY DEF Names
<1> HIDE DEF R10
<1>23. Script = s10 \o Maps
  BY DEF Script
<1> HIDE DEF s10
<1>. QED
  BY <1>21, <1>22, <1>23 DEF Fits

ThisStep(s) == Script[run[s].step]
RunsFit ==
  run \in [Seeders -> [step : {0} \cup DOMAIN Script, row : Nat, skips : BOOLEAN]]
\* Until two runs overlap there is one.
OneRun == ~met => \A s, t \in Under : s = t
\* The rows that a run writes next are not there, and those before them are.
RowsAhead ==
  ~met => \A s \in Under : run[s].row > 0 =>
    \A j \in DOMAIN ThisStep(s).rows :
      /\ j < run[s].row => InPlace(ThisStep(s).rows[j])
      /\ j >= run[s].row => ThisStep(s).how = "insert" \/ ~InPlace(ThisStep(s).rows[j])
\* The first row of a step is there when another one is.
HeadFirst ==
  ~met => \A i \in DOMAIN Script : \A j \in DOMAIN Script[i].rows :
    InPlace(Script[i].rows[j]) => InPlace(Script[i].rows[1])
\* A step that has begun is complete, or a run is in it, or a run died there.
Begun ==
  ~met /\ ~broken => \A i \in DOMAIN Script : InPlace(Script[i].rows[1]) =>
    \/ \A j \in DOMAIN Script[i].rows : InPlace(Script[i].rows[j])
    \/ \E s \in Under : run[s].step = i /\ run[s].row > 1
SeedInv == /\ SeedTypeOK /\ RunsFit /\ OneRun /\ SeededOnce /\ SeedRepairs
           /\ RowsAhead /\ HeadFirst /\ Begun

LEMMA SomeRows ==
  ASSUME NEW q \in Seq(Names), Len(q) >= 1
  PROVE  /\ Len(q) \in Nat /\ DOMAIN q = 1 .. Len(q) /\ 1 \in DOMAIN q
         /\ Len(q) > 1 \/ (Len(q) = 1 /\ DOMAIN q = {1})
<1>1. Len(q) \in Nat /\ DOMAIN q = 1 .. Len(q)
  OBVIOUS
<1>2. 1 \in DOMAIN q
  BY <1>1
<1>3. PICK m \in Nat : Len(q) = m
  BY <1>1
<1>4. m >= 1
  BY <1>3
<1>5. m > 1 \/ m = 1
  BY <1>3, <1>4
<1>6. m = 1 => DOMAIN q = {1}
  BY <1>1, <1>3
<1>. QED
  BY <1>1, <1>2, <1>3, <1>5, <1>6

\* What the proofs use of the script: its steps, each row in one place.
LEMMA ScriptShape ==
  /\ Len(Script) \in Nat /\ DOMAIN Script = 1 .. Len(Script) /\ 1 \in DOMAIN Script
  /\ \A i \in DOMAIN Script :
       /\ StepFits(Script[i])
       /\ Len(Script[i].rows) \in Nat /\ DOMAIN Script[i].rows = 1 .. Len(Script[i].rows)
       /\ 1 \in DOMAIN Script[i].rows
       /\ Len(Script[i].rows) > 1 \/ (Len(Script[i].rows) = 1 /\ DOMAIN Script[i].rows = {1})
       /\ \A j \in DOMAIN Script[i].rows : Script[i].rows[j] \in Rows
  /\ \A i, k \in DOMAIN Script : \A j \in DOMAIN Script[i].rows, l \in DOMAIN Script[k].rows :
       Script[i].rows[j] = Script[k].rows[l] => i = k /\ j = l
<1> DEFINE S == Script
<1>1. Fits(S, Names)
  BY ScriptFits
<1>2. Rows = UNION {{S[i].rows[j] : j \in DOMAIN S[i].rows} : i \in DOMAIN S}
  BY DEF Rows
<1> HIDE DEF S
<1>3. S \in Seq(Steps) /\ Len(S) >= 1
  BY <1>1 DEF Fits
<1>4. Len(S) \in Nat /\ DOMAIN S = 1 .. Len(S) /\ 1 \in DOMAIN S
  BY <1>3
<1>5. ASSUME NEW i \in DOMAIN S
      PROVE  /\ StepFits(S[i])
             /\ Len(S[i].rows) \in Nat /\ DOMAIN S[i].rows = 1 .. Len(S[i].rows)
             /\ 1 \in DOMAIN S[i].rows
             /\ Len(S[i].rows) > 1 \/ (Len(S[i].rows) = 1 /\ DOMAIN S[i].rows = {1})
             /\ \A j \in DOMAIN S[i].rows : S[i].rows[j] \in Rows
  <2>1. StepFits(S[i])
    BY <1>1 DEF Fits
  <2>2. S[i] \in Steps
    BY <1>3
  <2>4. S[i].rows \in Seq(Names)
    BY <2>2 DEF Steps
  <2>3. Len(S[i].rows) >= 1
    BY <2>1 DEF StepFits
  <2>. QED
    BY <1>2, <2>1, <2>3, <2>4, SomeRows
<1>6. \A i, k \in DOMAIN S : \A j \in DOMAIN S[i].rows, l \in DOMAIN S[k].rows :
        S[i].rows[j] = S[k].rows[l] => i = k /\ j = l
  BY <1>1 DEF Fits
<1>. QED
  BY <1>4, <1>5, <1>6 DEF S

LEMMA SeedStarts == SeedInit => SeedInv
<1> SUFFICES ASSUME SeedInit
             PROVE  SeedInv
  OBVIOUS
<1>1. Under = {}
  BY DEF SeedInit, Under
<1>2. \A r \in Rows : copies[r] = 0
  BY DEF SeedInit
<1>3. \A i \in DOMAIN Script : \A j \in DOMAIN Script[i].rows : ~InPlace(Script[i].rows[j])
  BY <1>2, ScriptShape DEF InPlace
<1>4. SeedTypeOK /\ RunsFit
  BY <1>1, SeedAssumption DEF SeedInit, SeedTypeOK, RunsFit, NoRun
<1>5. SeededOnce
  BY <1>2 DEF SeededOnce
<1>6. Begun
  BY <1>3, ScriptShape DEF Begun
<1>. QED
  BY <1>1, <1>3, <1>4, <1>5, <1>6 DEF SeedInv, OneRun, SeedRepairs, RowsAhead, HeadFirst

\* The runs under way, and where each is.
LEMMA UnderWay ==
  ASSUME SeedInv, NEW s \in Seeders
  PROVE  /\ s \in Under <=> run[s] # NoRun
         /\ s \in Under => /\ run[s].step \in DOMAIN Script /\ run[s].row \in Nat
                           /\ run[s].row <= Len(ThisStep(s).rows)
         /\ run[s] = [step |-> run[s].step, row |-> run[s].row, skips |-> run[s].skips]
         /\ run[s].row \in Nat /\ run[s].skips \in BOOLEAN
         /\ run[s].row > 0 => s \in Under
BY DEF SeedInv, SeedTypeOK, RunsFit, Under, ThisStep, NoRun

\* Where a run can be after it has moved: it has none, or it is somewhere in the script.
Somewhere(w) == w = NoRun \/ /\ w.step \in DOMAIN Script /\ w.row \in 0 .. Len(Script[w.step].rows)
                             /\ w.skips \in BOOLEAN
                             /\ w = [step |-> w.step, row |-> w.row, skips |-> w.skips]
LEMMA MovesFit ==
  ASSUME SeedInv, NEW s \in Seeders, NEW w, run' = [run EXCEPT ![s] = w], Somewhere(w),
         copies' \in [Rows -> 0 .. MaxCopies],
         edited' \subseteq {r \in Rows : InPlace(r)'}, removed' \subseteq Rows
  PROVE  SeedTypeOK' /\ RunsFit'
<1>1. w \in [step : {0} \cup DOMAIN Script, row : Nat, skips : BOOLEAN]
  <2>1. CASE w = NoRun
    BY <2>1 DEF NoRun
  <2>2. CASE w # NoRun
    <3>1. /\ w.step \in DOMAIN Script /\ w.row \in Nat /\ w.skips \in BOOLEAN
          /\ w = [step |-> w.step, row |-> w.row, skips |-> w.skips]
      BY <2>2, ScriptShape DEF Somewhere
    <3>. QED
      BY <3>1
  <2>. QED
    BY <2>1, <2>2
<1>2. RunsFit'
  BY <1>1 DEF SeedInv, RunsFit
<1>3. \A t \in Seeders : run'[t] = (IF t = s THEN w ELSE run[t])
  BY DEF SeedInv, RunsFit
<1>4. \A t \in Under' : run'[t].step \in DOMAIN Script
                        /\ run'[t].row <= Len(Script[run'[t].step].rows)
  <2> SUFFICES ASSUME NEW t \in Under'
               PROVE  run'[t].step \in DOMAIN Script /\ run'[t].row <= Len(Script[run'[t].step].rows)
    OBVIOUS
  <2>1. t \in Seeders /\ run'[t] # NoRun
    BY DEF Under
  <2>2. CASE t = s
    BY <1>3, <2>1, <2>2, ScriptShape DEF Somewhere
  <2>3. CASE t # s
    BY <1>3, <2>1, <2>3 DEF SeedInv, SeedTypeOK, Under
  <2>. QED
    BY <2>2, <2>3
<1>. QED
  BY <1>2, <1>4 DEF SeedTypeOK

\* Where a run goes when it leaves a step.
Onward(s) == IF run[s].step = Len(Script) THEN NoRun
             ELSE [step |-> run[s].step + 1, row |-> 0, skips |-> run[s].skips]
LEMMA OnwardFits ==
  ASSUME SeedInv, NEW s \in Under
  PROVE  /\ s \in Seeders /\ Somewhere(Onward(s)) /\ Onward(s).row = 0
         /\ NextStep(s) <=> run' = [run EXCEPT ![s] = Onward(s)]
         /\ Onward(s) # NoRun => Onward(s).step = run[s].step + 1 /\ Onward(s).skips = run[s].skips
<1>1. s \in Seeders /\ run[s].step \in DOMAIN Script /\ run[s].skips \in BOOLEAN
  BY UnderWay DEF Under
<1>2. run[s].step # Len(Script) => run[s].step + 1 \in DOMAIN Script
  BY <1>1, ScriptShape
<1>3. Somewhere(Onward(s))
  BY <1>1, <1>2, ScriptShape DEF Onward, Somewhere
<1>4. NoRun.row = 0
  BY DEF NoRun
<1>. QED
  BY <1>1, <1>3, <1>4 DEF Onward, NextStep

\* The one run, while none has met another.
LEMMA TheRun ==
  ASSUME SeedInv, ~met, NEW s \in Under, NEW w, run' = [run EXCEPT ![s] = w]
  PROVE  /\ \A t \in Under' : t = s /\ run'[t] = w /\ w # NoRun
         /\ w # NoRun => s \in Under' /\ run'[s] = w
         /\ \A t \in Under : t = s
<1>1. \A t \in Seeders : run'[t] = (IF t = s THEN w ELSE run[t])
  BY DEF SeedInv, RunsFit
<1>2. s \in Seeders /\ \A t \in Under : t = s
  BY DEF SeedInv, OneRun, Under
<1>. QED
  BY <1>1, <1>2 DEF Under

\* The invariant but for the types: what it says while no two runs have met.
Undisturbed == OneRun /\ SeededOnce /\ SeedRepairs /\ RowsAhead /\ HeadFirst /\ Begun
LEMMA MetIsFree == (met => Undisturbed) /\ (met' => Undisturbed')
BY DEF Undisturbed, OneRun, SeededOnce, SeedRepairs, RowsAhead, HeadFirst, Begun

LEMMA StartKeeps ==
  ASSUME SeedInv, NEW s \in Seeders, StartSeed(s)
  PROVE  SeedInv'
<1>1. PICK skips \in BOOLEAN : run' = [run EXCEPT ![s] = [step |-> 1, row |-> 0, skips |-> skips]]
  BY DEF StartSeed
<1> DEFINE w == [step |-> 1, row |-> 0, skips |-> skips]
<1>2. Somewhere(w)
  <2>1. w.step = 1 /\ w.row = 0 /\ w.skips = skips
    OBVIOUS
  <2>. QED
    BY <2>1, ScriptShape DEF Somewhere
<1>3. SeedTypeOK' /\ RunsFit'
  BY <1>1, <1>2, MovesFit DEF StartSeed, SeedInv, SeedTypeOK, InPlace
<1>4. \A t \in Seeders : run'[t] = (IF t = s THEN w ELSE run[t])
  BY <1>1 DEF SeedInv, RunsFit
<1>5. w.step = 1 /\ w.row = 0
  OBVIOUS
<1> HIDE DEF w
<1>6. CASE met'
  BY <1>3, <1>6, MetIsFree DEF SeedInv, Undisturbed
<1>7. CASE ~met'
  <2>1. ~met /\ Under = {} /\ copies' = copies /\ removed' = removed /\ broken' = broken
    BY <1>7 DEF StartSeed
  <2>2. \A t \in Under' : t = s /\ run'[t].step = 1 /\ run'[t].row = 0
    BY <1>4, <1>5, <2>1 DEF Under
  <2>3. \A r : InPlace(r)' <=> InPlace(r)
    BY <2>1 DEF InPlace
  <2>4. OneRun' /\ RowsAhead'
    BY <2>2 DEF OneRun, RowsAhead
  <2>5. SeedRepairs'
    BY <2>2 DEF SeedRepairs
  <2>6. SeededOnce'
    BY <2>1 DEF SeededOnce, SeedInv
  <2>7. HeadFirst'
    BY <2>1, <2>3 DEF HeadFirst, SeedInv
  <2>8. Begun'
    BY <2>1, <2>3 DEF Begun, SeedInv
  <2>. QED
    BY <1>3, <2>4, <2>5, <2>6, <2>7, <2>8 DEF SeedInv
<1>. QED
  BY <1>6, <1>7

LEMMA LookKeeps ==
  ASSUME SeedInv, NEW s \in Seeders, SeedLook(s)
  PROVE  SeedInv'
<1> DEFINE st == ThisStep(s)
<1>1. /\ s \in Under /\ run[s].row = 0 /\ run[s].step \in DOMAIN Script
      /\ run[s] = [step |-> run[s].step, row |-> run[s].row, skips |-> run[s].skips]
      /\ run[s].skips \in BOOLEAN
  BY UnderWay DEF SeedLook, Under
<1>2. /\ copies' = copies /\ removed' = removed /\ met' = met /\ broken' = broken
      /\ edited' \subseteq edited /\ \A r : InPlace(r)' <=> InPlace(r)
  BY DEF SeedLook, InPlace
<1>3. /\ copies' \in [Rows -> 0 .. MaxCopies]
      /\ edited' \subseteq {r \in Rows : InPlace(r)'} /\ removed' \subseteq Rows
  BY <1>2 DEF SeedInv, SeedTypeOK
<1>4. SeededOnce' /\ HeadFirst'
  BY <1>2 DEF SeedInv, SeededOnce, HeadFirst
<1>5. /\ StepFits(st) /\ Len(st.rows) \in Nat /\ DOMAIN st.rows = 1 .. Len(st.rows)
      /\ 1 \in DOMAIN st.rows
      /\ Len(st.rows) > 1 \/ (Len(st.rows) = 1 /\ DOMAIN st.rows = {1})
  BY <1>1, ScriptShape DEF ThisStep
\* No step is begun and unfinished: the one run is at the beginning of one.
<1>6. ~met /\ ~broken => \A i \in DOMAIN Script : InPlace(Script[i].rows[1]) =>
        \A j \in DOMAIN Script[i].rows : InPlace(Script[i].rows[j])
  BY <1>1 DEF SeedInv, Begun, OneRun
<1>7. Begun'
  BY <1>2, <1>6 DEF Begun
<1>8. CASE SkipsOver(s, st)
  <2>1. run' = [run EXCEPT ![s] = Onward(s)]
    BY <1>1, <1>8, OnwardFits DEF SeedLook, ThisStep
  <2>2. /\ Somewhere(Onward(s)) /\ Onward(s).row = 0
        /\ Onward(s) # NoRun => Onward(s).step = run[s].step + 1 /\ Onward(s).skips = run[s].skips
    BY <1>1, OnwardFits
  <2>3. SeedTypeOK' /\ RunsFit'
    BY <1>3, <2>1, <2>2, MovesFit
  <2>4. CASE met
    BY <1>2, <2>3, <2>4, MetIsFree DEF SeedInv, Undisturbed
  <2>5. CASE ~met
    <3>1. \A t \in Under' : t = s /\ run'[t].step = run[s].step + 1 /\ run'[t].row = 0
                            /\ run'[t].skips = run[s].skips
      <4>1. \A t \in Under' : t = s /\ run'[t] = Onward(s) /\ Onward(s) # NoRun
        BY <1>1, <2>1, <2>5, TheRun
      <4>. QED
        BY <2>2, <4>1
    <3>2. OneRun' /\ RowsAhead'
      BY <3>1 DEF OneRun, RowsAhead
    <3>3. ~broken => \A j \in DOMAIN st.rows : InPlace(st.rows[j]) \/ Skipped(s, st.rows[j])
      <4>1. CASE InPlace(st.rows[1])
        BY <1>1, <1>6, <2>5, <4>1 DEF ThisStep
      <4>2. CASE Skipped(s, st.rows[1])
        <5>1. Len(st.rows) = 1
          <6>1. st.rows[1] \in Skippable
            BY <4>2 DEF Skipped
          <6>. QED
            BY <1>5, <6>1 DEF StepFits
        <5>. QED
          BY <1>5, <4>2, <5>1
      <4>. QED
        BY <1>8, <4>1, <4>2 DEF SkipsOver
    <3>4. SeedRepairs'
      <4> SUFFICES ASSUME NEW t \in Under', ~broken, NEW i \in 1 .. run'[t].step - 1,
                          NEW j \in DOMAIN Script[i].rows
                   PROVE  \/ InPlace(Script[i].rows[j])' \/ Skipped(t, Script[i].rows[j])'
                          \/ Script[i].rows[j] \in removed'
        BY <1>2 DEF SeedRepairs
      <4>1. t = s /\ i \in 1 .. run[s].step /\ run[s].step \in Nat
        BY <1>1, <3>1, ScriptShape
      <4>2. Skipped(s, Script[i].rows[j]) => Skipped(t, Script[i].rows[j])'
        BY <3>1 DEF Skipped
      <4>3. CASE i = run[s].step
        BY <1>2, <3>3, <4>2, <4>3 DEF ThisStep
      <4>4. CASE i # run[s].step
        <5>1. i \in 1 .. run[s].step - 1
          BY <4>1, <4>4
        <5>. QED
          BY <1>1, <1>2, <2>5, <4>2, <5>1 DEF SeedInv, SeedRepairs
      <4>. QED
        BY <4>3, <4>4
    <3>. QED
      BY <1>4, <1>7, <2>3, <3>2, <3>4 DEF SeedInv
  <2>. QED
    BY <2>4, <2>5
<1>9. CASE ~SkipsOver(s, st)
  <2> DEFINE w == [step |-> run[s].step, row |-> 1, skips |-> run[s].skips]
  <2>1. run' = [run EXCEPT ![s] = w]
    BY <1>1, <1>9 DEF SeedLook, ThisStep
  <2>2. w.step = run[s].step /\ w.row = 1 /\ w.skips = run[s].skips
    OBVIOUS
  <2>3. Somewhere(w)
    BY <1>1, <1>5, <2>2 DEF Somewhere, ThisStep
  <2> HIDE DEF w
  <2>4. SeedTypeOK' /\ RunsFit'
    BY <1>3, <2>1, <2>3, MovesFit
  <2>5. CASE met
    BY <1>2, <2>4, <2>5, MetIsFree DEF SeedInv, Undisturbed
  <2>6. CASE ~met
    <3>1. \A t \in Under' : t = s /\ run'[t].step = run[s].step /\ run'[t].row = 1
                            /\ run'[t].skips = run[s].skips
      <4>1. \A t \in Under' : t = s /\ run'[t] = w
        BY <1>1, <2>1, <2>6, TheRun
      <4>. QED
        BY <2>2, <4>1
    <3>2. OneRun'
      BY <3>1 DEF OneRun
    <3>3. \A j \in DOMAIN st.rows : st.how = "insert" \/ ~InPlace(st.rows[j])
      BY <1>1, <1>9, <2>6 DEF SkipsOver, SeedInv, HeadFirst, ThisStep
    <3>4. RowsAhead'
      <4>1. \A t \in Under' : ThisStep(t)' = st /\ run'[t].row = 1
        BY <3>1 DEF ThisStep
      <4>2. \A j \in DOMAIN st.rows : j \in Nat /\ ~(j < 1)
        BY <1>5
      <4> HIDE DEF st
      <4>. QED
        BY <1>2, <3>3, <4>1, <4>2 DEF RowsAhead
    <3>5. SeedRepairs'
      <4> SUFFICES ASSUME NEW t \in Under', ~broken, NEW i \in 1 .. run'[t].step - 1,
                          NEW j \in DOMAIN Script[i].rows
                   PROVE  \/ InPlace(Script[i].rows[j])' \/ Skipped(t, Script[i].rows[j])'
                          \/ Script[i].rows[j] \in removed'
        BY <1>2 DEF SeedRepairs
      <4>1. t = s /\ i \in 1 .. run[s].step - 1
        BY <3>1
      <4>2. Skipped(s, Script[i].rows[j]) => Skipped(t, Script[i].rows[j])'
        BY <3>1 DEF Skipped
      <4>. QED
        BY <1>1, <1>2, <2>6, <4>1, <4>2 DEF SeedInv, SeedRepairs
    <3>. QED
      BY <1>4, <1>7, <2>4, <3>2, <3>4, <3>5 DEF SeedInv
  <2>. QED
    BY <2>5, <2>6
<1>. QED
  BY <1>8, <1>9

LEMMA WriteKeeps ==
  ASSUME SeedInv, NEW s \in Seeders, SeedWrite(s)
  PROVE  SeedInv'
<1>0. PICK p \in DOMAIN Script, n \in Nat : run[s].step = p /\ run[s].row = n
  BY UnderWay DEF SeedWrite
<1>17. PICK st : st = Script[p]
  OBVIOUS
<1>18. PICK r : r = st.rows[n]
  OBVIOUS
<1> DEFINE refused == r \in Indexed /\ InPlace(r)
           w == IF refused THEN NoRun
                ELSE IF n < Len(st.rows)
                THEN [step |-> p, row |-> n + 1, skips |-> run[s].skips]
                ELSE Onward(s)
<1>1. /\ s \in Under /\ n \in Nat /\ n > 0 /\ n <= Len(st.rows) /\ ThisStep(s) = st
      /\ run[s] = [step |-> p, row |-> n, skips |-> run[s].skips]
      /\ run[s].skips \in BOOLEAN
  BY <1>0, <1>17, UnderWay DEF SeedWrite, ThisStep
<1>2. /\ StepFits(st) /\ Len(st.rows) \in Nat /\ DOMAIN st.rows = 1 .. Len(st.rows)
      /\ 1 \in DOMAIN st.rows /\ \A j \in DOMAIN st.rows : st.rows[j] \in Rows
  BY <1>17, ScriptShape
<1>3. n \in DOMAIN st.rows /\ r \in Rows
  BY <1>1, <1>2, <1>18
<1>4. /\ copies[r] < MaxCopies
      /\ copies' = IF refused THEN copies ELSE [copies EXCEPT ![r] = @ + 1]
      /\ edited' = edited /\ removed' = removed /\ met' = met
      /\ broken => broken'
  BY <1>0, <1>17, <1>18 DEF SeedWrite
<1>5. run' = [run EXCEPT ![s] = w]
  <2>1. CASE refused
    BY <1>0, <1>17, <1>18, <2>1 DEF SeedWrite
  <2>2. CASE ~refused /\ n < Len(st.rows)
    <3>1. [run[s] EXCEPT !.row = @ + 1] = [step |-> p, row |-> n + 1, skips |-> run[s].skips]
      BY <1>1
    <3>. QED
      BY <1>0, <1>17, <1>18, <2>2, <3>1 DEF SeedWrite
  <2>3. CASE ~refused /\ ~(n < Len(st.rows))
    BY <1>0, <1>1, <1>17, <1>18, <2>3, OnwardFits DEF SeedWrite
  <2>. QED
    BY <2>1, <2>2, <2>3
<1>6. /\ Somewhere(Onward(s)) /\ Onward(s).row = 0
      /\ Onward(s) # NoRun => Onward(s).step = p + 1 /\ Onward(s).skips = run[s].skips
  BY <1>0, <1>1, OnwardFits
<1>7. Somewhere(w)
  <2>1. CASE ~refused /\ n < Len(st.rows)
    <3>1. w.step = p /\ w.row = n + 1 /\ w.skips = run[s].skips
          /\ w = [step |-> w.step, row |-> w.row, skips |-> w.skips]
      BY <2>1
    <3>. QED
      BY <1>1, <1>2, <1>17, <2>1, <3>1 DEF Somewhere
  <2>. QED
    BY <1>6, <2>1 DEF Somewhere
<1>8. copies \in [Rows -> 0 .. MaxCopies] /\ copies[r] \in Nat /\ copies[r] + 1 \in 0 .. MaxCopies
  BY <1>3, <1>4, SeedAssumption DEF SeedInv, SeedTypeOK
<1>9. /\ copies' \in [Rows -> 0 .. MaxCopies]
      /\ \A q \in Rows : copies'[q] = IF q = r /\ ~refused THEN copies[q] + 1 ELSE copies[q]
  BY <1>3, <1>4, <1>8
<1>10. \A q \in Rows : InPlace(q) => InPlace(q)'
  BY <1>8, <1>9 DEF InPlace
<1>11. edited' \subseteq {q \in Rows : InPlace(q)'} /\ removed' \subseteq Rows
  BY <1>4, <1>10 DEF SeedInv, SeedTypeOK
<1>12. SeedTypeOK' /\ RunsFit'
  <2> HIDE DEF w
  <2>. QED
    BY <1>5, <1>7, <1>9, <1>11, MovesFit
<1>15. /\ st = Script[p] /\ r = st.rows[n]
       /\ refused <=> r \in Indexed /\ InPlace(r)
  BY <1>17, <1>18
<1>16. ~refused => w = IF n < Len(st.rows)
                       THEN [step |-> p, row |-> n + 1, skips |-> run[s].skips]
                       ELSE Onward(s)
  OBVIOUS
<1> HIDE DEF refused, w
<1>13. CASE met
  BY <1>4, <1>12, <1>13, MetIsFree DEF SeedInv, Undisturbed
<1>14. CASE ~met
  <2>1. /\ \A j \in DOMAIN st.rows : j < n => InPlace(st.rows[j])
        /\ \A j \in DOMAIN st.rows : j >= n => st.how = "insert" \/ ~InPlace(st.rows[j])
    BY <1>0, <1>1, <1>14 DEF SeedInv, RowsAhead
  <2>2. r = "superadmin" \/ ~InPlace(r)
    <3>1. st.how = "insert" => r = "superadmin"
      <4>1. st.how = "insert" => Len(st.rows) = 1 /\ st.rows[1] = "superadmin"
        BY <1>2 DEF StepFits
      <4>. QED
        BY <1>1, <1>15, <4>1
    <3>. QED
      BY <1>1, <1>3, <1>15, <2>1, <3>1
  <2>3. ~refused
    BY <1>15, <2>2 DEF Indexed
  <2>4. /\ InPlace(r)'
        /\ \A q \in Rows : q # r => copies'[q] = copies[q] /\ (InPlace(q)' <=> InPlace(q))
    <3>1. copies'[r] = copies[r] + 1 /\ copies[r] + 1 > 0
      BY <1>3, <1>8, <1>9, <2>3
    <3>2. \A q \in Rows : q # r => copies'[q] = copies[q]
      BY <1>9
    <3>. QED
      BY <3>1, <3>2 DEF InPlace
  <2>5. \A i \in DOMAIN Script : \A j \in DOMAIN Script[i].rows :
          /\ Script[i].rows[j] \in Rows
          /\ Script[i].rows[j] = r => i = p /\ j = n
    BY <1>1, <1>3, <1>15, ScriptShape
  <2> DEFINE more == n < Len(st.rows)
  <2>6. /\ \A t \in Under' : /\ t = s
                             /\ more => /\ run'[t].step = p /\ run'[t].row = n + 1
                             /\ ~more => run'[t].step = p + 1 /\ run'[t].row = 0
                             /\ run'[t].skips = run[s].skips
        /\ more => s \in Under' /\ run'[s].step = p /\ run'[s].row = n + 1
        /\ \A t \in Under : t = s
    <3>1. CASE more
      <4>1. w.step = p /\ w.row = n + 1 /\ w.skips = run[s].skips /\ w # NoRun
        <5>1. w = [step |-> p, row |-> n + 1, skips |-> run[s].skips]
          BY <1>16, <2>3, <3>1
        <5>2. n + 1 # 0
          BY <1>1
        <5>. QED
          BY <5>1, <5>2 DEF NoRun
      <4>2. /\ \A t \in Under' : t = s /\ run'[t] = w
            /\ s \in Under' /\ run'[s] = w
            /\ \A t \in Under : t = s
        BY <1>1, <1>5, <1>14, <4>1, TheRun
      <4> HIDE DEF more
      <4>. QED
        BY <3>1, <4>1, <4>2
    <3>2. CASE ~more
      <4>1. w = Onward(s)
        BY <1>16, <2>3, <3>2
      <4>2. /\ \A t \in Under' : t = s /\ run'[t] = w /\ w # NoRun
            /\ \A t \in Under : t = s
        BY <1>1, <1>5, <1>14, TheRun
      <4> HIDE DEF more
      <4>. QED
        BY <1>6, <3>2, <4>1, <4>2
    <3>. QED
      BY <3>1, <3>2
  <2>16. \A j \in DOMAIN st.rows :
           /\ st.rows[j] \in Rows /\ j \in Nat
           /\ st.rows[j] = r => j = n
           /\ j <= n => InPlace(st.rows[j])'
           /\ j > n => st.how = "insert" \/ ~InPlace(st.rows[j])'
    <3> SUFFICES ASSUME NEW j \in DOMAIN st.rows
                 PROVE  /\ st.rows[j] \in Rows /\ j \in Nat
                        /\ st.rows[j] = r => j = n
                        /\ j <= n => InPlace(st.rows[j])'
                        /\ j > n => st.how = "insert" \/ ~InPlace(st.rows[j])'
      OBVIOUS
    <3>1. st.rows[j] \in Rows /\ (st.rows[j] = r => j = n)
      BY <1>1, <1>15, <2>5
    <3>2. j \in Nat
      BY <1>2
    <3>3. j < n => InPlace(st.rows[j])'
      BY <1>10, <2>1, <3>1
    <3>4. j = n => InPlace(st.rows[j])'
      BY <1>15, <2>4
    <3>5. j > n => st.how = "insert" \/ ~InPlace(st.rows[j])'
      BY <1>1, <2>1, <2>4, <3>1, <3>2
    <3>. QED
      BY <1>1, <3>1, <3>2, <3>3, <3>4, <3>5
  <2>17. PICK m \in Nat : Len(st.rows) = m
    BY <1>2
  <2>18. n > 0 /\ n <= m /\ DOMAIN st.rows = 1 .. m
    BY <1>1, <1>2, <2>17
  <2>7. InPlace(st.rows[1])'
    <3>1. 1 <= n /\ 1 \in DOMAIN st.rows
      BY <1>1, <1>2
    <3>. QED
      BY <2>16, <3>1 DEF InPlace
  <2>8. ~more => \A j \in DOMAIN st.rows : InPlace(st.rows[j])'
    <3>1. ~more => \A j \in DOMAIN st.rows : j <= n
      BY <1>1, <2>17, <2>18
    <3>. QED
      BY <2>16, <3>1 DEF InPlace
  <2>9. \A j \in DOMAIN st.rows :
          /\ j < n + 1 => InPlace(st.rows[j])'
          /\ j >= n + 1 => st.how = "insert" \/ ~InPlace(st.rows[j])'
    <3> SUFFICES ASSUME NEW j \in DOMAIN st.rows
                 PROVE  /\ j < n + 1 => InPlace(st.rows[j])'
                        /\ j >= n + 1 => st.how = "insert" \/ ~InPlace(st.rows[j])'
      OBVIOUS
    <3>1. j \in Nat /\ n \in Nat
      BY <1>1, <2>16
    <3>2. (j < n + 1 => j <= n) /\ (j >= n + 1 => j > n)
      BY <3>1
    <3>. QED
      BY <2>16, <3>2 DEF InPlace
  <2> HIDE DEF more
  <2>10. OneRun'
    BY <2>6 DEF OneRun
  <2>11. SeededOnce'
    <3> SUFFICES ASSUME NEW q \in Rows \ {"superadmin"}
                 PROVE  copies'[q] <= 1
      BY DEF SeededOnce
    <3>1. CASE q = r
      <4>1. copies[q] = 0
        BY <1>3, <1>8, <2>2, <3>1 DEF InPlace
      <4>. QED
        BY <1>9, <2>3, <3>1, <4>1
    <3>2. CASE q # r
      BY <1>14, <2>4, <3>2 DEF SeedInv, SeededOnce
    <3>. QED
      BY <3>1, <3>2
  <2>12. RowsAhead'
    <3>1. CASE more
      <4>1. \A t \in Under' : ThisStep(t)' = st /\ run'[t].row = n + 1
        BY <1>15, <2>6, <3>1 DEF ThisStep
      <4>. QED
        BY <2>9, <4>1 DEF RowsAhead, InPlace
    <3>2. CASE ~more
      BY <2>6, <3>2 DEF RowsAhead
    <3>. QED
      BY <3>1, <3>2
  <2>13. HeadFirst'
    <3> SUFFICES ASSUME NEW i \in DOMAIN Script, NEW j \in DOMAIN Script[i].rows,
                        InPlace(Script[i].rows[j])'
                 PROVE  InPlace(Script[i].rows[1])'
      BY DEF HeadFirst
    <3>1. CASE i = p
      BY <1>15, <2>7, <3>1
    <3>2. CASE i # p
      BY <1>14, <2>4, <2>5, <3>2, ScriptShape DEF SeedInv, HeadFirst
    <3>. QED
      BY <3>1, <3>2
  <2>14. Begun'
    <3> SUFFICES ASSUME ~broken, NEW i \in DOMAIN Script, InPlace(Script[i].rows[1])'
                 PROVE  \/ \A j \in DOMAIN Script[i].rows : InPlace(Script[i].rows[j])'
                        \/ \E t \in Under' : run'[t].step = i /\ run'[t].row > 1
      BY <1>4 DEF Begun
    <3>1. CASE i = p /\ more
      BY <1>1, <2>6, <3>1
    <3>2. CASE i = p /\ ~more
      BY <1>15, <2>8, <3>2
    <3>3. CASE i # p
      <4>1. InPlace(Script[i].rows[1])
        BY <2>4, <2>5, <3>3, ScriptShape
      <4>2. \A j \in DOMAIN Script[i].rows : InPlace(Script[i].rows[j])
        BY <1>0, <1>14, <2>6, <3>3, <4>1 DEF SeedInv, Begun
      <4>. QED
        BY <1>10, <2>5, <4>2
    <3>. QED
      BY <3>1, <3>2, <3>3
  <2>15. SeedRepairs'
    <3> SUFFICES ASSUME NEW t \in Under', ~broken, NEW i \in 1 .. run'[t].step - 1,
                        NEW j \in DOMAIN Script[i].rows
                 PROVE  \/ InPlace(Script[i].rows[j])' \/ Skipped(t, Script[i].rows[j])'
                        \/ Script[i].rows[j] \in removed'
      BY <1>4 DEF SeedRepairs
    <3>1. t = s /\ i \in 1 .. p /\ p \in Nat /\ i \in DOMAIN Script
          /\ (more => i \in 1 .. p - 1)
      BY <1>1, <2>6, ScriptShape
    <3>2. Skipped(s, Script[i].rows[j]) => Skipped(t, Script[i].rows[j])'
      BY <2>6 DEF Skipped
    <3>3. CASE i = p
      BY <1>1, <1>15, <2>8, <3>1, <3>3
    <3>4. CASE i # p
      <4>1. i \in 1 .. p - 1
        BY <3>1, <3>4
      <4>. QED
        BY <1>0, <1>1, <1>4, <1>10, <1>14, <2>5, <3>1, <3>2, <4>1 DEF SeedInv, SeedRepairs
    <3>. QED
      BY <3>3, <3>4
  <2>. QED
    BY <1>12, <2>10, <2>11, <2>12, <2>13, <2>14, <2>15 DEF SeedInv
<1>. QED
  BY <1>13, <1>14

LEMMA DeathKeeps ==
  ASSUME SeedInv, NEW s \in Seeders, SeedDies(s)
  PROVE  SeedInv'
<1>1. /\ s \in Under /\ run[s].step \in DOMAIN Script /\ run[s].row \in Nat
      /\ run[s].row <= Len(ThisStep(s).rows)
  BY UnderWay DEF SeedDies, Under
<1>2. /\ run' = [run EXCEPT ![s] = NoRun] /\ copies' = copies /\ edited' = edited
      /\ removed' = removed /\ met' = met /\ broken' = (broken \/ Breaks(s))
      /\ \A r : InPlace(r)' <=> InPlace(r)
  BY DEF SeedDies, InPlace
<1>3. SeedTypeOK' /\ RunsFit'
  <2>1. /\ copies' \in [Rows -> 0 .. MaxCopies]
        /\ edited' \subseteq {r \in Rows : InPlace(r)'} /\ removed' \subseteq Rows
    BY <1>2 DEF SeedInv, SeedTypeOK
  <2>. QED
    BY <1>2, <2>1, MovesFit DEF Somewhere
<1>4. CASE met
  BY <1>2, <1>3, <1>4, MetIsFree DEF SeedInv, Undisturbed
<1>5. CASE ~met
  <2>1. Under' = {} /\ \A t \in Under : t = s
    BY <1>1, <1>2, <1>5, TheRun
  <2>2. Begun'
    <3> SUFFICES ASSUME ~broken, ~Breaks(s), NEW i \in DOMAIN Script, InPlace(Script[i].rows[1])
                 PROVE  \A j \in DOMAIN Script[i].rows : InPlace(Script[i].rows[j])
      BY <1>2 DEF Begun
    <3>1. ~(run[s].step = i /\ run[s].row > 1)
      <4> SUFFICES ASSUME run[s].step = i, run[s].row > 1
                   PROVE  FALSE
        OBVIOUS
      <4>1. Len(Script[i].rows) > 1 /\ StepFits(Script[i])
        BY <1>1, ScriptShape DEF ThisStep
      <4>. QED
        BY <4>1 DEF StepFits, Breaks
    <3>. QED
      BY <1>5, <2>1, <3>1 DEF SeedInv, Begun
  <2>3. OneRun' /\ RowsAhead' /\ SeedRepairs'
    BY <2>1 DEF OneRun, RowsAhead, SeedRepairs
  <2>4. SeededOnce' /\ HeadFirst'
    BY <1>2 DEF SeedInv, SeededOnce, HeadFirst
  <2>. QED
    BY <1>3, <2>2, <2>3, <2>4 DEF SeedInv
<1>. QED
  BY <1>4, <1>5

LEMMA EditsKeep ==
  ASSUME SeedInv, NEW r \in Rows, StaffEdits(r)
  PROVE  SeedInv'
<1>1. /\ InPlace(r) /\ r \in Followed /\ run' = run /\ met' = met /\ broken' = broken
      /\ Under' = Under
  BY DEF StaffEdits, Under
<1>2. /\ \A q \in Rows : q # r => copies'[q] = copies[q] /\ (InPlace(q)' <=> InPlace(q))
      /\ \/ copies'[r] = copies[r] /\ (InPlace(r)' <=> InPlace(r))
         \/ copies'[r] = 0 /\ ~InPlace(r)' /\ r \in removed'
      /\ removed \subseteq removed' /\ removed' \subseteq Rows
      /\ copies' \in [Rows -> 0 .. MaxCopies]
      /\ edited' \subseteq {q \in Rows : InPlace(q)'}
  <2>0. copies \in [Rows -> 0 .. MaxCopies] /\ 0 \in 0 .. MaxCopies
        /\ edited \subseteq {q \in Rows : InPlace(q)} /\ removed \subseteq Rows
    BY SeedAssumption DEF SeedInv, SeedTypeOK
  <2>1. CASE edited' = edited \cup {r} /\ UNCHANGED <<copies, removed>>
    <3>1. \A q : InPlace(q)' <=> InPlace(q)
      BY <2>1 DEF InPlace
    <3>. QED
      BY <1>1, <2>0, <2>1, <3>1
  <2>2. CASE /\ copies' = [copies EXCEPT ![r] = 0] /\ removed' = removed \cup {r}
             /\ edited' = edited \ {r}
    <3>1. \A q \in Rows : copies'[q] = IF q = r THEN 0 ELSE copies[q]
      BY <2>0, <2>2
    <3>2. copies' \in [Rows -> 0 .. MaxCopies]
      BY <2>0, <2>2
    <3>3. \A q \in Rows : q # r => (InPlace(q)' <=> InPlace(q))
      BY <3>1 DEF InPlace
    <3>4. ~InPlace(r)'
      BY <3>1 DEF InPlace
    <3>. QED
      BY <2>0, <2>2, <3>1, <3>2, <3>3, <3>4
  <2>. QED
    BY <2>1, <2>2 DEF StaffEdits
<1>3. SeedTypeOK' /\ RunsFit'
  BY <1>1, <1>2 DEF SeedInv, SeedTypeOK, RunsFit, Under
<1>4. CASE met
  BY <1>1, <1>3, <1>4, MetIsFree DEF SeedInv, Undisturbed
<1>5. CASE ~met
  \* What is followed is written by a step of its own.
  <2>1. \A i \in DOMAIN Script : \A j \in DOMAIN Script[i].rows :
          Script[i].rows[j] = r => Len(Script[i].rows) = 1 /\ DOMAIN Script[i].rows = {1} /\ j = 1
    <3> SUFFICES ASSUME NEW i \in DOMAIN Script, NEW j \in DOMAIN Script[i].rows,
                        Script[i].rows[j] = r
                 PROVE  Len(Script[i].rows) = 1 /\ DOMAIN Script[i].rows = {1} /\ j = 1
      OBVIOUS
    <3>1. /\ Len(Script[i].rows) > 1 \/ (Len(Script[i].rows) = 1 /\ DOMAIN Script[i].rows = {1})
          /\ StepFits(Script[i])
      BY ScriptShape
    <3>2. Len(Script[i].rows) = 1
      BY <1>1, <3>1 DEF StepFits
    <3>. QED
      BY <3>1, <3>2
  <2>2. \A i \in DOMAIN Script : /\ 1 \in DOMAIN Script[i].rows
                                /\ \A j \in DOMAIN Script[i].rows : Script[i].rows[j] \in Rows
    BY ScriptShape
  <2>3. \A q \in Rows : InPlace(q)' => InPlace(q)
    BY <1>1, <1>2
  <2>4. SeededOnce'
    BY <1>1, <1>2, <1>5 DEF SeedInv, SeededOnce
  <2>5. OneRun'
    BY <1>1 DEF SeedInv, OneRun
  <2>6. SeedRepairs'
    <3> SUFFICES ASSUME NEW s \in Under, ~broken, NEW i \in 1 .. run[s].step - 1,
                        NEW j \in DOMAIN Script[i].rows
                 PROVE  \/ InPlace(Script[i].rows[j])' \/ Skipped(s, Script[i].rows[j])'
                        \/ Script[i].rows[j] \in removed'
      BY <1>1 DEF SeedRepairs
    <3>1. i \in DOMAIN Script
      <4>1. s \in Seeders /\ run[s].step \in DOMAIN Script
        BY UnderWay DEF Under
      <4>. QED
        BY <4>1, ScriptShape
    <3>2. Skipped(s, Script[i].rows[j]) => Skipped(s, Script[i].rows[j])'
      BY <1>1 DEF Skipped
    <3>3. \/ InPlace(Script[i].rows[j]) \/ Skipped(s, Script[i].rows[j])
          \/ Script[i].rows[j] \in removed
      BY <1>5 DEF SeedInv, SeedRepairs
    <3>. QED
      BY <1>2, <2>2, <3>1, <3>2, <3>3
  <2>7. HeadFirst'
    <3> SUFFICES ASSUME NEW i \in DOMAIN Script, NEW j \in DOMAIN Script[i].rows,
                        InPlace(Script[i].rows[j])'
                 PROVE  InPlace(Script[i].rows[1])'
      BY DEF HeadFirst
    <3>1. InPlace(Script[i].rows[1])
      BY <1>5, <2>2, <2>3 DEF SeedInv, HeadFirst
    <3>2. Script[i].rows[1] = r => j = 1
      BY <2>1, <2>2
    <3>. QED
      BY <1>2, <2>2, <3>1, <3>2
  <2>8. RowsAhead'
    <3> SUFFICES ASSUME NEW s \in Under, run[s].row > 0, NEW j \in DOMAIN ThisStep(s).rows
                 PROVE  /\ j < run[s].row => copies'[ThisStep(s).rows[j]] > 0
                        /\ j >= run[s].row => \/ ThisStep(s).how = "insert"
                                              \/ ~(copies'[ThisStep(s).rows[j]] > 0)
      BY <1>1 DEF RowsAhead, ThisStep, InPlace
    <3>1. PICK p \in DOMAIN Script, n \in Nat : run[s].step = p /\ run[s].row = n
      BY UnderWay DEF Under
    <3>2. ThisStep(s) = Script[p] /\ n <= Len(Script[p].rows) /\ j \in DOMAIN Script[p].rows
      BY <3>1, UnderWay DEF Under, ThisStep
    <3>3. Script[p].rows[j] \in Rows
      BY <2>2, <3>2
    <3>4. Script[p].rows[j] = r => ~(j < n)
      <4>1. Script[p].rows[j] = r => Len(Script[p].rows) = 1 /\ j = 1
        BY <2>1, <3>2
      <4>2. PICK m \in Nat : Len(Script[p].rows) = m
        BY ScriptShape
      <4>. QED
        BY <3>1, <3>2, <4>1, <4>2
    <3>5. /\ j < n => InPlace(Script[p].rows[j])
          /\ j >= n => Script[p].how = "insert" \/ ~InPlace(Script[p].rows[j])
      BY <1>5, <3>1, <3>2 DEF SeedInv, RowsAhead
    <3>6. /\ j < n => InPlace(Script[p].rows[j])'
          /\ j >= n => Script[p].how = "insert" \/ ~InPlace(Script[p].rows[j])'
      BY <1>2, <2>3, <3>3, <3>4, <3>5
    <3>. QED
      BY <3>1, <3>2, <3>6 DEF InPlace
  <2>9. Begun'
    <3> SUFFICES ASSUME ~broken, NEW i \in DOMAIN Script, InPlace(Script[i].rows[1])'
                 PROVE  \/ \A j \in DOMAIN Script[i].rows : InPlace(Script[i].rows[j])'
                        \/ \E s \in Under : run[s].step = i /\ run[s].row > 1
      BY <1>1 DEF Begun
    <3>1. InPlace(Script[i].rows[1])
      BY <2>2, <2>3
    <3>2. CASE \E s \in Under : run[s].step = i /\ run[s].row > 1
      BY <3>2
    <3>3. CASE \A j \in DOMAIN Script[i].rows : InPlace(Script[i].rows[j])
      <4> SUFFICES ASSUME NEW j \in DOMAIN Script[i].rows
                   PROVE  InPlace(Script[i].rows[j])'
        OBVIOUS
      <4>1. Script[i].rows[j] = r => j = 1
        BY <2>1
      <4>. QED
        BY <1>2, <2>2, <3>3, <4>1
    <3>. QED
      BY <1>5, <3>1, <3>2, <3>3 DEF SeedInv, Begun
  <2>. QED
    BY <1>3, <2>4, <2>5, <2>6, <2>7, <2>8, <2>9 DEF SeedInv
<1>. QED
  BY <1>4, <1>5

LEMMA SeedStepKeeps == SeedInv /\ [SeedNext]_seedVars => SeedInv'
<1> SUFFICES ASSUME SeedInv, [SeedNext]_seedVars
             PROVE  SeedInv'
  OBVIOUS
<1>1. CASE UNCHANGED seedVars
  BY <1>1 DEF seedVars, SeedInv, SeedTypeOK, RunsFit, OneRun, SeededOnce, SeedRepairs, RowsAhead,
     HeadFirst, Begun, Under, InPlace, Skipped, ThisStep
<1>2. ASSUME NEW s \in Seeders, StartSeed(s) \/ SeedLook(s) \/ SeedWrite(s) \/ SeedDies(s)
      PROVE  SeedInv'
  BY <1>2, StartKeeps, LookKeeps, WriteKeeps, DeathKeeps
<1>3. ASSUME NEW r \in Rows, StaffEdits(r)
      PROVE  SeedInv'
  BY <1>3, EditsKeep
<1>. QED
  BY <1>1, <1>2, <1>3 DEF SeedNext

\* However often the seed script is run, and wherever it dies, it does not double a row while no two
\* runs overlap, and it completes what an earlier run left, but for the block of the residents.
THEOREM SeedStands == SeedSpec => []SeedSound
<1>1. SeedInv => SeedSound
  BY DEF SeedInv, SeedSound
<1>. QED
  BY <1>1, SeedStarts, SeedStepKeeps, PTL DEF SeedSpec

-----------------------------------------------------------------------------
(***************************************************************************)
(* The links between rows, for any number of tenants and of rows, whatever  *)
(* is inserted, updated and deleted.                                        *)
(***************************************************************************)
\* The column f of row k of t refers to row At(t, k, f) of another table.
At(t, k, f) == rows[t][k].ref[f]
Refers(t, k, f) == Stored(rows, t, k) /\ At(t, k, f) # 0
Holds(t, k) == OwnTenant(t, rows[t][k])
\* What is not NULL in the schema is never 0.
NotNull == \A t \in scope : \A k \in RowsOf[t], f \in Columns(t) :
  Stored(rows, t, k) => At(t, k, f) # 0 \/ Nullable(<<t, f>>)
\* No column refers to an id that is still to be given.
NoneAhead == \A t \in scope : \A k \in RowsOf[t], f \in Columns(t) :
  Refers(t, k, f) => rows[References[t][f]][At(t, k, f)] # Missing
\* The foreign keys.
KeysStand == \A t \in scope : \A k \in RowsOf[t], f \in Columns(t) :
  Refers(t, k, f) => <<t, f>> \in WithoutKey \/ Stored(rows, References[t][f], At(t, k, f))
\* The tenants on both sides of a link.
TenantsAgree == \A t \in scope : \A k \in RowsOf[t], f \in Columns(t) :
  Refers(t, k, f) /\ Stored(rows, References[t][f], At(t, k, f)) /\ <<t, f>> \notin UnguardedMoves =>
    rows[References[t][f]][At(t, k, f)].tenant = Holds(t, k)
LinksInv == LinksTypeOK /\ NotNull /\ NoneAhead /\ KeysStand /\ TenantsAgree /\ AddressInHamlet

\* The tables and columns of the schema, one by one.
LEMMA TheTables ==
  DOMAIN References =
    {"families", "letter_templates", "aid_recipients", "finance_documents", "gallery_items",
     "letter_outputs", "neighborhood_units", "addresses", "residents", "family_members",
     "civil_events", "bumdes_financial_records", "user_roles", "notifications",
     "complaints", "complaint_responses", "letter_requests", "letter_approvals",
     "letter_number_sequences"}
BY DEF References

LEMMA TheColumns ==
  /\ DOMAIN References["families"] = {"address_id", "head_resident_id"}
  /\ References["families"]["address_id"] = "addresses"
  /\ References["families"]["head_resident_id"] = "residents"
  /\ DOMAIN References["letter_templates"] = {"letter_type_id"}
  /\ References["letter_templates"]["letter_type_id"] = "letter_types"
  /\ DOMAIN References["aid_recipients"] = {"program_id", "resident_id", "family_id"}
  /\ References["aid_recipients"]["program_id"] = "aid_programs"
  /\ References["aid_recipients"]["resident_id"] = "residents"
  /\ References["aid_recipients"]["family_id"] = "families"
  /\ DOMAIN References["finance_documents"] = {"file_id"}
  /\ References["finance_documents"]["file_id"] = "files"
  /\ DOMAIN References["gallery_items"] = {"file_id"}
  /\ References["gallery_items"]["file_id"] = "files"
  /\ DOMAIN References["letter_outputs"] = {"letter_request_id", "file_id"}
  /\ References["letter_outputs"]["letter_request_id"] = "letter_requests"
  /\ References["letter_outputs"]["file_id"] = "files"
  /\ DOMAIN References["neighborhood_units"] = {"hamlet_id"}
  /\ References["neighborhood_units"]["hamlet_id"] = "hamlets"
  /\ DOMAIN References["addresses"] = {"hamlet_id", "neighborhood_unit_id"}
  /\ References["addresses"]["hamlet_id"] = "hamlets"
  /\ References["addresses"]["neighborhood_unit_id"] = "neighborhood_units"
  /\ DOMAIN References["residents"] = {"family_id", "address_id"}
  /\ References["residents"]["family_id"] = "families"
  /\ References["residents"]["address_id"] = "addresses"
  /\ DOMAIN References["family_members"] = {"family_id", "resident_id"}
  /\ References["family_members"]["family_id"] = "families"
  /\ References["family_members"]["resident_id"] = "residents"
  /\ DOMAIN References["civil_events"] = {"resident_id"}
  /\ References["civil_events"]["resident_id"] = "residents"
  /\ DOMAIN References["bumdes_financial_records"] = {"unit_id"}
  /\ References["bumdes_financial_records"]["unit_id"] = "bumdes_units"
  /\ DOMAIN References["user_roles"] = {"user_id", "role_id"}
  /\ References["user_roles"]["user_id"] = "users"
  /\ References["user_roles"]["role_id"] = "roles"
  /\ DOMAIN References["notifications"] = {"user_id"}
  /\ References["notifications"]["user_id"] = "users"
  /\ DOMAIN References["complaints"] = {"reporter_id", "assignee_id"}
  /\ References["complaints"]["reporter_id"] = "users"
  /\ References["complaints"]["assignee_id"] = "users"
  /\ DOMAIN References["complaint_responses"] = {"complaint_id", "responder_id"}
  /\ References["complaint_responses"]["complaint_id"] = "complaints"
  /\ References["complaint_responses"]["responder_id"] = "users"
  /\ DOMAIN References["letter_requests"] = {"requester_id", "resident_id", "letter_type_id"}
  /\ References["letter_requests"]["requester_id"] = "users"
  /\ References["letter_requests"]["resident_id"] = "residents"
  /\ References["letter_requests"]["letter_type_id"] = "letter_types"
  /\ DOMAIN References["letter_approvals"] = {"letter_request_id", "approver_id"}
  /\ References["letter_approvals"]["letter_request_id"] = "letter_requests"
  /\ References["letter_approvals"]["approver_id"] = "users"
  /\ DOMAIN References["letter_number_sequences"] = {"letter_type_id"}
  /\ References["letter_number_sequences"]["letter_type_id"] = "letter_types"
<1>1. /\ DOMAIN References["families"] = {"address_id", "head_resident_id"}
     /\ References["families"]["address_id"] = "addresses"
     /\ References["families"]["head_resident_id"] = "residents"
  BY DEF References
<1>2. /\ DOMAIN References["letter_templates"] = {"letter_type_id"}
     /\ References["letter_templates"]["letter_type_id"] = "letter_types"
  BY DEF References
<1>3. /\ DOMAIN References["aid_recipients"] = {"program_id", "resident_id", "family_id"}
     /\ References["aid_recipients"]["program_id"] = "aid_programs"
     /\ References["aid_recipients"]["resident_id"] = "residents"
     /\ References["aid_recipients"]["family_id"] = "families"
  BY DEF References
<1>4. /\ DOMAIN References["finance_documents"] = {"file_id"}
     /\ References["finance_documents"]["file_id"] = "files"
  BY DEF References
<1>5. /\ DOMAIN References["gallery_items"] = {"file_id"}
     /\ References["gallery_items"]["file_id"] = "files"
  BY DEF References
<1>6. /\ DOMAIN References["letter_outputs"] = {"letter_request_id", "file_id"}
     /\ References["letter_outputs"]["letter_request_id"] = "letter_requests"
     /\ References["letter_outputs"]["file_id"] = "files"
  BY DEF References
<1>7. /\ DOMAIN References["neighborhood_units"] = {"hamlet_id"}
     /\ References["neighborhood_units"]["hamlet_id"] = "hamlets"
  BY DEF References
<1>8. /\ DOMAIN References["addresses"] = {"hamlet_id", "neighborhood_unit_id"}
     /\ References["addresses"]["hamlet_id"] = "hamlets"
     /\ References["addresses"]["neighborhood_unit_id"] = "neighborhood_units"
  BY DEF References
<1>9. /\ DOMAIN References["residents"] = {"family_id", "address_id"}
     /\ References["residents"]["family_id"] = "families"
     /\ References["residents"]["address_id"] = "addresses"
  BY DEF References
<1>10. /\ DOMAIN References["family_members"] = {"family_id", "resident_id"}
      /\ References["family_members"]["family_id"] = "families"
      /\ References["family_members"]["resident_id"] = "residents"
  BY DEF References
<1>11. /\ DOMAIN References["civil_events"] = {"resident_id"}
      /\ References["civil_events"]["resident_id"] = "residents"
  BY DEF References
<1>12. /\ DOMAIN References["bumdes_financial_records"] = {"unit_id"}
      /\ References["bumdes_financial_records"]["unit_id"] = "bumdes_units"
  BY DEF References
<1>13. /\ DOMAIN References["user_roles"] = {"user_id", "role_id"}
      /\ References["user_roles"]["user_id"] = "users"
      /\ References["user_roles"]["role_id"] = "roles"
  BY DEF References
<1>14. /\ DOMAIN References["notifications"] = {"user_id"}
      /\ References["notifications"]["user_id"] = "users"
  BY DEF References
<1>15. /\ DOMAIN References["complaints"] = {"reporter_id", "assignee_id"}
      /\ References["complaints"]["reporter_id"] = "users"
      /\ References["complaints"]["assignee_id"] = "users"
  BY DEF References
<1>16. /\ DOMAIN References["complaint_responses"] = {"complaint_id", "responder_id"}
      /\ References["complaint_responses"]["complaint_id"] = "complaints"
      /\ References["complaint_responses"]["responder_id"] = "users"
  BY DEF References
<1>17. /\ DOMAIN References["letter_requests"] = {"requester_id", "resident_id", "letter_type_id"}
      /\ References["letter_requests"]["requester_id"] = "users"
      /\ References["letter_requests"]["resident_id"] = "residents"
      /\ References["letter_requests"]["letter_type_id"] = "letter_types"
  BY DEF References
<1>18. /\ DOMAIN References["letter_approvals"] = {"letter_request_id", "approver_id"}
      /\ References["letter_approvals"]["letter_request_id"] = "letter_requests"
      /\ References["letter_approvals"]["approver_id"] = "users"
  BY DEF References
<1>19. /\ DOMAIN References["letter_number_sequences"] = {"letter_type_id"}
      /\ References["letter_number_sequences"]["letter_type_id"] = "letter_types"
  BY DEF References
<1>. QED
  BY <1>1, <1>2, <1>3, <1>4, <1>5, <1>6, <1>7, <1>8, <1>9, <1>10, <1>11, <1>12, <1>13, <1>14, <1>15, <1>16, <1>17, <1>18, <1>19

LEMMA InLinks ==
  ASSUME NEW t, NEW f
  PROVE  <<t, f>> \in Links <=> t \in DOMAIN References /\ f \in DOMAIN References[t]
<1>1. <<t, f>> \in Links <=> \E u \in DOMAIN References : \E g \in DOMAIN References[u] : <<t, f>> = <<u, g>>
  BY DEF Links
<1>. QED
  BY <1>1

LEMMA LinkPairs ==
  ASSUME NEW l \in Links
  PROVE  /\ l = <<l[1], l[2]>> /\ l[1] \in DOMAIN References /\ l[2] \in DOMAIN References[l[1]]
         /\ Referred(l) = References[l[1]][l[2]]
BY DEF Links, Referred

\* What is said of every link is said of the thirty-two.
LEMMA NoLinkToItself ==
  ASSUME NEW t \in DOMAIN References, NEW f \in DOMAIN References[t]
  PROVE  /\ References[t][f] # t
         /\ References[t][f] \notin {"user_roles", "complaint_responses"}
<1>1. CASE t = "families"
  BY <1>1, TheColumns
<1>2. CASE t = "letter_templates"
  BY <1>2, TheColumns
<1>3. CASE t = "aid_recipients"
  BY <1>3, TheColumns
<1>4. CASE t = "finance_documents"
  BY <1>4, TheColumns
<1>5. CASE t = "gallery_items"
  BY <1>5, TheColumns
<1>6. CASE t = "letter_outputs"
  BY <1>6, TheColumns
<1>7. CASE t = "neighborhood_units"
  BY <1>7, TheColumns
<1>8. CASE t = "addresses"
  BY <1>8, TheColumns
<1>9. CASE t = "residents"
  BY <1>9, TheColumns
<1>10. CASE t = "family_members"
  BY <1>10, TheColumns
<1>11. CASE t = "civil_events"
  BY <1>11, TheColumns
<1>12. CASE t = "bumdes_financial_records"
  BY <1>12, TheColumns
<1>13. CASE t = "user_roles"
  BY <1>13, TheColumns
<1>14. CASE t = "notifications"
  BY <1>14, TheColumns
<1>15. CASE t = "complaints"
  BY <1>15, TheColumns
<1>16. CASE t = "complaint_responses"
  BY <1>16, TheColumns
<1>17. CASE t = "letter_requests"
  BY <1>17, TheColumns
<1>18. CASE t = "letter_approvals"
  BY <1>18, TheColumns
<1>19. CASE t = "letter_number_sequences"
  BY <1>19, TheColumns
<1>. QED
  BY TheTables, <1>1, <1>2, <1>3, <1>4, <1>5, <1>6, <1>7, <1>8, <1>9, <1>10, <1>11, <1>12, <1>13, <1>14, <1>15, <1>16, <1>17, <1>18, <1>19

\* What goes with the rows it refers to, and what takes others with it.
Going == {"letter_templates", "aid_recipients", "letter_outputs", "neighborhood_units",
          "family_members", "civil_events", "user_roles", "notifications",
          "complaint_responses", "letter_approvals", "letter_number_sequences"}
Taking == {"aid_programs", "complaints", "families", "hamlets", "letter_requests",
           "letter_types", "residents", "roles", "users"}
LEMMA OnDeleteIs ==
  ASSUME NEW t \in DOMAIN References, NEW f \in DOMAIN References[t]
  PROVE  /\ OnDeleteOf[<<t, f>>] \in {"none", "restrict", "set null", "cascade"}
         /\ OnDeleteOf[<<t, f>>] = "cascade" => t \in Going /\ References[t][f] \in Taking
<1>0. OnDeleteOf[<<t, f>>] =
        IF \/ t = "families" /\ f = "head_resident_id"
           \/ t = "aid_recipients" /\ f \in {"resident_id", "family_id"} THEN "none"
        ELSE IF f \in {"file_id", "unit_id"} \/ (t = "letter_requests" /\ f = "letter_type_id") THEN "restrict"
        ELSE IF \/ f \in {"reporter_id", "assignee_id", "responder_id", "requester_id", "approver_id", "address_id"}
                \/ t = "addresses"
                \/ (t = "residents" /\ f = "family_id") \/ (t = "letter_requests" /\ f = "resident_id") THEN "set null"
        ELSE "cascade"
  <2> DEFINE l == <<t, f>>
  <2>1. l \in Links /\ l[1] = t /\ l[2] = f
    BY InLinks
  <2>2. \A a, b : l = <<a, b>> <=> t = a /\ f = b
    OBVIOUS
  <2> HIDE DEF l
  <2>3. /\ l \in {<<"families", "head_resident_id">>, <<"aid_recipients", "resident_id">>, <<"aid_recipients", "family_id">>}
           <=> \/ t = "families" /\ f = "head_resident_id"
               \/ t = "aid_recipients" /\ f \in {"resident_id", "family_id"}
        /\ l = <<"letter_requests", "letter_type_id">> <=> t = "letter_requests" /\ f = "letter_type_id"
        /\ l \in {<<"residents", "family_id">>, <<"letter_requests", "resident_id">>}
           <=> (t = "residents" /\ f = "family_id") \/ (t = "letter_requests" /\ f = "resident_id")
    BY <2>2
  <2>4. OnDeleteOf[l] =
          IF \/ t = "families" /\ f = "head_resident_id"
             \/ t = "aid_recipients" /\ f \in {"resident_id", "family_id"} THEN "none"
          ELSE IF f \in {"file_id", "unit_id"} \/ (t = "letter_requests" /\ f = "letter_type_id") THEN "restrict"
          ELSE IF \/ f \in {"reporter_id", "assignee_id", "responder_id", "requester_id", "approver_id", "address_id"}
                  \/ t = "addresses"
                  \/ (t = "residents" /\ f = "family_id") \/ (t = "letter_requests" /\ f = "resident_id") THEN "set null"
          ELSE "cascade"
    BY <2>1, <2>3 DEF OnDeleteOf
  <2>. QED
    BY <2>4 DEF l
<1>20. OnDeleteOf[<<t, f>>] \in {"none", "restrict", "set null", "cascade"}
  BY <1>0
<1>1. CASE t = "families"
  <2>1. CASE f = "address_id"
    <3>1. OnDeleteOf[<<t, f>>] = "set null"
      BY <1>0, <1>1, <2>1
    <3>. QED
      BY <1>20, <3>1
  <2>2. CASE f = "head_resident_id"
    <3>1. OnDeleteOf[<<t, f>>] = "none"
      BY <1>0, <1>1, <2>2
    <3>. QED
      BY <1>20, <3>1
  <2>. QED
    BY <1>1, <2>1, <2>2, TheColumns
<1>2. CASE t = "letter_templates"
  BY <1>0, <1>2, <1>20, TheColumns DEF Going, Taking
<1>3. CASE t = "aid_recipients"
  <2>1. CASE f = "program_id"
    <3>1. OnDeleteOf[<<t, f>>] = "cascade"
      BY <1>0, <1>3, <2>1
    <3>. QED
      BY <1>3, <1>20, <2>1, <3>1, TheColumns DEF Going, Taking
  <2>2. CASE f = "resident_id"
    <3>1. OnDeleteOf[<<t, f>>] = "none"
      BY <1>0, <1>3, <2>2
    <3>. QED
      BY <1>20, <3>1
  <2>3. CASE f = "family_id"
    <3>1. OnDeleteOf[<<t, f>>] = "none"
      BY <1>0, <1>3, <2>3
    <3>. QED
      BY <1>20, <3>1
  <2>. QED
    BY <1>3, <2>1, <2>2, <2>3, TheColumns
<1>4. CASE t = "finance_documents"
  BY <1>0, <1>4, <1>20, TheColumns DEF Going, Taking
<1>5. CASE t = "gallery_items"
  BY <1>0, <1>5, <1>20, TheColumns DEF Going, Taking
<1>6. CASE t = "letter_outputs"
  <2>1. CASE f = "letter_request_id"
    <3>1. OnDeleteOf[<<t, f>>] = "cascade"
      BY <1>0, <1>6, <2>1
    <3>. QED
      BY <1>6, <1>20, <2>1, <3>1, TheColumns DEF Going, Taking
  <2>2. CASE f = "file_id"
    <3>1. OnDeleteOf[<<t, f>>] = "restrict"
      BY <1>0, <1>6, <2>2
    <3>. QED
      BY <1>20, <3>1
  <2>. QED
    BY <1>6, <2>1, <2>2, TheColumns
<1>7. CASE t = "neighborhood_units"
  BY <1>0, <1>7, <1>20, TheColumns DEF Going, Taking
<1>8. CASE t = "addresses"
  <2>1. CASE f = "hamlet_id"
    <3>1. OnDeleteOf[<<t, f>>] = "set null"
      BY <1>0, <1>8, <2>1
    <3>. QED
      BY <1>20, <3>1
  <2>2. CASE f = "neighborhood_unit_id"
    <3>1. OnDeleteOf[<<t, f>>] = "set null"
      BY <1>0, <1>8, <2>2
    <3>. QED
      BY <1>20, <3>1
  <2>. QED
    BY <1>8, <2>1, <2>2, TheColumns
<1>9. CASE t = "residents"
  <2>1. CASE f = "family_id"
    <3>1. OnDeleteOf[<<t, f>>] = "set null"
      BY <1>0, <1>9, <2>1
    <3>. QED
      BY <1>20, <3>1
  <2>2. CASE f = "address_id"
    <3>1. OnDeleteOf[<<t, f>>] = "set null"
      BY <1>0, <1>9, <2>2
    <3>. QED
      BY <1>20, <3>1
  <2>. QED
    BY <1>9, <2>1, <2>2, TheColumns
<1>10. CASE t = "family_members"
  <2>1. CASE f = "family_id"
    <3>1. OnDeleteOf[<<t, f>>] = "cascade"
      BY <1>0, <1>10, <2>1
    <3>. QED
      BY <1>10, <1>20, <2>1, <3>1, TheColumns DEF Going, Taking
  <2>2. CASE f = "resident_id"
    <3>1. OnDeleteOf[<<t, f>>] = "cascade"
      BY <1>0, <1>10, <2>2
    <3>. QED
      BY <1>10, <1>20, <2>2, <3>1, TheColumns DEF Going, Taking
  <2>. QED
    BY <1>10, <2>1, <2>2, TheColumns
<1>11. CASE t = "civil_events"
  BY <1>0, <1>11, <1>20, TheColumns DEF Going, Taking
<1>12. CASE t = "bumdes_financial_records"
  BY <1>0, <1>12, <1>20, TheColumns DEF Going, Taking
<1>13. CASE t = "user_roles"
  <2>1. CASE f = "user_id"
    <3>1. OnDeleteOf[<<t, f>>] = "cascade"
      BY <1>0, <1>13, <2>1
    <3>. QED
      BY <1>13, <1>20, <2>1, <3>1, TheColumns DEF Going, Taking
  <2>2. CASE f = "role_id"
    <3>1. OnDeleteOf[<<t, f>>] = "cascade"
      BY <1>0, <1>13, <2>2
    <3>. QED
      BY <1>13, <1>20, <2>2, <3>1, TheColumns DEF Going, Taking
  <2>. QED
    BY <1>13, <2>1, <2>2, TheColumns
<1>14. CASE t = "notifications"
  BY <1>0, <1>14, <1>20, TheColumns DEF Going, Taking
<1>15. CASE t = "complaints"
  <2>1. CASE f = "reporter_id"
    <3>1. OnDeleteOf[<<t, f>>] = "set null"
      BY <1>0, <1>15, <2>1
    <3>. QED
      BY <1>20, <3>1
  <2>2. CASE f = "assignee_id"
    <3>1. OnDeleteOf[<<t, f>>] = "set null"
      BY <1>0, <1>15, <2>2
    <3>. QED
      BY <1>20, <3>1
  <2>. QED
    BY <1>15, <2>1, <2>2, TheColumns
<1>16. CASE t = "complaint_responses"
  <2>1. CASE f = "complaint_id"
    <3>1. OnDeleteOf[<<t, f>>] = "cascade"
      BY <1>0, <1>16, <2>1
    <3>. QED
      BY <1>16, <1>20, <2>1, <3>1, TheColumns DEF Going, Taking
  <2>2. CASE f = "responder_id"
    <3>1. OnDeleteOf[<<t, f>>] = "set null"
      BY <1>0, <1>16, <2>2
    <3>. QED
      BY <1>20, <3>1
  <2>. QED
    BY <1>16, <2>1, <2>2, TheColumns
<1>17. CASE t = "letter_requests"
  <2>1. CASE f = "requester_id"
    <3>1. OnDeleteOf[<<t, f>>] = "set null"
      BY <1>0, <1>17, <2>1
    <3>. QED
      BY <1>20, <3>1
  <2>2. CASE f = "resident_id"
    <3>1. OnDeleteOf[<<t, f>>] = "set null"
      BY <1>0, <1>17, <2>2
    <3>. QED
      BY <1>20, <3>1
  <2>3. CASE f = "letter_type_id"
    <3>1. OnDeleteOf[<<t, f>>] = "restrict"
      BY <1>0, <1>17, <2>3
    <3>. QED
      BY <1>20, <3>1
  <2>. QED
    BY <1>17, <2>1, <2>2, <2>3, TheColumns
<1>18. CASE t = "letter_approvals"
  <2>1. CASE f = "letter_request_id"
    <3>1. OnDeleteOf[<<t, f>>] = "cascade"
      BY <1>0, <1>18, <2>1
    <3>. QED
      BY <1>18, <1>20, <2>1, <3>1, TheColumns DEF Going, Taking
  <2>2. CASE f = "approver_id"
    <3>1. OnDeleteOf[<<t, f>>] = "set null"
      BY <1>0, <1>18, <2>2
    <3>. QED
      BY <1>20, <3>1
  <2>. QED
    BY <1>18, <2>1, <2>2, TheColumns
<1>19. CASE t = "letter_number_sequences"
  BY <1>0, <1>19, <1>20, TheColumns DEF Going, Taking
<1>. QED
  BY TheTables, <1>1, <1>2, <1>3, <1>4, <1>5, <1>6, <1>7, <1>8, <1>9, <1>10, <1>11, <1>12, <1>13, <1>14, <1>15, <1>16, <1>17, <1>18, <1>19

LEMMA GoingTakesNone == Going \cap Taking = {}
BY DEF Going, Taking

LEMMA SomeLinks ==
  /\ OnDeleteOf[<<"user_roles", "user_id">>] = "cascade"
  /\ OnDeleteOf[<<"user_roles", "role_id">>] = "cascade"
  /\ OnDeleteOf[<<"complaint_responses", "complaint_id">>] = "cascade"
  /\ OnDeleteOf[<<"complaint_responses", "responder_id">>] = "set null"
  /\ OnDeleteOf[<<"neighborhood_units", "hamlet_id">>] = "cascade"
  /\ OnDeleteOf[<<"addresses", "hamlet_id">>] = "set null"
  /\ OnDeleteOf[<<"addresses", "neighborhood_unit_id">>] = "set null"
<1>1. OnDeleteOf[<<"user_roles", "user_id">>] = "cascade"
  <2>1. <<"user_roles", "user_id">> \in Links
    BY InLinks, TheTables, TheColumns
  <2>. QED
    BY <2>1 DEF OnDeleteOf
<1>2. OnDeleteOf[<<"user_roles", "role_id">>] = "cascade"
  <2>1. <<"user_roles", "role_id">> \in Links
    BY InLinks, TheTables, TheColumns
  <2>. QED
    BY <2>1 DEF OnDeleteOf
<1>3. OnDeleteOf[<<"complaint_responses", "complaint_id">>] = "cascade"
  <2>1. <<"complaint_responses", "complaint_id">> \in Links
    BY InLinks, TheTables, TheColumns
  <2>. QED
    BY <2>1 DEF OnDeleteOf
<1>4. OnDeleteOf[<<"complaint_responses", "responder_id">>] = "set null"
  <2>1. <<"complaint_responses", "responder_id">> \in Links
    BY InLinks, TheTables, TheColumns
  <2>. QED
    BY <2>1 DEF OnDeleteOf
<1>5. OnDeleteOf[<<"neighborhood_units", "hamlet_id">>] = "cascade"
  <2>1. <<"neighborhood_units", "hamlet_id">> \in Links
    BY InLinks, TheTables, TheColumns
  <2>. QED
    BY <2>1 DEF OnDeleteOf
<1>6. OnDeleteOf[<<"addresses", "hamlet_id">>] = "set null"
  <2>1. <<"addresses", "hamlet_id">> \in Links
    BY InLinks, TheTables, TheColumns
  <2>. QED
    BY <2>1 DEF OnDeleteOf
<1>7. OnDeleteOf[<<"addresses", "neighborhood_unit_id">>] = "set null"
  <2>1. <<"addresses", "neighborhood_unit_id">> \in Links
    BY InLinks, TheTables, TheColumns
  <2>. QED
    BY <2>1 DEF OnDeleteOf
<1>. QED
  BY <1>1, <1>2, <1>3, <1>4, <1>5, <1>6, <1>7

LEMMA ScopeShape ==
  ASSUME NEW s \in Scopes
  PROVE  /\ s \subseteq LinkTables
         /\ "user_roles" \in s => "users" \in s /\ "roles" \in s
         /\ "complaint_responses" \in s => "complaints" \in s /\ "users" \in s
<1>1. \A l \in Links : /\ l[1] \in LinkTables /\ Referred(l) \in LinkTables
                       /\ Referred(l) \notin {"user_roles", "complaint_responses"}
  BY LinkPairs, NoLinkToItself DEF LinkTables
<1>2. {"hamlets", "neighborhood_units", "addresses", "users", "roles", "user_roles",
       "complaints", "complaint_responses"} \subseteq LinkTables
  <2>1. /\ <<"neighborhood_units", "hamlet_id">> \in Links
        /\ <<"user_roles", "role_id">> \in Links
        /\ <<"user_roles", "user_id">> \in Links
    BY InLinks, TheTables, TheColumns
  <2>2. "hamlets" \in LinkTables /\ "roles" \in LinkTables /\ "users" \in LinkTables
    BY <1>1, <2>1, TheColumns DEF Referred
  <2>. QED
    BY <2>2, TheTables DEF LinkTables
<1>3. CASE \E l \in Links : l[1] \notin {"user_roles", "complaint_responses"} /\ s = {l[1], Referred(l)}
  BY <1>1, <1>3
<1>4. CASE s \in {{"hamlets", "neighborhood_units", "addresses"}, {"users", "roles", "user_roles"},
                  {"complaints", "complaint_responses", "users"}}
  <2>1. s \subseteq LinkTables
    BY <1>2, <1>4
  <2>2. /\ "user_roles" \in s => "users" \in s /\ "roles" \in s
        /\ "complaint_responses" \in s => "complaints" \in s /\ "users" \in s
    BY <1>4
  <2>. QED
    BY <2>1, <2>2
<1>. QED
  BY <1>3, <1>4 DEF Scopes

LEMMA ReferredRows ==
  ASSUME NEW t \in DOMAIN References, NEW f \in DOMAIN References[t]
  PROVE  RowsOf[References[t][f]] = RowIds /\ References[t][f] \in LinkTables
<1>1. <<t, f>> \in Links /\ Referred(<<t, f>>) = References[t][f]
  BY InLinks DEF Referred
<1>. QED
  BY <1>1 DEF RowsOf, LinkTables

LEMMA NewStored ==
  ASSUME NEW t, NEW new \in Records(t)
  PROVE  /\ new \notin {Missing, Deleted}
         /\ new = [tenant |-> new.tenant, ref |-> new.ref]
         /\ new.ref \in [Columns(t) -> RowIds \cup {0}]
<1>1. /\ new = [tenant |-> new.tenant, ref |-> new.ref]
      /\ new.ref \in [Columns(t) -> RowIds \cup {0}]
  BY DEF Records
<1>2. DOMAIN new.ref = Columns(t) /\ "row" \notin Columns(t)
  <2>1. \A u \in DOMAIN References : "row" \notin DOMAIN References[u]
    BY TheTables, TheColumns
  <2>. QED
    BY <1>1, <2>1 DEF Columns
<1>3. /\ Missing.ref = [row |-> "none"] /\ Deleted.ref = [row |-> "deleted"]
      /\ DOMAIN [row |-> "none"] = {"row"} /\ DOMAIN [row |-> "deleted"] = {"row"}
  BY DEF Missing, Deleted
<1>. QED
  BY <1>1, <1>2, <1>3

LEMMA MissingIsNotDeleted == Missing # Deleted /\ Missing.tenant = NoTenant /\ Deleted.tenant = NoTenant
<1>1. [row |-> "none"] # [row |-> "deleted"]
  <2>1. [row |-> "none"].row # [row |-> "deleted"].row
    OBVIOUS
  <2>. QED
    BY <2>1
<1>2. Missing.ref = [row |-> "none"] /\ Deleted.ref = [row |-> "deleted"]
  BY DEF Missing, Deleted
<1>. QED
  BY <1>1, <1>2 DEF Missing, Deleted

LEMMA CellShape ==
  ASSUME LinksTypeOK, NEW t \in scope, NEW f \in Columns(t)
  PROVE  /\ t \in DOMAIN References /\ f \in DOMAIN References[t] /\ References[t][f] \in scope
         /\ References[t][f] # t /\ RowsOf[References[t][f]] = RowIds
         /\ References[t][f] \notin {"user_roles", "complaint_responses"}
<1>1. t \in DOMAIN References /\ f \in DOMAIN References[t] /\ References[t][f] \in scope
  BY DEF Columns
<1>. QED
  BY <1>1, NoLinkToItself, ReferredRows

LEMMA RowShape ==
  ASSUME LinksTypeOK, NEW t \in scope, NEW k \in RowsOf[t], Stored(rows, t, k)
  PROVE  /\ rows[t][k] \in Records(t)
         /\ rows[t][k] = [tenant |-> rows[t][k].tenant, ref |-> rows[t][k].ref]
         /\ rows[t][k].ref \in [Columns(t) -> RowIds \cup {0}]
<1>1. rows[t][k] \in Records(t)
  BY DEF LinksTypeOK, Stored
<1>. QED
  BY <1>1, NewStored

\* The columns in the scope of the two tables that have no tenant of their own.
LEMMA OwnColumns ==
  ASSUME LinksTypeOK
  PROVE  /\ "user_roles" \in scope => "user_id" \in Columns("user_roles") /\ "role_id" \in Columns("user_roles")
         /\ "complaint_responses" \in scope => /\ "complaint_id" \in Columns("complaint_responses")
                                               /\ "responder_id" \in Columns("complaint_responses")
<1>1. scope \in Scopes
  BY DEF LinksTypeOK
<1>2. /\ "user_roles" \in scope => "users" \in scope /\ "roles" \in scope
      /\ "complaint_responses" \in scope => "complaints" \in scope /\ "users" \in scope
  BY <1>1, ScopeShape
<1>3. "user_roles" \in DOMAIN References /\ "complaint_responses" \in DOMAIN References
  BY TheTables
<1>. QED
  BY <1>2, <1>3, TheColumns DEF Columns

\* The trigger functions of the tables.
LEMMA TheLinkGuards ==
  ASSUME NEW db, NEW i, NEW new
  PROVE  /\ LinkGuard(db, "families", i, new) <=> EnforceFamilyTenantLinks(db, new)
         /\ LinkGuard(db, "letter_templates", i, new) <=> EnforceLetterTemplateTenantLinks(db, new)
         /\ LinkGuard(db, "aid_recipients", i, new) <=> EnforceAidRecipientTenantLinks(db, new)
         /\ LinkGuard(db, "finance_documents", i, new) <=> EnforceFinanceDocumentTenantLinks(db, new)
         /\ LinkGuard(db, "gallery_items", i, new) <=> EnforceGalleryItemTenantLinks(db, new)
         /\ LinkGuard(db, "letter_outputs", i, new) <=> EnforceLetterOutputTenantLinks(db, new)
         /\ LinkGuard(db, "neighborhood_units", i, new) <=> EnforceNeighborhoodUnitTenantLinks(db, i, new)
         /\ LinkGuard(db, "addresses", i, new) <=> EnforceAddressTenantLinks(db, new)
         /\ LinkGuard(db, "residents", i, new) <=> EnforceResidentTenantLinks(db, i, new)
         /\ LinkGuard(db, "family_members", i, new) <=> EnforceFamilyMemberTenantLinks(db, new)
         /\ LinkGuard(db, "civil_events", i, new) <=> EnforceCivilEventTenantLinks(db, new)
         /\ LinkGuard(db, "bumdes_financial_records", i, new) <=> EnforceBumdesFinancialRecordTenantLinks(db, new)
         /\ LinkGuard(db, "user_roles", i, new) <=> AssertUserRoleTenantLink(db, new)
         /\ LinkGuard(db, "notifications", i, new) <=> EnforceNotificationTenantLinks(db, new)
         /\ LinkGuard(db, "complaints", i, new) <=> EnforceComplaintTenantLinks(db, i, new)
         /\ LinkGuard(db, "complaint_responses", i, new) <=> AssertComplaintResponseTenantLink(db, new)
         /\ LinkGuard(db, "letter_requests", i, new) <=> EnforceLetterRequestTenantLinks(db, new)
         /\ LinkGuard(db, "letter_approvals", i, new) <=> EnforceLetterApprovalTenantLinks(db, new)
         /\ LinkGuard(db, "letter_number_sequences", i, new) <=> EnforceLetterNumberSequenceTenantLinks(db, new)
<1>1. LinkGuard(db, "families", i, new) <=> EnforceFamilyTenantLinks(db, new)
  BY Zenon DEF LinkGuard
<1>2. LinkGuard(db, "letter_templates", i, new) <=> EnforceLetterTemplateTenantLinks(db, new)
  BY Zenon DEF LinkGuard
<1>3. LinkGuard(db, "aid_recipients", i, new) <=> EnforceAidRecipientTenantLinks(db, new)
  BY Zenon DEF LinkGuard
<1>4. LinkGuard(db, "finance_documents", i, new) <=> EnforceFinanceDocumentTenantLinks(db, new)
  BY Zenon DEF LinkGuard
<1>5. LinkGuard(db, "gallery_items", i, new) <=> EnforceGalleryItemTenantLinks(db, new)
  BY Zenon DEF LinkGuard
<1>6. LinkGuard(db, "letter_outputs", i, new) <=> EnforceLetterOutputTenantLinks(db, new)
  BY Zenon DEF LinkGuard
<1>7. LinkGuard(db, "neighborhood_units", i, new) <=> EnforceNeighborhoodUnitTenantLinks(db, i, new)
  BY Zenon DEF LinkGuard
<1>8. LinkGuard(db, "addresses", i, new) <=> EnforceAddressTenantLinks(db, new)
  BY Zenon DEF LinkGuard
<1>9. LinkGuard(db, "residents", i, new) <=> EnforceResidentTenantLinks(db, i, new)
  BY Zenon DEF LinkGuard
<1>10. LinkGuard(db, "family_members", i, new) <=> EnforceFamilyMemberTenantLinks(db, new)
  BY Zenon DEF LinkGuard
<1>11. LinkGuard(db, "civil_events", i, new) <=> EnforceCivilEventTenantLinks(db, new)
  BY Zenon DEF LinkGuard
<1>12. LinkGuard(db, "bumdes_financial_records", i, new) <=> EnforceBumdesFinancialRecordTenantLinks(db, new)
  BY Zenon DEF LinkGuard
<1>13. LinkGuard(db, "user_roles", i, new) <=> AssertUserRoleTenantLink(db, new)
  BY Zenon DEF LinkGuard
<1>14. LinkGuard(db, "notifications", i, new) <=> EnforceNotificationTenantLinks(db, new)
  BY Zenon DEF LinkGuard
<1>15. LinkGuard(db, "complaints", i, new) <=> EnforceComplaintTenantLinks(db, i, new)
  BY Zenon DEF LinkGuard
<1>16. LinkGuard(db, "complaint_responses", i, new) <=> AssertComplaintResponseTenantLink(db, new)
  BY Zenon DEF LinkGuard
<1>17. LinkGuard(db, "letter_requests", i, new) <=> EnforceLetterRequestTenantLinks(db, new)
  BY Zenon DEF LinkGuard
<1>18. LinkGuard(db, "letter_approvals", i, new) <=> EnforceLetterApprovalTenantLinks(db, new)
  BY Zenon DEF LinkGuard
<1>19. LinkGuard(db, "letter_number_sequences", i, new) <=> EnforceLetterNumberSequenceTenantLinks(db, new)
  BY Zenon DEF LinkGuard
<1>. QED
  BY <1>1, <1>2, <1>3, <1>4, <1>5, <1>6, <1>7, <1>8, <1>9, <1>10, <1>11, <1>12, <1>13, <1>14, <1>15, <1>16, <1>17, <1>18, <1>19

LEMMA TheDependentGuards ==
  ASSUME NEW db, NEW i, NEW new
  PROVE  /\ DependentGuard(db, "hamlets", i, new) <=> EnforceHamletDependentTenantLinks(db, i, new)
         /\ DependentGuard(db, "addresses", i, new) <=> EnforceAddressDependentTenantLinks(db, i, new)
         /\ DependentGuard(db, "families", i, new) <=> EnforceFamilyDependentTenantLinks(db, i, new)
         /\ DependentGuard(db, "bumdes_units", i, new) <=> EnforceBumdesUnitDependentTenantLinks(db, i, new)
         /\ DependentGuard(db, "users", i, new) <=> EnforceUserIdentityDependentTenantLinks(db, i, new) /\ EnforceUserLetterDependents(db, i, new)
         /\ DependentGuard(db, "roles", i, new) <=> EnforceRoleIdentityDependentTenantLinks(db, i, new)
         /\ DependentGuard(db, "letter_requests", i, new) <=> EnforceLetterRequestDependents(db, i, new)
         /\ DependentGuard(db, "letter_types", i, new) <=> EnforceLetterTypeDependents(db, i, new)
         /\ DependentGuard(db, "residents", i, new) <=> EnforceResidentLetterDependents(db, i, new)
<1>1. DependentGuard(db, "hamlets", i, new) <=> EnforceHamletDependentTenantLinks(db, i, new)
  BY Zenon DEF DependentGuard
<1>2. DependentGuard(db, "addresses", i, new) <=> EnforceAddressDependentTenantLinks(db, i, new)
  BY Zenon DEF DependentGuard
<1>3. DependentGuard(db, "families", i, new) <=> EnforceFamilyDependentTenantLinks(db, i, new)
  BY Zenon DEF DependentGuard
<1>4. DependentGuard(db, "bumdes_units", i, new) <=> EnforceBumdesUnitDependentTenantLinks(db, i, new)
  BY Zenon DEF DependentGuard
<1>5. DependentGuard(db, "users", i, new) <=> EnforceUserIdentityDependentTenantLinks(db, i, new) /\ EnforceUserLetterDependents(db, i, new)
  BY Zenon DEF DependentGuard
<1>6. DependentGuard(db, "roles", i, new) <=> EnforceRoleIdentityDependentTenantLinks(db, i, new)
  BY Zenon DEF DependentGuard
<1>7. DependentGuard(db, "letter_requests", i, new) <=> EnforceLetterRequestDependents(db, i, new)
  BY Zenon DEF DependentGuard
<1>8. DependentGuard(db, "letter_types", i, new) <=> EnforceLetterTypeDependents(db, i, new)
  BY Zenon DEF DependentGuard
<1>9. DependentGuard(db, "residents", i, new) <=> EnforceResidentLetterDependents(db, i, new)
  BY Zenon DEF DependentGuard
<1>. QED
  BY <1>1, <1>2, <1>3, <1>4, <1>5, <1>6, <1>7, <1>8, <1>9

LEMMA OwnTenantIs ==
  ASSUME NEW t, NEW row
  PROVE  /\ t \notin {"user_roles", "complaint_responses"} => OwnTenant(t, row) = row.tenant
         /\ OwnTenant("user_roles", row) = rows["users"][row.ref["user_id"]].tenant
         /\ OwnTenant("complaint_responses", row) = rows["complaints"][row.ref["complaint_id"]].tenant
<1>1. t \notin {"user_roles", "complaint_responses"} => OwnTenant(t, row) = row.tenant
  BY Zenon DEF OwnTenant
<1>2. OwnTenant("user_roles", row) = rows["users"][row.ref["user_id"]].tenant
  BY Zenon DEF OwnTenant
<1>3. OwnTenant("complaint_responses", row) = rows["complaints"][row.ref["complaint_id"]].tenant
  BY Zenon DEF OwnTenant
<1>. QED
  BY <1>1, <1>2, <1>3

\* What a table's trigger says of each link of the row that is written.
LEMMA GuardAsserts ==
  ASSUME NEW t \in DOMAIN References, t \notin {"user_roles", "complaint_responses"}, NEW i, NEW new,
         LinkGuard(rows, t, i, new), NEW f \in DOMAIN References[t]
  PROVE  AssertSameTenantLink(rows, new.tenant, new, t, f)
<1>1. CASE t = "families"
  <2>1. EnforceFamilyTenantLinks(rows, new) /\ f \in {"address_id", "head_resident_id"}
    BY <1>1, TheLinkGuards, TheColumns
  <2>. QED
    BY <1>1, <2>1 DEF EnforceFamilyTenantLinks
<1>2. CASE t = "letter_templates"
  <2>1. EnforceLetterTemplateTenantLinks(rows, new) /\ f \in {"letter_type_id"}
    BY <1>2, TheLinkGuards, TheColumns
  <2>. QED
    BY <1>2, <2>1 DEF EnforceLetterTemplateTenantLinks
<1>3. CASE t = "aid_recipients"
  <2>1. EnforceAidRecipientTenantLinks(rows, new) /\ f \in {"program_id", "resident_id", "family_id"}
    BY <1>3, TheLinkGuards, TheColumns
  <2>. QED
    BY <1>3, <2>1 DEF EnforceAidRecipientTenantLinks
<1>4. CASE t = "finance_documents"
  <2>1. EnforceFinanceDocumentTenantLinks(rows, new) /\ f \in {"file_id"}
    BY <1>4, TheLinkGuards, TheColumns
  <2>. QED
    BY <1>4, <2>1 DEF EnforceFinanceDocumentTenantLinks
<1>5. CASE t = "gallery_items"
  <2>1. EnforceGalleryItemTenantLinks(rows, new) /\ f \in {"file_id"}
    BY <1>5, TheLinkGuards, TheColumns
  <2>. QED
    BY <1>5, <2>1 DEF EnforceGalleryItemTenantLinks
<1>6. CASE t = "letter_outputs"
  <2>1. EnforceLetterOutputTenantLinks(rows, new) /\ f \in {"letter_request_id", "file_id"}
    BY <1>6, TheLinkGuards, TheColumns
  <2>. QED
    BY <1>6, <2>1 DEF EnforceLetterOutputTenantLinks
<1>7. CASE t = "neighborhood_units"
  <2>1. EnforceNeighborhoodUnitTenantLinks(rows, i, new) /\ f \in {"hamlet_id"}
    BY <1>7, TheLinkGuards, TheColumns
  <2>. QED
    BY <1>7, <2>1 DEF EnforceNeighborhoodUnitTenantLinks
<1>8. CASE t = "addresses"
  <2>1. EnforceAddressTenantLinks(rows, new) /\ f \in {"hamlet_id", "neighborhood_unit_id"}
    BY <1>8, TheLinkGuards, TheColumns
  <2>. QED
    BY <1>8, <2>1 DEF EnforceAddressTenantLinks
<1>9. CASE t = "residents"
  <2>1. EnforceResidentTenantLinks(rows, i, new) /\ f \in {"family_id", "address_id"}
    BY <1>9, TheLinkGuards, TheColumns
  <2>. QED
    BY <1>9, <2>1 DEF EnforceResidentTenantLinks
<1>10. CASE t = "family_members"
  <2>1. EnforceFamilyMemberTenantLinks(rows, new) /\ f \in {"family_id", "resident_id"}
    BY <1>10, TheLinkGuards, TheColumns
  <2>. QED
    BY <1>10, <2>1 DEF EnforceFamilyMemberTenantLinks
<1>11. CASE t = "civil_events"
  <2>1. EnforceCivilEventTenantLinks(rows, new) /\ f \in {"resident_id"}
    BY <1>11, TheLinkGuards, TheColumns
  <2>. QED
    BY <1>11, <2>1 DEF EnforceCivilEventTenantLinks
<1>12. CASE t = "bumdes_financial_records"
  <2>1. EnforceBumdesFinancialRecordTenantLinks(rows, new) /\ f \in {"unit_id"}
    BY <1>12, TheLinkGuards, TheColumns
  <2>. QED
    BY <1>12, <2>1 DEF EnforceBumdesFinancialRecordTenantLinks
<1>13. CASE t = "notifications"
  <2>1. EnforceNotificationTenantLinks(rows, new) /\ f \in {"user_id"}
    BY <1>13, TheLinkGuards, TheColumns
  <2>. QED
    BY <1>13, <2>1 DEF EnforceNotificationTenantLinks, AssertExactTenantIdentityLink
<1>14. CASE t = "complaints"
  <2>1. EnforceComplaintTenantLinks(rows, i, new) /\ f \in {"reporter_id", "assignee_id"}
    BY <1>14, TheLinkGuards, TheColumns
  <2>. QED
    BY <1>14, <2>1 DEF EnforceComplaintTenantLinks, AssertExactTenantIdentityLink
<1>15. CASE t = "letter_requests"
  <2>1. EnforceLetterRequestTenantLinks(rows, new) /\ f \in {"requester_id", "resident_id", "letter_type_id"}
    BY <1>15, TheLinkGuards, TheColumns
  <2>. QED
    BY <1>15, <2>1 DEF EnforceLetterRequestTenantLinks, AssertExactTenantIdentityLink
<1>16. CASE t = "letter_approvals"
  <2>1. EnforceLetterApprovalTenantLinks(rows, new) /\ f \in {"letter_request_id", "approver_id"}
    BY <1>16, TheLinkGuards, TheColumns
  <2>. QED
    BY <1>16, <2>1 DEF EnforceLetterApprovalTenantLinks, AssertExactTenantIdentityLink
<1>17. CASE t = "letter_number_sequences"
  <2>1. EnforceLetterNumberSequenceTenantLinks(rows, new) /\ f \in {"letter_type_id"}
    BY <1>17, TheLinkGuards, TheColumns
  <2>. QED
    BY <1>17, <2>1 DEF EnforceLetterNumberSequenceTenantLinks
<1>. QED
  BY TheTables, <1>1, <1>2, <1>3, <1>4, <1>5, <1>6, <1>7, <1>8, <1>9, <1>10, <1>11, <1>12, <1>13, <1>14, <1>15, <1>16, <1>17

\* A row that is written refers to rows that are there, of its own tenant.
LEMMA GuardsOut ==
  ASSUME LinksTypeOK, NEW t \in scope, NEW i, NEW new \in Records(t), LinkGuard(rows, t, i, new),
         NEW f \in Columns(t), new.ref[f] # 0
  PROVE  /\ Stored(rows, References[t][f], new.ref[f])
         /\ rows[References[t][f]][new.ref[f]].tenant = OwnTenant(t, new)
<1>1. t \in DOMAIN References /\ f \in DOMAIN References[t]
  BY CellShape
<1>2. DOMAIN new.ref = Columns(t)
  BY NewStored
<1>3. CASE t \notin {"user_roles", "complaint_responses"}
  <2>1. AssertSameTenantLink(rows, new.tenant, new, t, f)
    BY <1>1, <1>3, GuardAsserts
  <2>. QED
    BY <1>2, <1>3, <2>1, OwnTenantIs DEF AssertSameTenantLink, Ref
<1>4. CASE t = "user_roles"
  <2>1. AssertUserRoleTenantLink(rows, new) /\ f \in {"user_id", "role_id"}
    BY <1>1, <1>4, TheLinkGuards, TheColumns
  <2>2. OwnTenant(t, new) = rows["users"][new.ref["user_id"]].tenant
    BY <1>4, OwnTenantIs
  <2>. QED
    BY <1>4, <2>1, <2>2, TheColumns DEF AssertUserRoleTenantLink
<1>5. CASE t = "complaint_responses"
  <2>1. AssertComplaintResponseTenantLink(rows, new) /\ f \in {"complaint_id", "responder_id"}
    BY <1>1, <1>5, TheLinkGuards, TheColumns
  <2>2. OwnTenant(t, new) = rows["complaints"][new.ref["complaint_id"]].tenant
    BY <1>5, OwnTenantIs
  <2>3. CASE f = "complaint_id"
    BY <1>5, <2>1, <2>2, <2>3, TheColumns DEF AssertComplaintResponseTenantLink
  <2>4. CASE f = "responder_id"
    <3>1. Ref(new, f) = new.ref[f]
      BY <1>2 DEF Ref
    <3>. QED
      BY <1>5, <2>1, <2>2, <2>4, <3>1, TheColumns
         DEF AssertComplaintResponseTenantLink, AssertExactTenantIdentityLink, AssertSameTenantLink
  <2>. QED
    BY <2>1, <2>3, <2>4
<1>. QED
  BY <1>3, <1>4, <1>5

\* The triggers that a change of the tenant runs, on the row that is changed.
Moves(t, i, new) == LinkGuard(rows, t, i, new) /\ DependentGuard(rows, t, i, new)
\* What they say of each link that leads to the row.
LEMMA MovesAssert ==
  ASSUME NEW s \in DOMAIN References, s \notin {"user_roles", "complaint_responses"},
         NEW f \in DOMAIN References[s], <<s, f>> \notin UnguardedMoves,
         NEW i, NEW new, Moves(References[s][f], i, new)
  PROVE  AssertNoDependentTenantMismatch(rows, i, new, s, f)
<1>1. CASE s = "families"
  <2>1. CASE f = "address_id"
    <3>1. References[s][f] = "addresses"
      BY <1>1, <2>1, TheColumns
    <3>2. EnforceAddressDependentTenantLinks(rows, i, new)
      BY <3>1, TheDependentGuards DEF Moves
    <3>. QED
      BY <1>1, <2>1, <3>2 DEF EnforceAddressDependentTenantLinks
  <2>2. CASE f = "head_resident_id"
    <3>1. References[s][f] = "residents"
      BY <1>1, <2>2, TheColumns
    <3>2. EnforceResidentTenantLinks(rows, i, new)
      BY <3>1, TheLinkGuards DEF Moves
    <3>. QED
      BY <1>1, <2>2, <3>2 DEF EnforceResidentTenantLinks
  <2>. QED
    BY <1>1, <2>1, <2>2, TheColumns
<1>2. CASE s = "letter_templates"
  <2>1. CASE f = "letter_type_id"
    <3>1. References[s][f] = "letter_types"
      BY <1>2, <2>1, TheColumns
    <3>2. EnforceLetterTypeDependents(rows, i, new)
      BY <3>1, TheDependentGuards DEF Moves
    <3>. QED
      BY <1>2, <2>1, <3>2 DEF EnforceLetterTypeDependents
  <2>. QED
    BY <1>2, <2>1, TheColumns
<1>3. CASE s = "aid_recipients"
  BY <1>3, TheColumns DEF UnguardedMoves
<1>4. CASE s = "finance_documents"
  BY <1>4, TheColumns DEF UnguardedMoves
<1>5. CASE s = "gallery_items"
  BY <1>5, TheColumns DEF UnguardedMoves
<1>6. CASE s = "letter_outputs"
  <2>1. CASE f = "letter_request_id"
    <3>1. References[s][f] = "letter_requests"
      BY <1>6, <2>1, TheColumns
    <3>2. EnforceLetterRequestDependents(rows, i, new)
      BY <3>1, TheDependentGuards DEF Moves
    <3>. QED
      BY <1>6, <2>1, <3>2 DEF EnforceLetterRequestDependents
  <2>2. CASE f = "file_id"
    BY <1>6, <2>2 DEF UnguardedMoves
  <2>. QED
    BY <1>6, <2>1, <2>2, TheColumns
<1>7. CASE s = "neighborhood_units"
  <2>1. CASE f = "hamlet_id"
    <3>1. References[s][f] = "hamlets"
      BY <1>7, <2>1, TheColumns
    <3>2. EnforceHamletDependentTenantLinks(rows, i, new)
      BY <3>1, TheDependentGuards DEF Moves
    <3>. QED
      BY <1>7, <2>1, <3>2 DEF EnforceHamletDependentTenantLinks
  <2>. QED
    BY <1>7, <2>1, TheColumns
<1>8. CASE s = "addresses"
  <2>1. CASE f = "hamlet_id"
    <3>1. References[s][f] = "hamlets"
      BY <1>8, <2>1, TheColumns
    <3>2. EnforceHamletDependentTenantLinks(rows, i, new)
      BY <3>1, TheDependentGuards DEF Moves
    <3>. QED
      BY <1>8, <2>1, <3>2 DEF EnforceHamletDependentTenantLinks
  <2>2. CASE f = "neighborhood_unit_id"
    <3>1. References[s][f] = "neighborhood_units"
      BY <1>8, <2>2, TheColumns
    <3>2. EnforceNeighborhoodUnitTenantLinks(rows, i, new)
      BY <3>1, TheLinkGuards DEF Moves
    <3>. QED
      BY <1>8, <2>2, <3>2 DEF EnforceNeighborhoodUnitTenantLinks
  <2>. QED
    BY <1>8, <2>1, <2>2, TheColumns
<1>9. CASE s = "residents"
  <2>1. CASE f = "family_id"
    <3>1. References[s][f] = "families"
      BY <1>9, <2>1, TheColumns
    <3>2. EnforceFamilyDependentTenantLinks(rows, i, new)
      BY <3>1, TheDependentGuards DEF Moves
    <3>. QED
      BY <1>9, <2>1, <3>2 DEF EnforceFamilyDependentTenantLinks
  <2>2. CASE f = "address_id"
    <3>1. References[s][f] = "addresses"
      BY <1>9, <2>2, TheColumns
    <3>2. EnforceAddressDependentTenantLinks(rows, i, new)
      BY <3>1, TheDependentGuards DEF Moves
    <3>. QED
      BY <1>9, <2>2, <3>2 DEF EnforceAddressDependentTenantLinks
  <2>. QED
    BY <1>9, <2>1, <2>2, TheColumns
<1>10. CASE s = "family_members"
  <2>1. CASE f = "family_id"
    <3>1. References[s][f] = "families"
      BY <1>10, <2>1, TheColumns
    <3>2. EnforceFamilyDependentTenantLinks(rows, i, new)
      BY <3>1, TheDependentGuards DEF Moves
    <3>. QED
      BY <1>10, <2>1, <3>2 DEF EnforceFamilyDependentTenantLinks
  <2>2. CASE f = "resident_id"
    <3>1. References[s][f] = "residents"
      BY <1>10, <2>2, TheColumns
    <3>2. EnforceResidentTenantLinks(rows, i, new)
      BY <3>1, TheLinkGuards DEF Moves
    <3>. QED
      BY <1>10, <2>2, <3>2 DEF EnforceResidentTenantLinks
  <2>. QED
    BY <1>10, <2>1, <2>2, TheColumns
<1>11. CASE s = "civil_events"
  <2>1. CASE f = "resident_id"
    <3>1. References[s][f] = "residents"
      BY <1>11, <2>1, TheColumns
    <3>2. EnforceResidentTenantLinks(rows, i, new)
      BY <3>1, TheLinkGuards DEF Moves
    <3>. QED
      BY <1>11, <2>1, <3>2 DEF EnforceResidentTenantLinks
  <2>. QED
    BY <1>11, <2>1, TheColumns
<1>12. CASE s = "bumdes_financial_records"
  <2>1. CASE f = "unit_id"
    <3>1. References[s][f] = "bumdes_units"
      BY <1>12, <2>1, TheColumns
    <3>2. EnforceBumdesUnitDependentTenantLinks(rows, i, new)
      BY <3>1, TheDependentGuards DEF Moves
    <3>. QED
      BY <1>12, <2>1, <3>2 DEF EnforceBumdesUnitDependentTenantLinks
  <2>. QED
    BY <1>12, <2>1, TheColumns
<1>13. CASE s = "notifications"
  <2>1. CASE f = "user_id"
    <3>1. References[s][f] = "users"
      BY <1>13, <2>1, TheColumns
    <3>2. EnforceUserIdentityDependentTenantLinks(rows, i, new)
      BY <3>1, TheDependentGuards DEF Moves
    <3>. QED
      BY <1>13, <2>1, <3>2 DEF EnforceUserIdentityDependentTenantLinks
  <2>. QED
    BY <1>13, <2>1, TheColumns
<1>14. CASE s = "complaints"
  <2>1. CASE f = "reporter_id"
    <3>1. References[s][f] = "users"
      BY <1>14, <2>1, TheColumns
    <3>2. EnforceUserIdentityDependentTenantLinks(rows, i, new)
      BY <3>1, TheDependentGuards DEF Moves
    <3>. QED
      BY <1>14, <2>1, <3>2 DEF EnforceUserIdentityDependentTenantLinks
  <2>2. CASE f = "assignee_id"
    <3>1. References[s][f] = "users"
      BY <1>14, <2>2, TheColumns
    <3>2. EnforceUserIdentityDependentTenantLinks(rows, i, new)
      BY <3>1, TheDependentGuards DEF Moves
    <3>. QED
      BY <1>14, <2>2, <3>2 DEF EnforceUserIdentityDependentTenantLinks
  <2>. QED
    BY <1>14, <2>1, <2>2, TheColumns
<1>15. CASE s = "letter_requests"
  <2>1. CASE f = "requester_id"
    <3>1. References[s][f] = "users"
      BY <1>15, <2>1, TheColumns
    <3>2. EnforceUserLetterDependents(rows, i, new)
      BY <3>1, TheDependentGuards DEF Moves
    <3>. QED
      BY <1>15, <2>1, <3>2 DEF EnforceUserLetterDependents
  <2>2. CASE f = "resident_id"
    <3>1. References[s][f] = "residents"
      BY <1>15, <2>2, TheColumns
    <3>2. EnforceResidentLetterDependents(rows, i, new)
      BY <3>1, TheDependentGuards DEF Moves
    <3>. QED
      BY <1>15, <2>2, <3>2 DEF EnforceResidentLetterDependents
  <2>3. CASE f = "letter_type_id"
    <3>1. References[s][f] = "letter_types"
      BY <1>15, <2>3, TheColumns
    <3>2. EnforceLetterTypeDependents(rows, i, new)
      BY <3>1, TheDependentGuards DEF Moves
    <3>. QED
      BY <1>15, <2>3, <3>2 DEF EnforceLetterTypeDependents
  <2>. QED
    BY <1>15, <2>1, <2>2, <2>3, TheColumns
<1>16. CASE s = "letter_approvals"
  <2>1. CASE f = "letter_request_id"
    <3>1. References[s][f] = "letter_requests"
      BY <1>16, <2>1, TheColumns
    <3>2. EnforceLetterRequestDependents(rows, i, new)
      BY <3>1, TheDependentGuards DEF Moves
    <3>. QED
      BY <1>16, <2>1, <3>2 DEF EnforceLetterRequestDependents
  <2>2. CASE f = "approver_id"
    <3>1. References[s][f] = "users"
      BY <1>16, <2>2, TheColumns
    <3>2. EnforceUserLetterDependents(rows, i, new)
      BY <3>1, TheDependentGuards DEF Moves
    <3>. QED
      BY <1>16, <2>2, <3>2 DEF EnforceUserLetterDependents
  <2>. QED
    BY <1>16, <2>1, <2>2, TheColumns
<1>17. CASE s = "letter_number_sequences"
  <2>1. CASE f = "letter_type_id"
    <3>1. References[s][f] = "letter_types"
      BY <1>17, <2>1, TheColumns
    <3>2. EnforceLetterTypeDependents(rows, i, new)
      BY <3>1, TheDependentGuards DEF Moves
    <3>. QED
      BY <1>17, <2>1, <3>2 DEF EnforceLetterTypeDependents
  <2>. QED
    BY <1>17, <2>1, TheColumns
<1>. QED
  BY TheTables, <1>1, <1>2, <1>3, <1>4, <1>5, <1>6, <1>7, <1>8, <1>9, <1>10, <1>11, <1>12, <1>13, <1>14, <1>15, <1>16, <1>17

LEMMA MovesIn ==
  ASSUME LinksTypeOK, NEW s \in scope, s \notin {"user_roles", "complaint_responses"},
         NEW f \in Columns(s), <<s, f>> \notin UnguardedMoves,
         NEW i, NEW new, Moves(References[s][f], i, new),
         NEW k \in RowsOf[s], Stored(rows, s, k), At(s, k, f) = i
  PROVE  rows[s][k].tenant = new.tenant
<1>1. s \in DOMAIN References /\ f \in DOMAIN References[s]
  BY CellShape
<1>2. AssertNoDependentTenantMismatch(rows, i, new, s, f)
  BY <1>1, MovesAssert
<1>. QED
  BY <1>2 DEF AssertNoDependentTenantMismatch, At

\* A user or role moves with the roles that are given, a user or complaint with the responses.
LEMMA MovesOfUsers ==
  ASSUME LinksTypeOK, NEW i, NEW new, Moves("users", i, new)
  PROVE  /\ "user_roles" \in scope => \A k \in RowsOf["user_roles"] :
              Stored(rows, "user_roles", k) /\ At("user_roles", k, "user_id") = i
                => rows["roles"][At("user_roles", k, "role_id")].tenant = new.tenant
         /\ "complaint_responses" \in scope => \A k \in RowsOf["complaint_responses"] :
              Stored(rows, "complaint_responses", k) /\ At("complaint_responses", k, "responder_id") = i
                => rows["complaints"][At("complaint_responses", k, "complaint_id")].tenant = new.tenant
<1>1. EnforceUserIdentityDependentTenantLinks(rows, i, new)
  BY TheDependentGuards DEF Moves
<1>. QED
  BY <1>1, TheColumns DEF EnforceUserIdentityDependentTenantLinks, HoldersAgree, At

LEMMA MovesOfRoles ==
  ASSUME LinksTypeOK, NEW i, NEW new, Moves("roles", i, new), "user_roles" \in scope,
         NEW k \in RowsOf["user_roles"], Stored(rows, "user_roles", k),
         At("user_roles", k, "role_id") = i
  PROVE  rows["users"][At("user_roles", k, "user_id")].tenant = new.tenant
<1>1. EnforceRoleIdentityDependentTenantLinks(rows, i, new)
  BY TheDependentGuards DEF Moves
<1>. QED
  BY <1>1, TheColumns DEF EnforceRoleIdentityDependentTenantLinks, HoldersAgree, At

LEMMA MovesOfComplaints ==
  ASSUME LinksTypeOK, NEW i, NEW new, LinkGuard(rows, "complaints", i, new), "complaint_responses" \in scope,
         NEW k \in RowsOf["complaint_responses"], Stored(rows, "complaint_responses", k),
         At("complaint_responses", k, "complaint_id") = i, At("complaint_responses", k, "responder_id") # 0
  PROVE  rows["users"][At("complaint_responses", k, "responder_id")].tenant = new.tenant
<1> DEFINE r == rows["complaint_responses"][k]
<1>1. EnforceComplaintTenantLinks(rows, i, new)
  BY TheLinkGuards
<1>2. AssertExactTenantIdentityLink(rows, new.tenant, r, "complaint_responses", "responder_id")
  BY <1>1 DEF EnforceComplaintTenantLinks, AssertNoComplaintResponseIdentityMismatch, At
<1>3. "responder_id" \in Columns("complaint_responses") /\ DOMAIN r.ref = Columns("complaint_responses")
  BY OwnColumns, RowShape
<1>4. Ref(r, "responder_id") = At("complaint_responses", k, "responder_id")
  BY <1>3 DEF Ref, At
<1>5. References["complaint_responses"]["responder_id"] = "users"
  BY TheColumns
<1> HIDE DEF r
<1>. QED
  BY <1>2, <1>4, <1>5 DEF AssertExactTenantIdentityLink, AssertSameTenantLink

\* Facts of a state in which the invariant holds, of one column of one row.
LEMMA CellFacts ==
  ASSUME LinksInv, NEW t \in scope, NEW k \in RowsOf[t], NEW f \in Columns(t)
  PROVE  /\ Stored(rows, t, k) => At(t, k, f) \in RowIds \cup {0} /\ (At(t, k, f) # 0 \/ Nullable(<<t, f>>))
         /\ Refers(t, k, f) => /\ At(t, k, f) \in RowsOf[References[t][f]]
                               /\ rows[References[t][f]][At(t, k, f)] # Missing
                               /\ <<t, f>> \in WithoutKey \/ Stored(rows, References[t][f], At(t, k, f))
<1>1. LinksTypeOK
  BY DEF LinksInv
<1>2. Stored(rows, t, k) => At(t, k, f) \in RowIds \cup {0}
  BY <1>1, RowShape DEF At
<1>3. RowsOf[References[t][f]] = RowIds
  BY <1>1, CellShape
<1>. QED
  BY <1>2, <1>3 DEF LinksInv, NotNull, NoneAhead, KeysStand, Refers

\* The rows of the two tables without a tenant refer to the row whose tenant they have.
LEMMA OwnersThere ==
  ASSUME LinksInv
  PROVE  /\ "user_roles" \in scope => \A k \in RowsOf["user_roles"] : Stored(rows, "user_roles", k) =>
              /\ At("user_roles", k, "user_id") # 0 /\ At("user_roles", k, "role_id") # 0
              /\ Stored(rows, "users", At("user_roles", k, "user_id"))
              /\ Stored(rows, "roles", At("user_roles", k, "role_id"))
         /\ "complaint_responses" \in scope => \A k \in RowsOf["complaint_responses"] :
              Stored(rows, "complaint_responses", k) =>
              /\ At("complaint_responses", k, "complaint_id") # 0
              /\ Stored(rows, "complaints", At("complaint_responses", k, "complaint_id"))
<1>1. LinksTypeOK
  BY DEF LinksInv
<1>2. \A l \in {<<"user_roles", "user_id">>, <<"user_roles", "role_id">>, <<"complaint_responses", "complaint_id">>} :
        ~Nullable(l) /\ l \notin WithoutKey
  <2>1. \A f : Nullable(<<"user_roles", f>>) <=> OnDeleteOf[<<"user_roles", f>>] \in {"none", "set null"} \/ f = "file_id"
    BY DEF Nullable
  <2>2. \A f : Nullable(<<"complaint_responses", f>>)
                <=> OnDeleteOf[<<"complaint_responses", f>>] \in {"none", "set null"} \/ f = "file_id"
    BY DEF Nullable
  <2>3. \A l : l \in WithoutKey => OnDeleteOf[l] = "none"
    BY DEF WithoutKey
  <2>. QED
    BY <2>1, <2>2, <2>3, SomeLinks
<1>3. ASSUME "user_roles" \in scope, NEW k \in RowsOf["user_roles"], Stored(rows, "user_roles", k)
      PROVE  /\ At("user_roles", k, "user_id") # 0 /\ At("user_roles", k, "role_id") # 0
             /\ Stored(rows, "users", At("user_roles", k, "user_id"))
             /\ Stored(rows, "roles", At("user_roles", k, "role_id"))
  <2>1. "user_id" \in Columns("user_roles") /\ "role_id" \in Columns("user_roles")
    BY <1>1, <1>3, OwnColumns
  <2>2. At("user_roles", k, "user_id") # 0 /\ At("user_roles", k, "role_id") # 0
    BY <1>2, <1>3, <2>1, CellFacts
  <2>. QED
    BY <1>2, <1>3, <2>1, <2>2, CellFacts, TheColumns DEF Refers
<1>4. ASSUME "complaint_responses" \in scope, NEW k \in RowsOf["complaint_responses"],
             Stored(rows, "complaint_responses", k)
      PROVE  /\ At("complaint_responses", k, "complaint_id") # 0
             /\ Stored(rows, "complaints", At("complaint_responses", k, "complaint_id"))
  <2>1. "complaint_id" \in Columns("complaint_responses")
    BY <1>1, <1>4, OwnColumns
  <2>2. At("complaint_responses", k, "complaint_id") # 0
    BY <1>2, <1>4, <2>1, CellFacts
  <2>. QED
    BY <1>2, <1>4, <2>1, <2>2, CellFacts, TheColumns DEF Refers
<1>. QED
  BY <1>3, <1>4

LEMMA LinksStart == LinksInit => LinksInv
<1> SUFFICES ASSUME LinksInit
             PROVE  LinksInv
  OBVIOUS
<1>1. \A t \in scope : \A k \in RowsOf[t] : rows[t][k] = Missing /\ ~Stored(rows, t, k)
  BY DEF LinksInit, Stored
<1>2. LinksTypeOK
  BY DEF LinksInit, LinksTypeOK
<1>3. AddressInHamlet
  BY <1>1 DEF AddressInHamlet
<1>. QED
  BY <1>1, <1>2, <1>3 DEF LinksInv, NotNull, NoneAhead, KeysStand, TenantsAgree, Refers

\* A row is written, for the first time or again.
Written(t, i, new) ==
  /\ KeysHold(rows, t, new) /\ LinkGuard(rows, t, i, new)
  /\ \/ rows[t][i] = Missing
     \/ /\ Stored(rows, t, i)
        /\ new.tenant # rows[t][i].tenant => DependentGuard(rows, t, i, new)
  /\ rows' = [rows EXCEPT ![t][i] = new] /\ scope' = scope

LEMMA WriteMoves ==
  ASSUME LinksInv, NEW t \in scope, NEW i \in RowsOf[t], NEW new \in Records(t), Written(t, i, new)
  PROVE  /\ LinksTypeOK'
         /\ rows'[t][i] = new /\ Stored(rows', t, i)
         /\ \A u \in scope : \A k \in RowsOf[u] : <<u, k>> # <<t, i>> =>
              rows'[u][k] = rows[u][k] /\ (Stored(rows', u, k) <=> Stored(rows, u, k))
         /\ \A u : Columns(u)' = Columns(u)
         /\ \A u \in scope \ {t} : rows'[u] = rows[u]
<1>1. /\ DOMAIN rows = scope /\ scope \in Scopes
      /\ \A u \in scope : rows[u] \in [RowsOf[u] -> Records(u) \cup {Missing, Deleted}]
  BY DEF LinksInv, LinksTypeOK
<1>2. scope' = scope /\ DOMAIN rows' = scope
  BY <1>1 DEF Written
<1>3. \A u \in scope : rows'[u] = IF u = t THEN [rows[t] EXCEPT ![i] = new] ELSE rows[u]
  BY <1>1 DEF Written
<1>4. \A u : Columns(u)' = Columns(u)
  BY <1>2 DEF Columns
<1>5. \A u : Records(u)' = Records(u)
  BY <1>4 DEF Records
<1>6. \A u \in scope : rows'[u] \in [RowsOf[u] -> Records(u) \cup {Missing, Deleted}]
  BY <1>1, <1>3
<1>7. LinksTypeOK'
  BY <1>1, <1>2, <1>5, <1>6 DEF LinksTypeOK
<1>8. rows'[t][i] = new
  BY <1>1, <1>3
<1>9. Stored(rows', t, i)
  BY <1>8, NewStored DEF Stored
<1>10. \A u \in scope : \A k \in RowsOf[u] : <<u, k>> # <<t, i>> => rows'[u][k] = rows[u][k]
  BY <1>1, <1>3
<1>. QED
  BY <1>3, <1>4, <1>7, <1>8, <1>9, <1>10 DEF Stored

LEMMA WriteKeepsLinks ==
  ASSUME LinksInv, NEW t \in scope, NEW i \in RowsOf[t], NEW new \in Records(t), Written(t, i, new)
  PROVE  NotNull' /\ NoneAhead' /\ KeysStand' /\ TenantsAgree'
<1>1. /\ LinksTypeOK /\ LinksTypeOK' /\ scope' = scope
      /\ rows'[t][i] = new /\ Stored(rows', t, i)
      /\ \A u : Columns(u)' = Columns(u)
      /\ \A u \in scope \ {t} : rows'[u] = rows[u]
  BY WriteMoves DEF Written, LinksInv
<1>2. \A u \in scope : \A k \in RowsOf[u] : <<u, k>> # <<t, i>> =>
        rows'[u][k] = rows[u][k] /\ (Stored(rows', u, k) <=> Stored(rows, u, k))
  BY WriteMoves
\* The row that is written.
<1>3. ASSUME NEW f \in Columns(t)
      PROVE  /\ new.ref[f] # 0 \/ Nullable(<<t, f>>)
             /\ new.ref[f] # 0 =>
                  LET R == References[t][f] IN
                  /\ rows'[R][new.ref[f]] = rows[R][new.ref[f]]
                  /\ Stored(rows', R, new.ref[f])
                  /\ rows'[R][new.ref[f]].tenant = OwnTenant(t, new)'
  <2>1. new.ref[f] # 0 \/ Nullable(<<t, f>>)
    BY DEF Written, KeysHold
  <2>2. ASSUME new.ref[f] # 0
        PROVE  LET R == References[t][f] IN
               /\ rows'[R][new.ref[f]] = rows[R][new.ref[f]]
               /\ Stored(rows', R, new.ref[f])
               /\ rows'[R][new.ref[f]].tenant = OwnTenant(t, new)'
    <3>1. References[t][f] \in scope \ {t}
      BY <1>1, CellShape
    <3>2. /\ Stored(rows, References[t][f], new.ref[f])
          /\ rows[References[t][f]][new.ref[f]].tenant = OwnTenant(t, new)
      BY <1>1, <2>2, GuardsOut DEF Written
    <3>3. rows'[References[t][f]] = rows[References[t][f]]
      BY <1>1, <3>1
    <3>4. OwnTenant(t, new)' = OwnTenant(t, new)
      <4>1. CASE t \notin {"user_roles", "complaint_responses"}
        BY <4>1, Zenon DEF OwnTenant
      <4>2. CASE t = "user_roles"
        <5>1. rows'["users"] = rows["users"]
          BY <1>1, <4>2, ScopeShape DEF LinksTypeOK
        <5>. QED
          BY <4>2, <5>1, Zenon DEF OwnTenant
      <4>3. CASE t = "complaint_responses"
        <5>1. rows'["complaints"] = rows["complaints"]
          BY <1>1, <4>3, ScopeShape DEF LinksTypeOK
        <5>. QED
          BY <4>3, <5>1, Zenon DEF OwnTenant
      <4>. QED
        BY <4>1, <4>2, <4>3
    <3>. QED
      BY <3>2, <3>3, <3>4 DEF Stored
  <2>. QED
    BY <2>1, <2>2
\* No tenant of any row changes, or the one that is written moves.
<1>4. \/ \A q \in scope : \A m \in RowsOf[q] : rows[q][m] # Missing => rows'[q][m].tenant = rows[q][m].tenant
      \/ Stored(rows, t, i) /\ Moves(t, i, new)
  <2>1. CASE rows[t][i] = Missing
    BY <1>1, <1>2, <2>1
  <2>2. CASE rows[t][i] # Missing
    <3>1. Stored(rows, t, i)
      BY <2>2 DEF Written
    <3>2. CASE new.tenant = rows[t][i].tenant
      BY <1>1, <1>2, <3>2
    <3>3. CASE new.tenant # rows[t][i].tenant
      BY <2>2, <3>1, <3>3 DEF Written, Moves
    <3>. QED
      BY <3>1, <3>2, <3>3
  <2>. QED
    BY <2>1, <2>2
\* The rows with a tenant of their own.
<1>5. ASSUME NEW u \in scope, u \notin {"user_roles", "complaint_responses"}, NEW k \in RowsOf[u],
             <<u, k>> # <<t, i>>, NEW f \in Columns(u), Refers(u, k, f), <<u, f>> \notin UnguardedMoves,
             Stored(rows', References[u][f], At(u, k, f))
      PROVE  rows'[References[u][f]][At(u, k, f)].tenant = rows[u][k].tenant
  <2> DEFINE R == References[u][f]
  <2>1. PICK j : j = At(u, k, f)
    OBVIOUS
  <2>2. j \in RowsOf[R] /\ rows[R][j] # Missing /\ R \in scope
    BY <1>1, <1>5, <2>1, CellFacts, CellShape
  <2>3. Stored(rows, R, j) => rows[R][j].tenant = rows[u][k].tenant
    BY <1>5, <2>1, OwnTenantIs DEF LinksInv, TenantsAgree, Holds
  <2>4. CASE <<R, j>> = <<t, i>>
    <3>1. Stored(rows, R, j)
      BY <2>2, <2>4 DEF Written, Stored
    <3>2. CASE Moves(t, i, new)
      <4>1. rows[u][k].tenant = new.tenant
        <5>1. Moves(References[u][f], i, new) /\ At(u, k, f) = i
          BY <2>1, <2>4, <3>2
        <5>2. Stored(rows, u, k)
          BY <1>5 DEF Refers
        <5>. QED
          BY <1>1, <1>5, <5>1, <5>2, MovesIn
      <4>. QED
        BY <1>1, <2>1, <2>4, <4>1
    <3>3. CASE ~Moves(t, i, new)
      BY <1>4, <2>1, <2>2, <2>3, <3>1, <3>3
    <3>. QED
      BY <3>2, <3>3
  <2>5. CASE <<R, j>> # <<t, i>>
    BY <1>2, <1>5, <2>1, <2>2, <2>3, <2>5
  <2>. QED
    BY <2>4, <2>5
\* The roles that are given.
<1>6. ASSUME "user_roles" \in scope, NEW k \in RowsOf["user_roles"], <<"user_roles", k>> # <<t, i>>,
             Stored(rows, "user_roles", k)
      PROVE  rows'["roles"][At("user_roles", k, "role_id")].tenant
               = rows'["users"][At("user_roles", k, "user_id")].tenant
  <2>1. PICK u, r : u = At("user_roles", k, "user_id") /\ r = At("user_roles", k, "role_id")
    OBVIOUS
  <2>2. "user_id" \in Columns("user_roles") /\ "role_id" \in Columns("user_roles")
    BY <1>1, <1>6, OwnColumns
  <2>3. "users" \in scope /\ "roles" \in scope /\ u \in RowsOf["users"] /\ r \in RowsOf["roles"]
        /\ Stored(rows, "users", u) /\ Stored(rows, "roles", r)
        /\ Refers("user_roles", k, "role_id")
    <3>1. /\ u # 0 /\ r # 0 /\ Stored(rows, "users", u) /\ Stored(rows, "roles", r)
      BY <1>6, <2>1, OwnersThere
    <3>2. Refers("user_roles", k, "user_id") /\ Refers("user_roles", k, "role_id")
      BY <1>6, <2>1, <3>1 DEF Refers
    <3>3. References["user_roles"]["user_id"] = "users" /\ References["user_roles"]["role_id"] = "roles"
      BY TheColumns
    <3>4. u \in RowsOf["users"] /\ r \in RowsOf["roles"]
      BY <1>6, <2>1, <2>2, <3>2, <3>3, CellFacts
    <3>5. "users" \in scope /\ "roles" \in scope
      BY <1>1, <1>6, <2>2, <3>3, CellShape
    <3>. QED
      BY <3>1, <3>2, <3>4, <3>5
  <2>4. rows["roles"][r].tenant = rows["users"][u].tenant
    <3>1. <<"user_roles", "role_id">> \notin UnguardedMoves
      BY DEF UnguardedMoves
    <3>2. OwnTenant("user_roles", rows["user_roles"][k]) = rows["users"][u].tenant
      BY <2>1, OwnTenantIs DEF At
    <3>3. References["user_roles"]["role_id"] = "roles"
      BY TheColumns
    <3>. QED
      BY <1>6, <2>1, <2>2, <2>3, <3>1, <3>2, <3>3 DEF LinksInv, TenantsAgree, Holds
  <2>5. rows["users"][u] # Missing /\ rows["roles"][r] # Missing
    BY <2>3 DEF Stored
  <2>6. CASE t = "users" /\ i = u /\ Moves(t, i, new)
    <3>1. rows["roles"][r].tenant = new.tenant
      BY <1>1, <1>6, <2>1, <2>6, MovesOfUsers
    <3>. QED
      BY <1>1, <2>1, <2>3, <2>6, <3>1
  <2>7. CASE t = "roles" /\ i = r /\ Moves(t, i, new)
    <3>1. rows["users"][u].tenant = new.tenant
      BY <1>1, <1>6, <2>1, <2>7, MovesOfRoles
    <3>. QED
      BY <1>1, <2>1, <2>3, <2>7, <3>1
  <2>8. CASE ~Moves(t, i, new)
    BY <1>4, <2>1, <2>3, <2>4, <2>5, <2>8
  <2>9. CASE <<t, i>> # <<"users", u>> /\ <<t, i>> # <<"roles", r>>
    BY <1>2, <2>1, <2>3, <2>4, <2>9
  <2>. QED
    BY <2>6, <2>7, <2>8, <2>9
\* The responses to complaints.
<1>7. ASSUME "complaint_responses" \in scope, NEW k \in RowsOf["complaint_responses"],
             <<"complaint_responses", k>> # <<t, i>>, Refers("complaint_responses", k, "responder_id")
      PROVE  Stored(rows', "users", At("complaint_responses", k, "responder_id")) =>
               rows'["users"][At("complaint_responses", k, "responder_id")].tenant
                 = rows'["complaints"][At("complaint_responses", k, "complaint_id")].tenant
  <2>1. PICK u, c : u = At("complaint_responses", k, "responder_id") /\ c = At("complaint_responses", k, "complaint_id")
    OBVIOUS
  <2>2. "complaint_id" \in Columns("complaint_responses") /\ "responder_id" \in Columns("complaint_responses")
    BY <1>1, <1>7, OwnColumns
  <2>3. /\ "users" \in scope /\ "complaints" \in scope /\ u \in RowsOf["users"] /\ c \in RowsOf["complaints"]
        /\ Stored(rows, "complaints", c) /\ Stored(rows, "users", u)
    <3>1. c # 0 /\ Stored(rows, "complaints", c)
      BY <1>7, <2>1, OwnersThere DEF Refers
    <3>2. Refers("complaint_responses", k, "complaint_id")
      BY <1>7, <2>1, <3>1 DEF Refers
    <3>3. <<"complaint_responses", "responder_id">> \notin WithoutKey
      BY SomeLinks DEF WithoutKey
    <3>4. /\ References["complaint_responses"]["complaint_id"] = "complaints"
          /\ References["complaint_responses"]["responder_id"] = "users"
      BY TheColumns
    <3>5. c \in RowsOf["complaints"] /\ u \in RowsOf["users"] /\ Stored(rows, "users", u)
      BY <1>7, <2>1, <2>2, <3>2, <3>3, <3>4, CellFacts
    <3>6. "users" \in scope /\ "complaints" \in scope
      BY <1>1, <1>7, <2>2, <3>4, CellShape
    <3>. QED
      BY <3>1, <3>5, <3>6
  <2>4. rows["users"][u].tenant = rows["complaints"][c].tenant
    <3>1. <<"complaint_responses", "responder_id">> \notin UnguardedMoves
      BY DEF UnguardedMoves
    <3>2. OwnTenant("complaint_responses", rows["complaint_responses"][k]) = rows["complaints"][c].tenant
      BY <2>1, OwnTenantIs DEF At
    <3>3. References["complaint_responses"]["responder_id"] = "users"
      BY TheColumns
    <3>. QED
      BY <1>7, <2>1, <2>2, <2>3, <3>1, <3>2, <3>3 DEF LinksInv, TenantsAgree, Holds
  <2>5. rows["users"][u] # Missing /\ rows["complaints"][c] # Missing
    BY <2>3 DEF Stored
  <2>6. CASE t = "users" /\ i = u /\ Moves(t, i, new)
    <3>1. rows["complaints"][c].tenant = new.tenant
      BY <1>1, <1>7, <2>1, <2>6, MovesOfUsers DEF Refers
    <3>. QED
      BY <1>1, <2>1, <2>3, <2>6, <3>1
  <2>7. CASE t = "complaints" /\ i = c /\ Moves(t, i, new)
    <3>1. rows["users"][u].tenant = new.tenant
      BY <1>1, <1>7, <2>1, <2>7, MovesOfComplaints DEF Refers, Moves
    <3>. QED
      BY <1>1, <2>1, <2>3, <2>7, <3>1
  <2>8. CASE ~Moves(t, i, new)
    BY <1>4, <2>1, <2>3, <2>4, <2>5, <2>8
  <2>9. CASE <<t, i>> # <<"users", u>> /\ <<t, i>> # <<"complaints", c>>
    BY <1>2, <2>1, <2>3, <2>4, <2>9
  <2>. QED
    BY <2>6, <2>7, <2>8, <2>9
\* Every row that is left alone.
<1>8. ASSUME NEW u \in scope, NEW k \in RowsOf[u], <<u, k>> # <<t, i>>, NEW f \in Columns(u), Refers(u, k, f)
      PROVE  /\ rows'[References[u][f]][At(u, k, f)] # Missing
             /\ <<u, f>> \in WithoutKey \/ Stored(rows', References[u][f], At(u, k, f))
             /\ Stored(rows', References[u][f], At(u, k, f)) /\ <<u, f>> \notin UnguardedMoves =>
                  rows'[References[u][f]][At(u, k, f)].tenant = OwnTenant(u, rows[u][k])'
  <2> DEFINE R == References[u][f]
  <2>1. PICK j : j = At(u, k, f)
    OBVIOUS
  <2>2. /\ j \in RowsOf[R] /\ rows[R][j] # Missing /\ R \in scope
        /\ <<u, f>> \in WithoutKey \/ Stored(rows, R, j)
    BY <1>1, <1>8, <2>1, CellFacts, CellShape
  <2>3. rows'[R][j] # Missing /\ (Stored(rows, R, j) => Stored(rows', R, j))
    <3>1. CASE <<R, j>> = <<t, i>>
      BY <1>1, <3>1 DEF Stored
    <3>2. CASE <<R, j>> # <<t, i>>
      BY <1>2, <2>2, <3>2
    <3>. QED
      BY <3>1, <3>2
  <2>4. ASSUME Stored(rows', R, j), <<u, f>> \notin UnguardedMoves
        PROVE  rows'[R][j].tenant = OwnTenant(u, rows[u][k])'
    <3>1. rows'[u][k] = rows[u][k]
      BY <1>2, <1>8
    <3>2. CASE u \notin {"user_roles", "complaint_responses"}
      <4>1. OwnTenant(u, rows[u][k])' = rows'[u][k].tenant
        BY <3>2, Zenon DEF OwnTenant
      <4>. QED
        BY <1>5, <1>8, <2>1, <2>4, <3>1, <3>2, <4>1
    <3>3. CASE u = "user_roles"
      <4>1. OwnTenant(u, rows[u][k])' = rows'["users"][rows'[u][k].ref["user_id"]].tenant
        BY <3>3, Zenon DEF OwnTenant
      <4>2. OwnTenant(u, rows[u][k])' = rows'["users"][At(u, k, "user_id")].tenant
        BY <3>1, <4>1 DEF At
      <4>3. f \in {"user_id", "role_id"} /\ R = (IF f = "user_id" THEN "users" ELSE "roles")
        BY <1>1, <1>8, <3>3, CellShape, TheColumns
      <4>4. Stored(rows, u, k)
        BY <1>8 DEF Refers
      <4>. QED
        BY <1>6, <1>8, <2>1, <3>3, <4>2, <4>3, <4>4
    <3>4. CASE u = "complaint_responses"
      <4>1. OwnTenant(u, rows[u][k])' = rows'["complaints"][rows'[u][k].ref["complaint_id"]].tenant
        BY <3>4, Zenon DEF OwnTenant
      <4>2. OwnTenant(u, rows[u][k])' = rows'["complaints"][At(u, k, "complaint_id")].tenant
        BY <3>1, <4>1 DEF At
      <4>3. f \in {"complaint_id", "responder_id"} /\ R = (IF f = "complaint_id" THEN "complaints" ELSE "users")
        BY <1>1, <1>8, <3>4, CellShape, TheColumns
      <4>. QED
        BY <1>7, <1>8, <2>1, <2>4, <3>4, <4>2, <4>3
    <3>. QED
      BY <3>2, <3>3, <3>4
  <2>. QED
    BY <2>1, <2>2, <2>3, <2>4
<1>9. NotNull'
  <2> SUFFICES ASSUME NEW u \in scope, NEW k \in RowsOf[u], NEW f \in Columns(u), Stored(rows', u, k)
               PROVE  rows'[u][k].ref[f] # 0 \/ Nullable(<<u, f>>)
    BY <1>1 DEF NotNull, At
  <2>1. CASE <<u, k>> = <<t, i>>
    BY <1>1, <1>3, <2>1
  <2>2. CASE <<u, k>> # <<t, i>>
    BY <1>2, <2>2 DEF LinksInv, NotNull, At
  <2>. QED
    BY <2>1, <2>2
<1>10. ASSUME NEW u \in scope, NEW k \in RowsOf[u], NEW f \in Columns(u),
              Stored(rows', u, k), rows'[u][k].ref[f] # 0
       PROVE  LET R == References[u][f]
                  j == rows'[u][k].ref[f] IN
              /\ rows'[R][j] # Missing
              /\ <<u, f>> \in WithoutKey \/ Stored(rows', R, j)
              /\ Stored(rows', R, j) /\ <<u, f>> \notin UnguardedMoves =>
                   rows'[R][j].tenant = OwnTenant(u, rows[u][k])'
  <2>1. CASE <<u, k>> = <<t, i>>
    <3>1. rows'[u][k] = new /\ OwnTenant(u, rows[u][k])' = OwnTenant(t, new)'
      BY <1>1, <2>1 DEF OwnTenant
    <3>. QED
      BY <1>3, <1>10, <2>1, <3>1 DEF Stored
  <2>2. CASE <<u, k>> # <<t, i>>
    <3>1. rows'[u][k] = rows[u][k] /\ Refers(u, k, f) /\ rows'[u][k].ref[f] = At(u, k, f)
      BY <1>2, <1>10, <2>2 DEF Refers, At
    <3>. QED
      BY <1>8, <2>2, <3>1
  <2>. QED
    BY <2>1, <2>2
<1>11. NoneAhead' /\ KeysStand' /\ TenantsAgree'
  BY <1>1, <1>10 DEF NoneAhead, KeysStand, TenantsAgree, Refers, At, Holds
<1>. QED
  BY <1>9, <1>11

LEMMA WriteKeepsHamlets ==
  ASSUME LinksInv, NEW t \in scope, NEW i \in RowsOf[t], NEW new \in Records(t), Written(t, i, new)
  PROVE  AddressInHamlet'
<1> DEFINE A == "addresses"
           N == "neighborhood_units"
<1>1. /\ LinksTypeOK /\ scope' = scope /\ rows'[t][i] = new /\ DOMAIN new.ref = Columns(t)
      /\ \A u \in scope : \A k \in RowsOf[u] : <<u, k>> # <<t, i>> =>
           rows'[u][k] = rows[u][k] /\ (Stored(rows', u, k) <=> Stored(rows, u, k))
  BY WriteMoves, NewStored DEF Written, LinksInv
<1> SUFFICES ASSUME {A, N, "hamlets"} \subseteq scope, NEW k \in RowsOf[A], Stored(rows', A, k),
                    rows'[A][k].ref["hamlet_id"] # 0, rows'[A][k].ref["neighborhood_unit_id"] # 0
             PROVE  rows'[N][rows'[A][k].ref["neighborhood_unit_id"]].ref["hamlet_id"]
                      = rows'[A][k].ref["hamlet_id"]
  BY <1>1 DEF AddressInHamlet
<1>2. /\ {"hamlet_id", "neighborhood_unit_id"} \subseteq Columns(A) /\ "hamlet_id" \in Columns(N)
      /\ References[A]["neighborhood_unit_id"] = N
  BY TheTables, TheColumns DEF Columns
<1>3. LinkGuard(rows, t, i, new)
  BY DEF Written
<1>4. CASE <<A, k>> = <<t, i>>
  <2>1. EnforceAddressTenantLinks(rows, new)
    BY <1>3, <1>4, TheLinkGuards
  <2>2. /\ Ref(new, "hamlet_id") = new.ref["hamlet_id"]
        /\ Ref(new, "neighborhood_unit_id") = new.ref["neighborhood_unit_id"]
    BY <1>1, <1>2, <1>4 DEF Ref
  <2>3. rows[N][new.ref["neighborhood_unit_id"]].ref["hamlet_id"] = new.ref["hamlet_id"]
    BY <1>1, <1>2, <1>4, <2>1, <2>2 DEF EnforceAddressTenantLinks, AssertAddressNeighborhoodHierarchy
  <2>4. rows'[N] = rows[N]
    BY <1>4, WriteMoves
  <2>. QED
    BY <1>1, <1>4, <2>3, <2>4
<1>5. CASE <<A, k>> # <<t, i>>
  <2>1. PICK n : n = rows[A][k].ref["neighborhood_unit_id"]
    OBVIOUS
  <2>2. rows'[A][k] = rows[A][k] /\ Stored(rows, A, k)
    BY <1>1, <1>5
  <2>3. n \in RowsOf[N]
    <3>1. Refers(A, k, "neighborhood_unit_id") /\ At(A, k, "neighborhood_unit_id") = n
      BY <2>1, <2>2 DEF Refers, At
    <3>. QED
      BY <1>2, <3>1, CellFacts
  <2>4. CASE <<N, n>> = <<t, i>>
    <3>1. EnforceNeighborhoodUnitTenantLinks(rows, i, new)
      BY <1>3, <2>4, TheLinkGuards
    <3>. QED
      BY <1>1, <1>2, <2>1, <2>2, <2>4, <3>1
         DEF EnforceNeighborhoodUnitTenantLinks, AssertNoAddressNeighborhoodUnitHierarchyMismatch
  <2>5. CASE <<N, n>> # <<t, i>>
    <3>1. rows[N][n].ref["hamlet_id"] = rows[A][k].ref["hamlet_id"]
      BY <2>1, <2>2 DEF LinksInv, AddressInHamlet
    <3>. QED
      BY <1>1, <2>1, <2>2, <2>3, <2>5, <3>1
  <2>. QED
    BY <2>4, <2>5
<1>. QED
  BY <1>4, <1>5

LEMMA InCells ==
  ASSUME NEW h
  PROVE  h \in Cells <=> \E u \in scope : \E k \in RowsOf[u], f \in Columns(u) : h = <<u, k, f>>
BY DEF Cells

LEMMA InHolders ==
  ASSUME NEW S, NEW how, NEW u \in scope, NEW k \in RowsOf[u], NEW f \in Columns(u)
  PROVE  <<u, k, f>> \in Holders(S, how)
           <=> /\ Stored(rows, u, k) /\ OnDeleteOf[<<u, f>>] = how
               /\ <<References[u][f], At(u, k, f)>> \in S
<1> DEFINE h == <<u, k, f>>
<1>1. h \in Cells /\ h[1] = u /\ h[2] = k /\ h[3] = f
  BY InCells
<1> HIDE DEF h
<1>2. h \in Holders(S, how) <=> /\ Stored(rows, h[1], h[2])
                                /\ OnDeleteOf[<<h[1], h[3]>>] = how
                                /\ <<References[h[1]][h[3]], rows[h[1]][h[2]].ref[h[3]]>> \in S
  BY <1>1 DEF Holders
<1>3. h \in Holders(S, how) <=> /\ Stored(rows, u, k) /\ OnDeleteOf[<<u, f>>] = how
                                /\ <<References[u][f], At(u, k, f)>> \in S
  BY <1>1, <1>2 DEF At
<1>. QED
  BY <1>3 DEF h

LEMMA HolderRows ==
  ASSUME NEW S, NEW how, NEW h \in Holders(S, how)
  PROVE  \E u \in scope : \E k \in RowsOf[u], f \in Columns(u) :
           h = <<u, k, f>> /\ <<h[1], h[2]>> = <<u, k>>
<1>1. h \in Cells
  BY DEF Holders
<1>2. PICK u \in scope : \E k \in RowsOf[u], f \in Columns(u) : h = <<u, k, f>>
  BY <1>1, InCells
<1>3. PICK k \in RowsOf[u], f \in Columns(u) : h = <<u, k, f>>
  BY <1>2
<1>4. h[1] = u /\ h[2] = k
  BY <1>3
<1>. QED
  BY <1>3, <1>4

\* The rows that a deletion takes with it, and the columns it sets to NULL.
Once(t, i) == {<<t, i>>} \cup {<<h[1], h[2]>> : h \in Holders({<<t, i>>}, "cascade")}
Gone(t, i) == Once(t, i) \cup {<<h[1], h[2]>> : h \in Holders(Once(t, i), "cascade")}
Nulled(t, i) == {h \in Holders(Gone(t, i), "set null") : <<h[1], h[2]>> \notin Gone(t, i)}
Left(t, i) == [u \in scope |-> [k \in RowsOf[u] |-> IF <<u, k>> \in Gone(t, i) THEN Deleted ELSE rows[u][k]]]

\* What goes with a row of S has a table that goes with others.
LEMMA GoesWith ==
  ASSUME LinksInv, NEW P, NEW p \in {<<h[1], h[2]>> : h \in Holders(P, "cascade")}
  PROVE  \E u \in scope \cap Going : \E k \in RowsOf[u] : p = <<u, k>>
<1>1. PICK h \in Holders(P, "cascade") : p = <<h[1], h[2]>>
  OBVIOUS
<1>5. PICK u \in scope : \E k \in RowsOf[u], f \in Columns(u) : h = <<u, k, f>> /\ p = <<u, k>>
  BY <1>1, HolderRows
<1>2. PICK k \in RowsOf[u], f \in Columns(u) : h = <<u, k, f>> /\ p = <<u, k>>
  BY <1>5
<1>6. OnDeleteOf[<<h[1], h[3]>>] = "cascade"
  BY <1>1 DEF Holders
<1>3. h[1] = u /\ h[3] = f
  BY <1>2
<1>4. u \in Going
  BY <1>2, <1>3, <1>5, <1>6, CellShape, OnDeleteIs DEF LinksInv
<1>. QED
  BY <1>2, <1>4

\* Nothing refers with a cascade to a row that goes itself: what a deletion takes is closed.
LEMMA GoneIsClosed ==
  ASSUME LinksInv, NEW t \in scope, NEW i \in RowsOf[t], NEW u \in scope, NEW k \in RowsOf[u], NEW f \in Columns(u),
         Stored(rows, u, k), OnDeleteOf[<<u, f>>] = "cascade",
         <<References[u][f], At(u, k, f)>> \in Gone(t, i)
  PROVE  <<u, k>> \in Gone(t, i)
<1> DEFINE p == <<References[u][f], At(u, k, f)>>
           h == <<u, k, f>>
<1>1. References[u][f] \in Taking
  BY CellShape, OnDeleteIs DEF LinksInv
<1>2. p \in Once(t, i)
  <2>1. CASE p \in {<<g[1], g[2]>> : g \in Holders(Once(t, i), "cascade")}
    <3>1. PICK v \in scope \cap Going : \E m \in RowsOf[v] : p = <<v, m>>
      BY <2>1, GoesWith
    <3>2. References[u][f] = v
      BY <3>1
    <3>. QED
      BY <1>1, <3>2, GoingTakesNone
  <2>. QED
    BY <2>1 DEF Gone
<1>3. h \in Holders(Once(t, i), "cascade")
  BY <1>2, InHolders
<1>4. h[1] = u /\ h[2] = k
  OBVIOUS
<1> HIDE DEF h
<1>. QED
  BY <1>3, <1>4 DEF Gone

LEMMA DeleteMoves ==
  ASSUME LinksInv, NEW t \in scope, NEW i \in RowsOf[t], DeleteRow(t, i)
  PROVE  /\ scope' = scope /\ DOMAIN rows' = scope
         /\ \A u \in scope : rows'[u] = [k \in RowsOf[u] |->
              IF <<u, k>> \in Gone(t, i) THEN Deleted
              ELSE IF Stored(rows, u, k)
              THEN [tenant |-> rows[u][k].tenant,
                    ref |-> [f \in Columns(u) |-> IF <<u, k, f>> \in Nulled(t, i) THEN 0 ELSE At(u, k, f)]]
              ELSE rows[u][k]]
         /\ \A u \in scope : \A k \in RowsOf[u], f \in Columns(u) :
              Stored(rows, u, k) /\ OnDeleteOf[<<u, f>>] = "restrict"
                /\ <<References[u][f], At(u, k, f)>> \in Gone(t, i) => <<u, k>> \in Gone(t, i)
<1> DEFINE L == Left(t, i)
           G == Gone(t, i)
           Z == Nulled(t, i)
<1>1. /\ scope' = scope
      /\ \A h \in Holders(G, "restrict") : <<h[1], h[2]>> \in G
      /\ rows' = [u \in scope |-> [k \in RowsOf[u] |->
                      IF Stored(L, u, k)
                        THEN [L[u][k] EXCEPT !.ref = [f \in Columns(u) |-> IF <<u, k, f>> \in Z THEN 0 ELSE @[f]]]
                        ELSE L[u][k]]]
  BY DEF DeleteRow, Once, Gone, Nulled, Left
<1>2. \A u \in scope : \A k \in RowsOf[u] : L[u][k] = IF <<u, k>> \in G THEN Deleted ELSE rows[u][k]
  BY DEF Left
<1> HIDE DEF L, G, Z
<1>3. ASSUME NEW u \in scope, NEW k \in RowsOf[u]
      PROVE  rows'[u][k] = IF <<u, k>> \in G THEN Deleted
                           ELSE IF Stored(rows, u, k)
                           THEN [tenant |-> rows[u][k].tenant,
                                 ref |-> [f \in Columns(u) |-> IF <<u, k, f>> \in Z THEN 0 ELSE At(u, k, f)]]
                           ELSE rows[u][k]
  <2>1. rows'[u][k] = IF Stored(L, u, k)
                      THEN [L[u][k] EXCEPT !.ref = [f \in Columns(u) |-> IF <<u, k, f>> \in Z THEN 0 ELSE L[u][k].ref[f]]]
                      ELSE L[u][k]
    BY <1>1
  <2>2. CASE <<u, k>> \in G
    BY <1>2, <2>1, <2>2 DEF Stored
  <2>3. CASE <<u, k>> \notin G /\ ~Stored(rows, u, k)
    BY <1>2, <2>1, <2>3 DEF Stored
  <2>4. CASE <<u, k>> \notin G /\ Stored(rows, u, k)
    <3>1. L[u][k] = rows[u][k] /\ Stored(L, u, k)
      BY <1>2, <2>4 DEF Stored
    <3>2. rows[u][k] = [tenant |-> rows[u][k].tenant, ref |-> rows[u][k].ref]
      BY <2>4, RowShape DEF LinksInv
    <3>3. PICK new : new = [f \in Columns(u) |-> IF <<u, k, f>> \in Z THEN 0 ELSE rows[u][k].ref[f]]
      OBVIOUS
    <3>4. rows'[u][k] = [rows[u][k] EXCEPT !.ref = new]
      BY <2>1, <3>1, <3>3
    <3>5. rows'[u][k] = [tenant |-> rows[u][k].tenant, ref |-> new]
      BY <3>2, <3>4
    <3>. QED
      BY <2>4, <3>3, <3>5 DEF At
  <2>. QED
    BY <2>2, <2>3, <2>4
<1>4. \A u \in scope : DOMAIN rows'[u] = RowsOf[u] /\ rows'[u] = [k \in RowsOf[u] |-> rows'[u][k]]
  BY <1>1
<1>5. \A u \in scope : \A k \in RowsOf[u], f \in Columns(u) :
        Stored(rows, u, k) /\ OnDeleteOf[<<u, f>>] = "restrict"
          /\ <<References[u][f], At(u, k, f)>> \in G => <<u, k>> \in G
  <2> SUFFICES ASSUME NEW u \in scope, NEW k \in RowsOf[u], NEW f \in Columns(u),
                      Stored(rows, u, k), OnDeleteOf[<<u, f>>] = "restrict",
                      <<References[u][f], At(u, k, f)>> \in G
               PROVE  <<u, k>> \in G
    OBVIOUS
  <2> DEFINE h == <<u, k, f>>
  <2>1. h \in Holders(G, "restrict")
    BY InHolders
  <2>2. h[1] = u /\ h[2] = k
    OBVIOUS
  <2> HIDE DEF h
  <2>. QED
    BY <1>1, <2>1, <2>2
<1>6. DOMAIN rows' = scope
  BY <1>1
<1>7. ASSUME NEW u \in scope
      PROVE  rows'[u] = [k \in RowsOf[u] |->
              IF <<u, k>> \in G THEN Deleted
              ELSE IF Stored(rows, u, k)
              THEN [tenant |-> rows[u][k].tenant,
                    ref |-> [f \in Columns(u) |-> IF <<u, k, f>> \in Z THEN 0 ELSE At(u, k, f)]]
              ELSE rows[u][k]]
  BY <1>3, <1>4
<1>. QED
  BY <1>1, <1>5, <1>6, <1>7 DEF G, Z

\* What a deletion leaves.
LEMMA DeleteLeaves ==
  ASSUME LinksInv, NEW t \in scope, NEW i \in RowsOf[t], DeleteRow(t, i)
  PROVE  /\ LinksTypeOK' /\ scope' = scope /\ \A u : Columns(u)' = Columns(u)
         /\ \A u \in scope : \A k \in RowsOf[u] :
              /\ Stored(rows', u, k) <=> Stored(rows, u, k) /\ <<u, k>> \notin Gone(t, i)
              /\ Stored(rows', u, k) => rows'[u][k].tenant = rows[u][k].tenant
              /\ rows[u][k] # Missing => rows'[u][k] # Missing
         /\ \A u \in scope : \A k \in RowsOf[u], f \in Columns(u) : Stored(rows', u, k) =>
              rows'[u][k].ref[f] = IF <<u, k, f>> \in Nulled(t, i) THEN 0 ELSE At(u, k, f)
<1> DEFINE G == Gone(t, i)
           Z == Nulled(t, i)
<1>1. /\ scope' = scope /\ DOMAIN rows' = scope
      /\ \A u \in scope : rows'[u] = [k \in RowsOf[u] |->
              IF <<u, k>> \in G THEN Deleted
              ELSE IF Stored(rows, u, k)
              THEN [tenant |-> rows[u][k].tenant,
                    ref |-> [f \in Columns(u) |-> IF <<u, k, f>> \in Z THEN 0 ELSE At(u, k, f)]]
              ELSE rows[u][k]]
  BY DeleteMoves
<1> HIDE DEF G, Z
<1>2. \A u : Columns(u)' = Columns(u) /\ Records(u)' = Records(u)
  BY <1>1 DEF Columns, Records
<1>3. ASSUME NEW u \in scope, NEW k \in RowsOf[u], Stored(rows, u, k), <<u, k>> \notin G
      PROVE  /\ rows'[u][k] \in Records(u) /\ Stored(rows', u, k)
             /\ rows'[u][k].tenant = rows[u][k].tenant
             /\ \A f \in Columns(u) :
                  rows'[u][k].ref[f] = IF <<u, k, f>> \in Z THEN 0 ELSE At(u, k, f)
  <2>1. PICK new : new = [f \in Columns(u) |-> IF <<u, k, f>> \in Z THEN 0 ELSE At(u, k, f)]
    OBVIOUS
  <2>2. rows'[u][k] = [tenant |-> rows[u][k].tenant, ref |-> new]
    BY <1>1, <1>3, <2>1
  <2>3. /\ rows[u][k].tenant \in TenantsOf(u)
        /\ \A f \in Columns(u) : At(u, k, f) \in RowIds \cup {0}
    <3>1. rows[u][k] \in Records(u) /\ rows[u][k].ref \in [Columns(u) -> RowIds \cup {0}]
      BY <1>3, RowShape DEF LinksInv
    <3>2. rows[u][k].tenant \in TenantsOf(u)
      BY <3>1 DEF Records
    <3>. QED
      BY <3>1, <3>2 DEF At
  <2>4. new \in [Columns(u) -> RowIds \cup {0}]
    BY <2>1, <2>3
  <2>5. rows'[u][k] \in Records(u)
    BY <2>2, <2>3, <2>4 DEF Records
  <2>6. Stored(rows', u, k)
    BY <2>5, NewStored DEF Stored
  <2>7. \A f \in Columns(u) : new[f] = IF <<u, k, f>> \in Z THEN 0 ELSE At(u, k, f)
    BY <2>1
  <2>. QED
    BY <2>2, <2>5, <2>6, <2>7
<1>4. ASSUME NEW u \in scope, NEW k \in RowsOf[u], ~(Stored(rows, u, k) /\ <<u, k>> \notin G)
      PROVE  /\ rows'[u][k] \in {Missing, Deleted} /\ ~Stored(rows', u, k)
             /\ rows[u][k] # Missing => rows'[u][k] # Missing
  <2>1. rows'[u][k] = IF <<u, k>> \in G THEN Deleted ELSE rows[u][k]
    BY <1>1, <1>4
  <2>. QED
    BY <1>4, <2>1, MissingIsNotDeleted DEF Stored
<1>5. ASSUME NEW u \in scope
      PROVE  rows'[u] \in [RowsOf[u] -> Records(u) \cup {Missing, Deleted}]
  <2>1. \A k \in RowsOf[u] : rows'[u][k] \in Records(u) \cup {Missing, Deleted}
    BY <1>3, <1>4
  <2>2. rows'[u] = [k \in RowsOf[u] |-> rows'[u][k]]
    BY <1>1
  <2>. QED
    BY <2>1, <2>2
<1>6. LinksTypeOK'
  BY <1>1, <1>2, <1>5 DEF LinksTypeOK, LinksInv
<1>7. \A u \in scope : \A k \in RowsOf[u] :
        /\ Stored(rows', u, k) <=> Stored(rows, u, k) /\ <<u, k>> \notin G
        /\ Stored(rows', u, k) => rows'[u][k].tenant = rows[u][k].tenant
        /\ rows[u][k] # Missing => rows'[u][k] # Missing
  BY <1>3, <1>4 DEF Stored
<1>8. \A u \in scope : \A k \in RowsOf[u], f \in Columns(u) : Stored(rows', u, k) =>
        rows'[u][k].ref[f] = IF <<u, k, f>> \in Z THEN 0 ELSE At(u, k, f)
  <2> SUFFICES ASSUME NEW u \in scope, NEW k \in RowsOf[u], NEW f \in Columns(u), Stored(rows', u, k)
               PROVE  rows'[u][k].ref[f] = IF <<u, k, f>> \in Z THEN 0 ELSE At(u, k, f)
    OBVIOUS
  <2>1. Stored(rows, u, k) /\ <<u, k>> \notin G
    BY <1>4
  <2>. QED
    BY <1>3, <2>1
<1>. QED
  BY <1>1, <1>2, <1>6, <1>7, <1>8 DEF G, Z

LEMMA DeleteKeeps ==
  ASSUME LinksInv, NEW t \in scope, NEW i \in RowsOf[t], DeleteRow(t, i)
  PROVE  LinksInv'
<1> DEFINE G == Gone(t, i)
           Z == Nulled(t, i)
<1>0. LinksTypeOK
  BY DEF LinksInv
<1>1. /\ LinksTypeOK' /\ scope' = scope /\ \A u : Columns(u)' = Columns(u)
      /\ \A u \in scope : \A k \in RowsOf[u] :
           /\ Stored(rows', u, k) <=> Stored(rows, u, k) /\ <<u, k>> \notin G
           /\ Stored(rows', u, k) => rows'[u][k].tenant = rows[u][k].tenant
           /\ rows[u][k] # Missing => rows'[u][k] # Missing
      /\ \A u \in scope : \A k \in RowsOf[u], f \in Columns(u) : Stored(rows', u, k) =>
           rows'[u][k].ref[f] = IF <<u, k, f>> \in Z THEN 0 ELSE At(u, k, f)
  BY DeleteLeaves
<1>2. \A u \in scope : \A k \in RowsOf[u], f \in Columns(u) :
        <<u, k, f>> \in Z <=> /\ Stored(rows, u, k) /\ OnDeleteOf[<<u, f>>] = "set null"
                             /\ <<References[u][f], At(u, k, f)>> \in G /\ <<u, k>> \notin G
  <2> SUFFICES ASSUME NEW u \in scope, NEW k \in RowsOf[u], NEW f \in Columns(u)
               PROVE  <<u, k, f>> \in Z <=> /\ Stored(rows, u, k) /\ OnDeleteOf[<<u, f>>] = "set null"
                                           /\ <<References[u][f], At(u, k, f)>> \in G /\ <<u, k>> \notin G
    OBVIOUS
  <2> DEFINE h == <<u, k, f>>
  <2>1. h[1] = u /\ h[2] = k
    OBVIOUS
  <2>2. h \in Holders(G, "set null") <=> /\ Stored(rows, u, k) /\ OnDeleteOf[<<u, f>>] = "set null"
                                        /\ <<References[u][f], At(u, k, f)>> \in G
    BY InHolders
  <2> HIDE DEF h
  <2>3. h \in Z <=> h \in Holders(G, "set null") /\ <<u, k>> \notin G
    BY <2>1 DEF Nulled
  <2>. QED
    BY <2>2, <2>3 DEF h
\* A row that stays keeps a link only to a row that stays, where there is a foreign key.
<1>3. ASSUME NEW u \in scope, NEW k \in RowsOf[u], NEW f \in Columns(u),
             Stored(rows, u, k), <<u, k>> \notin G, <<u, k, f>> \notin Z,
             <<u, f>> \notin WithoutKey
      PROVE  <<References[u][f], At(u, k, f)>> \notin G
  <2>1. <<u, f>> \in Links /\ OnDeleteOf[<<u, f>>] \in {"none", "restrict", "set null", "cascade"}
    BY <1>0, CellShape, InLinks, OnDeleteIs
  <2>2. OnDeleteOf[<<u, f>>] # "none"
    BY <1>3, <2>1 DEF WithoutKey
  <2>3. CASE OnDeleteOf[<<u, f>>] = "restrict"
    BY <1>3, <2>3, DeleteMoves
  <2>4. CASE OnDeleteOf[<<u, f>>] = "set null"
    BY <1>2, <1>3, <2>4
  <2>5. CASE OnDeleteOf[<<u, f>>] = "cascade"
    BY <1>3, <2>5, GoneIsClosed
  <2>. QED
    BY <2>1, <2>2, <2>3, <2>4, <2>5
<1> HIDE DEF G, Z
<1>4. NotNull'
  <2> SUFFICES ASSUME NEW u \in scope, NEW k \in RowsOf[u], NEW f \in Columns(u), Stored(rows', u, k)
               PROVE  rows'[u][k].ref[f] # 0 \/ Nullable(<<u, f>>)
    BY <1>1 DEF NotNull, At
  <2>1. At(u, k, f) # 0 \/ Nullable(<<u, f>>)
    BY <1>1, CellFacts
  <2>2. <<u, k, f>> \in Z => Nullable(<<u, f>>)
    BY <1>2 DEF Nullable
  <2>. QED
    BY <1>1, <2>1, <2>2
\* What a row that stays still refers to.
<1>5. ASSUME NEW u \in scope, NEW k \in RowsOf[u], NEW f \in Columns(u),
             Stored(rows', u, k), rows'[u][k].ref[f] # 0
      PROVE  /\ Refers(u, k, f) /\ rows'[u][k].ref[f] = At(u, k, f)
             /\ At(u, k, f) \in RowsOf[References[u][f]] /\ References[u][f] \in scope
             /\ rows'[References[u][f]][At(u, k, f)] # Missing
             /\ <<u, f>> \in WithoutKey \/ Stored(rows', References[u][f], At(u, k, f))
  <2>1. /\ <<u, k, f>> \notin Z /\ rows'[u][k].ref[f] = At(u, k, f)
        /\ Refers(u, k, f) /\ Stored(rows, u, k) /\ <<u, k>> \notin G
    BY <1>1, <1>5 DEF Refers
  <2>2. /\ At(u, k, f) \in RowsOf[References[u][f]]
        /\ rows[References[u][f]][At(u, k, f)] # Missing
        /\ <<u, f>> \in WithoutKey \/ Stored(rows, References[u][f], At(u, k, f))
    BY <2>1, CellFacts
  <2>3. References[u][f] \in scope
    BY <1>0, CellShape
  <2>. QED
    BY <1>1, <1>3, <2>1, <2>2, <2>3
<1>6. NoneAhead' /\ KeysStand'
  <2>1. \A u \in scope : \A k \in RowsOf[u], f \in Columns(u) :
          Stored(rows', u, k) /\ rows'[u][k].ref[f] # 0 =>
            /\ rows'[References[u][f]][rows'[u][k].ref[f]] # Missing
            /\ <<u, f>> \in WithoutKey \/ Stored(rows', References[u][f], rows'[u][k].ref[f])
    <3> SUFFICES ASSUME NEW u \in scope, NEW k \in RowsOf[u], NEW f \in Columns(u),
                        Stored(rows', u, k), rows'[u][k].ref[f] # 0
                 PROVE  /\ rows'[References[u][f]][rows'[u][k].ref[f]] # Missing
                        /\ <<u, f>> \in WithoutKey \/ Stored(rows', References[u][f], rows'[u][k].ref[f])
      OBVIOUS
    <3>. QED
      BY <1>5
  <2>2. NoneAhead'
    <3> SUFFICES ASSUME NEW u \in scope, NEW k \in RowsOf[u], NEW f \in Columns(u),
                        Stored(rows', u, k), rows'[u][k].ref[f] # 0
                 PROVE  rows'[References[u][f]][rows'[u][k].ref[f]] # Missing
      BY <1>1 DEF NoneAhead, Refers, At
    <3>. QED
      BY <2>1
  <2>3. KeysStand'
    BY <1>1, <2>1 DEF KeysStand, Refers, At
  <2>. QED
    BY <2>2, <2>3
<1>7. ASSUME NEW u \in scope, NEW k \in RowsOf[u], Stored(rows', u, k)
      PROVE  OwnTenant(u, rows[u][k])' = OwnTenant(u, rows[u][k])
  <2>1. CASE u \notin {"user_roles", "complaint_responses"}
    <3>1. OwnTenant(u, rows[u][k])' = rows'[u][k].tenant /\ OwnTenant(u, rows[u][k]) = rows[u][k].tenant
      BY <2>1, Zenon DEF OwnTenant
    <3>. QED
      BY <1>1, <1>7, <3>1
  <2>2. CASE u = "user_roles"
    <3>1. /\ OwnTenant(u, rows[u][k])' = rows'["users"][rows'[u][k].ref["user_id"]].tenant
          /\ OwnTenant(u, rows[u][k]) = rows["users"][rows[u][k].ref["user_id"]].tenant
      BY <2>2, Zenon DEF OwnTenant
    <3>2. "user_id" \in Columns(u) /\ References[u]["user_id"] = "users"
      BY <1>0, <2>2, OwnColumns, TheColumns
    <3>3. <<u, k, "user_id">> \notin Z /\ <<u, "user_id">> \notin WithoutKey
      BY <1>2, <2>2, <3>2, SomeLinks DEF WithoutKey
    <3>4. rows'[u][k].ref["user_id"] = At(u, k, "user_id") /\ At(u, k, "user_id") # 0
      BY <1>1, <1>7, <2>2, <3>2, <3>3, OwnersThere
    <3>5. PICK j : j = At(u, k, "user_id")
      OBVIOUS
    <3>6. /\ j \in RowsOf["users"] /\ "users" \in scope /\ Stored(rows', "users", j)
      BY <1>5, <1>7, <3>2, <3>3, <3>4, <3>5
    <3>7. rows'["users"][j].tenant = rows["users"][j].tenant
      BY <1>1, <3>6
    <3>8. rows'[u][k].ref["user_id"] = j /\ rows[u][k].ref["user_id"] = j
      BY <3>4, <3>5 DEF At
    <3>. QED
      BY <3>1, <3>7, <3>8
  <2>3. CASE u = "complaint_responses"
    <3>1. /\ OwnTenant(u, rows[u][k])' = rows'["complaints"][rows'[u][k].ref["complaint_id"]].tenant
          /\ OwnTenant(u, rows[u][k]) = rows["complaints"][rows[u][k].ref["complaint_id"]].tenant
      BY <2>3, Zenon DEF OwnTenant
    <3>2. "complaint_id" \in Columns(u) /\ References[u]["complaint_id"] = "complaints"
      BY <1>0, <2>3, OwnColumns, TheColumns
    <3>3. <<u, k, "complaint_id">> \notin Z /\ <<u, "complaint_id">> \notin WithoutKey
      BY <1>2, <2>3, <3>2, SomeLinks DEF WithoutKey
    <3>4. rows'[u][k].ref["complaint_id"] = At(u, k, "complaint_id") /\ At(u, k, "complaint_id") # 0
      BY <1>1, <1>7, <2>3, <3>2, <3>3, OwnersThere
    <3>5. PICK j : j = At(u, k, "complaint_id")
      OBVIOUS
    <3>6. /\ j \in RowsOf["complaints"] /\ "complaints" \in scope /\ Stored(rows', "complaints", j)
      BY <1>5, <1>7, <3>2, <3>3, <3>4, <3>5
    <3>7. rows'["complaints"][j].tenant = rows["complaints"][j].tenant
      BY <1>1, <3>6
    <3>8. rows'[u][k].ref["complaint_id"] = j /\ rows[u][k].ref["complaint_id"] = j
      BY <3>4, <3>5 DEF At
    <3>. QED
      BY <3>1, <3>7, <3>8
  <2>. QED
    BY <2>1, <2>2, <2>3
<1>8. TenantsAgree'
  <2> SUFFICES ASSUME NEW u \in scope, NEW k \in RowsOf[u], NEW f \in Columns(u),
                      Stored(rows', u, k), rows'[u][k].ref[f] # 0, <<u, f>> \notin UnguardedMoves,
                      Stored(rows', References[u][f], rows'[u][k].ref[f])
               PROVE  rows'[References[u][f]][rows'[u][k].ref[f]].tenant = OwnTenant(u, rows[u][k])'
    BY <1>1 DEF TenantsAgree, Refers, At, Holds
  <2>1. PICK R, j : R = References[u][f] /\ j = At(u, k, f)
    OBVIOUS
  <2>2. /\ Refers(u, k, f) /\ rows'[u][k].ref[f] = j /\ j \in RowsOf[R] /\ R \in scope
    BY <1>5, <2>1
  <2>3. Stored(rows, R, j) /\ rows'[R][j].tenant = rows[R][j].tenant
    BY <1>1, <2>1, <2>2
  <2>4. rows[R][j].tenant = OwnTenant(u, rows[u][k])
    BY <2>1, <2>2, <2>3 DEF LinksInv, TenantsAgree, Holds
  <2>. QED
    BY <1>7, <2>1, <2>2, <2>3, <2>4
<1>9. AddressInHamlet'
  <2> DEFINE A == "addresses"
             N == "neighborhood_units"
  <2> SUFFICES ASSUME {A, N, "hamlets"} \subseteq scope, NEW k \in RowsOf[A], Stored(rows', A, k),
                      rows'[A][k].ref["hamlet_id"] # 0, rows'[A][k].ref["neighborhood_unit_id"] # 0
               PROVE  rows'[N][rows'[A][k].ref["neighborhood_unit_id"]].ref["hamlet_id"]
                        = rows'[A][k].ref["hamlet_id"]
    BY <1>1 DEF AddressInHamlet
  <2>1. /\ {"hamlet_id", "neighborhood_unit_id"} \subseteq Columns(A) /\ "hamlet_id" \in Columns(N)
        /\ References[A]["neighborhood_unit_id"] = N
    BY TheTables, TheColumns DEF Columns
  <2>2. PICK n : n = At(A, k, "neighborhood_unit_id")
    OBVIOUS
  <2>3. <<A, "neighborhood_unit_id">> \notin WithoutKey
    BY SomeLinks DEF WithoutKey
  <2>4. /\ rows'[A][k].ref["hamlet_id"] = At(A, k, "hamlet_id") /\ Stored(rows, A, k)
        /\ rows'[A][k].ref["neighborhood_unit_id"] = n /\ n \in RowsOf[N] /\ Stored(rows', N, n)
    BY <1>5, <2>1, <2>2, <2>3 DEF Refers
  <2>5. <<N, n, "hamlet_id">> \notin Z
    BY <1>2, <2>1, <2>4, SomeLinks
  <2>6. rows'[N][n].ref["hamlet_id"] = rows[N][n].ref["hamlet_id"]
    BY <1>1, <2>1, <2>4, <2>5 DEF At
  <2>7. rows[N][n].ref["hamlet_id"] = At(A, k, "hamlet_id")
    BY <2>2, <2>4 DEF LinksInv, AddressInHamlet, At
  <2>. QED
    BY <2>4, <2>6, <2>7
<1>. QED
  BY <1>1, <1>4, <1>6, <1>8, <1>9 DEF LinksInv

LEMMA LinksStepKeeps == LinksInv /\ [LinksNext]_linkVars => LinksInv'
<1> SUFFICES ASSUME LinksInv, [LinksNext]_linkVars
             PROVE  LinksInv'
  OBVIOUS
<1>1. CASE UNCHANGED linkVars
  <2>1. rows' = rows /\ scope' = scope
    BY <1>1 DEF linkVars
  <2>2. \A u : Columns(u)' = Columns(u) /\ Records(u)' = Records(u)
    BY <2>1 DEF Columns, Records
  <2>3. \A u, k : Holds(u, k)' = Holds(u, k)
    BY <2>1, Zenon DEF Holds, OwnTenant
  <2>4. LinksTypeOK' /\ NotNull' /\ NoneAhead' /\ KeysStand'
    BY <2>1, <2>2 DEF LinksInv, LinksTypeOK, NotNull, NoneAhead, KeysStand, Refers, At
  <2>5. TenantsAgree'
    BY <2>1, <2>2, <2>3 DEF LinksInv, TenantsAgree, Refers, At
  <2>6. AddressInHamlet'
    BY <2>1 DEF LinksInv, AddressInHamlet
  <2>. QED
    BY <2>4, <2>5, <2>6 DEF LinksInv
<1>2. ASSUME NEW t \in scope, NEW i \in RowsOf[t], NEW new \in Records(t), InsertRow(t, i, new) \/ UpdateRow(t, i, new)
      PROVE  LinksInv'
  <2>1. Written(t, i, new)
    BY <1>2 DEF InsertRow, UpdateRow, Written
  <2>. QED
    BY <2>1, WriteMoves, WriteKeepsLinks, WriteKeepsHamlets DEF LinksInv
<1>3. ASSUME NEW t \in scope, NEW i \in RowsOf[t], DeleteRow(t, i)
      PROVE  LinksInv'
  BY <1>3, DeleteKeeps
<1>. QED
  BY <1>1, <1>2, <1>3 DEF LinksNext

\* The preflight script finds what the invariant leaves it.
LEMMA InvIsClean == LinksInv => PreflightClean
<1> SUFFICES ASSUME LinksInv
             PROVE  PreflightClean
  OBVIOUS
<1>1. ASSUME NEW v \in Used
      PROVE  \E u \in scope : \E k \in RowsOf[u], f \in Columns(u) :
               /\ v[1] = u /\ v[2] = k /\ v[3] = f /\ Refers(u, k, f)
               /\ Target(v) = rows[References[u][f]][At(u, k, f)]
               /\ OwnTenant(v[1], rows[v[1]][v[2]]) = Holds(u, k)
  <2>1. v \in Cells /\ Stored(rows, v[1], v[2]) /\ rows[v[1]][v[2]].ref[v[3]] # 0
    BY DEF Used
  <2>2. PICK u \in scope : \E k \in RowsOf[u], f \in Columns(u) : v = <<u, k, f>>
    BY <2>1, InCells
  <2>3. PICK k \in RowsOf[u], f \in Columns(u) : v = <<u, k, f>>
    BY <2>2
  <2>4. v[1] = u /\ v[2] = k /\ v[3] = f
    BY <2>3
  <2>5. /\ Refers(u, k, f) /\ Target(v) = rows[References[u][f]][At(u, k, f)]
        /\ OwnTenant(v[1], rows[v[1]][v[2]]) = Holds(u, k)
    BY <2>1, <2>4 DEF Refers, At, Target, Holds
  <2>. QED
    BY <2>4, <2>5
<1>2. ASSUME NEW v \in Used, Target(v) \in {Missing, Deleted}
      PROVE  <<v[1], v[3]>> \in WithoutKey
  <2>1. PICK u \in scope : \E k \in RowsOf[u], f \in Columns(u) :
          /\ v[1] = u /\ v[3] = f /\ Refers(u, k, f)
          /\ Target(v) = rows[References[u][f]][At(u, k, f)]
    BY <1>1
  <2>. QED
    BY <1>2, <2>1 DEF LinksInv, KeysStand, Stored
<1>3. ASSUME NEW v \in Used, Target(v) \notin {Missing, Deleted},
             Target(v).tenant # OwnTenant(v[1], rows[v[1]][v[2]])
      PROVE  <<v[1], v[3]>> \in UnguardedMoves
  <2>1. PICK u \in scope : \E k \in RowsOf[u], f \in Columns(u) :
          /\ v[1] = u /\ v[3] = f /\ Refers(u, k, f)
          /\ Target(v) = rows[References[u][f]][At(u, k, f)]
          /\ OwnTenant(v[1], rows[v[1]][v[2]]) = Holds(u, k)
    BY <1>1
  <2>. QED
    BY <1>3, <2>1 DEF LinksInv, TenantsAgree, Stored
<1>. QED
  BY <1>2, <1>3 DEF PreflightClean

\* Whatever is written or deleted, in whatever order, for any number of tenants and of rows: no row refers
\* to one of another tenant, and none to one that is gone, but for the links that no trigger or no
\* foreign key watches, and the RT/RW of an address stays in its hamlet.
THEOREM LinksStand == LinksSpec => []LinksSound
<1>1. LinksInv => LinksSound
  BY InvIsClean DEF LinksInv, LinksSound
<1>. QED
  BY <1>1, LinksStart, LinksStepKeeps, PTL DEF LinksSpec
================================================================================
