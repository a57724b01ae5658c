------------------------------ MODULE Hierarchy ------------------------------
(***************************************************************************)
(* Tenants and their hierarchy: TenantsService (core/tenants).  A regency  *)
(* has districts and villages below it, a district villages.  A village is *)
(* provisioned in one transaction, checked before it; the overview of a    *)
(* regency walks the tree with one query per tenant and then counts with   *)
(* several more.                                                           *)
(***************************************************************************)
EXTENDS Naturals, FiniteSets

CONSTANTS Nodes,                 \* tenant ids that can be given out
          TenantCodes,
          RegencyAdmins,         \* callers
          Above,                 \* the regency that is there from the seed
          Nil,
          MaxPeople              \* residents of a village (a bound)
ASSUME AboveAssumption ==
  /\ Above \in Nodes /\ Nil \notin Nodes \cup TenantCodes
  /\ \E c, d \in TenantCodes : c # d
  /\ MaxPeople \in Nat

VARIABLES tree,                  \* the tenants table
          people,                \* residents that are not deleted
          admin,                 \* what each caller is doing
          unmoved                \* callers whose overview nothing disturbed
treeVars == <<tree, people, admin, unmoved>>

Absent == [level |-> "none", parent |-> Nil, status |-> "none", code |-> Nil]
Tenant(level, parent, standing, code) ==
  [level |-> level, parent |-> parent, status |-> standing, code |-> code]
Dissolved == [Absent EXCEPT !.level = "gone"]       \* ids are not given out again
NoWork == [op |-> "idle", step |-> "idle", on |-> Nil, code |-> Nil,
           todo |-> {}, found |-> {}, total |-> 0, each |-> <<>>]

Exist == {n \in Nodes : tree[n] \notin {Absent, Dissolved}}
AnyOf(S) == CHOOSE x \in S : TRUE   \* ids and codes mean nothing: any will do
Free == {n \in Nodes : tree[n] = Absent}
CodesUsed == {tree[n].code : n \in Exist}
\* The seed makes the regency and a district, which may be gone by now.
HierarchyInit ==
  /\ LET c == AnyOf(TenantCodes)
         d == AnyOf(Nodes \ {Above}) IN
     \E ds \in SUBSET {d} :
       tree = [n \in Nodes |->
                 IF n = Above THEN Tenant("kabupaten", Nil, "active", c)
                 ELSE IF n \in ds THEN Tenant("kecamatan", Above, "active", AnyOf(TenantCodes \ {c}))
                 ELSE Absent]
  /\ people = [n \in Nodes |-> 0]
  /\ admin = [a \in RegencyAdmins |-> NoWork]
  /\ unmoved = {}
Moved == unmoved' = {}
Done(a) == admin' = [admin EXCEPT ![a] = NoWork]

\* provisionVillage, before the transaction.  The status of the parent is not
\* looked at.
ProvisionCheck(a) ==
  /\ admin[a] = NoWork
  /\ \E p \in Exist, c \in TenantCodes \ CodesUsed :
       /\ tree[p].level \in {"kabupaten", "kecamatan"}
       /\ admin' = [admin EXCEPT ![a] = [NoWork EXCEPT !.op = "provision",
                      !.step = "insert", !.on = p, !.code = c]]
  /\ UNCHANGED <<tree, people, unmoved>>
\* create makes a tenant that has no parent and none of a village's roles.
CreateCheck(a) ==
  /\ admin[a] = NoWork
  /\ \E c \in TenantCodes \ CodesUsed :
       admin' = [admin EXCEPT ![a] = [NoWork EXCEPT !.op = "create",
                   !.step = "insert", !.code = c]]
  /\ UNCHANGED <<tree, people, unmoved>>
\* The unique index on the code and the foreign key to the parent refuse what
\* changed since the check; the village, its roles, setting and admin come
\* with it or not at all.
Accepts(w) == /\ w.code \notin CodesUsed
              /\ w.on \in Exist \cup {Nil}
InsertTenant(a) ==
  /\ admin[a].step = "insert" /\ Accepts(admin[a])
  /\ Free # {}
  /\ \E s \in {"active", "inactive"} : LET n == AnyOf(Free) IN
       /\ admin[a].op = "provision" => s = "active"
       /\ tree' = [tree EXCEPT ![n] = Tenant("desa", admin[a].on, s, admin[a].code)]
       /\ people' = [people EXCEPT ![n] = 0]
  /\ Done(a) /\ Moved
InsertRefused(a) ==
  /\ admin[a].step = "insert" /\ Done(a)
  /\ UNCHANGED <<tree, people, unmoved>>

UpdateTenant(n, s) ==
  /\ n \in Exist
  /\ tree' = [tree EXCEPT ![n].status = s] /\ Moved
  /\ UNCHANGED <<people, admin>>
\* The row goes with everything of the tenant, its children stay without a
\* parent.  The audit row that follows names the deleted tenant and is refused
\* by its foreign key, so that the caller is told of a failure.
RemoveTenant(n) ==
  /\ n \in Exist
  /\ tree' = [m \in Nodes |->
                IF m = n THEN Dissolved
                ELSE IF tree[m].parent = n THEN [tree[m] EXCEPT !.parent = Nil]
                ELSE tree[m]]
  /\ people' = [people EXCEPT ![n] = 0] /\ Moved
  /\ UNCHANGED admin

PeopleMove(n) ==
  /\ tree[n].level = "desa"
  /\ \E k \in 0 .. MaxPeople : people' = [people EXCEPT ![n] = k]
  /\ Moved /\ UNCHANGED <<tree, admin>>

\* getRegencyOverview, getDistrictOverview: the admin's tenant has the level,
\* whatever its status.
OverviewStart(a) ==
  /\ admin[a] = NoWork
  /\ \E n \in Exist :
       /\ tree[n].level \in {"kabupaten", "kecamatan"}
       /\ admin' = [admin EXCEPT ![a] = [NoWork EXCEPT !.op = "overview",
                      !.step = "collect", !.on = n, !.todo = {n}]]
  /\ unmoved' = unmoved \cup {a}
  /\ UNCHANGED <<tree, people>>
ChildrenOf(n) == {m \in Nodes : tree[m].parent = n /\ tree[m].status = "active"}
Villages(ns) == {m \in ns : tree[m].level = "desa"}
\* collectDescendantVillageIds, one query.
MutDescend(a) ==
  /\ admin[a].step = "collect"
  /\ \E n \in admin[a].todo :
       LET kids == ChildrenOf(n) IN
       admin' = [admin EXCEPT ![a].todo = @ \ {n},
                              ![a].found = @ \cup Villages(kids)]
  /\ UNCHANGED <<tree, people, unmoved>>
Descend(a) ==
  /\ admin[a].step = "collect"
  /\ \E n \in admin[a].todo :
       LET kids == ChildrenOf(n) IN
       admin' = [admin EXCEPT ![a].todo = (@ \ {n}) \cup (kids \ Villages(kids)),
                              ![a].found = @ \cup Villages(kids)]
  /\ UNCHANGED <<tree, people, unmoved>>
Headcount(ns) == LET Sum[S \in SUBSET ns] ==
                    IF S = {} THEN 0
                    ELSE LET m == CHOOSE m \in S : TRUE IN people[m] + Sum[S \ {m}]
              IN Sum[ns]
\* buildVillageStats: the totals, and then the villages one by one.
CountTotals(a) ==
  /\ admin[a].step = "collect" /\ admin[a].todo = {}
  /\ admin' = [admin EXCEPT ![a].step = "each", ![a].total = Headcount(admin[a].found)]
  /\ UNCHANGED <<tree, people, unmoved>>
CountEach(a) ==
  /\ admin[a].step = "each"
  /\ LET listed == admin[a].found \cap Exist IN
     admin' = [admin EXCEPT ![a].step = "answered",
                            ![a].each = [m \in listed |-> people[m]]]
  /\ UNCHANGED <<tree, people, unmoved>>
OverviewRead(a) == /\ admin[a].step = "answered" /\ Done(a)
                   /\ unmoved' = unmoved \ {a} /\ UNCHANGED <<tree, people>>

HierarchyNext ==
  \/ \E a \in RegencyAdmins :
       \/ ProvisionCheck(a) \/ CreateCheck(a) \/ InsertTenant(a) \/ InsertRefused(a)
       \/ OverviewStart(a) \/ Descend(a) \/ CountTotals(a) \/ CountEach(a)
       \/ OverviewRead(a)
  \/ \E n \in Nodes : \/ RemoveTenant(n) \/ PeopleMove(n)
                      \/ \E s \in {"active", "inactive"} : UpdateTenant(n, s)
HierarchySpec == HierarchyInit /\ [][HierarchyNext]_treeVars
-----------------------------------------------------------------------------
\* Types, and codes are given out once: the index decides between two callers
\* who both found the code free.
HierarchyTypeOK ==
  /\ \A n \in Exist : tree[n].level \in {"kabupaten", "kecamatan", "desa"}
                      /\ tree[n].code \in TenantCodes
  /\ \A n, m \in Exist : n # m => tree[n].code # tree[m].code
  /\ people \in [Nodes -> 0 .. MaxPeople]

\* Whatever is provisioned and removed in whatever order, a tenant's parent is
\* there and is of a higher level: a village is never below a village.
Rank == [kabupaten |-> 1, kecamatan |-> 2, desa |-> 3]
ParentAbove ==
  \A n \in Exist : tree[n].parent # Nil =>
    /\ tree[n].parent \in Exist
    /\ Rank[tree[tree[n].parent].level] < Rank[tree[n].level]

\* The villages below n with every tenant on the way active.
Reaches(n) == {m \in Nodes : /\ tree[m].level = "desa" /\ tree[m].status = "active"
                             /\ \/ tree[m].parent = n
                                \/ /\ tree[m].parent \in Exist
                                   /\ tree[tree[m].parent].status = "active"
                                   /\ tree[tree[m].parent].parent = n}
\* An overview that nothing disturbed lists exactly the active villages below
\* its tenant, and its total is the sum of theirs.
OverviewExact ==
  \A a \in unmoved : admin[a].step = "answered" =>
    /\ DOMAIN admin[a].each = Reaches(admin[a].on)
    /\ admin[a].total = Headcount(Reaches(admin[a].on))
    /\ \A m \in DOMAIN admin[a].each : admin[a].each[m] = people[m]

\* What holds of the tree of tenants and of the overviews of it.
TreeSound == HierarchyTypeOK /\ ParentAbove /\ OverviewExact
=============================================================================
