----------------------------- MODULE TenantLinks -----------------------------
(***************************************************************************)
(* The guards that keep a row and the rows it refers to in one tenant: the  *)
(* triggers of the migrations 000200, 000300, 000400 and 000600, with the   *)
(* foreign keys of the schema.  The services look up what they refer to     *)
(* within their tenant; the triggers are there for every other writer, so   *)
(* here anyone inserts, updates and deletes rows, one statement at a time.  *)
(* What may be left behind is stated by the preflight script                *)
(* scripts/db/verify-tenant-link-integrity.sql.                             *)
(*                                                                          *)
(* A behaviour works in a few tables that refer to each other, the scope;   *)
(* references to other tables are to rows that stay as they are.            *)
(***************************************************************************)
EXTENDS Naturals, FiniteSets

CONSTANTS Tenants, RowIds,
          NoTenant     \* tenant_id is NULL, for users and roles, or not a column

ASSUME TenantLinksAssumption == NoTenant \notin Tenants /\ RowIds \subseteq Nat \ {0}

VARIABLES scope,   \* the tables that the behaviour works in
          rows     \* their rows

linkVars == <<scope, rows>>

\* What the columns of a table refer to.
References ==
  [families |-> [address_id |-> "addresses", head_resident_id |-> "residents"],
   letter_templates |-> [letter_type_id |-> "letter_types"],
   aid_recipients |-> [program_id |-> "aid_programs", resident_id |-> "residents", family_id |-> "families"],
   finance_documents |-> [file_id |-> "files"],
   gallery_items |-> [file_id |-> "files"],
   letter_outputs |-> [letter_request_id |-> "letter_requests", file_id |-> "files"],
   neighborhood_units |-> [hamlet_id |-> "hamlets"],
   addresses |-> [hamlet_id |-> "hamlets", neighborhood_unit_id |-> "neighborhood_units"],
   residents |-> [family_id |-> "families", address_id |-> "addresses"],
   family_members |-> [family_id |-> "families", resident_id |-> "residents"],
   civil_events |-> [resident_id |-> "residents"],
   bumdes_financial_records |-> [unit_id |-> "bumdes_units"],
   user_roles |-> [user_id |-> "users", role_id |-> "roles"],
   notifications |-> [user_id |-> "users"],
   complaints |-> [reporter_id |-> "users", assignee_id |-> "users"],
   complaint_responses |-> [complaint_id |-> "complaints", responder_id |-> "users"],
   letter_requests |-> [requester_id |-> "users", resident_id |-> "residents", letter_type_id |-> "letter_types"],
   letter_approvals |-> [letter_request_id |-> "letter_requests", approver_id |-> "users"],
   letter_number_sequences |-> [letter_type_id |-> "letter_types"]]

Links == UNION {{<<t, f>> : f \in DOMAIN References[t]} : t \in DOMAIN References}
Referred(l) == References[l[1]][l[2]]
LinkTables == DOMAIN References \cup {Referred(l) : l \in Links}

\* ON DELETE of the column; "none" where there is no foreign key at all.
OnDeleteOf ==
  [l \in Links |->
     IF l \in {<<"families", "head_resident_id">>, <<"aid_recipients", "resident_id">>, <<"aid_recipients", "family_id">>} THEN "none"
     ELSE IF l[2] \in {"file_id", "unit_id"} \/ l = <<"letter_requests", "letter_type_id">> THEN "restrict"
     ELSE IF \/ l[2] \in {"reporter_id", "assignee_id", "responder_id", "requester_id", "approver_id", "address_id"}
             \/ l[1] = "addresses" \/ l \in {<<"residents", "family_id">>, <<"letter_requests", "resident_id">>} THEN "set null"
     ELSE "cascade"]
Nullable(l) == OnDeleteOf[l] \in {"none", "set null"} \/ l[2] = "file_id"

\* Two tables that are linked, or three whose guards look at each other.
Scopes == {{l[1], Referred(l)} : l \in {k \in Links : k[1] \notin {"user_roles", "complaint_responses"}}}
            \cup {{"hamlets", "neighborhood_units", "addresses"}, {"users", "roles", "user_roles"},
                  {"complaints", "complaint_responses", "users"}}

\* A table that others refer to has as many rows as there are ids, the others have one.
RowsOf == [t \in LinkTables |-> IF \E l \in Links : Referred(l) = t THEN RowIds ELSE {CHOOSE i \in RowIds : TRUE}]
TenantsOf(t) == IF t \in {"user_roles", "complaint_responses"} THEN {NoTenant}
                ELSE IF t \in {"users", "roles"} THEN Tenants \cup {NoTenant} ELSE Tenants
Columns(t) == IF t \in DOMAIN References \cap scope THEN {f \in DOMAIN References[t] : References[t][f] \in scope} ELSE {}
Records(t) == [tenant : TenantsOf(t), ref : [Columns(t) -> RowIds \cup {0}]]
Missing == [tenant |-> NoTenant, ref |-> [row |-> "none"]]      \* no such row, or not yet
Deleted == [tenant |-> NoTenant, ref |-> [row |-> "deleted"]]   \* an id is not given again

LinksTypeOK ==
  /\ scope \in Scopes
  /\ DOMAIN rows = scope
  /\ \A t \in scope : rows[t] \in [RowsOf[t] -> Records(t) \cup {Missing, Deleted}]

LinksInit ==
  /\ scope \in Scopes
  /\ rows = [t \in scope |-> [i \in RowsOf[t] |-> Missing]]

-----------------------------------------------------------------------------
(* What the triggers ask.  db is the state that they see, new the row that  *)
(* is written.  A column that is NULL, or outside the scope, is in order.   *)
Stored(db, t, i) == db[t][i] \notin {Missing, Deleted}
Ref(new, f) == IF f \in DOMAIN new.ref THEN new.ref[f] ELSE 0

AssertSameTenantLink(db, tenant, new, t, f) ==
  LET i == Ref(new, f) IN
  i # 0 => Stored(db, References[t][f], i) /\ db[References[t][f]][i].tenant = tenant

\* The tenant may be NULL on both sides.
AssertExactTenantIdentityLink(db, tenant, new, t, f) == AssertSameTenantLink(db, tenant, new, t, f)

\* No row of the table t that refers to row i by the column f has another tenant.
AssertNoDependentTenantMismatch(db, i, new, t, f) ==
  f \in Columns(t) =>
    \A k \in RowsOf[t] : Stored(db, t, k) /\ db[t][k].ref[f] = i => db[t][k].tenant = new.tenant

AssertAddressNeighborhoodHierarchy(db, new) ==
  Ref(new, "hamlet_id") # 0 /\ Ref(new, "neighborhood_unit_id") # 0 /\ "hamlet_id" \in Columns("neighborhood_units") =>
    db["neighborhood_units"][new.ref["neighborhood_unit_id"]].ref["hamlet_id"] = new.ref["hamlet_id"]

AssertNoAddressNeighborhoodUnitHierarchyMismatch(db, i, new) ==
  {"hamlet_id", "neighborhood_unit_id"} \subseteq Columns("addresses") =>
    \A k \in RowsOf["addresses"] :
      LET a == db["addresses"][k] IN
      Stored(db, "addresses", k) /\ a.ref["neighborhood_unit_id"] = i /\ a.ref["hamlet_id"] # 0
        => a.ref["hamlet_id"] = new.ref["hamlet_id"]

AssertUserRoleTenantLink(db, new) ==
  LET u == new.ref["user_id"]   r == new.ref["role_id"] IN
  Stored(db, "users", u) /\ Stored(db, "roles", r) /\ db["users"][u].tenant = db["roles"][r].tenant

AssertComplaintResponseTenantLink(db, new) ==
  LET k == new.ref["complaint_id"] IN
  Stored(db, "complaints", k)
    /\ AssertExactTenantIdentityLink(db, db["complaints"][k].tenant, new, "complaint_responses", "responder_id")

\* Of the responses to complaint i none has a responder of another tenant.
AssertNoComplaintResponseIdentityMismatch(db, i, new) ==
  "complaint_responses" \in scope =>
    \A k \in RowsOf["complaint_responses"] :
      LET r == db["complaint_responses"][k] IN
      Stored(db, "complaint_responses", k) /\ r.ref["complaint_id"] = i
        => AssertExactTenantIdentityLink(db, new.tenant, r, "complaint_responses", "responder_id")

-----------------------------------------------------------------------------
(* The trigger functions.  Those without "Dependent" run on every insert    *)
(* and on every update of a link or the tenant, the others when the tenant  *)
(* is updated.                                                             *)
EnforceFamilyTenantLinks(db, new) ==
  \A f \in {"address_id", "head_resident_id"} : AssertSameTenantLink(db, new.tenant, new, "families", f)
EnforceLetterTemplateTenantLinks(db, new) == AssertSameTenantLink(db, new.tenant, new, "letter_templates", "letter_type_id")
EnforceAidRecipientTenantLinks(db, new) ==
  \A f \in {"program_id", "resident_id", "family_id"} : AssertSameTenantLink(db, new.tenant, new, "aid_recipients", f)
EnforceFinanceDocumentTenantLinks(db, new) == AssertSameTenantLink(db, new.tenant, new, "finance_documents", "file_id")
EnforceGalleryItemTenantLinks(db, new) == AssertSameTenantLink(db, new.tenant, new, "gallery_items", "file_id")
EnforceLetterOutputTenantLinks(db, new) ==
  \A f \in {"letter_request_id", "file_id"} : AssertSameTenantLink(db, new.tenant, new, "letter_outputs", f)

EnforceHamletDependentTenantLinks(db, i, new) ==
  \A t \in {"neighborhood_units", "addresses"} : AssertNoDependentTenantMismatch(db, i, new, t, "hamlet_id")

MutEnforceNeighborhoodUnitTenantLinks(db, i, new) ==
  /\ AssertSameTenantLink(db, new.tenant, new, "neighborhood_units", "hamlet_id")
  /\ AssertNoDependentTenantMismatch(db, i, new, "addresses", "neighborhood_unit_id")

EnforceNeighborhoodUnitTenantLinks(db, i, new) ==
  /\ AssertSameTenantLink(db, new.tenant, new, "neighborhood_units", "hamlet_id")
  /\ AssertNoDependentTenantMismatch(db, i, new, "addresses", "neighborhood_unit_id")
  /\ AssertNoAddressNeighborhoodUnitHierarchyMismatch(db, i, new)
EnforceAddressTenantLinks(db, new) ==
  /\ \A f \in {"hamlet_id", "neighborhood_unit_id"} : AssertSameTenantLink(db, new.tenant, new, "addresses", f)
  /\ AssertAddressNeighborhoodHierarchy(db, new)
EnforceFamilyDependentTenantLinks(db, i, new) ==
  \A t \in {"residents", "family_members"} : AssertNoDependentTenantMismatch(db, i, new, t, "family_id")
EnforceAddressDependentTenantLinks(db, i, new) ==
  \A t \in {"families", "residents"} : AssertNoDependentTenantMismatch(db, i, new, t, "address_id")

EnforceResidentTenantLinks(db, i, new) ==
  /\ \A f \in {"family_id", "address_id"} : AssertSameTenantLink(db, new.tenant, new, "residents", f)
  /\ AssertNoDependentTenantMismatch(db, i, new, "families", "head_resident_id")
  /\ \A t \in {"family_members", "civil_events"} : AssertNoDependentTenantMismatch(db, i, new, t, "resident_id")
EnforceFamilyMemberTenantLinks(db, new) ==
  \A f \in {"family_id", "resident_id"} : AssertSameTenantLink(db, new.tenant, new, "family_members", f)
EnforceCivilEventTenantLinks(db, new) == AssertSameTenantLink(db, new.tenant, new, "civil_events", "resident_id")
EnforceBumdesUnitDependentTenantLinks(db, i, new) ==
  AssertNoDependentTenantMismatch(db, i, new, "bumdes_financial_records", "unit_id")
EnforceBumdesFinancialRecordTenantLinks(db, new) ==
  AssertSameTenantLink(db, new.tenant, new, "bumdes_financial_records", "unit_id")

\* Of the rows of t that refer to i by f, the ones that refer by g elsewhere agree with new.
HoldersAgree(db, i, new, t, f, g) ==
  t \in scope =>
    \A k \in RowsOf[t] :
      Stored(db, t, k) /\ db[t][k].ref[f] = i => db[References[t][g]][db[t][k].ref[g]].tenant = new.tenant

\* Tenants are not deleted by the program: the early return for that case is left out.
EnforceUserIdentityDependentTenantLinks(db, i, new) ==
  /\ HoldersAgree(db, i, new, "user_roles", "user_id", "role_id")
  /\ AssertNoDependentTenantMismatch(db, i, new, "notifications", "user_id")
  /\ \A f \in {"reporter_id", "assignee_id"} : AssertNoDependentTenantMismatch(db, i, new, "complaints", f)
  /\ HoldersAgree(db, i, new, "complaint_responses", "responder_id", "complaint_id")
EnforceRoleIdentityDependentTenantLinks(db, i, new) == HoldersAgree(db, i, new, "user_roles", "role_id", "user_id")
EnforceNotificationTenantLinks(db, new) == AssertExactTenantIdentityLink(db, new.tenant, new, "notifications", "user_id")
EnforceComplaintTenantLinks(db, i, new) ==
  /\ \A f \in {"reporter_id", "assignee_id"} : AssertExactTenantIdentityLink(db, new.tenant, new, "complaints", f)
  /\ AssertNoComplaintResponseIdentityMismatch(db, i, new)

EnforceLetterRequestTenantLinks(db, new) ==
  /\ AssertExactTenantIdentityLink(db, new.tenant, new, "letter_requests", "requester_id")
  /\ \A f \in {"resident_id", "letter_type_id"} : AssertSameTenantLink(db, new.tenant, new, "letter_requests", f)
EnforceLetterRequestDependents(db, i, new) ==
  \A t \in {"letter_approvals", "letter_outputs"} : AssertNoDependentTenantMismatch(db, i, new, t, "letter_request_id")
EnforceLetterApprovalTenantLinks(db, new) ==
  /\ AssertSameTenantLink(db, new.tenant, new, "letter_approvals", "letter_request_id")
  /\ AssertExactTenantIdentityLink(db, new.tenant, new, "letter_approvals", "approver_id")
EnforceLetterNumberSequenceTenantLinks(db, new) ==
  AssertSameTenantLink(db, new.tenant, new, "letter_number_sequences", "letter_type_id")
EnforceLetterTypeDependents(db, i, new) ==
  \A t \in {"letter_templates", "letter_requests", "letter_number_sequences"} :
    AssertNoDependentTenantMismatch(db, i, new, t, "letter_type_id")
EnforceUserLetterDependents(db, i, new) ==
  /\ AssertNoDependentTenantMismatch(db, i, new, "letter_requests", "requester_id")
  /\ AssertNoDependentTenantMismatch(db, i, new, "letter_approvals", "approver_id")
EnforceResidentLetterDependents(db, i, new) == AssertNoDependentTenantMismatch(db, i, new, "letter_requests", "resident_id")

\* CREATE TRIGGER ... BEFORE INSERT OR UPDATE OF tenant_id and the links.
LinkGuard(db, t, i, new) ==
  CASE t = "families" -> EnforceFamilyTenantLinks(db, new)
    [] t = "letter_templates" -> EnforceLetterTemplateTenantLinks(db, new)
    [] t = "aid_recipients" -> EnforceAidRecipientTenantLinks(db, new)
    [] t = "finance_documents" -> EnforceFinanceDocumentTenantLinks(db, new)
    [] t = "gallery_items" -> EnforceGalleryItemTenantLinks(db, new)
    [] t = "letter_outputs" -> EnforceLetterOutputTenantLinks(db, new)
    [] t = "neighborhood_units" -> EnforceNeighborhoodUnitTenantLinks(db, i, new)
    [] t = "addresses" -> EnforceAddressTenantLinks(db, new)
    [] t = "residents" -> EnforceResidentTenantLinks(db, i, new)
    [] t = "family_members" -> EnforceFamilyMemberTenantLinks(db, new)
    [] t = "civil_events" -> EnforceCivilEventTenantLinks(db, new)
    [] t = "bumdes_financial_records" -> EnforceBumdesFinancialRecordTenantLinks(db, new)
    [] t = "user_roles" -> AssertUserRoleTenantLink(db, new)
    [] t = "notifications" -> EnforceNotificationTenantLinks(db, new)
    [] t = "complaints" -> EnforceComplaintTenantLinks(db, i, new)
    [] t = "complaint_responses" -> AssertComplaintResponseTenantLink(db, new)
    [] t = "letter_requests" -> EnforceLetterRequestTenantLinks(db, new)
    [] t = "letter_approvals" -> EnforceLetterApprovalTenantLinks(db, new)
    [] t = "letter_number_sequences" -> EnforceLetterNumberSequenceTenantLinks(db, new)
    [] OTHER -> TRUE

\* CREATE TRIGGER ... BEFORE UPDATE OF tenant_id.
DependentGuard(db, t, i, new) ==
  CASE t = "hamlets" -> EnforceHamletDependentTenantLinks(db, i, new)
    [] t = "addresses" -> EnforceAddressDependentTenantLinks(db, i, new)
    [] t = "families" -> EnforceFamilyDependentTenantLinks(db, i, new)
    [] t = "bumdes_units" -> EnforceBumdesUnitDependentTenantLinks(db, i, new)
    [] t = "users" -> EnforceUserIdentityDependentTenantLinks(db, i, new) /\ EnforceUserLetterDependents(db, i, new)
    [] t = "roles" -> EnforceRoleIdentityDependentTenantLinks(db, i, new)
    [] t = "letter_requests" -> EnforceLetterRequestDependents(db, i, new)
    [] t = "letter_types" -> EnforceLetterTypeDependents(db, i, new)
    [] t = "residents" -> EnforceResidentLetterDependents(db, i, new)
    [] OTHER -> TRUE

-----------------------------------------------------------------------------
(* The statements.                                                         *)
\* The foreign keys: a column is NULL or refers to a row, where it has a foreign key.
KeysHold(db, t, new) ==
  \A f \in Columns(t) :
    IF new.ref[f] = 0 THEN Nullable(<<t, f>>)
    ELSE OnDeleteOf[<<t, f>>] = "none" \/ Stored(db, References[t][f], new.ref[f])

InsertRow(t, i, new) ==
  /\ rows[t][i] = Missing
  /\ KeysHold(rows, t, new) /\ LinkGuard(rows, t, i, new)
  /\ rows' = [rows EXCEPT ![t][i] = new]
  /\ UNCHANGED scope

UpdateRow(t, i, new) ==
  /\ Stored(rows, t, i) /\ new # rows[t][i]
  /\ KeysHold(rows, t, new) /\ LinkGuard(rows, t, i, new)
  /\ new.tenant # rows[t][i].tenant => DependentGuard(rows, t, i, new)
  /\ rows' = [rows EXCEPT ![t][i] = new]
  /\ UNCHANGED scope

\* The columns that refer, in every row, each as <<table, row, column>>.
Cells == UNION {{t} \X RowsOf[t] \X Columns(t) : t \in scope}

\* The rows that refer to a row of the set by a column with this action on delete.
Holders(S, how) ==
  {h \in Cells : /\ Stored(rows, h[1], h[2])
                 /\ OnDeleteOf[<<h[1], h[3]>>] = how
                 /\ <<References[h[1]][h[3]], rows[h[1]][h[2]].ref[h[3]]>> \in S}

\* A row goes with the rows that cascade from it, twice at most in the schema; columns
\* are set to NULL by updates, which the triggers guard in turn: when another column of
\* such a row refers to a row that is gone, the whole statement fails.
DeleteRow(t, i) ==
  /\ Stored(rows, t, i)
  /\ LET once == {<<t, i>>} \cup {<<h[1], h[2]>> : h \in Holders({<<t, i>>}, "cascade")}
         gone == once \cup {<<h[1], h[2]>> : h \in Holders(once, "cascade")}
         left == [u \in scope |-> [k \in RowsOf[u] |-> IF <<u, k>> \in gone THEN Deleted ELSE rows[u][k]]]
         nulls == {h \in Holders(gone, "set null") : <<h[1], h[2]>> \notin gone}
     IN /\ \A h \in Holders(gone, "restrict") : <<h[1], h[2]>> \in gone
        /\ \A h \in nulls : LinkGuard(left, h[1], h[2], [left[h[1]][h[2]] EXCEPT !.ref[h[3]] = 0])
        /\ rows' = [u \in scope |-> [k \in RowsOf[u] |->
                      IF Stored(left, u, k)
                        THEN [left[u][k] EXCEPT !.ref = [f \in Columns(u) |-> IF <<u, k, f>> \in nulls THEN 0 ELSE @[f]]]
                        ELSE left[u][k]]]
  /\ UNCHANGED scope

LinksNext ==
  \E t \in scope : \E i \in RowsOf[t] :
    \/ \E new \in Records(t) : InsertRow(t, i, new) \/ UpdateRow(t, i, new)
    \/ DeleteRow(t, i)

LinksSpec == LinksInit /\ [][LinksNext]_linkVars

-----------------------------------------------------------------------------
(* Properties.                                                             *)
\* Complaints count for their responses, which have no tenant of their own.
OwnTenant(t, row) ==
  CASE t = "user_roles" -> rows["users"][row.ref["user_id"]].tenant
    [] t = "complaint_responses" -> rows["complaints"][row.ref["complaint_id"]].tenant
    [] OTHER -> row.tenant

\* What the preflight script joins: the columns in use, and the rows they lead to.
Used == {u \in Cells : Stored(rows, u[1], u[2]) /\ rows[u[1]][u[2]].ref[u[3]] # 0}
Target(u) == rows[References[u[1]][u[3]]][rows[u[1]][u[2]].ref[u[3]]]

\* The links whose target may change its tenant, and those that may outlive their target.
UnguardedMoves == {<<"aid_recipients", "program_id">>, <<"aid_recipients", "resident_id">>, <<"aid_recipients", "family_id">>,
                   <<"finance_documents", "file_id">>, <<"gallery_items", "file_id">>, <<"letter_outputs", "file_id">>}
WithoutKey == {l \in Links : OnDeleteOf[l] = "none"}

\* Whatever is written and in whatever order, the preflight script finds nothing, but for
\* the links to files and of aid recipients, whose targets no trigger watches, and the
\* links without a foreign key (000300/migration.sql:1).
PreflightClean ==
  \A u \in Used :
    IF Target(u) \in {Missing, Deleted} THEN <<u[1], u[3]>> \in WithoutKey
    ELSE \/ Target(u).tenant = OwnTenant(u[1], rows[u[1]][u[2]])
         \/ <<u[1], u[3]>> \in UnguardedMoves

\* The RT/RW of an address belongs to its hamlet, whichever of the three rows moves
\* (000300/migration.sql:60).
AddressInHamlet ==
  {"addresses", "neighborhood_units", "hamlets"} \subseteq scope =>
    \A k \in RowsOf["addresses"] :
      LET a == rows["addresses"][k] IN
      Stored(rows, "addresses", k) /\ a.ref["hamlet_id"] # 0 /\ a.ref["neighborhood_unit_id"] # 0 =>
        rows["neighborhood_units"][a.ref["neighborhood_unit_id"]].ref["hamlet_id"] = a.ref["hamlet_id"]

\* What the triggers and keys of the database keep of the links between its tables.
LinksSound == LinksTypeOK /\ PreflightClean /\ AddressInHamlet
=============================================================================
