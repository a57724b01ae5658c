------------------------------ MODULE Console -------------------------------
(***************************************************************************)
(* What the admin console shows of what it has written: the query and       *)
(* mutation hooks (apps/web/src/features), which pages use them, and the    *)
(* cache of TanStack Query they share (providers/query-provider.tsx).       *)
(*                                                                          *)
(* A query hook is its key and the tables that its answer is made of; a     *)
(* mutation hook is the tables that its request writes and the keys that    *)
(* its success invalidates.  A behaviour follows one mutation and one query *)
(* that shows a table of it.  A value is the number of writes it contains.  *)
(* The cache itself is the library's and is modelled from its use: an entry *)
(* is fresh for staleTime, an invalidated one is fetched again at once when *)
(* a page shows it and else when one opens, and a fetch under way is        *)
(* restarted by an invalidation only where there is data and a page.        *)
(* All writes also add audit rows, which the audit page shows when opened.  *)
(***************************************************************************)
EXTENDS Naturals, Sequences, SequencesExt

CONSTANT MaxWrites   \* writes of a behaviour

ASSUME ConsoleAssumption == MaxWrites \in Nat \ {0}

Query(key, tables) == [key |-> key, shows |-> tables]
Mutation(name, tables, keys) == [name |-> name, writes |-> tables, invalidates |-> keys]

-----------------------------------------------------------------------------
(* The hooks, by file.                                                     *)
\* Of residents the parts that others show: how many there are, names, family links.
ResidentQueries == {Query(<<"residents", "list">>, {"residents", "links", "cards"})}
ResidentMutations ==
  {Mutation("createResident", {"residents", "residentCount"}, {<<"residents">>, <<"dashboard">>}),
   Mutation("updateResident", {"residents", "names"}, {<<"residents">>, <<"residents", "id">>}),
   Mutation("mutateResident", {"residents", "events"}, {<<"residents">>, <<"residents", "id">>, <<"dashboard">>}),
   Mutation("deleteResident", {"residents", "residentCount"}, {<<"residents">>, <<"dashboard">>}),
   Mutation("importResidents", {"residents", "residentCount", "names"}, {<<"residents">>, <<"dashboard">>})}

\* The import of families is behind a permission that nobody has.
FamilyQueries == {Query(<<"families", "list">>, {"families", "members", "names"}),
                  Query(<<"families", "id">>, {"families", "members", "names"})}
FamilyMutations ==
  {Mutation("createFamily", {"families", "familyCount"}, {<<"families">>, <<"dashboard">>}),
   Mutation("updateFamily", {"families", "cards"}, {<<"families">>, <<"families", "id">>}),
   Mutation("addFamilyMember", {"members", "links"}, {<<"families">>, <<"families", "id">>}),
   Mutation("removeFamilyMember", {"members", "links"}, {<<"families">>, <<"families", "id">>, <<"residents">>}),
   Mutation("deleteFamily", {"families", "familyCount", "members", "links"}, {<<"families">>, <<"dashboard">>})}

ComplaintQueries == {Query(<<"complaints", "list">>, {"complaints", "responses"}),
                     Query(<<"complaints", "id">>, {"complaints", "responses", "files"}),
                     Query(<<"complaints", "sla-stats">>, {"complaints"})}
ComplaintMutations ==
  {Mutation("createComplaint", {"complaints"}, {<<"complaints">>}),
   Mutation("updateComplaintStatus", {"complaints", "responses"}, {<<"complaints">>, <<"complaints", "id">>}),
   Mutation("assignComplaint", {"complaints"}, {<<"complaints">>, <<"complaints", "id">>}),
   Mutation("addComplaintResponse", {"complaints", "responses"}, {<<"complaints">>, <<"complaints", "id">>}),
   Mutation("closeComplaint", {"complaints"}, {<<"complaints">>, <<"complaints", "id">>}),
   Mutation("uploadComplaintAttachment", {"files"}, {<<"complaints">>, <<"complaints", "id">>})}

LetterQueries == {Query(<<"letters", "types">>, {"letterTypes", "templates"}),
                  Query(<<"letters", "requests", "list">>, {"requests", "names"}),
                  Query(<<"letters", "requests", "id">>, {"requests", "approvals", "outputs", "names"})}
LetterMutations ==
  {Mutation("createLetterRequest", {"requests"}, {<<"letters", "requests">>, <<"dashboard">>}),
   Mutation("verifyLetterRequest", {"requests", "approvals"}, {<<"letters", "requests">>, <<"letters", "requests", "id">>}),
   Mutation("approveLetterRequest", {"requests", "approvals"}, {<<"letters", "requests">>, <<"letters", "requests", "id">>}),
   Mutation("rejectLetterRequest", {"requests", "approvals"}, {<<"letters", "requests">>, <<"letters", "requests", "id">>}),
   Mutation("generateLetterPdf", {"requests", "outputs"}, {<<"letters", "requests">>, <<"letters", "requests", "id">>})}

LetterSettingsHooks ==
  [queries |-> {Query(<<"letters", "settings">>, {"letterSettings", "templates", "village"})},
   mutations |-> {Mutation("updateLetterSettings", {"letterSettings"}, {<<"letters", "settings">>}),
                  Mutation("updateLetterTemplate", {"templates"}, {<<"letters", "settings">>, <<"letters", "types">>})}]

CivilEventHooks ==
  [queries |-> {Query(<<"civil-events", "list">>, {"events", "names"})},
   mutations |-> {Mutation("createCivilEvent", {"events"}, {<<"civil-events">>, <<"residents">>}),
                  Mutation("deleteCivilEvent", {"events"}, {<<"civil-events">>})}]

TerritoryHooks ==
  [queries |-> {Query(<<"hamlets", "all">>, {"hamlets", "units"}), Query(<<"neighborhood-units", "hamlet">>, {"units"})},
   mutations |-> {Mutation("createHamlet", {"hamlets"}, {<<"hamlets">>}),
                  Mutation("createNeighborhoodUnit", {"units"}, {<<"neighborhood-units", "hamlet">>, <<"hamlets">>})}]

FinanceHooks ==
  [queries |-> {Query(<<"finance", "budget-years", "list">>, {"years", "items"}),
                Query(<<"finance", "budget-realizations", "item", "list">>, {"entries"})},
   mutations |-> {Mutation("createBudgetYear", {"years"}, {<<"finance", "budget-years">>}),
                  Mutation("createBudgetItem", {"items"}, {<<"finance", "budget-years">>}),
                  Mutation("createBudgetRealizationEntry", {"entries", "items"},
                           {<<"finance", "budget-years">>, <<"finance", "budget-realizations", "item">>})}]

UserHooks ==
  [queries |-> {Query(<<"users", "list">>, {"users", "userRoles"}), Query(<<"users", "id">>, {"users", "userRoles"})},
   mutations |-> {Mutation("createUser", {"users", "userRoles"}, {<<"users">>}),
                  Mutation("updateUser", {"users"}, {<<"users">>, <<"users", "id">>}),
                  Mutation("updateUserStatus", {"users"}, {<<"users">>, <<"users", "id">>}),
                  Mutation("assignUserRoles", {"userRoles"}, {<<"users">>, <<"users", "id">>})}]

RoleHooks ==
  [queries |-> {Query(<<"roles", "list">>, {"roles", "rolePermissions", "userRoles"}),
                Query(<<"roles", "id">>, {"roles", "rolePermissions", "userRoles"}), Query(<<"permissions">>, {"permissions"})},
   mutations |-> {Mutation("createRole", {"roles"}, {<<"roles">>}),
                  Mutation("updateRole", {"roles"}, {<<"roles">>, <<"roles", "id">>}),
                  Mutation("assignRolePermissions", {"rolePermissions"}, {<<"roles">>, <<"roles", "id">>})}]

\* Files with one list: key, table, and the mutations, which all invalidate that key.
ListHooks(key, of, names) ==
  [queries |-> {Query(Append(key, "list"), {of})}, mutations |-> {Mutation(n, {of}, {key}) : n \in names}]

AssetHooks == ListHooks(<<"assets">>, "assets", {"createAsset", "deleteAsset"})
DevelopmentHooks == ListHooks(<<"development", "projects">>, "projects", {"createProject", "updateProject", "deleteProject"})
AidHooks == ListHooks(<<"aid", "programs">>, "programs", {"createAidProgram"})
PostHooks == ListHooks(<<"cms", "posts">>, "posts", {"createPost", "updatePost", "deletePost"})
AgendaHooks == ListHooks(<<"cms", "agendas">>, "agendas", {"createAgenda", "updateAgenda", "deleteAgenda"})
GalleryHooks == ListHooks(<<"cms", "gallery">>, "gallery", {"createGalleryItem", "deleteGalleryItem"})
BumdesHooks ==
  [queries |-> {Query(<<"bumdes", "units", "list">>, {"bumdesUnits"}),
                Query(<<"bumdes", "financial-records", "list">>, {"records", "bumdesUnits"})},
   mutations |-> {Mutation("createBumdesUnit", {"bumdesUnits"}, {<<"bumdes">>}),
                  Mutation("createFinancialRecord", {"records"}, {<<"bumdes">>})}]

VillageProfileHooks ==
  [queries |-> {Query(<<"village-profile">>, {"village"})},
   mutations |-> {Mutation("updateVillageProfile", {"village"}, {<<"village-profile">>})}]
GisSettingsHooks ==
  [queries |-> {Query(<<"settings", "gis">>, {"gis"})},
   mutations |-> {Mutation("updateGisSettings", {"gis"}, {<<"settings", "gis">>, <<"public", "map">>})}]
SecuritySettingsHooks ==
  [queries |-> {Query(<<"settings", "security">>, {"security"})},
   mutations |-> {Mutation("updateSecuritySettings", {"security"}, {<<"settings", "security">>})}]
PublicMapQuery == Query(<<"public", "map", "tenant">>, {"gis"})

\* The regency dashboard's mutation is in the page itself; the figures of the villages are
\* written by their own users.
ProvisionVillage == Mutation("provisionVillage", {"tenants"}, {<<"tenants", "regency", "overview">>})
RegencyQuery == Query(<<"tenants", "regency", "overview", "user", "tenant">>, {"tenants"})

DashboardQuery == Query(<<"dashboard">>, {"residentCount", "familyCount", "requests", "complaints", "programs",
                                          "assets", "projects", "years"})
ReportQueries == {Query(<<"reports", "population">>, {"residents", "events"}),
                  Query(<<"reports", "letters">>, {"requests"}),
                  Query(<<"reports", "finance", "year">>, {"years", "items"})}

-----------------------------------------------------------------------------
(* The pages: what they offer and what they show.                          *)
Page(mutations, queries) == [offers |-> mutations, shows |-> queries]
PageOf(hooks) == Page(hooks.mutations, hooks.queries)
ListOf(hooks) == {q \in hooks.queries : Last(q.key) = "list"}

Pages ==
  [penduduk |-> Page(ResidentMutations, ResidentQueries),
   keluarga |-> Page(FamilyMutations, FamilyQueries \cup ResidentQueries),
   pengaduan |-> Page(ComplaintMutations, ComplaintQueries \cup ListOf(UserHooks)),
   surat |-> Page(LetterMutations, LetterQueries \cup ResidentQueries),
   suratPengaturan |-> PageOf(LetterSettingsHooks),
   peristiwa |-> Page(CivilEventHooks.mutations, CivilEventHooks.queries \cup ResidentQueries),
   wilayah |-> PageOf(TerritoryHooks), keuangan |-> PageOf(FinanceHooks),
   users |-> Page(UserHooks.mutations, UserHooks.queries \cup ListOf(RoleHooks)),
   roles |-> PageOf(RoleHooks), aset |-> PageOf(AssetHooks), pembangunan |-> PageOf(DevelopmentHooks),
   bantuanSosial |-> PageOf(AidHooks), berita |-> PageOf(PostHooks), agenda |-> PageOf(AgendaHooks),
   galeri |-> PageOf(GalleryHooks), bumdes |-> PageOf(BumdesHooks),
   pengaturan |-> Page(VillageProfileHooks.mutations \cup GisSettingsHooks.mutations \cup SecuritySettingsHooks.mutations,
                       VillageProfileHooks.queries \cup GisSettingsHooks.queries \cup SecuritySettingsHooks.queries),
   petaDesa |-> Page({}, {PublicMapQuery}), kabupaten |-> Page({ProvisionVillage}, {RegencyQuery}),
   dashboard |-> Page({}, {DashboardQuery} \cup {q \in ReportQueries : Len(q.key) = 2}),
   laporan |-> Page({}, ReportQueries), auditLogs |-> Page({}, {})]

Mutations == UNION {Pages[p].offers : p \in DOMAIN Pages}
Queries == UNION {Pages[p].shows : p \in DOMAIN Pages}
Follows == {f \in Mutations \X Queries : f[1].writes \cap f[2].shows # {}}

-----------------------------------------------------------------------------
(* The cache entry of the query, and the mutation.                         *)
VARIABLES pair,      \* the mutation and the query that the behaviour follows
          page,      \* the page that is open
          written,   \* writes of the mutation that the database has committed
          told,      \* those that the user has been told of
          entry,     \* the cached answer: its value, whether it is fresh or invalidated
          fetch,     \* the request of the query that is under way
          request    \* the request of the mutation

consoleVars == <<pair, page, written, told, entry, fetch, request>>

Writes == 0 .. MaxWrites
NoEntry == [has |-> FALSE, value |-> 0, fresh |-> FALSE, invalid |-> FALSE, failed |-> FALSE, late |-> FALSE]
NoFetch == [step |-> "none", value |-> 0, late |-> FALSE]
Asked == [NoFetch EXCEPT !.step = "asked"]

ConsoleTypeOK ==
  /\ pair \in Follows /\ page \in DOMAIN Pages
  /\ written \in Writes /\ told \in 0 .. written
  /\ entry \in [has : BOOLEAN, value : 0 .. written, fresh : BOOLEAN, invalid : BOOLEAN, failed : BOOLEAN, late : BOOLEAN]
  /\ fetch \in [step : {"none", "asked", "read"}, value : 0 .. written, late : BOOLEAN]
  /\ request \in {"none", "sent", "committed"}

ConsoleInit ==
  /\ pair \in Follows
  /\ page = "auditLogs"
  /\ written = 0 /\ told = 0
  /\ entry = NoEntry /\ fetch = NoFetch /\ request = "none"

Shown(p) == pair[2] \in Pages[p].shows
Offered(p) == pair[1] \in Pages[p].offers

\* A page opens: its queries are fetched unless their entries are fresh.
Visit(p) ==
  /\ p # page
  /\ Shown(p) \/ Offered(p) \/ p = "auditLogs"
  /\ page' = p
  /\ fetch' = IF Shown(p) /\ (~entry.has \/ entry.invalid \/ ~entry.fresh) /\ fetch = NoFetch THEN Asked ELSE fetch
  /\ UNCHANGED <<pair, written, told, entry, request>>

\* staleTime passes; gcTime passes for an entry that no page shows.
Expire ==
  /\ entry.has /\ entry.fresh
  /\ entry' = [entry EXCEPT !.fresh = FALSE]
  /\ UNCHANGED <<pair, page, written, told, fetch, request>>
Collect ==
  /\ entry.has /\ ~Shown(page) /\ fetch = NoFetch
  /\ entry' = NoEntry
  /\ UNCHANGED <<pair, page, written, told, fetch, request>>

\* The API reads; the answer arrives, or the request and its one retry fail.
Read ==
  /\ fetch.step = "asked"
  /\ fetch' = [step |-> "read", value |-> written, late |-> fetch.late]
  /\ UNCHANGED <<pair, page, written, told, entry, request>>
Answer ==
  /\ fetch.step = "read"
  /\ entry' = [has |-> TRUE, value |-> fetch.value, fresh |-> TRUE, invalid |-> FALSE, failed |-> FALSE, late |-> fetch.late]
  /\ fetch' = NoFetch
  /\ UNCHANGED <<pair, page, written, told, request>>
Fail ==
  /\ fetch # NoFetch
  /\ entry' = [entry EXCEPT !.failed = TRUE]
  /\ fetch' = NoFetch
  /\ UNCHANGED <<pair, page, written, told, request>>
Retry ==
  /\ entry.failed /\ Shown(page) /\ fetch = NoFetch
  /\ fetch' = Asked
  /\ UNCHANGED <<pair, page, written, told, entry, request>>

Send ==
  /\ request = "none" /\ Offered(page)
  /\ written < MaxWrites   \* the bound
  /\ request' = "sent"
  /\ UNCHANGED <<pair, page, written, told, entry, fetch>>
Commit ==
  /\ request = "sent"
  /\ written' = written + 1
  /\ request' = "committed"
  /\ UNCHANGED <<pair, page, told, entry, fetch>>

\* It was refused, or its answer is lost after the commit.
SeenAsFailed ==
  /\ request # "none"
  /\ request' = "none"
  /\ UNCHANGED <<pair, page, written, told, entry, fetch>>

MutInvalidated == pair[2].key \in pair[1].invalidates

Invalidated == \E k \in pair[1].invalidates : IsPrefix(k, pair[2].key)

\* onSuccess runs whatever page is open by now.
Succeed ==
  /\ request = "committed"
  /\ request' = "none"
  /\ told' = written
  /\ IF Invalidated
       THEN /\ entry' = [entry EXCEPT !.invalid = entry.has]
            /\ fetch' = IF Shown(page) /\ (fetch = NoFetch \/ entry.has) THEN Asked
                        ELSE IF fetch = NoFetch THEN fetch ELSE [fetch EXCEPT !.late = TRUE]
       ELSE UNCHANGED <<entry, fetch>>
  /\ UNCHANGED <<pair, page, written>>

ConsoleNext ==
  \/ \E p \in DOMAIN Pages : Visit(p)
  \/ Expire \/ Collect \/ Read \/ Answer \/ Fail \/ Retry \/ Send \/ Commit \/ SeenAsFailed \/ Succeed

ConsoleSpec == ConsoleInit /\ [][ConsoleNext]_consoleVars

-----------------------------------------------------------------------------
(* Properties.                                                             *)
\* What a hook leaves to staleTime and to the next visit, by the query: the reports, the
\* counts of the dashboard, and what a page shows of another one's rows.
Left ==
  [reports |-> {m.name : m \in Mutations},
   dashboard |-> {m.name : m \in ComplaintMutations \cup LetterMutations \cup FinanceHooks.mutations \cup AssetHooks.mutations
                                  \cup DevelopmentHooks.mutations \cup AidHooks.mutations} \ {"createLetterRequest"},
   residents |-> {"updateFamily", "addFamilyMember", "deleteFamily"},
   families |-> {"updateResident", "importResidents"}, letters |-> {"updateResident", "importResidents", "updateVillageProfile"},
   roles |-> {"createUser", "assignUserRoles"}]
LeftAlone(m, q) ==
  \/ Head(q.key) \in DOMAIN Left /\ m.name \in Left[Head(q.key)]
  \/ Head(q.key) = "civil-events" /\ m.name \in {"updateResident", "importResidents", "mutateResident"}

\* A page shows every write that its user was told of once its queries are at rest, but for
\* those of LeftAlone, and for an answer that was on its way when the user was told: the
\* invalidation reaches it neither on a page that is left nor before the first data.
OwnWriteShown ==
  Shown(page) /\ fetch = NoFetch /\ ~entry.failed =>
    entry.value >= told \/ entry.late \/ LeftAlone(pair[1], pair[2])

\* What holds of a page and its cache at any time.
PagesSound == ConsoleTypeOK /\ OwnWriteShown
=============================================================================
