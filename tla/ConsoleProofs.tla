---------------------------- MODULE ConsoleProofs ----------------------------
(* Proofs about the pages of the console: what their cache shows (Console)   *)
(* and what their forms send (Dialogs), for any writes, rows and submits.    *)
EXTENDS Console, Dialogs, TLAPS

(***************************************************************************)
(* What the hooks invalidate.  A mutation that writes a table of a query    *)
(* invalidates a prefix of its key, or is one of those that LeftAlone names.*)
(***************************************************************************)
Reached(m, q) == \E k \in m.invalidates : IsPrefix(k, q.key)
Covered(m, q) == m.writes \cap q.shows # {} => Reached(m, q) \/ LeftAlone(m, q)

\* Every mutation of a page comes from one of the hook files.
LEMMA MutationGroups ==
  ASSUME NEW m \in Mutations
  PROVE  \/ m \in ResidentMutations
         \/ m \in FamilyMutations
         \/ m \in ComplaintMutations
         \/ m \in LetterMutations
         \/ m \in LetterSettingsHooks.mutations
         \/ m \in CivilEventHooks.mutations
         \/ m \in TerritoryHooks.mutations
         \/ m \in FinanceHooks.mutations
         \/ m \in UserHooks.mutations
         \/ m \in RoleHooks.mutations
         \/ m \in BumdesHooks.mutations
         \/ m \in VillageProfileHooks.mutations
         \/ m \in GisSettingsHooks.mutations
         \/ m \in SecuritySettingsHooks.mutations
         \/ m \in AssetHooks.mutations
         \/ m \in DevelopmentHooks.mutations
         \/ m \in AidHooks.mutations
         \/ m \in PostHooks.mutations
         \/ m \in AgendaHooks.mutations
         \/ m \in GalleryHooks.mutations
         \/ m \in {ProvisionVillage}
<1>1. PICK p \in DOMAIN Pages : m \in Pages[p].offers
  BY DEF Mutations
<1>2. CASE p \in {"penduduk", "keluarga", "pengaduan", "surat", "suratPengaturan", "peristiwa",
                 "wilayah", "keuangan"}
  BY <1>1, <1>2 DEF Pages, Page, PageOf
<1>3. CASE p \in {"users", "roles", "aset", "pembangunan", "bantuanSosial", "berita", "agenda",
                 "galeri"}
  BY <1>1, <1>3 DEF Pages, Page, PageOf
<1>4. CASE p \in {"bumdes", "pengaturan", "petaDesa", "kabupaten", "dashboard", "laporan",
                 "auditLogs"}
  BY <1>1, <1>4 DEF Pages, Page, PageOf
<1>5. \/ p \in {"penduduk", "keluarga", "pengaduan", "surat", "suratPengaturan", "peristiwa",
               "wilayah", "keuangan"}
      \/ p \in {"users", "roles", "aset", "pembangunan", "bantuanSosial", "berita", "agenda",
               "galeri"}
      \/ p \in {"bumdes", "pengaturan", "petaDesa", "kabupaten", "dashboard", "laporan",
               "auditLogs"}
  BY DEF Pages
<1>. QED
  BY <1>2, <1>3, <1>4, <1>5

\* And so does every query, but for those that a page has to itself.
LEMMA QueryGroups ==
  ASSUME NEW q \in Queries
  PROVE  \/ q \in ResidentQueries
         \/ q \in FamilyQueries
         \/ q \in ComplaintQueries
         \/ q \in LetterQueries
         \/ q \in ReportQueries
         \/ q \in LetterSettingsHooks.queries
         \/ q \in CivilEventHooks.queries
         \/ q \in TerritoryHooks.queries
         \/ q \in FinanceHooks.queries
         \/ q \in UserHooks.queries
         \/ q \in RoleHooks.queries
         \/ q \in BumdesHooks.queries
         \/ q \in VillageProfileHooks.queries
         \/ q \in GisSettingsHooks.queries
         \/ q \in SecuritySettingsHooks.queries
         \/ q \in AssetHooks.queries
         \/ q \in DevelopmentHooks.queries
         \/ q \in AidHooks.queries
         \/ q \in PostHooks.queries
         \/ q \in AgendaHooks.queries
         \/ q \in GalleryHooks.queries
         \/ q \in {PublicMapQuery}
         \/ q \in {RegencyQuery}
         \/ q \in {DashboardQuery}
<1>1. PICK p \in DOMAIN Pages : q \in Pages[p].shows
  BY DEF Queries
<1>2. CASE p \in {"penduduk", "keluarga", "pengaduan", "surat", "suratPengaturan", "peristiwa",
                 "wilayah", "keuangan"}
  BY <1>1, <1>2 DEF Pages, Page, PageOf, ListOf
<1>3. CASE p \in {"users", "roles", "aset", "pembangunan", "bantuanSosial", "berita", "agenda",
                 "galeri"}
  BY <1>1, <1>3 DEF Pages, Page, PageOf, ListOf
<1>4. CASE p \in {"bumdes", "pengaturan", "petaDesa", "kabupaten", "dashboard", "laporan",
                 "auditLogs"}
  BY <1>1, <1>4 DEF Pages, Page, PageOf, ListOf
<1>5. \/ p \in {"penduduk", "keluarga", "pengaduan", "surat", "suratPengaturan", "peristiwa",
               "wilayah", "keuangan"}
      \/ p \in {"users", "roles", "aset", "pembangunan", "bantuanSosial", "berita", "agenda",
               "galeri"}
      \/ p \in {"bumdes", "pengaturan", "petaDesa", "kabupaten", "dashboard", "laporan",
               "auditLogs"}
  BY DEF Pages
<1>. QED
  BY <1>2, <1>3, <1>4, <1>5

\* A file with one list: its mutations invalidate the key that the list extends.
LEMMA OwnListReached ==
  ASSUME NEW key, IsPrefix(key, Append(key, "list")), NEW of, NEW names,
         NEW m \in ListHooks(key, of, names).mutations,
         NEW q \in ListHooks(key, of, names).queries
  PROVE  Reached(m, q)
<1>1. key \in m.invalidates /\ q.key = Append(key, "list")
  BY DEF ListHooks, Query, Mutation
<1>. QED
  BY <1>1 DEF Reached

\* By hook file: which queries its mutations invalidate, which they leave alone,
\* and that the others show no table they write.
LEMMA ResidentWritesReach ==
  \A m \in Mutations \cap ResidentMutations, q \in Queries : Covered(m, q)
<1> SUFFICES ASSUME NEW m \in Mutations \cap ResidentMutations, NEW q \in Queries
             PROVE  Covered(m, q)
  OBVIOUS
<1>1. /\ IsPrefix(<<"dashboard">>, <<"dashboard">>)
      /\ IsPrefix(<<"residents">>, <<"residents", "list">>)
  BY DEF IsPrefix
<1>2. CASE q \in ResidentQueries \cup {DashboardQuery}
  BY <1>1, <1>2 DEF Covered, Reached, Query, Mutation, ResidentMutations, ResidentQueries,
     DashboardQuery
<1>3. CASE q \in FamilyQueries \cup LetterQueries \cup ReportQueries \cup
         CivilEventHooks.queries
  BY <1>3 DEF Covered, LeftAlone, Left, Query, Mutation, ResidentMutations, FamilyQueries,
     LetterQueries, ReportQueries, CivilEventHooks
<1>4. CASE q \in ComplaintQueries \cup LetterSettingsHooks.queries \cup
             TerritoryHooks.queries \cup FinanceHooks.queries \cup UserHooks.queries \cup
             RoleHooks.queries \cup BumdesHooks.queries \cup VillageProfileHooks.queries \cup
             GisSettingsHooks.queries \cup SecuritySettingsHooks.queries \cup
             AssetHooks.queries \cup DevelopmentHooks.queries \cup AidHooks.queries \cup
             PostHooks.queries \cup AgendaHooks.queries \cup GalleryHooks.queries \cup
             {PublicMapQuery} \cup {RegencyQuery}
  BY <1>4 DEF Covered, Query, Mutation, ResidentMutations, ListHooks, ComplaintQueries,
     LetterSettingsHooks, TerritoryHooks, FinanceHooks, UserHooks, RoleHooks, BumdesHooks,
     VillageProfileHooks, GisSettingsHooks, SecuritySettingsHooks, AssetHooks,
     DevelopmentHooks, AidHooks, PostHooks, AgendaHooks, GalleryHooks, PublicMapQuery,
     RegencyQuery
<1>. QED
  BY <1>2, <1>3, <1>4, QueryGroups

\* What the hooks of Family write.
LEMMA FamilyWritesReach ==
  \A m \in Mutations \cap FamilyMutations, q \in Queries : Covered(m, q)
<1> SUFFICES ASSUME NEW m \in Mutations \cap FamilyMutations, NEW q \in Queries
             PROVE  Covered(m, q)
  OBVIOUS
<1>1. /\ IsPrefix(<<"dashboard">>, <<"dashboard">>)
      /\ IsPrefix(<<"families">>, <<"families", "id">>)
      /\ IsPrefix(<<"families">>, <<"families", "list">>)
      /\ IsPrefix(<<"residents">>, <<"residents", "list">>)
  BY DEF IsPrefix
<1>2. CASE q \in ResidentQueries \cup FamilyQueries \cup {DashboardQuery}
  BY <1>1, <1>2 DEF Covered, Reached, Query, Mutation, LeftAlone, Left, FamilyMutations,
     ResidentQueries, FamilyQueries, DashboardQuery
<1>3. CASE q \in ComplaintQueries \cup LetterQueries \cup ReportQueries \cup
             LetterSettingsHooks.queries \cup CivilEventHooks.queries \cup
             TerritoryHooks.queries \cup FinanceHooks.queries \cup UserHooks.queries \cup
             RoleHooks.queries \cup BumdesHooks.queries \cup VillageProfileHooks.queries \cup
             GisSettingsHooks.queries \cup SecuritySettingsHooks.queries \cup
             AssetHooks.queries \cup DevelopmentHooks.queries \cup AidHooks.queries \cup
             PostHooks.queries \cup AgendaHooks.queries \cup GalleryHooks.queries \cup
             {PublicMapQuery} \cup {RegencyQuery}
  BY <1>3 DEF Covered, Query, Mutation, FamilyMutations, ListHooks, ComplaintQueries,
     LetterQueries, ReportQueries, LetterSettingsHooks, CivilEventHooks, TerritoryHooks,
     FinanceHooks, UserHooks, RoleHooks, BumdesHooks, VillageProfileHooks, GisSettingsHooks,
     SecuritySettingsHooks, AssetHooks, DevelopmentHooks, AidHooks, PostHooks, AgendaHooks,
     GalleryHooks, PublicMapQuery, RegencyQuery
<1>. QED
  BY <1>2, <1>3, QueryGroups

\* What the hooks of Complaint write.
LEMMA ComplaintWritesReach ==
  \A m \in Mutations \cap ComplaintMutations, q \in Queries : Covered(m, q)
<1> SUFFICES ASSUME NEW m \in Mutations \cap ComplaintMutations, NEW q \in Queries
             PROVE  Covered(m, q)
  OBVIOUS
<1>1. /\ IsPrefix(<<"complaints">>, <<"complaints", "id">>)
      /\ IsPrefix(<<"complaints">>, <<"complaints", "list">>)
      /\ IsPrefix(<<"complaints">>, <<"complaints", "sla-stats">>)
  BY DEF IsPrefix
<1>2. CASE q \in ComplaintQueries
  BY <1>1, <1>2 DEF Covered, Reached, Query, Mutation, ComplaintMutations, ComplaintQueries
<1>3. CASE q \in {DashboardQuery}
  BY <1>3 DEF Covered, LeftAlone, Left, Query, Mutation, ComplaintMutations, DashboardQuery
<1>4. CASE q \in ResidentQueries \cup FamilyQueries \cup LetterQueries \cup
             ReportQueries \cup LetterSettingsHooks.queries \cup CivilEventHooks.queries \cup
             TerritoryHooks.queries \cup FinanceHooks.queries \cup UserHooks.queries \cup
             RoleHooks.queries \cup BumdesHooks.queries \cup VillageProfileHooks.queries \cup
             GisSettingsHooks.queries \cup SecuritySettingsHooks.queries \cup
             AssetHooks.queries \cup DevelopmentHooks.queries \cup AidHooks.queries \cup
             PostHooks.queries \cup AgendaHooks.queries \cup GalleryHooks.queries \cup
             {PublicMapQuery} \cup {RegencyQuery}
  BY <1>4 DEF Covered, Query, Mutation, ComplaintMutations, ListHooks, ResidentQueries,
     FamilyQueries, LetterQueries, ReportQueries, LetterSettingsHooks, CivilEventHooks,
     TerritoryHooks, FinanceHooks, UserHooks, RoleHooks, BumdesHooks, VillageProfileHooks,
     GisSettingsHooks, SecuritySettingsHooks, AssetHooks, DevelopmentHooks, AidHooks,
     PostHooks, AgendaHooks, GalleryHooks, PublicMapQuery, RegencyQuery
<1>. QED
  BY <1>2, <1>3, <1>4, QueryGroups

\* What the hooks of Letter write.
LEMMA LetterWritesReach ==
  \A m \in Mutations \cap LetterMutations, q \in Queries : Covered(m, q)
<1> SUFFICES ASSUME NEW m \in Mutations \cap LetterMutations, NEW q \in Queries
             PROVE  Covered(m, q)
  OBVIOUS
<1>1. /\ IsPrefix(<<"dashboard">>, <<"dashboard">>)
      /\ IsPrefix(<<"letters", "requests">>, <<"letters", "requests", "id">>)
      /\ IsPrefix(<<"letters", "requests">>, <<"letters", "requests", "list">>)
  BY DEF IsPrefix
<1>2. CASE q \in LetterQueries \cup {DashboardQuery}
  BY <1>1, <1>2 DEF Covered, Reached, Query, Mutation, LeftAlone, Left, LetterMutations,
     LetterQueries, DashboardQuery
<1>3. CASE q \in ReportQueries
  BY <1>3 DEF Covered, LeftAlone, Left, Query, Mutation, LetterMutations, ReportQueries
<1>4. CASE q \in ResidentQueries \cup FamilyQueries \cup ComplaintQueries \cup
             LetterSettingsHooks.queries \cup CivilEventHooks.queries \cup
             TerritoryHooks.queries \cup FinanceHooks.queries \cup UserHooks.queries \cup
             RoleHooks.queries \cup BumdesHooks.queries \cup VillageProfileHooks.queries \cup
             GisSettingsHooks.queries \cup SecuritySettingsHooks.queries \cup
             AssetHooks.queries \cup DevelopmentHooks.queries \cup AidHooks.queries \cup
             PostHooks.queries \cup AgendaHooks.queries \cup GalleryHooks.queries \cup
             {PublicMapQuery} \cup {RegencyQuery}
  BY <1>4 DEF Covered, Query, Mutation, LetterMutations, ListHooks, ResidentQueries,
     FamilyQueries, ComplaintQueries, LetterSettingsHooks, CivilEventHooks, TerritoryHooks,
     FinanceHooks, UserHooks, RoleHooks, BumdesHooks, VillageProfileHooks, GisSettingsHooks,
     SecuritySettingsHooks, AssetHooks, DevelopmentHooks, AidHooks, PostHooks, AgendaHooks,
     GalleryHooks, PublicMapQuery, RegencyQuery
<1>. QED
  BY <1>2, <1>3, <1>4, QueryGroups

\* What the hooks of LetterSettings write.
LEMMA LetterSettingsWritesReach ==
  \A m \in Mutations \cap LetterSettingsHooks.mutations, q \in Queries : Covered(m, q)
<1> SUFFICES ASSUME NEW m \in Mutations \cap LetterSettingsHooks.mutations, NEW q \in Queries
             PROVE  Covered(m, q)
  OBVIOUS
<1>1. /\ IsPrefix(<<"letters", "settings">>, <<"letters", "settings">>)
      /\ IsPrefix(<<"letters", "types">>, <<"letters", "types">>)
  BY DEF IsPrefix
<1>2. CASE q \in LetterQueries \cup LetterSettingsHooks.queries
  BY <1>1, <1>2 DEF Covered, Reached, Query, Mutation, LetterSettingsHooks, LetterQueries
<1>3. CASE q \in ResidentQueries \cup FamilyQueries \cup ComplaintQueries \cup
             ReportQueries \cup CivilEventHooks.queries \cup TerritoryHooks.queries \cup
             FinanceHooks.queries \cup UserHooks.queries \cup RoleHooks.queries \cup
             BumdesHooks.queries \cup VillageProfileHooks.queries \cup
             GisSettingsHooks.queries \cup SecuritySettingsHooks.queries \cup
             AssetHooks.queries \cup DevelopmentHooks.queries \cup AidHooks.queries \cup
             PostHooks.queries \cup AgendaHooks.queries \cup GalleryHooks.queries \cup
             {PublicMapQuery} \cup {RegencyQuery} \cup {DashboardQuery}
  BY <1>3 DEF Covered, Query, Mutation, LetterSettingsHooks, ListHooks, ResidentQueries,
     FamilyQueries, ComplaintQueries, ReportQueries, CivilEventHooks, TerritoryHooks,
     FinanceHooks, UserHooks, RoleHooks, BumdesHooks, VillageProfileHooks, GisSettingsHooks,
     SecuritySettingsHooks, AssetHooks, DevelopmentHooks, AidHooks, PostHooks, AgendaHooks,
     GalleryHooks, PublicMapQuery, RegencyQuery, DashboardQuery
<1>. QED
  BY <1>2, <1>3, QueryGroups

\* What the hooks of CivilEvent write.
LEMMA CivilEventWritesReach ==
  \A m \in Mutations \cap CivilEventHooks.mutations, q \in Queries : Covered(m, q)
<1> SUFFICES ASSUME NEW m \in Mutations \cap CivilEventHooks.mutations, NEW q \in Queries
             PROVE  Covered(m, q)
  OBVIOUS
<1>1. IsPrefix(<<"civil-events">>, <<"civil-events", "list">>)
  BY DEF IsPrefix
<1>2. CASE q \in CivilEventHooks.queries
  BY <1>1, <1>2 DEF Covered, Reached, Query, Mutation, CivilEventHooks
<1>3. CASE q \in ReportQueries
  BY <1>3 DEF Covered, LeftAlone, Left, Query, Mutation, CivilEventHooks, ReportQueries
<1>4. CASE q \in ResidentQueries \cup FamilyQueries \cup ComplaintQueries \cup
             LetterQueries \cup LetterSettingsHooks.queries \cup TerritoryHooks.queries \cup
             FinanceHooks.queries \cup UserHooks.queries \cup RoleHooks.queries \cup
             BumdesHooks.queries \cup VillageProfileHooks.queries \cup
             GisSettingsHooks.queries \cup SecuritySettingsHooks.queries \cup
             AssetHooks.queries \cup DevelopmentHooks.queries \cup AidHooks.queries \cup
             PostHooks.queries \cup AgendaHooks.queries \cup GalleryHooks.queries \cup
             {PublicMapQuery} \cup {RegencyQuery} \cup {DashboardQuery}
  BY <1>4 DEF Covered, Query, Mutation, CivilEventHooks, ListHooks, ResidentQueries,
     FamilyQueries, ComplaintQueries, LetterQueries, LetterSettingsHooks, TerritoryHooks,
     FinanceHooks, UserHooks, RoleHooks, BumdesHooks, VillageProfileHooks, GisSettingsHooks,
     SecuritySettingsHooks, AssetHooks, DevelopmentHooks, AidHooks, PostHooks, AgendaHooks,
     GalleryHooks, PublicMapQuery, RegencyQuery, DashboardQuery
<1>. QED
  BY <1>2, <1>3, <1>4, QueryGroups

\* What the hooks of Territory write.
LEMMA TerritoryWritesReach ==
  \A m \in Mutations \cap TerritoryHooks.mutations, q \in Queries : Covered(m, q)
<1> SUFFICES ASSUME NEW m \in Mutations \cap TerritoryHooks.mutations, NEW q \in Queries
             PROVE  Covered(m, q)
  OBVIOUS
<1>1. /\ IsPrefix(<<"hamlets">>, <<"hamlets", "all">>)
      /\ IsPrefix(<<"neighborhood-units", "hamlet">>, <<"neighborhood-units", "hamlet">>)
  BY DEF IsPrefix
<1>2. CASE q \in TerritoryHooks.queries
  BY <1>1, <1>2 DEF Covered, Reached, Query, Mutation, TerritoryHooks
<1>3. CASE q \in ResidentQueries \cup FamilyQueries \cup ComplaintQueries \cup
             LetterQueries \cup ReportQueries \cup LetterSettingsHooks.queries \cup
             CivilEventHooks.queries \cup FinanceHooks.queries \cup UserHooks.queries \cup
             RoleHooks.queries \cup BumdesHooks.queries \cup VillageProfileHooks.queries \cup
             GisSettingsHooks.queries \cup SecuritySettingsHooks.queries \cup
             AssetHooks.queries \cup DevelopmentHooks.queries \cup AidHooks.queries \cup
             PostHooks.queries \cup AgendaHooks.queries \cup GalleryHooks.queries \cup
             {PublicMapQuery} \cup {RegencyQuery} \cup {DashboardQuery}
  BY <1>3 DEF Covered, Query, Mutation, TerritoryHooks, ListHooks, ResidentQueries,
     FamilyQueries, ComplaintQueries, LetterQueries, ReportQueries, LetterSettingsHooks,
     CivilEventHooks, FinanceHooks, UserHooks, RoleHooks, BumdesHooks, VillageProfileHooks,
     GisSettingsHooks, SecuritySettingsHooks, AssetHooks, DevelopmentHooks, AidHooks,
     PostHooks, AgendaHooks, GalleryHooks, PublicMapQuery, RegencyQuery, DashboardQuery
<1>. QED
  BY <1>2, <1>3, QueryGroups

\* What the hooks of Finance write.
LEMMA FinanceWritesReach ==
  \A m \in Mutations \cap FinanceHooks.mutations, q \in Queries : Covered(m, q)
<1> SUFFICES ASSUME NEW m \in Mutations \cap FinanceHooks.mutations, NEW q \in Queries
             PROVE  Covered(m, q)
  OBVIOUS
<1>1. /\ IsPrefix(<<"finance", "budget-realizations", "item">>,
                  <<"finance", "budget-realizations", "item", "list">>)
      /\ IsPrefix(<<"finance", "budget-years">>, <<"finance", "budget-years", "list">>)
  BY DEF IsPrefix
<1>2. CASE q \in FinanceHooks.queries
  BY <1>1, <1>2 DEF Covered, Reached, Query, Mutation, FinanceHooks
<1>3. CASE q \in ReportQueries \cup {DashboardQuery}
  BY <1>3 DEF Covered, LeftAlone, Left, Query, Mutation, FinanceHooks, ReportQueries,
     DashboardQuery
<1>4. CASE q \in ResidentQueries \cup FamilyQueries \cup ComplaintQueries \cup
             LetterQueries \cup LetterSettingsHooks.queries \cup CivilEventHooks.queries \cup
             TerritoryHooks.queries \cup UserHooks.queries \cup RoleHooks.queries \cup
             BumdesHooks.queries \cup VillageProfileHooks.queries \cup
             GisSettingsHooks.queries \cup SecuritySettingsHooks.queries \cup
             AssetHooks.queries \cup DevelopmentHooks.queries \cup AidHooks.queries \cup
             PostHooks.queries \cup AgendaHooks.queries \cup GalleryHooks.queries \cup
             {PublicMapQuery} \cup {RegencyQuery}
  BY <1>4 DEF Covered, Query, Mutation, FinanceHooks, ListHooks, ResidentQueries,
     FamilyQueries, ComplaintQueries, LetterQueries, LetterSettingsHooks, CivilEventHooks,
     TerritoryHooks, UserHooks, RoleHooks, BumdesHooks, VillageProfileHooks, GisSettingsHooks,
     SecuritySettingsHooks, AssetHooks, DevelopmentHooks, AidHooks, PostHooks, AgendaHooks,
     GalleryHooks, PublicMapQuery, RegencyQuery
<1>. QED
  BY <1>2, <1>3, <1>4, QueryGroups

\* What the hooks of User write.
LEMMA UserWritesReach ==
  \A m \in Mutations \cap UserHooks.mutations, q \in Queries : Covered(m, q)
<1> SUFFICES ASSUME NEW m \in Mutations \cap UserHooks.mutations, NEW q \in Queries
             PROVE  Covered(m, q)
  OBVIOUS
<1>1. /\ IsPrefix(<<"users">>, <<"users", "id">>)
      /\ IsPrefix(<<"users">>, <<"users", "list">>)
  BY DEF IsPrefix
<1>2. CASE q \in UserHooks.queries
  BY <1>1, <1>2 DEF Covered, Reached, Query, Mutation, UserHooks
<1>3. CASE q \in RoleHooks.queries
  BY <1>3 DEF Covered, LeftAlone, Left, Query, Mutation, UserHooks, RoleHooks
<1>4. CASE q \in ResidentQueries \cup FamilyQueries \cup ComplaintQueries \cup
             LetterQueries \cup ReportQueries \cup LetterSettingsHooks.queries \cup
             CivilEventHooks.queries \cup TerritoryHooks.queries \cup
             FinanceHooks.queries \cup BumdesHooks.queries \cup
             VillageProfileHooks.queries \cup GisSettingsHooks.queries \cup
             SecuritySettingsHooks.queries \cup AssetHooks.queries \cup
             DevelopmentHooks.queries \cup AidHooks.queries \cup PostHooks.queries \cup
             AgendaHooks.queries \cup GalleryHooks.queries \cup {PublicMapQuery} \cup
             {RegencyQuery} \cup {DashboardQuery}
  BY <1>4 DEF Covered, Query, Mutation, UserHooks, ListHooks, ResidentQueries, FamilyQueries,
     ComplaintQueries, LetterQueries, ReportQueries, LetterSettingsHooks, CivilEventHooks,
     TerritoryHooks, FinanceHooks, BumdesHooks, VillageProfileHooks, GisSettingsHooks,
     SecuritySettingsHooks, AssetHooks, DevelopmentHooks, AidHooks, PostHooks, AgendaHooks,
     GalleryHooks, PublicMapQuery, RegencyQuery, DashboardQuery
<1>. QED
  BY <1>2, <1>3, <1>4, QueryGroups

\* What the hooks of Role write.
LEMMA RoleWritesReach ==
  \A m \in Mutations \cap RoleHooks.mutations, q \in Queries : Covered(m, q)
<1> SUFFICES ASSUME NEW m \in Mutations \cap RoleHooks.mutations, NEW q \in Queries
             PROVE  Covered(m, q)
  OBVIOUS
<1>1. /\ IsPrefix(<<"roles">>, <<"roles", "id">>)
      /\ IsPrefix(<<"roles">>, <<"roles", "list">>)
  BY DEF IsPrefix
<1>2. CASE q \in RoleHooks.queries
  BY <1>1, <1>2 DEF Covered, Reached, Query, Mutation, RoleHooks
<1>3. CASE q \in ResidentQueries \cup FamilyQueries \cup ComplaintQueries \cup
             LetterQueries \cup ReportQueries \cup LetterSettingsHooks.queries \cup
             CivilEventHooks.queries \cup TerritoryHooks.queries \cup
             FinanceHooks.queries \cup UserHooks.queries \cup BumdesHooks.queries \cup
             VillageProfileHooks.queries \cup GisSettingsHooks.queries \cup
             SecuritySettingsHooks.queries \cup AssetHooks.queries \cup
             DevelopmentHooks.queries \cup AidHooks.queries \cup PostHooks.queries \cup
             AgendaHooks.queries \cup GalleryHooks.queries \cup {PublicMapQuery} \cup
             {RegencyQuery} \cup {DashboardQuery}
  BY <1>3 DEF Covered, Query, Mutation, RoleHooks, ListHooks, ResidentQueries, FamilyQueries,
     ComplaintQueries, LetterQueries, ReportQueries, LetterSettingsHooks, CivilEventHooks,
     TerritoryHooks, FinanceHooks, UserHooks, BumdesHooks, VillageProfileHooks,
     GisSettingsHooks, SecuritySettingsHooks, AssetHooks, DevelopmentHooks, AidHooks,
     PostHooks, AgendaHooks, GalleryHooks, PublicMapQuery, RegencyQuery, DashboardQuery
<1>. QED
  BY <1>2, <1>3, QueryGroups

\* What the hooks of Bumdes write.
LEMMA BumdesWritesReach ==
  \A m \in Mutations \cap BumdesHooks.mutations, q \in Queries : Covered(m, q)
<1> SUFFICES ASSUME NEW m \in Mutations \cap BumdesHooks.mutations, NEW q \in Queries
             PROVE  Covered(m, q)
  OBVIOUS
<1>1. /\ IsPrefix(<<"bumdes">>, <<"bumdes", "financial-records", "list">>)
      /\ IsPrefix(<<"bumdes">>, <<"bumdes", "units", "list">>)
  BY DEF IsPrefix
<1>2. CASE q \in BumdesHooks.queries
  BY <1>1, <1>2 DEF Covered, Reached, Query, Mutation, BumdesHooks
<1>3. CASE q \in ResidentQueries \cup FamilyQueries \cup ComplaintQueries \cup
             LetterQueries \cup ReportQueries \cup LetterSettingsHooks.queries \cup
             CivilEventHooks.queries \cup TerritoryHooks.queries \cup
             FinanceHooks.queries \cup UserHooks.queries \cup RoleHooks.queries \cup
             VillageProfileHooks.queries \cup GisSettingsHooks.queries \cup
             SecuritySettingsHooks.queries \cup AssetHooks.queries \cup
             DevelopmentHooks.queries \cup AidHooks.queries \cup PostHooks.queries \cup
             AgendaHooks.queries \cup GalleryHooks.queries \cup {PublicMapQuery} \cup
             {RegencyQuery} \cup {DashboardQuery}
  BY <1>3 DEF Covered, Query, Mutation, BumdesHooks, ListHooks, ResidentQueries,
     FamilyQueries, ComplaintQueries, LetterQueries, ReportQueries, LetterSettingsHooks,
     CivilEventHooks, TerritoryHooks, FinanceHooks, UserHooks, RoleHooks, VillageProfileHooks,
     GisSettingsHooks, SecuritySettingsHooks, AssetHooks, DevelopmentHooks, AidHooks,
     PostHooks, AgendaHooks, GalleryHooks, PublicMapQuery, RegencyQuery, DashboardQuery
<1>. QED
  BY <1>2, <1>3, QueryGroups

\* What the hooks of VillageProfile write.
LEMMA VillageProfileWritesReach ==
  \A m \in Mutations \cap VillageProfileHooks.mutations, q \in Queries : Covered(m, q)
<1> SUFFICES ASSUME NEW m \in Mutations \cap VillageProfileHooks.mutations, NEW q \in Queries
             PROVE  Covered(m, q)
  OBVIOUS
<1>1. IsPrefix(<<"village-profile">>, <<"village-profile">>)
  BY DEF IsPrefix
<1>2. CASE q \in VillageProfileHooks.queries
  BY <1>1, <1>2 DEF Covered, Reached, Query, Mutation, VillageProfileHooks
<1>3. CASE q \in LetterSettingsHooks.queries
  BY <1>3 DEF Covered, LeftAlone, Left, Query, Mutation, VillageProfileHooks,
     LetterSettingsHooks
<1>4. CASE q \in ResidentQueries \cup FamilyQueries \cup ComplaintQueries \cup
             LetterQueries \cup ReportQueries \cup CivilEventHooks.queries \cup
             TerritoryHooks.queries \cup FinanceHooks.queries \cup UserHooks.queries \cup
             RoleHooks.queries \cup BumdesHooks.queries \cup GisSettingsHooks.queries \cup
             SecuritySettingsHooks.queries \cup AssetHooks.queries \cup
             DevelopmentHooks.queries \cup AidHooks.queries \cup PostHooks.queries \cup
             AgendaHooks.queries \cup GalleryHooks.queries \cup {PublicMapQuery} \cup
             {RegencyQuery} \cup {DashboardQuery}
  BY <1>4 DEF Covered, Query, Mutation, VillageProfileHooks, ListHooks, ResidentQueries,
     FamilyQueries, ComplaintQueries, LetterQueries, ReportQueries, CivilEventHooks,
     TerritoryHooks, FinanceHooks, UserHooks, RoleHooks, BumdesHooks, GisSettingsHooks,
     SecuritySettingsHooks, AssetHooks, DevelopmentHooks, AidHooks, PostHooks, AgendaHooks,
     GalleryHooks, PublicMapQuery, RegencyQuery, DashboardQuery
<1>. QED
  BY <1>2, <1>3, <1>4, QueryGroups

\* What the hooks of GisSettings write.
LEMMA GisSettingsWritesReach ==
  \A m \in Mutations \cap GisSettingsHooks.mutations, q \in Queries : Covered(m, q)
<1> SUFFICES ASSUME NEW m \in Mutations \cap GisSettingsHooks.mutations, NEW q \in Queries
             PROVE  Covered(m, q)
  OBVIOUS
<1>1. /\ IsPrefix(<<"public", "map">>, <<"public", "map", "tenant">>)
      /\ IsPrefix(<<"settings", "gis">>, <<"settings", "gis">>)
  BY DEF IsPrefix
<1>2. CASE q \in GisSettingsHooks.queries \cup {PublicMapQuery}
  BY <1>1, <1>2 DEF Covered, Reached, Query, Mutation, GisSettingsHooks, PublicMapQuery
<1>3. CASE q \in ResidentQueries \cup FamilyQueries \cup ComplaintQueries \cup
             LetterQueries \cup ReportQueries \cup LetterSettingsHooks.queries \cup
             CivilEventHooks.queries \cup TerritoryHooks.queries \cup
             FinanceHooks.queries \cup UserHooks.queries \cup RoleHooks.queries \cup
             BumdesHooks.queries \cup VillageProfileHooks.queries \cup
             SecuritySettingsHooks.queries \cup AssetHooks.queries \cup
             DevelopmentHooks.queries \cup AidHooks.queries \cup PostHooks.queries \cup
             AgendaHooks.queries \cup GalleryHooks.queries \cup {RegencyQuery} \cup
             {DashboardQuery}
  BY <1>3 DEF Covered, Query, Mutation, GisSettingsHooks, ListHooks, ResidentQueries,
     FamilyQueries, ComplaintQueries, LetterQueries, ReportQueries, LetterSettingsHooks,
     CivilEventHooks, TerritoryHooks, FinanceHooks, UserHooks, RoleHooks, BumdesHooks,
     VillageProfileHooks, SecuritySettingsHooks, AssetHooks, DevelopmentHooks, AidHooks,
     PostHooks, AgendaHooks, GalleryHooks, RegencyQuery, DashboardQuery
<1>. QED
  BY <1>2, <1>3, QueryGroups

\* What the hooks of SecuritySettings write.
LEMMA SecuritySettingsWritesReach ==
  \A m \in Mutations \cap SecuritySettingsHooks.mutations, q \in Queries : Covered(m, q)
<1> SUFFICES ASSUME NEW m \in Mutations \cap SecuritySettingsHooks.mutations, NEW q \in Queries
             PROVE  Covered(m, q)
  OBVIOUS
<1>1. IsPrefix(<<"settings", "security">>, <<"settings", "security">>)
  BY DEF IsPrefix
<1>2. CASE q \in SecuritySettingsHooks.queries
  BY <1>1, <1>2 DEF Covered, Reached, Query, Mutation, SecuritySettingsHooks
<1>3. CASE q \in ResidentQueries \cup FamilyQueries \cup ComplaintQueries \cup
             LetterQueries \cup ReportQueries \cup LetterSettingsHooks.queries \cup
             CivilEventHooks.queries \cup TerritoryHooks.queries \cup
             FinanceHooks.queries \cup UserHooks.queries \cup RoleHooks.queries \cup
             BumdesHooks.queries \cup VillageProfileHooks.queries \cup
             GisSettingsHooks.queries \cup AssetHooks.queries \cup
             DevelopmentHooks.queries \cup AidHooks.queries \cup PostHooks.queries \cup
             AgendaHooks.queries \cup GalleryHooks.queries \cup {PublicMapQuery} \cup
             {RegencyQuery} \cup {DashboardQuery}
  BY <1>3 DEF Covered, Query, Mutation, SecuritySettingsHooks, ListHooks, ResidentQueries,
     FamilyQueries, ComplaintQueries, LetterQueries, ReportQueries, LetterSettingsHooks,
     CivilEventHooks, TerritoryHooks, FinanceHooks, UserHooks, RoleHooks, BumdesHooks,
     VillageProfileHooks, GisSettingsHooks, AssetHooks, DevelopmentHooks, AidHooks, PostHooks,
     AgendaHooks, GalleryHooks, PublicMapQuery, RegencyQuery, DashboardQuery
<1>. QED
  BY <1>2, <1>3, QueryGroups

\* What the hooks of Asset write.
LEMMA AssetWritesReach ==
  \A m \in Mutations \cap AssetHooks.mutations, q \in Queries : Covered(m, q)
<1> SUFFICES ASSUME NEW m \in Mutations \cap AssetHooks.mutations, NEW q \in Queries
             PROVE  Covered(m, q)
  OBVIOUS
<1>1. IsPrefix(<<"assets">>, Append(<<"assets">>, "list"))
  BY DEF IsPrefix
<1>2. CASE q \in AssetHooks.queries
  BY <1>1, <1>2, OwnListReached DEF Covered, AssetHooks
<1>3. CASE q \in {DashboardQuery}
  BY <1>3 DEF Covered, LeftAlone, Left, Query, Mutation, AssetHooks, ListHooks, DashboardQuery
<1>4. CASE q \in ResidentQueries \cup FamilyQueries \cup ComplaintQueries \cup
             LetterQueries \cup ReportQueries \cup LetterSettingsHooks.queries \cup
             CivilEventHooks.queries \cup TerritoryHooks.queries \cup
             FinanceHooks.queries \cup UserHooks.queries \cup RoleHooks.queries \cup
             BumdesHooks.queries \cup VillageProfileHooks.queries \cup
             GisSettingsHooks.queries \cup SecuritySettingsHooks.queries \cup
             DevelopmentHooks.queries \cup AidHooks.queries \cup PostHooks.queries \cup
             AgendaHooks.queries \cup GalleryHooks.queries \cup {PublicMapQuery} \cup
             {RegencyQuery}
  BY <1>4 DEF Covered, Query, Mutation, AssetHooks, ListHooks, ResidentQueries, FamilyQueries,
     ComplaintQueries, LetterQueries, ReportQueries, LetterSettingsHooks, CivilEventHooks,
     TerritoryHooks, FinanceHooks, UserHooks, RoleHooks, BumdesHooks, VillageProfileHooks,
     GisSettingsHooks, SecuritySettingsHooks, DevelopmentHooks, AidHooks, PostHooks,
     AgendaHooks, GalleryHooks, PublicMapQuery, RegencyQuery
<1>. QED
  BY <1>2, <1>3, <1>4, QueryGroups

\* What the hooks of Development write.
LEMMA DevelopmentWritesReach ==
  \A m \in Mutations \cap DevelopmentHooks.mutations, q \in Queries : Covered(m, q)
<1> SUFFICES ASSUME NEW m \in Mutations \cap DevelopmentHooks.mutations, NEW q \in Queries
             PROVE  Covered(m, q)
  OBVIOUS
<1>1. IsPrefix(<<"development", "projects">>, Append(<<"development", "projects">>, "list"))
  BY DEF IsPrefix
<1>2. CASE q \in DevelopmentHooks.queries
  BY <1>1, <1>2, OwnListReached DEF Covered, DevelopmentHooks
<1>3. CASE q \in {DashboardQuery}
  BY <1>3 DEF Covered, LeftAlone, Left, Query, Mutation, DevelopmentHooks, ListHooks,
     DashboardQuery
<1>4. CASE q \in ResidentQueries \cup FamilyQueries \cup ComplaintQueries \cup
             LetterQueries \cup ReportQueries \cup LetterSettingsHooks.queries \cup
             CivilEventHooks.queries \cup TerritoryHooks.queries \cup
             FinanceHooks.queries \cup UserHooks.queries \cup RoleHooks.queries \cup
             BumdesHooks.queries \cup VillageProfileHooks.queries \cup
             GisSettingsHooks.queries \cup SecuritySettingsHooks.queries \cup
             AssetHooks.queries \cup AidHooks.queries \cup PostHooks.queries \cup
             AgendaHooks.queries \cup GalleryHooks.queries \cup {PublicMapQuery} \cup
             {RegencyQuery}
  BY <1>4 DEF Covered, Query, Mutation, DevelopmentHooks, ListHooks, ResidentQueries,
     FamilyQueries, ComplaintQueries, LetterQueries, ReportQueries, LetterSettingsHooks,
     CivilEventHooks, TerritoryHooks, FinanceHooks, UserHooks, RoleHooks, BumdesHooks,
     VillageProfileHooks, GisSettingsHooks, SecuritySettingsHooks, AssetHooks, AidHooks,
     PostHooks, AgendaHooks, GalleryHooks, PublicMapQuery, RegencyQuery
<1>. QED
  BY <1>2, <1>3, <1>4, QueryGroups

\* What the hooks of Aid write.
LEMMA AidWritesReach ==
  \A m \in Mutations \cap AidHooks.mutations, q \in Queries : Covered(m, q)
<1> SUFFICES ASSUME NEW m \in Mutations \cap AidHooks.mutations, NEW q \in Queries
             PROVE  Covered(m, q)
  OBVIOUS
<1>1. IsPrefix(<<"aid", "programs">>, Append(<<"aid", "programs">>, "list"))
  BY DEF IsPrefix
<1>2. CASE q \in AidHooks.queries
  BY <1>1, <1>2, OwnListReached DEF Covered, AidHooks
<1>3. CASE q \in {DashboardQuery}
  BY <1>3 DEF Covered, LeftAlone, Left, Query, Mutation, AidHooks, ListHooks, DashboardQuery
<1>4. CASE q \in ResidentQueries \cup FamilyQueries \cup ComplaintQueries \cup
             LetterQueries \cup ReportQueries \cup LetterSettingsHooks.queries \cup
             CivilEventHooks.queries \cup TerritoryHooks.queries \cup
             FinanceHooks.queries \cup UserHooks.queries \cup RoleHooks.queries \cup
             BumdesHooks.queries \cup VillageProfileHooks.queries \cup
             GisSettingsHooks.queries \cup SecuritySettingsHooks.queries \cup
             AssetHooks.queries \cup DevelopmentHooks.queries \cup PostHooks.queries \cup
             AgendaHooks.queries \cup GalleryHooks.queries \cup {PublicMapQuery} \cup
             {RegencyQuery}
  BY <1>4 DEF Covered, Query, Mutation, AidHooks, ListHooks, ResidentQueries, FamilyQueries,
     ComplaintQueries, LetterQueries, ReportQueries, LetterSettingsHooks, CivilEventHooks,
     TerritoryHooks, FinanceHooks, UserHooks, RoleHooks, BumdesHooks, VillageProfileHooks,
     GisSettingsHooks, SecuritySettingsHooks, AssetHooks, DevelopmentHooks, PostHooks,
     AgendaHooks, GalleryHooks, PublicMapQuery, RegencyQuery
<1>. QED
  BY <1>2, <1>3, <1>4, QueryGroups

\* What the hooks of Post write.
LEMMA PostWritesReach ==
  \A m \in Mutations \cap PostHooks.mutations, q \in Queries : Covered(m, q)
<1> SUFFICES ASSUME NEW m \in Mutations \cap PostHooks.mutations, NEW q \in Queries
             PROVE  Covered(m, q)
  OBVIOUS
<1>1. IsPrefix(<<"cms", "posts">>, Append(<<"cms", "posts">>, "list"))
  BY DEF IsPrefix
<1>2. CASE q \in PostHooks.queries
  BY <1>1, <1>2, OwnListReached DEF Covered, PostHooks
<1>3. CASE q \in ResidentQueries \cup FamilyQueries \cup ComplaintQueries \cup
             LetterQueries \cup ReportQueries \cup LetterSettingsHooks.queries \cup
             CivilEventHooks.queries \cup TerritoryHooks.queries \cup
             FinanceHooks.queries \cup UserHooks.queries \cup RoleHooks.queries \cup
             BumdesHooks.queries \cup VillageProfileHooks.queries \cup
             GisSettingsHooks.queries \cup SecuritySettingsHooks.queries \cup
             AssetHooks.queries \cup DevelopmentHooks.queries \cup AidHooks.queries \cup
             AgendaHooks.queries \cup GalleryHooks.queries \cup {PublicMapQuery} \cup
             {RegencyQuery} \cup {DashboardQuery}
  BY <1>3 DEF Covered, Query, Mutation, PostHooks, ListHooks, ResidentQueries, FamilyQueries,
     ComplaintQueries, LetterQueries, ReportQueries, LetterSettingsHooks, CivilEventHooks,
     TerritoryHooks, FinanceHooks, UserHooks, RoleHooks, BumdesHooks, VillageProfileHooks,
     GisSettingsHooks, SecuritySettingsHooks, AssetHooks, DevelopmentHooks, AidHooks,
     AgendaHooks, GalleryHooks, PublicMapQuery, RegencyQuery, DashboardQuery
<1>. QED
  BY <1>2, <1>3, QueryGroups

\* What the hooks of Agenda write.
LEMMA AgendaWritesReach ==
  \A m \in Mutations \cap AgendaHooks.mutations, q \in Queries : Covered(m, q)
<1> SUFFICES ASSUME NEW m \in Mutations \cap AgendaHooks.mutations, NEW q \in Queries
             PROVE  Covered(m, q)
  OBVIOUS
<1>1. IsPrefix(<<"cms", "agendas">>, Append(<<"cms", "agendas">>, "list"))
  BY DEF IsPrefix
<1>2. CASE q \in AgendaHooks.queries
  BY <1>1, <1>2, OwnListReached DEF Covered, AgendaHooks
<1>3. CASE q \in ResidentQueries \cup FamilyQueries \cup ComplaintQueries \cup
             LetterQueries \cup ReportQueries \cup LetterSettingsHooks.queries \cup
             CivilEventHooks.queries \cup TerritoryHooks.queries \cup
             FinanceHooks.queries \cup UserHooks.queries \cup RoleHooks.queries \cup
             BumdesHooks.queries \cup VillageProfileHooks.queries \cup
             GisSettingsHooks.queries \cup SecuritySettingsHooks.queries \cup
             AssetHooks.queries \cup DevelopmentHooks.queries \cup AidHooks.queries \cup
             PostHooks.queries \cup GalleryHooks.queries \cup {PublicMapQuery} \cup
             {RegencyQuery} \cup {DashboardQuery}
  BY <1>3 DEF Covered, Query, Mutation, AgendaHooks, ListHooks, ResidentQueries,
     FamilyQueries, ComplaintQueries, LetterQueries, ReportQueries, LetterSettingsHooks,
     CivilEventHooks, TerritoryHooks, FinanceHooks, UserHooks, RoleHooks, BumdesHooks,
     VillageProfileHooks, GisSettingsHooks, SecuritySettingsHooks, AssetHooks,
     DevelopmentHooks, AidHooks, PostHooks, GalleryHooks, PublicMapQuery, RegencyQuery,
     DashboardQuery
<1>. QED
  BY <1>2, <1>3, QueryGroups

\* What the hooks of Gallery write.
LEMMA GalleryWritesReach ==
  \A m \in Mutations \cap GalleryHooks.mutations, q \in Queries : Covered(m, q)
<1> SUFFICES ASSUME NEW m \in Mutations \cap GalleryHooks.mutations, NEW q \in Queries
             PROVE  Covered(m, q)
  OBVIOUS
<1>1. IsPrefix(<<"cms", "gallery">>, Append(<<"cms", "gallery">>, "list"))
  BY DEF IsPrefix
<1>2. CASE q \in GalleryHooks.queries
  BY <1>1, <1>2, OwnListReached DEF Covered, GalleryHooks
<1>3. CASE q \in ResidentQueries \cup FamilyQueries \cup ComplaintQueries \cup
             LetterQueries \cup ReportQueries \cup LetterSettingsHooks.queries \cup
             CivilEventHooks.queries \cup TerritoryHooks.queries \cup
             FinanceHooks.queries \cup UserHooks.queries \cup RoleHooks.queries \cup
             BumdesHooks.queries \cup VillageProfileHooks.queries \cup
             GisSettingsHooks.queries \cup SecuritySettingsHooks.queries \cup
             AssetHooks.queries \cup DevelopmentHooks.queries \cup AidHooks.queries \cup
             PostHooks.queries \cup AgendaHooks.queries \cup {PublicMapQuery} \cup
             {RegencyQuery} \cup {DashboardQuery}
  BY <1>3 DEF Covered, Query, Mutation, GalleryHooks, ListHooks, ResidentQueries,
     FamilyQueries, ComplaintQueries, LetterQueries, ReportQueries, LetterSettingsHooks,
     CivilEventHooks, TerritoryHooks, FinanceHooks, UserHooks, RoleHooks, BumdesHooks,
     VillageProfileHooks, GisSettingsHooks, SecuritySettingsHooks, AssetHooks,
     DevelopmentHooks, AidHooks, PostHooks, AgendaHooks, PublicMapQuery, RegencyQuery,
     DashboardQuery
<1>. QED
  BY <1>2, <1>3, QueryGroups

\* What the hooks of ProvisionVillage write.
LEMMA ProvisionVillageWritesReach ==
  \A m \in Mutations \cap {ProvisionVillage}, q \in Queries : Covered(m, q)
<1> SUFFICES ASSUME NEW m \in Mutations \cap {ProvisionVillage}, NEW q \in Queries
             PROVE  Covered(m, q)
  OBVIOUS
<1>1. IsPrefix(<<"tenants", "regency", "overview">>, <<"tenants", "regency", "overview", "user", "tenant">>)
  BY DEF IsPrefix
<1>2. CASE q \in {RegencyQuery}
  BY <1>1, <1>2 DEF Covered, Reached, Query, Mutation, ProvisionVillage, RegencyQuery
<1>3. CASE q \in ResidentQueries \cup FamilyQueries \cup ComplaintQueries \cup
             LetterQueries \cup ReportQueries \cup LetterSettingsHooks.queries \cup
             CivilEventHooks.queries \cup TerritoryHooks.queries \cup
             FinanceHooks.queries \cup UserHooks.queries \cup RoleHooks.queries \cup
             BumdesHooks.queries \cup VillageProfileHooks.queries \cup
             GisSettingsHooks.queries \cup SecuritySettingsHooks.queries \cup
             AssetHooks.queries \cup DevelopmentHooks.queries \cup AidHooks.queries \cup
             PostHooks.queries \cup AgendaHooks.queries \cup GalleryHooks.queries \cup
             {PublicMapQuery} \cup {DashboardQuery}
  BY <1>3 DEF Covered, Query, Mutation, ProvisionVillage, ListHooks, ResidentQueries,
     FamilyQueries, ComplaintQueries, LetterQueries, ReportQueries, LetterSettingsHooks,
     CivilEventHooks, TerritoryHooks, FinanceHooks, UserHooks, RoleHooks, BumdesHooks,
     VillageProfileHooks, GisSettingsHooks, SecuritySettingsHooks, AssetHooks,
     DevelopmentHooks, AidHooks, PostHooks, AgendaHooks, GalleryHooks, PublicMapQuery,
     DashboardQuery
<1>. QED
  BY <1>2, <1>3, QueryGroups

\* The same of every mutation and every query.
LEMMA WritesReach == \A m \in Mutations, q \in Queries : Covered(m, q)
<1> SUFFICES ASSUME NEW m \in Mutations, NEW q \in Queries
             PROVE  Covered(m, q)
  OBVIOUS
<1>. QED
  BY MutationGroups, ResidentWritesReach, FamilyWritesReach, ComplaintWritesReach,
     LetterWritesReach, LetterSettingsWritesReach, CivilEventWritesReach,
     TerritoryWritesReach, FinanceWritesReach, UserWritesReach, RoleWritesReach,
     BumdesWritesReach, VillageProfileWritesReach, GisSettingsWritesReach,
     SecuritySettingsWritesReach, AssetWritesReach, DevelopmentWritesReach, AidWritesReach,
     PostWritesReach, AgendaWritesReach, GalleryWritesReach, ProvisionVillageWritesReach

(***************************************************************************)
(* The inductive invariant of the cache.  Whatever mutation and query are   *)
(* followed, what the user was told of is in the entry, is in the answer    *)
(* under way, or has invalidated the entry.                                 *)
(***************************************************************************)
\* A write that the user was told of is in the entry, unless it is invalidated
\* or its answer was under way when he was told.
EntryTold == entry.has => entry.value >= told \/ entry.late \/ entry.invalid
\* The same of the answer under way, once the API has read.
FetchTold == fetch.step = "read" => fetch.value >= told \/ fetch.late
\* A page at rest shows data that no later write has invalidated.
AtRest == Shown(page) /\ fetch = NoFetch /\ ~entry.failed => entry.has /\ ~entry.invalid
\* A request under way is within the bound.
RoomToWrite == request = "sent" => written < MaxWrites
ConsoleInv ==
  /\ ConsoleTypeOK /\ RoomToWrite
  /\ ~LeftAlone(pair[1], pair[2]) => EntryTold /\ FetchTold /\ AtRest

\* The pair that is followed shares a table, so that success reaches the query.
LEMMA ThePair ==
  ASSUME pair \in Follows, ~LeftAlone(pair[1], pair[2])
  PROVE  Invalidated
<1>1. Covered(pair[1], pair[2]) /\ pair[1].writes \cap pair[2].shows # {}
  BY WritesReach DEF Follows
<1>. QED
  BY <1>1 DEF Covered, Reached, Invalidated

\* Nothing is cached and nothing written at first.
LEMMA ConsoleBegin == ConsoleInit => ConsoleInv
<1> SUFFICES ASSUME ConsoleInit
             PROVE  ConsoleInv
  OBVIOUS
<1>1. "auditLogs" \in DOMAIN Pages /\ Pages["auditLogs"].shows = {}
  BY DEF Pages, Page
<1>2. ConsoleTypeOK
  BY <1>1, ConsoleAssumption DEF ConsoleInit, ConsoleTypeOK, Writes, NoEntry, NoFetch
<1>3. EntryTold /\ FetchTold /\ AtRest
  BY <1>1 DEF ConsoleInit, EntryTold, FetchTold, AtRest, NoEntry, NoFetch, Shown
<1>. QED
  BY <1>2, <1>3 DEF ConsoleInv, RoomToWrite, ConsoleInit

\* Every step keeps the types.
LEMMA ConsoleTypeStep == ConsoleTypeOK /\ RoomToWrite /\ [ConsoleNext]_consoleVars => ConsoleTypeOK'
<1> SUFFICES ASSUME ConsoleTypeOK, RoomToWrite, [ConsoleNext]_consoleVars
             PROVE  ConsoleTypeOK'
  OBVIOUS
<1> DEFINE Entry(w) == [has : BOOLEAN, value : 0 .. w, fresh : BOOLEAN, invalid : BOOLEAN,
                        failed : BOOLEAN, late : BOOLEAN]
           Fetch(w) == [step : {"none", "asked", "read"}, value : 0 .. w, late : BOOLEAN]
<1>1. /\ pair \in Follows /\ page \in DOMAIN Pages
      /\ written \in 0 .. MaxWrites /\ told \in 0 .. written
      /\ entry \in Entry(written) /\ fetch \in Fetch(written)
      /\ request \in {"none", "sent", "committed"}
  BY DEF ConsoleTypeOK, Writes
<1>2. /\ NoEntry \in Entry(written) /\ NoFetch \in Fetch(written) /\ Asked \in Fetch(written)
      /\ [entry EXCEPT !.fresh = FALSE] \in Entry(written)
      /\ [entry EXCEPT !.failed = TRUE] \in Entry(written)
      /\ [entry EXCEPT !.invalid = entry.has] \in Entry(written)
      /\ [fetch EXCEPT !.late = TRUE] \in Fetch(written)
      /\ [step |-> "read", value |-> written, late |-> fetch.late] \in Fetch(written)
      /\ [has |-> TRUE, value |-> fetch.value, fresh |-> TRUE, invalid |-> FALSE,
          failed |-> FALSE, late |-> fetch.late] \in Entry(written)
  <2>1. written \in Nat /\ 0 \in 0 .. written /\ written \in 0 .. written
    BY <1>1, ConsoleAssumption
  <2>2. NoEntry \in Entry(written) /\ NoFetch \in Fetch(written) /\ Asked \in Fetch(written)
    BY <2>1 DEF NoEntry, NoFetch, Asked
  <2>3. [entry EXCEPT !.fresh = FALSE] \in Entry(written)
    BY <1>1
  <2>4. [entry EXCEPT !.failed = TRUE] \in Entry(written)
    BY <1>1
  <2>5. [entry EXCEPT !.invalid = entry.has] \in Entry(written)
    BY <1>1
  <2>6. [fetch EXCEPT !.late = TRUE] \in Fetch(written)
    BY <1>1
  <2>7. [step |-> "read", value |-> written, late |-> fetch.late] \in Fetch(written)
    BY <1>1, <2>1
  <2>8. [has |-> TRUE, value |-> fetch.value, fresh |-> TRUE, invalid |-> FALSE,
         failed |-> FALSE, late |-> fetch.late] \in Entry(written)
    BY <1>1
  <2>. QED
    BY <2>2, <2>3, <2>4, <2>5, <2>6, <2>7, <2>8
<1>3. written < MaxWrites => /\ written + 1 \in 0 .. MaxWrites
                             /\ Entry(written) \subseteq Entry(written + 1)
                             /\ Fetch(written) \subseteq Fetch(written + 1)
                             /\ told \in 0 .. (written + 1)
  BY <1>1, ConsoleAssumption
<1>4. ConsoleTypeOK' <=>
        /\ pair' \in Follows /\ page' \in DOMAIN Pages
        /\ written' \in 0 .. MaxWrites /\ told' \in 0 .. written'
        /\ entry' \in Entry(written') /\ fetch' \in Fetch(written')
        /\ request' \in {"none", "sent", "committed"}
  BY DEF ConsoleTypeOK, Writes
<1> HIDE DEF Entry, Fetch
<1>5. CASE \E p \in DOMAIN Pages : Visit(p)
  BY <1>1, <1>2, <1>4, <1>5 DEF Visit
<1>6. CASE Expire
  BY <1>1, <1>2, <1>4, <1>6 DEF Expire
<1>7. CASE Collect
  BY <1>1, <1>2, <1>4, <1>7 DEF Collect
<1>8. CASE Read
  BY <1>1, <1>2, <1>4, <1>8 DEF Read
<1>9. CASE Answer
  BY <1>1, <1>2, <1>4, <1>9 DEF Answer
<1>10. CASE Fail
  BY <1>1, <1>2, <1>4, <1>10 DEF Fail
<1>11. CASE Retry
  BY <1>1, <1>2, <1>4, <1>11 DEF Retry
<1>12. CASE Send
  BY <1>1, <1>4, <1>12 DEF Send
<1>13. CASE SeenAsFailed
  BY <1>1, <1>4, <1>13 DEF SeenAsFailed
<1>14. CASE Commit
  BY <1>1, <1>3, <1>4, <1>14 DEF Commit, RoomToWrite
<1>15. CASE Succeed
  <2>1. written \in 0 .. written
    BY <1>1, ConsoleAssumption
  <2>2. entry' \in Entry(written) /\ fetch' \in Fetch(written)
    BY <1>1, <1>2, <1>15, Zenon DEF Succeed
  <2>3. /\ UNCHANGED <<pair, page, written>>
        /\ told' = written /\ request' = "none"
    BY <1>15 DEF Succeed
  <2>. QED
    BY <1>1, <1>4, <2>1, <2>2, <2>3
<1>16. CASE UNCHANGED consoleVars
  BY <1>1, <1>4, <1>16 DEF consoleVars
<1>. QED
  BY <1>5, <1>6, <1>7, <1>8, <1>9, <1>10, <1>11, <1>12, <1>13, <1>14, <1>15, <1>16
  DEF ConsoleNext

\* Every step keeps the invariant.
LEMMA ConsoleStep == ConsoleInv /\ [ConsoleNext]_consoleVars => ConsoleInv'
<1> SUFFICES ASSUME ConsoleInv, [ConsoleNext]_consoleVars
             PROVE  ConsoleInv'
  OBVIOUS
<1>1. ConsoleTypeOK /\ ConsoleTypeOK'
  BY ConsoleTypeStep DEF ConsoleInv
<1>0. RoomToWrite'
  BY <1>1 DEF ConsoleInv, RoomToWrite, ConsoleNext, consoleVars, Visit, Expire, Collect, Read,
              Answer, Fail, Retry, Send, Commit, SeenAsFailed, Succeed
<1>2. pair' = pair
  BY DEF ConsoleNext, consoleVars, Visit, Expire, Collect, Read, Answer, Fail, Retry, Send,
         Commit, SeenAsFailed, Succeed
<1> SUFFICES ASSUME ~LeftAlone(pair[1], pair[2])
             PROVE  (EntryTold /\ FetchTold /\ AtRest)'
  BY <1>0, <1>1, <1>2 DEF ConsoleInv
<1>3. Invalidated /\ EntryTold /\ FetchTold /\ AtRest
  BY <1>1, ThePair DEF ConsoleInv, ConsoleTypeOK
<1> USE <1>1, <1>2, <1>3 DEF EntryTold, FetchTold, AtRest, Shown, ConsoleTypeOK, Writes
<1>4. CASE \E p \in DOMAIN Pages : Visit(p)
  BY <1>4 DEF Visit, Asked, NoFetch
<1>5. CASE Expire \/ Collect
  BY <1>5 DEF Expire, Collect, NoEntry
<1>6. CASE Read
  <2>1. fetch'.value = written /\ fetch'.step = "read" /\ fetch' # NoFetch
    BY <1>6 DEF Read, NoFetch
  <2>. QED
    BY <1>6, <2>1 DEF Read
<1>7. CASE Answer
  BY <1>7 DEF Answer, NoFetch
<1>8. CASE Fail \/ Retry
  BY <1>8 DEF Fail, Retry, NoFetch, Asked
<1>9. CASE Send \/ SeenAsFailed \/ Commit
  BY <1>9 DEF Send, SeenAsFailed, Commit
<1>10. CASE Succeed
  BY <1>10 DEF Succeed, Asked, NoFetch
<1>11. CASE UNCHANGED consoleVars
  BY <1>11 DEF consoleVars
<1>. QED
  BY <1>4, <1>5, <1>6, <1>7, <1>8, <1>9, <1>10, <1>11 DEF ConsoleNext

\* Whatever pages are opened, however requests, answers and failures fall, and
\* however many writes are made: a page at rest shows what its user was told he
\* has written, but for the pairs of LeftAlone and for an answer that was under
\* way when he was told.
THEOREM PagesStand == ConsoleSpec => []PagesSound
<1>1. ConsoleInv => PagesSound
  BY DEF ConsoleInv, ConsoleTypeOK, Writes, EntryTold, AtRest, PagesSound, OwnWriteShown
<1>. QED
  BY <1>1, ConsoleBegin, ConsoleStep, PTL DEF ConsoleSpec

-----------------------------------------------------------------------------
(***************************************************************************)
(* What the tables of a page say, drawers D and buttons B of page s.        *)
(***************************************************************************)
\* A part that its drawer opens as it was left belongs to a drawer for new
\* records, and a drawer for the chosen parent owns none of its parts.
DrawersFit(s, D) ==
  \A k \in DOMAIN D :
    /\ k # "none"
    /\ D[k].on \in {"new", "row", "chosen"}
    /\ \A p \in DOMAIN D[k].fills :
         /\ D[k].fills[p] \in {"kept", "blank", "row", "loaded"}
         /\ <<s, k, p>> \notin Wanders =>
              D[k].on # "chosen" /\ (D[k].fills[p] = "kept" => D[k].on = "new")
\* A drawer for rows that shares a part with the draft of a drawer for new
\* records blanks it when it closes.
DraftsAreLeft(D) ==
  \A k, j \in DOMAIN D : D[k].on = "new" /\ D[j].on # "new" =>
    \A p \in DOMAIN D[k].fills \cap DOMAIN D[j].fills :
      D[k].fills[p] = "kept" => p \in D[j].leaves
\* A button sends parts of the drawer it is in.
ButtonsFit(D, B) ==
  \A b \in B : b.in \in DOMAIN D /\ b.sends \subseteq DOMAIN D[b.in].fills
\* The answer of a submit leaves what was saved only in parts whose drawer it
\* closes and whose open handler fills them anew.
SavesForget(s, D, B) ==
  \A b \in B, k \in DOMAIN D :
    \A p \in (b.sends \cap DOMAIN D[k].fills) \ b.clears :
      <<s, k, p>> \notin Repeats => k \in b.closes /\ D[k].fills[p] # "kept"
Coherent(s, D, B) ==
  /\ DrawersFit(s, D)
  /\ DraftsAreLeft(D)
  /\ ButtonsFit(D, B)
  /\ SavesForget(s, D, B)
CoherentPage(s, tables) == Coherent(s, tables.dialogs, tables.buttons)

(***************************************************************************)
(* The tables of the seventeen pages have these four properties.            *)
(***************************************************************************)
\* Each page below: its drawers and buttons, as its component declares them,
\* keep drafts, rows and saved text apart except where Wanders and Repeats say.
LEMMA AgendaPageCoherent == CoherentPage("agenda", AgendaPage)
<1>1. DrawersFit("agenda", AgendaPage.dialogs)
  BY DEF DrawersFit, Wanders, AgendaPage, EditorPage, NewEntry, Drawer, EditEntry, Button
<1>2. DraftsAreLeft(AgendaPage.dialogs)
  BY DEF DraftsAreLeft, AgendaPage, EditorPage, NewEntry, Drawer, EditEntry, Button
<1>3. ButtonsFit(AgendaPage.dialogs, AgendaPage.buttons)
  BY DEF ButtonsFit, AgendaPage, EditorPage, NewEntry, Drawer, EditEntry, Button
<1>4. SavesForget("agenda", AgendaPage.dialogs, AgendaPage.buttons)
  BY DEF SavesForget, Repeats, AgendaPage, EditorPage, NewEntry, Drawer, EditEntry, Button
<1>. QED
  BY <1>1, <1>2, <1>3, <1>4 DEF Coherent, CoherentPage

\* The drawers of Berita.
LEMMA BeritaPageCoherent == CoherentPage("berita", BeritaPage)
<1>1. DrawersFit("berita", BeritaPage.dialogs)
  BY DEF DrawersFit, Wanders, BeritaPage, EditorPage, NewEntry, Drawer, EditEntry, Button
<1>2. DraftsAreLeft(BeritaPage.dialogs)
  BY DEF DraftsAreLeft, BeritaPage, EditorPage, NewEntry, Drawer, EditEntry, Button
<1>3. ButtonsFit(BeritaPage.dialogs, BeritaPage.buttons)
  BY DEF ButtonsFit, BeritaPage, EditorPage, NewEntry, Drawer, EditEntry, Button
<1>4. SavesForget("berita", BeritaPage.dialogs, BeritaPage.buttons)
  BY DEF SavesForget, Repeats, BeritaPage, EditorPage, NewEntry, Drawer, EditEntry, Button
<1>. QED
  BY <1>1, <1>2, <1>3, <1>4 DEF Coherent, CoherentPage

\* The drawers of Pembangunan.
LEMMA PembangunanPageCoherent == CoherentPage("pembangunan", PembangunanPage)
<1>1. DrawersFit("pembangunan", PembangunanPage.dialogs)
  BY DEF DrawersFit, Wanders, PembangunanPage, EditorPage, NewEntry, Drawer, EditEntry, Button
<1>2. DraftsAreLeft(PembangunanPage.dialogs)
  BY DEF DraftsAreLeft, PembangunanPage, EditorPage, NewEntry, Drawer, EditEntry, Button
<1>3. ButtonsFit(PembangunanPage.dialogs, PembangunanPage.buttons)
  BY DEF ButtonsFit, PembangunanPage, EditorPage, NewEntry, Drawer, EditEntry, Button
<1>4. SavesForget("pembangunan", PembangunanPage.dialogs, PembangunanPage.buttons)
  BY DEF SavesForget, Repeats, PembangunanPage, EditorPage, NewEntry, Drawer, EditEntry, Button
<1>. QED
  BY <1>1, <1>2, <1>3, <1>4 DEF Coherent, CoherentPage

\* The drawers of Aset.
LEMMA AsetPageCoherent == CoherentPage("aset", AsetPage)
<1>1. DrawersFit("aset", AsetPage.dialogs)
  BY DEF DrawersFit, Wanders, AsetPage, SimplePage, SaveDraft, Button, Draft, Drawer
<1>2. DraftsAreLeft(AsetPage.dialogs)
  BY DEF DraftsAreLeft, AsetPage, SimplePage, SaveDraft, Button, Draft, Drawer
<1>3. ButtonsFit(AsetPage.dialogs, AsetPage.buttons)
  BY DEF ButtonsFit, AsetPage, SimplePage, SaveDraft, Button, Draft, Drawer
<1>4. SavesForget("aset", AsetPage.dialogs, AsetPage.buttons)
  BY DEF SavesForget, Repeats, AsetPage, SimplePage, SaveDraft, Button, Draft, Drawer
<1>. QED
  BY <1>1, <1>2, <1>3, <1>4 DEF Coherent, CoherentPage

\* The drawers of BantuanSosial.
LEMMA BantuanSosialPageCoherent == CoherentPage("bantuan", BantuanSosialPage)
<1>1. DrawersFit("bantuan", BantuanSosialPage.dialogs)
  BY DEF DrawersFit, Wanders, BantuanSosialPage, SimplePage, SaveDraft, Button, NewProgram, Draft, Drawer
<1>2. DraftsAreLeft(BantuanSosialPage.dialogs)
  BY DEF DraftsAreLeft, BantuanSosialPage, SimplePage, SaveDraft, Button, NewProgram, Draft, Drawer
<1>3. ButtonsFit(BantuanSosialPage.dialogs, BantuanSosialPage.buttons)
  BY DEF ButtonsFit, BantuanSosialPage, SimplePage, SaveDraft, Button, NewProgram, Draft, Drawer
<1>4. SavesForget("bantuan", BantuanSosialPage.dialogs, BantuanSosialPage.buttons)
  BY DEF SavesForget, Repeats, BantuanSosialPage, SimplePage, SaveDraft, Button, NewProgram, Draft, Drawer
<1>. QED
  BY <1>1, <1>2, <1>3, <1>4 DEF Coherent, CoherentPage

\* The drawers of Peristiwa.
LEMMA PeristiwaPageCoherent == CoherentPage("peristiwa", PeristiwaPage)
<1>1. DrawersFit("peristiwa", PeristiwaPage.dialogs)
  BY DEF DrawersFit, Wanders, PeristiwaPage, SimplePage, SaveDraft, Button, NewEvent, Draft, Drawer
<1>2. DraftsAreLeft(PeristiwaPage.dialogs)
  BY DEF DraftsAreLeft, PeristiwaPage, SimplePage, SaveDraft, Button, NewEvent, Draft, Drawer
<1>3. ButtonsFit(PeristiwaPage.dialogs, PeristiwaPage.buttons)
  BY DEF ButtonsFit, PeristiwaPage, SimplePage, SaveDraft, Button, NewEvent, Draft, Drawer
<1>4. SavesForget("peristiwa", PeristiwaPage.dialogs, PeristiwaPage.buttons)
  BY DEF SavesForget, Repeats, PeristiwaPage, SimplePage, SaveDraft, Button, NewEvent, Draft, Drawer
<1>. QED
  BY <1>1, <1>2, <1>3, <1>4 DEF Coherent, CoherentPage

\* The drawers of Galeri.
LEMMA GaleriPageCoherent == CoherentPage("galeri", GaleriPage)
<1>1. DrawersFit("galeri", GaleriPage.dialogs)
  BY DEF DrawersFit, Wanders, GaleriPage, Photo, Drawer, Button
<1>2. DraftsAreLeft(GaleriPage.dialogs)
  BY DEF DraftsAreLeft, GaleriPage, Photo, Drawer, Button
<1>3. ButtonsFit(GaleriPage.dialogs, GaleriPage.buttons)
  BY DEF ButtonsFit, GaleriPage, Photo, Drawer, Button
<1>4. SavesForget("galeri", GaleriPage.dialogs, GaleriPage.buttons)
  BY DEF SavesForget, Repeats, GaleriPage, Photo, Drawer, Button
<1>. QED
  BY <1>1, <1>2, <1>3, <1>4 DEF Coherent, CoherentPage

\* The drawers of Bumdes.
LEMMA BumdesPageCoherent == CoherentPage("bumdes", BumdesPage)
<1>1. DrawersFit("bumdes", BumdesPage.dialogs)
  BY DEF DrawersFit, Wanders, BumdesPage, NewUnitOfBumdes, Draft, Drawer, FinancialRecord, SaveDraft, Button, SaveNew
<1>2. DraftsAreLeft(BumdesPage.dialogs)
  BY DEF DraftsAreLeft, BumdesPage, NewUnitOfBumdes, Draft, Drawer, FinancialRecord, SaveDraft, Button, SaveNew
<1>3. ButtonsFit(BumdesPage.dialogs, BumdesPage.buttons)
  BY DEF ButtonsFit, BumdesPage, NewUnitOfBumdes, Draft, Drawer, FinancialRecord, SaveDraft, Button, SaveNew
<1>4. SavesForget("bumdes", BumdesPage.dialogs, BumdesPage.buttons)
  BY DEF SavesForget, Repeats, BumdesPage, NewUnitOfBumdes, Draft, Drawer, FinancialRecord, SaveDraft, Button, SaveNew
<1>. QED
  BY <1>1, <1>2, <1>3, <1>4 DEF Coherent, CoherentPage

\* The drawers of Penduduk.
LEMMA PendudukPageCoherent == CoherentPage("penduduk", PendudukPage)
<1>1. DrawersFit("penduduk", PendudukPage.dialogs)
  BY DEF DrawersFit, Wanders, PendudukPage, NewResident, Drawer, EditResident, MutateResident, ImportResidents, Button
<1>2. DraftsAreLeft(PendudukPage.dialogs)
  BY DEF DraftsAreLeft, PendudukPage, NewResident, Drawer, EditResident, MutateResident, ImportResidents, Button
<1>3. ButtonsFit(PendudukPage.dialogs, PendudukPage.buttons)
  BY DEF ButtonsFit, PendudukPage, NewResident, Drawer, EditResident, MutateResident, ImportResidents, Button
<1>4. SavesForget("penduduk", PendudukPage.dialogs, PendudukPage.buttons)
  BY DEF SavesForget, Repeats, PendudukPage, NewResident, Drawer, EditResident, MutateResident, ImportResidents, Button
<1>. QED
  BY <1>1, <1>2, <1>3, <1>4 DEF Coherent, CoherentPage

\* The drawers of Keluarga.
LEMMA KeluargaPageCoherent == CoherentPage("keluarga", KeluargaPage)
<1>1. DrawersFit("keluarga", KeluargaPage.dialogs)
  BY DEF DrawersFit, Wanders, KeluargaPage, NewFamily, Drawer, EditFamily, AddMember, Button, SaveRow, SaveNew
<1>2. DraftsAreLeft(KeluargaPage.dialogs)
  BY DEF DraftsAreLeft, KeluargaPage, NewFamily, Drawer, EditFamily, AddMember, Button, SaveRow, SaveNew
<1>3. ButtonsFit(KeluargaPage.dialogs, KeluargaPage.buttons)
  BY DEF ButtonsFit, KeluargaPage, NewFamily, Drawer, EditFamily, AddMember, Button, SaveRow, SaveNew
<1>4. SavesForget("keluarga", KeluargaPage.dialogs, KeluargaPage.buttons)
  BY DEF SavesForget, Repeats, KeluargaPage, NewFamily, Drawer, EditFamily, AddMember, Button, SaveRow, SaveNew
<1>. QED
  BY <1>1, <1>2, <1>3, <1>4 DEF Coherent, CoherentPage

\* The drawers of Users.
LEMMA UsersPageCoherent == CoherentPage("users", UsersPage)
<1>1. DrawersFit("users", UsersPage.dialogs)
  BY DEF DrawersFit, Wanders, UsersPage, NewUser, Draft, Drawer, EditUser, SaveDraft, Button, SaveRow
<1>2. DraftsAreLeft(UsersPage.dialogs)
  BY DEF DraftsAreLeft, UsersPage, NewUser, Draft, Drawer, EditUser, SaveDraft, Button, SaveRow
<1>3. ButtonsFit(UsersPage.dialogs, UsersPage.buttons)
  BY DEF ButtonsFit, UsersPage, NewUser, Draft, Drawer, EditUser, SaveDraft, Button, SaveRow
<1>4. SavesForget("users", UsersPage.dialogs, UsersPage.buttons)
  BY DEF SavesForget, Repeats, UsersPage, NewUser, Draft, Drawer, EditUser, SaveDraft, Button, SaveRow
<1>. QED
  BY <1>1, <1>2, <1>3, <1>4 DEF Coherent, CoherentPage

\* The drawers of Roles.
LEMMA RolesPageCoherent == CoherentPage("roles", RolesPage)
<1>1. DrawersFit("roles", RolesPage.dialogs)
  BY DEF DrawersFit, Wanders, RolesPage, NewRole, Draft, Drawer, EditRole, SaveDraft, Button, SaveRow
<1>2. DraftsAreLeft(RolesPage.dialogs)
  BY DEF DraftsAreLeft, RolesPage, NewRole, Draft, Drawer, EditRole, SaveDraft, Button, SaveRow
<1>3. ButtonsFit(RolesPage.dialogs, RolesPage.buttons)
  BY DEF ButtonsFit, RolesPage, NewRole, Draft, Drawer, EditRole, SaveDraft, Button, SaveRow
<1>4. SavesForget("roles", RolesPage.dialogs, RolesPage.buttons)
  BY DEF SavesForget, Repeats, RolesPage, NewRole, Draft, Drawer, EditRole, SaveDraft, Button, SaveRow
<1>. QED
  BY <1>1, <1>2, <1>3, <1>4 DEF Coherent, CoherentPage

\* The drawers of Surat.
LEMMA SuratPageCoherent == CoherentPage("surat", SuratPage)
<1>1. DrawersFit("surat", SuratPage.dialogs)
  BY DEF DrawersFit, Wanders, SuratPage, NewRequest, Draft, Drawer, RequestDetail, SaveDraft, Button
<1>2. DraftsAreLeft(SuratPage.dialogs)
  BY DEF DraftsAreLeft, SuratPage, NewRequest, Draft, Drawer, RequestDetail, SaveDraft, Button
<1>3. ButtonsFit(SuratPage.dialogs, SuratPage.buttons)
  BY DEF ButtonsFit, SuratPage, NewRequest, Draft, Drawer, RequestDetail, SaveDraft, Button
<1>4. SavesForget("surat", SuratPage.dialogs, SuratPage.buttons)
  BY DEF SavesForget, Repeats, SuratPage, NewRequest, Draft, Drawer, RequestDetail, SaveDraft, Button
<1>. QED
  BY <1>1, <1>2, <1>3, <1>4 DEF Coherent, CoherentPage

\* The drawers of Pengaduan.
LEMMA PengaduanPageCoherent == CoherentPage("pengaduan", PengaduanPage)
<1>1. DrawersFit("pengaduan", PengaduanPage.dialogs)
  BY DEF DrawersFit, Wanders, PengaduanPage, NewComplaint, Draft, Drawer, ComplaintDetail, SaveDraft, Button
<1>2. DraftsAreLeft(PengaduanPage.dialogs)
  BY DEF DraftsAreLeft, PengaduanPage, NewComplaint, Draft, Drawer, ComplaintDetail, SaveDraft, Button
<1>3. ButtonsFit(PengaduanPage.dialogs, PengaduanPage.buttons)
  BY DEF ButtonsFit, PengaduanPage, NewComplaint, Draft, Drawer, ComplaintDetail, SaveDraft, Button
<1>4. SavesForget("pengaduan", PengaduanPage.dialogs, PengaduanPage.buttons)
  BY DEF SavesForget, Repeats, PengaduanPage, NewComplaint, Draft, Drawer, ComplaintDetail, SaveDraft, Button
<1>. QED
  BY <1>1, <1>2, <1>3, <1>4 DEF Coherent, CoherentPage

\* The drawers of Keuangan.
LEMMA KeuanganPageCoherent == CoherentPage("keuangan", KeuanganPage)
<1>1. DrawersFit("keuangan", KeuanganPage.dialogs)
  BY DEF DrawersFit, Wanders, KeuanganPage, NewBudgetYear, Draft, Drawer, NewBudgetItem, NewRealization, SaveParent, SaveDraft, Button, SaveNew, SaveRow
<1>2. DraftsAreLeft(KeuanganPage.dialogs)
  BY DEF DraftsAreLeft, KeuanganPage, NewBudgetYear, Draft, Drawer, NewBudgetItem, NewRealization, SaveParent, SaveDraft, Button, SaveNew, SaveRow
<1>3. ButtonsFit(KeuanganPage.dialogs, KeuanganPage.buttons)
  BY DEF ButtonsFit, KeuanganPage, NewBudgetYear, Draft, Drawer, NewBudgetItem, NewRealization, SaveParent, SaveDraft, Button, SaveNew, SaveRow
<1>4. SavesForget("keuangan", KeuanganPage.dialogs, KeuanganPage.buttons)
  BY DEF SavesForget, Repeats, KeuanganPage, NewBudgetYear, Draft, Drawer, NewBudgetItem, NewRealization, SaveParent, SaveDraft, Button, SaveNew, SaveRow
<1>. QED
  BY <1>1, <1>2, <1>3, <1>4 DEF Coherent, CoherentPage

\* The drawers of Wilayah.
LEMMA WilayahPageCoherent == CoherentPage("wilayah", WilayahPage)
<1>1. DrawersFit("wilayah", WilayahPage.dialogs)
  BY DEF DrawersFit, Wanders, WilayahPage, NewHamlet, Draft, Drawer, NewUnit, SaveParent, SaveDraft, Button, SaveNew
<1>2. DraftsAreLeft(WilayahPage.dialogs)
  BY DEF DraftsAreLeft, WilayahPage, NewHamlet, Draft, Drawer, NewUnit, SaveParent, SaveDraft, Button, SaveNew
<1>3. ButtonsFit(WilayahPage.dialogs, WilayahPage.buttons)
  BY DEF ButtonsFit, WilayahPage, NewHamlet, Draft, Drawer, NewUnit, SaveParent, SaveDraft, Button, SaveNew
<1>4. SavesForget("wilayah", WilayahPage.dialogs, WilayahPage.buttons)
  BY DEF SavesForget, Repeats, WilayahPage, NewHamlet, Draft, Drawer, NewUnit, SaveParent, SaveDraft, Button, SaveNew
<1>. QED
  BY <1>1, <1>2, <1>3, <1>4 DEF Coherent, CoherentPage

\* The drawers of Kabupaten.
LEMMA KabupatenPageCoherent == CoherentPage("kabupaten", KabupatenPage)
<1>1. DrawersFit("kabupaten", KabupatenPage.dialogs)
  BY DEF DrawersFit, Wanders, KabupatenPage, NewVillage, Drawer, Button
<1>2. DraftsAreLeft(KabupatenPage.dialogs)
  BY DEF DraftsAreLeft, KabupatenPage, NewVillage, Drawer, Button
<1>3. ButtonsFit(KabupatenPage.dialogs, KabupatenPage.buttons)
  BY DEF ButtonsFit, KabupatenPage, NewVillage, Drawer, Button
<1>4. SavesForget("kabupaten", KabupatenPage.dialogs, KabupatenPage.buttons)
  BY DEF SavesForget, Repeats, KabupatenPage, NewVillage, Drawer, Button
<1>. QED
  BY <1>1, <1>2, <1>3, <1>4 DEF Coherent, CoherentPage
\* The same of every page that can be on the screen.
LEMMA ScreensCoherent == \A s \in DOMAIN Screens : CoherentPage(s, Screens[s])
<1> SUFFICES ASSUME NEW s \in DOMAIN Screens PROVE CoherentPage(s, Screens[s])
  OBVIOUS
<1>1. \/ s \in {"agenda", "berita", "pembangunan", "aset", "bantuan", "peristiwa"}
      \/ s \in {"galeri", "bumdes", "penduduk", "keluarga", "users", "roles"}
      \/ s \in {"surat", "pengaduan", "keuangan", "wilayah", "kabupaten"}
  BY DEF Screens
<1>2. CASE s \in {"agenda", "berita", "pembangunan", "aset", "bantuan", "peristiwa"}
  BY <1>2, AgendaPageCoherent, BeritaPageCoherent, PembangunanPageCoherent,
     AsetPageCoherent, BantuanSosialPageCoherent, PeristiwaPageCoherent DEF Screens
<1>3. CASE s \in {"galeri", "bumdes", "penduduk", "keluarga", "users", "roles"}
  BY <1>3, GaleriPageCoherent, BumdesPageCoherent, PendudukPageCoherent,
     KeluargaPageCoherent, UsersPageCoherent, RolesPageCoherent DEF Screens
<1>4. CASE s \in {"surat", "pengaduan", "keuangan", "wilayah", "kabupaten"}
  BY <1>4, SuratPageCoherent, PengaduanPageCoherent, KeuanganPageCoherent,
     WilayahPageCoherent, KabupatenPageCoherent DEF Screens
<1>. QED
  BY <1>1, <1>2, <1>3, <1>4
(***************************************************************************)
(* The inductive invariant.  What a submit carries depends on what its      *)
(* parts hold, and that on every drawer that can have touched them: so each *)
(* part is followed while its drawer is in front and while it is not.       *)
(***************************************************************************)
InFront == DialogsOf[screen][dialog.kind]
FrontRecord ==
  dialog # NoDialog => IF InFront.on = "new" THEN dialog.on = Fresh ELSE dialog.on \in Listed
\* Part p is in use by a drawer for rows.
ForRows(p) == dialog # NoDialog /\ InFront.on # "new" /\ p \in DOMAIN InFront.fills
\* The drafts kept for new records hold nothing of a row, unless a drawer for
\* rows has them open.
DraftsFresh ==
  \A k \in KindsOf[screen] : \A p \in DOMAIN DialogsOf[screen][k].fills :
    DialogsOf[screen][k].on = "new" /\ DialogsOf[screen][k].fills[p] = "kept" /\ ~ForRows(p)
      => \A m \in ink[p] : m.of = Fresh
\* The drawer in front shows only what belongs to its record.
FrontOwn ==
  dialog # NoDialog => \A p \in DOMAIN InFront.fills :
    <<screen, dialog.kind, p>> \notin Wanders => \A m \in ink[p] : m.of = dialog.on
WasSaved(m) == m.from = "typed" /\ m.saved
\* It shows nothing that was typed and saved, nor does a part that the next
\* drawer will open as it was left.
FrontUnsaved ==
  dialog # NoDialog => \A p \in DOMAIN InFront.fills :
    <<screen, dialog.kind, p>> \notin Repeats => \A m \in ink[p] : ~WasSaved(m)
KeptUnsaved ==
  \A k \in KindsOf[screen] : \A p \in DOMAIN DialogsOf[screen][k].fills :
    DialogsOf[screen][k].fills[p] = "kept" /\ <<screen, k, p>> \notin Repeats
      => \A m \in ink[p] : ~WasSaved(m)
\* A submit carries the parts of its button.
SentWhole == \A k \in Waiting : DOMAIN pending[k].sent = pending[k].button.sends
InkInv == FrontRecord /\ DraftsFresh /\ FrontOwn /\ FrontUnsaved /\ KeptUnsaved
SentInv == SentWhole /\ SentOwn /\ SentOnce
FormsInv == DialogsTypeOK /\ InkInv /\ SentInv

\* The tables of the page on the screen.
LEMMA ThePage ==
  ASSUME screen \in DOMAIN Screens
  PROVE  /\ KindsOf[screen] = DOMAIN DialogsOf[screen]
         /\ PartsOf[screen] = UNION {DOMAIN DialogsOf[screen][k].fills : k \in KindsOf[screen]}
         /\ Coherent(screen, DialogsOf[screen], ButtonsOf[screen])
<1>1. /\ DialogsOf[screen] = Screens[screen].dialogs
      /\ ButtonsOf[screen] = Screens[screen].buttons
  BY DEF DialogsOf, ButtonsOf
<1>2. CoherentPage(screen, Screens[screen])
  BY ScreensCoherent
<1>3. Coherent(screen, DialogsOf[screen], ButtonsOf[screen])
  BY <1>1, <1>2 DEF CoherentPage
<1>. QED
  BY <1>1, <1>3 DEF KindsOf, PartsOf

\* What is marked saved keeps its record, and was sent or saved before.
LEMMA AsSavedKeeps ==
  ASSUME NEW a \in SUBSET Marks, NEW b, NEW m \in AsSaved(a, b)
  PROVE  /\ m \in Marks
         /\ \E n \in a : /\ n.of = m.of
                         /\ WasSaved(m) => n \in b \/ WasSaved(n)
<1>1. CASE m \in a
  BY <1>1 DEF WasSaved
<1>2. CASE m \notin a
  <2>1. PICK n \in a \cap b : n.from = "typed" /\ m = [n EXCEPT !.saved = TRUE]
    BY <1>2 DEF AsSaved
  <2>. QED
    BY <2>1 DEF Marks
<1>. QED
  BY <1>1, <1>2

\* A step that leaves the submits alone leaves what they carry.
LEMMA SentStays ==
  ASSUME SentInv, UNCHANGED <<screen, pending>>
  PROVE  SentInv'
BY DEF SentInv, SentWhole, SentOwn, SentOnce, Waiting

\* A page starts with empty forms and no submit.
LEMMA FormsBegin == DialogsInit => FormsInv
<1> SUFFICES ASSUME DialogsInit
             PROVE  FormsInv
  OBVIOUS
<1>1. DialogsTypeOK
  <2>1. chosen \in Listed
    BY ListedAssumption, Zenon DEF DialogsInit
  <2>. QED
    BY <2>1 DEF DialogsInit, DialogsTypeOK
<1>2. InkInv
  <2>1. KindsOf[screen] = DOMAIN DialogsOf[screen]
    BY ThePage DEF DialogsInit
  <2>2. \A p \in PartsOf[screen] : ink[p] = {}
    BY DEF DialogsInit
  <2>3. \A k \in KindsOf[screen] : DOMAIN DialogsOf[screen][k].fills \subseteq PartsOf[screen]
    BY ThePage DEF DialogsInit
  <2>. QED
    BY <2>1, <2>2, <2>3
    DEF DialogsInit, InkInv, FrontRecord, DraftsFresh, FrontOwn, FrontUnsaved, KeptUnsaved
<1>3. Waiting = {}
  BY DEF DialogsInit, Waiting
<1>4. SentInv
  BY <1>3 DEF SentInv, SentWhole, SentOwn, SentOnce
<1>. QED
  BY <1>1, <1>2, <1>4 DEF FormsInv

\* Opening a drawer: every part it does not fill anew was a draft of its own.
LEMMA OpenKeeps ==
  ASSUME FormsInv, NEW k \in KindsOf[screen], OpenDialog(k)
  PROVE  FormsInv'
<1> DEFINE d == DialogsOf[screen][k]
<1>1. /\ screen \in DOMAIN Screens
      /\ KindsOf[screen] = DOMAIN DialogsOf[screen]
      /\ DrawersFit(screen, DialogsOf[screen])
      /\ PartsOf[screen] = UNION {DOMAIN DialogsOf[screen][j].fills : j \in KindsOf[screen]}
  BY ThePage DEF FormsInv, DialogsTypeOK, Coherent
<1>2. PICK r \in RecordsOf(d) : dialog' = [kind |-> k, on |-> r] /\ ink' = Filled(d, r)
  BY DEF OpenDialog
<1>3. dialog = NoDialog /\ UNCHANGED <<screen, pending, chosen>>
  BY DEF OpenDialog
<1>4. IF d.on = "new" THEN r = Fresh ELSE r \in Listed
  <2>1. d.on \in {"new", "row", "chosen"}
    BY <1>1 DEF DrawersFit
  <2>. QED
    BY <1>2, <2>1 DEF RecordsOf, FormsInv, DialogsTypeOK
<1>5. dialog' # NoDialog /\ InFront' = d
  BY <1>1, <1>2, <1>3 DEF InFront, NoDialog, DrawersFit
<1>6. DOMAIN d.fills \subseteq PartsOf[screen] /\ ink \in [PartsOf[screen] -> SUBSET Marks]
  BY <1>1 DEF FormsInv, DialogsTypeOK
<1>7. \A p \in PartsOf[screen] :
        \/ ink'[p] = ink[p] /\ (p \in DOMAIN d.fills => d.fills[p] = "kept")
        \/ p \in DOMAIN d.fills /\ d.fills[p] # "kept" /\ ink'[p] \in {{}, {Copied(r)}}
  BY <1>2, <1>6 DEF Filled
<1>8. /\ Copied(r) \in Marks
      /\ Copied(r).of = r
      /\ ~WasSaved(Copied(r))
  BY <1>4 DEF Copied, Marks, WasSaved
<1>9. DialogsTypeOK'
  <2>1. DOMAIN ink' = PartsOf[screen]
    BY <1>2, <1>6 DEF Filled
  <2>2. ink' = [p \in PartsOf[screen] |-> ink'[p]]
    BY <1>2, <1>6 DEF Filled
  <2>3. \A p \in PartsOf[screen] : ink'[p] \in SUBSET Marks
    BY <1>6, <1>7, <1>8
  <2>4. ink' \in [PartsOf[screen] -> SUBSET Marks]
    BY <2>2, <2>3
  <2>5. dialog'.kind \in KindsOf[screen] /\ dialog'.on \in Listed \cup {Fresh}
    BY <1>2, <1>4
  <2>. QED
    BY <1>3, <2>4, <2>5 DEF FormsInv, DialogsTypeOK
<1>10. DOMAIN DialogsOf[screen][k].fills \subseteq PartsOf[screen]
  BY <1>6
<1>11. FrontRecord'
  BY <1>2, <1>4, <1>5 DEF FrontRecord
<1>12. DraftsFresh'
  <2> SUFFICES ASSUME NEW j \in KindsOf[screen], NEW p \in DOMAIN DialogsOf[screen][j].fills,
                      DialogsOf[screen][j].on = "new", DialogsOf[screen][j].fills[p] = "kept",
                      ~ForRows(p)',
                      NEW m \in ink'[p]
               PROVE  m.of = Fresh
    BY <1>3 DEF DraftsFresh
  <2>1. p \in PartsOf[screen]
    BY <1>1
  <2>2. \A n \in ink[p] : n.of = Fresh
    BY <1>3 DEF FormsInv, InkInv, DraftsFresh, ForRows
  <2>3. p \in DOMAIN d.fills => r = Fresh
    BY <1>4, <1>5 DEF ForRows
  <2>. QED
    BY <1>7, <1>8, <2>1, <2>2, <2>3
<1>13. FrontOwn'
  <2> SUFFICES ASSUME NEW p \in DOMAIN d.fills, <<screen, k, p>> \notin Wanders, NEW m \in ink'[p]
               PROVE  m.of = r
    BY <1>2, <1>3, <1>5 DEF FrontOwn
  <2>1. d.fills[p] = "kept" => d.on = "new"
    BY <1>1 DEF DrawersFit
  <2>2. d.fills[p] = "kept" => \A n \in ink[p] : n.of = Fresh
    BY <1>3, <2>1 DEF FormsInv, InkInv, DraftsFresh, ForRows
  <2>. QED
    BY <1>4, <1>6, <1>7, <1>8, <2>1, <2>2
<1>14. FrontUnsaved'
  <2> SUFFICES ASSUME NEW p \in DOMAIN d.fills, <<screen, k, p>> \notin Repeats, NEW m \in ink'[p]
               PROVE  ~WasSaved(m)
    BY <1>2, <1>3, <1>5 DEF FrontUnsaved
  <2>1. d.fills[p] = "kept" => \A n \in ink[p] : ~WasSaved(n)
    BY DEF FormsInv, InkInv, KeptUnsaved
  <2>. QED
    BY <1>6, <1>7, <1>8, <2>1
<1>15. KeptUnsaved'
  <2> SUFFICES ASSUME NEW j \in KindsOf[screen], NEW p \in DOMAIN DialogsOf[screen][j].fills,
                      DialogsOf[screen][j].fills[p] = "kept", <<screen, j, p>> \notin Repeats,
                      NEW m \in ink'[p]
               PROVE  ~WasSaved(m)
    BY <1>3 DEF KeptUnsaved
  <2>1. \A n \in ink[p] : ~WasSaved(n)
    BY DEF FormsInv, InkInv, KeptUnsaved
  <2>2. p \in PartsOf[screen]
    BY <1>1
  <2>. QED
    BY <1>7, <1>8, <2>1, <2>2
<1>16. SentInv'
  BY <1>3, SentStays DEF FormsInv
<1>. QED
  BY <1>9, <1>11, <1>12, <1>13, <1>14, <1>15, <1>16 DEF FormsInv, InkInv

\* A mark for the record of the drawer in front is added, or replaces the part.
LEMMA WriteKeeps ==
  ASSUME FormsInv, dialog # NoDialog, UNCHANGED <<screen, dialog, pending, chosen>>,
         NEW p \in DOMAIN InFront.fills, NEW m \in Marks, NEW old \in SUBSET ink[p],
         m.of = dialog.on, ~WasSaved(m),
         ink' = [ink EXCEPT ![p] = old \cup {m}]
  PROVE  FormsInv'
<1>1. /\ dialog.kind \in KindsOf[screen]
      /\ InFront = DialogsOf[screen][dialog.kind] /\ InFront' = InFront
  BY DEF FormsInv, DialogsTypeOK, InFront
<1>2. p \in PartsOf[screen]
  BY <1>1, ThePage DEF FormsInv, DialogsTypeOK
<1>3. /\ ink'[p] = old \cup {m}
      /\ \A q \in PartsOf[screen] \ {p} : ink'[q] = ink[q]
      /\ ink' \in [PartsOf[screen] -> SUBSET Marks]
  BY <1>2 DEF FormsInv, DialogsTypeOK
<1>4. \A k \in KindsOf[screen] : DOMAIN DialogsOf[screen][k].fills \subseteq PartsOf[screen]
  BY ThePage DEF FormsInv, DialogsTypeOK
<1>5. DialogsTypeOK'
  BY <1>3 DEF FormsInv, DialogsTypeOK
<1>6. FrontRecord'
  BY <1>1 DEF FormsInv, InkInv, FrontRecord
<1>7. DraftsFresh'
  <2> SUFFICES ASSUME NEW k \in KindsOf[screen], NEW q \in DOMAIN DialogsOf[screen][k].fills,
                      DialogsOf[screen][k].on = "new", DialogsOf[screen][k].fills[q] = "kept",
                      ~ForRows(q)', NEW n \in ink'[q]
               PROVE  n.of = Fresh
    BY DEF DraftsFresh
  <2>1. ~ForRows(q)
    BY <1>1 DEF ForRows
  <2>2. \A o \in ink[q] : o.of = Fresh
    BY <2>1 DEF FormsInv, InkInv, DraftsFresh
  <2>3. q = p => InFront.on = "new"
    BY <2>1 DEF ForRows
  <2>4. InFront.on = "new" => m.of = Fresh
    BY DEF FormsInv, InkInv, FrontRecord
  <2>. QED
    BY <1>3, <1>4, <2>2, <2>3, <2>4
<1>8. FrontOwn'
  <2> SUFFICES ASSUME NEW q \in DOMAIN InFront.fills, <<screen, dialog.kind, q>> \notin Wanders,
                      NEW n \in ink'[q]
               PROVE  n.of = dialog.on
    BY <1>1 DEF FrontOwn
  <2>1. \A o \in ink[q] : o.of = dialog.on
    BY DEF FormsInv, InkInv, FrontOwn
  <2>. QED
    BY <1>1, <1>3, <1>4, <2>1
<1>9. FrontUnsaved'
  <2> SUFFICES ASSUME NEW q \in DOMAIN InFront.fills, <<screen, dialog.kind, q>> \notin Repeats,
                      NEW n \in ink'[q]
               PROVE  ~WasSaved(n)
    BY <1>1 DEF FrontUnsaved
  <2>1. \A o \in ink[q] : ~WasSaved(o)
    BY DEF FormsInv, InkInv, FrontUnsaved
  <2>. QED
    BY <1>1, <1>3, <1>4, <2>1
<1>10. KeptUnsaved'
  <2> SUFFICES ASSUME NEW k \in KindsOf[screen], NEW q \in DOMAIN DialogsOf[screen][k].fills,
                      DialogsOf[screen][k].fills[q] = "kept", <<screen, k, q>> \notin Repeats,
                      NEW n \in ink'[q]
               PROVE  ~WasSaved(n)
    BY DEF KeptUnsaved
  <2>1. \A o \in ink[q] : ~WasSaved(o)
    BY DEF FormsInv, InkInv, KeptUnsaved
  <2>. QED
    BY <1>3, <1>4, <2>1
<1>. QED
  BY <1>5, <1>6, <1>7, <1>8, <1>9, <1>10, SentStays DEF FormsInv, InkInv

\* The effect of an open drawer copies its row again.
LEMMA RereadKeeps == FormsInv /\ Reread => FormsInv'
<1> SUFFICES ASSUME FormsInv, Reread
             PROVE  FormsInv'
  OBVIOUS
<1>1. PICK p \in DOMAIN InFront.fills : ink' = [ink EXCEPT ![p] = {Copied(dialog.on)}]
  BY DEF Reread, InFront
<1>2. dialog # NoDialog /\ UNCHANGED <<screen, dialog, pending, chosen>>
  BY DEF Reread
<1>3. /\ Copied(dialog.on) \in Marks /\ ~WasSaved(Copied(dialog.on))
      /\ Copied(dialog.on).of = dialog.on
  BY <1>2 DEF Copied, WasSaved, Marks, FormsInv, DialogsTypeOK
<1>4. ink' = [ink EXCEPT ![p] = {} \cup {Copied(dialog.on)}]
  BY <1>1
<1>5. {} \in SUBSET ink[p]
  OBVIOUS
<1>. QED
  BY <1>2, <1>3, <1>4, <1>5, WriteKeeps

\* Typing into a part of the drawer in front.
LEMMA TypeKeeps ==
  ASSUME FormsInv, NEW p \in PartsOf[screen], TypeIn(p)
  PROVE  FormsInv'
<1>1. dialog # NoDialog /\ p \in DOMAIN InFront.fills /\ UNCHANGED <<screen, dialog, pending, chosen>>
  BY DEF TypeIn, InFront
<1>2. /\ Typed(dialog.on) \in Marks /\ ~WasSaved(Typed(dialog.on))
      /\ Typed(dialog.on).of = dialog.on
  BY <1>1 DEF Typed, WasSaved, Marks, FormsInv, DialogsTypeOK
<1>3. ink' = [ink EXCEPT ![p] = ink[p] \cup {Typed(dialog.on)}]
  BY DEF TypeIn
<1>. QED
  BY <1>1, <1>2, <1>3, WriteKeeps

\* A draft that a drawer for rows has open is blanked when that closes.
LEMMA OnCloseForgets ==
  ASSUME FormsInv, NEW k \in KindsOf[screen], NEW p \in DOMAIN DialogsOf[screen][k].fills,
         DialogsOf[screen][k].on = "new", DialogsOf[screen][k].fills[p] = "kept", ForRows(p)
  PROVE  p \in OnClose
BY ThePage DEF FormsInv, DialogsTypeOK, Coherent, DraftsAreLeft, ForRows, InFront, OnClose

\* Closing, by hand or by the answer of a submit: parts are blanked or keep
\* marks of the same records, and new saved marks stay only where they may.
LEMMA AnswerKeeps ==
  ASSUME FormsInv, UNCHANGED screen,
         dialog' \in {dialog, NoDialog}, chosen' \in Listed,
         ink' \in [PartsOf[screen] -> SUBSET Marks],
         dialog' = NoDialog => \A p \in PartsOf[screen] \cap OnClose : ink'[p] = {},
         \A p \in PartsOf[screen] : \A m \in ink'[p] : \E n \in ink[p] :
           /\ n.of = m.of
           /\ WasSaved(m) => \/ WasSaved(n)
                             \/ \E b \in ButtonsOf[screen] :
                                  /\ p \in b.sends \ b.clears
                                  /\ dialog' # NoDialog => dialog'.kind \notin b.closes
  PROVE  InkInv'
<1>1. /\ KindsOf[screen] = DOMAIN DialogsOf[screen]
      /\ SavesForget(screen, DialogsOf[screen], ButtonsOf[screen])
      /\ \A k \in KindsOf[screen] : DOMAIN DialogsOf[screen][k].fills \subseteq PartsOf[screen]
  BY ThePage DEF FormsInv, DialogsTypeOK, Coherent
<1>2. dialog' # NoDialog => dialog' = dialog /\ dialog # NoDialog /\ InFront' = InFront
  BY DEF InFront
<1>3. dialog # NoDialog => dialog.kind \in KindsOf[screen] /\ InFront = DialogsOf[screen][dialog.kind]
  BY DEF InFront, FormsInv, DialogsTypeOK
<1>4. FrontRecord'
  BY <1>2 DEF FormsInv, InkInv, FrontRecord
<1>5. DraftsFresh'
  <2> SUFFICES ASSUME NEW k \in KindsOf[screen], NEW p \in DOMAIN DialogsOf[screen][k].fills,
                      DialogsOf[screen][k].on = "new", DialogsOf[screen][k].fills[p] = "kept",
                      ~ForRows(p)', NEW m \in ink'[p]
               PROVE  m.of = Fresh
    BY DEF DraftsFresh
  <2>1. p \in PartsOf[screen]
    BY <1>1
  <2>2. ~ForRows(p)
    <3> SUFFICES ASSUME ForRows(p)
                 PROVE  FALSE
      OBVIOUS
    <3>1. p \in OnClose
      BY OnCloseForgets
    <3>2. dialog' = NoDialog
      BY <1>2 DEF ForRows, InFront
    <3>. QED
      BY <2>1, <3>1, <3>2
  <2>3. \A n \in ink[p] : n.of = Fresh
    BY <2>2 DEF FormsInv, InkInv, DraftsFresh
  <2>. QED
    BY <2>1, <2>3
<1>6. FrontOwn'
  BY <1>1, <1>2, <1>3 DEF FormsInv, InkInv, FrontOwn
<1>7. FrontUnsaved'
  <2> SUFFICES ASSUME dialog' # NoDialog, NEW p \in DOMAIN InFront.fills,
                      <<screen, dialog.kind, p>> \notin Repeats, NEW m \in ink'[p], WasSaved(m)
               PROVE  FALSE
    BY <1>2 DEF FrontUnsaved
  <2>1. p \in PartsOf[screen]
    BY <1>1, <1>2, <1>3
  <2>2. \A n \in ink[p] : ~WasSaved(n)
    BY <1>2 DEF FormsInv, InkInv, FrontUnsaved
  <2>3. PICK b \in ButtonsOf[screen] : p \in b.sends \ b.clears /\ dialog'.kind \notin b.closes
    BY <2>1, <2>2
  <2>. QED
    BY <1>1, <1>2, <1>3, <2>3 DEF SavesForget
<1>8. KeptUnsaved'
  <2> SUFFICES ASSUME NEW k \in KindsOf[screen], NEW p \in DOMAIN DialogsOf[screen][k].fills,
                      DialogsOf[screen][k].fills[p] = "kept", <<screen, k, p>> \notin Repeats,
                      NEW m \in ink'[p], WasSaved(m)
               PROVE  FALSE
    BY DEF KeptUnsaved
  <2>1. p \in PartsOf[screen]
    BY <1>1
  <2>2. \A n \in ink[p] : ~WasSaved(n)
    BY DEF FormsInv, InkInv, KeptUnsaved
  <2>3. PICK b \in ButtonsOf[screen] : p \in b.sends \ b.clears
    BY <2>1, <2>2
  <2>. QED
    BY <1>1, <2>3 DEF SavesForget
<1>. QED
  BY <1>4, <1>5, <1>6, <1>7, <1>8 DEF InkInv

\* What Blanked leaves.
LEMMA BlankedIs ==
  ASSUME NEW S, NEW f \in [S -> SUBSET Marks], NEW parts
  PROVE  /\ Blanked(f, parts) \in [S -> SUBSET Marks]
         /\ \A p \in S : Blanked(f, parts)[p] = IF p \in parts THEN {} ELSE f[p]
BY DEF Blanked

\* Cancel and the cross.
LEMMA CloseKeeps == FormsInv /\ CloseDialog => FormsInv'
<1> SUFFICES ASSUME FormsInv, CloseDialog
             PROVE  FormsInv'
  OBVIOUS
<1>1. ink' \in [PartsOf[screen] -> SUBSET Marks]
  BY BlankedIs DEF CloseDialog, FormsInv, DialogsTypeOK
<1>2. \A p \in PartsOf[screen] : ink'[p] = IF p \in OnClose THEN {} ELSE ink[p]
  BY BlankedIs DEF CloseDialog, FormsInv, DialogsTypeOK
<1>3. dialog' = NoDialog /\ UNCHANGED <<screen, pending, chosen>>
  BY DEF CloseDialog
<1>4. DialogsTypeOK'
  BY <1>1, <1>3 DEF FormsInv, DialogsTypeOK
<1>5. InkInv'
  <2>1. chosen' \in Listed
    BY <1>3 DEF FormsInv, DialogsTypeOK
  <2>2. \A p \in PartsOf[screen] : \A m \in ink'[p] : m \in ink[p]
    BY <1>2
  <2>. QED
    BY <1>1, <1>2, <1>3, <2>1, <2>2, AnswerKeeps
<1>. QED
  BY <1>3, <1>4, <1>5, SentStays DEF FormsInv

\* Another parent is chosen; no form changes.
LEMMA ChooseKeeps == FormsInv /\ Choose => FormsInv'
<1> SUFFICES ASSUME FormsInv, Choose
             PROVE  FormsInv'
  OBVIOUS
<1>1. chosen' \in Listed /\ UNCHANGED <<screen, dialog, ink, pending>>
  BY DEF Choose
<1>2. DialogsTypeOK'
  BY <1>1 DEF FormsInv, DialogsTypeOK
<1>3. InkInv'
  BY <1>1 DEF FormsInv, InkInv, FrontRecord, DraftsFresh, ForRows, FrontOwn, FrontUnsaved,
              KeptUnsaved, InFront
<1>. QED
  BY <1>1, <1>2, <1>3, SentStays DEF FormsInv

\* A submit takes the parts of the drawer in front as they are.
LEMMA SubmitKeeps ==
  ASSUME FormsInv, NEW b \in ButtonsOf[screen], SubmitForm(b)
  PROVE  FormsInv'
<1> DEFINE sent == [p \in b.sends |-> ink[p]]
           order == [button |-> b, on |-> TargetNow, sent |-> sent]
<1>1. /\ UNCHANGED <<screen, dialog, ink, chosen>>
      /\ pending' = [pending EXCEPT ![b.in] = order]
      /\ dialog.kind = b.in
  BY DEF SubmitForm
<1>2. /\ screen \in DOMAIN Screens
      /\ KindsOf[screen] = DOMAIN DialogsOf[screen]
      /\ DrawersFit(screen, DialogsOf[screen])
      /\ ButtonsFit(DialogsOf[screen], ButtonsOf[screen])
  BY ThePage DEF FormsInv, DialogsTypeOK, Coherent
<1>3. b.in \in KindsOf[screen] /\ b.sends \subseteq DOMAIN DialogsOf[screen][b.in].fills
  BY <1>2 DEF ButtonsFit
<1>4. dialog # NoDialog /\ InFront = DialogsOf[screen][b.in]
  BY <1>1, <1>2, <1>3 DEF NoDialog, DrawersFit, InFront
<1>5. /\ pending'[b.in] = order
      /\ \A k \in KindsOf[screen] \ {b.in} : pending'[k] = pending[k]
      /\ DOMAIN pending' = KindsOf[screen]
  BY <1>1, <1>3 DEF FormsInv, DialogsTypeOK
<1>6. /\ order.button = b /\ order.on = TargetNow /\ order.sent = sent
      /\ DOMAIN sent = b.sends /\ \A p \in b.sends : sent[p] = ink[p]
  OBVIOUS
<1> HIDE DEF order, sent
<1>7. Waiting' \subseteq Waiting \cup {b.in} /\ Waiting' \subseteq KindsOf[screen]
  BY <1>1, <1>5 DEF Waiting
<1>8. DialogsTypeOK'
  BY <1>1, <1>5, <1>6 DEF FormsInv, DialogsTypeOK
<1>9. InkInv'
  BY <1>1 DEF FormsInv, InkInv, FrontRecord, DraftsFresh, ForRows, FrontOwn, FrontUnsaved,
              KeptUnsaved, InFront
<1>10. SentWhole'
  BY <1>5, <1>6, <1>7 DEF FormsInv, SentInv, SentWhole
<1>11. SentOwn'
  <2>1. \A p \in b.sends : \A m \in ink[p] :
          m.of = TargetNow \/ <<screen, b.in, p>> \in Wanders
    <3> SUFFICES ASSUME NEW p \in b.sends, NEW m \in ink[p],
                        <<screen, b.in, p>> \notin Wanders
                 PROVE  m.of = TargetNow
      OBVIOUS
    <3>1. m.of = dialog.on
      BY <1>1, <1>3, <1>4 DEF FormsInv, InkInv, FrontOwn
    <3>2. DialogsOf[screen][b.in].on # "chosen"
      BY <1>2, <1>3 DEF DrawersFit
    <3>. QED
      BY <1>1, <3>1, <3>2 DEF TargetNow
  <2>. QED
    BY <1>1, <1>5, <1>6, <1>7, <2>1 DEF FormsInv, SentInv, SentOwn
<1>12. SentOnce'
  <2>1. \A p \in b.sends : \A m \in ink[p] : WasSaved(m) => <<screen, b.in, p>> \in Repeats
    BY <1>1, <1>3, <1>4 DEF FormsInv, InkInv, FrontUnsaved
  <2>. QED
    BY <1>1, <1>5, <1>6, <1>7, <2>1 DEF FormsInv, SentInv, SentOnce, WasSaved
<1>. QED
  BY <1>8, <1>9, <1>10, <1>11, <1>12 DEF FormsInv, SentInv

\* The end of a submit, whatever its answer.
LEMMA AnsweredKeeps ==
  ASSUME FormsInv, NEW k \in KindsOf[screen], UNCHANGED screen,
         pending' = [pending EXCEPT ![k] = NoSubmit]
  PROVE  /\ SentInv'
         /\ DOMAIN pending' = KindsOf[screen]
         /\ \A j \in KindsOf[screen] : pending'[j] \in {pending[j], NoSubmit}
<1>1. /\ pending'[k] = NoSubmit
      /\ \A j \in KindsOf[screen] \ {k} : pending'[j] = pending[j]
      /\ DOMAIN pending' = KindsOf[screen]
  BY DEF FormsInv, DialogsTypeOK
<1>2. Waiting' = Waiting \ {k}
  BY <1>1 DEF Waiting
<1>3. \A j \in Waiting \ {k} : pending'[j] = pending[j]
  BY <1>1 DEF Waiting
<1>. QED
  BY <1>1, <1>2, <1>3 DEF FormsInv, SentInv, SentWhole, SentOwn, SentOnce

\* A submit that fails leaves the forms as they are.
LEMMA RejectedKeeps ==
  ASSUME FormsInv, NEW k \in KindsOf[screen], Rejected(k)
  PROVE  FormsInv'
<1>1. /\ pending' = [pending EXCEPT ![k] = NoSubmit]
      /\ UNCHANGED <<screen, dialog, ink, chosen>>
  BY DEF Rejected
<1>2. DialogsTypeOK'
  BY <1>1, AnsweredKeeps DEF FormsInv, DialogsTypeOK
<1>3. InkInv'
  BY <1>1 DEF FormsInv, InkInv, FrontRecord, DraftsFresh, ForRows, FrontOwn, FrontUnsaved,
              KeptUnsaved, InFront
<1>. QED
  BY <1>1, <1>2, <1>3, AnsweredKeeps DEF FormsInv

\* The success handler acts on the drawer in front by then.
LEMMA SavedKeeps ==
  ASSUME FormsInv, NEW k \in KindsOf[screen], Saved(k)
  PROVE  FormsInv'
<1> DEFINE b == pending[k].button
           sent == pending[k].sent
           after == [p \in DOMAIN ink |->
                       IF p \in DOMAIN sent THEN AsSaved(ink[p], sent[p]) ELSE ink[p]]
           shut == dialog.kind \in b.closes
           parts == b.clears \cup (IF shut THEN OnClose ELSE {})
<1>1. /\ pending[k] # NoSubmit
      /\ pending' = [pending EXCEPT ![k] = NoSubmit]
      /\ UNCHANGED screen
      /\ ink' = Blanked(after, parts)
      /\ dialog' = IF shut THEN NoDialog ELSE dialog
      /\ chosen' \in IF b.moves THEN Listed ELSE {chosen}
  BY DEF Saved
<1>2. /\ b \in ButtonsOf[screen]
      /\ DOMAIN sent = b.sends
      /\ ink \in [PartsOf[screen] -> SUBSET Marks]
  BY <1>1 DEF FormsInv, DialogsTypeOK, SentInv, SentWhole, Waiting
<1>3. /\ DOMAIN after = PartsOf[screen]
      /\ \A p \in PartsOf[screen] :
           after[p] = IF p \in b.sends THEN AsSaved(ink[p], sent[p]) ELSE ink[p]
      /\ after = [p \in PartsOf[screen] |-> after[p]]
  BY <1>2
<1> HIDE DEF after, sent
<1>4. \A p \in PartsOf[screen] : \A m \in after[p] :
        /\ m \in Marks
        /\ \E n \in ink[p] : n.of = m.of /\ (WasSaved(m) => p \in b.sends \/ WasSaved(n))
  <2> SUFFICES ASSUME NEW p \in PartsOf[screen], NEW m \in after[p]
               PROVE  /\ m \in Marks
                      /\ \E n \in ink[p] : /\ n.of = m.of
                                           /\ WasSaved(m) => p \in b.sends \/ WasSaved(n)
    OBVIOUS
  <2>0. ink[p] \in SUBSET Marks
    BY <1>2
  <2>1. CASE p \in b.sends
    BY <1>3, <2>0, <2>1, AsSavedKeeps
  <2>2. CASE p \notin b.sends
    BY <1>3, <2>0, <2>2
  <2>. QED
    BY <2>1, <2>2
<1>5. after \in [PartsOf[screen] -> SUBSET Marks]
  BY <1>3, <1>4
<1>6. /\ ink' \in [PartsOf[screen] -> SUBSET Marks]
      /\ \A p \in PartsOf[screen] : ink'[p] = IF p \in parts THEN {} ELSE after[p]
  BY <1>1, <1>5, BlankedIs
<1>7. chosen' \in Listed
  BY <1>1 DEF FormsInv, DialogsTypeOK
<1>8. DialogsTypeOK'
  BY <1>1, <1>6, <1>7, AnsweredKeeps DEF FormsInv, DialogsTypeOK
<1>9. InkInv'
  <2>1. dialog' = NoDialog => \A p \in PartsOf[screen] \cap OnClose : ink'[p] = {}
    BY <1>1, <1>6 DEF OnClose
  <2>2. dialog' # NoDialog => dialog'.kind \notin b.closes
    BY <1>1
  <2>3. \A p \in PartsOf[screen] : \A m \in ink'[p] : \E n \in ink[p] :
          /\ n.of = m.of
          /\ WasSaved(m) => \/ WasSaved(n)
                            \/ \E c \in ButtonsOf[screen] :
                                 /\ p \in c.sends \ c.clears
                                 /\ dialog' # NoDialog => dialog'.kind \notin c.closes
    <3> SUFFICES ASSUME NEW p \in PartsOf[screen], NEW m \in ink'[p]
                 PROVE  \E n \in ink[p] :
                          /\ n.of = m.of
                          /\ WasSaved(m) => \/ WasSaved(n)
                                            \/ p \in b.sends \ b.clears
      BY <1>2, <2>2
    <3>1. m \in after[p] /\ p \notin b.clears
      BY <1>6
    <3>. QED
      BY <1>4, <3>1
  <2>. QED
    BY <1>1, <1>6, <1>7, <2>1, <2>3, AnswerKeeps
<1>. QED
  BY <1>1, <1>8, <1>9, AnsweredKeeps DEF FormsInv

\* Every step of the page.
LEMMA FormsStep == FormsInv /\ [DialogsNext]_dialogVars => FormsInv'
<1> SUFFICES ASSUME FormsInv, [DialogsNext]_dialogVars
             PROVE  FormsInv'
  OBVIOUS
<1>1. CASE \E k \in KindsOf[screen] : OpenDialog(k)
  BY <1>1, OpenKeeps
<1>2. CASE \E k \in KindsOf[screen] : Saved(k)
  BY <1>2, SavedKeeps
<1>3. CASE \E k \in KindsOf[screen] : Rejected(k)
  BY <1>3, RejectedKeeps
<1>4. CASE \E p \in PartsOf[screen] : TypeIn(p)
  BY <1>4, TypeKeeps
<1>5. CASE \E b \in ButtonsOf[screen] : SubmitForm(b)
  BY <1>5, SubmitKeeps
<1>6. CASE Reread
  BY <1>6, RereadKeeps
<1>7. CASE CloseDialog
  BY <1>7, CloseKeeps
<1>8. CASE Choose
  BY <1>8, ChooseKeeps
<1>9. CASE UNCHANGED dialogVars
  <2>1. InkInv'
    BY <1>9 DEF dialogVars, FormsInv, InkInv, FrontRecord, DraftsFresh, ForRows, FrontOwn,
                FrontUnsaved, KeptUnsaved, InFront
  <2>2. DialogsTypeOK' /\ SentInv'
    BY <1>9, SentStays DEF dialogVars, FormsInv, DialogsTypeOK
  <2>. QED
    BY <2>1, <2>2 DEF FormsInv
<1>. QED
  BY <1>1, <1>2, <1>3, <1>4, <1>5, <1>6, <1>7, <1>8, <1>9 DEF DialogsNext

\* Whatever order drawers are opened, left, submitted and answered in, on every
\* page, for any rows and any number of submits under way, a submit sends to a
\* record only what was read from it or typed for it, and nothing twice, outside
\* the parts the code is known to miss (Wanders, Repeats).
THEOREM FormsStand == DialogsSpec => []FormsSound
<1>1. FormsInv => FormsSound
  BY DEF FormsInv, SentInv, FormsSound
<1>. QED
  BY <1>1, FormsBegin, FormsStep, PTL DEF DialogsSpec
=============================================================================
