------------------------------ MODULE Registers ------------------------------
(***************************************************************************)
(* The registers of a tenant, table by table: TerritoriesService,           *)
(* BumdesService, SocialAssistanceService, CivilEventsService,              *)
(* AssetsService, DevelopmentService, CmsService, RolesService,             *)
(* SettingsService and the years, items and documents of FinanceService.    *)
(*                                                                          *)
(* Their methods are one pattern.  A method reads first (is the row there,  *)
(* is its parent there, is the code free, is the row unused), refuses when  *)
(* a read says so, and then writes on what it has read; between two reads,  *)
(* and before the write, other calls run.  The database has the last word:  *)
(* unique indexes, foreign keys and the tenant-link triggers.  An operator  *)
(* named for a method says what it reads and what it writes.  Texts,        *)
(* amounts and the audit row written last are left out.  A behaviour works  *)
(* in one service, as no write of one touches a table of another.           *)
(***************************************************************************)
EXTENDS Naturals, FiniteSets, Sequences

CONSTANTS Ids,            \* rows of a table
          Codes,          \* hamlet codes, slugs, setting keys, years, RT/RW pairs ...
          RegisterCalls,  \* requests that the API handles at a time
          NoCode

ASSUME RegistersAssumption == Ids \subseteq Nat \ {0} /\ NoCode \notin Codes

VARIABLES service,  \* the service that the behaviour works in
          table,    \* the rows of each table
          rcall     \* the calls that run

registerVars == <<service, table, rcall>>

\* Tables of the services; residents and files are rows of other components.
TablesOf ==
  [territories |-> {"hamlet", "rt"}, bumdes |-> {"unit", "record"}, social |-> {"program", "recipient"},
   civil |-> {"event"}, assets |-> {"asset"}, development |-> {"project"},
   finance |-> {"year", "item", "document"}, news |-> {"post"}, agenda |-> {"agenda"},
   gallery |-> {"gallery"}, roles |-> {"role"}, settings |-> {"setting"}]
Tables == (UNION {TablesOf[s] : s \in DOMAIN TablesOf}) \cup {"resident", "file"}

\* What a row refers to, "none" for nothing.
ParentOf(t) ==
  CASE t = "rt" -> "hamlet" [] t = "record" -> "unit" [] t = "recipient" -> "program"
    [] t = "event" -> "resident" [] t = "item" -> "year" [] t \in {"gallery", "document"} -> "file"
    [] OTHER -> "none"

\* The tables with a unique index on the code.
Unique == {"hamlet", "rt", "unit", "program", "asset", "project", "year", "post", "role", "setting"}

\* at: posts.published_at, 0 while it is NULL.
Row == [code : Codes \cup {NoCode}, parent : Ids \cup {0}, status : {"draft", "published"}, at : 0 .. 2]
Blank == [code |-> NoCode, parent |-> 0, status |-> "draft", at |-> 0]
NoRow == [Blank EXCEPT !.at = 3]
Gone == [Blank EXCEPT !.at = 4]   \* deleted: its id is not given again

\* checks: the reads that are still to come; alone: no other call ran since it began.
Quiet == [kind |-> "none", t |-> "asset", id |-> 0, row |-> Blank, checks |-> <<>>, alone |-> TRUE]
CallRecord == [kind : {"none", "create", "update", "remove", "upsert"}, t : Tables, id : Ids \cup {0},
               row : Row, checks : UNION {[1 .. n -> {"parent", "code", "unused"}] : n \in 0 .. 2},
               alone : BOOLEAN]

RegistersTypeOK ==
  /\ service \in DOMAIN TablesOf
  /\ table \in [Tables -> [Ids -> Row \cup {NoRow, Gone}]]
  /\ rcall \in [RegisterCalls -> CallRecord]

\* The tables of the service are empty; one of the residents and files exists.
RegistersInit ==
  /\ service \in DOMAIN TablesOf
  /\ table = [t \in Tables |-> [i \in Ids |-> IF t \in {"resident", "file"} /\ i = 1 THEN Blank ELSE NoRow]]
  /\ rcall = [c \in RegisterCalls |-> Quiet]

-----------------------------------------------------------------------------
(* The database.                                                           *)
Present(t, i) == table[t][i] \notin {NoRow, Gone}

\* The RT/RW pair is unique in its hamlet, the other codes in the tenant.
Taken(t, row, i) ==
  /\ t \in Unique
  /\ \E j \in Ids \ {i} : Present(t, j) /\ table[t][j].code = row.code
                          /\ (t = "rt" => table[t][j].parent = row.parent)

Children(t, i) ==
  {k \in Tables \X Ids : ParentOf(k[1]) = t /\ Present(k[1], k[2]) /\ table[k[1]][k[2]].parent = i}

MutOnDelete(u) == IF u \in {"gallery", "document"} THEN "restrict" ELSE "cascade"

\* ON DELETE of the reference: financial records and files keep what they belong to.
OnDelete(u) == IF u \in {"record", "gallery", "document"} THEN "restrict" ELSE "cascade"

\* An update names some columns; the others stay as they are.
Merged(r) ==
  LET old == table[r.t][r.id] IN
  [old EXCEPT !.code = IF r.row.code = NoCode THEN @ ELSE r.row.code,
              !.status = r.row.status,
              !.at = IF r.row.at = 0 THEN @ ELSE r.row.at]

MutAccepted(r) ==
  CASE r.kind = "create" -> ParentOf(r.t) = "none" \/ r.row.parent = 0 \/ Present(ParentOf(r.t), r.row.parent)
    [] r.kind = "update" -> Present(r.t, r.id)
    [] r.kind = "remove" -> Present(r.t, r.id) /\ \A k \in Children(r.t, r.id) : OnDelete(k[1]) = "cascade"
    [] OTHER -> TRUE

\* Does the database take the write?  A link to nothing, a code in use, a row that is
\* gone and a row that is referred to are refused.
Accepted(r) ==
  CASE r.kind = "create" -> /\ ParentOf(r.t) = "none" \/ r.row.parent = 0 \/ Present(ParentOf(r.t), r.row.parent)
                            /\ ~Taken(r.t, r.row, 0)
    [] r.kind = "update" -> Present(r.t, r.id) /\ ~Taken(r.t, Merged(r), r.id)
    [] r.kind = "remove" -> Present(r.t, r.id) /\ \A k \in Children(r.t, r.id) : OnDelete(k[1]) = "cascade"
    [] OTHER -> TRUE

-----------------------------------------------------------------------------
(* A call: its first read decides whether it goes on, then come the others. *)
Pass(check, r) ==
  CASE check = "parent" -> Present(ParentOf(r.t), r.row.parent)
    [] check = "code" -> ~Taken(r.t, r.row, IF r.t = "rt" THEN r.id ELSE 0)
    [] OTHER -> Children(r.t, r.id) = {}

BeginCall(c, r) ==
  /\ r.t \in TablesOf[service]
  /\ r.kind \in {"create", "upsert"} =>   \* the bound on rows
       Cardinality({d \in RegisterCalls : rcall[d].kind \in {"create", "upsert"} /\ rcall[d].t = r.t})
         < Cardinality({i \in Ids : table[r.t][i] = NoRow})
  /\ LET busy == {d \in RegisterCalls : rcall[d] # Quiet} IN
     rcall' = [d \in RegisterCalls |-> IF d = c THEN [r EXCEPT !.alone = busy = {}]
                                       ELSE IF d \in busy THEN [rcall[d] EXCEPT !.alone = FALSE] ELSE rcall[d]]
  /\ UNCHANGED <<service, table>>

\* The methods that create; the first of the checks is made at once.
Creates(c, t, row, checks) ==
  LET r == [Quiet EXCEPT !.kind = "create", !.t = t, !.row = row] IN
  /\ BeginCall(c, [r EXCEPT !.checks = IF checks = <<>> THEN <<>> ELSE Tail(checks)])
  /\ checks # <<>> => Pass(Head(checks), r)

\* Methods on a row that exists: its first read finds it.
Updates(c, t, i, row, checks) ==
  /\ BeginCall(c, [Quiet EXCEPT !.kind = "update", !.t = t, !.id = i, !.row = row, !.checks = checks])
  /\ Present(t, i)
Removes(c, t, checks) ==
  \E i \in Ids :
    /\ BeginCall(c, [Quiet EXCEPT !.kind = "remove", !.t = t, !.id = i, !.checks = checks])
    /\ Present(t, i)

Coded(k) == [Blank EXCEPT !.code = k]
Child(k, p) == [Blank EXCEPT !.code = k, !.parent = p]

\* The code is looked up again when it changes.
Changed(t, i, k) == IF k \in {NoCode, table[t][i].code} THEN <<>> ELSE <<"code">>

CheckNext(c) ==
  LET r == rcall[c] IN
  /\ r.checks # <<>>
  /\ rcall' = [rcall EXCEPT ![c] = IF Pass(Head(r.checks), r) THEN [r EXCEPT !.checks = Tail(r.checks)] ELSE Quiet]
  /\ UNCHANGED <<service, table>>

WriteRow(c) ==
  /\ rcall[c] # Quiet /\ rcall[c].checks = <<>>
  /\ LET r == rcall[c] IN
     \E i \in Ids :
       /\ IF r.kind \in {"create", "upsert"} THEN table[r.t][i] = NoRow ELSE i = r.id
       /\ table' = IF ~Accepted(r) \/ (r.kind = "upsert" /\ Taken(r.t, r.row, 0)) THEN table
                   ELSE [u \in Tables |->
                          [j \in Ids |-> IF u = r.t /\ j = i
                                           THEN CASE r.kind = "remove" -> Gone
                                                  [] r.kind = "update" -> Merged(r)
                                                  [] OTHER -> r.row
                                         ELSE IF r.kind = "remove" /\ <<u, j>> \in Children(r.t, i) THEN Gone
                                         ELSE table[u][j]]]
  /\ rcall' = [rcall EXCEPT ![c] = Quiet]
  /\ UNCHANGED service

-----------------------------------------------------------------------------
(* The methods of the services.                                            *)
CreateHamlet(c) == \E k \in Codes : Creates(c, "hamlet", Coded(k), <<"code">>)
UpdateHamlet(c) == \E i \in Ids, k \in Codes \cup {NoCode} : Updates(c, "hamlet", i, Coded(k), Changed("hamlet", i, k))
CreateNeighborhoodUnit(c) == \E k \in Codes, p \in Ids : Creates(c, "rt", Child(k, p), <<"parent", "code">>)
UpdateNeighborhoodUnit(c) ==
  \E i \in Ids, k \in Codes : Updates(c, "rt", i, Child(k, table["rt"][i].parent), Changed("rt", i, k))

CreateUnit(c) == \E k \in Codes : Creates(c, "unit", Coded(k), <<"code">>)
UpdateUnit(c) == \E i \in Ids, k \in Codes \cup {NoCode} : Updates(c, "unit", i, Coded(k), <<>>)
RemoveUnit(c) == Removes(c, "unit", <<"unused">>)
CreateFinancialRecord(c) == \E p \in Ids : Creates(c, "record", Child(NoCode, p), <<"parent">>)

CreateProgram(c) == \E k \in Codes : Creates(c, "program", Coded(k), <<"code">>)
UpdateProgram(c) == \E i \in Ids, k \in Codes \cup {NoCode} : Updates(c, "program", i, Coded(k), <<>>)
AddRecipient(c) == \E p \in Ids : Creates(c, "recipient", Child(NoCode, p), <<"parent">>)
UpdateRecipient(c) == \E i \in Ids : Updates(c, "recipient", i, Blank, <<>>)

CreateCivilEvent(c) == \E p \in Ids : Creates(c, "event", Child(NoCode, p), <<"parent">>)
UpdateCivilEvent(c) == \E i \in Ids : Updates(c, "event", i, Blank, <<>>)
RemoveCivilEvent(c) == Removes(c, "event", <<>>)

CreateAsset(c) == \E k \in Codes : Creates(c, "asset", Coded(k), <<"code">>)
UpdateAsset(c) == \E i \in Ids, k \in Codes \cup {NoCode} : Updates(c, "asset", i, Coded(k), <<>>)
RemoveAsset(c) == Removes(c, "asset", <<>>)

CreateProject(c) == \E k \in Codes : Creates(c, "project", Coded(k), <<"code">>)
UpdateProject(c) == \E i \in Ids, k \in Codes \cup {NoCode} : Updates(c, "project", i, Coded(k), <<>>)
RemoveProject(c) == Removes(c, "project", <<>>)

CreateBudgetYear(c) == \E k \in Codes : Creates(c, "year", Coded(k), <<"code">>)
CreateBudgetItem(c) == \E p \in Ids : Creates(c, "item", Child(NoCode, p), <<"parent">>)
UpdateBudgetItem(c) == \E i \in Ids : Updates(c, "item", i, Blank, <<>>)
CreateDocument(c) == \E p \in Ids \cup {0} : Creates(c, "document", Child(NoCode, p), <<>>)

\* A post is dated when it is published, and on an update only if it has no date yet.
CreatePost(c) ==
  \E k \in Codes, s \in {"draft", "published"} :
    Creates(c, "post", [Coded(k) EXCEPT !.status = s, !.at = IF s = "published" THEN 1 ELSE 0], <<>>)
Redated(i) == IF table["post"][i].at = 1 THEN 2 ELSE 1
Date(i, s) == IF s = "published" /\ table["post"][i].at = 0 THEN Redated(i) ELSE 0
UpdatePost(c) ==
  \E i \in Ids, k \in Codes \cup {NoCode}, s \in {"draft", "published"} :
    Updates(c, "post", i, [Coded(k) EXCEPT !.status = s, !.at = Date(i, s)], <<>>)
RemovePost(c) == Removes(c, "post", <<>>)

CreateAgenda(c) == Creates(c, "agenda", Blank, <<>>)
UpdateAgenda(c) == \E i \in Ids : Updates(c, "agenda", i, Blank, <<>>)
RemoveAgenda(c) == Removes(c, "agenda", <<>>)
CreateGalleryItem(c) == \E p \in Ids \cup {0} : Creates(c, "gallery", Child(NoCode, p), <<>>)
RemoveGalleryItem(c) == Removes(c, "gallery", <<>>)

CreateRole(c) == \E k \in Codes : Creates(c, "role", Coded(k), <<"code">>)
UpdateRole(c) == \E i \in Ids : Updates(c, "role", i, Blank, <<>>)

UpsertSetting(c) == \E k \in Codes : BeginCall(c, [Quiet EXCEPT !.kind = "upsert", !.t = "setting", !.row = Coded(k)])
RemoveSetting(c) == Removes(c, "setting", <<>>)

Call(c) ==
  /\ rcall[c] = Quiet
  /\ \/ CreateHamlet(c) \/ UpdateHamlet(c) \/ CreateNeighborhoodUnit(c) \/ UpdateNeighborhoodUnit(c)
     \/ CreateUnit(c) \/ UpdateUnit(c) \/ RemoveUnit(c) \/ CreateFinancialRecord(c)
     \/ CreateProgram(c) \/ UpdateProgram(c) \/ AddRecipient(c) \/ UpdateRecipient(c)
     \/ CreateCivilEvent(c) \/ UpdateCivilEvent(c) \/ RemoveCivilEvent(c)
     \/ CreateAsset(c) \/ UpdateAsset(c) \/ RemoveAsset(c)
     \/ CreateProject(c) \/ UpdateProject(c) \/ RemoveProject(c)
     \/ CreateBudgetYear(c) \/ CreateBudgetItem(c) \/ UpdateBudgetItem(c) \/ CreateDocument(c)
     \/ CreatePost(c) \/ UpdatePost(c) \/ RemovePost(c)
     \/ CreateAgenda(c) \/ UpdateAgenda(c) \/ RemoveAgenda(c) \/ CreateGalleryItem(c) \/ RemoveGalleryItem(c)
     \/ CreateRole(c) \/ UpdateRole(c) \/ UpsertSetting(c) \/ RemoveSetting(c)

RegistersNext == \E c \in RegisterCalls : Call(c) \/ CheckNext(c) \/ WriteRow(c)

RegistersSpec == RegistersInit /\ [][RegistersNext]_registerVars

-----------------------------------------------------------------------------
(* Properties.                                                             *)
\* No two rows share a code, though every method looks before it writes and some do not
\* look at all (schema.prisma:251, :735): the index decides.
CodesUnique ==
  \A t \in Unique : \A i \in Ids : Present(t, i) =>
    \A j \in Ids : Present(t, j) /\ table[t][i].code = table[t][j].code
                   /\ table[t][i].parent = table[t][j].parent => i = j

\* A financial record, once booked, stays with its unit: no deletion of the unit, however
\* it races the booking, takes it along (bumdes.service.ts:120).
HistoryKept ==
  \A i \in Ids : Present("record", i) =>
    /\ Present("record", i)' /\ table'["record"][i].parent = table["record"][i].parent
    /\ Present("unit", table["record"][i].parent)'

\* The writes that nothing was looked up for: they end in an error of the database.
Unchecked == {<<"unit", "update">>, <<"program", "update">>, <<"asset", "update">>, <<"project", "update">>,
              <<"post", "create">>, <<"post", "update">>, <<"document", "create">>, <<"gallery", "create">>}

\* Any other call that met no other one has refused what the database would refuse: who
\* sends it gets the answer of the service.
RefusedInTime ==
  \A c \in RegisterCalls :
    LET r == rcall[c] IN
    r # Quiet /\ r.checks = <<>> /\ r.alone => Accepted(r) \/ <<r.t, r.kind>> \in Unchecked

\* A published post has a date (cms.service.ts:98, :119).
PublishedDated == \A i \in Ids : table["post"][i].status = "published" => table["post"][i].at \in {1, 2}

\* It keeps the first one through all later updates, unless two of them overlapped.
FirstDateKept ==
  \A i \in Ids : table["post"][i].at \in {1, 2} =>
    \/ table'["post"][i] = Gone
    \/ table'["post"][i].at = table["post"][i].at
    \/ \E c \in RegisterCalls : ~rcall[c].alone /\ rcall[c].kind = "update"

\* What holds of the registers at any time.
RegistersSound == RegistersTypeOK /\ CodesUnique /\ RefusedInTime /\ PublishedDated

\* What a later call may not undo: the link of a financial record, the date of a post.
PastKept == [][HistoryKept /\ FirstDateKept]_registerVars
=============================================================================
