--------------------------- MODULE RegistersProofs ---------------------------
(* What the registers keep, for any rows, codes and overlapping calls.       *)
EXTENDS Registers, SequenceTheorems, TLAPS

LEMMA TablesAre ==
  Tables = {"hamlet", "rt", "unit", "record", "program", "recipient", "event", "asset", "project", "year",
            "item", "document", "post", "agenda", "gallery", "role", "setting", "resident", "file"}
<1>1. DOMAIN TablesOf = {"territories", "bumdes", "social", "civil", "assets", "development", "finance", "news",
                         "agenda", "gallery", "roles", "settings"}
  BY DEF TablesOf
<1>2. /\ TablesOf["territories"] = {"hamlet", "rt"} /\ TablesOf["bumdes"] = {"unit", "record"}
      /\ TablesOf["social"] = {"program", "recipient"} /\ TablesOf["civil"] = {"event"}
      /\ TablesOf["assets"] = {"asset"} /\ TablesOf["development"] = {"project"}
      /\ TablesOf["finance"] = {"year", "item", "document"} /\ TablesOf["news"] = {"post"}
      /\ TablesOf["agenda"] = {"agenda"} /\ TablesOf["gallery"] = {"gallery"}
      /\ TablesOf["roles"] = {"role"} /\ TablesOf["settings"] = {"setting"}
  BY DEF TablesOf
<1>3. \A x : x \in Tables <=> (\E s \in DOMAIN TablesOf : x \in TablesOf[s]) \/ x \in {"resident", "file"}
  BY DEF Tables
<1> QED BY <1>1, <1>2, <1>3

-----------------------------------------------------------------------------
(* The invariant.  A call that met no other one is the only one that runs.   *)
Reads == {"parent", "code", "unused"}
Request == [kind : {"none", "create", "update", "remove", "upsert"}, t : Tables, id : Ids \cup {0},
            row : Row, checks : Seq(Reads), alone : BOOLEAN]
RowsTyped == table \in [Tables -> [Ids -> Row \cup {NoRow, Gone}]]
CallsTyped == rcall \in [RegisterCalls -> Request]

\* What the methods send: records are only created, and for a unit; a code that is
\* unique in the tenant is of a row that belongs to no other; a post that is created
\* as published is dated.
Sound(r) ==
  /\ r \in Request /\ r.kind # "none" /\ Len(r.checks) <= 2
  /\ r.kind \in {"update", "remove"} => r.id \in Ids
  /\ r.kind = "upsert" => r.t = "setting"
  /\ r.t = "record" => r.kind = "create" /\ r.row.parent \in Ids
  /\ r.kind \in {"create", "upsert"} /\ r.t \in Unique \ {"rt"} => r.row.parent = 0
  /\ r.kind = "create" /\ r.t = "post" /\ r.row.status = "published" => r.row.at # 0
CallsSound == \A c \in RegisterCalls : rcall[c] # Quiet => Sound(rcall[c])

AloneInv ==
  \A c, d \in RegisterCalls : c # d /\ rcall[c] # Quiet /\ rcall[c].alone => rcall[d] = Quiet

\* A record that is there has its unit.
RecordsLinked ==
  \A i \in Ids : Present("record", i) =>
    table["record"][i].parent \in Ids /\ Present("unit", table["record"][i].parent)

\* An update that dates a post has read that it has no date.
Undated(r) == r.kind = "update" /\ r.t = "post" /\ r.row.at # 0 => table["post"][r.id].at \notin {1, 2}
DatesFresh == \A c \in RegisterCalls : rcall[c] # Quiet /\ rcall[c].alone => Undated(rcall[c])

PastInv == RowsTyped /\ CallsTyped /\ CallsSound /\ AloneInv /\ RecordsLinked /\ DatesFresh

\* An update that publishes a post without dating it has read its date.
Dated(r) == r.kind = "update" /\ r.t = "post" /\ r.row.status = "published" /\ r.row.at = 0
              => table["post"][r.id].at \notin {0, 3}
PostsDated == \A c \in RegisterCalls : rcall[c] # Quiet => Dated(rcall[c])

\* The codes of the tenant are of rows that belong to no other row.
Rootless == \A t \in Unique \ {"rt"}, i \in Ids : Present(t, i) => table[t][i].parent = 0

\* When the reads that are to come pass, the database takes the write.
Refusing(r) == (\A k \in 1 .. Len(r.checks) : Pass(r.checks[k], r))
                 => Accepted(r) \/ <<r.t, r.kind>> \in Unchecked
ReadsSuffice == \A c \in RegisterCalls : rcall[c] # Quiet /\ rcall[c].alone => Refusing(rcall[c])

RowsInv == RowsTyped /\ CodesUnique /\ Rootless
SoundInv == CodesUnique /\ Rootless /\ ReadsSuffice /\ PublishedDated /\ PostsDated

-----------------------------------------------------------------------------
(* A step begins a call, makes a check of one, or writes.                    *)
Begins(c) == \E r : Sound(r) /\ Undated(r) /\ Dated(r) /\ Refusing(r) /\ BeginCall(c, r)
Starts(c) == rcall[c] = Quiet /\ Begins(c)

LEMMA RowFacts ==
  /\ Blank \in Row /\ NoRow \notin Row /\ Gone \notin Row /\ NoRow # Gone
  /\ NoRow.at = 3 /\ Gone.at = 4 /\ Blank.at = 0
<1>1. Blank \in Row /\ Blank.at = 0
  BY DEF Blank, Row
<1>2. NoRow.at = 3 /\ Gone.at = 4
  BY DEF NoRow, Gone, Blank
<1>3. \A r \in Row : r.at \in 0 .. 2
  BY DEF Row
<1> QED BY <1>1, <1>2, <1>3

LEMMA CodedFacts ==
  ASSUME NEW k \in Codes \cup {NoCode}
  PROVE  /\ Coded(k) \in Row /\ Coded(k).at = 0 /\ Coded(k).parent = 0 /\ Coded(k).code = k
         /\ Coded(k).status = "draft"
BY DEF Blank, Row, Coded

LEMMA ChildFacts ==
  ASSUME NEW k \in Codes \cup {NoCode}, NEW p \in Ids \cup {0}
  PROVE  /\ Child(k, p) \in Row /\ Child(k, p).parent = p /\ Child(k, p).at = 0
         /\ Child(k, p).code = k
<1>1. Child(k, p) = [[Blank EXCEPT !.code = k] EXCEPT !.parent = p]
  BY DEF Blank, Child
<1>2. LET b == [Blank EXCEPT !.code = k] IN b \in Row /\ b.at = 0 /\ b.code = k
  BY DEF Blank, Row
<1> QED BY <1>1, <1>2 DEF Row

LEMMA QuietTyped == Quiet \in Request /\ Quiet.kind = "none" /\ Quiet.alone = TRUE
<1>1. Blank \in Row BY RowFacts
<1>2. "asset" \in Tables BY TablesAre
<1> QED BY <1>1, <1>2 DEF Quiet, Request

-----------------------------------------------------------------------------
(* The reads of a method are enough: after them the database takes the write *)
(* of a call that met no other one.                                          *)

\* The links of the tables, and what they are not.
LEMMA ParentsAre ==
  /\ \A t \in {"hamlet", "unit", "program", "asset", "project", "year", "post", "role", "setting", "agenda"} :
       ParentOf(t) = "none"
  /\ ParentOf("rt") = "hamlet" /\ ParentOf("record") = "unit" /\ ParentOf("recipient") = "program"
  /\ ParentOf("event") = "resident" /\ ParentOf("item") = "year" /\ ParentOf("gallery") = "file"
  /\ ParentOf("document") = "file"
  /\ \A t : ParentOf(t) \in {"hamlet", "unit", "program", "resident", "year", "file", "none"}
BY DEF ParentOf

\* What a method still has to read.
Checks == {<<>>, <<"code">>, <<"parent">>, <<"unused">>, <<"parent", "code">>}

LEMMA ChecksTyped == \A checks \in Checks : checks \in Seq(Reads) /\ Len(checks) <= 2
<1>1. <<>> \in Seq(Reads) /\ (\A x \in Reads : <<x>> \in Seq(Reads)) /\ Len(<<>>) = 0
  BY EmptySeq
<1>2. \A x, y \in Reads : <<x, y>> \in Seq(Reads)
  OBVIOUS
<1>3. \A x, y : Len(<<x>>) = 1 /\ Len(<<x, y>>) = 2
  OBVIOUS
<1>4. "code" \in Reads /\ "parent" \in Reads /\ "unused" \in Reads
  BY DEF Reads
<1>5. \A x \in Reads : <<x>> \in Seq(Reads) /\ Len(<<x>>) <= 2
  BY <1>1, <1>3
<1>6. <<"parent", "code">> \in Seq(Reads) /\ Len(<<"parent", "code">>) <= 2
  BY <1>2, <1>3, <1>4
<1>7. <<>> \in Seq(Reads) /\ Len(<<>>) <= 2
  BY <1>1
<1> QED BY <1>4, <1>5, <1>6, <1>7, Zenon DEF Checks

LEMMA ChangedChecks ==
  ASSUME NEW t, NEW i, NEW k
  PROVE  /\ Changed(t, i, k) \in Checks
         /\ k \in {NoCode, table[t][i].code} \/ Changed(t, i, k) = <<"code">>
BY DEF Changed, Checks

\* A new row whose code is looked up, and whose parent is, if it has one.
Lookups(t, row, checks) ==
  \/ <<t, "create">> \in Unchecked
  \/ /\ t \in Unique => \E k \in 1 .. Len(checks) : checks[k] = "code"
     /\ ParentOf(t) = "none" \/ row.parent = 0 \/ \E k \in 1 .. Len(checks) : checks[k] = "parent"

LEMMA CreateRefusing ==
  ASSUME NEW r \in Request, r.kind = "create", r.id = 0, NEW checks, Lookups(r.t, r.row, checks),
         \A k \in 1 .. Len(checks) : Pass(checks[k], r)
  PROVE  Accepted(r) \/ <<r.t, r.kind>> \in Unchecked
<1> SUFFICES ASSUME <<r.t, r.kind>> \notin Unchecked PROVE Accepted(r)
  OBVIOUS
<1>1. r.t \in Unique => Pass("code", r)
  BY DEF Lookups
<1>2. ~Taken(r.t, r.row, 0)
  <2>1. CASE r.t \in Unique
    BY <1>1, <2>1 DEF Pass
  <2>2. CASE r.t \notin Unique
    BY <2>2 DEF Taken
  <2>q. QED
    BY <2>1, <2>2
<1>3. ParentOf(r.t) = "none" \/ r.row.parent = 0 \/ Pass("parent", r)
  BY DEF Lookups
<1>4. ParentOf(r.t) = "none" \/ r.row.parent = 0 \/ Present(ParentOf(r.t), r.row.parent)
  BY <1>3 DEF Pass
<1>q. QED
  BY <1>2, <1>4 DEF Accepted

\* A row whose code is looked up when it changes; where it stays, it is nobody else's.
Relooks(t, i, row, checks) ==
  \/ <<t, "update">> \in Unchecked
  \/ t \notin Unique
  \/ row.code \in {NoCode, table[t][i].code}
  \/ checks = <<"code">> /\ (t = "rt" => row.parent = table[t][i].parent)

LEMMA UpdateRefusing ==
  ASSUME RowsInv, NEW r \in Request, r.kind = "update", r.id \in Ids, Present(r.t, r.id),
         Relooks(r.t, r.id, r.row, r.checks)
  PROVE  Refusing(r)
<1> DEFINE old == table[r.t][r.id]
           m == Merged(r)
<1> SUFFICES ASSUME <<r.t, r.kind>> \notin Unchecked, r.t \in Unique, NEW j \in Ids \ {r.id},
                    Present(r.t, j), \A k \in 1 .. Len(r.checks) : Pass(r.checks[k], r),
                    table[r.t][j].code = m.code, r.t = "rt" => table[r.t][j].parent = m.parent
             PROVE  FALSE
  BY DEF Refusing, Accepted, Taken
<1>1. old \in Row /\ r.t \in Tables /\ table[r.t][j] \in Row
  BY DEF RowsInv, RowsTyped, Request, Present
<1>2. m.parent = old.parent /\ m.code = IF r.row.code = NoCode THEN old.code ELSE r.row.code
  BY <1>1 DEF Merged, Row
<1>3. CASE r.row.code \in {NoCode, old.code}
  <2>1. m.code = old.code
    BY <1>2, <1>3
  <2>2. r.t # "rt" => table[r.t][j].parent = 0 /\ old.parent = 0
    BY DEF RowsInv, Rootless
  <2>3. table[r.t][j].parent = old.parent
    BY <1>2, <2>2
  <2>q. QED
    BY <2>1, <2>3 DEF RowsInv, CodesUnique
<1>4. CASE /\ r.row.code \notin {NoCode, old.code} /\ r.checks = <<"code">>
           /\ r.t = "rt" => r.row.parent = old.parent
  <2>1. Pass("code", r)
    BY <1>4
  <2>2. ~Taken(r.t, r.row, IF r.t = "rt" THEN r.id ELSE 0)
    BY <2>1 DEF Pass
  <2>3. j \in Ids \ {IF r.t = "rt" THEN r.id ELSE 0}
    BY RegistersAssumption
  <2>q. QED
    BY <1>2, <1>4, <2>2, <2>3 DEF Taken
<1>q. QED
  BY <1>3, <1>4 DEF Relooks

\* A row that nothing refers to but by links that go with it, or that is found unused.
LEMMA RemoveRefusing ==
  ASSUME NEW r \in Request, r.kind = "remove", r.id \in Ids, Present(r.t, r.id),
         \/ r.t \in {"event", "asset", "project", "post", "agenda", "gallery", "setting"}
         \/ r.checks = <<"unused">>
  PROVE  Refusing(r)
<1> SUFFICES ASSUME \A k \in 1 .. Len(r.checks) : Pass(r.checks[k], r)
             PROVE  Children(r.t, r.id) = {}
  BY DEF Refusing, Accepted
<1>1. CASE r.t \in {"event", "asset", "project", "post", "agenda", "gallery", "setting"}
  BY <1>1, ParentsAre DEF Children
<1>2. CASE r.checks = <<"unused">>
  <2>1. Pass("unused", r)
    BY <1>2
  <2>q. QED
    BY <2>1 DEF Pass
<1>q. QED
  BY <1>1, <1>2

-----------------------------------------------------------------------------
(* The methods.                                                              *)

LEMMA CreatesBegins ==
  ASSUME NEW c \in RegisterCalls, NEW t \in Tables, NEW row \in Row, NEW checks \in Checks,
         t = "record" => row.parent \in Ids,
         t \in Unique \ {"rt"} => row.parent = 0,
         t = "post" /\ row.status = "published" => row.at # 0,
         Lookups(t, row, checks), Creates(c, t, row, checks)
  PROVE  Begins(c)
<1> DEFINE r == [Quiet EXCEPT !.kind = "create", !.t = t, !.row = row]
           rest == IF checks = <<>> THEN <<>> ELSE Tail(checks)
           q == [r EXCEPT !.checks = rest]
<1>1. BeginCall(c, q) /\ (checks # <<>> => Pass(Head(checks), r))
  BY DEF Creates
<1>0. checks \in Seq(Reads) /\ Len(checks) <= 2
  BY ChecksTyped
<1>2. /\ rest \in Seq(Reads) /\ Len(rest) <= 2
      /\ checks # <<>> => Len(rest) = Len(checks) - 1 /\ \A k \in 1 .. Len(rest) : rest[k] = checks[k + 1]
  BY <1>0, HeadTailProperties, EmptySeq
<1>a. checks # <<>> => Head(checks) = checks[1] /\ Len(checks) \in Nat \ {0}
  BY <1>0, EmptySeq
<1>3. /\ r.t = t /\ r.row = row /\ r.id = 0
      /\ q \in Request /\ q.kind = "create" /\ q.t = t /\ q.row = row /\ q.id = 0 /\ q.checks = rest
  <2> HIDE DEF rest
  <2>1. r \in Request /\ r.kind = "create" /\ r.t = t /\ r.row = row /\ r.id = 0
    BY QuietTyped DEF Request, Quiet
  <2> HIDE DEF r
  <2>q. QED
    BY <1>2, <2>1 DEF Request
<1> HIDE DEF q, r, rest
<1>4. Sound(q) /\ Undated(q) /\ Dated(q)
  BY <1>2, <1>3 DEF Sound, Undated, Dated
<1>5. \A x : Pass(x, q) = Pass(x, r)
  BY <1>3 DEF Pass
<1>6. Refusing(q)
  <2> SUFFICES ASSUME \A k \in 1 .. Len(q.checks) : Pass(q.checks[k], q)
               PROVE  Accepted(q) \/ <<q.t, q.kind>> \in Unchecked
    BY DEF Refusing
  <2>1. ASSUME NEW k \in 1 .. Len(checks) PROVE Pass(checks[k], q)
    <3>0. checks # <<>>
      BY <2>1
    <3>1. CASE k = 1
      BY <1>1, <1>5, <1>a, <3>0, <3>1
    <3>2. CASE k # 1
      <4>1. k - 1 \in 1 .. Len(rest) /\ (k - 1) + 1 = k
        BY <1>2, <1>a, <3>0, <3>2
      <4>q. QED
        BY <1>2, <1>3, <3>0, <4>1
    <3>q. QED
      BY <3>1, <3>2
  <2>q. QED
    BY <1>3, <2>1, CreateRefusing
<1> QED BY <1>1, <1>4, <1>6 DEF Begins

LEMMA UpdatesBegins ==
  ASSUME RowsInv, NEW c \in RegisterCalls, NEW t \in Tables \ {"record"}, NEW i \in Ids, NEW row \in Row,
         NEW checks \in Checks,
         t = "post" => /\ row.at # 0 => table["post"][i].at \notin {1, 2}
                       /\ row.status = "published" /\ row.at = 0 => table["post"][i].at # 0,
         Relooks(t, i, row, checks), Updates(c, t, i, row, checks)
  PROVE  Begins(c)
<1>0. checks \in Seq(Reads) /\ Len(checks) <= 2
  BY ChecksTyped
<1> DEFINE q == [Quiet EXCEPT !.kind = "update", !.t = t, !.id = i, !.row = row, !.checks = checks]
<1>1. BeginCall(c, q) /\ Present(t, i)
  BY DEF Updates
<1>2. q \in Request /\ q.kind = "update" /\ q.t = t /\ q.row = row /\ q.id = i /\ q.checks = checks
  BY <1>0, QuietTyped DEF Request, Quiet
<1> HIDE DEF q
<1>a. table[t][i].at \in 0 .. 2
  BY <1>1 DEF RowsInv, RowsTyped, Present, Row
<1>3. Sound(q) /\ Undated(q) /\ Dated(q)
  BY <1>0, <1>2, <1>a DEF Sound, Undated, Dated
<1>4. Refusing(q)
  BY <1>1, <1>2, UpdateRefusing
<1> QED BY <1>1, <1>3, <1>4 DEF Begins

LEMMA RemovesBegins ==
  ASSUME NEW c \in RegisterCalls, NEW t \in Tables \ {"record"}, NEW checks \in Checks,
         \/ t \in {"event", "asset", "project", "post", "agenda", "gallery", "setting"}
         \/ checks = <<"unused">>,
         Removes(c, t, checks)
  PROVE  Begins(c)
<1>0. checks \in Seq(Reads) /\ Len(checks) <= 2
  BY ChecksTyped
<1>1. PICK i \in Ids :
        /\ Present(t, i)
        /\ BeginCall(c, [Quiet EXCEPT !.kind = "remove", !.t = t, !.id = i, !.checks = checks])
  BY Zenon DEF Removes
<1> DEFINE q == [Quiet EXCEPT !.kind = "remove", !.t = t, !.id = i, !.checks = checks]
<1>2. q \in Request /\ q.kind = "remove" /\ q.t = t /\ q.id = i /\ q.checks = checks
  BY <1>0, QuietTyped DEF Request, Quiet
<1>3. BeginCall(c, q)
  BY <1>1
<1> HIDE DEF q
<1>4. Sound(q) /\ Undated(q) /\ Dated(q)
  BY <1>0, <1>2 DEF Sound, Undated, Dated
<1>5. Refusing(q)
  BY <1>1, <1>2, RemoveRefusing
<1> QED BY <1>3, <1>4, <1>5 DEF Begins

Coding(c) == CreateHamlet(c) \/ CreateUnit(c) \/ CreateProgram(c) \/ CreateAsset(c) \/ CreateProject(c)
               \/ CreateBudgetYear(c) \/ CreateRole(c) \/ CreateAgenda(c)
Linking(c) == CreateNeighborhoodUnit(c) \/ CreateFinancialRecord(c) \/ AddRecipient(c) \/ CreateCivilEvent(c)
                \/ CreateBudgetItem(c) \/ CreateDocument(c) \/ CreateGalleryItem(c)
Recoding(c) == UpdateHamlet(c) \/ UpdateUnit(c) \/ UpdateProgram(c) \/ UpdateAsset(c) \/ UpdateProject(c)
Touching(c) == UpdateRecipient(c) \/ UpdateCivilEvent(c) \/ UpdateBudgetItem(c) \/ UpdateAgenda(c) \/ UpdateRole(c)
Removing(c) == RemoveUnit(c) \/ RemoveCivilEvent(c) \/ RemoveAsset(c) \/ RemoveProject(c) \/ RemovePost(c)
                 \/ RemoveAgenda(c) \/ RemoveGalleryItem(c) \/ RemoveSetting(c)
Posting(c) == CreatePost(c) \/ UpdatePost(c)

LEMMA CodingBegins == ASSUME NEW c \in RegisterCalls, Coding(c) PROVE Begins(c)
<1>1. ASSUME NEW t \in Tables \ {"record", "rt", "post"}, NEW k \in Codes, Creates(c, t, Coded(k), <<"code">>)
      PROVE  Begins(c)
  <2>1. Lookups(t, Coded(k), <<"code">>)
    BY CodedFacts DEF Lookups
  <2>q. QED
    BY <1>1, <2>1, CodedFacts, CreatesBegins DEF Checks
<1>a. Lookups("agenda", Blank, <<>>)
  BY DEF Lookups, Unique, Blank
<1>2. CASE CreateAgenda(c)
  <2>1. Creates(c, "agenda", Blank, <<>>)
    BY <1>2 DEF CreateAgenda
  <2>2. "agenda" \in Tables /\ "agenda" \notin Unique /\ <<>> \in Checks
    BY TablesAre DEF Unique, Checks
  <2>q. QED
    BY <1>a, <2>1, <2>2, RowFacts, CreatesBegins
<1>3. CASE CreateHamlet(c)
  BY <1>3, <1>1, TablesAre DEF CreateHamlet
<1>4. CASE CreateUnit(c)
  BY <1>4, <1>1, TablesAre DEF CreateUnit
<1>5. CASE CreateProgram(c)
  BY <1>5, <1>1, TablesAre DEF CreateProgram
<1>6. CASE CreateAsset(c)
  BY <1>6, <1>1, TablesAre DEF CreateAsset
<1>7. CASE CreateProject(c)
  BY <1>7, <1>1, TablesAre DEF CreateProject
<1>8. CASE CreateBudgetYear(c)
  BY <1>8, <1>1, TablesAre DEF CreateBudgetYear
<1>9. CASE CreateRole(c)
  BY <1>9, <1>1, TablesAre DEF CreateRole
<1> QED BY <1>2, <1>3, <1>4, <1>5, <1>6, <1>7, <1>8, <1>9 DEF Coding

LEMMA LinkingBegins == ASSUME NEW c \in RegisterCalls, Linking(c) PROVE Begins(c)
<1>1. ASSUME NEW t \in {"rt", "record", "recipient", "event", "item", "document", "gallery"},
             NEW k \in Codes \cup {NoCode}, NEW p \in Ids \cup {0},
             NEW checks \in {<<>>, <<"parent">>, <<"parent", "code">>}, t = "record" => p \in Ids,
             t = "rt" => checks = <<"parent", "code">>,
             t \in {"document", "gallery"} \/ checks # <<>>,
             Creates(c, t, Child(k, p), checks)
      PROVE  Begins(c)
  <2>1. t \in Tables /\ t \notin Unique \ {"rt"} /\ t # "post"
    BY TablesAre DEF Unique
  <2>2. checks # <<>> => 1 \in 1 .. Len(checks) /\ checks[1] = "parent"
    OBVIOUS
  <2>3. t = "rt" => 2 \in 1 .. Len(checks) /\ checks[2] = "code"
    BY <1>1
  <2>4. Lookups(t, Child(k, p), checks)
    <3>1. CASE t \in {"document", "gallery"}
      BY <3>1 DEF Lookups, Unchecked
    <3>2. CASE t \notin {"document", "gallery"}
      BY <1>1, <2>1, <2>2, <2>3, <3>2 DEF Lookups
    <3>q. QED
      BY <3>1, <3>2
  <2>5. checks \in Checks
    BY DEF Checks
  <2>q. QED
    BY <1>1, <2>1, <2>4, <2>5, ChildFacts, CreatesBegins
<1>2. CASE CreateNeighborhoodUnit(c)
  BY <1>2, <1>1, TablesAre DEF CreateNeighborhoodUnit
<1>3. CASE CreateFinancialRecord(c)
  BY <1>3, <1>1, TablesAre DEF CreateFinancialRecord
<1>4. CASE AddRecipient(c)
  BY <1>4, <1>1, TablesAre DEF AddRecipient
<1>5. CASE CreateCivilEvent(c)
  BY <1>5, <1>1, TablesAre DEF CreateCivilEvent
<1>6. CASE CreateBudgetItem(c)
  BY <1>6, <1>1, TablesAre DEF CreateBudgetItem
<1>7. CASE CreateDocument(c)
  BY <1>7, <1>1, TablesAre DEF CreateDocument
<1>8. CASE CreateGalleryItem(c)
  BY <1>8, <1>1, TablesAre DEF CreateGalleryItem
<1> QED BY <1>2, <1>3, <1>4, <1>5, <1>6, <1>7, <1>8 DEF Linking

LEMMA RecodingBegins == ASSUME RowsInv, NEW c \in RegisterCalls, Recoding(c) PROVE Begins(c)
<1>1. ASSUME NEW t \in {"hamlet", "unit", "program", "asset", "project"}, NEW i \in Ids,
             NEW k \in Codes \cup {NoCode}, NEW checks \in Checks,
             t = "hamlet" => checks = Changed(t, i, k), Updates(c, t, i, Coded(k), checks)
      PROVE  Begins(c)
  <2>1. Relooks(t, i, Coded(k), checks)
    <3>1. CASE t = "hamlet"
      BY <1>1, <3>1, CodedFacts, ChangedChecks DEF Relooks
    <3>2. CASE t # "hamlet"
      BY <3>2 DEF Relooks, Unchecked
    <3>q. QED
      BY <3>1, <3>2
  <2>2. t \in Tables \ {"record"} /\ t # "post"
    BY TablesAre
  <2>q. QED
    BY <1>1, <2>1, <2>2, CodedFacts, UpdatesBegins
<1>2. CASE UpdateHamlet(c)
  BY <1>2, <1>1, ChangedChecks DEF UpdateHamlet
<1>3. CASE UpdateUnit(c)
  BY <1>3, <1>1 DEF UpdateUnit, Checks
<1>4. CASE UpdateProgram(c)
  BY <1>4, <1>1 DEF UpdateProgram, Checks
<1>5. CASE UpdateAsset(c)
  BY <1>5, <1>1 DEF UpdateAsset, Checks
<1>6. CASE UpdateProject(c)
  BY <1>6, <1>1 DEF UpdateProject, Checks
<1> QED BY <1>2, <1>3, <1>4, <1>5, <1>6 DEF Recoding

LEMMA TouchingBegins == ASSUME RowsInv, NEW c \in RegisterCalls, Touching(c) PROVE Begins(c)
<1>1. ASSUME NEW t \in Tables \ {"record", "post"}, NEW i \in Ids, Updates(c, t, i, Blank, <<>>)
      PROVE  Begins(c)
  <2>1. Relooks(t, i, Blank, <<>>)
    BY DEF Relooks, Blank
  <2>q. QED
    BY <1>1, <2>1, RowFacts, UpdatesBegins DEF Checks
<1>2. CASE UpdateRecipient(c)
  BY <1>2, <1>1, TablesAre DEF UpdateRecipient
<1>3. CASE UpdateCivilEvent(c)
  BY <1>3, <1>1, TablesAre DEF UpdateCivilEvent
<1>4. CASE UpdateBudgetItem(c)
  BY <1>4, <1>1, TablesAre DEF UpdateBudgetItem
<1>5. CASE UpdateAgenda(c)
  BY <1>5, <1>1, TablesAre DEF UpdateAgenda
<1>6. CASE UpdateRole(c)
  BY <1>6, <1>1, TablesAre DEF UpdateRole
<1> QED BY <1>2, <1>3, <1>4, <1>5, <1>6 DEF Touching

LEMMA RemovingBegins == ASSUME NEW c \in RegisterCalls, Removing(c) PROVE Begins(c)
<1>1. ASSUME NEW t \in Tables \ {"record"}, NEW checks \in {<<>>, <<"unused">>}, Removes(c, t, checks),
             t \in {"event", "asset", "project", "post", "agenda", "gallery", "setting"} \/ checks = <<"unused">>
      PROVE  Begins(c)
  <2>1. checks \in Checks
    BY DEF Checks
  <2>q. QED
    BY <1>1, <2>1, RemovesBegins
<1>2. CASE RemoveUnit(c)
  BY <1>2, <1>1, TablesAre DEF RemoveUnit
<1>3. CASE RemoveCivilEvent(c)
  BY <1>3, <1>1, TablesAre DEF RemoveCivilEvent
<1>4. CASE RemoveAsset(c)
  BY <1>4, <1>1, TablesAre DEF RemoveAsset
<1>5. CASE RemoveProject(c)
  BY <1>5, <1>1, TablesAre DEF RemoveProject
<1>6. CASE RemovePost(c)
  BY <1>6, <1>1, TablesAre DEF RemovePost
<1>7. CASE RemoveAgenda(c)
  BY <1>7, <1>1, TablesAre DEF RemoveAgenda
<1>8. CASE RemoveGalleryItem(c)
  BY <1>8, <1>1, TablesAre DEF RemoveGalleryItem
<1>9. CASE RemoveSetting(c)
  BY <1>9, <1>1, TablesAre DEF RemoveSetting
<1> QED BY <1>2, <1>3, <1>4, <1>5, <1>6, <1>7, <1>8, <1>9 DEF Removing

PostRow(k, s, d) == [Coded(k) EXCEPT !.status = s, !.at = d]

LEMMA PostFacts ==
  ASSUME NEW k \in Codes \cup {NoCode}, NEW s \in {"draft", "published"}, NEW d \in 0 .. 2
  PROVE  /\ PostRow(k, s, d) \in Row /\ PostRow(k, s, d).at = d
         /\ PostRow(k, s, d).status = s /\ PostRow(k, s, d).parent = 0
<1> DEFINE q == [Coded(k) EXCEPT !.status = s]
<1>1. PostRow(k, s, d) = [q EXCEPT !.at = d]
  BY DEF PostRow, Coded, Blank
<1>2. q \in Row /\ q.status = s /\ q.parent = 0
  BY CodedFacts DEF Row
<1> HIDE DEF q
<1> QED BY <1>1, <1>2 DEF Row

LEMMA PostingBegins == ASSUME RowsInv, NEW c \in RegisterCalls, Posting(c) PROVE Begins(c)
<1>0. "post" \in Tables \ {"record"} /\ <<>> \in Checks
  BY TablesAre DEF Checks
<1>1. CASE CreatePost(c)
  <2>1. PICK k \in Codes, s \in {"draft", "published"} :
          Creates(c, "post", [Coded(k) EXCEPT !.status = s, !.at = IF s = "published" THEN 1 ELSE 0], <<>>)
    BY <1>1 DEF CreatePost
  <2> DEFINE at == IF s = "published" THEN 1 ELSE 0
             row == PostRow(k, s, at)
  <2>2. at \in 0 .. 2 /\ (s = "published" => at # 0)
    OBVIOUS
  <2>4. Creates(c, "post", row, <<>>)
    BY <2>1 DEF PostRow
  <2> HIDE DEF at
  <2>3. row \in Row /\ row.at = at /\ row.status = s /\ row.parent = 0
    BY <2>2, PostFacts
  <2> HIDE DEF row
  <2>5. Lookups("post", row, <<>>)
    BY DEF Lookups, Unchecked
  <2> QED BY <1>0, <2>2, <2>3, <2>4, <2>5, CreatesBegins
<1>2. CASE UpdatePost(c)
  <2>1. PICK i \in Ids, k \in Codes \cup {NoCode}, s \in {"draft", "published"} :
          Updates(c, "post", i, [Coded(k) EXCEPT !.status = s, !.at = Date(i, s)], <<>>)
    BY <1>2 DEF UpdatePost
  <2>2. /\ Date(i, s) \in 0 .. 2 /\ (Date(i, s) # 0 => table["post"][i].at = 0)
        /\ s = "published" /\ Date(i, s) = 0 => table["post"][i].at # 0
    BY DEF Date, Redated
  <2> DEFINE row == PostRow(k, s, Date(i, s))
  <2>4. Updates(c, "post", i, row, <<>>)
    BY <2>1 DEF PostRow
  <2>3. row \in Row /\ row.at = Date(i, s) /\ row.status = s
    BY <2>2, PostFacts
  <2> HIDE DEF row
  <2>5. /\ row.at # 0 => table["post"][i].at \notin {1, 2}
        /\ row.status = "published" /\ row.at = 0 => table["post"][i].at # 0
    BY <2>2, <2>3
  <2>6. Relooks("post", i, row, <<>>)
    BY DEF Relooks, Unchecked
  <2> QED BY <1>0, <2>3, <2>4, <2>5, <2>6, UpdatesBegins
<1> QED BY <1>1, <1>2 DEF Posting

LEMMA PairBegins ==
  ASSUME RowsInv, NEW c \in RegisterCalls, UpdateNeighborhoodUnit(c)
  PROVE  Begins(c)
<1>1. PICK i \in Ids, k \in Codes : Updates(c, "rt", i, Child(k, table["rt"][i].parent), Changed("rt", i, k))
  BY DEF UpdateNeighborhoodUnit
<1>2. "rt" \in Tables
  BY TablesAre
<1>3. table["rt"][i] \in Row
  BY <1>1, <1>2 DEF RowsInv, RowsTyped, Updates, Present
<1> DEFINE p == table["rt"][i].parent
<1>4. p \in Ids \cup {0}
  BY <1>3 DEF Row
<1>5. Child(k, p) \in Row /\ Child(k, p).code = k /\ Child(k, p).parent = p
  BY <1>4, ChildFacts
<1>6. Relooks("rt", i, Child(k, p), Changed("rt", i, k))
  BY <1>5, ChangedChecks DEF Relooks
<1>7. Changed("rt", i, k) \in Checks
  BY ChangedChecks
<1> QED BY <1>1, <1>2, <1>5, <1>6, <1>7, UpdatesBegins

LEMMA UpsertBegins == ASSUME NEW c \in RegisterCalls, UpsertSetting(c) PROVE Begins(c)
<1>1. PICK k \in Codes : BeginCall(c, [Quiet EXCEPT !.kind = "upsert", !.t = "setting", !.row = Coded(k)])
  BY DEF UpsertSetting
<1> DEFINE q == [Quiet EXCEPT !.kind = "upsert", !.t = "setting", !.row = Coded(k)]
<1>2. Coded(k) \in Row /\ Coded(k).parent = 0 /\ "setting" \in Tables
  BY CodedFacts, TablesAre
<1>3. /\ q \in Request /\ q.kind = "upsert" /\ q.t = "setting" /\ q.row = Coded(k)
      /\ q.checks = <<>> /\ Len(<<>>) = 0
  BY <1>2, QuietTyped DEF Request, Quiet
<1>a. BeginCall(c, q)
  BY <1>1
<1> HIDE DEF q
<1>4. Sound(q) /\ Undated(q) /\ Dated(q)
  BY <1>2, <1>3 DEF Sound, Undated, Dated
<1>5. Refusing(q)
  BY <1>3 DEF Refusing, Accepted
<1> QED BY <1>a, <1>4, <1>5 DEF Begins

\* Whatever the method, a step begins a call, makes a check of one or writes for one.
LEMMA StepKinds ==
  ASSUME RowsInv, RegistersNext
  PROVE  \E c \in RegisterCalls : Starts(c) \/ CheckNext(c) \/ WriteRow(c)
<1>1. PICK c \in RegisterCalls : Call(c) \/ CheckNext(c) \/ WriteRow(c)
  BY DEF RegistersNext
<1>2. CASE Call(c)
  <2>1. /\ rcall[c] = Quiet
        /\ \/ Coding(c) \/ Linking(c) \/ Recoding(c) \/ Touching(c) \/ Removing(c) \/ Posting(c)
           \/ UpdateNeighborhoodUnit(c) \/ UpsertSetting(c)
    BY <1>2 DEF Call, Coding, Linking, Recoding, Touching, Removing, Posting
  <2> QED BY <2>1, CodingBegins, LinkingBegins, RecodingBegins, TouchingBegins, RemovingBegins, PostingBegins,
             PairBegins, UpsertBegins DEF Starts
<1> QED BY <1>1, <1>2

-----------------------------------------------------------------------------
(* The invariant holds initially and every step keeps it.                    *)
LEMMA PastInvInit == ASSUME RegistersInit PROVE PastInv
<1>1. RowsTyped
  BY RowFacts DEF RegistersInit, RowsTyped
<1>2. CallsTyped /\ CallsSound /\ AloneInv /\ DatesFresh
  BY QuietTyped DEF RegistersInit, CallsTyped, CallsSound, AloneInv, DatesFresh
<1>3. \A i \in Ids : ~Present("record", i)
  BY TablesAre DEF RegistersInit, Present
<1> QED BY <1>1, <1>2, <1>3 DEF PastInv, RecordsLinked

LEMMA BeginKeeps ==
  ASSUME PastInv, NEW c \in RegisterCalls, Starts(c)
  PROVE  PastInv' /\ UNCHANGED table
<1> DEFINE busy == {d \in RegisterCalls : rcall[d] # Quiet}
<1>1. PICK r : Sound(r) /\ Undated(r) /\ BeginCall(c, r)
  BY Zenon DEF Starts, Begins
<1> DEFINE q == [r EXCEPT !.alone = busy = {}]
<1>2. /\ rcall[c] = Quiet /\ table' = table
      /\ rcall' = [d \in RegisterCalls |-> IF d = c THEN q
                                          ELSE IF d \in busy THEN [rcall[d] EXCEPT !.alone = FALSE] ELSE rcall[d]]
  BY <1>1 DEF Starts, BeginCall
<1>3. /\ q \in Request /\ q.kind = r.kind /\ q.t = r.t /\ q.id = r.id /\ q.row = r.row
      /\ q.alone = (busy = {}) /\ q.checks = r.checks
  BY <1>1 DEF Sound, Request
<1>4. \A d \in busy : LET e == [rcall[d] EXCEPT !.alone = FALSE] IN
        /\ e \in Request /\ e.kind = rcall[d].kind /\ e.t = rcall[d].t /\ e.id = rcall[d].id
        /\ e.row = rcall[d].row /\ e.alone = FALSE /\ e.checks = rcall[d].checks
  BY DEF PastInv, CallsTyped, Request
<1>5. Sound(q) /\ Undated(q)
  BY <1>1, <1>3 DEF Sound, Undated
<1>6. CallsTyped'
  BY <1>2, <1>3, <1>4 DEF PastInv, CallsTyped
<1>7. CallsSound'
  <2> SUFFICES ASSUME NEW d \in RegisterCalls, rcall'[d] # Quiet PROVE Sound(rcall'[d])
    BY Zenon DEF CallsSound, Sound
  <2>1. CASE d = c
    BY <1>2, <1>5, <2>1
  <2>2. CASE d # c /\ d \in busy
    <3>1. rcall'[d] = [rcall[d] EXCEPT !.alone = FALSE]
      BY <1>2, <2>2
    <3>q. QED
      BY <1>4, <2>2, <3>1 DEF PastInv, CallsSound, Sound
  <2>3. CASE d # c /\ d \notin busy
    BY <1>2, <2>3
  <2>q. QED
    BY <2>1, <2>2, <2>3
<1>8. AloneInv'
  BY <1>2, <1>3, <1>4 DEF AloneInv
<1>9. DatesFresh'
  BY <1>2, <1>4, <1>5 DEF PastInv, DatesFresh, Undated
<1>10. RowsTyped' /\ RecordsLinked'
  BY <1>2 DEF PastInv, RowsTyped, RecordsLinked, Present
<1> QED BY <1>2, <1>6, <1>7, <1>8, <1>9, <1>10 DEF PastInv

LEMMA CheckKeeps ==
  ASSUME PastInv, NEW c \in RegisterCalls, CheckNext(c)
  PROVE  PastInv' /\ UNCHANGED table
<1> DEFINE r == rcall[c]
           q == [r EXCEPT !.checks = Tail(r.checks)]
<1>1. table' = table /\ r.checks # <<>> /\ r \in Request
  BY DEF CheckNext, PastInv, CallsTyped
<1>2. /\ Tail(r.checks) \in Seq(Reads) /\ Len(Tail(r.checks)) = Len(r.checks) - 1
      /\ Len(r.checks) \in Nat
  BY <1>1, HeadTailProperties DEF Request
<1>3. /\ q \in Request /\ q.kind = r.kind /\ q.t = r.t /\ q.id = r.id /\ q.row = r.row
      /\ q.alone = r.alone /\ q.checks = Tail(r.checks)
  BY <1>1, <1>2 DEF Request
<1>4. r # Quiet
  BY <1>1 DEF Quiet
<1>a. rcall' = [rcall EXCEPT ![c] = IF Pass(Head(r.checks), r) THEN q ELSE Quiet]
  BY DEF CheckNext
<1>5. rcall' = [rcall EXCEPT ![c] = q] \/ rcall' = [rcall EXCEPT ![c] = Quiet]
  <2>1. CASE Pass(Head(r.checks), r)
    BY <1>a, <2>1
  <2>2. CASE ~Pass(Head(r.checks), r)
    BY <1>a, <2>2
  <2> QED BY <2>1, <2>2
<1>6. CallsTyped'
  BY <1>3, <1>5, QuietTyped DEF PastInv, CallsTyped
<1>7. CallsSound'
  <2> SUFFICES ASSUME NEW d \in RegisterCalls, rcall'[d] # Quiet PROVE Sound(rcall'[d])
    BY Zenon DEF CallsSound, Sound
  <2>1. Sound(r)
    BY <1>4 DEF PastInv, CallsSound
  <2>2. Sound(q)
    <3> HIDE DEF q, r
    <3> QED BY <1>2, <1>3, <2>1 DEF Sound
  <2>3. CASE d = c
    <3>1. rcall'[d] = q
      BY <1>5, <2>3 DEF PastInv, CallsTyped
    <3> QED BY <2>2, <3>1
  <2>4. CASE d # c
    <3>1. rcall'[d] = rcall[d]
      BY <1>5, <2>4 DEF PastInv, CallsTyped
    <3> QED BY <3>1 DEF PastInv, CallsSound
  <2> QED BY <2>3, <2>4
<1>8. AloneInv'
  <2>1. rcall'[c] \in {q, Quiet} /\ \A d \in RegisterCalls \ {c} : rcall'[d] = rcall[d]
    BY <1>5 DEF PastInv, CallsTyped
  <2>2. \A d \in RegisterCalls : rcall'[d] # Quiet =>
          rcall[d] # Quiet /\ rcall'[d].alone = rcall[d].alone
    <3> HIDE DEF q
    <3> QED BY <1>3, <1>4, <2>1
  <2>3. \A d \in RegisterCalls : rcall[d] = Quiet => rcall'[d] = Quiet
    BY <1>4, <2>1
  <2> QED BY <2>2, <2>3 DEF PastInv, AloneInv
<1>9. DatesFresh'
  <2> SUFFICES ASSUME NEW d \in RegisterCalls, (rcall[d] # Quiet /\ rcall[d].alone)'
               PROVE  Undated(rcall[d])'
    BY DEF DatesFresh
  <2>1. CASE d # c
    BY <1>1, <1>5, <2>1 DEF PastInv, CallsTyped, DatesFresh, Undated
  <2>2. CASE d = c
    <3>1. rcall'[c] = q
      BY <1>5, <2>2 DEF PastInv, CallsTyped
    <3>2. Undated(r)
      BY <1>3, <1>4, <2>2, <3>1 DEF PastInv, DatesFresh
    <3> HIDE DEF q, r
    <3> QED BY <1>1, <1>3, <2>2, <3>1, <3>2 DEF Undated
  <2> QED BY <2>1, <2>2
<1>10. RowsTyped' /\ RecordsLinked'
  BY <1>1 DEF PastInv, RowsTyped, RecordsLinked, Present
<1> QED BY <1>1, <1>6, <1>7, <1>8, <1>9, <1>10 DEF PastInv

\* What a write does to the rows, by its kind; all other rows stay.
LEMMA WriteEffect ==
  ASSUME PastInv, NEW c \in RegisterCalls, WriteRow(c), table' # table
  PROVE  /\ rcall[c] \in Request /\ Sound(rcall[c]) /\ Accepted(rcall[c])
         /\ rcall[c].kind = "upsert" => ~Taken(rcall[c].t, rcall[c].row, 0)
         /\ \E i \in Ids :
              /\ IF rcall[c].kind \in {"create", "upsert"} THEN table[rcall[c].t][i] = NoRow ELSE i = rcall[c].id
              /\ table' = [u \in Tables |->
                            [j \in Ids |-> IF u = rcall[c].t /\ j = i
                                             THEN CASE rcall[c].kind = "remove" -> Gone
                                                    [] rcall[c].kind = "update" -> Merged(rcall[c])
                                                    [] OTHER -> rcall[c].row
                                           ELSE IF rcall[c].kind = "remove" /\ <<u, j>> \in Children(rcall[c].t, i)
                                             THEN Gone ELSE table[u][j]]]
BY DEF WriteRow, PastInv, CallsTyped, CallsSound

LEMMA MergedTyped ==
  ASSUME PastInv, NEW r \in Request, r.id \in Ids, Present(r.t, r.id)
  PROVE  /\ Merged(r) \in Row /\ Merged(r).parent = table[r.t][r.id].parent
         /\ Merged(r).status = r.row.status
         /\ Merged(r).at = IF r.row.at = 0 THEN table[r.t][r.id].at ELSE r.row.at
<1> DEFINE old == table[r.t][r.id]
<1>1. old \in Row /\ r.row \in Row
  BY DEF PastInv, RowsTyped, Request, Present
<1> DEFINE k == IF r.row.code = NoCode THEN old.code ELSE r.row.code
           a == IF r.row.at = 0 THEN old.at ELSE r.row.at
<1>2. k \in Codes \cup {NoCode} /\ a \in 0 .. 2 /\ r.row.status \in {"draft", "published"}
  BY <1>1 DEF Row
<1>3. Merged(r) = [[[old EXCEPT !.code = k] EXCEPT !.status = r.row.status] EXCEPT !.at = a]
  BY <1>1 DEF Merged, Row
<1> HIDE DEF k, a
<1>4. [old EXCEPT !.code = k] \in Row /\ [old EXCEPT !.code = k].parent = old.parent
  BY <1>1, <1>2 DEF Row
<1>5. LET o == [[old EXCEPT !.code = k] EXCEPT !.status = r.row.status] IN
        o \in Row /\ o.parent = old.parent /\ o.status = r.row.status
  BY <1>2, <1>4 DEF Row
<1>6. Merged(r) \in Row /\ Merged(r).parent = old.parent /\ Merged(r).at = a /\ Merged(r).status = r.row.status
  BY <1>2, <1>3, <1>5 DEF Row
<1> QED BY <1>6 DEF a

LEMMA WriteKeeps ==
  ASSUME PastInv, NEW c \in RegisterCalls, WriteRow(c), table' # table
  PROVE  RowsTyped' /\ RecordsLinked' /\ HistoryKept /\ FirstDateKept
<1> DEFINE r == rcall[c]
<1>1. r \in Request /\ Sound(r) /\ Accepted(r)
  BY WriteEffect
<1>2. PICK i \in Ids :
        /\ IF r.kind \in {"create", "upsert"} THEN table[r.t][i] = NoRow ELSE i = r.id
        /\ table' = [u \in Tables |->
                      [j \in Ids |-> IF u = r.t /\ j = i
                                       THEN CASE r.kind = "remove" -> Gone [] r.kind = "update" -> Merged(r)
                                              [] OTHER -> r.row
                                     ELSE IF r.kind = "remove" /\ <<u, j>> \in Children(r.t, i)
                                       THEN Gone ELSE table[u][j]]]
  BY WriteEffect
<1> HIDE DEF r
<1>3. r.kind \in {"create", "update", "remove", "upsert"} /\ r.t \in Tables /\ r.row \in Row
  BY <1>1 DEF Sound, Request
<1>4. r.kind = "update" => /\ Present(r.t, i) /\ Merged(r) \in Row
                           /\ (r.row.at = 0 => Merged(r).at = table[r.t][i].at)
  BY <1>1, <1>2, MergedTyped DEF Accepted, Sound
<1>5. \A u \in Tables, j \in Ids :
        /\ r.kind = "remove" => table'[u][j] = IF (u = r.t /\ j = i) \/ <<u, j>> \in Children(r.t, i)
                                                 THEN Gone ELSE table[u][j]
        /\ r.kind = "update" => table'[u][j] = IF u = r.t /\ j = i THEN Merged(r) ELSE table[u][j]
        /\ r.kind \in {"create", "upsert"} => table'[u][j] = IF u = r.t /\ j = i THEN r.row ELSE table[u][j]
  <2> TAKE u \in Tables, j \in Ids
  <2>1. CASE u = r.t /\ j = i
    BY <1>2, <2>1
  <2>2. CASE ~(u = r.t /\ j = i)
    BY <1>2, <2>2
  <2> QED BY <2>1, <2>2
<1>6. RowsTyped'
  <2>1. ASSUME NEW u \in Tables, NEW j \in Ids
        PROVE  table'[u][j] \in Row \cup {NoRow, Gone}
    <3>1. table[u][j] \in Row \cup {NoRow, Gone}
      BY DEF PastInv, RowsTyped
    <3>2. CASE r.kind = "remove"
      BY <1>5, <3>1, <3>2
    <3>3. CASE r.kind = "update"
      BY <1>4, <1>5, <3>1, <3>3
    <3>4. CASE r.kind \in {"create", "upsert"}
      BY <1>3, <1>5, <3>1, <3>4
    <3> QED BY <1>3, <3>2, <3>3, <3>4
  <2> QED BY <1>2, <2>1 DEF RowsTyped
<1>7. \A j \in Ids : Present("record", j) => table'["record"][j] = table["record"][j]
  <2> SUFFICES ASSUME NEW j \in Ids, Present("record", j) PROVE table'["record"][j] = table["record"][j]
    OBVIOUS
  <2>1. "record" \in Tables
    BY TablesAre
  <2>2. CASE r.kind = "remove"
    <3>1. r.t # "record"
      BY <1>1, <2>2 DEF Sound
    <3>2. <<"record", j>> \notin Children(r.t, i)
      BY <1>1, <1>2, <2>2 DEF Accepted, OnDelete
    <3> QED BY <1>5, <2>1, <2>2, <3>1, <3>2
  <2>3. CASE r.kind = "update"
    BY <1>1, <1>5, <2>1, <2>3 DEF Sound
  <2>4. CASE r.kind \in {"create", "upsert"}
    BY <1>2, <1>5, <2>1, <2>4 DEF Present
  <2> QED BY <1>3, <2>2, <2>3, <2>4
<1>8. \A j, p \in Ids : Present("record", j) /\ table["record"][j].parent = p /\ Present("unit", p)
                          => Present("unit", p)'
  <2> SUFFICES ASSUME NEW j \in Ids, NEW p \in Ids, Present("record", j), table["record"][j].parent = p,
                      Present("unit", p)
               PROVE  Present("unit", p)'
    OBVIOUS
  <2>1. "record" \in Tables /\ "unit" \in Tables /\ "none" \notin Tables
    BY TablesAre
  <2>2. CASE r.kind = "remove"
    <3>1. ~(r.t = "unit" /\ i = p)
      <4> SUFFICES ASSUME r.t = "unit", i = p PROVE FALSE
        OBVIOUS
      <4>1. ParentOf("record") = "unit"
        BY DEF ParentOf
      <4>2. <<"record", j>> \in Children(r.t, i)
        BY <2>1, <4>1 DEF Children
      <4> QED BY <1>1, <1>2, <2>2, <4>2 DEF Accepted, OnDelete
    <3>2. ParentOf("unit") = "none"
      BY DEF ParentOf
    <3>3. <<"unit", p>> \notin Children(r.t, i)
      BY <1>3, <2>1, <3>2 DEF Children
    <3> QED BY <1>5, <2>1, <2>2, <3>1, <3>3 DEF Present
  <2>3. CASE r.kind = "update"
    BY <1>4, <1>5, <2>1, <2>3, RowFacts DEF Present
  <2>4. CASE r.kind \in {"create", "upsert"}
    BY <1>2, <1>5, <2>1, <2>4 DEF Present
  <2> QED BY <1>3, <2>2, <2>3, <2>4
<1>9. HistoryKept
  BY <1>7, <1>8 DEF HistoryKept, PastInv, RecordsLinked, Present
<1>10. RecordsLinked'
  <2> SUFFICES ASSUME NEW j \in Ids, Present("record", j)'
               PROVE  (table["record"][j].parent \in Ids /\ Present("unit", table["record"][j].parent))'
    BY DEF RecordsLinked
  <2>1. CASE Present("record", j)
    BY <1>7, <1>8, <2>1 DEF PastInv, RecordsLinked
  <2>2. CASE ~Present("record", j)
    <3>1. "record" \in Tables /\ "unit" \in Tables
      BY TablesAre
    <3>2. r.t = "record" /\ i = j
      BY <1>3, <1>5, <2>2, <3>1 DEF Present
    <3>3. r.kind = "create" /\ r.row.parent \in Ids /\ table'["record"][j] = r.row
      BY <1>1, <1>5, <3>1, <3>2 DEF Sound
    <3>4. Present("unit", r.row.parent)
      BY <1>1, <3>2, <3>3, RegistersAssumption DEF Accepted, ParentOf
    <3>5. table'["unit"][r.row.parent] = table["unit"][r.row.parent]
      BY <1>5, <3>1, <3>2, <3>3
    <3> QED BY <3>3, <3>4, <3>5 DEF Present
  <2> QED BY <2>1, <2>2
<1>11. FirstDateKept
  <2> SUFFICES ASSUME NEW j \in Ids, table["post"][j].at \in {1, 2},
                      ~(\E d \in RegisterCalls : ~rcall[d].alone /\ rcall[d].kind = "update")
               PROVE  table'["post"][j] = Gone \/ table'["post"][j].at = table["post"][j].at
    BY DEF FirstDateKept
  <2>1. "post" \in Tables /\ "none" \notin Tables
    BY TablesAre
  <2>2. CASE r.kind = "remove"
    BY <1>5, <2>1, <2>2
  <2>3. CASE r.kind = "update"
    <3>1. CASE r.t = "post" /\ j = i
      <4>1. r # Quiet /\ r.alone
        BY <2>3, QuietTyped DEF r
      <4>2. r.row.at # 0 => table["post"][j].at \notin {1, 2}
        BY <1>2, <2>3, <3>1, <4>1 DEF PastInv, DatesFresh, Undated, r
      <4> QED BY <1>4, <1>5, <2>1, <2>3, <3>1, <4>2
    <3>2. CASE ~(r.t = "post" /\ j = i)
      BY <1>5, <2>1, <2>3, <3>2
    <3> QED BY <3>1, <3>2
  <2>4. CASE r.kind \in {"create", "upsert"}
    BY <1>2, <1>5, <2>1, <2>4, RowFacts
  <2> QED BY <1>3, <2>2, <2>3, <2>4
<1> QED BY <1>6, <1>9, <1>10, <1>11

LEMMA StayKeeps ==
  ASSUME PastInv, UNCHANGED table
  PROVE  HistoryKept /\ FirstDateKept
BY DEF PastInv, RecordsLinked, HistoryKept, FirstDateKept, Present

LEMMA WriteStep ==
  ASSUME PastInv, NEW c \in RegisterCalls, WriteRow(c)
  PROVE  PastInv' /\ HistoryKept /\ FirstDateKept
<1>1. rcall' = [rcall EXCEPT ![c] = Quiet] /\ rcall[c] # Quiet
  BY DEF WriteRow
<1>2. CallsTyped' /\ CallsSound' /\ AloneInv'
  BY <1>1, QuietTyped DEF PastInv, CallsTyped, CallsSound, AloneInv
<1>3. DatesFresh'
  <2> SUFFICES ASSUME NEW d \in RegisterCalls, (rcall[d] # Quiet /\ rcall[d].alone)' PROVE FALSE
    BY DEF DatesFresh
  <2>1. d # c /\ rcall[d] # Quiet /\ rcall[d].alone
    BY <1>1 DEF PastInv, CallsTyped
  <2> QED BY <1>1, <2>1 DEF PastInv, AloneInv
<1>4. CASE table' = table
  <2>1. RowsTyped' /\ RecordsLinked'
    BY <1>4 DEF PastInv, RowsTyped, RecordsLinked, Present
  <2> QED BY <1>2, <1>3, <1>4, <2>1, StayKeeps DEF PastInv
<1>5. CASE table' # table
  BY <1>2, <1>3, <1>5, WriteKeeps DEF PastInv
<1> QED BY <1>4, <1>5

-----------------------------------------------------------------------------
(* The codes, the answers and the dates.                                     *)

LEMMA BeginSound ==
  ASSUME PastInv, SoundInv, NEW c \in RegisterCalls, Starts(c)
  PROVE  SoundInv'
<1> DEFINE busy == {d \in RegisterCalls : rcall[d] # Quiet}
<1>1. PICK r : Sound(r) /\ Dated(r) /\ Refusing(r) /\ BeginCall(c, r)
  BY Zenon DEF Starts, Begins
<1> DEFINE q == [r EXCEPT !.alone = busy = {}]
<1>2. /\ rcall[c] = Quiet /\ table' = table
      /\ rcall' = [d \in RegisterCalls |-> IF d = c THEN q
                                          ELSE IF d \in busy THEN [rcall[d] EXCEPT !.alone = FALSE] ELSE rcall[d]]
  BY <1>1 DEF Starts, BeginCall
<1>3. /\ q.kind = r.kind /\ q.t = r.t /\ q.id = r.id /\ q.row = r.row /\ q.checks = r.checks
  BY <1>1 DEF Sound, Request
<1>4. \A d \in busy : LET e == [rcall[d] EXCEPT !.alone = FALSE] IN
        /\ e.kind = rcall[d].kind /\ e.t = rcall[d].t /\ e.id = rcall[d].id
        /\ e.row = rcall[d].row /\ e.alone = FALSE
  BY DEF PastInv, CallsTyped, Request
<1>5. CodesUnique' /\ Rootless' /\ PublishedDated'
  BY <1>2 DEF SoundInv, CodesUnique, Rootless, PublishedDated, Present
<1>6. PostsDated'
  <2> SUFFICES ASSUME NEW d \in RegisterCalls, rcall'[d] # Quiet PROVE Dated(rcall[d])'
    BY Zenon DEF PostsDated
  <2>1. CASE d = c
    <3>1. rcall'[d] = q
      BY <1>2, <2>1
    <3> HIDE DEF q
    <3>q. QED
      BY <1>1, <1>2, <1>3, <3>1 DEF Dated
  <2>2. CASE d # c /\ d \in busy
    <3>1. rcall'[d] = [rcall[d] EXCEPT !.alone = FALSE]
      BY <1>2, <2>2
    <3>2. Dated(rcall[d])
      BY <2>2 DEF SoundInv, PostsDated
    <3>q. QED
      BY <1>2, <1>4, <2>2, <3>1, <3>2 DEF Dated
  <2>3. CASE d # c /\ d \notin busy
    BY <1>2, <2>3
  <2>q. QED
    BY <2>1, <2>2, <2>3
<1>7. ReadsSuffice'
  <2> SUFFICES ASSUME NEW d \in RegisterCalls, rcall'[d] # Quiet, rcall'[d].alone PROVE Refusing(rcall[d])'
    BY Zenon DEF ReadsSuffice
  <2>1. CASE d = c
    <3>1. rcall'[d] = q
      BY <1>2, <2>1
    <3> HIDE DEF q
    <3>2. \A x : Pass(x, q) <=> Pass(x, r)
      BY <1>3 DEF Pass
    <3>3. Accepted(q) <=> Accepted(r)
      BY <1>3 DEF Accepted, Taken, Children, Merged
    <3>4. Refusing(q)
      BY <1>1, <1>3, <3>2, <3>3 DEF Refusing
    <3>q. QED
      BY <1>2, <3>1, <3>4 DEF Refusing, Accepted, Pass, Taken, Children, Merged, Present
  <2>2. CASE d # c /\ d \in busy
    BY <1>2, <1>4, <2>2
  <2>3. CASE d # c /\ d \notin busy
    BY <1>2, <2>3
  <2>q. QED
    BY <2>1, <2>2, <2>3
<1>q. QED
  BY <1>5, <1>6, <1>7 DEF SoundInv

LEMMA CheckSound ==
  ASSUME PastInv, SoundInv, NEW c \in RegisterCalls, CheckNext(c)
  PROVE  SoundInv'
<1> DEFINE r == rcall[c]
           q == [r EXCEPT !.checks = Tail(r.checks)]
<1>1. table' = table /\ r.checks # <<>> /\ r \in Request
  BY DEF CheckNext, PastInv, CallsTyped
<1>2. /\ Tail(r.checks) \in Seq(Reads) /\ Len(Tail(r.checks)) = Len(r.checks) - 1
      /\ Len(r.checks) \in Nat \ {0} /\ Head(r.checks) = r.checks[1]
      /\ \A k \in 1 .. Len(r.checks) - 1 : Tail(r.checks)[k] = r.checks[k + 1]
  BY <1>1, HeadTailProperties, EmptySeq DEF Request
<1>3. /\ q.kind = r.kind /\ q.t = r.t /\ q.id = r.id /\ q.row = r.row
      /\ q.alone = r.alone /\ q.checks = Tail(r.checks)
  BY <1>1, <1>2 DEF Request
<1>4. r # Quiet
  BY <1>1 DEF Quiet
<1>a. rcall' = [rcall EXCEPT ![c] = IF Pass(Head(r.checks), r) THEN q ELSE Quiet]
  BY DEF CheckNext
<1>5. /\ \A d \in RegisterCalls \ {c} : rcall'[d] = rcall[d]
      /\ rcall'[c] = Quiet \/ (rcall'[c] = q /\ Pass(Head(r.checks), r))
  <2> HIDE DEF q
  <2>1. CASE Pass(Head(r.checks), r)
    BY <1>a, <2>1 DEF PastInv, CallsTyped
  <2>2. CASE ~Pass(Head(r.checks), r)
    BY <1>a, <2>2 DEF PastInv, CallsTyped
  <2>q. QED
    BY <2>1, <2>2
<1> HIDE DEF q
<1>6. CodesUnique' /\ Rootless' /\ PublishedDated'
  BY <1>1 DEF SoundInv, CodesUnique, Rootless, PublishedDated, Present
<1>7. PostsDated'
  <2> SUFFICES ASSUME NEW d \in RegisterCalls, rcall'[d] # Quiet PROVE Dated(rcall[d])'
    BY Zenon DEF PostsDated
  <2>1. rcall[d] # Quiet /\ Dated(rcall[d])
    BY <1>4, <1>5 DEF SoundInv, PostsDated
  <2>2. /\ rcall'[d].kind = rcall[d].kind /\ rcall'[d].t = rcall[d].t /\ rcall'[d].id = rcall[d].id
        /\ rcall'[d].row = rcall[d].row
    BY <1>3, <1>5
  <2>q. QED
    BY <1>1, <2>1, <2>2 DEF Dated
<1>8. ReadsSuffice'
  <2> SUFFICES ASSUME NEW d \in RegisterCalls, rcall'[d] # Quiet, rcall'[d].alone PROVE Refusing(rcall[d])'
    BY Zenon DEF ReadsSuffice
  <2>1. CASE d # c
    <3>1. rcall'[d] = rcall[d] /\ Refusing(rcall[d])
      BY <1>5, <2>1 DEF SoundInv, ReadsSuffice
    <3>q. QED
      BY <1>1, <3>1 DEF Refusing, Accepted, Pass, Taken, Children, Merged, Present
  <2>2. CASE d = c
    <3>1. rcall'[c] = q /\ Pass(Head(r.checks), r) /\ Refusing(r)
      BY <1>3, <1>4, <1>5, <2>2 DEF SoundInv, ReadsSuffice
    <3> HIDE DEF r
    <3>2. \A x : Pass(x, q) <=> Pass(x, r)
      BY <1>3 DEF Pass
    <3>3. Accepted(q) <=> Accepted(r)
      BY <1>3 DEF Accepted, Taken, Children, Merged
    <3>4. ASSUME \A k \in 1 .. Len(q.checks) : Pass(q.checks[k], q), NEW k \in 1 .. Len(r.checks)
          PROVE  Pass(r.checks[k], r)
      <4>1. CASE k = 1
        BY <1>2, <3>1, <4>1
      <4>2. CASE k # 1
        <5>1. k - 1 \in 1 .. Len(q.checks) /\ q.checks[k - 1] = r.checks[k]
          BY <1>2, <1>3, <4>2
        <5>q. QED
          BY <3>2, <3>4, <5>1
      <4>q. QED
        BY <4>1, <4>2
    <3>5. Refusing(q)
      BY <1>3, <3>1, <3>3, <3>4 DEF Refusing
    <3>q. QED
      BY <1>1, <2>2, <3>1, <3>5 DEF Refusing, Accepted, Pass, Taken, Children, Merged, Present
  <2>q. QED
    BY <2>1, <2>2
<1>q. QED
  BY <1>6, <1>7, <1>8 DEF SoundInv

\* What a write that changes the rows leaves of any row.
LEMMA WriteRows ==
  ASSUME PastInv, NEW c \in RegisterCalls, WriteRow(c), table' # table, NEW r, r = rcall[c]
  PROVE  /\ r \in Request /\ Sound(r) /\ Accepted(r) /\ (r.kind = "upsert" => ~Taken(r.t, r.row, 0))
         /\ r.kind \in {"create", "update", "remove", "upsert"}
         /\ \E i \in Ids :
              /\ r.kind \in {"create", "upsert"} => table[r.t][i] = NoRow
              /\ r.kind \in {"update", "remove"} => i = r.id /\ Present(r.t, i)
              /\ \A u \in Tables, j \in Ids :
                   /\ r.kind = "remove" => table'[u][j] \in {Gone, table[u][j]}
                   /\ r.kind = "update" =>
                        table'[u][j] = IF u = r.t /\ j = i THEN Merged(r) ELSE table[u][j]
                   /\ r.kind \in {"create", "upsert"} =>
                        table'[u][j] = IF u = r.t /\ j = i THEN r.row ELSE table[u][j]
<1>1. r \in Request /\ Sound(r) /\ Accepted(r) /\ (r.kind = "upsert" => ~Taken(r.t, r.row, 0))
  BY WriteEffect
<1>2. PICK i \in Ids :
        /\ IF r.kind \in {"create", "upsert"} THEN table[r.t][i] = NoRow ELSE i = r.id
        /\ table' = [u \in Tables |->
                      [j \in Ids |-> IF u = r.t /\ j = i
                                       THEN CASE r.kind = "remove" -> Gone [] r.kind = "update" -> Merged(r)
                                              [] OTHER -> r.row
                                     ELSE IF r.kind = "remove" /\ <<u, j>> \in Children(r.t, i)
                                       THEN Gone ELSE table[u][j]]]
  BY WriteEffect
<1>3. r.kind \in {"create", "update", "remove", "upsert"} /\ r.t \in Tables
  BY <1>1 DEF Sound, Request
<1>4. ASSUME NEW u \in Tables, NEW j \in Ids
      PROVE  /\ r.kind = "remove" => table'[u][j] \in {Gone, table[u][j]}
             /\ r.kind = "update" => table'[u][j] = IF u = r.t /\ j = i THEN Merged(r) ELSE table[u][j]
             /\ r.kind \in {"create", "upsert"} =>
                  table'[u][j] = IF u = r.t /\ j = i THEN r.row ELSE table[u][j]
  <2>1. CASE u = r.t /\ j = i
    BY <1>2, <2>1
  <2>2. CASE ~(u = r.t /\ j = i)
    BY <1>2, <2>2
  <2> QED BY <2>1, <2>2
<1>5. r.kind \in {"update", "remove"} => i = r.id /\ Present(r.t, i)
  BY <1>1, <1>2 DEF Accepted
<1>q. QED
  BY <1>1, <1>2, <1>3, <1>4, <1>5

LEMMA WriteSound ==
  ASSUME PastInv, SoundInv, NEW c \in RegisterCalls, WriteRow(c)
  PROVE  SoundInv'
<1> DEFINE r == rcall[c]
<1>1. rcall' = [rcall EXCEPT ![c] = Quiet] /\ r # Quiet
  BY DEF WriteRow
<1>2. \A d \in RegisterCalls : rcall'[d] # Quiet => d # c /\ rcall'[d] = rcall[d]
  BY <1>1 DEF PastInv, CallsTyped
<1>3. ReadsSuffice'
  <2> SUFFICES ASSUME NEW d \in RegisterCalls, rcall'[d] # Quiet, rcall'[d].alone PROVE FALSE
    BY Zenon DEF ReadsSuffice
  <2> QED BY <1>1, <1>2 DEF PastInv, AloneInv
<1>4. CASE table' = table
  <2>1. PostsDated'
    BY <1>2, <1>4 DEF SoundInv, PostsDated, Dated
  <2> QED BY <1>3, <1>4, <2>1 DEF SoundInv, CodesUnique, Rootless, PublishedDated, Present
<1>5. CASE table' # table
  <2>1. /\ r \in Request /\ Sound(r) /\ Accepted(r) /\ (r.kind = "upsert" => ~Taken(r.t, r.row, 0))
        /\ r.kind \in {"create", "update", "remove", "upsert"}
    BY <1>5, WriteRows
  <2>2. PICK i \in Ids :
          /\ r.kind \in {"create", "upsert"} => table[r.t][i] = NoRow
          /\ r.kind \in {"update", "remove"} => i = r.id /\ Present(r.t, i)
          /\ \A u \in Tables, j \in Ids :
               /\ r.kind = "remove" => table'[u][j] \in {Gone, table[u][j]}
               /\ r.kind = "update" => table'[u][j] = IF u = r.t /\ j = i THEN Merged(r) ELSE table[u][j]
               /\ r.kind \in {"create", "upsert"} =>
                    table'[u][j] = IF u = r.t /\ j = i THEN r.row ELSE table[u][j]
    BY <1>5, WriteRows
  <2> HIDE DEF r
  <2>3. r.t \in Tables /\ r.row \in Row /\ i # 0
    BY <2>1, RegistersAssumption DEF Request
  <2>4. r.kind = "update" =>
          /\ Merged(r) \in Row /\ Merged(r).parent = table[r.t][i].parent /\ Merged(r).status = r.row.status
          /\ Merged(r).at = IF r.row.at = 0 THEN table[r.t][i].at ELSE r.row.at
    BY <2>1, <2>2, MergedTyped
  <2>5. /\ r.kind \in {"create", "upsert"} => ~Taken(r.t, r.row, 0)
        /\ r.kind = "update" => ~Taken(r.t, Merged(r), i)
    BY <2>1, <2>2 DEF Accepted
  <2>6. \A t \in Unique : t \in Tables
    BY TablesAre DEF Unique
  <2>7. "post" \in Tables
    BY TablesAre
  <2>8. CodesUnique'
    <3> SUFFICES ASSUME NEW t \in Unique, NEW j \in Ids, NEW k \in Ids, j # k,
                        Present(t, j)', Present(t, k)', table'[t][j].code = table'[t][k].code,
                        table'[t][j].parent = table'[t][k].parent
                 PROVE  FALSE
      BY Zenon DEF CodesUnique
    <3>1. t \in Tables /\ table'[t][j] \notin {NoRow, Gone} /\ table'[t][k] \notin {NoRow, Gone}
      BY <2>6 DEF Present
    <3>2. CASE r.kind = "remove" \/ t # r.t \/ (j # i /\ k # i)
      <4>1. table'[t][j] = table[t][j] /\ table'[t][k] = table[t][k]
        BY <2>1, <2>2, <3>1, <3>2
      <4> QED BY <3>1, <4>1 DEF SoundInv, CodesUnique, Present
    <3>3. ASSUME r.kind # "remove", t = r.t, NEW m \in Ids \ {i}, table'[t][m] \notin {NoRow, Gone},
                 table'[t][m].code = table'[t][i].code, table'[t][m].parent = table'[t][i].parent
          PROVE  FALSE
      <4>1. table'[t][m] = table[t][m] /\ Present(t, m)
        BY <2>1, <2>2, <3>1, <3>3 DEF Present
      <4>2. CASE r.kind = "update"
        <5>1. table'[t][i] = Merged(r)
          BY <2>2, <3>1, <3>3, <4>2
        <5> QED BY <2>5, <3>3, <4>1, <4>2, <5>1 DEF Taken
      <4>3. CASE r.kind \in {"create", "upsert"}
        <5>1. table'[t][i] = r.row
          BY <2>2, <3>1, <3>3, <4>3
        <5>2. m \in Ids \ {0}
          BY RegistersAssumption
        <5> QED BY <2>5, <3>3, <4>1, <4>3, <5>1, <5>2 DEF Taken
      <4> QED BY <2>1, <3>3, <4>2, <4>3
    <3> QED BY <3>1, <3>2, <3>3
  <2>9. Rootless'
    <3> SUFFICES ASSUME NEW t \in Unique \ {"rt"}, NEW j \in Ids, Present(t, j)'
                 PROVE  table'[t][j].parent = 0
      BY Zenon DEF Rootless
    <3>1. t \in Tables /\ table'[t][j] \notin {NoRow, Gone}
      BY <2>6 DEF Present
    <3>2. CASE table'[t][j] = table[t][j]
      BY <3>1, <3>2 DEF SoundInv, Rootless, Present
    <3>3. CASE table'[t][j] # table[t][j]
      <4>1. t = r.t /\ j = i /\ r.kind # "remove"
        BY <2>1, <2>2, <3>1, <3>3
      <4>2. CASE r.kind = "update"
        BY <2>2, <2>4, <3>1, <4>1, <4>2 DEF SoundInv, Rootless
      <4>3. CASE r.kind \in {"create", "upsert"}
        BY <2>1, <2>2, <3>1, <4>1, <4>3 DEF Sound
      <4> QED BY <2>1, <4>1, <4>2, <4>3
    <3> QED BY <3>2, <3>3
  <2>a. \A j \in Ids : table["post"][j] \in Row \cup {NoRow, Gone}
    BY <2>7 DEF PastInv, RowsTyped
  <2>b. \A x \in Row : x.at \in 0 .. 2
    BY DEF Row
  <2>10. PublishedDated'
    <3> SUFFICES ASSUME NEW j \in Ids, table'["post"][j].status = "published"
                 PROVE  table'["post"][j].at \in {1, 2}
      BY Zenon DEF PublishedDated
    <3>1. CASE table'["post"][j] = table["post"][j]
      BY <3>1 DEF SoundInv, PublishedDated
    <3>2. CASE table'["post"][j] # table["post"][j]
      <4>1. r.kind # "remove" /\ r.t = "post" /\ j = i
        <5>1. Gone.status # "published"
          BY DEF Gone, Blank
        <5> QED BY <2>1, <2>2, <2>7, <3>2, <5>1
      <4>2. CASE r.kind = "update"
        <5>1. table'["post"][j] = Merged(r)
          BY <2>2, <2>7, <4>1, <4>2
        <5>2. r.row.status = "published" /\ (r.row.at = 0 => table["post"][i].at \notin {0, 3})
          BY <1>1, <2>2, <2>4, <4>1, <4>2, <5>1 DEF SoundInv, PostsDated, Dated, r
        <5>3. Present("post", i) /\ Merged(r) \in Row
          BY <2>2, <2>4, <4>1, <4>2
        <5> QED BY <2>4, <2>a, <2>b, <4>1, <4>2, <5>1, <5>2, <5>3 DEF Present
      <4>3. CASE r.kind = "create"
        <5>1. table'["post"][j] = r.row
          BY <2>2, <2>7, <4>1, <4>3
        <5> QED BY <2>1, <2>3, <2>b, <4>1, <4>3, <5>1 DEF Sound
      <4>4. r.kind # "upsert"
        BY <2>1, <4>1 DEF Sound
      <4> QED BY <2>1, <4>1, <4>2, <4>3, <4>4
    <3> QED BY <3>1, <3>2
  <2>11. PostsDated'
    <3> SUFFICES ASSUME NEW d \in RegisterCalls, rcall'[d] # Quiet, rcall'[d].kind = "update",
                        rcall'[d].t = "post", rcall'[d].row.status = "published", rcall'[d].row.at = 0
                 PROVE  table'["post"][rcall'[d].id].at \notin {0, 3}
      BY Zenon DEF PostsDated, Dated
    <3> DEFINE j == rcall[d].id
    <3>1. rcall'[d] = rcall[d] /\ j \in Ids /\ table["post"][j].at \notin {0, 3}
      BY <1>2 DEF SoundInv, PostsDated, Dated, PastInv, CallsSound, Sound
    <3>2. table["post"][j] # NoRow
      BY <3>1, RowFacts
    <3>3. CASE table'["post"][j] = table["post"][j]
      BY <3>1, <3>3
    <3>4. CASE table'["post"][j] = Gone
      BY <3>1, <3>4, RowFacts
    <3>5. CASE table'["post"][j] \notin {Gone, table["post"][j]}
      <4>1. r.kind = "update" /\ r.t = "post" /\ j = i /\ table'["post"][j] = Merged(r)
        BY <2>1, <2>2, <2>7, <3>1, <3>2, <3>5
      <4>2. Merged(r).at # 0 /\ Merged(r).at # 3
        BY <2>4, <2>b, <3>1, <4>1
      <4> QED BY <3>1, <4>1, <4>2
    <3> QED BY <3>3, <3>4, <3>5
  <2> QED BY <1>3, <2>8, <2>9, <2>10, <2>11 DEF SoundInv
<1> QED BY <1>4, <1>5

LEMMA PastStep ==
  ASSUME PastInv, SoundInv, [RegistersNext]_registerVars
  PROVE  PastInv' /\ SoundInv' /\ HistoryKept /\ FirstDateKept
<1>1. CASE UNCHANGED registerVars
  <2>1. PastInv'
    BY <1>1 DEF registerVars, PastInv, RowsTyped, CallsTyped, CallsSound, AloneInv, RecordsLinked, DatesFresh,
                Undated, Present
  <2>2. CodesUnique' /\ Rootless' /\ PublishedDated' /\ PostsDated'
    BY <1>1 DEF registerVars, SoundInv, CodesUnique, Rootless, PublishedDated, PostsDated, Dated, Present
  <2>3. ReadsSuffice'
    BY <1>1 DEF registerVars, SoundInv, ReadsSuffice, Refusing, Accepted, Pass, Taken, Children, Merged, Present
  <2> QED BY <1>1, <2>1, <2>2, <2>3, StayKeeps DEF registerVars, SoundInv
<1>2. CASE RegistersNext
  <2>1. PICK c \in RegisterCalls : Starts(c) \/ CheckNext(c) \/ WriteRow(c)
    BY <1>2, StepKinds DEF PastInv, SoundInv, RowsInv
  <2> QED BY <2>1, BeginKeeps, CheckKeeps, WriteStep, StayKeeps, BeginSound, CheckSound, WriteSound
<1> QED BY <1>1, <1>2

LEMMA ServiceStays ==
  ASSUME PastInv, SoundInv, [RegistersNext]_registerVars
  PROVE  service' = service
<1>1. CASE UNCHANGED registerVars
  BY <1>1 DEF registerVars
<1>2. CASE RegistersNext
  <2>1. PICK c \in RegisterCalls : Starts(c) \/ CheckNext(c) \/ WriteRow(c)
    BY <1>2, StepKinds DEF PastInv, SoundInv, RowsInv
  <2>2. Starts(c) => service' = service
    <3>1. \A r : BeginCall(c, r) => service' = service
      BY DEF BeginCall
    <3> QED BY <3>1, Zenon DEF Starts, Begins
  <2> QED BY <2>1, <2>2 DEF CheckNext, WriteRow
<1> QED BY <1>1, <1>2

LEMMA SoundInvInit == ASSUME RegistersInit PROVE SoundInv
<1>1. ASSUME NEW t \in Tables, NEW i \in Ids
      PROVE  /\ Present(t, i) => t \in {"resident", "file"}
             /\ table[t][i] \in {Blank, NoRow}
  BY RowFacts DEF RegistersInit, Present
<1>2. \A t \in Unique : t \in Tables /\ t \notin {"resident", "file"}
  BY TablesAre DEF Unique
<1>3. \A c \in RegisterCalls : rcall[c] = Quiet
  BY DEF RegistersInit
<1>4. "post" \in Tables /\ Blank.status = "draft" /\ NoRow.status = "draft"
  BY TablesAre DEF Blank, NoRow
<1> QED BY <1>1, <1>2, <1>3, <1>4 DEF SoundInv, CodesUnique, Rootless, ReadsSuffice, PublishedDated, PostsDated

\* What the invariant says: in particular, an answer that comes in time.
LEMMA SoundnessOf == ASSUME PastInv, SoundInv, service \in DOMAIN TablesOf PROVE RegistersSound
<1>1. RefusedInTime
  <2> SUFFICES ASSUME NEW c \in RegisterCalls, rcall[c] # Quiet, rcall[c].checks = <<>>, rcall[c].alone
               PROVE  Accepted(rcall[c]) \/ <<rcall[c].t, rcall[c].kind>> \in Unchecked
    BY DEF RefusedInTime
  <2>1. Len(<<>>) = 0
    BY EmptySeq
  <2> QED BY <2>1 DEF SoundInv, ReadsSuffice, Refusing
<1>2. ASSUME NEW c \in RegisterCalls PROVE rcall[c] \in CallRecord
  <2>1. rcall[c] \in Request /\ Len(rcall[c].checks) \in 0 .. 2
    <3>1. rcall[c] \in Request /\ Len(rcall[c].checks) \in Nat
      BY DEF PastInv, CallsTyped, Request
    <3>2. CASE rcall[c] = Quiet
      <4>1. rcall[c].checks = <<>>
        BY <3>2 DEF Quiet
      <4> QED BY <3>1, <4>1, EmptySeq
    <3>3. CASE rcall[c] # Quiet
      <4>1. Len(rcall[c].checks) <= 2
        BY <3>3 DEF PastInv, CallsSound, Sound
      <4>2. \A n \in Nat : n <= 2 => n \in 0 .. 2
        OBVIOUS
      <4> QED BY <3>1, <4>1, <4>2, Zenon
    <3> QED BY <3>2, <3>3
  <2>2. rcall[c].checks \in [1 .. Len(rcall[c].checks) -> {"parent", "code", "unused"}]
    BY <2>1 DEF Request, Reads
  <2>3. rcall[c].checks \in UNION {[1 .. n -> {"parent", "code", "unused"}] : n \in 0 .. 2}
    BY <2>1, <2>2
  <2> QED BY <2>1, <2>3 DEF Request, CallRecord
<1>3. RegistersTypeOK
  BY <1>2 DEF RegistersTypeOK, PastInv, RowsTyped, CallsTyped
<1> QED BY <1>1, <1>3 DEF RegistersSound, SoundInv

\* Codes stay unique, published posts are dated, and who calls alone is told by the
\* service what the database would refuse: for any rows, codes and overlapping calls.
THEOREM RegistersAreSound == RegistersSpec => []RegistersSound
<1>1. RegistersInit => PastInv /\ SoundInv /\ service \in DOMAIN TablesOf
  BY PastInvInit, SoundInvInit DEF RegistersInit
<1>2. PastInv /\ SoundInv /\ [RegistersNext]_registerVars => PastInv' /\ SoundInv'
  BY PastStep
<1>3. PastInv /\ SoundInv /\ service \in DOMAIN TablesOf /\ [RegistersNext]_registerVars
        => (service \in DOMAIN TablesOf)'
  BY ServiceStays
<1>4. PastInv /\ SoundInv /\ service \in DOMAIN TablesOf => RegistersSound
  BY SoundnessOf
<1> QED BY <1>1, <1>2, <1>3, <1>4, PTL DEF RegistersSpec

\* A financial record stays with its unit, and a post keeps its first date unless two
\* updates overlap: whatever calls run at once, and whatever the rows and codes are.
THEOREM RecordsAndDatesStay == RegistersSpec => PastKept
<1>1. RegistersInit => PastInv /\ SoundInv
  BY PastInvInit, SoundInvInit
<1>2. PastInv /\ SoundInv /\ [RegistersNext]_registerVars => PastInv' /\ SoundInv'
  BY PastStep
<1>3. PastInv /\ SoundInv /\ [RegistersNext]_registerVars => [HistoryKept /\ FirstDateKept]_registerVars
  BY PastStep
<1> QED BY <1>1, <1>2, <1>3, PTL DEF RegistersSpec, PastKept
=============================================================================
