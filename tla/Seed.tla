--------------------------------- MODULE Seed ---------------------------------
(***************************************************************************)
(* The seed script (prisma/seed/index.ts).  It has no transaction: every   *)
(* row is written by a call of its own, so that a run can die between any  *)
(* two of them.  Operators run it again to bring the permissions up to     *)
(* date (scripts/smoke-test.sh), on a database the staff has edited since, *)
(* and nothing keeps two runs apart.                                       *)
(***************************************************************************)
EXTENDS Naturals, Sequences

CONSTANTS Seeders,               \* processes that run the script
          MaxSeeds,              \* runs started (a bound)
          MaxEdits,              \* changes by the staff (a bound)
          MaxCopies              \* copies of one row that are counted (a bound)
ASSUME SeedAssumption == MaxSeeds \in Nat /\ MaxEdits \in Nat /\ MaxCopies \in Nat

VARIABLES copies,                \* how many copies of each seeded row exist
          edited,                \* rows the staff changed
          removed,               \* rows the staff deleted
          run,                   \* by seeder: where its run is, if it has one
          seeds, edits,          \* counters for the bounds
          met,                   \* two runs were under way at once
          broken                 \* a run died inside a block it does not repair
seedVars == <<copies, edited, removed, run, seeds, edits, met, broken>>

(***************************************************************************)
(* A step of the script.  "upsert" looks its row up by a unique key.       *)
(* "find" looks for a row like it, then creates it.  "insert" is the       *)
(* upsert of superadmin_system: it looks under the village's tenant for a  *)
(* row that it creates without one, and so never finds it.  "first" counts *)
(* a table and writes its rows one after the other when it is empty.       *)
(***************************************************************************)
SeedStep(how, into) == [how |-> how, rows |-> into]
Each(how, names) == [i \in DOMAIN names |-> SeedStep(how, <<names[i]>>)]
Upserts(names) == Each("upsert", names)

MutTerritory == Upserts(<<"permissions", "regency", "district", "tenant", "village">>)
                  \o <<SeedStep("first", <<"hamlet", "units">>)>>
Territory == Upserts(<<"permissions", "regency", "district", "tenant",
                       "village", "hamlet", "units">>)
Roles == <<SeedStep("insert", <<"superadmin">>)>> \o Upserts(<<"roles", "grants">>)
SeedAdmins == Upserts(<<"admin", "adminRole">>)
Letters == Upserts(<<"letterTypes">>) \o <<SeedStep("find", <<"template">>)>>
SeedSettings == Upserts(<<"settings">>)
Agendas == <<SeedStep("find", <<"agenda">>)>>
SeedPeople == <<SeedStep("first", <<"head", "resident", "family", "link", "member">>)>>
Content == Each("first", <<"post", "gallery">>)
Budget == Upserts(<<"year">>) \o Each("first", <<"items", "document">>)
Works == Each("first", <<"project", "aid", "asset">>)
Bumdes == Each("first", <<"unit", "record">>)
Maps == Upserts(<<"gis">>)
Script == Territory \o Roles \o SeedAdmins \o Letters \o SeedSettings \o Agendas
            \o SeedPeople \o Content \o Budget \o Works \o Bumdes \o Maps
Rows == UNION {{Script[i].rows[j] : j \in DOMAIN Script[i].rows}
                 : i \in DOMAIN Script}
\* Rows a unique index keeps single: a second insert fails.
Indexed == Rows \ {"superadmin", "template", "agenda", "gallery", "items",
                   "document", "record", "link"}
\* Without SEED_ADMIN_PASSWORD a production run skips these.
Skippable == {"admin", "adminRole"}
\* What a run writes again over what it finds.
Rewritten == {"admin"}

NoRun == [step |-> 0, row |-> 0, skips |-> FALSE]
Under == {s \in Seeders : run[s] # NoRun}

SeedInit == /\ copies = [r \in Rows |-> 0]
            /\ edited = {} /\ removed = {}
            /\ run = [s \in Seeders |-> NoRun]
            /\ seeds = 0 /\ edits = 0 /\ met = FALSE /\ broken = FALSE

\* row = 0: the step has not looked yet; row = i: it writes its i-th row next.
StartSeed(s) ==
  /\ run[s] = NoRun /\ seeds < MaxSeeds
  /\ \E skips \in BOOLEAN :
       run' = [run EXCEPT ![s] = [step |-> 1, row |-> 0, skips |-> skips]]
  /\ seeds' = seeds + 1
  /\ met' = (met \/ Under # {})
  /\ UNCHANGED <<copies, edited, removed, edits, broken>>

NextStep(s) == run' = [run EXCEPT ![s] =
  IF run[s].step = Len(Script) THEN NoRun
  ELSE [step |-> run[s].step + 1, row |-> 0, skips |-> run[s].skips]]

InPlace(r) == copies[r] > 0
\* What a step finds that makes it write nothing.
Skipped(s, r) == run[s].skips /\ r \in Skippable
SkipsOver(s, st) ==
  \/ st.how # "insert" /\ InPlace(st.rows[1])
  \/ Skipped(s, st.rows[1])
SeedLook(s) ==
  /\ run[s] # NoRun /\ run[s].row = 0
  /\ LET st == Script[run[s].step] IN
     IF SkipsOver(s, st)
     THEN /\ NextStep(s)
          /\ edited' = edited \ {r \in Rewritten : r = st.rows[1] /\ ~Skipped(s, r)}
     ELSE /\ run' = [run EXCEPT ![s].row = 1]
          /\ UNCHANGED edited
  /\ UNCHANGED <<copies, removed, seeds, edits, met, broken>>

\* The block of the residents is never entered again once its head is there.
Breaks(s) == Script[run[s].step].rows[1] = "head" /\ run[s].row > 1
SeedWrite(s) ==
  /\ run[s].row > 0
  /\ LET st == Script[run[s].step]
         r == st.rows[run[s].row]
         refused == r \in Indexed /\ InPlace(r) IN
     /\ copies[r] < MaxCopies
     /\ copies' = IF refused THEN copies ELSE [copies EXCEPT ![r] = @ + 1]
     /\ IF refused THEN run' = [run EXCEPT ![s] = NoRun]
        ELSE IF run[s].row < Len(st.rows)
        THEN run' = [run EXCEPT ![s].row = @ + 1]
        ELSE NextStep(s)
     /\ broken' = (broken \/ (refused /\ Breaks(s)))
  /\ UNCHANGED <<edited, removed, seeds, edits, met>>

\* The process dies, or a call to the database fails.
SeedDies(s) ==
  /\ run[s] # NoRun
  /\ run' = [run EXCEPT ![s] = NoRun]
  /\ broken' = (broken \/ Breaks(s))
  /\ UNCHANGED <<copies, edited, removed, seeds, edits, met>>

\* The staff changes or deletes what was seeded: one row of each kind is
\* followed.
Followed == {"admin", "settings", "template", "post", "agenda"}
StaffEdits(r) ==
  /\ edits < MaxEdits /\ InPlace(r) /\ r \in Followed
  /\ edits' = edits + 1
  /\ \/ edited' = edited \cup {r} /\ UNCHANGED <<copies, removed>>
     \/ /\ r \in {"post", "agenda"}
        /\ copies' = [copies EXCEPT ![r] = 0]
        /\ removed' = removed \cup {r}
        /\ edited' = edited \ {r}
  /\ UNCHANGED <<run, seeds, met, broken>>

SeedNext == \/ \E s \in Seeders : StartSeed(s) \/ SeedLook(s) \/ SeedWrite(s)
                                    \/ SeedDies(s)
            \/ \E r \in Rows : StaffEdits(r)
SeedSpec == SeedInit /\ [][SeedNext]_seedVars
-----------------------------------------------------------------------------
\* Types.
SeedTypeOK ==
  /\ copies \in [Rows -> 0 .. MaxCopies]
  /\ edited \subseteq Rows /\ removed \subseteq Rows
  /\ \A r \in edited : InPlace(r)
  /\ \A s \in Under : run[s].step \in DOMAIN Script
                      /\ run[s].row <= Len(Script[run[s].step].rows)

\* However often the script is started, and wherever it died, it does not
\* double what it wrote, unless two runs overlapped; superadmin_system is the
\* row it adds again each time.
SeededOnce == ~met => \A r \in Rows \ {"superadmin"} : copies[r] <= 1

\* A run has everything its earlier steps are for, whatever earlier runs died
\* of, so that running the script again repairs a database: the exception is a
\* death inside the block of the residents, whose first row closes it for good.
SeedRepairs ==
  \A s \in Under : ~met /\ ~broken =>
    \A i \in 1 .. run[s].step - 1 : \A j \in DOMAIN Script[i].rows :
      LET r == Script[i].rows[j] IN
      InPlace(r) \/ Skipped(s, r) \/ r \in removed

\* What can be said of running the script again.
SeedSound == SeedTypeOK /\ SeededOnce /\ SeedRepairs
=============================================================================
