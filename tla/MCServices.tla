----------------------------- MODULE MCServices -----------------------------
(* The smaller components for TLC, in one run: a behaviour is a behaviour   *)
(* of one of them, its part; the others stay in one of their initial        *)
(* states.  No action of a part reads or writes a variable of another one.  *)
EXTENDS Complaints, Attachments, Accounts, TwoFactor, Registers, TenantLinks, Hierarchy, Seed, Console,
        Dialogs

VARIABLE part

Parts == {"complaints", "files", "accounts", "twofactor", "registers", "links", "hierarchy", "seed", "console", "dialogs"}
First(S) == CHOOSE x \in S : TRUE

MCInit ==
  /\ part \in Parts
  /\ Init
  /\ FilesInit
  /\ AccountsInit
  /\ part # "accounts" => \A u \in Users : userStatus[u] = "active" /\ ("admin_desa" \in roles[u] <=> u = First(Users))
  /\ TwoFactorInit /\ (part # "twofactor" => ~required)
  /\ RegistersInit /\ (part # "registers" => service = "assets")
  /\ LinksInit /\ (part # "links" => scope = First(Scopes))
  /\ HierarchyInit /\ (part # "hierarchy" => Free = Nodes \ {Above})
  /\ SeedInit
  /\ ConsoleInit /\ (part # "console" => pair = First(Follows))
  /\ DialogsInit /\ (part # "dialogs" => screen = First(DOMAIN Screens))

(* Bounds on what combines in one behaviour: what never happens in it.      *)
Second(S) == S \ {First(S)}
\* A call takes the first slot that is free, as all slots are alike.
FirstFree(S, idle, c, cNext) == ~\E k \in Second(S) : c[k] = idle /\ cNext[k] # idle /\ c[First(S)] = idle
\* No mails here: what a call does once it has written touches nobody and comes first.
\* The timeline shows one status, as each is judged by itself.
FewWritten == ~\E k \in Calls : call[k].pc \in {"audit", "notify"} /\ call'[k] = call[k]
FewShown == ~\E c \in Complaint : Cardinality(shown'[c]) > 1
\* Two complaints over one file, two files in one complaint, or one of each with outages.
FewFiles ==
  LET twoReports == \E r \in Second(Reports) : report'[r] # NoReport
      twoFiles == \E f \in Second(Files) : meta'[f] # "none" \/ f \in objects'
      outage == unqueued' # {} \/ \E f \in Files : job'[f] # "none"
  IN ~((twoReports /\ twoFiles) \/ (twoReports /\ outage) \/ (twoFiles /\ outage))
\* Of the rows of three tables there are four, in one behaviour.
FewRows ==
  ~(/\ Cardinality(scope) = 3
    /\ Cardinality(UNION {{<<t, i>> : i \in {k \in RowsOf[t] : rows'[t][k] # Missing}} : t \in scope}) > 4)
\* One caller reads overviews, while the others provision.
OneOverview == ~\E a \in Second(RegencyAdmins) : admin'[a].op = "overview"
\* One village at a time has residents.
FewPeople == ~(people' # people /\ Cardinality({n \in Nodes : people'[n] > 0}) > 1)
\* The staff changes rows where no two runs overlapped, and runs that do have the password.
EditsApart == ~(met' /\ (edits' > 0 \/ \E s \in Seeders : run'[s].skips))
\* A second tab with the settings card, or calls that overlap.
OneTabOrCall == ~(~calm' /\ \E d \in Second(Cards) : card'[d].on \/ card'[d].data # 0)
\* A part holds what was put into it for one record.
FewForms == ~\E p \in DOMAIN ink : ink'[p] # ink[p] /\ Cardinality({m.of : m \in ink'[p]}) > 1
\* Two writes by one of the mutations, one by each other.
Twice == First(Follows)[1]
FewWrites == ~(written' > 1 /\ pair[1] # Twice)

MCNext ==
  /\ UNCHANGED part
  /\ \/ /\ part = "complaints" /\ Next /\ FirstFree(Calls, Idle, call, call') /\ FewWritten /\ FewShown
        /\ UNCHANGED <<fileVars, accountVars, factorVars, registerVars, linkVars, treeVars,
                       seedVars, consoleVars, dialogVars>>
     \/ /\ part = "files" /\ FilesNext /\ FewFiles
        /\ UNCHANGED <<vars, accountVars, factorVars, registerVars, linkVars, treeVars,
                       seedVars, consoleVars, dialogVars>>
     \/ /\ part = "accounts" /\ AccountsNext /\ FirstFree(AccountCalls, NoCall, acall, acall')
        /\ UNCHANGED <<vars, fileVars, factorVars, registerVars, linkVars, treeVars,
                       seedVars, consoleVars, dialogVars>>
     \/ /\ part = "twofactor" /\ TwoFactorNext /\ FirstFree(FactorCalls, NoFactorCall, fcall, fcall')
        /\ OneTabOrCall
        /\ UNCHANGED <<vars, fileVars, accountVars, registerVars, linkVars, treeVars,
                       seedVars, consoleVars, dialogVars>>
     \/ /\ part = "registers" /\ RegistersNext /\ FirstFree(RegisterCalls, Quiet, rcall, rcall')
        /\ UNCHANGED <<vars, fileVars, accountVars, factorVars, linkVars, treeVars, seedVars,
                       consoleVars, dialogVars>>
     \/ /\ part = "links" /\ LinksNext /\ FewRows
        /\ UNCHANGED <<vars, fileVars, accountVars, factorVars, registerVars, treeVars,
                       seedVars, consoleVars, dialogVars>>
     \/ /\ part = "hierarchy" /\ HierarchyNext /\ FirstFree(RegencyAdmins, NoWork, admin, admin')
        /\ OneOverview /\ FewPeople
        /\ UNCHANGED <<vars, fileVars, accountVars, factorVars, registerVars, linkVars,
                       seedVars, consoleVars, dialogVars>>
     \/ /\ part = "seed" /\ SeedNext /\ FirstFree(Seeders, NoRun, run, run') /\ EditsApart
        /\ UNCHANGED <<vars, fileVars, accountVars, factorVars, registerVars, linkVars,
                       treeVars, consoleVars, dialogVars>>
     \/ /\ part = "console" /\ ConsoleNext /\ FewWrites
        /\ UNCHANGED <<vars, fileVars, accountVars, factorVars, registerVars, linkVars,
                       treeVars, seedVars, dialogVars>>
     \/ /\ part = "dialogs" /\ DialogsNext /\ FewForms
        /\ UNCHANGED <<vars, fileVars, accountVars, factorVars, registerVars, linkVars,
                       treeVars, seedVars, consoleVars>>

MCSpec ==
  MCInit /\ [][MCNext]_<<part, vars, fileVars, accountVars, factorVars, registerVars,
                        linkVars, treeVars, seedVars, consoleVars, dialogVars>>

=============================================================================
