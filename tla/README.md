# Verification of SIDPRO

TLA+ models of SIDPRO, the information system of Indonesian villages in this
repository: of its API, its worker, the triggers of its database, its seed
script and its admin console, with the TLC runs that check them and the theorems
that TLAPS proves about them.

## The system

A Next.js client (`apps/web`) calls a NestJS API (`apps/api`) over HTTP. The API
keeps its state in PostgreSQL through Prisma, in the default isolation READ
COMMITTED; some rules live in triggers (`prisma/migrations`). Files are objects
in MinIO, with a row each in `files`. The API puts jobs into three BullMQ queues
in Redis (mails, PDF generation, storage cleanup), which `apps/worker` runs. A
browser holds a refresh cookie, one access token per tab, a cache of query
answers and the text of forms that are open.

Every request is an async function: between two of its `await`s any other
request, job or transaction may run, in the same process or in another one. So
most of what is hard in this code has one form: a call reads rows, checks them,
and writes later, and the write does not look again. The code protects some of
these pairs by a conditional update, a row lock, a unique key or a trigger, and
leaves others open. The models take one step per call to PostgreSQL, MinIO or
BullMQ and let TLC interleave them. The console has the same difficulty at the
other end: an answer acts on a page that has gone on in the meantime.

### Inventory

| Component | State | Operations | What is hard | What makes it correct |
|---|---|---|---|---|
| Letter requests (`modules/letters/letters.service.ts`) | `letter_requests`, `letter_approvals`, `letter_outputs`, `letter_number_sequences` | create, verify, approve, reject, generate PDF | decisions written on a stale status; the PDF is in MinIO before its rows exist | issued once, under a number nobody else has, after verification and approval |
| PDF compensation (`letter-pdf-storage-compensation.interceptor.ts`) | claims `generating`, objects, cleanup jobs | probe, claim, list, delete, queue, release | runs next to the retry of the call it cleans up after | never removes a PDF that is issued; gives the claim back |
| PDF worker (`worker/src/jobs/letter-pdf.ts`) | the same rows | generate PDF | does not claim the request | numbers stay unique |
| Storage cleanup (`storage-cleanup-queue.service.ts`, `worker/src/jobs/storage-cleanup.ts`) | BullMQ jobs, audit rows | queue, claim, re-check, delete, retry | runs minutes later; fixed job ids; crashes | as compensation; carried through to an end |
| Budget ledger (`modules/finance`, three migrations) | `budget_realization_entries`, cached `budget_items.realized` | insert entry, reversal, opening balance, moves of item, year, author | triggers that read the balance; guards that see only committed rows | cache equals ledger, never overdrawn, one tenant |
| Complaints (`modules/complaints`) | `complaints`, `complaint_responses` | submit, update status, assign, answer, close | three calls that write a status they have read | workflow order, truthful timeline, dates |
| Notification mails (`notification-queue.service.ts`, worker) | queue `notifications` | queue, send, retry | errors swallowed, order lost by retries | the reporter learns the last status |
| Family cards, residents (`modules/families`, `modules/population`, one migration) | `residents.family_id`, `family_members`, `families.head_resident_id` | create, update, delete, add and remove member, import | a link in three places, written by nine operations; check before the transaction | no link to what is deleted; one head |
| Accounts (`core/users`, `core/roles`) | `users`, `user_roles` | create, status, roles, delete | last administrator counted in one query, removed in another | a tenant keeps an administrator; deleted accounts stay inactive |
| Sessions (`core/auth`, `web/lib/api-client.ts`) | `refresh_tokens`, the cookie, a tab's token and refresh promise | login, refresh, logout, retry after 401, reload | single-use tokens, tabs that share a cookie, lost answers, a snapshot that misses a row | a token is rotated once; reuse ends every session; no false alarm; logout ends a login |
| Two-factor login (`core/auth`, settings card) | secret, enabled flag, policy, pending tokens | login, verify, enroll, setup, enable, disable, policy | every method writes on what it has read | no lock-out; a session needs the code; no disable under the policy |
| Registers (`territories`, `bumdes`, `social-assistance`, `civil-events`, `assets`, `development`, `cms`, `roles`, `settings`, years and items of `finance`) | one or two tables each | create, update, delete, upsert | look up, then write; guarded deletion | codes stay unique, refused in time; records keep their unit; dates of posts |
| Tenant links (migrations 000200, 000300, 000400, 000600) | 32 links between 26 tables | insert, update, delete of any row | both ends of a link, foreign keys that set NULL | a row and what it refers to are of one tenant |
| Files (`core/files`, `core/storage`) | `files`, objects, cleanup jobs of one object | upload, purge, link, remove | object and row are written apart; the link runs outside its transaction | a complaint keeps its files; an object follows its row |
| Tenants (`core/tenants`) | `tenants`, residents counted | provision, create, update, remove, overviews | check before the transaction; a walk of many queries | the tree has three levels; an undisturbed overview is exact |
| Demo seed (`prisma/seed/index.ts`) | every table, row by row | run, die, run again | no transaction; two runs at once; rows the staff changed | rerunning doubles nothing and repairs |
| Console cache (`web/features`, `query-provider.tsx`) | cached answers | queries, mutations, invalidations | an answer read before a write arrives after it | who has written sees it |
| Console forms (`web/app/(admin)/admin`) | drawers, text of forms, submits under way | open, type, submit, close | the text outlives the drawer; an answer acts on another drawer | what is typed for one record is saved in it, once |
| Audit log | `audit_logs` | append | its failure fails the call | see the calls that write it |
| Notifications in the app, address resolution, village profile, reports, public pages, assistant, health, HTTP shell | single rows, or none | plain reads and writes | nothing shared between calls | validation, formatting |
| Packages, scripts, CI | none modelled | | | |

`PROJECT.json` lists every part with its status and the reason where it is not
modelled.

## Modules

| Module | Models | Abstract specification |
|---|---|---|
| `LetterIssuance` | letter requests, PDF generation by API and worker, compensation, cleanup | `LetterLifecycle` |
| `BudgetLedger` | ledger entries and the triggers around them | `BalanceAt`, the balance by the ledger alone |
| `Complaints` | calls on a complaint, mail queue and worker | `ComplaintWorkflow` |
| `Households` | family cards, members, residents, deletion triggers | none |
| `Attachments` | files and objects, the purge, the link to a public complaint, cleanup of one object | none |
| `Accounts` | users and roles of one tenant | none |
| `Sessions` | refresh tokens and the browser; EXTENDS `Accounts`, whose users sign in | none |
| `TwoFactor` | one account's second factor, login page and settings cards | none |
| `Registers` | the tables with one pattern of methods | none |
| `TenantLinks` | trigger functions and foreign keys | none |
| `Hierarchy` | the tree of tenants and the overviews | `Reaches`, the villages an overview should find |
| `Seed` | the seed script, its deaths and its reruns | none |
| `Console` | query and mutation hooks, pages, and the cache they share | none |
| `Dialogs` | the drawers of seventeen pages | none |
| `MCLetterIssuance`, `MCBudgetLedger`, `MCComplaints`, `MCHouseholds`, `MCSessions` | the instances for TLC: symmetry sets, and for `Sessions` an initial state and two bounds | |
| `MCServices` | ten parts in one run; see below | |
| `LetterIssuanceProofs`, `BudgetLedgerProofs`, `HouseholdsProofs`, `RegistersProofs` | the theorems of each | |
| `ComplaintsProofs` | those of `Complaints` and `Attachments` | |
| `SessionsProofs` | those of `Accounts`, `Sessions` and `TwoFactor` | |
| `TenantsProofs` | those of `Hierarchy`, `Seed` and `TenantLinks` | |
| `ConsoleProofs` | those of `Console` and `Dialogs` | |

Actions are named for the step of the code, and `map` in `PROJECT.json` has the
lines. A definition `Mut...` stands before the operator it alters and is used by
nothing: put in the place of that operator, it is a bug that a run must find.

**LetterIssuance.** One `pc` per issuer (a call of generate-pdf, or a job of the
PDF worker). A call runs `ClaimForPdf` (the conditional update approved ->
generating), `CheckOutput`, `AllocateNumber`, `Upload`, `Commit` (one
transaction), `AuditIssue`; `StepFails` is the failure of whichever call is next,
and leads to the catch block (`Release`) and to the interceptor (`Probe`,
`LockPrefix`, `ListPrefix`, `DeletePrefix`, `EnqueueCleanup`, `UnlockPrefix`). A
cleanup job runs `CleanerTake` to `CleanerRelease`. An official's decision is
`CheckDecision`, then `WriteDecision`. An object's key is `<<request, number>>`.
BullMQ is external: a job id it still holds is ignored, a finished job expires,
a stalled one is run again.

**BudgetLedger.** A transaction is `BeginEntry` (the service's check), `LockItem`
(the trigger's `SELECT ... FOR UPDATE`), `CheckEntry`, `CommitEntry` or
`Rollback`. What is written becomes visible at the commit. `CreateItem` is an
insert with the two triggers of the opening balance. `MoveItem`, `MoveYear` and
`MoveUser` are updates of the parent rows with their guards; `Movable` says which
of them occur.

**Complaints.** A call is `Begin...` (read and checks), `Write` (a transaction by
id), `Audit`, `Notify`. `close` is `BeginUpdateStatus` with the target `closed`.
`held` is a history variable. `AnswerFrom` are the statuses in which answers are
sent: the page offers the form for `assigned` and `in_progress`, the API takes
any.

**Households.** A call carries its input and makes the checks of its operation
one by one, in the order of the code (`Checks`, `Check`); the write is one step,
or two where a transaction first touches the member rows that it sees
(`OpenTransaction`: demotion of heads, deletion of the members of a family) and
waits for a row lock later. Triggers are part of the write that fires them.

**Attachments.** An upload is the purge of what a day has made stale
(`UploadPublic` reads, `PurgeObject` and `PurgeRow` delete one by one), then
`PutObject`, then `InsertFile`. A complaint is `CreatePublic`, `CheckFiles`,
`LinkFiles`, and `CommitReport` or `RollBackReport`: the link is made on the
plain client and survives the rollback. `RemoveFile` is the row, `RemoveObject`
the object, `RemoveDies` a process that ends in between. `DeleteObject` is
shared: when the bucket fails, the cleanup is queued, unless BullMQ still holds
the job id, and when that fails the audit row says so. `swept`, `contested` and
`erased` are history: rows a purge has read, files that two complaints took, rows
the staff removed.

**Accounts.** A call is `Begin...`, `Check`, `Count` and `WriteUser`, or the two
statements of the replacement of roles, `DeleteRoles` and `InsertRoles`: the
first sees a snapshot, and what another transaction inserts after it stays or is
a duplicate key. `alone` says that a call has met no other.

**Sessions.** A tab's steps are `Mount` (the session boundary), `Reload`,
`RequestUnauthorized` (a 401; requests of a tab share one refresh), `SubmitLogin`
and `SubmitLogout`. A call in the API is `LoginFindUser`, `IssueTokens`;
`RefreshFindToken`, `Rotate` (the conditional update), or `RevokeAllStart` and
`RevokeAllEnd` after reuse, as an `updateMany` sees the rows of its start only;
`LogoutRevoke`; `Audit`. `Answer`, `Refuse` and `LoseAnswer` are how it ends;
`Deliver` says what the page does then. `Expire` ages a token and perhaps its
cookie. `quiet` says that calls came one at a time and every answer arrived;
`ended` has the tokens whose logout was answered.

**TwoFactor.** Methods are `ReadPolicy`, `EnsureEnrollmentSecret`, `FreshSecret`,
`WriteTwoFactor`, `IssueSession`, on what the first read saw. The administrator
scans what a page shows (`app`).

**Registers.** A method is an operator that names its table, its input and the
reads that come before the write (`Creates`, `Updates`, `Removes`); `CheckNext`
makes a read, `WriteRow` writes, and `Accepted` is what indexes, foreign keys and
triggers let pass.

**TenantLinks.** `References` and `OnDeleteOf` are the schema; each `Enforce...`
and `Assert...` is a function of the migrations of the same name; `InsertRow`,
`UpdateRow` and `DeleteRow` are statements of any writer.

**Hierarchy.** Provisioning is `ProvisionCheck`, then `InsertTenant` or
`InsertRefused`. An overview descends one tenant a step (`Descend`), then counts
all (`CountTotals`) and each (`CountEach`).

**Seed.** `Script` is the sequence of steps, each with the way it looks for its
rows: upsert, find-then-create, insert, or a block that is skipped when its table
is not empty. A run takes them one row at a time and may die anywhere.

**Console.** A behaviour follows one mutation and one query that shows a table it
writes, over every such pair of the hooks. `Pages` says where the hooks
are used. `entry` is the cached answer, `fetch` a request under way; what the
library does with them (restart, stale time, garbage collection) is external.

**Dialogs.** A page is its drawers, with what opening and closing puts into each
part of its forms, and its buttons, with what their submit sends and their answer
blanks, closes and selects (`Screens`). Text is kept as its origin (`Marks`):
typed or read, for which record, and whether it was saved.

**MCServices.** The ten smaller parts share one run. A behaviour is one of `part`:
its own actions run, and the variables of all the other parts stay as they
started. No action of a part reads or writes a variable of another one, so that
their interleavings would show nothing more. What is said of a part by several
named invariants is one property of its module (`FactorsSound`, `RegistersSound`,
...), which the run checks and the theorem states.

## Runs

| Run | Instance | Shows |
|---|---|---|
| `letters_api` | 1 request, 1 reviewer, 3 calls, 2 cleanup jobs, crashes | `ClaimExclusive`: one call or job at a time works on the PDFs of a request. `IssuedOnce`, `NoDanglingFile`: issued once, and its PDF is never removed. `ImplementsLifecycle`: a refinement of `LetterLifecycle` |
| `letters_live` | 2 calls, 1 job, no crashes, fairness | `ClaimReleased`, `CleanupEnds`, and `DecideInState` for one official at a time |
| `letters_numbers` | 2 requests, a call and a PDF job, crashes | `NumbersUnique`, `IssuedWasApproved`, `NumberHasOutput` |
| `letters_stale_cleanup` | 2 reviewers, 2 calls, 1 job | violated: `AttachedStays` |
| `ledger_entries` | 1 item, 2 transactions, 2 years and tenants, everything moves, fairness | `CacheIsBalance`, `NeverOverdrawn`, `ScopeKept`, `CallsAnswered` |
| `ledger_moves` | years and users move | violated: `EntriesInScope` |
| `complaints_serial` | one call at a time, every failure, fairness | `ClosedHasDate`, `ReporterInformed`, and `FollowsWorkflow`: a refinement of `ComplaintWorkflow` |
| `complaints_reopen` | an answer in any status | violated: `RejectedStays` |
| `households_serial` | 2 families, 2 residents, 3 member rows, one call at a time | `DeletedDetached`, `DeletedFamilyEmpty`, `OneHead`, `HeadLeavesOffice`, `MovedStays` |
| `households_heads` | 1 family, 2 residents, overlapping calls | violated: `OneHead` |
| `sessions` | 1 tab, 2 calls, 3 tokens, an account that is removed, fairness | `RotationSound`: a token is rotated once, a login has one live token, an answered alarm has ended the sessions it saw. `NoFalseAlarm`, `LogoutEndsLogin`: what holds of a browser whose calls come one at a time. `WaitersAnswered` |
| `services` | the ten parts of `MCServices` | the properties below |

`services`, part by part:

| Part | Property | Shows |
|---|---|---|
| complaints, 2 overlapping calls | `ReachedInOrder`, `TimelineTruthful` | no status is recorded before the one it comes from; the citizen's timeline shows what happened |
| files | `AttachmentKept` | a filed complaint has its files and their objects, but in three named cases: a purge had read one, two complaints took one, the staff removed one |
| | `ObjectFollowsRow` | the object of a deleted row goes, or its cleanup is queued, or the audit log names it; only a death inside a removal forgets it |
| accounts | `AccountsKept` | a tenant loses its last administrator only by the change of another one's roles, or by calls that overlap |
| two-factor | `FactorsSound`, `PolicyKept` | nobody is asked for a secret never scanned, a session needs the code, the policy is not undone, for calls that meet no other |
| registers | `RegistersSound`, `PastKept` | codes are unique; whoever meets no other call is refused by the service and not by the database, outside the writes of `Unchecked`; booked records stay with their unit, posts keep their first date |
| tenant links | `LinksSound` | the preflight script would find nothing, but for the links of `UnguardedMoves` and `WithoutKey`; an RT/RW belongs to the hamlet of the address |
| hierarchy | `TreeSound` | a parent is there and above; an overview nobody disturbed is exact |
| seed | `SeedSound` | started again it doubles nothing but `superadmin_system`, and repairs, except the block of the residents |
| console | `PagesSound` | after a success, a page at rest shows the write, outside the pairs of `LeftAlone` and answers that were under way |
| dialogs | `FormsSound` | what was typed for one record is not sent to another (outside `Wanders`) nor twice (outside `Repeats`) |

The exceptions are the code's behaviour, and naming them is part of the result:
each is small, and everything outside it is checked. What they mean to a user:

- The pages of `Wanders` keep the text of one record for the next (the address of
  a resident, the member of a card, an RT/RW unit, a budget item), those of
  `Repeats` still offer what was saved. The answer of a submit that was left
  closes, or blanks, the drawer that is open by then.
- A query whose answer was read before a write and arrives after its invalidation,
  before the page had data or once it was left, shows old data until it is stale
  (30 seconds).
- Each run of the seed adds a row `superadmin_system`; two runs at once double
  rows; a death between the first resident and the last is never repaired.
- Two purges that take the same file make one of the uploads fail; two complaints
  with the same files both pass the check, and the second one takes them.
- The removal of a tenant deletes the row and then fails on its own audit row,
  which names the tenant. A village provisioned under an inactive parent is in no
  overview.
- An enable that overlaps a disable leaves an account enabled without a secret,
  which is then not asked for a code.

### Bounds, and why they are enough

- `MaxNumber` = 2 letter numbers: two letters of one sequence, or a failed
  attempt and the successful one after it. `MaxAttempts` = 2 (the code has 8 for
  cleanup jobs): a retry and a last attempt. Three calls are a holder of the
  claim, a retry, and the compensation of a third.
- `MaxEntries` = 3, `MaxBalance` = 3 and amounts 1 and 2: a realization and two
  reversals that exceed it only together, and realizations the last of which
  overflows the column. One item, since an entry reads and writes the rows of
  its own item only.
- `MaxQueue` bounds the mails in the queue when a call begins: with 3 there are
  mails of several changes waiting, and retried ones among them. No fairness
  is assumed of a call's beginning, so the bound forces nothing.
- `MaxRows` = 2 or 3 member rows ever inserted: an insertion, a removal and an
  insertion again, or a resident in two families.
- `sessions`: `MaxTokens` = 3 are a login, its rotation, and a second login or
  rotation; one tab has two calls when a page is reloaded or left under a call,
  which is also how the calls of two tabs meet in the API. Two bounds of
  `MCSessions`: accounts change only while the browser is at its first token, and
  a removal runs without a session step between its awaits, of which only the last
  writes what sessions read. Larger instances (two tabs with two tokens, 578 000
  states) showed nothing else, and the theorems have no bound.
- `services` has the bounds that `MCServices` names: a call takes the first free
  slot, as slots are alike (`FirstFree`); mails, failures and longer timelines are
  in `complaints_serial`, and a timeline shows one status, as each is judged by itself
  (`FewWritten`, `FewShown`, `Failures` = {}); two complaints
  over one file, or two files, or one of each with outages of the bucket
  (`FewFiles`); a second settings card or overlapping calls (`OneTabOrCall`); text
  for one record at a time in a part of a form (`FewForms`); four rows in scopes of
  three tables (`FewRows`); one caller who reads overviews, and one village with residents
  (`OneOverview`, `FewPeople`); edits of seeded rows, and runs without the password,
  where no runs overlapped (`EditsApart`); two writes by one mutation and one by each
  other (`FewWrites`). Each part was also checked alone without most of these:
  `Attachments` 1 430 000 states, `Accounts` with three users 310 000 and with
  overlaps 783 000, `TwoFactor` 430 000, `Seed` 604 000, `Dialogs` 419 000, `Console`
  200 000, `Hierarchy` 97 000, `Registers` 59 000, `TenantLinks` 21 000.
- Two rows of a table, two codes and two tenants are enough for the registers and
  the links: every rule compares a row with one other. A scope is the tables at the
  two ends of a link, or the three around an address.
- Two overlapping calls show every stale read: one that has read and one that
  writes in between. Races of two officials on one request, and of two heads on
  one card, are not in the passing runs but in the theorems, for any number.
- The theorems drop these bounds, or keep them as arbitrary constants.

`CHECK_DEADLOCK FALSE` stands in the complaints configurations, where a closed or
rejected complaint with an empty queue is the end of the work, and in `sessions`
and `services`, where tokens, secrets, runs and rows are used up: there the bounds
end a behaviour.

### Fairness

A call that has begun continues, because Node's event loop runs while its process
lives: weak fairness on the steps of each call, and never on the client who
begins one. A BullMQ worker takes waiting jobs: weak fairness on each. Row locks
are granted in turn by PostgreSQL: strong fairness on each transaction of the
ledger. No run assumes that an official decides or that a call succeeds. The
fairness runs of the letters have no crashes: after one, a request stays
`generating`, and no code resets it. `ReporterInformed` allows for the three
ways in which the code accepts to lose a mail, kept in the history variable
`missed`; that BullMQ brings a delayed job back is assumed. In `sessions` the API
finishes each call and its answer comes or is found to be lost (the fetch
rejects): weak fairness on `ApiStep` of each call, none on what a person does.
The other parts state no liveness: their calls are finite and wait for nobody.

## Findings

`PROJECT.json` quotes the statements that the code departs from; in short:

1. A decision on a letter can be written on a request that is no longer in the
   status that was checked; through that, a cleanup job can delete a PDF which
   has been attached (`letters_stale_cleanup`).
2. A year or an author can be moved to another tenant while an entry is written
   but not committed (`ledger_moves`).
3. An answer marked as resolved reopens a rejected complaint
   (`complaints_reopen`).
4. Two heads can be added to one family card at once (`households_heads`).

The same stale reads show when other runs are loosened: `DecideInState` with two
reviewers, `FollowsWorkflow` and `DeletedDetached` with `Serialized = FALSE` are
violated. This is why these properties are stated for one call at a time, and why
the ones that hold under every overlap are stated and proved apart from them.

## Proofs

All theorems hold for every value of the constants that satisfies the named
assumptions, which TLC evaluates in the runs: sets of ids and calls are any sets
(`SetsAssumption`, `HouseholdsAssumption`, `OwnersDiffer`, `AccountsAssumption`,
`RegistersAssumption`, `TenantLinksAssumption`, `AboveAssumption`,
`ListedAssumption`), bounds are any numbers (`BoundsAssumption`,
`LedgerAssumption`, `ComplaintsAssumption`, `SessionsAssumption`,
`TwoFactorAssumption`, `SeedAssumption`). Every safety property that a passing run
checks, invariant or action property, and both refinements are stated by a theorem;
where a run has one call at a time (`Serialized`) or the page's answers
(`PageAnswers`), so has its theorem, as a hypothesis.

- **Letters.** `TypeCorrect` needs `TypeInv`: an issuer past its claim has a
  request, and past `AllocateNumber` a number. `NumbersNeverShared` needs
  `NumberInv`: every number in use is at most `last_number` and held by one
  issuer or one output. It holds with PDF workers, stale decisions and crashes.
  `IssuedLettersApproved` needs `ApprovalInv`: whoever is past the claim, and
  every pending decision, has the approvals of its status on record, because
  approvals are never deleted. `NumbersHaveOutputs` rests on it: only `Commit`
  completes a request or gives it a number. `ClaimIsLock` needs `LockInv`: under `Serialized`
  a decision in flight implies that the request is not yet approved, so nobody
  but the holder changes `generating`; it yields `ClaimExclusive`, `IssuedOnce`
  and `NoDanglingFile`, and `DecisionsStayFresh`. `ImplementsTheLifecycle` combines
  it with `NumberInv` and `NumberHasOutput`: of all steps only `CreateRequest`,
  `WriteDecision` and `Commit` are seen through the mapping, and the number that
  `Commit` publishes is one no request has.
- **Ledger.** `TypeCorrect` needs `BalanceInv`: a transaction past `LockItem`
  holds the lock, so the balance it has read is the current one, and that is why
  the cache stays within its column. `ScopeIsKept` shows what the guards on the
  parent rows achieve, whatever moves: a committed entry stays in its scope.
  `LedgerInScope` (when only items move) needs
  `ScopeInv`: an entry past its lock is in the tenant of its item, which the row
  lock keeps from moving.
  `CacheCorrect` and `ReversalsCovered` need `CacheInv`: the cache is the balance of
  the ledger, the balance was never below zero after any entry, and an item that is
  not yet created has none. The balance is a recursive function of the ledger, so
  the proof first shows that the recursion has one solution (`BalancesExist`,
  `BooksAgree`) and that appending an entry leaves the balances before it and adds its
  own effect (`BalanceAppended`); the induction over positions is that of the least element of a set
  of numbers (`WFMin`, `NatLessThanWellFounded`), as a set is no operator parameter.
  `CommitEntry` then books what it computed under the row lock, where by
  `BalanceInv` the cache it has read is the current one.
- **Complaints.** `HistoryInOrder` and `TimelineIsTrue` need `HistoryInv`: what a
  call is about to write has its predecessor in the history already, and the
  history only grows; stale writes therefore do no harm here. `ImplementsWorkflow`
  needs `FreshInv`: with one call at a time the status a call has read is still
  the current one. It shows the refinement of `ComplaintWorkflow`: initial states
  map to initial states, each step to a step or a stutter. `EndedIsDated` adds
  `DateInv`: a call that is about to write has read an open complaint, which has no
  date, and only `updateStatus` writes 'closed' or 'rejected'.
- **Households.** `TidyWhenSerialized` needs `TidyInv` and `FreshInv`: with one
  call at a time, what has been checked still holds at the write. `HeadsLeaveOffice`
  needs `RowInv` (row ids are never reused) and `SeenInv` (the row a removeMember
  has read is the row it deletes, unless it was demoted). `MovedResidentsStay`
  follows from the steps and `TypeCorrect`.
- **Attachments.** `FiledComplaintsKeepFiles` and `ObjectsFollowRows` need
  `FilesInv`: an object that is being inserted is not in use by anyone else
  (`UploadInv`); a live row has its object unless a purge has read it, and a deleted
  one is cleared, queued, or in somebody's hands (`ObjectInv`); a finished cleanup
  job has removed the object for good (`JobInv`); a linked complaint has its files or
  one of the three cases took them (`ReportInv`).
- **Accounts.** `AdministratorStays` needs `AccountsInv`: as long as a call is alone,
  what it has read is still so (`AloneSound`), so that its count leaves somebody.
- **Sessions.** `RotationIsSound` needs `SessionsInv`: `TokensInv` (a token comes
  after the one it replaces, which is dead, and a login has one root), `CallInv` (a
  revocation under way has every live token of the user that existed when the call
  looked) and `RoomInv` (a call that may need a token has a place: a cardinality, for
  which `SessionsAssumption` has finitely many calls). The one live token follows
  because only the live token of a login is rotated, by a conditional update.
  `QuietBrowserIsSafe` adds `QuietInv`: in a quiet browser one call runs, the cookie
  is live between calls (`CookieLive`), each call finds what it was sent with
  (`Clean`), and a login that ended stays so (`Over`, `EndedInv`).
- **Two-factor.** `SecondFactorStands` (no lock-out, sessions proven) and
  `PolicyStands` (the action property) need `FactorInv`: which steps a method can be
  at with what settled (`StepSound`), what a call that met no other has read is still
  so (`Undisturbed`), what is about to be switched on was scanned while calls do not
  overlap (`FactorCalm`, `Apart`), and secrets do not run out (`Bounded`, a
  cardinality). The policy is undone only by an enrolment set up anew, or by a disable
  that met another call.
- **Registers.** `RecordsAndDatesStay` needs `PastInv`: a record has its unit
  (`RecordsLinked`, by the foreign key), and an update that is alone and dates a post
  has read that it has no date (`DatesFresh`). `RegistersAreSound` needs `SoundInv`
  next to it: the reads that a call has still to make suffice (`ReadsSuffice`: when
  they pass, indexes, keys and triggers accept the write, outside `Unchecked`); that
  is an invariant because each check of a call leaves the same implication with
  fewer reads, and nobody writes while a call is alone. Codes of a tenant are rooted
  (`Rootless`), and a published post keeps a date whoever overlaps (`PostsDated`).
- **Tenants.** `TreeStands` needs `TreeInv`: a tenant about to be inserted has a
  parent of the right level, or one that is gone (`Aimed`; a level never changes), and
  an overview that nothing disturbed has found, together with what lies under what
  it has still to descend into, just the villages below its tenant (`Surveyed`). One
  level of the descent is `BelowByChildren`: villages below are those among the
  children and those below the others.
- **Seed.** `SeedStands` needs `SeedInv`. `ScriptFits` is about the script itself: no
  row is written by two steps, and each step has rows. On it rest `OneRun`, `RowsAhead`
  (the rows that a run writes next are not there, those before are), `HeadFirst` (no
  row of a step without its first) and `Begun` (a step that has begun is complete, or a
  run is in it, or one died in the block it does not repair). The last one is what
  `SeedRepairs` needs: a block is skipped because of its first row.
- **Tenant links.** `LinksStand` needs `LinksInv`: foreign keys hold (`KeysStand`),
  nothing refers to a row that is yet to be inserted (`NoneAhead`), what may not be
  NULL is set (`NotNull`), and the two ends of a link have one tenant (`TenantsAgree`,
  for the tenant that a response or a role assignment has by its complaint or user).
  An insert or update is good at its own end by the guard of its table (`GuardsOut`)
  and at the other by the dependent guard of the row that moves (`MovesIn`); each is
  proved for all 32 links. A deletion needs `GoneIsClosed`: among these 32 links no
  table that goes with another takes a third one along (`GoingTakesNone`), so what one deletion takes is
  closed under the cascades, and nothing that stays refers to it but the columns set
  to NULL and the links without a key.
- **Console.** `PagesStand` rests on `WritesReach`, proved hook by hook: for every
  mutation and every query that shows a table it writes, one of the keys it
  invalidates is a prefix of the query's key, or the pair is in `LeftAlone`.
  `ConsoleInv` follows a write that the user was told of: it is in the entry, or in the
  answer under way, or the entry is invalid (`EntryTold`, `FetchTold`), and a page at
  rest has no invalid entry (`AtRest`).
- **Dialogs.** `FormsStand` rests on one lemma per page (`...PageCoherent`): where a
  drawer keeps a part of its form when it opens, no other drawer of the page leaves
  text there that belongs to another record or was saved, outside `Wanders` and
  `Repeats`. `FormsInv` has what the parts hold while their drawer is in front
  (`FrontOwn`, `FrontUnsaved`) and while it is not (`DraftsFresh`, `KeptUnsaved`), and
  what each submit under way took from them (`SentWhole`, `SentOwn`, `SentOnce`).

Only model-checked: everything under fairness (`ClaimReleased`, `CleanupEnds`,
`CallsAnswered`, `ReporterInformed`, `WaitersAnswered`), which the prover does not
reach, and the four violations.

## Plan

Done in this order, the most consequential state first: letters, ledger,
complaints, households; then files, accounts, sessions, two-factor login,
registers, tenant links, tenants, the seed, and the console's cache and forms; then
the proofs about files, accounts, sessions and registers, and those about the
second factor, the ledger's balances, the tree, the seed, the tenant links and the
console. What is left:

1. Proofs of the safety part of what is now stated as liveness: a claim that is held
   has a holder, or a cleanup, that will release it; a mail that is due is queued,
   delayed, or counted in `missed`.
2. `Complaints` composed with `Attachments`: the creation that links is a step of
   both, and each module has its own view of it now.
3. An abstract specification of a session (signed in or not, per login) that
   `Sessions` refines in a quiet browser.
4. The superadmin's reach over tenants, and the claims in an access token that
   outlive the rights they stand for.
5. The letter types, templates and settings that the letter workflow reads.

## Not modelled

- Validation of single fields, formatting, reports, the drawing of PDFs and mails,
  addresses and notifications in the app: no state shared between calls.
- The HTTP shell, guards, throttling, configuration, scripts and CI.
- Of the console: exports and downloads, the audit log's query, the overview of a
  district and the summary of a village, lists, filters and layout, public pages,
  confirmation dialogs. Two-factor hooks are in `TwoFactor`, not in `Console`.
- A reset of passwords: the code has no such flow. `users.update` (with its
  password) and the permissions of a role are left out of `Accounts`.
- In `TenantLinks` the early return of the guards while a tenant is being deleted:
  the program deletes no tenant that has rows.
- Process deaths of the API outside letters, files and the seed: a transaction is
  rolled back then; what a call without one leaves behind, and whether its audit row
  is missing, is not followed.
- The models are of one tenant, except the ledger's, the links' and the tree's.

The notes in `PROJECT.json` say it part by part, with the hazards that no property
covers and why.
