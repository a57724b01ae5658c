---------------------------- MODULE LetterIssuance ----------------------------
(***************************************************************************)
(* The life of letter requests in SIDPRO: the decisions of the officials   *)
(* (LettersService.verify, approve, reject), the generation of the PDF     *)
(* (LettersService.generatePdf, and processLetterPdfJob of the worker when *)
(* ENABLE_PDF_WORKER is set), the compensation that runs when generation   *)
(* fails (LetterPdfStorageCompensationInterceptor) and the storage-cleanup *)
(* worker.  Each step is one call to PostgreSQL, to MinIO or to BullMQ, so *)
(* the interleavings are those of concurrent HTTP requests and jobs.       *)
(*                                                                         *)
(* All requests belong to one tenant, one letter type and one year, that   *)
(* is to one row of letter_number_sequences.  The key of a PDF in MinIO,   *)
(* `${tenantId}/letters/${id}/${number}.pdf`, is the pair <<r, n>>; the    *)
(* prefix of a request is the set of the pairs that start with it.         *)
(***************************************************************************)
EXTENDS Naturals, FiniteSets

CONSTANTS
  Requests,      \* letter requests
  Reviewers,     \* calls of verify / approve / reject that may be in flight
  Generators,    \* calls of POST generate-pdf that may be in flight
  PdfWorkers,    \* jobs of the pdf-generation queue ({}: ENABLE_PDF_WORKER=false)
  Cleaners,      \* storage-cleanup jobs that may run at the same time
  MaxNumber,     \* bound of the model on the letter numbers
  MaxAttempts,   \* attempts of a cleanup job (8 in the code)
  MayCrash,      \* may the API or the worker process die?
  NoRequest      \* the request of an idle process

Issuers == Generators \cup PdfWorkers

ASSUME SetsAssumption ==
  /\ NoRequest \notin Requests
  /\ Generators \cap PdfWorkers = {}
ASSUME BoundsAssumption ==
  /\ MaxNumber \in Nat
  /\ MaxAttempts \in Nat \ {0}
  /\ MayCrash \in BOOLEAN

VARIABLES
  status,        \* letter_requests.status ("none": not created yet)
  approvals,     \* letter_approvals, as <<request, level, status>>
  letterNumber,  \* letter_requests.letter_number, 0 for NULL
  outputs,       \* keys of the PDFs that have their files and letter_outputs rows
  lastNumber,    \* letter_number_sequences.last_number
  objects,       \* keys of the objects in MinIO
  job,           \* the BullMQ job of each request's prefix (its jobId is fixed)
  cleanupLog,    \* the last audit event about the cleanup of each prefix
  review,        \* decision each reviewer has checked and not written yet
  pc, req, num,  \* step, request and allocated number of each issuer
  cpc, creq      \* step and request of each cleaner

dbVars     == <<status, approvals, letterNumber, outputs, lastNumber>>
queueVars  == <<job, cleanupLog>>
issuerVars == <<pc, req, num>>
cleanVars  == <<cpc, creq>>
vars == <<dbVars, objects, queueVars, review, issuerVars, cleanVars>>

-----------------------------------------------------------------------------
Status   == {"none", "submitted", "verified", "rejected", "approved",
             "generating", "completed"}
Decision == [op : {"verify", "approve", "reject"}, to : Status, req : Requests]
NoDecision == [op |-> "none", to |-> "none", req |-> NoRequest]
Key      == Requests \X (1 .. MaxNumber)
JobState == {"none", "waiting", "active", "completed", "failed"}
CleanupEvent == {"none", "required", "enqueue_failed", "completed", "skipped",
                 "retry", "failed"}

\* Where an issuer stands: before its claim ("idle"), in generatePdf, in the
\* catch block ("release"), in the interceptor.
Generating == {"check", "number", "upload", "commit", "audit", "release"}
Locked     == {"list", "delete", "enqueue", "unlock"}
IssuerPC   == {"idle", "probe", "lock"} \cup Generating \cup Locked
CleanerPC  == {"idle", "claim", "check", "delete", "skipped", "done", "error"}

TypeOK ==
  /\ status \in [Requests -> Status]
  /\ approvals \subseteq Requests \X {"verify", "approve", "reject"} \X Status
  /\ letterNumber \in [Requests -> 0 .. MaxNumber]
  /\ outputs \subseteq Key
  /\ lastNumber \in 0 .. MaxNumber
  /\ objects \subseteq Key
  /\ job \in [Requests -> [state : JobState, made : Nat]]
  /\ cleanupLog \in [Requests -> CleanupEvent]
  /\ review \in [Reviewers -> Decision \cup {NoDecision}]
  /\ pc \in [Issuers -> IssuerPC]
  /\ req \in [Issuers -> Requests \cup {NoRequest}]
  /\ num \in [Issuers -> 0 .. MaxNumber]
  /\ cpc \in [Cleaners -> CleanerPC]
  /\ creq \in [Cleaners -> Requests \cup {NoRequest}]

Prefix(r)    == {r} \X (1 .. MaxNumber)
HasOutput(r) == outputs \cap Prefix(r) # {}
NoJob        == [state |-> "none", made |-> 0]

Init ==
  /\ status = [r \in Requests |-> "none"]
  /\ approvals = {}
  /\ letterNumber = [r \in Requests |-> 0]
  /\ outputs = {}
  /\ lastNumber = 0
  /\ objects = {}
  /\ job = [r \in Requests |-> NoJob]
  /\ cleanupLog = [r \in Requests |-> "none"]
  /\ review = [v \in Reviewers |-> NoDecision]
  /\ pc = [p \in Issuers |-> "idle"]
  /\ req = [p \in Issuers |-> NoRequest]
  /\ num = [p \in Issuers |-> 0]
  /\ cpc = [c \in Cleaners |-> "idle"]
  /\ creq = [c \in Cleaners |-> NoRequest]

-----------------------------------------------------------------------------
(* LettersService.createRequest, verify, approve, reject.  A decision reads  *)
(* the request, checks its status, and then writes an approval row and the   *)
(* status in one transaction that does not look at the status again.         *)

CreateRequest(r) ==
  /\ status[r] = "none"
  /\ status' = [status EXCEPT ![r] = "submitted"]
  /\ UNCHANGED <<approvals, letterNumber, outputs, lastNumber, objects,
                 queueVars, review, issuerVars, cleanVars>>

\* Mutant: approve also takes a request that nobody verified.
MutRequiredStatus(op) == IF op = "verify" THEN {"submitted"} ELSE {"submitted", "verified"}

\* The statuses in which a decision is allowed and the ones it may write.
RequiredStatus(op) == CASE op = "verify"  -> {"submitted"}
                        [] op = "approve" -> {"verified"}
                        [] op = "reject"  -> {"submitted", "verified"}
WrittenStatus(op)  == CASE op = "verify"  -> {"verified", "rejected"}
                        [] op = "approve" -> {"approved", "rejected"}
                        [] op = "reject"  -> {"rejected"}

\* Mutant: a decision that does not look at the status.
MutCheckDecision(v, d) ==
  /\ review[v] = NoDecision /\ status[d.req] # "none" /\ d.to \in WrittenStatus(d.op)
  /\ review' = [review EXCEPT ![v] = d]
  /\ UNCHANGED <<dbVars, objects, queueVars, issuerVars, cleanVars>>

CheckDecision(v, d) ==
  /\ review[v] = NoDecision
  /\ status[d.req] \in RequiredStatus(d.op)
  /\ d.to \in WrittenStatus(d.op)
  /\ review' = [review EXCEPT ![v] = d]
  /\ UNCHANGED <<dbVars, objects, queueVars, issuerVars, cleanVars>>

WriteDecision(v) ==
  LET d == review[v] IN
  /\ d # NoDecision
  /\ approvals' = approvals \cup {<<d.req, d.op, d.to>>}
  /\ status' = [status EXCEPT ![d.req] = d.to]
  /\ review' = [review EXCEPT ![v] = NoDecision]
  /\ UNCHANGED <<letterNumber, outputs, lastNumber, objects, queueVars,
                 issuerVars, cleanVars>>

\* The transaction fails, or the process dies before it: nothing is written.
DropDecision(v) ==
  /\ review[v] # NoDecision
  /\ review' = [review EXCEPT ![v] = NoDecision]
  /\ UNCHANGED <<dbVars, objects, queueVars, issuerVars, cleanVars>>

-----------------------------------------------------------------------------
(* Steps of an issuer.  Claim and Unclaim are the two conditional updates    *)
(* (updateMany with the status in its WHERE) that the API's generatePdf, the *)
(* interceptor and the cleanup worker share: approved -> generating, back.   *)

\* Mutants: the conditional updates without their conditions, and a release
\* that writes a status the schema does not have.
MutClaim(r)       == /\ status[r] \in {"approved", "generating"}
                     /\ status' = [status EXCEPT ![r] = "generating"]
MutUnclaim(r)     == status' = [status EXCEPT ![r] = "approved"]

Claim(r)   == status[r] = "approved" /\ status' = [status EXCEPT ![r] = "generating"]
Unclaim(r) == status' = IF status[r] = "generating"
                        THEN [status EXCEPT ![r] = "approved"] ELSE status

Goto(p, to) == pc' = [pc EXCEPT ![p] = to] /\ UNCHANGED <<req, num>>
Finish(p)   == /\ pc'  = [pc EXCEPT ![p] = "idle"]
               /\ req' = [req EXCEPT ![p] = NoRequest]
               /\ num' = [num EXCEPT ![p] = 0]
Begin(p, r, to) == /\ pc[p] = "idle"
                   /\ pc'  = [pc EXCEPT ![p] = to]
                   /\ req' = [req EXCEPT ![p] = r]
                   /\ UNCHANGED num

\* generatePdf: the claim.  When it is refused the call fails, and the
\* interceptor of the route sees that error too.
ClaimForPdf(g, r) ==
  /\ Begin(g, r, "check")
  /\ Claim(r)
  /\ UNCHANGED <<approvals, letterNumber, outputs, lastNumber, objects,
                 queueVars, review, cleanVars>>

ClaimRefused(g, r) ==
  /\ Begin(g, r, "probe")
  /\ status[r] \notin {"none", "approved"}
  /\ UNCHANGED <<dbVars, objects, queueVars, review, cleanVars>>

\* processLetterPdfJob: the status is read, and not claimed.
StartPdfJob(w, r) ==
  /\ Begin(w, r, "check")
  /\ status[r] = "approved"
  /\ UNCHANGED <<dbVars, objects, queueVars, review, cleanVars>>

\* Mutant: generatePdf without its catch block.
MutFail(p) == Finish(p)

\* An error ends a job of the worker; a call of the API goes to its catch block.
Fail(p) == IF p \in Generators THEN Goto(p, "release") ELSE Finish(p)

\* The request must not have an output yet.
CheckOutput(p) ==
  /\ pc[p] = "check"
  /\ IF HasOutput(req[p]) THEN Fail(p) ELSE Goto(p, "number")
  /\ UNCHANGED <<dbVars, objects, queueVars, review, cleanVars>>

\* Mutants: the number is the one before the increment; the number is written
\* to the request before the letter exists.
MutAllocateNumber(p) ==
  /\ pc[p] = "number" /\ lastNumber < MaxNumber /\ lastNumber' = lastNumber + 1
  /\ num' = [num EXCEPT ![p] = IF lastNumber = 0 THEN 1 ELSE lastNumber]
  /\ pc' = [pc EXCEPT ![p] = "upload"]
  /\ UNCHANGED <<status, approvals, letterNumber, outputs, objects, queueVars,
                 review, req, cleanVars>>
MutNumberFirst(p) ==
  /\ pc[p] = "number" /\ lastNumber < MaxNumber /\ lastNumber' = lastNumber + 1
  /\ num' = [num EXCEPT ![p] = lastNumber + 1]
  /\ letterNumber' = [letterNumber EXCEPT ![req[p]] = lastNumber + 1]
  /\ pc' = [pc EXCEPT ![p] = "upload"]
  /\ UNCHANGED <<status, approvals, outputs, objects, queueVars, review, req, cleanVars>>

\* The upsert that increments last_number in one statement.
AllocateNumber(p) ==
  /\ pc[p] = "number"
  /\ lastNumber < MaxNumber
  /\ lastNumber' = lastNumber + 1
  /\ num' = [num EXCEPT ![p] = lastNumber + 1]
  /\ pc' = [pc EXCEPT ![p] = "upload"]
  /\ UNCHANGED <<status, approvals, letterNumber, outputs, objects,
                 queueVars, review, req, cleanVars>>

Upload(p) ==
  /\ pc[p] = "upload"
  /\ objects' = objects \cup {<<req[p], num[p]>>}
  /\ Goto(p, "commit")
  /\ UNCHANGED <<dbVars, queueVars, review, cleanVars>>

\* The transaction that makes the letter: file row, request row, output row.
Commit(p) ==
  /\ pc[p] = "commit"
  /\ outputs' = outputs \cup {<<req[p], num[p]>>}
  /\ letterNumber' = [letterNumber EXCEPT ![req[p]] = num[p]]
  /\ status' = [status EXCEPT ![req[p]] = "completed"]
  /\ Goto(p, "audit")
  /\ UNCHANGED <<approvals, lastNumber, objects, queueVars, review, cleanVars>>

\* The audit row is written after the transaction, and its failure is an error.
AuditIssue(p) ==
  /\ pc[p] = "audit"
  /\ Finish(p)
  /\ UNCHANGED <<dbVars, objects, queueVars, review, cleanVars>>

\* Any of these calls may fail; a failed upload may have stored the object.
StepFails(p) ==
  /\ pc[p] \in Generating \ {"release"}
  /\ Fail(p)
  /\ objects' \in IF pc[p] = "upload"
                  THEN {objects, objects \cup {<<req[p], num[p]>>}} ELSE {objects}
  /\ UNCHANGED <<dbVars, queueVars, review, cleanVars>>

\* The catch block of generatePdf.
Release(g) ==
  /\ pc[g] = "release"
  /\ Unclaim(req[g])
  /\ Goto(g, "probe")
  /\ UNCHANGED <<approvals, letterNumber, outputs, lastNumber, objects,
                 queueVars, review, cleanVars>>

-----------------------------------------------------------------------------
(* compensateIfNeeded, run by the interceptor after any error of the route.  *)

\* An audit event, and one whose failure changes nothing else.
Log(r, event)      == cleanupLog' = [cleanupLog EXCEPT ![r] = event]
LogOrNot(r, event) == Log(r, event) \/ UNCHANGED cleanupLog

Probe(g) ==
  /\ pc[g] = "probe"
  /\ IF HasOutput(req[g]) THEN Finish(g) ELSE Goto(g, "lock")
  /\ UNCHANGED <<dbVars, objects, queueVars, review, cleanVars>>

LockPrefix(g) ==
  /\ pc[g] = "lock"
  /\ Claim(req[g])
  /\ Goto(g, "list")
  /\ UNCHANGED <<approvals, letterNumber, outputs, lastNumber, objects,
                 queueVars, review, cleanVars>>

LockRefused(g) ==
  /\ pc[g] = "lock"
  /\ status[req[g]] # "approved"
  /\ Finish(g)
  /\ UNCHANGED <<dbVars, objects, queueVars, review, cleanVars>>

\* An error before the claim is logged and dropped.
CompensationFails(g) ==
  /\ pc[g] \in {"probe", "lock"}
  /\ Finish(g)
  /\ UNCHANGED <<dbVars, objects, queueVars, review, cleanVars>>

\* The list may be empty, may name objects, or may fail.
ListPrefix(g) ==
  /\ pc[g] = "list"
  /\ \/ objects \cap Prefix(req[g]) = {} /\ Goto(g, "unlock")
     \/ objects \cap Prefix(req[g]) # {} /\ Goto(g, "delete")
     \/ Goto(g, "enqueue")
  /\ UNCHANGED <<dbVars, objects, queueVars, review, cleanVars>>

\* deletePrefix deletes one object after the other and may stop at any of them.
DeletePrefix(g) ==
  /\ pc[g] = "delete"
  /\ objects' = objects \ Prefix(req[g])
  /\ Log(req[g], "completed")
  /\ Goto(g, "unlock")
  /\ UNCHANGED <<dbVars, job, review, cleanVars>>

DeletePrefixFails(g) ==
  /\ pc[g] = "delete"
  /\ \E gone \in SUBSET (objects \cap Prefix(req[g])) : objects' = objects \ gone
  /\ Goto(g, "enqueue")
  /\ UNCHANGED <<dbVars, queueVars, review, cleanVars>>

\* queuePrefixCleanup.  BullMQ ignores an add under the jobId of a job it still
\* holds, also of one that is finished; the caller cannot tell.
EnqueueCleanup(g) ==
  LET r == req[g] IN
  /\ pc[g] = "enqueue"
  /\ job' = IF job[r].state = "none"
            THEN [job EXCEPT ![r] = [state |-> "waiting", made |-> 0]] ELSE job
  /\ LogOrNot(r, "required")
  /\ Goto(g, "unlock")
  /\ UNCHANGED <<dbVars, objects, review, cleanVars>>

EnqueueFails(g) ==
  /\ pc[g] = "enqueue"
  /\ LogOrNot(req[g], "enqueue_failed")
  /\ Goto(g, "unlock")
  /\ UNCHANGED <<dbVars, objects, job, review, cleanVars>>

\* The finally block.
UnlockPrefix(g) ==
  /\ pc[g] = "unlock"
  /\ Unclaim(req[g])
  /\ Finish(g)
  /\ UNCHANGED <<approvals, letterNumber, outputs, lastNumber, objects,
                 queueVars, review, cleanVars>>

\* The API or the worker dies, or cannot reach the database for the update
\* that gives a claim back.
Crash(p) ==
  /\ MayCrash
  /\ pc[p] # "idle"
  /\ Finish(p)
  /\ UNCHANGED <<dbVars, objects, queueVars, review, cleanVars>>

-----------------------------------------------------------------------------
(* processStorageCleanupJob for a prefix: claim the request, look for a file *)
(* row under the prefix, delete, and give the claim back in the finally.     *)

CleanerGoto(c, to) == cpc' = [cpc EXCEPT ![c] = to] /\ UNCHANGED creq
EndJob(c, result) ==
  /\ cpc'  = [cpc EXCEPT ![c] = "idle"]
  /\ creq' = [creq EXCEPT ![c] = NoRequest]
  /\ job'  = [job EXCEPT ![creq[c]] = result]
Completed(c) == [job[creq[c]] EXCEPT !.state = "completed"]
LastAttempt(c) == job[creq[c]].made + 1 >= MaxAttempts
\* Mutant: the attempts are not counted.
MutRetried(c) == [job[creq[c]] EXCEPT !.state = "waiting"]
Retried(c) == [state |-> IF LastAttempt(c) THEN "failed" ELSE "waiting",
               made  |-> job[creq[c]].made + 1]

CleanerTake(c, r) ==
  /\ cpc[c] = "idle"
  /\ job[r].state = "waiting"
  /\ job'  = [job EXCEPT ![r].state = "active"]
  /\ cpc'  = [cpc EXCEPT ![c] = "claim"]
  /\ creq' = [creq EXCEPT ![c] = r]
  /\ UNCHANGED <<dbVars, objects, cleanupLog, review, issuerVars>>

\* Mutant: the cleanup job does not claim the request.
MutCleanerClaim(c) ==
  /\ cpc[c] = "claim" /\ CleanerGoto(c, "check")
  /\ UNCHANGED <<dbVars, objects, queueVars, review, issuerVars>>

CleanerClaim(c) ==
  /\ cpc[c] = "claim"
  /\ Claim(creq[c])
  /\ CleanerGoto(c, "check")
  /\ UNCHANGED <<approvals, letterNumber, outputs, lastNumber, objects,
                 queueVars, review, issuerVars>>

\* Not available: the job is skipped and counts as completed.
CleanerSkips(c) ==
  /\ cpc[c] = "claim"
  /\ status[creq[c]] # "approved"
  /\ Log(creq[c], "skipped")
  /\ EndJob(c, Completed(c))
  /\ UNCHANGED <<dbVars, objects, review, issuerVars>>

CleanerCheck(c) ==
  /\ cpc[c] = "check"
  /\ IF HasOutput(creq[c])
     THEN Log(creq[c], "skipped") /\ CleanerGoto(c, "skipped")
     ELSE CleanerGoto(c, "delete") /\ UNCHANGED cleanupLog
  /\ UNCHANGED <<dbVars, objects, job, review, issuerVars>>

CleanerDelete(c) ==
  /\ cpc[c] = "delete"
  /\ objects' = objects \ Prefix(creq[c])
  /\ Log(creq[c], "completed")
  /\ CleanerGoto(c, "done")
  /\ UNCHANGED <<dbVars, job, review, issuerVars>>

CleanerFails(c) ==
  LET held == objects \cap Prefix(creq[c]) IN
  /\ cpc[c] \in {"claim", "check", "delete"}
  /\ \E gone \in IF cpc[c] = "delete" THEN SUBSET held ELSE {{}} :
       objects' = objects \ gone
  /\ LogOrNot(creq[c], IF LastAttempt(c) THEN "failed" ELSE "retry")
  /\ IF cpc[c] = "claim" THEN EndJob(c, Retried(c))
     ELSE CleanerGoto(c, "error") /\ UNCHANGED job
  /\ UNCHANGED <<dbVars, review, issuerVars>>

CleanerRelease(c) ==
  /\ cpc[c] \in {"skipped", "done", "error"}
  /\ Unclaim(creq[c])
  /\ EndJob(c, IF cpc[c] = "error" THEN Retried(c) ELSE Completed(c))
  /\ UNCHANGED <<approvals, letterNumber, outputs, lastNumber, objects,
                 cleanupLog, review, issuerVars>>

\* The worker dies: BullMQ finds the job stalled, and runs it again or fails it.
CleanerCrash(c) ==
  /\ MayCrash
  /\ cpc[c] # "idle"
  /\ \E s \in {"waiting", "failed"} : EndJob(c, [job[creq[c]] EXCEPT !.state = s])
  /\ UNCHANGED <<dbVars, objects, cleanupLog, review, issuerVars>>

\* BullMQ drops a finished job (removeOnComplete, removeOnFail).
JobExpires(r) ==
  /\ job[r].state \in {"completed", "failed"}
  /\ job' = [job EXCEPT ![r] = NoJob]
  /\ UNCHANGED <<dbVars, objects, cleanupLog, review, issuerVars, cleanVars>>

-----------------------------------------------------------------------------
ReviewerNext == \E v \in Reviewers :
  \/ \E op \in {"verify", "approve", "reject"}, to \in Status, r \in Requests :
       CheckDecision(v, [op |-> op, to |-> to, req |-> r])
  \/ WriteDecision(v)
  \/ DropDecision(v)

\* What an issuer does once it has begun; starting a call is up to the client.
GenerateStep(p) == \/ CheckOutput(p) \/ AllocateNumber(p) \/ Upload(p)
                   \/ Commit(p) \/ AuditIssue(p) \/ StepFails(p)
CompensateStep(g) == \/ Release(g) \/ Probe(g) \/ LockPrefix(g) \/ LockRefused(g)
                     \/ CompensationFails(g) \/ ListPrefix(g) \/ DeletePrefix(g)
                     \/ DeletePrefixFails(g) \/ EnqueueCleanup(g)
                     \/ EnqueueFails(g) \/ UnlockPrefix(g)
IssuerStep(p) == GenerateStep(p) \/ CompensateStep(p)

CleanerStep(c) == \/ CleanerClaim(c) \/ CleanerSkips(c) \/ CleanerCheck(c)
                  \/ CleanerDelete(c) \/ CleanerFails(c) \/ CleanerRelease(c)

Next ==
  \/ \E r \in Requests : CreateRequest(r) \/ JobExpires(r)
  \/ ReviewerNext
  \/ \E g \in Generators, r \in Requests : ClaimForPdf(g, r) \/ ClaimRefused(g, r)
  \/ \E w \in PdfWorkers, r \in Requests : StartPdfJob(w, r)
  \/ \E p \in Issuers : IssuerStep(p) \/ Crash(p)
  \/ \E c \in Cleaners : CleanerStep(c) \/ CleanerCrash(c)
  \/ \E c \in Cleaners, r \in Requests : CleanerTake(c, r)

Spec == Init /\ [][Next]_vars

\* A call that has begun runs on (Node's event loop, while the process lives),
\* and a worker takes the jobs that wait.  Nothing makes an official decide.
FairSpec ==
  /\ Spec
  /\ \A p \in Issuers : WF_vars(IssuerStep(p))
  /\ \A c \in Cleaners :
       WF_vars(CleanerStep(c) \/ \E r \in Requests : CleanerTake(c, r))

-----------------------------------------------------------------------------
(* Properties.  The first five are about deployments in which a request has  *)
(* one decision in flight at a time and the PDF worker is off.               *)
Serialized == (\A v, w \in Reviewers : v = w) /\ PdfWorkers = {}

\* The issuer, or the cleanup job, that holds the claim on r.
Holds(p, r)  == req[p] = r /\ pc[p] \in Generating \cup Locked
Cleans(c, r) == creq[c] = r /\ cpc[c] \in CleanerPC \ {"idle", "claim"}

\* The conditional updates approved -> generating of generatePdf, of the
\* interceptor and of the cleanup worker exclude each other: of all the calls
\* and jobs that write or delete the PDFs of a request one is past its claim,
\* and the request shows 'generating' to the others until it commits.
ClaimExclusive ==
  \A r \in Requests :
    /\ \A p \in Issuers : Holds(p, r) => status[r] \in {"generating", "completed"}
    /\ \A c \in Cleaners : Cleans(c, r) => status[r] = "generating"
    /\ \A p, q \in Issuers : Holds(p, r) /\ Holds(q, r) => p = q
    /\ \A c, d \in Cleaners : Cleans(c, r) /\ Cleans(d, r) => c = d
    /\ \A p \in Issuers, c \in Cleaners : ~(Holds(p, r) /\ Cleans(c, r))

\* A request is completed exactly when it has its output, it has one output
\* only, and carries the number of it: the QR code of a letter that was issued
\* is found valid (verifyByQr looks at the status) ever after.
IssuedOnce ==
  \A r \in Requests :
    /\ HasOutput(r) <=> status[r] = "completed"
    /\ \A k \in outputs : k[1] = r => k[2] = letterNumber[r]

\* Every file row of a letter has its object in MinIO: neither the compensation
\* of a failed call nor a late cleanup job deletes a PDF that another call of
\* generatePdf has committed in the meantime.
NoDanglingFile == outputs \subseteq objects

\* No deletion takes an object away that a file row refers to.
AttachedStays == [][outputs \cap objects \subseteq objects']_vars

\* Seen from outside, with 'generating' taken for 'approved', the service is
\* the workflow of LetterLifecycle.
ShownStatus == [r \in Requests |->
                  IF status[r] = "generating" THEN "approved" ELSE status[r]]
Lifecycle == INSTANCE LetterLifecycle WITH status <- ShownStatus, number <- letterNumber
ImplementsLifecycle == Lifecycle!Spec

\* An approval decision is written on a request that is in the status the
\* decision requires (letters.service.ts checks it before it writes).
DecideInState ==
  [][\A v \in Reviewers :
       WriteDecision(v) => status[review[v].req] \in RequiredStatus(review[v].op)]_vars

(* The following hold whatever runs concurrently, with crashes too.          *)

\* No two letters carry the same number, also when calls that took a number
\* fail, crash or are repeated, and when the worker issues letters as well.
NumbersUnique == \A k, l \in outputs : k[2] = l[2] => k = l

\* A letter is issued for a request that an official has approved, and that
\* was verified before.
IssuedWasApproved ==
  \A k \in outputs : /\ <<k[1], "approve", "approved">> \in approvals
                     /\ <<k[1], "verify", "verified">> \in approvals

\* What download and verifyByQr rely on: a completed request has an output, and
\* a request that shows a number has the output of that number.
NumberHasOutput ==
  \A r \in Requests : /\ status[r] = "completed" => HasOutput(r)
                      /\ letterNumber[r] # 0 => <<r, letterNumber[r]>> \in outputs

\* Under FairSpec and without crashes: the claim on a request is given back or
\* ends in a letter, whatever fails on the way.
ClaimReleased == \A r \in Requests : status[r] = "generating" ~> status[r] # "generating"

\* A cleanup job that waits is carried through to its last attempt.
CleanupEnds ==
  \A r \in Requests :
    job[r].state = "waiting" ~> job[r].state \in {"none", "completed", "failed"}
=============================================================================
