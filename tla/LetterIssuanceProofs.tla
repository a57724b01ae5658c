------------------------- MODULE LetterIssuanceProofs -------------------------
(***************************************************************************)
(* Proofs about LetterIssuance, for any sets of requests, officials, calls *)
(* and jobs, and any bounds.                                               *)
(***************************************************************************)
EXTENDS LetterIssuance, TLAPS

-----------------------------------------------------------------------------
(* Typing.  A step after the first knows its request, and a step that stores *)
(* a PDF has a number.                                                       *)

InHand(p) == pc[p] \in {"upload", "commit"}

TypeInv ==
  /\ TypeOK
  /\ \A p \in Issuers : pc[p] # "idle" => req[p] \in Requests
  /\ \A p \in Issuers : InHand(p) => num[p] \in 1 .. MaxNumber
  /\ \A c \in Cleaners : cpc[c] # "idle" => creq[c] \in Requests

LEMMA InitTypeInv == Init => TypeInv
BY BoundsAssumption
   DEF Init, TypeInv, TypeOK, InHand, Status, JobState, CleanupEvent, IssuerPC,
       CleanerPC, NoJob, NoDecision, Key, Decision

\* The variables of one component, for the steps of another.
LEMMA ReviewerTypeInv ==
  ASSUME TypeInv, NEW v \in Reviewers,
         \/ \E d \in Decision : CheckDecision(v, d)
         \/ WriteDecision(v)
         \/ DropDecision(v)
  PROVE  TypeInv'
<1>1. CASE \E d \in Decision : CheckDecision(v, d)
  BY <1>1 DEF TypeInv, TypeOK, CheckDecision, InHand, dbVars, queueVars,
              issuerVars, cleanVars
<1>2. CASE WriteDecision(v)
  <2>1. review[v] \in Decision
    BY <1>2 DEF TypeInv, TypeOK, WriteDecision
  <2>2. QED
    BY <1>2, <2>1 DEF TypeInv, TypeOK, WriteDecision, InHand, Decision,
                      queueVars, issuerVars, cleanVars
<1>3. CASE DropDecision(v)
  BY <1>3 DEF TypeInv, TypeOK, DropDecision, InHand, dbVars, queueVars,
              issuerVars, cleanVars
<1>4. QED
  BY <1>1, <1>2, <1>3

LEMMA GenerateTypeInv ==
  ASSUME TypeInv, NEW p \in Issuers, GenerateStep(p)
  PROVE  TypeInv'
<1> USE DEF TypeInv, TypeOK, InHand, Fail, Goto, Finish, IssuerPC, Generating,
            Locked, queueVars, cleanVars
<1>1. CASE CheckOutput(p)
  <2>1. Goto(p, "release") \/ Goto(p, "number") \/ Finish(p)
    BY <1>1 DEF CheckOutput
  <2>2. pc[p] = "check" /\ UNCHANGED <<dbVars, objects, queueVars, review, cleanVars>>
    BY <1>1 DEF CheckOutput
  <2>3. QED
    BY <2>1, <2>2, BoundsAssumption DEF dbVars
<1>2. CASE AllocateNumber(p)
  BY <1>2, BoundsAssumption DEF AllocateNumber
<1>3. CASE Upload(p)
  BY <1>3 DEF Upload, Key, dbVars
<1>4. CASE Commit(p)
  BY <1>4, BoundsAssumption DEF Commit, Key, Status
<1>5. CASE AuditIssue(p)
  BY <1>5, BoundsAssumption DEF AuditIssue, dbVars
<1>6. CASE StepFails(p)
  <2>1. objects' \subseteq Key
    BY <1>6 DEF StepFails, Key
  <2>2. QED
    BY <1>6, <2>1, BoundsAssumption DEF StepFails, dbVars
<1>7. QED
  BY <1>1, <1>2, <1>3, <1>4, <1>5, <1>6 DEF GenerateStep

LEMMA UnclaimType ==
  ASSUME status \in [Requests -> Status], NEW r, Unclaim(r)
  PROVE  status' \in [Requests -> Status]
BY DEF Unclaim, Status

LEMMA CompensateTypeInv ==
  ASSUME TypeInv, NEW p \in Issuers, CompensateStep(p)
  PROVE  TypeInv'
<1> USE DEF TypeInv, TypeOK, InHand, Goto, Finish, IssuerPC, Generating, Locked,
            queueVars, cleanVars
<1>1. CASE Release(p)
  BY <1>1, UnclaimType DEF Release
<1>2. CASE Probe(p)
  BY <1>2, BoundsAssumption DEF Probe, dbVars
<1>3. CASE LockPrefix(p)
  BY <1>3 DEF LockPrefix, Claim, Status
<1>4. CASE LockRefused(p)
  BY <1>4, BoundsAssumption DEF LockRefused, dbVars
<1>5. CASE CompensationFails(p)
  BY <1>5, BoundsAssumption DEF CompensationFails, dbVars
<1>6. CASE ListPrefix(p)
  BY <1>6 DEF ListPrefix, dbVars
<1>7. CASE DeletePrefix(p)
  BY <1>7 DEF DeletePrefix, Log, dbVars, CleanupEvent
<1>8. CASE DeletePrefixFails(p)
  BY <1>8 DEF DeletePrefixFails, dbVars
<1>9. CASE EnqueueCleanup(p)
  BY <1>9 DEF EnqueueCleanup, LogOrNot, Log, dbVars, CleanupEvent, JobState
<1>10. CASE EnqueueFails(p)
  BY <1>10 DEF EnqueueFails, LogOrNot, Log, dbVars, CleanupEvent
<1>11. CASE UnlockPrefix(p)
  BY <1>11, UnclaimType, BoundsAssumption DEF UnlockPrefix
<1>12. QED
  BY <1>1, <1>2, <1>3, <1>4, <1>5, <1>6, <1>7, <1>8, <1>9, <1>10, <1>11
     DEF CompensateStep

LEMMA CleanerTypeInv ==
  ASSUME TypeInv, NEW c \in Cleaners,
         CleanerStep(c) \/ CleanerCrash(c) \/ \E r \in Requests : CleanerTake(c, r)
  PROVE  TypeInv'
<1> USE DEF TypeInv, TypeOK, InHand, CleanerGoto, EndJob, Completed, Retried, Log, LogOrNot,
            CleanerPC, JobState, CleanupEvent, issuerVars
<1>1. ASSUME NEW r \in Requests, CleanerTake(c, r) PROVE TypeInv'
  BY <1>1 DEF CleanerTake, dbVars
<1>2. CASE CleanerClaim(c)
  BY <1>2 DEF CleanerClaim, Claim, Status, queueVars
<1>3. CASE CleanerSkips(c)
  BY <1>3 DEF CleanerSkips, dbVars
<1>4. CASE CleanerCheck(c)
  BY <1>4 DEF CleanerCheck, dbVars
<1>5. CASE CleanerDelete(c)
  BY <1>5 DEF CleanerDelete, dbVars
<1>6. CASE CleanerFails(c)
  <2>1. objects' \subseteq Key
    BY <1>6 DEF CleanerFails
  <2>2. cleanupLog' \in [Requests -> CleanupEvent]
    BY <1>6 DEF CleanerFails
  <2>3. /\ job' \in [Requests -> [state : JobState, made : Nat]]
        /\ cpc' \in [Cleaners -> CleanerPC]
        /\ creq' \in [Cleaners -> Requests \cup {NoRequest}]
        /\ \A d \in Cleaners : cpc'[d] # "idle" => creq'[d] \in Requests
    <3>1. cpc[c] # "idle"
      BY <1>6 DEF CleanerFails
    <3>2. CASE EndJob(c, Retried(c))
      BY <3>1, <3>2
    <3>3. CASE CleanerGoto(c, "error") /\ UNCHANGED job
      BY <3>1, <3>3
    <3>4. QED
      BY <1>6, <3>2, <3>3 DEF CleanerFails
  <2>4. QED
    BY <1>6, <2>1, <2>2, <2>3 DEF CleanerFails, dbVars
<1>7. CASE CleanerRelease(c)
  <2>1. status' \in [Requests -> Status]
    BY <1>7, UnclaimType DEF CleanerRelease
  <2>2. EndJob(c, Completed(c)) \/ EndJob(c, Retried(c))
    BY <1>7 DEF CleanerRelease
  <2>3. UNCHANGED <<approvals, letterNumber, outputs, lastNumber, objects,
                    cleanupLog, review, issuerVars>> /\ cpc[c] # "idle"
    BY <1>7 DEF CleanerRelease
  <2>4. job' \in [Requests -> [state : JobState, made : Nat]]
    <3>1. CASE EndJob(c, Completed(c))
      BY <2>3, <3>1
    <3>2. CASE EndJob(c, Retried(c))
      BY <2>3, <3>2
    <3>3. QED
      BY <2>2, <3>1, <3>2
  <2>5. /\ cpc' = [cpc EXCEPT ![c] = "idle"]
        /\ creq' = [creq EXCEPT ![c] = NoRequest]
    BY <2>2
  <2>6. QED
    BY <2>1, <2>3, <2>4, <2>5
<1>8. CASE CleanerCrash(c)
  BY <1>8 DEF CleanerCrash, dbVars
<1>9. QED
  BY <1>1, <1>2, <1>3, <1>4, <1>5, <1>6, <1>7, <1>8 DEF CleanerStep

LEMMA StepTypeInv == TypeInv /\ [Next]_vars => TypeInv'
<1> SUFFICES ASSUME TypeInv, [Next]_vars PROVE TypeInv'
  OBVIOUS
<1> USE DEF TypeInv, TypeOK, InHand
<1>1. ASSUME NEW r \in Requests, CreateRequest(r) PROVE TypeInv'
  BY <1>1 DEF CreateRequest, Status, queueVars, issuerVars, cleanVars
<1>2. ASSUME NEW r \in Requests, JobExpires(r) PROVE TypeInv'
  BY <1>2 DEF JobExpires, NoJob, JobState, dbVars, issuerVars, cleanVars
<1>3. CASE ReviewerNext
  <2>1. \E v \in Reviewers : \/ \E d \in Decision : CheckDecision(v, d)
                             \/ WriteDecision(v)
                             \/ DropDecision(v)
    BY <1>3 DEF ReviewerNext, Decision
  <2>2. QED
    BY <2>1, ReviewerTypeInv
<1>4. ASSUME NEW g \in Generators, NEW r \in Requests, ClaimRefused(g, r)
      PROVE  TypeInv'
  BY <1>4 DEF ClaimRefused, Begin, Issuers, IssuerPC, dbVars, queueVars, cleanVars
<1>4a. ASSUME NEW g \in Generators, NEW r \in Requests, ClaimForPdf(g, r)
       PROVE  TypeInv'
  <2>1. status' \in [Requests -> Status]
    BY <1>4a DEF ClaimForPdf, Claim, Status
  <2>2. QED
    BY <1>4a, <2>1 DEF ClaimForPdf, Begin, Issuers, IssuerPC, Generating, queueVars, cleanVars
<1>5. ASSUME NEW w \in PdfWorkers, NEW r \in Requests, StartPdfJob(w, r)
      PROVE  TypeInv'
  BY <1>5 DEF StartPdfJob, Begin, Issuers, IssuerPC, Generating, dbVars, queueVars,
              cleanVars
<1>6. ASSUME NEW p \in Issuers, IssuerStep(p) PROVE TypeInv'
  BY <1>6, GenerateTypeInv, CompensateTypeInv DEF IssuerStep
<1>7. ASSUME NEW p \in Issuers, Crash(p) PROVE TypeInv'
  BY <1>7, BoundsAssumption DEF Crash, Finish, IssuerPC, dbVars, queueVars, cleanVars
<1>8. ASSUME NEW c \in Cleaners,
             CleanerStep(c) \/ CleanerCrash(c) \/ \E r \in Requests : CleanerTake(c, r)
      PROVE  TypeInv'
  BY <1>8, CleanerTypeInv
<1>9. CASE UNCHANGED vars
  BY <1>9 DEF vars, dbVars, queueVars, issuerVars, cleanVars
<1>10. QED
  BY <1>1, <1>2, <1>3, <1>4, <1>4a, <1>5, <1>6, <1>7, <1>8, <1>9 DEF Next

\* Type correctness of the model, with what its steps know about their request
\* and their number.
THEOREM TypeCorrect == Spec => [](TypeInv /\ TypeOK)
<1>1. TypeInv => TypeOK
  BY DEF TypeInv
<1>2. QED
  BY <1>1, InitTypeInv, StepTypeInv, PTL DEF Spec

-----------------------------------------------------------------------------
(* Letter numbers.  A number in hand was taken from the sequence, nobody else *)
(* holds it and no letter carries it; only two steps touch any of this.       *)

NumberInv ==
  /\ \A p \in Issuers : InHand(p) => num[p] \in 1 .. lastNumber
  /\ \A p, q \in Issuers : InHand(p) /\ InHand(q) /\ num[p] = num[q] => p = q
  /\ \A k \in outputs : k[2] <= lastNumber
  /\ \A k \in outputs, p \in Issuers : InHand(p) => num[p] # k[2]
  /\ NumbersUnique

\* What every other step does to the numbers: nothing, or it drops one.
NumberFrame ==
  /\ UNCHANGED <<outputs, lastNumber>>
  /\ \A p \in Issuers : InHand(p)' => InHand(p) /\ num'[p] = num[p]

LEMMA NumberSteps ==
  ASSUME TypeInv, [Next]_vars
  PROVE  \/ \E p \in Issuers : AllocateNumber(p) \/ Commit(p)
         \/ NumberFrame
<1> USE DEF NumberFrame, InHand, TypeInv, TypeOK
<1>1. ASSUME NEW r \in Requests, CreateRequest(r) \/ JobExpires(r)
      PROVE  NumberFrame
  BY <1>1 DEF CreateRequest, JobExpires, dbVars, issuerVars
<1>2. CASE ReviewerNext
  BY <1>2 DEF ReviewerNext, CheckDecision, WriteDecision, DropDecision, dbVars, issuerVars
<1>3. ASSUME NEW p \in Issuers, NEW r \in Requests,
             ClaimForPdf(p, r) \/ ClaimRefused(p, r) \/ StartPdfJob(p, r)
      PROVE  NumberFrame
  BY <1>3 DEF ClaimForPdf, ClaimRefused, StartPdfJob, Begin, dbVars
<1>4. ASSUME NEW p \in Issuers, GenerateStep(p), ~AllocateNumber(p), ~Commit(p)
      PROVE  NumberFrame
  <2>1. CASE CheckOutput(p)
    <3>1. Goto(p, "release") \/ Goto(p, "number") \/ Finish(p)
      BY <2>1 DEF CheckOutput, Fail
    <3>2. UNCHANGED dbVars
      BY <2>1 DEF CheckOutput
    <3>3. QED
      BY <3>1, <3>2 DEF dbVars, Goto, Finish
  <2>2. CASE Upload(p)
    BY <2>2 DEF Upload, Goto, dbVars
  <2>3. CASE AuditIssue(p)
    BY <2>3 DEF AuditIssue, Finish, dbVars
  <2>4. CASE StepFails(p)
    BY <2>4 DEF StepFails, Fail, Goto, Finish, dbVars
  <2>5. QED
    BY <1>4, <2>1, <2>2, <2>3, <2>4 DEF GenerateStep
<1>5. ASSUME NEW p \in Issuers, CompensateStep(p) PROVE NumberFrame
  <2>1. UNCHANGED <<outputs, lastNumber>>
    BY <1>5 DEF CompensateStep, Release, Probe, LockPrefix, LockRefused,
       CompensationFails, ListPrefix, DeletePrefix, DeletePrefixFails,
       EnqueueCleanup, EnqueueFails, UnlockPrefix, dbVars
  <2>2. Finish(p) \/ \E to \in {"probe", "lock", "list", "delete", "enqueue", "unlock"} :
          Goto(p, to)
    BY <1>5 DEF CompensateStep, Release, Probe, LockPrefix, LockRefused,
       CompensationFails, ListPrefix, DeletePrefix, DeletePrefixFails,
       EnqueueCleanup, EnqueueFails, UnlockPrefix
  <2>3. QED
    BY <2>1, <2>2 DEF Goto, Finish
<1>6. ASSUME NEW p \in Issuers, Crash(p) PROVE NumberFrame
  BY <1>6 DEF Crash, Finish, dbVars
<1>7. ASSUME NEW c \in Cleaners,
             CleanerStep(c) \/ CleanerCrash(c) \/ \E r \in Requests : CleanerTake(c, r)
      PROVE  NumberFrame
  BY <1>7 DEF CleanerStep, CleanerClaim, CleanerSkips, CleanerCheck, CleanerDelete,
     CleanerFails, CleanerRelease, CleanerCrash, CleanerTake, dbVars, issuerVars
<1>8. CASE UNCHANGED vars
  BY <1>8 DEF vars, dbVars, issuerVars
<1>9. QED
  BY <1>1, <1>2, <1>3, <1>4, <1>5, <1>6, <1>7, <1>8 DEF Next, IssuerStep, Issuers

LEMMA InitNumberInv == Init => NumberInv
BY DEF Init, NumberInv, InHand, NumbersUnique

LEMMA StepNumberInv == TypeInv /\ NumberInv /\ [Next]_vars => NumberInv'
<1> SUFFICES ASSUME TypeInv, NumberInv, [Next]_vars PROVE NumberInv'
  OBVIOUS
<1> USE DEF NumberInv, NumbersUnique, InHand
<1>1. ASSUME NEW p \in Issuers, AllocateNumber(p) PROVE NumberInv'
  BY <1>1 DEF AllocateNumber, TypeInv, TypeOK, Key
<1>2. ASSUME NEW p \in Issuers, Commit(p) PROVE NumberInv'
  BY <1>2 DEF Commit, Goto, TypeInv, TypeOK, Key
<1>3. CASE NumberFrame
  BY <1>3 DEF NumberFrame
<1>4. QED
  BY <1>1, <1>2, <1>3, NumberSteps

\* No two letters carry the same number, whatever is reviewed, issued, cleaned
\* up, crashed and repeated at the same time.
THEOREM NumbersNeverShared == Spec => []NumbersUnique
<1>1. NumberInv => NumbersUnique
  BY DEF NumberInv
<1>2. QED
  BY <1>1, TypeCorrect, InitNumberInv, StepNumberInv, PTL DEF Spec

-----------------------------------------------------------------------------
(* Approval.  The status of a request only ever shows a decision that is on  *)
(* record; a decision that is about to be written carries the record of the  *)
(* status it was checked against, and a running generation the one of both.  *)

Verified(r) == <<r, "verify", "verified">> \in approvals
Approved(r) == Verified(r) /\ <<r, "approve", "approved">> \in approvals

ApprovalInv ==
  /\ \A r \in Requests : status[r] = "verified" => Verified(r)
  /\ \A r \in Requests : status[r] \in {"approved", "generating", "completed"} => Approved(r)
  /\ \A v \in Reviewers :
       review[v] # NoDecision => /\ review[v].to \in WrittenStatus(review[v].op)
                                 /\ review[v].op = "approve" => Verified(review[v].req)
  /\ \A p \in Issuers : pc[p] \in Generating => Approved(req[p])
  /\ IssuedWasApproved

\* A step that is no decision keeps the approvals, gives no request a status
\* beyond 'verified' that had none before, starts a generation on an approved
\* request only, and issues only what is being generated.
Advanced == {"approved", "generating", "completed"}
ApprovalFrame ==
  /\ UNCHANGED <<approvals, review>>
  /\ \A r \in Requests : status'[r] # status[r] =>
       \/ status'[r] = "submitted"
       \/ status'[r] \in Advanced /\ status[r] \in Advanced
       \/ status'[r] \in Advanced /\ \E p \in Issuers : pc[p] \in Generating /\ req[p] = r
  /\ \A p \in Issuers : pc'[p] \in Generating =>
       \/ pc[p] \in Generating /\ req'[p] = req[p]
       \/ req'[p] \in Requests /\ status[req'[p]] \in Advanced
  /\ \A k \in outputs' : \/ k \in outputs
                         \/ \E p \in Issuers : pc[p] \in Generating /\ req[p] = k[1]

LEMMA UnclaimFrame ==
  ASSUME TypeInv, NEW q \in Requests, Unclaim(q), NEW r \in Requests, status'[r] # status[r]
  PROVE  status'[r] \in Advanced /\ status[r] \in Advanced
BY DEF Unclaim, Advanced, TypeInv, TypeOK

LEMMA ClaimFrame ==
  ASSUME TypeInv, NEW q \in Requests, Claim(q), NEW r \in Requests, status'[r] # status[r]
  PROVE  status'[r] \in Advanced /\ status[r] \in Advanced
BY DEF Claim, Advanced, TypeInv, TypeOK

LEMMA ApprovalSteps ==
  ASSUME TypeInv, [Next]_vars
  PROVE  \/ \E v \in Reviewers : \/ \E d \in Decision : CheckDecision(v, d)
                                 \/ WriteDecision(v)
                                 \/ DropDecision(v)
         \/ ApprovalFrame
<1> USE DEF ApprovalFrame
<1>1. ASSUME NEW r \in Requests, CreateRequest(r) PROVE ApprovalFrame
  BY <1>1 DEF CreateRequest, issuerVars, TypeInv, TypeOK
<1>2. ASSUME NEW r \in Requests, JobExpires(r) PROVE ApprovalFrame
  BY <1>2 DEF JobExpires, dbVars, issuerVars
<1>3. CASE ReviewerNext
  BY <1>3 DEF ReviewerNext, Decision
<1>4. ASSUME NEW p \in Generators, NEW r \in Requests, ClaimForPdf(p, r)
      PROVE  ApprovalFrame
  <2>1. \A q \in Requests : status'[q] # status[q] => status'[q] \in Advanced /\ status[q] \in Advanced
    BY <1>4, ClaimFrame DEF ClaimForPdf
  <2>2. status[r] \in Advanced
    BY <1>4 DEF ClaimForPdf, Claim, Advanced
  <2>3. QED
    BY <1>4, <2>1, <2>2 DEF ClaimForPdf, Begin, Issuers, TypeInv, TypeOK
<1>5. ASSUME NEW p \in Generators, NEW r \in Requests, ClaimRefused(p, r)
      PROVE  ApprovalFrame
  BY <1>5 DEF ClaimRefused, Begin, Issuers, dbVars, Generating, TypeInv, TypeOK
<1>6. ASSUME NEW p \in PdfWorkers, NEW r \in Requests, StartPdfJob(p, r)
      PROVE  ApprovalFrame
  BY <1>6 DEF StartPdfJob, Begin, Issuers, dbVars, Advanced, TypeInv, TypeOK
<1>7. ASSUME NEW p \in Issuers, GenerateStep(p) PROVE ApprovalFrame
  <2>1. /\ pc[p] \in Generating
        /\ UNCHANGED <<approvals, review>>
        /\ Finish(p) \/ \E to \in IssuerPC : Goto(p, to) \/ AllocateNumber(p)
    BY <1>7 DEF GenerateStep, CheckOutput, AllocateNumber, Upload, Commit, AuditIssue,
       StepFails, Fail, IssuerPC, Generating, dbVars
  <2>2. \A q \in Issuers : pc'[q] \in Generating => pc[q] \in Generating /\ req'[q] = req[q]
    BY <2>1 DEF Finish, Goto, AllocateNumber, Generating, TypeInv, TypeOK
  <2>3. \/ UNCHANGED <<status, outputs>>
        \/ Commit(p)
    BY <1>7 DEF GenerateStep, CheckOutput, AllocateNumber, Upload, AuditIssue,
       StepFails, dbVars
  <2>4. CASE Commit(p)
    BY <2>1, <2>2, <2>4 DEF Commit, Advanced, TypeInv, TypeOK
  <2>5. QED
    BY <2>1, <2>2, <2>3, <2>4
<1>8. ASSUME NEW p \in Issuers, CompensateStep(p) PROVE ApprovalFrame
  <2>1. UNCHANGED <<approvals, review, outputs>>
    BY <1>8 DEF CompensateStep, Release, Probe, LockPrefix, LockRefused,
       CompensationFails, ListPrefix, DeletePrefix, DeletePrefixFails,
       EnqueueCleanup, EnqueueFails, UnlockPrefix, dbVars
  <2>2. Finish(p) \/ \E to \in IssuerPC \ Generating : Goto(p, to)
    BY <1>8 DEF CompensateStep, Release, Probe, LockPrefix, LockRefused,
       CompensationFails, ListPrefix, DeletePrefix, DeletePrefixFails,
       EnqueueCleanup, EnqueueFails, UnlockPrefix, IssuerPC, Generating, Locked
  <2>3. req[p] \in Requests /\ (UNCHANGED status \/ Claim(req[p]) \/ Unclaim(req[p]))
    BY <1>8 DEF CompensateStep, Release, Probe, LockPrefix, LockRefused,
       CompensationFails, ListPrefix, DeletePrefix, DeletePrefixFails,
       EnqueueCleanup, EnqueueFails, UnlockPrefix, dbVars, TypeInv
  <2>4. \A r \in Requests : status'[r] # status[r] => status'[r] \in Advanced /\ status[r] \in Advanced
    BY <2>3, ClaimFrame, UnclaimFrame
  <2>5. \A q \in Issuers : pc'[q] \in Generating => pc[q] \in Generating /\ req'[q] = req[q]
    BY <2>2 DEF Finish, Goto, Generating, TypeInv, TypeOK
  <2>6. QED
    BY <2>1, <2>4, <2>5
<1>9. ASSUME NEW p \in Issuers, Crash(p) PROVE ApprovalFrame
  BY <1>9 DEF Crash, Finish, dbVars, Generating, TypeInv, TypeOK
<1>10. ASSUME NEW c \in Cleaners,
             CleanerStep(c) \/ CleanerCrash(c) \/ \E r \in Requests : CleanerTake(c, r)
      PROVE  ApprovalFrame
  <2>1. UNCHANGED <<approvals, review, outputs, pc, req>>
    BY <1>10 DEF CleanerStep, CleanerClaim, CleanerSkips, CleanerCheck, CleanerDelete,
     CleanerFails, CleanerRelease, CleanerCrash, CleanerTake, dbVars, issuerVars
  <2>2. \/ UNCHANGED status
        \/ creq[c] \in Requests /\ (Claim(creq[c]) \/ Unclaim(creq[c]))
    <3>1. CASE CleanerClaim(c) \/ CleanerRelease(c)
      <4>1. cpc[c] # "idle" /\ (Claim(creq[c]) \/ Unclaim(creq[c]))
        BY <3>1 DEF CleanerClaim, CleanerRelease
      <4>2. QED
        BY <4>1 DEF TypeInv
    <3>2. CASE \/ CleanerSkips(c) \/ CleanerCheck(c) \/ CleanerDelete(c) \/ CleanerFails(c)
               \/ CleanerCrash(c) \/ \E r \in Requests : CleanerTake(c, r)
      <4>1. UNCHANGED dbVars
        BY <3>2 DEF CleanerSkips, CleanerCheck, CleanerDelete, CleanerFails,
           CleanerCrash, CleanerTake
      <4>2. QED
        BY <4>1 DEF dbVars
    <3>3. QED
      BY <1>10, <3>1, <3>2 DEF CleanerStep
  <2>3. \A r \in Requests : status'[r] # status[r] => status'[r] \in Advanced /\ status[r] \in Advanced
    BY <2>2, ClaimFrame, UnclaimFrame
  <2>4. QED
    BY <2>1, <2>3
<1>11. CASE UNCHANGED vars
  BY <1>11 DEF vars, dbVars, issuerVars
<1>12. QED
  BY <1>1, <1>2, <1>3, <1>4, <1>5, <1>6, <1>7, <1>8, <1>9, <1>10, <1>11
     DEF Next, IssuerStep, Issuers

LEMMA InitApprovalInv == Init => ApprovalInv
BY DEF Init, ApprovalInv, IssuedWasApproved, Generating

LEMMA StepApprovalInv == TypeInv /\ ApprovalInv /\ [Next]_vars => ApprovalInv'
<1> SUFFICES ASSUME TypeInv, ApprovalInv, [Next]_vars PROVE ApprovalInv'
  OBVIOUS
<1> USE DEF ApprovalInv, Verified, Approved, IssuedWasApproved
<1>1. ASSUME NEW v \in Reviewers, NEW d \in Decision, CheckDecision(v, d)
      PROVE  ApprovalInv'
  BY <1>1 DEF CheckDecision, RequiredStatus, Decision, NoDecision, TypeInv, TypeOK,
              dbVars, issuerVars
<1>2. ASSUME NEW v \in Reviewers, WriteDecision(v) PROVE ApprovalInv'
  <2> DEFINE d == review[v]
  <2>1. d \in Decision /\ d.to \in WrittenStatus(d.op)
    BY <1>2 DEF WriteDecision, TypeInv, TypeOK
  <2>2. approvals' = approvals \cup {<<d.req, d.op, d.to>>}
    BY <1>2 DEF WriteDecision
  <2>3. \A r \in Requests :
           /\ Verified(r) => Verified(r)'
           /\ Approved(r) => Approved(r)'
    BY <2>2
  <2>4. \A r \in Requests : status'[r] = IF r = d.req THEN d.to ELSE status[r]
    BY <1>2 DEF WriteDecision, TypeInv, TypeOK
  <2>5. ASSUME NEW r \in Requests, r = d.req
        PROVE  /\ d.to = "verified" => Verified(r)'
               /\ d.to = "approved" => Approved(r)'
               /\ d.to \notin {"generating", "completed"}
    <3>1. d.op \in {"verify", "approve", "reject"}
      BY <2>1 DEF Decision
    <3>2. /\ d.to = "verified" => d.op = "verify"
          /\ d.to = "approved" => d.op = "approve"
          /\ d.to \notin {"generating", "completed"}
      BY <2>1, <3>1 DEF WrittenStatus
    <3>3. d.op = "approve" => Verified(r)
      BY <1>2, <2>5 DEF WriteDecision
    <3>4. QED
      BY <2>2, <2>5, <3>2, <3>3
  <2>6. /\ \A r \in Requests : status'[r] = "verified" => Verified(r)'
        /\ \A r \in Requests : status'[r] \in {"approved", "generating", "completed"} => Approved(r)'
    BY <2>3, <2>4, <2>5
  <2>7. \A w \in Reviewers : review'[w] # NoDecision => review'[w] = review[w]
    BY <1>2 DEF WriteDecision, TypeInv, TypeOK
  <2>8. QED
    BY <1>2, <2>2, <2>6, <2>7 DEF WriteDecision, issuerVars
<1>3. ASSUME NEW v \in Reviewers, DropDecision(v) PROVE ApprovalInv'
  BY <1>3 DEF DropDecision, TypeInv, TypeOK, dbVars, issuerVars
<1>4. CASE ApprovalFrame
  <2>1. \A r : (Verified(r) <=> Verified(r)') /\ (Approved(r) <=> Approved(r)')
    BY <1>4 DEF ApprovalFrame
  <2>2. \A r \in Requests : status'[r] = "verified" => Verified(r)'
    BY <1>4, <2>1 DEF ApprovalFrame, Advanced
  <2>3. \A r \in Requests : status'[r] \in {"approved", "generating", "completed"} => Approved(r)'
    BY <1>4, <2>1 DEF ApprovalFrame, Advanced
  <2>4. \A p \in Issuers : pc'[p] \in Generating => Approved(req'[p])
    BY <1>4 DEF ApprovalFrame, Advanced
  <2>5. \A k \in outputs' : Approved(k[1])
    BY <1>4 DEF ApprovalFrame
  <2>6. QED
    BY <1>4, <2>2, <2>3, <2>4, <2>5 DEF ApprovalFrame
<1>5. QED
  BY <1>1, <1>2, <1>3, <1>4, ApprovalSteps

\* Every letter was verified and approved, also where decisions and generations
\* overtake each other.
THEOREM IssuedLettersApproved == Spec => []IssuedWasApproved
<1>1. ApprovalInv => IssuedWasApproved
  BY DEF ApprovalInv
<1>2. QED
  BY <1>1, TypeCorrect, InitApprovalInv, StepApprovalInv, PTL DEF Spec

-----------------------------------------------------------------------------
(* Rows that belong together.  Only Commit completes a request or gives it a *)
(* number, and it adds the output in the same transaction; a decision that   *)
(* overtakes it may take the status away, and can never restore it.          *)

OutputFrame ==
  /\ UNCHANGED <<letterNumber, outputs>>
  /\ \A r \in Requests : status'[r] = "completed" => status[r] = "completed"

LEMMA ClaimCompletesNothing ==
  ASSUME TypeInv, NEW q, Claim(q) \/ Unclaim(q),
         NEW r \in Requests, status'[r] = "completed"
  PROVE  status[r] = "completed"
BY DEF Claim, Unclaim, TypeInv, TypeOK

LEMMA OutputSteps ==
  ASSUME TypeInv, ApprovalInv, [Next]_vars
  PROVE  (\E p \in Issuers : Commit(p)) \/ OutputFrame
<1> USE DEF OutputFrame
<1>1. ASSUME NEW r \in Requests, CreateRequest(r) \/ JobExpires(r)
      PROVE  OutputFrame
  BY <1>1 DEF CreateRequest, JobExpires, dbVars, TypeInv, TypeOK
<1>2. ASSUME NEW v \in Reviewers, WriteDecision(v) PROVE OutputFrame
  <2>1. review[v] \in Decision /\ review[v].to \in WrittenStatus(review[v].op)
    BY <1>2 DEF WriteDecision, TypeInv, TypeOK, ApprovalInv
  <2>2. review[v].to # "completed"
    BY <2>1 DEF Decision, WrittenStatus
  <2>3. QED
    BY <1>2, <2>2 DEF WriteDecision, TypeInv, TypeOK
<1>3. CASE ReviewerNext
  BY <1>2, <1>3 DEF ReviewerNext, CheckDecision, DropDecision, dbVars
<1>4. ASSUME NEW p \in Issuers, NEW r \in Requests,
             ClaimForPdf(p, r) \/ ClaimRefused(p, r) \/ StartPdfJob(p, r)
      PROVE  OutputFrame
  BY <1>4, ClaimCompletesNothing DEF ClaimForPdf, ClaimRefused, StartPdfJob, dbVars
<1>5. ASSUME NEW p \in Issuers, GenerateStep(p), ~Commit(p) PROVE OutputFrame
  BY <1>5 DEF GenerateStep, CheckOutput, AllocateNumber, Upload, AuditIssue, StepFails, dbVars
<1>6. ASSUME NEW p \in Issuers, CompensateStep(p) PROVE OutputFrame
  <2>1. /\ UNCHANGED <<letterNumber, outputs>>
        /\ UNCHANGED status \/ Claim(req[p]) \/ Unclaim(req[p])
    BY <1>6 DEF CompensateStep, Release, Probe, LockPrefix, LockRefused,
       CompensationFails, ListPrefix, DeletePrefix, DeletePrefixFails,
       EnqueueCleanup, EnqueueFails, UnlockPrefix, dbVars
  <2>2. QED
    BY <2>1, ClaimCompletesNothing
<1>7. ASSUME NEW p \in Issuers, Crash(p) PROVE OutputFrame
  BY <1>7 DEF Crash, dbVars
<1>8. ASSUME NEW c \in Cleaners,
             CleanerStep(c) \/ CleanerCrash(c) \/ \E r \in Requests : CleanerTake(c, r)
      PROVE  OutputFrame
  <2>1. /\ UNCHANGED <<letterNumber, outputs>>
        /\ UNCHANGED status \/ Claim(creq[c]) \/ Unclaim(creq[c])
    BY <1>8 DEF CleanerStep, CleanerClaim, CleanerSkips, CleanerCheck, CleanerDelete,
       CleanerFails, CleanerRelease, CleanerCrash, CleanerTake, dbVars
  <2>2. QED
    BY <2>1, ClaimCompletesNothing
<1>9. CASE UNCHANGED vars
  BY <1>9 DEF vars, dbVars
<1>10. QED
  BY <1>1, <1>3, <1>4, <1>5, <1>6, <1>7, <1>8, <1>9 DEF Next, IssuerStep, Issuers

LEMMA InitNumberHasOutput == Init => NumberHasOutput
BY DEF Init, NumberHasOutput

LEMMA StepNumberHasOutput ==
  TypeInv /\ ApprovalInv /\ NumberHasOutput /\ [Next]_vars => NumberHasOutput'
<1> SUFFICES ASSUME TypeInv, ApprovalInv, NumberHasOutput, [Next]_vars
             PROVE  NumberHasOutput'
  OBVIOUS
<1>1. ASSUME NEW p \in Issuers, Commit(p) PROVE NumberHasOutput'
  <2>1. req[p] \in Requests /\ num[p] \in 1 .. MaxNumber
    BY <1>1 DEF Commit, TypeInv, InHand
  <2>2. outputs' = outputs \cup {<<req[p], num[p]>>}
    BY <1>1 DEF Commit
  <2>3. ASSUME NEW r \in Requests, HasOutput(r) \/ r = req[p] PROVE HasOutput(r)'
    <3>1. CASE HasOutput(r)
      BY <2>2, <3>1 DEF HasOutput, Prefix
    <3>2. CASE r = req[p]
      <4>1. <<r, num[p]>> \in outputs' /\ <<r, num[p]>> \in Prefix(r)
        BY <2>1, <2>2, <3>2 DEF Prefix
      <4>2. Prefix(r)' = Prefix(r)
        BY DEF Prefix
      <4>3. QED
        BY <4>1, <4>2 DEF HasOutput
    <3>3. QED
      BY <2>3, <3>1, <3>2
  <2>4. \A r \in Requests : status'[r] = "completed" => HasOutput(r)'
    BY <1>1, <2>3 DEF Commit, NumberHasOutput, TypeInv, TypeOK
  <2>5. \A r \in Requests : letterNumber'[r] # 0 => <<r, letterNumber'[r]>> \in outputs'
    BY <1>1, <2>2 DEF Commit, NumberHasOutput, TypeInv, TypeOK
  <2>6. QED
    BY <2>4, <2>5 DEF NumberHasOutput
<1>2. CASE OutputFrame
  BY <1>2 DEF OutputFrame, NumberHasOutput, HasOutput, Prefix
<1>3. QED
  BY <1>1, <1>2, OutputSteps

\* A request that shows a number has the output of that number, and a completed
\* one has an output: what download and verifyByQr rely on, also when decisions
\* are stale and two generations of one request both commit.
THEOREM NumbersHaveOutputs == Spec => []NumberHasOutput
<1>1. QED
  BY TypeCorrect, InitApprovalInv, StepApprovalInv, InitNumberHasOutput,
     StepNumberHasOutput, PTL DEF Spec

-----------------------------------------------------------------------------
(* The claim as a lock, where the decisions on a request follow one another  *)
(* and the PDF worker is off.  The invariant says in which status a process  *)
(* finds the request it works on; that the claim excludes, that a letter is  *)
(* issued once and that its PDF stays, all follow from it.                   *)

Holding(p)  == pc[p] \in Generating \cup Locked
Cleaning(c) == cpc[c] \in CleanerPC \ {"idle", "claim"}

DecisionFresh ==
  \A v \in Reviewers : review[v] # NoDecision =>
    /\ status[review[v].req] \in RequiredStatus(review[v].op)
    /\ review[v].to \in WrittenStatus(review[v].op)
HolderStatus ==
  \A p \in Issuers :
    /\ pc[p] \in {"check", "number", "upload", "commit"} \cup Locked =>
         status[req[p]] = "generating"
    /\ pc[p] = "audit" => status[req[p]] = "completed"
    /\ pc[p] = "release" => status[req[p]] \in {"generating", "completed"}
CleanerStatus ==
  \A c \in Cleaners : Cleaning(c) => status[creq[c]] = "generating"
OneHolder ==
  /\ \A p, q \in Issuers : Holding(p) /\ Holding(q) /\ req[p] = req[q] => p = q
  /\ \A c, d \in Cleaners : Cleaning(c) /\ Cleaning(d) /\ creq[c] = creq[d] => c = d
  /\ \A p \in Issuers, c \in Cleaners : Holding(p) /\ Cleaning(c) => req[p] # creq[c]
OutputOfCompleted ==
  /\ \A k \in outputs : status[k[1]] = "completed" /\ k[2] = letterNumber[k[1]]
  /\ \A r \in Requests : status[r] = "completed" => <<r, letterNumber[r]>> \in outputs
ObjectsKept ==
  /\ outputs \subseteq objects
  /\ \A p \in Issuers : pc[p] = "commit" => <<req[p], num[p]>> \in objects

LockInv == /\ DecisionFresh
           /\ HolderStatus
           /\ CleanerStatus
           /\ OneHolder
           /\ OutputOfCompleted
           /\ ObjectsKept

LEMMA InitLockInv == Init => LockInv
BY DEF Init, LockInv, DecisionFresh, HolderStatus, CleanerStatus, OneHolder,
   OutputOfCompleted, ObjectsKept, Holding, Cleaning, Generating, Locked

LEMMA LockInvImplies ==
  TypeInv /\ LockInv => ClaimExclusive /\ IssuedOnce /\ NoDanglingFile
<1> SUFFICES ASSUME TypeInv, LockInv
             PROVE  ClaimExclusive /\ IssuedOnce /\ NoDanglingFile
  OBVIOUS
<1>1. ClaimExclusive
  BY DEF LockInv, HolderStatus, CleanerStatus, OneHolder, ClaimExclusive, Holds, Cleans,
     Holding, Cleaning, Generating
<1>2. ASSUME NEW r \in Requests
      PROVE  /\ HasOutput(r) <=> status[r] = "completed"
             /\ \A k \in outputs : k[1] = r => k[2] = letterNumber[r]
  <2>1. outputs \subseteq Key
    BY DEF TypeInv, TypeOK
  <2>2. HasOutput(r) => \E k \in outputs : k[1] = r
    BY DEF HasOutput, Prefix
  <2>3. <<r, letterNumber[r]>> \in outputs => HasOutput(r)
    BY <2>1 DEF HasOutput, Prefix, Key
  <2>4. QED
    BY <2>2, <2>3 DEF LockInv, OutputOfCompleted
<1>3. IssuedOnce
  BY <1>2 DEF IssuedOnce
<1>4. NoDanglingFile
  BY DEF LockInv, ObjectsKept, NoDanglingFile
<1>5. QED
  BY <1>1, <1>3, <1>4

\* A step of an issuer that leaves the rows alone: what it may do to its place,
\* its request and the objects.
Working == {"check", "number", "upload", "commit"} \cup Locked
IssuerQuiet(p) ==
  /\ UNCHANGED <<status, letterNumber, outputs, review, cpc, creq>>
  /\ \A q \in Issuers : q # p => pc'[q] = pc[q] /\ req'[q] = req[q] /\ num'[q] = num[q]
  /\ pc'[p] \in Generating \cup Locked =>
       /\ req'[p] = req[p]
       /\ \/ pc[p] \in Working /\ pc'[p] \in Working
          \/ pc[p] \in Generating /\ pc'[p] = "release"
  /\ \A k \in objects : k \in objects' \/ (pc[p] \in Locked /\ k[1] = req[p])
  /\ pc'[p] = "commit" => <<req'[p], num'[p]>> \in objects'

LEMMA IssuerQuietLock ==
  ASSUME TypeInv, LockInv, NEW p \in Issuers, IssuerQuiet(p)
  PROVE  LockInv'
<1> USE DEF LockInv
<1>1. DecisionFresh'
  BY DEF DecisionFresh, IssuerQuiet
<1>2. HolderStatus'
  BY DEF HolderStatus, IssuerQuiet, Generating, Locked, Working
<1>3. CleanerStatus'
  BY DEF CleanerStatus, Cleaning, IssuerQuiet
<1>4. \A q \in Issuers : Holding(q)' => Holding(q) /\ req'[q] = req[q]
  BY DEF Holding, IssuerQuiet, Working, Generating, Locked
<1>5. OneHolder'
  BY <1>4 DEF OneHolder, Cleaning, IssuerQuiet
<1>6. OutputOfCompleted'
  BY DEF OutputOfCompleted, IssuerQuiet
<1>7. ASSUME pc[p] \in Locked PROVE /\ status[req[p]] = "generating"
                                    /\ \A q \in Issuers : pc[q] = "commit" /\ q # p => req[q] # req[p]
  BY <1>7 DEF HolderStatus, OneHolder, Holding, Generating
<1>8. ASSUME NEW k \in outputs PROVE k \in objects'
  BY <1>7 DEF ObjectsKept, OutputOfCompleted, IssuerQuiet
<1>9. ASSUME NEW q \in Issuers, pc'[q] = "commit" PROVE <<req'[q], num'[q]>> \in objects'
  BY <1>7, <1>9 DEF ObjectsKept, IssuerQuiet
<1>10. ObjectsKept'
  BY <1>8, <1>9 DEF ObjectsKept, IssuerQuiet
<1>11. QED
  BY <1>1, <1>2, <1>3, <1>5, <1>6, <1>10

\* The same for a step of a cleanup job.
CleanerQuiet(c) ==
  /\ UNCHANGED <<status, letterNumber, outputs, review, pc, req, num>>
  /\ \A d \in Cleaners : d # c => cpc'[d] = cpc[d] /\ creq'[d] = creq[d]
  /\ cpc'[c] \in CleanerPC \ {"idle", "claim"} => Cleaning(c) /\ creq'[c] = creq[c]
  /\ \A k \in objects : k \in objects' \/ (Cleaning(c) /\ k[1] = creq[c])

LEMMA CleanerQuietLock ==
  ASSUME TypeInv, LockInv, NEW c \in Cleaners, CleanerQuiet(c)
  PROVE  LockInv'
<1> USE DEF LockInv
<1>1. DecisionFresh'
  BY DEF DecisionFresh, CleanerQuiet
<1>2. HolderStatus'
  BY DEF HolderStatus, CleanerQuiet
<1>3. \A d \in Cleaners : Cleaning(d)' => Cleaning(d) /\ creq'[d] = creq[d]
  BY DEF Cleaning, CleanerQuiet
<1>4. CleanerStatus'
  BY <1>3 DEF CleanerStatus, CleanerQuiet
<1>5. OneHolder'
  BY <1>3 DEF OneHolder, Holding, CleanerQuiet
<1>6. OutputOfCompleted'
  BY DEF OutputOfCompleted, CleanerQuiet
<1>7. ASSUME Cleaning(c) PROVE /\ status[creq[c]] = "generating"
                               /\ \A q \in Issuers : pc[q] = "commit" => req[q] # creq[c]
  BY <1>7 DEF CleanerStatus, OneHolder, Holding, Generating
<1>8. ASSUME NEW k \in outputs PROVE k \in objects'
  BY <1>7 DEF ObjectsKept, OutputOfCompleted, CleanerQuiet
<1>9. ASSUME NEW q \in Issuers, pc[q] = "commit" PROVE <<req[q], num[q]>> \in objects'
  BY <1>7, <1>9 DEF ObjectsKept, CleanerQuiet
<1>10. ObjectsKept'
  BY <1>8, <1>9 DEF ObjectsKept, CleanerQuiet
<1>11. QED
  BY <1>1, <1>2, <1>4, <1>5, <1>6, <1>10

\* Steps that change the rows of requests only, and never of one that is
\* claimed or completed.
LEMMA DecisionLock ==
  ASSUME TypeInv, LockInv,
         UNCHANGED <<letterNumber, outputs, objects, issuerVars, cleanVars>>,
         \A r \in Requests : status'[r] # status[r] =>
           /\ status[r] \notin {"generating", "completed"}
           /\ status'[r] # "completed",
         DecisionFresh'
  PROVE  LockInv'
<1> USE DEF LockInv, issuerVars, cleanVars
<1>1. HolderStatus'
  <2>1. \A p \in Issuers : pc[p] # "idle" => req[p] \in Requests
    BY DEF TypeInv
  <2>2. QED
    BY <2>1 DEF HolderStatus, Locked
<1>2. CleanerStatus'
  BY DEF CleanerStatus, Cleaning, TypeInv
<1>3. OneHolder'
  BY DEF OneHolder, Holding, Cleaning
<1>4. \A k \in outputs : k[1] \in Requests
  BY DEF TypeInv, TypeOK, Key
<1>5. OutputOfCompleted'
  BY <1>4 DEF OutputOfCompleted
<1>6. ObjectsKept'
  BY DEF ObjectsKept
<1>7. QED
  BY <1>1, <1>2, <1>3, <1>5, <1>6

\* Taking the claim: the request was 'approved', so nobody held it.
LEMMA IssuerClaimLock ==
  ASSUME TypeInv, LockInv, NEW p \in Issuers, NEW r \in Requests, Claim(r),
         pc' = [pc EXCEPT ![p] = "check"] \/ pc' = [pc EXCEPT ![p] = "list"],
         req' = [req EXCEPT ![p] = r],
         UNCHANGED <<letterNumber, outputs, objects, review, num, cleanVars>>
  PROVE  LockInv'
<1> USE DEF LockInv, cleanVars
<1>1. /\ status[r] = "approved"
      /\ \A q \in Requests : status'[q] = IF q = r THEN "generating" ELSE status[q]
      /\ \A q \in Issuers : q # p => pc'[q] = pc[q] /\ req'[q] = req[q]
      /\ pc'[p] \in {"check", "list"} /\ req'[p] = r
  BY DEF Claim, TypeInv, TypeOK
<1>2. /\ \A q \in Issuers : Holding(q) => req[q] # r
      /\ \A c \in Cleaners : Cleaning(c) => creq[c] # r
  BY <1>1 DEF HolderStatus, CleanerStatus, Holding, Generating, Locked
<1>3. DecisionFresh'
  <2>1. ASSUME NEW v \in Reviewers, review[v] # NoDecision
        PROVE  review[v].req \in Requests /\ review[v].req # r
    BY <1>1, <2>1 DEF DecisionFresh, RequiredStatus, TypeInv, TypeOK, Decision
  <2>2. QED
    BY <1>1, <2>1 DEF DecisionFresh
<1>4. HolderStatus'
  <2>1. ASSUME NEW q \in Issuers, q # p, Holding(q)
        PROVE  status'[req[q]] = status[req[q]]
    BY <1>1, <1>2, <2>1 DEF TypeInv, Holding, Generating, Locked
  <2>2. QED
    BY <1>1, <2>1 DEF HolderStatus, Holding, Generating, Locked
<1>5. CleanerStatus'
  BY <1>1, <1>2 DEF CleanerStatus, Cleaning, TypeInv
<1>6. OneHolder'
  BY <1>1, <1>2 DEF OneHolder, Holding, Cleaning
<1>7. OutputOfCompleted'
  <2>1. \A k \in outputs : k[1] \in Requests
    BY DEF TypeInv, TypeOK, Key
  <2>2. QED
    BY <1>1, <2>1 DEF OutputOfCompleted
<1>8. ObjectsKept'
  BY <1>1 DEF ObjectsKept
<1>9. QED
  BY <1>3, <1>4, <1>5, <1>6, <1>7, <1>8

LEMMA CleanerClaimLock ==
  ASSUME TypeInv, LockInv, NEW c \in Cleaners, CleanerClaim(c)
  PROVE  LockInv'
<1> USE DEF LockInv, issuerVars
<1>1. /\ creq[c] \in Requests
      /\ status[creq[c]] = "approved"
      /\ \A q \in Requests : status'[q] = IF q = creq[c] THEN "generating" ELSE status[q]
      /\ cpc' = [cpc EXCEPT ![c] = "check"] /\ creq' = creq
      /\ UNCHANGED <<letterNumber, outputs, objects, review, pc, req, num>>
  BY DEF CleanerClaim, CleanerGoto, Claim, TypeInv, TypeOK
<1>2. /\ \A q \in Issuers : Holding(q) => req[q] # creq[c]
      /\ \A d \in Cleaners : Cleaning(d) => creq[d] # creq[c]
  BY <1>1 DEF HolderStatus, CleanerStatus, Holding, Generating, Locked
<1>3. DecisionFresh'
  <2>1. ASSUME NEW v \in Reviewers, review[v] # NoDecision
        PROVE  review[v].req \in Requests /\ review[v].req # creq[c]
    BY <1>1, <2>1 DEF DecisionFresh, RequiredStatus, TypeInv, TypeOK, Decision
  <2>2. QED
    BY <1>1, <2>1 DEF DecisionFresh
<1>4. HolderStatus'
  <2>1. ASSUME NEW q \in Issuers, Holding(q)
        PROVE  status'[req[q]] = status[req[q]]
    BY <1>1, <1>2, <2>1 DEF TypeInv, Holding, Generating, Locked
  <2>2. QED
    BY <1>1, <2>1 DEF HolderStatus, Holding, Generating, Locked
<1>5. \A d \in Cleaners : Cleaning(d)' => d = c \/ Cleaning(d)
  BY <1>1 DEF Cleaning, TypeInv, TypeOK
<1>6. CleanerStatus'
  BY <1>1, <1>2, <1>5 DEF CleanerStatus, Cleaning, TypeInv
<1>7. OneHolder'
  BY <1>1, <1>2, <1>5 DEF OneHolder, Holding
<1>8. OutputOfCompleted'
  <2>1. \A k \in outputs : k[1] \in Requests
    BY DEF TypeInv, TypeOK, Key
  <2>2. QED
    BY <1>1, <2>1 DEF OutputOfCompleted
<1>9. ObjectsKept'
  BY <1>1 DEF ObjectsKept
<1>10. QED
  BY <1>3, <1>4, <1>6, <1>7, <1>8, <1>9

\* Giving it back: only the holder does, and it holds it no more afterwards.
LEMMA IssuerUnclaimLock ==
  ASSUME TypeInv, LockInv, NEW p \in Issuers, Holding(p), Unclaim(req[p]),
         \A q \in Issuers : q # p => pc'[q] = pc[q] /\ req'[q] = req[q] /\ num'[q] = num[q],
         pc'[p] \in {"idle", "probe"},
         UNCHANGED <<letterNumber, outputs, objects, review, cleanVars>>
  PROVE  LockInv'
<1> USE DEF LockInv, cleanVars
<1>1. req[p] \in Requests
  BY DEF Holding, Generating, Locked, TypeInv
<1>2. \A q \in Requests : status'[q] # status[q] =>
        q = req[p] /\ status[q] = "generating" /\ status'[q] = "approved"
  BY <1>1 DEF Unclaim, TypeInv, TypeOK
<1>3. /\ \A q \in Issuers : Holding(q)' => q # p /\ Holding(q)
      /\ \A q \in Issuers : q # p /\ Holding(q) => req[q] # req[p]
      /\ \A c \in Cleaners : Cleaning(c) => creq[c] # req[p]
  BY DEF Holding, OneHolder, Generating, Locked
<1>4. DecisionFresh'
  <2>1. ASSUME NEW v \in Reviewers, review[v] # NoDecision
        PROVE  review[v].req \in Requests /\ status[review[v].req] # "generating"
    BY <2>1 DEF DecisionFresh, RequiredStatus, TypeInv, TypeOK, Decision
  <2>2. QED
    BY <1>2, <2>1 DEF DecisionFresh
<1>5. HolderStatus'
  <2>1. ASSUME NEW q \in Issuers, q # p, Holding(q)
        PROVE  status'[req[q]] = status[req[q]]
    BY <1>2, <1>3, <2>1 DEF TypeInv, Holding, Generating, Locked
  <2>2. QED
    BY <2>1 DEF HolderStatus, Holding, Generating, Locked
<1>6. CleanerStatus'
  BY <1>2, <1>3 DEF CleanerStatus, Cleaning, TypeInv
<1>7. OneHolder'
  BY <1>3 DEF OneHolder, Cleaning
<1>8. OutputOfCompleted'
  <2>1. \A k \in outputs : k[1] \in Requests
    BY DEF TypeInv, TypeOK, Key
  <2>2. QED
    BY <1>2, <2>1 DEF OutputOfCompleted
<1>9. ObjectsKept'
  BY DEF ObjectsKept
<1>10. QED
  BY <1>4, <1>5, <1>6, <1>7, <1>8, <1>9

LEMMA CleanerReleaseLock ==
  ASSUME TypeInv, LockInv, NEW c \in Cleaners, CleanerRelease(c)
  PROVE  LockInv'
<1> USE DEF LockInv
<1>1. /\ Cleaning(c) /\ creq[c] \in Requests
      /\ UNCHANGED <<letterNumber, outputs, objects, review, pc, req, num>>
      /\ cpc' = [cpc EXCEPT ![c] = "idle"] /\ creq' = [creq EXCEPT ![c] = NoRequest]
  BY DEF CleanerRelease, EndJob, Cleaning, CleanerPC, TypeInv, issuerVars
<1>2. \A q \in Requests : status'[q] # status[q] =>
        q = creq[c] /\ status[q] = "generating" /\ status'[q] = "approved"
  BY <1>1 DEF CleanerRelease, Unclaim, TypeInv, TypeOK
<1>3. \A q \in Issuers : Holding(q) => req[q] # creq[c]
  BY <1>1 DEF OneHolder
<1>4. \A d \in Cleaners : Cleaning(d)' => Cleaning(d) /\ d # c /\ creq'[d] = creq[d]
  BY <1>1 DEF Cleaning, TypeInv, TypeOK
<1>5. DecisionFresh'
  <2>1. ASSUME NEW v \in Reviewers, review[v] # NoDecision
        PROVE  review[v].req \in Requests /\ status[review[v].req] # "generating"
    BY <2>1 DEF DecisionFresh, RequiredStatus, TypeInv, TypeOK, Decision
  <2>2. QED
    BY <1>1, <1>2, <2>1 DEF DecisionFresh
<1>6. HolderStatus'
  <2>1. ASSUME NEW q \in Issuers, Holding(q)
        PROVE  status'[req[q]] = status[req[q]]
    BY <1>2, <1>3, <2>1 DEF TypeInv, Holding, Generating, Locked
  <2>2. QED
    BY <1>1, <2>1 DEF HolderStatus, Holding, Generating, Locked
<1>7. CleanerStatus'
  <2>1. \A d \in Cleaners : Cleaning(d)' => creq[d] \in Requests /\ creq[d] # creq[c]
    BY <1>1, <1>4 DEF OneHolder, TypeInv, Cleaning
  <2>2. QED
    BY <1>2, <1>4, <2>1 DEF CleanerStatus
<1>8. OneHolder'
  BY <1>1, <1>4 DEF OneHolder, Holding
<1>9. OutputOfCompleted'
  <2>1. \A k \in outputs : k[1] \in Requests
    BY DEF TypeInv, TypeOK, Key
  <2>2. QED
    BY <1>1, <1>2, <2>1 DEF OutputOfCompleted
<1>10. ObjectsKept'
  BY <1>1 DEF ObjectsKept
<1>11. QED
  BY <1>5, <1>6, <1>7, <1>8, <1>9, <1>10

LEMMA CommitLock ==
  ASSUME TypeInv, LockInv, NEW p \in Issuers, Commit(p)
  PROVE  LockInv'
<1> USE DEF LockInv
<1> DEFINE r == req[p]
<1>1. /\ r \in Requests /\ pc[p] = "commit" /\ Holding(p)
      /\ pc' = [pc EXCEPT ![p] = "audit"]
      /\ outputs' = outputs \cup {<<r, num[p]>>}
      /\ UNCHANGED <<req, num, objects, review, cpc, creq>>
  BY DEF Commit, Goto, Holding, Generating, cleanVars, TypeInv
<1>2. /\ \A q \in Requests : status'[q] = IF q = r THEN "completed" ELSE status[q]
      /\ \A q \in Requests : letterNumber'[q] = IF q = r THEN num[p] ELSE letterNumber[q]
  BY <1>1 DEF Commit, TypeInv, TypeOK
<1>3. status[r] = "generating"
  BY <1>1 DEF HolderStatus
<1>4. /\ \A q \in Issuers : Holding(q)' => Holding(q)
      /\ \A q \in Issuers : q # p /\ Holding(q) => req[q] # r
      /\ \A c \in Cleaners : Cleaning(c) => creq[c] # r
  BY <1>1 DEF Holding, OneHolder, TypeInv, TypeOK
<1>5. DecisionFresh'
  <2>1. ASSUME NEW v \in Reviewers, review[v] # NoDecision
        PROVE  review[v].req \in Requests /\ review[v].req # r
    BY <1>3, <2>1 DEF DecisionFresh, RequiredStatus, TypeInv, TypeOK, Decision
  <2>2. QED
    BY <1>1, <1>2, <2>1 DEF DecisionFresh
<1>6. HolderStatus'
  <2>1. ASSUME NEW q \in Issuers, q # p, Holding(q)
        PROVE  status'[req[q]] = status[req[q]] /\ pc'[q] = pc[q]
    BY <1>1, <1>2, <1>4, <2>1 DEF TypeInv, TypeOK, Holding, Generating, Locked
  <2>2. pc'[p] = "audit" /\ status'[req[p]] = "completed"
    BY <1>1, <1>2 DEF TypeInv, TypeOK
  <2>3. \A q \in Issuers : q # p => pc'[q] = pc[q]
    BY <1>1 DEF TypeInv, TypeOK
  <2>4. QED
    BY <1>1, <2>1, <2>2, <2>3 DEF HolderStatus, Holding, Generating, Locked
<1>7. CleanerStatus'
  BY <1>1, <1>2, <1>4 DEF CleanerStatus, Cleaning, TypeInv
<1>8. OneHolder'
  BY <1>1, <1>4 DEF OneHolder, Cleaning
<1>9. \A k \in outputs : k[1] \in Requests /\ k[1] # r
  BY <1>3 DEF TypeInv, TypeOK, Key, OutputOfCompleted
<1>10. OutputOfCompleted'
  BY <1>1, <1>2, <1>9 DEF OutputOfCompleted
<1>11. ObjectsKept'
  BY <1>1 DEF ObjectsKept, TypeInv, TypeOK
<1>12. QED
  BY <1>5, <1>6, <1>7, <1>8, <1>10, <1>11

LEMMA ReviewerLock ==
  ASSUME Serialized, TypeInv, LockInv, NEW v \in Reviewers,
         \/ \E d \in Decision : CheckDecision(v, d)
         \/ WriteDecision(v)
         \/ DropDecision(v)
  PROVE  LockInv'
<1>1. \A w \in Reviewers : w = v
  BY DEF Serialized
<1>2. CASE \E d \in Decision : CheckDecision(v, d)
  <2>1. DecisionFresh'
    BY <1>1, <1>2 DEF CheckDecision, DecisionFresh, TypeInv, TypeOK, dbVars
  <2>2. QED
    BY <1>2, <2>1, DecisionLock DEF CheckDecision, dbVars
<1>3. CASE WriteDecision(v)
  <2>1. review'[v] = NoDecision /\ review[v] \in Decision
    BY <1>3 DEF WriteDecision, TypeInv, TypeOK
  <2>2. DecisionFresh'
    BY <1>1, <2>1 DEF DecisionFresh
  <2>3. /\ status[review[v].req] \notin {"generating", "completed"}
        /\ review[v].to # "completed"
    <3>1. /\ status[review[v].req] \in RequiredStatus(review[v].op)
          /\ review[v].to \in WrittenStatus(review[v].op)
          /\ review[v].op \in {"verify", "approve", "reject"}
      BY <1>3, <2>1 DEF WriteDecision, LockInv, DecisionFresh, Decision
    <3>2. QED
      BY <3>1 DEF RequiredStatus, WrittenStatus
  <2>4. \A r \in Requests : status'[r] # status[r] =>
           /\ status[r] \notin {"generating", "completed"}
           /\ status'[r] # "completed"
    BY <1>3, <2>3 DEF WriteDecision, TypeInv, TypeOK
  <2>5. UNCHANGED <<letterNumber, outputs, objects, issuerVars, cleanVars>>
    BY <1>3 DEF WriteDecision
  <2>6. QED
    BY <2>2, <2>4, <2>5, DecisionLock
<1>4. CASE DropDecision(v)
  <2>1. DecisionFresh'
    BY <1>1, <1>4 DEF DropDecision, DecisionFresh, TypeInv, TypeOK, dbVars
  <2>2. QED
    BY <1>4, <2>1, DecisionLock DEF DropDecision, dbVars
<1>5. QED
  BY <1>2, <1>3, <1>4

LEMMA GenerateLock ==
  ASSUME TypeInv, LockInv, NEW p \in Issuers, GenerateStep(p)
  PROVE  LockInv'
<1> USE DEF IssuerQuiet, Goto, Finish, Generating, Locked, Working, TypeInv, TypeOK, cleanVars
<1>1. CASE CheckOutput(p)
  <2>1. pc[p] = "check" /\ UNCHANGED <<dbVars, objects, queueVars, review, cleanVars>>
    BY <1>1 DEF CheckOutput
  <2>2. Goto(p, "release") \/ Goto(p, "number") \/ Finish(p)
    BY <1>1 DEF CheckOutput, Fail
  <2>3. IssuerQuiet(p)
    BY <2>1, <2>2 DEF dbVars
  <2>4. QED
    BY <2>3, IssuerQuietLock
<1>2. CASE AllocateNumber(p)
  <2>1. IssuerQuiet(p)
    BY <1>2 DEF AllocateNumber
  <2>2. QED
    BY <2>1, IssuerQuietLock
<1>3. CASE Upload(p)
  <2>1. IssuerQuiet(p)
    BY <1>3 DEF Upload, dbVars
  <2>2. QED
    BY <2>1, IssuerQuietLock
<1>4. CASE Commit(p)
  BY <1>4, CommitLock
<1>5. CASE AuditIssue(p)
  <2>1. IssuerQuiet(p)
    BY <1>5 DEF AuditIssue, dbVars
  <2>2. QED
    BY <2>1, IssuerQuietLock
<1>6. CASE StepFails(p)
  <2>1. /\ pc[p] \in Generating \ {"release"}
        /\ UNCHANGED <<dbVars, queueVars, review, cleanVars>>
        /\ objects \subseteq objects'
    BY <1>6 DEF StepFails
  <2>2. Goto(p, "release") \/ Finish(p)
    BY <1>6 DEF StepFails, Fail
  <2>3. IssuerQuiet(p)
    BY <2>1, <2>2 DEF dbVars
  <2>4. QED
    BY <2>3, IssuerQuietLock
<1>7. QED
  BY <1>1, <1>2, <1>3, <1>4, <1>5, <1>6 DEF GenerateStep

LEMMA CompensateLock ==
  ASSUME TypeInv, LockInv, NEW p \in Issuers, CompensateStep(p)
  PROVE  LockInv'
<1>1. CASE Release(p)
  <2>1. /\ Holding(p) /\ Unclaim(req[p]) /\ pc' = [pc EXCEPT ![p] = "probe"]
        /\ UNCHANGED <<letterNumber, outputs, objects, review, req, num, cleanVars>>
    BY <1>1 DEF Release, Goto, Holding, Generating
  <2>2. /\ \A q \in Issuers : q # p => pc'[q] = pc[q] /\ req'[q] = req[q] /\ num'[q] = num[q]
        /\ pc'[p] = "probe"
    BY <2>1 DEF TypeInv, TypeOK
  <2>3. QED
    BY <2>1, <2>2, IssuerUnclaimLock
<1>2. CASE LockPrefix(p)
  <2>1. /\ req[p] \in Requests /\ Claim(req[p])
        /\ pc' = [pc EXCEPT ![p] = "list"]
        /\ req' = [req EXCEPT ![p] = req[p]]
        /\ UNCHANGED <<letterNumber, outputs, objects, review, num, cleanVars>>
    BY <1>2 DEF LockPrefix, Goto, TypeInv, TypeOK
  <2>2. QED
    BY <2>1, IssuerClaimLock
<1>3. CASE UnlockPrefix(p)
  <2>1. /\ Holding(p) /\ Unclaim(req[p]) /\ Finish(p)
        /\ UNCHANGED <<letterNumber, outputs, objects, review, cleanVars>>
    BY <1>3 DEF UnlockPrefix, Holding, Locked
  <2>2. /\ \A q \in Issuers : q # p => pc'[q] = pc[q] /\ req'[q] = req[q] /\ num'[q] = num[q]
        /\ pc'[p] = "idle"
    BY <2>1 DEF Finish, TypeInv, TypeOK
  <2>3. QED
    BY <2>1, <2>2, IssuerUnclaimLock
<1>4. CASE Probe(p) \/ LockRefused(p) \/ CompensationFails(p) \/ ListPrefix(p)
  <2>1. /\ UNCHANGED <<dbVars, objects, review, cleanVars>>
        /\ \/ Finish(p) \/ Goto(p, "lock")
           \/ pc[p] \in Working /\ \E to \in {"delete", "enqueue", "unlock"} : Goto(p, to)
    BY <1>4 DEF Probe, LockRefused, CompensationFails, ListPrefix, Working, Locked
  <2>2. IssuerQuiet(p)
    BY <2>1 DEF IssuerQuiet, Goto, Finish, Generating, Locked, Working, TypeInv, TypeOK,
                dbVars, cleanVars
  <2>3. QED
    BY <2>2, IssuerQuietLock
<1>5. CASE DeletePrefix(p) \/ DeletePrefixFails(p) \/ EnqueueCleanup(p) \/ EnqueueFails(p)
  <2>1. /\ UNCHANGED <<dbVars, review, cleanVars>>
        /\ pc[p] \in Working /\ pc[p] \in Locked
        /\ \E to \in {"enqueue", "unlock"} : Goto(p, to)
    BY <1>5 DEF DeletePrefix, DeletePrefixFails, EnqueueCleanup, EnqueueFails, Working, Locked
  <2>2. \A k \in objects : k \in objects' \/ k[1] = req[p]
    BY <1>5 DEF DeletePrefix, DeletePrefixFails, EnqueueCleanup, EnqueueFails, Prefix
  <2>3. IssuerQuiet(p)
    BY <2>1, <2>2 DEF IssuerQuiet, Goto, Generating, Locked, Working, TypeInv, TypeOK,
                dbVars, cleanVars
  <2>4. QED
    BY <2>3, IssuerQuietLock
<1>6. QED
  BY <1>1, <1>2, <1>3, <1>4, <1>5 DEF CompensateStep

LEMMA CleanerLock ==
  ASSUME TypeInv, LockInv, NEW c \in Cleaners,
         CleanerStep(c) \/ CleanerCrash(c) \/ \E r \in Requests : CleanerTake(c, r)
  PROVE  LockInv'
<1>1. CASE CleanerClaim(c)
  BY <1>1, CleanerClaimLock
<1>2. CASE CleanerRelease(c)
  BY <1>2, CleanerReleaseLock
<1>3. CASE CleanerSkips(c) \/ CleanerCrash(c) \/ \E r \in Requests : CleanerTake(c, r)
  <2>1. /\ UNCHANGED <<dbVars, objects, review, issuerVars>>
        /\ cpc' = [cpc EXCEPT ![c] = "idle"] \/ cpc' = [cpc EXCEPT ![c] = "claim"]
        /\ \E r : creq' = [creq EXCEPT ![c] = r]
    BY <1>3 DEF CleanerSkips, CleanerCrash, CleanerTake, EndJob
  <2>2. CleanerQuiet(c)
    BY <2>1 DEF CleanerQuiet, TypeInv, TypeOK, dbVars, issuerVars
  <2>3. QED
    BY <2>2, CleanerQuietLock
<1>4. CASE CleanerCheck(c) \/ CleanerDelete(c)
  <2>1. /\ UNCHANGED <<dbVars, review, issuerVars>>
        /\ Cleaning(c)
        /\ \E to \in CleanerPC : CleanerGoto(c, to)
    BY <1>4 DEF CleanerCheck, CleanerDelete, CleanerPC, Cleaning
  <2>2. \A k \in objects : k \in objects' \/ k[1] = creq[c]
    BY <1>4 DEF CleanerCheck, CleanerDelete, Prefix
  <2>3. CleanerQuiet(c)
    BY <2>1, <2>2 DEF CleanerQuiet, CleanerGoto, TypeInv, TypeOK, dbVars, issuerVars
  <2>4. QED
    BY <2>3, CleanerQuietLock
<1>5. CASE CleanerFails(c)
  <2>1. /\ UNCHANGED <<dbVars, review, issuerVars>>
        /\ cpc[c] # "claim" => Cleaning(c)
        /\ cpc[c] = "claim" => objects' = objects
    BY <1>5 DEF CleanerFails, CleanerPC, Cleaning
  <2>2. \A k \in objects : k \in objects' \/ k[1] = creq[c]
    BY <1>5 DEF CleanerFails, Prefix
  <2>3. /\ \A d \in Cleaners : d # c => cpc'[d] = cpc[d] /\ creq'[d] = creq[d]
        /\ cpc'[c] = "idle" \/ (cpc[c] # "claim" /\ creq'[c] = creq[c])
    <3>1. EndJob(c, Retried(c)) \/ (cpc[c] # "claim" /\ CleanerGoto(c, "error"))
      BY <1>5 DEF CleanerFails
    <3>2. CASE EndJob(c, Retried(c))
      BY <3>2 DEF EndJob, TypeInv, TypeOK
    <3>3. CASE cpc[c] # "claim" /\ CleanerGoto(c, "error")
      BY <3>3 DEF CleanerGoto, TypeInv, TypeOK
    <3>4. QED
      BY <3>1, <3>2, <3>3
  <2>4. CleanerQuiet(c)
    BY <2>1, <2>2, <2>3 DEF CleanerQuiet, dbVars, issuerVars
  <2>5. QED
    BY <2>4, CleanerQuietLock
<1>6. QED
  BY <1>1, <1>2, <1>3, <1>4, <1>5 DEF CleanerStep

LEMMA StepLockInv ==
  ASSUME Serialized, TypeInv, LockInv, [Next]_vars
  PROVE  LockInv'
<1>1. ASSUME NEW r \in Requests, CreateRequest(r) PROVE LockInv'
  <2>1. \A q \in Requests : status'[q] # status[q] =>
          /\ status[q] = "none"
          /\ status'[q] = "submitted"
    BY <1>1 DEF CreateRequest, TypeInv, TypeOK
  <2>2. DecisionFresh'
    <3>1. ASSUME NEW v \in Reviewers, review[v] # NoDecision
          PROVE  review[v].req \in Requests /\ status[review[v].req] # "none"
      BY <3>1 DEF LockInv, DecisionFresh, RequiredStatus, TypeInv, TypeOK, Decision
    <3>2. QED
      BY <1>1, <2>1, <3>1 DEF LockInv, DecisionFresh, CreateRequest
  <2>3. QED
    BY <1>1, <2>1, <2>2, DecisionLock DEF CreateRequest
<1>2. ASSUME NEW r \in Requests, JobExpires(r) PROVE LockInv'
  <2>1. DecisionFresh'
    BY <1>2 DEF LockInv, DecisionFresh, JobExpires, dbVars
  <2>2. QED
    BY <1>2, <2>1, DecisionLock DEF JobExpires, dbVars
<1>3. CASE ReviewerNext
  <2>1. \E v \in Reviewers : \/ \E d \in Decision : CheckDecision(v, d)
                             \/ WriteDecision(v)
                             \/ DropDecision(v)
    BY <1>3 DEF ReviewerNext, Decision
  <2>2. QED
    BY <2>1, ReviewerLock
<1>4. ASSUME NEW g \in Generators, NEW r \in Requests, ClaimForPdf(g, r)
      PROVE  LockInv'
  BY <1>4, IssuerClaimLock DEF ClaimForPdf, Begin, Issuers
<1>5. ASSUME NEW g \in Generators, NEW r \in Requests, ClaimRefused(g, r)
      PROVE  LockInv'
  <2>1. IssuerQuiet(g)
    BY <1>5 DEF ClaimRefused, Begin, IssuerQuiet, Issuers, Generating, Locked, Working,
                TypeInv, TypeOK, dbVars, cleanVars
  <2>2. QED
    BY <2>1, IssuerQuietLock DEF Issuers
<1>6. ASSUME NEW w \in PdfWorkers, NEW r \in Requests, StartPdfJob(w, r)
      PROVE  LockInv'
  BY <1>6 DEF Serialized
<1>7. ASSUME NEW p \in Issuers, IssuerStep(p) PROVE LockInv'
  BY <1>7, GenerateLock, CompensateLock DEF IssuerStep
<1>8. ASSUME NEW p \in Issuers, Crash(p) PROVE LockInv'
  <2>1. IssuerQuiet(p)
    BY <1>8 DEF Crash, Finish, IssuerQuiet, Generating, Locked, TypeInv, TypeOK,
                dbVars, cleanVars
  <2>2. QED
    BY <2>1, IssuerQuietLock
<1>9. ASSUME NEW c \in Cleaners,
             CleanerStep(c) \/ CleanerCrash(c) \/ \E r \in Requests : CleanerTake(c, r)
      PROVE  LockInv'
  BY <1>9, CleanerLock
<1>10. CASE UNCHANGED vars
  <2>1. DecisionFresh'
    BY <1>10 DEF LockInv, DecisionFresh, vars, dbVars
  <2>2. QED
    BY <1>10, <2>1, DecisionLock DEF vars, dbVars
<1>11. QED
  BY <1>1, <1>2, <1>3, <1>4, <1>5, <1>6, <1>7, <1>8, <1>9, <1>10 DEF Next

\* Where decisions on a request follow one another and the PDF worker is off,
\* the claim is a lock: at most one call or job works on the PDFs of a request,
\* a letter is issued once, and the PDF of an issued letter stays, for any
\* number of calls and cleanup jobs and whichever of them crash.
THEOREM ClaimIsLock ==
  ASSUME Serialized
  PROVE  Spec => [](ClaimExclusive /\ IssuedOnce /\ NoDanglingFile)
<1>1. TypeInv /\ LockInv /\ [Next]_vars => LockInv'
  BY StepLockInv
<1>2. Spec => [](TypeInv /\ LockInv)
  BY <1>1, InitTypeInv, StepTypeInv, InitLockInv, PTL DEF Spec
<1>3. QED
  BY <1>2, LockInvImplies, PTL
\* Under the same assumption a decision never lands on a request that has moved
\* on: verify, approve and reject write without looking at the status again, and
\* it still is the one they checked.
THEOREM DecisionsStayFresh ==
  ASSUME Serialized
  PROVE  Spec => DecideInState
<1>1. TypeInv /\ LockInv /\ [Next]_vars => LockInv'
  BY StepLockInv
<1>2. LockInv => \A v \in Reviewers :
        WriteDecision(v) => status[review[v].req] \in RequiredStatus(review[v].op)
  BY DEF LockInv, DecisionFresh, WriteDecision
<1>3. QED
  BY <1>1, <1>2, InitTypeInv, StepTypeInv, InitLockInv, PTL DEF Spec, DecideInState

-----------------------------------------------------------------------------
(* Refinement of LetterLifecycle.  Claims and releases are not seen, since   *)
(* 'generating' is shown as 'approved'; what is left is to show that the     *)
(* three steps that are seen are steps of the workflow.                      *)

Unseen == /\ UNCHANGED letterNumber
          /\ UNCHANGED status \/ \E q \in Requests : Claim(q) \/ Unclaim(q)

LEMMA UnseenStutters ==
  ASSUME TypeInv, Unseen
  PROVE  UNCHANGED <<ShownStatus, letterNumber>>
<1>1. \A r \in Requests : ShownStatus'[r] = ShownStatus[r]
  BY DEF Unseen, Claim, Unclaim, ShownStatus, TypeInv, TypeOK
<1>2. QED
  BY <1>1 DEF Unseen, ShownStatus

LEMMA SeenSteps ==
  ASSUME TypeInv, Next
  PROVE  \/ \E r \in Requests : CreateRequest(r)
         \/ \E v \in Reviewers : WriteDecision(v)
         \/ \E p \in Issuers : Commit(p)
         \/ Unseen
<1> USE DEF Unseen
<1>1. ASSUME NEW r \in Requests, JobExpires(r) PROVE Unseen
  BY <1>1 DEF JobExpires, dbVars
<1>2. ASSUME NEW v \in Reviewers,
             (\E d \in Decision : CheckDecision(v, d)) \/ DropDecision(v)
      PROVE  Unseen
  BY <1>2 DEF CheckDecision, DropDecision, dbVars
<1>3. ASSUME NEW p \in Issuers, NEW r \in Requests,
             ClaimForPdf(p, r) \/ ClaimRefused(p, r) \/ StartPdfJob(p, r)
      PROVE  Unseen
  BY <1>3 DEF ClaimForPdf, ClaimRefused, StartPdfJob, dbVars
<1>4. ASSUME NEW p \in Issuers, GenerateStep(p), ~Commit(p) PROVE Unseen
  BY <1>4 DEF GenerateStep, CheckOutput, AllocateNumber, Upload, AuditIssue, StepFails, dbVars
<1>5. ASSUME NEW p \in Issuers, CompensateStep(p) PROVE Unseen
  <2>1. req[p] \in Requests
    BY <1>5 DEF CompensateStep, Release, Probe, LockPrefix, LockRefused,
       CompensationFails, ListPrefix, DeletePrefix, DeletePrefixFails,
       EnqueueCleanup, EnqueueFails, UnlockPrefix, TypeInv
  <2>2. QED
    BY <1>5, <2>1 DEF CompensateStep, Release, Probe, LockPrefix, LockRefused,
       CompensationFails, ListPrefix, DeletePrefix, DeletePrefixFails,
       EnqueueCleanup, EnqueueFails, UnlockPrefix, dbVars
<1>6. ASSUME NEW p \in Issuers, Crash(p) PROVE Unseen
  BY <1>6 DEF Crash, dbVars
<1>7. ASSUME NEW c \in Cleaners,
             CleanerStep(c) \/ CleanerCrash(c) \/ \E r \in Requests : CleanerTake(c, r)
      PROVE  Unseen
  <2>1. cpc[c] # "idle" => creq[c] \in Requests
    BY DEF TypeInv
  <2>2. QED
    BY <1>7, <2>1 DEF CleanerStep, CleanerClaim, CleanerSkips, CleanerCheck, CleanerDelete,
       CleanerFails, CleanerRelease, CleanerCrash, CleanerTake, dbVars
<1>8. QED
  BY <1>1, <1>2, <1>3, <1>4, <1>5, <1>6, <1>7
     DEF Next, ReviewerNext, IssuerStep, Issuers, Decision

\* What a step that writes one status shows.
LEMMA ShownMove ==
  ASSUME TypeInv, NEW r \in Requests, NEW to \in Status \ {"generating"},
         status' = [status EXCEPT ![r] = to]
  PROVE  ShownStatus' = [ShownStatus EXCEPT ![r] = to]
BY DEF ShownStatus, TypeInv, TypeOK

LEMMA DecisionMoves ==
  ASSUME TypeInv, LockInv, NEW v \in Reviewers, WriteDecision(v)
  PROVE  Lifecycle!Next
<1> DEFINE d == review[v]
<1>1. /\ d \in Decision
      /\ d.to \in WrittenStatus(d.op) /\ status[d.req] \in RequiredStatus(d.op)
      /\ UNCHANGED letterNumber
  BY DEF WriteDecision, LockInv, DecisionFresh, TypeInv, TypeOK
<1>2. d.req \in Requests /\ d.op \in {"verify", "approve", "reject"}
  BY <1>1 DEF Decision
<1>3. /\ ShownStatus[d.req] = status[d.req]
      /\ d.to \in Status \ {"generating"}
  BY <1>1, <1>2 DEF ShownStatus, RequiredStatus, WrittenStatus, Status
<1>4. ShownStatus' = [ShownStatus EXCEPT ![d.req] = d.to]
  BY <1>2, <1>3, ShownMove DEF WriteDecision
<1>5. \/ d.to = "verified" /\ status[d.req] = "submitted"
      \/ d.to = "approved" /\ status[d.req] = "verified"
      \/ d.to = "rejected" /\ status[d.req] \in {"submitted", "verified"}
  BY <1>1, <1>2 DEF RequiredStatus, WrittenStatus
<1>6. Lifecycle!Verify(d.req) \/ Lifecycle!Approve(d.req) \/ Lifecycle!Reject(d.req)
  BY <1>1, <1>3, <1>4, <1>5
     DEF Lifecycle!Verify, Lifecycle!Approve, Lifecycle!Reject, Lifecycle!Move
<1>7. QED
  BY <1>2, <1>6 DEF Lifecycle!Next

LEMMA CommitIssues ==
  ASSUME TypeInv, LockInv, NumberInv, NumberHasOutput, NEW p \in Issuers, Commit(p)
  PROVE  Lifecycle!Next
<1> DEFINE r == req[p]
<1>1. /\ r \in Requests /\ num[p] \in 1 .. MaxNumber
      /\ letterNumber' = [letterNumber EXCEPT ![r] = num[p]]
      /\ letterNumber'[r] = num[p]
  BY DEF Commit, TypeInv, TypeOK, InHand
<1>2. status[r] = "generating" /\ ShownStatus[r] = "approved"
  BY <1>1 DEF Commit, LockInv, HolderStatus, ShownStatus
<1>3. ShownStatus' = [ShownStatus EXCEPT ![r] = "completed"]
  BY <1>1, ShownMove DEF Commit, Status
<1>4. letterNumber[r] = 0
  BY <1>1, <1>2 DEF NumberHasOutput, LockInv, OutputOfCompleted
<1>5. ASSUME NEW q \in Requests PROVE num[p] # letterNumber[q]
  <2>1. CASE letterNumber[q] = 0
    BY <1>1, <2>1
  <2>2. CASE letterNumber[q] # 0
    BY <2>2 DEF NumberHasOutput, NumberInv, InHand, Commit
  <2>3. QED
    BY <2>1, <2>2
<1>6. Lifecycle!Issue(r)
  <2>1. letterNumber'[r] \in Nat \ ({0} \cup {letterNumber[q] : q \in Requests})
    BY <1>1, <1>5, BoundsAssumption
  <2>2. letterNumber' = [letterNumber EXCEPT ![r] = letterNumber'[r]]
    BY <1>1
  <2>3. QED
    BY <1>2, <1>3, <1>4, <2>1, <2>2 DEF Lifecycle!Issue
<1>7. QED
  BY <1>1, <1>6 DEF Lifecycle!Next

LEMMA LifecycleStep ==
  ASSUME TypeInv, LockInv, NumberInv, NumberHasOutput, [Next]_vars
  PROVE  [Lifecycle!Next]_(Lifecycle!vars)
<1>1. ASSUME NEW r \in Requests, CreateRequest(r) PROVE Lifecycle!Next
  <2>1. ShownStatus[r] = "none" /\ ShownStatus' = [ShownStatus EXCEPT ![r] = "submitted"]
    BY <1>1, ShownMove DEF CreateRequest, ShownStatus, Status
  <2>2. Lifecycle!Submit(r)
    BY <1>1, <2>1 DEF CreateRequest, Lifecycle!Submit, Lifecycle!Move
  <2>3. QED
    BY <2>2 DEF Lifecycle!Next
<1>2. CASE Unseen
  BY <1>2, UnseenStutters DEF Lifecycle!vars
<1>3. CASE UNCHANGED vars
  BY <1>3 DEF vars, dbVars, ShownStatus, Lifecycle!vars
<1>4. QED
  BY <1>1, <1>2, <1>3, SeenSteps, DecisionMoves, CommitIssues

\* With one decision in flight at a time and the PDF worker off, the service
\* with its claims, failures, crashes, compensations and cleanup jobs is the
\* workflow of LetterLifecycle: a letter is issued once, from 'approved', under
\* a number no other letter has.
THEOREM ImplementsTheLifecycle ==
  ASSUME Serialized
  PROVE  Spec => ImplementsLifecycle
<1>1. Init => Lifecycle!Init
  BY DEF Init, Lifecycle!Init, ShownStatus
<1>2. TypeInv /\ LockInv /\ [Next]_vars => LockInv'
  BY StepLockInv
<1>3. TypeInv /\ LockInv /\ NumberInv /\ NumberHasOutput /\ [Next]_vars
        => [Lifecycle!Next]_(Lifecycle!vars)
  BY LifecycleStep
<1>4. QED
  BY <1>1, <1>2, <1>3, InitTypeInv, StepTypeInv, InitLockInv, InitNumberInv, StepNumberInv,
     NumbersHaveOutputs, PTL DEF Spec, ImplementsLifecycle, Lifecycle!Spec
=============================================================================
