------------------------------ MODULE Complaints ------------------------------
(***************************************************************************)
(* Complaints of SIDPRO: the calls of ComplaintsService that work on one   *)
(* complaint at the same time, and the queue of the mails that tell its    *)
(* reporter of a change.  A call reads the complaint and checks its status *)
(* in one statement, writes it (by id only) in another, then records the   *)
(* audit row and queues the mail.                                          *)
(***************************************************************************)
EXTENDS Integers, Sequences

CONSTANTS
  Complaint,
  WithEmail,     \* the complaints whose reporter left an address
  Calls,         \* calls that may be in flight
  AnswerFrom,    \* the statuses in which officials send an answer
  Serialized,    \* TRUE: one call at a time on a complaint
  Failures,      \* what may fail: "audit", "queue", "mail"
  MaxAttempts,   \* attempts of a mail job
  MaxQueue       \* bound of the model on the mails queued

ASSUME ComplaintsAssumption ==
  /\ WithEmail \subseteq Complaint
  /\ Serialized \in BOOLEAN
  /\ Failures \subseteq {"audit", "queue", "mail"}
  /\ MaxAttempts \in Nat \ {0} /\ MaxQueue \in Nat

VARIABLES
  status,     \* complaints.status ("none": no row)
  closedAt,   \* whether complaints.closed_at is set
  assignee,   \* whether complaints.assignee_id is set
  shown,      \* the statuses of the responses, shown in the public timeline
  held,       \* history: the statuses a complaint has had
  call,       \* what each call is doing
  mails,      \* the queue "notifications"
  delayed,    \* mail jobs that wait for their next attempt
  inbox,      \* the statuses named by the mails a reporter has received
  missed      \* history: the changes <<complaint, status>> whose mail was lost

rowVars  == <<status, closedAt, assignee, shown, held>>
mailVars == <<mails, delayed, inbox, missed>>
vars == <<rowVars, call, mailVars>>

Status == {"submitted", "verified", "assigned", "in_progress", "resolved", "rejected", "closed"}
NoNote == "no note"

Idle   == [pc |-> "idle"]
Active == [pc : {"write", "audit", "notify"}, op : {"status", "assign", "answer"},
           of : Complaint, from : Status, to : Status, note : Status \cup {NoNote}]
Mail   == [of : Complaint, to : Status, attempt : 1 .. MaxAttempts]

TypeOK ==
  /\ status \in [Complaint -> Status \cup {"none"}]
  /\ closedAt \in [Complaint -> BOOLEAN]
  /\ assignee \in [Complaint -> BOOLEAN]
  /\ shown \in [Complaint -> SUBSET Status]
  /\ held \in [Complaint -> SUBSET Status]
  /\ call \in [Calls -> Active \cup {Idle}]
  /\ mails \in Seq(Mail)
  /\ delayed \subseteq Mail
  /\ inbox \in [Complaint -> SUBSET Status]
  /\ missed \subseteq Complaint \X Status

Init ==
  /\ status = [c \in Complaint |-> "none"]
  /\ closedAt = [c \in Complaint |-> FALSE]
  /\ assignee = [c \in Complaint |-> FALSE]
  /\ shown = [c \in Complaint |-> {}]
  /\ held = [c \in Complaint |-> {}]
  /\ call = [k \in Calls |-> Idle]
  /\ mails = <<>>
  /\ delayed = {}
  /\ inbox = [c \in Complaint |-> {}]
  /\ missed = {}

-----------------------------------------------------------------------------
\* Mutant: work in progress can be closed directly.
MutTransitions(from) ==
  CASE from = "submitted"   -> {"verified", "rejected"}
    [] from = "verified"    -> {"assigned", "rejected"}
    [] from = "assigned"    -> {"in_progress", "rejected"}
    [] from = "in_progress" -> {"resolved", "rejected", "closed"}
    [] from = "resolved"    -> {"closed"}
    [] OTHER                -> {}

Transitions(from) ==
  CASE from = "submitted"   -> {"verified", "rejected"}
    [] from = "verified"    -> {"assigned", "rejected"}
    [] from = "assigned"    -> {"in_progress", "rejected"}
    [] from = "in_progress" -> {"resolved", "rejected"}
    [] from = "resolved"    -> {"closed"}
    [] OTHER                -> {}

\* Mutant: an answer does not start the work on an assigned complaint.
MutTimeline(from, note) == IF note = "resolved" /\ from # "closed" THEN "resolved" ELSE from

\* The status an answer writes; note is the status the answer itself carries.
Answered(from, note) ==
  IF note = "resolved" /\ from # "closed" THEN "resolved"
  ELSE IF from = "assigned" THEN "in_progress"
  ELSE from

\* A complaint comes in through the public form or from an official.
Submit(c) ==
  /\ status[c] = "none"
  /\ status' = [status EXCEPT ![c] = "submitted"]
  /\ held' = [held EXCEPT ![c] = @ \cup {"submitted"}]
  /\ UNCHANGED <<closedAt, assignee, shown, call, mailVars>>

\* A call reads the complaint; its checks have passed on what it read.
Begin(k, op, c, to, note) ==
  /\ call[k] = Idle
  /\ status[c] # "none"
  /\ Serialized => \A j \in Calls : call[j] # Idle => call[j].of # c
  /\ Len(mails) < MaxQueue
  /\ call' = [call EXCEPT ![k] = [pc |-> "write", op |-> op, of |-> c,
                                  from |-> status[c], to |-> to, note |-> note]]
  /\ UNCHANGED <<rowVars, mailVars>>

\* A rejection or a closing must give its reason.
BeginUpdateStatus(k, c, to, note) ==
  /\ to \in Transitions(status[c])
  /\ note \in {to, NoNote}
  /\ to \in {"rejected", "closed"} => note = to
  /\ Begin(k, "status", c, to, note)

\* Mutant: a complaint can be assigned to somebody in any status.
MutBeginAssign(k, c) == Begin(k, "assign", c, "assigned", NoNote)

BeginAssign(k, c) ==
  /\ status[c] \in {"verified", "assigned", "in_progress"}
  /\ Begin(k, "assign", c, IF status[c] = "verified" THEN "assigned" ELSE status[c], NoNote)

BeginAnswer(k, c, note) ==
  /\ status[c] \in AnswerFrom
  /\ Begin(k, "answer", c, Answered(status[c], note), note)

\* Mutant: only a closing sets the date.
MutDated(w) == IF w.op = "status" /\ w.to = "closed" THEN TRUE
               ELSE IF w.op = "answer" /\ w.note = "resolved" THEN FALSE
               ELSE closedAt[w.of]

Dated(w) == IF w.op = "status" /\ w.to \in {"closed", "rejected"} THEN TRUE
            ELSE IF w.op = "answer" /\ w.note = "resolved" THEN FALSE
            ELSE closedAt[w.of]

\* The transaction that writes the complaint and the response.
Write(k) ==
  LET w == call[k] IN
  /\ w.pc = "write"
  /\ status' = [status EXCEPT ![w.of] = w.to]
  /\ closedAt' = [closedAt EXCEPT ![w.of] = Dated(w)]
  /\ assignee' = [assignee EXCEPT ![w.of] = @ \/ w.op = "assign"]
  /\ shown' = [shown EXCEPT ![w.of] = @ \cup ({w.note} \ {NoNote})]
  /\ held' = [held EXCEPT ![w.of] = @ \cup {w.to}]
  /\ call' = [call EXCEPT ![k] = [w EXCEPT !.pc = "audit"]]
  /\ UNCHANGED mailVars

\* The call fails before it has written (the transaction is rolled back).
WriteFails(k) ==
  /\ call[k].pc = "write" /\ Failures # {}
  /\ call' = [call EXCEPT ![k] = Idle]
  /\ UNCHANGED <<rowVars, mailVars>>

Audit(k) ==
  /\ call[k].pc = "audit"
  /\ call' = [call EXCEPT ![k] = [call[k] EXCEPT !.pc = "notify"]]
  /\ UNCHANGED <<rowVars, mailVars>>

\* A mail is due if the call has changed the status it read.
Due(w) == w.of \in WithEmail /\ w.from # w.to

\* The complaint is written, the call fails: nobody is told.
AuditFails(k) ==
  LET w == call[k] IN
  /\ w.pc = "audit" /\ "audit" \in Failures
  /\ call' = [call EXCEPT ![k] = Idle]
  /\ missed' = IF Due(w) THEN missed \cup {<<w.of, w.to>>} ELSE missed
  /\ UNCHANGED <<rowVars, mails, delayed, inbox>>

\* Mutant: the mail names the status that the complaint had.
MutMailOf(w) == [of |-> w.of, to |-> w.from, attempt |-> 1]

MailOf(w) == [of |-> w.of, to |-> w.to, attempt |-> 1]

\* The errors of the queue are logged and swallowed.
Notify(k) ==
  LET w == call[k] IN
  /\ w.pc = "notify"
  /\ call' = [call EXCEPT ![k] = Idle]
  /\ \/ Due(w) /\ mails' = Append(mails, MailOf(w)) /\ UNCHANGED missed
     \/ /\ Due(w) /\ "queue" \in Failures
        /\ missed' = missed \cup {<<w.of, w.to>>} /\ UNCHANGED mails
     \/ ~Due(w) /\ UNCHANGED <<mails, missed>>
  /\ UNCHANGED <<rowVars, delayed, inbox>>

-----------------------------------------------------------------------------
\* The notification worker.
SendMail ==
  /\ mails # <<>>
  /\ inbox' = [inbox EXCEPT ![Head(mails).of] = @ \cup {Head(mails).to}]
  /\ mails' = Tail(mails)
  /\ UNCHANGED <<rowVars, call, delayed, missed>>

\* The last attempt is given up.
MailFails ==
  LET m == Head(mails) IN
  /\ mails # <<>> /\ "mail" \in Failures
  /\ mails' = Tail(mails)
  /\ \/ /\ m.attempt < MaxAttempts
        /\ delayed' = delayed \cup {[m EXCEPT !.attempt = @ + 1]}
        /\ UNCHANGED missed
     \/ /\ m.attempt >= MaxAttempts
        /\ missed' = missed \cup {<<m.of, m.to>>}
        /\ UNCHANGED delayed
  /\ UNCHANGED <<rowVars, call, inbox>>

\* The back-off of a job is over.
RetryMail(m) ==
  /\ m \in delayed
  /\ delayed' = delayed \ {m}
  /\ mails' = Append(mails, m)
  /\ UNCHANGED <<rowVars, call, inbox, missed>>

-----------------------------------------------------------------------------
Step(k) == Write(k) \/ Audit(k) \/ Notify(k)

Next ==
  \/ \E c \in Complaint : Submit(c)
  \/ \E k \in Calls, c \in Complaint :
       \/ \E to \in Status : \E note \in {to, NoNote} : BeginUpdateStatus(k, c, to, note)
       \/ BeginAssign(k, c)
       \/ \E note \in {"in_progress", "resolved"} : BeginAnswer(k, c, note)
  \/ \E k \in Calls : Step(k) \/ WriteFails(k) \/ AuditFails(k)
  \/ SendMail \/ MailFails
  \/ \E m \in delayed : RetryMail(m)

Spec == Init /\ [][Next]_vars

\* A call runs on to its end, the worker takes jobs from its queue, and BullMQ
\* brings a delayed one back.
FairSpec ==
  /\ Spec
  /\ \A k \in Calls : WF_vars(Step(k))
  /\ WF_vars(SendMail)
  /\ \A m \in Mail : WF_vars(RetryMail(m))

-----------------------------------------------------------------------------
\* What has to come before a status in the life of a complaint.
Before(s) == CASE s = "verified"    -> {"submitted"}
               [] s = "assigned"    -> {"verified"}
               [] s = "in_progress" -> {"assigned"}
               [] s = "resolved"    -> {"assigned", "in_progress"}
               [] s = "closed"      -> {"resolved"}
               [] OTHER             -> {"submitted"}

\* Whatever the order in which calls read and write, a complaint has been
\* through what the workflow puts before each status it has had, and nobody was
\* assigned to it before it was verified.
ReachedInOrder ==
  \A c \in Complaint :
     /\ \A s \in held[c] : s # "submitted" => held[c] \cap Before(s) # {}
     /\ assignee[c] => "verified" \in held[c]

\* The public timeline, built from the responses, shows no status which the
\* complaint has not had.
TimelineTruthful == \A c \in Complaint : shown[c] \subseteq held[c]

\* A complaint is dated if and only if it is closed or rejected: the reports
\* count the closed ones by that date.
ClosedHasDate == \A c \in Complaint : closedAt[c] <=> status[c] \in {"closed", "rejected"}

\* With one call at a time, the service implements the workflow.
Workflow == INSTANCE ComplaintWorkflow
FollowsWorkflow == Workflow!Spec

\* A rejected complaint stays rejected, as its empty list of transitions says.
RejectedStays == [][\A c \in Complaint : status[c] = "rejected" => status'[c] = "rejected"]_vars

\* Under FairSpec, a reporter who left an address is told of each status that
\* lasts, also by a mail that is retried, unless the mail is lost in one of the
\* ways the code accepts: the audit row fails, the queue refuses the job, or the
\* last attempt fails.
ReporterInformed ==
  \A c \in WithEmail, s \in Status \ {"submitted"} :
     status[c] = s ~> (s \in inbox[c] \/ status[c] # s \/ <<c, s>> \in missed)
=============================================================================
