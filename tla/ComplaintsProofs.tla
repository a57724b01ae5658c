--------------------------- MODULE ComplaintsProofs ---------------------------
(***************************************************************************)
(* Proofs about Complaints: type correctness, the history of a complaint   *)
(* under every interleaving of calls, and the implementation of the        *)
(* workflow by calls that work on a complaint one at a time.  Proofs about *)
(* Attachments: what becomes of the files of complaints and their objects. *)
(***************************************************************************)
EXTENDS Complaints, Attachments, TLAPS

\* The answers that the page of the officials lets them send.
PageAnswers == AnswerFrom \subseteq {"assigned", "in_progress"}

-----------------------------------------------------------------------------
(* Types.                                                                  *)

LEMMA ActiveCall ==
  ASSUME TypeOK, NEW k \in Calls, call[k] # Idle
  PROVE  call[k] \in Active
BY DEF TypeOK

LEMMA IdlePc ==
  ASSUME TypeOK, NEW k \in Calls, call[k].pc \in {"write", "audit", "notify"}
  PROVE  call[k] \in Active
BY DEF TypeOK, Idle

LEMMA TransitionsType == ASSUME NEW s PROVE Transitions(s) \subseteq Status
BY DEF Transitions, Status

LEMMA BeginType ==
  ASSUME TypeOK, NEW k \in Calls, NEW c \in Complaint,
         NEW op \in {"status", "assign", "answer"}, NEW to \in Status,
         NEW note \in Status \cup {NoNote}, Begin(k, op, c, to, note)
  PROVE  TypeOK'
<1>1. status[c] \in Status
  BY DEF TypeOK, Begin
<1>2. [pc |-> "write", op |-> op, of |-> c, from |-> status[c], to |-> to, note |-> note]
        \in Active
  BY <1>1 DEF Active
<1>3. call' \in [Calls -> Active \cup {Idle}]
  BY <1>2 DEF TypeOK, Begin
<1>q. QED
  BY <1>3 DEF TypeOK, Begin, rowVars, mailVars

LEMMA RaiseType ==
  ASSUME NEW w \in Active, NEW p \in {"write", "audit", "notify"}
  PROVE  [w EXCEPT !.pc = p] \in Active
BY DEF Active

LEMMA TypeStep == ASSUME TypeOK, [Next]_vars PROVE TypeOK'
<1> USE ComplaintsAssumption
<1>1. ASSUME NEW c \in Complaint, Submit(c) PROVE TypeOK'
  BY <1>1 DEF TypeOK, Submit, mailVars, Status
<1>2. ASSUME NEW k \in Calls, NEW c \in Complaint, NEW to \in Status,
             NEW note \in Status \cup {NoNote}, BeginUpdateStatus(k, c, to, note)
      PROVE  TypeOK'
  BY <1>2, BeginType DEF BeginUpdateStatus
<1>3. ASSUME NEW k \in Calls, NEW c \in Complaint, BeginAssign(k, c) PROVE TypeOK'
  BY <1>3, BeginType DEF BeginAssign, Status
<1>4. ASSUME NEW k \in Calls, NEW c \in Complaint,
             NEW note \in {"in_progress", "resolved"}, BeginAnswer(k, c, note)
      PROVE  TypeOK'
  <2>1. status[c] \in Status
    BY <1>4 DEF BeginAnswer, Begin, TypeOK
  <2>2. Answered(status[c], note) \in Status
    BY <2>1 DEF Answered, Status
  <2>3. note \in Status \cup {NoNote}
    BY DEF Status
  <2>q. QED
    BY <1>4, <2>2, <2>3, BeginType DEF BeginAnswer
<1>5. ASSUME NEW k \in Calls, Write(k) PROVE TypeOK'
  <2> DEFINE w == call[k]
  <2>1. w \in Active
    BY <1>5, IdlePc DEF Write
  <2>2. /\ w.of \in Complaint /\ w.to \in Status
        /\ w.note \in Status \cup {NoNote} /\ w.op \in {"status", "assign", "answer"}
    BY <2>1 DEF Active
  <2>3. Dated(w) \in BOOLEAN
    BY <2>2 DEF TypeOK, Dated
  <2>4. call' \in [Calls -> Active \cup {Idle}]
    <3>1. [w EXCEPT !.pc = "audit"] \in Active
      BY <2>1, RaiseType
    <3>q. QED
      BY <1>5, <3>1 DEF Write, TypeOK
  <2>5. /\ status' \in [Complaint -> Status \cup {"none"}]
        /\ held' \in [Complaint -> SUBSET Status]
        /\ shown' \in [Complaint -> SUBSET Status]
    BY <1>5, <2>2 DEF Write, TypeOK
  <2>6. closedAt' \in [Complaint -> BOOLEAN]
    BY <1>5, <2>2, <2>3 DEF Write, TypeOK
  <2>7. assignee' \in [Complaint -> BOOLEAN]
    <3>1. (assignee[w.of] \/ w.op = "assign") \in BOOLEAN
      BY Zenon
    <3>q. QED
      BY <1>5, <2>2, <3>1 DEF Write, TypeOK
  <2>q. QED
    BY <1>5, <2>4, <2>5, <2>6, <2>7 DEF Write, TypeOK, mailVars
<1>6. ASSUME NEW k \in Calls, WriteFails(k) \/ AuditFails(k) PROVE TypeOK'
  <2>1. CASE WriteFails(k)
    BY <2>1 DEF WriteFails, TypeOK, rowVars, mailVars
  <2>2. CASE AuditFails(k)
    <3>1. missed' \subseteq Complaint \X Status
      BY <2>2, IdlePc DEF AuditFails, Active, TypeOK
    <3>q. QED
      BY <2>2, <3>1 DEF AuditFails, TypeOK, rowVars
  <2>q. QED
    BY <1>6, <2>1, <2>2
<1>7. ASSUME NEW k \in Calls, Audit(k) PROVE TypeOK'
  <2>1. call[k] \in Active
    BY <1>7, IdlePc DEF Audit
  <2>2. [call[k] EXCEPT !.pc = "notify"] \in Active
    BY <2>1, RaiseType
  <2>q. QED
    BY <1>7, <2>2 DEF Audit, TypeOK, rowVars, mailVars
<1>8. ASSUME NEW k \in Calls, Notify(k) PROVE TypeOK'
  <2>1. call[k] \in Active
    BY <1>8, IdlePc DEF Notify
  <2>2. MailOf(call[k]) \in Mail
    BY <2>1 DEF Active, Mail, MailOf
  <2>3. mails' \in Seq(Mail)
    <3>1. mails' = mails \/ mails' = Append(mails, MailOf(call[k]))
      BY <1>8 DEF Notify
    <3>2. mails \in Seq(Mail)
      BY DEF TypeOK
    <3>q. QED
      BY <2>2, <3>1, <3>2
  <2>4. call' \in [Calls -> Active \cup {Idle}]
    BY <1>8 DEF Notify, TypeOK
  <2>5. missed' \subseteq Complaint \X Status
    BY <1>8, <2>1 DEF Notify, Active, TypeOK
  <2>q. QED
    BY <1>8, <2>3, <2>4, <2>5 DEF Notify, TypeOK, rowVars
<1>9. ASSUME SendMail PROVE TypeOK'
  <2>1. Head(mails) \in Mail /\ Tail(mails) \in Seq(Mail)
    BY <1>9 DEF SendMail, TypeOK
  <2>2. Head(mails).to \in Status
    BY <2>1 DEF Mail
  <2>3. inbox' \in [Complaint -> SUBSET Status]
    BY <1>9, <2>2 DEF SendMail, TypeOK
  <2>q. QED
    BY <1>9, <2>1, <2>3 DEF SendMail, TypeOK, rowVars
<1>10. ASSUME MailFails PROVE TypeOK'
  <2>1. Head(mails) \in Mail /\ Tail(mails) \in Seq(Mail)
    BY <1>10 DEF MailFails, TypeOK
  <2>2. Head(mails).attempt < MaxAttempts
          => [Head(mails) EXCEPT !.attempt = @ + 1] \in Mail
    BY <2>1 DEF Mail
  <2>3. delayed' \subseteq Mail
    BY <1>10, <2>2 DEF MailFails, TypeOK
  <2>4. missed' \subseteq Complaint \X Status
    BY <1>10, <2>1 DEF MailFails, Mail, TypeOK
  <2>q. QED
    BY <1>10, <2>1, <2>3, <2>4 DEF MailFails, TypeOK, rowVars
<1>11. ASSUME NEW m \in delayed, RetryMail(m) PROVE TypeOK'
  BY <1>11 DEF RetryMail, TypeOK, rowVars
<1>12. ASSUME UNCHANGED vars PROVE TypeOK'
  BY <1>12 DEF vars, rowVars, mailVars, TypeOK
<1>q. QED
  BY <1>1, <1>2, <1>3, <1>4, <1>5, <1>6, <1>7, <1>8, <1>9, <1>10, <1>11, <1>12 DEF Next, Step

\* Type correctness: in particular, every status that a call computes from what
\* it has read is one of the workflow.
THEOREM TypeCorrect == Spec => []TypeOK
<1>1. Init => TypeOK
  BY DEF Init, TypeOK, Status
<1>q. QED
  BY <1>1, TypeStep, PTL DEF Spec

-----------------------------------------------------------------------------
(* The history of a complaint.  A call that is about to write knows that   *)
(* what the workflow puts before its status has been reached: it has read   *)
(* it, and a history only grows.                                            *)

Reached(w, h) ==
  /\ w.from \in h
  /\ w.to \in h \/ h \cap Before(w.to) # {}
  /\ w.op = "assign" => "verified" \in h
  /\ w.note \in {NoNote, w.to} \cup h

HistoryInv ==
  /\ ReachedInOrder
  /\ TimelineTruthful
  /\ \A c \in Complaint : status[c] # "none" => status[c] \in held[c] /\ "submitted" \in held[c]
  /\ \A k \in Calls : call[k].pc = "write" => Reached(call[k], held[call[k].of])

LEMMA ReachedGrows ==
  ASSUME NEW w, NEW h, NEW g, h \subseteq g, Reached(w, h)
  PROVE  Reached(w, g)
BY DEF Reached

\* A call's step that leaves the rows alone.
LEMMA HistoryKept ==
  ASSUME HistoryInv, UNCHANGED rowVars,
         \A k \in Calls : call'[k].pc = "write" => Reached(call'[k], held[call'[k].of])
  PROVE  HistoryInv'
BY DEF HistoryInv, ReachedInOrder, TimelineTruthful, rowVars

LEMMA HistoryBegins ==
  ASSUME TypeOK, HistoryInv, NEW k \in Calls, NEW c \in Complaint, NEW op, NEW to, NEW note,
         Begin(k, op, c, to, note),
         to = status[c] \/ status[c] \in Before(to) \/ to = "rejected",
         op = "assign" => "verified" \in held[c],
         note \in {NoNote, to}
  PROVE  HistoryInv'
<1> DEFINE w == [pc |-> "write", op |-> op, of |-> c, from |-> status[c], to |-> to, note |-> note]
<1>1. status[c] \in held[c] /\ "submitted" \in held[c]
  BY DEF Begin, HistoryInv
<1>2. "submitted" \in Before("rejected")
  BY DEF Before
<1>3. Reached(w, held[c])
  BY <1>1, <1>2 DEF Reached
<1>4. \A j \in Calls : call'[j].pc = "write" => Reached(call'[j], held[call'[j].of])
  <2> TAKE j \in Calls
  <2>1. CASE j = k
    BY <2>1, <1>3 DEF Begin, TypeOK
  <2>2. CASE j # k
    BY <2>2 DEF Begin, TypeOK, HistoryInv
  <2>q. QED
    BY <2>1, <2>2
<1>q. QED
  BY <1>4, HistoryKept DEF Begin

LEMMA HistoryWritten ==
  ASSUME TypeOK, HistoryInv, NEW k \in Calls, Write(k)
  PROVE  HistoryInv'
<1> DEFINE w == call[k]
<1> DEFINE c == w.of
<1>1. w \in Active
  BY IdlePc DEF Write
<1>2. c \in Complaint /\ w.to \in Status /\ w.note \in Status \cup {NoNote}
  BY <1>1 DEF Active
<1>3. Reached(w, held[c])
  BY DEF HistoryInv, Write
<1>4. /\ held' = [held EXCEPT ![c] = @ \cup {w.to}]
      /\ shown' = [shown EXCEPT ![c] = @ \cup ({w.note} \ {NoNote})]
      /\ status' = [status EXCEPT ![c] = w.to]
      /\ assignee' = [assignee EXCEPT ![c] = @ \/ w.op = "assign"]
  BY DEF Write
<1>5. \A d \in Complaint : held[d] \subseteq held'[d]
  BY <1>2, <1>4 DEF TypeOK
<1>6. held'[c] = held[c] \cup {w.to}
  BY <1>2, <1>4 DEF TypeOK
<1>7. ReachedInOrder'
  <2> SUFFICES ASSUME NEW d \in Complaint
               PROVE  /\ \A s \in held'[d] : s # "submitted" => held'[d] \cap Before(s) # {}
                      /\ assignee'[d] => "verified" \in held'[d]
    BY DEF ReachedInOrder, Before
  <2>1. CASE d # c
    BY <2>1, <1>2, <1>4 DEF HistoryInv, ReachedInOrder, TypeOK
  <2>2. CASE d = c
    <3>1. \A s \in held[c] : s # "submitted" => held[c] \cap Before(s) # {}
      BY <1>2 DEF HistoryInv, ReachedInOrder
    <3>2. w.to \in held[c] \/ held[c] \cap Before(w.to) # {}
      BY <1>3 DEF Reached
    <3>3. \A s \in held'[c] : s # "submitted" => held'[c] \cap Before(s) # {}
      BY <3>1, <3>2, <1>6
    <3>4. assignee'[c] => assignee[c] \/ w.op = "assign"
      <4>1. assignee'[c] = (assignee[c] \/ w.op = "assign")
        BY <1>2, <1>4 DEF TypeOK
      <4>q. QED
        BY <4>1, Zenon
    <3>5. (assignee[c] \/ w.op = "assign") => "verified" \in held[c]
      BY <1>2, <1>3 DEF HistoryInv, ReachedInOrder, Reached
    <3>q. QED
      BY <2>2, <3>3, <3>4, <3>5, <1>6
  <2>q. QED
    BY <2>1, <2>2
<1>8. TimelineTruthful'
  <2> SUFFICES ASSUME NEW d \in Complaint PROVE shown'[d] \subseteq held'[d]
    BY DEF TimelineTruthful
  <2>1. CASE d # c
    BY <2>1, <1>2, <1>4 DEF HistoryInv, TimelineTruthful, TypeOK
  <2>2. CASE d = c
    <3>1. shown'[c] = shown[c] \cup ({w.note} \ {NoNote})
      BY <1>2, <1>4 DEF TypeOK
    <3>2. shown[c] \subseteq held[c]
      BY <1>2 DEF HistoryInv, TimelineTruthful
    <3>3. w.note \in {NoNote, w.to} \cup held[c]
      BY <1>3 DEF Reached
    <3>q. QED
      BY <2>2, <3>1, <3>2, <3>3, <1>6
  <2>q. QED
    BY <2>1, <2>2
<1>9. \A d \in Complaint : status'[d] # "none" => status'[d] \in held'[d] /\ "submitted" \in held'[d]
  <2> TAKE d \in Complaint
  <2>1. CASE d # c
    BY <2>1, <1>2, <1>4 DEF HistoryInv, TypeOK
  <2>2. CASE d = c
    <3>1. "submitted" \in held[c]
      <4>1. \A s \in held[c] : s # "submitted" => held[c] \cap Before(s) # {}
        BY <1>2 DEF HistoryInv, ReachedInOrder
      <4>2. held[c] # {}
        BY <1>3 DEF Reached
      <4>q. QED
        BY <4>1, <4>2 DEF Before
    <3>q. QED
      BY <2>2, <3>1, <1>2, <1>4, <1>6 DEF TypeOK
  <2>q. QED
    BY <2>1, <2>2
<1>10. \A j \in Calls : call'[j].pc = "write" => Reached(call'[j], held'[call'[j].of])
  <2> SUFFICES ASSUME NEW j \in Calls, call'[j].pc = "write"
               PROVE  Reached(call'[j], held'[call'[j].of])
    OBVIOUS
  <2>1. j # k
    BY <1>1 DEF Write, TypeOK, Active
  <2>2. call'[j] = call[j]
    BY <2>1 DEF Write, TypeOK
  <2>3. call[j] \in Active
    BY <2>2, IdlePc
  <2>4. Reached(call[j], held[call[j].of])
    BY <2>2 DEF HistoryInv
  <2>5. call[j].of \in Complaint
    BY <2>3 DEF Active
  <2>q. QED
    BY <2>2, <2>4, <2>5, <1>5, ReachedGrows
<1>q. QED
  BY <1>7, <1>8, <1>9, <1>10 DEF HistoryInv

LEMMA HistoryStep ==
  ASSUME TypeOK, HistoryInv, PageAnswers, [Next]_vars
  PROVE  HistoryInv'
<1>1. ASSUME NEW c \in Complaint, Submit(c) PROVE HistoryInv'
  <2>1. \A d \in Complaint : held[d] \subseteq held'[d]
    BY <1>1 DEF Submit, TypeOK
  <2>2. ReachedInOrder'
    <3> SUFFICES ASSUME NEW d \in Complaint
                 PROVE  /\ \A s \in held'[d] : s # "submitted" => held'[d] \cap Before(s) # {}
                        /\ assignee'[d] => "verified" \in held'[d]
      BY DEF ReachedInOrder, Before
    <3>1. held'[d] \subseteq held[d] \cup {"submitted"} /\ assignee'[d] = assignee[d]
      BY <1>1 DEF Submit, TypeOK
    <3>q. QED
      BY <3>1, <2>1 DEF HistoryInv, ReachedInOrder
  <2>3. TimelineTruthful'
    BY <1>1, <2>1 DEF Submit, HistoryInv, TimelineTruthful
  <2>4. \A d \in Complaint : status'[d] # "none" => status'[d] \in held'[d] /\ "submitted" \in held'[d]
    BY <1>1 DEF Submit, HistoryInv, TypeOK
  <2>5. \A j \in Calls : call'[j].pc = "write" => Reached(call'[j], held'[call'[j].of])
    <3> SUFFICES ASSUME NEW j \in Calls, call'[j].pc = "write"
                 PROVE  Reached(call'[j], held'[call'[j].of])
      OBVIOUS
    <3>1. call' = call
      BY <1>1 DEF Submit
    <3>2. call[j] \in Active
      BY <3>1, IdlePc
    <3>3. call[j].of \in Complaint /\ Reached(call[j], held[call[j].of])
      BY <3>1, <3>2 DEF Active, HistoryInv
    <3>q. QED
      BY <3>1, <3>3, <2>1, ReachedGrows
  <2>q. QED
    BY <2>2, <2>3, <2>4, <2>5 DEF HistoryInv
<1>2. ASSUME NEW k \in Calls, NEW c \in Complaint, NEW to \in Status,
             NEW note \in Status \cup {NoNote}, BeginUpdateStatus(k, c, to, note)
      PROVE  HistoryInv'
  <2>1. status[c] \in Before(to) \/ to = "rejected"
    BY <1>2 DEF BeginUpdateStatus, Transitions, Before
  <2>q. QED
    BY <1>2, <2>1, HistoryBegins DEF BeginUpdateStatus
<1>3. ASSUME NEW k \in Calls, NEW c \in Complaint, BeginAssign(k, c) PROVE HistoryInv'
  <2>1. status[c] \in held[c]
    BY <1>3 DEF BeginAssign, HistoryInv
  <2>2. \A s \in held[c] : s # "submitted" => held[c] \cap Before(s) # {}
    BY DEF HistoryInv, ReachedInOrder
  <2>3. "assigned" \in held[c] => "verified" \in held[c]
    BY <2>2 DEF Before
  <2>4. "in_progress" \in held[c] => "assigned" \in held[c]
    BY <2>2 DEF Before
  <2>5. "verified" \in held[c]
    BY <1>3, <2>1, <2>3, <2>4 DEF BeginAssign
  <2> DEFINE to == IF status[c] = "verified" THEN "assigned" ELSE status[c]
  <2>6. to = status[c] \/ status[c] \in Before(to)
    BY DEF Before
  <2>q. QED
    BY <1>3, <2>5, <2>6, HistoryBegins DEF BeginAssign
<1>4. ASSUME NEW k \in Calls, NEW c \in Complaint,
             NEW note \in {"in_progress", "resolved"}, BeginAnswer(k, c, note)
      PROVE  HistoryInv'
  <2>1. status[c] \in {"assigned", "in_progress"}
    BY <1>4 DEF BeginAnswer, PageAnswers
  <2> DEFINE to == Answered(status[c], note)
  <2>2. to = note
    BY <2>1 DEF Answered
  <2>3. to = status[c] \/ status[c] \in Before(to)
    BY <2>1, <2>2 DEF Before
  <2>q. QED
    BY <1>4, <2>2, <2>3, HistoryBegins DEF BeginAnswer
<1>5. ASSUME NEW k \in Calls, Write(k) PROVE HistoryInv'
  BY <1>5, HistoryWritten
<1>6. ASSUME NEW k \in Calls, WriteFails(k) \/ AuditFails(k) \/ Audit(k) \/ Notify(k)
      PROVE  HistoryInv'
  <2>1. \A j \in Calls : call'[j].pc = "write" => call'[j] = call[j]
    BY <1>6 DEF WriteFails, AuditFails, Audit, Notify, TypeOK, Idle, Active
  <2>q. QED
    BY <1>6, <2>1, HistoryKept DEF WriteFails, AuditFails, Audit, Notify, HistoryInv
<1>7. ASSUME SendMail \/ MailFails \/ (\E m \in delayed : RetryMail(m)) \/ UNCHANGED vars
      PROVE  HistoryInv'
  BY <1>7, HistoryKept DEF SendMail, MailFails, RetryMail, vars, HistoryInv
<1>q. QED
  BY <1>1, <1>2, <1>3, <1>4, <1>5, <1>6, <1>7 DEF Next, Step

LEMMA HistoryHolds == ASSUME PageAnswers PROVE Spec => []HistoryInv
<1>1. Init => HistoryInv
  BY DEF Init, HistoryInv, ReachedInOrder, TimelineTruthful, Idle
<1>2. TypeOK /\ HistoryInv /\ [Next]_vars => HistoryInv'
  BY HistoryStep
<1>q. QED
  BY <1>1, <1>2, TypeCorrect, PTL DEF Spec

\* Whatever the order in which any number of calls read and write, a complaint
\* has been through what the workflow puts before each status it has had.
THEOREM HistoryInOrder == ASSUME PageAnswers PROVE Spec => []ReachedInOrder
<1>1. HistoryInv => ReachedInOrder
  BY DEF HistoryInv
<1>q. QED
  BY <1>1, HistoryHolds, PTL

\* The timeline that a citizen sees names only statuses the complaint has had.
THEOREM TimelineIsTrue == ASSUME PageAnswers PROVE Spec => []TimelineTruthful
<1>1. HistoryInv => TimelineTruthful
  BY DEF HistoryInv
<1>q. QED
  BY <1>1, HistoryHolds, PTL

-----------------------------------------------------------------------------
(* The implementation of the workflow.  When one call at a time works on a  *)
(* complaint, the status that a call is about to overwrite is the one it    *)
(* has checked.                                                             *)

Allowed(from, to) ==
  \/ to = from
  \/ to \in Transitions(from)
  \/ from = "assigned" /\ to = "resolved"

FreshInv ==
  /\ \A j, k \in Calls : call[j] # Idle /\ call[k] # Idle /\ call[j].of = call[k].of => j = k
  /\ \A k \in Calls : call[k].pc = "write" =>
        /\ status[call[k].of] = call[k].from
        /\ Allowed(call[k].from, call[k].to)

LEMMA FreshBegins ==
  ASSUME TypeOK, FreshInv, Serialized, NEW k \in Calls, NEW c \in Complaint,
         NEW op, NEW to, NEW note, Begin(k, op, c, to, note), Allowed(status[c], to)
  PROVE  FreshInv'
<1> DEFINE w == [pc |-> "write", op |-> op, of |-> c, from |-> status[c], to |-> to, note |-> note]
<1>1. /\ call' = [call EXCEPT ![k] = w] /\ call[k] = Idle
      /\ \A j \in Calls : call[j] # Idle => call[j].of # c
      /\ status' = status
  BY DEF Begin, rowVars
<1>2. call'[k] = w /\ \A j \in Calls : j # k => call'[j] = call[j]
  BY <1>1 DEF TypeOK
<1>3. \A i, j \in Calls : call'[i] # Idle /\ call'[j] # Idle /\ call'[i].of = call'[j].of => i = j
  <2> SUFFICES ASSUME NEW i \in Calls, NEW j \in Calls, call'[i] # Idle, call'[j] # Idle,
                      call'[i].of = call'[j].of
               PROVE  i = j
    OBVIOUS
  <2>1. w.of = c
    OBVIOUS
  <2>q. QED
    BY <1>1, <1>2, <2>1 DEF FreshInv
<1>4. \A j \in Calls : call'[j].pc = "write" =>
        /\ status'[call'[j].of] = call'[j].from
        /\ Allowed(call'[j].from, call'[j].to)
  BY <1>1, <1>2 DEF FreshInv
<1>q. QED
  BY <1>3, <1>4 DEF FreshInv, Allowed

LEMMA FreshStep ==
  ASSUME TypeOK, FreshInv, Serialized, PageAnswers, [Next]_vars
  PROVE  FreshInv'
<1>1. ASSUME NEW c \in Complaint, Submit(c) PROVE FreshInv'
  <2>1. \A k \in Calls : call[k].pc = "write" => call[k].of # c
    BY <1>1, IdlePc DEF Submit, FreshInv, Active, Status
  <2>q. QED
    BY <1>1, <2>1, IdlePc DEF Submit, FreshInv, TypeOK, Active
<1>2. ASSUME NEW k \in Calls, NEW c \in Complaint, NEW to \in Status,
             NEW note \in Status \cup {NoNote}, BeginUpdateStatus(k, c, to, note)
      PROVE  FreshInv'
  BY <1>2, FreshBegins DEF BeginUpdateStatus, Allowed
<1>3. ASSUME NEW k \in Calls, NEW c \in Complaint, BeginAssign(k, c) PROVE FreshInv'
  <2> DEFINE to == IF status[c] = "verified" THEN "assigned" ELSE status[c]
  <2>1. Allowed(status[c], to)
    BY DEF Allowed, Transitions
  <2>q. QED
    BY <1>3, <2>1, FreshBegins DEF BeginAssign
<1>4. ASSUME NEW k \in Calls, NEW c \in Complaint,
             NEW note \in {"in_progress", "resolved"}, BeginAnswer(k, c, note)
      PROVE  FreshInv'
  <2>1. status[c] \in {"assigned", "in_progress"}
    BY <1>4 DEF BeginAnswer, PageAnswers
  <2>2. Allowed(status[c], Answered(status[c], note))
    BY <2>1 DEF Allowed, Answered, Transitions
  <2>q. QED
    BY <1>4, <2>2, FreshBegins DEF BeginAnswer
<1>5. ASSUME NEW k \in Calls, Write(k) PROVE FreshInv'
  <2>1. call[k] \in Active /\ call[k] # Idle
    BY <1>5, IdlePc DEF Write, Idle
  <2>2. call'[k].of = call[k].of /\ call'[k].pc = "audit"
    BY <1>5, <2>1 DEF Write, TypeOK, Active
  <2>3. \A j \in Calls : j # k => call'[j] = call[j]
    BY <1>5 DEF Write, TypeOK
  <2>4. \A j \in Calls : j # k /\ call[j] # Idle => call[j].of # call[k].of
    BY <2>1 DEF FreshInv
  <2>5. \A j \in Calls : j # k /\ call[j].pc = "write" => status'[call[j].of] = status[call[j].of]
    <3> SUFFICES ASSUME NEW j \in Calls, j # k, call[j].pc = "write"
                 PROVE  status'[call[j].of] = status[call[j].of]
      OBVIOUS
    <3>1. call[j] \in Active /\ call[j] # Idle
      BY IdlePc DEF Idle
    <3>2. call[j].of \in Complaint /\ call[j].of # call[k].of
      BY <3>1, <2>4 DEF Active
    <3>q. QED
      BY <1>5, <3>2 DEF Write, TypeOK
  <2>6. \A i, j \in Calls : call'[i] # Idle /\ call'[j] # Idle /\ call'[i].of = call'[j].of => i = j
    BY <2>1, <2>2, <2>3, <2>4 DEF FreshInv
  <2>7. \A j \in Calls : call'[j].pc = "write" =>
          /\ status'[call'[j].of] = call'[j].from
          /\ Allowed(call'[j].from, call'[j].to)
    BY <2>2, <2>3, <2>5 DEF FreshInv
  <2>q. QED
    BY <2>6, <2>7 DEF FreshInv, Allowed
<1>6. ASSUME NEW k \in Calls, WriteFails(k) \/ AuditFails(k) \/ Notify(k) PROVE FreshInv'
  <2>1. /\ status' = status /\ call'[k] = Idle
        /\ \A j \in Calls : j # k => call'[j] = call[j]
    BY <1>6 DEF WriteFails, AuditFails, Notify, rowVars, TypeOK
  <2>q. QED
    BY <2>1 DEF FreshInv, Idle
<1>7. ASSUME NEW k \in Calls, Audit(k) PROVE FreshInv'
  <2>1. call[k] \in Active /\ call[k] # Idle
    BY <1>7, IdlePc DEF Audit, Idle
  <2>2. call'[k].of = call[k].of /\ call'[k].pc = "notify"
    BY <1>7, <2>1 DEF Audit, TypeOK, Active
  <2>3. status' = status /\ \A j \in Calls : j # k => call'[j] = call[j]
    BY <1>7 DEF Audit, rowVars, TypeOK
  <2>q. QED
    BY <2>1, <2>2, <2>3 DEF FreshInv
<1>8. ASSUME SendMail \/ MailFails \/ (\E m \in delayed : RetryMail(m)) \/ UNCHANGED vars
      PROVE  FreshInv'
  BY <1>8 DEF SendMail, MailFails, RetryMail, vars, rowVars, FreshInv
<1>q. QED
  BY <1>1, <1>2, <1>3, <1>4, <1>5, <1>6, <1>7, <1>8 DEF Next, Step

LEMMA WriteMoves ==
  ASSUME TypeOK, FreshInv, NEW k \in Calls, Write(k)
  PROVE  [Workflow!Next]_status
<1> DEFINE w == call[k]
<1>1. w.of \in Complaint /\ status[w.of] = w.from /\ Allowed(w.from, w.to)
  BY IdlePc DEF Write, Active, FreshInv
<1>2. status' = [status EXCEPT ![w.of] = w.to]
  BY DEF Write
<1>3. CASE w.to = w.from
  BY <1>1, <1>2, <1>3 DEF TypeOK
<1>4. CASE w.to # w.from
  <2>1. \/ w.from = "submitted" /\ w.to = "verified"
        \/ w.from = "verified" /\ w.to = "assigned"
        \/ w.from = "assigned" /\ w.to = "in_progress"
        \/ w.from \in {"assigned", "in_progress"} /\ w.to = "resolved"
        \/ w.from = "resolved" /\ w.to = "closed"
        \/ w.from \in Workflow!Open /\ w.to = "rejected"
    BY <1>1, <1>4 DEF Allowed, Transitions, Workflow!Open
  <2>2. \/ Workflow!Verify(w.of) \/ Workflow!Assign(w.of) \/ Workflow!Start(w.of)
        \/ Workflow!Resolve(w.of) \/ Workflow!Close(w.of) \/ Workflow!Reject(w.of)
    BY <1>1, <1>2, <2>1 DEF Workflow!Move, Workflow!Verify, Workflow!Assign, Workflow!Start,
                            Workflow!Resolve, Workflow!Close, Workflow!Reject
  <2>q. QED
    BY <1>1, <2>2 DEF Workflow!Next
<1>q. QED
  BY <1>3, <1>4

LEMMA StepMoves ==
  ASSUME TypeOK, FreshInv, [Next]_vars
  PROVE  [Workflow!Next]_status
<1>1. ASSUME NEW c \in Complaint, Submit(c) PROVE [Workflow!Next]_status
  BY <1>1 DEF Submit, Workflow!Next, Workflow!Submit, Workflow!Move
<1>2. ASSUME NEW k \in Calls, NEW c \in Complaint,
             \/ \E to \in Status, note \in Status \cup {NoNote} : BeginUpdateStatus(k, c, to, note)
             \/ BeginAssign(k, c)
             \/ \E note \in {"in_progress", "resolved"} : BeginAnswer(k, c, note)
      PROVE  status' = status
  BY <1>2 DEF BeginUpdateStatus, BeginAssign, BeginAnswer, Begin, rowVars
<1>3. ASSUME NEW k \in Calls, Audit(k) \/ Notify(k) \/ WriteFails(k) \/ AuditFails(k)
      PROVE  status' = status
  BY <1>3 DEF Audit, Notify, WriteFails, AuditFails, rowVars
<1>4. ASSUME SendMail \/ MailFails \/ (\E m \in delayed : RetryMail(m)) \/ UNCHANGED vars
      PROVE  status' = status
  BY <1>4 DEF SendMail, MailFails, RetryMail, vars, rowVars
<1>q. QED
  BY <1>1, <1>2, <1>3, <1>4, WriteMoves DEF Next, Step

\* When the officials' calls on a complaint follow one another, and answers are
\* sent from the page, the service implements the workflow of a complaint.
THEOREM ImplementsWorkflow ==
  ASSUME Serialized, PageAnswers
  PROVE  Spec => FollowsWorkflow
<1>1. Init => FreshInv /\ Workflow!Init
  BY DEF Init, FreshInv, Idle, Workflow!Init
<1>2. TypeOK /\ FreshInv /\ [Next]_vars => FreshInv'
  BY FreshStep
<1>3. TypeOK /\ FreshInv /\ [Next]_vars => [Workflow!Next]_status
  BY StepMoves
<1>q. QED
  BY <1>1, <1>2, <1>3, TypeCorrect, PTL DEF Spec, FollowsWorkflow, Workflow!Spec
-----------------------------------------------------------------------------
(* The date of a closed complaint.  A call only writes a complaint that is   *)
(* open, and then has no date; only updateStatus closes or rejects it, and   *)
(* it sets the date in the same write.                                       *)

Ended == {"closed", "rejected"}
DateInv ==
  /\ ClosedHasDate
  /\ \A k \in Calls : call[k].pc = "write" =>
        /\ call[k].from \notin Ended
        /\ call[k].op # "status" => call[k].to \notin Ended

LEMMA DateBegins ==
  ASSUME TypeOK, DateInv, NEW k \in Calls, NEW c \in Complaint,
         NEW op, NEW to, NEW note, Begin(k, op, c, to, note),
         status[c] \notin Ended, op # "status" => to \notin Ended
  PROVE  DateInv'
<1> DEFINE w == [pc |-> "write", op |-> op, of |-> c, from |-> status[c], to |-> to, note |-> note]
<1>1. /\ call'[k] = w /\ \A j \in Calls : j # k => call'[j] = call[j]
      /\ UNCHANGED <<status, closedAt>>
  BY DEF Begin, TypeOK, rowVars
<1>2. ASSUME NEW j \in Calls, call'[j].pc = "write"
      PROVE  /\ call'[j].from \notin Ended
             /\ call'[j].op # "status" => call'[j].to \notin Ended
  <2>1. CASE j = k
    BY <1>1, <2>1
  <2>2. CASE j # k
    BY <1>1, <1>2, <2>2 DEF DateInv
  <2>q. QED
    BY <2>1, <2>2
<1>q. QED
  BY <1>1, <1>2 DEF DateInv, ClosedHasDate, Ended

LEMMA DateWrite ==
  ASSUME TypeOK, FreshInv, DateInv, NEW k \in Calls, Write(k)
  PROVE  DateInv'
<1> DEFINE w == call[k]
<1>1. /\ w \in Active /\ w.of \in Complaint /\ status[w.of] = w.from
      /\ w.from \notin Ended /\ (w.op # "status" => w.to \notin Ended)
  BY IdlePc DEF Write, Active, FreshInv, DateInv
<1>2. closedAt[w.of] = FALSE
  BY <1>1 DEF DateInv, ClosedHasDate, Ended, TypeOK
<1>3. Dated(w) <=> w.to \in Ended
  <2>1. w.op = "answer" => w.to \notin Ended
    BY <1>1
  <2>q. QED
    BY <1>1, <1>2, <2>1 DEF Dated, Ended
<1>4. ASSUME NEW c \in Complaint PROVE closedAt'[c] <=> status'[c] \in Ended
  <2>1. CASE c = w.of
    BY <1>3, <2>1 DEF Write, TypeOK
  <2>2. CASE c # w.of
    <3>1. closedAt'[c] = closedAt[c] /\ status'[c] = status[c]
      BY <2>2 DEF Write, TypeOK
    <3>q. QED
      BY <3>1 DEF DateInv, ClosedHasDate, Ended
  <2>q. QED
    BY <2>1, <2>2
<1>5. /\ call'[k].pc = "audit"
      /\ \A j \in Calls : j # k => call'[j] = call[j]
  BY <1>1 DEF Write, TypeOK, Active
<1>q. QED
  BY <1>4, <1>5 DEF DateInv, ClosedHasDate, Ended

LEMMA DateStep ==
  ASSUME TypeOK, FreshInv, DateInv, PageAnswers, [Next]_vars
  PROVE  DateInv'
<1>1. ASSUME NEW c \in Complaint, Submit(c) PROVE DateInv'
  <2>1. \A b \in Complaint : status'[b] = IF b = c THEN "submitted" ELSE status[b]
    BY <1>1 DEF Submit, TypeOK
  <2>2. closedAt[c] = FALSE
    BY <1>1 DEF Submit, DateInv, ClosedHasDate, TypeOK
  <2>q. QED
    BY <1>1, <2>1, <2>2 DEF Submit, DateInv, ClosedHasDate
<1>2. ASSUME NEW k \in Calls, NEW c \in Complaint, NEW to \in Status,
             NEW note \in Status \cup {NoNote}, BeginUpdateStatus(k, c, to, note)
      PROVE  DateInv'
  <2>1. status[c] \notin Ended
    BY <1>2 DEF BeginUpdateStatus, Transitions, Ended
  <2>q. QED
    BY <1>2, <2>1, DateBegins DEF BeginUpdateStatus
<1>3. ASSUME NEW k \in Calls, NEW c \in Complaint, BeginAssign(k, c) PROVE DateInv'
  <2> DEFINE to == IF status[c] = "verified" THEN "assigned" ELSE status[c]
  <2>1. status[c] \notin Ended /\ to \notin Ended
    BY <1>3 DEF BeginAssign, Ended
  <2>q. QED
    BY <1>3, <2>1, DateBegins DEF BeginAssign
<1>4. ASSUME NEW k \in Calls, NEW c \in Complaint,
             NEW note \in {"in_progress", "resolved"}, BeginAnswer(k, c, note)
      PROVE  DateInv'
  <2>1. status[c] \notin Ended /\ Answered(status[c], note) \notin Ended
    BY <1>4 DEF BeginAnswer, PageAnswers, Answered, Ended
  <2>q. QED
    BY <1>4, <2>1, DateBegins DEF BeginAnswer
<1>5. ASSUME NEW k \in Calls, Write(k) PROVE DateInv'
  BY <1>5, DateWrite
<1>6. ASSUME NEW k \in Calls, WriteFails(k) \/ AuditFails(k) \/ Audit(k) \/ Notify(k)
      PROVE  DateInv'
  <2>1. UNCHANGED <<status, closedAt>> /\ \A j \in Calls : j # k => call'[j] = call[j]
    BY <1>6 DEF WriteFails, AuditFails, Audit, Notify, rowVars, TypeOK
  <2>2. call'[k].pc # "write"
    BY <1>6, IdlePc DEF WriteFails, AuditFails, Audit, Notify, TypeOK, Active, Idle
  <2>q. QED
    BY <2>1, <2>2 DEF DateInv, ClosedHasDate
<1>7. ASSUME SendMail \/ MailFails \/ (\E m \in delayed : RetryMail(m)) \/ UNCHANGED vars
      PROVE  DateInv'
  BY <1>7 DEF SendMail, MailFails, RetryMail, vars, rowVars, DateInv, ClosedHasDate
<1>q. QED
  BY <1>1, <1>2, <1>3, <1>4, <1>5, <1>6, <1>7 DEF Next, Step

\* Under the same assumptions a complaint has a closing date exactly when it is
\* closed or rejected, also when calls fail between their steps.
THEOREM EndedIsDated ==
  ASSUME Serialized, PageAnswers
  PROVE  Spec => []ClosedHasDate
<1>1. Init => FreshInv /\ DateInv
  BY DEF Init, FreshInv, DateInv, ClosedHasDate, Idle
<1>2. TypeOK /\ FreshInv /\ [Next]_vars => FreshInv'
  BY FreshStep
<1>3. TypeOK /\ FreshInv /\ DateInv /\ [Next]_vars => DateInv'
  BY DateStep
<1>4. DateInv => ClosedHasDate
  BY DEF DateInv
<1>q. QED
  BY <1>1, <1>2, <1>3, <1>4, TypeCorrect, PTL DEF Spec

-----------------------------------------------------------------------------
(* Files and objects, for any files, callers and complaints.               *)

UploadType == [step : {"idle", "purge", "drop", "insert"}, for : {Nobody, Staff},
               stale : SUBSET Files, file : Files \cup {Nobody}]
ReportType == [step : {"none", "open", "checked", "linked", "filed", "refused"},
               files : SUBSET Files, saw : SUBSET Files]

\* Types of what a purge, an upload and a complaint carry from step to step.
TypeInv ==
  /\ objects \subseteq Files /\ meta \in [Files -> {"none", "live", "gone"}]
  /\ holder \in [Files -> {Nobody, Staff} \cup Reports]
  /\ job \in [Files -> {"none", "queued", "done", "failed"}]
  /\ upload \in [Uploaders -> UploadType] /\ report \in [Reports -> ReportType]
  /\ erasing \subseteq Files /\ unqueued \subseteq Files /\ abandoned \subseteq Files
  /\ swept \subseteq Files /\ erased \subseteq Files /\ contested \subseteq Files

\* The object of f is deleted, or somebody knows that it is to be.
Cleared(f) == f \notin objects \/ job[f] \in {"queued", "failed"} \/ f \in unqueued

\* A cleanup is of a row that a purge has read or the staff has removed.
JobInv == \A f \in Files :
  /\ job[f] # "none" => meta[f] # "none" /\ f \in swept \cup erased
  /\ job[f] = "done" => f \notin objects
  /\ f \in swept => meta[f] # "none"
  /\ f \in erased => meta[f] = "gone"
  /\ f \in erasing => f \in erased
\* What an upload is about to write or to delete.
UploadInv ==
  /\ \A u \in Uploaders :
       /\ upload[u].stale \subseteq swept
       /\ upload[u].step = "drop" => upload[u].file \in swept /\ Cleared(upload[u].file)
       /\ upload[u].step = "insert" =>
            upload[u].file \in objects /\ meta[upload[u].file] = "none"
  /\ \A u, v \in Uploaders :
       upload[u].step = "insert" /\ upload[v].step = "insert" /\ upload[u].file = upload[v].file => u = v
\* A live row has its object, a deleted one has lost it or is being followed up.
ObjectInv == \A f \in Files :
  /\ meta[f] = "live" => f \in objects \cup swept
  /\ meta[f] = "gone" => f \in swept \cup erased /\ (Cleared(f) \/ f \in erasing \cup abandoned)
\* From its link on a complaint has its files, or one of the three cases took them.
Kept(r, f) == \/ meta[f] = "live" /\ holder[f] = r /\ f \in objects
              \/ f \in swept \cup contested \cup erased
ReportInv == \A r \in Reports :
  /\ \A f \in report[r].files : meta[f] # "none"
  /\ report[r].step \in {"checked", "linked", "filed"} => report[r].saw = report[r].files
  /\ report[r].step \in {"linked", "filed"} => \A f \in report[r].files : Kept(r, f)
FilesInv == TypeInv /\ JobInv /\ UploadInv /\ ObjectInv /\ ReportInv

LEMMA FilesBegin == FilesInit => FilesInv
<1> SUFFICES ASSUME FilesInit PROVE FilesInv
  OBVIOUS
<1>1. NoUpload \in UploadType /\ NoReport \in ReportType
  BY DEF NoUpload, NoReport, UploadType, ReportType
<1>2. TypeInv
  BY <1>1 DEF FilesInit, TypeInv
<1>3. JobInv /\ UploadInv /\ ObjectInv /\ ReportInv
  BY DEF FilesInit, NoUpload, NoReport, JobInv, UploadInv, ObjectInv, ReportInv
<1> QED BY <1>2, <1>3 DEF FilesInv

LEMMA PurgeReads ==
  ASSUME FilesInv, NEW u \in Uploaders, UploadPublic(u)
  PROVE  FilesInv'
<1>1. PICK stale \in SUBSET {f \in Files : Unused(f)} :
        /\ upload' = [upload EXCEPT ![u] = [NoUpload EXCEPT !.step = "purge", !.stale = stale]]
        /\ swept' = swept \cup stale
  BY DEF UploadPublic
<1>2. [NoUpload EXCEPT !.step = "purge", !.stale = stale]
        = [step |-> "purge", for |-> Nobody, stale |-> stale, file |-> Nobody]
  <2> DEFINE begun == [NoUpload EXCEPT !.step = "purge"]
  <2>1. begun = [step |-> "purge", for |-> Nobody, stale |-> {}, file |-> Nobody]
    BY DEF NoUpload
  <2>2. [NoUpload EXCEPT !.step = "purge", !.stale = stale] = [begun EXCEPT !.stale = stale]
    OBVIOUS
  <2> HIDE DEF begun
  <2> QED BY <2>1, <2>2
<1>3. upload' = [v \in Uploaders |->
        IF v = u THEN [step |-> "purge", for |-> Nobody, stale |-> stale, file |-> Nobody] ELSE upload[v]]
  BY <1>1, <1>2 DEF FilesInv, TypeInv
<1>4. stale \subseteq Files /\ \A f \in stale : meta[f] = "live"
  BY DEF Unused
<1>5. UNCHANGED <<objects, meta, holder, job, report, erasing, unqueued, abandoned, erased, contested>>
  BY DEF UploadPublic, fileRowVars
<1>6. TypeInv'
  <2>1. [step |-> "purge", for |-> Nobody, stale |-> stale, file |-> Nobody] \in UploadType
    BY <1>4 DEF UploadType
  <2>2. upload' \in [Uploaders -> UploadType]
    BY <1>3, <2>1 DEF FilesInv, TypeInv
  <2> QED BY <1>1, <1>4, <1>5, <2>2 DEF FilesInv, TypeInv
<1>7. JobInv'
  BY <1>1, <1>4, <1>5 DEF FilesInv, JobInv
<1>8. UploadInv'
  BY <1>1, <1>3, <1>5 DEF FilesInv, UploadInv, Cleared
<1>9. ObjectInv'
  BY <1>1, <1>5 DEF FilesInv, ObjectInv, Cleared
<1>10. ReportInv'
  BY <1>1, <1>5 DEF FilesInv, ReportInv, Kept
<1> QED BY <1>6, <1>7, <1>8, <1>9, <1>10 DEF FilesInv

LEMMA StaffUploads ==
  ASSUME FilesInv, NEW u \in Uploaders, UploadByStaff(u)
  PROVE  FilesInv'
<1>1. [NoUpload EXCEPT !.step = "purge", !.for = Staff]
        = [step |-> "purge", for |-> Staff, stale |-> {}, file |-> Nobody]
  <2> DEFINE begun == [NoUpload EXCEPT !.step = "purge"]
  <2>1. begun = [step |-> "purge", for |-> Nobody, stale |-> {}, file |-> Nobody]
    BY DEF NoUpload
  <2>2. [NoUpload EXCEPT !.step = "purge", !.for = Staff] = [begun EXCEPT !.for = Staff]
    OBVIOUS
  <2> HIDE DEF begun
  <2> QED BY <2>1, <2>2
<1>2. upload' = [v \in Uploaders |->
        IF v = u THEN [step |-> "purge", for |-> Staff, stale |-> {}, file |-> Nobody] ELSE upload[v]]
  BY <1>1 DEF UploadByStaff, FilesInv, TypeInv
<1>3. UNCHANGED <<objects, meta, holder, job, report, erasing, unqueued, abandoned, swept, erased, contested>>
  BY DEF UploadByStaff, fileRowVars, traceVars
<1>4. TypeInv'
  BY <1>2, <1>3 DEF FilesInv, TypeInv, UploadType
<1>5. UploadInv'
  BY <1>2, <1>3 DEF FilesInv, UploadInv, Cleared
<1>6. JobInv' /\ ObjectInv' /\ ReportInv'
  BY <1>3 DEF FilesInv, JobInv, ObjectInv, ReportInv, Cleared, Kept
<1> QED BY <1>4, <1>5, <1>6 DEF FilesInv

\* What a deletion in the bucket, or the cleanup in its place, leaves of the invariant:
\* it is of a file whose row a purge has read or the staff has removed.
LEMMA DeletesKeep ==
  ASSUME FilesInv, NEW f \in Files, f \in swept \cup erased, DeleteObject(f)
  PROVE  /\ objects' \subseteq objects /\ objects \ {f} \subseteq objects'
         /\ unqueued \subseteq unqueued' /\ unqueued' \subseteq Files
         /\ job' \in [Files -> {"none", "queued", "done", "failed"}]
         /\ \A g \in Files : job'[g] = job[g] \/ (g = f /\ job[g] = "none" /\ job'[g] = "queued")
         /\ f \notin objects' \/ job'[f] \in {"queued", "failed"} \/ f \in unqueued'
<1>1. f \in swept => meta[f] # "none"
  BY DEF FilesInv, JobInv
<1> QED BY <1>1 DEF FilesInv, TypeInv, JobInv, DeleteObject, ScheduleStorageCleanup

LEMMA Amended ==
  ASSUME TypeInv, NEW u \in Uploaders, NEW step \in {"drop", "insert"}, NEW f \in Files,
         upload' = [upload EXCEPT ![u].step = step, ![u].file = f]
  PROVE  /\ upload' \in [Uploaders -> UploadType]
         /\ \A v \in Uploaders \ {u} : upload'[v] = upload[v]
         /\ upload'[u].step = step /\ upload'[u].file = f /\ upload'[u].stale = upload[u].stale
<1> DEFINE a == [upload EXCEPT ![u].step = step]
<1>1. upload \in [Uploaders -> UploadType] /\ upload' = [a EXCEPT ![u].file = f]
  BY DEF TypeInv
<1>2. a \in [Uploaders -> UploadType] /\ a[u].step = step /\ a[u].stale = upload[u].stale
      /\ \A v \in Uploaders \ {u} : a[v] = upload[v]
  BY <1>1 DEF UploadType
<1> HIDE DEF a
<1>3. [a[u] EXCEPT !.file = f] \in UploadType
  BY <1>2 DEF UploadType
<1>4. upload' = [v \in Uploaders |-> IF v = u THEN [a[u] EXCEPT !.file = f] ELSE a[v]]
  BY <1>1, <1>2
<1>5. upload' \in [Uploaders -> UploadType]
  BY <1>2, <1>3, <1>4
<1> QED BY <1>2, <1>4, <1>5 DEF UploadType

LEMMA PurgeDeletes ==
  ASSUME FilesInv, NEW u \in Uploaders, PurgeObject(u)
  PROVE  FilesInv'
<1>1. PICK f \in upload[u].stale :
        DeleteObject(f) /\ upload' = [upload EXCEPT ![u].step = "drop", ![u].file = f]
  BY DEF PurgeObject
<1>2. f \in Files /\ f \in swept /\ meta[f] # "none"
  BY <1>1 DEF FilesInv, TypeInv, UploadType, UploadInv, JobInv
<1>3. upload[u] \in UploadType
  BY DEF FilesInv, TypeInv
<1>4. /\ upload' \in [Uploaders -> UploadType]
      /\ \A v \in Uploaders \ {u} : upload'[v] = upload[v]
      /\ upload'[u].step = "drop" /\ upload'[u].file = f /\ upload'[u].stale = upload[u].stale
  BY <1>1, <1>2, Amended DEF FilesInv
<1>5. UNCHANGED <<meta, holder, report, erasing, abandoned, swept, erased, contested>>
  BY DEF PurgeObject, fileRowVars
<1>6. /\ objects' \subseteq objects /\ objects \ {f} \subseteq objects'
      /\ unqueued \subseteq unqueued' /\ unqueued' \subseteq Files
      /\ job' \in [Files -> {"none", "queued", "done", "failed"}]
      /\ \A g \in Files : job'[g] = job[g] \/ (g = f /\ job[g] = "none" /\ job'[g] = "queued")
      /\ Cleared(f)'
  BY <1>1, <1>2, DeletesKeep DEF Cleared
<1>7. TypeInv'
  BY <1>2, <1>3, <1>4, <1>5, <1>6 DEF FilesInv, TypeInv, UploadType
<1>8. JobInv'
  BY <1>2, <1>5, <1>6 DEF FilesInv, TypeInv, JobInv
<1>9. \A g \in Files : Cleared(g) => Cleared(g)'
  BY <1>6 DEF Cleared
<1>10. UploadInv'
  BY <1>2, <1>4, <1>5, <1>6, <1>9 DEF FilesInv, TypeInv, UploadType, UploadInv
<1>11. ObjectInv'
  BY <1>2, <1>5, <1>6, <1>9 DEF FilesInv, ObjectInv
<1>12. ReportInv'
  BY <1>2, <1>5, <1>6 DEF FilesInv, ReportInv, Kept
<1> QED BY <1>7, <1>8, <1>10, <1>11, <1>12 DEF FilesInv

LEMMA PurgeDrops ==
  ASSUME FilesInv, NEW u \in Uploaders, PurgeRow(u)
  PROVE  FilesInv'
<1> DEFINE f == upload[u].file
<1>1. f \in swept /\ f \in Files /\ Cleared(f) /\ meta[f] # "none"
  BY DEF PurgeRow, FilesInv, UploadInv, TypeInv, JobInv
<1>2. upload[u] \in UploadType
  BY DEF FilesInv, TypeInv
<1>3. UNCHANGED <<objects, holder, job, report, erasing, unqueued, abandoned, swept, erased, contested>>
  BY DEF PurgeRow, traceVars
<1>4. meta' \in [Files -> {"none", "live", "gone"}] /\ \A g \in Files :
        meta'[g] = meta[g] \/ (g = f /\ meta[g] = "live" /\ meta'[g] = "gone")
  BY <1>1 DEF PurgeRow, FilesInv, TypeInv
<1>5. PICK stale \in SUBSET upload[u].stale, step \in {"purge", "idle"}, for \in {Nobody, Staff} :
        upload' = [v \in Uploaders |-> IF v = u THEN [step |-> step, for |-> for, stale |-> stale, file |-> Nobody]
                                       ELSE upload[v]]
  <2>1. CASE meta[f] = "live"
    <3>1. upload' = [v \in Uploaders |->
            IF v = u THEN [step |-> "purge", for |-> upload[u].for, stale |-> upload[u].stale \ {f},
                           file |-> Nobody] ELSE upload[v]]
      BY <1>2, <2>1 DEF PurgeRow, FilesInv, TypeInv, UploadType
    <3>2. upload[u].for \in {Nobody, Staff} /\ upload[u].stale \ {f} \in SUBSET upload[u].stale
      BY <1>2 DEF UploadType
    <3> QED BY <3>1, <3>2
  <2>2. CASE meta[f] # "live"
    <3>1. upload' = [v \in Uploaders |->
            IF v = u THEN [step |-> "idle", for |-> Nobody, stale |-> {}, file |-> Nobody] ELSE upload[v]]
      BY <2>2 DEF PurgeRow, NoUpload, FilesInv, TypeInv
    <3> QED BY <3>1
  <2> QED BY <2>1, <2>2
<1>6. TypeInv'
  BY <1>2, <1>3, <1>4, <1>5 DEF FilesInv, TypeInv, UploadType
<1>7. JobInv'
  BY <1>1, <1>3, <1>4 DEF FilesInv, JobInv
<1>8. \A g \in Files : Cleared(g)' <=> Cleared(g)
  BY <1>3 DEF Cleared
<1>9. UploadInv'
  BY <1>1, <1>3, <1>4, <1>5, <1>8 DEF FilesInv, TypeInv, UploadInv
<1>10. ObjectInv'
  BY <1>1, <1>3, <1>4, <1>8 DEF FilesInv, ObjectInv
<1>11. ReportInv'
  BY <1>1, <1>3, <1>4 DEF FilesInv, TypeInv, ReportType, ReportInv, Kept
<1> QED BY <1>6, <1>7, <1>9, <1>10, <1>11 DEF FilesInv

LEMMA Puts ==
  ASSUME FilesInv, NEW u \in Uploaders, PutObject(u)
  PROVE  FilesInv'
<1> DEFINE f == CHOOSE f \in Unnamed : TRUE
<1>1. f \in Unnamed
  BY DEF PutObject
<1>2. objects' = objects \cup {f} /\ upload' = [upload EXCEPT ![u].step = "insert", ![u].file = f]
  BY DEF PutObject
<1> HIDE DEF f
<1>3. f \in Files /\ meta[f] = "none" /\ f \notin objects /\ \A v \in Uploaders : upload[v].file # f
  BY <1>1 DEF Unnamed
<1>4. upload[u] \in UploadType /\ TypeInv
  BY DEF FilesInv, TypeInv
<1>5. /\ upload' \in [Uploaders -> UploadType]
      /\ \A v \in Uploaders \ {u} : upload'[v] = upload[v]
      /\ upload'[u].step = "insert" /\ upload'[u].file = f /\ upload'[u].stale = upload[u].stale
  BY <1>2, <1>3, <1>4, Amended
<1>6. UNCHANGED <<meta, holder, job, report, erasing, unqueued, abandoned, swept, erased, contested>>
  BY DEF PutObject, fileRowVars, traceVars
<1>7. TypeInv'
  BY <1>2, <1>3, <1>4, <1>5, <1>6 DEF TypeInv
<1>8. JobInv'
  BY <1>2, <1>3, <1>6 DEF FilesInv, TypeInv, JobInv
<1>9. f \notin swept /\ \A g \in Files : g # f => (Cleared(g)' <=> Cleared(g))
  BY <1>2, <1>3, <1>6 DEF Cleared, FilesInv, JobInv
<1>10. UploadInv'
  BY <1>2, <1>3, <1>4, <1>5, <1>6, <1>9 DEF FilesInv, UploadInv, TypeInv
<1>11. ObjectInv'
  BY <1>2, <1>3, <1>6, <1>9 DEF FilesInv, ObjectInv
<1>12. ReportInv'
  BY <1>2, <1>6 DEF FilesInv, ReportInv, Kept
<1> QED BY <1>7, <1>8, <1>10, <1>11, <1>12 DEF FilesInv

LEMMA Inserts ==
  ASSUME FilesInv, NEW u \in Uploaders, InsertFile(u)
  PROVE  FilesInv'
<1> DEFINE f == upload[u].file
<1>1. f \in objects /\ f \in Files /\ meta[f] = "none"
  BY DEF InsertFile, FilesInv, UploadInv, TypeInv
<1>2. upload[u] \in UploadType
  BY DEF FilesInv, TypeInv
<1>3. /\ meta' \in [Files -> {"none", "live", "gone"}] /\ meta'[f] = "live"
      /\ holder' \in [Files -> {Nobody, Staff} \cup Reports]
      /\ \A g \in Files \ {f} : meta'[g] = meta[g] /\ holder'[g] = holder[g]
  BY <1>1, <1>2 DEF InsertFile, FilesInv, TypeInv, UploadType
<1>4. upload' = [v \in Uploaders |-> IF v = u THEN NoUpload ELSE upload[v]]
  BY DEF InsertFile, FilesInv, TypeInv
<1>5. UNCHANGED <<objects, job, report, erasing, unqueued, abandoned, swept, erased, contested>>
  BY DEF InsertFile, traceVars
<1>6. NoUpload \in UploadType /\ NoUpload.stale = {} /\ NoUpload.step = "idle"
  BY DEF NoUpload, UploadType
<1>7. TypeInv'
  BY <1>3, <1>4, <1>5, <1>6 DEF FilesInv, TypeInv
<1>8. JobInv'
  BY <1>1, <1>3, <1>5 DEF FilesInv, JobInv
<1>9. \A g \in Files : Cleared(g)' <=> Cleared(g)
  BY <1>5 DEF Cleared
<1>10. UploadInv'
  <2>1. \A v \in Uploaders : v # u /\ upload[v].step = "insert" =>
          upload[v].file # f /\ upload[v].file \in Files
    BY <1>1 DEF InsertFile, FilesInv, UploadInv, TypeInv
  <2>2. \A v \in Uploaders : upload[v].stale \subseteq Files /\ (upload[v].step = "drop" => upload[v].file \in Files)
    BY DEF FilesInv, TypeInv, UploadType, UploadInv
  <2> QED BY <1>3, <1>4, <1>5, <1>6, <1>9, <2>1, <2>2 DEF FilesInv, UploadInv
<1>11. ObjectInv'
  BY <1>1, <1>3, <1>5, <1>9 DEF FilesInv, ObjectInv
<1>12. ReportInv'
  <2>1. \A r \in Reports : report[r].files \subseteq Files
    BY DEF FilesInv, TypeInv, ReportType
  <2> QED BY <1>1, <1>3, <1>5, <2>1 DEF FilesInv, ReportInv, Kept
<1> QED BY <1>7, <1>8, <1>10, <1>11, <1>12 DEF FilesInv

LEMMA UploadEnds ==
  ASSUME FilesInv, NEW u \in Uploaders, UploadFails(u)
  PROVE  FilesInv'
<1>1. upload' = [v \in Uploaders |-> IF v = u THEN NoUpload ELSE upload[v]]
  BY DEF UploadFails, FilesInv, TypeInv
<1>2. NoUpload \in UploadType /\ NoUpload.stale = {} /\ NoUpload.step = "idle"
  BY DEF NoUpload, UploadType
<1>3. UNCHANGED <<objects, meta, holder, job, report, erasing, unqueued, abandoned, swept, erased, contested>>
  BY DEF UploadFails, fileRowVars, traceVars
<1>4. TypeInv' /\ UploadInv'
  BY <1>1, <1>2, <1>3 DEF FilesInv, TypeInv, UploadInv, Cleared
<1>5. JobInv' /\ ObjectInv' /\ ReportInv'
  BY <1>3 DEF FilesInv, JobInv, ObjectInv, ReportInv, Cleared, Kept
<1> QED BY <1>4, <1>5 DEF FilesInv

\* A step of a complaint moves nothing but the complaint, and sometimes the owners.
LEMMA OnlyReport ==
  ASSUME FilesInv, UNCHANGED <<objects, meta, job, upload, erasing, unqueued, abandoned, swept, erased>>
  PROVE  JobInv' /\ UploadInv' /\ ObjectInv'
BY DEF FilesInv, JobInv, UploadInv, ObjectInv, Cleared

LEMMA FileStepMoves ==
  ASSUME FilesInv, NEW r \in Reports,
         NEW step \in {"none", "open", "checked", "linked", "filed", "refused"}, Goes(r, step)
  PROVE  /\ report' \in [Reports -> ReportType]
         /\ \A q \in Reports \ {r} : report'[q] = report[q]
         /\ report'[r].step = step /\ report'[r].files = report[r].files /\ report'[r].saw = report[r].saw
<1>1. report \in [Reports -> ReportType] /\ report[r] \in ReportType
  BY DEF FilesInv, TypeInv
<1>2. [report[r] EXCEPT !.step = step] \in ReportType
  BY <1>1 DEF ReportType
<1>3. report' = [q \in Reports |-> IF q = r THEN [report[r] EXCEPT !.step = step] ELSE report[q]]
  BY <1>1 DEF Goes
<1> QED BY <1>1, <1>2, <1>3 DEF ReportType

LEMMA Creates ==
  ASSUME FilesInv, NEW r \in Reports, CreatePublic(r)
  PROVE  FilesInv'
<1>1. PICK fs \in SUBSET {f \in Files : meta[f] = "live"} :
        report' = [report EXCEPT ![r] = [step |-> "open", files |-> fs, saw |-> {}]]
  BY DEF CreatePublic
<1>2. [step |-> "open", files |-> fs, saw |-> {}] \in ReportType
  BY <1>1 DEF ReportType
<1>3. report' = [q \in Reports |-> IF q = r THEN [step |-> "open", files |-> fs, saw |-> {}] ELSE report[q]]
  BY <1>1 DEF FilesInv, TypeInv
<1>4. UNCHANGED <<objects, meta, holder, job, upload, erasing, unqueued, abandoned, swept, erased, contested>>
  BY DEF CreatePublic, fileRowVars, traceVars
<1>5. TypeInv'
  BY <1>2, <1>3, <1>4 DEF FilesInv, TypeInv
<1>6. ReportInv'
  BY <1>1, <1>3, <1>4 DEF FilesInv, ReportInv, Kept
<1> QED BY <1>4, <1>5, <1>6, OnlyReport DEF FilesInv

LEMMA Checks ==
  ASSUME FilesInv, NEW r \in Reports, CheckFiles(r)
  PROVE  FilesInv'
<1>1. UNCHANGED <<objects, meta, holder, job, upload, erasing, unqueued, abandoned, swept, erased, contested>>
  BY DEF CheckFiles, fileRowVars, traceVars
<1>2. /\ report' \in [Reports -> ReportType]
      /\ \A q \in Reports \ {r} : report'[q] = report[q]
      /\ report'[r].files = report[r].files /\ report'[r].step \in {"checked", "refused"}
      /\ report'[r].step = "checked" => report'[r].saw = report[r].files
  <2> DEFINE saw == {f \in report[r].files : Unused(f)}
  <2>1. CASE saw = report[r].files
    <3> DEFINE was == [report EXCEPT ![r].step = "checked"]
    <3>1. report' = [was EXCEPT ![r].saw = saw]
      BY <2>1 DEF CheckFiles
    <3>2. report \in [Reports -> ReportType] /\ report[r] \in ReportType
      BY DEF FilesInv, TypeInv
    <3>3. was \in [Reports -> ReportType] /\ was[r].files = report[r].files /\ was[r].step = "checked"
          /\ \A q \in Reports \ {r} : was[q] = report[q]
      BY <3>2 DEF ReportType
    <3>4. saw \in SUBSET Files
      BY <3>2, <2>1 DEF ReportType
    <3> HIDE DEF was, saw
    <3>5. [was[r] EXCEPT !.saw = saw] \in ReportType
      BY <3>3, <3>4 DEF ReportType
    <3>6. report' = [q \in Reports |-> IF q = r THEN [was[r] EXCEPT !.saw = saw] ELSE was[q]]
      BY <3>1, <3>3
    <3> QED BY <2>1, <3>3, <3>5, <3>6 DEF ReportType
  <2>2. CASE saw # report[r].files
    <3>1. Goes(r, "refused")
      BY <2>2 DEF CheckFiles, Goes
    <3> QED BY <3>1, FileStepMoves
  <2> QED BY <2>1, <2>2
<1>3. TypeInv'
  BY <1>1, <1>2 DEF FilesInv, TypeInv
<1>4. ReportInv'
  BY <1>1, <1>2 DEF FilesInv, ReportInv, Kept
<1> QED BY <1>1, <1>3, <1>4, OnlyReport DEF FilesInv

\* The link gives every file that is still there to the complaint, whoever had it.
LEMMA Links ==
  ASSUME FilesInv, NEW r \in Reports, LinkFiles(r)
  PROVE  FilesInv'
<1> DEFINE live == {f \in report[r].files : meta[f] = "live"}
<1>1. UNCHANGED <<objects, meta, job, upload, erasing, unqueued, abandoned, swept, erased>>
  BY DEF LinkFiles
<1>2. /\ report' \in [Reports -> ReportType]
      /\ \A q \in Reports \ {r} : report'[q] = report[q]
      /\ report'[r].step = "linked" /\ report'[r].files = report[r].files /\ report'[r].saw = report[r].saw
  BY FileStepMoves DEF LinkFiles
<1>3. /\ holder' = [f \in Files |-> IF f \in live THEN r ELSE holder[f]]
      /\ contested' = contested \cup {f \in live : holder[f] # Nobody}
  BY DEF LinkFiles
<1>4. report \in [Reports -> ReportType] /\ \A q \in Reports : report[q].files \subseteq Files
  BY DEF FilesInv, TypeInv, ReportType
<1>5. TypeInv'
  BY <1>1, <1>2, <1>3, <1>4 DEF FilesInv, TypeInv
<1>6. \A f \in report[r].files : Kept(r, f)'
  BY <1>1, <1>3, <1>4 DEF Kept, FilesInv, ReportInv, ObjectInv, TypeInv
<1>7. \A q \in Reports \ {r} : \A f \in Files : Kept(q, f) => Kept(q, f)'
  BY <1>1, <1>3, OwnersDiffer DEF Kept
<1>8. report[r].saw = report[r].files
  BY DEF LinkFiles, FilesInv, ReportInv
<1>9. ReportInv'
  BY <1>1, <1>2, <1>4, <1>6, <1>7, <1>8 DEF FilesInv, ReportInv
<1> QED BY <1>1, <1>5, <1>9, OnlyReport DEF FilesInv

LEMMA Ends ==
  ASSUME FilesInv, NEW r \in Reports, CommitReport(r) \/ RollBackReport(r)
  PROVE  FilesInv'
<1>1. UNCHANGED <<objects, meta, holder, job, upload, erasing, unqueued, abandoned, swept, erased, contested>>
  BY DEF CommitReport, RollBackReport, fileRowVars, traceVars
<1>2. PICK step \in {"filed", "refused"} :
        Goes(r, step) /\ (step = "filed" => report[r].step = "linked")
  BY DEF CommitReport, RollBackReport
<1>3. /\ report' \in [Reports -> ReportType]
      /\ \A q \in Reports \ {r} : report'[q] = report[q]
      /\ report'[r].step = step /\ report'[r].files = report[r].files /\ report'[r].saw = report[r].saw
  BY <1>2, FileStepMoves
<1>4. TypeInv'
  BY <1>1, <1>3 DEF FilesInv, TypeInv
<1>5. ReportInv'
  BY <1>1, <1>2, <1>3 DEF FilesInv, ReportInv, Kept
<1> QED BY <1>1, <1>4, <1>5, OnlyReport DEF FilesInv

LEMMA Removes ==
  ASSUME FilesInv, NEW f \in Files, RemoveFile(f)
  PROVE  FilesInv'
<1>1. /\ meta[f] = "live" /\ meta' = [meta EXCEPT ![f] = "gone"]
      /\ erasing' = erasing \cup {f} /\ erased' = erased \cup {f}
      /\ UNCHANGED <<objects, holder, job, upload, report, unqueued, abandoned, swept, contested>>
  BY DEF RemoveFile
<1>2. TypeInv'
  BY <1>1 DEF FilesInv, TypeInv
<1>3. JobInv'
  BY <1>1 DEF FilesInv, TypeInv, JobInv
<1>4. UploadInv'
  BY <1>1 DEF FilesInv, TypeInv, UploadInv, Cleared
<1>5. ObjectInv'
  BY <1>1 DEF FilesInv, TypeInv, ObjectInv, Cleared
<1>6. ReportInv'
  BY <1>1 DEF FilesInv, TypeInv, ReportType, ReportInv, Kept
<1> QED BY <1>2, <1>3, <1>4, <1>5, <1>6 DEF FilesInv

LEMMA Erases ==
  ASSUME FilesInv, NEW f \in Files, RemoveObject(f)
  PROVE  FilesInv'
<1>1. f \in erased /\ meta[f] = "gone" /\ erasing' = erasing \ {f} /\ DeleteObject(f)
  BY DEF RemoveObject, FilesInv, JobInv
<1>2. UNCHANGED <<meta, holder, upload, report, abandoned, swept, erased, contested>>
  BY DEF RemoveObject, fileRowVars
<1>3. /\ objects' \subseteq objects /\ objects \ {f} \subseteq objects'
      /\ unqueued \subseteq unqueued' /\ unqueued' \subseteq Files
      /\ job' \in [Files -> {"none", "queued", "done", "failed"}]
      /\ \A g \in Files : job'[g] = job[g] \/ (g = f /\ job[g] = "none" /\ job'[g] = "queued")
      /\ Cleared(f)'
  BY <1>1, DeletesKeep DEF Cleared
<1>4. TypeInv'
  BY <1>1, <1>2, <1>3 DEF FilesInv, TypeInv
<1>5. JobInv'
  BY <1>1, <1>2, <1>3 DEF FilesInv, TypeInv, JobInv
<1>6. \A g \in Files : Cleared(g) => Cleared(g)'
  BY <1>3 DEF Cleared
<1>7. UploadInv'
  BY <1>1, <1>2, <1>3, <1>6 DEF FilesInv, TypeInv, UploadInv
<1>8. ObjectInv'
  BY <1>1, <1>2, <1>3, <1>6 DEF FilesInv, ObjectInv
<1>9. ReportInv'
  BY <1>1, <1>2, <1>3 DEF FilesInv, ReportInv, Kept
<1> QED BY <1>4, <1>5, <1>7, <1>8, <1>9 DEF FilesInv

LEMMA Dies ==
  ASSUME FilesInv, NEW f \in Files, RemoveDies(f)
  PROVE  FilesInv'
<1>1. /\ f \in erasing /\ erasing' = erasing \ {f} /\ abandoned' = abandoned \cup {f}
      /\ UNCHANGED <<objects, meta, holder, job, upload, report, unqueued, swept, erased, contested>>
  BY DEF RemoveDies, fileRowVars
<1> QED BY <1>1 DEF FilesInv, TypeInv, JobInv, UploadInv, ObjectInv, ReportInv, Cleared, Kept

LEMMA Cleans ==
  ASSUME FilesInv, NEW f \in Files, CleanUp(f)
  PROVE  FilesInv'
<1>1. UNCHANGED <<meta, holder, upload, report, erasing, unqueued, abandoned, swept, erased, contested>>
  BY DEF CleanUp, fileRowVars, traceVars
<1>2. /\ job[f] = "queued" /\ job' \in [Files -> {"none", "queued", "done", "failed"}]
      /\ \A g \in Files \ {f} : job'[g] = job[g]
      /\ objects' \subseteq objects /\ objects \ {f} \subseteq objects'
      /\ (job'[f] = "failed") \/ (job'[f] = "done" /\ f \notin objects')
  BY DEF CleanUp, FilesInv, TypeInv
<1>3. f \in swept \cup erased /\ meta[f] # "none"
  BY <1>2 DEF FilesInv, JobInv
<1>4. \A g \in Files : Cleared(g) => Cleared(g)'
  BY <1>1, <1>2 DEF Cleared
<1>5. TypeInv'
  BY <1>1, <1>2 DEF FilesInv, TypeInv
<1>6. JobInv'
  BY <1>1, <1>2, <1>3 DEF FilesInv, JobInv
<1>7. UploadInv'
  BY <1>1, <1>2, <1>3, <1>4 DEF FilesInv, TypeInv, UploadInv
<1>8. ObjectInv'
  BY <1>1, <1>2, <1>3, <1>4 DEF FilesInv, ObjectInv, JobInv
<1>9. ReportInv'
  BY <1>1, <1>2, <1>3 DEF FilesInv, ReportInv, Kept
<1> QED BY <1>5, <1>6, <1>7, <1>8, <1>9 DEF FilesInv

LEMMA FilesStep == FilesInv /\ [FilesNext]_fileVars => FilesInv'
<1> SUFFICES ASSUME FilesInv, [FilesNext]_fileVars PROVE FilesInv'
  OBVIOUS
<1>1. CASE \E u \in Uploaders : \/ UploadPublic(u) \/ UploadByStaff(u) \/ PurgeObject(u) \/ PurgeRow(u)
                              \/ PutObject(u) \/ InsertFile(u) \/ UploadFails(u)
  BY <1>1, PurgeReads, StaffUploads, PurgeDeletes, PurgeDrops, Puts, Inserts, UploadEnds
<1>2. CASE \E r \in Reports : \/ CreatePublic(r) \/ CheckFiles(r) \/ LinkFiles(r)
                             \/ CommitReport(r) \/ RollBackReport(r)
  BY <1>2, Creates, Checks, Links, Ends
<1>3. CASE \E f \in Files : RemoveFile(f) \/ RemoveObject(f) \/ RemoveDies(f) \/ CleanUp(f)
  BY <1>3, Removes, Erases, Dies, Cleans
<1>4. CASE UNCHANGED fileVars
  BY <1>4 DEF fileVars, FilesInv, TypeInv, JobInv, UploadInv, ObjectInv, ReportInv, Cleared, Kept
<1> QED BY <1>1, <1>2, <1>3, <1>4 DEF FilesNext

\* A complaint keeps the files it was filed with, except in the three cases in which
\* createPublic, the purge and remove let one go: for any number of each.
THEOREM FiledComplaintsKeepFiles == FilesSpec => []AttachmentKept
<1>1. FilesInv => AttachmentKept
  BY DEF FilesInv, ReportInv, Kept, AttachmentKept
<1> QED BY <1>1, FilesBegin, FilesStep, PTL DEF FilesSpec

\* No object of a deleted row is forgotten, but by a process that dies in remove.
THEOREM ObjectsFollowRows == FilesSpec => []ObjectFollowsRow
<1>1. FilesInv => ObjectFollowsRow
  BY DEF FilesInv, TypeInv, ObjectInv, Cleared, ObjectFollowsRow
<1> QED BY <1>1, FilesBegin, FilesStep, PTL DEF FilesSpec
=============================================================================
