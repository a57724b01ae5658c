-------------------------- MODULE ComplaintWorkflow --------------------------
(***************************************************************************)
(* The workflow of a complaint as the citizen sees it: what the status of  *)
(* a complaint may become, and from where.  The detailed module Complaints *)
(* implements it with calls that read, check and write in separate steps.  *)
(***************************************************************************)
CONSTANT Complaint

VARIABLE status

Open == {"submitted", "verified", "assigned", "in_progress"}

Init == status = [c \in Complaint |-> "none"]

Move(c, from, to) == status[c] \in from /\ status' = [status EXCEPT ![c] = to]

Submit(c)  == Move(c, {"none"}, "submitted")
Verify(c)  == Move(c, {"submitted"}, "verified")
Assign(c)  == Move(c, {"verified"}, "assigned")
Start(c)   == Move(c, {"assigned"}, "in_progress")
\* An answer may close the work on a complaint that was only assigned.
Resolve(c) == Move(c, {"assigned", "in_progress"}, "resolved")
Close(c)   == Move(c, {"resolved"}, "closed")
Reject(c)  == Move(c, Open, "rejected")

Next == \E c \in Complaint : \/ Submit(c) \/ Verify(c) \/ Assign(c) \/ Start(c)
                             \/ Resolve(c) \/ Close(c) \/ Reject(c)

Spec == Init /\ [][Next]_status
=============================================================================
