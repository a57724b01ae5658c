--------------------------- MODULE LetterLifecycle ---------------------------
(***************************************************************************)
(* What the letter service promises about a letter request, with every     *)
(* decision and the whole of the PDF generation as one step: the workflow  *)
(* of docs/modules/surat.md, in which a letter is issued once, under a     *)
(* number no other letter carries, and nothing happens to it afterwards.   *)
(* LetterIssuance implements it (the mapping is in that module).           *)
(***************************************************************************)
EXTENDS Naturals

CONSTANT Requests    \* letter requests of one tenant, letter type and year

VARIABLES status,    \* the workflow state of each request
          number     \* the number each request was issued under, 0 if none

vars == <<status, number>>

Init == /\ status = [r \in Requests |-> "none"]
        /\ number = [r \in Requests |-> 0]

Move(r, from, to) ==
  /\ status[r] \in from
  /\ status' = [status EXCEPT ![r] = to]
  /\ UNCHANGED number

Submit(r)  == Move(r, {"none"}, "submitted")
Verify(r)  == Move(r, {"submitted"}, "verified")
Approve(r) == Move(r, {"verified"}, "approved")
Reject(r)  == Move(r, {"submitted", "verified"}, "rejected")

\* A letter is issued under a number that was never issued before.
Issue(r) ==
  /\ status[r] = "approved"
  /\ status' = [status EXCEPT ![r] = "completed"]
  /\ number[r] = 0
  /\ number'[r] \in Nat \ ({0} \cup {number[q] : q \in Requests})
  /\ number' = [number EXCEPT ![r] = number'[r]]

Next == \E r \in Requests :
          Submit(r) \/ Verify(r) \/ Approve(r) \/ Reject(r) \/ Issue(r)

Spec == Init /\ [][Next]_vars
=============================================================================
