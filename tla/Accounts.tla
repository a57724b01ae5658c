------------------------------ MODULE Accounts ------------------------------
(***************************************************************************)
(* The accounts of one tenant: UsersService (core/users) over the tables    *)
(* users and user_roles, and the two-statement transaction that it shares   *)
(* with RolesService.assignPermissions.  A user is named by its email.  One *)
(* action is one await of a call; validation, permissions in the claims of  *)
(* the caller and the audit row written last change nothing here and are    *)
(* left out.  The claims of an access token outlive the rights they stand   *)
(* for, so any user that ever had a row may be the caller.                  *)
(***************************************************************************)
EXTENDS Naturals, FiniteSets

CONSTANTS Users,         \* emails
          AccountCalls,  \* requests that the API handles at a time
          Operations,    \* which of the operations are called
          RoleCodes,     \* roles of the tenant
          NoUser

ASSUME AccountsAssumption == NoUser \notin Users /\ "admin_desa" \in RoleCodes

VARIABLES userStatus,   \* users.status, "none" before the row exists
          deleted,  \* users.deleted_at is set
          roles,    \* user_roles, by role code
          acall     \* the calls that run

accountVars == <<userStatus, deleted, roles, acall>>

NoCall == [op |-> "none", step |-> "idle", actor |-> NoUser, target |-> NoUser,
           want |-> {}, to |-> "active", seen |-> {}, alone |-> TRUE]   \* alone: it met no other call
CallType == [op : {"none", "create", "status", "assign", "remove"},
             step : {"idle", "insert", "check", "count", "write", "replace"},
             actor : Users \cup {NoUser}, target : Users \cup {NoUser},
             want : SUBSET RoleCodes, to : {"active", "inactive"},
             seen : SUBSET RoleCodes, alone : BOOLEAN]

AccountsTypeOK ==
  /\ userStatus \in [Users -> {"none", "active", "inactive"}]
  /\ deleted \in [Users -> BOOLEAN]
  /\ roles \in [Users -> SUBSET RoleCodes]
  /\ acall \in [AccountCalls -> CallType]

\* The tenant starts with the administrator it is provisioned with, and some operators.
AccountsInit ==
  \E staff \in SUBSET Users : \E first \in staff :
    /\ userStatus = [u \in Users |-> IF u \in staff THEN "active" ELSE "none"]
    /\ deleted = [u \in Users |-> FALSE]
    /\ roles = [u \in Users |-> IF u \in staff THEN IF u = first THEN {"admin_desa"} ELSE RoleCodes \ {"admin_desa"} ELSE {}]
    /\ acall = [c \in AccountCalls |-> NoCall]

-----------------------------------------------------------------------------
Exists(u) == userStatus[u] # "none" /\ ~deleted[u]
ActiveAdmin(u) == userStatus[u] = "active" /\ ~deleted[u] /\ "admin_desa" \in roles[u]

Start(c, op, step, a, u, rs, to) ==
  /\ acall[c].step = "idle" /\ op \in Operations
  /\ userStatus[a] # "none"
  /\ LET busy == {d \in AccountCalls : acall[d].step # "idle"} IN
     acall' = [d \in AccountCalls |->
                 IF d = c THEN [op |-> op, step |-> step, actor |-> a, target |-> u, want |-> rs,
                                to |-> to, seen |-> {}, alone |-> busy = {}]
                 ELSE [acall[d] EXCEPT !.alone = d \notin busy]]
  /\ UNCHANGED <<userStatus, deleted, roles>>

GoTo(c, step) == acall' = [acall EXCEPT ![c].step = step]
Return(c) == acall' = [acall EXCEPT ![c] = NoCall]

\* create: the email is free, then the password is hashed, then the row is inserted.
BeginCreate(c, a, u, rs) ==
  /\ userStatus[u] = "none"
  /\ Start(c, "create", "insert", a, u, rs, "active")

\* The unique index on the email refuses the second of two inserts.
Insert(c) ==
  /\ acall[c].step = "insert"
  /\ LET u == acall[c].target IN
     IF userStatus[u] = "none"
       THEN /\ userStatus' = [userStatus EXCEPT ![u] = "active"]
            /\ roles' = [roles EXCEPT ![u] = acall[c].want]
       ELSE UNCHANGED <<userStatus, roles>>
  /\ Return(c)
  /\ UNCHANGED deleted

\* updateStatus: nobody disables the account it is signed in with.
BeginUserStatus(c, a, u, to) ==
  /\ Exists(u)
  /\ a = u => to = "active"
  /\ Start(c, "status", IF to = "active" THEN "write" ELSE "check", a, u, {}, to)

BeginAssignRoles(c, a, u, rs) ==
  /\ Exists(u)
  /\ Start(c, "assign", IF a = u THEN "check" ELSE "replace", a, u, rs, "active")

BeginRemove(c, a, u) ==
  /\ Exists(u)
  /\ a # u
  /\ Start(c, "remove", "check", a, u, {}, "inactive")

\* Is an administrator about to go?  Then the others are counted.
Check(c) ==
  /\ acall[c].step = "check"
  /\ GoTo(c, IF "admin_desa" \in roles[acall[c].target] /\ "admin_desa" \notin acall[c].want
             THEN "count"
             ELSE IF acall[c].op = "assign" THEN "replace" ELSE "write")
  /\ UNCHANGED <<userStatus, deleted, roles>>

MutRemainingAdmin(u) == \E v \in Users : ActiveAdmin(v)
RemainingAdmin(u) == \E v \in Users \ {u} : ActiveAdmin(v)

Count(c) ==
  /\ acall[c].step = "count"
  /\ IF RemainingAdmin(acall[c].target)
       THEN GoTo(c, IF acall[c].op = "assign" THEN "replace" ELSE "write")
       ELSE Return(c)
  /\ UNCHANGED <<userStatus, deleted, roles>>

\* The update names the row by its id alone: a row deleted meanwhile is written too.
WriteUser(c) ==
  /\ acall[c].step = "write"
  /\ userStatus' = [userStatus EXCEPT ![acall[c].target] = acall[c].to]
  /\ deleted' = [deleted EXCEPT ![acall[c].target] = @ \/ acall[c].op = "remove"]
  /\ Return(c)
  /\ UNCHANGED roles

\* DELETE FROM user_roles: it removes the rows that its snapshot holds.
DeleteRoles(c) ==
  /\ acall[c].step = "replace"
  /\ acall' = [acall EXCEPT ![c].step = "insert", ![c].seen = roles[acall[c].target]]
  /\ UNCHANGED <<userStatus, deleted, roles>>

\* INSERT and commit.  The rows that the snapshot held are gone, for a later
\* transaction on the same user as well; a row that a third one inserted since
\* then stays, and is a duplicate key when it is wanted here.
InsertRoles(c) ==
  /\ acall[c].step = "insert"
  /\ LET u == acall[c].target
         kept == roles[u] \ acall[c].seen
         done == kept \cap acall[c].want = {}
     IN /\ roles' = [roles EXCEPT ![u] = IF done THEN kept \cup acall[c].want ELSE @]
        /\ acall' = [d \in AccountCalls |->
                       IF d = c THEN NoCall
                       ELSE IF done /\ acall[d].target = u
                            THEN [acall[d] EXCEPT !.seen = @ \ acall[c].seen]
                            ELSE acall[d]]
  /\ UNCHANGED <<userStatus, deleted>>

AccountsNext ==
  \E c \in AccountCalls :
    \/ \E a, u \in Users : \E rs \in SUBSET RoleCodes : BeginCreate(c, a, u, rs) \/ BeginAssignRoles(c, a, u, rs)
    \/ \E a, u \in Users : \E to \in {"active", "inactive"} : BeginUserStatus(c, a, u, to)
    \/ \E a, u \in Users : BeginRemove(c, a, u)
    \/ acall[c].op = "create" /\ Insert(c)
    \/ acall[c].op = "assign" /\ InsertRoles(c)
    \/ Check(c) \/ Count(c) \/ WriteUser(c) \/ DeleteRoles(c)

AccountsSpec == AccountsInit /\ [][AccountsNext]_accountVars

-----------------------------------------------------------------------------
(* Properties.                                                             *)
\* Only two things can take the last active administrator from a tenant: the change of
\* another one's roles, which counts nobody, and two calls that overlap, as each counts
\* before it writes (users.service.ts:58, :304).
AdminKept ==
  (\E u \in Users : ActiveAdmin(u)) =>
    \/ (\E u \in Users : ActiveAdmin(u)')
    \/ \E c \in AccountCalls : ~acall[c].alone
    \/ \E c \in AccountCalls : acall[c].op = "assign" /\ acall[c].actor # acall[c].target

\* A deleted account stays inactive, unless a change of its status overlapped the
\* deletion: that one names the row by its id alone (users.service.ts:266, :359).
DeletedInactive ==
  \A u \in Users : deleted[u] /\ userStatus[u] = "inactive" =>
    \/ userStatus'[u] = "inactive"
    \/ \E c \in AccountCalls : acall[c].op = "status" /\ ~acall[c].alone

\* What the accounts of a tenant keep, whatever calls overlap (users.service.ts:58, :347).
AccountsKept == [][AdminKept /\ DeletedInactive]_accountVars
=============================================================================
