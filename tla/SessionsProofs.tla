---------------------------- MODULE SessionsProofs ----------------------------
(* What the accounts of a tenant keep, for any users, roles and calls; then  *)
(* the rotation of refresh tokens and the detection of reuse, for any tabs,  *)
(* calls, accounts and number of tokens; then what the second factor is worth *)
(* (TwoFactor), for any cards, secrets and calls.                             *)
EXTENDS Sessions, TwoFactor, FiniteSetTheorems, TLAPS

\* The operation whose steps are which, and what it was called with.
CallSound(c) ==
  /\ acall[c].step # "idle" => acall[c].target \in Users /\ acall[c].actor \in Users
  /\ acall[c].step = "write" => acall[c].op \in {"status", "remove"}
  /\ acall[c].step = "replace" => acall[c].op = "assign"
  /\ acall[c].step = "insert" => acall[c].op \in {"create", "assign"}
  /\ acall[c].step \in {"check", "count"} => acall[c].op \in {"status", "remove", "assign"}
  /\ acall[c].op \in {"status", "remove"} => acall[c].want = {}
  /\ acall[c].op = "remove" => acall[c].to = "inactive"

\* The tenant has an administrator without u, or u is none.
Spare(u) == "admin_desa" \notin roles[u] \/ RemainingAdmin(u)

\* What a call has read is still so, as long as it met no other.
AloneSound(c) == acall[c].alone /\ acall[c].step # "idle" =>
  /\ \A d \in AccountCalls \ {c} : acall[d].step = "idle"
  /\ acall[c].op = "status" => ~deleted[acall[c].target]
  /\ acall[c].step = "write" /\ acall[c].to = "inactive" => Spare(acall[c].target)
  /\ acall[c].op = "assign" =>
       /\ acall[c].step = "insert" => acall[c].seen = roles[acall[c].target]
       /\ acall[c].step \in {"replace", "insert"} /\ acall[c].actor = acall[c].target =>
            "admin_desa" \in acall[c].want \/ Spare(acall[c].target)

CallsInv == \A c \in AccountCalls : CallSound(c) /\ AloneSound(c)
AccountsInv == AccountsTypeOK /\ CallsInv

LEMMA NoCallTyped == NoCall \in CallType /\ NoCall.step = "idle" /\ NoCall.op = "none"
BY DEF NoCall, CallType

LEMMA InitInv == AccountsInit => AccountsInv
<1> SUFFICES ASSUME AccountsInit PROVE AccountsInv
  OBVIOUS
<1>1. PICK staff \in SUBSET Users : \E first \in staff :
        /\ userStatus = [u \in Users |-> IF u \in staff THEN "active" ELSE "none"]
        /\ deleted = [u \in Users |-> FALSE]
        /\ roles = [u \in Users |-> IF u \in staff
                                      THEN IF u = first THEN {"admin_desa"} ELSE RoleCodes \ {"admin_desa"}
                                      ELSE {}]
        /\ acall = [c \in AccountCalls |-> NoCall]
  BY DEF AccountsInit
<1>2. AccountsTypeOK
  BY <1>1, NoCallTyped, AccountsAssumption DEF AccountsTypeOK
<1>3. CallsInv
  BY <1>1, NoCallTyped DEF CallsInv, CallSound, AloneSound
<1> QED BY <1>2, <1>3 DEF AccountsInv

-----------------------------------------------------------------------------
(* Calls begin, check and end.                                             *)
\* What a call may begin with.
Beginning(op, step, u, rs, to) ==
  \/ op = "create" /\ step = "insert" /\ to = "active"
  \/ op = "status" /\ ~deleted[u] /\ rs = {} /\ (IF to = "active" THEN step = "write" ELSE step = "check")
  \/ op = "assign" /\ step \in {"check", "replace"}
  \/ op = "remove" /\ step = "check" /\ rs = {} /\ to = "inactive"

LEMMA StartKeeps ==
  ASSUME AccountsInv, NEW c \in AccountCalls, NEW op, NEW step, NEW a \in Users, NEW u \in Users,
         NEW rs \in SUBSET RoleCodes, NEW to \in {"active", "inactive"},
         Beginning(op, step, u, rs, to), op = "assign" /\ a = u => step = "check",
         Start(c, op, step, a, u, rs, to)
  PROVE  AccountsInv' /\ UNCHANGED <<userStatus, deleted, roles>>
<1> DEFINE busy == {d \in AccountCalls : acall[d].step # "idle"}
           new == [op |-> op, step |-> step, actor |-> a, target |-> u, want |-> rs,
                   to |-> to, seen |-> {}, alone |-> busy = {}]
<1>1. /\ acall[c].step = "idle" /\ UNCHANGED <<userStatus, deleted, roles>>
      /\ acall' = [d \in AccountCalls |-> IF d = c THEN new ELSE [acall[d] EXCEPT !.alone = d \notin busy]]
  BY DEF Start
<1>2. \A d \in AccountCalls : acall[d] \in CallType
  BY DEF AccountsInv, AccountsTypeOK
<1>3. new \in CallType
  <2>1. op \in {"create", "status", "assign", "remove"} /\ step \in {"insert", "check", "write", "replace"}
    BY DEF Beginning
  <2>2. (busy = {}) \in BOOLEAN
    OBVIOUS
  <2> QED BY <2>1, <2>2 DEF CallType
<1>4. \A d \in AccountCalls \ {c} :
        /\ [acall[d] EXCEPT !.alone = d \notin busy] \in CallType
        /\ acall'[d] = [acall[d] EXCEPT !.alone = d \notin busy]
  <2> SUFFICES ASSUME NEW d \in AccountCalls \ {c}
               PROVE  /\ [acall[d] EXCEPT !.alone = d \notin busy] \in CallType
                      /\ acall'[d] = [acall[d] EXCEPT !.alone = d \notin busy]
    OBVIOUS
  <2>1. acall[d] \in CallType /\ (d \notin busy) \in BOOLEAN
    BY <1>2
  <2>2. [acall[d] EXCEPT !.alone = d \notin busy] \in CallType
    <3> HIDE DEF busy
    <3> QED BY <2>1 DEF CallType
  <2>3. acall'[d] = [acall[d] EXCEPT !.alone = d \notin busy]
    <3> HIDE DEF busy, new
    <3> QED BY <1>1
  <2> QED BY <2>2, <2>3
<1>5. acall' \in [AccountCalls -> CallType]
  <2> DEFINE then(d) == IF d = c THEN new ELSE [acall[d] EXCEPT !.alone = d \notin busy]
  <2>1. acall' = [d \in AccountCalls |-> then(d)]
    BY <1>1
  <2>2. \A d \in AccountCalls : then(d) \in CallType
    <3>1. then(c) = new /\ \A d \in AccountCalls \ {c} : then(d) = [acall[d] EXCEPT !.alone = d \notin busy]
      OBVIOUS
    <3> HIDE DEF then, new, busy
    <3> QED BY <1>3, <1>4, <3>1
  <2> HIDE DEF then
  <2> QED BY <2>1, <2>2
<1>6. \A d \in AccountCalls \ {c} :
        /\ acall'[d].step = acall[d].step /\ acall'[d].op = acall[d].op /\ acall'[d].target = acall[d].target
        /\ acall'[d].actor = acall[d].actor /\ acall'[d].want = acall[d].want /\ acall'[d].to = acall[d].to
        /\ acall'[d].alone => acall[d].step = "idle"
  <2> SUFFICES ASSUME NEW d \in AccountCalls \ {c}
               PROVE  /\ acall'[d].step = acall[d].step /\ acall'[d].op = acall[d].op
                      /\ acall'[d].target = acall[d].target /\ acall'[d].actor = acall[d].actor
                      /\ acall'[d].want = acall[d].want /\ acall'[d].to = acall[d].to
                      /\ acall'[d].alone => acall[d].step = "idle"
    OBVIOUS
  <2>1. acall'[d] = [acall[d] EXCEPT !.alone = d \notin busy] /\ acall[d] \in CallType
    BY <1>2, <1>4
  <2>2. acall'[d].alone => d \notin busy
    <3> HIDE DEF busy
    <3> QED BY <2>1 DEF CallType
  <2>3. d \notin busy => acall[d].step = "idle"
    OBVIOUS
  <2> QED BY <2>1, <2>2, <2>3 DEF CallType
<1>7. CallSound(c)' /\ AloneSound(c)'
  <2>1. acall'[c] = new
    BY <1>1
  <2>2. acall'[c].alone => \A d \in AccountCalls \ {c} : acall[d].step = "idle"
    <3>1. acall'[c].alone => busy = {}
      <4> DEFINE none == busy = {}
      <4>1. new.alone = none
        OBVIOUS
      <4> HIDE DEF none, new
      <4>2. acall'[c].alone => none
        BY <2>1, <4>1
      <4> QED BY <4>2 DEF none
    <3>2. busy = {} => \A d \in AccountCalls \ {c} : acall[d].step = "idle"
      OBVIOUS
    <3> QED BY <3>1, <3>2
  <2> QED BY <1>1, <1>6, <2>1, <2>2 DEF CallSound, AloneSound, Beginning
<1>8. \A d \in AccountCalls \ {c} : CallSound(d)' /\ AloneSound(d)'
  BY <1>6 DEF AccountsInv, CallsInv, CallSound, AloneSound
<1> QED BY <1>1, <1>5, <1>7, <1>8 DEF AccountsInv, AccountsTypeOK, CallsInv

LEMMA BeginKeeps ==
  ASSUME AccountsInv, NEW c \in AccountCalls, NEW a \in Users, NEW u \in Users,
         NEW rs \in SUBSET RoleCodes, NEW to \in {"active", "inactive"},
         \/ BeginCreate(c, a, u, rs) \/ BeginAssignRoles(c, a, u, rs)
         \/ BeginUserStatus(c, a, u, to) \/ BeginRemove(c, a, u)
  PROVE  AccountsInv' /\ UNCHANGED <<userStatus, deleted, roles>>
<1>1. CASE BeginCreate(c, a, u, rs)
  BY <1>1, StartKeeps DEF BeginCreate, Beginning
<1>2. CASE BeginAssignRoles(c, a, u, rs)
  BY <1>2, StartKeeps DEF BeginAssignRoles, Beginning
<1>3. CASE BeginUserStatus(c, a, u, to)
  <2>1. {} \in SUBSET RoleCodes /\ ~deleted[u]
    BY <1>3 DEF BeginUserStatus, Exists
  <2>2. CASE to = "active"
    BY <1>3, <2>1, <2>2, StartKeeps DEF BeginUserStatus, Beginning
  <2>3. CASE to = "inactive"
    BY <1>3, <2>1, <2>3, StartKeeps DEF BeginUserStatus, Beginning
  <2> QED BY <2>2, <2>3
<1>4. CASE BeginRemove(c, a, u)
  <2>1. {} \in SUBSET RoleCodes
    OBVIOUS
  <2> QED BY <1>4, <2>1, StartKeeps DEF BeginRemove, Beginning
<1> QED BY <1>1, <1>2, <1>3, <1>4

LEMMA Moved ==
  ASSUME AccountsInv, NEW c \in AccountCalls,
         NEW step \in {"idle", "insert", "check", "count", "write", "replace"}, GoTo(c, step)
  PROVE  /\ acall' \in [AccountCalls -> CallType]
         /\ \A d \in AccountCalls \ {c} : acall'[d] = acall[d]
         /\ acall'[c] = [acall[c] EXCEPT !.step = step]
         /\ acall'[c].step = step /\ acall'[c].op = acall[c].op /\ acall'[c].target = acall[c].target
         /\ acall'[c].actor = acall[c].actor /\ acall'[c].want = acall[c].want /\ acall'[c].to = acall[c].to
         /\ acall'[c].seen = acall[c].seen /\ acall'[c].alone = acall[c].alone
<1>1. acall \in [AccountCalls -> CallType] /\ acall[c] \in CallType
  BY DEF AccountsInv, AccountsTypeOK
<1>2. [acall[c] EXCEPT !.step = step] \in CallType
  BY <1>1 DEF CallType
<1>3. acall' = [d \in AccountCalls |-> IF d = c THEN [acall[c] EXCEPT !.step = step] ELSE acall[d]]
  BY <1>1 DEF GoTo
<1> QED BY <1>1, <1>2, <1>3 DEF CallType

\* A call that ends leaves the others as they are; one that runs was not alone then.
LEMMA Returned ==
  ASSUME AccountsInv, NEW c \in AccountCalls, Return(c), acall[c].step # "idle"
  PROVE  /\ acall' \in [AccountCalls -> CallType] /\ CallsInv'
<1>1. acall' = [d \in AccountCalls |-> IF d = c THEN NoCall ELSE acall[d]]
  BY DEF Return, AccountsInv, AccountsTypeOK
<1>2. acall' \in [AccountCalls -> CallType]
  BY <1>1, NoCallTyped DEF AccountsInv, AccountsTypeOK
<1>3. CallSound(c)' /\ AloneSound(c)'
  BY <1>1, NoCallTyped DEF CallSound, AloneSound
<1>4. \A d \in AccountCalls \ {c} : CallSound(d)' /\ AloneSound(d)'
  BY <1>1 DEF AccountsInv, CallsInv, CallSound, AloneSound
<1> QED BY <1>2, <1>3, <1>4 DEF CallsInv

\* A call that has found what its next step needs is as sound there as where it was.
LEMMA Proceeds ==
  ASSUME AccountsInv, NEW c \in AccountCalls, acall[c].step # "idle",
         NEW step \in {"count", "replace", "write"}, GoTo(c, step), UNCHANGED <<userStatus, deleted, roles>>,
         step = "write" => Spare(acall[c].target),
         step = "replace" => "admin_desa" \in acall[c].want \/ Spare(acall[c].target)
  PROVE  AloneSound(c)'
<1>1. /\ \A d \in AccountCalls \ {c} : acall'[d] = acall[d]
      /\ acall'[c].step = step /\ acall'[c].op = acall[c].op /\ acall'[c].target = acall[c].target
      /\ acall'[c].actor = acall[c].actor /\ acall'[c].want = acall[c].want
      /\ acall'[c].alone = acall[c].alone
  BY Moved
<1>2. \A u : Spare(u)' <=> Spare(u)
  BY DEF Spare, RemainingAdmin, ActiveAdmin
<1> SUFFICES ASSUME acall[c].alone
             PROVE  AloneSound(c)'
  BY <1>1 DEF AloneSound
<1>3. /\ \A d \in AccountCalls \ {c} : acall[d].step = "idle"
      /\ acall[c].op = "status" => ~deleted[acall[c].target]
  BY DEF AccountsInv, CallsInv, AloneSound
<1> QED BY <1>1, <1>2, <1>3 DEF AloneSound

LEMMA ChecksKeep ==
  ASSUME AccountsInv, NEW c \in AccountCalls, Check(c) \/ Count(c) \/ DeleteRoles(c)
  PROVE  AccountsInv' /\ UNCHANGED <<userStatus, deleted, roles>>
<1>1. acall[c].step # "idle" /\ UNCHANGED <<userStatus, deleted, roles>> /\ acall[c] \in CallType
  BY DEF Check, Count, DeleteRoles, AccountsInv, AccountsTypeOK
<1>2. \A u : Spare(u)' <=> Spare(u)
  BY <1>1 DEF Spare, RemainingAdmin, ActiveAdmin
<1>3. ASSUME NEW d \in AccountCalls \ {c}, acall'[d] = acall[d]
      PROVE  CallSound(d)' /\ AloneSound(d)'
  BY <1>1, <1>3 DEF AccountsInv, CallsInv, CallSound, AloneSound
<1>4. CASE Check(c)
  <2>1. PICK step \in {"count", "replace", "write"} :
          /\ GoTo(c, step)
          /\ step = "replace" => acall[c].op = "assign"
          /\ step = "write" => acall[c].op # "assign"
          /\ step # "count" => "admin_desa" \notin roles[acall[c].target] \/ "admin_desa" \in acall[c].want
    BY <1>4 DEF Check
  <2>2. CallSound(c)'
    <3>1. CallSound(c) /\ acall[c].op \in {"status", "remove", "assign"}
      BY <1>4 DEF Check, AccountsInv, CallsInv, CallSound
    <3> QED BY <1>1, <2>1, <3>1, Moved DEF CallSound
  <2>3. AloneSound(c)'
    <3>1. AloneSound(c) /\ CallSound(c) /\ acall[c].step = "check"
      BY <1>4 DEF Check, AccountsInv, CallsInv
    <3>2. step = "write" => Spare(acall[c].target)
      BY <1>4, <2>1, <3>1 DEF Check, CallSound, Spare
    <3>3. step = "replace" => "admin_desa" \in acall[c].want \/ Spare(acall[c].target)
      BY <2>1 DEF Spare
    <3> QED BY <1>1, <2>1, <3>2, <3>3, Proceeds
  <2> QED BY <1>1, <1>3, <2>1, <2>2, <2>3, Moved DEF AccountsInv, AccountsTypeOK, CallsInv
<1>5. CASE Count(c)
  <2>1. CASE RemainingAdmin(acall[c].target)
    <3>1. PICK step \in {"replace", "write"} :
            GoTo(c, step) /\ (step = "replace" <=> acall[c].op = "assign")
      BY <1>5, <2>1 DEF Count
    <3>2. CallSound(c) /\ AloneSound(c) /\ acall[c].step = "count" /\ Spare(acall[c].target)
      BY <1>5, <2>1 DEF Count, AccountsInv, CallsInv, Spare
    <3>3. CallSound(c)'
      BY <1>1, <3>1, <3>2, Moved DEF CallSound
    <3>4. AloneSound(c)'
      BY <1>1, <3>1, <3>2, Proceeds
    <3> QED BY <1>1, <1>3, <3>1, <3>3, <3>4, Moved DEF AccountsInv, AccountsTypeOK, CallsInv
  <2>2. CASE ~RemainingAdmin(acall[c].target)
    BY <1>1, <1>5, <2>2, Returned DEF Count, AccountsInv, AccountsTypeOK
  <2> QED BY <2>1, <2>2
<1>6. CASE DeleteRoles(c)
  <2> DEFINE r == [acall[c] EXCEPT !.step = "insert"]
             q == [r EXCEPT !.seen = roles[acall[c].target]]
  <2>1. acall' = [d \in AccountCalls |-> IF d = c THEN q ELSE acall[d]]
    BY <1>6 DEF DeleteRoles, AccountsInv, AccountsTypeOK
  <2>2. acall[c].target \in Users /\ roles[acall[c].target] \in SUBSET RoleCodes
    BY <1>6 DEF DeleteRoles, AccountsInv, AccountsTypeOK, CallsInv, CallSound
  <2>3. r \in CallType /\ r.step = "insert" /\ r.op = acall[c].op /\ r.target = acall[c].target
        /\ r.actor = acall[c].actor /\ r.want = acall[c].want /\ r.to = acall[c].to /\ r.alone = acall[c].alone
    BY <1>1 DEF CallType
  <2> HIDE DEF r
  <2>4. q \in CallType /\ q.step = "insert" /\ q.op = acall[c].op /\ q.target = acall[c].target
        /\ q.actor = acall[c].actor /\ q.want = acall[c].want /\ q.to = acall[c].to /\ q.alone = acall[c].alone
        /\ q.seen = roles[acall[c].target]
    BY <2>2, <2>3 DEF CallType
  <2> HIDE DEF q
  <2>5. CallSound(c)' /\ AloneSound(c)'
    BY <1>1, <1>2, <1>6, <2>1, <2>4 DEF DeleteRoles, AccountsInv, CallsInv, CallSound, AloneSound
  <2>6. acall' \in [AccountCalls -> CallType]
    BY <2>1, <2>4 DEF AccountsInv, AccountsTypeOK
  <2> QED BY <1>1, <1>3, <2>1, <2>5, <2>6 DEF AccountsInv, AccountsTypeOK, CallsInv
<1> QED BY <1>4, <1>5, <1>6

-----------------------------------------------------------------------------
(* Calls write.                                                            *)
LEMMA InsertKeeps ==
  ASSUME AccountsInv, NEW c \in AccountCalls, Insert(c), acall[c].op = "create"
  PROVE  AccountsInv' /\ AdminKept /\ DeletedInactive
<1> DEFINE u == acall[c].target
<1>1. u \in Users /\ acall[c].want \in SUBSET RoleCodes /\ acall[c].step # "idle" /\ Return(c) /\ deleted' = deleted
  BY DEF Insert, AccountsInv, AccountsTypeOK, CallsInv, CallSound, CallType
<1>2. /\ userStatus' \in [Users -> {"none", "active", "inactive"}]
      /\ roles' \in [Users -> SUBSET RoleCodes]
      /\ \A v \in Users \ {u} : userStatus'[v] = userStatus[v] /\ roles'[v] = roles[v]
      /\ userStatus[u] # "none" => userStatus'[u] = userStatus[u] /\ roles'[u] = roles[u]
  BY <1>1 DEF Insert, AccountsInv, AccountsTypeOK
<1>3. AccountsInv'
  BY <1>1, <1>2, Returned DEF AccountsInv, AccountsTypeOK
<1>4. \A v \in Users : ActiveAdmin(v) => ActiveAdmin(v)'
  BY <1>1, <1>2 DEF ActiveAdmin
<1>5. AdminKept
  BY <1>4 DEF AdminKept
<1>6. DeletedInactive
  BY <1>1, <1>2 DEF DeletedInactive
<1> QED BY <1>3, <1>5, <1>6

LEMMA WriteKeeps ==
  ASSUME AccountsInv, NEW c \in AccountCalls, WriteUser(c)
  PROVE  AccountsInv' /\ AdminKept /\ DeletedInactive
<1> DEFINE u == acall[c].target
<1>1. /\ u \in Users /\ acall[c].to \in {"active", "inactive"} /\ acall[c].op \in {"status", "remove"}
      /\ acall[c].step = "write" /\ Return(c) /\ roles' = roles
      /\ acall[c].op = "remove" => acall[c].to = "inactive"
  BY DEF WriteUser, AccountsInv, AccountsTypeOK, CallsInv, CallSound, CallType
<1>2. /\ userStatus' \in [Users -> {"none", "active", "inactive"}] /\ deleted' \in [Users -> BOOLEAN]
      /\ \A v \in Users \ {u} : userStatus'[v] = userStatus[v] /\ (deleted'[v] <=> deleted[v])
      /\ userStatus'[u] = acall[c].to /\ (deleted'[u] <=> deleted[u] \/ acall[c].op = "remove")
  BY <1>1 DEF WriteUser, AccountsInv, AccountsTypeOK
<1>3. AccountsInv'
  BY <1>1, <1>2, Returned DEF AccountsInv, AccountsTypeOK
<1>4. \A v \in Users \ {u} : ActiveAdmin(v) => ActiveAdmin(v)'
  BY <1>1, <1>2 DEF ActiveAdmin
<1>5. AdminKept
  <2> SUFFICES ASSUME NEW v \in Users, ActiveAdmin(v), acall[c].alone
               PROVE  \E w \in Users : ActiveAdmin(w)'
    BY DEF AdminKept
  <2>1. CASE acall[c].to = "active"
    <3>1. acall[c].op = "status"
      BY <1>1, <2>1
    <3>2. ActiveAdmin(v)'
      BY <1>1, <1>2, <1>4, <2>1, <3>1 DEF ActiveAdmin
    <3> QED BY <3>2
  <2>2. CASE acall[c].to = "inactive"
    <3>1. Spare(u)
      BY <1>1, <2>2 DEF AccountsInv, CallsInv, AloneSound
    <3>2. \E w \in Users \ {u} : ActiveAdmin(w)
      BY <3>1 DEF Spare, RemainingAdmin, ActiveAdmin
    <3> QED BY <1>4, <3>2
  <2> QED BY <1>1, <2>1, <2>2
<1>6. DeletedInactive
  <2> SUFFICES ASSUME NEW v \in Users, deleted[v], userStatus[v] = "inactive",
                      acall[c].op = "status" => acall[c].alone
               PROVE  userStatus'[v] = "inactive"
    BY DEF DeletedInactive
  <2>1. CASE v # u
    BY <1>2, <2>1
  <2>2. CASE v = u
    <3>1. acall[c].op = "remove"
      BY <1>1, <2>2 DEF AccountsInv, CallsInv, AloneSound
    <3> QED BY <1>1, <1>2, <2>2, <3>1
  <2> QED BY <2>1, <2>2
<1> QED BY <1>3, <1>5, <1>6

LEMMA InsertRolesKeeps ==
  ASSUME AccountsInv, NEW c \in AccountCalls, InsertRoles(c), acall[c].op = "assign"
  PROVE  AccountsInv' /\ AdminKept /\ DeletedInactive
<1> DEFINE u == acall[c].target
           kept == roles[u] \ acall[c].seen
           done == kept \cap acall[c].want = {}
<1>1. /\ u \in Users /\ acall[c].want \in SUBSET RoleCodes /\ acall[c].step = "insert"
      /\ userStatus' = userStatus /\ deleted' = deleted /\ kept \in SUBSET RoleCodes
  BY DEF InsertRoles, AccountsInv, AccountsTypeOK, CallsInv, CallSound, CallType
<1>2. /\ roles' = [roles EXCEPT ![u] = IF done THEN kept \cup acall[c].want ELSE @]
      /\ acall' = [d \in AccountCalls |->
                     IF d = c THEN NoCall
                     ELSE IF done /\ acall[d].target = u
                          THEN [acall[d] EXCEPT !.seen = @ \ acall[c].seen] ELSE acall[d]]
  BY DEF InsertRoles
<1>3. \A d \in AccountCalls \ {c} :
        /\ acall'[d] \in CallType
        /\ acall'[d].step = acall[d].step /\ acall'[d].op = acall[d].op /\ acall'[d].target = acall[d].target
        /\ acall'[d].actor = acall[d].actor /\ acall'[d].want = acall[d].want /\ acall'[d].to = acall[d].to
        /\ acall'[d].alone = acall[d].alone
  <2> SUFFICES ASSUME NEW d \in AccountCalls \ {c}
               PROVE  /\ acall'[d] \in CallType
                      /\ acall'[d].step = acall[d].step /\ acall'[d].op = acall[d].op
                      /\ acall'[d].target = acall[d].target /\ acall'[d].actor = acall[d].actor
                      /\ acall'[d].want = acall[d].want /\ acall'[d].to = acall[d].to
                      /\ acall'[d].alone = acall[d].alone
    OBVIOUS
  <2>1. acall[d] \in CallType
    BY DEF AccountsInv, AccountsTypeOK
  <2>2. acall'[d] = acall[d] \/ acall'[d] = [acall[d] EXCEPT !.seen = @ \ acall[c].seen]
    BY <1>2
  <2> QED BY <2>1, <2>2 DEF CallType
<1>4. /\ roles' \in [Users -> SUBSET RoleCodes] /\ \A v \in Users \ {u} : roles'[v] = roles[v]
      /\ roles'[u] = roles[u] \/ roles'[u] = kept \cup acall[c].want
  BY <1>1, <1>2 DEF AccountsInv, AccountsTypeOK
<1>5. AccountsTypeOK'
  <2>1. acall' \in [AccountCalls -> CallType]
    BY <1>2, <1>3, NoCallTyped
  <2> QED BY <1>1, <1>4, <2>1 DEF AccountsInv, AccountsTypeOK
<1>6. CallSound(c)' /\ AloneSound(c)'
  BY <1>2, NoCallTyped DEF CallSound, AloneSound
<1>7. \A d \in AccountCalls \ {c} : CallSound(d)' /\ AloneSound(d)'
  BY <1>1, <1>3 DEF AccountsInv, CallsInv, CallSound, AloneSound
<1>8. AdminKept
  <2> SUFFICES ASSUME NEW v \in Users, ActiveAdmin(v), acall[c].alone, acall[c].actor = u
               PROVE  \E w \in Users : ActiveAdmin(w)'
    BY <1>1 DEF AdminKept
  <2>1. \A w \in Users \ {u} : ActiveAdmin(w) => ActiveAdmin(w)'
    BY <1>1, <1>4 DEF ActiveAdmin
  <2>2. acall[c].seen = roles[u] /\ ("admin_desa" \in acall[c].want \/ Spare(u))
    BY <1>1 DEF AccountsInv, CallsInv, AloneSound
  <2>3. CASE v # u
    BY <2>1, <2>3
  <2>4. CASE v = u /\ "admin_desa" \in roles'[u]
    BY <1>1, <2>4 DEF ActiveAdmin
  <2>5. CASE v = u /\ "admin_desa" \notin roles'[u]
    <3>1. Spare(u) /\ "admin_desa" \in roles[u]
      BY <1>4, <2>2, <2>5 DEF ActiveAdmin
    <3>2. \E w \in Users \ {u} : ActiveAdmin(w)
      BY <3>1 DEF Spare, RemainingAdmin
    <3> QED BY <2>1, <3>2
  <2> QED BY <2>3, <2>4, <2>5
<1>9. DeletedInactive
  BY <1>1 DEF DeletedInactive
<1> QED BY <1>5, <1>6, <1>7, <1>8, <1>9 DEF AccountsInv, CallsInv

LEMMA Still ==
  ASSUME UNCHANGED <<userStatus, deleted, roles>>
  PROVE  AdminKept /\ DeletedInactive
BY DEF AdminKept, DeletedInactive, ActiveAdmin

LEMMA StepKeeps == AccountsInv /\ [AccountsNext]_accountVars => AccountsInv' /\ AdminKept /\ DeletedInactive
<1> SUFFICES ASSUME AccountsInv, [AccountsNext]_accountVars
             PROVE  AccountsInv' /\ AdminKept /\ DeletedInactive
  OBVIOUS
<1>1. CASE UNCHANGED accountVars
  <2>1. AccountsInv'
    BY <1>1 DEF accountVars, AccountsInv, AccountsTypeOK, CallsInv, CallSound, AloneSound, Spare,
                RemainingAdmin, ActiveAdmin
  <2> QED BY <1>1, <2>1, Still DEF accountVars
<1>2. CASE AccountsNext
  <2>1. PICK c \in AccountCalls :
          \/ \E a, u \in Users : \E rs \in SUBSET RoleCodes : BeginCreate(c, a, u, rs) \/ BeginAssignRoles(c, a, u, rs)
          \/ \E a, u \in Users : \E to \in {"active", "inactive"} : BeginUserStatus(c, a, u, to)
          \/ \E a, u \in Users : BeginRemove(c, a, u)
          \/ acall[c].op = "create" /\ Insert(c)
          \/ acall[c].op = "assign" /\ InsertRoles(c)
          \/ Check(c) \/ Count(c) \/ WriteUser(c) \/ DeleteRoles(c)
    BY <1>2 DEF AccountsNext
  <2>2. CASE \E a, u \in Users : \E rs \in SUBSET RoleCodes : BeginCreate(c, a, u, rs) \/ BeginAssignRoles(c, a, u, rs)
    <3>1. "active" \in {"active", "inactive"}
      OBVIOUS
    <3> QED BY <2>2, <3>1, BeginKeeps, Still
  <2>3. CASE \E a, u \in Users : \E to \in {"active", "inactive"} : BeginUserStatus(c, a, u, to)
    <3>1. {} \in SUBSET RoleCodes
      OBVIOUS
    <3> QED BY <2>3, <3>1, BeginKeeps, Still
  <2>4. CASE \E a, u \in Users : BeginRemove(c, a, u)
    <3>1. {} \in SUBSET RoleCodes /\ "active" \in {"active", "inactive"}
      OBVIOUS
    <3> QED BY <2>4, <3>1, BeginKeeps, Still
  <2>5. CASE (acall[c].op = "create" /\ Insert(c)) \/ (acall[c].op = "assign" /\ InsertRoles(c)) \/ WriteUser(c)
    BY <2>5, InsertKeeps, InsertRolesKeeps, WriteKeeps
  <2>6. CASE Check(c) \/ Count(c) \/ DeleteRoles(c)
    BY <2>6, ChecksKeep, Still
  <2> QED BY <2>1, <2>2, <2>3, <2>4, <2>5, <2>6
<1> QED BY <1>1, <1>2

\* With one call at a time no call takes the last administrator from the tenant, but the
\* change of another one's roles; and a deleted account stays inactive.  An overlap is the
\* only other way, for any number of users and calls.
THEOREM AdministratorStays == AccountsSpec => AccountsKept
<1>1. AccountsInv /\ [AccountsNext]_accountVars => [AdminKept /\ DeletedInactive]_accountVars
  BY StepKeeps
<1>2. AccountsInv /\ [AccountsNext]_accountVars => AccountsInv'
  BY StepKeeps
<1> QED BY <1>1, <1>2, InitInv, PTL DEF AccountsSpec, AccountsKept

-----------------------------------------------------------------------------
(* The tokens of the sessions.                                             *)

\* Rows are filled in order, a token comes after the one it replaces, which is
\* dead, and the tokens of one login have the root of its first.
TokensInv ==
  /\ \A k \in Token : IF k <= used THEN tok[k].parent < k /\ tok[k].root \in 1 .. used
                      ELSE ~tok[k].live /\ tok[k].parent = 0
  /\ \A k \in Token : tok[k].parent # 0 => ~tok[tok[k].parent].live
  /\ OneLivePerLogin

\* A call works on rows that exist; from the alarm on, it goes for all tokens of the
\* user that existed when it looked.
CallInv(c) ==
  /\ call[c].cookie <= used /\ call[c].child <= used /\ call[c].known <= used
  /\ call[c].step \in {"revokeOne", "revokeAll", "revoking", "rotate"} =>
       call[c].op = "refresh" /\ call[c].cookie # 0
  /\ call[c].op = "refresh" /\ call[c].step = "lookup" => call[c].cookie # 0
  /\ call[c].step = "issue" => call[c].op = "login"
  /\ call[c].step \in {"lookup", "issue", "rotate"} => call[c].op \in {"login", "refresh"} /\ call[c].child = 0
  /\ call[c].alarm => call[c].step \in {"revokeAll", "revoking", "failed"}
  /\ call[c].step = "revoking" =>
       \A k \in 1 .. call[c].known : tok[k].user = call[c].user /\ tok[k].live => k \in call[c].seen
  /\ call[c].alarm /\ call[c].step = "failed" =>
       \A k \in 1 .. call[c].known : tok[k].user = call[c].user => ~tok[k].live

\* A call that may need a token has its place.
Pending == {c \in Calls : call[c].op \in {"login", "refresh"} /\ call[c].child = 0}
RoomInv == used + Cardinality(Pending) <= MaxTokens

SessionTypes ==
  /\ tok \in [Token -> TokenType]
  /\ used \in 0 .. MaxTokens /\ cookie \in 0 .. MaxTokens
  /\ tab \in [Tabs -> TabType] /\ call \in [Calls -> SessionCallType]
  /\ quiet \in BOOLEAN /\ ended \in SUBSET Token
SessionsInv ==
  /\ SessionTypes /\ cookie <= used
  /\ TokensInv /\ (\A c \in Calls : CallInv(c)) /\ RoomInv

LEMMA IdleFacts ==
  /\ Idle \in SessionCallType /\ Idle.step = "idle" /\ Idle.op = "none" /\ Idle.cookie = 0
  /\ Idle.child = 0 /\ Idle.known = 0 /\ Idle.alarm = FALSE /\ Idle.tab = NoTab
BY SessionsAssumption DEF Idle, SessionCallType

LEMMA SessionsInitInv == SessionsInit => SessionsInv
<1> SUFFICES ASSUME SessionsInit PROVE SessionsInv
  OBVIOUS
<1>1. NoToken \in TokenType /\ NoToken.live = FALSE /\ NoToken.parent = 0
  BY SessionsAssumption DEF NoToken, TokenType
<1>2. LoginPage \in TabType
  BY DEF LoginPage, TabType
<1>3. SessionTypes
  BY <1>1, <1>2, IdleFacts, SessionsAssumption DEF SessionsInit, SessionTypes
<1>4. TokensInv
  BY <1>1 DEF SessionsInit, TokensInv, OneLivePerLogin, Token
<1>5. \A c \in Calls : CallInv(c)
  BY IdleFacts DEF SessionsInit, CallInv
<1>6. RoomInv
  <2>1. Pending = {}
    BY IdleFacts DEF SessionsInit, Pending
  <2> QED BY <2>1, FS_EmptySet, SessionsAssumption DEF RoomInv, SessionsInit
<1> QED BY <1>3, <1>4, <1>5, <1>6, SessionsAssumption DEF SessionsInv, SessionsInit

-----------------------------------------------------------------------------
(* What the steps have in common.                                          *)
\* Tokens keep their users and do not come back to life.
Aged == /\ used <= used' /\ used' \in 0 .. MaxTokens
        /\ \A k \in 1 .. used : tok'[k].user = tok[k].user /\ (tok'[k].live => tok[k].live)
\* A call goes on with the same data, its tab aside.
Carried(d) ==
  /\ call'[d].cookie = call[d].cookie /\ call'[d].child = call[d].child /\ call'[d].known = call[d].known
  /\ call'[d].step = call[d].step /\ call'[d].op = call[d].op /\ call'[d].alarm = call[d].alarm
  /\ call'[d].seen = call[d].seen /\ call'[d].user = call[d].user

LEMMA OthersKeep ==
  ASSUME SessionsInv, Aged, NEW d \in Calls, Carried(d)
  PROVE  CallInv(d)'
<1>1. CallInv(d) /\ used \in Nat /\ used' \in Nat
  BY DEF SessionsInv, SessionTypes, Aged
<1>2. call[d].cookie \in Nat /\ call[d].child \in Nat /\ call[d].known \in Nat
  BY DEF SessionsInv, SessionTypes, SessionCallType
<1>3. \A k \in 1 .. call[d].known : tok'[k].user = tok[k].user /\ (tok'[k].live => tok[k].live)
  BY <1>1, <1>2 DEF Aged, CallInv
<1> QED BY <1>1, <1>2, <1>3 DEF CallInv, Carried, Aged

LEMMA RowsStay == SessionsInv /\ UNCHANGED <<tok, used>> => Aged /\ TokensInv'
BY DEF SessionsInv, SessionTypes, Aged, TokensInv, OneLivePerLogin

\* Rows may die or expire together: nothing else of them changes.
LEMMA RowsFade ==
  ASSUME SessionsInv, UNCHANGED used, tok' \in [Token -> TokenType],
         \A k \in Token : /\ tok'[k].user = tok[k].user /\ tok'[k].parent = tok[k].parent
                          /\ tok'[k].root = tok[k].root /\ (tok'[k].live => tok[k].live)
  PROVE  Aged /\ TokensInv'
<1>1. used \in 0 .. MaxTokens /\ \A k \in 1 .. used : k \in Token
  BY SessionsAssumption DEF SessionsInv, SessionTypes, Token
<1>2. Aged
  BY <1>1 DEF Aged
<1>3. \A k \in Token : tok[k].parent # 0 => tok[k].parent \in Token
  BY SessionsAssumption DEF SessionsInv, SessionTypes, TokenType, Token
<1>4. TokensInv'
  BY <1>3 DEF SessionsInv, TokensInv, OneLivePerLogin
<1> QED BY <1>2, <1>4

LEMMA PendingFinite == IsFiniteSet(Pending) /\ Cardinality(Pending) \in Nat /\ IsFiniteSet(Pending') /\ Cardinality(Pending') \in Nat
<1>1. Pending \in SUBSET Calls /\ Pending' \in SUBSET Calls
  BY DEF Pending
<1> QED BY <1>1, FS_Subset, FS_CardinalityType, SessionsAssumption

LEMMA RoomStays ==
  ASSUME SessionsInv, UNCHANGED used, Pending' \subseteq Pending
  PROVE  RoomInv'
<1>1. Cardinality(Pending') <= Cardinality(Pending)
  BY FS_Subset, PendingFinite
<1> QED BY <1>1, PendingFinite, SessionsAssumption DEF SessionsInv, SessionTypes, RoomInv

-----------------------------------------------------------------------------
(* The browser.                                                            *)
\* What a call starts with.
LEMMA Sent ==
  ASSUME SessionsInv, NEW c \in Calls, NEW t \in Tabs, NEW op \in {"login", "refresh", "logout"},
         NEW step \in {"lookup", "failed", "audit", "revoke"}, NEW u \in Users \cup {NoUser},
         Send(c, t, op, step, u)
  PROVE  /\ call[c] = Idle /\ (op # "logout" => Room)
         /\ quiet' \in BOOLEAN /\ (quiet' => quiet /\ Alone(t, op))
         /\ call' \in [Calls -> SessionCallType] /\ \A d \in Calls \ {c} : call'[d] = call[d]
         /\ call'[c].op = op /\ call'[c].step = step /\ call'[c].child = 0 /\ call'[c].known = 0
         /\ ~call'[c].alarm /\ call'[c].cookie = cookie
<1> DEFINE new == [Idle EXCEPT !.op = op, !.step = step, !.tab = t, !.cookie = cookie, !.user = u]
           one == [Idle EXCEPT !.op = op, !.step = step]
           two == [one EXCEPT !.tab = t, !.cookie = cookie]
<1>1. /\ call[c] = Idle /\ (op # "logout" => Room) /\ call' = [call EXCEPT ![c] = new]
      /\ quiet' = (quiet /\ Alone(t, op)) /\ new = [two EXCEPT !.user = u]
  BY DEF Send
<1>2. /\ one \in SessionCallType /\ one.op = op /\ one.step = step /\ one.child = 0 /\ one.known = 0
      /\ one.alarm = FALSE
  BY IdleFacts DEF SessionCallType
<1> HIDE DEF one
<1>3. cookie \in 0 .. MaxTokens
  BY DEF SessionsInv, SessionTypes
<1>4. /\ two \in SessionCallType /\ two.op = op /\ two.step = step /\ two.child = 0 /\ two.known = 0
      /\ two.alarm = FALSE /\ two.cookie = cookie
  BY <1>2, <1>3 DEF SessionCallType
<1> HIDE DEF two
<1>5. /\ new \in SessionCallType /\ new.op = op /\ new.step = step /\ new.child = 0 /\ new.known = 0
      /\ new.alarm = FALSE /\ new.cookie = cookie
  BY <1>1, <1>4 DEF SessionCallType
<1> HIDE DEF new
<1>6. call' \in [Calls -> SessionCallType] /\ call'[c] = new /\ \A d \in Calls \ {c} : call'[d] = call[d]
  BY <1>1, <1>5 DEF SessionsInv, SessionTypes
<1>7. quiet' \in BOOLEAN /\ (quiet' => quiet /\ Alone(t, op))
  BY <1>1
<1> QED BY <1>1, <1>5, <1>6, <1>7

\* A tab sends a call, or one that runs serves it.
LEMMA Sends ==
  ASSUME SessionsInv, NEW c \in Calls, NEW t \in Tabs, NEW op \in {"login", "refresh", "logout"},
         NEW step \in {"lookup", "failed", "audit", "revoke"}, NEW u \in Users \cup {NoUser},
         Send(c, t, op, step, u), op = "refresh" => step = "failed" \/ cookie # 0,
         step = "lookup" => op # "logout",
         UNCHANGED <<tok, used, cookie, ended>>, tab' \in [Tabs -> TabType]
  PROVE  SessionsInv'
<1>1. /\ call[c] = Idle /\ (op # "logout" => Room) /\ quiet' \in BOOLEAN
      /\ call' \in [Calls -> SessionCallType] /\ \A d \in Calls \ {c} : call'[d] = call[d]
      /\ call'[c].op = op /\ call'[c].step = step /\ call'[c].child = 0 /\ call'[c].known = 0
      /\ ~call'[c].alarm /\ call'[c].cookie = cookie
  BY Sent
<1>2. SessionTypes'
  BY <1>1 DEF SessionsInv, SessionTypes
<1>3. CallInv(c)'
  BY <1>1 DEF CallInv, SessionsInv, SessionTypes
<1>4. \A d \in Calls \ {c} : CallInv(d)'
  BY <1>1, RowsStay, OthersKeep DEF Carried
<1>5. RoomInv'
  <2>1. call[c].op = "none"
    BY <1>1, IdleFacts
  <2>2. CASE op = "logout"
    <3>1. Pending' \subseteq Pending
      BY <1>1, <2>2 DEF Pending
    <3> QED BY <3>1, RoomStays
  <2>3. CASE op # "logout"
    <3>1. Pending' = Pending \cup {c}
      BY <1>1, <2>3 DEF Pending
    <3>2. c \notin Pending
      BY <2>1 DEF Pending
    <3>3. Cardinality(Pending') = Cardinality(Pending) + 1
      BY <3>1, <3>2, FS_AddElement, PendingFinite
    <3>4. used + Cardinality(Pending) < MaxTokens
      BY <1>1, <2>3 DEF Room, Pending
    <3> QED BY <3>3, <3>4, PendingFinite, SessionsAssumption DEF RoomInv, SessionsInv, SessionTypes
  <2> QED BY <2>2, <2>3
<1> QED BY <1>2, <1>3, <1>4, <1>5, RowsStay DEF SessionsInv

LEMMA RefreshSends ==
  ASSUME SessionsInv, NEW c \in Calls, NEW t \in Tabs, NEW who \in {"load", "request"},
         NEW page \in TabType, RefreshAccessToken(c, t, who, page)
  PROVE  SessionsInv'
<1>1. [page EXCEPT !.waiting = @ \cup {who}] \in TabType
  BY DEF TabType
<1>2. UNCHANGED <<tok, used, cookie, ended>> /\ tab' \in [Tabs -> TabType]
  BY <1>1 DEF RefreshAccessToken, SessionsInv, SessionTypes
<1>3. CASE UNCHANGED <<call, quiet>>
  <2>1. \A d \in Calls : CallInv(d)'
    BY <1>2, <1>3, RowsStay, OthersKeep DEF Carried
  <2>2. RoomInv'
    BY <1>2, <1>3, RoomStays DEF Pending
  <2> QED BY <1>2, <1>3, <2>1, <2>2, RowsStay DEF SessionsInv, SessionTypes
<1>4. CASE Send(c, t, "refresh", IF cookie = 0 THEN "failed" ELSE "lookup", NoUser)
  <2>1. CASE cookie = 0
    BY <1>2, <1>4, <2>1, Sends
  <2>2. CASE cookie # 0
    BY <1>2, <1>4, <2>2, Sends
  <2> QED BY <2>1, <2>2
<1> QED BY <1>3, <1>4 DEF RefreshAccessToken

\* The calls of a page that is loaded anew go on without it.
LEMMA OrphanedFacts ==
  ASSUME SessionsInv, NEW t
  PROVE  /\ Orphaned(t) \in [Calls -> SessionCallType]
         /\ \A d \in Calls : Orphaned(t)[d] = call[d] \/ Orphaned(t)[d] = [call[d] EXCEPT !.tab = NoTab]
<1>1. \A d \in Calls : call[d] \in SessionCallType /\ [call[d] EXCEPT !.tab = NoTab] \in SessionCallType
  BY DEF SessionsInv, SessionTypes, SessionCallType
<1> QED BY <1>1 DEF Orphaned

LEMMA Reloads ==
  ASSUME SessionsInv, NEW t \in Tabs, Reload(t)
  PROVE  SessionsInv'
<1>1. UNCHANGED <<tok, used, cookie, ended>> /\ call' = Orphaned(t) /\ quiet' = (quiet /\ call' = call)
  BY DEF Reload
<1>2. tab' \in [Tabs -> TabType]
  <2>1. tab[t] \in TabType
    BY DEF SessionsInv, SessionTypes
  <2>2. [LoginPage EXCEPT !.page = tab[t].page] \in TabType
    BY <2>1 DEF LoginPage, TabType
  <2> QED BY <2>2 DEF Reload, SessionsInv, SessionTypes
<1>3. \A d \in Calls : Carried(d)
  <2> SUFFICES ASSUME NEW d \in Calls PROVE Carried(d)
    OBVIOUS
  <2>1. call[d] \in SessionCallType /\ (call'[d] = call[d] \/ call'[d] = [call[d] EXCEPT !.tab = NoTab])
    BY <1>1, OrphanedFacts DEF SessionsInv, SessionTypes
  <2> QED BY <2>1 DEF Carried, SessionCallType
<1>4. \A d \in Calls : CallInv(d)'
  BY <1>1, <1>3, RowsStay, OthersKeep
<1>5. RoomInv'
  BY <1>1, <1>3, RoomStays DEF Pending, Carried
<1>6. SessionTypes'
  BY <1>1, <1>2, OrphanedFacts DEF SessionsInv, SessionTypes
<1> QED BY <1>1, <1>4, <1>5, <1>6, RowsStay DEF SessionsInv

LEMMA TabKeeps ==
  ASSUME SessionsInv, NEW t \in Tabs, TabStep(t)
  PROVE  SessionsInv'
<1>1. tab[t] \in TabType
  BY DEF SessionsInv, SessionTypes
<1>2. CASE Reload(t)
  BY <1>2, Reloads
<1>3. ASSUME NEW c \in Calls, Mount(c, t)
      PROVE  SessionsInv'
  <2>1. [tab[t] EXCEPT !.mount = FALSE] \in TabType
    BY <1>1 DEF TabType
  <2> QED BY <1>3, <2>1, RefreshSends DEF Mount
<1>4. ASSUME NEW c \in Calls, RequestUnauthorized(c, t)
      PROVE  SessionsInv'
  BY <1>1, <1>4, RefreshSends DEF RequestUnauthorized
<1>5. ASSUME NEW c \in Calls, SubmitLogout(c, t)
      PROVE  SessionsInv'
  <2>1. UNCHANGED <<tok, used, cookie, ended>> /\ tab' \in [Tabs -> TabType] /\ tab[t].user \in Users \cup {NoUser}
    BY <1>1, <1>5 DEF SubmitLogout, SessionsInv, SessionTypes, TabType
  <2>2. CASE cookie = 0
    BY <1>5, <2>1, <2>2, Sends DEF SubmitLogout
  <2>3. CASE cookie # 0
    BY <1>5, <2>1, <2>3, Sends DEF SubmitLogout
  <2> QED BY <2>2, <2>3
<1>6. ASSUME NEW c \in Calls, NEW u \in People, SubmitLogin(c, t, u)
      PROVE  SessionsInv'
  <2>1. UNCHANGED <<tok, used, cookie, ended>> /\ tab' \in [Tabs -> TabType] /\ u \in Users \cup {NoUser}
    BY <1>6, SessionsAssumption DEF SubmitLogin, SessionsInv, SessionTypes
  <2> QED BY <1>6, <2>1, Sends DEF SubmitLogin
<1> QED BY <1>2, <1>3, <1>4, <1>5, <1>6 DEF TabStep

-----------------------------------------------------------------------------
(* The API.                                                                *)
LEMMA CallTyped == ASSUME SessionsInv, NEW c \in Calls
                   PROVE  call[c] \in SessionCallType /\ call \in [Calls -> SessionCallType]
BY DEF SessionsInv, SessionTypes

LEMMA StepsTo ==
  ASSUME SessionsInv, NEW c \in Calls,
         NEW step \in {"idle", "lookup", "revokeOne", "revokeAll", "revoking", "rotate", "issue", "revoke",
                       "audit", "done", "failed"}, Step(c, step)
  PROVE  /\ call' \in [Calls -> SessionCallType] /\ \A d \in Calls \ {c} : call'[d] = call[d]
         /\ call'[c].step = step /\ call'[c].op = call[c].op /\ call'[c].cookie = call[c].cookie
         /\ call'[c].child = call[c].child /\ call'[c].known = call[c].known
         /\ call'[c].alarm = call[c].alarm /\ call'[c].user = call[c].user /\ call'[c].seen = call[c].seen
<1>1. [call[c] EXCEPT !.step = step] \in SessionCallType
  BY CallTyped DEF SessionCallType
<1>2. call' = [d \in Calls |-> IF d = c THEN [call[c] EXCEPT !.step = step] ELSE call[d]]
  BY CallTyped DEF Step
<1> QED BY <1>1, <1>2, CallTyped DEF SessionCallType

\* A step of one call that leaves the browser alone and takes no room.
LEMMA ApiMoves ==
  ASSUME SessionsInv, NEW c \in Calls,
         call' \in [Calls -> SessionCallType], \A d \in Calls \ {c} : call'[d] = call[d],
         CallInv(c)', Aged, TokensInv', tok' \in [Token -> TokenType], quiet' \in BOOLEAN,
         UNCHANGED <<cookie, tab, ended>>, RoomInv'
  PROVE  SessionsInv'
<1>1. \A d \in Calls \ {c} : CallInv(d)'
  BY OthersKeep DEF Carried
<1>2. cookie' <= used'
  BY DEF SessionsInv, SessionTypes, Aged
<1> QED BY <1>1, <1>2 DEF SessionsInv, SessionTypes, Aged

LEMMA PendingShrinks ==
  ASSUME SessionsInv, NEW c \in Calls, UNCHANGED used,
         \A d \in Calls \ {c} : call'[d] = call[d], call'[c].op = call[c].op,
         call'[c].child = call[c].child
  PROVE  RoomInv'
<1>1. Pending' \subseteq Pending
  BY DEF Pending
<1> QED BY <1>1, RoomStays

\* A step that only moves the call on, with nothing to hold for its new step.
LEMMA Advances ==
  ASSUME SessionsInv, NEW c \in Calls, NEW step \in {"audit", "done", "failed", "issue"}, Step(c, step),
         UNCHANGED <<used, cookie, tab, ended>>, quiet' \in BOOLEAN, tok' \in [Token -> TokenType],
         \A k \in Token : /\ tok'[k].user = tok[k].user /\ tok'[k].parent = tok[k].parent
                          /\ tok'[k].root = tok[k].root /\ (tok'[k].live => tok[k].live),
         call[c].step \notin {"revokeAll", "revoking", "failed"},
         step = "issue" => call[c].op = "login" /\ call[c].child = 0
  PROVE  SessionsInv'
<1>1. ~call[c].alarm /\ CallInv(c)
  BY DEF SessionsInv, CallInv
<1>2. /\ call' \in [Calls -> SessionCallType] /\ \A d \in Calls \ {c} : call'[d] = call[d]
      /\ call'[c].step = step /\ call'[c].op = call[c].op /\ call'[c].cookie = call[c].cookie
      /\ call'[c].child = call[c].child /\ call'[c].known = call[c].known /\ call'[c].alarm = call[c].alarm
  BY StepsTo
<1>3. CallInv(c)'
  BY <1>1, <1>2 DEF CallInv
<1> QED BY <1>2, <1>3, RowsFade, PendingShrinks, ApiMoves

\* A revocation of one row.
LEMMA RevokedOne ==
  ASSUME SessionsInv, NEW k \in 0 .. MaxTokens, tok' = [tok EXCEPT ![k].live = FALSE]
  PROVE  /\ tok' \in [Token -> TokenType]
         /\ \A j \in Token : /\ tok'[j].user = tok[j].user /\ tok'[j].parent = tok[j].parent
                             /\ tok'[j].root = tok[j].root /\ (tok'[j].live => tok[j].live)
<1>1. \A j \in Token : tok[j] \in TokenType /\ [tok[j] EXCEPT !.live = FALSE] \in TokenType
  BY DEF SessionsInv, SessionTypes, TokenType
<1>2. tok' = [j \in Token |-> IF j = k THEN [tok[j] EXCEPT !.live = FALSE] ELSE tok[j]]
  BY DEF SessionsInv, SessionTypes
<1> QED BY <1>1, <1>2 DEF TokenType

LEMMA RowsSame ==
  ASSUME SessionsInv, UNCHANGED tok
  PROVE  /\ tok' \in [Token -> TokenType]
         /\ \A j \in Token : /\ tok'[j].user = tok[j].user /\ tok'[j].parent = tok[j].parent
                             /\ tok'[j].root = tok[j].root /\ (tok'[j].live => tok[j].live)
BY DEF SessionsInv, SessionTypes

\* A new row: its parent, which was live, dies, and so its login has one live token.
LEMMA Creates ==
  ASSUME SessionsInv, used < MaxTokens, NEW u \in Users \cup {NoUser}, NEW p \in 0 .. used,
         p # 0 => tok[p].live, Create(u, p)
  PROVE  /\ Aged /\ TokensInv' /\ tok' \in [Token -> TokenType] /\ used' = used + 1
         /\ used + 1 \in Token /\ tok'[used + 1].live
         /\ tok'[used + 1].root = (IF p = 0 THEN used + 1 ELSE tok[p].root)
         /\ \A k \in Token \ {used + 1} :
              /\ tok'[k].user = tok[k].user /\ tok'[k].root = tok[k].root
              /\ tok'[k].live => tok[k].live /\ k # p
              /\ tok[k].live /\ k # p => tok'[k].live
<1> DEFINE n == used + 1
           origin == IF p = 0 THEN n ELSE tok[p].root
           row == [user |-> u, live |-> TRUE, expired |-> FALSE, parent |-> p,
                   root |-> origin]
<1>1. used \in 0 .. MaxTokens /\ n \in Token /\ p \in 0 .. MaxTokens /\ (p # 0 => p \in Token /\ p # n)
  BY SessionsAssumption DEF SessionsInv, SessionTypes, Token
<1>2. /\ used' = n
      /\ tok' = [k \in Token |-> IF k = n THEN row ELSE IF k = p THEN [tok[k] EXCEPT !.live = FALSE] ELSE tok[k]]
  BY <1>1 DEF Create
<1>3. \A k \in Token : tok[k] \in TokenType /\ [tok[k] EXCEPT !.live = FALSE] \in TokenType
  BY DEF SessionsInv, SessionTypes, TokenType
<1>4. p # 0 => tok[p].root \in 1 .. used
  BY <1>1 DEF SessionsInv, TokensInv
<1>5. row \in TokenType /\ row.live = TRUE /\ row.parent = p /\ row.root = (IF p = 0 THEN n ELSE tok[p].root)
  <2>1. origin \in 0 .. MaxTokens
    BY <1>1, <1>4, SessionsAssumption DEF Token
  <2> HIDE DEF origin
  <2>2. row \in TokenType /\ row.live = TRUE /\ row.parent = p /\ row.root = origin
    BY <1>1, <2>1 DEF TokenType
  <2> QED BY <2>2 DEF origin
<1> HIDE DEF row
<1>6. tok' \in [Token -> TokenType]
  BY <1>2, <1>3, <1>5
<1>7. /\ tok'[n] = row
      /\ \A k \in Token \ {n} :
           /\ tok'[k].user = tok[k].user /\ tok'[k].parent = tok[k].parent /\ tok'[k].root = tok[k].root
           /\ (tok'[k].live => tok[k].live /\ k # p) /\ (tok[k].live /\ k # p => tok'[k].live)
  BY <1>1, <1>2, <1>3 DEF TokenType
<1>8. Aged
  BY <1>1, <1>2, <1>7, SessionsAssumption DEF Aged, Token
<1>9. \A k \in Token : IF k <= used' THEN tok'[k].parent < k /\ tok'[k].root \in 1 .. used'
                       ELSE ~tok'[k].live /\ tok'[k].parent = 0
  <2> SUFFICES ASSUME NEW k \in Token
               PROVE  IF k <= used' THEN tok'[k].parent < k /\ tok'[k].root \in 1 .. used'
                      ELSE ~tok'[k].live /\ tok'[k].parent = 0
    OBVIOUS
  <2>1. CASE k = n
    BY <1>1, <1>2, <1>4, <1>5, <1>7, <2>1 DEF Token
  <2>2. CASE k # n
    BY <1>1, <1>2, <1>7, <2>2 DEF SessionsInv, TokensInv, Token
  <2> QED BY <2>1, <2>2
<1>10. \A k \in Token : tok'[k].parent # 0 => ~tok'[tok'[k].parent].live
  <2> SUFFICES ASSUME NEW k \in Token, tok'[k].parent # 0 PROVE ~tok'[tok'[k].parent].live
    OBVIOUS
  <2>1. CASE k = n
    <3>1. tok'[k].parent = p /\ p # 0
      BY <1>5, <1>7, <2>1
    <3>2. ~tok'[p].live
      BY <1>1, <1>7, <3>1
    <3> QED BY <3>1, <3>2
  <2>2. CASE k # n
    <3>1. tok'[k].parent = tok[k].parent /\ tok[k].parent < k /\ k <= used /\ ~tok[tok[k].parent].live
      <4>1. tok'[k].parent = tok[k].parent /\ tok[k].parent # 0
        BY <1>7, <2>2
      <4>2. ~tok[tok[k].parent].live /\ k <= used
        BY <4>1 DEF SessionsInv, TokensInv
      <4>3. tok[k].parent < k
        BY <4>2 DEF SessionsInv, TokensInv
      <4> QED BY <4>1, <4>2, <4>3
    <3>2. tok[k].parent \in Token /\ tok[k].parent # n
      <4>1. tok[k].parent \in 0 .. MaxTokens
        BY DEF SessionsInv, SessionTypes, TokenType
      <4>2. tok[k].parent # 0 /\ tok[k].parent < n
        BY <1>1, <3>1, <4>1 DEF Token
      <4> QED BY <1>1, <4>1, <4>2, SessionsAssumption DEF Token
    <3> QED BY <1>7, <3>1, <3>2
  <2> QED BY <2>1, <2>2
<1>11. \A j, k \in Token : tok'[j].parent = tok'[k].parent /\ tok'[j].parent # 0 => j = k
  <2>1. \A j \in Token \ {n} : tok'[j].parent # p \/ p = 0
    BY <1>1, <1>7 DEF SessionsInv, TokensInv
  <2>2. tok'[n].parent = p
    BY <1>5, <1>7
  <2>3. \A j, k \in Token \ {n} : tok'[j].parent = tok'[k].parent /\ tok'[j].parent # 0 => j = k
    BY <1>7 DEF SessionsInv, TokensInv, OneLivePerLogin
  <2> QED BY <2>1, <2>2, <2>3
<1>12. \A j, k \in Token : tok'[j].live /\ tok'[k].live /\ tok'[j].root = tok'[k].root => j = k
  <2>1. \A j \in Token \ {n} : tok'[j].live => tok'[j].root # tok'[n].root
    <3> SUFFICES ASSUME NEW j \in Token \ {n}, tok'[j].live PROVE tok'[j].root # tok'[n].root
      OBVIOUS
    <3>1. tok[j].live /\ j # p /\ tok'[j].root = tok[j].root /\ tok[j].root \in 1 .. used
      BY <1>7 DEF SessionsInv, TokensInv, Token
    <3>2. CASE p = 0
      BY <1>1, <1>5, <1>7, <3>1, <3>2
    <3>3. CASE p # 0
      BY <1>1, <1>5, <1>7, <3>1, <3>3 DEF SessionsInv, TokensInv, OneLivePerLogin
    <3> QED BY <3>2, <3>3
  <2>2. \A j, k \in Token \ {n} : tok'[j].live /\ tok'[k].live /\ tok'[j].root = tok'[k].root => j = k
    BY <1>7 DEF SessionsInv, TokensInv, OneLivePerLogin
  <2> QED BY <2>1, <2>2
<1>13. TokensInv'
  BY <1>9, <1>10, <1>11, <1>12 DEF TokensInv, OneLivePerLogin
<1> QED BY <1>1, <1>2, <1>5, <1>6, <1>7, <1>8, <1>13

LEMMA HasPlace ==
  ASSUME SessionsInv, NEW c \in Calls, call[c].step \in {"issue", "rotate"}
  PROVE  used < MaxTokens /\ used \in Nat
<1>1. c \in Pending
  BY DEF SessionsInv, CallInv, Pending
<1>2. Cardinality(Pending) # 0
  BY <1>1, FS_EmptySet, PendingFinite
<1> QED BY <1>2, PendingFinite, SessionsAssumption DEF SessionsInv, SessionTypes, RoomInv

\* The call that a new row is for had its place, and gives it up.
LEMMA TakesPlace ==
  ASSUME SessionsInv, NEW c \in Calls, NEW p \in 0 .. used, NEW u \in Users \cup {NoUser},
         call[c].step \in {"issue", "rotate"}, p # 0 => tok[p].live, Create(u, p),
         call' = [call EXCEPT ![c].step = "audit", ![c].child = used + 1],
         UNCHANGED <<cookie, tab, quiet, ended>>
  PROVE  SessionsInv'
<1>1. c \in Pending /\ CallInv(c) /\ ~call[c].alarm
  BY DEF SessionsInv, CallInv, Pending
<1>3. used < MaxTokens /\ used \in Nat
  BY HasPlace
<1>4. Aged /\ TokensInv' /\ tok' \in [Token -> TokenType] /\ used' = used + 1
  BY <1>3, Creates
<1> DEFINE a == [call EXCEPT ![c].step = "audit"]
<1>5. /\ a \in [Calls -> SessionCallType] /\ \A d \in Calls \ {c} : a[d] = call[d]
      /\ a[c].step = "audit" /\ a[c].op = call[c].op /\ a[c].cookie = call[c].cookie
      /\ a[c].known = call[c].known /\ a[c].alarm = call[c].alarm
  BY CallTyped DEF SessionCallType
<1>6. call' = [a EXCEPT ![c].child = used + 1]
  OBVIOUS
<1> HIDE DEF a
<1>7. used + 1 \in 0 .. MaxTokens
  BY <1>3, SessionsAssumption
<1>8. [a[c] EXCEPT !.child = used + 1] \in SessionCallType
  BY <1>5, <1>7 DEF SessionCallType
<1>9. call' = [d \in Calls |-> IF d = c THEN [a[c] EXCEPT !.child = used + 1] ELSE a[d]]
  BY <1>5, <1>6
<1>10. /\ call' \in [Calls -> SessionCallType] /\ \A d \in Calls \ {c} : call'[d] = call[d]
       /\ call'[c].step = "audit" /\ call'[c].cookie = call[c].cookie /\ call'[c].child = used + 1
       /\ call'[c].known = call[c].known /\ call'[c].alarm = call[c].alarm
  <2> DEFINE b == [a[c] EXCEPT !.child = used + 1]
  <2>1. /\ b.step = "audit" /\ b.cookie = call[c].cookie /\ b.child = used + 1
        /\ b.known = call[c].known /\ b.alarm = call[c].alarm
    BY <1>5 DEF SessionCallType
  <2> HIDE DEF b
  <2> QED BY <1>5, <1>8, <1>9, <2>1 DEF b
<1>11. CallInv(c)'
  <2>1. call[c].cookie \in Nat /\ call[c].known \in Nat
    BY CallTyped, SessionsAssumption DEF SessionCallType
  <2> QED BY <1>1, <1>3, <1>4, <1>10, <2>1 DEF CallInv
<1>12. RoomInv'
  <2>1. Pending' = Pending \ {c}
    BY <1>3, <1>10 DEF Pending
  <2>2. Cardinality(Pending') = Cardinality(Pending) - 1
    BY <1>1, <2>1, FS_RemoveElement, PendingFinite
  <2> QED BY <1>3, <1>4, <2>2, PendingFinite, SessionsAssumption DEF RoomInv, SessionsInv
<1>13. quiet' \in BOOLEAN
  BY DEF SessionsInv, SessionTypes
<1> QED BY <1>4, <1>10, <1>11, <1>12, <1>13, ApiMoves

LEMMA LooksUp ==
  ASSUME SessionsInv, NEW c \in Calls, RefreshFindToken(c)
  PROVE  SessionsInv'
<1> DEFINE k == call[c].cookie
           step == FoundStep(k)
           a == [call[c] EXCEPT !.step = step, !.user = tok[k].user]
           b == [a EXCEPT !.known = used, !.alarm = ~tok[k].live]
<1>1. /\ call[c].op = "refresh" /\ call[c].step = "lookup" /\ UNCHANGED <<tok, used, cookie, tab, quiet, ended>>
      /\ call' = [call EXCEPT ![c].step = step, ![c].user = tok[k].user,
                             ![c].known = used, ![c].alarm = ~tok[k].live]
  BY DEF RefreshFindToken, Rest
<1>2. CallInv(c) /\ used \in 0 .. MaxTokens /\ k \in 0 .. MaxTokens /\ k # 0
  BY <1>1, CallTyped DEF SessionsInv, SessionTypes, CallInv, SessionCallType
<1>3. k \in Token /\ tok[k] \in TokenType
  BY <1>2, SessionsAssumption DEF Token, SessionsInv, SessionTypes
<1>4. step \in {"revokeAll", "revokeOne", "rotate"} /\ (~tok[k].live => step = "revokeAll")
  BY DEF FoundStep
<1> HIDE DEF k, step
<1>5. call' = [d \in Calls |-> IF d = c THEN b ELSE call[d]]
  <2>1. DOMAIN call = Calls
    BY CallTyped
  <2>2. call' = [call EXCEPT ![c] = b]
    BY <1>1, <2>1
  <2> HIDE DEF a, b
  <2> QED BY <2>1, <2>2, CallTyped
<1>6. /\ a \in SessionCallType /\ a.step = step /\ a.op = "refresh" /\ a.cookie = k /\ a.child = call[c].child
  <2>1. tok[k].user \in Users \cup {NoUser}
    BY <1>3 DEF TokenType
  <2>2. call[c] \in SessionCallType /\ call[c].op = "refresh"
    BY <1>1, CallTyped
  <2>3. call[c].cookie = k
    BY DEF k
  <2> QED BY <1>4, <2>1, <2>2, <2>3 DEF SessionCallType
<1> HIDE DEF a
<1>7. /\ b \in SessionCallType /\ b.step = step /\ b.op = "refresh" /\ b.cookie = k /\ b.child = call[c].child
      /\ b.known = used /\ (b.alarm => step = "revokeAll")
  <2>1. (~tok[k].live) \in BOOLEAN
    OBVIOUS
  <2> DEFINE dead == ~tok[k].live
  <2>2. dead \in BOOLEAN /\ (dead => step = "revokeAll") /\ b = [a EXCEPT !.known = used, !.alarm = dead]
    BY <1>4
  <2> HIDE DEF dead, b
  <2>3. b \in SessionCallType /\ b.step = a.step /\ b.op = a.op /\ b.cookie = a.cookie /\ b.child = a.child
        /\ b.known = used /\ b.alarm = dead
    BY <1>2, <1>6, <2>2 DEF SessionCallType
  <2> QED BY <1>6, <2>2, <2>3
<1> HIDE DEF b
<1>8. call' \in [Calls -> SessionCallType] /\ call'[c] = b /\ \A d \in Calls \ {c} : call'[d] = call[d]
  BY <1>5, <1>7, CallTyped
<1>9. k <= used /\ call[c].child <= used /\ (step = "rotate" => call[c].child = 0)
  BY <1>1, <1>2 DEF CallInv, k
<1>10. CallInv(c)'
  <2>1. used' = used /\ used <= used /\ k # 0
    BY <1>1, <1>2
  <2> QED BY <1>4, <1>7, <1>8, <1>9, <2>1 DEF CallInv
<1> QED BY <1>1, <1>7, <1>8, <1>10, RowsStay, PendingShrinks, ApiMoves DEF SessionsInv, SessionTypes

LEMMA Rotates ==
  ASSUME SessionsInv, NEW c \in Calls, Rotate(c)
  PROVE  SessionsInv'
<1> DEFINE k == call[c].cookie
<1>1. call[c].step = "rotate" /\ UNCHANGED <<cookie, tab, quiet, ended>> /\ CallInv(c) /\ call[c] \in SessionCallType
  BY CallTyped DEF Rotate, SessionsInv
<1>2. k \in 0 .. used /\ k # 0 /\ call[c].user \in Users \cup {NoUser}
  BY <1>1 DEF CallInv, SessionCallType, SessionsInv, SessionTypes
<1>3. CASE tok[k].live
  BY <1>1, <1>2, <1>3, TakesPlace DEF Rotate
<1>4. CASE ~tok[k].live
  <2> DEFINE a == [call[c] EXCEPT !.step = "revokeAll"]
             b == [a EXCEPT !.alarm = TRUE]
  <2>1. UNCHANGED <<tok, used>> /\ call' = [call EXCEPT ![c].step = "revokeAll", ![c].alarm = TRUE]
    BY <1>4 DEF Rotate
  <2>2. call' = [d \in Calls |-> IF d = c THEN b ELSE call[d]]
    BY <2>1, CallTyped
  <2>3. /\ a \in SessionCallType /\ a.step = "revokeAll" /\ a.op = call[c].op /\ a.cookie = k
        /\ a.child = call[c].child /\ a.known = call[c].known
    BY <1>1 DEF SessionCallType
  <2> HIDE DEF a
  <2>4. /\ b \in SessionCallType /\ b.step = "revokeAll" /\ b.op = call[c].op /\ b.cookie = k
        /\ b.child = call[c].child /\ b.known = call[c].known
    BY <2>3 DEF SessionCallType
  <2> HIDE DEF b
  <2>5. call' \in [Calls -> SessionCallType] /\ call'[c] = b /\ \A d \in Calls \ {c} : call'[d] = call[d]
    BY <2>2, <2>4, CallTyped
  <2>6. CallInv(c)'
    BY <1>1, <1>2, <2>1, <2>4, <2>5 DEF CallInv
  <2> QED BY <1>1, <2>1, <2>4, <2>5, <2>6, RowsStay, PendingShrinks, ApiMoves DEF SessionsInv, SessionTypes
<1> QED BY <1>3, <1>4

\* The snapshot of the update has every live token of the user that there was.
LEMMA RevocationBegins ==
  ASSUME SessionsInv, NEW c \in Calls, RevokeAllStart(c)
  PROVE  SessionsInv'
<1> DEFINE mine == {k \in Token : tok[k].user = call[c].user /\ tok[k].live}
           a == [call[c] EXCEPT !.step = "revoking"]
           b == [a EXCEPT !.seen = mine]
<1>1. /\ call[c].step = "revokeAll" /\ UNCHANGED <<tok, used, cookie, tab, quiet, ended>>
      /\ CallInv(c) /\ call[c] \in SessionCallType /\ used \in 0 .. MaxTokens
  BY CallTyped DEF RevokeAllStart, Rest, SessionsInv, SessionTypes
<1>2. call' = [d \in Calls |-> IF d = c THEN b ELSE call[d]]
  BY CallTyped DEF RevokeAllStart
<1>3. /\ a \in SessionCallType /\ a.step = "revoking" /\ a.op = call[c].op /\ a.cookie = call[c].cookie
      /\ a.child = call[c].child /\ a.known = call[c].known /\ a.user = call[c].user
  BY <1>1 DEF SessionCallType
<1>4. mine \in SUBSET Token
  OBVIOUS
<1>5. \A k \in 1 .. call[c].known : tok[k].user = call[c].user /\ tok[k].live => k \in mine
  BY <1>1, SessionsAssumption DEF CallInv, SessionCallType, Token
<1> HIDE DEF a, mine
<1>6. /\ b \in SessionCallType /\ b.step = "revoking" /\ b.op = call[c].op /\ b.cookie = call[c].cookie
      /\ b.child = call[c].child /\ b.known = call[c].known /\ b.user = call[c].user /\ b.seen = mine
  BY <1>3, <1>4 DEF SessionCallType
<1> HIDE DEF b
<1>7. call' \in [Calls -> SessionCallType] /\ call'[c] = b /\ \A d \in Calls \ {c} : call'[d] = call[d]
  BY <1>2, <1>6, CallTyped
<1>8. CallInv(c)'
  BY <1>1, <1>5, <1>6, <1>7 DEF CallInv
<1> QED BY <1>1, <1>6, <1>7, <1>8, RowsStay, PendingShrinks, ApiMoves DEF SessionsInv, SessionTypes

\* It ends, and none of those is live.
LEMMA RevocationEnds ==
  ASSUME SessionsInv, NEW c \in Calls, RevokeAllEnd(c)
  PROVE  SessionsInv'
<1> DEFINE a == [call[c] EXCEPT !.step = "failed"]
           b == [a EXCEPT !.seen = {}]
<1>1. /\ call[c].step = "revoking" /\ UNCHANGED <<used, cookie, tab, quiet, ended>>
      /\ CallInv(c) /\ call[c] \in SessionCallType /\ used \in 0 .. MaxTokens
      /\ tok' = [k \in Token |-> IF k \in call[c].seen THEN [tok[k] EXCEPT !.live = FALSE] ELSE tok[k]]
  BY CallTyped DEF RevokeAllEnd, SessionsInv, SessionTypes
<1>2. call' = [d \in Calls |-> IF d = c THEN b ELSE call[d]]
  BY CallTyped DEF RevokeAllEnd
<1>3. /\ a \in SessionCallType /\ a.step = "failed" /\ a.op = call[c].op /\ a.cookie = call[c].cookie
      /\ a.child = call[c].child /\ a.known = call[c].known /\ a.user = call[c].user
  BY <1>1 DEF SessionCallType
<1> HIDE DEF a
<1>4. /\ b \in SessionCallType /\ b.step = "failed" /\ b.op = call[c].op /\ b.cookie = call[c].cookie
      /\ b.child = call[c].child /\ b.known = call[c].known /\ b.user = call[c].user
  BY <1>3 DEF SessionCallType
<1> HIDE DEF b
<1>5. call' \in [Calls -> SessionCallType] /\ call'[c] = b /\ \A d \in Calls \ {c} : call'[d] = call[d]
  BY <1>2, <1>4, CallTyped
<1>6. \A k \in Token : tok[k] \in TokenType /\ [tok[k] EXCEPT !.live = FALSE] \in TokenType
  BY DEF SessionsInv, SessionTypes, TokenType
<1>7. /\ tok' \in [Token -> TokenType]
      /\ \A k \in Token : /\ tok'[k].user = tok[k].user /\ tok'[k].parent = tok[k].parent
                          /\ tok'[k].root = tok[k].root /\ (tok'[k].live => tok[k].live)
                          /\ (k \in call[c].seen => ~tok'[k].live)
  BY <1>1, <1>6 DEF TokenType
<1>8. \A k \in 1 .. call[c].known : tok'[k].user = call[c].user => ~tok'[k].live
  <2> SUFFICES ASSUME NEW k \in 1 .. call[c].known, tok'[k].user = call[c].user, tok'[k].live
               PROVE  FALSE
    OBVIOUS
  <2>1. k \in Token
    BY <1>1, SessionsAssumption DEF CallInv, SessionCallType, Token
  <2>2. tok[k].user = call[c].user /\ tok[k].live
    BY <1>7, <2>1
  <2> QED BY <1>1, <1>7, <2>1, <2>2 DEF CallInv
<1>9. CallInv(c)'
  BY <1>1, <1>4, <1>5, <1>8 DEF CallInv
<1> QED BY <1>1, <1>4, <1>5, <1>7, <1>9, RowsFade, PendingShrinks, ApiMoves DEF SessionsInv, SessionTypes

-----------------------------------------------------------------------------
(* The answer.                                                             *)
LEMMA PagesTyped ==
  ASSUME SessionsInv, NEW c \in Calls, NEW t \in Tabs, NEW ok \in BOOLEAN
  PROVE  PageAfter(c, t, ok) \in TabType
<1>1. tab[t] \in TabType /\ call[c].user \in Users \cup {NoUser} /\ LoginPage \in TabType
  BY CallTyped DEF SessionsInv, SessionTypes, SessionCallType, LoginPage, TabType
<1>2. LoggedOut(t) \in TabType /\ Refused(t) \in TabType
  <2>1. [LoginPage EXCEPT !.waiting = tab[t].waiting] \in TabType
    BY <1>1 DEF LoginPage, TabType
  <2> DEFINE p == [tab[t] EXCEPT !.page = "login"]
  <2>2. p \in TabType
    BY <1>1 DEF TabType
  <2> HIDE DEF p
  <2>3. [p EXCEPT !.waiting = {}] \in TabType
    BY <2>2 DEF TabType
  <2> QED BY <1>1, <2>1, <2>3 DEF LoggedOut, Refused, p
<1>3. SignedIn(c, t) \in TabType
  <2> DEFINE w == IF call[c].op = "refresh" THEN {} ELSE tab[t].waiting
             p == [tab[t] EXCEPT !.page = "admin"]
             q == [p EXCEPT !.user = call[c].user]
  <2>1. w \in SUBSET {"load", "request"}
    BY <1>1 DEF TabType
  <2>2. p \in TabType /\ p.waiting = tab[t].waiting
    BY <1>1 DEF TabType
  <2>3. SignedIn(c, t) = [q EXCEPT !.waiting = w]
    BY <1>1 DEF SignedIn, TabType
  <2> HIDE DEF p, w
  <2>4. q \in TabType
    BY <1>1, <2>2 DEF TabType
  <2> HIDE DEF q
  <2>5. [q EXCEPT !.waiting = w] \in TabType
    BY <2>1, <2>4 DEF TabType
  <2> QED BY <2>3, <2>5
<1> QED BY <1>1, <1>2, <1>3 DEF PageAfter

LEMMA Delivers ==
  ASSUME SessionsInv, NEW c \in Calls, NEW ok \in BOOLEAN, NEW stored \in BOOLEAN,
         Deliver(c, ok, stored), quiet' \in BOOLEAN
  PROVE  SessionsInv'
<1> DEFINE t == call[c].tab
           reload == t # NoTab /\ ~ok /\ call[c].op = "refresh" /\ "request" \in tab[t].waiting
           others == IF reload THEN Orphaned(t) ELSE call
<1>1. /\ cookie' = IF stored THEN CookieAfter(c) ELSE cookie
      /\ tab' = IF t = NoTab THEN tab ELSE [tab EXCEPT ![t] = PageAfter(c, t, ok)]
      /\ call' = [others EXCEPT ![c] = Idle] /\ UNCHANGED <<tok, used>>
  BY DEF Deliver
<1>2. call[c] \in SessionCallType /\ CallInv(c) /\ t \in Tabs \cup {NoTab}
  BY CallTyped DEF SessionsInv, SessionCallType
<1>3. cookie' <= used' /\ cookie' \in 0 .. MaxTokens
  <2>1. cookie' \in {cookie, 0, call[c].child} /\ used' = used
    BY <1>1 DEF CookieAfter
  <2>2. cookie \in 0 .. used /\ call[c].child \in 0 .. used /\ used \in 0 .. MaxTokens
    BY <1>2 DEF CallInv, SessionCallType, SessionsInv, SessionTypes
  <2> QED BY <2>1, <2>2, SessionsAssumption
<1>4. ended' \in SUBSET Token
  <2>1. ended' = ended \/ (ended' = ended \cup {call[c].cookie} /\ call[c].cookie # 0)
    BY DEF Deliver
  <2>2. call[c].cookie \in 0 .. MaxTokens /\ ended \in SUBSET Token
    BY <1>2 DEF SessionCallType, SessionsInv, SessionTypes
  <2>3. call[c].cookie # 0 => call[c].cookie \in Token
    BY <2>2, SessionsAssumption DEF Token
  <2> QED BY <2>1, <2>2, <2>3
<1>5. tab' \in [Tabs -> TabType]
  BY <1>1, <1>2, PagesTyped DEF SessionsInv, SessionTypes
<1>6. /\ others \in [Calls -> SessionCallType]
      /\ \A d \in Calls : others[d] = call[d] \/ others[d] = [call[d] EXCEPT !.tab = NoTab]
  BY OrphanedFacts, CallTyped
<1> HIDE DEF others
<1>7. call' \in [Calls -> SessionCallType] /\ call'[c] = Idle
      /\ \A d \in Calls \ {c} : call'[d] = call[d] \/ call'[d] = [call[d] EXCEPT !.tab = NoTab]
  BY <1>1, <1>6, IdleFacts
<1>8. \A d \in Calls \ {c} : Carried(d)
  <2> SUFFICES ASSUME NEW d \in Calls \ {c} PROVE Carried(d)
    OBVIOUS
  <2>1. call[d] \in SessionCallType
    BY CallTyped
  <2> QED BY <1>7, <2>1 DEF Carried, SessionCallType
<1>9. \A d \in Calls \ {c} : CallInv(d)'
  BY <1>1, <1>8, RowsStay, OthersKeep
<1>10. CallInv(c)'
  BY <1>1, <1>7, IdleFacts DEF CallInv, SessionsInv, SessionTypes
<1>11. RoomInv'
  <2>1. Pending' \subseteq Pending
    BY <1>7, <1>8, IdleFacts DEF Pending, Carried
  <2> QED BY <1>1, <2>1, RoomStays
<1>12. SessionTypes'
  BY <1>1, <1>3, <1>4, <1>5, <1>7 DEF SessionsInv, SessionTypes
<1> QED BY <1>1, <1>3, <1>9, <1>10, <1>11, <1>12, RowsStay DEF SessionsInv

LEMMA ApiKeeps ==
  ASSUME SessionsInv, NEW c \in Calls, ApiStep(c)
  PROVE  SessionsInv'
<1>1. call[c] \in SessionCallType /\ CallInv(c) /\ quiet \in BOOLEAN /\ tok \in [Token -> TokenType]
  BY CallTyped DEF SessionsInv, SessionTypes
<1>2. CASE LoginFindUser(c)
  BY <1>1, <1>2, RowsSame, Advances DEF LoginFindUser, Rest, CallInv
<1>3. CASE IssueTokens(c)
  <2>1. 0 \in 0 .. used /\ call[c].user \in Users \cup {NoUser}
    BY <1>1 DEF SessionsInv, SessionTypes, SessionCallType
  <2> QED BY <1>3, <2>1, TakesPlace DEF IssueTokens
<1>4. CASE RefreshFindToken(c)
  BY <1>4, LooksUp
<1>5. CASE RevokeExpired(c)
  <2>1. call[c].cookie \in 0 .. MaxTokens /\ tok' = [tok EXCEPT ![call[c].cookie].live = FALSE]
    BY <1>1, <1>5 DEF RevokeExpired, SessionCallType
  <2> QED BY <1>1, <1>5, <2>1, RevokedOne, Advances DEF RevokeExpired
<1>6. CASE Rotate(c)
  BY <1>6, Rotates
<1>7. CASE RevokeAllStart(c)
  BY <1>7, RevocationBegins
<1>8. CASE RevokeAllEnd(c)
  BY <1>8, RevocationEnds
<1>9. CASE LogoutRevoke(c)
  <2>1. call[c].cookie \in 0 .. MaxTokens
        /\ (tok' = tok \/ tok' = [tok EXCEPT ![call[c].cookie].live = FALSE])
    BY <1>1, <1>9 DEF LogoutRevoke, SessionCallType
  <2>2. /\ tok' \in [Token -> TokenType]
        /\ \A j \in Token : /\ tok'[j].user = tok[j].user /\ tok'[j].parent = tok[j].parent
                            /\ tok'[j].root = tok[j].root /\ (tok'[j].live => tok[j].live)
    BY <2>1, RevokedOne, RowsSame
  <2> QED BY <1>1, <1>9, <2>2, Advances DEF LogoutRevoke
<1>10. CASE Audit(c)
  <2>1. quiet' \in BOOLEAN
    BY <1>1, <1>10 DEF Audit
  <2> QED BY <1>10, <2>1, RowsSame, Advances DEF Audit
<1>11. CASE Answer(c)
  BY <1>1, <1>11, Delivers DEF Answer
<1>12. CASE Refuse(c)
  BY <1>1, <1>12, Delivers DEF Refuse
<1>13. CASE LoseAnswer(c)
  BY <1>13, Delivers DEF LoseAnswer
<1> QED BY <1>2, <1>3, <1>4, <1>5, <1>6, <1>7, <1>8, <1>9, <1>10, <1>11, <1>12, <1>13 DEF ApiStep

LEMMA Expires ==
  ASSUME SessionsInv, NEW k \in Token, Expire(k)
  PROVE  SessionsInv'
<1>1. \A j \in Token : tok[j] \in TokenType /\ [tok[j] EXCEPT !.expired = TRUE] \in TokenType
  BY DEF SessionsInv, SessionTypes, TokenType
<1>2. tok' = [j \in Token |-> IF j = k THEN [tok[j] EXCEPT !.expired = TRUE] ELSE tok[j]]
  BY DEF Expire, SessionsInv, SessionTypes
<1>3. /\ tok' \in [Token -> TokenType]
      /\ \A j \in Token : /\ tok'[j].user = tok[j].user /\ tok'[j].parent = tok[j].parent
                          /\ tok'[j].root = tok[j].root /\ (tok'[j].live => tok[j].live)
  BY <1>1, <1>2 DEF TokenType
<1>4. /\ UNCHANGED <<used, tab, call, ended>> /\ (cookie' = 0 \/ cookie' = cookie)
      /\ quiet' \in BOOLEAN
  BY DEF Expire, SessionsInv, SessionTypes
<1>5. Aged /\ TokensInv'
  BY <1>3, <1>4, RowsFade
<1>6. \A d \in Calls : CallInv(d)'
  BY <1>4, <1>5, OthersKeep DEF Carried
<1>7. RoomInv'
  BY <1>4, RoomStays DEF Pending
<1>8. SessionTypes' /\ cookie' <= used'
  BY <1>3, <1>4, SessionsAssumption DEF SessionsInv, SessionTypes
<1> QED BY <1>5, <1>6, <1>7, <1>8 DEF SessionsInv

LEMMA SessionsStep == SessionsInv /\ AccountsInv /\ [Next]_vars => SessionsInv' /\ AccountsInv'
<1> SUFFICES ASSUME SessionsInv, AccountsInv, [Next]_vars PROVE SessionsInv' /\ AccountsInv'
  OBVIOUS
<1>1. CASE SessionsNext /\ UNCHANGED accountVars
  <2>1. SessionsInv'
    BY <1>1, TabKeeps, ApiKeeps, Expires DEF SessionsNext
  <2> QED BY <1>1, <2>1, StepKeeps
<1>2. CASE UNCHANGED sessionVars /\ [AccountsNext]_accountVars
  <2>1. SessionsInv'
    <3>1. UNCHANGED <<tok, used, cookie, tab, call, quiet, ended>>
      BY <1>2 DEF sessionVars
    <3>2. \A d \in Calls : CallInv(d)'
      BY <3>1, RowsStay, OthersKeep DEF Carried
    <3>3. RoomInv'
      BY <3>1, RoomStays DEF Pending
    <3> QED BY <3>1, <3>2, <3>3, RowsStay DEF SessionsInv, SessionTypes
  <2> QED BY <1>2, <2>1, StepKeeps
<1> QED BY <1>1, <1>2 DEF Next, vars

\* However many calls present a token, it is rotated once and its login has one live
\* token; and an answer that reports reuse has ended every session that it knew of.
THEOREM RotationIsSound == Spec => []RotationSound
<1>1. SessionsInv /\ AccountsInv => RotationSound
  BY DEF SessionsInv, SessionTypes, AccountsInv, RotationSound, TypeOK, TokensInv, CallInv, AlarmEndsSessions
<1>2. Init => SessionsInv /\ AccountsInv
  BY SessionsInitInv, InitInv DEF Init
<1> QED BY <1>1, <1>2, SessionsStep, PTL DEF Spec

-----------------------------------------------------------------------------
(* A quiet browser: one call at a time, every answer seen.                 *)
CookieLive == cookie # 0 => tok[cookie].live
\* Nothing is left of the login that k belongs to.
Over(k) == \A j \in Token : tok[j].root = tok[k].root => ~tok[j].live

\* What the only call that runs has, or leaves, in the table.
Clean(c) ==
  /\ call[c].op \in {"login", "refresh", "logout"} /\ ~call[c].alarm
  /\ call[c].op = "login" => CookieLive /\ call[c].step \in {"lookup", "issue", "audit", "done", "failed"}
  /\ call[c].op = "refresh" =>
       /\ call[c].step # "revoke" /\ (call[c].cookie = 0 => call[c].step = "failed" /\ cookie = 0)
       /\ call[c].step \in {"lookup", "rotate"} => tok[call[c].cookie].live
  /\ call[c].op # "logout" /\ call[c].step \in {"audit", "done"} => call[c].child # 0 /\ tok[call[c].child].live
  /\ call[c].op = "logout" =>
       /\ call[c].step \in {"revoke", "audit", "done"}
       /\ call[c].step = "revoke" => call[c].cookie # 0 /\ tok[call[c].cookie].live
       /\ call[c].step # "revoke" /\ call[c].cookie # 0 /\ tok[call[c].cookie].user = call[c].user =>
            Over(call[c].cookie)
Calm ==
  /\ \A c, d \in Calls : call[c] # Idle /\ call[d] # Idle => c = d
  /\ (\A c \in Calls : call[c] = Idle) => CookieLive
  /\ \A c \in Calls : call[c] # Idle => Clean(c)
EndedInv == \A k \in ended : k <= used /\ Over(k)
QuietInv == (quiet => Calm) /\ EndedInv

LEMMA QuietInitInv == SessionsInit => QuietInv
BY DEF SessionsInit, QuietInv, Calm, CookieLive, EndedInv

\* A login that is over stays over: rows do not come back, and a rotation needs a live one.
LEMMA EndedFades ==
  ASSUME SessionsInv, EndedInv, UNCHANGED <<used, ended>>,
         \A k \in Token : tok'[k].root = tok[k].root /\ (tok'[k].live => tok[k].live)
  PROVE  EndedInv'
BY DEF EndedInv, Over, SessionsInv, SessionTypes

LEMMA EndedSurvives ==
  ASSUME SessionsInv, EndedInv, used < MaxTokens, UNCHANGED ended, NEW u \in Users \cup {NoUser},
         NEW p \in 0 .. used, p # 0 => tok[p].live, Create(u, p)
  PROVE  EndedInv'
<1> DEFINE n == used + 1
<1>1. /\ used' = n /\ n \in Token /\ tok'[n].root = (IF p = 0 THEN n ELSE tok[p].root)
      /\ \A k \in Token \ {n} : tok'[k].root = tok[k].root /\ (tok'[k].live => tok[k].live)
  BY Creates
<1> SUFFICES ASSUME NEW k \in ended PROVE k <= used' /\ Over(k)'
  BY DEF EndedInv
<1>2. k \in Token /\ k <= used /\ used \in Nat /\ Over(k)
  BY DEF EndedInv, SessionsInv, SessionTypes
<1>3. tok'[k].root = tok[k].root /\ tok[k].root \in 1 .. used
  BY <1>1, <1>2 DEF SessionsInv, TokensInv
<1>4. tok'[n].root # tok[k].root
  <2>1. CASE p = 0
    BY <1>1, <1>2, <1>3, <2>1
  <2>2. CASE p # 0
    <3>1. p \in Token
      BY <1>2, <2>2, SessionsAssumption DEF Token, SessionsInv, SessionTypes
    <3> QED BY <1>1, <1>2, <2>2, <3>1 DEF Over
  <2> QED BY <2>1, <2>2
<1>5. ASSUME NEW j \in Token, tok'[j].root = tok'[k].root
      PROVE  ~tok'[j].live
  <2>1. j # n
    BY <1>3, <1>4, <1>5
  <2> QED BY <1>1, <1>2, <1>3, <1>5, <2>1 DEF Over
<1> QED BY <1>1, <1>2, <1>5, SessionsAssumption DEF Over, Token

LEMMA QuietSends ==
  ASSUME SessionsInv, QuietInv, NEW c \in Calls, NEW t \in Tabs, NEW op \in {"login", "refresh", "logout"},
         NEW step \in {"lookup", "failed", "audit", "revoke"}, NEW u \in Users \cup {NoUser},
         Send(c, t, op, step, u), UNCHANGED <<tok, used, cookie, ended>>,
         op = "login" => step = "lookup",
         op = "refresh" => ~Refreshing(t) /\ step = (IF cookie = 0 THEN "failed" ELSE "lookup"),
         op = "logout" => step = (IF cookie = 0 THEN "audit" ELSE "revoke")
  PROVE  QuietInv'
<1>1. /\ (quiet' => quiet /\ Alone(t, op)) /\ \A d \in Calls \ {c} : call'[d] = call[d]
      /\ call'[c].op = op /\ call'[c].step = step /\ ~call'[c].alarm /\ call'[c].cookie = cookie
  BY Sent
<1>2. EndedInv'
  BY EndedFades DEF QuietInv
<1> SUFFICES ASSUME quiet' PROVE Calm'
  BY <1>2 DEF QuietInv
<1>3. \A d \in Calls : call[d] = Idle
  BY <1>1 DEF Alone, Refreshing
<1>4. CookieLive /\ CookieLive'
  BY <1>1, <1>3 DEF QuietInv, Calm, CookieLive
<1>5. call'[c] # Idle
  BY <1>1, IdleFacts
<1>6. Clean(c)'
  BY <1>1, <1>4 DEF Clean, CookieLive
<1> QED BY <1>1, <1>3, <1>5, <1>6 DEF Calm

\* The call that runs moves on: the others, if the browser is quiet, do not exist.
LEMMA QuietMoves ==
  ASSUME QuietInv, NEW c \in Calls, call[c].step # "idle", call'[c].step # "idle",
         \A d \in Calls \ {c} : call'[d] = call[d], quiet' => quiet, EndedInv',
         quiet /\ quiet' /\ Clean(c) => Clean(c)'
  PROVE  QuietInv'
<1> SUFFICES ASSUME quiet' PROVE Calm'
  BY DEF QuietInv
<1>1. call[c] # Idle /\ call'[c] # Idle
  BY IdleFacts
<1>2. \A d \in Calls \ {c} : call'[d] = Idle
  BY <1>1 DEF QuietInv, Calm
<1>3. Clean(c)'
  BY <1>1 DEF QuietInv, Calm
<1> QED BY <1>1, <1>2, <1>3 DEF Calm

LEMMA QuietDelivers ==
  ASSUME SessionsInv, QuietInv, NEW c \in Calls, call[c].step \in {"done", "failed"},
         NEW ok \in BOOLEAN, NEW stored \in BOOLEAN, Deliver(c, ok, stored),
         stored => call[c].step = "done",
         quiet' => quiet /\ (IF stored THEN TRUE ELSE call[c].op = "login" \/ (call[c].op = "refresh" /\ call[c].cookie = 0))
  PROVE  QuietInv'
<1> DEFINE t == call[c].tab
           reload == t # NoTab /\ ~ok /\ call[c].op = "refresh" /\ "request" \in tab[t].waiting
           others == IF reload THEN Orphaned(t) ELSE call
<1>1. /\ cookie' = IF stored THEN CookieAfter(c) ELSE cookie
      /\ call' = [others EXCEPT ![c] = Idle] /\ UNCHANGED <<tok, used>>
      /\ ended' = IF stored /\ quiet /\ call[c].op = "logout" /\ call[c].cookie # 0
                      /\ tok[call[c].cookie].user = call[c].user
                    THEN ended \cup {call[c].cookie} ELSE ended
  BY DEF Deliver
<1>2. call[c] # Idle /\ CallInv(c)
  BY IdleFacts DEF SessionsInv
<1>3. EndedInv'
  <2>1. \A k \in ended : k <= used' /\ Over(k)'
    BY <1>1 DEF QuietInv, EndedInv, Over
  <2>2. CASE ended' = ended
    BY <2>1, <2>2 DEF EndedInv
  <2>3. CASE ended' # ended
    <3>1. /\ stored /\ quiet /\ call[c].op = "logout" /\ call[c].cookie # 0
          /\ tok[call[c].cookie].user = call[c].user /\ ended' = ended \cup {call[c].cookie}
      BY <1>1, <2>3
    <3>2. Clean(c)
      BY <1>2, <3>1 DEF QuietInv, Calm
    <3>3. Over(call[c].cookie) /\ call[c].cookie <= used
      BY <1>2, <3>1, <3>2 DEF Clean, CallInv
    <3> QED BY <1>1, <2>1, <3>1, <3>3 DEF EndedInv, Over
  <2> QED BY <2>2, <2>3
<1> SUFFICES ASSUME quiet' PROVE Calm'
  BY <1>3 DEF QuietInv
<1>4. quiet /\ Clean(c) /\ \A d \in Calls \ {c} : call[d] = Idle
  BY <1>2 DEF QuietInv, Calm
<1>5. \A d \in Calls : call'[d] = Idle
  <2>1. \A d \in Calls \ {c} : others[d] = Idle
    <3> SUFFICES ASSUME NEW d \in Calls \ {c} PROVE others[d] = Idle
      OBVIOUS
    <3>1. call[d] = Idle /\ call[d].tab = NoTab
      BY <1>4, IdleFacts
    <3>2. reload => Orphaned(t)[d] = call[d]
      BY <3>1 DEF Orphaned
    <3> QED BY <3>1, <3>2
  <2>2. others \in [Calls -> SessionCallType]
    BY OrphanedFacts, CallTyped
  <2> HIDE DEF others
  <2> QED BY <1>1, <2>1, <2>2
<1>6. CookieLive'
  <2>1. CASE stored
    <3>1. cookie' = 0 \/ (call[c].op # "logout" /\ cookie' = call[c].child)
      BY <1>1, <2>1 DEF CookieAfter
    <3>2. call[c].op # "logout" => tok[call[c].child].live
      BY <1>4, <2>1 DEF Clean
    <3> QED BY <1>1, <3>1, <3>2 DEF CookieLive
  <2>2. CASE ~stored
    <3>1. CookieLive
      BY <1>4, <2>2 DEF Clean, CookieLive
    <3> QED BY <1>1, <2>2, <3>1 DEF CookieLive
  <2> QED BY <2>1, <2>2
<1> QED BY <1>5, <1>6 DEF Calm

\* What the call has after it has got a row, a lookup, a revocation.
LEMMA Grown ==
  ASSUME SessionsInv, NEW c \in Calls, NEW n, call' = [call EXCEPT ![c].step = "audit", ![c].child = n]
  PROVE  /\ \A d \in Calls \ {c} : call'[d] = call[d]
         /\ call'[c].step = "audit" /\ call'[c].op = call[c].op /\ call'[c].child = n
         /\ call'[c].alarm = call[c].alarm /\ call'[c].cookie = call[c].cookie
BY CallTyped DEF SessionCallType

LEMMA Found ==
  ASSUME SessionsInv, NEW c \in Calls, RefreshFindToken(c)
  PROVE  /\ UNCHANGED <<tok, used, cookie, quiet, ended>> /\ call[c].step = "lookup" /\ call[c].op = "refresh"
         /\ \A d \in Calls \ {c} : call'[d] = call[d]
         /\ call'[c].step \in {"revokeAll", "revokeOne", "rotate"} /\ call'[c].op = "refresh"
         /\ call'[c].cookie = call[c].cookie /\ (call'[c].alarm => ~tok[call[c].cookie].live)
BY CallTyped DEF RefreshFindToken, Rest, FoundStep, SessionCallType

LEMMA Revoked ==
  ASSUME SessionsInv, NEW c \in Calls, RevokeExpired(c) \/ RevokeAllStart(c) \/ RevokeAllEnd(c)
  PROVE  /\ \A k \in Token : tok'[k].root = tok[k].root /\ (tok'[k].live => tok[k].live)
         /\ \A d \in Calls \ {c} : call'[d] = call[d]
         /\ call'[c].step \in {"revoking", "failed"} /\ call'[c].op = call[c].op
         /\ call'[c].alarm = call[c].alarm /\ call'[c].cookie = call[c].cookie
<1>1. \A k \in Token : tok[k] \in TokenType
  BY DEF SessionsInv, SessionTypes
<1>2. CASE RevokeExpired(c)
  <2>1. call[c].cookie \in 0 .. MaxTokens /\ Step(c, "failed") /\ tok' = [tok EXCEPT ![call[c].cookie].live = FALSE]
    BY <1>2, CallTyped DEF RevokeExpired, SessionCallType
  <2> QED BY <2>1, RevokedOne, StepsTo
<1>3. CASE RevokeAllStart(c)
  <2>1. UNCHANGED tok
    BY <1>3 DEF RevokeAllStart, Rest
  <2> QED BY <1>3, <2>1, CallTyped DEF RevokeAllStart, SessionCallType
<1>4. CASE RevokeAllEnd(c)
  <2>1. tok' = [k \in Token |-> IF k \in call[c].seen THEN [tok[k] EXCEPT !.live = FALSE] ELSE tok[k]]
    BY <1>4 DEF RevokeAllEnd
  <2>2. \A k \in Token : tok'[k].root = tok[k].root /\ (tok'[k].live => tok[k].live)
    BY <1>1, <2>1 DEF TokenType
  <2> QED BY <1>4, <2>2, CallTyped DEF RevokeAllEnd, SessionCallType
<1> QED BY <1>2, <1>3, <1>4

\* A step of the API in a quiet browser.
LEMMA QuietApi ==
  ASSUME SessionsInv, QuietInv, NEW c \in Calls, ApiStep(c)
  PROVE  QuietInv'
<1>1. call[c] \in SessionCallType /\ CallInv(c) /\ tok \in [Token -> TokenType] /\ EndedInv
  BY CallTyped DEF SessionsInv, SessionTypes, QuietInv
<1>2. CASE LoginFindUser(c)
  <2>1. UNCHANGED <<tok, used, cookie, quiet, ended>> /\ call[c].step = "lookup" /\ call[c].op = "login"
    BY <1>2 DEF LoginFindUser, Rest
  <2>2. PICK step \in {"issue", "failed"} : Step(c, step)
    BY <1>2 DEF LoginFindUser
  <2>3. /\ \A d \in Calls \ {c} : call'[d] = call[d]
        /\ call'[c].step = step /\ call'[c].op = "login" /\ call'[c].alarm = call[c].alarm
    BY <2>1, <2>2, StepsTo
  <2>4. Clean(c) => Clean(c)'
    BY <2>1, <2>3 DEF Clean, CookieLive
  <2> QED BY <1>1, <2>1, <2>3, <2>4, EndedFades, QuietMoves
<1>3. CASE IssueTokens(c)
  <2> DEFINE n == used + 1
  <2>1. /\ call[c].step = "issue" /\ call[c].op = "login" /\ Create(call[c].user, 0)
        /\ UNCHANGED <<cookie, quiet, ended>>
        /\ call' = [call EXCEPT ![c].step = "audit", ![c].child = n]
    BY <1>1, <1>3 DEF IssueTokens, CallInv
  <2>2. used < MaxTokens /\ used \in Nat /\ 0 \in 0 .. used /\ call[c].user \in Users \cup {NoUser}
    BY <1>1, <2>1, HasPlace DEF SessionCallType
  <2>3. EndedInv'
    BY <1>1, <2>1, <2>2, EndedSurvives
  <2>4. n \in Token /\ tok'[n].live /\ \A k \in Token \ {n} : tok[k].live /\ k # 0 => tok'[k].live
    BY <2>1, <2>2, Creates
  <2>5. /\ \A d \in Calls \ {c} : call'[d] = call[d]
        /\ call'[c].step = "audit" /\ call'[c].op = "login" /\ call'[c].child = n
        /\ call'[c].alarm = call[c].alarm
    BY <1>1, <2>1, Grown
  <2>6. CookieLive => CookieLive'
    <3> SUFFICES ASSUME cookie # 0, tok[cookie].live PROVE tok'[cookie].live
      BY <2>1 DEF CookieLive
    <3>1. cookie \in Token /\ cookie # n
      BY <2>2, SessionsAssumption DEF SessionsInv, SessionTypes, Token
    <3> QED BY <2>4, <3>1
  <2>7. Clean(c) => Clean(c)'
    BY <2>1, <2>2, <2>4, <2>5, <2>6 DEF Clean
  <2> QED BY <2>1, <2>3, <2>5, <2>7, QuietMoves
<1>4. CASE RefreshFindToken(c)
  <2>1. /\ UNCHANGED <<tok, used, cookie, quiet, ended>> /\ call[c].step = "lookup" /\ call[c].op = "refresh"
        /\ \A d \in Calls \ {c} : call'[d] = call[d]
        /\ call'[c].step \in {"revokeAll", "revokeOne", "rotate"} /\ call'[c].op = "refresh"
        /\ call'[c].cookie = call[c].cookie /\ (call'[c].alarm => ~tok[call[c].cookie].live)
    BY <1>4, Found
  <2>2. Clean(c) => Clean(c)'
    BY <2>1 DEF Clean
  <2> QED BY <1>1, <2>1, <2>2, EndedFades, QuietMoves
<1>5. CASE Rotate(c)
  <2> DEFINE n == used + 1
             k == call[c].cookie
  <2>1. call[c].step = "rotate" /\ call[c].op = "refresh" /\ UNCHANGED <<cookie, quiet, ended>>
    BY <1>1, <1>5 DEF Rotate, CallInv
  <2>2. used < MaxTokens /\ used \in Nat /\ k \in 0 .. used /\ k # 0 /\ call[c].user \in Users \cup {NoUser}
    BY <1>1, <2>1, HasPlace DEF SessionCallType, CallInv
  <2>3. CASE tok[k].live
    <3>1. Create(call[c].user, k) /\ call' = [call EXCEPT ![c].step = "audit", ![c].child = n]
      BY <1>5, <2>3 DEF Rotate
    <3>2. EndedInv'
      BY <1>1, <2>1, <2>2, <2>3, <3>1, EndedSurvives
    <3>3. tok'[n].live
      BY <2>2, <2>3, <3>1, Creates
    <3>4. /\ \A d \in Calls \ {c} : call'[d] = call[d]
          /\ call'[c].step = "audit" /\ call'[c].op = "refresh" /\ call'[c].child = n
          /\ call'[c].alarm = call[c].alarm /\ call'[c].cookie = k
      BY <1>1, <2>1, <3>1, Grown
    <3>5. Clean(c) => Clean(c)'
      BY <2>1, <2>2, <3>3, <3>4 DEF Clean
    <3> QED BY <2>1, <3>2, <3>4, <3>5, QuietMoves
  <2>4. CASE ~tok[k].live
    <3>1. ~Clean(c)
      BY <2>1, <2>4 DEF Clean
    <3>2. UNCHANGED <<tok, used>> /\ call' = [call EXCEPT ![c].step = "revokeAll", ![c].alarm = TRUE]
      BY <1>5, <2>4 DEF Rotate
    <3>3. ~quiet
      BY <2>1, <3>1, IdleFacts DEF QuietInv, Calm
    <3>4. EndedInv'
      BY <1>1, <2>1, <3>2, EndedFades
    <3> QED BY <2>1, <3>3, <3>4 DEF QuietInv
  <2> QED BY <2>3, <2>4
<1>6. CASE RevokeExpired(c) \/ RevokeAllStart(c) \/ RevokeAllEnd(c)
  <2>1. /\ UNCHANGED <<used, cookie, quiet, ended>>
        /\ call[c].step \in {"revokeOne", "revokeAll", "revoking"} /\ call[c].op = "refresh" /\ call[c].cookie # 0
    BY <1>1, <1>6 DEF RevokeExpired, RevokeAllStart, RevokeAllEnd, Rest, CallInv
  <2>2. \A k \in Token : tok'[k].root = tok[k].root /\ (tok'[k].live => tok[k].live)
    BY <1>6, Revoked
  <2>3. /\ \A d \in Calls \ {c} : call'[d] = call[d]
        /\ call'[c].step \in {"revoking", "failed"} /\ call'[c].op = "refresh"
        /\ call'[c].alarm = call[c].alarm /\ call'[c].cookie = call[c].cookie
    BY <1>6, <2>1, Revoked
  <2>4. Clean(c) => Clean(c)'
    BY <2>1, <2>3 DEF Clean
  <2> QED BY <1>1, <2>1, <2>2, <2>3, <2>4, EndedFades, QuietMoves
<1>7. CASE LogoutRevoke(c)
  <2> DEFINE k == call[c].cookie
  <2>1. call[c].step = "revoke" /\ Step(c, "audit") /\ UNCHANGED <<used, cookie, quiet, ended>>
    BY <1>7 DEF LogoutRevoke
  <2>2. tok' = IF tok[k].user = call[c].user THEN [tok EXCEPT ![k].live = FALSE] ELSE tok
    BY <1>7 DEF LogoutRevoke
  <2>3. k \in 0 .. MaxTokens
    BY <1>1 DEF SessionCallType
  <2>4. \A j \in Token : /\ tok'[j].user = tok[j].user /\ tok'[j].root = tok[j].root
                         /\ (tok'[j].live => tok[j].live)
    BY <2>2, <2>3, RevokedOne
  <2>5. /\ \A d \in Calls \ {c} : call'[d] = call[d]
        /\ call'[c].step = "audit" /\ call'[c].op = call[c].op /\ call'[c].alarm = call[c].alarm
        /\ call'[c].cookie = k /\ call'[c].user = call[c].user
    BY <2>1, StepsTo
  <2>6. ASSUME Clean(c) PROVE Clean(c)'
    <3>1. call[c].op = "logout" /\ k # 0 /\ tok[k].live
      BY <2>1, <2>6 DEF Clean
    <3>2. k \in Token
      BY <2>3, <3>1, SessionsAssumption DEF Token
    <3>3. ASSUME tok[k].user = call[c].user, NEW j \in Token, tok'[j].root = tok'[k].root, tok'[j].live
          PROVE  FALSE
      <4>1. tok[j].live /\ tok[j].root = tok[k].root
        BY <2>4, <3>2, <3>3
      <4>2. j = k
        BY <3>1, <3>2, <4>1 DEF SessionsInv, TokensInv, OneLivePerLogin
      <4>3. ~tok'[k].live
        BY <1>1, <2>2, <3>2, <3>3 DEF TokenType
      <4> QED BY <3>3, <4>2, <4>3
    <3>4. tok'[k].user = tok[k].user
      BY <2>4, <3>2
    <3> QED BY <2>5, <2>6, <3>1, <3>3, <3>4 DEF Clean, Over
  <2> QED BY <1>1, <2>1, <2>4, <2>5, <2>6, EndedFades, QuietMoves
<1>8. CASE Audit(c)
  <2>1. call[c].step = "audit" /\ UNCHANGED <<tok, used, cookie, ended>>
    BY <1>8 DEF Audit
  <2>2. PICK step \in {"done", "failed"} : Step(c, step) /\ (quiet' => quiet /\ step = "done")
    BY <1>8 DEF Audit
  <2>3. /\ \A d \in Calls \ {c} : call'[d] = call[d]
        /\ call'[c].step = step /\ call'[c].op = call[c].op /\ call'[c].alarm = call[c].alarm
        /\ call'[c].cookie = call[c].cookie /\ call'[c].user = call[c].user /\ call'[c].child = call[c].child
    BY <2>2, StepsTo
  <2>4. step = "done" /\ Clean(c) => Clean(c)'
    BY <2>1, <2>3 DEF Clean, CookieLive, Over
  <2> QED BY <1>1, <2>1, <2>2, <2>3, <2>4, EndedFades, QuietMoves
<1>9. CASE Answer(c)
  BY <1>9, QuietDelivers DEF Answer
<1>10. CASE Refuse(c)
  <2>1. quiet' => quiet /\ (call[c].op = "refresh" => call[c].cookie = 0)
    BY <1>10 DEF Refuse
  <2>2. quiet => call[c].op \in {"login", "refresh"}
    BY <1>10, IdleFacts DEF Refuse, QuietInv, Calm, Clean
  <2> QED BY <1>10, <2>1, <2>2, QuietDelivers DEF Refuse
<1>11. CASE LoseAnswer(c)
  BY <1>11, QuietDelivers DEF LoseAnswer
<1> QED BY <1>2, <1>3, <1>4, <1>5, <1>6, <1>7, <1>8, <1>9, <1>10, <1>11 DEF ApiStep

LEMMA QuietTabs ==
  ASSUME SessionsInv, QuietInv, NEW t \in Tabs, TabStep(t)
  PROVE  QuietInv'
<1>1. tab[t] \in TabType /\ EndedInv
  BY DEF SessionsInv, SessionTypes, QuietInv
<1>2. CASE Reload(t)
  <2>1. UNCHANGED <<tok, used, cookie, ended>> /\ (quiet' => quiet /\ call' = call)
    BY <1>2 DEF Reload
  <2>2. EndedInv'
    BY <1>1, <2>1, EndedFades
  <2>3. quiet' => Calm'
    BY <2>1 DEF QuietInv, Calm, CookieLive, Clean, Over
  <2> QED BY <2>2, <2>3 DEF QuietInv
<1>3. ASSUME NEW c \in Calls, NEW who \in {"load", "request"}, NEW page \in TabType,
             RefreshAccessToken(c, t, who, page)
      PROVE  QuietInv'
  <2>1. UNCHANGED <<tok, used, cookie, ended>>
    BY <1>3 DEF RefreshAccessToken
  <2>2. CASE Refreshing(t)
    <3>1. UNCHANGED <<call, quiet>>
      BY <1>3, <2>2 DEF RefreshAccessToken
    <3>2. EndedInv'
      BY <1>1, <2>1, EndedFades
    <3>3. quiet' => Calm'
      BY <2>1, <3>1 DEF QuietInv, Calm, CookieLive, Clean, Over
    <3> QED BY <3>2, <3>3 DEF QuietInv
  <2>3. CASE ~Refreshing(t)
    <3>1. Send(c, t, "refresh", IF cookie = 0 THEN "failed" ELSE "lookup", NoUser)
      BY <1>3, <2>3 DEF RefreshAccessToken
    <3>2. CASE cookie = 0
      BY <2>1, <2>3, <3>1, <3>2, QuietSends
    <3>3. CASE cookie # 0
      BY <2>1, <2>3, <3>1, <3>3, QuietSends
    <3> QED BY <3>2, <3>3
  <2> QED BY <2>2, <2>3
<1>4. ASSUME NEW c \in Calls, Mount(c, t) \/ RequestUnauthorized(c, t)
      PROVE  QuietInv'
  <2>1. [tab[t] EXCEPT !.mount = FALSE] \in TabType
    BY <1>1 DEF TabType
  <2> QED BY <1>1, <1>3, <1>4, <2>1 DEF Mount, RequestUnauthorized
<1>5. ASSUME NEW c \in Calls, SubmitLogout(c, t)
      PROVE  QuietInv'
  <2>1. UNCHANGED <<tok, used, cookie, ended>> /\ tab[t].user \in Users \cup {NoUser}
    BY <1>1, <1>5 DEF SubmitLogout, TabType
  <2>2. CASE cookie = 0
    BY <1>5, <2>1, <2>2, QuietSends DEF SubmitLogout
  <2>3. CASE cookie # 0
    BY <1>5, <2>1, <2>3, QuietSends DEF SubmitLogout
  <2> QED BY <2>2, <2>3
<1>6. ASSUME NEW c \in Calls, NEW u \in People, SubmitLogin(c, t, u)
      PROVE  QuietInv'
  <2>1. UNCHANGED <<tok, used, cookie, ended>> /\ u \in Users \cup {NoUser}
    BY <1>6, SessionsAssumption DEF SubmitLogin
  <2> QED BY <1>6, <2>1, QuietSends DEF SubmitLogin
<1> QED BY <1>2, <1>4, <1>5, <1>6 DEF TabStep

LEMMA QuietExpires ==
  ASSUME SessionsInv, QuietInv, NEW k \in Token, Expire(k)
  PROVE  QuietInv'
<1>1. /\ UNCHANGED <<used, tab, call, ended>> /\ (cookie' = 0 \/ cookie' = cookie)
      /\ (quiet' => quiet)
  <2>1. UNCHANGED <<used, tab, call, ended>> /\ (cookie' = 0 \/ cookie' = cookie)
    BY DEF Expire
  <2>2. quiet' = quiet \/ quiet' = (quiet /\ cookie # k)
    BY DEF Expire
  <2>3. quiet' => quiet
    BY <2>2, Zenon
  <2> QED BY <2>1, <2>3
<1>2. \A j \in Token : tok[j] \in TokenType
  BY DEF SessionsInv, SessionTypes
<1>3. tok' = [j \in Token |-> IF j = k THEN [tok[j] EXCEPT !.expired = TRUE] ELSE tok[j]]
  BY DEF Expire, SessionsInv, SessionTypes
<1>4. \A j \in Token : /\ tok'[j].user = tok[j].user /\ tok'[j].root = tok[j].root
                      /\ (tok'[j].live <=> tok[j].live)
  BY <1>2, <1>3 DEF TokenType
<1>5. EndedInv'
  BY <1>1, <1>4, EndedFades DEF QuietInv
<1> SUFFICES ASSUME quiet' PROVE Calm'
  BY <1>5 DEF QuietInv
<1>6. quiet /\ Calm
  BY <1>1 DEF QuietInv
<1>7. \A j \in 0 .. MaxTokens : j # 0 => j \in Token
  BY SessionsAssumption DEF Token
<1>8. CookieLive => CookieLive'
  BY <1>1, <1>4, <1>7 DEF CookieLive, SessionsInv, SessionTypes
<1>9. ASSUME NEW c \in Calls, Clean(c) PROVE Clean(c)'
  <2>1. call[c].cookie \in 0 .. MaxTokens /\ call[c].child \in 0 .. MaxTokens /\ CallInv(c)
    BY CallTyped DEF SessionCallType, SessionsInv
  <2>2. call[c].cookie # 0 /\ tok[call[c].cookie].live => tok'[call[c].cookie].live
    BY <1>4, <1>7, <2>1
  <2>3. call[c].child # 0 /\ tok[call[c].child].live => tok'[call[c].child].live
    BY <1>4, <1>7, <2>1
  <2>4. call[c].cookie # 0 =>
          /\ tok'[call[c].cookie].user = tok[call[c].cookie].user
          /\ Over(call[c].cookie) => \A j \in Token : tok'[j].root = tok'[call[c].cookie].root => ~tok'[j].live
    BY <1>4, <1>7, <2>1 DEF Over
  <2>5. call[c].op = "refresh" /\ call[c].step \in {"lookup", "rotate"} => call[c].cookie # 0
    BY <2>1 DEF CallInv
  <2> QED BY <1>1, <1>8, <1>9, <2>2, <2>3, <2>4, <2>5 DEF Clean, Over
<1> QED BY <1>1, <1>6, <1>8, <1>9 DEF Calm

LEMMA QuietStep == SessionsInv /\ QuietInv /\ [Next]_vars => QuietInv'
<1> SUFFICES ASSUME SessionsInv, QuietInv, [Next]_vars PROVE QuietInv'
  OBVIOUS
<1>1. CASE SessionsNext
  BY <1>1, QuietTabs, QuietApi, QuietExpires DEF SessionsNext
<1>2. CASE UNCHANGED sessionVars
  BY <1>2 DEF sessionVars, QuietInv, Calm, EndedInv, CookieLive, Clean, Over
<1> QED BY <1>1, <1>2 DEF Next, vars

\* Without an overlap or a lost answer no browser is accused of reuse, and a logout
\* that was answered has ended its login: for any tabs, people and tokens.
THEOREM QuietBrowserIsSafe == Spec => [](NoFalseAlarm /\ LogoutEndsLogin)
<1>1. QuietInv => NoFalseAlarm /\ LogoutEndsLogin
  BY IdleFacts DEF QuietInv, Calm, Clean, EndedInv, Over, NoFalseAlarm, LogoutEndsLogin
<1>2. Init => SessionsInv /\ AccountsInv /\ QuietInv
  BY SessionsInitInv, InitInv, QuietInitInv DEF Init
<1>3. SessionsInv /\ AccountsInv /\ QuietInv /\ [Next]_vars => SessionsInv' /\ AccountsInv' /\ QuietInv'
  BY SessionsStep, QuietStep
<1> QED BY <1>1, <1>2, <1>3, PTL DEF Spec

-----------------------------------------------------------------------------
(* The second factor.                                                        *)
\* Which step is of which method, and what has been settled before it.
StepSound(r) ==
  /\ r.step = "idle" => r = NoFactorCall
  /\ r.step = "policy" => r.op \in {"login", "enrollSetup", "enroll", "disable"}
  /\ r.step = "ensure" => r.op \in {"login", "enrollSetup"}
  /\ r.step = "fresh" => r.op \in {"login", "enrollSetup", "setup"}
  /\ r.step = "write" => r.op \in {"enable", "enroll", "disable"}
  /\ r.step = "issue" => r.op \in {"login", "verify", "enroll"}
  /\ r.step = "answer" /\ r.op \in {"enrollSetup", "setup"} => r.secret # 0
  /\ r.op = "enroll" /\ r.step \in {"policy", "write"} => r.secret # 0
  /\ r.op = "enroll" /\ r.step = "write" => r.code = r.secret
  /\ r.code \in Codes2FA

\* What a call that met no other one has read is still so.
Undisturbed(r) == r.alone =>
  /\ r.step = "policy" => r.secret = secret /\ (r.enabled <=> enabled)
  /\ r.step = "policy" /\ r.op = "login" => ~(enabled /\ secret # 0)
  /\ r.step = "policy" /\ r.op = "enrollSetup" => ~enabled
  /\ r.step \in {"ensure", "fresh"} /\ r.op # "setup" => ~enabled
  /\ r.step = "write" /\ r.op = "enroll" => r.secret = secret
  /\ r.step = "write" /\ r.op = "disable" => ~required
  /\ r.step = "issue" /\ r.op = "login" => (enabled => secret = 0) /\ (~enabled => ~required)
  /\ r.step = "issue" /\ r.op \in {"verify", "enroll"} => enabled /\ Right(r.code)

\* What stands until calls overlap: what is on was scanned, or is about to be on.
FactorCalm(r) == calm =>
  /\ r.step = "write" /\ r.op = "enable" => secret \in app
  /\ r.step \in {"policy", "write"} /\ r.op = "enroll" => r.secret = secret

Apart == \A c, d \in FactorCalls :
  c # d /\ fcall[c].step # "idle" /\ fcall[d].step # "idle" => ~calm /\ ~fcall[c].alone

Bounded == IsFiniteSet(Generating) /\ made + Cardinality(Generating) <= MaxSecrets

FactorInv ==
  /\ TwoFactorTypeOK /\ NoLockOut /\ Apart /\ Bounded
  /\ \A c \in FactorCalls : StepSound(fcall[c]) /\ Undisturbed(fcall[c]) /\ FactorCalm(fcall[c])

\* The body of PolicyKept.
PolicyStep == required /\ enabled /\ ~enabled' =>
  \E c \in FactorCalls : fcall[c].step \in {"fresh", "write"} /\ (fcall[c].op = "setup" \/ ~fcall[c].alone)

LEMMA NoFactorCallTyped == NoFactorCall \in FactorCallType /\ NoFactorCall.step = "idle"
BY TwoFactorAssumption DEF NoFactorCall, FactorCallType

LEMMA FactorFields ==
  ASSUME NEW r \in FactorCallType
  PROVE  /\ r.op \in {"none", "login", "verify", "enrollSetup", "enroll", "setup", "enable", "disable"}
         /\ r.step \in {"idle", "policy", "ensure", "fresh", "write", "issue", "answer", "refuse"}
         /\ r.card \in Cards \cup {NoCard} /\ r.code \in 0 .. MaxSecrets
         /\ r.secret \in 0 .. MaxSecrets /\ r.enabled \in BOOLEAN /\ r.alone \in BOOLEAN
BY DEF FactorCallType

LEMMA RunningStep ==
  ASSUME FactorInv, NEW c \in FactorCalls
  PROVE  c \in Running <=> fcall[c].step # "idle"
BY NoFactorCallTyped DEF FactorInv, Running, StepSound

LEMMA GeneratingStep ==
  ASSUME FactorInv, NEW c \in FactorCalls
  PROVE  c \in Generating <=> fcall[c].op \in {"login", "enrollSetup", "setup"} /\ fcall[c].step \in {"policy", "ensure", "fresh"}
BY RunningStep DEF Generating

LEMMA FactorInit == TwoFactorInit => FactorInv
<1> SUFFICES ASSUME TwoFactorInit PROVE FactorInv
  OBVIOUS
<1>1. \A c \in FactorCalls : fcall[c] = NoFactorCall
  BY DEF TwoFactorInit
<1>2. Generating = {}
  BY <1>1 DEF Generating, Running
<1>3. TwoFactorTypeOK
  <2>1. form \in [token : {"none", "2fa", "enroll"}, data : 0 .. MaxSecrets]
    BY TwoFactorAssumption DEF TwoFactorInit, Password
  <2>2. card \in [Cards -> [on : BOOLEAN, data : 0 .. MaxSecrets]]
    BY TwoFactorAssumption DEF TwoFactorInit
  <2>3. fcall \in [FactorCalls -> FactorCallType]
    BY NoFactorCallTyped DEF TwoFactorInit
  <2>4. app \in SUBSET Secrets /\ secret \in 0 .. MaxSecrets /\ made \in 0 .. MaxSecrets
    BY TwoFactorAssumption DEF TwoFactorInit
  <2>5. enabled \in BOOLEAN /\ required \in BOOLEAN /\ calm \in BOOLEAN
    BY DEF TwoFactorInit
  <2> QED BY <2>1, <2>2, <2>3, <2>4, <2>5 DEF TwoFactorTypeOK
<1>4. Bounded
  BY <1>2, FS_EmptySet, TwoFactorAssumption DEF Bounded, TwoFactorInit
<1>5. NoLockOut /\ Apart
  BY <1>1, NoFactorCallTyped DEF TwoFactorInit, NoLockOut, Apart
<1>6. StepSound(NoFactorCall) /\ Undisturbed(NoFactorCall) /\ FactorCalm(NoFactorCall)
  BY DEF NoFactorCall, StepSound, Undisturbed, FactorCalm, Codes2FA
<1> QED BY <1>1, <1>3, <1>4, <1>5, <1>6 DEF FactorInv

-----------------------------------------------------------------------------
(* The bound on the secrets.                                               *)
LEMMA FewerGenerating ==
  ASSUME Bounded, MaxSecrets \in Nat, made \in Nat, Generating' \subseteq Generating, made' = made
  PROVE  Bounded'
<1>1. IsFiniteSet(Generating') /\ Cardinality(Generating') <= Cardinality(Generating)
  BY FS_Subset DEF Bounded
<1>2. Cardinality(Generating) \in Nat /\ Cardinality(Generating') \in Nat
  BY <1>1, FS_CardinalityType DEF Bounded
<1> QED BY <1>1, <1>2 DEF Bounded

LEMMA MoreGenerating ==
  ASSUME Bounded, MaxSecrets \in Nat, made \in Nat, made' = made, NEW c, Generating' \subseteq Generating \cup {c},
         made + Cardinality(Generating) < MaxSecrets
  PROVE  Bounded'
<1>1. /\ IsFiniteSet(Generating \cup {c}) 
      /\ Cardinality(Generating \cup {c}) = IF c \in Generating THEN Cardinality(Generating) ELSE Cardinality(Generating) + 1
  BY FS_AddElement DEF Bounded
<1>2. IsFiniteSet(Generating') /\ Cardinality(Generating') <= Cardinality(Generating \cup {c})
  BY <1>1, FS_Subset
<1>3. Cardinality(Generating) \in Nat /\ Cardinality(Generating') \in Nat
  BY <1>2, FS_CardinalityType DEF Bounded
<1> QED BY <1>1, <1>2, <1>3 DEF Bounded

LEMMA OneGenerated ==
  ASSUME Bounded, MaxSecrets \in Nat, made \in Nat, made' = made + 1, NEW c \in Generating,
         Generating' \subseteq Generating \ {c}
  PROVE  Bounded' /\ made' \in 1 .. MaxSecrets
<1>1. IsFiniteSet(Generating \ {c}) /\ Cardinality(Generating \ {c}) = Cardinality(Generating) - 1
  BY FS_RemoveElement DEF Bounded
<1>2. IsFiniteSet(Generating') /\ Cardinality(Generating') <= Cardinality(Generating \ {c})
  BY <1>1, FS_Subset
<1>3. Cardinality(Generating) \in Nat /\ Cardinality(Generating') \in Nat
  BY <1>2, FS_CardinalityType DEF Bounded
<1> QED BY <1>1, <1>2, <1>3 DEF Bounded

-----------------------------------------------------------------------------
(* Calls are taken.                                                        *)
\* The first step of a method, by what its read of the user decides.
Opening(op, code, next) ==
  /\ code \in Codes2FA
  /\ \/ op = "login" /\ (next = "answer" \/ (next = "policy" /\ ~(enabled /\ secret # 0)))
     \/ op = "verify" /\ (next = "refuse" \/ (next = "issue" /\ enabled /\ Right(code)))
     \/ op = "enrollSetup" /\ (next = "refuse" \/ (next = "policy" /\ ~enabled))
     \/ op = "enroll" /\ (next = "refuse" \/ (next = "policy" /\ secret # 0))
     \/ op = "setup" /\ next = "fresh"
     \/ op = "enable" /\ (next = "refuse" \/ (next = "write" /\ Right(code)))
     \/ op = "disable" /\ next = "policy"

\* A call and what another one leaves of it: it is no longer alone.
SameButMet(r, s) ==
  /\ s.op = r.op /\ s.step = r.step /\ s.card = r.card /\ s.code = r.code
  /\ s.secret = r.secret /\ s.enabled = r.enabled
  /\ s \in FactorCallType /\ (r.step # "idle" => ~s.alone) /\ (r.step = "idle" => s = r)

LEMMA Met ==
  ASSUME NEW r \in FactorCallType
  PROVE  r.step # "idle" => SameButMet(r, [r EXCEPT !.alone = FALSE])
BY DEF FactorCallType, SameButMet

LEMMA SubmitKeeps ==
  ASSUME FactorInv, NEW c \in FactorCalls, NEW op, NEW d \in Cards \cup {NoCard}, NEW code, NEW next,
         Opening(op, code, next), SubmitFactor(c, op, d, code, next)
  PROVE  FactorInv' /\ enabled' = enabled
<1> DEFINE none == Running = {}
           new == [op |-> op, step |-> next, card |-> d, code |-> code,
                   secret |-> secret, enabled |-> enabled, alone |-> none]
<1>1. /\ fcall[c] = NoFactorCall
      /\ op \in {"login", "enrollSetup", "setup"} => made + Cardinality(Generating) < MaxSecrets
      /\ fcall' = [x \in FactorCalls |-> IF x = c THEN new
                     ELSE IF x \in Running THEN [fcall[x] EXCEPT !.alone = FALSE] ELSE fcall[x]]
      /\ (calm' <=> calm /\ none) /\ calm' \in BOOLEAN
      /\ UNCHANGED <<secret, enabled, required, made, app, form, card>>
  BY DEF SubmitFactor
<1>t. /\ secret \in 0 .. MaxSecrets /\ enabled \in BOOLEAN /\ made \in Nat /\ app \subseteq Secrets
      /\ \A x \in FactorCalls : fcall[x] \in FactorCallType
  BY DEF FactorInv, TwoFactorTypeOK
<1>2. /\ new \in FactorCallType /\ new.step # "idle" /\ new.op = op /\ new.step = next /\ new.card = d
      /\ new.code = code /\ new.secret = secret /\ (new.enabled <=> enabled) /\ (new.alone <=> none)
  <2>1. /\ op \in {"login", "verify", "enrollSetup", "enroll", "setup", "enable", "disable"}
        /\ next \in {"policy", "fresh", "write", "issue", "answer", "refuse"}
    BY DEF Opening
  <2>2. code \in 0 .. MaxSecrets
    BY <1>t, TwoFactorAssumption DEF Opening, Codes2FA, Secrets
  <2>3. none \in BOOLEAN
    OBVIOUS
  <2> HIDE DEF none
  <2> QED BY <1>t, <2>1, <2>2, <2>3 DEF FactorCallType
<1>3. \A x \in FactorCalls \ {c} : SameButMet(fcall[x], fcall'[x])
  <2> SUFFICES ASSUME NEW x \in FactorCalls \ {c} PROVE SameButMet(fcall[x], fcall'[x])
    OBVIOUS
  <2>1. CASE x \in Running
    BY <1>1, <1>t, <2>1, Met, RunningStep
  <2>2. CASE x \notin Running
    BY <1>1, <1>t, <2>2, RunningStep DEF SameButMet
  <2> QED BY <2>1, <2>2
<1>4. fcall'[c] = new
  BY <1>1
<1>5. fcall' \in [FactorCalls -> FactorCallType]
  BY <1>1, <1>2, <1>3, <1>4 DEF SameButMet
<1>6. none => \A x \in FactorCalls : fcall[x].step = "idle"
  BY RunningStep
<1> HIDE DEF none, new
<1>7. TwoFactorTypeOK' /\ NoLockOut'
  BY <1>1, <1>5 DEF FactorInv, TwoFactorTypeOK, NoLockOut
<1>8. Apart'
  <2>1. \A x \in FactorCalls \ {c} : fcall'[x].step # "idle" => ~none /\ ~fcall'[x].alone
    BY <1>3, <1>6 DEF SameButMet
  <2>2. \A x \in FactorCalls \ {c} : fcall'[x].step # "idle" => ~calm' /\ ~fcall'[c].alone
    BY <1>1, <1>2, <1>4, <2>1
  <2> SUFFICES ASSUME NEW x \in FactorCalls, NEW y \in FactorCalls, x # y,
                      fcall'[x].step # "idle", fcall'[y].step # "idle"
               PROVE  ~calm' /\ ~fcall'[x].alone
    BY DEF Apart
  <2> QED BY <2>1, <2>2
<1>9. (StepSound(fcall[c]) /\ Undisturbed(fcall[c]) /\ FactorCalm(fcall[c]))'
  <2>1. Codes2FA' = Codes2FA
    BY <1>1 DEF Codes2FA
  <2>2. Right(code) => secret \in app
    BY DEF Opening, Right, Codes2FA
  <2> QED BY <1>1, <1>2, <1>4, <2>1, <2>2 DEF StepSound, Undisturbed, FactorCalm, Opening, Right
<1>10. \A x \in FactorCalls \ {c} : (StepSound(fcall[x]) /\ Undisturbed(fcall[x]) /\ FactorCalm(fcall[x]))'
  <2> SUFFICES ASSUME NEW x \in FactorCalls \ {c}
               PROVE  (StepSound(fcall[x]) /\ Undisturbed(fcall[x]) /\ FactorCalm(fcall[x]))'
    OBVIOUS
  <2>1. SameButMet(fcall[x], fcall'[x]) /\ StepSound(fcall[x]) /\ Undisturbed(fcall[x]) /\ FactorCalm(fcall[x])
    BY <1>3 DEF FactorInv
  <2>2. Codes2FA' = Codes2FA
    BY <1>1 DEF Codes2FA
  <2>3. CASE fcall[x].step = "idle"
    <3>1. fcall'[x] = fcall[x] /\ fcall'[x] = NoFactorCall
      BY <2>1, <2>3 DEF SameButMet, StepSound
    <3>2. StepSound(NoFactorCall)' /\ Undisturbed(NoFactorCall)' /\ FactorCalm(NoFactorCall)'
      BY DEF NoFactorCall, StepSound, Undisturbed, FactorCalm, Codes2FA
    <3> QED BY <3>1, <3>2
  <2>4. CASE fcall[x].step # "idle"
    BY <1>1, <2>1, <2>2, <2>4 DEF SameButMet, StepSound, Undisturbed, FactorCalm
  <2> QED BY <2>3, <2>4
<1>11. Bounded'
  <2>1. CASE op \in {"login", "enrollSetup", "setup"}
    <3>1. Generating' \subseteq Generating \cup {c}
      BY <1>3, NoFactorCallTyped, GeneratingStep, RunningStep DEF Generating, Running, SameButMet
    <3> QED BY <1>1, <1>t, <2>1, <3>1, MoreGenerating, TwoFactorAssumption DEF FactorInv
  <2>2. CASE op \notin {"login", "enrollSetup", "setup"}
    <3>1. Generating' \subseteq Generating
      BY <1>2, <1>3, <1>4, <2>2, NoFactorCallTyped, GeneratingStep, RunningStep DEF Generating, Running, SameButMet
    <3> QED BY <1>1, <1>t, <3>1, FewerGenerating, TwoFactorAssumption DEF FactorInv
  <2> QED BY <2>1, <2>2
<1> QED BY <1>1, <1>4, <1>7, <1>8, <1>9, <1>10, <1>11 DEF FactorInv

-----------------------------------------------------------------------------
(* Calls take their steps.                                                 *)
\* While call c takes a step the other calls, if any, count as disturbed.
Takes(c) ==
  /\ fcall' \in [FactorCalls -> FactorCallType]
  /\ \A d \in FactorCalls \ {c} : fcall'[d] = fcall[d]
  /\ fcall'[c].step # "idle" => (fcall'[c].alone <=> fcall[c].alone)
  /\ (calm' <=> calm) /\ calm' \in BOOLEAN /\ app \subseteq app'

LEMMA OtherFactorsKeep ==
  ASSUME FactorInv, NEW c \in FactorCalls, fcall[c].step # "idle", Takes(c),
         (StepSound(fcall[c]) /\ Undisturbed(fcall[c]) /\ FactorCalm(fcall[c]))'
  PROVE  /\ \A d \in FactorCalls : (StepSound(fcall[d]) /\ Undisturbed(fcall[d]) /\ FactorCalm(fcall[d]))'
         /\ Apart'
<1>1. \A d \in FactorCalls \ {c} :
        fcall'[d] = fcall[d] /\ (fcall[d].step # "idle" => ~calm /\ ~fcall[d].alone /\ ~fcall[c].alone)
  BY DEF FactorInv, Apart, Takes
<1>2. \A d \in FactorCalls \ {c} : (StepSound(fcall[d]) /\ Undisturbed(fcall[d]) /\ FactorCalm(fcall[d]))'
  <2> SUFFICES ASSUME NEW d \in FactorCalls \ {c}
               PROVE  (StepSound(fcall[d]) /\ Undisturbed(fcall[d]) /\ FactorCalm(fcall[d]))'
    OBVIOUS
  <2>1. CASE fcall[d].step = "idle"
    <3>1. fcall'[d] = NoFactorCall
      BY <1>1, <2>1 DEF FactorInv, StepSound
    <3>2. StepSound(NoFactorCall)' /\ Undisturbed(NoFactorCall)' /\ FactorCalm(NoFactorCall)'
      BY DEF NoFactorCall, StepSound, Undisturbed, FactorCalm, Codes2FA
    <3> QED BY <3>1, <3>2
  <2>2. CASE fcall[d].step # "idle"
    <3>1. StepSound(fcall[d]) /\ fcall'[d] = fcall[d] /\ ~calm' /\ ~fcall'[d].alone
      BY <1>1, <2>2 DEF FactorInv, Takes
    <3>2. Codes2FA \subseteq Codes2FA'
      BY DEF Takes, Codes2FA
    <3> QED BY <3>1, <3>2 DEF StepSound, Undisturbed, FactorCalm
  <2> QED BY <2>1, <2>2
<1>3. Apart'
  <2> SUFFICES ASSUME NEW x \in FactorCalls, NEW y \in FactorCalls, x # y,
                      fcall'[x].step # "idle", fcall'[y].step # "idle"
               PROVE  ~calm' /\ ~fcall'[x].alone
    BY DEF Apart
  <2> QED BY <1>1 DEF Takes
<1> QED BY <1>2, <1>3

LEMMA NoMoreGenerating ==
  ASSUME FactorInv, NEW c \in FactorCalls, \A d \in FactorCalls \ {c} : fcall'[d] = fcall[d], made' = made,
         fcall'[c].step \in {"policy", "ensure", "fresh"} => c \in Generating
  PROVE  Bounded'
<1>1. Generating' \subseteq Generating
  BY GeneratingStep, NoFactorCallTyped DEF Generating, Running
<1> QED BY <1>1, FewerGenerating, TwoFactorAssumption DEF FactorInv, TwoFactorTypeOK

\* A step that changes nothing of the account.
LEMMA FactorStepKeeps ==
  ASSUME FactorInv, NEW c \in FactorCalls, fcall[c].step # "idle", Takes(c),
         UNCHANGED <<secret, enabled, required, made>>,
         app' \subseteq Secrets, form' \in [token : {"none", "2fa", "enroll"}, data : 0 .. MaxSecrets],
         card' \in [Cards -> [on : BOOLEAN, data : 0 .. MaxSecrets]],
         fcall'[c].step \in {"policy", "ensure", "fresh"} => c \in Generating,
         (StepSound(fcall[c]) /\ Undisturbed(fcall[c]) /\ FactorCalm(fcall[c]))'
  PROVE  FactorInv' /\ enabled' = enabled
<1>1. TwoFactorTypeOK'
  BY DEF FactorInv, TwoFactorTypeOK, Takes
<1>2. NoLockOut'
  BY DEF FactorInv, NoLockOut, Takes
<1>3. Bounded'
  BY NoMoreGenerating DEF Takes
<1> QED BY <1>1, <1>2, <1>3, OtherFactorsKeep DEF FactorInv

LEMMA PolicyKeeps ==
  ASSUME FactorInv, NEW c \in FactorCalls, ReadPolicy(c)
  PROVE  FactorInv' /\ enabled' = enabled
<1> DEFINE r == fcall[c]
           step == Policy(r)
           q == [r EXCEPT !.step = step]
<1>1. /\ r \in FactorCallType /\ r.step = "policy" /\ StepSound(r) /\ Undisturbed(r) /\ FactorCalm(r)
      /\ r.op \in {"login", "enrollSetup", "enroll", "disable"}
      /\ app \subseteq Secrets /\ calm \in BOOLEAN
      /\ UNCHANGED <<secret, enabled, required, made, app, form, card, calm>>
  BY DEF FactorInv, TwoFactorTypeOK, ReadPolicy, At, StepSound
<1>2. /\ step \in {"ensure", "issue", "refuse", "write"}
      /\ step = "ensure" => r.op = "enrollSetup" \/ (r.op = "login" /\ ~r.enabled)
      /\ step = "issue" => r.op = "login" /\ ~(required /\ ~r.enabled)
      /\ step = "write" => \/ r.op = "enroll" /\ r.code = r.secret
                           \/ r.op = "disable" /\ ~required
  <2>1. CASE r.op = "login"
    BY <2>1 DEF Policy
  <2>2. CASE r.op = "enrollSetup"
    BY <2>2 DEF Policy
  <2>3. CASE r.op = "enroll"
    BY <2>3 DEF Policy
  <2>4. CASE r.op = "disable"
    BY <2>4 DEF Policy
  <2> QED BY <1>1, <2>1, <2>2, <2>3, <2>4
<1>3. fcall' = [fcall EXCEPT ![c] = q]
  BY DEF ReadPolicy, Go
<1> HIDE DEF step
<1>4. /\ q \in FactorCallType /\ q.step = step /\ q.op = r.op /\ q.code = r.code /\ q.card = r.card
      /\ q.secret = r.secret /\ (q.enabled <=> r.enabled) /\ (q.alone <=> r.alone)
  BY <1>1, <1>2 DEF FactorCallType
<1> HIDE DEF q
<1>5. fcall'[c] = q /\ Takes(c)
  BY <1>1, <1>3, <1>4 DEF FactorInv, TwoFactorTypeOK, Takes
<1>6. (StepSound(fcall[c]) /\ Undisturbed(fcall[c]) /\ FactorCalm(fcall[c]))'
  <2>1. Codes2FA' = Codes2FA
    BY <1>1 DEF Codes2FA
  <2>2. StepSound(fcall[c])'
    BY <1>1, <1>2, <1>4, <1>5, <2>1 DEF StepSound
  <2>3. Undisturbed(fcall[c])'
    BY <1>1, <1>2, <1>4, <1>5 DEF Undisturbed
  <2>4. FactorCalm(fcall[c])'
    BY <1>1, <1>2, <1>4, <1>5 DEF FactorCalm
  <2> QED BY <2>2, <2>3, <2>4
<1>7. fcall'[c].step \in {"policy", "ensure", "fresh"} => c \in Generating
  BY <1>1, <1>2, <1>4, <1>5, GeneratingStep
<1> QED BY <1>1, <1>5, <1>6, <1>7, FactorStepKeeps DEF FactorInv, TwoFactorTypeOK

LEMMA EnsureKeeps ==
  ASSUME FactorInv, NEW c \in FactorCalls, EnsureEnrollmentSecret(c)
  PROVE  FactorInv' /\ enabled' = enabled
<1> DEFINE r == fcall[c]
           step == IF secret # 0 THEN "answer" ELSE "fresh"
           p == [r EXCEPT !.secret = secret]
           q == [p EXCEPT !.step = step]
<1>1. /\ r \in FactorCallType /\ r.step = "ensure" /\ StepSound(r) /\ Undisturbed(r)
      /\ r.op \in {"login", "enrollSetup"} /\ secret \in 0 .. MaxSecrets
      /\ app \subseteq Secrets /\ calm \in BOOLEAN
      /\ UNCHANGED <<secret, enabled, required, made, app, form, card, calm>>
  BY DEF FactorInv, TwoFactorTypeOK, EnsureEnrollmentSecret, At, StepSound
<1>2. step \in {"answer", "fresh"} /\ (step = "answer" => secret # 0)
  OBVIOUS
<1>3. fcall' = [d \in FactorCalls |-> IF d = c THEN q ELSE fcall[d]]
  BY DEF EnsureEnrollmentSecret, FactorInv, TwoFactorTypeOK
<1> HIDE DEF step
<1>4. /\ q \in FactorCallType /\ q.step = step /\ q.op = r.op /\ q.code = r.code /\ q.card = r.card
      /\ q.secret = secret /\ (q.enabled <=> r.enabled) /\ (q.alone <=> r.alone)
  <2>1. /\ p \in FactorCallType /\ p.op = r.op /\ p.code = r.code /\ p.card = r.card
        /\ p.secret = secret /\ (p.enabled <=> r.enabled) /\ (p.alone <=> r.alone)
    BY <1>1 DEF FactorCallType
  <2> HIDE DEF p
  <2> QED BY <1>2, <2>1 DEF FactorCallType
<1> HIDE DEF q
<1>5. fcall'[c] = q /\ Takes(c)
  BY <1>1, <1>3, <1>4 DEF FactorInv, TwoFactorTypeOK, Takes
<1>6. (StepSound(fcall[c]) /\ Undisturbed(fcall[c]) /\ FactorCalm(fcall[c]))'
  <2>1. Codes2FA' = Codes2FA
    BY <1>1 DEF Codes2FA
  <2>2. StepSound(fcall[c])'
    BY <1>1, <1>2, <1>4, <1>5, <2>1 DEF StepSound
  <2>3. Undisturbed(fcall[c])'
    BY <1>1, <1>2, <1>4, <1>5 DEF Undisturbed
  <2>4. FactorCalm(fcall[c])'
    BY <1>1, <1>2, <1>4, <1>5 DEF FactorCalm
  <2> QED BY <2>2, <2>3, <2>4
<1>7. fcall'[c].step \in {"policy", "ensure", "fresh"} => c \in Generating
  BY <1>1, <1>2, <1>4, <1>5, GeneratingStep
<1> QED BY <1>1, <1>5, <1>6, <1>7, FactorStepKeeps DEF FactorInv, TwoFactorTypeOK

LEMMA IssueKeeps ==
  ASSUME FactorInv, NEW c \in FactorCalls, IssueSession(c)
  PROVE  FactorInv' /\ enabled' = enabled
<1> DEFINE r == fcall[c]
           p == [r EXCEPT !.step = "answer"]
           q == [p EXCEPT !.secret = 0]
<1>1. /\ r \in FactorCallType /\ r.step = "issue" /\ StepSound(r)
      /\ r.op \in {"login", "verify", "enroll"} /\ MaxSecrets \in Nat
      /\ app \subseteq Secrets /\ calm \in BOOLEAN
      /\ UNCHANGED <<secret, enabled, required, made, app, form, card, calm>>
  BY TwoFactorAssumption DEF FactorInv, TwoFactorTypeOK, IssueSession, At, StepSound
<1>2. fcall' = [d \in FactorCalls |-> IF d = c THEN q ELSE fcall[d]]
  BY DEF IssueSession, FactorInv, TwoFactorTypeOK
<1>3. /\ p \in FactorCallType /\ p.step = "answer" /\ p.op = r.op /\ p.code = r.code /\ (p.alone <=> r.alone)
  BY <1>1 DEF FactorCallType
<1> HIDE DEF p
<1>4. /\ q \in FactorCallType /\ q.step = "answer" /\ q.op = r.op /\ q.code = r.code /\ (q.alone <=> r.alone)
  BY <1>1, <1>3 DEF FactorCallType
<1> HIDE DEF q
<1>5. fcall'[c] = q /\ Takes(c)
  BY <1>1, <1>2, <1>4 DEF FactorInv, TwoFactorTypeOK, Takes
<1>6. (StepSound(fcall[c]) /\ Undisturbed(fcall[c]) /\ FactorCalm(fcall[c]))'
  BY <1>1, <1>4, <1>5 DEF StepSound, Undisturbed, FactorCalm, Codes2FA
<1>7. fcall'[c].step \in {"policy", "ensure", "fresh"} => c \in Generating
  BY <1>4, <1>5
<1> QED BY <1>1, <1>5, <1>6, <1>7, FactorStepKeeps DEF FactorInv, TwoFactorTypeOK

LEMMA AnswerKeeps ==
  ASSUME FactorInv, NEW c \in FactorCalls, AnswerTwoFactor(c) \/ RefuseTwoFactor(c)
  PROVE  FactorInv' /\ enabled' = enabled
<1> DEFINE r == fcall[c]
<1>1. /\ r \in FactorCallType /\ r.step \in {"answer", "refuse"} /\ StepSound(r)
      /\ app \subseteq Secrets /\ calm \in BOOLEAN /\ MaxSecrets \in Nat
      /\ form \in [token : {"none", "2fa", "enroll"}, data : 0 .. MaxSecrets]
      /\ card \in [Cards -> [on : BOOLEAN, data : 0 .. MaxSecrets]] /\ enabled \in BOOLEAN
      /\ UNCHANGED <<secret, enabled, required, made, calm>>
      /\ fcall' = [fcall EXCEPT ![c] = NoFactorCall]
  BY TwoFactorAssumption DEF FactorInv, TwoFactorTypeOK, AnswerTwoFactor, RefuseTwoFactor, At
<1>2. Password \in [token : {"none", "2fa", "enroll"}, data : 0 .. MaxSecrets]
  BY <1>1 DEF Password
<1>3. /\ app \subseteq app' /\ app' \subseteq Secrets
      /\ form' \in [token : {"none", "2fa", "enroll"}, data : 0 .. MaxSecrets]
      /\ card' \in [Cards -> [on : BOOLEAN, data : 0 .. MaxSecrets]]
  <2>1. CASE RefuseTwoFactor(c)
    BY <1>1, <1>2, <2>1 DEF RefuseTwoFactor
  <2>2. CASE AnswerTwoFactor(c)
    <3>1. r.secret \in 0 .. MaxSecrets /\ r.step = "answer" /\ r.card \in Cards \cup {NoCard}
      BY <1>1, <2>2, FactorFields DEF AnswerTwoFactor, At
    <3>2. Scanned(r) \subseteq Secrets /\ app' = app \cup Scanned(r)
      BY <1>1, <2>2, <3>1 DEF AnswerTwoFactor, Scanned, StepSound, Secrets
    <3>3. FormAfter(r) \in [token : {"none", "2fa", "enroll"}, data : 0 .. MaxSecrets]
      <4>1. \A f \in [token : {"none", "2fa", "enroll"}, data : 0 .. MaxSecrets] :
              [f EXCEPT !.data = r.secret] \in [token : {"none", "2fa", "enroll"}, data : 0 .. MaxSecrets]
        BY <3>1
      <4>2. /\ [token |-> "2fa", data |-> 0] \in [token : {"none", "2fa", "enroll"}, data : 0 .. MaxSecrets]
            /\ [token |-> "enroll", data |-> 0] \in [token : {"none", "2fa", "enroll"}, data : 0 .. MaxSecrets]
        BY <1>1
      <4> QED BY <1>1, <1>2, <4>1, <4>2 DEF FormAfter
    <3>4. CardAfter(r) \in [on : BOOLEAN, data : 0 .. MaxSecrets]
      BY <1>1, <3>1 DEF CardAfter
    <3>5. /\ form' = FormAfter(r) \/ form' = form
          /\ card' = card \/ card' = [card EXCEPT ![r.card] = CardAfter(r)]
      BY <2>2 DEF AnswerTwoFactor
    <3> QED BY <1>1, <3>2, <3>3, <3>4, <3>5
  <2> QED BY <2>1, <2>2
<1>4. fcall'[c] = NoFactorCall /\ Takes(c)
  BY <1>1, <1>3, NoFactorCallTyped DEF FactorInv, TwoFactorTypeOK, Takes
<1>5. (StepSound(fcall[c]) /\ Undisturbed(fcall[c]) /\ FactorCalm(fcall[c]))'
  BY <1>4 DEF NoFactorCall, StepSound, Undisturbed, FactorCalm, Codes2FA
<1>6. ~(fcall'[c].step \in {"policy", "ensure", "fresh"})
  BY <1>4, NoFactorCallTyped
<1> QED BY <1>1, <1>3, <1>4, <1>5, <1>6, FactorStepKeeps

LEMMA FreshKeeps ==
  ASSUME FactorInv, NEW c \in FactorCalls, FreshSecret(c)
  PROVE  FactorInv' /\ PolicyStep
<1> DEFINE r == fcall[c]
           p == [r EXCEPT !.secret = made + 1]
           q == [p EXCEPT !.step = "answer"]
<1>1. /\ r \in FactorCallType /\ r.step = "fresh" /\ StepSound(r) /\ Undisturbed(r)
      /\ r.op \in {"login", "enrollSetup", "setup"} /\ made \in Nat
      /\ app \subseteq Secrets /\ calm \in BOOLEAN
      /\ made' = made + 1 /\ secret' = made + 1 /\ enabled' = FALSE
      /\ UNCHANGED <<required, app, form, card, calm>>
  BY TwoFactorAssumption DEF FactorInv, TwoFactorTypeOK, FreshSecret, At, StepSound
<1>2. fcall' = [d \in FactorCalls |-> IF d = c THEN q ELSE fcall[d]]
  BY DEF FreshSecret, FactorInv, TwoFactorTypeOK
<1>3. c \in Generating
  BY <1>1, GeneratingStep
<1>4. \A d \in FactorCalls \ {c} : fcall'[d] = fcall[d]
  BY <1>2
<1>5. q.step = "answer"
  BY <1>1 DEF FactorCallType
<1>6. Generating' \subseteq Generating \ {c}
  BY <1>2, <1>4, <1>5, GeneratingStep, NoFactorCallTyped DEF Generating, Running
<1>7. Bounded' /\ made' \in 1 .. MaxSecrets
  BY <1>1, <1>3, <1>6, OneGenerated, TwoFactorAssumption DEF FactorInv
<1>8. /\ q \in FactorCallType /\ q.step = "answer" /\ q.op = r.op /\ q.code = r.code
      /\ q.secret = made + 1 /\ (q.alone <=> r.alone)
  <2>1. made + 1 \in 0 .. MaxSecrets
    BY <1>1, <1>7, TwoFactorAssumption
  <2>2. /\ p \in FactorCallType /\ p.op = r.op /\ p.code = r.code
        /\ p.secret = made + 1 /\ (p.alone <=> r.alone)
    BY <1>1, <2>1 DEF FactorCallType
  <2> HIDE DEF p
  <2> QED BY <2>2 DEF FactorCallType
<1> HIDE DEF q
<1>9. fcall'[c] = q /\ Takes(c)
  BY <1>1, <1>2, <1>8 DEF FactorInv, TwoFactorTypeOK, Takes
<1>10. (StepSound(fcall[c]) /\ Undisturbed(fcall[c]) /\ FactorCalm(fcall[c]))'
  BY <1>1, <1>8, <1>9 DEF StepSound, Undisturbed, FactorCalm, Codes2FA
<1>11. TwoFactorTypeOK' /\ NoLockOut'
  <2>1. secret' \in 0 .. MaxSecrets /\ made' \in 0 .. MaxSecrets
    BY <1>1, <1>7, TwoFactorAssumption
  <2>2. enabled' \in BOOLEAN /\ ~enabled'
    BY <1>1, Zenon
  <2> QED BY <1>1, <1>9, <2>1, <2>2 DEF FactorInv, TwoFactorTypeOK, NoLockOut, Takes
<1>12. PolicyStep
  BY <1>1 DEF PolicyStep, Undisturbed
<1> QED BY <1>1, <1>7, <1>9, <1>10, <1>11, <1>12, OtherFactorsKeep DEF FactorInv

LEMMA FactorWriteKeeps ==
  ASSUME FactorInv, NEW c \in FactorCalls, WriteTwoFactor(c)
  PROVE  FactorInv' /\ PolicyStep
<1> DEFINE r == fcall[c]
           step == IF r.op = "enroll" THEN "issue" ELSE "answer"
           q == [r EXCEPT !.step = step]
<1>1. /\ r \in FactorCallType /\ r.step = "write" /\ StepSound(r) /\ Undisturbed(r) /\ FactorCalm(r)
      /\ r.op \in {"enable", "enroll", "disable"} /\ secret \in 0 .. MaxSecrets
      /\ app \subseteq Secrets /\ calm \in BOOLEAN /\ MaxSecrets \in Nat
      /\ r.op = "disable" => enabled' = FALSE /\ secret' = 0
      /\ r.op # "disable" => enabled' = TRUE /\ secret' = secret
      /\ UNCHANGED <<required, made, app, form, card, calm>>
  BY TwoFactorAssumption DEF FactorInv, TwoFactorTypeOK, WriteTwoFactor, At, StepSound
<1>2. fcall' = [fcall EXCEPT ![c] = q]
  BY DEF WriteTwoFactor, Go
<1>3. step \in {"issue", "answer"} /\ (step = "issue" <=> r.op = "enroll")
  OBVIOUS
<1> HIDE DEF step
<1>4. /\ q \in FactorCallType /\ q.step = step /\ q.op = r.op /\ q.code = r.code /\ q.secret = r.secret
      /\ (q.alone <=> r.alone)
  BY <1>1, <1>3 DEF FactorCallType
<1> HIDE DEF q
<1>5. fcall'[c] = q /\ Takes(c)
  BY <1>1, <1>2, <1>4 DEF FactorInv, TwoFactorTypeOK, Takes
<1>6. (StepSound(fcall[c]) /\ Undisturbed(fcall[c]) /\ FactorCalm(fcall[c]))'
  BY <1>1, <1>3, <1>4, <1>5 DEF StepSound, Undisturbed, FactorCalm, Codes2FA, Right
<1>7. Bounded'
  BY <1>1, <1>3, <1>4, <1>5, NoMoreGenerating DEF Takes
<1>8. NoLockOut'
  BY <1>1 DEF NoLockOut, FactorCalm, StepSound, Codes2FA
<1>9. TwoFactorTypeOK'
  <2>1. secret' \in 0 .. MaxSecrets
    BY <1>1
  <2>2. enabled' = TRUE \/ enabled' = FALSE
    BY <1>1
  <2>3. enabled' \in BOOLEAN
    BY <2>2, Zenon
  <2> QED BY <1>1, <1>5, <2>1, <2>3 DEF FactorInv, TwoFactorTypeOK, Takes
<1>10. PolicyStep
  BY <1>1 DEF PolicyStep, Undisturbed
<1> QED BY <1>1, <1>5, <1>6, <1>7, <1>8, <1>9, <1>10, OtherFactorsKeep DEF FactorInv

-----------------------------------------------------------------------------
(* The other steps.                                                        *)
LEMMA PagesKeep ==
  ASSUME FactorInv, BackToPassword \/ SetPolicy \/ \E d \in Cards : ReloadCard(d)
  PROVE  FactorInv' /\ enabled' = enabled
<1>1. UNCHANGED <<secret, enabled, made, app, calm>> /\ MaxSecrets \in Nat
  BY TwoFactorAssumption DEF BackToPassword, SetPolicy, ReloadCard
<1>2. CASE UNCHANGED <<required, fcall>>
  <2>1. Generating' = Generating
    BY <1>2 DEF Generating, Running
  <2>2. TwoFactorTypeOK'
    <3>1. Password \in [token : {"none", "2fa", "enroll"}, data : 0 .. MaxSecrets]
      BY <1>1 DEF Password
    <3>2. form' = Password \/ form' = form
      BY <1>2 DEF BackToPassword, ReloadCard, SetPolicy
    <3>3. card' = card \/ \E d \in Cards : card' = [card EXCEPT ![d] = [on |-> enabled, data |-> 0]]
      BY <1>2 DEF BackToPassword, ReloadCard, SetPolicy
    <3>4. card' \in [Cards -> [on : BOOLEAN, data : 0 .. MaxSecrets]]
      BY <1>1, <3>3 DEF FactorInv, TwoFactorTypeOK
    <3> QED BY <1>1, <1>2, <3>1, <3>2, <3>4 DEF FactorInv, TwoFactorTypeOK
  <2> QED BY <1>1, <1>2, <2>1, <2>2 DEF FactorInv, NoLockOut, Apart, Bounded, StepSound, Undisturbed, FactorCalm,
                                        Codes2FA, Right
<1>3. CASE SetPolicy
  <2>1. /\ fcall' = [c \in FactorCalls |-> IF c \in Running THEN [fcall[c] EXCEPT !.alone = FALSE] ELSE fcall[c]]
        /\ required' = ~required /\ UNCHANGED <<form, card>>
        /\ \A c \in FactorCalls : fcall[c] \in FactorCallType
    BY <1>3 DEF SetPolicy, FactorInv, TwoFactorTypeOK
  <2>2. \A c \in FactorCalls : SameButMet(fcall[c], fcall'[c])
    <3> SUFFICES ASSUME NEW c \in FactorCalls PROVE SameButMet(fcall[c], fcall'[c])
      OBVIOUS
    <3>1. CASE c \in Running
      BY <2>1, <3>1, Met, RunningStep
    <3>2. CASE c \notin Running
      BY <2>1, <3>2, RunningStep DEF SameButMet
    <3> QED BY <3>1, <3>2
  <2>3. TwoFactorTypeOK'
    <3>1. fcall' \in [FactorCalls -> FactorCallType]
      BY <2>1, <2>2 DEF SameButMet
    <3>2. required' \in BOOLEAN
      BY <2>1 DEF FactorInv, TwoFactorTypeOK
    <3> QED BY <1>1, <2>1, <3>1, <3>2 DEF FactorInv, TwoFactorTypeOK
  <2>4. Bounded'
    <3>1. Generating' \subseteq Generating
      BY <2>2, NoFactorCallTyped, GeneratingStep, RunningStep DEF Generating, Running, SameButMet
    <3> QED BY <1>1, <3>1, FewerGenerating DEF FactorInv, TwoFactorTypeOK
  <2>5. Apart' /\ NoLockOut'
    BY <1>1, <2>2 DEF FactorInv, Apart, NoLockOut, SameButMet
  <2>6. \A c \in FactorCalls : (StepSound(fcall[c]) /\ Undisturbed(fcall[c]) /\ FactorCalm(fcall[c]))'
    <3> SUFFICES ASSUME NEW c \in FactorCalls
                 PROVE  (StepSound(fcall[c]) /\ Undisturbed(fcall[c]) /\ FactorCalm(fcall[c]))'
      OBVIOUS
    <3>1. SameButMet(fcall[c], fcall'[c]) /\ StepSound(fcall[c]) /\ FactorCalm(fcall[c]) /\ Codes2FA' = Codes2FA
      BY <1>1, <2>2 DEF FactorInv, Codes2FA
    <3>2. CASE fcall[c].step = "idle"
      <4>1. fcall'[c] = NoFactorCall
        BY <3>1, <3>2 DEF SameButMet, StepSound
      <4>2. StepSound(NoFactorCall)' /\ Undisturbed(NoFactorCall)' /\ FactorCalm(NoFactorCall)'
        BY DEF NoFactorCall, StepSound, Undisturbed, FactorCalm, Codes2FA
      <4> QED BY <4>1, <4>2
    <3>3. CASE fcall[c].step # "idle"
      BY <1>1, <3>1, <3>3 DEF SameButMet, StepSound, Undisturbed, FactorCalm
    <3> QED BY <3>2, <3>3
  <2> QED BY <1>1, <2>3, <2>4, <2>5, <2>6 DEF FactorInv
<1> QED BY <1>2, <1>3 DEF BackToPassword, ReloadCard

LEMMA CallsKeep ==
  ASSUME FactorInv, NEW c \in FactorCalls,
         \/ Login(c) \/ VerifyTwoFactorLogin(c) \/ SetupEnrollLogin(c) \/ CompleteEnrollLogin(c)
         \/ \E d \in Cards : SetupTwoFactor(c, d) \/ EnableTwoFactor(c, d) \/ DisableTwoFactor(c, d)
  PROVE  FactorInv' /\ enabled' = enabled
<1>1. 0 \in Codes2FA
  BY DEF Codes2FA
<1>2. CASE Login(c)
  <2> DEFINE next == IF enabled /\ secret # 0 THEN "answer" ELSE "policy"
  <2>1. Opening("login", 0, next) /\ SubmitFactor(c, "login", NoCard, 0, next)
    BY <1>1, <1>2 DEF Login, Opening
  <2> QED BY <2>1, SubmitKeeps
<1>3. CASE VerifyTwoFactorLogin(c)
  <2>1. PICK k \in Codes2FA :
          SubmitFactor(c, "verify", NoCard, k, IF enabled /\ Right(k) THEN "issue" ELSE "refuse")
    BY <1>3 DEF VerifyTwoFactorLogin
  <2>2. Opening("verify", k, IF enabled /\ Right(k) THEN "issue" ELSE "refuse")
    BY DEF Opening
  <2> QED BY <2>1, <2>2, SubmitKeeps
<1>4. CASE SetupEnrollLogin(c)
  <2> DEFINE next == IF enabled THEN "refuse" ELSE "policy"
  <2>1. Opening("enrollSetup", 0, next) /\ SubmitFactor(c, "enrollSetup", NoCard, 0, next)
    BY <1>1, <1>4 DEF SetupEnrollLogin, Opening
  <2> QED BY <2>1, SubmitKeeps
<1>5. CASE CompleteEnrollLogin(c)
  <2> DEFINE next == IF enabled \/ secret = 0 THEN "refuse" ELSE "policy"
  <2>1. PICK k \in Codes2FA : SubmitFactor(c, "enroll", NoCard, k, next)
    BY <1>5 DEF CompleteEnrollLogin
  <2>2. Opening("enroll", k, next)
    BY DEF Opening
  <2> QED BY <2>1, <2>2, SubmitKeeps
<1>6. ASSUME NEW d \in Cards, SetupTwoFactor(c, d)
      PROVE  FactorInv' /\ enabled' = enabled
  <2>1. Opening("setup", 0, "fresh") /\ SubmitFactor(c, "setup", d, 0, "fresh")
    BY <1>1, <1>6 DEF SetupTwoFactor, Opening
  <2> QED BY <2>1, SubmitKeeps
<1>7. ASSUME NEW d \in Cards, EnableTwoFactor(c, d)
      PROVE  FactorInv' /\ enabled' = enabled
  <2>1. PICK k \in Codes2FA : SubmitFactor(c, "enable", d, k, IF Right(k) THEN "write" ELSE "refuse")
    BY <1>7 DEF EnableTwoFactor
  <2>2. Opening("enable", k, IF Right(k) THEN "write" ELSE "refuse")
    BY DEF Opening
  <2> QED BY <2>1, <2>2, SubmitKeeps
<1>8. ASSUME NEW d \in Cards, DisableTwoFactor(c, d)
      PROVE  FactorInv' /\ enabled' = enabled
  <2>1. PICK k \in Codes2FA : SubmitFactor(c, "disable", d, k, "policy")
    BY <1>8 DEF DisableTwoFactor
  <2>2. Opening("disable", k, "policy")
    BY DEF Opening
  <2> QED BY <2>1, <2>2, SubmitKeeps
<1> QED BY <1>2, <1>3, <1>4, <1>5, <1>6, <1>7, <1>8

LEMMA FactorStep == FactorInv /\ [TwoFactorNext]_factorVars => FactorInv' /\ PolicyStep
<1> SUFFICES ASSUME FactorInv, [TwoFactorNext]_factorVars
             PROVE  FactorInv' /\ PolicyStep
  OBVIOUS
<1>1. enabled' = enabled => PolicyStep
  BY DEF PolicyStep
<1>2. CASE UNCHANGED factorVars
  <2>1. FactorInv'
    BY <1>2 DEF factorVars, FactorInv, TwoFactorTypeOK, NoLockOut, Apart, Bounded, Generating, Running,
                StepSound, Undisturbed, FactorCalm, Codes2FA, Right
  <2> QED BY <1>1, <1>2, <2>1 DEF factorVars
<1>3. CASE TwoFactorNext
  <2>1. CASE BackToPassword \/ SetPolicy \/ \E d \in Cards : ReloadCard(d)
    BY <1>1, <2>1, PagesKeep
  <2>2. ASSUME NEW c \in FactorCalls,
               \/ Login(c) \/ VerifyTwoFactorLogin(c) \/ SetupEnrollLogin(c) \/ CompleteEnrollLogin(c)
               \/ \E d \in Cards : SetupTwoFactor(c, d) \/ EnableTwoFactor(c, d) \/ DisableTwoFactor(c, d)
        PROVE  FactorInv' /\ PolicyStep
    BY <1>1, <2>2, CallsKeep
  <2>3. ASSUME NEW c \in FactorCalls,
               ReadPolicy(c) \/ EnsureEnrollmentSecret(c) \/ IssueSession(c) \/ AnswerTwoFactor(c) \/ RefuseTwoFactor(c)
        PROVE  FactorInv' /\ PolicyStep
    BY <1>1, <2>3, PolicyKeeps, EnsureKeeps, IssueKeeps, AnswerKeeps
  <2>4. ASSUME NEW c \in FactorCalls, FreshSecret(c) \/ WriteTwoFactor(c)
        PROVE  FactorInv' /\ PolicyStep
    BY <2>4, FreshKeeps, FactorWriteKeeps
  <2> QED BY <1>3, <2>1, <2>2, <2>3, <2>4 DEF TwoFactorNext
<1> QED BY <1>2, <1>3

LEMMA FactorsFollow == FactorInv => FactorsSound
<1> SUFFICES ASSUME FactorInv PROVE FactorsSound
  OBVIOUS
<1>1. SessionProven
  <2> SUFFICES ASSUME NEW c \in FactorCalls, fcall[c].step = "issue", fcall[c].alone,
                      IF enabled THEN secret # 0 ELSE required
               PROVE  enabled /\ Right(fcall[c].code)
    BY DEF SessionProven, At
  <2>1. StepSound(fcall[c]) /\ Undisturbed(fcall[c])
    BY DEF FactorInv
  <2> QED BY <2>1 DEF StepSound, Undisturbed
<1> QED BY <1>1 DEF FactorInv, FactorsSound

\* For any number of calls, browser tabs and secrets: until calls overlap, an account is
\* asked for codes only of a secret that its owner has scanned, and a call that met no other
\* one begins a session of an account that is on only with the right code.
THEOREM SecondFactorStands == TwoFactorSpec => []FactorsSound
BY FactorInit, FactorStep, FactorsFollow, PTL DEF TwoFactorSpec

\* Where the village requires the second factor, a factor that is on goes off only by the
\* setup of a tab that does not know it is on, or by a call that met another one.
THEOREM PolicyStands == TwoFactorSpec => PolicyKept
<1>1. FactorInv /\ [TwoFactorNext]_factorVars => [PolicyStep]_factorVars
  BY FactorStep
<1>2. FactorInv /\ [TwoFactorNext]_factorVars => FactorInv'
  BY FactorStep
<1> QED BY <1>1, <1>2, FactorInit, PTL DEF TwoFactorSpec, PolicyKept, PolicyStep
=============================================================================
