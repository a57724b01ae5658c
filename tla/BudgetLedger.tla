----------------------------- MODULE BudgetLedger -----------------------------
(***************************************************************************)
(* The budget-realization ledger of SIDPRO: FinanceService writes an entry *)
(* in a transaction, and the triggers of the migrations 20260628000800 to  *)
(* 20260628001000 lock the budget item, check the entry, derive the cached *)
(* balance `budget_items.realized` from it and keep ledger and items in    *)
(* the scope of one tenant.                                                *)
(*                                                                         *)
(* Transactions run at READ COMMITTED, the default of PostgreSQL: each     *)
(* statement sees what is committed when it starts, what a transaction     *)
(* writes is seen by the others when it commits, and a row it has locked   *)
(* makes them wait.  A step is a statement, or a statement of a trigger.   *)
(***************************************************************************)
EXTENDS Integers, Sequences

CONSTANTS
  Items, Years, Users, Tenants,
  Calls,        \* transactions that may be in flight
  Amounts,      \* amounts of money
  MaxBalance,   \* largest value of a DECIMAL(15,2) column
  MaxEntries,   \* bound of the model on the length of the ledger
  Movable,      \* the rows that maintenance may move: "item", "year", "user"
  NoYear, NoCall, NoUser

ASSUME LedgerAssumption ==
  /\ MaxBalance \in Nat
  /\ Amounts \subseteq Nat \ {0}
  /\ Movable \subseteq {"item", "year", "user"}
  /\ NoYear \notin Years /\ NoCall \notin Calls /\ NoUser \notin Users

VARIABLES
  yearTenant,   \* budget_years.tenant_id
  userTenant,   \* users.tenant_id
  itemYear,     \* budget_items.budget_year_id (NoYear: not created)
  realized,     \* budget_items.realized
  ledger,       \* budget_realization_entries, in the order of their commits
  lock,         \* the transaction that holds the row lock of each item
  call          \* what each transaction is doing

scopeVars == <<yearTenant, userTenant, itemYear>>
vars == <<scopeVars, realized, ledger, lock, call>>

EntryType == {"realization", "reversal", "migration_opening_balance"}
Entry == [item : Items, tenant : Tenants, type : EntryType, amount : Amounts,
          by : Users \cup {NoUser}]

\* A transaction: where it stands, its entry, the balance it has read.
Idle   == [pc |-> "idle"]
Active == [pc : {"lock", "check", "commit"}, entry : Entry, seen : 0 .. MaxBalance]

TypeOK ==
  /\ yearTenant \in [Years -> Tenants]
  /\ userTenant \in [Users -> Tenants]
  /\ itemYear \in [Items -> Years \cup {NoYear}]
  /\ realized \in [Items -> 0 .. MaxBalance]
  /\ ledger \in Seq(Entry)
  /\ lock \in [Items -> Calls \cup {NoCall}]
  /\ call \in [Calls -> Active \cup {Idle}]

Init ==
  /\ yearTenant \in [Years -> Tenants]
  /\ userTenant \in [Users -> Tenants]
  /\ itemYear = [i \in Items |-> NoYear]
  /\ realized = [i \in Items |-> 0]
  /\ ledger = <<>>
  /\ lock = [i \in Items |-> NoCall]
  /\ call = [c \in Calls |-> Idle]

InTenant(i, t) == itemYear[i] # NoYear /\ yearTenant[itemYear[i]] = t

-----------------------------------------------------------------------------
\* Mutant: the trigger that journals an initial balance does not set the cache
\* to zero first, so that the entry is added to it.
MutCreateItem(i, y, v) ==
  /\ itemYear[i] = NoYear /\ Len(ledger) < MaxEntries /\ v + v <= MaxBalance
  /\ itemYear' = [itemYear EXCEPT ![i] = y]
  /\ realized' = [realized EXCEPT ![i] = v + v]
  /\ ledger' = IF v = 0 THEN ledger
               ELSE Append(ledger, [item |-> i, tenant |-> yearTenant[y], amount |-> v,
                                    type |-> "migration_opening_balance", by |-> NoUser])
  /\ UNCHANGED <<yearTenant, userTenant, lock, call>>

\* An item is inserted, by createBudgetItem (with v = 0) or by an import.  A
\* balance it starts with is journaled by the trigger after the insert: the
\* cache is reset, and the entry's own trigger derives it again.
CreateItem(i, y, v) ==
  /\ itemYear[i] = NoYear
  /\ Len(ledger) < MaxEntries
  /\ v <= MaxBalance
  /\ itemYear' = [itemYear EXCEPT ![i] = y]
  /\ realized' = [realized EXCEPT ![i] = v]
  /\ ledger' = IF v = 0 THEN ledger
               ELSE Append(ledger, [item |-> i, tenant |-> yearTenant[y], amount |-> v,
                                    type |-> "migration_opening_balance", by |-> NoUser])
  /\ UNCHANGED <<yearTenant, userTenant, lock, call>>

\* createBudgetRealizationEntry: the item must be one of the caller's tenant.
BeginEntry(c, e) ==
  /\ call[c] = Idle
  /\ e.tenant = userTenant[e.by]
  /\ InTenant(e.item, e.tenant)
  /\ call' = [call EXCEPT ![c] = [pc |-> "lock", entry |-> e, seen |-> 0]]
  /\ UNCHANGED <<scopeVars, realized, ledger, lock>>

\* Mutant: the trigger reads the balance without FOR UPDATE.
MutLockItem(c) ==
  /\ call[c].pc = "lock" /\ InTenant(call[c].entry.item, call[c].entry.tenant)
  /\ call' = [call EXCEPT ![c].pc = "check", ![c].seen = realized[call[c].entry.item]]
  /\ UNCHANGED <<scopeVars, realized, ledger, lock>>

\* The insert fires its trigger: SELECT ... FOR UPDATE OF the item, joined with
\* its year, waits for the row and reads the balance.
LockItem(c) ==
  LET e == call[c].entry IN
  /\ call[c].pc = "lock"
  /\ lock[e.item] = NoCall
  /\ InTenant(e.item, e.tenant)
  /\ lock' = [lock EXCEPT ![e.item] = c]
  /\ call' = [call EXCEPT ![c] = [pc |-> "check", entry |-> e, seen |-> realized[e.item]]]
  /\ UNCHANGED <<scopeVars, realized, ledger>>

After(e, balance) == IF e.type = "reversal" THEN balance - e.amount ELSE balance + e.amount

Accepted(c) == LET e == call[c].entry IN
               /\ userTenant[e.by] = e.tenant
               /\ After(e, call[c].seen) \in 0 .. MaxBalance

\* The author is of the tenant, a reversal does not exceed the balance that was
\* read, and the new balance fits its column: the row and the cache are written.
CheckEntry(c) ==
  /\ call[c].pc = "check"
  /\ Accepted(c)
  /\ call' = [call EXCEPT ![c] =
                 [pc |-> "commit", entry |-> call[c].entry, seen |-> call[c].seen]]
  /\ UNCHANGED <<scopeVars, realized, ledger, lock>>

\* Mutant: a transaction that is rolled back keeps its row lock.
MutUnlock(c) == UNCHANGED lock

Unlock(c) == lock' = [i \in Items |-> IF lock[i] = c THEN NoCall ELSE lock[i]]

\* The commit makes both writes visible.
CommitEntry(c) ==
  LET e == call[c].entry IN
  /\ call[c].pc = "commit"
  /\ Len(ledger) < MaxEntries
  /\ ledger' = Append(ledger, e)
  /\ realized' = [realized EXCEPT ![e.item] = After(e, @)]
  /\ lock' = [lock EXCEPT ![e.item] = NoCall]
  /\ call' = [call EXCEPT ![c] = Idle]
  /\ UNCHANGED scopeVars

\* The check at which the transaction stands fails (or the bound is reached).
Refused(c) ==
  LET e == call[c].entry IN
  \/ call[c].pc = "lock" /\ lock[e.item] = NoCall /\ ~InTenant(e.item, e.tenant)
  \/ call[c].pc = "check" /\ ~Accepted(c)
  \/ call[c].pc = "commit" /\ Len(ledger) >= MaxEntries

\* A check that does not hold raises 23514 (or the column overflows), or the
\* connection is lost, or the transaction times out: nothing is written.
Rollback(c) ==
  /\ call[c] # Idle
  /\ Unlock(c)
  /\ call' = [call EXCEPT ![c] = Idle]
  /\ UNCHANGED <<scopeVars, realized, ledger>>

-----------------------------------------------------------------------------
(* Maintenance statements, and the guards of migration 20260628000900: each  *)
(* looks at the committed ledger.  Only the update of an item meets the row  *)
(* lock of a transaction that is writing an entry.                           *)

Entries == {ledger[k] : k \in 1 .. Len(ledger)}

\* Mutant: without the guard on budget_items.budget_year_id.
MutMoveItem(i, y) ==
  /\ "item" \in Movable /\ itemYear[i] # NoYear /\ lock[i] = NoCall
  /\ itemYear' = [itemYear EXCEPT ![i] = y]
  /\ UNCHANGED <<yearTenant, userTenant, realized, ledger, lock, call>>

MoveItem(i, y) ==
  /\ "item" \in Movable
  /\ itemYear[i] # NoYear
  /\ lock[i] = NoCall
  /\ \A e \in Entries : e.item = i => e.tenant = yearTenant[y]
  /\ itemYear' = [itemYear EXCEPT ![i] = y]
  /\ UNCHANGED <<yearTenant, userTenant, realized, ledger, lock, call>>

MoveYear(y, t) ==
  /\ "year" \in Movable
  /\ \A e \in Entries : itemYear[e.item] = y => e.tenant = t
  /\ yearTenant' = [yearTenant EXCEPT ![y] = t]
  /\ UNCHANGED <<userTenant, itemYear, realized, ledger, lock, call>>

MoveUser(u, t) ==
  /\ "user" \in Movable
  /\ \A e \in Entries : e.by = u => e.tenant = t
  /\ userTenant' = [userTenant EXCEPT ![u] = t]
  /\ UNCHANGED <<yearTenant, itemYear, realized, ledger, lock, call>>

-----------------------------------------------------------------------------
\* The entries the API takes: type and positive amount come from the caller.
Requested(i, u, type, a) ==
  [item |-> i, tenant |-> userTenant[u], type |-> type, amount |-> a, by |-> u]

Next ==
  \/ \E i \in Items, y \in Years, v \in {0} \cup Amounts : CreateItem(i, y, v)
  \/ \E c \in Calls, i \in Items, u \in Users, a \in Amounts,
        type \in {"realization", "reversal"} : BeginEntry(c, Requested(i, u, type, a))
  \/ \E c \in Calls : LockItem(c) \/ CheckEntry(c) \/ CommitEntry(c) \/ Rollback(c)
  \/ \E i \in Items, y \in Years : MoveItem(i, y)
  \/ \E y \in Years, t \in Tenants : MoveYear(y, t)
  \/ \E u \in Users, t \in Tenants : MoveUser(u, t)

Spec == Init /\ [][Next]_vars

\* A statement is executed once PostgreSQL grants it the row lock it waits for,
\* which it does for each of the waiters in turn.
FairSpec ==
  /\ Spec
  /\ \A c \in Calls : SF_vars(\/ LockItem(c) \/ CheckEntry(c) \/ CommitEntry(c)
                              \/ Refused(c) /\ Rollback(c))

-----------------------------------------------------------------------------
\* The balance of an item after the first n entries of the ledger.
BalanceAt(i, n) ==
  LET balance[k \in 0 .. n] ==
        IF k = 0 THEN 0
        ELSE IF ledger[k].item = i THEN After(ledger[k], balance[k - 1])
        ELSE balance[k - 1]
  IN  balance[n]

\* The cache that reports and the public transparency page read is the balance
\* of the ledger, for items that started with a balance as well.
CacheIsBalance == \A i \in Items : realized[i] = BalanceAt(i, Len(ledger))

\* At no point of its history has more been reversed on an item than realized:
\* two reversals at the same time cannot both pass the check.
NeverOverdrawn == \A i \in Items, n \in 0 .. Len(ledger) : BalanceAt(i, n) >= 0

\* Whether an entry is in the tenant of its item and of its author.
InScope(e) == /\ InTenant(e.item, e.tenant)
              /\ e.by # NoUser => userTenant[e.by] = e.tenant

\* No update of an item, a year or a user, and no entry of another call, takes an
\* entry that is committed out of the scope it was written in.
ScopeKept == [][\A e \in Entries : InScope(e) => e \in Entries' /\ InScope(e)']_vars

\* Every entry is in its scope from the start, if only items are moved: the row
\* lock of a transaction keeps its item where it was checked.
EntriesInScope == \A e \in Entries : InScope(e)

\* Under FairSpec every call is answered: nobody waits for ever for a row lock.
CallsAnswered == \A c \in Calls : call[c] # Idle ~> call[c] = Idle
=============================================================================
