-------------------------- MODULE BudgetLedgerProofs --------------------------
(***************************************************************************)
(* Proofs about BudgetLedger, for any items, years, users, tenants,        *)
(* transactions and amounts.                                               *)
(***************************************************************************)
EXTENDS BudgetLedger, WellFoundedInduction, TLAPS

-----------------------------------------------------------------------------
(* What the row lock gives a transaction: from the moment it has locked its  *)
(* item the balance it has read stays, so that a check made on it still      *)
(* holds when the entry is committed.                                        *)

Locking(c) == call[c].pc \in {"check", "commit"}

BalanceInv ==
  /\ realized \in [Items -> 0 .. MaxBalance]
  /\ lock \in [Items -> Calls \cup {NoCall}]
  /\ call \in [Calls -> Active \cup {Idle}]
  /\ \A c \in Calls : Locking(c) => /\ lock[call[c].entry.item] = c
                                    /\ itemYear[call[c].entry.item] # NoYear
                                    /\ call[c].seen = realized[call[c].entry.item]
  /\ \A c \in Calls : call[c].pc = "commit" =>
                        After(call[c].entry, call[c].seen) \in 0 .. MaxBalance

\* The type invariant proper, and that entries are well-formed.
ScopeTypes ==
  /\ yearTenant \in [Years -> Tenants]
  /\ userTenant \in [Users -> Tenants]
  /\ itemYear \in [Items -> Years \cup {NoYear}]
  /\ ledger \in Seq(Entry)

LEMMA TypeParts == TypeOK <=> /\ ScopeTypes
                              /\ realized \in [Items -> 0 .. MaxBalance]
                              /\ lock \in [Items -> Calls \cup {NoCall}]
                              /\ call \in [Calls -> Active \cup {Idle}]
BY DEF TypeOK, ScopeTypes

LEMMA InitBalance == Init => ScopeTypes /\ BalanceInv
BY LedgerAssumption DEF Init, ScopeTypes, BalanceInv, Locking, Idle

LEMMA StepScopeTypes == ScopeTypes /\ BalanceInv /\ [Next]_vars => ScopeTypes'
<1> SUFFICES ASSUME ScopeTypes, BalanceInv, [Next]_vars PROVE ScopeTypes'
  OBVIOUS
<1> USE DEF ScopeTypes
<1>1. ASSUME NEW i \in Items, NEW y \in Years, NEW v \in {0} \cup Amounts, CreateItem(i, y, v)
      PROVE  ScopeTypes'
  <2> DEFINE e == [item |-> i, tenant |-> yearTenant[y], amount |-> v,
                   type |-> "migration_opening_balance", by |-> NoUser]
  <2>1. v # 0 => e \in Entry
    BY DEF Entry, EntryType
  <2>2. ledger' = ledger \/ (v # 0 /\ ledger' = Append(ledger, e))
    BY <1>1 DEF CreateItem
  <2>3. ledger' \in Seq(Entry)
    BY <2>1, <2>2
  <2>4. QED
    BY <1>1, <2>3 DEF CreateItem
<1>2. ASSUME NEW c \in Calls, NEW e, BeginEntry(c, e) PROVE ScopeTypes'
  BY <1>2 DEF BeginEntry, scopeVars
<1>3. ASSUME NEW c \in Calls, LockItem(c) \/ CheckEntry(c) \/ Rollback(c) PROVE ScopeTypes'
  BY <1>3 DEF LockItem, CheckEntry, Rollback, scopeVars
<1>4. ASSUME NEW c \in Calls, CommitEntry(c) PROVE ScopeTypes'
  <2>1. call[c].entry \in Entry
    <3>1. call[c] \in Active \cup {Idle} /\ call[c].pc = "commit"
      BY <1>4 DEF CommitEntry, BalanceInv
    <3>2. QED
      BY <3>1 DEF Active, Idle
  <2>2. QED
    BY <1>4, <2>1 DEF CommitEntry, scopeVars
<1>5. ASSUME NEW i \in Items, NEW y \in Years, MoveItem(i, y) PROVE ScopeTypes'
  BY <1>5 DEF MoveItem
<1>6. ASSUME NEW y \in Years, NEW t \in Tenants, MoveYear(y, t) PROVE ScopeTypes'
  BY <1>6 DEF MoveYear
<1>7. ASSUME NEW u \in Users, NEW t \in Tenants, MoveUser(u, t) PROVE ScopeTypes'
  BY <1>7 DEF MoveUser
<1>8. CASE UNCHANGED vars
  BY <1>8 DEF vars, scopeVars
<1>9. QED
  BY <1>1, <1>2, <1>3, <1>4, <1>5, <1>6, <1>7, <1>8 DEF Next

\* A transaction that is not idle, and its entry.
LEMMA ActiveCall ==
  ASSUME BalanceInv, NEW c \in Calls, call[c].pc \in {"lock", "check", "commit"}
  PROVE  /\ call[c] \in Active
         /\ call[c].entry \in Entry
         /\ call[c].entry.item \in Items
         /\ call[c].entry.amount \in Amounts
         /\ call[c].seen \in 0 .. MaxBalance
<1>1. call[c] \in Active \cup {Idle} /\ call[c] # Idle
  BY DEF BalanceInv, Idle
<1>2. QED
  BY <1>1 DEF Active, Entry


LEMMA StepBalanceInv == ScopeTypes /\ BalanceInv /\ [Next]_vars => BalanceInv'
<1> SUFFICES ASSUME ScopeTypes, BalanceInv, [Next]_vars PROVE BalanceInv'
  OBVIOUS
<1>0. \A c \in Calls : Locking(c) =>
         /\ call[c] \in Active
         /\ call[c].entry.item \in Items
         /\ lock[call[c].entry.item] = c /\ c # NoCall
  BY ActiveCall, LedgerAssumption DEF BalanceInv, Locking
<1>1. ASSUME NEW i \in Items, NEW y \in Years, NEW v \in {0} \cup Amounts, CreateItem(i, y, v)
      PROVE  BalanceInv'
  <2>1. \A c \in Calls : Locking(c) => call[c].entry.item # i
    BY <1>1 DEF BalanceInv, CreateItem
  <2>2. v \in 0 .. MaxBalance
    BY <1>1, LedgerAssumption DEF CreateItem
  <2>3. \A j \in Items : j # i => realized'[j] = realized[j] /\ itemYear'[j] = itemYear[j]
    BY <1>1 DEF CreateItem, BalanceInv, ScopeTypes
  <2>4. UNCHANGED <<lock, call>> /\ realized' \in [Items -> 0 .. MaxBalance]
    BY <1>1, <2>2 DEF CreateItem, BalanceInv
  <2>5. QED
    BY <1>0, <2>1, <2>3, <2>4 DEF BalanceInv, Locking
<1>2. ASSUME NEW c \in Calls, NEW e \in Entry, BeginEntry(c, e) PROVE BalanceInv'
  <2>1. [pc |-> "lock", entry |-> e, seen |-> 0] \in Active
    BY LedgerAssumption DEF Active
  <2>2. /\ UNCHANGED <<itemYear, realized, lock>>
        /\ call' = [call EXCEPT ![c] = [pc |-> "lock", entry |-> e, seen |-> 0]]
    BY <1>2 DEF BeginEntry, scopeVars
  <2>3. call' \in [Calls -> Active \cup {Idle}]
    BY <2>1, <2>2 DEF BalanceInv
  <2>4. \A d \in Calls : call'[d].pc \in {"check", "commit"} => d # c /\ call'[d] = call[d]
    BY <2>2 DEF BalanceInv
  <2>5. QED
    BY <2>2, <2>3, <2>4 DEF BalanceInv, Locking
<1>3. ASSUME NEW c \in Calls, LockItem(c) PROVE BalanceInv'
  <2> DEFINE i == call[c].entry.item
  <2>1. call[c] \in Active /\ i \in Items /\ lock[i] = NoCall /\ itemYear[i] # NoYear
    BY <1>3, ActiveCall DEF LockItem, InTenant
  <2>2. /\ UNCHANGED <<itemYear, realized>>
        /\ lock' = [lock EXCEPT ![i] = c]
        /\ call' = [call EXCEPT ![c] =
                      [pc |-> "check", entry |-> call[c].entry, seen |-> realized[i]]]
    BY <1>3 DEF LockItem, scopeVars
  <2>4. call'[c] = [pc |-> "check", entry |-> call[c].entry, seen |-> realized[i]]
    BY <2>2 DEF BalanceInv
  <2>5. call'[c] \in Active
    BY <2>1, <2>4 DEF Active, BalanceInv
  <2>6. call' \in [Calls -> Active \cup {Idle}] /\ \A d \in Calls : d # c => call'[d] = call[d]
    BY <2>2, <2>4, <2>5 DEF BalanceInv
  <2>7. ASSUME NEW d \in Calls, d # c, Locking(d) PROVE lock'[call[d].entry.item] = d
    BY <1>0, <2>1, <2>2, <2>7 DEF BalanceInv
  <2>8. lock' \in [Items -> Calls \cup {NoCall}] /\ lock'[i] = c
    BY <2>1, <2>2 DEF BalanceInv
  <2>9. QED
    BY <2>1, <2>2, <2>4, <2>6, <2>7, <2>8 DEF BalanceInv, Locking
<1>4. ASSUME NEW c \in Calls, CheckEntry(c) PROVE BalanceInv'
  <2>1. /\ call[c] \in Active /\ call[c].pc = "check"
        /\ After(call[c].entry, call[c].seen) \in 0 .. MaxBalance
    BY <1>4, ActiveCall DEF CheckEntry, Accepted
  <2>2. /\ UNCHANGED <<itemYear, realized, lock>>
        /\ call' = [call EXCEPT ![c] =
                      [pc |-> "commit", entry |-> call[c].entry, seen |-> call[c].seen]]
    BY <1>4 DEF CheckEntry, scopeVars
  <2>3. call'[c] = [pc |-> "commit", entry |-> call[c].entry, seen |-> call[c].seen]
    BY <2>2 DEF BalanceInv
  <2>4. call'[c] \in Active
    BY <2>1, <2>3 DEF Active
  <2>5. call' \in [Calls -> Active \cup {Idle}] /\ \A d \in Calls : d # c => call'[d] = call[d]
    BY <2>2, <2>4 DEF BalanceInv
  <2>6. QED
    BY <2>1, <2>2, <2>3, <2>5 DEF BalanceInv, Locking
<1>5. ASSUME NEW c \in Calls, CommitEntry(c) PROVE BalanceInv'
  <2> DEFINE i == call[c].entry.item
  <2>1. call[c] \in Active /\ i \in Items /\ lock[i] = c
    BY <1>0, <1>5 DEF CommitEntry, Locking
  <2>2. After(call[c].entry, realized[i]) \in 0 .. MaxBalance
    BY <1>5 DEF CommitEntry, BalanceInv, Locking
  <2>3. /\ realized' = [realized EXCEPT ![i] = After(call[c].entry, realized[i])]
        /\ lock' = [lock EXCEPT ![i] = NoCall]
        /\ call' = [call EXCEPT ![c] = Idle]
        /\ itemYear' = itemYear
    BY <1>5, <2>1 DEF CommitEntry, scopeVars, BalanceInv
  <2>4. \A d \in Calls : call'[d] = IF d = c THEN Idle ELSE call[d]
    BY <2>3 DEF BalanceInv
  <2>5. \A d \in Calls : d # c /\ Locking(d) => call[d].entry.item # i
    BY <1>0, <2>1
  <2>6. \A d \in Calls : Locking(d)' => d # c /\ Locking(d)
    BY <2>4 DEF Locking, Idle
  <2>7. \A j \in Items : j # i => realized'[j] = realized[j] /\ lock'[j] = lock[j]
    BY <2>3 DEF BalanceInv
  <2>8. /\ realized' \in [Items -> 0 .. MaxBalance]
        /\ lock' \in [Items -> Calls \cup {NoCall}]
        /\ call' \in [Calls -> Active \cup {Idle}]
    BY <2>2, <2>3 DEF BalanceInv
  <2>9. ASSUME NEW d \in Calls, Locking(d)'
        PROVE  /\ lock'[call'[d].entry.item] = d
               /\ itemYear'[call'[d].entry.item] # NoYear
               /\ call'[d].seen = realized'[call'[d].entry.item]
               /\ call'[d].pc = "commit" => After(call'[d].entry, call'[d].seen) \in 0 .. MaxBalance
    <3>1. d # c /\ Locking(d) /\ call'[d] = call[d] /\ call[d].entry.item \in Items
      BY <1>0, <2>4, <2>6, <2>9
    <3>2. QED
      BY <3>1, <2>3, <2>5, <2>7 DEF BalanceInv
  <2>10. QED
    BY <2>8, <2>9 DEF BalanceInv, Locking
<1>6. ASSUME NEW c \in Calls, Rollback(c) PROVE BalanceInv'
  <2>1. /\ UNCHANGED <<itemYear, realized>>
        /\ lock' = [i \in Items |-> IF lock[i] = c THEN NoCall ELSE lock[i]]
        /\ call' = [call EXCEPT ![c] = Idle]
    BY <1>6 DEF Rollback, Unlock, scopeVars
  <2>2. \A d \in Calls : Locking(d)' => d # c /\ Locking(d) /\ call'[d] = call[d]
    BY <2>1 DEF Locking, Idle, BalanceInv
  <2>3. \A d \in Calls : d # c /\ Locking(d) => lock'[call[d].entry.item] = d
    BY <1>0, <2>1
  <2>4. /\ lock' \in [Items -> Calls \cup {NoCall}]
        /\ call' \in [Calls -> Active \cup {Idle}]
    BY <2>1 DEF BalanceInv
  <2>5. \A d \in Calls : call'[d].pc = "commit" => Locking(d)'
    BY DEF Locking
  <2>6. QED
    BY <2>1, <2>2, <2>3, <2>4, <2>5 DEF BalanceInv
<1>7. CASE \/ \E i \in Items, y \in Years : MoveItem(i, y)
           \/ \E y \in Years, t \in Tenants : MoveYear(y, t)
           \/ \E u \in Users, t \in Tenants : MoveUser(u, t)
  <2>1. UNCHANGED <<realized, lock, call>>
    BY <1>7 DEF MoveItem, MoveYear, MoveUser
  <2>2. \A i \in Items : itemYear[i] # NoYear => itemYear'[i] # NoYear
    BY <1>7, LedgerAssumption DEF MoveItem, MoveYear, MoveUser, ScopeTypes
  <2>3. QED
    BY <1>0, <2>1, <2>2 DEF BalanceInv, Locking
<1>8. CASE UNCHANGED vars
  BY <1>8 DEF vars, scopeVars, BalanceInv, Locking
<1>9. ASSUME NEW i \in Items, NEW u \in Users, NEW a \in Amounts,
             NEW type \in {"realization", "reversal"}
      PROVE  Requested(i, u, type, a) \in Entry
  BY DEF Requested, Entry, EntryType, ScopeTypes
<1>10. QED
  BY <1>1, <1>2, <1>3, <1>4, <1>5, <1>6, <1>7, <1>8, <1>9 DEF Next

\* The cached balances stay between zero and the bound of their column, however
\* many transactions post realizations and reversals at the same time.
THEOREM TypeCorrect == Spec => []TypeOK
<1>1. ScopeTypes /\ BalanceInv => TypeOK
  BY TypeParts DEF BalanceInv
<1>2. QED
  BY <1>1, InitBalance, StepScopeTypes, StepBalanceInv, PTL DEF Spec

-----------------------------------------------------------------------------
(* Scope.  Where maintenance moves items only, an entry that is about to be  *)
(* committed is in the tenant of its item, because the move of the item      *)
(* waits for the row lock, and in that of its author.                        *)

ScopeInv ==
  /\ EntriesInScope
  /\ \A c \in Calls : Locking(c) => InTenant(call[c].entry.item, call[c].entry.tenant)
  /\ \A c \in Calls : call[c].pc = "commit" =>
                        userTenant[call[c].entry.by] = call[c].entry.tenant

LEMMA EntryItems ==
  ASSUME ScopeTypes PROVE Entries \subseteq Entry
BY DEF ScopeTypes, Entries

LEMMA AppendEntries ==
  ASSUME ScopeTypes, NEW e \in Entry, ledger' = Append(ledger, e)
  PROVE  Entries' \subseteq Entries \cup {e}
BY DEF ScopeTypes, Entries

LEMMA StepScopeInv ==
  ASSUME Movable \subseteq {"item"}, ScopeTypes, BalanceInv, ScopeInv, [Next]_vars
  PROVE  ScopeInv'
<1>0. \A c \in Calls : Locking(c) =>
         call[c] \in Active /\ call[c].entry \in Entry
  BY ActiveCall DEF Locking
<1>1. ASSUME NEW i \in Items, NEW y \in Years, NEW v \in {0} \cup Amounts, CreateItem(i, y, v)
      PROVE  ScopeInv'
  <2> DEFINE e == [item |-> i, tenant |-> yearTenant[y], amount |-> v,
                   type |-> "migration_opening_balance", by |-> NoUser]
  <2>1. \A t : \A j \in Items : InTenant(j, t) => InTenant(j, t)'
    BY <1>1 DEF CreateItem, InTenant, ScopeTypes
  <2>2. InTenant(i, yearTenant[y])'
    BY <1>1, LedgerAssumption DEF CreateItem, InTenant, ScopeTypes
  <2>3. Entries' \subseteq Entries \/ (e \in Entry /\ Entries' \subseteq Entries \cup {e})
    <3>1. CASE v = 0
      BY <1>1, <3>1 DEF CreateItem, Entries
    <3>2. CASE v # 0
      <4>1. e \in Entry
        BY <3>2 DEF Entry, EntryType, ScopeTypes
      <4>2. ledger' = Append(ledger, e)
        BY <1>1, <3>2 DEF CreateItem
      <4>3. QED
        BY <4>1, <4>2, AppendEntries
    <3>3. QED
      BY <3>1, <3>2
  <2>4. \A k \in Entries : InScope(k)'
    BY <1>1, <2>1, EntryItems DEF ScopeInv, EntriesInScope, InScope, CreateItem, Entry
  <2>5. ASSUME NEW k, k = e PROVE InScope(k)'
    <3>1. k.item = i /\ k.tenant = yearTenant[y] /\ k.by = NoUser
      BY <2>5
    <3>2. InTenant(k.item, k.tenant)'
      BY <2>2, <3>1, <1>1 DEF CreateItem
    <3>3. QED
      BY <3>1, <3>2 DEF InScope
  <2>6. EntriesInScope'
    BY <2>3, <2>4, <2>5 DEF EntriesInScope
  <2>7. UNCHANGED <<userTenant, call>>
    BY <1>1 DEF CreateItem
  <2>8. QED
    BY <1>0, <2>1, <2>6, <2>7 DEF ScopeInv, Locking, Entry
<1>2. ASSUME NEW c \in Calls, NEW e \in Entry, BeginEntry(c, e) PROVE ScopeInv'
  <2>1. UNCHANGED <<yearTenant, userTenant, itemYear, ledger>>
    BY <1>2 DEF BeginEntry, scopeVars
  <2>2. \A d \in Calls : call'[d].pc \in {"check", "commit"} => call'[d] = call[d]
    BY <1>2 DEF BeginEntry, BalanceInv
  <2>3. QED
    BY <2>1, <2>2 DEF ScopeInv, EntriesInScope, Entries, InScope, InTenant, Locking
<1>3. ASSUME NEW c \in Calls, LockItem(c) PROVE ScopeInv'
  <2>1. /\ call[c] \in Active
        /\ InTenant(call[c].entry.item, call[c].entry.tenant)
        /\ UNCHANGED <<yearTenant, userTenant, itemYear, ledger>>
    BY <1>3, ActiveCall DEF LockItem, scopeVars
  <2>2. /\ call'[c].pc = "check" /\ call'[c].entry = call[c].entry
        /\ \A d \in Calls : d # c => call'[d] = call[d]
    BY <1>3, <2>1 DEF LockItem, BalanceInv, Active
  <2>3. QED
    BY <2>1, <2>2 DEF ScopeInv, EntriesInScope, Entries, InScope, InTenant, Locking
<1>4. ASSUME NEW c \in Calls, CheckEntry(c) PROVE ScopeInv'
  <2>1. /\ call[c] \in Active /\ Locking(c)
        /\ userTenant[call[c].entry.by] = call[c].entry.tenant
        /\ UNCHANGED <<yearTenant, userTenant, itemYear, ledger>>
    BY <1>0, <1>4 DEF CheckEntry, Accepted, Locking, scopeVars
  <2>2. /\ call'[c].pc = "commit" /\ call'[c].entry = call[c].entry
        /\ \A d \in Calls : d # c => call'[d] = call[d]
    BY <1>4, <2>1 DEF CheckEntry, BalanceInv, Active
  <2>3. QED
    BY <2>1, <2>2 DEF ScopeInv, EntriesInScope, Entries, InScope, InTenant, Locking
<1>5. ASSUME NEW c \in Calls, CommitEntry(c) PROVE ScopeInv'
  <2>1. /\ call[c].entry \in Entry /\ ledger' = Append(ledger, call[c].entry)
        /\ UNCHANGED <<yearTenant, userTenant, itemYear>>
    BY <1>0, <1>5 DEF CommitEntry, Locking, scopeVars
  <2>2. InScope(call[c].entry)
    BY <1>5 DEF CommitEntry, ScopeInv, InScope, Locking
  <2>3. Entries' \subseteq Entries \cup {call[c].entry}
    BY <2>1, AppendEntries
  <2>4. \A e : InScope(e) => InScope(e)'
    BY <2>1 DEF InScope, InTenant
  <2>5. EntriesInScope'
    BY <2>2, <2>3, <2>4 DEF ScopeInv, EntriesInScope
  <2>6. \A d \in Calls : call'[d].pc \in {"check", "commit"} => call'[d] = call[d]
    BY <1>5 DEF CommitEntry, BalanceInv, Idle
  <2>7. QED
    BY <2>1, <2>5, <2>6 DEF ScopeInv, InTenant, Locking
<1>6. ASSUME NEW c \in Calls, Rollback(c) PROVE ScopeInv'
  <2>1. UNCHANGED <<yearTenant, userTenant, itemYear, ledger>>
    BY <1>6 DEF Rollback, scopeVars
  <2>2. \A d \in Calls : call'[d].pc \in {"check", "commit"} => call'[d] = call[d]
    BY <1>6 DEF Rollback, BalanceInv, Idle
  <2>3. QED
    BY <2>1, <2>2 DEF ScopeInv, EntriesInScope, Entries, InScope, InTenant, Locking
<1>7. ASSUME NEW i \in Items, NEW y \in Years, MoveItem(i, y) PROVE ScopeInv'
  <2>1. /\ UNCHANGED <<yearTenant, userTenant, ledger, call>>
        /\ itemYear' = [itemYear EXCEPT ![i] = y]
        /\ lock[i] = NoCall
        /\ \A e \in Entries : e.item = i => e.tenant = yearTenant[y]
    BY <1>7 DEF MoveItem
  <2>2. \A c \in Calls : Locking(c) => call[c].entry.item # i /\ call[c].entry.item \in Items
    BY <1>0, <2>1, LedgerAssumption DEF BalanceInv, Entry
  <2>3. \A t : \A j \in Items : j # i /\ InTenant(j, t) => InTenant(j, t)'
    BY <2>1 DEF InTenant, ScopeTypes
  <2>4. InTenant(i, yearTenant[y])'
    BY <2>1, LedgerAssumption DEF InTenant, ScopeTypes
  <2>5. \A e \in Entries : InScope(e)'
    BY <2>1, <2>3, <2>4, EntryItems DEF ScopeInv, EntriesInScope, InScope, Entry
  <2>6. EntriesInScope'
    BY <2>1, <2>5 DEF EntriesInScope, Entries
  <2>7. QED
    BY <2>1, <2>2, <2>3, <2>6 DEF ScopeInv, Locking
<1>8. CASE \/ \E y \in Years, t \in Tenants : MoveYear(y, t)
           \/ \E u \in Users, t \in Tenants : MoveUser(u, t)
  BY <1>8 DEF MoveYear, MoveUser
<1>9. CASE UNCHANGED vars
  BY <1>9 DEF vars, scopeVars, ScopeInv, EntriesInScope, Entries, InScope, InTenant, Locking
<1>10. ASSUME NEW i \in Items, NEW u \in Users, NEW a \in Amounts,
              NEW type \in {"realization", "reversal"}
       PROVE  Requested(i, u, type, a) \in Entry
  BY DEF Requested, Entry, EntryType, ScopeTypes
<1>11. QED
  BY <1>1, <1>2, <1>3, <1>4, <1>5, <1>6, <1>7, <1>8, <1>9, <1>10 DEF Next

\* While nobody moves a budget year or a user to another tenant, every entry
\* stays in the tenant of its item and its author, whatever items are moved
\* while entries are being written.
THEOREM LedgerInScope ==
  ASSUME Movable \subseteq {"item"}
  PROVE  Spec => []EntriesInScope
<1>1. Init => ScopeInv
  BY DEF Init, ScopeInv, EntriesInScope, Entries, Locking, Idle
<1>2. ScopeTypes /\ BalanceInv /\ ScopeInv /\ [Next]_vars => ScopeInv'
  BY StepScopeInv
<1>3. ScopeInv => EntriesInScope
  BY DEF ScopeInv
<1>4. QED
  BY <1>1, <1>2, <1>3, InitBalance, StepScopeTypes, StepBalanceInv, PTL DEF Spec

-----------------------------------------------------------------------------
(* What the guards of migration 20260628000900 achieve by themselves.        *)

LEMMA EntriesGrow ==
  ASSUME ScopeTypes, NEW e, ledger' = Append(ledger, e)
  PROVE  Entries \subseteq Entries'
<1>1. /\ Len(ledger') = Len(ledger) + 1
      /\ \A k \in 1 .. Len(ledger) : ledger'[k] = ledger[k]
  BY DEF ScopeTypes
<1>2. 1 .. Len(ledger) \subseteq 1 .. Len(ledger')
  BY <1>1 DEF ScopeTypes
<1>q. QED
  BY <1>1, <1>2 DEF Entries

LEMMA StepScopeKept ==
  ASSUME ScopeTypes, [Next]_vars, NEW e \in Entries, InScope(e)
  PROVE  e \in Entries' /\ InScope(e)'
<1>1. e \in Entry
  BY EntryItems
<1>2. ASSUME NEW i \in Items, NEW y \in Years, NEW v \in {0} \cup Amounts, CreateItem(i, y, v)
      PROVE  e \in Entries' /\ InScope(e)'
  <2>1. e.item # i
    BY <1>2 DEF CreateItem, InScope, InTenant
  <2>2. InScope(e)'
    BY <1>2, <2>1 DEF CreateItem, InScope, InTenant, ScopeTypes
  <2>3. e \in Entries'
    <3>1. CASE v = 0
      BY <1>2, <3>1 DEF CreateItem, Entries
    <3>2. CASE v # 0
      BY <1>2, <3>2, EntriesGrow DEF CreateItem
    <3>q. QED
      BY <3>1, <3>2
  <2>q. QED
    BY <2>2, <2>3
<1>3. ASSUME UNCHANGED <<scopeVars, ledger>> PROVE e \in Entries' /\ InScope(e)'
  BY <1>3 DEF scopeVars, Entries, InScope, InTenant
<1>4. ASSUME NEW c \in Calls, CommitEntry(c) PROVE e \in Entries' /\ InScope(e)'
  <2>1. e \in Entries'
    BY <1>4, EntriesGrow DEF CommitEntry
  <2>q. QED
    BY <1>4, <2>1 DEF CommitEntry, scopeVars, InScope, InTenant
<1>5. ASSUME NEW i \in Items, NEW y \in Years, MoveItem(i, y)
      PROVE  e \in Entries' /\ InScope(e)'
  <2>1. e \in Entries'
    BY <1>5 DEF MoveItem, Entries
  <2>2. CASE e.item = i
    BY <1>1, <1>5, <2>1, <2>2, LedgerAssumption DEF MoveItem, InScope, InTenant, ScopeTypes
  <2>3. CASE e.item # i
    BY <1>5, <2>1, <2>3 DEF MoveItem, InScope, InTenant, ScopeTypes
  <2>q. QED
    BY <2>2, <2>3
<1>6. ASSUME NEW y \in Years, NEW t \in Tenants, MoveYear(y, t)
      PROVE  e \in Entries' /\ InScope(e)'
  <2>1. e \in Entries'
    BY <1>6 DEF MoveYear, Entries
  <2>2. CASE itemYear[e.item] = y
    BY <1>6, <2>1, <2>2 DEF MoveYear, InScope, InTenant, ScopeTypes
  <2>3. CASE itemYear[e.item] # y
    BY <1>6, <2>1, <2>3 DEF MoveYear, InScope, InTenant, ScopeTypes
  <2>q. QED
    BY <2>2, <2>3
<1>7. ASSUME NEW u \in Users, NEW t \in Tenants, MoveUser(u, t)
      PROVE  e \in Entries' /\ InScope(e)'
  <2>1. e \in Entries'
    BY <1>7 DEF MoveUser, Entries
  <2>2. CASE e.by = u
    BY <1>7, <2>1, <2>2 DEF MoveUser, InScope, InTenant, ScopeTypes
  <2>3. CASE e.by # u
    BY <1>7, <2>1, <2>3 DEF MoveUser, InScope, InTenant, ScopeTypes
  <2>q. QED
    BY <2>2, <2>3
<1>8. ASSUME NEW c \in Calls, LockItem(c) \/ CheckEntry(c) \/ Rollback(c)
      PROVE  UNCHANGED <<scopeVars, ledger>>
  BY <1>8 DEF LockItem, CheckEntry, Rollback
<1>9. ASSUME NEW c \in Calls, NEW r, BeginEntry(c, r) PROVE UNCHANGED <<scopeVars, ledger>>
  BY <1>9 DEF BeginEntry
<1>10. ASSUME UNCHANGED vars PROVE UNCHANGED <<scopeVars, ledger>>
  BY <1>10 DEF vars
<1>q. QED
  BY <1>2, <1>3, <1>4, <1>5, <1>6, <1>7, <1>8, <1>9, <1>10 DEF Next

\* However items, years and users are moved while entries are written: what is
\* committed in its scope stays in it, and stays in the ledger.
THEOREM ScopeIsKept == Spec => ScopeKept
<1>1. ScopeTypes /\ [Next]_vars
        => [\A e \in Entries : InScope(e) => e \in Entries' /\ InScope(e)']_vars
  BY StepScopeKept
<1>q. QED
  BY <1>1, InitBalance, StepScopeTypes, StepBalanceInv, PTL DEF Spec, ScopeKept

-----------------------------------------------------------------------------
(* The balance of an item is a recursive function of the ledger.  What it    *)
(* computes is proved by induction, which the library's least element of a   *)
(* well-founded relation gives for a set of numbers.                         *)

LEMMA LeastNumber ==
  ASSUME NEW T \in SUBSET Nat, T # {}
  PROVE  \E m \in T : \A n \in T : m <= n
<1>1. PICK m \in T : \A n \in T : <<n, m>> \notin OpToRel(<, Nat)
  BY WFMin, NatLessThanWellFounded, Zenon
<1>2. \A n \in T : ~(n < m)
  BY <1>1, Zenon DEF OpToRel
<1>3. \A n \in T : m <= n
  BY <1>2
<1>q. QED
  BY <1>3

LEMMA Induction ==
  ASSUME NEW S, 0 \in S, \A n \in Nat : n \in S => n + 1 \in S
  PROVE  \A n \in Nat : n \in S
<1> SUFFICES ASSUME Nat \ S # {} PROVE FALSE
  OBVIOUS
<1>1. PICK m \in Nat \ S : \A n \in Nat \ S : m <= n
  BY LeastNumber
<1>2. m # 0 /\ m - 1 \in Nat /\ m - 1 \notin S
  BY <1>1
<1>q. QED
  BY <1>1, <1>2

\* What an entry does to the balance of an item.
Booked(e, i, v) == IF e.item = i THEN After(e, v) ELSE v

LEMMA BookedIsInt ==
  ASSUME NEW e \in Entry, NEW i, NEW v \in Int
  PROVE  Booked(e, i, v) \in Int
<1>1. \A a \in Amounts : a \in Int
  BY LedgerAssumption
<1>2. e.amount \in Int
  BY <1>1, Zenon DEF Entry
<1>q. QED
  BY <1>2 DEF Booked, After

\* b holds the balances of item i after each of the first n entries of L.
Balances(L, i, n, b) ==
  b = [k \in 0 .. n |-> IF k = 0 THEN 0
                        ELSE IF L[k].item = i THEN After(L[k], b[k - 1])
                        ELSE b[k - 1]]

LEMMA BalancesSteps ==
  ASSUME NEW L, NEW i, NEW n \in Nat, NEW b
  PROVE  Balances(L, i, n, b) <=>
           /\ b = [k \in 0 .. n |-> b[k]]
           /\ b[0] = 0
           /\ \A k \in 1 .. n : b[k] = Booked(L[k], i, b[k - 1])
<1>1. ASSUME Balances(L, i, n, b)
      PROVE  /\ b = [k \in 0 .. n |-> b[k]] /\ b[0] = 0
             /\ \A k \in 1 .. n : b[k] = Booked(L[k], i, b[k - 1])
  BY <1>1 DEF Balances, Booked
<1>2. ASSUME b = [k \in 0 .. n |-> b[k]], b[0] = 0,
             \A k \in 1 .. n : b[k] = Booked(L[k], i, b[k - 1])
      PROVE  Balances(L, i, n, b)
  <2> DEFINE c == [k \in 0 .. n |-> IF k = 0 THEN 0
                                    ELSE IF L[k].item = i THEN After(L[k], b[k - 1])
                                    ELSE b[k - 1]]
  <2>1. ASSUME NEW k \in 0 .. n PROVE b[k] = c[k]
    <3>1. CASE k = 0
      BY <1>2, <3>1
    <3>2. CASE k # 0
      <4>1. k \in 1 .. n
        BY <3>2
      <4>2. b[k] = Booked(L[k], i, b[k - 1])
        BY <1>2, <4>1
      <4>3. c[k] = Booked(L[k], i, b[k - 1])
        BY <3>2 DEF Booked
      <4>q. QED
        BY <4>2, <4>3
    <3>q. QED
      BY <3>1, <3>2
  <2>2. b = c
    BY <1>2, <2>1
  <2>q. QED
    BY <2>2, Zenon DEF Balances
<1>q. QED
  BY <1>1, <1>2

\* The same as a predicate of the entries that are booked.
Books(L, i, n, b) == b[0] = 0 /\ \A k \in 1 .. n : b[k] = Booked(L[k], i, b[k - 1])

LEMMA BalancesBook ==
  ASSUME NEW L, NEW i, NEW n \in Nat, NEW b, Balances(L, i, n, b)
  PROVE  Books(L, i, n, b)
BY BalancesSteps DEF Books

\* L and M start with the same n entries.
Agree(L, M, n) == \A k \in 1 .. n : L[k] = M[k]

LEMMA BooksAgree ==
  ASSUME NEW L, NEW M, NEW i, NEW n \in Nat, NEW b, NEW c,
         Books(L, i, n, b), Books(M, i, n, c), Agree(L, M, n)
  PROVE  \A k \in 0 .. n : b[k] = c[k]
<1> DEFINE S == {k \in Nat : k <= n => b[k] = c[k]}
<1>1. 0 \in S
  BY DEF Books
<1>2. ASSUME NEW k \in Nat, k \in S PROVE k + 1 \in S
  <2> SUFFICES ASSUME k + 1 <= n PROVE b[k + 1] = c[k + 1]
    OBVIOUS
  <2>1. k + 1 \in 1 .. n /\ (k + 1) - 1 = k /\ b[k] = c[k]
    BY <1>2
  <2>2. L[k + 1] = M[k + 1]
    BY <2>1 DEF Agree
  <2>3. b[k + 1] = Booked(L[k + 1], i, b[k])
    BY <2>1 DEF Books
  <2>4. c[k + 1] = Booked(M[k + 1], i, c[k])
    BY <2>1 DEF Books
  <2>q. QED
    BY <2>1, <2>2, <2>3, <2>4
<1>3. \A k \in Nat : k \in S
  <2> HIDE DEF S
  <2>q. QED
    BY <1>1, <1>2, Induction
<1>q. QED
  BY <1>3

LEMMA BalancesExist ==
  ASSUME NEW L \in Seq(Entry), NEW i
  PROVE  \A n \in 0 .. Len(L) : \E b \in [0 .. n -> Int] : Balances(L, i, n, b)
<1> DEFINE S == {n \in Nat : n <= Len(L) => \E b \in [0 .. n -> Int] : Balances(L, i, n, b)}
<1>1. 0 \in S
  <2> DEFINE b == [k \in 0 .. 0 |-> 0]
  <2>1. b \in [0 .. 0 -> Int] /\ b = [k \in 0 .. 0 |-> b[k]] /\ b[0] = 0 /\ 1 .. 0 = {}
    OBVIOUS
  <2>2. Balances(L, i, 0, b)
    <3> HIDE DEF b
    <3>q. QED
      BY <2>1, BalancesSteps
  <2>q. QED
    BY <2>1, <2>2
<1>2. ASSUME NEW n \in Nat, n \in S PROVE n + 1 \in S
  <2> SUFFICES ASSUME n + 1 <= Len(L)
               PROVE  \E c \in [0 .. n + 1 -> Int] : Balances(L, i, n + 1, c)
    OBVIOUS
  <2>1. PICK b \in [0 .. n -> Int] : Balances(L, i, n, b)
    BY <1>2
  <2> DEFINE x == Booked(L[n + 1], i, b[n])
  <2> DEFINE c == [k \in 0 .. n + 1 |-> IF k = n + 1 THEN x ELSE b[k]]
  <2>2. L[n + 1] \in Entry /\ b[n] \in Int
    OBVIOUS
  <2>3. x \in Int
    BY <2>2, BookedIsInt
  <2>4. b[0] = 0 /\ \A k \in 1 .. n : b[k] = Booked(L[k], i, b[k - 1])
    BY <2>1, BalancesSteps
  <2>5. c \in [0 .. n + 1 -> Int] /\ c = [k \in 0 .. n + 1 |-> c[k]]
    <3> HIDE DEF x
    <3>q. QED
      BY <2>3
  <2>6. c[n + 1] = x /\ \A k \in 0 .. n : c[k] = b[k]
    <3> HIDE DEF x
    <3>q. QED
      OBVIOUS
  <2>7. c[0] = 0 /\ \A k \in 1 .. n + 1 : c[k] = Booked(L[k], i, c[k - 1])
    <3>1. c[0] = 0
      <4> HIDE DEF c
      <4>q. QED
        BY <2>4, <2>6
    <3>2. ASSUME NEW k \in 1 .. n PROVE c[k] = Booked(L[k], i, c[k - 1])
      <4> HIDE DEF c
      <4>1. k \in 0 .. n /\ k - 1 \in 0 .. n
        OBVIOUS
      <4>q. QED
        BY <2>4, <2>6, <4>1
    <3>3. c[n + 1] = Booked(L[n + 1], i, c[(n + 1) - 1])
      <4>1. (n + 1) - 1 = n /\ c[n] = b[n]
        BY <2>6
      <4> HIDE DEF c
      <4>q. QED
        BY <2>6, <4>1
    <3>4. \A k \in 1 .. n + 1 : k \in 1 .. n \/ k = n + 1
      OBVIOUS
    <3> HIDE DEF c
    <3>q. QED
      BY <3>1, <3>2, <3>3, <3>4
  <2>8. Balances(L, i, n + 1, c)
    <3> HIDE DEF c
    <3>1. n + 1 \in Nat
      OBVIOUS
    <3>q. QED
      BY <2>5, <2>7, <3>1, BalancesSteps, Zenon
  <2>q. QED
    BY <2>5, <2>8
<1>3. \A n \in Nat : n \in S
  <2> HIDE DEF S
  <2>q. QED
    BY <1>1, <1>2, Induction
<1>q. QED
  BY <1>3

\* BalanceAt, of any sequence of entries.
BalanceOf(L, i, n) ==
  LET balance[k \in 0 .. n] ==
        IF k = 0 THEN 0
        ELSE IF L[k].item = i THEN After(L[k], balance[k - 1])
        ELSE balance[k - 1]
  IN  balance[n]

LEMMA BalanceChosen ==
  ASSUME NEW L \in Seq(Entry), NEW i, NEW n \in 0 .. Len(L)
  PROVE  \E b \in [0 .. n -> Int] : Books(L, i, n, b) /\ BalanceOf(L, i, n) = b[n]
<1> DEFINE b == CHOOSE c : Balances(L, i, n, c)
<1>1. PICK c \in [0 .. n -> Int] : Balances(L, i, n, c)
  BY BalancesExist
<1>2. Balances(L, i, n, b)
  BY <1>1, Zenon
<1>3. BalanceOf(L, i, n) = b[n]
  BY Zenon DEF BalanceOf, Balances
<1> HIDE DEF b
<1>4. Books(L, i, n, b) /\ Books(L, i, n, c)
  BY <1>1, <1>2, BalancesBook
<1>5. \A k \in 0 .. n : b[k] = c[k]
  BY <1>4, BooksAgree DEF Agree
<1>6. b = [k \in 0 .. n |-> b[k]]
  BY <1>2, BalancesSteps
<1>7. b \in [0 .. n -> Int]
  BY <1>5, <1>6
<1>q. QED
  BY <1>3, <1>4, <1>7

\* The balance depends only on the entries up to it.
LEMMA BalancePrefix ==
  ASSUME NEW L \in Seq(Entry), NEW M \in Seq(Entry), NEW i, NEW n \in 0 .. Len(L),
         n <= Len(M), Agree(L, M, n)
  PROVE  BalanceOf(L, i, n) = BalanceOf(M, i, n)
<1>1. PICK b : Books(L, i, n, b) /\ BalanceOf(L, i, n) = b[n]
  BY BalanceChosen, Zenon
<1>2. n \in 0 .. Len(M) /\ n \in Nat /\ n \in 0 .. n
  OBVIOUS
<1>3. PICK c : Books(M, i, n, c) /\ BalanceOf(M, i, n) = c[n]
  BY BalanceChosen, <1>2, Zenon
<1>4. \A k \in 0 .. n : b[k] = c[k]
  BY <1>1, <1>2, <1>3, BooksAgree
<1>q. QED
  BY <1>1, <1>2, <1>3, <1>4

LEMMA BalanceStart ==
  ASSUME NEW L \in Seq(Entry), NEW i
  PROVE  BalanceOf(L, i, 0) = 0
<1>1. 0 \in 0 .. Len(L)
  OBVIOUS
<1>2. PICK b : Books(L, i, 0, b) /\ BalanceOf(L, i, 0) = b[0]
  BY BalanceChosen, <1>1, Zenon
<1>q. QED
  BY <1>2 DEF Books

\* Each entry is booked on the balance before it.
LEMMA BalanceStep ==
  ASSUME NEW L \in Seq(Entry), NEW i, NEW n \in 1 .. Len(L)
  PROVE  BalanceOf(L, i, n) = Booked(L[n], i, BalanceOf(L, i, n - 1))
<1>1. n - 1 \in Nat /\ n \in 0 .. Len(L) /\ n - 1 \in 0 .. Len(L) /\ n - 1 \in 0 .. n - 1
  OBVIOUS
<1>2. PICK b : Books(L, i, n, b) /\ BalanceOf(L, i, n) = b[n]
  BY BalanceChosen, <1>1, Zenon
<1>3. PICK c : Books(L, i, n - 1, c) /\ BalanceOf(L, i, n - 1) = c[n - 1]
  BY BalanceChosen, <1>1, Zenon
<1>4. Books(L, i, n - 1, b)
  BY <1>2 DEF Books
<1>5. \A k \in 0 .. n - 1 : b[k] = c[k]
  BY <1>1, <1>3, <1>4, BooksAgree DEF Agree
<1>6. b[n] = Booked(L[n], i, b[n - 1])
  BY <1>2 DEF Books
<1>q. QED
  BY <1>1, <1>2, <1>3, <1>5, <1>6

\* The balances of M, which is L with an entry more: the last is what the entry
\* books on the balance before it, and the others are those of L.
Extended(L, M, e, i) ==
  /\ \A n \in 0 .. Len(L) : BalanceOf(M, i, n) = BalanceOf(L, i, n)
  /\ BalanceOf(M, i, Len(M)) = Booked(e, i, BalanceOf(L, i, Len(L)))

LEMMA BalanceAppended ==
  ASSUME NEW L \in Seq(Entry), NEW e \in Entry, NEW i, NEW M \in Seq(Entry), M = Append(L, e)
  PROVE  Extended(L, M, e, i)
<1>1. /\ Len(M) = Len(L) + 1 /\ M[Len(M)] = e
      /\ \A k \in 1 .. Len(L) : L[k] = M[k]
  OBVIOUS
<1>2. ASSUME NEW n \in 0 .. Len(L) PROVE BalanceOf(M, i, n) = BalanceOf(L, i, n)
  <2>1. n <= Len(M) /\ Agree(L, M, n)
    BY <1>1 DEF Agree
  <2>q. QED
    BY <2>1, BalancePrefix
<1>3. Len(M) \in 1 .. Len(M) /\ Len(M) - 1 = Len(L) /\ Len(L) \in 0 .. Len(L)
  BY <1>1
<1>4. BalanceOf(M, i, Len(M)) = Booked(M[Len(M)], i, BalanceOf(M, i, Len(M) - 1))
  BY <1>3, BalanceStep
<1>q. QED
  BY <1>1, <1>2, <1>3, <1>4, Zenon DEF Extended

-----------------------------------------------------------------------------
(* The cache.  The entry of a transaction is booked on the balance it has    *)
(* read under the row lock, which is still that of the ledger when it        *)
(* commits; an item that is not yet created has no balance.                  *)

CacheInv ==
  /\ CacheIsBalance
  /\ NeverOverdrawn
  /\ \A i \in Items : itemYear[i] = NoYear => realized[i] = 0

LEMMA CacheOf ==
  /\ CacheIsBalance <=> \A i \in Items : realized[i] = BalanceOf(ledger, i, Len(ledger))
  /\ NeverOverdrawn <=> \A i \in Items, n \in 0 .. Len(ledger) : BalanceOf(ledger, i, n) >= 0
BY Zenon DEF CacheIsBalance, NeverOverdrawn, BalanceAt, BalanceOf

LEMMA CacheOfNext ==
  /\ CacheIsBalance' <=> \A i \in Items : realized'[i] = BalanceOf(ledger', i, Len(ledger'))
  /\ NeverOverdrawn' <=> \A i \in Items, n \in 0 .. Len(ledger') : BalanceOf(ledger', i, n) >= 0
BY Zenon DEF CacheIsBalance, NeverOverdrawn, BalanceAt, BalanceOf

\* Booking an entry in the cache of its item and at the end of the ledger keeps
\* the two equal and the balances at zero or above.
LEMMA BookKeepsCache ==
  ASSUME ScopeTypes, realized \in [Items -> 0 .. MaxBalance], CacheInv,
         NEW e \in Entry, ledger' = Append(ledger, e), NEW r \in Nat,
         r = After(e, realized[e.item]),
         realized' = [realized EXCEPT ![e.item] = r]
  PROVE  CacheIsBalance' /\ NeverOverdrawn'
<1>1. /\ ledger \in Seq(Entry) /\ Len(ledger) \in Nat /\ e.item \in Items
      /\ ledger' \in Seq(Entry) /\ Len(ledger') = Len(ledger) + 1
  BY DEF ScopeTypes, Entry
<1>2. \A i : Extended(ledger, ledger', e, i)
  BY <1>1, BalanceAppended
<1>3. ASSUME NEW i \in Items PROVE realized'[i] = Booked(e, i, realized[i])
  <2>1. CASE i = e.item
    BY <1>1, <2>1 DEF Booked
  <2>2. CASE i # e.item
    BY <1>1, <2>2 DEF Booked
  <2>q. QED
    BY <2>1, <2>2
<1>4. \A i \in Items : /\ realized[i] = BalanceOf(ledger, i, Len(ledger))
                       /\ \A n \in 0 .. Len(ledger) : BalanceOf(ledger, i, n) >= 0
  BY CacheOf DEF CacheInv
<1>5. \A i \in Items : realized'[i] \in Nat
  BY <1>1
<1>6. \A i \in Items : realized'[i] = BalanceOf(ledger', i, Len(ledger'))
  BY <1>2, <1>3, <1>4, Zenon DEF Extended
<1>7. ASSUME NEW i \in Items, NEW n \in 0 .. Len(ledger') PROVE BalanceOf(ledger', i, n) >= 0
  <2>1. n \in 0 .. Len(ledger) \/ n = Len(ledger')
    BY <1>1
  <2>2. CASE n \in 0 .. Len(ledger)
    BY <1>2, <1>4, <2>2 DEF Extended
  <2>3. CASE n = Len(ledger')
    BY <1>5, <1>6, <2>3
  <2>q. QED
    BY <2>1, <2>2, <2>3
<1>q. QED
  BY <1>6, <1>7, CacheOfNext

LEMMA CacheUnchanged ==
  ASSUME CacheInv, UNCHANGED <<ledger, realized>>
  PROVE  CacheIsBalance' /\ NeverOverdrawn'
BY CacheOf, CacheOfNext DEF CacheInv

LEMMA StepCacheInv ==
  ASSUME ScopeTypes, BalanceInv, CacheInv, [Next]_vars
  PROVE  CacheInv'
<1>1. ASSUME NEW i \in Items, NEW y \in Years, NEW v \in {0} \cup Amounts, CreateItem(i, y, v)
      PROVE  CacheInv'
  <2> DEFINE e == [item |-> i, tenant |-> yearTenant[y], amount |-> v,
                   type |-> "migration_opening_balance", by |-> NoUser]
  <2>1. /\ realized[i] = 0 /\ realized' = [realized EXCEPT ![i] = v]
        /\ itemYear' = [itemYear EXCEPT ![i] = y]
    BY <1>1 DEF CreateItem, CacheInv
  <2>0. v \in Nat /\ y # NoYear
    BY LedgerAssumption
  <2>2. \A j \in Items : itemYear'[j] = NoYear => realized'[j] = 0
    BY <2>0, <2>1 DEF CacheInv, ScopeTypes, BalanceInv
  <2>3. CASE v = 0
    <3>1. UNCHANGED <<ledger, realized>>
      BY <1>1, <2>1, <2>3 DEF CreateItem, BalanceInv
    <3>q. QED
      BY <2>2, <3>1, CacheUnchanged DEF CacheInv
  <2>4. CASE v # 0
    <3>1. e \in Entry
      BY <2>4 DEF Entry, EntryType, ScopeTypes
    <3>2. ledger' = Append(ledger, e)
      BY <1>1, <2>4 DEF CreateItem
    <3>3. v = After(e, realized[e.item]) /\ realized' = [realized EXCEPT ![e.item] = v]
      BY <2>0, <2>1 DEF After
    <3> HIDE DEF e
    <3>4. CacheIsBalance' /\ NeverOverdrawn'
      BY <2>0, <3>1, <3>2, <3>3, BookKeepsCache DEF BalanceInv
    <3>q. QED
      BY <2>2, <3>4 DEF CacheInv
  <2>q. QED
    BY <2>3, <2>4
<1>2. ASSUME NEW c \in Calls, CommitEntry(c) PROVE CacheInv'
  <2> DEFINE e == call[c].entry
  <2>1. /\ Locking(c) /\ call[c].pc = "commit" /\ itemYear' = itemYear
        /\ ledger' = Append(ledger, e)
    BY <1>2 DEF CommitEntry, Locking, scopeVars
  <2>2. e \in Entry /\ e.item \in Items
    BY <2>1, ActiveCall DEF Locking, Entry
  <2>3. itemYear[e.item] # NoYear /\ After(e, realized[e.item]) \in 0 .. MaxBalance
    BY <2>1 DEF BalanceInv
  <2>4. realized' = [realized EXCEPT ![e.item] = After(e, realized[e.item])]
    BY <1>2, <2>2 DEF CommitEntry, BalanceInv
  <2>5. After(e, realized[e.item]) \in Nat
    BY <2>3, LedgerAssumption
  <2> HIDE DEF e
  <2>6. CacheIsBalance' /\ NeverOverdrawn'
    BY <2>1, <2>2, <2>4, <2>5, BookKeepsCache DEF BalanceInv
  <2>7. \A j \in Items : itemYear'[j] = NoYear => realized'[j] = 0
    BY <2>1, <2>2, <2>3, <2>4 DEF CacheInv, BalanceInv
  <2>q. QED
    BY <2>6, <2>7 DEF CacheInv
<1>3. ASSUME UNCHANGED <<ledger, realized>>,
             \A i \in Items : itemYear[i] # NoYear => itemYear'[i] # NoYear
      PROVE  CacheInv'
  BY <1>3, CacheUnchanged DEF CacheInv
<1>4. ASSUME NEW c \in Calls, LockItem(c) \/ CheckEntry(c) \/ Rollback(c)
      PROVE  UNCHANGED <<itemYear, ledger, realized>>
  BY <1>4 DEF LockItem, CheckEntry, Rollback, scopeVars
<1>5. ASSUME NEW c \in Calls, NEW r, BeginEntry(c, r)
      PROVE  UNCHANGED <<itemYear, ledger, realized>>
  BY <1>5 DEF BeginEntry, scopeVars
<1>6. ASSUME NEW i \in Items, NEW y \in Years, MoveItem(i, y)
      PROVE  /\ UNCHANGED <<ledger, realized>>
             /\ \A j \in Items : itemYear[j] # NoYear => itemYear'[j] # NoYear
  BY <1>6, LedgerAssumption DEF MoveItem, ScopeTypes
<1>7. ASSUME \/ \E y \in Years, t \in Tenants : MoveYear(y, t)
             \/ \E u \in Users, t \in Tenants : MoveUser(u, t)
      PROVE  UNCHANGED <<itemYear, ledger, realized>>
  BY <1>7 DEF MoveYear, MoveUser
<1>8. ASSUME UNCHANGED vars PROVE UNCHANGED <<itemYear, ledger, realized>>
  BY <1>8 DEF vars, scopeVars
<1>q. QED
  BY <1>1, <1>2, <1>3, <1>4, <1>5, <1>6, <1>7, <1>8 DEF Next

LEMMA InitCacheInv == Init => CacheInv
<1> SUFFICES ASSUME Init PROVE CacheInv
  OBVIOUS
<1>1. ledger = <<>> /\ Len(ledger) = 0 /\ ledger \in Seq(Entry) /\ realized = [i \in Items |-> 0]
  BY DEF Init
<1>2. \A i \in Items : BalanceOf(ledger, i, 0) = 0
  BY <1>1, BalanceStart
<1>q. QED
  BY <1>1, <1>2, CacheOf DEF CacheInv

\* Whatever items are created with, and however many transactions write entries at
\* the same time, the cached balance of an item is that of its ledger.
THEOREM CacheCorrect == Spec => []CacheIsBalance
<1>1. CacheInv => CacheIsBalance
  BY DEF CacheInv
<1>q. QED
  BY <1>1, InitBalance, StepScopeTypes, StepBalanceInv, InitCacheInv, StepCacheInv, PTL DEF Spec

\* At no point of the history of an item do its reversals exceed what was realized.
THEOREM ReversalsCovered == Spec => []NeverOverdrawn
<1>1. CacheInv => NeverOverdrawn
  BY DEF CacheInv
<1>q. QED
  BY <1>1, InitBalance, StepScopeTypes, StepBalanceInv, InitCacheInv, StepCacheInv, PTL DEF Spec
=============================================================================
