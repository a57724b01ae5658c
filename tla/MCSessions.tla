----------------------------- MODULE MCSessions -----------------------------
(* Sessions for TLC.  Of the initial states, the one where every account of *)
(* the tenant exists and the person at the browser, an operator, can be     *)
(* removed by the administrator.  Two bounds on the accounts: they change   *)
(* while the browser is at its first token, and a removal runs to its end   *)
(* without a session step between its awaits, of which only the last one    *)
(* writes what sessions read.                                               *)
EXTENDS Sessions

MCInit ==
  /\ Init
  /\ \A u \in Users : userStatus[u] = "active"
  /\ \A u \in People : roles[u] = {"operator"}

MCNext ==
  \/ SessionsNext /\ UNCHANGED accountVars /\ \A a \in AccountCalls : acall[a] = NoCall
  \/ AccountsNext /\ UNCHANGED sessionVars /\ used <= 1

MCSpec == MCInit /\ [][MCNext]_vars /\ CallsRunOn
=============================================================================
