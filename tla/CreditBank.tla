------------------------------ MODULE CreditBank ------------------------------
(***************************************************************************)
(* What the request-credit engine promises, without slots, rings, cursors  *)
(* or locks: an account of credits per victim cgroup and source.  A credit *)
(* is granted by a request, and ends in exactly one of two ways: it is     *)
(* wiped, or it is spent on one delay injection.                           *)
(***************************************************************************)
EXTENDS Naturals

CONSTANTS
  Cgroup,  \* victim cgroups
  Source,  \* sources that arm them
  Count    \* the numbers of credits one request may ask for

Account == Cgroup \X Source

VARIABLES
  granted,   \* credits ever granted to an account
  balance,   \* credits the account holds
  owed,      \* credits spent whose injection has not been made yet
  injected,  \* injections ever made on the account
  wiped      \* credits ever taken away without an injection

vars == <<granted, balance, owed, injected, wiped>>

Init ==
  /\ granted = [a \in Account |-> 0]
  /\ balance = [a \in Account |-> 0]
  /\ owed = [a \in Account |-> 0]
  /\ injected = [a \in Account |-> 0]
  /\ wiped = [a \in Account |-> 0]

Grant(a, n) ==
  /\ granted' = [granted EXCEPT ![a] = @ + n]
  /\ balance' = [balance EXCEPT ![a] = @ + n]
  /\ UNCHANGED <<owed, injected, wiped>>

\* One credit leaves the account, and only while no other is owed.
Spend(a) ==
  /\ balance[a] > 0
  /\ \A b \in Account : owed[b] = 0
  /\ balance' = [balance EXCEPT ![a] = @ - 1]
  /\ owed' = [owed EXCEPT ![a] = 1]
  /\ UNCHANGED <<granted, injected, wiped>>

Inject(a) ==
  /\ owed[a] = 1
  /\ owed' = [owed EXCEPT ![a] = 0]
  /\ injected' = [injected EXCEPT ![a] = @ + 1]
  /\ UNCHANGED <<granted, balance, wiped>>

Wipe ==
  /\ wiped' = [a \in Account |-> wiped[a] + balance[a]]
  /\ balance' = [a \in Account |-> 0]
  /\ UNCHANGED <<granted, owed, injected>>

Next ==
  \/ \E a \in Account, n \in Count : Grant(a, n)
  \/ \E a \in Account : Spend(a)
  \/ \E a \in Account : Inject(a)
  \/ Wipe

Safety == Init /\ [][Next]_vars

\* What is owed is injected, however the engine is cleared or stopped.
Settlement == \A a \in Account : owed[a] = 1 ~> owed[a] = 0
=============================================================================
