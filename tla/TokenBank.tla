------------------------------- MODULE TokenBank -------------------------------
(***************************************************************************)
(* What a gate promises, without its configuration, threads or calls: a    *)
(* store of tokens.  A token is bought from the daemon, which grants its   *)
(* credits, and ends in exactly one of two ways: one request uses it, or   *)
(* it is thrown away with all the others.  No purchase is larger than      *)
(* MaxPurchase.                                                            *)
(***************************************************************************)
EXTENDS Naturals

CONSTANT MaxPurchase  \* the most tokens the gate asks for at once

VARIABLES
  granted,  \* tokens whose credits the daemon granted
  trusted,  \* tokens taken on trust: their order never reached the daemon
  held,     \* tokens the gate holds
  used,     \* requests let through, each with a token of its own
  voided    \* tokens thrown away

vars == <<granted, trusted, held, used, voided>>

Init ==
  /\ granted = 0
  /\ trusted = 0
  /\ held = 0
  /\ used = 0
  /\ voided = 0

\* Tokens are stored, or a single one goes to the request it was bought for.
Obtain(n) ==
  \/ held' = held + n /\ used' = used
  \/ n = 1 /\ used' = used + 1 /\ held' = held

Buy(n) ==
  /\ granted' = granted + n
  /\ Obtain(n)
  /\ UNCHANGED <<trusted, voided>>

Trust(n) ==
  /\ trusted' = trusted + n
  /\ Obtain(n)
  /\ UNCHANGED <<granted, voided>>

\* Credits are granted, and the gate does not learn of it.
Waste(n) ==
  /\ granted' = granted + n
  /\ UNCHANGED <<trusted, held, used, voided>>

Use ==
  /\ held > 0
  /\ held' = held - 1
  /\ used' = used + 1
  /\ UNCHANGED <<granted, trusted, voided>>

Void ==
  /\ voided' = voided + held
  /\ held' = 0
  /\ UNCHANGED <<granted, trusted, used>>

Next ==
  \/ \E n \in 1 .. MaxPurchase : Buy(n) \/ Trust(n) \/ Waste(n)
  \/ Use
  \/ Void

Spec == Init /\ [][Next]_vars
=============================================================================
