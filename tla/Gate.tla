--------------------------------- MODULE Gate ---------------------------------
(***************************************************************************)
(* The Go ext_authz gate (scripts/mcoz_gate.go).  Each request through the *)
(* gate takes one token; tokens are bought ahead from the control daemon,  *)
(* count credits each, by a worker woken through refillCh, by the          *)
(* /set_enabled handler that activates the gate, and, if so configured, by *)
(* a request that finds no token.  s.mu is never held across the call to   *)
(* the daemon: a purchase reads the configuration, calls, and adds its     *)
(* tokens to whatever the gate has become meanwhile.                       *)
(***************************************************************************)
EXTENDS Integers, FiniteSets

CONSTANTS
  Handler,         \* HTTP handlers that may run at the same time
  Worker,          \* refillWorker
  ArmDelayNs,      \* the delays /set_enabled may set; 0 among them
  ArmCount,        \* the counts /set_enabled may set
  refillTargetReq, refillLowWater, refillBatchReq, refillEnabled, syncRefillMiss,
  MaxTokens,       \* bound: no request comes in once this many were bought
  MaxLost          \* bound: tokens whose purchase is made and not acknowledged

\* normalizeRefillParams
ASSUME GateAssumption ==
  /\ IsFiniteSet(Handler) /\ Worker \notin Handler
  /\ ArmDelayNs \subseteq Nat /\ ArmCount \subseteq Nat
  /\ ArmDelayNs # {} /\ ArmCount # {}
  /\ refillTargetReq \in Nat \ {0} /\ refillBatchReq \in Nat \ {0}
  /\ refillLowWater \in 0 .. refillTargetReq - 1
  /\ refillEnabled \in BOOLEAN /\ syncRefillMiss \in BOOLEAN
  /\ MaxTokens \in Nat /\ MaxLost \in Nat

VARIABLES
  armActive, armDelayNs, armCount, creditBalance,  \* gateState
  refillCh,           \* the channel: is its one place taken?
  call,               \* what each goroutine is doing
  ArmedOK,            \* requests let through as armed
  RefillTokensAdded,  \* tokens bought
  bought,             \* history: tokens the daemon granted the credits of
  voided              \* history: tokens thrown away by /set_enabled

counters == <<ArmedOK, RefillTokensAdded, bought, voided>>
vars == <<armActive, armDelayNs, armCount, creditBalance, refillCh, call, counters>>

Caller == Handler \cup {Worker}

\* reason is that of the purchase being made; enable, what /set_enabled asked
\* for; changed, whether it changed the configuration.
Call ==
  [pc : {"idle", "activate", "prime", "refill", "rpc", "checked", "retry", "need"},
   reason : {"", "enable", "sync-miss", "async", "direct"},
   tokens : Nat, enable : BOOLEAN, changed : BOOLEAN]

At(pc, reason, tokens) ==
  [pc |-> pc, reason |-> reason, tokens |-> tokens, enable |-> FALSE, changed |-> FALSE]

Idle == At("idle", "", 0)

Larger(a, b) == IF a > b THEN a ELSE b

\* What snapshotConfig's callers test before they buy.
Buying == armActive /\ armDelayNs > 0 /\ armCount > 0

\* The bound of the model on incoming requests.
Open == RefillTokensAdded < MaxTokens

\* armActiveDefault may be either; main signals the worker if it is true.
Init ==
  /\ armActive \in BOOLEAN
  /\ armDelayNs \in ArmDelayNs
  /\ armCount \in ArmCount
  /\ creditBalance = 0
  /\ refillCh = (armActive /\ refillEnabled)
  /\ call = [p \in Caller |-> Idle]
  /\ ArmedOK = 0
  /\ RefillTokensAdded = 0
  /\ bought = 0
  /\ voided = 0

Goto(p, c) == call' = [call EXCEPT ![p] = c]

\* signalRefill: a signal that finds the place taken is dropped.
Signalled == refillCh \/ refillEnabled

\* Throwing the tokens away.
Void ==
  /\ creditBalance' = 0
  /\ voided' = voided + creditBalance
-----------------------------------------------------------------------------
(***************************************************************************)
(* /set_enabled                                                            *)
(***************************************************************************)

\* setArmConfig: tokens bought under another configuration are thrown away.
SetArmConfig(p, delay, count, enable) ==
  LET changed == delay # armDelayNs \/ count # armCount IN
  /\ call[p].pc = "idle"
  /\ Open
  /\ armDelayNs' = delay
  /\ armCount' = count
  /\ IF changed THEN Void ELSE UNCHANGED <<creditBalance, voided>>
  /\ Goto(p, [pc |-> "activate", reason |-> "", tokens |-> 0,
               enable |-> enable, changed |-> changed])
  /\ UNCHANGED <<armActive, refillCh, ArmedOK, RefillTokensAdded, bought>>

\* setArmActive: activating signals the worker, deactivating throws the tokens
\* away; primeOnEnable follows if the request changed anything.
SetArmActive(p) ==
  /\ call[p].pc = "activate"
  /\ armActive' = call[p].enable
  /\ IF call[p].enable
     THEN /\ refillCh' = Signalled
          /\ UNCHANGED <<creditBalance, voided>>
     ELSE /\ Void
          /\ UNCHANGED refillCh
  /\ IF call[p].enable /\ (call[p].changed \/ ~ armActive)
     THEN Goto(p, At("prime", "", 0))
     ELSE Goto(p, Idle)
  /\ UNCHANGED <<armDelayNs, armCount, ArmedOK, RefillTokensAdded, bought>>

\* primeOnEnable up to its purchase; what is signalled after it otherwise.
Prime(p) ==
  /\ call[p].pc = "prime"
  /\ IF refillEnabled /\ Buying /\ creditBalance < refillTargetReq
     THEN /\ Goto(p, At("refill", "enable", refillTargetReq - creditBalance))
          /\ UNCHANGED refillCh
     ELSE /\ refillCh' = Signalled
          /\ Goto(p, Idle)
  /\ UNCHANGED <<armActive, armDelayNs, armCount, creditBalance, counters>>
-----------------------------------------------------------------------------
(***************************************************************************)
(* Requests: handleCheck.                                                  *)
(***************************************************************************)

\* The snapshot.  A request that is not to be armed changes no more than
\* statistics, and one under a zero delay arms no credit: neither is a step.
Check(p) ==
  /\ call[p].pc = "idle"
  /\ Open
  /\ Buying
  /\ IF refillEnabled
     THEN Goto(p, At("checked", "", 0))
     ELSE Goto(p, At("rpc", "direct", 1))
  /\ UNCHANGED <<armActive, armDelayNs, armCount, creditBalance, refillCh, counters>>

\* mutant: a token is taken without looking whether there is one
ConsumeUnchecked(p) ==
  /\ call[p].pc \in {"checked", "retry"}
  /\ creditBalance' = creditBalance - 1
  /\ ArmedOK' = ArmedOK + 1
  /\ refillCh' = (refillCh \/ creditBalance' <= refillLowWater)
  /\ Goto(p, Idle)
  /\ UNCHANGED <<armActive, armDelayNs, armCount, RefillTokensAdded, bought, voided>>

\* consumeToken succeeds, whatever became of the gate since the snapshot.
Consume(p) ==
  /\ call[p].pc \in {"checked", "retry"}
  /\ creditBalance > 0
  /\ creditBalance' = creditBalance - 1
  /\ ArmedOK' = ArmedOK + 1
  /\ refillCh' = (refillCh \/ creditBalance' <= refillLowWater)
  /\ Goto(p, Idle)
  /\ UNCHANGED <<armActive, armDelayNs, armCount, RefillTokensAdded, bought, voided>>

\* mutant: a miss leaves it to others to wake the worker
MissSilently(p) ==
  /\ call[p].pc = "checked"
  /\ creditBalance = 0
  /\ Goto(p, Idle)
  /\ UNCHANGED <<armActive, armDelayNs, armCount, creditBalance, refillCh, counters>>

\* consumeToken fails: "credit miss; refill queued", or a synchronous refill.
Miss(p) ==
  /\ call[p].pc = "checked"
  /\ creditBalance = 0
  /\ refillCh' = TRUE
  /\ IF syncRefillMiss
     THEN Goto(p, At("refill", "sync-miss", Larger(1, refillBatchReq)))
     ELSE Goto(p, Idle)
  /\ UNCHANGED <<armActive, armDelayNs, armCount, creditBalance, counters>>

\* "credit miss after successful sync refill"
MissAgain(p) ==
  /\ call[p].pc = "retry"
  /\ creditBalance = 0
  /\ Goto(p, Idle)
  /\ UNCHANGED <<armActive, armDelayNs, armCount, creditBalance, refillCh, counters>>
-----------------------------------------------------------------------------
(***************************************************************************)
(* doRefill and armOnce.                                                   *)
(***************************************************************************)

\* What follows a purchase, or doRefill's refusal to make one.
After(p, ok) ==
  Goto(p, IF ok /\ call[p].reason = "async" THEN At("need", "", 0)
          ELSE IF ok /\ call[p].reason = "sync-miss" THEN At("retry", "", 0)
          ELSE Idle)

\* primeOnEnable's caller signals the worker once more.
AfterSignal(p) ==
  refillCh' = IF call[p].reason = "enable" THEN Signalled ELSE refillCh

\* doRefill takes its own snapshot.
Refill(p) ==
  /\ call[p].pc = "refill"
  /\ IF Buying
     THEN /\ Goto(p, At("rpc", call[p].reason, call[p].tokens))
          /\ UNCHANGED refillCh
     ELSE /\ After(p, FALSE)
          /\ AfterSignal(p)
  /\ UNCHANGED <<armActive, armDelayNs, armCount, creditBalance, counters>>

\* mutant: a purchase that timed out is taken for one that was made
PurchaseAssumed(p) ==
  /\ call[p].pc = "rpc"
  /\ \E granted \in BOOLEAN :
       bought' = IF granted THEN bought + call[p].tokens ELSE bought
  /\ IF call[p].reason = "direct"
     THEN /\ ArmedOK' = ArmedOK + 1
          /\ RefillTokensAdded' = RefillTokensAdded + 1
          /\ UNCHANGED creditBalance
     ELSE /\ creditBalance' = creditBalance + call[p].tokens
          /\ RefillTokensAdded' = RefillTokensAdded + call[p].tokens
          /\ UNCHANGED ArmedOK
  /\ After(p, TRUE)
  /\ AfterSignal(p)
  /\ UNCHANGED <<armActive, armDelayNs, armCount, voided>>

\* The daemon granted the credits and its answer arrived.  A direct arm is its
\* request's own token (RefillTokensAdded counts it only here, as history).
Purchase(p) ==
  /\ call[p].pc = "rpc"
  /\ bought' = bought + call[p].tokens
  /\ RefillTokensAdded' = RefillTokensAdded + call[p].tokens
  /\ IF call[p].reason = "direct"
     THEN /\ ArmedOK' = ArmedOK + 1
          /\ UNCHANGED creditBalance
     ELSE /\ creditBalance' = creditBalance + call[p].tokens
          /\ UNCHANGED ArmedOK
  /\ After(p, TRUE)
  /\ AfterSignal(p)
  /\ UNCHANGED <<armActive, armDelayNs, armCount, voided>>

\* The call failed, or timed out with the credits granted all the same.
PurchaseFails(p, granted) ==
  /\ call[p].pc = "rpc"
  /\ granted => bought + call[p].tokens <= RefillTokensAdded + MaxLost
  /\ bought' = IF granted THEN bought + call[p].tokens ELSE bought
  /\ After(p, FALSE)
  /\ AfterSignal(p)
  /\ UNCHANGED <<armActive, armDelayNs, armCount, creditBalance, ArmedOK,
                 RefillTokensAdded, voided>>
-----------------------------------------------------------------------------
(***************************************************************************)
(* refillWorker                                                            *)
(***************************************************************************)
Wake ==
  /\ call[Worker].pc = "idle"
  /\ refillCh
  /\ refillCh' = FALSE
  /\ Goto(Worker, At("need", "", 0))
  /\ UNCHANGED <<armActive, armDelayNs, armCount, creditBalance, counters>>

\* mutant: the low-water mark is not looked at
NeedAlways ==
  /\ call[Worker].pc = "need"
  /\ IF refillEnabled /\ Buying
     THEN Goto(Worker, At("refill", "async",
                           Larger(refillBatchReq, refillTargetReq - creditBalance)))
     ELSE Goto(Worker, Idle)
  /\ UNCHANGED <<armActive, armDelayNs, armCount, creditBalance, refillCh, counters>>

\* mutant: what is missing is bought on top of a batch
NeedBoth ==
  /\ call[Worker].pc = "need"
  /\ IF refillEnabled /\ Buying /\ creditBalance < refillLowWater
     THEN Goto(Worker, At("refill", "async", refillBatchReq + refillTargetReq - creditBalance))
     ELSE Goto(Worker, Idle)
  /\ UNCHANGED <<armActive, armDelayNs, armCount, creditBalance, refillCh, counters>>

\* currentRefillNeed
Need ==
  /\ call[Worker].pc = "need"
  /\ IF refillEnabled /\ Buying /\ creditBalance < refillLowWater
     THEN Goto(Worker, At("refill", "async",
                           Larger(refillBatchReq, refillTargetReq - creditBalance)))
     ELSE Goto(Worker, Idle)
  /\ UNCHANGED <<armActive, armDelayNs, armCount, creditBalance, refillCh, counters>>

Buy(p) ==
  \/ Refill(p)
  \/ Purchase(p)
  \/ \E granted \in BOOLEAN : PurchaseFails(p, granted)

RefillWorker == Wake \/ Need \/ Buy(Worker)

\* The steps of a handler once its request is in.
Handle(p) ==
  SetArmActive(p) \/ Prime(p) \/ Consume(p) \/ Miss(p) \/ MissAgain(p) \/ Buy(p)

Next ==
  \/ RefillWorker
  \/ \E p \in Handler :
       \/ \E delay \in ArmDelayNs, count \in ArmCount, enable \in BOOLEAN :
            SetArmConfig(p, delay, count, enable)
       \/ Check(p)
       \/ Handle(p)

Safety == Init /\ [][Next]_vars

(***************************************************************************)
(* Goroutines are scheduled and every call to the daemon ends, at the      *)
(* latest by its timeout.  Requests keep coming, and the daemon answers     *)
(* the worker again and again if it is asked again and again.              *)
(***************************************************************************)
Fairness ==
  /\ WF_vars(RefillWorker)
  /\ SF_vars(Purchase(Worker))
  /\ \A p \in Handler : WF_vars(Handle(p)) /\ WF_vars(Check(p))

Spec == Safety /\ Fairness
-----------------------------------------------------------------------------
TypeOK ==
  /\ armActive \in BOOLEAN
  /\ armDelayNs \in ArmDelayNs
  /\ armCount \in ArmCount
  /\ creditBalance \in Nat
  /\ refillCh \in BOOLEAN
  /\ call \in [Caller -> Call]
  /\ ArmedOK \in Nat
  /\ RefillTokensAdded \in Nat
  /\ bought \in Nat
  /\ voided \in Nat

\* Every token held, used or thrown away was bought, and the daemon granted its
\* credits: configuration changes, deactivations and late answers between the
\* snapshot and the purchase (mcoz_gate.go:317-355) neither invent a token nor
\* lose the count of one.
TokensAreBacked ==
  /\ ArmedOK + creditBalance + voided = RefillTokensAdded
  /\ RefillTokensAdded <= bought

\* What the worker alone keeps the balance below.
WorkerBound == Larger(refillTargetReq, refillLowWater - 1 + refillBatchReq)

\* Purchases under way are not counted when another one is decided on, so the
\* balance overshoots what the worker aims at, but by no more than one purchase
\* of each handler.
BalanceBounded ==
  creditBalance <= WorkerBound + Cardinality(Handler) * Larger(refillTargetReq, refillBatchReq)

Bank == INSTANCE TokenBank WITH
  MaxPurchase <- Larger(refillTargetReq, refillBatchReq),
  granted <- bought, trusted <- 0, held <- creditBalance, used <- ArmedOK

\* The gate is a bank of tokens: whatever is reconfigured between a purchase's
\* snapshot, its call and its answer (mcoz_gate.go:317-355), each step buys at most
\* one purchase, lets one request through for one token, or throws all tokens away.
ImplementsTokenBank == Bank!Spec

\* mcoz_gate.go:800: a request that finds no token reports "credit miss; refill
\* queued", and the refill comes: an active gate is not left without tokens as
\* long as requests come and the daemon answers some of the worker's calls.
MissIsRefilled ==
  (Buying /\ creditBalance = 0) ~> (creditBalance > 0 \/ ~ Buying \/ ~ Open)
=============================================================================
