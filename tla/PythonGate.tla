------------------------------ MODULE PythonGate ------------------------------
(***************************************************************************)
(* The Python ext_authz gate (scripts/mcoz_gate.py), which the manifests   *)
(* deploy.  Like the Go gate it gives requests tokens bought ahead from    *)
(* the control daemon.  Beyond it, it suspends itself for a while when the *)
(* daemon cannot be reached, can arm each request directly, can send its   *)
(* arms as datagrams, and has a worker that looks after the balance every  *)
(* half second whether it is woken or not.                                 *)
(*                                                                         *)
(* LOCK is held only inside the small helpers: every helper call is a step *)
(* of its own, and between two of them anything may change.                *)
(***************************************************************************)
EXTENDS Integers, FiniteSets

CONSTANTS
  Handler,         \* threads of the ThreadingHTTPServer
  Worker,          \* _refill_worker
  ArmDelayNs, ArmCount,  \* what /set_enabled may set; 0 among them
  REFILL_TARGET_REQ, REFILL_LOW_WATER_REQ, REFILL_BATCH_REQ,
  SYNC_REFILL_ON_MISS, FAIL_OPEN_ON_ARM_UNAVAILABLE,
  MaxTokens,       \* bound: no request comes in once this many were bought
  MaxLost          \* bound: tokens bought without a trace, or lost on the way

\* mcoz_gate.py:78: what the module makes of its environment.
ASSUME PythonGateAssumption ==
  /\ IsFiniteSet(Handler) /\ Worker \notin Handler
  /\ ArmDelayNs \subseteq Nat /\ ArmCount \subseteq Nat
  /\ ArmDelayNs # {} /\ ArmCount # {}
  /\ REFILL_TARGET_REQ \in Nat \ {0} /\ REFILL_BATCH_REQ \in Nat \ {0}
  /\ REFILL_LOW_WATER_REQ \in 0 .. REFILL_TARGET_REQ - 1
  /\ SYNC_REFILL_ON_MISS \in BOOLEAN /\ FAIL_OPEN_ON_ARM_UNAVAILABLE \in BOOLEAN
  /\ MaxTokens \in Nat /\ MaxLost \in Nat

VARIABLES
  DIRECT_ARM,          \* set once from the environment
  udp,                 \* ARM_URL_SCHEME = "udp", likewise
  ARM_ACTIVE, ARM_DELAY_NS, ARM_COUNT, CREDIT_BALANCE_REQ,
  suspended,           \* time.time() < ARM_SUSPENDED_UNTIL
  REFILL_EVENT,
  call,                \* what each thread is doing
  armed_ok,            \* requests answered as armed
  refill_tokens_added, \* tokens bought
  bought,              \* history: tokens the daemon granted the credits of
  lost,                \* history: tokens whose datagram was lost
  voided,              \* history: tokens thrown away by /set_enabled
  attempts             \* history: calls that ended while the gate was suspended,
                       \* those of /set_enabled apart

environment == <<DIRECT_ARM, udp>>
config      == <<ARM_ACTIVE, ARM_DELAY_NS, ARM_COUNT>>
suspension  == <<suspended, attempts>>
counters    == <<armed_ok, refill_tokens_added, bought, lost, voided>>
vars == <<environment, config, CREDIT_BALANCE_REQ, suspension, REFILL_EVENT, call, counters>>

Caller == Handler \cup {Worker}

\* again: /set_enabled is to prime a second time.
Call ==
  [pc : {"idle", "activate", "after", "prime", "refill", "rpc", "config", "check",
         "consume", "retry", "suspend", "need"},
   reason : {"", "enable", "sync-miss", "async", "direct"},
   tokens : Nat, enable : BOOLEAN, changed : BOOLEAN, again : BOOLEAN]

At(pc, reason, tokens) ==
  [pc |-> pc, reason |-> reason, tokens |-> tokens,
   enable |-> FALSE, changed |-> FALSE, again |-> FALSE]

Idle == At("idle", "", 0)

Larger(a, b) == IF a > b THEN a ELSE b

Buying == ARM_ACTIVE /\ ARM_DELAY_NS > 0 /\ ARM_COUNT > 0

\* The bound of the model on incoming requests.
Open == refill_tokens_added < MaxTokens

Goto(p, c) == call' = [call EXCEPT ![p] = c]

\* _signal_refill
Signalled == REFILL_EVENT \/ ~ DIRECT_ARM

\* Throwing the tokens away.
Void ==
  /\ CREDIT_BALANCE_REQ' = 0
  /\ voided' = voided + CREDIT_BALANCE_REQ

Init ==
  /\ DIRECT_ARM \in BOOLEAN /\ udp \in BOOLEAN
  /\ ARM_ACTIVE \in BOOLEAN
  /\ ARM_DELAY_NS \in ArmDelayNs /\ ARM_COUNT \in ArmCount
  /\ CREDIT_BALANCE_REQ = 0
  /\ suspended = FALSE
  /\ REFILL_EVENT = (ARM_ACTIVE /\ ~ DIRECT_ARM)
  /\ call = [p \in Caller |-> Idle]
  /\ armed_ok = 0 /\ refill_tokens_added = 0
  /\ bought = 0 /\ lost = 0 /\ voided = 0
  /\ attempts = 0
-----------------------------------------------------------------------------
(***************************************************************************)
(* /set_enabled                                                            *)
(***************************************************************************)
\* _set_arm_config
SetArmConfig(p, delay, count, enable) ==
  LET changed == delay # ARM_DELAY_NS \/ count # ARM_COUNT IN
  /\ call[p].pc = "idle"
  /\ Open
  /\ ARM_DELAY_NS' = delay
  /\ ARM_COUNT' = count
  /\ IF changed THEN Void ELSE UNCHANGED <<CREDIT_BALANCE_REQ, voided>>
  /\ Goto(p, [At("activate", "", 0) EXCEPT !.enable = enable, !.changed = changed])
  /\ UNCHANGED <<environment, ARM_ACTIVE, suspension, REFILL_EVENT, armed_ok,
                 refill_tokens_added, bought, lost>>

\* _set_arm_active while it holds LOCK.  A second priming follows the first if the
\* configuration changed and the activity did not.
SetArmActive(p) ==
  /\ call[p].pc = "activate"
  /\ ARM_ACTIVE' = call[p].enable
  /\ IF call[p].enable THEN UNCHANGED <<CREDIT_BALANCE_REQ, voided>> ELSE Void
  /\ Goto(p, [At("after", "", 0) EXCEPT
                !.again = call[p].enable /\ call[p].changed /\ ARM_ACTIVE /\ ~ DIRECT_ARM])
  /\ UNCHANGED <<environment, ARM_DELAY_NS, ARM_COUNT, suspension, REFILL_EVENT, armed_ok,
                 refill_tokens_added, bought, lost>>

\* What follows reads ARM_ACTIVE again, without LOCK: prime the balance, or lift
\* the suspension.
AfterSetActive(p) ==
  /\ call[p].pc = "after"
  /\ IF ARM_ACTIVE /\ ~ DIRECT_ARM
     THEN /\ Goto(p, [call[p] EXCEPT !.pc = "prime"])
          /\ UNCHANGED suspension
     ELSE /\ suspended' = FALSE
          /\ attempts' = 0
          /\ Goto(p, IF call[p].again THEN At("prime", "", 0) ELSE Idle)
  /\ UNCHANGED <<environment, config, CREDIT_BALANCE_REQ, REFILL_EVENT, counters>>

\* Where a thread is when a priming is over.
Primed(p) == IF call[p].again THEN At("prime", "", 0) ELSE Idle

\* _prime_refill_on_enable up to its purchase; _signal_refill if there is none.
Prime(p) ==
  /\ call[p].pc = "prime"
  /\ IF Buying /\ CREDIT_BALANCE_REQ < REFILL_TARGET_REQ
     THEN /\ Goto(p, [call[p] EXCEPT !.pc = "refill", !.reason = "enable",
                                     !.tokens = REFILL_TARGET_REQ - CREDIT_BALANCE_REQ])
          /\ UNCHANGED REFILL_EVENT
     ELSE /\ REFILL_EVENT' = Signalled
          /\ Goto(p, Primed(p))
  /\ UNCHANGED <<environment, config, CREDIT_BALANCE_REQ, suspension, counters>>
-----------------------------------------------------------------------------
(***************************************************************************)
(* _process_trigger                                                        *)
(***************************************************************************)
\* _is_arm_active.  A request that is not to be armed is no step.
Trigger(p) ==
  /\ call[p].pc = "idle"
  /\ Open
  /\ ARM_ACTIVE
  /\ Goto(p, At("config", "", 0))
  /\ UNCHANGED <<environment, config, CREDIT_BALANCE_REQ, suspension, REFILL_EVENT, counters>>

\* _get_arm_config
ReadConfig(p) ==
  /\ call[p].pc = "config"
  /\ Goto(p, IF ARM_DELAY_NS > 0 /\ ARM_COUNT > 0 THEN At("check", "", 0) ELSE Idle)
  /\ UNCHANGED <<environment, config, CREDIT_BALANCE_REQ, suspension, REFILL_EVENT, counters>>

\* _check_arm_suspended
CheckSuspended(p) ==
  /\ p \in Handler
  /\ call[p].pc = "check"
  /\ Goto(p, IF suspended THEN Idle
             ELSE IF DIRECT_ARM THEN At("rpc", "direct", 1)
             ELSE At("consume", "", 0))
  /\ UNCHANGED <<environment, config, CREDIT_BALANCE_REQ, suspension, REFILL_EVENT, counters>>

\* mutant: a token is taken without looking whether there is one
ConsumeUnchecked(p) ==
  /\ call[p].pc \in {"consume", "retry"}
  /\ CREDIT_BALANCE_REQ' = CREDIT_BALANCE_REQ - 1
  /\ armed_ok' = armed_ok + 1
  /\ REFILL_EVENT' = (REFILL_EVENT \/ CREDIT_BALANCE_REQ' <= REFILL_LOW_WATER_REQ)
  /\ Goto(p, Idle)
  /\ UNCHANGED <<environment, config, suspension, refill_tokens_added, bought, lost, voided>>

\* _consume_credit_token
Consume(p) ==
  /\ call[p].pc \in {"consume", "retry"}
  /\ CREDIT_BALANCE_REQ > 0
  /\ CREDIT_BALANCE_REQ' = CREDIT_BALANCE_REQ - 1
  /\ armed_ok' = armed_ok + 1
  /\ REFILL_EVENT' = (REFILL_EVENT \/ CREDIT_BALANCE_REQ' <= REFILL_LOW_WATER_REQ)
  /\ Goto(p, Idle)
  /\ UNCHANGED <<environment, config, suspension, refill_tokens_added, bought, lost, voided>>

\* "credit miss; refill queued", or a synchronous refill.
Miss(p) ==
  /\ call[p].pc = "consume"
  /\ CREDIT_BALANCE_REQ = 0
  /\ REFILL_EVENT' = TRUE
  /\ Goto(p, IF SYNC_REFILL_ON_MISS THEN At("refill", "sync-miss", Larger(1, REFILL_BATCH_REQ))
             ELSE Idle)
  /\ UNCHANGED <<environment, config, CREDIT_BALANCE_REQ, suspension, counters>>

\* "credit miss after successful sync refill"
MissAgain(p) ==
  /\ call[p].pc = "retry"
  /\ CREDIT_BALANCE_REQ = 0
  /\ Goto(p, Idle)
  /\ UNCHANGED <<environment, config, CREDIT_BALANCE_REQ, suspension, REFILL_EVENT, counters>>

\* _suspend_arm
Suspend(attempted) ==
  /\ suspended' = TRUE
  /\ attempts' = attempted

\* A synchronous refill that failed suspends the gate, _do_refill having done so
\* already if the call was made: also one that was not made because the gate had
\* been deactivated, whose status is None like that of an exception.
SuspendAgain(p) ==
  /\ call[p].pc = "suspend"
  /\ Suspend(attempts)
  /\ Goto(p, Idle)
  /\ UNCHANGED <<environment, config, CREDIT_BALANCE_REQ, REFILL_EVENT, counters>>
-----------------------------------------------------------------------------
(***************************************************************************)
(* _do_refill and _arm_once                                                *)
(***************************************************************************)
\* What follows a purchase, or the refusal to make one.
Following(p, ok, unavailable) ==
  LET reason == call[p].reason IN
  IF reason = "enable" THEN Primed(p)
  ELSE IF reason = "async" /\ ok THEN At("check", "", 0)
  ELSE IF reason = "sync-miss" /\ ok THEN At("retry", "", 0)
  ELSE IF reason = "sync-miss" /\ unavailable THEN At("suspend", "", 0)
  ELSE Idle

After(p, ok, unavailable) ==
  /\ Goto(p, Following(p, ok, unavailable))
  /\ REFILL_EVENT' = IF call[p].reason = "enable" THEN Signalled ELSE REFILL_EVENT

\* _do_refill takes its own snapshot.
Refill(p) ==
  /\ call[p].pc = "refill"
  /\ IF Buying
     THEN /\ Goto(p, [call[p] EXCEPT !.pc = "rpc"])
          /\ UNCHANGED REFILL_EVENT
     ELSE After(p, FALSE, FAIL_OPEN_ON_ARM_UNAVAILABLE)
  /\ UNCHANGED <<environment, config, CREDIT_BALANCE_REQ, suspension, counters>>

\* The tokens of a call that succeeded; a direct arm is its request's own token
\* (refill_tokens_added counts it only here).
AddTokens(p) ==
  /\ refill_tokens_added' = refill_tokens_added + call[p].tokens
  /\ IF call[p].reason = "direct"
     THEN /\ armed_ok' = armed_ok + 1
          /\ UNCHANGED CREDIT_BALANCE_REQ
     ELSE /\ CREDIT_BALANCE_REQ' = CREDIT_BALANCE_REQ + call[p].tokens
          /\ UNCHANGED armed_ok

\* _clear_arm_suspended
Resume == suspended' = FALSE /\ attempts' = 0

\* The daemon answered 2xx, or the datagram was sent and reached it.
Granted(p) ==
  /\ call[p].pc = "rpc"
  /\ bought' = bought + call[p].tokens
  /\ AddTokens(p)
  /\ Resume
  /\ After(p, TRUE, FALSE)
  /\ UNCHANGED <<environment, config, lost, voided>>

\* "udp-sent", but not received.
DatagramLost(p) ==
  /\ call[p].pc = "rpc"
  /\ udp
  /\ lost + call[p].tokens <= MaxLost
  /\ lost' = lost + call[p].tokens
  /\ AddTokens(p)
  /\ Resume
  /\ After(p, TRUE, FALSE)
  /\ UNCHANGED <<environment, config, bought, voided>>

\* mutant: a call that timed out is taken for one that was granted
FailedAssumed(p, granted, unavailable) ==
  /\ call[p].pc = "rpc"
  /\ ~ udp
  /\ bought' = IF granted THEN bought + call[p].tokens ELSE bought
  /\ AddTokens(p)
  /\ Resume
  /\ After(p, TRUE, unavailable)
  /\ UNCHANGED <<environment, config, lost, voided>>

\* The call failed, or timed out with the credits granted all the same.  Only an
\* exception and some statuses make the gate suspend itself.
Failed(p, granted, unavailable) ==
  /\ call[p].pc = "rpc"
  /\ granted => ~ udp /\ bought + call[p].tokens <= refill_tokens_added + MaxLost
  /\ bought' = IF granted THEN bought + call[p].tokens ELSE bought
  /\ LET attempted == IF suspended /\ call[p].reason # "enable" THEN attempts + 1 ELSE attempts IN
     IF unavailable /\ FAIL_OPEN_ON_ARM_UNAVAILABLE
     THEN Suspend(attempted)
     ELSE attempts' = attempted /\ UNCHANGED suspended
  /\ After(p, FALSE, unavailable /\ FAIL_OPEN_ON_ARM_UNAVAILABLE)
  /\ UNCHANGED <<environment, config, CREDIT_BALANCE_REQ, armed_ok, refill_tokens_added,
                 lost, voided>>

\* ARM_SUSPEND_SEC have passed.
Expire ==
  /\ suspended
  /\ Resume
  /\ UNCHANGED <<environment, config, CREDIT_BALANCE_REQ, REFILL_EVENT, call, counters>>
-----------------------------------------------------------------------------
(***************************************************************************)
(* _refill_worker                                                          *)
(***************************************************************************)
\* mutant: the wait has no timeout
WaitForSignal ==
  /\ call[Worker].pc = "idle"
  /\ REFILL_EVENT
  /\ REFILL_EVENT' = FALSE
  /\ Goto(Worker, At("check", "", 0))
  /\ UNCHANGED <<environment, config, CREDIT_BALANCE_REQ, suspension, counters>>

\* REFILL_EVENT.wait(timeout=0.5) and clear()
Wait ==
  /\ call[Worker].pc = "idle"
  /\ REFILL_EVENT' = FALSE
  /\ Goto(Worker, At("check", "", 0))
  /\ UNCHANGED <<environment, config, CREDIT_BALANCE_REQ, suspension, counters>>

\* mutant: the worker does not look at the suspension
LoopAlways ==
  /\ call[Worker].pc = "check"
  /\ Goto(Worker, At("need", "", 0))
  /\ UNCHANGED <<environment, config, CREDIT_BALANCE_REQ, suspension, REFILL_EVENT, counters>>

Loop ==
  /\ call[Worker].pc = "check"
  /\ Goto(Worker, IF suspended THEN Idle ELSE At("need", "", 0))
  /\ UNCHANGED <<environment, config, CREDIT_BALANCE_REQ, suspension, REFILL_EVENT, counters>>

\* mutant: the low-water mark is not looked at
NeedAlways ==
  /\ call[Worker].pc = "need"
  /\ Goto(Worker, IF ~ DIRECT_ARM /\ Buying
                  THEN At("refill", "async",
                          Larger(REFILL_BATCH_REQ, REFILL_TARGET_REQ - CREDIT_BALANCE_REQ))
                  ELSE Idle)
  /\ UNCHANGED <<environment, config, CREDIT_BALANCE_REQ, suspension, REFILL_EVENT, counters>>

\* mutant: what is missing is bought on top of a batch
NeedBoth ==
  /\ call[Worker].pc = "need"
  /\ Goto(Worker, IF ~ DIRECT_ARM /\ Buying /\ CREDIT_BALANCE_REQ < REFILL_LOW_WATER_REQ
                  THEN At("refill", "async",
                          REFILL_BATCH_REQ + REFILL_TARGET_REQ - CREDIT_BALANCE_REQ)
                  ELSE Idle)
  /\ UNCHANGED <<environment, config, CREDIT_BALANCE_REQ, suspension, REFILL_EVENT, counters>>

\* _current_refill_need
Need ==
  /\ call[Worker].pc = "need"
  /\ Goto(Worker, IF ~ DIRECT_ARM /\ Buying /\ CREDIT_BALANCE_REQ < REFILL_LOW_WATER_REQ
                  THEN At("refill", "async",
                          Larger(REFILL_BATCH_REQ, REFILL_TARGET_REQ - CREDIT_BALANCE_REQ))
                  ELSE Idle)
  /\ UNCHANGED <<environment, config, CREDIT_BALANCE_REQ, suspension, REFILL_EVENT, counters>>
-----------------------------------------------------------------------------
Buy(p) ==
  \/ Refill(p)
  \/ Granted(p) \/ DatagramLost(p)
  \/ \E granted, unavailable \in BOOLEAN : Failed(p, granted, unavailable)

RefillWorker == Wait \/ Loop \/ Need \/ Buy(Worker)

\* The steps of a handler once its request is in.
Handle(p) ==
  \/ SetArmActive(p) \/ AfterSetActive(p) \/ Prime(p)
  \/ ReadConfig(p) \/ CheckSuspended(p) \/ Consume(p) \/ Miss(p) \/ MissAgain(p)
  \/ SuspendAgain(p)
  \/ Buy(p)

Next ==
  \/ RefillWorker
  \/ Expire
  \/ \E p \in Handler :
       \/ \E delay \in ArmDelayNs, count \in ArmCount, enable \in BOOLEAN :
            SetArmConfig(p, delay, count, enable)
       \/ Trigger(p)
       \/ Handle(p)

Safety == Init /\ [][Next]_vars

(***************************************************************************)
(* Threads are scheduled, every call ends, at the latest by its timeout,   *)
(* and time passes.  A daemon asked again and again answers at some time.  *)
(* Nothing is assumed of the requests.                                     *)
(***************************************************************************)
Fairness ==
  /\ WF_vars(RefillWorker)
  /\ WF_vars(Expire)
  /\ \A p \in Handler : WF_vars(Handle(p))
  /\ \A p \in Caller : SF_vars(Granted(p))

Spec == Safety /\ Fairness
-----------------------------------------------------------------------------
TypeOK ==
  /\ DIRECT_ARM \in BOOLEAN /\ udp \in BOOLEAN
  /\ ARM_ACTIVE \in BOOLEAN
  /\ ARM_DELAY_NS \in ArmDelayNs /\ ARM_COUNT \in ArmCount
  /\ CREDIT_BALANCE_REQ \in Nat
  /\ suspended \in BOOLEAN /\ REFILL_EVENT \in BOOLEAN
  /\ call \in [Caller -> Call]
  /\ armed_ok \in Nat /\ refill_tokens_added \in Nat
  /\ bought \in Nat /\ lost \in Nat /\ voided \in Nat /\ attempts \in Nat

\* README.md:22 "ARMED": every request answered as armed had its credits granted,
\* whatever was reconfigured, deactivated or answered late between the reads of
\* one helper and the next; by UDP, all but those whose datagram was lost.
TokensAreBacked ==
  /\ armed_ok + CREDIT_BALANCE_REQ + voided = refill_tokens_added
  /\ refill_tokens_added <= bought + lost
  /\ ~ udp => lost = 0

\* What the worker alone keeps the balance below.
WorkerBound == Larger(REFILL_TARGET_REQ, REFILL_LOW_WATER_REQ - 1 + REFILL_BATCH_REQ)

\* Purchases under way are not counted when another one is decided on, and the
\* two primings of one /set_enabled follow one another: the balance overshoots by
\* no more than one purchase of each handler.
BalanceBounded ==
  CREDIT_BALANCE_REQ <=
    WorkerBound + Cardinality(Handler) * Larger(REFILL_TARGET_REQ, REFILL_BATCH_REQ)

Bank == INSTANCE TokenBank WITH
  MaxPurchase <- Larger(REFILL_TARGET_REQ, REFILL_BATCH_REQ),
  granted <- bought, trusted <- lost, held <- CREDIT_BALANCE_REQ, used <- armed_ok

\* This gate is the same bank of tokens as the Go gate, with other locks, modes,
\* transports and a suspension (mcoz_gate.py:462-496): each step buys at most one
\* purchase, lets one request through for one token, or throws all tokens away.
ImplementsTokenBank == Bank!Spec

\* mcoz_gate.py:572: a daemon that is not available is left alone.  While the gate
\* is suspended no thread calls it that had not passed the check before, although
\* requests, the worker and late answers suspend and resume it concurrently.
SuspensionHolds ==
  attempts <= Cardinality(Handler)

\* mcoz_gate.py:581: the worker looks every half second.  A gate that ran out of
\* tokens gets some, through suspensions and failures, even if no request comes.
EmptyIsRefilled ==
  (~ DIRECT_ARM /\ Buying /\ CREDIT_BALANCE_REQ = 0) ~> (CREDIT_BALANCE_REQ > 0 \/ ~ Buying)
=============================================================================
