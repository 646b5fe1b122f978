--------------------------- MODULE PythonGateProofs ---------------------------
(***************************************************************************)
(* For any number of handlers, any batch sizes and either transport: the   *)
(* tokens of PythonGate are backed, a suspended gate leaves the daemon     *)
(* alone, and the tokens held are bounded.                                 *)
(***************************************************************************)
EXTENDS PythonGate, FiniteSetTheorems, TLAPS

\* The threads that may call the daemon without passing the check again.
PastCheck ==
  {p \in Caller : \/ call[p].pc \in {"consume", "need"}
                  \/ call[p].pc \in {"refill", "rpc"} /\ call[p].reason # "enable"}

\* The thread that suspended the gate is not one of them, and each call that ends
\* takes its thread out of them.
SuspensionInv ==
  /\ suspended => attempts + Cardinality(PastCheck) <= Cardinality(Handler)
  /\ ~ suspended => attempts = 0

\* A direct arm is one token's worth.
FineCall == {c \in Call : c.reason = "direct" => c.tokens = 1}

IInv == TypeOK /\ TokensAreBacked /\ SuspensionInv /\ call \in [Caller -> FineCall]

\* Places from which a call needs the check, or /set_enabled.
Outside == {"idle", "activate", "after", "prime", "config", "check", "retry", "suspend"}
-----------------------------------------------------------------------------
LEMMA PastCheckFacts ==
  /\ IsFiniteSet(PastCheck) /\ Cardinality(PastCheck) \in Nat
  /\ IsFiniteSet(Caller) /\ Cardinality(Caller) = Cardinality(Handler) + 1
  /\ Cardinality(Handler) \in Nat
<1>1. IsFiniteSet(Handler) /\ Worker \notin Handler
  BY PythonGateAssumption
<1>2. IsFiniteSet(Caller) /\ Cardinality(Caller) = Cardinality(Handler) + 1
  BY <1>1, FS_AddElement DEF Caller
<1>3. IsFiniteSet(PastCheck)
  BY <1>2, FS_Subset DEF PastCheck
<1> QED
  BY <1>1, <1>2, <1>3, FS_CardinalityType

LEMMA PastCheckNext == IsFiniteSet(PastCheck') /\ Cardinality(PastCheck') \in Nat
<1>1. PastCheck' \subseteq Caller
  BY DEF PastCheck, Caller
<1> QED
  BY <1>1, PastCheckFacts, FS_Subset, FS_CardinalityType

\* The ways in which a step treats the suspension.
LEMMA SuspensionKept ==
  ASSUME SuspensionInv, attempts \in Nat,
         \/ Resume
         \/ UNCHANGED suspension /\ PastCheck' \subseteq PastCheck
         \/ UNCHANGED suspension /\ ~ suspended
         \/ Suspend(attempts) /\ \E p \in Caller : /\ p \notin PastCheck'
                                                   /\ PastCheck' \subseteq PastCheck
         \/ /\ suspended /\ attempts' = attempts + 1 /\ suspended'
            /\ \E p \in PastCheck : PastCheck' \subseteq PastCheck \ {p}
  PROVE  SuspensionInv'
<1>1. CASE Resume
  BY <1>1 DEF Resume, SuspensionInv
<1>2. CASE UNCHANGED suspension /\ PastCheck' \subseteq PastCheck
  <2>1. Cardinality(PastCheck') <= Cardinality(PastCheck)
    BY <1>2, PastCheckFacts, FS_Subset
  <2> QED
    BY <1>2, <2>1, PastCheckFacts, PastCheckNext DEF SuspensionInv, suspension
<1>3. CASE UNCHANGED suspension /\ ~ suspended
  BY <1>3 DEF SuspensionInv, suspension
<1>4. ASSUME Suspend(attempts), NEW p \in Caller, p \notin PastCheck', PastCheck' \subseteq PastCheck
      PROVE  SuspensionInv'
  <2>1. CASE suspended
    <3>1. Cardinality(PastCheck') <= Cardinality(PastCheck)
      BY <1>4, PastCheckFacts, FS_Subset
    <3> QED
      BY <1>4, <2>1, <3>1, PastCheckFacts, PastCheckNext DEF SuspensionInv, Suspend
  <2>2. CASE ~ suspended
    <3>1. PastCheck' \subseteq Caller \ {p}
      BY <1>4 DEF PastCheck, Caller
    <3>2. Cardinality(Caller \ {p}) = Cardinality(Handler) /\ IsFiniteSet(Caller \ {p})
      <4>1. Cardinality(Caller \ {p}) = Cardinality(Caller) - 1 /\ IsFiniteSet(Caller \ {p})
        BY <1>4, PastCheckFacts, FS_RemoveElement
      <4> QED
        BY <4>1, PastCheckFacts
    <3>3. Cardinality(PastCheck') <= Cardinality(Handler)
      BY <3>1, <3>2, FS_Subset
    <3> QED
      BY <1>4, <2>2, <3>3, PastCheckFacts, PastCheckNext DEF SuspensionInv, Suspend
  <2> QED
    BY <2>1, <2>2
<1>5. ASSUME suspended, attempts' = attempts + 1, suspended', NEW p \in PastCheck,
             PastCheck' \subseteq PastCheck \ {p}
      PROVE  SuspensionInv'
  <2>1. Cardinality(PastCheck \ {p}) = Cardinality(PastCheck) - 1 /\ IsFiniteSet(PastCheck \ {p})
    BY PastCheckFacts, FS_RemoveElement
  <2>2. Cardinality(PastCheck') <= Cardinality(PastCheck) - 1
    BY <1>5, <2>1, FS_Subset
  <2> QED
    BY <1>5, <2>2, PastCheckFacts, PastCheckNext DEF SuspensionInv
<1> QED
  BY <1>1, <1>2, <1>3, <1>4, <1>5
-----------------------------------------------------------------------------
LEMMA IInvGives ==
  ASSUME IInv
  PROVE  /\ ARM_ACTIVE \in BOOLEAN /\ ARM_DELAY_NS \in ArmDelayNs /\ ARM_COUNT \in ArmCount
         /\ CREDIT_BALANCE_REQ \in Nat /\ REFILL_EVENT \in BOOLEAN
         /\ suspended \in BOOLEAN /\ attempts \in Nat
         /\ armed_ok \in Nat /\ refill_tokens_added \in Nat
         /\ bought \in Nat /\ lost \in Nat /\ voided \in Nat
         /\ call \in [Caller -> FineCall]
         /\ armed_ok + CREDIT_BALANCE_REQ + voided = refill_tokens_added
         /\ refill_tokens_added <= bought + lost
         /\ SuspensionInv
BY DEF IInv, TypeOK, TokensAreBacked

\* The inductive invariant, from its parts after a step.
LEMMA IInvParts ==
  ASSUME IInv, UNCHANGED environment,
         ARM_ACTIVE' \in BOOLEAN, ARM_DELAY_NS' \in ArmDelayNs, ARM_COUNT' \in ArmCount,
         CREDIT_BALANCE_REQ' \in Nat, REFILL_EVENT' \in BOOLEAN,
         suspended' \in BOOLEAN, attempts' \in Nat,
         armed_ok' \in Nat, refill_tokens_added' \in Nat,
         bought' \in Nat, lost' \in Nat, voided' \in Nat,
         call' \in [Caller -> FineCall],
         armed_ok' + CREDIT_BALANCE_REQ' + voided' = refill_tokens_added',
         refill_tokens_added' <= bought' + lost',
         udp \/ lost' = lost,
         SuspensionInv'
  PROVE  IInv'
<1>1. DIRECT_ARM' = DIRECT_ARM /\ udp' = udp /\ DIRECT_ARM \in BOOLEAN /\ udp \in BOOLEAN
  BY DEF environment, IInv, TypeOK
<1>2. call' \in [Caller -> Call]
  BY DEF FineCall
<1>3. TypeOK'
  BY <1>1, <1>2 DEF TypeOK
<1>4. ~ udp' => lost' = 0
  BY <1>1 DEF IInv, TokensAreBacked
<1>5. TokensAreBacked'
  BY <1>4 DEF TokensAreBacked
<1> QED
  BY <1>3, <1>5 DEF IInv

\* A step that leaves tokens and configuration alone.
LEMMA IInvControl ==
  ASSUME IInv, UNCHANGED <<environment, config, CREDIT_BALANCE_REQ, counters>>,
         REFILL_EVENT' \in BOOLEAN, suspended' \in BOOLEAN, attempts' \in Nat,
         call' \in [Caller -> FineCall],
         SuspensionInv'
  PROVE  IInv'
<1>1. /\ ARM_ACTIVE' = ARM_ACTIVE /\ ARM_DELAY_NS' = ARM_DELAY_NS /\ ARM_COUNT' = ARM_COUNT
      /\ armed_ok' = armed_ok /\ refill_tokens_added' = refill_tokens_added
      /\ bought' = bought /\ lost' = lost /\ voided' = voided
      /\ CREDIT_BALANCE_REQ' = CREDIT_BALANCE_REQ /\ UNCHANGED environment
  BY DEF config, counters
<1> QED
  BY <1>1, IInvGives, IInvParts

\* A step that leaves the suspension alone.
LEMMA SuspensionUnchanged ==
  ASSUME IInv, UNCHANGED suspension, PastCheck' \subseteq PastCheck \/ ~ suspended
  PROVE  SuspensionInv' /\ suspended' \in BOOLEAN /\ attempts' \in Nat
<1>1. suspended' = suspended /\ attempts' = attempts
  BY DEF suspension
<1> QED
  BY <1>1, IInvGives, SuspensionKept

\* A thread that moves from one record to another.
LEMMA GotoFacts ==
  ASSUME IInv, NEW p \in Caller, NEW c \in FineCall, Goto(p, c)
  PROVE  /\ call' \in [Caller -> FineCall]
         /\ (c.pc \in Outside \/ (c.reason = "enable" /\ c.pc \in {"refill", "rpc"}))
              => PastCheck' \subseteq PastCheck \ {p}
         /\ p \in PastCheck => PastCheck' \subseteq PastCheck
<1>1. call \in [Caller -> FineCall] /\ call' = [call EXCEPT ![p] = c]
  BY IInvGives DEF Goto
<1>2. call'[p] = c /\ \A q \in Caller \ {p} : call'[q] = call[q]
  BY <1>1
<1>3. call' \in [Caller -> FineCall]
  BY <1>1
<1> QED
  BY <1>2, <1>3 DEF PastCheck, Outside

LEMMA OutsideType ==
  ASSUME NEW pc \in Outside
  PROVE  At(pc, "", 0) \in FineCall /\ At(pc, "", 0).pc \in Outside
BY DEF At, Call, FineCall, Outside

LEMMA IdleType == Idle \in FineCall /\ Idle.pc \in Outside
BY OutsideType DEF Idle, Outside

LEMMA CallType ==
  ASSUME IInv, NEW p \in Caller
  PROVE  /\ call[p] \in FineCall /\ call[p] \in Call /\ call[p].tokens \in Nat
         /\ call[p].reason = "direct" => call[p].tokens = 1
<1>1. call[p] \in FineCall
  BY IInvGives
<1> QED
  BY <1>1 DEF FineCall, Call

LEMMA SignalledType ==
  ASSUME IInv PROVE Signalled \in BOOLEAN
BY IInvGives DEF Signalled

LEMMA PrimedType ==
  ASSUME NEW p PROVE Primed(p) \in FineCall /\ Primed(p).pc \in Outside
BY OutsideType, IdleType DEF Primed, Outside

LEMMA FollowingType ==
  ASSUME NEW p, NEW ok \in BOOLEAN, NEW unavailable \in BOOLEAN
  PROVE  Following(p, ok, unavailable) \in FineCall /\ Following(p, ok, unavailable).pc \in Outside
<1>1. /\ At("check", "", 0) \in FineCall /\ At("check", "", 0).pc \in Outside
      /\ At("retry", "", 0) \in FineCall /\ At("retry", "", 0).pc \in Outside
      /\ At("suspend", "", 0) \in FineCall /\ At("suspend", "", 0).pc \in Outside
  BY OutsideType DEF Outside
<1> QED
  BY <1>1, PrimedType, IdleType DEF Following

\* A purchase that is over leaves its thread outside.
LEMMA AfterFacts ==
  ASSUME IInv, NEW p \in Caller, NEW ok \in BOOLEAN, NEW unavailable \in BOOLEAN,
         After(p, ok, unavailable)
  PROVE  /\ REFILL_EVENT' \in BOOLEAN
         /\ call' \in [Caller -> FineCall]
         /\ PastCheck' \subseteq PastCheck \ {p}
<1>1. Goto(p, Following(p, ok, unavailable))
  BY DEF After
<1>2. REFILL_EVENT' \in BOOLEAN
  BY SignalledType, IInvGives DEF After
<1> QED
  BY <1>1, <1>2, FollowingType, GotoFacts
-----------------------------------------------------------------------------
LEMMA InitHolds == Init => IInv
<1> SUFFICES ASSUME Init PROVE IInv
  OBVIOUS
<1>1. call \in [Caller -> FineCall]
  BY IdleType DEF Init
<1>2. TypeOK
  BY <1>1, PythonGateAssumption DEF Init, TypeOK, FineCall
<1>3. TokensAreBacked
  BY DEF Init, TokensAreBacked
<1>4. SuspensionInv
  BY DEF Init, SuspensionInv
<1> QED
  BY <1>1, <1>2, <1>3, <1>4 DEF IInv

\* Tokens thrown away are counted.
LEMMA VoidFacts ==
  ASSUME IInv, Void \/ UNCHANGED <<CREDIT_BALANCE_REQ, voided>>
  PROVE  /\ CREDIT_BALANCE_REQ' \in Nat /\ voided' \in Nat
         /\ CREDIT_BALANCE_REQ' + voided' = CREDIT_BALANCE_REQ + voided
BY IInvGives DEF Void

\* /set_enabled stores the configuration.
LEMMA SetArmConfigPreserves ==
  ASSUME IInv, NEW p \in Handler,
         NEW delay \in ArmDelayNs, NEW count \in ArmCount, NEW enable \in BOOLEAN,
         SetArmConfig(p, delay, count, enable)
  PROVE  IInv'
<1> p \in Caller
  BY DEF Caller
<1> DEFINE changed == delay # ARM_DELAY_NS \/ count # ARM_COUNT
<1> DEFINE c == [At("activate", "", 0) EXCEPT !.enable = enable, !.changed = changed]
<1>1. c \in FineCall /\ c.pc \in Outside
  BY DEF At, Call, FineCall, Outside
<1>2. Goto(p, c)
  BY DEF SetArmConfig
<1> HIDE DEF c
<1>3. call' \in [Caller -> FineCall] /\ PastCheck' \subseteq PastCheck
  BY <1>1, <1>2, GotoFacts
<1>4. /\ CREDIT_BALANCE_REQ' \in Nat /\ voided' \in Nat
      /\ CREDIT_BALANCE_REQ' + voided' = CREDIT_BALANCE_REQ + voided
  <2>1. Void \/ UNCHANGED <<CREDIT_BALANCE_REQ, voided>>
    BY DEF SetArmConfig
  <2> QED
    BY <2>1, VoidFacts
<1>5. /\ ARM_ACTIVE' = ARM_ACTIVE /\ ARM_DELAY_NS' = delay /\ ARM_COUNT' = count
      /\ UNCHANGED environment /\ UNCHANGED suspension
      /\ REFILL_EVENT' = REFILL_EVENT /\ armed_ok' = armed_ok
      /\ refill_tokens_added' = refill_tokens_added /\ bought' = bought /\ lost' = lost
  BY DEF SetArmConfig
<1>6. SuspensionInv' /\ suspended' \in BOOLEAN /\ attempts' \in Nat
  BY <1>3, <1>5, SuspensionUnchanged
<1> QED
  BY <1>3, <1>4, <1>5, <1>6, IInvGives, IInvParts

\* /set_enabled stores the activity.
LEMMA SetArmActivePreserves ==
  ASSUME IInv, NEW p \in Handler, SetArmActive(p)
  PROVE  IInv'
<1> p \in Caller
  BY DEF Caller
<1> DEFINE again == call[p].enable /\ call[p].changed /\ ARM_ACTIVE /\ ~ DIRECT_ARM
<1> DEFINE c == [At("after", "", 0) EXCEPT !.again = again]
<1>1. c \in FineCall /\ c.pc \in Outside
  BY DEF At, Call, FineCall, Outside
<1>2. Goto(p, c)
  BY DEF SetArmActive
<1> HIDE DEF c
<1>3. call' \in [Caller -> FineCall] /\ PastCheck' \subseteq PastCheck
  BY <1>1, <1>2, GotoFacts
<1>4. /\ CREDIT_BALANCE_REQ' \in Nat /\ voided' \in Nat
      /\ CREDIT_BALANCE_REQ' + voided' = CREDIT_BALANCE_REQ + voided
  <2>1. Void \/ UNCHANGED <<CREDIT_BALANCE_REQ, voided>>
    BY DEF SetArmActive
  <2> QED
    BY <2>1, VoidFacts
<1>5. ARM_ACTIVE' \in BOOLEAN
  BY CallType DEF SetArmActive, Call
<1>6. /\ ARM_DELAY_NS' = ARM_DELAY_NS /\ ARM_COUNT' = ARM_COUNT
      /\ UNCHANGED environment /\ UNCHANGED suspension
      /\ REFILL_EVENT' = REFILL_EVENT /\ armed_ok' = armed_ok
      /\ refill_tokens_added' = refill_tokens_added /\ bought' = bought /\ lost' = lost
  BY DEF SetArmActive
<1>7. SuspensionInv' /\ suspended' \in BOOLEAN /\ attempts' \in Nat
  BY <1>3, <1>6, SuspensionUnchanged
<1> QED
  BY <1>3, <1>4, <1>5, <1>6, <1>7, IInvGives, IInvParts

\* /set_enabled goes on to prime the balance, or lifts the suspension.
LEMMA AfterSetActivePreserves ==
  ASSUME IInv, NEW p \in Handler, AfterSetActive(p)
  PROVE  IInv'
<1> p \in Caller
  BY DEF Caller
<1> DEFINE c == [call[p] EXCEPT !.pc = "prime"]
<1>1. c \in FineCall /\ c.pc \in Outside
  BY CallType DEF Call, FineCall, Outside
<1>2. At("prime", "", 0) \in FineCall /\ At("prime", "", 0).pc \in Outside
  BY OutsideType DEF Outside
<1>3. Goto(p, c) \/ Goto(p, At("prime", "", 0)) \/ Goto(p, Idle)
  BY DEF AfterSetActive
<1> HIDE DEF c
<1>4. call' \in [Caller -> FineCall] /\ PastCheck' \subseteq PastCheck
  BY <1>1, <1>2, <1>3, IdleType, GotoFacts
<1>5. SuspensionInv' /\ suspended' \in BOOLEAN /\ attempts' \in Nat
  <2>1. CASE UNCHANGED suspension
    BY <1>4, <2>1, SuspensionUnchanged
  <2>2. CASE Resume
    BY <2>2, SuspensionKept, IInvGives DEF Resume
  <2> QED
    BY <2>1, <2>2 DEF AfterSetActive, Resume
<1>6. UNCHANGED <<environment, config, CREDIT_BALANCE_REQ, counters>> /\ REFILL_EVENT' = REFILL_EVENT
  BY DEF AfterSetActive
<1> QED
  BY <1>4, <1>5, <1>6, IInvGives, IInvControl

\* A priming decides on a purchase of a positive number of tokens, or on none.
LEMMA PrimePreserves ==
  ASSUME IInv, NEW p \in Handler, Prime(p)
  PROVE  IInv'
<1> p \in Caller
  BY DEF Caller
<1> DEFINE c == [call[p] EXCEPT !.pc = "refill", !.reason = "enable",
                                !.tokens = REFILL_TARGET_REQ - CREDIT_BALANCE_REQ]
<1>1. ASSUME CREDIT_BALANCE_REQ < REFILL_TARGET_REQ
      PROVE  c \in FineCall /\ c.reason = "enable" /\ c.pc = "refill"
  <2>1. REFILL_TARGET_REQ - CREDIT_BALANCE_REQ \in Nat
    BY <1>1, IInvGives, PythonGateAssumption
  <2> QED
    BY <2>1, CallType DEF Call, FineCall
<1>2. (CREDIT_BALANCE_REQ < REFILL_TARGET_REQ /\ Goto(p, c)) \/ Goto(p, Primed(p))
  BY DEF Prime
<1> HIDE DEF c
<1>3. call' \in [Caller -> FineCall] /\ PastCheck' \subseteq PastCheck
  BY <1>1, <1>2, PrimedType, GotoFacts
<1>4. REFILL_EVENT' \in BOOLEAN
  BY SignalledType, IInvGives DEF Prime
<1>5. UNCHANGED <<environment, config, CREDIT_BALANCE_REQ, counters>> /\ UNCHANGED suspension
  BY DEF Prime
<1> QED
  BY <1>3, <1>4, <1>5, SuspensionUnchanged, IInvControl
-----------------------------------------------------------------------------
\* A request comes in, and its thread reads the configuration.
LEMMA TriggerPreserves ==
  ASSUME IInv, NEW p \in Handler, Trigger(p) \/ ReadConfig(p)
  PROVE  IInv'
<1> p \in Caller
  BY DEF Caller
<1>1. \E pc \in {"config", "check"} : Goto(p, At(pc, "", 0)) \/ Goto(p, Idle)
  BY DEF Trigger, ReadConfig
<1>2. /\ At("check", "", 0) \in FineCall /\ At("check", "", 0).pc \in Outside
      /\ At("config", "", 0) \in FineCall /\ At("config", "", 0).pc \in Outside
  BY OutsideType DEF Outside
<1>3. call' \in [Caller -> FineCall] /\ PastCheck' \subseteq PastCheck
  BY <1>1, <1>2, IdleType, GotoFacts
<1>4. /\ UNCHANGED <<environment, config, CREDIT_BALANCE_REQ, counters>>
      /\ UNCHANGED suspension /\ REFILL_EVENT' = REFILL_EVENT
  BY DEF Trigger, ReadConfig
<1> QED
  BY <1>3, <1>4, SuspensionUnchanged, IInvGives, IInvControl

\* Only a gate that is not suspended lets a thread past the check.
LEMMA CheckSuspendedPreserves ==
  ASSUME IInv, NEW p \in Handler, CheckSuspended(p)
  PROVE  IInv'
<1> p \in Caller
  BY DEF Caller
<1>1. At("rpc", "direct", 1) \in FineCall /\ At("consume", "", 0) \in FineCall
  BY DEF At, Call, FineCall
<1>2. \/ Goto(p, Idle)
      \/ ~ suspended /\ (Goto(p, At("rpc", "direct", 1)) \/ Goto(p, At("consume", "", 0)))
  BY DEF CheckSuspended
<1>3. call' \in [Caller -> FineCall] /\ (PastCheck' \subseteq PastCheck \/ ~ suspended)
  BY <1>1, <1>2, IdleType, GotoFacts
<1>4. /\ UNCHANGED <<environment, config, CREDIT_BALANCE_REQ, counters>>
      /\ UNCHANGED suspension /\ REFILL_EVENT' = REFILL_EVENT
  BY DEF CheckSuspended
<1> QED
  BY <1>3, <1>4, SuspensionUnchanged, IInvGives, IInvControl

\* A request takes a token that is there.
LEMMA ConsumePreserves ==
  ASSUME IInv, NEW p \in Handler, Consume(p)
  PROVE  IInv'
<1> p \in Caller
  BY DEF Caller
<1>1. call' \in [Caller -> FineCall] /\ PastCheck' \subseteq PastCheck
  BY IdleType, GotoFacts DEF Consume
<1>2. /\ CREDIT_BALANCE_REQ' \in Nat /\ armed_ok' \in Nat
      /\ armed_ok' + CREDIT_BALANCE_REQ' = armed_ok + CREDIT_BALANCE_REQ
  BY IInvGives DEF Consume
<1>3. REFILL_EVENT' \in BOOLEAN
  BY IInvGives DEF Consume
<1>4. /\ UNCHANGED environment /\ UNCHANGED suspension
      /\ ARM_ACTIVE' = ARM_ACTIVE /\ ARM_DELAY_NS' = ARM_DELAY_NS /\ ARM_COUNT' = ARM_COUNT
      /\ refill_tokens_added' = refill_tokens_added
      /\ bought' = bought /\ lost' = lost /\ voided' = voided
  BY DEF Consume, config
<1>5. SuspensionInv' /\ suspended' \in BOOLEAN /\ attempts' \in Nat
  BY <1>1, <1>4, SuspensionUnchanged
<1> QED
  BY <1>1, <1>2, <1>3, <1>4, <1>5, IInvGives, IInvParts

\* A request that found no token.
LEMMA MissPreserves ==
  ASSUME IInv, NEW p \in Handler, Miss(p) \/ MissAgain(p)
  PROVE  IInv'
<1> p \in Caller
  BY DEF Caller
<1> DEFINE c == At("refill", "sync-miss", Larger(1, REFILL_BATCH_REQ))
<1>1. c \in FineCall
  <2>1. Larger(1, REFILL_BATCH_REQ) \in Nat
    BY PythonGateAssumption DEF Larger
  <2> QED
    BY <2>1 DEF At, Call, FineCall
<1>2. (call[p].pc = "consume" /\ Goto(p, c)) \/ Goto(p, Idle)
  BY DEF Miss, MissAgain
<1>3. call[p].pc = "consume" => p \in PastCheck
  BY DEF PastCheck
<1> HIDE DEF c
<1>4. call' \in [Caller -> FineCall] /\ PastCheck' \subseteq PastCheck
  BY <1>1, <1>2, <1>3, IdleType, GotoFacts
<1>5. REFILL_EVENT' \in BOOLEAN
  BY IInvGives DEF Miss, MissAgain
<1>6. UNCHANGED <<environment, config, CREDIT_BALANCE_REQ, counters>> /\ UNCHANGED suspension
  BY DEF Miss, MissAgain
<1> QED
  BY <1>4, <1>5, <1>6, SuspensionUnchanged, IInvControl

\* The suspension of a handler whose refill failed, which has left the daemon.
LEMMA SuspendAgainPreserves ==
  ASSUME IInv, NEW p \in Handler, SuspendAgain(p)
  PROVE  IInv'
<1> p \in Caller
  BY DEF Caller
<1>1. call' \in [Caller -> FineCall] /\ PastCheck' \subseteq PastCheck \ {p}
  BY IdleType, GotoFacts DEF SuspendAgain
<1>2. Suspend(attempts) /\ attempts \in Nat
  BY IInvGives DEF SuspendAgain
<1>3. SuspensionInv'
  BY <1>1, <1>2, SuspensionKept, IInvGives
<1>4. suspended' \in BOOLEAN /\ attempts' \in Nat
  BY <1>2 DEF Suspend
<1>5. UNCHANGED <<environment, config, CREDIT_BALANCE_REQ, counters>> /\ REFILL_EVENT' = REFILL_EVENT
  BY DEF SuspendAgain
<1> QED
  BY <1>1, <1>3, <1>4, <1>5, IInvGives, IInvControl
-----------------------------------------------------------------------------
\* A purchase begins, or is refused.
LEMMA RefillPreserves ==
  ASSUME IInv, NEW p \in Caller, Refill(p)
  PROVE  IInv'
<1> DEFINE c == [call[p] EXCEPT !.pc = "rpc"]
<1>1. c \in FineCall /\ c.pc = "rpc" /\ c.reason = call[p].reason
  BY CallType DEF Call, FineCall
<1>2. \/ Goto(p, c) /\ REFILL_EVENT' = REFILL_EVENT
      \/ After(p, FALSE, FAIL_OPEN_ON_ARM_UNAVAILABLE)
  BY DEF Refill
<1> HIDE DEF c
<1>3. call[p].reason = "enable" \/ p \in PastCheck
  BY DEF Refill, PastCheck
<1>4. /\ call' \in [Caller -> FineCall] /\ PastCheck' \subseteq PastCheck
      /\ REFILL_EVENT' \in BOOLEAN
  <2>1. CASE Goto(p, c) /\ REFILL_EVENT' = REFILL_EVENT
    BY <1>1, <1>3, <2>1, GotoFacts, IInvGives
  <2>2. CASE After(p, FALSE, FAIL_OPEN_ON_ARM_UNAVAILABLE)
    BY <2>2, AfterFacts, PythonGateAssumption
  <2> QED
    BY <1>2, <2>1, <2>2
<1>5. UNCHANGED <<environment, config, CREDIT_BALANCE_REQ, counters>> /\ UNCHANGED suspension
  BY DEF Refill
<1> QED
  BY <1>4, <1>5, SuspensionUnchanged, IInvControl

\* A purchase adds its tokens to the balance, or to the requests armed.
LEMMA AddTokensFacts ==
  ASSUME IInv, NEW p \in Caller, AddTokens(p)
  PROVE  /\ armed_ok' \in Nat /\ CREDIT_BALANCE_REQ' \in Nat /\ refill_tokens_added' \in Nat
         /\ refill_tokens_added' = refill_tokens_added + call[p].tokens
         /\ armed_ok' + CREDIT_BALANCE_REQ' = armed_ok + CREDIT_BALANCE_REQ + call[p].tokens
<1>1. CASE call[p].reason = "direct"
  BY <1>1, CallType, IInvGives DEF AddTokens
<1>2. CASE call[p].reason # "direct"
  BY <1>2, CallType, IInvGives DEF AddTokens
<1> QED
  BY <1>1, <1>2

\* A call that succeeded, as far as the gate knows.
LEMMA GrantedPreserves ==
  ASSUME IInv, NEW p \in Caller, Granted(p) \/ DatagramLost(p)
  PROVE  IInv'
<1>1. call' \in [Caller -> FineCall] /\ REFILL_EVENT' \in BOOLEAN
  BY AfterFacts DEF Granted, DatagramLost
<1>2. /\ armed_ok' \in Nat /\ CREDIT_BALANCE_REQ' \in Nat /\ refill_tokens_added' \in Nat
      /\ refill_tokens_added' = refill_tokens_added + call[p].tokens
      /\ armed_ok' + CREDIT_BALANCE_REQ' = armed_ok + CREDIT_BALANCE_REQ + call[p].tokens
  BY AddTokensFacts DEF Granted, DatagramLost
<1>3. bought' \in Nat /\ lost' \in Nat /\ bought' + lost' = bought + lost + call[p].tokens
  <2>1. call[p].tokens \in Nat /\ bought \in Nat /\ lost \in Nat
    BY CallType, IInvGives
  <2>2. \/ bought' = bought + call[p].tokens /\ lost' = lost
        \/ lost' = lost + call[p].tokens /\ bought' = bought
    BY DEF Granted, DatagramLost
  <2> QED
    BY <2>1, <2>2
<1>4. udp \/ lost' = lost
  BY DEF Granted, DatagramLost
<1>5. /\ UNCHANGED environment /\ voided' = voided
      /\ ARM_ACTIVE' = ARM_ACTIVE /\ ARM_DELAY_NS' = ARM_DELAY_NS /\ ARM_COUNT' = ARM_COUNT
  BY DEF Granted, DatagramLost, config
<1>6. SuspensionInv' /\ suspended' \in BOOLEAN /\ attempts' \in Nat
  <2>1. Resume
    BY DEF Granted, DatagramLost
  <2> QED
    BY <2>1, SuspensionKept, IInvGives DEF Resume
<1>7. /\ armed_ok' + CREDIT_BALANCE_REQ' + voided' = refill_tokens_added'
      /\ refill_tokens_added' <= bought' + lost'
  BY <1>2, <1>3, <1>5, CallType, IInvGives
<1> QED
  BY <1>1, <1>2, <1>3, <1>4, <1>5, <1>6, <1>7, IInvGives, IInvParts

\* A call that failed takes its thread out of those past the check.
LEMMA FailedPreserves ==
  ASSUME IInv, NEW p \in Caller, NEW granted \in BOOLEAN, NEW unavailable \in BOOLEAN,
         Failed(p, granted, unavailable)
  PROVE  IInv'
<1> DEFINE attempted == IF suspended /\ call[p].reason # "enable" THEN attempts + 1 ELSE attempts
<1>1. /\ call' \in [Caller -> FineCall] /\ REFILL_EVENT' \in BOOLEAN
      /\ PastCheck' \subseteq PastCheck \ {p}
  BY AfterFacts, PythonGateAssumption DEF Failed
<1>2. bought' \in Nat /\ bought' >= bought
  BY CallType, IInvGives DEF Failed
<1>3. /\ UNCHANGED environment /\ voided' = voided /\ lost' = lost /\ armed_ok' = armed_ok
      /\ refill_tokens_added' = refill_tokens_added /\ CREDIT_BALANCE_REQ' = CREDIT_BALANCE_REQ
      /\ ARM_ACTIVE' = ARM_ACTIVE /\ ARM_DELAY_NS' = ARM_DELAY_NS /\ ARM_COUNT' = ARM_COUNT
  BY DEF Failed, config
<1>4. Suspend(attempted) \/ (attempts' = attempted /\ UNCHANGED suspended)
  BY DEF Failed
<1>5. SuspensionInv' /\ suspended' \in BOOLEAN /\ attempts' \in Nat
  <2>1. CASE suspended /\ call[p].reason # "enable"
    <3>1. attempts' = attempts + 1 /\ suspended'
      BY <1>4, <2>1 DEF Suspend
    <3>2. p \in PastCheck
      BY <2>1 DEF Failed, PastCheck
    <3>3. SuspensionInv'
      BY <1>1, <2>1, <3>1, <3>2, SuspensionKept, IInvGives
    <3> QED
      BY <3>1, <3>3, IInvGives
  <2>2. CASE ~ (suspended /\ call[p].reason # "enable")
    <3>1. Suspend(attempts) \/ UNCHANGED suspension
      BY <1>4, <2>2 DEF Suspend, suspension
    <3>2. CASE Suspend(attempts)
      BY <1>1, <3>2, SuspensionKept, IInvGives DEF Suspend
    <3>3. CASE UNCHANGED suspension
      BY <1>1, <3>3, SuspensionUnchanged
    <3> QED
      BY <3>1, <3>2, <3>3
  <2> QED
    BY <2>1, <2>2
<1>6. refill_tokens_added' <= bought' + lost'
  BY <1>2, <1>3, IInvGives
<1> QED
  BY <1>1, <1>2, <1>3, <1>5, <1>6, IInvGives, IInvParts

\* The suspension ends.
LEMMA ExpirePreserves == ASSUME IInv, Expire PROVE IInv'
<1>1. Resume /\ call' = call /\ REFILL_EVENT' = REFILL_EVENT
      /\ UNCHANGED <<environment, config, CREDIT_BALANCE_REQ, counters>>
  BY DEF Expire
<1>2. SuspensionInv' /\ suspended' \in BOOLEAN /\ attempts' \in Nat
  BY <1>1, SuspensionKept, IInvGives DEF Resume
<1> QED
  BY <1>1, <1>2, IInvGives, IInvControl
-----------------------------------------------------------------------------
\* The worker goes past the check only if the gate is not suspended.
LEMMA WorkerPreserves ==
  ASSUME IInv, Wait \/ Loop \/ Need
  PROVE  IInv'
<1> Worker \in Caller
  BY DEF Caller
<1> DEFINE c == At("refill", "async", Larger(REFILL_BATCH_REQ, REFILL_TARGET_REQ - CREDIT_BALANCE_REQ))
<1>1. c \in FineCall /\ At("need", "", 0) \in FineCall
  <2>1. Larger(REFILL_BATCH_REQ, REFILL_TARGET_REQ - CREDIT_BALANCE_REQ) \in Nat
    BY PythonGateAssumption, IInvGives DEF Larger
  <2> QED
    BY <2>1 DEF At, Call, FineCall
<1>2. At("check", "", 0) \in FineCall /\ At("check", "", 0).pc \in Outside
  BY OutsideType DEF Outside
<1>3. \/ Goto(Worker, At("check", "", 0)) \/ Goto(Worker, Idle)
      \/ ~ suspended /\ Goto(Worker, At("need", "", 0))
      \/ call[Worker].pc = "need" /\ Goto(Worker, c)
  BY DEF Wait, Loop, Need
<1>4. call[Worker].pc = "need" => Worker \in PastCheck
  BY DEF PastCheck
<1> HIDE DEF c
<1>5. call' \in [Caller -> FineCall] /\ (PastCheck' \subseteq PastCheck \/ ~ suspended)
  BY <1>1, <1>2, <1>3, <1>4, IdleType, GotoFacts
<1>6. REFILL_EVENT' \in BOOLEAN
  BY IInvGives DEF Wait, Loop, Need
<1>7. UNCHANGED <<environment, config, CREDIT_BALANCE_REQ, counters>> /\ UNCHANGED suspension
  BY DEF Wait, Loop, Need
<1> QED
  BY <1>5, <1>6, <1>7, SuspensionUnchanged, IInvControl

LEMMA BuyPreserves == ASSUME IInv, NEW p \in Caller, Buy(p) PROVE IInv'
BY RefillPreserves, GrantedPreserves, FailedPreserves DEF Buy

LEMMA HandlePreserves == ASSUME IInv, NEW p \in Handler, Handle(p) PROVE IInv'
<1>1. p \in Caller
  BY DEF Caller
<1> QED
  BY <1>1, SetArmActivePreserves, AfterSetActivePreserves, PrimePreserves, TriggerPreserves,
     CheckSuspendedPreserves, ConsumePreserves, MissPreserves, SuspendAgainPreserves,
     BuyPreserves DEF Handle

LEMMA NextPreserves == IInv /\ [Next]_vars => IInv'
<1> SUFFICES ASSUME IInv, [Next]_vars PROVE IInv'
  OBVIOUS
<1>1. CASE RefillWorker
  BY <1>1, WorkerPreserves, BuyPreserves DEF RefillWorker, Caller
<1>2. CASE Expire
  BY <1>2, ExpirePreserves
<1>3. ASSUME NEW p \in Handler, NEW delay \in ArmDelayNs, NEW count \in ArmCount,
             NEW enable \in BOOLEAN, SetArmConfig(p, delay, count, enable)
      PROVE  IInv'
  BY <1>3, SetArmConfigPreserves
<1>4. ASSUME NEW p \in Handler, Trigger(p) \/ Handle(p)
      PROVE  IInv'
  BY <1>4, TriggerPreserves, HandlePreserves
<1>5. CASE UNCHANGED vars
  <2>1. /\ call' = call /\ REFILL_EVENT' = REFILL_EVENT /\ UNCHANGED suspension
        /\ UNCHANGED <<environment, config, CREDIT_BALANCE_REQ, counters>>
    BY <1>5 DEF vars
  <2>2. PastCheck' = PastCheck
    BY <2>1 DEF PastCheck
  <2> QED
    BY <2>1, <2>2, SuspensionUnchanged, IInvGives, IInvControl
<1> QED
  BY <1>1, <1>2, <1>3, <1>4, <1>5 DEF Next

LEMMA Invariance == Spec => []IInv
<1>1. Safety => []IInv
  BY InitHolds, NextPreserves, PTL DEF Safety
<1> QED
  BY <1>1, PTL DEF Spec
-----------------------------------------------------------------------------
\* Every state of the gate is of its types.
THEOREM TypeCorrect == Spec => []TypeOK
<1>1. IInv => TypeOK
  BY DEF IInv
<1> QED
  BY <1>1, Invariance, PTL

\* Every request answered as armed had its credits granted, but for datagrams that
\* were lost: for any number of handlers and any batch sizes.
THEOREM TokensBacked == Spec => []TokensAreBacked
<1>1. IInv => TokensAreBacked
  BY DEF IInv
<1> QED
  BY <1>1, Invariance, PTL

\* A suspended gate calls the daemon at most once for each of its handlers: the
\* calls that had passed the check before, all but the one that suspended it.
THEOREM SuspendedGateIsQuiet == Spec => []SuspensionHolds
<1>1. IInv => SuspensionHolds
  <2> SUFFICES ASSUME IInv PROVE SuspensionHolds
    OBVIOUS
  <2> QED
    BY IInvGives, PastCheckFacts DEF SuspensionInv, SuspensionHolds
<1> QED
  BY <1>1, Invariance, PTL
-----------------------------------------------------------------------------
(***************************************************************************)
(* The bound on the balance.  A purchase is decided on by a look at the    *)
(* balance, which then counts for its own tokens exactly and for no other  *)
(* purchase under way.  Whoever decided last is the witness of             *)
(* PurchasesInv: its own tokens, the balance it saw, and no more than the  *)
(* largest purchase for each of the others.                                *)
(***************************************************************************)
LargestPurchase == Larger(REFILL_TARGET_REQ, REFILL_BATCH_REQ)

Cost(k) == LargestPurchase * k

\* The callers whose tokens are still to come.
Buyers == {p \in Caller : call[p].pc \in {"refill", "rpc"} /\ call[p].reason # "direct"}

OnOrder(p) == IF p \in Buyers THEN call[p].tokens ELSE 0

PurchasesInv ==
  /\ \A p \in Buyers : call[p].tokens \in 1 .. LargestPurchase
  /\ REFILL_LOW_WATER_REQ = 0 => Worker \notin Buyers
  /\ \E q \in Caller :
       CREDIT_BALANCE_REQ + OnOrder(q) + Cost(Cardinality(Buyers \ {q}))
         <= WorkerBound + Cost(Cardinality(Handler))

LEMMA ConstantFacts ==
  /\ LargestPurchase \in Nat /\ WorkerBound \in Nat
  /\ REFILL_TARGET_REQ <= LargestPurchase /\ REFILL_BATCH_REQ <= LargestPurchase
  /\ REFILL_TARGET_REQ <= WorkerBound
  /\ REFILL_LOW_WATER_REQ > 0 => REFILL_BATCH_REQ + REFILL_LOW_WATER_REQ - 1 <= WorkerBound
  /\ Larger(1, REFILL_BATCH_REQ) = REFILL_BATCH_REQ
BY PythonGateAssumption DEF LargestPurchase, WorkerBound, Larger

LEMMA CostFacts ==
  ASSUME NEW k \in Nat, NEW m \in Nat
  PROVE  /\ Cost(k) \in Nat
         /\ k <= m => Cost(k) <= Cost(m)
         /\ k + 1 <= m => Cost(k) + LargestPurchase <= Cost(m)
<1> DEFINE l == LargestPurchase
<1>1. l \in Nat
  BY ConstantFacts
<1> HIDE DEF l
<1>2. \A i, j \in Nat : l * i \in Nat /\ l * (i + j) = l * i + l * j
  BY <1>1
<1>3. ASSUME k <= m
      PROVE  l * k <= l * m
  <2>1. PICK d \in Nat : m = k + d
    <3>1. m - k \in Nat /\ m = k + (m - k)
      BY <1>3
    <3> QED
      BY <3>1
  <2>2. l * m = l * k + l * d /\ l * k \in Nat /\ l * d \in Nat
    BY <1>2, <2>1
  <2> QED
    BY <2>2
<1>4. ASSUME k + 1 <= m
      PROVE  l * k + l <= l * m
  <2>1. m - k - 1 \in Nat /\ m = (k + 1) + (m - k - 1)
    BY <1>4
  <2>2. l * (k + 1) = l * k + l
    BY <1>1
  <2>3. l * m = l * (k + 1) + l * (m - k - 1) /\ l * (m - k - 1) \in Nat
    BY <1>2, <2>1
  <2> QED
    BY <1>1, <1>2, <2>2, <2>3
<1> QED
  BY <1>1, <1>2, <1>3, <1>4 DEF Cost, l

\* There are finitely many callers, and one more of them than handlers.
LEMMA CallerFinite ==
  /\ IsFiniteSet(Caller) /\ Cardinality(Caller) = Cardinality(Handler) + 1
  /\ Cardinality(Handler) \in Nat
  /\ \A S \in SUBSET Caller : IsFiniteSet(S) /\ Cardinality(S) \in Nat
  /\ \A p \in Caller : Cardinality(Caller \ {p}) = Cardinality(Handler)
<1>1. IsFiniteSet(Handler) /\ Worker \notin Handler
  BY PythonGateAssumption
<1>2. IsFiniteSet(Caller) /\ Cardinality(Caller) = Cardinality(Handler) + 1
  BY <1>1, FS_AddElement DEF Caller
<1>3. Cardinality(Handler) \in Nat
  BY <1>1, FS_CardinalityType
<1>4. \A S \in SUBSET Caller : IsFiniteSet(S) /\ Cardinality(S) \in Nat
  BY <1>2, FS_Subset, FS_CardinalityType
<1>5. ASSUME NEW p \in Caller
      PROVE  Cardinality(Caller \ {p}) = Cardinality(Handler)
  <2>1. Cardinality(Caller \ {p}) = Cardinality(Caller) - 1
    BY <1>2, FS_RemoveElement
  <2> QED
    BY <1>2, <1>3, <2>1
<1> QED
  BY <1>2, <1>3, <1>4, <1>5

\* Fewer buyers cost no more, and by a whole purchase less if one is missing.
LEMMA CostOfBuyers ==
  ASSUME NEW S \in SUBSET Caller, NEW T \in SUBSET S
  PROVE  /\ Cost(Cardinality(S)) \in Nat /\ Cost(Cardinality(T)) \in Nat
         /\ Cost(Cardinality(T)) <= Cost(Cardinality(S))
         /\ \A p \in S \ T :
              Cost(Cardinality(T)) + LargestPurchase <= Cost(Cardinality(S))
<1>1. /\ IsFiniteSet(S) /\ Cardinality(S) \in Nat
      /\ IsFiniteSet(T) /\ Cardinality(T) \in Nat
  BY CallerFinite
<1>2. Cardinality(T) <= Cardinality(S)
  BY <1>1, FS_Subset
<1>3. ASSUME NEW p \in S \ T
      PROVE  Cardinality(T) + 1 <= Cardinality(S)
  BY <1>1, <1>2, <1>3, FS_Subset
<1> QED
  BY <1>1, <1>2, <1>3, CostFacts

\* What the invariant says of the tokens on order.
LEMMA OnOrderFacts ==
  ASSUME IInv, PurchasesInv, NEW q \in Caller
  PROVE  /\ OnOrder(q) \in Nat /\ OnOrder(q) <= LargestPurchase
         /\ CREDIT_BALANCE_REQ \in Nat
         /\ Cost(Cardinality(Buyers \ {q})) \in Nat
         /\ Buyers \subseteq Caller
<1>1. Buyers \subseteq Caller
  BY DEF Buyers
<1>2. OnOrder(q) \in Nat /\ OnOrder(q) <= LargestPurchase
  BY CallType, ConstantFacts DEF OnOrder, PurchasesInv
<1> QED
  BY <1>1, <1>2, IInvGives, CostOfBuyers

\* A caller that moves joins the buyers or leaves them, and changes no other's order.
LEMMA GotoBuyers ==
  ASSUME IInv, NEW p \in Caller, NEW c \in FineCall, Goto(p, c)
  PROVE  /\ Buyers' = IF c.pc \in {"refill", "rpc"} /\ c.reason # "direct"
                      THEN Buyers \cup {p} ELSE Buyers \ {p}
         /\ call'[p] = c
         /\ \A q \in Caller \ {p} : call'[q] = call[q]
<1>1. /\ call'[p] = c
      /\ \A q \in Caller \ {p} : call'[q] = call[q]
  BY IInvGives DEF Goto
<1> QED
  BY <1>1 DEF Buyers

\* A caller that stays a buyer has the same order, any other has none.
LEMMA OrderKept ==
  ASSUME Buyers' \subseteq Buyers, \A q \in Buyers' : call'[q].tokens = call[q].tokens,
         NEW q \in Caller
  PROVE  OnOrder(q)' = OnOrder(q) \/ OnOrder(q)' = 0
BY DEF OnOrder
-----------------------------------------------------------------------------
\* A step that takes tokens, or gives up a purchase.
LEMMA NothingBought ==
  ASSUME IInv, PurchasesInv, CREDIT_BALANCE_REQ' \in Nat, CREDIT_BALANCE_REQ' <= CREDIT_BALANCE_REQ,
         Buyers' \subseteq Buyers,
         \A q \in Buyers' : call'[q].tokens = call[q].tokens
  PROVE  PurchasesInv'
<1>1. PICK q \in Caller : CREDIT_BALANCE_REQ + OnOrder(q) + Cost(Cardinality(Buyers \ {q}))
                            <= WorkerBound + Cost(Cardinality(Handler))
  BY DEF PurchasesInv
<1>2. OnOrder(q)' \in Nat /\ OnOrder(q)' <= OnOrder(q)
  <2>1. OnOrder(q)' = OnOrder(q) \/ OnOrder(q)' = 0
    BY OrderKept
  <2>2. OnOrder(q) \in Nat
    BY OnOrderFacts
  <2> QED
    BY <2>1, <2>2
<1>3. Cost(Cardinality(Buyers \ {q})') \in Nat
      /\ Cost(Cardinality(Buyers \ {q})') <= Cost(Cardinality(Buyers \ {q}))
  BY OnOrderFacts, CostOfBuyers
<1>4. CREDIT_BALANCE_REQ' + OnOrder(q)' + Cost(Cardinality(Buyers \ {q})')
        <= WorkerBound + Cost(Cardinality(Handler))
  <2>1. /\ OnOrder(q) \in Nat /\ CREDIT_BALANCE_REQ \in Nat
        /\ Cost(Cardinality(Buyers \ {q})) \in Nat
        /\ WorkerBound \in Nat /\ Cost(Cardinality(Handler)) \in Nat
    BY OnOrderFacts, ConstantFacts, CostFacts, CallerFinite
  <2> QED
    BY <1>1, <1>2, <1>3, <2>1
<1> QED
  BY <1>4 DEF PurchasesInv, Cost, Caller

\* A purchase that arrived, or one that failed.
LEMMA PurchaseEnds ==
  ASSUME IInv, PurchasesInv, NEW p \in Buyers,
         CREDIT_BALANCE_REQ' \in Nat, CREDIT_BALANCE_REQ' <= CREDIT_BALANCE_REQ + call[p].tokens,
         Buyers' \subseteq Buyers \ {p},
         \A q \in Buyers' : call'[q].tokens = call[q].tokens
  PROVE  PurchasesInv'
<1> p \in Caller
  BY DEF Buyers
<1>1. PICK q \in Caller : CREDIT_BALANCE_REQ + OnOrder(q) + Cost(Cardinality(Buyers \ {q}))
                            <= WorkerBound + Cost(Cardinality(Handler))
  BY DEF PurchasesInv
<1>2. OnOrder(q)' \in Nat /\ OnOrder(q)' <= OnOrder(q) /\ (q = p => OnOrder(q)' = 0)
  <2>1. OnOrder(q)' = OnOrder(q) \/ OnOrder(q)' = 0
    BY OrderKept
  <2>2. OnOrder(q) \in Nat
    BY OnOrderFacts
  <2>3. q = p => OnOrder(q)' = 0
    BY DEF OnOrder
  <2> QED
    BY <2>1, <2>2, <2>3
<1>3. /\ Cost(Cardinality(Buyers \ {q})') \in Nat
      /\ Cost(Cardinality(Buyers \ {q})') <= Cost(Cardinality(Buyers \ {q}))
      /\ q # p => Cost(Cardinality(Buyers \ {q})') + LargestPurchase
                    <= Cost(Cardinality(Buyers \ {q}))
  BY OnOrderFacts, CostOfBuyers
<1>4. OnOrder(p) = call[p].tokens /\ OnOrder(p) \in Nat /\ OnOrder(p) <= LargestPurchase
  BY OnOrderFacts DEF OnOrder
<1>5. CREDIT_BALANCE_REQ' + OnOrder(q)' + Cost(Cardinality(Buyers \ {q})')
        <= WorkerBound + Cost(Cardinality(Handler))
  <2>1. /\ OnOrder(q) \in Nat /\ CREDIT_BALANCE_REQ \in Nat /\ LargestPurchase \in Nat
        /\ Cost(Cardinality(Buyers \ {q})) \in Nat
        /\ WorkerBound \in Nat /\ Cost(Cardinality(Handler)) \in Nat
    BY OnOrderFacts, ConstantFacts, CostFacts, CallerFinite
  <2>2. call[p].tokens \in Nat
    BY <1>4
  <2>3. CREDIT_BALANCE_REQ' + OnOrder(q)' + Cost(Cardinality(Buyers \ {q})')
          <= CREDIT_BALANCE_REQ + OnOrder(q) + Cost(Cardinality(Buyers \ {q}))
    <3>1. CASE q = p
      <4>1. OnOrder(q)' = 0 /\ OnOrder(q) = call[p].tokens
        BY <1>2, <1>4, <3>1
      <4> QED
        BY <1>3, <2>1, <2>2, <4>1
    <3>2. CASE q # p
      <4>1. Cost(Cardinality(Buyers \ {q})') + call[p].tokens
              <= Cost(Cardinality(Buyers \ {q}))
        BY <1>3, <1>4, <2>1, <2>2, <3>2
      <4> QED
        BY <1>2, <1>3, <2>1, <2>2, <4>1
    <3> QED
      BY <3>1, <3>2
  <2> QED
    BY <1>1, <1>2, <1>3, <2>1, <2>3
<1> QED
  BY <1>5 DEF PurchasesInv, Cost, Caller

\* A purchase is decided on: either the balance and it stay within what the worker
\* aims at, or it is that of a handler and the worker never buys.
LEMMA PurchaseDecided ==
  ASSUME IInv, PurchasesInv, NEW p \in Caller, NEW c \in FineCall, Goto(p, c),
         c.pc = "refill", c.reason # "direct", c.tokens \in 1 .. LargestPurchase,
         CREDIT_BALANCE_REQ' = CREDIT_BALANCE_REQ,
         REFILL_LOW_WATER_REQ = 0 => p # Worker,
         \/ CREDIT_BALANCE_REQ + c.tokens <= WorkerBound
         \/ REFILL_LOW_WATER_REQ = 0 /\ CREDIT_BALANCE_REQ = 0
  PROVE  PurchasesInv'
<1> DEFINE n == Cardinality(Handler)
<1>1. /\ Buyers' = Buyers \cup {p} /\ call'[p] = c
      /\ \A q \in Caller \ {p} : call'[q] = call[q]
  BY GotoBuyers
<1>2. Buyers \subseteq Caller /\ CREDIT_BALANCE_REQ \in Nat /\ c.tokens \in Nat
  BY OnOrderFacts DEF FineCall, Call
<1>3. OnOrder(p)' = c.tokens
  BY <1>1 DEF OnOrder
<1>4. n \in Nat /\ Cardinality(Caller \ {p}) = n /\ Cost(n) \in Nat
  BY CallerFinite, CostFacts
<1>5. (Buyers \ {p})' \subseteq Caller \ {p}
  BY <1>1, <1>2
<1>6. CREDIT_BALANCE_REQ + c.tokens + Cost(Cardinality(Buyers \ {p})')
        <= WorkerBound + Cost(n)
  <2>1. CASE CREDIT_BALANCE_REQ + c.tokens <= WorkerBound
    <3>1. Cost(Cardinality((Buyers \ {p})')) \in Nat
          /\ Cost(Cardinality((Buyers \ {p})')) <= Cost(n)
      BY <1>4, <1>5, CostOfBuyers
    <3> QED
      BY <1>2, <1>4, <2>1, <3>1, ConstantFacts
  <2>2. CASE REFILL_LOW_WATER_REQ = 0 /\ CREDIT_BALANCE_REQ = 0
    <3>1. Worker \in Caller \ {p} /\ Worker \notin (Buyers \ {p})'
      BY <1>1, <2>2 DEF PurchasesInv, Caller
    <3>2. Cost(Cardinality((Buyers \ {p})')) \in Nat
          /\ Cost(Cardinality((Buyers \ {p})')) + LargestPurchase <= Cost(n)
      BY <1>4, <1>5, <3>1, CostOfBuyers
    <3> QED
      BY <1>2, <1>4, <2>2, <3>2, ConstantFacts
  <2> QED
    BY <2>1, <2>2
<1>7. \A q \in Buyers' : call'[q].tokens \in 1 .. LargestPurchase
  BY <1>1, <1>2 DEF PurchasesInv
<1>8. REFILL_LOW_WATER_REQ = 0 => Worker \notin Buyers'
  BY <1>1 DEF PurchasesInv
<1> QED
  BY <1>3, <1>6, <1>7, <1>8 DEF PurchasesInv, Cost, Caller
-----------------------------------------------------------------------------
\* No step of the gate that is not a purchase adds tokens to it.
LEMMA PurchasesControl ==
  ASSUME IInv, PurchasesInv, NEW p \in Caller, NEW c \in FineCall, Goto(p, c),
         CREDIT_BALANCE_REQ' \in Nat, CREDIT_BALANCE_REQ' <= CREDIT_BALANCE_REQ,
         c.pc \notin {"refill", "rpc"} \/ c.reason = "direct"
  PROVE  PurchasesInv'
<1>1. Buyers' \subseteq Buyers /\ \A q \in Buyers' : call'[q].tokens = call[q].tokens
  BY GotoBuyers DEF Buyers
<1> QED
  BY <1>1, NothingBought

\* The same, of a thread that goes where nothing is bought.
LEMMA QuietCall ==
  ASSUME IInv, PurchasesInv, NEW p \in Caller,
         \/ Goto(p, Idle)
         \/ \E pc \in Outside : Goto(p, At(pc, "", 0))
         \/ Goto(p, At("consume", "", 0)) \/ Goto(p, At("need", "", 0)),
         CREDIT_BALANCE_REQ' \in Nat, CREDIT_BALANCE_REQ' <= CREDIT_BALANCE_REQ
  PROVE  PurchasesInv'
<1>1. /\ At("consume", "", 0) \in FineCall /\ At("consume", "", 0).pc = "consume"
      /\ At("need", "", 0) \in FineCall /\ At("need", "", 0).pc = "need"
  BY DEF At, Call, FineCall
<1>2. PICK c \in FineCall : Goto(p, c) /\ c.pc \in Outside \cup {"consume", "need"}
  BY <1>1, OutsideType, IdleType
<1>3. c.pc \notin {"refill", "rpc"}
  BY <1>2 DEF Outside
<1> QED
  BY <1>2, <1>3, PurchasesControl

\* /set_enabled throws tokens away or keeps them, and buys nothing yet.
LEMMA PurchasesSetEnabled ==
  ASSUME IInv, PurchasesInv, NEW p \in Handler,
         \/ \E delay \in ArmDelayNs, count \in ArmCount, enable \in BOOLEAN :
              SetArmConfig(p, delay, count, enable)
         \/ SetArmActive(p) \/ AfterSetActive(p)
  PROVE  PurchasesInv'
<1> p \in Caller
  BY DEF Caller
<1>1. CREDIT_BALANCE_REQ' \in Nat /\ CREDIT_BALANCE_REQ' <= CREDIT_BALANCE_REQ
  <2>1. Void \/ CREDIT_BALANCE_REQ' = CREDIT_BALANCE_REQ
    BY DEF SetArmConfig, SetArmActive, AfterSetActive
  <2>2. CREDIT_BALANCE_REQ \in Nat
    BY IInvGives
  <2> QED
    BY <2>1, <2>2 DEF Void
<1>2. ASSUME NEW delay \in ArmDelayNs, NEW count \in ArmCount, NEW enable \in BOOLEAN,
             SetArmConfig(p, delay, count, enable)
      PROVE  PurchasesInv'
  <2> DEFINE changed == delay # ARM_DELAY_NS \/ count # ARM_COUNT
             c == [At("activate", "", 0) EXCEPT !.enable = enable, !.changed = changed]
  <2>1. c \in FineCall /\ c.pc = "activate"
    BY DEF At, Call, FineCall
  <2>2. Goto(p, c)
    BY <1>2 DEF SetArmConfig
  <2> HIDE DEF c
  <2> QED
    BY <1>1, <2>1, <2>2, PurchasesControl
<1>3. CASE SetArmActive(p)
  <2> DEFINE again == call[p].enable /\ call[p].changed /\ ARM_ACTIVE /\ ~ DIRECT_ARM
             c == [At("after", "", 0) EXCEPT !.again = again]
  <2>1. c \in FineCall /\ c.pc = "after"
    BY DEF At, Call, FineCall
  <2>2. Goto(p, c)
    BY <1>3 DEF SetArmActive
  <2> HIDE DEF c
  <2> QED
    BY <1>1, <2>1, <2>2, PurchasesControl
<1>4. CASE AfterSetActive(p)
  <2> DEFINE c == [call[p] EXCEPT !.pc = "prime"]
  <2>1. c \in FineCall /\ c.pc = "prime"
    BY CallType DEF Call, FineCall
  <2>2. Goto(p, c) \/ Goto(p, At("prime", "", 0)) \/ Goto(p, Idle)
    BY <1>4 DEF AfterSetActive
  <2> HIDE DEF c
  <2>3. CASE Goto(p, c)
    BY <1>1, <2>1, <2>3, PurchasesControl
  <2>4. CASE Goto(p, At("prime", "", 0)) \/ Goto(p, Idle)
    <3>1. "prime" \in Outside
      BY DEF Outside
    <3> QED
      BY <1>1, <2>4, <3>1, QuietCall
  <2> QED
    BY <2>2, <2>3, <2>4
<1> QED
  BY <1>2, <1>3, <1>4

\* Where a thread goes when its priming is over, or its purchase, nothing is bought.
LEMMA PrimedQuiet ==
  ASSUME IInv, PurchasesInv, NEW p \in Caller,
         \/ Goto(p, Primed(p))
         \/ \E ok, unavailable \in BOOLEAN : Goto(p, Following(p, ok, unavailable)),
         CREDIT_BALANCE_REQ' \in Nat, CREDIT_BALANCE_REQ' <= CREDIT_BALANCE_REQ
  PROVE  PurchasesInv'
<1>1. PICK c \in FineCall : Goto(p, c) /\ c.pc \in Outside
  BY PrimedType, FollowingType
<1>2. c.pc \notin {"refill", "rpc"}
  BY <1>1 DEF Outside
<1> QED
  BY <1>1, <1>2, PurchasesControl

\* _prime_refill_on_enable buys up to the target.
LEMMA PurchasesPrime ==
  ASSUME IInv, PurchasesInv, NEW p \in Handler, Prime(p)
  PROVE  PurchasesInv'
<1> p \in Caller /\ p # Worker
  BY PythonGateAssumption DEF Caller
<1> DEFINE n == REFILL_TARGET_REQ - CREDIT_BALANCE_REQ
           c == [call[p] EXCEPT !.pc = "refill", !.reason = "enable", !.tokens = n]
<1>1. ASSUME CREDIT_BALANCE_REQ < REFILL_TARGET_REQ
      PROVE  /\ c \in FineCall /\ c.pc = "refill" /\ c.reason # "direct"
             /\ c.tokens \in 1 .. LargestPurchase /\ CREDIT_BALANCE_REQ + c.tokens <= WorkerBound
  <2>1. n \in Nat /\ n \in 1 .. LargestPurchase /\ CREDIT_BALANCE_REQ + n <= WorkerBound
    BY <1>1, IInvGives, ConstantFacts, PythonGateAssumption
  <2> HIDE DEF n
  <2>2. c \in FineCall /\ c.pc = "refill" /\ c.reason # "direct" /\ c.tokens = n
    BY <2>1, CallType DEF Call, FineCall
  <2> HIDE DEF c
  <2> QED
    BY <2>1, <2>2
<1>2. \/ CREDIT_BALANCE_REQ < REFILL_TARGET_REQ /\ Goto(p, c)
      \/ Goto(p, Primed(p))
  BY DEF Prime
<1> HIDE DEF c
<1>3. /\ CREDIT_BALANCE_REQ' = CREDIT_BALANCE_REQ
      /\ CREDIT_BALANCE_REQ' \in Nat /\ CREDIT_BALANCE_REQ' <= CREDIT_BALANCE_REQ
  <2>1. CREDIT_BALANCE_REQ' = CREDIT_BALANCE_REQ /\ CREDIT_BALANCE_REQ \in Nat
    BY IInvGives DEF Prime
  <2> QED
    BY <2>1
<1>4. CASE CREDIT_BALANCE_REQ < REFILL_TARGET_REQ /\ Goto(p, c)
  BY <1>1, <1>3, <1>4, PurchaseDecided
<1>5. CASE Goto(p, Primed(p))
  BY <1>3, <1>5, PrimedQuiet
<1> QED
  BY <1>2, <1>4, <1>5

\* A request takes a token, arms for itself, suspends the gate, or goes without.
LEMMA PurchasesRequest ==
  ASSUME IInv, PurchasesInv, NEW p \in Handler,
         \/ Trigger(p) \/ ReadConfig(p) \/ CheckSuspended(p) \/ Consume(p)
         \/ MissAgain(p) \/ SuspendAgain(p)
  PROVE  PurchasesInv'
<1> p \in Caller
  BY DEF Caller
<1> DEFINE d == At("rpc", "direct", 1)
<1>1. d \in FineCall /\ d.reason = "direct"
  BY DEF At, Call, FineCall
<1>2. CREDIT_BALANCE_REQ' \in Nat /\ CREDIT_BALANCE_REQ' <= CREDIT_BALANCE_REQ
  <2>1. \/ CREDIT_BALANCE_REQ' = CREDIT_BALANCE_REQ
        \/ CREDIT_BALANCE_REQ > 0 /\ CREDIT_BALANCE_REQ' = CREDIT_BALANCE_REQ - 1
    BY DEF Trigger, ReadConfig, CheckSuspended, Consume, MissAgain, SuspendAgain
  <2>2. CREDIT_BALANCE_REQ \in Nat
    BY IInvGives
  <2> QED
    BY <2>1, <2>2
<1>3. \/ Goto(p, d)
      \/ Goto(p, Idle)
      \/ Goto(p, At("config", "", 0)) \/ Goto(p, At("check", "", 0))
      \/ Goto(p, At("consume", "", 0))
  BY DEF Trigger, ReadConfig, CheckSuspended, Consume, MissAgain, SuspendAgain
<1> HIDE DEF d
<1>4. CASE Goto(p, d)
  BY <1>1, <1>2, <1>4, PurchasesControl
<1>5. CASE \/ Goto(p, Idle)
           \/ Goto(p, At("config", "", 0)) \/ Goto(p, At("check", "", 0))
           \/ Goto(p, At("consume", "", 0))
  <2>1. "config" \in Outside /\ "check" \in Outside
    BY DEF Outside
  <2> QED
    BY <1>2, <1>5, <2>1, QuietCall
<1> QED
  BY <1>3, <1>4, <1>5

\* A request that finds no token buys a batch, if it is to buy at all.
LEMMA PurchasesMiss ==
  ASSUME IInv, PurchasesInv, NEW p \in Handler, Miss(p)
  PROVE  PurchasesInv'
<1> p \in Caller /\ p # Worker
  BY PythonGateAssumption DEF Caller
<1> DEFINE c == At("refill", "sync-miss", Larger(1, REFILL_BATCH_REQ))
<1>1. /\ c \in FineCall /\ c.pc = "refill" /\ c.reason # "direct"
      /\ c.tokens = REFILL_BATCH_REQ
  BY ConstantFacts, PythonGateAssumption DEF At, Call, FineCall
<1>2. Goto(p, c) \/ Goto(p, Idle)
  BY DEF Miss
<1> HIDE DEF c
<1>3. /\ CREDIT_BALANCE_REQ = 0 /\ CREDIT_BALANCE_REQ' = CREDIT_BALANCE_REQ
      /\ CREDIT_BALANCE_REQ' \in Nat /\ CREDIT_BALANCE_REQ' <= CREDIT_BALANCE_REQ
  <2>1. CREDIT_BALANCE_REQ = 0 /\ CREDIT_BALANCE_REQ' = CREDIT_BALANCE_REQ
    BY DEF Miss
  <2> QED
    BY <2>1
<1>4. CASE Goto(p, c)
  <2>1. REFILL_LOW_WATER_REQ \in Nat /\ REFILL_BATCH_REQ \in Nat \ {0}
    BY PythonGateAssumption
  <2>2. /\ c.tokens \in 1 .. LargestPurchase
        /\ CREDIT_BALANCE_REQ + c.tokens <= WorkerBound \/ REFILL_LOW_WATER_REQ = 0
    BY <1>1, <1>3, <2>1, ConstantFacts
  <2> QED
    BY <1>1, <1>3, <1>4, <2>2, PurchaseDecided
<1>5. CASE Goto(p, Idle)
  BY <1>3, <1>5, QuietCall
<1> QED
  BY <1>2, <1>4, <1>5

\* The worker buys a batch, or up to the target, below the low-water mark.
LEMMA PurchasesWorker ==
  ASSUME IInv, PurchasesInv, Wait \/ Loop \/ Need
  PROVE  PurchasesInv'
<1> Worker \in Caller
  BY DEF Caller
<1> DEFINE n == Larger(REFILL_BATCH_REQ, REFILL_TARGET_REQ - CREDIT_BALANCE_REQ)
           c == At("refill", "async", n)
<1>1. CREDIT_BALANCE_REQ \in Nat /\ CREDIT_BALANCE_REQ' = CREDIT_BALANCE_REQ /\ n \in Nat
  <2>1. CREDIT_BALANCE_REQ \in Nat /\ n \in Nat
    BY PythonGateAssumption, IInvGives DEF Larger
  <2>2. CREDIT_BALANCE_REQ' = CREDIT_BALANCE_REQ
    BY DEF Wait, Loop, Need
  <2> QED
    BY <2>1, <2>2
<1>2. c \in FineCall /\ c.pc = "refill" /\ c.reason # "direct" /\ c.tokens = n
  BY <1>1 DEF At, Call, FineCall
<1>3. /\ CREDIT_BALANCE_REQ < REFILL_LOW_WATER_REQ => n \in 1 .. LargestPurchase
      /\ CREDIT_BALANCE_REQ < REFILL_LOW_WATER_REQ => CREDIT_BALANCE_REQ + n <= WorkerBound
  <2>1. n = REFILL_BATCH_REQ \/ n = REFILL_TARGET_REQ - CREDIT_BALANCE_REQ
    BY DEF Larger
  <2>2. /\ REFILL_TARGET_REQ \in Nat /\ REFILL_BATCH_REQ \in Nat \ {0}
        /\ REFILL_LOW_WATER_REQ \in Nat /\ REFILL_LOW_WATER_REQ < REFILL_TARGET_REQ
    BY PythonGateAssumption
  <2> HIDE DEF n
  <2> QED
    BY <1>1, <2>1, <2>2, ConstantFacts
<1>4. \/ CREDIT_BALANCE_REQ < REFILL_LOW_WATER_REQ /\ Goto(Worker, c)
      \/ Goto(Worker, At("check", "", 0))
      \/ Goto(Worker, At("need", "", 0))
      \/ Goto(Worker, Idle)
  <2> HIDE DEF n
  <2>1. CASE Wait
    BY <2>1 DEF Wait
  <2>2. CASE Loop
    BY <2>2 DEF Loop
  <2>3. CASE Need
    BY <2>3 DEF Need, n
  <2> QED
    BY <2>1, <2>2, <2>3
<1> HIDE DEF n, c
<1>5. CASE CREDIT_BALANCE_REQ < REFILL_LOW_WATER_REQ /\ Goto(Worker, c)
  <2>1. REFILL_LOW_WATER_REQ # 0
    BY <1>1, <1>5
  <2> QED
    BY <1>1, <1>2, <1>3, <1>5, <2>1, PurchaseDecided
<1>6. CASE \/ Goto(Worker, At("check", "", 0))
           \/ Goto(Worker, At("need", "", 0))
           \/ Goto(Worker, Idle)
  <2>1. CREDIT_BALANCE_REQ' \in Nat /\ CREDIT_BALANCE_REQ' <= CREDIT_BALANCE_REQ
    BY <1>1
  <2>2. "check" \in Outside
    BY DEF Outside
  <2> QED
    BY <1>6, <2>1, <2>2, QuietCall
<1> QED
  BY <1>4, <1>5, <1>6

\* A purchase begins as it was decided, or is refused.
LEMMA PurchasesRefill ==
  ASSUME IInv, PurchasesInv, NEW p \in Caller, Refill(p)
  PROVE  PurchasesInv'
<1> DEFINE c == [call[p] EXCEPT !.pc = "rpc"]
<1>1. c \in FineCall /\ c.pc = "rpc" /\ c.reason = call[p].reason /\ c.tokens = call[p].tokens
  BY CallType DEF Call, FineCall
<1>2. /\ call[p].pc = "refill"
      /\ Goto(p, c) \/ After(p, FALSE, FAIL_OPEN_ON_ARM_UNAVAILABLE)
  BY DEF Refill
<1> HIDE DEF c
<1>3. CREDIT_BALANCE_REQ' \in Nat /\ CREDIT_BALANCE_REQ' <= CREDIT_BALANCE_REQ
  <2>1. CREDIT_BALANCE_REQ' = CREDIT_BALANCE_REQ /\ CREDIT_BALANCE_REQ \in Nat
    BY IInvGives DEF Refill
  <2> QED
    BY <2>1
<1>4. CASE After(p, FALSE, FAIL_OPEN_ON_ARM_UNAVAILABLE)
  <2>1. Goto(p, Following(p, FALSE, FAIL_OPEN_ON_ARM_UNAVAILABLE))
    BY <1>4 DEF After
  <2>2. FAIL_OPEN_ON_ARM_UNAVAILABLE \in BOOLEAN
    BY PythonGateAssumption
  <2> QED
    BY <1>3, <2>1, <2>2, PrimedQuiet
<1>5. CASE Goto(p, c)
  <2>1. Buyers' \subseteq Buyers /\ \A q \in Buyers' : call'[q].tokens = call[q].tokens
    BY <1>1, <1>2, <1>5, GotoBuyers DEF Buyers
  <2> QED
    BY <1>3, <2>1, NothingBought
<1> QED
  BY <1>2, <1>4, <1>5

\* A purchase ends with its tokens or without them.
LEMMA PurchasesEnd ==
  ASSUME IInv, PurchasesInv, NEW p \in Caller,
         \/ Granted(p) \/ DatagramLost(p)
         \/ \E granted, unavailable \in BOOLEAN : Failed(p, granted, unavailable)
  PROVE  PurchasesInv'
<1>1. PICK ok \in BOOLEAN, unavailable \in BOOLEAN : Goto(p, Following(p, ok, unavailable))
  <2>1. CASE Granted(p) \/ DatagramLost(p)
    BY <2>1 DEF Granted, DatagramLost, After
  <2>2. ASSUME NEW granted \in BOOLEAN, NEW unavailable \in BOOLEAN,
               Failed(p, granted, unavailable)
        PROVE  \E ok, u \in BOOLEAN : Goto(p, Following(p, ok, u))
    <3>1. Goto(p, Following(p, FALSE, unavailable /\ FAIL_OPEN_ON_ARM_UNAVAILABLE))
      BY <2>2 DEF Failed, After
    <3> QED
      BY <3>1
  <2> QED
    BY <2>1, <2>2
<1>2. PICK c \in FineCall : Goto(p, c) /\ c.pc \in Outside
  BY <1>1, FollowingType
<1>3. Buyers' \subseteq Buyers \ {p} /\ \A q \in Buyers' : call'[q].tokens = call[q].tokens
  BY <1>2, GotoBuyers DEF Buyers, Outside
<1>4. CREDIT_BALANCE_REQ \in Nat /\ call[p].tokens \in Nat
  BY IInvGives, CallType
<1>5. call[p].pc = "rpc"
  BY DEF Granted, DatagramLost, Failed
<1>6. \/ CREDIT_BALANCE_REQ' = CREDIT_BALANCE_REQ
      \/ /\ CREDIT_BALANCE_REQ' = CREDIT_BALANCE_REQ + call[p].tokens
         /\ call[p].reason # "direct"
  <2>1. AddTokens(p) \/ CREDIT_BALANCE_REQ' = CREDIT_BALANCE_REQ
    BY DEF Granted, DatagramLost, Failed
  <2> QED
    BY <2>1 DEF AddTokens
<1>7. CASE call[p].reason = "direct"
  BY <1>3, <1>4, <1>6, <1>7, NothingBought
<1>8. CASE call[p].reason # "direct"
  <2>1. p \in Buyers
    BY <1>5, <1>8 DEF Buyers
  <2> QED
    BY <1>3, <1>4, <1>6, <2>1, PurchaseEnds
<1> QED
  BY <1>7, <1>8

\* Every step of the gate keeps the purchases under way within their bound.
LEMMA PurchasesNext == IInv /\ PurchasesInv /\ [Next]_vars => PurchasesInv'
<1> SUFFICES ASSUME IInv, PurchasesInv, [Next]_vars PROVE PurchasesInv'
  OBVIOUS
<1>1. ASSUME NEW p \in Caller, Buy(p)
      PROVE  PurchasesInv'
  BY <1>1, PurchasesRefill, PurchasesEnd DEF Buy
<1>2. CASE RefillWorker
  BY <1>1, <1>2, PurchasesWorker DEF RefillWorker, Caller
<1>3. ASSUME NEW p \in Handler,
             \/ \E delay \in ArmDelayNs, count \in ArmCount, enable \in BOOLEAN :
                  SetArmConfig(p, delay, count, enable)
             \/ Trigger(p) \/ Handle(p)
      PROVE  PurchasesInv'
  <2>1. p \in Caller
    BY DEF Caller
  <2> QED
    BY <1>1, <1>3, <2>1, PurchasesSetEnabled, PurchasesPrime, PurchasesRequest, PurchasesMiss
    DEF Handle
<1>4. CASE Expire \/ UNCHANGED vars
  <2>1. call' = call /\ CREDIT_BALANCE_REQ' = CREDIT_BALANCE_REQ
    BY <1>4 DEF Expire, vars
  <2>2. Buyers' = Buyers
    BY <2>1 DEF Buyers
  <2> QED
    BY <2>1, <2>2, IInvGives, NothingBought
<1> QED
  BY <1>2, <1>3, <1>4 DEF Next

\* A gate that starts has no purchase under way.
LEMMA PurchasesInit == Init => PurchasesInv
<1> SUFFICES ASSUME Init PROVE PurchasesInv
  OBVIOUS
<1>1. Buyers = {}
  BY DEF Init, Buyers, Idle, At
<1>2. OnOrder(Worker) = 0 /\ Worker \in Caller /\ Buyers \ {Worker} = {}
  BY <1>1 DEF OnOrder, Caller
<1>3. Cardinality(Buyers \ {Worker}) = 0 /\ Cost(0) \in Nat
      /\ Cost(0) <= Cost(Cardinality(Handler)) /\ Cost(Cardinality(Handler)) \in Nat
  BY <1>2, FS_EmptySet, CostFacts, CallerFinite
<1>4. CREDIT_BALANCE_REQ + OnOrder(Worker) + Cost(Cardinality(Buyers \ {Worker}))
        <= WorkerBound + Cost(Cardinality(Handler))
  BY <1>2, <1>3, ConstantFacts DEF Init
<1> QED
  BY <1>1, <1>2, <1>4 DEF PurchasesInv

\* What the proof of the bound rests on, in every reachable state.
LEMMA PurchasesHold == Safety => [](IInv /\ PurchasesInv)
BY InitHolds, NextPreserves, PurchasesInit, PurchasesNext, PTL DEF Safety

\* The gate never holds more tokens than the worker aims at and one purchase of
\* each handler, for any number of handlers and any refill parameters, although
\* no purchase is counted while it is under way and a suspension stops none.
THEOREM BalanceStaysBounded == Spec => []BalanceBounded
<1>1. IInv /\ PurchasesInv => BalanceBounded
  <2> SUFFICES ASSUME IInv, PurchasesInv PROVE BalanceBounded
    OBVIOUS
  <2>1. PICK q \in Caller : CREDIT_BALANCE_REQ + OnOrder(q) + Cost(Cardinality(Buyers \ {q}))
                              <= WorkerBound + Cost(Cardinality(Handler))
    BY DEF PurchasesInv
  <2>2. Cost(Cardinality(Handler)) \in Nat
    BY CostFacts, CallerFinite
  <2>3. CREDIT_BALANCE_REQ <= WorkerBound + Cost(Cardinality(Handler))
    BY <2>1, <2>2, OnOrderFacts, ConstantFacts
  <2>4. Cost(Cardinality(Handler)) = Cardinality(Handler) * LargestPurchase
    BY CallerFinite, ConstantFacts DEF Cost
  <2> QED
    BY <2>3, <2>4 DEF BalanceBounded, LargestPurchase
<1> QED
  BY <1>1, PurchasesHold, PTL DEF Spec
-----------------------------------------------------------------------------
\* What the gate is asking the daemon for is one purchase.
LEMMA PurchaseSize ==
  ASSUME IInv, PurchasesInv, NEW p \in Caller, call[p].pc = "rpc"
  PROVE  /\ call[p].tokens \in 1 .. LargestPurchase
         /\ call[p].reason = "direct" => call[p].tokens = 1
<1>1. CASE call[p].reason = "direct"
  <2>1. call[p].tokens = 1
    BY <1>1, CallType DEF FineCall
  <2> QED
    BY <2>1, ConstantFacts, PythonGateAssumption
<1>2. CASE call[p].reason # "direct"
  BY <1>2 DEF PurchasesInv, Buyers
<1> QED
  BY <1>1, <1>2

\* A step that moves no token is none of the bank.
LEMMA BankStutters ==
  ASSUME UNCHANGED <<CREDIT_BALANCE_REQ, counters>>
  PROVE  UNCHANGED Bank!vars
BY DEF counters, Bank!vars

\* /set_enabled throws all tokens away, or none.
LEMMA BankVoid ==
  ASSUME Void \/ UNCHANGED <<CREDIT_BALANCE_REQ, voided>>,
         UNCHANGED <<armed_ok, bought, lost>>
  PROVE  Bank!Void \/ UNCHANGED Bank!vars
BY DEF Void, Bank!Void, Bank!vars

\* The tokens of a call that succeeded are stored, or used by its request.
LEMMA BankObtains ==
  ASSUME IInv, PurchasesInv, NEW p \in Caller, call[p].pc = "rpc", AddTokens(p)
  PROVE  Bank!Obtain(call[p].tokens)
<1>1. call[p].reason = "direct" => call[p].tokens = 1
  BY PurchaseSize
<1> QED
  BY <1>1 DEF AddTokens, Bank!Obtain

\* A call to the daemon buys one purchase, wastes one, or comes to nothing.
LEMMA BankBuys ==
  ASSUME IInv, PurchasesInv, NEW p \in Caller, Buy(p)
  PROVE  Bank!Next \/ UNCHANGED Bank!vars
<1> DEFINE n == call[p].tokens
<1>1. CASE Refill(p)
  BY <1>1, BankStutters DEF Refill
<1>2. call[p].pc = "rpc" => n \in 1 .. LargestPurchase
  BY PurchaseSize
<1>3. CASE Granted(p)
  <2>1. Bank!Obtain(n) /\ n \in 1 .. LargestPurchase
    BY <1>2, <1>3, BankObtains DEF Granted
  <2>2. Bank!Buy(n)
    BY <1>3, <2>1 DEF Granted, Bank!Buy
  <2> QED
    BY <2>1, <2>2 DEF Bank!Next, LargestPurchase
<1>4. CASE DatagramLost(p)
  <2>1. Bank!Obtain(n) /\ n \in 1 .. LargestPurchase
    BY <1>2, <1>4, BankObtains DEF DatagramLost
  <2>2. Bank!Trust(n)
    BY <1>4, <2>1 DEF DatagramLost, Bank!Trust
  <2> QED
    BY <2>1, <2>2 DEF Bank!Next, LargestPurchase
<1>5. ASSUME NEW granted \in BOOLEAN, NEW unavailable \in BOOLEAN,
             Failed(p, granted, unavailable)
      PROVE  Bank!Next \/ UNCHANGED Bank!vars
  <2>1. n \in 1 .. LargestPurchase
    BY <1>2, <1>5 DEF Failed
  <2>2. /\ CREDIT_BALANCE_REQ' = CREDIT_BALANCE_REQ /\ armed_ok' = armed_ok
        /\ lost' = lost /\ voided' = voided
    BY <1>5 DEF Failed
  <2>3. bought' = bought + n \/ bought' = bought
    BY <1>5 DEF Failed
  <2>4. Bank!Waste(n) \/ UNCHANGED Bank!vars
    BY <2>2, <2>3 DEF Bank!Waste, Bank!vars
  <2> QED
    BY <2>1, <2>4 DEF Bank!Next, LargestPurchase
<1> QED
  BY <1>1, <1>3, <1>4, <1>5 DEF Buy

\* Every step of the gate is a step of the bank or moves no token.
LEMMA BankStep == IInv /\ PurchasesInv /\ [Next]_vars => [Bank!Next]_(Bank!vars)
<1> SUFFICES ASSUME IInv, PurchasesInv, [Next]_vars PROVE Bank!Next \/ UNCHANGED Bank!vars
  OBVIOUS
<1>1. CASE Wait \/ Loop \/ Need \/ Expire \/ UNCHANGED vars
  <2>1. UNCHANGED <<CREDIT_BALANCE_REQ, counters>>
    BY <1>1 DEF Wait, Loop, Need, Expire, vars
  <2> QED
    BY <2>1, BankStutters
<1>2. ASSUME NEW p \in Caller, Buy(p)
      PROVE  Bank!Next \/ UNCHANGED Bank!vars
  BY <1>2, BankBuys
<1>3. ASSUME NEW p \in Handler,
             \/ \E delay \in ArmDelayNs, count \in ArmCount, enable \in BOOLEAN :
                  SetArmConfig(p, delay, count, enable)
             \/ SetArmActive(p)
      PROVE  Bank!Next \/ UNCHANGED Bank!vars
  <2>1. Void \/ UNCHANGED <<CREDIT_BALANCE_REQ, voided>>
    BY <1>3 DEF SetArmConfig, SetArmActive
  <2>2. UNCHANGED <<armed_ok, bought, lost>>
    BY <1>3 DEF SetArmConfig, SetArmActive
  <2> QED
    BY <2>1, <2>2, BankVoid DEF Bank!Next
<1>4. ASSUME NEW p \in Handler,
             \/ AfterSetActive(p) \/ Prime(p) \/ Trigger(p) \/ ReadConfig(p)
             \/ CheckSuspended(p) \/ Miss(p) \/ MissAgain(p) \/ SuspendAgain(p)
      PROVE  Bank!Next \/ UNCHANGED Bank!vars
  <2>1. UNCHANGED <<CREDIT_BALANCE_REQ, counters>>
    BY <1>4 DEF AfterSetActive, Prime, Trigger, ReadConfig, CheckSuspended, Miss, MissAgain,
       SuspendAgain
  <2> QED
    BY <2>1, BankStutters
<1>5. ASSUME NEW p \in Handler, Consume(p)
      PROVE  Bank!Next \/ UNCHANGED Bank!vars
  <2>1. Bank!Use
    BY <1>5 DEF Consume, Bank!Use
  <2> QED
    BY <2>1 DEF Bank!Next
<1> QED
  BY <1>1, <1>2, <1>3, <1>4, <1>5 DEF Next, RefillWorker, Handle, Caller

\* The Python gate is the token bank the Go gate is, in all of its modes.
THEOREM GateIsTokenBank == Spec => ImplementsTokenBank
<1>1. Init => Bank!Init
  BY DEF Init, Bank!Init
<1> QED
  BY <1>1, BankStep, PurchasesHold, PTL DEF Spec, Safety, ImplementsTokenBank, Bank!Spec
=============================================================================
