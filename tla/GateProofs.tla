------------------------------ MODULE GateProofs ------------------------------
(***************************************************************************)
(* Type correctness of the gate, the backing of its tokens and the bound   *)
(* on those it holds, for any number of handlers and any refill            *)
(* parameters.                                                             *)
(***************************************************************************)
EXTENDS Gate, FiniteSetTheorems, TLAPS

\* A request that arms directly arms for itself alone.
FineCall == {c \in Call : c.reason = "direct" => c.tokens = 1}

\* The inductive invariant.  FineCall is what TokensAreBacked lacks: a direct
\* purchase adds one to ArmedOK, whatever it bought.
IInv ==
  /\ TypeOK
  /\ call \in [Caller -> FineCall]
  /\ TokensAreBacked

\* The calls Goto and After leave are calls.
LEMMA CallFacts ==
  ASSUME IInv, NEW p \in Caller
  PROVE  /\ Idle \in FineCall
         /\ \A c \in FineCall : Goto(p, c) => call' \in [Caller -> FineCall]
         /\ \A ok \in BOOLEAN : After(p, ok) => call' \in [Caller -> FineCall]
<1>1. Idle \in FineCall
  BY DEF Idle, At, Call, FineCall
<1>2. ASSUME NEW c \in FineCall, Goto(p, c)
      PROVE  call' \in [Caller -> FineCall]
  BY <1>2 DEF Goto, IInv
<1>3. At("need", "", 0) \in FineCall /\ At("retry", "", 0) \in FineCall
  BY DEF At, Call, FineCall
<1>4. \A ok \in BOOLEAN : After(p, ok) => call' \in [Caller -> FineCall]
  BY <1>1, <1>2, <1>3 DEF After
<1> QED
  BY <1>1, <1>2, <1>4

\* What the gate is about to buy is a number of tokens.
LEMMA TokensFacts ==
  ASSUME IInv, NEW p \in Caller
  PROVE  /\ call[p] \in FineCall
         /\ call[p].tokens \in Nat
         /\ At("rpc", call[p].reason, call[p].tokens) \in FineCall
         /\ call[p].enable \in BOOLEAN
BY DEF IInv, FineCall, Call, At

\* main leaves the gate without tokens and without calls.
LEMMA IInvInit == Init => IInv
<1> SUFFICES ASSUME Init PROVE IInv
  OBVIOUS
<1>1. Idle \in FineCall
  BY DEF Idle, At, Call, FineCall
<1>2. TypeOK /\ call \in [Caller -> FineCall]
  BY <1>1 DEF Init, TypeOK, FineCall
<1>3. TokensAreBacked
  BY DEF Init, TokensAreBacked
<1> QED
  BY <1>2, <1>3 DEF IInv

\* The parts of IInv' every action leaves to be shown.
LEMMA IInvParts ==
  ASSUME /\ armActive' \in BOOLEAN /\ armDelayNs' \in ArmDelayNs /\ armCount' \in ArmCount
         /\ creditBalance' \in Nat /\ refillCh' \in BOOLEAN
         /\ ArmedOK' \in Nat /\ RefillTokensAdded' \in Nat /\ bought' \in Nat /\ voided' \in Nat,
         call' \in [Caller -> FineCall],
         TokensAreBacked'
  PROVE  IInv'
<1>1. FineCall \subseteq Call
  BY DEF FineCall
<1>2. call' \in [Caller -> Call]
  BY <1>1
<1> QED
  BY <1>2 DEF IInv, TypeOK

\* The same of the present state.
LEMMA IInvGives ==
  ASSUME IInv
  PROVE  /\ armActive \in BOOLEAN /\ armDelayNs \in ArmDelayNs /\ armCount \in ArmCount
         /\ creditBalance \in Nat /\ refillCh \in BOOLEAN
         /\ ArmedOK \in Nat /\ RefillTokensAdded \in Nat /\ bought \in Nat /\ voided \in Nat
         /\ call \in [Caller -> FineCall]
         /\ ArmedOK + creditBalance + voided = RefillTokensAdded
         /\ RefillTokensAdded <= bought
BY DEF IInv, TypeOK, TokensAreBacked

\* signalRefill leaves the channel's place taken or free.
LEMMA SignalledBoolean ==
  ASSUME IInv PROVE Signalled \in BOOLEAN
BY GateAssumption, IInvGives DEF Signalled

\* /set_enabled: throwing tokens away is counted in voided.
LEMMA IInvSetArmConfig ==
  ASSUME IInv, NEW p \in Handler,
         NEW delay \in ArmDelayNs, NEW count \in ArmCount, NEW enable \in BOOLEAN,
         SetArmConfig(p, delay, count, enable)
  PROVE  IInv'
<1> p \in Caller
  BY DEF Caller
<1> DEFINE changed == delay # armDelayNs \/ count # armCount
           c == [pc |-> "activate", reason |-> "", tokens |-> 0,
                 enable |-> enable, changed |-> changed]
<1>1. c \in FineCall
  BY DEF Call, FineCall
<1>2. Goto(p, c)
  BY DEF SetArmConfig
<1>3. call' \in [Caller -> FineCall]
  BY <1>1, <1>2, CallFacts
<1>4. creditBalance' \in Nat /\ voided' \in Nat
      /\ creditBalance' + voided' = creditBalance + voided
  <2>1. Void \/ UNCHANGED <<creditBalance, voided>>
    BY DEF SetArmConfig
  <2>2. CASE Void
    BY <2>2, IInvGives DEF Void
  <2> QED
    BY <2>1, <2>2, IInvGives
<1>5. /\ armActive' = armActive /\ armDelayNs' = delay /\ armCount' = count
      /\ refillCh' = refillCh /\ ArmedOK' = ArmedOK
      /\ RefillTokensAdded' = RefillTokensAdded /\ bought' = bought
  BY DEF SetArmConfig
<1>6. TokensAreBacked'
  BY <1>4, <1>5, IInvGives DEF TokensAreBacked
<1> QED
  BY <1>3, <1>4, <1>5, <1>6, IInvGives, IInvParts

\* setArmActive throws tokens away, counted in voided, or none.
LEMMA IInvSetArmActive ==
  ASSUME IInv, NEW p \in Handler, SetArmActive(p)
  PROVE  IInv'
<1> p \in Caller
  BY DEF Caller
<1>1. At("prime", "", 0) \in FineCall /\ Idle \in FineCall
  BY DEF Idle, At, Call, FineCall
<1>2. Goto(p, At("prime", "", 0)) \/ Goto(p, Idle)
  BY DEF SetArmActive
<1>3. call' \in [Caller -> FineCall]
  BY <1>1, <1>2, CallFacts
<1>4. creditBalance' \in Nat /\ voided' \in Nat
      /\ creditBalance' + voided' = creditBalance + voided
  <2>1. Void \/ UNCHANGED <<creditBalance, voided>>
    BY DEF SetArmActive
  <2>2. CASE Void
    BY <2>2, IInvGives DEF Void
  <2> QED
    BY <2>1, <2>2, IInvGives
<1>5. armActive' \in BOOLEAN
  BY TokensFacts DEF SetArmActive
<1>6. refillCh' \in BOOLEAN
  BY SignalledBoolean, IInvGives DEF SetArmActive
<1>7. /\ armDelayNs' = armDelayNs /\ armCount' = armCount /\ ArmedOK' = ArmedOK
      /\ RefillTokensAdded' = RefillTokensAdded /\ bought' = bought
  BY DEF SetArmActive
<1>8. TokensAreBacked'
  BY <1>4, <1>7, IInvGives DEF TokensAreBacked
<1> QED
  BY <1>3, <1>4, <1>5, <1>6, <1>7, <1>8, IInvGives, IInvParts

\* A step that changes no more than the call and the channel.
LEMMA IInvControl ==
  ASSUME IInv, call' \in [Caller -> FineCall], refillCh' \in BOOLEAN,
         UNCHANGED <<armActive, armDelayNs, armCount, creditBalance, counters>>
  PROVE  IInv'
<1>1. TokensAreBacked'
  BY IInvGives DEF counters, TokensAreBacked
<1> QED
  BY <1>1, IInvGives, IInvParts DEF counters

\* primeOnEnable decides on a purchase of a positive number of tokens, or on none.
LEMMA IInvPrime ==
  ASSUME IInv, NEW p \in Handler, Prime(p)
  PROVE  IInv'
<1> p \in Caller
  BY DEF Caller
<1>1. ASSUME creditBalance < refillTargetReq
      PROVE  At("refill", "enable", refillTargetReq - creditBalance) \in FineCall
  <2>1. refillTargetReq - creditBalance \in Nat
    BY <1>1, IInvGives, GateAssumption
  <2> QED
    BY <2>1 DEF At, Call, FineCall
<1>2. \/ /\ creditBalance < refillTargetReq
         /\ Goto(p, At("refill", "enable", refillTargetReq - creditBalance))
      \/ Goto(p, Idle)
  BY DEF Prime
<1>3. call' \in [Caller -> FineCall]
  BY <1>1, <1>2, CallFacts
<1>4. refillCh' \in BOOLEAN
  BY SignalledBoolean, IInvGives DEF Prime
<1> QED
  BY <1>3, <1>4, IInvControl DEF Prime

\* A request takes one token that is there, or none.
LEMMA IInvConsume ==
  ASSUME IInv, NEW p \in Handler, Consume(p)
  PROVE  IInv'
<1> p \in Caller
  BY DEF Caller
<1>1. call' \in [Caller -> FineCall]
  BY CallFacts DEF Consume
<1>2. creditBalance' \in Nat /\ ArmedOK' \in Nat
      /\ ArmedOK' + creditBalance' = ArmedOK + creditBalance
  BY IInvGives DEF Consume
<1>3. refillCh' \in BOOLEAN
  BY IInvGives DEF Consume
<1>4. /\ armActive' = armActive /\ armDelayNs' = armDelayNs /\ armCount' = armCount
      /\ RefillTokensAdded' = RefillTokensAdded /\ bought' = bought /\ voided' = voided
  BY DEF Consume
<1>5. TokensAreBacked'
  BY <1>2, <1>4, IInvGives DEF TokensAreBacked
<1> QED
  BY <1>1, <1>2, <1>3, <1>4, <1>5, IInvGives, IInvParts

\* Requests that take no token change their own call and the channel.
LEMMA IInvCheck ==
  ASSUME IInv, NEW p \in Handler, Check(p) \/ Miss(p) \/ MissAgain(p)
  PROVE  IInv'
<1> p \in Caller
  BY DEF Caller
<1>0. Larger(1, refillBatchReq) \in Nat
  BY GateAssumption DEF Larger
<1>1. /\ At("checked", "", 0) \in FineCall
      /\ At("rpc", "direct", 1) \in FineCall
      /\ At("refill", "sync-miss", Larger(1, refillBatchReq)) \in FineCall
  BY <1>0 DEF At, Call, FineCall
<1>2. \/ Goto(p, At("checked", "", 0))
      \/ Goto(p, At("rpc", "direct", 1))
      \/ Goto(p, At("refill", "sync-miss", Larger(1, refillBatchReq)))
      \/ Goto(p, Idle)
  BY DEF Check, Miss, MissAgain
<1>3. call' \in [Caller -> FineCall]
  BY <1>1, <1>2, CallFacts
<1>4. refillCh' \in BOOLEAN
  BY IInvGives DEF Check, Miss, MissAgain
<1>5. UNCHANGED <<armActive, armDelayNs, armCount, creditBalance, counters>>
  BY DEF Check, Miss, MissAgain
<1> QED
  BY <1>3, <1>4, <1>5, IInvControl

\* A purchase adds what the daemon granted, and nothing when it fails.
LEMMA IInvBuy ==
  ASSUME IInv, NEW p \in Caller, Buy(p)
  PROVE  IInv'
<1> DEFINE n == call[p].tokens
<1>0. n \in Nat
  BY TokensFacts
<1>1. AfterSignal(p) => refillCh' \in BOOLEAN
  BY SignalledBoolean, IInvGives DEF AfterSignal
<1>2. CASE Refill(p)
  <2>1. Goto(p, At("rpc", call[p].reason, call[p].tokens)) \/ After(p, FALSE)
    BY <1>2 DEF Refill
  <2>2. call' \in [Caller -> FineCall]
    BY <2>1, CallFacts, TokensFacts
  <2>3. refillCh' \in BOOLEAN
    BY <1>1, <1>2, IInvGives DEF Refill
  <2> QED
    BY <1>2, <2>2, <2>3, IInvControl DEF Refill
<1>3. CASE Purchase(p)
  <2>1. call' \in [Caller -> FineCall]
    BY <1>3, CallFacts DEF Purchase
  <2>2. refillCh' \in BOOLEAN
    BY <1>1, <1>3 DEF Purchase
  <2>3. /\ armActive' = armActive /\ armDelayNs' = armDelayNs /\ armCount' = armCount
        /\ bought' = bought + n /\ RefillTokensAdded' = RefillTokensAdded + n
        /\ voided' = voided
    BY <1>3 DEF Purchase
  <2>4. call[p].reason = "direct" => n = 1
    BY TokensFacts DEF FineCall
  <2>5. /\ ArmedOK' \in Nat /\ creditBalance' \in Nat
        /\ ArmedOK' + creditBalance' = ArmedOK + creditBalance + n
    BY <1>0, <1>3, <2>4, IInvGives DEF Purchase
  <2>6. TokensAreBacked'
    BY <1>0, <2>3, <2>5, IInvGives DEF TokensAreBacked
  <2>7. bought' \in Nat /\ RefillTokensAdded' \in Nat
    BY <1>0, <2>3, IInvGives
  <2> QED
    BY <2>1, <2>2, <2>3, <2>5, <2>6, <2>7, IInvGives, IInvParts
<1>4. ASSUME NEW granted \in BOOLEAN, PurchaseFails(p, granted)
      PROVE  IInv'
  <2>1. call' \in [Caller -> FineCall]
    BY <1>4, CallFacts DEF PurchaseFails
  <2>2. refillCh' \in BOOLEAN
    BY <1>1, <1>4 DEF PurchaseFails
  <2>3. bought' \in Nat /\ bought' >= bought
    BY <1>0, <1>4, IInvGives DEF PurchaseFails
  <2>4. /\ armActive' = armActive /\ armDelayNs' = armDelayNs /\ armCount' = armCount
        /\ creditBalance' = creditBalance /\ ArmedOK' = ArmedOK
        /\ RefillTokensAdded' = RefillTokensAdded /\ voided' = voided
    BY <1>4 DEF PurchaseFails
  <2>5. TokensAreBacked'
    BY <2>3, <2>4, IInvGives DEF TokensAreBacked
  <2> QED
    BY <2>1, <2>2, <2>3, <2>4, <2>5, IInvGives, IInvParts
<1> QED
  BY <1>2, <1>3, <1>4 DEF Buy

\* The worker's own steps buy nothing.
LEMMA IInvWorker ==
  ASSUME IInv, Wake \/ Need
  PROVE  IInv'
<1> Worker \in Caller
  BY DEF Caller
<1> DEFINE n == Larger(refillBatchReq, refillTargetReq - creditBalance)
<1>0. n \in Nat
  BY GateAssumption, IInvGives DEF Larger
<1>1. At("need", "", 0) \in FineCall /\ At("refill", "async", n) \in FineCall
  BY <1>0 DEF At, Call, FineCall
<1>2. Goto(Worker, At("need", "", 0)) \/ Goto(Worker, At("refill", "async", n))
        \/ Goto(Worker, Idle)
  BY DEF Wake, Need
<1>3. call' \in [Caller -> FineCall]
  BY <1>1, <1>2, CallFacts
<1>4. refillCh' \in BOOLEAN
  BY IInvGives DEF Wake, Need
<1>5. UNCHANGED <<armActive, armDelayNs, armCount, creditBalance, counters>>
  BY DEF Wake, Need
<1> QED
  BY <1>3, <1>4, <1>5, IInvControl

\* Every step of the gate keeps the inductive invariant.
LEMMA IInvNext == IInv /\ [Next]_vars => IInv'
<1> SUFFICES ASSUME IInv, [Next]_vars PROVE IInv'
  OBVIOUS
<1>1. CASE RefillWorker
  BY <1>1, IInvWorker, IInvBuy DEF RefillWorker, Caller
<1>2. ASSUME NEW p \in Handler, NEW delay \in ArmDelayNs, NEW count \in ArmCount,
             NEW enable \in BOOLEAN, SetArmConfig(p, delay, count, enable)
      PROVE  IInv'
  BY <1>2, IInvSetArmConfig
<1>3. ASSUME NEW p \in Handler, Check(p)
      PROVE  IInv'
  BY <1>3, IInvCheck
<1>4. ASSUME NEW p \in Handler, Handle(p)
      PROVE  IInv'
  <2>1. p \in Caller
    BY DEF Caller
  <2> QED
    BY <1>4, <2>1, IInvSetArmActive, IInvPrime, IInvConsume, IInvCheck, IInvBuy DEF Handle
<1>5. CASE UNCHANGED vars
  BY <1>5, IInvGives, IInvControl DEF vars
<1> QED
  BY <1>1, <1>2, <1>3, <1>4, <1>5 DEF Next

\* The inductive invariant, in every reachable state of the gate.
THEOREM IInvHolds == Safety => []IInv
BY IInvInit, IInvNext, PTL DEF Safety

\* The gate's state stays of its type: in particular no interleaving of requests,
\* purchases and /set_enabled takes a token that is not there.
THEOREM GateTypeCorrect == Safety => []TypeOK
<1>1. IInv => TypeOK
  BY DEF IInv
<1> QED
  BY <1>1, IInvHolds, PTL

\* Every token was bought with credits of the daemon, and is held, used or
\* thrown away, for any number of handlers and any refill parameters.
THEOREM TokensAlwaysBacked == Safety => []TokensAreBacked
<1>1. IInv => TokensAreBacked
  BY DEF IInv
<1> QED
  BY <1>1, IInvHolds, PTL
-----------------------------------------------------------------------------
(***************************************************************************)
(* The bound on the balance.  A purchase is decided on by a look at the    *)
(* balance, which then counts for its own tokens exactly and for no other  *)
(* purchase under way.  Whoever decided last is the witness of             *)
(* PurchasesInv: its own tokens, the balance it saw, and no more than the  *)
(* largest purchase for each of the others.                                *)
(***************************************************************************)
LargestPurchase == Larger(refillTargetReq, refillBatchReq)

Cost(k) == LargestPurchase * k

\* The callers whose tokens are still to come.
Buyers == {p \in Caller : call[p].pc \in {"refill", "rpc"} /\ call[p].reason # "direct"}

OnOrder(p) == IF p \in Buyers THEN call[p].tokens ELSE 0

PurchasesInv ==
  /\ \A p \in Buyers : call[p].tokens \in 1 .. LargestPurchase
  /\ refillLowWater = 0 => Worker \notin Buyers
  /\ \E q \in Caller :
       creditBalance + OnOrder(q) + Cost(Cardinality(Buyers \ {q}))
         <= WorkerBound + Cost(Cardinality(Handler))

LEMMA ConstantFacts ==
  /\ LargestPurchase \in Nat /\ WorkerBound \in Nat
  /\ refillTargetReq <= LargestPurchase /\ refillBatchReq <= LargestPurchase
  /\ refillTargetReq <= WorkerBound
  /\ refillLowWater > 0 => refillBatchReq + refillLowWater - 1 <= WorkerBound
  /\ Larger(1, refillBatchReq) = refillBatchReq
BY GateAssumption DEF LargestPurchase, WorkerBound, Larger

LEMMA CostFacts ==
  ASSUME NEW k \in Nat, NEW m \in Nat
  PROVE  /\ Cost(k) \in Nat
         /\ k <= m => Cost(k) <= Cost(m)
         /\ k + 1 <= m => Cost(k) + LargestPurchase <= Cost(m)
<1> DEFINE l == LargestPurchase
<1>1. l \in Nat
  BY ConstantFacts
<1> HIDE DEF l
<1>2. \A i, j \in Nat : l * i \in Nat /\ l * (i + j) = l * i + l * j
  BY <1>1
<1>3. ASSUME k <= m
      PROVE  l * k <= l * m
  <2>1. PICK d \in Nat : m = k + d
    <3>1. m - k \in Nat /\ m = k + (m - k)
      BY <1>3
    <3> QED
      BY <3>1
  <2>2. l * m = l * k + l * d /\ l * k \in Nat /\ l * d \in Nat
    BY <1>2, <2>1
  <2> QED
    BY <2>2
<1>4. ASSUME k + 1 <= m
      PROVE  l * k + l <= l * m
  <2>1. m - k - 1 \in Nat /\ m = (k + 1) + (m - k - 1)
    BY <1>4
  <2>2. l * (k + 1) = l * k + l
    BY <1>1
  <2>3. l * m = l * (k + 1) + l * (m - k - 1) /\ l * (m - k - 1) \in Nat
    BY <1>2, <2>1
  <2> QED
    BY <1>1, <1>2, <2>2, <2>3
<1> QED
  BY <1>1, <1>2, <1>3, <1>4 DEF Cost, l

\* There are finitely many callers, and one more of them than handlers.
LEMMA CallerFinite ==
  /\ IsFiniteSet(Caller) /\ Cardinality(Caller) = Cardinality(Handler) + 1
  /\ Cardinality(Handler) \in Nat
  /\ \A S \in SUBSET Caller : IsFiniteSet(S) /\ Cardinality(S) \in Nat
  /\ \A p \in Caller : Cardinality(Caller \ {p}) = Cardinality(Handler)
<1>1. IsFiniteSet(Handler) /\ Worker \notin Handler
  BY GateAssumption
<1>2. IsFiniteSet(Caller) /\ Cardinality(Caller) = Cardinality(Handler) + 1
  BY <1>1, FS_AddElement DEF Caller
<1>3. Cardinality(Handler) \in Nat
  BY <1>1, FS_CardinalityType
<1>4. \A S \in SUBSET Caller : IsFiniteSet(S) /\ Cardinality(S) \in Nat
  BY <1>2, FS_Subset, FS_CardinalityType
<1>5. ASSUME NEW p \in Caller
      PROVE  Cardinality(Caller \ {p}) = Cardinality(Handler)
  <2>1. Cardinality(Caller \ {p}) = Cardinality(Caller) - 1
    BY <1>2, FS_RemoveElement
  <2> QED
    BY <1>2, <1>3, <2>1
<1> QED
  BY <1>2, <1>3, <1>4, <1>5

\* Fewer buyers cost no more, and by a whole purchase less if one is missing.
LEMMA CostOfBuyers ==
  ASSUME NEW S \in SUBSET Caller, NEW T \in SUBSET S
  PROVE  /\ Cost(Cardinality(S)) \in Nat /\ Cost(Cardinality(T)) \in Nat
         /\ Cost(Cardinality(T)) <= Cost(Cardinality(S))
         /\ \A p \in S \ T :
              Cost(Cardinality(T)) + LargestPurchase <= Cost(Cardinality(S))
<1>1. /\ IsFiniteSet(S) /\ Cardinality(S) \in Nat
      /\ IsFiniteSet(T) /\ Cardinality(T) \in Nat
  BY CallerFinite
<1>2. Cardinality(T) <= Cardinality(S)
  BY <1>1, FS_Subset
<1>3. ASSUME NEW p \in S \ T
      PROVE  Cardinality(T) + 1 <= Cardinality(S)
  BY <1>1, <1>2, <1>3, FS_Subset
<1> QED
  BY <1>1, <1>2, <1>3, CostFacts

\* What the invariant says of the tokens on order.
LEMMA OnOrderFacts ==
  ASSUME IInv, PurchasesInv, NEW q \in Caller
  PROVE  /\ OnOrder(q) \in Nat /\ OnOrder(q) <= LargestPurchase
         /\ creditBalance \in Nat
         /\ Cost(Cardinality(Buyers \ {q})) \in Nat
         /\ Buyers \subseteq Caller
<1>1. Buyers \subseteq Caller
  BY DEF Buyers
<1>2. OnOrder(q) \in Nat /\ OnOrder(q) <= LargestPurchase
  BY TokensFacts, ConstantFacts DEF OnOrder, PurchasesInv
<1> QED
  BY <1>1, <1>2, IInvGives, CostOfBuyers

\* A caller that moves joins the buyers or leaves them, and changes no other's order.
LEMMA GotoBuyers ==
  ASSUME IInv, NEW p \in Caller, NEW c \in FineCall, Goto(p, c)
  PROVE  /\ Buyers' = IF c.pc \in {"refill", "rpc"} /\ c.reason # "direct"
                      THEN Buyers \cup {p} ELSE Buyers \ {p}
         /\ call'[p] = c
         /\ \A q \in Caller \ {p} : call'[q] = call[q]
<1>1. /\ call'[p] = c
      /\ \A q \in Caller \ {p} : call'[q] = call[q]
  BY IInvGives DEF Goto
<1> QED
  BY <1>1 DEF Buyers

\* A caller that stays a buyer has the same order, any other has none.
LEMMA OrderKept ==
  ASSUME Buyers' \subseteq Buyers, \A q \in Buyers' : call'[q].tokens = call[q].tokens,
         NEW q \in Caller
  PROVE  OnOrder(q)' = OnOrder(q) \/ OnOrder(q)' = 0
BY DEF OnOrder
-----------------------------------------------------------------------------
\* A step that takes tokens, or gives up a purchase.
LEMMA NothingBought ==
  ASSUME IInv, PurchasesInv, creditBalance' \in Nat, creditBalance' <= creditBalance,
         Buyers' \subseteq Buyers,
         \A q \in Buyers' : call'[q].tokens = call[q].tokens
  PROVE  PurchasesInv'
<1>1. PICK q \in Caller : creditBalance + OnOrder(q) + Cost(Cardinality(Buyers \ {q}))
                            <= WorkerBound + Cost(Cardinality(Handler))
  BY DEF PurchasesInv
<1>2. OnOrder(q)' \in Nat /\ OnOrder(q)' <= OnOrder(q)
  <2>1. OnOrder(q)' = OnOrder(q) \/ OnOrder(q)' = 0
    BY OrderKept
  <2>2. OnOrder(q) \in Nat
    BY OnOrderFacts
  <2> QED
    BY <2>1, <2>2
<1>3. Cost(Cardinality(Buyers \ {q})') \in Nat
      /\ Cost(Cardinality(Buyers \ {q})') <= Cost(Cardinality(Buyers \ {q}))
  BY OnOrderFacts, CostOfBuyers
<1>4. creditBalance' + OnOrder(q)' + Cost(Cardinality(Buyers \ {q})')
        <= WorkerBound + Cost(Cardinality(Handler))
  <2>1. /\ OnOrder(q) \in Nat /\ creditBalance \in Nat
        /\ Cost(Cardinality(Buyers \ {q})) \in Nat
        /\ WorkerBound \in Nat /\ Cost(Cardinality(Handler)) \in Nat
    BY OnOrderFacts, ConstantFacts, CostFacts, CallerFinite
  <2> QED
    BY <1>1, <1>2, <1>3, <2>1
<1> QED
  BY <1>4 DEF PurchasesInv, Cost, Caller

\* A purchase that arrived, or one that failed.
LEMMA PurchaseEnds ==
  ASSUME IInv, PurchasesInv, NEW p \in Buyers,
         creditBalance' \in Nat, creditBalance' <= creditBalance + call[p].tokens,
         Buyers' \subseteq Buyers \ {p},
         \A q \in Buyers' : call'[q].tokens = call[q].tokens
  PROVE  PurchasesInv'
<1> p \in Caller
  BY DEF Buyers
<1>1. PICK q \in Caller : creditBalance + OnOrder(q) + Cost(Cardinality(Buyers \ {q}))
                            <= WorkerBound + Cost(Cardinality(Handler))
  BY DEF PurchasesInv
<1>2. OnOrder(q)' \in Nat /\ OnOrder(q)' <= OnOrder(q) /\ (q = p => OnOrder(q)' = 0)
  <2>1. OnOrder(q)' = OnOrder(q) \/ OnOrder(q)' = 0
    BY OrderKept
  <2>2. OnOrder(q) \in Nat
    BY OnOrderFacts
  <2>3. q = p => OnOrder(q)' = 0
    BY DEF OnOrder
  <2> QED
    BY <2>1, <2>2, <2>3
<1>3. /\ Cost(Cardinality(Buyers \ {q})') \in Nat
      /\ Cost(Cardinality(Buyers \ {q})') <= Cost(Cardinality(Buyers \ {q}))
      /\ q # p => Cost(Cardinality(Buyers \ {q})') + LargestPurchase
                    <= Cost(Cardinality(Buyers \ {q}))
  BY OnOrderFacts, CostOfBuyers
<1>4. OnOrder(p) = call[p].tokens /\ OnOrder(p) \in Nat /\ OnOrder(p) <= LargestPurchase
  BY OnOrderFacts DEF OnOrder
<1>5. creditBalance' + OnOrder(q)' + Cost(Cardinality(Buyers \ {q})')
        <= WorkerBound + Cost(Cardinality(Handler))
  <2>1. /\ OnOrder(q) \in Nat /\ creditBalance \in Nat /\ LargestPurchase \in Nat
        /\ Cost(Cardinality(Buyers \ {q})) \in Nat
        /\ WorkerBound \in Nat /\ Cost(Cardinality(Handler)) \in Nat
    BY OnOrderFacts, ConstantFacts, CostFacts, CallerFinite
  <2>2. call[p].tokens \in Nat
    BY <1>4
  <2>3. creditBalance' + OnOrder(q)' + Cost(Cardinality(Buyers \ {q})')
          <= creditBalance + OnOrder(q) + Cost(Cardinality(Buyers \ {q}))
    <3>1. CASE q = p
      <4>1. OnOrder(q)' = 0 /\ OnOrder(q) = call[p].tokens
        BY <1>2, <1>4, <3>1
      <4> QED
        BY <1>3, <2>1, <2>2, <4>1
    <3>2. CASE q # p
      <4>1. Cost(Cardinality(Buyers \ {q})') + call[p].tokens
              <= Cost(Cardinality(Buyers \ {q}))
        BY <1>3, <1>4, <2>1, <2>2, <3>2
      <4> QED
        BY <1>2, <1>3, <2>1, <2>2, <4>1
    <3> QED
      BY <3>1, <3>2
  <2> QED
    BY <1>1, <1>2, <1>3, <2>1, <2>3
<1> QED
  BY <1>5 DEF PurchasesInv, Cost, Caller

\* A purchase is decided on: either the balance and it stay within what the worker
\* aims at, or it is that of a handler and the worker never buys.
LEMMA PurchaseDecided ==
  ASSUME IInv, PurchasesInv, NEW p \in Caller, NEW c \in FineCall, Goto(p, c),
         c.pc = "refill", c.reason # "direct", c.tokens \in 1 .. LargestPurchase,
         creditBalance' = creditBalance,
         refillLowWater = 0 => p # Worker,
         \/ creditBalance + c.tokens <= WorkerBound
         \/ refillLowWater = 0 /\ creditBalance = 0
  PROVE  PurchasesInv'
<1> DEFINE n == Cardinality(Handler)
<1>1. /\ Buyers' = Buyers \cup {p} /\ call'[p] = c
      /\ \A q \in Caller \ {p} : call'[q] = call[q]
  BY GotoBuyers
<1>2. Buyers \subseteq Caller /\ creditBalance \in Nat /\ c.tokens \in Nat
  BY OnOrderFacts DEF FineCall, Call
<1>3. OnOrder(p)' = c.tokens
  BY <1>1 DEF OnOrder
<1>4. n \in Nat /\ Cardinality(Caller \ {p}) = n /\ Cost(n) \in Nat
  BY CallerFinite, CostFacts
<1>5. (Buyers \ {p})' \subseteq Caller \ {p}
  BY <1>1, <1>2
<1>6. creditBalance + c.tokens + Cost(Cardinality(Buyers \ {p})')
        <= WorkerBound + Cost(n)
  <2>1. CASE creditBalance + c.tokens <= WorkerBound
    <3>1. Cost(Cardinality((Buyers \ {p})')) \in Nat
          /\ Cost(Cardinality((Buyers \ {p})')) <= Cost(n)
      BY <1>4, <1>5, CostOfBuyers
    <3> QED
      BY <1>2, <1>4, <2>1, <3>1, ConstantFacts
  <2>2. CASE refillLowWater = 0 /\ creditBalance = 0
    <3>1. Worker \in Caller \ {p} /\ Worker \notin (Buyers \ {p})'
      BY <1>1, <2>2 DEF PurchasesInv, Caller
    <3>2. Cost(Cardinality((Buyers \ {p})')) \in Nat
          /\ Cost(Cardinality((Buyers \ {p})')) + LargestPurchase <= Cost(n)
      BY <1>4, <1>5, <3>1, CostOfBuyers
    <3> QED
      BY <1>2, <1>4, <2>2, <3>2, ConstantFacts
  <2> QED
    BY <2>1, <2>2
<1>7. \A q \in Buyers' : call'[q].tokens \in 1 .. LargestPurchase
  BY <1>1, <1>2 DEF PurchasesInv
<1>8. refillLowWater = 0 => Worker \notin Buyers'
  BY <1>1 DEF PurchasesInv
<1> QED
  BY <1>3, <1>6, <1>7, <1>8 DEF PurchasesInv, Cost, Caller
-----------------------------------------------------------------------------
\* No step of the gate that is not a purchase adds tokens to it.
LEMMA PurchasesControl ==
  ASSUME IInv, PurchasesInv, NEW p \in Caller, NEW c \in FineCall, Goto(p, c),
         creditBalance' \in Nat, creditBalance' <= creditBalance,
         c.pc \notin {"refill", "rpc"} \/ c.reason = "direct"
  PROVE  PurchasesInv'
<1>1. Buyers' \subseteq Buyers /\ \A q \in Buyers' : call'[q].tokens = call[q].tokens
  BY GotoBuyers DEF Buyers
<1> QED
  BY <1>1, NothingBought

\* The same, of the calls that buy nothing.
LEMMA QuietCall ==
  ASSUME IInv, PurchasesInv, NEW p \in Caller,
         \/ Goto(p, Idle) \/ Goto(p, At("prime", "", 0)) \/ Goto(p, At("checked", "", 0))
         \/ Goto(p, At("retry", "", 0)) \/ Goto(p, At("need", "", 0)),
         creditBalance' \in Nat, creditBalance' <= creditBalance
  PROVE  PurchasesInv'
<1>1. /\ Idle \in FineCall /\ At("prime", "", 0) \in FineCall
      /\ At("checked", "", 0) \in FineCall /\ At("retry", "", 0) \in FineCall
      /\ At("need", "", 0) \in FineCall
  BY DEF Idle, At, Call, FineCall
<1>2. /\ Idle.pc = "idle" /\ At("prime", "", 0).pc = "prime"
      /\ At("checked", "", 0).pc = "checked" /\ At("retry", "", 0).pc = "retry"
      /\ At("need", "", 0).pc = "need"
  BY DEF Idle, At
<1>3. PICK c \in FineCall : Goto(p, c) /\ c.pc \notin {"refill", "rpc"}
  BY <1>1, <1>2
<1> QED
  BY <1>3, PurchasesControl

\* The balance after tokens were thrown away, or kept.
LEMMA VoidFacts ==
  ASSUME IInv, Void \/ UNCHANGED <<creditBalance, voided>>
  PROVE  creditBalance' \in Nat /\ creditBalance' <= creditBalance
BY IInvGives DEF Void

\* /set_enabled throws tokens away or keeps them.
LEMMA PurchasesSetEnabled ==
  ASSUME IInv, PurchasesInv, NEW p \in Handler,
         \/ \E delay \in ArmDelayNs, count \in ArmCount, enable \in BOOLEAN :
              SetArmConfig(p, delay, count, enable)
         \/ SetArmActive(p)
  PROVE  PurchasesInv'
<1> p \in Caller
  BY DEF Caller
<1>1. ASSUME NEW delay \in ArmDelayNs, NEW count \in ArmCount, NEW enable \in BOOLEAN,
             SetArmConfig(p, delay, count, enable)
      PROVE  PurchasesInv'
  <2> DEFINE changed == delay # armDelayNs \/ count # armCount
             c == [pc |-> "activate", reason |-> "", tokens |-> 0,
                   enable |-> enable, changed |-> changed]
  <2>1. c \in FineCall /\ c.pc = "activate"
    BY DEF Call, FineCall
  <2>2. Goto(p, c) /\ (Void \/ UNCHANGED <<creditBalance, voided>>)
    BY <1>1 DEF SetArmConfig
  <2> HIDE DEF c
  <2> QED
    BY <2>1, <2>2, VoidFacts, PurchasesControl
<1>2. CASE SetArmActive(p)
  <2>1. /\ Goto(p, At("prime", "", 0)) \/ Goto(p, Idle)
        /\ Void \/ UNCHANGED <<creditBalance, voided>>
    BY <1>2 DEF SetArmActive
  <2> QED
    BY <2>1, VoidFacts, QuietCall
<1> QED
  BY <1>1, <1>2

\* primeOnEnable buys up to the target.
LEMMA PurchasesPrime ==
  ASSUME IInv, PurchasesInv, NEW p \in Handler, Prime(p)
  PROVE  PurchasesInv'
<1> p \in Caller /\ p # Worker
  BY GateAssumption DEF Caller
<1> DEFINE c == At("refill", "enable", refillTargetReq - creditBalance)
<1>1. ASSUME creditBalance < refillTargetReq
      PROVE  /\ c \in FineCall /\ c.pc = "refill" /\ c.reason # "direct"
             /\ c.tokens \in 1 .. LargestPurchase /\ creditBalance + c.tokens <= WorkerBound
  <2>1. /\ refillTargetReq - creditBalance \in 1 .. LargestPurchase
        /\ creditBalance + (refillTargetReq - creditBalance) <= WorkerBound
    BY <1>1, IInvGives, ConstantFacts, GateAssumption
  <2> QED
    BY <2>1 DEF At, Call, FineCall
<1>2. \/ creditBalance < refillTargetReq /\ Goto(p, c)
      \/ Goto(p, Idle)
  BY DEF Prime
<1>3. creditBalance' = creditBalance /\ creditBalance' \in Nat /\ creditBalance' <= creditBalance
  <2>1. creditBalance' = creditBalance /\ creditBalance \in Nat
    BY IInvGives DEF Prime
  <2> QED
    BY <2>1
<1> HIDE DEF c
<1>4. CASE creditBalance < refillTargetReq /\ Goto(p, c)
  BY <1>1, <1>3, <1>4, PurchaseDecided
<1>5. CASE Goto(p, Idle)
  BY <1>3, <1>5, QuietCall
<1> QED
  BY <1>2, <1>4, <1>5

\* A request takes a token, arms for itself, or buys a batch when none is left.
LEMMA PurchasesRequest ==
  ASSUME IInv, PurchasesInv, NEW p \in Handler,
         Check(p) \/ Consume(p) \/ Miss(p) \/ MissAgain(p)
  PROVE  PurchasesInv'
<1> p \in Caller /\ p # Worker
  BY GateAssumption DEF Caller
<1> DEFINE c == At("refill", "sync-miss", Larger(1, refillBatchReq))
           d == At("rpc", "direct", 1)
<1>1. /\ c \in FineCall /\ c.pc = "refill" /\ c.reason # "direct"
      /\ c.tokens = refillBatchReq
  BY ConstantFacts, GateAssumption DEF At, Call, FineCall
<1>2. d \in FineCall /\ d.reason = "direct"
  BY DEF At, Call, FineCall
<1>3. \/ creditBalance = 0 /\ creditBalance' = creditBalance /\ Goto(p, c)
      \/ Goto(p, d) /\ creditBalance' = creditBalance
      \/ Goto(p, Idle) /\ creditBalance' = creditBalance
      \/ Goto(p, Idle) /\ creditBalance > 0 /\ creditBalance' = creditBalance - 1
      \/ Goto(p, At("checked", "", 0)) /\ creditBalance' = creditBalance
  <2>1. CASE Check(p)
    BY <2>1 DEF Check
  <2>2. CASE Consume(p)
    BY <2>2 DEF Consume
  <2>3. CASE Miss(p)
    <3>1. creditBalance = 0 /\ creditBalance' = creditBalance /\ (Goto(p, c) \/ Goto(p, Idle))
      BY <2>3 DEF Miss
    <3> HIDE DEF c, d
    <3> QED
      BY <3>1
  <2>4. CASE MissAgain(p)
    <3>1. creditBalance' = creditBalance /\ Goto(p, Idle)
      BY <2>4 DEF MissAgain
    <3> QED
      BY <3>1
  <2> QED
    BY <2>1, <2>2, <2>3, <2>4
<1> HIDE DEF c, d
<1>4. creditBalance \in Nat /\ refillLowWater \in Nat
      /\ refillTargetReq \in Nat /\ refillBatchReq \in Nat \ {0}
  BY IInvGives, GateAssumption
<1>5. CASE creditBalance = 0 /\ creditBalance' = creditBalance /\ Goto(p, c)
  <2>1. /\ c.tokens \in 1 .. LargestPurchase
        /\ (creditBalance + c.tokens <= WorkerBound \/ refillLowWater = 0)
    BY <1>1, <1>4, <1>5, ConstantFacts
  <2> QED
    BY <1>1, <1>5, <2>1, PurchaseDecided
<1>6. CASE Goto(p, d) /\ creditBalance' = creditBalance
  <2>1. creditBalance' \in Nat /\ creditBalance' <= creditBalance
    BY <1>4, <1>6
  <2> QED
    BY <1>2, <1>6, <2>1, PurchasesControl
<1>7. CASE \/ Goto(p, Idle) /\ creditBalance' = creditBalance
           \/ Goto(p, Idle) /\ creditBalance > 0 /\ creditBalance' = creditBalance - 1
  <2>1. creditBalance' \in Nat /\ creditBalance' <= creditBalance
    BY <1>4, <1>7
  <2> QED
    BY <1>7, <2>1, QuietCall
<1>8. CASE Goto(p, At("checked", "", 0)) /\ creditBalance' = creditBalance
  <2>1. creditBalance' \in Nat /\ creditBalance' <= creditBalance
    <3>1. creditBalance' = creditBalance
      BY <1>8
    <3> QED
      BY <1>4, <3>1
  <2> QED
    BY <1>8, <2>1, QuietCall
<1> QED
  BY <1>3, <1>5, <1>6, <1>7, <1>8

\* The worker buys a batch, or up to the target, below the low-water mark.
LEMMA PurchasesWorker ==
  ASSUME IInv, PurchasesInv, Wake \/ Need
  PROVE  PurchasesInv'
<1> Worker \in Caller
  BY DEF Caller
<1> DEFINE n == Larger(refillBatchReq, refillTargetReq - creditBalance)
           c == At("refill", "async", n)
<1>1. creditBalance \in Nat /\ creditBalance' = creditBalance /\ n \in Nat
  <2>1. creditBalance \in Nat /\ n \in Nat
    BY GateAssumption, IInvGives DEF Larger
  <2>2. creditBalance' = creditBalance
    BY DEF Wake, Need
  <2> QED
    BY <2>1, <2>2
<1>2. c \in FineCall /\ c.pc = "refill" /\ c.reason # "direct" /\ c.tokens = n
  BY <1>1 DEF At, Call, FineCall
<1>3. /\ creditBalance < refillLowWater => n \in 1 .. LargestPurchase
      /\ creditBalance < refillLowWater => creditBalance + n <= WorkerBound
  <2>1. n = refillBatchReq \/ n = refillTargetReq - creditBalance
    BY DEF Larger
  <2>2. /\ refillTargetReq \in Nat /\ refillBatchReq \in Nat \ {0}
        /\ refillLowWater \in Nat /\ refillLowWater < refillTargetReq
    BY GateAssumption
  <2> HIDE DEF n
  <2> QED
    BY <1>1, <2>1, <2>2, ConstantFacts
<1>4. \/ creditBalance < refillLowWater /\ Goto(Worker, c)
      \/ Goto(Worker, At("need", "", 0))
      \/ Goto(Worker, Idle)
  <2> HIDE DEF n
  <2>1. CASE Wake
    BY <2>1 DEF Wake
  <2>2. CASE Need
    BY <2>2 DEF Need, n
  <2> QED
    BY <2>1, <2>2
<1> HIDE DEF n, c
<1>5. CASE creditBalance < refillLowWater /\ Goto(Worker, c)
  <2>1. refillLowWater # 0
    BY <1>1, <1>5
  <2> QED
    BY <1>1, <1>2, <1>3, <1>5, <2>1, PurchaseDecided
<1>6. CASE Goto(Worker, At("need", "", 0)) \/ Goto(Worker, Idle)
  <2>1. creditBalance' \in Nat /\ creditBalance' <= creditBalance
    BY <1>1
  <2> QED
    BY <1>6, <2>1, QuietCall
<1> QED
  BY <1>4, <1>5, <1>6

\* A purchase goes on as it was decided, and ends with its tokens or without them.
LEMMA PurchasesBuy ==
  ASSUME IInv, PurchasesInv, NEW p \in Caller, Buy(p)
  PROVE  PurchasesInv'
<1> DEFINE b == At("rpc", call[p].reason, call[p].tokens)
<1>1. /\ call[p] \in FineCall /\ call[p].tokens \in Nat /\ creditBalance \in Nat
      /\ b \in FineCall /\ b.pc = "rpc" /\ b.reason = call[p].reason
      /\ b.tokens = call[p].tokens
  BY TokensFacts, IInvGives DEF At
<1>2. ASSUME NEW ok \in BOOLEAN, After(p, ok)
      PROVE  Goto(p, At("need", "", 0)) \/ Goto(p, At("retry", "", 0)) \/ Goto(p, Idle)
  BY <1>2 DEF After
<1>3. CASE Refill(p)
  <2>1. creditBalance' = creditBalance /\ (Goto(p, b) \/ After(p, FALSE))
    BY <1>3 DEF Refill
  <2> HIDE DEF b
  <2>2. CASE After(p, FALSE)
    <3>1. creditBalance' \in Nat /\ creditBalance' <= creditBalance
      BY <1>1, <2>1
    <3>2. Goto(p, At("need", "", 0)) \/ Goto(p, At("retry", "", 0)) \/ Goto(p, Idle)
      BY <1>2, <2>2
    <3> QED
      BY <3>1, <3>2, QuietCall
  <2>3. CASE Goto(p, b)
    <3>1. call[p].pc = "refill"
      BY <1>3 DEF Refill
    <3>2. Buyers' \subseteq Buyers /\ \A q \in Buyers' : call'[q].tokens = call[q].tokens
      BY <1>1, <2>3, <3>1, GotoBuyers DEF Buyers
    <3> QED
      BY <1>1, <2>1, <3>2, NothingBought
  <2> QED
    BY <2>1, <2>2, <2>3
<1>4. ASSUME Purchase(p) \/ \E granted \in BOOLEAN : PurchaseFails(p, granted)
      PROVE  PurchasesInv'
  <2>1. PICK ok \in BOOLEAN : After(p, ok)
    BY <1>4 DEF Purchase, PurchaseFails
  <2>2. PICK c \in FineCall : Goto(p, c) /\ c.pc \notin {"refill", "rpc"}
    <3>1. /\ Idle \in FineCall /\ At("need", "", 0) \in FineCall /\ At("retry", "", 0) \in FineCall
          /\ Idle.pc = "idle" /\ At("need", "", 0).pc = "need" /\ At("retry", "", 0).pc = "retry"
      BY DEF Idle, At, Call, FineCall
    <3> QED
      BY <1>2, <2>1, <3>1
  <2>3. /\ Buyers' \subseteq Buyers \ {p}
        /\ \A q \in Buyers' : call'[q].tokens = call[q].tokens
    BY <2>2, GotoBuyers DEF Buyers
  <2>4. /\ call[p].pc = "rpc"
        /\ \/ creditBalance' = creditBalance
           \/ creditBalance' = creditBalance + call[p].tokens /\ call[p].reason # "direct"
    BY <1>4 DEF Purchase, PurchaseFails
  <2>5. CASE call[p].reason = "direct"
    BY <1>1, <2>3, <2>4, <2>5, NothingBought
  <2>6. CASE call[p].reason # "direct"
    <3>1. p \in Buyers
      BY <2>4, <2>6 DEF Buyers
    <3> QED
      BY <1>1, <2>3, <2>4, <3>1, PurchaseEnds
  <2> QED
    BY <2>5, <2>6
<1> QED
  BY <1>3, <1>4 DEF Buy

\* Every step of the gate keeps the purchases under way within their bound.
LEMMA PurchasesNext == IInv /\ PurchasesInv /\ [Next]_vars => PurchasesInv'
<1> SUFFICES ASSUME IInv, PurchasesInv, [Next]_vars PROVE PurchasesInv'
  OBVIOUS
<1>1. CASE RefillWorker
  BY <1>1, PurchasesWorker, PurchasesBuy DEF RefillWorker, Caller
<1>2. ASSUME NEW p \in Handler,
             \/ \E delay \in ArmDelayNs, count \in ArmCount, enable \in BOOLEAN :
                  SetArmConfig(p, delay, count, enable)
             \/ Check(p) \/ Handle(p)
      PROVE  PurchasesInv'
  <2>1. p \in Caller
    BY DEF Caller
  <2> QED
    BY <1>2, <2>1, PurchasesSetEnabled, PurchasesPrime, PurchasesRequest, PurchasesBuy DEF Handle
<1>3. CASE UNCHANGED vars
  <2>1. call' = call /\ creditBalance' = creditBalance /\ Buyers' = Buyers
    BY <1>3 DEF vars, Buyers
  <2> QED
    BY <2>1, IInvGives, NothingBought
<1> QED
  BY <1>1, <1>2, <1>3 DEF Next

\* A gate that starts has no purchase under way.
LEMMA PurchasesInit == Init => PurchasesInv
<1> SUFFICES ASSUME Init PROVE PurchasesInv
  OBVIOUS
<1>1. Buyers = {}
  BY DEF Init, Buyers, Idle, At
<1>2. OnOrder(Worker) = 0 /\ Worker \in Caller /\ Buyers \ {Worker} = {}
  BY <1>1 DEF OnOrder, Caller
<1>3. Cardinality(Buyers \ {Worker}) = 0 /\ Cost(0) \in Nat
      /\ Cost(0) <= Cost(Cardinality(Handler)) /\ Cost(Cardinality(Handler)) \in Nat
  BY <1>2, FS_EmptySet, CostFacts, CallerFinite
<1>4. creditBalance + OnOrder(Worker) + Cost(Cardinality(Buyers \ {Worker}))
        <= WorkerBound + Cost(Cardinality(Handler))
  BY <1>2, <1>3, ConstantFacts DEF Init
<1> QED
  BY <1>1, <1>2, <1>4 DEF PurchasesInv

\* What the proof of the bound rests on, in every reachable state.
LEMMA PurchasesHold == Safety => [](IInv /\ PurchasesInv)
BY IInvInit, IInvNext, PurchasesInit, PurchasesNext, PTL DEF Safety

\* The gate never holds more tokens than the worker aims at and one purchase of
\* each handler, for any number of handlers and any refill parameters, although
\* no purchase is counted while it is under way.
THEOREM BalanceStaysBounded == Safety => []BalanceBounded
<1>1. IInv /\ PurchasesInv => BalanceBounded
  <2> SUFFICES ASSUME IInv, PurchasesInv PROVE BalanceBounded
    OBVIOUS
  <2>1. PICK q \in Caller : creditBalance + OnOrder(q) + Cost(Cardinality(Buyers \ {q}))
                              <= WorkerBound + Cost(Cardinality(Handler))
    BY DEF PurchasesInv
  <2>2. Cost(Cardinality(Handler)) \in Nat
    BY CostFacts, CallerFinite
  <2>3. creditBalance <= WorkerBound + Cost(Cardinality(Handler))
    BY <2>1, <2>2, OnOrderFacts, ConstantFacts
  <2>4. Cost(Cardinality(Handler)) = Cardinality(Handler) * LargestPurchase
    BY CallerFinite, ConstantFacts DEF Cost
  <2> QED
    BY <2>3, <2>4 DEF BalanceBounded, LargestPurchase
<1> QED
  BY <1>1, PurchasesHold, PTL
-----------------------------------------------------------------------------
\* What the gate is asking the daemon for is one purchase.
LEMMA PurchaseSize ==
  ASSUME IInv, PurchasesInv, NEW p \in Caller, call[p].pc = "rpc"
  PROVE  /\ call[p].tokens \in 1 .. LargestPurchase
         /\ call[p].reason = "direct" => call[p].tokens = 1
<1>1. CASE call[p].reason = "direct"
  <2>1. call[p].tokens = 1
    BY <1>1, TokensFacts DEF FineCall
  <2> QED
    BY <2>1, ConstantFacts, GateAssumption
<1>2. CASE call[p].reason # "direct"
  BY <1>2 DEF PurchasesInv, Buyers
<1> QED
  BY <1>1, <1>2

\* A step that moves no token is none of the bank.
LEMMA BankStutters ==
  ASSUME UNCHANGED <<creditBalance, counters>>
  PROVE  UNCHANGED Bank!vars
BY DEF counters, Bank!vars

\* /set_enabled throws all tokens away, or none.
LEMMA BankVoid ==
  ASSUME Void \/ UNCHANGED <<creditBalance, voided>>,
         UNCHANGED <<ArmedOK, bought>>
  PROVE  Bank!Void \/ UNCHANGED Bank!vars
BY DEF Void, Bank!Void, Bank!vars

\* A call to the daemon buys one purchase, wastes one, or comes to nothing.
LEMMA BankBuys ==
  ASSUME IInv, PurchasesInv, NEW p \in Caller, Buy(p)
  PROVE  Bank!Next \/ UNCHANGED Bank!vars
<1> DEFINE n == call[p].tokens
<1>1. CASE Refill(p)
  BY <1>1, BankStutters DEF Refill
<1>2. CASE Purchase(p)
  <2>1. n \in 1 .. LargestPurchase /\ (call[p].reason = "direct" => n = 1)
    BY <1>2, PurchaseSize DEF Purchase
  <2>2. bought' = bought + n /\ voided' = voided
    BY <1>2 DEF Purchase
  <2>3. Bank!Obtain(n)
    BY <1>2, <2>1 DEF Purchase, Bank!Obtain
  <2>4. Bank!Buy(n)
    BY <2>2, <2>3 DEF Bank!Buy
  <2> QED
    BY <2>1, <2>4 DEF Bank!Next, LargestPurchase
<1>3. ASSUME NEW granted \in BOOLEAN, PurchaseFails(p, granted)
      PROVE  Bank!Next \/ UNCHANGED Bank!vars
  <2>1. n \in 1 .. LargestPurchase
    BY <1>3, PurchaseSize DEF PurchaseFails
  <2>2. creditBalance' = creditBalance /\ ArmedOK' = ArmedOK /\ voided' = voided
    BY <1>3 DEF PurchaseFails
  <2>3. bought' = bought + n \/ bought' = bought
    BY <1>3 DEF PurchaseFails
  <2>4. Bank!Waste(n) \/ UNCHANGED Bank!vars
    BY <2>2, <2>3 DEF Bank!Waste, Bank!vars
  <2> QED
    BY <2>1, <2>4 DEF Bank!Next, LargestPurchase
<1> QED
  BY <1>1, <1>2, <1>3 DEF Buy

\* Every step of the gate is a step of the bank or moves no token.
LEMMA BankStep == IInv /\ PurchasesInv /\ [Next]_vars => [Bank!Next]_(Bank!vars)
<1> SUFFICES ASSUME IInv, PurchasesInv, [Next]_vars PROVE Bank!Next \/ UNCHANGED Bank!vars
  OBVIOUS
<1>1. CASE Wake \/ Need \/ UNCHANGED vars
  <2>1. UNCHANGED <<creditBalance, counters>>
    BY <1>1 DEF Wake, Need, vars
  <2> QED
    BY <2>1, BankStutters
<1>2. ASSUME NEW p \in Caller, Buy(p)
      PROVE  Bank!Next \/ UNCHANGED Bank!vars
  BY <1>2, BankBuys
<1>3. ASSUME NEW p \in Handler,
             \/ \E delay \in ArmDelayNs, count \in ArmCount, enable \in BOOLEAN :
                  SetArmConfig(p, delay, count, enable)
             \/ SetArmActive(p)
      PROVE  Bank!Next \/ UNCHANGED Bank!vars
  <2>1. Void \/ UNCHANGED <<creditBalance, voided>>
    BY <1>3 DEF SetArmConfig, SetArmActive
  <2>2. UNCHANGED <<ArmedOK, bought>>
    BY <1>3 DEF SetArmConfig, SetArmActive
  <2> QED
    BY <2>1, <2>2, BankVoid DEF Bank!Next
<1>4. ASSUME NEW p \in Handler, Prime(p) \/ Check(p) \/ Miss(p) \/ MissAgain(p)
      PROVE  Bank!Next \/ UNCHANGED Bank!vars
  <2>1. UNCHANGED <<creditBalance, counters>>
    BY <1>4 DEF Prime, Check, Miss, MissAgain
  <2> QED
    BY <2>1, BankStutters
<1>5. ASSUME NEW p \in Handler, Consume(p)
      PROVE  Bank!Next \/ UNCHANGED Bank!vars
  <2>1. Bank!Use
    BY <1>5 DEF Consume, Bank!Use
  <2> QED
    BY <2>1 DEF Bank!Next
<1> QED
  BY <1>1, <1>2, <1>3, <1>4, <1>5 DEF Next, RefillWorker, Handle, Caller

\* The gate is a token bank, for any number of handlers and any refill parameters:
\* no interleaving of purchases, requests and /set_enabled lets a request through
\* without a token of its own, or buys more at once than the parameters say.
THEOREM GateIsTokenBank == Safety => ImplementsTokenBank
<1>1. Init => Bank!Init
  BY DEF Init, Bank!Init
<1> QED
  BY <1>1, BankStep, PurchasesHold, PTL DEF Safety, ImplementsTokenBank, Bank!Spec
=============================================================================
