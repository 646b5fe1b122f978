-------------------------- MODULE RequestAwareProofs --------------------------
(***************************************************************************)
(* For any number of /rearm requests: an arm lets each of the two threads  *)
(* inject once, never more.                                                *)
(***************************************************************************)
EXTENDS RequestAware, TLAPS

One(b) == IF b THEN 1 ELSE 0

\* The injections of an arm, and those it can still lead to.
Due(a) ==
  injected[a] + One(a = arm /\ server = "rearmed") + One(a = arm /\ g_request_armed)
              + One(a = hit /\ sampler = "hit")

IInv ==
  /\ TypeOK
  /\ hit <= arm
  /\ \A a \in Arm : Due(a) <= 2
  /\ \A a \in Arm : a > arm => injected[a] = 0
-----------------------------------------------------------------------------
LEMMA OneFacts == \A b : One(b) \in {0, 1}
BY DEF One

LEMMA ArmFacts ==
  ASSUME MaxRearms \in Nat
  PROVE  0 \in Arm /\ Arm \subseteq Nat /\ \A a \in Arm : a < MaxRearms => a + 1 \in Arm
BY DEF Arm

LEMMA InitHolds == ASSUME MaxRearms \in Nat, Init PROVE IInv
<1>1. TypeOK
  BY ArmFacts DEF Init, TypeOK
<1>2. \A a \in Arm : Due(a) <= 2
  BY DEF Init, Due, One
<1> QED
  BY <1>1, <1>2 DEF Init, IInv

\* The injection that a thread makes was due.
LEMMA InjectKeeps ==
  ASSUME MaxRearms \in Nat, IInv, NEW b \in Arm, b <= arm, Inject(b)
  PROVE  /\ injected' \in [Arm -> Nat]
         /\ injected'[b] = injected[b] + 1
         /\ \A a \in Arm \ {b} : injected'[a] = injected[a]
         /\ \A a \in Arm : a > arm => injected'[a] = 0
<1>1. injected \in [Arm -> Nat] /\ arm \in Nat /\ Arm \subseteq Nat
  BY ArmFacts DEF IInv, TypeOK
<1>2. injected' = [injected EXCEPT ![b] = @ + 1]
  BY DEF Inject
<1>3. injected' \in [Arm -> Nat]
  BY <1>1, <1>2
<1>4. injected'[b] = injected[b] + 1 /\ \A a \in Arm \ {b} : injected'[a] = injected[a]
  BY <1>1, <1>2
<1>5. ASSUME NEW a \in Arm, a > arm PROVE injected'[a] = 0
  <2>1. a # b
    BY <1>1, <1>5
  <2> QED
    BY <1>4, <1>5, <2>1 DEF IInv
<1> QED
  BY <1>3, <1>4, <1>5

LEMMA ServePreserves == ASSUME MaxRearms \in Nat, IInv, Serve PROVE IInv'
<1>1. /\ injected \in [Arm -> Nat] /\ arm \in Arm /\ hit \in Arm /\ hit <= arm
      /\ Arm \subseteq Nat
  BY ArmFacts DEF IInv, TypeOK
<1>2. CASE Rearm
  <2>1. arm' = arm + 1 /\ arm' \in Arm /\ hit' = hit /\ sampler' = sampler /\ injected' = injected
    BY <1>1, <1>2, ArmFacts DEF Rearm
  <2>2. TypeOK'
    BY <1>2, <2>1 DEF Rearm, IInv, TypeOK
  <2>3. ASSUME NEW a \in Arm PROVE Due(a)' <= 2
    <3>1. CASE a = arm'
      <4>1. injected[a] = 0 /\ a # hit
        BY <1>1, <2>1, <3>1 DEF IInv
      <4> QED
        BY <2>1, <4>1 DEF Due, One
    <3>2. CASE a # arm'
      <4>1. Due(a)' <= Due(a)
        BY <1>1, <2>1, <3>2 DEF Due, One
      <4>2. Due(a) \in Nat /\ Due(a)' \in Nat /\ Due(a) <= 2
        BY <1>1, <2>1 DEF IInv, Due, One
      <4> QED
        BY <4>1, <4>2
    <3> QED
      BY <3>1, <3>2
  <2>4. \A a \in Arm : a > arm' => injected'[a] = 0
    BY <1>1, <2>1 DEF IInv
  <2> QED
    BY <1>1, <2>1, <2>2, <2>3, <2>4 DEF IInv
<1>3. CASE InjectAtOnce
  <2>1. /\ arm' = arm /\ hit' = hit /\ sampler' = sampler /\ g_request_armed' = g_request_armed
        /\ server = "rearmed" /\ server' # "rearmed"
    BY <1>3 DEF InjectAtOnce
  <2>2. CASE Inject(arm)
    <3>1. /\ injected' \in [Arm -> Nat] /\ injected'[arm] = injected[arm] + 1
          /\ \A a \in Arm \ {arm} : injected'[a] = injected[a]
          /\ \A a \in Arm : a > arm => injected'[a] = 0
      BY <1>1, <2>2, InjectKeeps
    <3>2. TypeOK'
      BY <1>3, <3>1 DEF InjectAtOnce, IInv, TypeOK
    <3>3. \A a \in Arm : Due(a)' <= 2
      BY <1>1, <2>1, <3>1 DEF IInv, Due, One
    <3> QED
      BY <1>1, <2>1, <3>1, <3>2, <3>3 DEF IInv
  <2>3. CASE UNCHANGED injected
    <3>1. TypeOK'
      BY <1>3, <2>3 DEF InjectAtOnce, IInv, TypeOK
    <3>2. \A a \in Arm : Due(a)' <= 2
      BY <1>1, <2>1, <2>3 DEF IInv, Due, One
    <3> QED
      BY <1>1, <2>1, <2>3, <3>1, <3>2 DEF IInv
  <2> QED
    BY <1>3, <2>2, <2>3 DEF InjectAtOnce
<1>4. CASE Consumed
  <2>1. /\ arm' = arm /\ hit' = hit /\ sampler' = sampler /\ injected' = injected
        /\ g_request_armed' = FALSE
        /\ server = "injected" /\ server' = "consumed"
    BY <1>4 DEF Consumed
  <2>2. TypeOK'
    BY <1>4 DEF Consumed, IInv, TypeOK
  <2>3. \A a \in Arm : Due(a)' <= 2
    BY <1>1, <2>1 DEF IInv, Due, One
  <2> QED
    BY <1>1, <2>1, <2>2, <2>3 DEF IInv
<1>5. CASE Rearmed \/ Clear
  <2>1. /\ arm' = arm /\ hit' = hit /\ sampler' = sampler /\ injected' = injected
        /\ g_request_armed' = g_request_armed
        /\ server # "rearmed" /\ server' # "rearmed"
    BY <1>5 DEF Rearmed, Clear
  <2>2. TypeOK'
    BY <1>5 DEF Rearmed, Clear, Accumulate, IInv, TypeOK
  <2>3. \A a \in Arm : Due(a)' <= 2
    BY <1>1, <2>1 DEF IInv, Due, One
  <2> QED
    BY <1>1, <2>1, <2>2, <2>3 DEF IInv
<1> QED
  BY <1>2, <1>3, <1>4, <1>5 DEF Serve

LEMMA SamplePreserves == ASSUME MaxRearms \in Nat, IInv, Sample PROVE IInv'
<1>1. /\ injected \in [Arm -> Nat] /\ arm \in Arm /\ hit \in Arm /\ hit <= arm
      /\ Arm \subseteq Nat
  BY ArmFacts DEF IInv, TypeOK
<1>2. CASE ThresholdHit
  <2>1. /\ arm' = arm /\ hit' = arm /\ sampler = "sleep" /\ sampler' = "hit"
        /\ server' = server /\ injected' = injected
        /\ g_request_armed' = FALSE
    BY <1>2 DEF ThresholdHit
  <2>g. g_request_armed
    BY <1>2 DEF ThresholdHit
  <2>2. TypeOK'
    BY <1>2 DEF ThresholdHit, IInv, TypeOK
  <2>3. ASSUME NEW a \in Arm PROVE Due(a)' <= 2
    <3>1. CASE a = arm
      <4>1. One(a = arm /\ g_request_armed) = 1 /\ One(a = hit /\ sampler = "hit") = 0
        BY <2>1, <2>g, <3>1 DEF One
      <4>2. One(a = arm' /\ g_request_armed') = 0 /\ One(a = hit' /\ sampler' = "hit") = 1
        BY <2>1, <3>1 DEF One
      <4>3. Due(a)' = Due(a)
        BY <1>1, <2>1, <4>1, <4>2, OneFacts DEF Due
      <4> QED
        BY <4>3 DEF IInv
    <3>2. CASE a # arm
      BY <1>1, <2>1, <3>2 DEF IInv, Due, One
    <3> QED
      BY <3>1, <3>2
  <2> QED
    BY <1>1, <2>1, <2>2, <2>3 DEF IInv
<1>3. ASSUME NEW sent \in BOOLEAN, Send(sent) PROVE IInv'
  <2>1. /\ arm' = arm /\ hit' = hit /\ sampler = "hit" /\ sampler' # "hit"
        /\ server' = server /\ g_request_armed' = g_request_armed
    BY <1>3 DEF Send
  <2>2. CASE Inject(hit)
    <3>1. /\ injected' \in [Arm -> Nat] /\ injected'[hit] = injected[hit] + 1
          /\ \A a \in Arm \ {hit} : injected'[a] = injected[a]
          /\ \A a \in Arm : a > arm => injected'[a] = 0
      BY <1>1, <2>2, InjectKeeps
    <3>2. TypeOK'
      BY <1>3, <3>1 DEF Send, IInv, TypeOK
    <3>3. \A a \in Arm : Due(a)' <= 2
      BY <1>1, <2>1, <3>1 DEF IInv, Due, One
    <3> QED
      BY <1>1, <2>1, <3>1, <3>2, <3>3 DEF IInv
  <2>3. CASE UNCHANGED injected
    <3>1. TypeOK'
      BY <1>3, <2>3 DEF Send, IInv, TypeOK
    <3>2. \A a \in Arm : Due(a)' <= 2
      BY <1>1, <2>1, <2>3 DEF IInv, Due, One
    <3> QED
      BY <1>1, <2>1, <2>3, <3>1, <3>2 DEF IInv
  <2> QED
    BY <1>3, <2>2, <2>3 DEF Send
<1>4. CASE Sent
  <2>1. /\ arm' = arm /\ hit' = hit /\ sampler' # "hit" /\ injected' = injected
        /\ server' = server /\ g_request_armed' = g_request_armed
    BY <1>4 DEF Sent
  <2>2. TypeOK'
    BY <1>4 DEF Sent, Accumulate, IInv, TypeOK
  <2>3. \A a \in Arm : Due(a)' <= 2
    BY <1>1, <2>1 DEF IInv, Due, One
  <2> QED
    BY <1>1, <2>1, <2>2, <2>3 DEF IInv
<1> QED
  BY <1>2, <1>3, <1>4 DEF Sample

\* The single server and the single sampler inject once each for every arm, and
\* the sampler's compare-and-swap takes an arm once, however the two interleave.
THEOREM InjectsAtMostTwice ==
  ASSUME MaxRearms \in Nat PROVE Spec => []AtMostTwicePerRearm
<1>1. IInv /\ UNCHANGED vars => IInv'
  BY DEF IInv, TypeOK, Due, One, vars
<1>2. IInv /\ [Next]_vars => IInv'
  BY <1>1, ServePreserves, SamplePreserves DEF Next
<1>3. IInv => AtMostTwicePerRearm
  <2> SUFFICES ASSUME IInv, NEW a \in Arm PROVE injected[a] <= 2
    BY DEF AtMostTwicePerRearm
  <2>1. injected[a] \in Nat /\ Due(a) <= 2
    BY DEF IInv, TypeOK
  <2> QED
    BY <2>1 DEF Due, One
<1> QED
  BY <1>2, <1>3, InitHolds, PTL DEF Spec
=============================================================================
