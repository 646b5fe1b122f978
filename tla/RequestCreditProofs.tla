------------------------- MODULE RequestCreditProofs -------------------------
(***************************************************************************)
(* Proofs about RequestCredit for any victims, sources, slots, delays,     *)
(* counts and ring size: the shape of the map, the credit balance and the  *)
(* refinement of CreditBank.                                               *)
(***************************************************************************)
EXTENDS RequestCredit, SourceSlotsProofs, SequenceTheorems

\* The inductive core: types, the lock, the event being worked on, and the
\* two invariants that make a debit hit the slot the engine looked at.
Shape ==
  /\ TypeOK
  /\ LockHeld
  /\ Working
  /\ OneSlotPerSource
  /\ NoLostUpdate

\* The event at the head of the ring names an account, and returning from the
\* callback leaves events in the ring.
LEMMA HeadFacts ==
  ASSUME TypeOK, events # <<>>
  PROVE  /\ Current \in Event
         /\ CurrentAccount \in Account
         /\ Current.cgroup \in Cgroup
         /\ Current.source_key \in Source
         /\ Current.slot_index \in Slot
         /\ Tail(events) \in Seq(Event)
<1>1. events \in Seq(Event)
  BY DEF TypeOK
<1>2. Head(events) \in Event /\ Tail(events) \in Seq(Event)
  BY <1>1
<1> QED
  BY <1>2 DEF Current, CurrentAccount, Event, Account

\* Submitting an event keeps the oldest one at the head.
LEMMA SubmitFacts ==
  ASSUME NEW q \in Seq(Event), NEW ev \in Event
  PROVE  /\ Submit(q, ev) \in Seq(Event)
         /\ q # <<>> => Submit(q, ev) # <<>> /\ Head(Submit(q, ev)) = Head(q)
<1>1. CASE Len(q) < RingCapacity
  <2>1. Submit(q, ev) = Append(q, ev)
    BY <1>1 DEF Submit
  <2> QED
    BY <2>1
<1>2. CASE ~ (Len(q) < RingCapacity)
  BY <1>2 DEF Submit
<1> QED
  BY <1>1, <1>2

\* Keys are in the slots alone.
LEMMA SameSlotsWellKeyed ==
  ASSUME NEW c, NEW d, c.slots = d.slots, WellKeyed(c)
  PROVE  WellKeyed(d)
BY DEF WellKeyed

\* A step of the poll thread that leaves the map, the ring and mu_ alone.
LEMMA AtPcFacts ==
  ASSUME NEW pc \in PollPc
  PROVE  /\ AtPc(pc) \in [pc : PollPc, cfg : VictimCfg, delay : Nat]
         /\ AtPc(pc).pc = pc
BY NoCfgFacts DEF AtPc

\* start() leaves an empty map and ring.
LEMMA ShapeInit == Init => Shape
<1> SUFFICES ASSUME Init PROVE Shape
  OBVIOUS
<1>1. AtPc("head") \in [pc : PollPc, cfg : VictimCfg, delay : Nat] /\ AtPc("head").pc = "head"
  BY AtPcFacts DEF PollPc
<1>2. TypeOK
  BY <1>1, NoCfgFacts DEF Init, TypeOK, Free, ZeroCounters, Counters
<1>3. OneSlotPerSource
  BY NoCfgFacts DEF Init, OneSlotPerSource
<1>4. LockHeld /\ Working /\ NoLostUpdate
  BY <1>1 DEF Init, LockHeld, Working, NoLostUpdate, Free
<1> QED
  BY <1>2, <1>3, <1>4 DEF Shape

-----------------------------------------------------------------------------
\* arm() keeps the shape: it runs under mu_, so no copy of the map's element
\* is outstanding.
LEMMA ShapeArm ==
  ASSUME Shape, NEW g \in Cgroup, NEW s \in Source, NEW n \in Count, NEW asked \in Delay,
         Arm(g, s, n, asked)
  PROVE  Shape'
<1> USE DEF Shape
<1>1. n \in Nat /\ asked \in Nat
  BY RequestCreditAssumption
<1>2. PICK i \in SlotForSource(victim_map[g], s), d \in EffectiveDelay(victim_map[g], asked) :
        victim_map' = [victim_map EXCEPT ![g] = ArmedCfg(@, i, s, d, n)]
  BY DEF Arm
<1>3. victim_map[g] \in VictimCfg /\ WellKeyed(victim_map[g])
  BY DEF TypeOK, OneSlotPerSource
<1>4. d \in Nat
  BY <1>1, <1>3, EffectiveDelayIsPositive
<1>5. ArmedCfg(victim_map[g], i, s, d, n) \in VictimCfg
  BY <1>1, <1>3, <1>4, ArmedFacts
<1>6. WellKeyed(ArmedCfg(victim_map[g], i, s, d, n))
  BY <1>1, <1>3, <1>4, ArmedFacts
<1>7. victim_map' \in [Cgroup -> VictimCfg]
  BY <1>2, <1>5 DEF TypeOK
<1>8. sources' \in [Account -> Counters] /\ granted' \in [Account -> Nat]
  <2>1. <<g, s>> \in Account
    BY DEF Account
  <2>2. sources[<<g, s>>] \in Counters /\ granted[<<g, s>>] \in Nat
    BY <2>1 DEF TypeOK
  <2>3. [sources[<<g, s>>] EXCEPT !.armed_total = @ + n] \in Counters
    BY <1>1, <2>2 DEF Counters
  <2>4. sources' = [sources EXCEPT ![<<g, s>>] = [sources[<<g, s>>] EXCEPT !.armed_total = @ + n]]
    BY DEF Arm
  <2>5. granted' = [granted EXCEPT ![<<g, s>>] = granted[<<g, s>>] + n]
    BY DEF Arm
  <2> QED
    BY <1>1, <2>1, <2>2, <2>3, <2>4, <2>5 DEF TypeOK
<1>9. TypeOK'
  BY <1>7, <1>8 DEF TypeOK, Arm
<1>10. OneSlotPerSource'
  BY <1>2, <1>6 DEF OneSlotPerSource, TypeOK
<1>11. LockHeld' /\ Working' /\ NoLostUpdate'
  BY DEF Arm, LockHeld, Working, NoLostUpdate, Free
<1> QED
  BY <1>9, <1>10, <1>11

\* clear() keeps the shape: like arm(), it runs under mu_.
LEMMA ShapeClear ==
  ASSUME Shape, NEW clear_credits \in BOOLEAN, Clear(clear_credits)
  PROVE  Shape'
<1> USE DEF Shape
<1>1. victim_map' \in [Cgroup -> VictimCfg] /\ OneSlotPerSource'
  <2>1. \A g \in Cgroup : victim_map[g] \in VictimCfg /\ WellKeyed(victim_map[g])
    BY DEF TypeOK, OneSlotPerSource
  <2>2. \A g \in Cgroup : ClearedCfg(victim_map[g]) \in VictimCfg
                          /\ WellKeyed(ClearedCfg(victim_map[g]))
    BY <2>1, ClearedFacts
  <2>3. CASE clear_credits
    BY <2>1, <2>2, <2>3 DEF Clear, OneSlotPerSource
  <2>4. CASE ~ clear_credits
    BY <2>4 DEF Clear, OneSlotPerSource, TypeOK
  <2> QED
    BY <2>3, <2>4
<1>2. wiped' \in [Account -> Nat]
  <2>1. \A a \in Account : CreditOf(victim_map[a[1]], a[2]) \in Nat
    BY CreditIsNat DEF TypeOK, Account
  <2>2. \A a \in Account : wiped[a] \in Nat
    BY DEF TypeOK
  <2>3. CASE clear_credits
    BY <2>1, <2>2, <2>3 DEF Clear
  <2>4. CASE ~ clear_credits
    BY <2>4 DEF Clear, TypeOK
  <2> QED
    BY <2>3, <2>4
<1>3. sources' \in [Account -> Counters]
  BY DEF Clear, ZeroCounters, Counters
<1>4. TypeOK'
  BY <1>1, <1>2, <1>3 DEF TypeOK, Clear
<1>5. LockHeld' /\ Working' /\ NoLostUpdate'
  BY DEF Clear, LockHeld, Working, NoLostUpdate, Free
<1> QED
  BY <1>1, <1>4, <1>5

\* Signals and the daemon's main thread; stop() runs after the join.
LEMMA ShapeLife ==
  ASSUME Shape, Signal \/ StopBegin \/ StopEnd
  PROVE  Shape'
<1> USE DEF Shape
<1>1. CASE Signal \/ StopBegin
  BY <1>1 DEF Signal, StopBegin, TypeOK, LockHeld, Working, OneSlotPerSource, NoLostUpdate, Current
<1>2. CASE StopEnd
  <2>1. victim_map' \in [Cgroup -> VictimCfg] /\ OneSlotPerSource'
    BY <1>2, NoCfgFacts DEF StopEnd, OneSlotPerSource
  <2>2. wiped' \in [Account -> Nat]
    <3>1. \A a \in Account : CreditOf(victim_map[a[1]], a[2]) \in Nat
      BY CreditIsNat DEF TypeOK, Account
    <3>2. \A a \in Account : wiped[a] \in Nat
      BY DEF TypeOK
    <3> QED
      BY <1>2, <3>1, <3>2 DEF StopEnd
  <2>3. TypeOK'
    BY <1>2, <2>1, <2>2 DEF TypeOK, StopEnd
  <2>4. LockHeld' /\ Working' /\ NoLostUpdate'
    BY <1>2 DEF StopEnd, LockHeld, Working, NoLostUpdate
  <2> QED
    BY <2>1, <2>3, <2>4
<1> QED
  BY <1>1, <1>2

\* The BPF program writes nothing but rr_cursor and the tail of the ring.
LEMMA ShapeConsumeOnce ==
  ASSUME Shape, NEW g \in Cgroup, ConsumeOnce(g)
  PROVE  Shape'
<1> USE DEF Shape
<1>1. PICK i \in Chosen(victim_map[g]) :
        /\ victim_map' = [victim_map EXCEPT ![g] = AdvancedCfg(@, i)]
        /\ events' = Submit(events, [cgroup |-> g,
                                     source_key |-> victim_map[g].slots[i].source_key,
                                     slot_index |-> i])
  BY DEF ConsumeOnce
<1>2. victim_map[g] \in VictimCfg /\ WellKeyed(victim_map[g])
  BY DEF TypeOK, OneSlotPerSource
<1>3. /\ AdvancedCfg(victim_map[g], i) \in VictimCfg
      /\ AdvancedCfg(victim_map[g], i).slots = victim_map[g].slots
      /\ AdvancedCfg(victim_map[g], i).enabled = victim_map[g].enabled
      /\ i \in Slot
      /\ victim_map[g].slots[i].source_key \in Source
  BY <1>2, AdvancedFacts
<1>4. WellKeyed(AdvancedCfg(victim_map[g], i))
  BY <1>2, <1>3, SameSlotsWellKeyed
<1>5. /\ events' \in Seq(Event)
      /\ events # <<>> => events' # <<>> /\ Current' = Current
  BY <1>1, <1>3, SubmitFacts DEF Event, TypeOK, Current
<1>6. TypeOK'
  BY <1>1, <1>3, <1>5 DEF TypeOK, ConsumeOnce
<1>7. OneSlotPerSource'
  BY <1>1, <1>4 DEF OneSlotPerSource, TypeOK
<1>8. LockHeld' /\ Working'
  BY <1>5 DEF ConsumeOnce, LockHeld, Working
<1>9. NoLostUpdate'
  <2>1. SUFFICES ASSUME poll.pc = "looked"
                 PROVE  /\ poll.cfg.enabled = victim_map'[Current.cgroup].enabled
                        /\ poll.cfg.slots = victim_map'[Current.cgroup].slots
    BY <1>5 DEF NoLostUpdate, Working, ConsumeOnce
  <2>2. Current.cgroup \in Cgroup
    BY <2>1, HeadFacts DEF Working
  <2>3. /\ victim_map'[Current.cgroup].enabled = victim_map[Current.cgroup].enabled
        /\ victim_map'[Current.cgroup].slots = victim_map[Current.cgroup].slots
    BY <1>1, <1>3, <2>2 DEF TypeOK
  <2> QED
    BY <2>1, <2>3 DEF NoLostUpdate
<1> QED
  BY <1>6, <1>7, <1>8, <1>9
-----------------------------------------------------------------------------
\* The steps of the poll thread that touch neither the map nor the ring.
LEMMA ShapePollControl ==
  ASSUME Shape, PollEnter \/ PollReturn \/ PollExit
  PROVE  Shape'
<1> USE DEF Shape
<1>1. PICK pc \in {"batch", "head", "exited"} : poll' = AtPc(pc)
  BY DEF PollEnter, PollReturn, PollExit
<1>2. poll' \in [pc : PollPc, cfg : VictimCfg, delay : Nat] /\ poll'.pc = pc
  BY <1>1, AtPcFacts DEF PollPc
<1>3. /\ poll.pc # "looked"
      /\ UNCHANGED <<life, mu, victim_map, events, sources, granted, injected, wiped>>
  BY DEF PollEnter, PollReturn, PollExit
<1> QED
  BY <1>2, <1>3 DEF TypeOK, LockHeld, Working, OneSlotPerSource, NoLostUpdate

\* An event that is refused is taken off the ring.
LEMMA ShapePollReject ==
  ASSUME Shape, PollReject
  PROVE  Shape'
<1> USE DEF Shape
<1>1. Tail(events) \in Seq(Event)
  BY HeadFacts DEF PollReject
<1> QED
  BY <1>1 DEF PollReject, TypeOK, LockHeld, Working, OneSlotPerSource, NoLostUpdate

\* consume_credit_locked copies the element of the event's victim.
LEMMA ShapePollLookup ==
  ASSUME Shape, PollLookup
  PROVE  Shape'
<1> USE DEF Shape
<1>1. Current.cgroup \in Cgroup
  BY HeadFacts DEF PollLookup
<1>2. /\ poll' \in [pc : PollPc, cfg : VictimCfg, delay : Nat]
      /\ poll'.pc = "looked"
      /\ poll'.cfg = victim_map[Current.cgroup]
  <2>1. AtPc("looked") \in [pc : PollPc, cfg : VictimCfg, delay : Nat]
        /\ AtPc("looked").pc = "looked"
    BY AtPcFacts DEF PollPc
  <2>2. victim_map[Current.cgroup] \in VictimCfg
    BY <1>1 DEF TypeOK
  <2> QED
    BY <2>1, <2>2 DEF PollLookup
<1>3. UNCHANGED <<life, victim_map, events, sources, granted, injected, wiped>>
      /\ mu' = "poll" /\ events # <<>>
  BY DEF PollLookup
<1> QED
  BY <1>2, <1>3 DEF TypeOK, LockHeld, Working, OneSlotPerSource, NoLostUpdate, Current

\* The debit writes back the copy, which is the element but for rr_cursor.
LEMMA ShapePollDebit ==
  ASSUME Shape, PollDebit
  PROVE  Shape'
<1> USE DEF Shape
<1>1. PICK i \in Debitable(poll.cfg) :
        /\ victim_map' = [victim_map EXCEPT ![Current.cgroup] = DebitedCfg(poll.cfg, i)]
        /\ poll' = [AtPc("debited") EXCEPT !.delay = poll.cfg.slots[i].delay_ns]
  BY DEF PollDebit
<1>2. /\ Current.cgroup \in Cgroup
      /\ Current.source_key \in Source
      /\ Current.slot_index \in Slot
  BY HeadFacts DEF PollDebit, Working
<1>3. poll.cfg \in VictimCfg /\ WellKeyed(poll.cfg)
  BY <1>2, SameSlotsWellKeyed DEF TypeOK, OneSlotPerSource, NoLostUpdate, PollDebit
<1>4. /\ i \in DebitSlots(poll.cfg, Current.source_key, Current.slot_index)
      /\ Spendable(poll.cfg, i)
  BY DEF Debitable
<1>5. i \in Slot /\ DebitedCfg(poll.cfg, i) \in VictimCfg /\ WellKeyed(DebitedCfg(poll.cfg, i))
  BY <1>2, <1>3, <1>4, DebitedFacts
<1>6. victim_map' \in [Cgroup -> VictimCfg] /\ OneSlotPerSource'
  BY <1>1, <1>5 DEF TypeOK, OneSlotPerSource
<1>7. poll' \in [pc : PollPc, cfg : VictimCfg, delay : Nat] /\ poll'.pc = "debited"
  <2>1. AtPc("debited") \in [pc : PollPc, cfg : VictimCfg, delay : Nat]
        /\ AtPc("debited").pc = "debited"
    BY AtPcFacts DEF PollPc
  <2>2. poll.cfg.slots[i].delay_ns \in Nat
    BY <1>3, <1>5 DEF VictimCfg, SlotRecord
  <2> QED
    BY <1>1, <2>1, <2>2
<1> QED
  BY <1>6, <1>7 DEF PollDebit, TypeOK, LockHeld, Working, NoLostUpdate, Free

\* Counting changes the counters of one account.
LEMMA CounterUpdate ==
  ASSUME TypeOK, NEW a \in Account, NEW c \in Counters
  PROVE  [sources EXCEPT ![a] = c] \in [Account -> Counters]
BY DEF TypeOK

\* The count of a debit leaves the event in the ring.
LEMMA ShapePollCount ==
  ASSUME Shape, PollCount
  PROVE  Shape'
<1> USE DEF Shape
<1>1. CurrentAccount \in Account
  BY HeadFacts DEF PollCount, Working
<1>2. sources' \in [Account -> Counters]
  <2>1. sources[CurrentAccount] \in Counters
    BY <1>1 DEF TypeOK
  <2>2. [sources[CurrentAccount] EXCEPT !.consume_trigger = @ + 1] \in Counters
    BY <2>1 DEF Counters
  <2> QED
    BY <1>1, <2>2, CounterUpdate DEF PollCount
<1>3. poll' \in [pc : PollPc, cfg : VictimCfg, delay : Nat] /\ poll'.pc = "counted"
  BY DEF PollCount, TypeOK, PollPc
<1> QED
  BY <1>2, <1>3 DEF PollCount, TypeOK, LockHeld, Working, OneSlotPerSource, NoLostUpdate

\* So does the injection, made without mu_.
LEMMA ShapePollInject ==
  ASSUME Shape, NEW outcome \in {"ok", "failed"}, PollInject(outcome)
  PROVE  Shape'
<1> USE DEF Shape
<1>1. CurrentAccount \in Account
  BY HeadFacts DEF PollInject, Working
<1>2. injected' \in [Account -> Nat]
  BY <1>1 DEF PollInject, TypeOK
<1>3. poll' \in [pc : PollPc, cfg : VictimCfg, delay : Nat] /\ poll'.pc = outcome
  BY AtPcFacts DEF PollInject, PollPc
<1> QED
  BY <1>2, <1>3 DEF PollInject, TypeOK, LockHeld, Working, OneSlotPerSource, NoLostUpdate

\* Recording the outcome ends the callback and takes the event off the ring.
LEMMA ShapePollRecord ==
  ASSUME Shape, PollRecord
  PROVE  Shape'
<1> USE DEF Shape
<1>1. CurrentAccount \in Account /\ Tail(events) \in Seq(Event)
  BY HeadFacts DEF PollRecord, Working
<1>2. sources' \in [Account -> Counters]
  <2>1. sources[CurrentAccount] \in Counters
    BY <1>1 DEF TypeOK
  <2>2. /\ [sources[CurrentAccount] EXCEPT !.injected_ok = @ + 1] \in Counters
        /\ [sources[CurrentAccount] EXCEPT !.inject_fail = @ + 1] \in Counters
    BY <2>1 DEF Counters
  <2> QED
    BY <1>1, <2>2, CounterUpdate DEF PollRecord
<1>3. poll' \in [pc : PollPc, cfg : VictimCfg, delay : Nat] /\ poll'.pc = "batch"
  BY AtPcFacts DEF PollRecord, PollPc
<1> QED
  BY <1>1, <1>2, <1>3
     DEF PollRecord, TypeOK, LockHeld, Working, OneSlotPerSource, NoLostUpdate
-----------------------------------------------------------------------------
\* Every step of the engine keeps the shape.
LEMMA ShapeNext == Shape /\ [Next]_vars => Shape'
<1> SUFFICES ASSUME Shape, [Next]_vars PROVE Shape'
  OBVIOUS
<1>1. CASE \E g \in Cgroup, s \in Source, n \in Count, asked \in Delay : Arm(g, s, n, asked)
  BY <1>1, ShapeArm
<1>2. CASE \E clear_credits \in BOOLEAN : Clear(clear_credits)
  BY <1>2, ShapeClear
<1>3. CASE Signal \/ StopBegin \/ StopEnd
  BY <1>3, ShapeLife
<1>4. CASE \E g \in Cgroup : ConsumeOnce(g)
  BY <1>4, ShapeConsumeOnce
<1>5. CASE PollStep
  BY <1>5, ShapePollControl, ShapePollReject, ShapePollLookup, ShapePollDebit, ShapePollCount,
     ShapePollInject, ShapePollRecord DEF PollStep
<1>6. CASE UNCHANGED vars
  BY <1>6 DEF vars, Shape, TypeOK, LockHeld, Working, OneSlotPerSource, NoLostUpdate, Current
<1> QED
  BY <1>1, <1>2, <1>3, <1>4, <1>5, <1>6 DEF Next

\* The shape of the map, the ring and the lock holds in every state: the
\* types, one slot per source (find_slot_for_source), and a copy of the map's
\* element that is current when consume_credit_locked writes it back.
THEOREM ShapeHolds == Safety => []Shape
<1>1. Init => Shape
  BY ShapeInit
<1>2. Shape /\ [Next]_vars => Shape'
  BY ShapeNext
<1> QED
  BY <1>1, <1>2, PTL DEF Safety

\* Every variable keeps its type, whatever the constants.
THEOREM TypeCorrect == Safety => []TypeOK
<1>1. Shape => TypeOK
  BY DEF Shape
<1> QED
  BY <1>1, ShapeHolds, PTL

\* No victim ever has two slots of one source.
THEOREM SourcesKeepOneSlot == Safety => []OneSlotPerSource
<1>1. Shape => OneSlotPerSource
  BY DEF Shape
<1> QED
  BY <1>1, ShapeHolds, PTL

\* The write-back of a debit loses no credit armed or cleared meanwhile.
THEOREM DebitLosesNoUpdate == Safety => []NoLostUpdate
<1>1. Shape => NoLostUpdate
  BY DEF Shape
<1> QED
  BY <1>1, ShapeHolds, PTL
=============================================================================
