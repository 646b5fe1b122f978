-------------------------- MODULE CreditBankProofs --------------------------
(***************************************************************************)
(* RequestCredit implements CreditBank, and therefore no credit is lost,   *)
(* doubled or spent without an injection.  The argument: every credit is   *)
(* in a slot the engine can debit (CreditsAreConsumable), each step of the *)
(* engine is one step of the bank or none (BankStep), and the bank keeps   *)
(* its books balanced (BalanceStep).                                       *)
(***************************************************************************)
EXTENDS RequestCreditProofs

\* An entry nobody has armed has no credits to be passed over.
LEMMA NoCfgConsumable == Consumable(NoCfg)
BY DEF Consumable, NoCfg, BlankSlot

\* arm() gives the slot a key and a positive delay, and enables the victim.
LEMMA ArmedConsumable ==
  ASSUME NEW cfg \in VictimCfg, Consumable(cfg), NEW i \in Slot, NEW s \in Source,
         NEW d \in Nat \ {0}, NEW n \in Nat
  PROVE  Consumable(ArmedCfg(cfg, i, s, d, n))
<1> DEFINE new == ArmedCfg(cfg, i, s, d, n)
<1>1. /\ new.enabled
      /\ new.slots[i].source_key = s
      /\ new.slots[i].delay_ns = d
      /\ \A k \in Slot \ {i} : new.slots[k] = cfg.slots[k]
  BY DEF ArmedCfg, VictimCfg
<1> HIDE DEF new
<1>2. s # NoSource
  BY SlotsAssumption
<1>3. \A k \in Slot : new.slots[k].credits > 0 => Eligible(new, k)
  BY <1>1, <1>2 DEF Consumable, Eligible, Spendable
<1> QED
  BY <1>1, <1>3 DEF Consumable, new

\* A debit takes from a slot that stays as it is otherwise.
LEMMA DebitedConsumable ==
  ASSUME NEW cfg \in VictimCfg, Consumable(cfg), NEW i \in Slot, Spendable(cfg, i)
  PROVE  Consumable(DebitedCfg(cfg, i))
<1> DEFINE new == DebitedCfg(cfg, i)
<1>1. /\ new.enabled = cfg.enabled
      /\ \A k \in Slot \ {i} : new.slots[k] = cfg.slots[k]
      /\ new.slots[i].source_key = cfg.slots[i].source_key
      /\ new.slots[i].delay_ns = cfg.slots[i].delay_ns
  BY DEF DebitedCfg, VictimCfg, SlotRecord
<1> HIDE DEF new
<1>2. cfg.slots[i].credits > 0
  BY DEF Spendable
<1> QED
  BY <1>1, <1>2 DEF Consumable, Eligible, Spendable, new

\* /clear leaves no credits (request_credit.cpp:1003-1012).
LEMMA ClearedConsumable ==
  ASSUME NEW cfg \in VictimCfg
  PROVE  Consumable(ClearedCfg(cfg))
BY DEF Consumable, ClearedCfg

\* Moving rr_cursor makes no credit unreachable.
LEMMA SameSlotsConsumable ==
  ASSUME NEW c, NEW d, c.slots = d.slots, c.enabled = d.enabled, Consumable(c)
  PROVE  Consumable(d)
BY DEF Consumable, Eligible, Spendable

\* A victim that is not enabled has no credits.
LEMMA DisabledHasNoCredit ==
  ASSUME NEW cfg \in VictimCfg, WellKeyed(cfg), Consumable(cfg), ~ cfg.enabled, NEW s \in Source
  PROVE  CreditOf(cfg, s) = 0
<1>1. CASE \A i \in Slot : cfg.slots[i].source_key # s
  BY <1>1, NoCredit
<1>2. CASE \E i \in Slot : cfg.slots[i].source_key = s
  <2>1. PICK i \in Slot : cfg.slots[i].source_key = s
    BY <1>2
  <2>2. cfg.slots[i].credits \in Nat /\ ~ (cfg.slots[i].credits > 0)
    BY DEF Consumable, VictimCfg, SlotRecord
  <2>3. CreditOf(cfg, s) = cfg.slots[i].credits
    BY <2>1, HeldCredit
  <2> QED
    BY <2>2, <2>3
<1> QED
  BY <1>1, <1>2

\* No step strands a credit where consume_once would pass it over.
LEMMA ConsumableNext == Shape /\ CreditsAreConsumable /\ [Next]_vars => CreditsAreConsumable'
<1> SUFFICES ASSUME Shape, CreditsAreConsumable, [Next]_vars PROVE CreditsAreConsumable'
  OBVIOUS
<1>0. \A g \in Cgroup : victim_map[g] \in VictimCfg /\ Consumable(victim_map[g])
  BY DEF Shape, TypeOK, CreditsAreConsumable
<1>1. ASSUME NEW g \in Cgroup, NEW s \in Source, NEW n \in Count, NEW asked \in Delay,
             Arm(g, s, n, asked)
      PROVE  CreditsAreConsumable'
  <2>1. PICK i \in SlotForSource(victim_map[g], s), d \in EffectiveDelay(victim_map[g], asked) :
          victim_map' = [victim_map EXCEPT ![g] = ArmedCfg(@, i, s, d, n)]
    BY <1>1 DEF Arm
  <2>2. n \in Nat /\ asked \in Nat
    BY RequestCreditAssumption
  <2>3. d \in Nat \ {0}
    BY <1>0, <2>2, EffectiveDelayIsPositive
  <2>4. i \in Slot
    BY <1>0, SlotForSourceFacts DEF Shape, OneSlotPerSource
  <2>5. Consumable(ArmedCfg(victim_map[g], i, s, d, n))
    BY <1>0, <2>2, <2>3, <2>4, ArmedConsumable
  <2> QED
    BY <1>0, <2>1, <2>5 DEF CreditsAreConsumable, Shape, TypeOK
<1>2. ASSUME NEW clear_credits \in BOOLEAN, Clear(clear_credits)
      PROVE  CreditsAreConsumable'
  <2>1. \A g \in Cgroup : Consumable(ClearedCfg(victim_map[g]))
    BY <1>0, ClearedConsumable
  <2>2. CASE clear_credits
    BY <1>0, <1>2, <2>1, <2>2 DEF Clear, CreditsAreConsumable
  <2>3. CASE ~ clear_credits
    BY <1>2, <2>3 DEF Clear, CreditsAreConsumable
  <2> QED
    BY <2>2, <2>3
<1>3. CASE StopEnd
  BY <1>3, NoCfgConsumable DEF StopEnd, CreditsAreConsumable
<1>4. ASSUME NEW g \in Cgroup, ConsumeOnce(g)
      PROVE  CreditsAreConsumable'
  <2>1. PICK i \in Chosen(victim_map[g]) :
          victim_map' = [victim_map EXCEPT ![g] = AdvancedCfg(@, i)]
    BY <1>4 DEF ConsumeOnce
  <2>2. Consumable(AdvancedCfg(victim_map[g], i))
    BY <1>0, AdvancedFacts, SameSlotsConsumable
  <2> QED
    BY <1>0, <2>1, <2>2 DEF CreditsAreConsumable, Shape, TypeOK
<1>5. CASE PollDebit
  <2>1. PICK i \in Debitable(poll.cfg) :
          victim_map' = [victim_map EXCEPT ![Current.cgroup] = DebitedCfg(poll.cfg, i)]
    BY <1>5 DEF PollDebit
  <2>2. Current.cgroup \in Cgroup /\ Current.source_key \in Source /\ Current.slot_index \in Slot
    BY <1>5, HeadFacts DEF PollDebit, Shape, Working
  <2>3. poll.cfg \in VictimCfg /\ WellKeyed(poll.cfg) /\ Consumable(poll.cfg)
    BY <1>0, <1>5, <2>2, SameSlotsWellKeyed, SameSlotsConsumable
       DEF Shape, TypeOK, OneSlotPerSource, NoLostUpdate, PollDebit
  <2>4. i \in Slot /\ Spendable(poll.cfg, i)
    BY <2>2, <2>3, DebitedFacts DEF Debitable
  <2>5. Consumable(DebitedCfg(poll.cfg, i))
    BY <2>3, <2>4, DebitedConsumable
  <2> QED
    BY <1>0, <2>1, <2>5 DEF CreditsAreConsumable, Shape, TypeOK
<1>6. CASE UNCHANGED victim_map
  BY <1>6 DEF CreditsAreConsumable
<1> QED
  BY <1>1, <1>2, <1>3, <1>4, <1>5, <1>6
     DEF Next, PollStep, Signal, StopBegin, PollEnter, PollReturn, PollExit, PollReject,
         PollLookup, PollCount, PollInject, PollRecord, vars

\* A slot with credits always has a key, a delay and an enabled victim, so the
\* BPF program can always choose it: arm()'s fallbacks for a missing delay,
\* slot reuse and /clear never strand a credit.
THEOREM CreditsStayConsumable == Safety => []CreditsAreConsumable
<1>1. Init => CreditsAreConsumable
  BY NoCfgConsumable DEF Init, CreditsAreConsumable
<1>2. Shape /\ CreditsAreConsumable /\ [Next]_vars => CreditsAreConsumable'
  BY ConsumableNext
<1> QED
  BY <1>1, <1>2, ShapeHolds, PTL DEF Safety
-----------------------------------------------------------------------------
\* What the refinement rests on: credits are where the poll thread can find
\* them, in one slot per source.
BankInv == Shape /\ CreditsAreConsumable

\* What is owed, is owed on the account of the event at the head of the ring.
LEMMA OwedFacts ==
  ASSUME BankInv
  PROVE  /\ \A a \in Account : Owed(a) \in {0, 1}
         /\ poll.pc \notin Spent => \A a \in Account : Owed(a) = 0
         /\ poll.pc \in Spent =>
              /\ CurrentAccount \in Account
              /\ Owed(CurrentAccount) = 1
              /\ \A a \in Account \ {CurrentAccount} : Owed(a) = 0
BY HeadFacts DEF Owed, BankInv, Shape, Working, Spent

\* A step that leaves the slots alone leaves every balance alone.
LEMMA CreditKept ==
  ASSUME \A g \in Cgroup : victim_map'[g].slots = victim_map[g].slots
  PROVE  \A a \in Account : Credit(a)' = Credit(a)
<1>1. \A a \in Account : a[1] \in Cgroup
  BY DEF Account
<1> QED
  BY <1>1, SameSlotsSameCredit DEF Credit

\* An account is wiped when its victim's slots are: by /clear with
\* clear_credits, and by stop().
LEMMA WipeStep ==
  ASSUME BankInv,
         \A a \in Account : Credit(a)' = 0,
         \A a \in Account : Owed(a)' = Owed(a),
         wiped' = [a \in Account |-> wiped[a] + CreditOf(victim_map[a[1]], a[2])],
         UNCHANGED <<granted, injected>>
  PROVE  Bank!Wipe
<1>1. wiped' = [a \in Account |-> wiped[a] + Credit(a)]
  BY DEF Credit
<1>2. [a \in Account |-> Credit(a)'] = [a \in Account |-> 0]
  OBVIOUS
<1>3. [a \in Account |-> Owed(a)'] = [a \in Account |-> Owed(a)]
  OBVIOUS
<1> QED
  BY <1>1, <1>2, <1>3 DEF Bank!Wipe, Bank!Account, Account

\* A step that moves no credit is no step of the bank.
LEMMA StutterStep ==
  ASSUME \A a \in Account : Credit(a)' = Credit(a) /\ Owed(a)' = Owed(a),
         UNCHANGED <<granted, injected, wiped>>
  PROVE  UNCHANGED Bank!vars
<1>1. [a \in Account |-> Credit(a)'] = [a \in Account |-> Credit(a)]
  OBVIOUS
<1>2. [a \in Account |-> Owed(a)'] = [a \in Account |-> Owed(a)]
  OBVIOUS
<1> QED
  BY <1>1, <1>2 DEF Bank!vars

\* arm() is the bank's grant of its count to the armed source.
LEMMA ArmGrants ==
  ASSUME BankInv, NEW g \in Cgroup, NEW s \in Source, NEW n \in Count, NEW asked \in Delay,
         Arm(g, s, n, asked)
  PROVE  Bank!Grant(<<g, s>>, n)
<1>1. PICK i \in SlotForSource(victim_map[g], s), d \in EffectiveDelay(victim_map[g], asked) :
        victim_map' = [victim_map EXCEPT ![g] = ArmedCfg(@, i, s, d, n)]
  BY DEF Arm
<1>2. victim_map[g] \in VictimCfg /\ WellKeyed(victim_map[g])
  BY DEF BankInv, Shape, TypeOK, OneSlotPerSource
<1>3. n \in Nat /\ asked \in Nat
  BY RequestCreditAssumption
<1>4. d \in Nat
  BY <1>2, <1>3, EffectiveDelayIsPositive
<1>5. victim_map' = [victim_map EXCEPT ![g] = ArmedCfg(victim_map[g], i, s, d, n)]
  BY <1>1
<1>6. /\ victim_map'[g] = ArmedCfg(victim_map[g], i, s, d, n)
      /\ \A h \in Cgroup \ {g} : victim_map'[h] = victim_map[h]
  BY <1>5 DEF BankInv, Shape, TypeOK
<1>7. /\ CreditOf(victim_map'[g], s) = CreditOf(victim_map[g], s) + n
      /\ \A t \in Source \ {s} : CreditOf(victim_map'[g], t) = CreditOf(victim_map[g], t)
  BY <1>2, <1>3, <1>4, <1>6, ArmedFacts
<1>8. /\ <<g, s>> \in Account
      /\ Credit(<<g, s>>)' = Credit(<<g, s>>) + n
      /\ \A a \in Account \ {<<g, s>>} : Credit(a)' = Credit(a)
  BY <1>6, <1>7 DEF Credit, Account
<1>9. \A a \in Account : Owed(a)' = Owed(a)
  BY DEF Arm, Owed, CurrentAccount, Current
<1>10. [a \in Account |-> Credit(a)'] = [[a \in Account |-> Credit(a)] EXCEPT ![<<g, s>>] = @ + n]
  BY <1>8
<1>11. [a \in Account |-> Owed(a)'] = [a \in Account |-> Owed(a)]
  BY <1>9
<1> QED
  BY <1>10, <1>11 DEF Bank!Grant, Arm

\* The write-back of consume_credit_locked is the bank's spending of one credit of
\* the event's account.
LEMMA DebitSpends ==
  ASSUME BankInv, PollDebit
  PROVE  Bank!Spend(CurrentAccount) /\ CurrentAccount \in Account
<1> DEFINE g == Current.cgroup
           s == Current.source_key
<1>1. PICK i \in Debitable(poll.cfg) :
        victim_map' = [victim_map EXCEPT ![g] = DebitedCfg(poll.cfg, i)]
  BY DEF PollDebit
<1>2. /\ g \in Cgroup /\ s \in Source /\ Current.slot_index \in Slot
      /\ CurrentAccount \in Account
  BY HeadFacts DEF PollDebit, BankInv, Shape, Working
<1>3. poll.cfg \in VictimCfg /\ poll.cfg.slots = victim_map[g].slots
  BY DEF BankInv, Shape, TypeOK, NoLostUpdate, PollDebit
<1>4. WellKeyed(poll.cfg) /\ \A t \in Source : CreditOf(poll.cfg, t) = CreditOf(victim_map[g], t)
  BY <1>2, <1>3, SameSlotsWellKeyed, SameSlotsSameCredit DEF BankInv, Shape, OneSlotPerSource
<1>5. /\ CreditOf(poll.cfg, s) > 0
      /\ CreditOf(DebitedCfg(poll.cfg, i), s) = CreditOf(poll.cfg, s) - 1
      /\ \A t \in Source \ {s} : CreditOf(DebitedCfg(poll.cfg, i), t) = CreditOf(poll.cfg, t)
  BY <1>2, <1>3, <1>4, DebitedFacts DEF Debitable
<1>6. /\ victim_map'[g] = DebitedCfg(poll.cfg, i)
      /\ \A h \in Cgroup \ {g} : victim_map'[h] = victim_map[h]
  BY <1>1, <1>2 DEF BankInv, Shape, TypeOK
<1>7. /\ Credit(CurrentAccount) > 0
      /\ Credit(CurrentAccount)' = Credit(CurrentAccount) - 1
      /\ \A a \in Account \ {CurrentAccount} : Credit(a)' = Credit(a)
  <2>1. CurrentAccount = <<g, s>>
    BY DEF CurrentAccount
  <2>2. CurrentAccount' = CurrentAccount
    BY DEF PollDebit, CurrentAccount, Current
  <2>3. Credit(CurrentAccount) = CreditOf(victim_map[g], s)
    BY <2>1 DEF Credit
  <2>4. Credit(CurrentAccount)' = CreditOf(victim_map'[g], s)
    BY <2>1, <2>2 DEF Credit
  <2>5. \A a \in Account \ {CurrentAccount} : Credit(a)' = Credit(a)
    BY <1>2, <1>4, <1>5, <1>6, <2>1 DEF Credit, Account
  <2> QED
    BY <1>2, <1>4, <1>5, <1>6, <2>3, <2>4, <2>5
<1>8. poll'.pc = "debited" /\ events' = events /\ UNCHANGED <<granted, injected, wiped>>
  BY AtPcFacts DEF PollDebit, AtPc
<1>9. \A a \in Account : Owed(a) = 0
  BY OwedFacts DEF PollDebit, Spent
<1>10. \A a \in Account : Owed(a)' = IF a = CurrentAccount THEN 1 ELSE 0
  BY <1>8 DEF Owed, Spent, CurrentAccount, Current
<1>11. [a \in Account |-> Credit(a)'] =
         [[a \in Account |-> Credit(a)] EXCEPT ![CurrentAccount] = @ - 1]
  BY <1>2, <1>7 DEF CurrentAccount, Current, PollDebit
<1>12. [a \in Account |-> Owed(a)'] = [[a \in Account |-> Owed(a)] EXCEPT ![CurrentAccount] = 1]
  BY <1>2, <1>9, <1>10
<1> QED
  BY <1>2, <1>7, <1>8, <1>9, <1>11, <1>12 DEF Bank!Spend, Bank!Account, Account

\* Whatever syscall 449 returns, it is the one injection the spent credit is owed.
LEMMA InjectionSettles ==
  ASSUME BankInv, NEW outcome \in {"ok", "failed"}, PollInject(outcome)
  PROVE  Bank!Inject(CurrentAccount) /\ CurrentAccount \in Account
<1>1. /\ CurrentAccount \in Account
      /\ Owed(CurrentAccount) = 1
      /\ \A a \in Account \ {CurrentAccount} : Owed(a) = 0
  BY OwedFacts DEF PollInject, Spent
<1>2. poll'.pc \notin Spent
  BY DEF PollInject, AtPc, Spent
<1>3. \A a \in Account : Owed(a)' = 0
  BY <1>2 DEF Owed
<1>4. [a \in Account |-> Owed(a)'] = [[a \in Account |-> Owed(a)] EXCEPT ![CurrentAccount] = 0]
  BY <1>1, <1>3
<1>5. \A a \in Account : Credit(a)' = Credit(a)
  BY DEF PollInject, Credit
<1>6. [a \in Account |-> Credit(a)'] = [a \in Account |-> Credit(a)]
  BY <1>5
<1> QED
  BY <1>1, <1>4, <1>6 DEF Bank!Inject, PollInject

\* /clear with clear_credits is the bank's wipe.
LEMMA ClearWipes ==
  ASSUME BankInv, Clear(TRUE)
  PROVE  Bank!Wipe
<1>1. ASSUME NEW a \in Account
      PROVE  Credit(a)' = 0
  <2>1. /\ a[1] \in Cgroup /\ a[2] \in Source
        /\ victim_map[a[1]] \in VictimCfg
        /\ WellKeyed(victim_map[a[1]]) /\ Consumable(victim_map[a[1]])
    BY DEF Account, BankInv, Shape, TypeOK, OneSlotPerSource, CreditsAreConsumable
  <2>2. victim_map'[a[1]] = IF Known(a[1]) THEN ClearedCfg(victim_map[a[1]])
                                          ELSE victim_map[a[1]]
    BY <2>1 DEF Clear
  <2>3. CASE Known(a[1])
    BY <2>1, <2>2, <2>3, ClearedFacts DEF Credit
  <2>4. CASE ~ Known(a[1])
    BY <2>1, <2>2, <2>4, DisabledHasNoCredit DEF Credit, Known
  <2> QED
    BY <2>3, <2>4
<1>2. \A a \in Account : Owed(a)' = Owed(a)
  BY DEF Clear, Owed, CurrentAccount, Current
<1> QED
  BY <1>1, <1>2, WipeStep DEF Clear

\* The end of stop(), which drops the map, is the bank's wipe.
LEMMA StopWipes ==
  ASSUME BankInv, StopEnd
  PROVE  Bank!Wipe
<1>1. \A a \in Account : Credit(a)' = 0
  BY NoCfgFacts DEF StopEnd, Credit, Account
<1>2. \A a \in Account : Owed(a)' = Owed(a)
  BY DEF StopEnd, Owed, Spent
<1> QED
  BY <1>1, <1>2, WipeStep DEF StopEnd

\* Events, however many the BPF program emits for a credit, move no credit.
LEMMA ConsumeOnceStutters ==
  ASSUME BankInv, NEW g \in Cgroup, ConsumeOnce(g)
  PROVE  UNCHANGED Bank!vars
<1>1. PICK i \in Chosen(victim_map[g]) :
        /\ victim_map' = [victim_map EXCEPT ![g] = AdvancedCfg(@, i)]
        /\ events' = Submit(events, [cgroup |-> g,
                                     source_key |-> victim_map[g].slots[i].source_key,
                                     slot_index |-> i])
  BY DEF ConsumeOnce
<1>2. /\ AdvancedCfg(victim_map[g], i).slots = victim_map[g].slots
      /\ i \in Slot /\ victim_map[g].slots[i].source_key \in Source
  BY AdvancedFacts DEF BankInv, Shape, TypeOK
<1>3. \A h \in Cgroup : victim_map'[h].slots = victim_map[h].slots
  BY <1>1, <1>2 DEF BankInv, Shape, TypeOK
<1>4. \A a \in Account : Credit(a)' = Credit(a)
  BY <1>3, CreditKept
<1>5. poll.pc \in Spent => Head(events') = Head(events)
  BY <1>1, <1>2, SubmitFacts DEF BankInv, Shape, TypeOK, Working, Spent, Event
<1>6. \A a \in Account : Owed(a)' = Owed(a)
  BY <1>5 DEF Owed, ConsumeOnce, CurrentAccount, Current
<1> QED
  BY <1>4, <1>6, StutterStep DEF ConsumeOnce

\* Steps that neither touch the map nor end an owed injection.
LEMMA OtherStutters ==
  ASSUME BankInv,
         UNCHANGED <<victim_map, granted, injected, wiped>>,
         \/ UNCHANGED <<poll, events>>
         \/ poll.pc \notin Spent /\ poll'.pc \notin Spent
         \/ poll.pc \in Spent /\ poll'.pc \in Spent /\ UNCHANGED events
  PROVE  UNCHANGED Bank!vars
<1>1. \A a \in Account : Credit(a)' = Credit(a)
  BY DEF Credit
<1>2. \A a \in Account : Owed(a)' = Owed(a)
  BY DEF Owed, CurrentAccount, Current
<1> QED
  BY <1>1, <1>2, StutterStep

\* Every step of the engine is a step of the bank or changes nothing of it.
LEMMA BankStep == BankInv /\ [Next]_vars => [Bank!Next]_(Bank!vars)
<1> SUFFICES ASSUME BankInv, [Next]_vars PROVE [Bank!Next]_(Bank!vars)
  OBVIOUS
<1>1. ASSUME NEW g \in Cgroup, NEW s \in Source, NEW n \in Count, NEW asked \in Delay,
             Arm(g, s, n, asked)
      PROVE  Bank!Next
  BY <1>1, ArmGrants DEF Bank!Next, Bank!Account
<1>2. CASE Clear(TRUE)
  BY <1>2, ClearWipes DEF Bank!Next
<1>3. CASE Clear(FALSE)
  BY <1>3, OtherStutters DEF Clear
<1>4. CASE Signal \/ StopBegin
  BY <1>4, OtherStutters DEF Signal, StopBegin
<1>5. CASE StopEnd
  BY <1>5, StopWipes DEF Bank!Next
<1>6. CASE \E g \in Cgroup : ConsumeOnce(g)
  BY <1>6, ConsumeOnceStutters
<1>7. CASE PollEnter \/ PollReturn \/ PollExit
  BY <1>7, OtherStutters DEF PollEnter, PollReturn, PollExit, AtPc, Spent
<1>8. CASE PollReject
  BY <1>8, OtherStutters DEF PollReject, Spent
<1>9. CASE PollLookup
  BY <1>9, OtherStutters DEF PollLookup, AtPc, Spent
<1>10. CASE PollDebit
  BY <1>10, DebitSpends DEF Bank!Next, Bank!Account, Account
<1>11. CASE PollCount
  <2>1. poll'.pc = "counted" /\ poll.pc = "debited"
    BY <1>11 DEF PollCount, BankInv, Shape, TypeOK
  <2> QED
    BY <1>11, <2>1, OtherStutters DEF PollCount, Spent
<1>12. ASSUME NEW outcome \in {"ok", "failed"}, PollInject(outcome)
       PROVE  Bank!Next
  BY <1>12, InjectionSettles DEF Bank!Next, Bank!Account, Account
<1>13. CASE PollRecord
  BY <1>13, OtherStutters DEF PollRecord, AtPc, Spent
<1>14. CASE UNCHANGED vars
  BY <1>14, OtherStutters DEF vars
<1> QED
  BY <1>1, <1>2, <1>3, <1>4, <1>5, <1>6, <1>7, <1>8, <1>9, <1>10, <1>11, <1>12, <1>13, <1>14
     DEF Next, PollStep

\* The credits start at nothing, with nothing owed.
LEMMA BankInit == Init => Bank!Init
<1> SUFFICES ASSUME Init PROVE Bank!Init
  OBVIOUS
<1>1. [a \in Account |-> Credit(a)] = [a \in Account |-> 0]
  BY NoCfgFacts DEF Init, Credit, Account
<1>2. [a \in Account |-> Owed(a)] = [a \in Account |-> 0]
  BY DEF Init, Owed, AtPc, Spent
<1> QED
  BY <1>1, <1>2 DEF Init, Bank!Init, Bank!Account, Account

\* The invariant the refinement rests on, in every reachable state of the engine.
THEOREM BankInvHolds == Safety => []BankInv
<1>1. Shape /\ CreditsAreConsumable => BankInv
  BY DEF BankInv
<1> QED
  BY <1>1, ShapeHolds, CreditsStayConsumable, PTL

\* The engine, with its slots, its lossy and repetitive event ring, its split
\* critical sections and its shutdown, is a credit bank.
THEOREM EngineIsCreditBank == Safety => ImplementsCreditBank
<1>1. Init => Bank!Init
  BY BankInit
<1>2. BankInv /\ [Next]_vars => [Bank!Next]_(Bank!vars)
  BY BankStep
<1> QED
  BY <1>1, <1>2, BankInvHolds, PTL DEF Safety, ImplementsCreditBank, Bank!Safety
-----------------------------------------------------------------------------
\* A step of the bank keeps its books balanced.
LEMMA BalanceStep ==
  ASSUME BankInv, CreditsBalance, [Bank!Next]_(Bank!vars)
  PROVE  CreditsBalance'
<1>1. ASSUME NEW a \in Account
      PROVE  /\ Credit(a) \in Nat /\ Owed(a) \in Nat
             /\ granted[a] \in Nat /\ injected[a] \in Nat /\ wiped[a] \in Nat
  <2>1. Credit(a) \in Nat
    BY CreditIsNat DEF BankInv, Shape, TypeOK, Credit, Account
  <2>2. Owed(a) \in Nat
    BY DEF Owed
  <2> QED
    BY <2>1, <2>2 DEF BankInv, Shape, TypeOK
<1> DEFINE bal == [a \in Account |-> Credit(a)]
           owe == [a \in Account |-> Owed(a)]
<1>2. /\ \A a \in Account : bal[a] = Credit(a) /\ owe[a] = Owed(a)
      /\ \A a \in Account : bal'[a] = Credit(a)' /\ owe'[a] = Owed(a)'
  OBVIOUS
<1>3. SUFFICES ASSUME NEW a \in Account
               PROVE  granted'[a] = bal'[a] + wiped'[a] + injected'[a] + owe'[a]
  BY <1>2 DEF CreditsBalance
<1>4. granted[a] = bal[a] + wiped[a] + injected[a] + owe[a]
  BY <1>2 DEF CreditsBalance
<1>5. /\ bal[a] \in Nat /\ owe[a] \in Nat
      /\ granted[a] \in Nat /\ injected[a] \in Nat /\ wiped[a] \in Nat
  BY <1>1, <1>2
<1>6. granted \in [Account -> Nat] /\ injected \in [Account -> Nat] /\ wiped \in [Account -> Nat]
      /\ bal = [b \in Account |-> bal[b]] /\ owe = [b \in Account |-> owe[b]]
  BY DEF BankInv, Shape, TypeOK
<1>7. CASE \E b \in Account, n \in Count : Bank!Grant(b, n)
  <2>1. PICK b \in Account, n \in Count : Bank!Grant(b, n)
    BY <1>7
  <2>2. /\ granted' = [granted EXCEPT ![b] = granted[b] + n]
        /\ bal' = [bal EXCEPT ![b] = bal[b] + n]
        /\ owe' = owe /\ injected' = injected /\ wiped' = wiped
    BY <2>1 DEF Bank!Grant
  <2>3. n \in Nat
    BY RequestCreditAssumption
  <2> HIDE DEF bal, owe
  <2> QED
    BY <1>4, <1>5, <1>6, <2>2, <2>3
<1>8. CASE \E b \in Account : Bank!Spend(b)
  <2>1. PICK b \in Account : Bank!Spend(b)
    BY <1>8
  <2>2. /\ bal' = [bal EXCEPT ![b] = bal[b] - 1]
        /\ owe' = [owe EXCEPT ![b] = 1]
        /\ granted' = granted /\ injected' = injected /\ wiped' = wiped
    BY <2>1 DEF Bank!Spend
  <2>3. owe[a] = 0
    BY <2>1 DEF Bank!Spend, Bank!Account, Account
  <2> HIDE DEF bal, owe
  <2>4. CASE a = b
    BY <1>4, <1>5, <1>6, <2>2, <2>3, <2>4
  <2>5. CASE a # b
    BY <1>4, <1>5, <1>6, <2>2, <2>3, <2>5
  <2> QED
    BY <2>4, <2>5
<1>9. CASE \E b \in Account : Bank!Inject(b)
  <2>1. PICK b \in Account : Bank!Inject(b)
    BY <1>9
  <2>2. /\ owe[b] = 1
        /\ owe' = [owe EXCEPT ![b] = 0]
        /\ injected' = [injected EXCEPT ![b] = injected[b] + 1]
        /\ bal' = bal /\ granted' = granted /\ wiped' = wiped
    BY <2>1 DEF Bank!Inject
  <2> HIDE DEF bal, owe
  <2> QED
    BY <1>4, <1>5, <1>6, <2>2
<1>10. CASE Bank!Wipe
  <2>1. /\ wiped' = [b \in Account |-> wiped[b] + bal[b]]
        /\ bal' = [b \in Account |-> 0]
        /\ owe' = owe /\ granted' = granted /\ injected' = injected
    BY <1>10 DEF Bank!Wipe, Bank!Account, Account
  <2> HIDE DEF bal, owe
  <2> QED
    BY <1>4, <1>5, <1>6, <2>1
<1>11. CASE UNCHANGED Bank!vars
  BY <1>4, <1>11 DEF Bank!vars
<1> QED
  BY <1>7, <1>8, <1>9, <1>10, <1>11 DEF Bank!Next, Bank!Account, Account

\* Every credit granted is still there, was wiped, or is spent on exactly one
\* injection: the engine injects neither twice for a credit nor without one.
THEOREM CreditsAlwaysBalance == Safety => []CreditsBalance
<1>1. Init => CreditsBalance
  BY NoCfgFacts DEF Init, CreditsBalance, Credit, Owed, AtPc, Spent, Account
<1>2. BankInv /\ CreditsBalance /\ [Next]_vars => CreditsBalance'
  BY BankStep, BalanceStep
<1> QED
  BY <1>1, <1>2, BankInvHolds, PTL DEF Safety
-----------------------------------------------------------------------------
\* What /status shows of an account: how far its credits cover its misses.
Surplus(a) == Done(a) + Credit(a) + Unrecorded(a) - sources[a].armed_total

Recording == {"counted", "ok", "failed"}

LEMMA StatusTypes ==
  ASSUME TypeOK, NEW a \in Account
  PROVE  /\ sources[a] \in Counters /\ Done(a) \in Nat /\ Credit(a) \in Nat
         /\ Unrecorded(a) \in {0, 1} /\ Counted(a) \in {0, 1}
         /\ sources[a].armed_total \in Nat /\ sources[a].consume_trigger \in Nat
<1>1. sources[a] \in Counters
  BY DEF TypeOK
<1>2. Credit(a) \in Nat
  BY CreditIsNat DEF TypeOK, Credit, Account
<1> QED
  BY <1>1, <1>2 DEF Counters, Done, Unrecorded, Counted

\* A step that changes neither counters nor credits, nor how far the callback is.
LEMMA StatusKept ==
  ASSUME sources' = sources,
         \A a \in Account : Credit(a)' = Credit(a),
         \/ UNCHANGED <<poll, events>>
         \/ poll.pc \notin Recording \cup {"debited"} /\ poll'.pc \notin Recording \cup {"debited"}
         \/ poll.pc \in Recording /\ poll'.pc \in Recording /\ UNCHANGED events
         \/ poll' = poll /\ Current' = Current
  PROVE  \A a \in Account : Skew(a)' = Skew(a) /\ Surplus(a)' = Surplus(a)
<1>1. \A a \in Account : Unrecorded(a)' = Unrecorded(a) /\ Counted(a)' = Counted(a)
  BY DEF Unrecorded, Counted, Recording, CurrentAccount, Current
<1>2. \A a \in Account : Done(a)' = Done(a)
  BY DEF Done
<1> QED
  BY <1>1, <1>2 DEF Skew, Surplus

\* arm() adds to the counter what it adds to the slot.
LEMMA ArmStatus ==
  ASSUME BankInv, NEW g \in Cgroup, NEW s \in Source, NEW n \in Count, NEW asked \in Delay,
         Arm(g, s, n, asked), NEW a \in Account
  PROVE  Skew(a)' = Skew(a) /\ Surplus(a)' = Surplus(a)
<1> DEFINE b == <<g, s>>
           bal == [c \in Account |-> Credit(c)]
<1>1. bal' = [bal EXCEPT ![b] = bal[b] + n] /\ b \in Account
  <2>1. Bank!Grant(b, n)
    BY ArmGrants
  <2>2. b \in Account
    BY DEF Account
  <2> QED
    BY <2>1, <2>2 DEF Bank!Grant
<1>2. Credit(a)' = IF a = b THEN Credit(a) + n ELSE Credit(a)
  <2>1. bal'[a] = Credit(a)' /\ bal[a] = Credit(a)
    OBVIOUS
  <2>2. bal \in [Account -> Nat]
    BY StatusTypes DEF BankInv, Shape
  <2> HIDE DEF bal
  <2> QED
    BY <1>1, <2>1, <2>2
<1>3. n \in Nat
  BY RequestCreditAssumption
<1>4. sources' = [sources EXCEPT ![b] = [sources[b] EXCEPT !.armed_total = sources[b].armed_total + n]]
  BY DEF Arm
<1>5. /\ sources'[a].armed_total = IF a = b THEN sources[a].armed_total + n ELSE sources[a].armed_total
      /\ sources'[a].injected_ok = sources[a].injected_ok
      /\ sources'[a].inject_fail = sources[a].inject_fail
      /\ sources'[a].consume_trigger = sources[a].consume_trigger
  <2>1. sources \in [Account -> Counters]
    BY DEF BankInv, Shape, TypeOK
  <2>2. sources[b] \in Counters
    BY <1>1, <2>1
  <2> QED
    BY <1>1, <1>4, <2>1, <2>2 DEF Counters
<1>6. Unrecorded(a)' = Unrecorded(a) /\ Counted(a)' = Counted(a)
  BY DEF Arm, Unrecorded, Counted, CurrentAccount, Current
<1>7. Done(a)' = Done(a)
  BY <1>5 DEF Done
<1>8. Skew(a)' = Skew(a)
  BY <1>5, <1>6, <1>7 DEF Skew
<1>9. Surplus(a)' = Surplus(a)
  BY <1>2, <1>3, <1>5, <1>6, <1>7, StatusTypes DEF Surplus, BankInv, Shape
<1> QED
  BY <1>8, <1>9

\* A debit moves a credit from the slot to the callback.
LEMMA DebitStatus ==
  ASSUME BankInv, PollDebit, NEW a \in Account
  PROVE  Skew(a)' = Skew(a) /\ Surplus(a)' = Surplus(a)
<1> DEFINE b == CurrentAccount
           bal == [c \in Account |-> Credit(c)]
<1>1. bal' = [bal EXCEPT ![b] = bal[b] - 1] /\ b \in Account
  BY DebitSpends DEF Bank!Spend
<1>2. Credit(a)' = IF a = b THEN Credit(a) - 1 ELSE Credit(a)
  <2>1. bal'[a] = Credit(a)' /\ bal[a] = Credit(a)
    OBVIOUS
  <2>2. bal \in [Account -> Nat]
    BY StatusTypes DEF BankInv, Shape
  <2> HIDE DEF bal
  <2> QED
    BY <1>1, <2>1, <2>2
<1>3. poll.pc = "looked" /\ poll'.pc = "debited" /\ events' = events /\ sources' = sources
  BY AtPcFacts DEF PollDebit, AtPc
<1>4. /\ Unrecorded(a) = 0 /\ Unrecorded(a)' = IF a = b THEN 1 ELSE 0
      /\ Counted(a) = 0 /\ Counted(a)' = 0
  BY <1>3 DEF Unrecorded, Counted, CurrentAccount, Current
<1>5. Done(a)' = Done(a)
  BY <1>3 DEF Done
<1>6. Skew(a)' = Skew(a)
  BY <1>3, <1>4, <1>5 DEF Skew
<1>7. Surplus(a)' = Surplus(a)
  <2>1. Done(a) \in Nat /\ Credit(a) \in Nat /\ sources[a].armed_total \in Nat
    BY StatusTypes DEF BankInv, Shape
  <2>2. sources'[a].armed_total = sources[a].armed_total
    BY <1>3
  <2> QED
    BY <1>2, <1>4, <1>5, <2>1, <2>2 DEF Surplus
<1> QED
  BY <1>6, <1>7

\* The counting of a trigger, and the recording of its outcome.
LEMMA RecordStatus ==
  ASSUME BankInv, PollCount \/ PollRecord, NEW a \in Account
  PROVE  Skew(a)' = Skew(a) /\ Surplus(a)' = Surplus(a)
<1> DEFINE b == CurrentAccount
<1>1. b \in Account
  BY HeadFacts DEF PollCount, PollRecord, BankInv, Shape, Working
<1>2. sources \in [Account -> Counters] /\ sources[a] \in Counters /\ sources[b] \in Counters
  BY <1>1 DEF BankInv, Shape, TypeOK
<1>3. Credit(a)' = Credit(a) /\ Credit(a) \in Nat /\ Done(a) \in Nat
  BY StatusTypes DEF Credit, PollCount, PollRecord, BankInv, Shape
<1>4. CASE PollCount
  <2>1. /\ poll.pc = "debited" /\ poll'.pc = "counted" /\ events' = events
    BY <1>4 DEF PollCount, BankInv, Shape, TypeOK
  <2>2. sources' = [sources EXCEPT ![b] =
                      [sources[b] EXCEPT !.consume_trigger = sources[b].consume_trigger + 1]]
    BY <1>4 DEF PollCount
  <2>3. /\ sources'[a].armed_total = sources[a].armed_total
        /\ sources'[a].injected_ok = sources[a].injected_ok
        /\ sources'[a].inject_fail = sources[a].inject_fail
        /\ sources'[a].consume_trigger =
             IF a = b THEN sources[a].consume_trigger + 1 ELSE sources[a].consume_trigger
    BY <1>1, <1>2, <2>2 DEF Counters
  <2>4. /\ Unrecorded(a)' = Unrecorded(a)
        /\ Counted(a) = 0 /\ Counted(a)' = IF a = b THEN 1 ELSE 0
    BY <2>1 DEF Unrecorded, Counted, CurrentAccount, Current
  <2>5. Done(a)' = Done(a)
    BY <2>3 DEF Done
  <2>6. sources[a].consume_trigger \in Nat
    BY <1>2 DEF Counters
  <2>7. Skew(a)' = Skew(a)
    BY <1>3, <2>3, <2>4, <2>5, <2>6 DEF Skew
  <2>8. Surplus(a)' = Surplus(a)
    BY <1>3, <2>3, <2>4, <2>5 DEF Surplus
  <2> QED
    BY <2>7, <2>8
<1>5. CASE PollRecord
  <2>1. poll.pc \in {"ok", "failed"} /\ poll'.pc = "batch"
    BY <1>5 DEF PollRecord, AtPc
  <2>2. \/ sources' = [sources EXCEPT ![b] =
                         [sources[b] EXCEPT !.injected_ok = sources[b].injected_ok + 1]]
        \/ sources' = [sources EXCEPT ![b] =
                         [sources[b] EXCEPT !.inject_fail = sources[b].inject_fail + 1]]
    BY <1>5 DEF PollRecord
  <2>3. /\ sources'[a].armed_total = sources[a].armed_total
        /\ sources'[a].consume_trigger = sources[a].consume_trigger
        /\ a # b => /\ sources'[a].injected_ok = sources[a].injected_ok
                    /\ sources'[a].inject_fail = sources[a].inject_fail
        /\ a = b => \/ /\ sources'[a].injected_ok = sources[a].injected_ok + 1
                       /\ sources'[a].inject_fail = sources[a].inject_fail
                    \/ /\ sources'[a].injected_ok = sources[a].injected_ok
                       /\ sources'[a].inject_fail = sources[a].inject_fail + 1
    BY <1>1, <1>2, <2>2 DEF Counters
  <2>4. /\ Unrecorded(a) = IF a = b THEN 1 ELSE 0
        /\ Counted(a) = IF a = b THEN 1 ELSE 0
        /\ Unrecorded(a)' = 0 /\ Counted(a)' = 0
    BY <2>1 DEF Unrecorded, Counted
  <2>5. /\ sources[a].consume_trigger \in Nat /\ sources[a].armed_total \in Nat
        /\ sources[a].injected_ok \in Nat /\ sources[a].inject_fail \in Nat
    BY <1>2 DEF Counters
  <2>6. Done(a)' = IF a = b THEN Done(a) + 1 ELSE Done(a)
    BY <2>3, <2>5 DEF Done
  <2>7. Skew(a)' = Skew(a)
    BY <1>3, <2>3, <2>4, <2>5, <2>6 DEF Skew
  <2>8. Surplus(a)' = Surplus(a)
    BY <1>3, <2>3, <2>4, <2>5, <2>6 DEF Surplus
  <2> QED
    BY <2>7, <2>8
<1> QED
  BY <1>4, <1>5

\* Only /clear changes what /status shows other than in step.
LEMMA StatusStep ==
  ASSUME BankInv, [Next]_vars
  PROVE  \/ \E clear_credits \in BOOLEAN : Clear(clear_credits)
         \/ /\ \A a \in Account : Skew(a)' = Skew(a)
            /\ life' # "stopped" =>
                 life # "stopped" /\ \A a \in Account : Surplus(a)' = Surplus(a)
<1>0. \A a \in Account : victim_map' = victim_map => Credit(a)' = Credit(a)
  BY DEF Credit
<1>1. ASSUME NEW g \in Cgroup, NEW s \in Source, NEW n \in Count, NEW asked \in Delay,
             Arm(g, s, n, asked)
      PROVE  life' = life /\ \A a \in Account : Skew(a)' = Skew(a) /\ Surplus(a)' = Surplus(a)
  BY <1>1, ArmStatus DEF Arm
<1>2. CASE Signal \/ StopBegin
  <2>1. UNCHANGED <<poll, events>> /\ sources' = sources /\ victim_map' = victim_map
        /\ life # "stopped"
    BY <1>2 DEF Signal, StopBegin
  <2> QED
    BY <1>0, <2>1, StatusKept
<1>3. CASE StopEnd
  <2>1. sources' = sources /\ poll' = poll /\ poll.pc = "exited" /\ life' = "stopped"
    BY <1>3 DEF StopEnd
  <2>2. \A a \in Account : Skew(a)' = Skew(a)
    BY <2>1 DEF Skew, Done, Counted
  <2> QED
    BY <2>1, <2>2
<1>4. ASSUME NEW g \in Cgroup, ConsumeOnce(g)
      PROVE  life' = life /\ \A a \in Account : Skew(a)' = Skew(a) /\ Surplus(a)' = Surplus(a)
  <2>1. PICK i \in Chosen(victim_map[g]) :
          /\ victim_map' = [victim_map EXCEPT ![g] = AdvancedCfg(@, i)]
          /\ events' = Submit(events, [cgroup |-> g,
                                       source_key |-> victim_map[g].slots[i].source_key,
                                       slot_index |-> i])
    BY <1>4 DEF ConsumeOnce
  <2>2. /\ AdvancedCfg(victim_map[g], i).slots = victim_map[g].slots
        /\ i \in Slot /\ victim_map[g].slots[i].source_key \in Source
    BY AdvancedFacts DEF BankInv, Shape, TypeOK
  <2>3. \A a \in Account : Credit(a)' = Credit(a)
    BY <2>1, <2>2, CreditKept DEF BankInv, Shape, TypeOK
  <2>4. \/ poll.pc \notin Recording \cup {"debited"}
        \/ Current' = Current
    BY <2>1, <2>2, SubmitFacts DEF BankInv, Shape, TypeOK, Working, Event, Recording, Current
  <2>5. poll' = poll /\ sources' = sources /\ life' = life
    BY <1>4 DEF ConsumeOnce
  <2> QED
    BY <2>3, <2>4, <2>5, StatusKept
<1>5. CASE PollEnter \/ PollReturn \/ PollExit \/ PollReject \/ PollLookup
  <2>1. /\ sources' = sources /\ victim_map' = victim_map /\ life' = life
        /\ poll.pc \notin Recording \cup {"debited"} /\ poll'.pc \notin Recording \cup {"debited"}
    BY <1>5 DEF PollEnter, PollReturn, PollExit, PollReject, PollLookup, AtPc, Recording
  <2> QED
    BY <1>0, <2>1, StatusKept
<1>6. CASE PollDebit
  BY <1>6, DebitStatus DEF PollDebit
<1>7. CASE PollCount \/ PollRecord
  BY <1>7, RecordStatus DEF PollCount, PollRecord
<1>8. ASSUME NEW outcome \in {"ok", "failed"}, PollInject(outcome)
      PROVE  life' = life /\ \A a \in Account : Skew(a)' = Skew(a) /\ Surplus(a)' = Surplus(a)
  <2>1. /\ sources' = sources /\ victim_map' = victim_map /\ life' = life /\ events' = events
        /\ poll.pc \in Recording /\ poll'.pc \in Recording
    BY <1>8 DEF PollInject, AtPc, Recording
  <2> QED
    BY <1>0, <2>1, StatusKept
<1>9. CASE UNCHANGED vars
  <2>1. /\ sources' = sources /\ victim_map' = victim_map /\ life' = life
        /\ UNCHANGED <<poll, events>>
    BY <1>9 DEF vars
  <2> QED
    BY <1>0, <2>1, StatusKept
<1> QED
  BY <1>1, <1>2, <1>3, <1>4, <1>5, <1>6, <1>7, <1>8, <1>9 DEF Next, PollStep

\* A /clear leaves at most the skew of the callback it interrupts.
LEMMA ClearStatus ==
  ASSUME BankInv, NEW clear_credits \in BOOLEAN, Clear(clear_credits)
  PROVE  CountersSkewAtMostOne' /\ MissIsCovered'
<1>1. TypeOK'
  BY ShapeClear DEF BankInv, Shape
<1>2. \A a \in Account : sources'[a] = ZeroCounters
  BY DEF Clear
<1>3. \A a \in Account : Done(a)' = 0 /\ Skew(a)' = Counted(a)'
  <2> TAKE a \in Account
  <2>1. sources'[a] = ZeroCounters
    BY <1>2
  <2>2. Done(a)' = 0
    BY <2>1 DEF Done, ZeroCounters
  <2>3. Counted(a)' \in {0, 1}
    BY DEF Counted
  <2> QED
    BY <2>1, <2>2, <2>3 DEF Skew, ZeroCounters
<1>4. \A a \in Account : Counted(a)' \in {0, 1} /\ (Counted(a)' = 1 => a = CurrentAccount')
  BY DEF Counted
<1>5. CountersSkewAtMostOne'
  BY <1>3, <1>4 DEF CountersSkewAtMostOne
<1>6. ASSUME NEW a \in Account
      PROVE  sources'[a].armed_total <= Done(a)' + Credit(a)' + Unrecorded(a)'
  <2>1. sources'[a].armed_total = 0
    BY <1>2 DEF ZeroCounters
  <2>2. Credit(a)' \in Nat
    BY <1>1, CreditIsNat DEF TypeOK, Credit, Account
  <2>3. Unrecorded(a)' \in {0, 1}
    BY DEF Unrecorded
  <2> QED
    BY <1>3, <2>1, <2>2, <2>3
<1> QED
  BY <1>5, <1>6 DEF MissIsCovered

LEMMA StatusInit == Init => CountersSkewAtMostOne /\ MissIsCovered
<1> SUFFICES ASSUME Init PROVE CountersSkewAtMostOne /\ MissIsCovered
  OBVIOUS
<1>1. \A a \in Account : /\ Done(a) = 0 /\ Counted(a) = 0 /\ Unrecorded(a) = 0
                         /\ sources[a].armed_total = 0 /\ sources[a].consume_trigger = 0
  BY DEF Init, Done, Counted, Unrecorded, ZeroCounters, AtPc
<1>2. \A a \in Account : Credit(a) = 0
  BY NoCfgFacts DEF Init, Credit, Account
<1> QED
  BY <1>1, <1>2 DEF CountersSkewAtMostOne, MissIsCovered, Skew

LEMMA StatusNext ==
  BankInv /\ BankInv' /\ CountersSkewAtMostOne /\ MissIsCovered /\ [Next]_vars
    => CountersSkewAtMostOne' /\ MissIsCovered'
<1> SUFFICES ASSUME BankInv, BankInv', CountersSkewAtMostOne, MissIsCovered, [Next]_vars
             PROVE  CountersSkewAtMostOne' /\ MissIsCovered'
  OBVIOUS
<1>1. CASE \E clear_credits \in BOOLEAN : Clear(clear_credits)
  BY <1>1, ClearStatus
<1>2. CASE /\ \A a \in Account : Skew(a)' = Skew(a)
           /\ life' # "stopped" =>
                life # "stopped" /\ \A a \in Account : Surplus(a)' = Surplus(a)
  <2>1. CountersSkewAtMostOne'
    BY <1>2 DEF CountersSkewAtMostOne
  <2>2. ASSUME life' # "stopped", NEW a \in Account
        PROVE  sources'[a].armed_total <= Done(a)' + Credit(a)' + Unrecorded(a)'
    <3>1. sources[a].armed_total <= Done(a) + Credit(a) + Unrecorded(a)
          /\ Surplus(a)' = Surplus(a)
      BY <1>2, <2>2 DEF MissIsCovered
    <3>2. /\ Done(a) \in Nat /\ Credit(a) \in Nat /\ Unrecorded(a) \in {0, 1}
          /\ sources[a].armed_total \in Nat
      BY StatusTypes DEF BankInv, Shape
    <3>3. /\ Done(a)' \in Nat /\ Credit(a)' \in Nat /\ Unrecorded(a)' \in {0, 1}
          /\ sources'[a].armed_total \in Nat
      <4>1. TypeOK'
        BY DEF BankInv, Shape
      <4>2. sources'[a] \in Counters
        BY <4>1 DEF TypeOK
      <4>3. Credit(a)' \in Nat
        BY <4>1, CreditIsNat DEF TypeOK, Credit, Account
      <4> QED
        BY <4>2, <4>3 DEF Counters, Done, Unrecorded
    <3> QED
      BY <3>1, <3>2, <3>3 DEF Surplus
  <2> QED
    BY <2>1, <2>2 DEF MissIsCovered
<1> QED
  BY <1>1, <1>2, StatusStep

\* However /clear falls between the critical sections of on_ring_event, the
\* counters of all accounts together are off by one at most.
THEOREM CountersStayInStep == Safety => []CountersSkewAtMostOne
<1>1. BankInv /\ BankInv' /\ CountersSkewAtMostOne /\ MissIsCovered /\ [Next]_vars
        => CountersSkewAtMostOne' /\ MissIsCovered'
  BY StatusNext
<1> QED
  BY <1>1, StatusInit, BankInvHolds, PTL DEF Safety

\* Every miss that /status shows has a credit, or a callback, that covers it.
THEOREM MissesAreCovered == Safety => []MissIsCovered
<1>1. BankInv /\ BankInv' /\ CountersSkewAtMostOne /\ MissIsCovered /\ [Next]_vars
        => CountersSkewAtMostOne' /\ MissIsCovered'
  BY StatusNext
<1> QED
  BY <1>1, StatusInit, BankInvHolds, PTL DEF Safety
=============================================================================
