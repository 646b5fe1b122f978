-------------------------- MODULE SourceSlotsProofs --------------------------
(***************************************************************************)
(* Facts about the slots of one victim: what arming, debiting, clearing and *)
(* choosing a slot do to the credits of every source, for any number of    *)
(* slots and sources.                                                      *)
(***************************************************************************)
EXTENDS SourceSlots, TLAPS

\* The credits of a source are those of the slot keyed by it, whichever slot
\* find_exact_slot meets.
LEMMA HeldCredit ==
  ASSUME NEW cfg \in VictimCfg, WellKeyed(cfg), NEW i \in Slot,
         NEW s \in Source, cfg.slots[i].source_key = s
  PROVE  CreditOf(cfg, s) = cfg.slots[i].credits
<1> DEFINE j == CHOOSE k \in Slot : cfg.slots[k].source_key = s
<1>1. j \in Slot /\ cfg.slots[j].source_key = s
  OBVIOUS
<1>2. s # NoSource
  BY SlotsAssumption
<1>3. i = j
  BY <1>1, <1>2 DEF WellKeyed
<1> QED
  BY <1>1, <1>3 DEF CreditOf

\* A source without a slot has no credits.
LEMMA NoCredit ==
  ASSUME NEW cfg, NEW s, \A i \in Slot : cfg.slots[i].source_key # s
  PROVE  CreditOf(cfg, s) = 0
BY DEF CreditOf

\* Credits depend on the slots alone, not on rr_cursor or enabled.
LEMMA SameSlotsSameCredit ==
  ASSUME NEW c, NEW d, c.slots = d.slots, NEW s
  PROVE  CreditOf(c, s) = CreditOf(d, s)
BY DEF CreditOf

\* A source's credits are a number, whether it has a slot or not.
LEMMA CreditIsNat ==
  ASSUME NEW cfg \in VictimCfg, NEW s
  PROVE  CreditOf(cfg, s) \in Nat
<1>1. CASE \E i \in Slot : cfg.slots[i].source_key = s
  <2>1. PICK j \in Slot : j = CHOOSE i \in Slot : cfg.slots[i].source_key = s
    BY <1>1
  <2> QED
    BY <1>1, <2>1 DEF CreditOf, VictimCfg, SlotRecord
<1>2. CASE ~ \E i \in Slot : cfg.slots[i].source_key = s
  BY <1>2 DEF CreditOf
<1> QED
  BY <1>1, <1>2

\* A victim nobody armed has no credits and breaks no rule.
LEMMA NoCfgFacts ==
  /\ NoCfg \in VictimCfg
  /\ WellKeyed(NoCfg)
  /\ \A s \in Source : CreditOf(NoCfg, s) = 0
<1>1. 0 \in Slot
  BY SlotsAssumption DEF Slot
<1>2. NoCfg \in VictimCfg
  BY <1>1 DEF NoCfg, VictimCfg, SlotRecord, BlankSlot
<1>3. WellKeyed(NoCfg)
  BY DEF WellKeyed, NoCfg, BlankSlot
<1>4. \A s \in Source : CreditOf(NoCfg, s) = 0
  BY SlotsAssumption DEF CreditOf, NoCfg, BlankSlot
<1> QED
  BY <1>2, <1>3, <1>4

\* find_slot_for_source returns the source's slot, or a slot without credits
\* when the source has none.
LEMMA SlotForSourceFacts ==
  ASSUME NEW cfg \in VictimCfg, WellKeyed(cfg), NEW s \in Source,
         NEW i \in SlotForSource(cfg, s)
  PROVE  /\ i \in Slot
         /\ \/ cfg.slots[i].source_key = s
            \/ /\ cfg.slots[i].credits = 0
               /\ \A k \in Slot : cfg.slots[k].source_key # s
<1>1. CASE ExactSlots(cfg, s) # {}
  BY <1>1 DEF SlotForSource, First, ExactSlots
<1>2. CASE ExactSlots(cfg, s) = {}
  <2>1. i \in FreeSlots(cfg)
    BY <1>2 DEF SlotForSource, First
  <2>2. i \in Slot
    BY <2>1 DEF FreeSlots, BlankSlots, IdleSlots, UnkeyedSlots
  <2>3. cfg.slots[i].credits = 0
    BY <2>1, <2>2 DEF FreeSlots, BlankSlots, IdleSlots, UnkeyedSlots, WellKeyed, BlankSlot
  <2> QED
    BY <1>2, <2>2, <2>3 DEF ExactSlots
<1> QED
  BY <1>1, <1>2

\* The delay arm() applies is positive, whatever was asked and found.
LEMMA EffectiveDelayIsPositive ==
  ASSUME NEW cfg \in VictimCfg, NEW asked \in Nat, NEW d \in EffectiveDelay(cfg, asked)
  PROVE  d \in Nat \ {0}
<1>1. LargestDelay(cfg) \subseteq Nat
  BY DEF LargestDelay, VictimCfg, SlotRecord
<1> QED
  BY <1>1, SlotsAssumption DEF EffectiveDelay

\* arm(): n more credits for s, none for and none from any other source.
LEMMA ArmedFacts ==
  ASSUME NEW cfg \in VictimCfg, WellKeyed(cfg), NEW s \in Source,
         NEW i \in SlotForSource(cfg, s), NEW d \in Nat, NEW n \in Nat
  PROVE  LET new == ArmedCfg(cfg, i, s, d, n) IN
         /\ new \in VictimCfg
         /\ WellKeyed(new)
         /\ CreditOf(new, s) = CreditOf(cfg, s) + n
         /\ \A t \in Source \ {s} : CreditOf(new, t) = CreditOf(cfg, t)
<1> DEFINE new == ArmedCfg(cfg, i, s, d, n)
<1>1. /\ i \in Slot
      /\ \/ cfg.slots[i].source_key = s
         \/ /\ cfg.slots[i].credits = 0
            /\ \A k \in Slot : cfg.slots[k].source_key # s
  BY SlotForSourceFacts
<1>2. s # NoSource
  BY SlotsAssumption
<1>3. new \in VictimCfg
  <2> DEFINE slot == [source_key |-> s, delay_ns |-> d, credits |-> cfg.slots[i].credits + n]
  <2>1. slot \in SlotRecord
    BY <1>1 DEF VictimCfg, SlotRecord
  <2>2. cfg.slots \in [Slot -> SlotRecord]
    BY DEF VictimCfg
  <2>3. [cfg.slots EXCEPT ![i] = slot] \in [Slot -> SlotRecord]
    BY <1>1, <2>1, <2>2
  <2> QED
    BY <1>1, <2>3 DEF ArmedCfg, VictimCfg
<1>4. /\ new.slots[i] = [source_key |-> s, delay_ns |-> d, credits |-> cfg.slots[i].credits + n]
      /\ \A k \in Slot \ {i} : new.slots[k] = cfg.slots[k]
  BY <1>1 DEF ArmedCfg, VictimCfg
<1>5. WellKeyed(new)
  BY <1>1, <1>2, <1>4 DEF WellKeyed
<1>6. cfg.slots[i].credits \in Nat
  BY <1>1 DEF VictimCfg, SlotRecord
<1>7. CreditOf(new, s) = CreditOf(cfg, s) + n
  <2>1. CreditOf(new, s) = cfg.slots[i].credits + n
    BY <1>1, <1>3, <1>4, <1>5, HeldCredit
  <2>2. CreditOf(cfg, s) = cfg.slots[i].credits
    BY <1>1, HeldCredit, NoCredit
  <2> QED
    BY <2>1, <2>2
<1>8. ASSUME NEW t \in Source \ {s}
      PROVE  CreditOf(new, t) = CreditOf(cfg, t)
  <2>1. CASE \E k \in Slot \ {i} : cfg.slots[k].source_key = t
    BY <1>3, <1>4, <1>5, <2>1, HeldCredit
  <2>2. CASE \A k \in Slot \ {i} : cfg.slots[k].source_key # t
    <3>1. CreditOf(new, t) = 0
      BY <1>1, <1>4, <2>2, NoCredit
    <3>2. CreditOf(cfg, t) = 0
      BY <1>1, <2>2, HeldCredit, NoCredit
    <3> QED
      BY <3>1, <3>2
  <2> QED
    BY <2>1, <2>2
<1> QED
  BY <1>3, <1>5, <1>7, <1>8

\* consume_credit_locked: one credit less for the event's source, which had
\* one, and no other source touched.
LEMMA DebitedFacts ==
  ASSUME NEW cfg \in VictimCfg, WellKeyed(cfg), NEW s \in Source, NEW hint \in Slot,
         NEW i \in DebitSlots(cfg, s, hint), Spendable(cfg, i)
  PROVE  LET new == DebitedCfg(cfg, i) IN
         /\ i \in Slot
         /\ cfg.slots[i].source_key = s
         /\ new \in VictimCfg
         /\ WellKeyed(new)
         /\ CreditOf(cfg, s) > 0
         /\ CreditOf(new, s) = CreditOf(cfg, s) - 1
         /\ \A t \in Source \ {s} : CreditOf(new, t) = CreditOf(cfg, t)
<1> DEFINE new == DebitedCfg(cfg, i)
<1>1. i \in Slot /\ cfg.slots[i].source_key = s
  BY DEF DebitSlots, First, ExactSlots
<1>2. cfg.slots[i].credits \in Nat /\ cfg.slots[i].credits > 0
  BY <1>1 DEF Spendable, VictimCfg, SlotRecord
<1>3. new \in VictimCfg
  BY <1>1, <1>2 DEF DebitedCfg, VictimCfg, SlotRecord
<1>4. /\ new.slots[i] = [cfg.slots[i] EXCEPT !.credits = @ - 1]
      /\ \A k \in Slot \ {i} : new.slots[k] = cfg.slots[k]
  BY <1>1 DEF DebitedCfg, VictimCfg
<1>5. \A k \in Slot : new.slots[k].source_key = cfg.slots[k].source_key
  BY <1>4 DEF VictimCfg, SlotRecord
<1>6. WellKeyed(new)
  BY <1>1, <1>4, <1>5, SlotsAssumption DEF WellKeyed
<1>7. CreditOf(cfg, s) = cfg.slots[i].credits
  BY <1>1, HeldCredit
<1>8. CreditOf(new, s) = cfg.slots[i].credits - 1
  <2>1. new.slots[i].credits = cfg.slots[i].credits - 1
    BY <1>1, <1>4 DEF VictimCfg, SlotRecord
  <2> QED
    BY <1>1, <1>3, <1>5, <1>6, <2>1, HeldCredit
<1>9. ASSUME NEW t \in Source \ {s}
      PROVE  CreditOf(new, t) = CreditOf(cfg, t)
  <2>1. CASE \E k \in Slot \ {i} : cfg.slots[k].source_key = t
    BY <1>3, <1>4, <1>6, <2>1, HeldCredit
  <2>2. CASE \A k \in Slot \ {i} : cfg.slots[k].source_key # t
    BY <1>1, <1>5, <2>2, NoCredit
  <2> QED
    BY <2>1, <2>2
<1> QED
  BY <1>1, <1>2, <1>3, <1>6, <1>7, <1>8, <1>9

\* clear(true): every key stays and no source has credits.
LEMMA ClearedFacts ==
  ASSUME NEW cfg \in VictimCfg, WellKeyed(cfg)
  PROVE  LET new == ClearedCfg(cfg) IN
         /\ new \in VictimCfg
         /\ WellKeyed(new)
         /\ \A s \in Source : CreditOf(new, s) = 0
<1> DEFINE new == ClearedCfg(cfg)
<1>1. 0 \in Slot
  BY SlotsAssumption DEF Slot
<1>2. new \in VictimCfg
  BY <1>1 DEF ClearedCfg, VictimCfg, SlotRecord
<1>3. \A k \in Slot :
        /\ new.slots[k].source_key = cfg.slots[k].source_key
        /\ new.slots[k].credits = 0
        /\ cfg.slots[k].source_key = NoSource => new.slots[k] = BlankSlot
  BY DEF ClearedCfg, BlankSlot
<1> HIDE DEF new
<1>4. WellKeyed(new)
  <2>1. \A i, j \in Slot :
          cfg.slots[i].source_key = cfg.slots[j].source_key /\ cfg.slots[i].source_key # NoSource
            => i = j
    BY DEF WellKeyed
  <2> QED
    BY <1>3, <2>1 DEF WellKeyed
<1>5. ASSUME NEW s \in Source
      PROVE  CreditOf(new, s) = 0
  <2>1. CASE \E k \in Slot : new.slots[k].source_key = s
    <3>1. PICK k \in Slot : new.slots[k].source_key = s
      BY <2>1
    <3>2. CreditOf(new, s) = new.slots[k].credits
      BY <1>2, <1>4, <3>1, HeldCredit
    <3>3. new.slots[k].credits = 0
      BY <1>3
    <3> QED
      BY <3>2, <3>3
  <2>2. CASE \A k \in Slot : new.slots[k].source_key # s
    BY <2>2, NoCredit
  <2> QED
    BY <2>1, <2>2
<1> QED
  BY <1>2, <1>4, <1>5 DEF new

\* The slot consume_once chooses is a slot, and moving the cursor past it
\* leaves the slots alone.
LEMMA AdvancedFacts ==
  ASSUME NEW cfg \in VictimCfg, NEW i \in Chosen(cfg)
  PROVE  /\ i \in Slot
         /\ cfg.slots[i].source_key \in Source
         /\ AdvancedCfg(cfg, i) \in VictimCfg
         /\ AdvancedCfg(cfg, i).slots = cfg.slots
         /\ AdvancedCfg(cfg, i).enabled = cfg.enabled
<1>1. i \in Slot /\ Eligible(cfg, i)
  BY DEF Chosen
<1>2. (i + 1) % MaxSourceSlots \in Slot
  BY <1>1, SlotsAssumption DEF Slot
<1>3. cfg.slots[i].source_key \in Source
  BY <1>1 DEF Eligible, VictimCfg, SlotRecord
<1> QED
  BY <1>1, <1>2, <1>3 DEF AdvancedCfg, VictimCfg
=============================================================================
