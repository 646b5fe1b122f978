----------------------------- MODULE SourceSlots -----------------------------
(***************************************************************************)
(* The victim configuration of one cgroup (mcoz_victim_cfg) and the pure   *)
(* operations on it: the slot searches of RequestCreditEngine, the in-place *)
(* effect of /arm, /clear and a debit, and the slot the BPF program picks.  *)
(*                                                                         *)
(* A slot is [source_key, delay_ns, credits].  A source key is the hash of *)
(* the source's name, modelled by the source itself; NoSource is key 0,    *)
(* which fnv1a64 never returns (request_credit.cpp:176-184).               *)
(***************************************************************************)
EXTENDS Naturals

CONSTANTS
  Source,          \* source identifiers that may arm a victim
  NoSource,        \* the key of a slot never used (0 in the code)
  MaxSourceSlots,  \* MCOZ_MAX_SOURCE_SLOTS, 8 in the code
  DefaultDelay     \* default_delay_ns_, the engine's default delay

\* main.cpp:699 replaces a zero default by 10 ms before the engine starts.
ASSUME SlotsAssumption ==
  /\ NoSource \notin Source
  /\ MaxSourceSlots \in Nat \ {0}
  /\ DefaultDelay \in Nat \ {0}

Slot == 0 .. MaxSourceSlots - 1

SlotRecord == [source_key : Source \cup {NoSource}, delay_ns : Nat, credits : Nat]

VictimCfg == [enabled : BOOLEAN, rr_cursor : Slot, slots : [Slot -> SlotRecord]]

BlankSlot == [source_key |-> NoSource, delay_ns |-> 0, credits |-> 0]

\* A cgroup with no entry in victim_map; arm() starts from memset(&cfg, 0).
NoCfg == [enabled |-> FALSE, rr_cursor |-> 0, slots |-> [i \in Slot |-> BlankSlot]]

\* The element a left-to-right loop over the slots meets first, as a set.
First(S) == {i \in S : \A j \in S : i <= j}

ExactSlots(cfg, s) == {i \in Slot : cfg.slots[i].source_key = s}

IdleSlots(cfg) == {i \in Slot : cfg.slots[i].credits = 0}

UnkeyedSlots(cfg) == {i \in Slot : cfg.slots[i].source_key = NoSource}

BlankSlots(cfg) == {i \in Slot : cfg.slots[i] = BlankSlot}

\* mutant: a victim whose slots are all in use gives one of them away
FreeSlotStealing(cfg) ==
  IF BlankSlots(cfg) # {} THEN BlankSlots(cfg) ELSE Slot

\* mutant: a source that already holds a slot is given another one
SlotForSourceNoExact(cfg, s) ==
  First(IF BlankSlots(cfg) # {} THEN BlankSlots(cfg) ELSE IdleSlots(cfg))

\* find_free_slot: an all-zero slot, else one whose credits are used up, else
\* one without a key.
FreeSlots(cfg) ==
  IF BlankSlots(cfg) # {} THEN BlankSlots(cfg)
  ELSE IF IdleSlots(cfg) # {} THEN IdleSlots(cfg)
  ELSE UnkeyedSlots(cfg)

\* find_slot_for_source, as the set of the slot it returns; empty for -1.
SlotForSource(cfg, s) ==
  First(IF ExactSlots(cfg, s) # {} THEN ExactSlots(cfg, s) ELSE FreeSlots(cfg))

\* max_delay: the largest delay of the victim's slots, whoever armed it.
LargestDelay(cfg) ==
  {d \in {cfg.slots[i].delay_ns : i \in Slot} :
     \A i \in Slot : cfg.slots[i].delay_ns <= d}

\* mutant: a request without a delay keeps the delay it finds, even none
EffectiveDelayAsFound(cfg, asked) == IF asked > 0 THEN {asked} ELSE LargestDelay(cfg)

\* arm(): the delay asked for, else the largest in force, else the default.
EffectiveDelay(cfg, asked) ==
  IF asked > 0 THEN {asked}
  ELSE {IF d > 0 THEN d ELSE DefaultDelay : d \in LargestDelay(cfg)}

\* What arm() writes back: the slot is (re)keyed, its delay replaced, its
\* credits increased, and the round-robin cursor moved onto it.
ArmedCfg(cfg, i, s, d, n) ==
  [enabled |-> TRUE,
   rr_cursor |-> i,
   slots |-> [cfg.slots EXCEPT
                ![i] = [source_key |-> s, delay_ns |-> d, credits |-> @.credits + n]]]

\* mutant: the delays are cleared and the credits left behind
ClearedCfgKeepingCredits(cfg) ==
  [cfg EXCEPT !.rr_cursor = 0,
              !.slots = [i \in Slot |-> [@[i] EXCEPT !.delay_ns = 0]]]

\* What clear(true) writes back: no credits, no delays, keys kept.
ClearedCfg(cfg) ==
  [enabled |-> cfg.enabled,
   rr_cursor |-> 0,
   slots |-> [i \in Slot |->
                [source_key |-> cfg.slots[i].source_key, delay_ns |-> 0, credits |-> 0]]]

\* mutant: the slot index carried by the event is trusted as it is
DebitSlotsTrustingHint(cfg, s, hint) == {hint}

\* consume_credit_locked: the slot the event names if it still holds the
\* event's key, else the slot of that key.
DebitSlots(cfg, s, hint) ==
  IF cfg.slots[hint].source_key = s THEN {hint} ELSE First(ExactSlots(cfg, s))

\* mutant: the credits are not looked at
SpendableIgnoringCredits(cfg, i) == cfg.slots[i].delay_ns > 0

Spendable(cfg, i) == cfg.slots[i].delay_ns > 0 /\ cfg.slots[i].credits > 0

DebitedCfg(cfg, i) == [cfg EXCEPT !.slots[i].credits = @ - 1]

\* A slot the BPF program accepts.
Eligible(cfg, i) == cfg.slots[i].source_key # NoSource /\ Spendable(cfg, i)

\* The slot consume_once stops at: the first eligible one from rr_cursor on.
Chosen(cfg) ==
  {i \in Slot :
     \E step \in Slot :
       /\ i = (cfg.rr_cursor + step) % MaxSourceSlots
       /\ Eligible(cfg, i)
       /\ \A earlier \in 0 .. step - 1 :
            ~ Eligible(cfg, (cfg.rr_cursor + earlier) % MaxSourceSlots)}

\* consume_once moves the cursor past the slot it chose, in the map's element.
AdvancedCfg(cfg, i) == [cfg EXCEPT !.rr_cursor = (i + 1) % MaxSourceSlots]

\* No two slots of one source, and a slot no source ever used is blank.
WellKeyed(cfg) ==
  \A i, j \in Slot :
    /\ cfg.slots[i].source_key = NoSource => cfg.slots[i] = BlankSlot
    /\ cfg.slots[i].source_key = cfg.slots[j].source_key /\ cfg.slots[i].source_key # NoSource
         => i = j

\* Every credit is in a slot of an enabled victim that consume_once accepts.
Consumable(cfg) ==
  \A i \in Slot : cfg.slots[i].credits > 0 => cfg.enabled /\ Eligible(cfg, i)

\* The credits source s holds: those of the slot keyed by s.
CreditOf(cfg, s) ==
  IF \E i \in Slot : cfg.slots[i].source_key = s
  THEN cfg.slots[CHOOSE i \in Slot : cfg.slots[i].source_key = s].credits
  ELSE 0
=============================================================================
