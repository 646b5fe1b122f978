---------------------------- MODULE RequestCredit ----------------------------
(***************************************************************************)
(* The request-credit engine of hostctl: /arm grants credits to a victim   *)
(* cgroup on behalf of a source, the BPF program turns a receive syscall   *)
(* of the victim into an event naming one slot with credits, and the       *)
(* engine's poll thread takes the credit and delays the thread.            *)
(*                                                                         *)
(* The BPF program never decrements a credit: it may emit any number of    *)
(* events for one credit, and what keeps injections and credits in step is *)
(* the debit made by the poll thread (consume_credit_locked) under mu_.    *)
(* mu_ is released between the debit, the counting and the recording of an *)
(* event, so /arm and /clear run in between; the BPF program runs at any   *)
(* time and writes rr_cursor in the very element that user space reads,    *)
(* modifies and writes back.                                               *)
(***************************************************************************)
EXTENDS SourceSlots, Sequences, FiniteSets

CONSTANTS
  Cgroup,       \* victim cgroups
  Count,        \* the counts an /arm request may carry
  Delay,        \* the delays an /arm request may carry, 0 for none
  MaxVictims,   \* capacity of victim_map, 4096 in the code
  RingCapacity, \* events the ring buffer holds (16 MiB in the code)
  MaxGranted    \* bound of the model: credits granted in one behaviour

ASSUME RequestCreditAssumption ==
  /\ Count \subseteq Nat
  /\ Delay \subseteq Nat
  /\ MaxVictims \in Nat
  /\ RingCapacity \in Nat \ {0}
  /\ MaxGranted \in Nat

VARIABLES
  life,       \* g_running, running_ and active_: where the daemon is in its life
  mu,         \* who holds mu_ across two steps: the poll thread, or nobody
  victim_map, \* BPF map: cgroup -> configuration
  events,     \* BPF ring buffer
  sources,    \* victims_[cgroup].sources[source]: the counters /status shows
  poll,       \* the poll thread: where it is, and its local copy and delay
  granted,    \* history: credits ever granted, injections ever made, credits
  injected,   \*          ever wiped, per cgroup and source
  wiped

vars == <<life, mu, victim_map, events, sources, poll, granted, injected, wiped>>

Account == Cgroup \X Source

Event == [cgroup : Cgroup, source_key : Source, slot_index : Slot]

Counters == [armed_total : Nat, consume_trigger : Nat, injected_ok : Nat, inject_fail : Nat]

ZeroCounters ==
  [armed_total |-> 0, consume_trigger |-> 0, injected_ok |-> 0, inject_fail |-> 0]

PollPc == {"head", "batch", "looked", "debited", "counted", "ok", "failed", "exited"}

\* poll.cfg and poll.delay are locals of on_ring_event, reset when dead.
AtPc(pc) == [pc |-> pc, cfg |-> NoCfg, delay |-> 0]

Free == "free"

\* g_running holds until SIGINT; running_ until request_credit_stop; active_
\* until stop_unlocked.
Alive == life = "running"
Accepting == life \in {"running", "signalled"}
Attached == life # "stopped"

Known(g) == victim_map[g].enabled

Spent == {"debited", "counted"}

\* The event on_ring_event is working on is the oldest one of the ring: the
\* consumer position moves only when the callback returns.
Current == Head(events)
CurrentAccount == <<Current.cgroup, Current.source_key>>

Init ==
  /\ life = "running"
  /\ mu = Free
  /\ victim_map = [g \in Cgroup |-> NoCfg]
  /\ events = <<>>
  /\ sources = [a \in Account |-> ZeroCounters]
  /\ poll = AtPc("head")
  /\ granted = [a \in Account |-> 0]
  /\ injected = [a \in Account |-> 0]
  /\ wiped = [a \in Account |-> 0]
-----------------------------------------------------------------------------
(***************************************************************************)
(* The control threads.  g_engine_mu serialises them, and each handler     *)
(* holds mu_ throughout, so each is one step.                              *)
(***************************************************************************)

\* arm().  A request that finds no slot, or no room for its cgroup in
\* victim_map, fails and changes nothing but arm_fail_.
Arm(g, s, n, asked) ==
  /\ Accepting
  /\ mu = Free
  /\ granted[<<g, s>>] + n <= MaxGranted
  /\ Known(g) \/ Cardinality({h \in Cgroup : Known(h)}) < MaxVictims
  /\ \E i \in SlotForSource(victim_map[g], s), d \in EffectiveDelay(victim_map[g], asked) :
       victim_map' = [victim_map EXCEPT ![g] = ArmedCfg(@, i, s, d, n)]
  /\ sources' = [sources EXCEPT ![<<g, s>>].armed_total = @ + n]
  /\ granted' = [granted EXCEPT ![<<g, s>>] = @ + n]
  /\ UNCHANGED <<life, mu, events, poll, injected, wiped>>

\* mutant: the outcomes are zeroed, the triggers they belong to are not
ClearKeepingTriggers(clear_credits) ==
  /\ Accepting
  /\ mu = Free
  /\ sources' = [a \in Account |->
                  [ZeroCounters EXCEPT !.consume_trigger = sources[a].consume_trigger]]
  /\ UNCHANGED <<life, mu, victim_map, events, poll, granted, injected, wiped>>

\* clear(clear_credits): the counters of every victim are zeroed; the credits
\* and delays too when the request says clear_credits=true.
Clear(clear_credits) ==
  /\ Accepting
  /\ mu = Free
  /\ sources' = [a \in Account |-> ZeroCounters]
  /\ IF clear_credits
     THEN /\ victim_map' = [g \in Cgroup |->
                              IF Known(g) THEN ClearedCfg(victim_map[g]) ELSE victim_map[g]]
          /\ wiped' = [a \in Account |-> wiped[a] + CreditOf(victim_map[a[1]], a[2])]
     ELSE UNCHANGED <<victim_map, wiped>>
  /\ UNCHANGED <<life, mu, events, poll, granted, injected>>

\* SIGINT: g_running becomes false.
Signal ==
  /\ life = "running"
  /\ life' = "signalled"
  /\ UNCHANGED <<mu, victim_map, events, sources, poll, granted, injected, wiped>>

\* mutant: stop() takes mu_ before it joins the poll thread
StopBeginLocked ==
  /\ life = "signalled"
  /\ mu = Free
  /\ life' = "stopping"
  /\ mu' = "stop"
  /\ UNCHANGED <<victim_map, events, sources, poll, granted, injected, wiped>>

\* request_credit_stop() takes g_engine_mu, which shuts /arm and /clear out,
\* and stop() asks the poll thread to end.
StopBegin ==
  /\ life = "signalled"
  /\ life' = "stopping"
  /\ UNCHANGED <<mu, victim_map, events, sources, poll, granted, injected, wiped>>

\* stop() after the join: stop_unlocked frees the ring, detaches the programs
\* and closes the object, maps and all.
StopEnd ==
  /\ life = "stopping"
  /\ poll.pc = "exited"
  /\ life' = "stopped"
  /\ victim_map' = [g \in Cgroup |-> NoCfg]
  /\ events' = <<>>
  /\ wiped' = [a \in Account |-> wiped[a] + CreditOf(victim_map[a[1]], a[2])]
  /\ UNCHANGED <<mu, sources, poll, granted, injected>>
-----------------------------------------------------------------------------
(***************************************************************************)
(* The BPF program, on whatever CPU the victim's thread enters a syscall   *)
(* of its consume policy.                                                  *)
(***************************************************************************)

\* bpf_ringbuf_reserve fails when the ring is full and the event is dropped
\* (ringbuf_drops); the cursor has moved all the same.
Submit(q, ev) == IF Len(q) < RingCapacity THEN Append(q, ev) ELSE q

ConsumeOnce(g) ==
  /\ Attached
  /\ Known(g)
  /\ \E i \in Chosen(victim_map[g]) :
       /\ victim_map' = [victim_map EXCEPT ![g] = AdvancedCfg(@, i)]
       /\ events' = Submit(events,
                           [cgroup |-> g,
                            source_key |-> victim_map[g].slots[i].source_key,
                            slot_index |-> i])
  /\ UNCHANGED <<life, mu, sources, poll, granted, injected, wiped>>
-----------------------------------------------------------------------------
(***************************************************************************)
(* The poll thread: poll_loop, ring_buffer__poll and on_ring_event.        *)
(***************************************************************************)

\* poll_loop's condition holds and ring_buffer__poll is entered.
PollEnter ==
  /\ poll.pc = "head"
  /\ Alive
  /\ poll' = AtPc("batch")
  /\ UNCHANGED <<life, mu, victim_map, events, sources, granted, injected, wiped>>

\* ring_buffer__poll consumes until the ring is empty.
PollReturn ==
  /\ poll.pc = "batch"
  /\ events = <<>>
  /\ poll' = AtPc("head")
  /\ UNCHANGED <<life, mu, victim_map, events, sources, granted, injected, wiped>>

PollExit ==
  /\ poll.pc = "head"
  /\ ~ Alive
  /\ poll' = AtPc("exited")
  /\ UNCHANGED <<life, mu, victim_map, events, sources, granted, injected, wiped>>

\* The slots consume_credit_locked debits for the current event; none when it
\* returns false.
Debitable(cfg) ==
  {i \in DebitSlots(cfg, Current.source_key, Current.slot_index) :
     cfg.enabled /\ Spendable(cfg, i)}

\* consume_credit_locked returns false and so does the callback: the event's
\* credit was taken through another event, or cleared.
PollReject ==
  /\ poll.pc = "batch"
  /\ events # <<>>
  /\ mu = Free
  /\ Debitable(victim_map[Current.cgroup]) = {}
  /\ events' = Tail(events)
  /\ UNCHANGED <<life, mu, victim_map, sources, poll, granted, injected, wiped>>

\* mutant: the configuration is read before mu_ is taken
PollLookupUnlocked ==
  /\ poll.pc = "batch"
  /\ events # <<>>
  /\ Debitable(victim_map[Current.cgroup]) # {}
  /\ poll' = [AtPc("looked") EXCEPT !.cfg = victim_map[Current.cgroup]]
  /\ UNCHANGED <<life, mu, victim_map, events, sources, granted, injected, wiped>>

\* consume_credit_locked, first half: bpf_map_lookup_elem copies the element.
PollLookup ==
  /\ poll.pc = "batch"
  /\ events # <<>>
  /\ mu = Free
  /\ Debitable(victim_map[Current.cgroup]) # {}
  /\ mu' = "poll"
  /\ poll' = [AtPc("looked") EXCEPT !.cfg = victim_map[Current.cgroup]]
  /\ UNCHANGED <<life, victim_map, events, sources, granted, injected, wiped>>

\* consume_credit_locked, second half: bpf_map_update_elem writes the copy
\* back, rr_cursor included, whatever the BPF program did to it meanwhile.
PollDebit ==
  /\ poll.pc = "looked"
  /\ \E i \in Debitable(poll.cfg) :
       /\ victim_map' = [victim_map EXCEPT ![Current.cgroup] = DebitedCfg(poll.cfg, i)]
       /\ poll' = [AtPc("debited") EXCEPT !.delay = poll.cfg.slots[i].delay_ns]
  /\ mu' = Free
  /\ UNCHANGED <<life, events, sources, granted, injected, wiped>>

\* mutant: a thread told to stop goes no further
PollCountWhileAlive ==
  /\ Alive
  /\ poll.pc = "debited"
  /\ mu = Free
  /\ sources' = [sources EXCEPT ![CurrentAccount].consume_trigger = @ + 1]
  /\ poll' = [poll EXCEPT !.pc = "counted"]
  /\ UNCHANGED <<life, mu, victim_map, events, granted, injected, wiped>>

\* The second critical section of on_ring_event.
PollCount ==
  /\ poll.pc = "debited"
  /\ mu = Free
  /\ sources' = [sources EXCEPT ![CurrentAccount].consume_trigger = @ + 1]
  /\ poll' = [poll EXCEPT !.pc = "counted"]
  /\ UNCHANGED <<life, mu, victim_map, events, granted, injected, wiped>>

\* ghost_delay_tid: syscall 449 succeeds, or fails (ESRCH: the thread is gone).
PollInject(outcome) ==
  /\ poll.pc = "counted"
  /\ poll' = AtPc(outcome)
  /\ injected' = [injected EXCEPT ![CurrentAccount] = @ + 1]
  /\ UNCHANGED <<life, mu, victim_map, events, sources, granted, wiped>>

\* The third critical section, and the return from the callback.
PollRecord ==
  /\ poll.pc \in {"ok", "failed"}
  /\ mu = Free
  /\ sources' = IF poll.pc = "ok"
                THEN [sources EXCEPT ![CurrentAccount].injected_ok = @ + 1]
                ELSE [sources EXCEPT ![CurrentAccount].inject_fail = @ + 1]
  /\ events' = Tail(events)
  /\ poll' = AtPc("batch")
  /\ UNCHANGED <<life, mu, victim_map, granted, injected, wiped>>

PollStep ==
  \/ PollEnter
  \/ PollReturn
  \/ PollExit
  \/ PollReject
  \/ PollLookup
  \/ PollDebit
  \/ PollCount
  \/ \E outcome \in {"ok", "failed"} : PollInject(outcome)
  \/ PollRecord
-----------------------------------------------------------------------------
Next ==
  \/ \E g \in Cgroup, s \in Source, n \in Count, asked \in Delay : Arm(g, s, n, asked)
  \/ \E clear_credits \in BOOLEAN : Clear(clear_credits)
  \/ Signal
  \/ StopBegin
  \/ StopEnd
  \/ \E g \in Cgroup : ConsumeOnce(g)
  \/ PollStep

Safety == Init /\ [][Next]_vars

(***************************************************************************)
(* The poll thread and the daemon's main thread are scheduled by the       *)
(* kernel.  A victim is a server that goes on receiving.  Requests and     *)
(* signals come or do not come.                                            *)
(***************************************************************************)
Fairness ==
  /\ WF_vars(PollStep)
  /\ WF_vars(StopBegin)
  /\ WF_vars(StopEnd)
  /\ \A g \in Cgroup : WF_vars(ConsumeOnce(g))

Spec == Safety /\ Fairness
-----------------------------------------------------------------------------
TypeOK ==
  /\ life \in {"running", "signalled", "stopping", "stopped"}
  /\ mu \in {Free, "poll"}
  /\ victim_map \in [Cgroup -> VictimCfg]
  /\ events \in Seq(Event)
  /\ sources \in [Account -> Counters]
  /\ poll \in [pc : PollPc, cfg : VictimCfg, delay : Nat]
  /\ granted \in [Account -> Nat]
  /\ injected \in [Account -> Nat]
  /\ wiped \in [Account -> Nat]

\* The credits a victim's source holds, as the map has them.
Credit(a) == CreditOf(victim_map[a[1]], a[2])

\* Credits taken from the map whose syscall 449 has not been made yet.
Owed(a) == IF poll.pc \in Spent /\ a = CurrentAccount THEN 1 ELSE 0

\* Events whose credit is taken and whose outcome is not recorded yet.
Unrecorded(a) ==
  IF poll.pc \in {"debited", "counted", "ok", "failed"} /\ a = CurrentAccount THEN 1 ELSE 0

\* Of those, the ones consume_trigger counts already.
Counted(a) == IF poll.pc \in {"counted", "ok", "failed"} /\ a = CurrentAccount THEN 1 ELSE 0

Done(a) == sources[a].injected_ok + sources[a].inject_fail

\* No victim has two slots of one source, and a slot no source ever used is
\* blank: find_slot_for_source looks for the source's slot before a free one
\* (request_credit.cpp:463-467), and slots are reused only once empty.
OneSlotPerSource == \A g \in Cgroup : WellKeyed(victim_map[g])

\* A credit can always be consumed: a slot with credits is keyed, has a delay
\* and belongs to an enabled victim, through every reuse, clear and request
\* without a delay.  (consume_once passes over any other slot.)
CreditsAreConsumable == \A g \in Cgroup : Consumable(victim_map[g])

\* While consume_credit_locked is between its lookup and its update, its copy
\* is the map's element up to rr_cursor: no credit armed or cleared in between
\* is lost to the write-back.
NoLostUpdate ==
  poll.pc = "looked" =>
    /\ poll.cfg.enabled = victim_map[Current.cgroup].enabled
    /\ poll.cfg.slots = victim_map[Current.cgroup].slots

\* mu_ is held across two steps only by consume_credit_locked.
LockHeld == mu = "poll" <=> poll.pc = "looked"

\* The callback works on an event that is still in the ring.
Working == poll.pc \in {"looked", "debited", "counted", "ok", "failed"} => events # <<>>

\* Every credit ever granted is still in its source's slot, or was wiped, or
\* is owed or was given exactly one injection.  The BPF program emits any
\* number of events per credit and the ring delivers them after clears, stops
\* of the source and reuses of its slot.
CreditsBalance ==
  \A a \in Account : granted[a] = Credit(a) + wiped[a] + injected[a] + Owed(a)

\* What /status reports as a source's "miss" (armed_total - injected_ok -
\* inject_fail, request_credit.cpp:906-908) is covered by credits still to be
\* consumed, with or without a /clear.
MissIsCovered ==
  life # "stopped" =>
    \A a \in Account :
      sources[a].armed_total <= Done(a) + Credit(a) + Unrecorded(a)

\* A /clear may fall between the critical sections of on_ring_event, and then
\* an outcome is recorded whose trigger is not counted: of all sources, at
\* most one, by one, until the next /clear.
Skew(a) == Done(a) + Counted(a) - sources[a].consume_trigger

CountersSkewAtMostOne ==
  /\ \A a \in Account : Skew(a) \in {0, 1}
  /\ \A a, b \in Account : Skew(a) = 1 /\ Skew(b) = 1 => a = b

\* The engine is a credit bank: what the slots hold is the balance.
Bank == INSTANCE CreditBank WITH
          balance <- [a \in Account |-> Credit(a)],
          owed <- [a \in Account |-> Owed(a)]

\* The engine implements the bank: a step grants, spends one credit, injects
\* for it, wipes every balance, or does nothing to the accounts.
ImplementsCreditBank == Bank!Safety

\* A credit taken from a slot is injected for, even when the daemon is told to
\* stop in between.
EveryDebitIsInjected == Bank!Settlement

\* As long as the victim receives and the daemon runs, no credit stays unused
\* once requests stop coming (here at MaxGranted; arm() moves rr_cursor onto its
\* slot, so requests of one source that never stop may hold up another's):
\* ring overflows, stale events and lost cursor updates notwithstanding.
CreditsAreUsed ==
  \A a \in Account : (Alive /\ Credit(a) > 0) ~> (Credit(a) = 0 \/ ~ Alive)

\* request_credit_stop returns: the poll thread ends although the ring is only
\* left when empty, and the victims go on filling it.
StopReturns == life = "signalled" ~> life = "stopped"

\* k8s/request_credit/README.md:25: when syscall 449 fails, the credit is given
\* back once by default.
FailedInjectionIsRefunded ==
  [][\A a \in Account :
       poll.pc = "failed" /\ poll'.pc = "batch" /\ a = CurrentAccount =>
         Credit(a)' = Credit(a) + 1]_vars
=============================================================================
