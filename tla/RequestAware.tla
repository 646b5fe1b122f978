----------------------------- MODULE RequestAware -----------------------------
(***************************************************************************)
(* The request-aware mode of the control daemon (hostctl_cpp/perf.cpp).    *)
(* The sampler injects a fixed delay when the target used the processor    *)
(* enough, but only if the daemon is armed; /rearm arms it again, and also *)
(* injects at once if it has the victims' processes.  Sampler and control  *)
(* server are two threads that share g_request_armed, an atomic.           *)
(***************************************************************************)
EXTENDS Naturals

CONSTANTS
  MaxRearms,     \* bound: /rearm requests
  MaxDelays      \* bound: what g_accumulated_delay_ns counts, in delays

VARIABLES
  g_request_armed,
  g_accumulated_delay_ns,  \* in fixed delays
  victims,                 \* g_victim_pids is not empty
  server,                  \* how far the control server is with a /rearm
  sampler,                 \* how far the sampler is with an injection
  arm,                     \* history: how many times the daemon was armed again
  hit,                     \* history: the arm that the sampler's injection takes
  injected                 \* history: the injections of each arm

vars == <<g_request_armed, g_accumulated_delay_ns, victims, server, sampler, arm, hit, injected>>

Arm == 0 .. MaxRearms

Init ==
  /\ g_request_armed = TRUE
  /\ g_accumulated_delay_ns = 0
  /\ victims \in BOOLEAN
  /\ server = "idle" /\ sampler = "sleep"
  /\ arm = 0 /\ hit = 0
  /\ injected = [a \in Arm |-> 0]

Inject(a) == injected' = [injected EXCEPT ![a] = @ + 1]
-----------------------------------------------------------------------------
(***************************************************************************)
(* The control server, which serves one request after the other.           *)
(***************************************************************************)
\* /rearm: g_request_armed.exchange(true)
Rearm ==
  /\ server = "idle"
  /\ arm < MaxRearms
  /\ g_request_armed' = TRUE
  /\ arm' = arm + 1
  /\ server' = "rearmed"
  /\ UNCHANGED <<g_accumulated_delay_ns, victims, sampler, hit, injected>>

\* /rearm: apply_delay_to_cgroups
InjectAtOnce ==
  /\ server = "rearmed"
  /\ IF victims
     THEN Inject(arm) /\ server' = "injected"
     ELSE UNCHANGED injected /\ server' = "idle"
  /\ UNCHANGED <<g_request_armed, g_accumulated_delay_ns, victims, sampler, arm, hit>>

\* /rearm: g_request_armed.store(false), "consumed for this request"
Consumed ==
  /\ server = "injected"
  /\ g_request_armed' = FALSE
  /\ server' = "consumed"
  /\ UNCHANGED <<g_accumulated_delay_ns, victims, sampler, arm, hit, injected>>

\* g_accumulated_delay_ns.fetch_add
Accumulate == g_accumulated_delay_ns' = g_accumulated_delay_ns + 1

Rearmed ==
  /\ server = "consumed"
  /\ g_accumulated_delay_ns < MaxDelays
  /\ Accumulate
  /\ server' = "idle"
  /\ UNCHANGED <<g_request_armed, victims, sampler, arm, hit, injected>>

\* /clear
Clear ==
  /\ server = "idle"
  /\ g_accumulated_delay_ns' = 0
  /\ UNCHANGED <<g_request_armed, victims, server, sampler, arm, hit, injected>>

Serve == Rearm \/ InjectAtOnce \/ Consumed \/ Rearmed \/ Clear
-----------------------------------------------------------------------------
(***************************************************************************)
(* perf_sampler_request_aware                                              *)
(***************************************************************************)
\* The threshold is reached, and the compare-and-swap finds the daemon armed.
ThresholdHit ==
  /\ sampler = "sleep"
  /\ g_request_armed
  /\ g_request_armed' = FALSE
  /\ hit' = arm
  /\ sampler' = "hit"
  /\ UNCHANGED <<g_accumulated_delay_ns, victims, server, arm, injected>>

\* send_delay_to_peers, and apply_delay_to_cgroups if nothing could be sent; the
\* injection is skipped if that has no victims either.
Send(sent) ==
  /\ sampler = "hit"
  /\ IF sent \/ victims
     THEN Inject(hit) /\ sampler' = "sent"
     ELSE UNCHANGED injected /\ sampler' = "sleep"
  /\ UNCHANGED <<g_request_armed, g_accumulated_delay_ns, victims, server, arm, hit>>

Sent ==
  /\ sampler = "sent"
  /\ g_accumulated_delay_ns < MaxDelays
  /\ Accumulate
  /\ sampler' = "sleep"
  /\ UNCHANGED <<g_request_armed, victims, server, arm, hit, injected>>

Sample == ThresholdHit \/ Sent \/ \E sent \in BOOLEAN : Send(sent)
-----------------------------------------------------------------------------
Next == Serve \/ Sample

Spec == Init /\ [][Next]_vars
-----------------------------------------------------------------------------
TypeOK ==
  /\ g_request_armed \in BOOLEAN /\ victims \in BOOLEAN
  /\ g_accumulated_delay_ns \in Nat
  /\ server \in {"idle", "rearmed", "injected", "consumed"}
  /\ sampler \in {"sleep", "hit", "sent"}
  /\ arm \in Arm /\ hit \in Arm
  /\ injected \in [Arm -> Nat]

\* perf.cpp:48: "request-aware mode: inject at most once until rearmed".  Between
\* the exchange and the store of /rearm the sampler finds the daemon armed.
AtMostOncePerRearm == \A a \in Arm : injected[a] <= 1

\* What the code does keep: at most one injection of each thread.
AtMostTwicePerRearm == \A a \in Arm : injected[a] <= 2
=============================================================================
