# TLA+ models of mcoz

mcoz is a fork of the causal profiler coz for programs spread over containers.
Instead of making one line faster it slows everything else down: inside one
process by making the other threads sleep (libcoz), between containers by
delaying the threads that receive a request (hostctl and its gates).  What these
delays mean depends on bookkeeping shared by threads, signal handlers, a BPF
program and HTTP handlers, and that bookkeeping is what this project models.

Six parts are modelled, checked with TLC and proved about with TLAPS: the
request-credit engine of the control daemon with its BPF program, its
request-aware mode, the virtual delays of libcoz, libcoz's progress points and
shutdown, and the two ext_authz gates, in Go and in Python.  The rest is
described below and left out with a reason.

## 1. The system

| component | source | state it keeps | operations |
|---|---|---|---|
| request-credit engine | `hostctl_cpp/request_credit.cpp` | `victim_map` (a BPF map: cgroup to slots of source, delay, credits), counters per victim and source, `mu_`, `running_`/`active_` | `/arm`, `/clear`, `/status`, poll thread, start/stop, syscall profiles |
| request-credit BPF program | `hostctl_cpp/bpf/request_credit.bpf.c` | the map element's `rr_cursor`, the ring buffer, per-thread call state | `consume_once` from the hooks of the consume policy |
| libcoz virtual delays | `libcoz/profiler.*`, `thread_state.h`, `ccutil/static_map.h`, `libcoz.cpp`, `util.h` | `_global_delay`, `_delay_size`, `_selected_line`, `_next_line`, `_experiment_active`, one `thread_state` per thread | experiment loop, SIGPROF handler, `catch_up`, `pre_block`/`post_block`, thread creation, start and end |
| libcoz progress points and results | `libcoz/progress_point.h`, `profiler.cpp` | counters incremented by the program | snapshots at an experiment's start and end |
| libcoz shutdown | `profiler.*`, `libcoz.cpp` | `_running`, `_num_threads_running`, `_shutdown_run` | end of the last thread, `exit`, end of `main`, join of the profiler thread |
| libcoz symbol lookup | `libcoz/inspect.*` | the map from addresses to lines, built once | lookup |
| libcoz wrappers | `libcoz/perf.*`, `real.*` | the kernel's sample ring, resolved function pointers | `perf_event_open`, `dlsym` |
| kernel | `kernel/mcoz.c`, `patches/` | none | a busy delay by ioctl; system calls 448 and 449 inject a delay into a process or a thread |
| daemon: sampling and global delay | `hostctl_cpp/perf.cpp` | `g_request_armed`, `g_accumulated_delay_ns`, the victims' processes | sample to delay, `/rearm`, `/clear`, receivers of delay datagrams |
| daemon: main | `hostctl_cpp/main.cpp` | `g_running` | argument parsing, target discovery, SIGINT |
| Go daemon | `hostctl/` | an older form of the above | sampling |
| Go gate | `scripts/mcoz_gate.go` | `gateState` (active, delay, count, tokens), `refillCh` | `handleCheck`, `/set_enabled`, `refillWorker`, calls to the daemon |
| Python gate | `scripts/mcoz_gate.py` | the same, and a suspension deadline | the same, direct and UDP arms |
| control API, Thrift adapter | `scripts/mcoz_control_api.py`, `mcoz_thrift_adapter.py` | configuration, a connection counter | front ends |
| command-line tools | `coz`, `scripts/cozctl`, `globaldelay_sidecar`, `freeze.bt` | none | wrappers |
| `coz.h`, Rust binding | `include/`, `rust/` | the address of a counter | increment |
| trace analyzer | `target_detector/` | none | one pass over a trace |

Benchmarks, demo, evaluation data, the viewer, build output, `overhead_test` and
`examples` carry none of the program's logic and are left aside.

### How they interact

A gate receives a request and needs a *token*.  It buys tokens from the daemon:
`POST /arm` with a delay and `tokens * count` credits.  The daemon writes the
credits into a slot of the victim's element of `victim_map`.  When a thread of
the victim enters a receive system call the BPF program finds a slot with
credits, moves `rr_cursor` past it and puts an event in the ring.  The poll
thread takes the event, debits the slot, counts, calls system call 449 on the
thread and records the outcome.  Three parties write one map element (control
handlers and poll thread under `mu_`, the BPF program under nothing), and the
poll thread gives `mu_` up twice per event.

Inside a process, `libcoz` samples every thread.  Samples in the selected line
make a thread owe the others a pause: `add_delays` raises `_global_delay`, and a
thread whose `local_delay` is behind sleeps.  It runs in the SIGPROF handler and
in the interposed pthread operations, on the same `thread_state`, with `in_use`
as the only guard between them.

### What makes it correct

* request-credit engine: a credit granted is used for exactly one injection or
  wiped by somebody entitled to; none is stranded in a slot the BPF program does
  not accept; `/status` agrees with the map; stopping ends.
* virtual delays: `_global_delay` holds only delay somebody earned; a thread pays
  before it wakes another one; threads that differ from `_global_delay` get level.
* gate: tokens are backed by granted credits; concurrent purchases overshoot by a
  bounded amount; an empty gate is refilled.
  For the Python gate also: a suspended gate leaves the daemon alone.
* progress points: each visit is written down at most once.
* shutdown: the profiler thread is joined once and never keeps a finished program
  alive; its results are written before the process ends, except when a second
  thread leaves while the first still joins; `pthread_exit` does not stop it under
  a running thread, except under one that was created and not yet counted.
* request-aware mode: an arm is injected at most once (it is not).

The 40 hazards behind these properties are listed, each at its line, in
`PROJECT.json`.

## 2. Modules and the code

| module | models |
|---|---|
| `SourceSlots` | one victim element and the pure operations on it: `find_slot_for_source`, `find_free_slot`, `max_delay`, the effect of arm, clear and a debit, the slot `consume_once` stops at |
| `RequestCredit` | the engine, the BPF program and the poll thread around it; extends `SourceSlots` |
| `CreditBank` | what the engine promises: accounts that are granted, spent, injected for and wiped |
| `VirtualDelay` | libcoz: the profiler thread's experiment loop, `process_samples`, `add_delays`, and the program's threads |
| `CozProfiler` | libcoz: progress points, the profiler thread's life, the ways threads and the process end |
| `Gate` | the Go gate |
| `PythonGate` | the Python gate |
| `TokenBank` | what both gates promise: a token is bought, and used by one request or thrown away; no purchase is larger than the refill parameters allow |
| `RequestAware` | the daemon's request-aware mode |
| `MC` and the name of a module | model values and symmetry sets |
| `SourceSlotsProofs`, `RequestCreditProofs`, `CreditBankProofs` | lemmas on the slot operations; the invariant `Shape`; the refinement, `CreditsBalance` and the counters |
| `VirtualDelayProofs`, `CozProfilerProofs`, `GateProofs`, `PythonGateProofs`, `RequestAwareProofs` | theorems on the other modules |

### RequestCredit

| action | code |
|---|---|
| `Arm`, `Clear` | `arm`, `clear`: one step each, since `g_engine_mu` serialises control requests and `mu_` is held throughout |
| `Signal`, `StopBegin`, `StopEnd` | SIGINT; `request_credit_stop` up to the join; `stop_unlocked` |
| `ConsumeOnce` | `consume_once` in the BPF program |
| `PollEnter`, `PollReturn`, `PollExit` | `poll_loop` and the batch loop of `ring_buffer__poll` |
| `PollReject` | an event whose credit is no longer there |
| `PollLookup`, `PollDebit` | the two halves of `consume_credit_locked`: the element is copied, changed and written back |
| `PollCount`, `PollInject`, `PollRecord` | second critical section, `ghost_delay_tid`, third critical section |

`mu` is a variable only because `consume_credit_locked` holds `mu_` across two
steps.  The current event stays at the head of the ring while the callback works
because libbpf moves the consumer position after the callback returns.
`ConsumeOnce` is one step.  Two CPUs in `consume_once` at once may pick the same
slot and write the same cursor; the second event is then one more event for a
credit that is debited once, which the model has anyway.  A
source's key is the source itself (no hash collisions).  `granted`, `injected`
and `wiped` are history.

### VirtualDelay

Every atomic load or store of the shared variables is a step; `thread[t].at` says
where a thread is (in its own code, blocked, in `catch_up`, in `end_sampling`) and
`thread[t].pc` where it is in `process_samples` or `add_delays`.

| action | code |
|---|---|
| `Select` to `End` | the stores of `profiler_thread`, in order |
| `Match`, `Attribute`, `Charge`, `Suggest` | `process_samples` and `match_line`: `_selected_line`, `_experiment_active` and `_delay_size` are read one after the other |
| `Check`, `Compare`, `Raise`, `Pay`, `Skip` | `add_delays`, with the snapshot of `_global_delay` in `seen` |
| `Handler` | `samples_ready`, unless `in_use`; also between `pre_block` and `post_block` |
| `CatchUp`, `PreBlock`, `PostBlock` | the functions of `profiler.h` called by the interposed operations of `libcoz.cpp` |
| `Create`, `StartThread`, `Exit` | `handle_pthread_create`, `start_thread`, `end_sampling` |

`catch_up`'s test of `_experiment_active` and its store to `in_use` are one step
(nothing between them reads either), and `insert` with the assignment of the
inherited delay is one step (the thread has no sampler yet).  The model has no
time: a sleep is counted as what it added to `local_delay`, and may be longer
than asked for by a member of `Oversleep`.  `allowed` is history: the sum of all
delay that has a reason.  Left out: what `CozProfiler` has, a fixed line or delay
size, and output.

### CozProfiler

The other half of `profiler_thread` and of a thread's life: `VirtualDelay` has the
delays and no end, `CozProfiler` has the ends and no delays.  The two share
`_experiment_active` and the selected line only, and `_running` is read by neither
`add_delays` nor `process_samples`, so they are not composed.

| action | code |
|---|---|
| `Create`, `Start` | `handle_pthread_create`; `add_thread` in `start_thread` (the window in between is a hazard) |
| `FindPoint`, `Visit` | `_coz_get_counter`, the increments of `coz.h` and `progress_point.h` |
| `PthreadExit`, `Check` | `end_sampling` in `handle_pthread_exit`; the test for the last thread |
| `Exit`, `ReturnFromMain` | `exit`, `_exit`, `_Exit`; the end of `wrapped_main` |
| `Claim`, `Stop`, `Join`, `Leave` | `shutdown()` in its four steps, and what the caller then does |
| `Abort` | `on_error`, at any point |
| `FirstPoint` to `LogSamples` | `profiler_thread`: wait, loop, select, save and log one point at a time, end, cool off, final log |

A point is one counter: a throughput point, or the begin or end of a latency
point.  The maps are locked while their points are saved, so no point is created
then.  Waits of a fixed length end at some later step.  `logged` and `uncounted`
are history.

### Gate

A goroutine is at a `pc` with the purchase it is about to make.  `s.mu` is never
held across the call to the daemon, so each critical section is one action:
`SetArmConfig` and `SetArmActive` (with the signal that follows) for
`/set_enabled`, `Prime` for `primeOnEnable`, `Check`, `Consume`, `Miss`,
`MissAgain` for `handleCheck`, `Refill`, `Purchase`, `PurchaseFails` for
`doRefill`/`armOnce`, `Wake` and `Need` for `refillWorker`.  `PurchaseFails(p,
TRUE)` is the call that timed out after the daemon had granted the credits.
Requests that are not to be armed change only statistics and are no step; path
matching and the statistics are left out.  With `refillEnabled = FALSE` each
request arms directly; that path is in the model and covered by the theorems, but
no run gives the constant that value.

The gate implements `TokenBank` with `bought` for the tokens granted, the balance for
those held and `ArmedOK` for those used.  It takes none on trust: a token enters the
balance only after the daemon's answer.

### PythonGate

`scripts/mcoz_gate.py`, whose image the manifests deploy, is not a translation of the
Go gate: `LOCK` is held only inside small helpers, so every helper call is a
step (`Trigger`, `ReadConfig`, `CheckSuspended`, `Consume`, `Miss`, ... for
`_process_trigger`; `SetArmConfig`, `SetArmActive`, `AfterSetActive`, `Prime` for
`/set_enabled`, which may prime twice).  A purchase is `Refill` (its snapshot) and
then `Granted`, `Failed` (with the credits granted all the same, if
`granted`), or, by UDP, `DatagramLost`.  `Failed` suspends the gate if the daemon
is unavailable, any success resumes it, and `Expire` is the end of
`ARM_SUSPEND_SEC`.  The worker waits half a second at most, so `Wait` needs no
signal, and goes on buying while it succeeds.  `DIRECT_ARM` and the transport are
chosen in `Init`.  `refill_tokens_added` counts direct arms as well, which the
source does not; `bought`, `lost`, `voided` and `attempts` are history.  Left out:
`/set_target`, matching, statistics, and `ARM_HTTP_LOCK`.  The mapping to `TokenBank`
is the Go gate's, but for `lost`: by UDP the gate believes in tokens whose datagram
never arrived, and these are the bank's `trusted`.

### RequestAware

Two threads on one flag: `Rearm`, `InjectAtOnce`, `Consumed`, `Rearmed` are the
steps of `/rearm`, `ThresholdHit` (a threshold reached and the compare-and-swap),
`Send`, `Sent` those of the sampler.  `injected` counts per arm.

## 3. What is model-checked

All bounds are constants in the `.cfg` files.  Deadlock is not checked: the
daemon stops for good, and bounded behaviours end.

| run | asks | instance |
|---|---|---|
| `RequestCredit_safety` | types, one slot per source, no stranded credit, no lost update, the credits balance, `/status`'s miss is covered, counters skew by at most one | 2 victims for a map of 1, 3 sources for 2 slots, counts 0 and 1, delays none and 2, ring of 2, one credit per account |
| `RequestCredit_live` | the engine implements `CreditBank`; debits are injected; credits are used; stop returns | 1 victim, 2 sources, 2 slots |
| `RequestCredit_refund` | a failed injection is refunded (violated) | 1 victim, 1 source |
| `VirtualDelay_safety` | types; delays accounted for; threads pay before they wake another or end | 2 threads, 2 entries, sleeps exact or 1 too long, delay up to 2 |
| `VirtualDelay_live` | a thread that differs from the global delay gets level | the same, exact sleeps, delay up to 1 |
| `VirtualDelay_inuse` | `in_use` means the thread keeps its handler out (violated) | 3 threads, 2 entries |
| `VirtualDelay_skip` | `post_block` never puts a thread ahead (violated) | 2 threads |
| `CozProfiler` | types; visits logged once; one end-to-end experiment; one join; results before the process ends; no thread abandoned; the program ends; shutdown returns | 3 threads, 2 points (one end-to-end), 2 visits, 2 experiments, with and without end-to-end |
| `Gate_safety` | types; tokens backed; balance bounded; the gate is a token bank; an empty gate is refilled | 2 handlers, target 2, low-water 1, batch 2, synchronous refill, 6 tokens, 2 lost |
| `Gate_lowwater` | the refill with low-water 0 (violated) | 1 handler |
| `PythonGate` | types; tokens backed; balance bounded; the gate is a token bank; suspension respected; an empty gate is refilled | 2 handlers, target 2, low-water 1, batch 1, synchronous refill, fail-open, 2 tokens, 1 lost; all four modes |
| `RequestAware_once` | one injection per arm (violated) | 2 rearms, 3 delays |

Why these bounds.  *RequestCredit*: three sources for two slots force reuse and
refusal; two victims for one map entry force the failing insertion; a ring of two
overflows, holds a stale event behind a fresh one, and lets an event outlive a
clear, a stop and its slot's reuse; a second credit on an account changes no
guard.  *VirtualDelay*: two threads are one that is ahead and one that is behind,
two that are ahead, or a parent with its child; with more entries than live
threads a new thread may get a fresh entry or a used one.  A second line adds
only samples that miss, which arise already when the experiment that selected the
line has not begun or the selection is still empty.  *Gate*: two handlers
and the worker buy at once; delay and count have two values each so that a
configuration can change and change back.  *CozProfiler*: three threads are two
that leave by different ways at once and one that is created, not yet counted,
meanwhile; two visits and two experiments let a visit fall before, into, between
and after experiments.  *PythonGate*: requests come in until two tokens were bought,
which is enough for a miss, both primings of one `/set_enabled`, and a purchase by
each thread at once; the purchases under way may go past the bound.  A third
handler would only repeat the second: the worker is the third buyer.

Symmetry is used in runs without a liveness property only: over sources and
cgroups, and entries.  Sources and cgroups are interchangeable because no constant
names one; threads are not, since `Main` is one of them.

**Fairness.**  RequestCredit: the poll thread and the daemon's main thread are
scheduled (weak fairness), and a victim is a server that goes on receiving (weak
fairness of `ConsumeOnce`); nothing is assumed of requests and signals.
VirtualDelay: a thread inside `process_samples` or `add_delays` goes on, and a
thread that runs uses CPU time, on which its timer runs, so its handler runs (weak
fairness); nothing is assumed of blocked threads, the program's operations or the
experiments.  Gate: goroutines are scheduled, calls end by their timeout, and
requests keep coming (weak fairness); the daemon answers the worker again and
again if asked again and again (strong fairness of `Purchase(Worker)`), without
which no gate could be refilled.  PythonGate: threads are scheduled, calls end and
a suspension expires (weak fairness), a daemon asked again and again answers (strong
fairness of `Granted`); nothing is assumed of requests, since the worker looks by
itself.  CozProfiler: the profiler thread and the threads that are leaving are
scheduled and the kernel ends a process without threads (weak fairness); nothing is
assumed of the program, nor that a line is ever sampled (`Select`).

`CreditsAreUsed` is about requests that come to an end (the bound `MaxGranted`
ends them): `arm` moves `rr_cursor` onto the armed slot, so one source's requests
that never end may starve another's credits.

### Disagreements between the code and what is said of it

* **No refund** (`RequestCredit_refund`).  `k8s/request_credit/README.md:25` says a
  failed system call 449 gives its credit back once by default; `start()` switches
  both refund options off (`request_credit.cpp:278-280`) and no failure path
  refunds.
* **`in_use` survives its thread** (`VirtualDelay_inuse`).  `end_sampling` sets
  `in_use` and frees the entry; the next thread with that entry starts with
  `in_use` set, and its handler does nothing until a `post_block`, or a `catch_up`
  in an experiment.
* **A delay skipped twice** (`VirtualDelay_skip`).  A handler that runs between
  `pre_block` and `post_block` sleeps for the delays inserted meanwhile and counts
  them; `post_block` counts them again (`profiler.h:176-177`), which puts the
  thread ahead and makes all others pause for it.
* **A gate that never refills** (`Gate_lowwater`).  With a low-water mark of 0,
  which `normalizeRefillParams` accepts and computes for a target of 1,
  `currentRefillNeed` never finds a need although each miss answers "refill
  queued".  The Python gate has the same test in `_current_refill_need`.
* **Two injections for one rearm** (`RequestAware_once`).  `/rearm` arms, injects
  and disarms (`perf.cpp:1010`, `1018`, `1021`), and the sampler may take the arm in
  between and inject as well; `perf.cpp:48` promises at most one.

One more, without a run: the comment above `add_delays` in `catch_up`
(`profiler.h:150`) speaks of handling samples, and the code calls only
`add_delays`; the model does what the code does.

Each property of a passing run has a mutant: a definition changed the way a
plausible bug would (a lock dropped, a hint trusted, a guard lost), with which TLC
finds that property violated.  The mutated definitions are marked `mutant:`.

## 4. What is proved

The theorems hold for every value of the constants under the assumptions declared
with them (the definitions whose names end in `Assumption`; that of `RequestAware`,
a bound that is a natural number, is a hypothesis of its theorem).  They ask for
natural numbers, finite sets of threads, keys distinct from the null key, at least
one slot, a positive default delay (`main.cpp` replaces a zero), and the order of
the refill parameters that `normalizeRefillParams` and `mcoz_gate.py:78-85` enforce.

**Request-credit engine.**  `Shape` is inductive: types, `mu` is held exactly
while the poll thread is between lookup and write-back, its event is still in the
ring, its copy of the element agrees with the map up to `rr_cursor`
(`NoLostUpdate`), and no victim has two slots of one source.  The parts need each
other: the write-back keeps one slot per source because the copy is current, the
copy is current because only the holder of `mu` writes credits.  From it follow
`TypeCorrect`, `SourcesKeepOneSlot`, `DebitLosesNoUpdate`.  `BankInv` adds
`CreditsAreConsumable` (needed for the refinement: the balance of a source is the
credits of *its* slot, and a slot that holds credits is never given away or
left without a key).  Under `BankInv` each step of the engine is a step of
`CreditBank` or a stutter: `EngineIsCreditBank`.  `CreditsAlwaysBalance` follows
by an induction of its own.  So do `CountersStayInStep` and `MissesAreCovered`, by
an invariant on the counters that says where the poll thread is between counting a
trigger and recording its outcome.

**Virtual delays.**  `IInv` is `Scalars` (the shared variables are natural numbers
and lines) and `Threads`: every live thread has exactly one entry, and its record,
its entry and `global_delay` fit together (`Fine`): a thread in `catch_up` or
`end_sampling` that is about to sleep or to raise took its snapshot after it
entered, no snapshot in use is above `global_delay`, one that is about to raise is
ahead of its snapshot, and a blocked one's `pre_block_time` is not above
`global_delay`.  Since `global_delay` never falls, `Fine` survives the steps of
other threads.  It gives `VirtualDelayTypeCorrect` (in particular nothing
underflows) and `ThreadsPayBeforeWaking`.

With it `DelaysAreAccounted` is inductive: `global_delay` and all that is yet to be
added to it (what a thread is about to raise it by, or is ahead of it by, or was
created to inherit beyond it) is at most the delay that has a reason.  The sum over
the threads is the cardinality of `Owed`, a set with one element for each unit a thread
owes, so that it needs no recursion.  A step changes the share of one thread (`Own`):
it grows by no more than `allowed` does (a sample charged, an oversleep, a delay
skipped, a child that inherits), or shrinks by what the step adds to `global_delay`.
The others owe no more when `global_delay` rises.  This is `DelaysStayAccounted`.

**Gate.**  `IInv` is the type invariant, `TokensAreBacked`, and that a direct
arm buys one token (`FineCall`).  It gives `GateTypeCorrect` and `TokensAlwaysBacked`.

`BalanceStaysBounded` says by how much handlers and worker overshoot together, each
of which decided on a balance that does not show the purchases of the others.
`BalanceBounded` is not inductive; `PurchasesInv` is, with `IInv`.  Its witness is
the caller that decided last: the balance it saw, its own tokens exactly, and for each
of the others at most the largest purchase.  Whoever decides next becomes
the witness, and the former one is then among the others.  With a low-water mark of 0 the
bound leaves no room for the batch of a handler that found the gate empty, but then the worker
never buys, and one buyer less pays for it.  `PurchasesInv` also gives the size of every purchase (`PurchaseSize`), and with it
each step of the gate is a step of `TokenBank` or a stutter: `GateIsTokenBank`.

**Progress points and shutdown.**  `CozProfilerProofs` has seven conjuncts.  Beside
the types, `CountInv` says that `_num_threads_running` is at least the number of
counted threads, and equal to it until somebody calls `exit` (a second caller of
`exit` keeps its entry), hence never falls below zero; `ShutInv`, that whoever
is stopping or joining is the only one, and that somebody is as long as the
flag is set and the profiler thread not done; `IdleInv`, that no thread is left once
`pthread_exit` found the last one gone; `ExperimentInv` and `SavedInv`, where an
end-to-end run is and that what was logged, saved and counted is in this order.
They give `TypeCorrect`, `NoVisitLoggedTwice`, `OneExperiment`, `JoinedOnce`,
`ProfileComplete`, `NoThreadAbandoned`.

**Python gate.**  `IInv` is the type invariant, `TokensAreBacked`, `FineCall` and
`SuspensionInv`: while the gate is suspended, the calls that failed since and the
threads past the check are together no more than the handlers.  It holds because
the thread that suspends the gate is itself no longer past the check, and each
call that fails takes its thread out.  It gives `TypeCorrect`, `TokensBacked`,
`SuspendedGateIsQuiet`.  `BalanceStaysBounded` and `GateIsTokenBank` are proved along
the same lines as for the Go gate, with an invariant `PurchasesInv` of this gate.

**Request-aware mode.**  Of "at most once" there remains `InjectsAtMostTwice`, for
any number of rearms: the injections of an arm and those still due (the
one `/rearm` is about to make, the flag, the one the sampler has taken it for) are
never more than two.

**Only model-checked.**  Every liveness property (`EveryDebitIsInjected`,
`CreditsAreUsed`, `StopReturns`, `ThreadsLevelOut`, `MissIsRefilled`,
`EmptyIsRefilled`, `EndsWithLastThread`, `ShutdownReturns`), which is out of the
prover's reach.  Every invariant, action property and refinement that a passing run
checks is a theorem.

## 5. What is not modelled

* **Hooks of the BPF program and syscall profiles.**  Which hook calls
  `consume_once` under which policy is a table; that exactly one of them fires per
  receive depends on the kernel's tracepoints, which are not in the source.
* **Exchange of delay through the custom resource.**  `crd_update_thread` and its
  companions in `perf.cpp` are not called at this commit.  The datagram
  receivers and `perf_sampler_sync` share nothing but atomics they add to.
* **Control API and command-line tools.**  `scripts/cozctl` passes `--period-ms`
  (`cozctl:212`), which `container-run` of `coz` does not parse (`coz:310-321`), so that `/start` cannot start a daemon built from this
  source; a model of `/start` and `/stop` would have to invent the launcher.  What
  these requests set in the gates and the daemon is an input of the models
  of the gates and the daemon.
* **Thrift adapter, trace analyzer, header and Rust binding, kernel module.**  No
  state that outlives a call, except a connection counter.
* **Symbol lookup, wrappers.**  Functions of files; system calls.
* **Go daemon.**  Superseded by the C++ daemon.
* **Time.**  Durations of experiments (`profiler.cpp:204`), the adaptation of their
  length and the sample counts are arithmetic on clocks.  The models have no
  clock: a wait ends at some later step.
* **Within the modelled components.**  Target resolution and per-victim totals of the
  engine; a fixed line or delay in libcoz; `/set_target`, matching and statistics
  of the gates.  `/rearm` does nothing while the request-credit engine is active.

By lines most of the repository is generated Thrift code, benchmark programs and
their data, which is why the models stand for a small share of it.
