----------------------------- MODULE VirtualDelay -----------------------------
(***************************************************************************)
(* The virtual speedups of libcoz.  While an experiment is active, every   *)
(* sample of a thread in the selected line adds delay_size to the thread's *)
(* local_delay; a thread whose local_delay is ahead of global_delay raises *)
(* global_delay, and a thread that is behind sleeps until it has caught up. *)
(*                                                                         *)
(* A thread runs this code in two ways: from the SIGPROF handler, which    *)
(* may interrupt the program anywhere except where in_use is set, and from *)
(* the interposed pthread operations: before waking another thread it      *)
(* catches up, and after having been woken it skips the delays inserted    *)
(* while it was blocked.  global_delay, delay_size, selected_line and      *)
(* experiment_active are separate atomics: every load is a step.           *)
(***************************************************************************)
EXTENDS Integers, Sequences, FiniteSets

CONSTANTS
  Thread,     \* application threads, by thread id
  Main,       \* the one that runs main()
  NoThread,   \* NullKey, the tag of a free entry of _thread_states
  Slot,       \* entries of _thread_states (4096 in the code)
  Line,       \* source lines in scope
  NoLine,     \* nullptr
  DelaySize,  \* the delay sizes an experiment may choose
  Oversleep,  \* by how much a nanosleep may exceed what was asked for
  MaxSamples, \* bound: samples a sampler holds before it is read
  MaxAllowed  \* bound: delay the model lets come about in one behaviour

ASSUME VirtualDelayAssumption ==
  /\ Main \in Thread
  /\ NoThread \notin Thread
  /\ NoLine \notin Line
  /\ DelaySize \subseteq Nat
  /\ Oversleep \subseteq Nat /\ 0 \in Oversleep
  /\ MaxSamples \in Nat /\ MaxAllowed \in Nat

VARIABLES
  experiment_active,
  global_delay,
  delay_size,
  selected_line,
  next_line,
  profiler,       \* where the profiler thread is in its experiment loop
  thread_states,  \* the static_map: one thread_state per slot
  thread,         \* what each thread is doing
  allowed         \* history: all delay that has a reason (see DelaysAreAccounted)

experiment == <<experiment_active, delay_size, selected_line, profiler>>
vars == <<experiment_active, global_delay, delay_size, selected_line, next_line,
          profiler, thread_states, thread, allowed>>

\* Where a thread is: not there, created but not started, in its own code, in
\* a blocking call, in catch_up, in end_sampling.
Place == {"none", "created", "app", "blocked", "wake", "exit"}

\* Where it is in process_samples or add_delays; "idle" when in neither.
Pc == {"idle", "match", "hit", "miss", "charge", "select", "check", "compare",
       "raise", "pay", "skip"}

ThreadState ==
  [tag : Thread \cup {NoThread}, in_use : BOOLEAN, local_delay : Nat, pre_block_time : Nat]

\* seen is add_delays' snapshot of global_delay; entry (history) the value of
\* global_delay when catch_up or end_sampling was entered.
ThreadRecord ==
  [at : Place, pc : Pc, samples : Seq(Line), seen : Nat, entry : Nat, parent_delay : Nat]

NotThere ==
  [at |-> "none", pc |-> "idle", samples |-> <<>>, seen |-> 0, entry |-> 0,
   parent_delay |-> 0]

Larger(a, b) == IF a > b THEN a ELSE b

\* static_map::find
SlotOf(t) == CHOOSE i \in Slot : thread_states[i].tag = t

Local(t) == thread_states[SlotOf(t)].local_delay
InUse(t) == thread_states[SlotOf(t)].in_use

Live(t) == thread[t].at \notin {"none", "created"}

\* By how much a thread is ahead of the global delay.
Ahead(t) == Larger(0, Local(t) - global_delay)

Init ==
  /\ experiment_active = FALSE
  /\ global_delay = 0
  /\ delay_size = 0
  /\ selected_line = NoLine
  /\ next_line = NoLine
  /\ profiler = "select"
  /\ \E i \in Slot :
       thread_states =
         [j \in Slot |-> [tag |-> IF j = i THEN Main ELSE NoThread,
                          in_use |-> FALSE, local_delay |-> 0, pre_block_time |-> 0]]
  /\ thread = [t \in Thread |-> IF t = Main THEN [NotThere EXCEPT !.at = "app"] ELSE NotThere]
  /\ allowed = 0
-----------------------------------------------------------------------------
(***************************************************************************)
(* The profiler thread's experiment loop.                                  *)
(***************************************************************************)
Select ==
  /\ profiler = "select"
  /\ next_line # NoLine
  /\ selected_line' = next_line
  /\ profiler' = "size"
  /\ UNCHANGED <<experiment_active, global_delay, delay_size, next_line, thread_states,
                 thread, allowed>>

ChooseSize(d) ==
  /\ profiler = "size"
  /\ delay_size' = d
  /\ profiler' = "start"
  /\ UNCHANGED <<experiment_active, global_delay, selected_line, next_line,
                 thread_states, thread, allowed>>

Start ==
  /\ profiler = "start"
  /\ experiment_active' = TRUE
  /\ profiler' = "running"
  /\ UNCHANGED <<global_delay, delay_size, selected_line, next_line, thread_states,
                 thread, allowed>>

\* The experiment's time is over: its results are logged and next_line cleared.
ClearNext ==
  /\ profiler = "running"
  /\ next_line' = NoLine
  /\ profiler' = "end"
  /\ UNCHANGED <<experiment_active, global_delay, delay_size, selected_line,
                 thread_states, thread, allowed>>

End ==
  /\ profiler = "end"
  /\ experiment_active' = FALSE
  /\ profiler' = "select"
  /\ UNCHANGED <<global_delay, delay_size, selected_line, next_line, thread_states,
                 thread, allowed>>

ProfilerThread ==
  \/ Select
  \/ \E d \in DelaySize : ChooseSize(d)
  \/ Start
  \/ ClearNext
  \/ End
-----------------------------------------------------------------------------
(***************************************************************************)
(* process_samples and add_delays, run by thread t.                        *)
(***************************************************************************)
Goto(t, pc) == thread' = [thread EXCEPT ![t].pc = pc]

\* add_delays is over.  The handler returns to where the thread was; catch_up
\* clears in_use and the thread wakes another one; end_sampling gives up the
\* entry, with in_use as it is.
Return(t, local) ==
  LET i == SlotOf(t) IN
  CASE thread[t].at = "wake" ->
         /\ thread_states' = [thread_states EXCEPT ![i].local_delay = local, ![i].in_use = FALSE]
         /\ thread' = [thread EXCEPT ![t].at = "app", ![t].pc = "idle",
                                         ![t].seen = 0, ![t].entry = 0]
    [] thread[t].at = "exit" ->
         /\ thread_states' = [thread_states EXCEPT ![i].local_delay = local, ![i].tag = NoThread]
         /\ thread' = [thread EXCEPT ![t] = NotThere]
    [] OTHER ->
         /\ thread_states' = [thread_states EXCEPT ![i].local_delay = local]
         /\ thread' = [thread EXCEPT ![t].pc = "idle", ![t].seen = 0]

\* The loop over the samples: match_line reads selected_line.
Match(t) ==
  /\ thread[t].pc = "match"
  /\ IF thread[t].samples = <<>>
     THEN Goto(t, "check")
     ELSE Goto(t, IF Head(thread[t].samples) = selected_line THEN "hit" ELSE "miss")
  /\ UNCHANGED <<experiment, global_delay, next_line, thread_states, allowed>>

\* if(_experiment_active)
Attribute(t) ==
  /\ thread[t].pc \in {"hit", "miss"}
  /\ IF experiment_active /\ thread[t].pc = "hit" THEN Goto(t, "charge")
     ELSE IF ~ experiment_active THEN Goto(t, "select")
     ELSE thread' = [thread EXCEPT ![t].pc = "match", ![t].samples = Tail(@)]
  /\ UNCHANGED <<experiment, global_delay, next_line, thread_states, allowed>>

\* state->local_delay += _delay_size
Charge(t) ==
  /\ thread[t].pc = "charge"
  /\ thread_states' = [thread_states EXCEPT ![SlotOf(t)].local_delay = @ + delay_size]
  /\ thread' = [thread EXCEPT ![t].pc = "match", ![t].samples = Tail(@)]
  /\ allowed' = allowed + delay_size
  /\ UNCHANGED <<experiment, global_delay, next_line>>

\* Outside experiments the sampled line may become the next one.
Suggest(t) ==
  /\ thread[t].pc = "select"
  /\ next_line' = IF next_line = NoLine THEN Head(thread[t].samples) ELSE next_line
  /\ thread' = [thread EXCEPT ![t].pc = "match", ![t].samples = Tail(@)]
  /\ UNCHANGED <<experiment, global_delay, thread_states, allowed>>

\* add_delays: is an experiment running?
Check(t) ==
  /\ thread[t].pc = "check"
  /\ Goto(t, IF experiment_active THEN "compare" ELSE "skip")
  /\ UNCHANGED <<experiment, global_delay, next_line, thread_states, allowed>>

\* mutant: a thread that is ahead is left alone
CompareBehindOnly(t) ==
  /\ thread[t].pc = "compare"
  /\ IF Local(t) >= global_delay
     THEN Return(t, Local(t))
     ELSE /\ thread' = [thread EXCEPT ![t].seen = global_delay, ![t].pc = "pay"]
          /\ UNCHANGED thread_states
  /\ UNCHANGED <<experiment, global_delay, next_line, allowed>>

\* A snapshot of global_delay is compared with local_delay.
Compare(t) ==
  /\ thread[t].pc = "compare"
  /\ IF Local(t) = global_delay
     THEN Return(t, Local(t))
     ELSE /\ thread' = [thread EXCEPT ![t].seen = global_delay,
                                      ![t].pc = IF Local(t) > global_delay THEN "raise" ELSE "pay"]
          /\ UNCHANGED thread_states
  /\ UNCHANGED <<experiment, global_delay, next_line, allowed>>

\* mutant: the thread's whole delay is added, not what it is ahead by
RaiseByLocal(t) ==
  /\ thread[t].pc = "raise"
  /\ global_delay' = global_delay + Local(t)
  /\ Return(t, Local(t))
  /\ UNCHANGED <<experiment, next_line, allowed>>

\* The thread is ahead: fetch_add of what it was ahead by at the snapshot.
Raise(t) ==
  /\ thread[t].pc = "raise"
  /\ global_delay' = global_delay + (Local(t) - thread[t].seen)
  /\ Return(t, Local(t))
  /\ UNCHANGED <<experiment, next_line, allowed>>

\* mutant: the time slept is not counted
PayUncounted(t) ==
  /\ thread[t].pc = "pay"
  /\ Return(t, Local(t))
  /\ UNCHANGED <<experiment, global_delay, next_line, allowed>>

\* The thread was behind: it sleeps, and counts what it slept.
Pay(t) ==
  /\ thread[t].pc = "pay"
  /\ \E over \in Oversleep :
       /\ over > 0 => allowed < MaxAllowed
       /\ Return(t, thread[t].seen + over)
       /\ allowed' = allowed + over
  /\ UNCHANGED <<experiment, global_delay, next_line>>

\* No experiment: what is owed is forgotten.
Skip(t) ==
  /\ thread[t].pc = "skip"
  /\ Return(t, global_delay)
  /\ UNCHANGED <<experiment, global_delay, next_line, allowed>>

Work(t) ==
  \/ Match(t) \/ Attribute(t) \/ Charge(t) \/ Suggest(t)
  \/ Check(t) \/ Compare(t) \/ Raise(t) \/ Pay(t) \/ Skip(t)
-----------------------------------------------------------------------------
(***************************************************************************)
(* What the program does, between two such calls.                          *)
(***************************************************************************)
Running(t) == thread[t].at = "app" /\ thread[t].pc = "idle"

\* The kernel samples the thread.
Sample(t, l) ==
  /\ Running(t)
  /\ Len(thread[t].samples) < MaxSamples
  /\ allowed < MaxAllowed
  /\ thread' = [thread EXCEPT ![t].samples = Append(@, l)]
  /\ UNCHANGED <<experiment, global_delay, next_line, thread_states, allowed>>

\* SIGPROF: samples_ready.  The thread's CPU-time timer also expires between
\* pre_block and post_block, where the thread still runs, or runs again.
Handler(t) ==
  /\ thread[t].at \in {"app", "blocked"}
  /\ thread[t].pc = "idle"
  /\ ~ InUse(t)
  /\ Goto(t, "match")
  /\ UNCHANGED <<experiment, global_delay, next_line, thread_states, allowed>>

\* An operation that may wake another thread; add_delays follows only if an
\* experiment is active.
CatchUp(t) ==
  /\ Running(t)
  /\ experiment_active
  /\ thread_states' = [thread_states EXCEPT ![SlotOf(t)].in_use = TRUE]
  /\ thread' = [thread EXCEPT ![t].at = "wake", ![t].pc = "check",
                                   ![t].entry = global_delay]
  /\ UNCHANGED <<experiment, global_delay, next_line, allowed>>

\* pre_block, before a call that may block.
PreBlock(t) ==
  /\ Running(t)
  /\ allowed < MaxAllowed
  /\ thread_states' = [thread_states EXCEPT ![SlotOf(t)].pre_block_time = global_delay]
  /\ thread' = [thread EXCEPT ![t].at = "blocked"]
  /\ UNCHANGED <<experiment, global_delay, next_line, allowed>>

\* post_block; skip_delays is false when the call timed out.  pre_block_time is
\* dead from here on.
PostBlock(t, skip_delays) ==
  LET i == SlotOf(t)
      woken == [thread_states[i] EXCEPT
                  !.in_use = FALSE,
                  !.pre_block_time = 0,
                  !.local_delay = IF skip_delays
                                  THEN @ + (global_delay - thread_states[i].pre_block_time)
                                  ELSE @]
  IN
  /\ thread[t].at = "blocked"
  /\ thread[t].pc = "idle"
  /\ thread_states' = [thread_states EXCEPT ![i] = woken]
  /\ thread' = [thread EXCEPT ![t].at = "app"]
  /\ allowed' = allowed + (Larger(0, woken.local_delay - global_delay) - Ahead(t))
  /\ UNCHANGED <<experiment, global_delay, next_line>>

\* pthread_create: the child will start with its parent's delay.
Create(t, child) ==
  /\ Running(t)
  /\ thread[child].at = "none"
  /\ Ahead(t) > 0 => allowed < MaxAllowed
  /\ thread' = [thread EXCEPT ![child] = [NotThere EXCEPT !.at = "created",
                                                          !.parent_delay = Local(t)]]
  /\ allowed' = allowed + Ahead(t)
  /\ UNCHANGED <<experiment, global_delay, next_line, thread_states>>

\* mutant: insert stores its tag in the first bucket without testing it
StartThreadOverTag(t) ==
  /\ thread[t].at = "created"
  /\ \E i \in Slot :
       thread_states' = [thread_states EXCEPT ![i].tag = t,
                                              ![i].local_delay = thread[t].parent_delay]
  /\ thread' = [thread EXCEPT ![t] = [NotThere EXCEPT !.at = "app"]]
  /\ UNCHANGED <<experiment, global_delay, next_line, allowed>>

\* start_thread: static_map::insert tags a free entry, whichever the hash of
\* the thread id leads to, and begin_sampling starts its sampler.
StartThread(t) ==
  /\ thread[t].at = "created"
  /\ \E i \in Slot :
       /\ thread_states[i].tag = NoThread
       /\ thread_states' = [thread_states EXCEPT ![i].tag = t,
                                                 ![i].local_delay = thread[t].parent_delay]
  /\ thread' = [thread EXCEPT ![t] = [NotThere EXCEPT !.at = "app"]]
  /\ UNCHANGED <<experiment, global_delay, next_line, allowed>>

\* end_sampling: the thread's last samples are processed before it goes.
Exit(t) ==
  /\ Running(t)
  /\ thread_states' = [thread_states EXCEPT ![SlotOf(t)].in_use = TRUE]
  /\ thread' = [thread EXCEPT ![t].at = "exit", ![t].pc = "match",
                                   ![t].entry = global_delay]
  /\ UNCHANGED <<experiment, global_delay, next_line, allowed>>

Program(t) ==
  \/ \E l \in Line : Sample(t, l)
  \/ Handler(t)
  \/ CatchUp(t)
  \/ PreBlock(t)
  \/ \E skip_delays \in BOOLEAN : PostBlock(t, skip_delays)
  \/ \E child \in Thread : Create(t, child)
  \/ StartThread(t)
  \/ Exit(t)

Next == ProfilerThread \/ \E t \in Thread : Work(t) \/ Program(t)

Safety == Init /\ [][Next]_vars

(***************************************************************************)
(* A thread in the middle of process_samples or add_delays goes on, and a  *)
(* thread that runs burns CPU time, so its timer expires again and again.  *)
(* Nothing is assumed of blocked threads, of the program's operations or   *)
(* of the experiments.                                                     *)
(***************************************************************************)
Spec ==
  Safety /\ \A t \in Thread : WF_vars(Work(t)) /\ WF_vars(thread[t].at = "app" /\ Handler(t))
-----------------------------------------------------------------------------
TypeOK ==
  /\ experiment_active \in BOOLEAN
  /\ global_delay \in Nat
  /\ delay_size \in Nat
  /\ selected_line \in Line \cup {NoLine}
  /\ next_line \in Line \cup {NoLine}
  /\ profiler \in {"select", "size", "start", "running", "end"}
  /\ thread_states \in [Slot -> ThreadState]
  /\ thread \in [Thread -> ThreadRecord]
  /\ allowed \in Nat
  /\ \A t \in Thread : Live(t) => \E i \in Slot : thread_states[i].tag = t
  /\ \A i, j \in Slot : thread_states[i].tag = thread_states[j].tag
                          /\ thread_states[i].tag # NoThread => i = j

\* The delay a thread has yet to pass on to the others: what it is about to add
\* to global_delay, else what it is ahead by.
Pending(t) ==
  CASE thread[t].pc = "raise" -> Local(t) - thread[t].seen
    [] thread[t].at = "created" -> Larger(0, thread[t].parent_delay - global_delay)
    [] Live(t) /\ thread[t].pc # "raise" -> Ahead(t)
    [] OTHER -> 0

\* All of it, one element for each unit of a thread's.
Owed == UNION {{t} \X (1 .. Pending(t)) : t \in Thread}

\* global_delay, and what threads have yet to add to it, never exceed the delay
\* that has a reason: samples in the selected line, sleeping too long, a child
\* that inherits a delay its parent has not passed on, and a skip by a thread
\* that had already slept in its handler.  In particular two threads that are
\* ahead at the same snapshot of global_delay (profiler.cpp:421-427) add no
\* more than both have earned.
DelaysAreAccounted ==
  global_delay + Cardinality(Owed) <= allowed

\* profiler.h:143: a thread has executed all the delays inserted before its
\* call when it goes on to wake another thread, or to end.
PaidBeforeWaking ==
  [][\A t \in Thread :
       thread[t].at \in {"wake", "exit"} /\ thread'[t].at # thread[t].at =>
         thread_states'[SlotOf(t)].local_delay >= thread[t].entry]_vars

\* As long as the experiment goes on, a running thread whose timer may act and
\* that is not level with the others gets level, by pausing or by making them
\* pause (here for delays that come to an end, at MaxAllowed).  Blocked threads
\* are left out: they have no CPU time.
Pausing(t) == thread[t].at \in {"none", "created", "blocked"} \/ ~ experiment_active

ThreadsLevelOut ==
  \A t \in Thread :
    (Running(t) /\ ~ InUse(t) /\ experiment_active /\ Local(t) # global_delay)
      ~> (Pausing(t) \/ Local(t) = global_delay)

\* thread_state.h:18: in_use is set by a thread to keep its own signal handler
\* out, that is, while the thread is in catch_up, post_block or end_sampling.
InUseMeansBusy ==
  \A t \in Thread : Live(t) /\ InUse(t) => thread[t].at \in {"wake", "exit"}

\* profiler.h:176: post_block skips the delays that were inserted during the
\* blocked period, so it never puts a thread ahead of the global delay.
SkipNeverOvershoots ==
  [][\A t \in Thread :
       thread[t].at = "blocked" /\ thread'[t].at = "app" /\ Local(t)' > Local(t) =>
         Local(t)' <= global_delay]_vars
=============================================================================
