----------------------------- MODULE CozProfiler -----------------------------
(***************************************************************************)
(* The life of a program profiled by libcoz: threads start and end, visit  *)
(* progress points and leave the process, while the profiler thread runs   *)
(* experiments, writes down how often the points were visited in each, and *)
(* is stopped and joined by whichever thread runs shutdown().              *)
(*                                                                         *)
(* A thread reaches shutdown() from exit(), from the end of main(), or     *)
(* from pthread_exit() when it was the last thread being sampled.  Only    *)
(* the first caller joins the profiler thread; the others go on.           *)
(*                                                                         *)
(* Time is left out: a wait of a fixed length ends at some later step.     *)
(* How a line is selected and what delays are inserted is VirtualDelay's.  *)
(***************************************************************************)
EXTENDS Naturals, FiniteSets

CONSTANTS
  Thread,         \* application threads
  Main,           \* the one that runs main()
  Point,          \* counters of progress points: throughput, begin and end
  EndToEnd,       \* the throughput point named "end-to-end"
  MaxVisits,      \* bound: visits of each point in one behaviour
  MaxExperiments  \* bound: experiments in one behaviour

ASSUME CozProfilerAssumption ==
  /\ Main \in Thread /\ IsFiniteSet(Thread)
  /\ EndToEnd \in Point
  /\ MaxVisits \in Nat /\ MaxExperiments \in Nat

VARIABLES
  end_to_end,    \* COZ_END_TO_END, read once by init_coz
  running,       \* _running
  shutdown_run,  \* _shutdown_run
  num_threads,   \* _num_threads_running
  thread,        \* where each thread is, and how it leaves
  profiler,      \* where the profiler thread is
  created,       \* the points in _throughput_points and _latency_points
  count,         \* their counters
  to_save,       \* points the loop over the maps has still to save
  saved,         \* what the experiment saved: a function on the saved points
  experiments,   \* experiments begun
  logged,        \* history: the deltas written for each point, added up
  uncounted,     \* history: a thread was created but not counted when the
                 \* last counted one found _num_threads_running = 0
  process        \* "running", "ended" or "aborted"

threads  == <<shutdown_run, num_threads, thread, uncounted>>
points   == <<created, count>>
results  == <<to_save, saved, experiments, logged>>
vars == <<end_to_end, running, threads, profiler, points, results, process>>

\* Where a thread is: not there, created but not yet in add_thread, in its own
\* code, past end_sampling in pthread_exit, before test_and_set, before the
\* store to _running, in pthread_join, back from shutdown(), gone.
Place == {"none", "created", "app", "check", "claim", "stop", "join", "last", "gone"}

How == {"", "pthread_exit", "exit", "return"}

\* Waiting for a first point, at the loop's condition, selecting a line, saving
\* points, in the experiment, writing results, cooling off, after the loop, done.
ProfilerPlace ==
  {"points", "loop", "select", "save", "experiment", "log", "cool", "final", "done"}

Empty == [p \in {} |-> 0]

Init ==
  /\ end_to_end \in BOOLEAN
  /\ running = TRUE
  /\ shutdown_run = FALSE
  /\ num_threads = 1
  /\ thread = [t \in Thread |-> [at |-> IF t = Main THEN "app" ELSE "none", how |-> ""]]
  /\ profiler = "points"
  /\ created = IF end_to_end THEN {EndToEnd} ELSE {}
  /\ count = [p \in Point |-> 0]
  /\ to_save = {}
  /\ saved = Empty
  /\ experiments = 0
  /\ logged = [p \in Point |-> 0]
  /\ uncounted = FALSE
  /\ process = "running"

At(t, place) == thread[t].at = place

Goto(t, place) == thread' = [thread EXCEPT ![t].at = place]
-----------------------------------------------------------------------------
(***************************************************************************)
(* What the program does.                                                  *)
(***************************************************************************)
\* pthread_create.
Create(t, u) ==
  /\ At(t, "app") /\ At(u, "none")
  /\ Goto(u, "created")
  /\ UNCHANGED <<end_to_end, running, shutdown_run, num_threads, uncounted, profiler,
                 points, results, process>>

\* start_thread: add_thread, begin_sampling.
Start(t) ==
  /\ At(t, "created")
  /\ Goto(t, "app")
  /\ num_threads' = num_threads + 1
  /\ UNCHANGED <<end_to_end, running, shutdown_run, uncounted, profiler, points, results, process>>

\* get_throughput_point, get_latency_point: the profiler thread holds the lock
\* of a map while it saves the map's points.
FindPoint(t, p) ==
  /\ At(t, "app")
  /\ p \notin created
  /\ p # EndToEnd
  /\ profiler # "save"
  /\ created' = created \cup {p}
  /\ UNCHANGED <<end_to_end, running, threads, profiler, count, results, process>>

Visit(t, p) ==
  /\ At(t, "app")
  /\ p \in created \ {EndToEnd}
  /\ count[p] < MaxVisits
  /\ count' = [count EXCEPT ![p] = @ + 1]
  /\ UNCHANGED <<end_to_end, running, threads, profiler, created, results, process>>

\* on_error, the handler of SIGSEGV and SIGABRT: _exit(2) of libc.
Abort(t) ==
  /\ thread[t].at \notin {"none", "gone"}
  /\ process' = "aborted"
  /\ UNCHANGED <<end_to_end, running, threads, profiler, points, results>>
-----------------------------------------------------------------------------
(***************************************************************************)
(* How threads leave.                                                      *)
(***************************************************************************)
\* exit(), _exit(), _Exit().
Exit(t) ==
  /\ At(t, "app")
  /\ thread' = [thread EXCEPT ![t] = [at |-> "claim", how |-> "exit"]]
  /\ UNCHANGED <<end_to_end, running, shutdown_run, num_threads, uncounted, profiler,
                 points, results, process>>

\* The real main returned to wrapped_main.
ReturnFromMain ==
  /\ At(Main, "app")
  /\ thread' = [thread EXCEPT ![Main] = [at |-> "claim", how |-> "return"]]
  /\ count' = IF end_to_end THEN [count EXCEPT ![EndToEnd] = @ + 1] ELSE count
  /\ UNCHANGED <<end_to_end, running, shutdown_run, num_threads, uncounted, profiler,
                 created, results, process>>

\* handle_pthread_exit: end_sampling and remove_thread.
PthreadExit(t) ==
  /\ At(t, "app")
  /\ thread' = [thread EXCEPT ![t] = [at |-> "check", how |-> "pthread_exit"]]
  /\ num_threads' = num_threads - 1
  /\ UNCHANGED <<end_to_end, running, shutdown_run, uncounted, profiler, points, results, process>>

\* mutant: the last thread does not shut the profiler down
CheckNever(t) ==
  /\ At(t, "check")
  /\ Goto(t, "last")
  /\ UNCHANGED <<end_to_end, running, shutdown_run, num_threads, uncounted, profiler,
                 points, results, process>>

\* mutant: a thread leaving with one other left takes itself for the last
CheckOneLeft(t) ==
  /\ At(t, "check")
  /\ Goto(t, IF num_threads <= 1 THEN "claim" ELSE "last")
  /\ uncounted' = (uncounted \/ (num_threads = 0 /\ \E u \in Thread : At(u, "created")))
  /\ UNCHANGED <<end_to_end, running, shutdown_run, num_threads, profiler, points, results, process>>

\* if (_num_threads_running == 0) shutdown()
Check(t) ==
  /\ At(t, "check")
  /\ Goto(t, IF num_threads = 0 THEN "claim" ELSE "last")
  /\ uncounted' = (uncounted \/ (num_threads = 0 /\ \E u \in Thread : At(u, "created")))
  /\ UNCHANGED <<end_to_end, running, shutdown_run, num_threads, profiler, points, results, process>>

\* mutant: the flag is tested but not set
ClaimUnset(t) ==
  /\ At(t, "claim")
  /\ Goto(t, IF shutdown_run THEN "last" ELSE "stop")
  /\ UNCHANGED <<end_to_end, running, shutdown_run, num_threads, uncounted, profiler,
                 points, results, process>>

\* shutdown(): _shutdown_run.test_and_set().
Claim(t) ==
  /\ At(t, "claim")
  /\ Goto(t, IF shutdown_run THEN "last" ELSE "stop")
  /\ shutdown_run' = TRUE
  /\ UNCHANGED <<end_to_end, running, num_threads, uncounted, profiler, points, results, process>>

\* mutant: end_sampling does not look for the thread's entry
StopTwice(t) ==
  /\ At(t, "stop")
  /\ num_threads' = num_threads - 1
  /\ running' = FALSE
  /\ Goto(t, "join")
  /\ UNCHANGED <<end_to_end, shutdown_run, uncounted, profiler, points, results, process>>

\* end_sampling, unless pthread_exit has already called it, and the store to
\* _running.
Stop(t) ==
  /\ At(t, "stop")
  /\ num_threads' = IF thread[t].how = "pthread_exit" THEN num_threads ELSE num_threads - 1
  /\ running' = FALSE
  /\ Goto(t, "join")
  /\ UNCHANGED <<end_to_end, shutdown_run, uncounted, profiler, points, results, process>>

\* mutant: the profiler thread is not joined
JoinAtOnce(t) ==
  /\ At(t, "join")
  /\ Goto(t, "last")
  /\ UNCHANGED <<end_to_end, running, shutdown_run, num_threads, uncounted, profiler,
                 points, results, process>>

\* pthread_join of the profiler thread returns.
Join(t) ==
  /\ At(t, "join")
  /\ profiler = "done"
  /\ Goto(t, "last")
  /\ UNCHANGED <<end_to_end, running, shutdown_run, num_threads, uncounted, profiler,
                 points, results, process>>

\* The thread, or with it the process, ends.
Leave(t) ==
  /\ At(t, "last")
  /\ IF thread[t].how = "pthread_exit"
     THEN Goto(t, "gone") /\ UNCHANGED process
     ELSE process' = "ended" /\ UNCHANGED thread
  /\ UNCHANGED <<end_to_end, running, shutdown_run, num_threads, uncounted, profiler,
                 points, results>>

\* The process ends with its last thread.
LastThreadGone ==
  /\ \A t \in Thread : thread[t].at \in {"none", "gone"}
  /\ profiler = "done"
  /\ process' = "ended"
  /\ UNCHANGED <<end_to_end, running, threads, profiler, points, results>>

Leaving(t) == Check(t) \/ Claim(t) \/ Stop(t) \/ Join(t) \/ Leave(t)
-----------------------------------------------------------------------------
(***************************************************************************)
(* The profiler thread.                                                    *)
(***************************************************************************)
ProfilerStep(from, to) ==
  /\ profiler = from
  /\ profiler' = to
  /\ UNCHANGED <<end_to_end, threads, running, points, process>>

\* mutant: the wait for a first progress point does not look at _running
FirstPointOnly ==
  /\ created # {}
  /\ ProfilerStep("points", "loop")
  /\ UNCHANGED results

\* There is a progress point, or the program is leaving.
FirstPoint ==
  /\ created # {} \/ ~ running
  /\ ProfilerStep("points", "loop")
  /\ UNCHANGED results

\* while(_running)
Loop ==
  /\ ProfilerStep("loop", IF running THEN "select" ELSE "final")
  /\ UNCHANGED results

\* A line has been sampled, or one is fixed.
Select ==
  /\ experiments < MaxExperiments
  /\ ProfilerStep("select", "save")
  /\ to_save' = created
  /\ experiments' = experiments + 1
  /\ UNCHANGED <<saved, logged>>

\* The wait for a line, or what follows it, sees that the program is leaving.
SelectNone ==
  /\ ~ running
  /\ ProfilerStep("select", "final")
  /\ UNCHANGED results

Save(p) ==
  /\ p \in to_save
  /\ ProfilerStep("save", "save")
  /\ to_save' = to_save \ {p}
  /\ saved' = [q \in DOMAIN saved \cup {p} |-> IF q = p THEN count[p] ELSE saved[q]]
  /\ UNCHANGED <<experiments, logged>>

Begin ==
  /\ to_save = {}
  /\ ProfilerStep("save", "experiment")
  /\ UNCHANGED results

\* mutant: an experiment of an end-to-end run is as long as any other
FinishByTime ==
  /\ ProfilerStep("experiment", "log")
  /\ UNCHANGED results

\* The experiment's time is over; in end-to-end mode it lasts until shutdown.
Finish ==
  /\ end_to_end => ~ running
  /\ ProfilerStep("experiment", "log")
  /\ UNCHANGED results

\* mutant: the whole count is written, not what was added since it was saved
LogCount(p) ==
  /\ p \in DOMAIN saved
  /\ ProfilerStep("log", "log")
  /\ logged' = [logged EXCEPT ![p] = @ + count[p]]
  /\ saved' = [q \in DOMAIN saved \ {p} |-> saved[q]]
  /\ UNCHANGED <<to_save, experiments>>

\* get_delta of one saved point, written to the output.
Log(p) ==
  /\ p \in DOMAIN saved
  /\ ProfilerStep("log", "log")
  /\ logged' = [logged EXCEPT ![p] = @ + (count[p] - saved[p])]
  /\ saved' = [q \in DOMAIN saved \ {p} |-> saved[q]]
  /\ UNCHANGED <<to_save, experiments>>

\* The experiment is over; unless the program is leaving, a pause follows.
EndExperiment ==
  /\ DOMAIN saved = {}
  /\ ProfilerStep("log", IF running THEN "cool" ELSE "loop")
  /\ UNCHANGED results

CoolOff ==
  /\ ProfilerStep("cool", "loop")
  /\ UNCHANGED results

\* The sample counts are written and the file is closed.
LogSamples ==
  /\ ProfilerStep("final", "done")
  /\ UNCHANGED results

\* Everything the profiler thread does without a sample of the program.
ProfilerProgress ==
  \/ FirstPoint \/ Loop \/ SelectNone
  \/ \E p \in Point : Save(p) \/ Log(p)
  \/ Begin \/ Finish \/ EndExperiment \/ CoolOff \/ LogSamples
-----------------------------------------------------------------------------
ThreadStep(t) ==
  \/ \E u \in Thread : Create(t, u)
  \/ Start(t)
  \/ \E p \in Point : FindPoint(t, p) \/ Visit(t, p)
  \/ Abort(t)
  \/ Exit(t) \/ PthreadExit(t)
  \/ Leaving(t)

Next ==
  /\ process = "running"
  /\ \/ \E t \in Thread : ThreadStep(t)
     \/ ReturnFromMain
     \/ LastThreadGone
     \/ Select
     \/ ProfilerProgress

Safety == Init /\ [][Next]_vars

\* The kernel runs the threads it has; whether the program visits a point, is
\* sampled in a line, creates or ends a thread is its own affair.
Fairness ==
  /\ WF_vars(process = "running" /\ ProfilerProgress)
  /\ \A t \in Thread : WF_vars(process = "running" /\ Leaving(t))
  /\ WF_vars(process = "running" /\ LastThreadGone)

Spec == Safety /\ Fairness
-----------------------------------------------------------------------------
TypeOK ==
  /\ end_to_end \in BOOLEAN /\ running \in BOOLEAN
  /\ shutdown_run \in BOOLEAN /\ uncounted \in BOOLEAN
  /\ num_threads \in Nat
  /\ thread \in [Thread -> [at : Place, how : How]]
  /\ profiler \in ProfilerPlace
  /\ created \subseteq Point /\ to_save \subseteq created
  /\ count \in [Point -> Nat] /\ logged \in [Point -> Nat]
  /\ DOMAIN saved \subseteq Point /\ saved \in [DOMAIN saved -> Nat]
  /\ experiments \in Nat
  /\ process \in {"running", "ended", "aborted"}

\* progress_point.h:70: each visit is written down in at most one experiment,
\* however the program's increments and the profiler thread's reads of the
\* counters interleave.
VisitsLoggedOnce ==
  /\ \A p \in Point : logged[p] <= count[p]
  /\ \A p \in DOMAIN saved : logged[p] <= saved[p]

\* docs/coz.rst:60: an end-to-end run is "a single performance experiment
\* per-execution".
SingleExperiment ==
  end_to_end => experiments <= 1

\* profiler.h: "Atomic flag to guarantee shutdown procedures run exactly one
\* time": the profiler thread is never joined twice.
ShutdownOnce ==
  \A t, u \in Thread :
    thread[t].at \in {"stop", "join"} /\ thread[u].at \in {"stop", "join"} => t = u

\* profiler.cpp:286: shutdown is to "terminate the profiler thread, then exit".
\* The process ends before the profiler thread has written its last results only
\* if a second thread leaves while the first still waits for the join.
ExitAfterProfiler ==
  process = "ended" /\ profiler # "done" =>
    \E t, u \in Thread : t # u /\ At(t, "last") /\ thread[u].at \in {"stop", "join"}

\* profiler.h:134: only "if no more threads being sampled" does pthread_exit
\* stop the profiler: a thread is left without it only if it had been created,
\* but not counted, when the last counted thread ended, or if a thread leaves
\* through exit or the end of main.
StopsOnlyWhenIdle ==
  ~ running /\ (\E t \in Thread : At(t, "app")) =>
    uncounted \/ \E t \in Thread : thread[t].how \in {"exit", "return"}

\* The profiler thread alone does not keep the process alive.
EndsWithLastThread ==
  (\A t \in Thread : thread[t].at \in {"none", "gone"}) ~> (process # "running")

\* libcoz.cpp:362: "Run shutdown before exiting" does not hang: whatever the
\* profiler thread is at, a thread in shutdown() comes out of it.
ShutdownReturns ==
  \A t \in Thread : thread[t].at \in {"claim", "stop", "join"} ~>
                      (thread[t].at \in {"last", "gone"} \/ process # "running")
=============================================================================
