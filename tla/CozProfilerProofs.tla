-------------------------- MODULE CozProfilerProofs --------------------------
(***************************************************************************)
(* The safety properties of CozProfiler, for any set of threads and points *)
(* and without the bounds' values mattering.                               *)
(***************************************************************************)
EXTENDS CozProfiler, FiniteSetTheorems, TLAPS

Exiting == \E t \in Thread : thread[t].how \in {"exit", "return"}

InShutdown(t) == thread[t].at \in {"stop", "join"}

\* The threads with an entry that end_sampling will remove.
Counted ==
  {t \in Thread : \/ At(t, "app")
                  \/ thread[t].at \in {"claim", "stop"} /\ thread[t].how # "pthread_exit"}

HowInv ==
  \A t \in Thread : /\ thread[t].at \in {"none", "created", "app"} <=> thread[t].how = ""
                    /\ At(t, "check") => thread[t].how = "pthread_exit"

\* A second caller of exit keeps its entry, so that the counter may be too high.
CountInv ==
  /\ num_threads >= Cardinality(Counted)
  /\ ~ Exiting => num_threads = Cardinality(Counted)

ShutInv ==
  /\ ShutdownOnce
  /\ ~ running => shutdown_run
  /\ \A t \in Thread : InShutdown(t) => shutdown_run
  /\ \A t \in Thread : At(t, "last") /\ thread[t].how \in {"exit", "return"} => shutdown_run
  /\ shutdown_run => profiler = "done" \/ \E u \in Thread : InShutdown(u)
  /\ ExitAfterProfiler

\* Once pthread_exit has found the last counted thread gone, and nothing was
\* created before, nothing will be.
IdleInv ==
  /\ shutdown_run \/ (\E t \in Thread : At(t, "claim") /\ thread[t].how = "pthread_exit")
  /\ ~ Exiting
  /\ ~ uncounted
  => \A u \in Thread : ~ At(u, "app") /\ ~ At(u, "created")

ExperimentInv ==
  end_to_end =>
    \/ experiments = 0 /\ profiler \in {"points", "loop", "select", "final", "done"}
    \/ experiments = 1 /\ profiler \in {"save", "experiment"}
    \/ experiments = 1 /\ ~ running /\ profiler \in {"log", "loop", "final", "done"}

SavedInv ==
  /\ VisitsLoggedOnce
  /\ \A p \in DOMAIN saved : saved[p] <= count[p]

IInv ==
  /\ TypeOK
  /\ HowInv
  /\ CountInv
  /\ ShutInv
  /\ IdleInv
  /\ ExperimentInv
  /\ SavedInv

ProfilerMove == Select \/ ProfilerProgress

\* The steps that move a thread.
ThreadMove(t) ==
  \/ \E u \in Thread : Create(t, u)
  \/ Start(t)
  \/ Exit(t) \/ PthreadExit(t)
  \/ t = Main /\ ReturnFromMain
  \/ Leaving(t)

LEMMA IInvInit == Init => IInv
<1> SUFFICES ASSUME Init PROVE IInv
  OBVIOUS
<1>1. TypeOK
  BY CozProfilerAssumption DEF Init, TypeOK, Place, How, ProfilerPlace, Empty
<1>2. HowInv
  BY DEF Init, HowInv, At
<1>3. CountInv
  <2>1. Counted = {Main}
    BY CozProfilerAssumption DEF Init, Counted, At
  <2>2. Cardinality(Counted) = 1
    BY <2>1, FS_Singleton
  <2>3. num_threads = 1
    BY DEF Init
  <2> QED
    BY <2>2, <2>3 DEF CountInv
<1>4. ShutInv
  BY DEF Init, ShutInv, ShutdownOnce, InShutdown, At, ExitAfterProfiler
<1>5. IdleInv
  BY DEF Init, IdleInv, At
<1>6. ExperimentInv
  BY DEF Init, ExperimentInv
<1>7. SavedInv
  <2>1. DOMAIN saved = {} /\ \A p \in Point : logged[p] = 0 /\ count[p] = 0
    BY DEF Init, Empty
  <2> QED
    BY <2>1 DEF SavedInv, VisitsLoggedOnce
<1> QED
  BY <1>1, <1>2, <1>3, <1>4, <1>5, <1>6, <1>7 DEF IInv

\* The profiler thread disturbs nothing but its own state, and stops at "done".
LEMMA ProfilerMoveFacts ==
  ASSUME ProfilerMove
  PROVE  /\ UNCHANGED <<end_to_end, running, shutdown_run, num_threads, thread, uncounted,
                        created, count, process>>
         /\ profiler # "done"
BY DEF ProfilerMove, ProfilerProgress, Select, FirstPoint, Loop, SelectNone, Save, Log, Begin,
       Finish, EndExperiment, CoolOff, LogSamples, ProfilerStep, threads, points

\* A thread that moves leaves the profiler thread's state alone.
LEMMA ThreadMoveFacts ==
  ASSUME NEW t \in Thread, ThreadMove(t)
  PROVE  UNCHANGED <<end_to_end, profiler, created, to_save, saved, experiments, logged>>
BY DEF ThreadMove, Create, Start, Exit, PthreadExit, ReturnFromMain, Leaving, Check, Claim,
       Stop, Join, Leave, points, results

\* Next, by what it moves.
LEMMA NextCases ==
  ASSUME Next
  PROVE  \/ ProfilerMove
         \/ \E t \in Thread : ThreadMove(t)
         \/ \E t \in Thread, p \in Point : FindPoint(t, p) \/ Visit(t, p)
         \/ \E t \in Thread : Abort(t)
         \/ LastThreadGone
<1>1. CASE \E t \in Thread : ThreadStep(t)
  BY <1>1 DEF ThreadStep, ThreadMove
<1>2. CASE ReturnFromMain
  BY <1>2, CozProfilerAssumption DEF ThreadMove
<1> QED
  BY <1>1, <1>2 DEF Next, ProfilerMove
\* The parts of the invariant the profiler thread may disturb, when it moves.
LEMMA ProfilerMovePreserves ==
  ASSUME IInv, ProfilerMove
  PROVE  IInv'
<1>1. /\ UNCHANGED <<end_to_end, running, shutdown_run, num_threads, thread, uncounted,
                     created, count, process>>
      /\ profiler # "done"
  BY ProfilerMoveFacts
<1>2. TypeOK /\ SavedInv /\ ExperimentInv /\ HowInv /\ CountInv /\ ShutInv /\ IdleInv
  BY DEF IInv
<1>3. /\ TypeOK' /\ SavedInv'
  <2>1. CASE \E p \in Point : Save(p)
    <3>1. PICK p \in Point : Save(p)
      BY <2>1
    <3>2. count[p] \in Nat /\ logged[p] <= count[p]
      BY <1>2 DEF TypeOK, SavedInv, VisitsLoggedOnce
    <3> QED
      BY <1>1, <1>2, <3>1, <3>2 DEF Save, ProfilerStep, TypeOK, SavedInv, VisitsLoggedOnce, ProfilerPlace
  <2>2. CASE \E p \in Point : Log(p)
    <3>1. PICK p \in Point : Log(p)
      BY <2>2
    <3>2. /\ count[p] \in Nat /\ logged[p] \in Nat /\ saved[p] \in Nat
          /\ logged[p] <= saved[p] /\ saved[p] <= count[p]
      BY <1>2, <3>1 DEF TypeOK, SavedInv, VisitsLoggedOnce, Log
    <3>3. /\ logged[p] + (count[p] - saved[p]) \in Nat
          /\ logged[p] + (count[p] - saved[p]) <= count[p]
      BY <3>2
    <3>4. /\ DOMAIN saved' = DOMAIN saved \ {p}
          /\ \A q \in DOMAIN saved \ {p} : saved'[q] = saved[q]
          /\ saved' = [q \in DOMAIN saved \ {p} |-> saved[q]]
          /\ logged' = [logged EXCEPT ![p] = logged[p] + (count[p] - saved[p])]
          /\ profiler' = "log" /\ UNCHANGED <<to_save, experiments>>
      BY <3>1 DEF Log, ProfilerStep
    <3>5. TypeOK'
      BY <1>1, <1>2, <3>3, <3>4 DEF TypeOK, ProfilerPlace
    <3>6. SavedInv'
      BY <1>1, <1>2, <3>3, <3>4 DEF TypeOK, SavedInv, VisitsLoggedOnce
    <3> QED
      BY <3>5, <3>6
  <2>3. CASE Select
    BY <1>1, <1>2, <2>3 DEF Select, ProfilerStep, TypeOK, SavedInv, VisitsLoggedOnce, ProfilerPlace
  <2>4. CASE /\ ~ Select
             /\ ~ (\E p \in Point : Save(p))
             /\ ~ (\E p \in Point : Log(p))
    BY <1>1, <1>2, <2>4 DEF ProfilerMove, ProfilerProgress, FirstPoint, Loop, SelectNone, Begin, Finish,
       EndExperiment, CoolOff, LogSamples, ProfilerStep, results, TypeOK, SavedInv,
       VisitsLoggedOnce, ProfilerPlace
  <2> QED
    BY <2>1, <2>2, <2>3, <2>4
<1>4. ExperimentInv'
  <2>1. experiments \in Nat /\ end_to_end \in BOOLEAN /\ running \in BOOLEAN
    BY <1>2 DEF TypeOK
  <2>2. CASE Select
    BY <1>1, <1>2, <2>1, <2>2 DEF ExperimentInv, Select, ProfilerStep
  <2>3. CASE FirstPoint \/ Loop \/ SelectNone \/ Begin
    BY <1>1, <1>2, <2>1, <2>3 DEF ExperimentInv, FirstPoint, Loop, SelectNone, Begin, ProfilerStep,
       results
  <2>4. CASE Finish \/ EndExperiment \/ CoolOff \/ LogSamples
    BY <1>1, <1>2, <2>1, <2>4 DEF ExperimentInv, Finish, EndExperiment, CoolOff, LogSamples,
       ProfilerStep, results
  <2>5. CASE \E p \in Point : Save(p) \/ Log(p)
    BY <1>1, <1>2, <2>1, <2>5 DEF ExperimentInv, Save, Log, ProfilerStep
  <2> QED
    BY <2>2, <2>3, <2>4, <2>5 DEF ProfilerMove, ProfilerProgress
<1>5. HowInv' /\ CountInv' /\ IdleInv'
  BY <1>1, <1>2 DEF HowInv, CountInv, IdleInv, At, Counted, Exiting
<1>6. ShutInv'
  BY <1>1, <1>2 DEF ShutInv, ShutdownOnce, InShutdown, At, ExitAfterProfiler
<1> QED
  BY <1>3, <1>4, <1>5, <1>6 DEF IInv
\* An entry gained or given up is counted; a second caller of exit only makes
\* the counter too high.
LEMMA ThreadMoveCounts ==
  ASSUME IInv, NEW t \in Thread, ThreadMove(t)
  PROVE  CountInv' /\ num_threads' \in Nat
<1>1. TypeOK /\ HowInv /\ CountInv
  BY DEF IInv
<1>2. IsFiniteSet(Counted)
  BY CozProfilerAssumption, FS_Subset DEF Counted
<1>3. /\ Cardinality(Counted) \in Nat /\ num_threads \in Nat
      /\ num_threads >= Cardinality(Counted)
      /\ ~ Exiting => num_threads = Cardinality(Counted)
  BY <1>1, <1>2, FS_CardinalityType DEF TypeOK, CountInv
<1>4. t \in Counted => Cardinality(Counted \ {t}) = Cardinality(Counted) - 1
                      /\ Cardinality(Counted) >= 1
  <2>1. Cardinality(Counted \ {t}) = IF t \in Counted THEN Cardinality(Counted) - 1
                                     ELSE Cardinality(Counted)
    BY <1>2, FS_RemoveElement
  <2>2. Cardinality(Counted \ {t}) \in Nat
    BY <1>2, FS_CardinalityType, FS_Subset
  <2> QED
    BY <1>3, <2>1, <2>2
<1>5. CASE UNCHANGED <<Counted, num_threads>> /\ (Exiting => Exiting')
  BY <1>3, <1>5 DEF CountInv
<1>6. CASE Counted' = Counted \ {t} /\ t \in Counted /\ num_threads' = num_threads - 1
           /\ (Exiting => Exiting')
  BY <1>3, <1>4, <1>6 DEF CountInv
<1>7. CASE Counted' = Counted \ {t} /\ t \in Counted /\ UNCHANGED num_threads /\ Exiting'
  BY <1>3, <1>4, <1>7 DEF CountInv
<1>8. CASE Counted' = Counted \cup {t} /\ t \notin Counted /\ num_threads' = num_threads + 1
           /\ (Exiting => Exiting')
  <2>1. Cardinality(Counted \cup {t}) = Cardinality(Counted) + 1
    BY <1>2, <1>8, FS_AddElement
  <2> QED
    BY <1>3, <1>8, <2>1 DEF CountInv
<1>9. thread \in [Thread -> [at : Place, how : How]]
  BY <1>1 DEF TypeOK
<1>10. CASE \E u \in Thread : Create(t, u)
  BY <1>5, <1>9, <1>10 DEF Create, Goto, At, Counted, Exiting
<1>11. CASE Start(t)
  BY <1>8, <1>9, <1>11 DEF Start, Goto, At, Counted, Exiting
<1>12. CASE Exit(t)
  BY <1>5, <1>9, <1>12 DEF Exit, At, Counted, Exiting
<1>13. CASE PthreadExit(t)
  <2>1. Counted' = Counted \ {t} /\ t \in Counted
    BY <1>9, <1>13 DEF PthreadExit, At, Counted
  <2>2. Exiting => Exiting'
    <3>1. thread[t].how = ""
      BY <1>1, <1>13 DEF HowInv, PthreadExit, At
    <3> QED
      BY <1>9, <1>13, <3>1 DEF PthreadExit, Exiting
  <2> QED
    BY <1>6, <1>13, <2>1, <2>2 DEF PthreadExit
<1>14. CASE t = Main /\ ReturnFromMain
  BY <1>5, <1>9, <1>14 DEF ReturnFromMain, At, Counted, Exiting
<1>15. CASE Check(t)
  <2>1. thread[t].how = "pthread_exit"
    BY <1>1, <1>15 DEF HowInv, Check, At
  <2> QED
    BY <1>5, <1>9, <1>15, <2>1 DEF Check, Goto, At, Counted, Exiting
<1>16. CASE Claim(t)
  <2>1. Exiting => Exiting'
    BY <1>9, <1>16 DEF Claim, Goto, Exiting
  <2>2. thread[t].how \in {"pthread_exit", "exit", "return"}
    BY <1>1, <1>9, <1>16 DEF HowInv, Claim, At, How
  <2>3. CASE ~ shutdown_run \/ thread[t].how = "pthread_exit"
    BY <1>5, <1>9, <1>16, <2>1, <2>3 DEF Claim, Goto, At, Counted
  <2>4. CASE shutdown_run /\ thread[t].how # "pthread_exit"
    <3>1. Counted' = Counted \ {t} /\ t \in Counted
      BY <1>9, <1>16, <2>4 DEF Claim, Goto, At, Counted
    <3>2. Exiting'
      BY <1>9, <1>16, <2>2, <2>4 DEF Claim, Goto, Exiting
    <3> QED
      BY <1>7, <1>16, <3>1, <3>2 DEF Claim
  <2> QED
    BY <2>3, <2>4
<1>17. CASE Stop(t)
  <2>1. Exiting => Exiting'
    BY <1>9, <1>17 DEF Stop, Goto, Exiting
  <2>2. CASE thread[t].how = "pthread_exit"
    BY <1>5, <1>9, <1>17, <2>1, <2>2 DEF Stop, Goto, At, Counted
  <2>3. CASE thread[t].how # "pthread_exit"
    <3>1. Counted' = Counted \ {t} /\ t \in Counted
      BY <1>9, <1>17, <2>3 DEF Stop, Goto, At, Counted
    <3> QED
      BY <1>6, <1>17, <2>1, <2>3, <3>1 DEF Stop
  <2> QED
    BY <2>2, <2>3
<1>18. CASE Join(t) \/ Leave(t)
  BY <1>5, <1>9, <1>18 DEF Join, Leave, Goto, At, Counted, Exiting
<1> QED
  BY <1>10, <1>11, <1>12, <1>13, <1>14, <1>15, <1>16, <1>17, <1>18 DEF ThreadMove, Leaving
\* A thread that moves keeps the types, and what belongs to the experiments.
LEMMA ThreadMoveTypes ==
  ASSUME IInv, NEW t \in Thread, ThreadMove(t)
  PROVE  TypeOK' /\ HowInv' /\ ExperimentInv' /\ SavedInv'
<1>1. TypeOK /\ HowInv /\ ExperimentInv /\ SavedInv
  BY DEF IInv
<1>2. num_threads' \in Nat
  BY ThreadMoveCounts
<1>3. UNCHANGED <<end_to_end, profiler, created, to_save, saved, experiments, logged>>
  BY ThreadMoveFacts
<1>4. thread \in [Thread -> [at : Place, how : How]]
  BY <1>1 DEF TypeOK
<1>5. /\ thread' \in [Thread -> [at : Place, how : How]]
      /\ HowInv'
  <2>1. ASSUME NEW u \in Thread, Create(t, u)
        PROVE  thread' \in [Thread -> [at : Place, how : How]] /\ HowInv'
    <3>1. thread' = [thread EXCEPT ![u].at = "created"] /\ thread[u].at = "none"
      BY <2>1 DEF Create, Goto, At
    <3>2. thread' \in [Thread -> [at : Place, how : How]]
      BY <1>4, <3>1 DEF Place
    <3>3. /\ thread'[u].at = "created" /\ thread'[u].how = thread[u].how
          /\ \A v \in Thread \ {u} : thread'[v] = thread[v]
      BY <1>4, <3>1
    <3>4. thread[u].how = ""
      BY <1>1, <3>1 DEF HowInv
    <3>5. HowInv'
      BY <1>1, <3>3, <3>4 DEF HowInv, At
    <3> QED
      BY <3>2, <3>5
  <2>2. CASE Start(t)
    BY <1>1, <1>4, <2>2 DEF Start, Goto, At, HowInv, Place
  <2>3. CASE Exit(t)
    BY <1>1, <1>4, <2>3 DEF Exit, At, HowInv, Place, How
  <2>4. CASE PthreadExit(t)
    BY <1>1, <1>4, <2>4 DEF PthreadExit, At, HowInv, Place, How
  <2>5. CASE t = Main /\ ReturnFromMain
    BY <1>1, <1>4, <2>5 DEF ReturnFromMain, At, HowInv, Place, How
  <2>6. CASE Check(t)
    BY <1>1, <1>4, <2>6 DEF Check, Goto, At, HowInv, Place
  <2>7. CASE Claim(t)
    BY <1>1, <1>4, <2>7 DEF Claim, Goto, At, HowInv, Place
  <2>8. CASE Stop(t)
    BY <1>1, <1>4, <2>8 DEF Stop, Goto, At, HowInv, Place
  <2>9. CASE Join(t)
    BY <1>1, <1>4, <2>9 DEF Join, Goto, At, HowInv, Place
  <2>10. CASE Leave(t)
    <3>1. CASE thread[t].how = "pthread_exit"
      BY <1>1, <1>4, <2>10, <3>1 DEF Leave, Goto, At, HowInv, Place
    <3>2. CASE thread[t].how # "pthread_exit"
      BY <1>1, <1>4, <2>10, <3>2 DEF Leave, At, HowInv
    <3> QED
      BY <3>1, <3>2
  <2> QED
    BY <2>1, <2>2, <2>3, <2>4, <2>5, <2>6, <2>7, <2>8, <2>9, <2>10 DEF ThreadMove, Leaving
<1>6. /\ shutdown_run' \in BOOLEAN /\ running' \in BOOLEAN
      /\ process' \in {"running", "ended", "aborted"}
      /\ ~ running => ~ running'
  <2>1. CASE Claim(t)
    BY <1>1, <2>1 DEF TypeOK, Claim
  <2>2. CASE Stop(t)
    BY <1>1, <2>2 DEF TypeOK, Stop
  <2>3. CASE Leave(t)
    BY <1>1, <2>3 DEF TypeOK, Leave
  <2>4. CASE UNCHANGED <<shutdown_run, running, process>>
    BY <1>1, <2>4 DEF TypeOK
  <2> QED
    BY <2>1, <2>2, <2>3, <2>4 DEF ThreadMove, Leaving, Create, Start, Exit, PthreadExit,
      ReturnFromMain, Check, Join
<1>7. uncounted' \in BOOLEAN
  <2>1. CASE Check(t)
    BY <1>1, <2>1 DEF TypeOK, Check
  <2>2. CASE ~ Check(t)
    BY <1>1, <2>2 DEF TypeOK, ThreadMove, Create, Start, Exit, PthreadExit, ReturnFromMain, Leaving,
       Claim, Stop, Join, Leave
  <2> QED
    BY <2>1, <2>2
<1>8. count' \in [Point -> Nat] /\ \A p \in Point : count[p] <= count'[p]
  <2>1. CASE t = Main /\ ReturnFromMain
    <3>1. EndToEnd \in Point /\ count \in [Point -> Nat]
      BY <1>1, CozProfilerAssumption DEF TypeOK
    <3>2. count' = IF end_to_end THEN [count EXCEPT ![EndToEnd] = @ + 1] ELSE count
      BY <2>1 DEF ReturnFromMain
    <3> QED
      BY <3>1, <3>2
  <2>2. CASE UNCHANGED count
    BY <1>1, <2>2 DEF TypeOK
  <2> QED
    BY <2>1, <2>2 DEF ThreadMove, Create, Start, Exit, PthreadExit, Leaving, Check, Claim, Stop, Join,
       Leave, points
<1>9. TypeOK'
  BY <1>1, <1>2, <1>3, <1>5, <1>6, <1>7, <1>8 DEF TypeOK
<1>10. ExperimentInv'
  BY <1>1, <1>3, <1>6 DEF ExperimentInv
<1>11. SavedInv'
  BY <1>1, <1>3, <1>8 DEF SavedInv, VisitsLoggedOnce, TypeOK
<1> QED
  BY <1>5, <1>9, <1>10, <1>11

\* Only the caller that set the flag passes through the join.
LEMMA ThreadMoveShutdown ==
  ASSUME IInv, process = "running", NEW t \in Thread, ThreadMove(t)
  PROVE  ShutInv'
<1>1. HowInv /\ ShutInv
  BY DEF IInv
<1>2. thread \in [Thread -> [at : Place, how : How]]
  BY DEF IInv, TypeOK
<1>3. UNCHANGED profiler
  BY ThreadMoveFacts
<1>4. CASE \E u \in Thread : Create(t, u)
  BY <1>1, <1>2, <1>3, <1>4 DEF Create, Goto, At, ShutInv, ShutdownOnce, InShutdown, ExitAfterProfiler
<1>5. CASE Start(t)
  BY <1>1, <1>2, <1>3, <1>5 DEF Start, Goto, At, ShutInv, ShutdownOnce, InShutdown, ExitAfterProfiler
<1>11. CASE Check(t)
  <2>1. thread[t].how = "pthread_exit"
    BY <1>1, <1>11 DEF HowInv, Check
  <2> QED
    BY <1>1, <1>2, <1>3, <1>11, <2>1
      DEF Check, Goto, At, ShutInv, ShutdownOnce, InShutdown, ExitAfterProfiler
<1>6. CASE Exit(t)
  BY <1>1, <1>2, <1>3, <1>6 DEF Exit, At, ShutInv, ShutdownOnce, InShutdown, ExitAfterProfiler
<1>12. CASE PthreadExit(t)
  BY <1>1, <1>2, <1>3, <1>12 DEF PthreadExit, At, ShutInv, ShutdownOnce, InShutdown, ExitAfterProfiler
<1>13. CASE t = Main /\ ReturnFromMain
  BY <1>1, <1>2, <1>3, <1>13 DEF ReturnFromMain, At, ShutInv, ShutdownOnce, InShutdown, ExitAfterProfiler
<1>7. CASE Claim(t)
  <2>1. UNCHANGED <<process, running>> /\ shutdown_run' = TRUE /\ At(t, "claim")
    BY <1>7 DEF Claim
  <2>2. CASE shutdown_run
    <3>1. thread' = [thread EXCEPT ![t].at = "last"]
      BY <1>7, <2>2 DEF Claim, Goto
    <3> QED
      BY <1>1, <1>2, <1>3, <2>1, <2>2, <3>1 DEF At, ShutInv, ShutdownOnce, InShutdown, ExitAfterProfiler
  <2>3. CASE ~ shutdown_run
    <3>1. thread' = [thread EXCEPT ![t].at = "stop"]
      BY <1>7, <2>3 DEF Claim, Goto
    <3> QED
      BY <1>1, <1>2, <1>3, <2>1, <2>3, <3>1 DEF At, ShutInv, ShutdownOnce, InShutdown, ExitAfterProfiler
  <2> QED
    BY <2>2, <2>3
<1>8. CASE Stop(t)
  BY <1>1, <1>2, <1>3, <1>8 DEF Stop, Goto, At, ShutInv, ShutdownOnce, InShutdown, ExitAfterProfiler
<1>9. CASE Join(t)
  BY <1>1, <1>2, <1>3, <1>9 DEF Join, Goto, At, ShutInv, ShutdownOnce, InShutdown, ExitAfterProfiler
<1>10. CASE Leave(t)
  <2>1. CASE thread[t].how = "pthread_exit"
    BY <1>1, <1>2, <1>3, <1>10, <2>1 DEF Leave, Goto, At, ShutInv, ShutdownOnce, InShutdown, ExitAfterProfiler
  <2>2. CASE thread[t].how # "pthread_exit"
    <3>1. thread[t].how \in {"exit", "return"}
      BY <1>1, <1>2, <1>10, <2>2 DEF HowInv, How, Leave, At
    <3>2. profiler = "done" \/ \E u \in Thread : InShutdown(u) /\ u # t
      BY <1>1, <1>10, <3>1 DEF ShutInv, Leave, At, InShutdown
    <3> QED
      BY <1>1, <1>3, <1>10, <2>2, <3>2 DEF Leave, At, ShutInv, ShutdownOnce, InShutdown, ExitAfterProfiler
  <2> QED
    BY <2>1, <2>2
<1> QED
  BY <1>4, <1>5, <1>6, <1>7, <1>8, <1>9, <1>10, <1>11, <1>12, <1>13 DEF ThreadMove, Leaving

\* When pthread_exit counts no thread, none is left that could create another.
LEMMA ThreadMoveIdle ==
  ASSUME IInv, NEW t \in Thread, ThreadMove(t)
  PROVE  IdleInv'
<1>1. HowInv /\ CountInv /\ IdleInv /\ ShutInv
  BY DEF IInv
<1>2. thread \in [Thread -> [at : Place, how : How]]
  BY DEF IInv, TypeOK
<1>3. CASE (\E u \in Thread : Create(t, u)) \/ Start(t)
  BY <1>1, <1>2, <1>3 DEF Create, Start, Goto, At, IdleInv, Exiting
<1>4. CASE Exit(t) \/ (t = Main /\ ReturnFromMain)
  BY <1>2, <1>4 DEF Exit, ReturnFromMain, IdleInv, Exiting
<1>5. CASE PthreadExit(t)
  <2>1. thread[t].how = ""
    BY <1>1, <1>5 DEF HowInv, PthreadExit, At
  <2> QED
    BY <1>1, <1>2, <1>5, <2>1 DEF PthreadExit, At, IdleInv, Exiting
<1>6. CASE Check(t)
  <2>1. CASE num_threads = 0
    <3>1. ~ Exiting => \A u \in Thread : ~ At(u, "app")
      <4>1. IsFiniteSet(Counted)
        BY CozProfilerAssumption, FS_Subset DEF Counted
      <4>2. ~ Exiting => Counted = {}
        BY <1>1, <2>1, <4>1, FS_EmptySet DEF CountInv
      <4> QED
        BY <4>2 DEF Counted
    <3>2. Exiting => Exiting'
      BY <1>2, <1>6 DEF Check, Goto, Exiting
    <3>3. ~ uncounted' => \A u \in Thread : ~ At(u, "created")
      BY <1>6, <2>1 DEF Check
    <3>4. \A u \in Thread : At(u, "app")' => At(u, "app")
      BY <1>2, <1>6 DEF Check, Goto, At
    <3>5. \A u \in Thread : At(u, "created")' => At(u, "created")
      BY <1>2, <1>6 DEF Check, Goto, At
    <3>6. ~ uncounted' => \A u \in Thread : ~ At(u, "created")'
      BY <3>3, <3>5
    <3>7. ~ Exiting' => \A u \in Thread : ~ At(u, "app")'
      BY <3>1, <3>2, <3>4
    <3> QED
      BY <3>6, <3>7 DEF IdleInv
  <2>2. CASE num_threads # 0
    <3>1. thread' = [thread EXCEPT ![t].at = "last"] /\ uncounted' = uncounted
          /\ UNCHANGED shutdown_run
      BY <1>6, <2>2 DEF Check, Goto, IInv, TypeOK
    <3> QED
      BY <1>1, <1>2, <3>1 DEF At, IdleInv, Exiting
  <2> QED
    BY <2>1, <2>2
<1>7. CASE Claim(t)
  <2>1. thread[t].how \in {"pthread_exit", "exit", "return"} /\ At(t, "claim")
    BY <1>1, <1>2, <1>7 DEF HowInv, Claim, At, How
  <2>2. UNCHANGED uncounted /\ (Exiting => Exiting')
    BY <1>2, <1>7 DEF Claim, Goto, Exiting
  <2>3. \A u \in Thread : (At(u, "app")' => At(u, "app")) /\ (At(u, "created")' => At(u, "created"))
    BY <1>2, <1>7 DEF Claim, Goto, At
  <2>4. Exiting \/ (\E u \in Thread : At(u, "claim") /\ thread[u].how = "pthread_exit")
    BY <2>1 DEF Exiting
  <2>5. ~ Exiting' /\ ~ uncounted' => \A u \in Thread : ~ At(u, "app") /\ ~ At(u, "created")
    BY <1>1, <2>2, <2>4 DEF IdleInv
  <2> QED
    BY <2>3, <2>5 DEF IdleInv
<1>8. ASSUME Stop(t) \/ Join(t) \/ Leave(t)
      PROVE  IdleInv'
  <2>1. UNCHANGED <<uncounted, shutdown_run>>
    BY <1>8 DEF Stop, Join, Leave
  <2>2. \A u \in Thread : thread'[u].how = thread[u].how
    BY <1>2, <1>8 DEF Stop, Join, Leave, Goto
  <2>3. \A u \in Thread : /\ (At(u, "app")' => At(u, "app"))
                         /\ (At(u, "created")' => At(u, "created"))
                         /\ (At(u, "claim")' => At(u, "claim"))
    BY <1>2, <1>8 DEF Stop, Join, Leave, Goto, At
  <2>4. Exiting <=> Exiting'
    BY <2>2 DEF Exiting
  <2>5. shutdown_run' \/ (\E u \in Thread : At(u, "claim") /\ thread[u].how = "pthread_exit")'
          => shutdown_run \/ (\E u \in Thread : At(u, "claim") /\ thread[u].how = "pthread_exit")
    BY <2>1, <2>2, <2>3
  <2> QED
    BY <1>1, <2>1, <2>3, <2>4, <2>5 DEF IdleInv
<1> QED
  BY <1>3, <1>4, <1>5, <1>6, <1>7, <1>8 DEF ThreadMove, Leaving

\* Visits, crashes and the end of the process.
LEMMA OtherMovePreserves ==
  ASSUME IInv, process = "running",
         \/ \E t \in Thread, p \in Point : FindPoint(t, p) \/ Visit(t, p)
         \/ \E t \in Thread : Abort(t)
         \/ LastThreadGone
  PROVE  IInv'
<1>1. UNCHANGED <<end_to_end, running, shutdown_run, num_threads, thread, uncounted, profiler,
                  to_save, saved, experiments, logged>>
  BY DEF FindPoint, Visit, Abort, LastThreadGone, threads, points, results
<1>2. /\ process' \in {"running", "ended", "aborted"}
      /\ process' = "ended" => profiler = "done"
      /\ count' \in [Point -> Nat] /\ \A p \in Point : count[p] <= count'[p]
      /\ created \subseteq created' /\ created' \subseteq Point
  <2>1. CASE \E t \in Thread, p \in Point : FindPoint(t, p) \/ Visit(t, p)
    BY <2>1 DEF FindPoint, Visit, IInv, TypeOK
  <2>2. CASE (\E t \in Thread : Abort(t)) \/ LastThreadGone
    BY <2>2 DEF Abort, LastThreadGone, IInv, TypeOK, points
  <2> QED
    BY <2>1, <2>2
<1>3. TypeOK'
  BY <1>1, <1>2 DEF IInv, TypeOK
<1>4. HowInv' /\ CountInv' /\ IdleInv' /\ ExperimentInv'
  BY <1>1 DEF IInv, HowInv, CountInv, IdleInv, ExperimentInv, At, Counted, Exiting
<1>5. ShutInv'
  BY <1>1, <1>2 DEF IInv, ShutInv, ShutdownOnce, InShutdown, At, ExitAfterProfiler
<1>6. SavedInv'
  BY <1>1, <1>2 DEF IInv, SavedInv, VisitsLoggedOnce, TypeOK
<1> QED
  BY <1>3, <1>4, <1>5, <1>6 DEF IInv

LEMMA IInvNext == IInv /\ [Next]_vars => IInv'
<1> SUFFICES ASSUME IInv, [Next]_vars PROVE IInv'
  OBVIOUS
<1>1. CASE Next
  <2>1. process = "running"
    BY <1>1 DEF Next
  <2>2. CASE ProfilerMove
    BY <2>2, ProfilerMovePreserves
  <2>3. CASE \E t \in Thread : ThreadMove(t)
    BY <2>1, <2>3, ThreadMoveTypes, ThreadMoveCounts, ThreadMoveShutdown, ThreadMoveIdle DEF IInv
  <2> QED
    BY <1>1, <2>1, <2>2, <2>3, NextCases, OtherMovePreserves
<1>2. CASE UNCHANGED vars
  <2>1. UNCHANGED <<end_to_end, running, shutdown_run, num_threads, thread, uncounted, profiler,
                    created, count, to_save, saved, experiments, logged, process>>
    BY <1>2 DEF vars, threads, points, results
  <2>2. TypeOK' /\ HowInv' /\ CountInv'
    BY <2>1 DEF IInv, TypeOK, HowInv, CountInv, Counted, Exiting, At
  <2>3. ShutInv'
    BY <2>1 DEF IInv, ShutInv, ShutdownOnce, InShutdown, ExitAfterProfiler, At
  <2>4. IdleInv' /\ ExperimentInv' /\ SavedInv'
    BY <2>1 DEF IInv, IdleInv, Exiting, At, ExperimentInv, SavedInv, VisitsLoggedOnce
  <2> QED
    BY <2>2, <2>3, <2>4 DEF IInv
<1> QED
  BY <1>1, <1>2

\* What is left without the profiler when it stops was created before.
LEMMA IInvImplies ==
  ASSUME IInv
  PROVE  /\ TypeOK /\ VisitsLoggedOnce /\ SingleExperiment
         /\ ShutdownOnce /\ ExitAfterProfiler /\ StopsOnlyWhenIdle
<1>1. TypeOK /\ VisitsLoggedOnce /\ ShutdownOnce /\ ExitAfterProfiler
  BY DEF IInv, SavedInv, ShutInv
<1>2. SingleExperiment
  BY DEF IInv, ExperimentInv, SingleExperiment
<1>3. StopsOnlyWhenIdle
  BY DEF IInv, ShutInv, IdleInv, Exiting, StopsOnlyWhenIdle
<1> QED
  BY <1>1, <1>2, <1>3

LEMMA Invariance == Safety => []IInv
BY IInvInit, IInvNext, PTL DEF Safety

\* Every field keeps its type; the thread counter never goes below zero although
\* pthread_exit and shutdown both end the sampling of their thread.
THEOREM TypeCorrect == Spec => []TypeOK
<1>1. IInv => TypeOK
  BY IInvImplies
<1> QED
  BY <1>1, Invariance, PTL DEF Spec

\* Each visit of a progress point is written down in at most one experiment.
THEOREM NoVisitLoggedTwice == Spec => []VisitsLoggedOnce
<1>1. IInv => VisitsLoggedOnce
  BY IInvImplies
<1> QED
  BY <1>1, Invariance, PTL DEF Spec

\* An end-to-end run holds one experiment.
THEOREM OneExperiment == Spec => []SingleExperiment
<1>1. IInv => SingleExperiment
  BY IInvImplies
<1> QED
  BY <1>1, Invariance, PTL DEF Spec

\* The profiler thread is joined by one thread only.
THEOREM JoinedOnce == Spec => []ShutdownOnce
<1>1. IInv => ShutdownOnce
  BY IInvImplies
<1> QED
  BY <1>1, Invariance, PTL DEF Spec

\* The profiler thread outlives the process only if a second thread leaves while
\* the first waits for it.
THEOREM ProfileComplete == Spec => []ExitAfterProfiler
<1>1. IInv => ExitAfterProfiler
  BY IInvImplies
<1> QED
  BY <1>1, Invariance, PTL DEF Spec

\* pthread_exit stops the profiler under no thread that was counted.
THEOREM NoThreadAbandoned == Spec => []StopsOnlyWhenIdle
<1>1. IInv => StopsOnlyWhenIdle
  BY IInvImplies
<1> QED
  BY <1>1, Invariance, PTL DEF Spec
=============================================================================
