-------------------------- MODULE VirtualDelayProofs --------------------------
(***************************************************************************)
(* Type correctness of the virtual delays, that a thread has paid what it  *)
(* owes when it goes on to wake another one, and that all delay inserted   *)
(* has a reason: for any threads, lines, delay sizes and oversleeping.     *)
(***************************************************************************)
EXTENDS VirtualDelay, FiniteSetTheorems, TLAPS

\* A thread and its entry of _thread_states.
Fine(r, st, g) ==
  /\ r.at \notin {"none", "created"}
  /\ r.pc \in {"hit", "miss", "charge", "select"} => r.samples # <<>>
  /\ r.pc = "raise" => st.local_delay > r.seen
  /\ r.pc \in {"raise", "pay"} => r.seen <= g
  /\ r.at = "blocked" => st.pre_block_time <= g
  /\ r.at \in {"wake", "exit"} =>
       r.entry <= g /\ (r.pc \in {"raise", "pay"} => r.entry <= r.seen)

\* Tags are those of live threads, which are in one entry each.
Tagged ==
  /\ \A t \in Thread : Live(t) => \E i \in Slot : thread_states[i].tag = t
  /\ \A i, j \in Slot :
       thread_states[i].tag = thread_states[j].tag /\ thread_states[i].tag # NoThread => i = j

Scalars ==
  /\ experiment_active \in BOOLEAN
  /\ global_delay \in Nat
  /\ delay_size \in Nat
  /\ selected_line \in Line \cup {NoLine}
  /\ next_line \in Line \cup {NoLine}
  /\ profiler \in {"select", "size", "start", "running", "end"}
  /\ allowed \in Nat

Threads ==
  /\ thread_states \in [Slot -> ThreadState]
  /\ thread \in [Thread -> ThreadRecord]
  /\ Tagged
  /\ \A t \in Thread : ~ Live(t) => thread[t].pc = "idle"
  /\ \A i \in Slot : thread_states[i].tag # NoThread =>
       Fine(thread[thread_states[i].tag], thread_states[i], global_delay)

\* The inductive invariant.  TypeOK needs what Fine adds to it: a thread raises
\* global_delay by what it is ahead by, post_block adds what was inserted since
\* pre_block, and a sample is taken off a list that has one.
IInv == Scalars /\ Threads

\* The type invariant is a part of the inductive one.
LEMMA IInvTypeOK == IInv => TypeOK
BY DEF IInv, Scalars, Threads, Tagged, TypeOK

\* A thread that is not there has a record like any other.
LEMMA NotThereFacts == NotThere \in ThreadRecord
<1>1. <<>> \in Seq(Line)
  OBVIOUS
<1> QED
  BY <1>1 DEF NotThere, ThreadRecord, Place, Pc

\* A thread's entry is the one that bears its tag.
LEMMA SlotFacts ==
  ASSUME IInv, NEW t \in Thread, Live(t)
  PROVE  /\ SlotOf(t) \in Slot
         /\ thread_states[SlotOf(t)].tag = t
         /\ thread_states[SlotOf(t)] \in ThreadState
         /\ Fine(thread[t], thread_states[SlotOf(t)], global_delay)
<1>1. PICK i \in Slot : thread_states[i].tag = t
  BY DEF IInv, Threads, Tagged
<1>2. SlotOf(t) \in Slot /\ thread_states[SlotOf(t)].tag = t
  BY <1>1 DEF SlotOf
<1>3. t # NoThread
  BY VirtualDelayAssumption
<1> QED
  BY <1>2, <1>3 DEF IInv, Scalars, Threads

\* What is fine stays so when global_delay grows.
LEMMA FineGrows ==
  ASSUME NEW r \in ThreadRecord, NEW st \in ThreadState, NEW g \in Nat, NEW h \in Nat,
         g <= h, Fine(r, st, g)
  PROVE  Fine(r, st, h)
BY DEF Fine, ThreadRecord, ThreadState

\* A step of a live thread that changes its record and its entry, and no others.
LEMMA OwnStep ==
  ASSUME IInv, NEW t \in Thread, Live(t),
         NEW r \in ThreadRecord, NEW st \in ThreadState,
         thread' = [thread EXCEPT ![t] = r],
         thread_states' = [thread_states EXCEPT ![SlotOf(t)] = st],
         st.tag = t,
         global_delay' \in Nat, global_delay <= global_delay',
         Fine(r, st, global_delay')
  PROVE  Threads'
<1> DEFINE o == SlotOf(t)
<1>1. o \in Slot /\ thread_states[o].tag = t
  BY SlotFacts
<1>2. thread' \in [Thread -> ThreadRecord] /\ thread'[t] = r
      /\ \A u \in Thread : u # t => thread'[u] = thread[u]
  BY DEF IInv, Scalars, Threads
<1>3. thread_states' \in [Slot -> ThreadState] /\ thread_states'[o] = st
      /\ \A i \in Slot : i # o => thread_states'[i] = thread_states[i]
  BY <1>1 DEF IInv, Scalars, Threads
<1>4. \A i \in Slot : thread_states'[i].tag = thread_states[i].tag
  BY <1>1, <1>3
<1>5. \A u \in Thread : Live(u)' <=> Live(u)
  BY <1>2 DEF Fine, Live
<1>6. Tagged'
  BY <1>4, <1>5 DEF IInv, Threads, Tagged
<1>7. \A u \in Thread : ~ Live(u)' => thread'[u].pc = "idle"
  BY <1>2, <1>5 DEF IInv, Threads
<1>8. ASSUME NEW i \in Slot, thread_states'[i].tag # NoThread
      PROVE  Fine(thread'[thread_states'[i].tag], thread_states'[i], global_delay')
  <2>1. CASE i = o
    BY <1>2, <1>3, <2>1
  <2>2. CASE i # o
    <3>1. thread_states[i].tag \in Thread /\ thread_states[i].tag # t
      BY <1>1, <1>4, <1>8, <2>2 DEF IInv, Scalars, Threads, Tagged, ThreadState
    <3>2. Fine(thread[thread_states[i].tag], thread_states[i], global_delay)
      BY <1>4, <1>8 DEF IInv, Threads
    <3>3. Fine(thread[thread_states[i].tag], thread_states[i], global_delay')
      BY <3>1, <3>2, FineGrows DEF IInv, Scalars, Threads
    <3> QED
      BY <1>2, <1>3, <2>2, <3>1, <3>3
  <2> QED
    BY <2>1, <2>2
<1> QED
  BY <1>2, <1>3, <1>6, <1>7, <1>8 DEF Threads

\* A step that touches neither threads nor global_delay.
LEMMA SameThreads ==
  ASSUME IInv, UNCHANGED <<global_delay, thread_states, thread>>
  PROVE  Threads'
BY DEF IInv, Threads, Tagged, Live

\* A step that moves t on and does nothing else to threads.
LEMMA GotoStep ==
  ASSUME IInv, NEW t \in Thread, Live(t), NEW pc \in Pc, Goto(t, pc),
         UNCHANGED <<global_delay, thread_states>>,
         Fine([thread[t] EXCEPT !.pc = pc], thread_states[SlotOf(t)], global_delay)
  PROVE  Threads'
<1> DEFINE r == [thread[t] EXCEPT !.pc = pc]
           st == thread_states[SlotOf(t)]
<1>1. r \in ThreadRecord
  BY DEF IInv, Threads, ThreadRecord
<1>2. thread' = [thread EXCEPT ![t] = r]
  BY DEF Goto
<1>3. thread_states' = [thread_states EXCEPT ![SlotOf(t)] = st]
  BY SlotFacts DEF IInv, Threads
<1>4. Fine(r, st, global_delay') /\ global_delay' \in Nat /\ global_delay <= global_delay'
  BY DEF IInv, Scalars
<1>5. st \in ThreadState /\ st.tag = t
  BY SlotFacts
<1> QED
  BY <1>1, <1>2, <1>3, <1>4, <1>5, OwnStep

\* The end of add_delays, in each of its three callers.
LEMMA ReturnFacts ==
  ASSUME IInv, NEW t \in Thread, Live(t), NEW local \in Nat, Return(t, local)
  PROVE  /\ thread_states'[SlotOf(t)].local_delay = local
         /\ \A u \in Thread : u # t => thread'[u] = thread[u]
<1> DEFINE o == SlotOf(t)
<1>1. o \in Slot /\ thread_states[o] \in ThreadState
  BY SlotFacts
<1> QED
  BY <1>1 DEF Return, IInv, Threads, ThreadState

\* The end of add_delays keeps the invariant: in end_sampling it frees the entry,
\* elsewhere it leaves the thread in its own.
LEMMA ReturnStep ==
  ASSUME IInv, NEW t \in Thread, Live(t), NEW local \in Nat, Return(t, local),
         global_delay' \in Nat, global_delay <= global_delay'
  PROVE  Threads'
<1> DEFINE o == SlotOf(t)
           old == thread[t]
<1>1. /\ o \in Slot /\ thread_states[o] \in ThreadState /\ thread_states[o].tag = t
      /\ Fine(old, thread_states[o], global_delay)
  BY SlotFacts
<1>2. old \in ThreadRecord
  BY DEF IInv, Threads
<1>3. CASE old.at = "wake"
  <2> DEFINE r == [old EXCEPT !.at = "app", !.pc = "idle", !.seen = 0, !.entry = 0]
             st == [thread_states[o] EXCEPT !.local_delay = local, !.in_use = FALSE]
  <2>1. r \in ThreadRecord /\ st \in ThreadState /\ st.tag = t
    BY <1>1, <1>2 DEF ThreadRecord, ThreadState, Place, Pc
  <2>2. thread' = [thread EXCEPT ![t] = r]
        /\ thread_states' = [thread_states EXCEPT ![o] = st]
    BY <1>3 DEF Return
  <2>3. Fine(r, st, global_delay')
    BY <1>1, <1>2 DEF Fine, ThreadRecord
  <2> QED
    BY <2>1, <2>2, <2>3, OwnStep
<1>4. CASE old.at = "exit"
  <2> DEFINE st == [thread_states[o] EXCEPT !.local_delay = local, !.tag = NoThread]
  <2>1. thread' = [thread EXCEPT ![t] = NotThere]
        /\ thread_states' = [thread_states EXCEPT ![o] = st]
    BY <1>4 DEF Return
  <2>2. NotThere \in ThreadRecord /\ st \in ThreadState /\ st.tag = NoThread
    <3>1. st \in ThreadState /\ st.tag = NoThread
      BY <1>1 DEF ThreadState
    <3> QED
      BY <3>1, NotThereFacts
  <2>3. thread' \in [Thread -> ThreadRecord] /\ thread'[t] = NotThere
        /\ \A u \in Thread : u # t => thread'[u] = thread[u]
    BY <2>1, <2>2 DEF IInv, Threads
  <2>4. thread_states' \in [Slot -> ThreadState] /\ thread_states'[o].tag = NoThread
        /\ \A i \in Slot : i # o => thread_states'[i] = thread_states[i]
    BY <1>1, <2>1, <2>2 DEF IInv, Threads
  <2>5. ~ Live(t)' /\ \A u \in Thread : u # t => (Live(u)' <=> Live(u))
    BY <2>3 DEF Live, NotThere
  <2>6. Tagged'
    BY <1>1, <2>4, <2>5 DEF IInv, Threads, Tagged
  <2>7. \A u \in Thread : ~ Live(u)' => thread'[u].pc = "idle"
    BY <2>3, <2>5 DEF IInv, Threads, NotThere
  <2>8. ASSUME NEW i \in Slot, thread_states'[i].tag # NoThread
        PROVE  Fine(thread'[thread_states'[i].tag], thread_states'[i], global_delay')
    <3>1. i # o /\ thread_states'[i] = thread_states[i]
      BY <2>4, <2>8
    <3>2. thread_states[i].tag \in Thread /\ thread_states[i].tag # t
      BY <1>1, <2>8, <3>1 DEF IInv, Threads, Tagged, ThreadState
    <3>3. Fine(thread[thread_states[i].tag], thread_states[i], global_delay)
      BY <2>8, <3>1 DEF IInv, Threads
    <3>4. Fine(thread[thread_states[i].tag], thread_states[i], global_delay')
      BY <3>2, <3>3, FineGrows DEF IInv, Scalars, Threads
    <3> QED
      BY <2>3, <3>1, <3>2, <3>4
  <2> QED
    BY <2>3, <2>4, <2>6, <2>7, <2>8 DEF Threads
<1>5. CASE old.at \notin {"wake", "exit"}
  <2> DEFINE r == [old EXCEPT !.pc = "idle", !.seen = 0]
             st == [thread_states[o] EXCEPT !.local_delay = local]
  <2>1. r \in ThreadRecord /\ st \in ThreadState /\ st.tag = t
    BY <1>1, <1>2 DEF ThreadRecord, ThreadState, Place, Pc
  <2>2. thread' = [thread EXCEPT ![t] = r]
        /\ thread_states' = [thread_states EXCEPT ![o] = st]
    BY <1>5 DEF Return
  <2>3. Fine(r, st, global_delay')
    BY <1>1, <1>2, <1>5 DEF Fine, ThreadRecord, ThreadState, IInv, Scalars
  <2> QED
    BY <2>1, <2>2, <2>3, OwnStep
<1> QED
  BY <1>3, <1>4, <1>5
-----------------------------------------------------------------------------
\* What a thread that can act is known to have.
LEMMA LiveFacts ==
  ASSUME IInv, NEW t \in Thread, Live(t)
  PROVE  /\ thread[t] \in ThreadRecord
         /\ SlotOf(t) \in Slot
         /\ thread_states[SlotOf(t)] \in ThreadState
         /\ thread_states[SlotOf(t)].tag = t
         /\ Local(t) \in Nat
         /\ Fine(thread[t], thread_states[SlotOf(t)], global_delay)
         /\ global_delay \in Nat /\ delay_size \in Nat /\ allowed \in Nat
         /\ Ahead(t) \in Nat
<1>1. /\ SlotOf(t) \in Slot /\ thread_states[SlotOf(t)].tag = t
      /\ thread_states[SlotOf(t)] \in ThreadState
      /\ Fine(thread[t], thread_states[SlotOf(t)], global_delay)
  BY SlotFacts
<1>2. /\ thread[t] \in ThreadRecord
      /\ global_delay \in Nat /\ delay_size \in Nat /\ allowed \in Nat
  BY DEF IInv, Scalars, Threads
<1>3. Local(t) \in Nat
  BY <1>1 DEF Local, ThreadState
<1>4. Ahead(t) \in Nat
  BY <1>2, <1>3 DEF Ahead, Larger
<1> QED
  BY <1>1, <1>2, <1>3, <1>4

\* A thread in process_samples or add_delays has an entry.
LEMMA WorkIsLive ==
  ASSUME IInv, NEW t \in Thread, thread[t].pc # "idle"
  PROVE  Live(t)
BY DEF IInv, Threads

\* A sample is done with.
LEMMA NextSample ==
  ASSUME IInv, NEW t \in Thread, Live(t), NEW st \in ThreadState, st.tag = t,
         thread[t].pc \in {"hit", "miss", "charge", "select"},
         thread' = [thread EXCEPT ![t].pc = "match", ![t].samples = Tail(@)],
         thread_states' = [thread_states EXCEPT ![SlotOf(t)] = st],
         st.pre_block_time = thread_states[SlotOf(t)].pre_block_time,
         UNCHANGED global_delay
  PROVE  Threads'
<1> DEFINE r == [thread[t] EXCEPT !.pc = "match", !.samples = Tail(@)]
<1>1. /\ thread[t] \in ThreadRecord /\ global_delay \in Nat
      /\ Fine(thread[t], thread_states[SlotOf(t)], global_delay)
  BY LiveFacts
<1>2. Tail(thread[t].samples) \in Seq(Line)
  BY <1>1 DEF Fine, ThreadRecord
<1>3. r \in ThreadRecord
  BY <1>1, <1>2 DEF ThreadRecord, Pc
<1>4. thread' = [thread EXCEPT ![t] = r]
  OBVIOUS
<1>5. Fine(r, st, global_delay')
  BY <1>1, <1>2 DEF Fine, ThreadRecord
<1>6. global_delay' \in Nat /\ global_delay <= global_delay'
  BY <1>1
<1> QED
  BY <1>3, <1>4, <1>5, <1>6, OwnStep

\* process_samples.
LEMMA SamplesStep ==
  ASSUME IInv, NEW t \in Thread, Match(t) \/ Attribute(t) \/ Charge(t) \/ Suggest(t)
  PROVE  IInv'
<1> DEFINE old == thread[t]
           o == SlotOf(t)
<1>1. Live(t)
  BY WorkIsLive DEF Match, Attribute, Charge, Suggest
<1>2. /\ old \in ThreadRecord /\ o \in Slot
      /\ thread_states[o] \in ThreadState /\ thread_states[o].tag = t
      /\ Fine(old, thread_states[o], global_delay)
      /\ delay_size \in Nat /\ allowed \in Nat
  BY <1>1, LiveFacts
<1>3. thread_states = [thread_states EXCEPT ![o] = thread_states[o]]
  BY <1>2 DEF IInv, Threads
<1>4. CASE Match(t)
  <2>1. PICK pc \in Pc :
          /\ Goto(t, pc)
          /\ (pc \in {"hit", "miss"} /\ old.samples # <<>>) \/ pc = "check"
    BY <1>4 DEF Match, Pc
  <2>2. Fine([old EXCEPT !.pc = pc], thread_states[o], global_delay)
    BY <1>2, <2>1 DEF Fine, ThreadRecord
  <2>3. Threads'
    BY <1>1, <1>4, <2>1, <2>2, GotoStep DEF Match
  <2> QED
    BY <1>4, <2>3 DEF Match, experiment, IInv, Scalars
<1>5. CASE Attribute(t)
  <2>1. old.pc \in {"hit", "miss"}
        /\ UNCHANGED <<experiment, global_delay, next_line, thread_states, allowed>>
    BY <1>5 DEF Attribute
  <2>3. ASSUME NEW pc \in {"charge", "select"}, Goto(t, pc) PROVE Threads'
    <3>1. Fine([old EXCEPT !.pc = pc], thread_states[o], global_delay)
      BY <1>2, <2>1 DEF Fine, ThreadRecord
    <3> QED
      BY <1>1, <2>1, <2>3, <3>1, GotoStep DEF Pc
  <2>4. Threads'
    <3>1. CASE ~ experiment_active
      BY <1>5, <2>3, <3>1 DEF Attribute
    <3>2. CASE experiment_active /\ old.pc = "hit"
      BY <1>5, <2>3, <3>2 DEF Attribute
    <3>3. CASE experiment_active /\ old.pc # "hit"
      <4>1. thread_states' = [thread_states EXCEPT ![o] = thread_states[o]]
        BY <1>3, <2>1
      <4> QED
        BY <1>1, <1>2, <1>5, <2>1, <3>3, <4>1, NextSample DEF Attribute
    <3> QED
      BY <3>1, <3>2, <3>3
  <2> QED
    BY <2>1, <2>4 DEF experiment, IInv, Scalars
<1>6. CASE Charge(t)
  <2> DEFINE st == [thread_states[o] EXCEPT !.local_delay = @ + delay_size]
  <2>1. st \in ThreadState /\ st.tag = t /\ st.pre_block_time = thread_states[o].pre_block_time
    BY <1>2 DEF ThreadState
  <2>2. thread_states' = [thread_states EXCEPT ![o] = st]
    BY <1>6 DEF Charge
  <2>3. Threads'
    BY <1>1, <1>6, <2>1, <2>2, NextSample DEF Charge
  <2> QED
    BY <1>2, <1>6, <2>3 DEF Charge, experiment, IInv, Scalars
<1>7. CASE Suggest(t)
  <2>1. Threads'
    BY <1>1, <1>2, <1>3, <1>7, NextSample DEF Suggest
  <2>2. Head(old.samples) \in Line
    BY <1>2, <1>7 DEF Suggest, Fine, ThreadRecord
  <2>3. next_line' \in Line \cup {NoLine}
    BY <1>7, <2>2 DEF Suggest, IInv, Scalars
  <2> QED
    BY <1>7, <2>1, <2>3 DEF Suggest, experiment, IInv, Scalars
<1> QED
  BY <1>4, <1>5, <1>6, <1>7

\* add_delays.  A raise makes global_delay grow.
LEMMA DelaysStep ==
  ASSUME IInv, NEW t \in Thread, Check(t) \/ Compare(t) \/ Raise(t) \/ Pay(t) \/ Skip(t)
  PROVE  IInv'
<1> DEFINE old == thread[t]
           o == SlotOf(t)
<1>1. Live(t)
  BY WorkIsLive DEF Check, Compare, Raise, Pay, Skip
<1>2. /\ old \in ThreadRecord /\ o \in Slot
      /\ thread_states[o] \in ThreadState /\ thread_states[o].tag = t
      /\ Fine(old, thread_states[o], global_delay)
      /\ Local(t) \in Nat /\ global_delay \in Nat /\ allowed \in Nat
  BY <1>1, LiveFacts
<1>3. old.seen \in Nat
  BY <1>2 DEF ThreadRecord
<1>4. CASE Check(t)
  <2>1. PICK pc \in {"compare", "skip"} : Goto(t, pc)
    BY <1>4 DEF Check
  <2>2. Fine([old EXCEPT !.pc = pc], thread_states[o], global_delay)
    BY <1>2, <2>1 DEF Fine, ThreadRecord
  <2>3. Threads'
    BY <1>1, <1>4, <2>1, <2>2, GotoStep DEF Check, Pc
  <2> QED
    BY <1>4, <2>3 DEF Check, experiment, IInv, Scalars
<1>5. CASE Compare(t)
  <2>1. Threads'
    <3>1. CASE Local(t) = global_delay
      BY <1>1, <1>2, <1>5, <3>1, ReturnStep DEF Compare
    <3>2. CASE Local(t) # global_delay
      <4> DEFINE pc == IF Local(t) > global_delay THEN "raise" ELSE "pay"
                 r == [old EXCEPT !.seen = global_delay, !.pc = pc]
      <4>1. thread' = [thread EXCEPT ![t] = r]
        BY <1>5, <3>2 DEF Compare
      <4>2. thread_states' = [thread_states EXCEPT ![o] = thread_states[o]]
        BY <1>2, <1>5, <3>2 DEF Compare, IInv, Threads
      <4>3. r \in ThreadRecord
        BY <1>2 DEF ThreadRecord, Pc
      <4>4. UNCHANGED global_delay
        BY <1>5 DEF Compare
      <4>5. Fine(r, thread_states[o], global_delay')
        BY <1>2, <3>2, <4>4 DEF Fine, ThreadRecord, Local
      <4>6. global_delay' \in Nat /\ global_delay <= global_delay'
        BY <1>2, <4>4
      <4> QED
        BY <1>1, <1>2, <4>1, <4>2, <4>3, <4>5, <4>6, OwnStep
    <3> QED
      BY <3>1, <3>2
  <2> QED
    BY <1>5, <2>1 DEF Compare, experiment, IInv, Scalars
<1>6. CASE Raise(t)
  <2>1. Local(t) > old.seen
    BY <1>2, <1>6 DEF Raise, Fine, Local
  <2>2. global_delay' \in Nat /\ global_delay <= global_delay'
    BY <1>2, <1>3, <1>6, <2>1 DEF Raise
  <2>3. Threads'
    BY <1>1, <1>2, <1>6, <2>2, ReturnStep DEF Raise
  <2> QED
    BY <1>6, <2>2, <2>3 DEF Raise, experiment, IInv, Scalars
<1>7. CASE Pay(t)
  <2>1. PICK over \in Oversleep : Return(t, old.seen + over) /\ allowed' = allowed + over
    BY <1>7 DEF Pay
  <2>2. old.seen + over \in Nat /\ allowed' \in Nat
    BY <1>2, <1>3, <2>1, VirtualDelayAssumption
  <2>3. Threads'
    BY <1>1, <1>2, <1>7, <2>1, <2>2, ReturnStep DEF Pay
  <2> QED
    BY <1>7, <2>2, <2>3 DEF Pay, experiment, IInv, Scalars
<1>8. CASE Skip(t)
  <2>1. Threads'
    BY <1>1, <1>2, <1>8, ReturnStep DEF Skip
  <2> QED
    BY <1>8, <2>1 DEF Skip, experiment, IInv, Scalars
<1> QED
  BY <1>4, <1>5, <1>6, <1>7, <1>8
-----------------------------------------------------------------------------
\* The profiler thread changes what threads read, and nothing of theirs.
LEMMA ProfilerStep == IInv /\ ProfilerThread => IInv'
<1> SUFFICES ASSUME IInv, ProfilerThread PROVE IInv'
  OBVIOUS
<1>1. UNCHANGED <<global_delay, thread_states, thread>>
  BY DEF ProfilerThread, Select, ChooseSize, Start, ClearNext, End
<1>2. Threads'
  BY <1>1, SameThreads
<1>3. Scalars'
  BY VirtualDelayAssumption
  DEF ProfilerThread, Select, ChooseSize, Start, ClearNext, End, IInv, Scalars
<1> QED
  BY <1>2, <1>3 DEF IInv

\* Samples, the handler's entry, and the entries of the interposed operations.
LEMMA EnterStep ==
  ASSUME IInv, NEW t \in Thread,
         (\E l \in Line : Sample(t, l)) \/ Handler(t) \/ CatchUp(t) \/ PreBlock(t) \/ Exit(t)
  PROVE  IInv'
<1> DEFINE old == thread[t]
           o == SlotOf(t)
<1>1. Live(t)
  BY DEF Sample, Handler, CatchUp, PreBlock, Exit, Running, Live
<1>2. /\ old \in ThreadRecord /\ o \in Slot
      /\ thread_states[o] \in ThreadState /\ thread_states[o].tag = t
      /\ Fine(old, thread_states[o], global_delay) /\ global_delay \in Nat
  BY <1>1, LiveFacts
<1>3. UNCHANGED <<experiment, global_delay, next_line, allowed>>
  BY DEF Sample, Handler, CatchUp, PreBlock, Exit
<1>4. global_delay' \in Nat /\ global_delay <= global_delay'
  BY <1>2, <1>3
<1>5. thread_states = [thread_states EXCEPT ![o] = thread_states[o]]
  BY <1>2 DEF IInv, Threads
<1>6. Threads'
  <2>1. ASSUME NEW l \in Line, Sample(t, l) PROVE Threads'
    <3> DEFINE r == [old EXCEPT !.samples = Append(@, l)]
    <3>0. Append(old.samples, l) \in Seq(Line)
      BY <1>2, <2>1 DEF ThreadRecord
    <3>1. r \in ThreadRecord
      BY <1>2, <3>0 DEF ThreadRecord
    <3>2. Fine(r, thread_states[o], global_delay')
      BY <1>2, <1>3, <2>1 DEF Sample, Running, Fine, ThreadRecord
    <3>3. thread' = [thread EXCEPT ![t] = r]
          /\ thread_states' = [thread_states EXCEPT ![o] = thread_states[o]]
      BY <1>5, <2>1 DEF Sample
    <3> QED
      BY <1>1, <1>2, <1>4, <3>1, <3>2, <3>3, OwnStep
  <2>2. CASE Handler(t)
    <3>1. Fine([old EXCEPT !.pc = "match"], thread_states[o], global_delay)
      BY <1>2, <2>2 DEF Handler, Fine, ThreadRecord
    <3> QED
      BY <1>1, <2>2, <3>1, GotoStep DEF Handler, Pc
  <2>3. CASE CatchUp(t)
    <3> DEFINE r == [old EXCEPT !.at = "wake", !.pc = "check", !.entry = global_delay]
               st == [thread_states[o] EXCEPT !.in_use = TRUE]
    <3>1. r \in ThreadRecord /\ st \in ThreadState /\ st.tag = t
      BY <1>2 DEF ThreadRecord, ThreadState, Place, Pc
    <3>2. Fine(r, st, global_delay')
      BY <1>2, <1>3 DEF Fine, ThreadRecord
    <3>3. thread' = [thread EXCEPT ![t] = r]
          /\ thread_states' = [thread_states EXCEPT ![o] = st]
      BY <2>3 DEF CatchUp
    <3> QED
      BY <1>1, <1>4, <3>1, <3>2, <3>3, OwnStep
  <2>4. CASE PreBlock(t)
    <3> DEFINE r == [old EXCEPT !.at = "blocked"]
               st == [thread_states[o] EXCEPT !.pre_block_time = global_delay]
    <3>1. r \in ThreadRecord /\ st \in ThreadState /\ st.tag = t
      BY <1>2 DEF ThreadRecord, ThreadState, Place, Pc
    <3>2. Fine(r, st, global_delay')
      BY <1>2, <1>3, <2>4 DEF PreBlock, Running, Fine, ThreadRecord, ThreadState
    <3>3. thread' = [thread EXCEPT ![t] = r]
          /\ thread_states' = [thread_states EXCEPT ![o] = st]
      BY <2>4 DEF PreBlock
    <3> QED
      BY <1>1, <1>4, <3>1, <3>2, <3>3, OwnStep
  <2>5. CASE Exit(t)
    <3> DEFINE r == [old EXCEPT !.at = "exit", !.pc = "match", !.entry = global_delay]
               st == [thread_states[o] EXCEPT !.in_use = TRUE]
    <3>1. r \in ThreadRecord /\ st \in ThreadState /\ st.tag = t
      BY <1>2 DEF ThreadRecord, ThreadState, Place, Pc
    <3>2. Fine(r, st, global_delay')
      BY <1>2, <1>3 DEF Fine, ThreadRecord
    <3>3. thread' = [thread EXCEPT ![t] = r]
          /\ thread_states' = [thread_states EXCEPT ![o] = st]
      BY <2>5 DEF Exit
    <3> QED
      BY <1>1, <1>4, <3>1, <3>2, <3>3, OwnStep
  <2> QED
    BY <2>1, <2>2, <2>3, <2>4, <2>5
<1> QED
  BY <1>3, <1>6 DEF experiment, IInv, Scalars

\* post_block adds what was inserted since pre_block, which is not negative.
LEMMA PostBlockStep ==
  ASSUME IInv, NEW t \in Thread, NEW skip_delays \in BOOLEAN, PostBlock(t, skip_delays)
  PROVE  IInv'
<1> DEFINE old == thread[t]
           o == SlotOf(t)
           local == IF skip_delays
                    THEN Local(t) + (global_delay - thread_states[o].pre_block_time)
                    ELSE Local(t)
           st == [thread_states[o] EXCEPT !.in_use = FALSE, !.pre_block_time = 0,
                                          !.local_delay = local]
           r == [old EXCEPT !.at = "app"]
<1>1. Live(t)
  BY DEF PostBlock, Live
<1>2. /\ old \in ThreadRecord /\ o \in Slot
      /\ thread_states[o] \in ThreadState /\ thread_states[o].tag = t
      /\ Fine(old, thread_states[o], global_delay)
      /\ global_delay \in Nat /\ allowed \in Nat /\ Local(t) \in Nat
  BY <1>1, LiveFacts
<1>3. local \in Nat /\ Local(t) <= local
  <2>1. thread_states[o].pre_block_time \in Nat
        /\ thread_states[o].pre_block_time <= global_delay
    BY <1>2 DEF PostBlock, Fine, ThreadState
  <2> QED
    BY <1>2, <2>1
<1>4. /\ thread' = [thread EXCEPT ![t] = r]
      /\ thread_states' = [thread_states EXCEPT ![o] = st]
  BY DEF PostBlock, Local
<1>5. r \in ThreadRecord /\ st \in ThreadState /\ st.tag = t /\ st.local_delay = local
  BY <1>2, <1>3 DEF ThreadRecord, ThreadState, Place
<1>6. UNCHANGED <<experiment, global_delay, next_line>>
  BY DEF PostBlock
<1>7. Fine(r, st, global_delay')
  BY <1>2 DEF PostBlock, Fine, ThreadRecord
<1>8. Threads'
  <2>1. global_delay' \in Nat /\ global_delay <= global_delay'
    BY <1>2, <1>6
  <2> QED
    BY <1>1, <1>4, <1>5, <1>7, <2>1, OwnStep
<1>9. allowed' = allowed + (Larger(0, local - global_delay) - Ahead(t))
  BY DEF PostBlock, Local
<1>10. allowed' \in Nat
  BY <1>2, <1>3, <1>9 DEF Ahead, Larger
<1> QED
  BY <1>6, <1>8, <1>10 DEF experiment, IInv, Scalars

\* A thread that is created is in no entry yet.
LEMMA CreateStep ==
  ASSUME IInv, NEW t \in Thread, NEW child \in Thread, Create(t, child)
  PROVE  IInv'
<1> DEFINE c == [NotThere EXCEPT !.at = "created", !.parent_delay = Local(t)]
<1>1. Live(t)
  BY DEF Create, Running, Live
<1>2. Local(t) \in Nat /\ Ahead(t) \in Nat /\ allowed \in Nat
  BY <1>1, LiveFacts
<1>3. c \in ThreadRecord /\ c.at = "created" /\ c.pc = "idle"
  BY <1>2, NotThereFacts DEF NotThere, ThreadRecord, Place
<1>4. thread' \in [Thread -> ThreadRecord] /\ thread'[child] = c
      /\ \A u \in Thread : u # child => thread'[u] = thread[u]
  BY <1>3 DEF Create, IInv, Threads
<1>5. ~ Live(child) /\ \A u \in Thread : Live(u)' <=> Live(u)
  BY <1>3, <1>4 DEF Create, Live
<1>6. UNCHANGED <<experiment, global_delay, next_line, thread_states>>
  BY DEF Create
<1>7. \A i \in Slot : thread_states[i].tag # child
  <2> SUFFICES ASSUME NEW i \in Slot, thread_states[i].tag = child PROVE FALSE
    OBVIOUS
  <2>1. child # NoThread
    BY VirtualDelayAssumption
  <2>2. Fine(thread[child], thread_states[i], global_delay)
    BY <2>1 DEF IInv, Threads
  <2> QED
    BY <1>5, <2>2 DEF Fine, Live
<1>8. Tagged'
  BY <1>5, <1>6 DEF IInv, Threads, Tagged
<1>9. \A u \in Thread : ~ Live(u)' => thread'[u].pc = "idle"
  BY <1>3, <1>4, <1>5 DEF IInv, Threads
<1>10. ASSUME NEW i \in Slot, thread_states'[i].tag # NoThread
       PROVE  Fine(thread'[thread_states'[i].tag], thread_states'[i], global_delay')
  <2>1. thread_states[i].tag \in Thread /\ thread_states[i].tag # child
    BY <1>6, <1>7, <1>10 DEF IInv, Threads, ThreadState
  <2> QED
    BY <1>4, <1>6, <1>10, <2>1 DEF IInv, Threads
<1>11. Threads'
  BY <1>4, <1>6, <1>8, <1>9, <1>10 DEF IInv, Threads
<1>12. allowed' \in Nat
  BY <1>2 DEF Create
<1> QED
  BY <1>6, <1>11, <1>12 DEF experiment, IInv, Scalars

\* A thread that starts takes a free entry, whatever its last holder left in it.
LEMMA StartThreadStep ==
  ASSUME IInv, NEW t \in Thread, StartThread(t)
  PROVE  IInv'
<1>1. PICK i \in Slot :
        /\ thread_states[i].tag = NoThread
        /\ thread_states' = [thread_states EXCEPT ![i].tag = t,
                                                  ![i].local_delay = thread[t].parent_delay]
  BY DEF StartThread
<1> DEFINE st == [thread_states[i] EXCEPT !.tag = t, !.local_delay = thread[t].parent_delay]
           r == [NotThere EXCEPT !.at = "app"]
<1>2. UNCHANGED <<experiment, global_delay, next_line, allowed>>
  BY DEF StartThread
<1>3. /\ ~ Live(t)
      /\ thread[t].parent_delay \in Nat
  BY DEF StartThread, Live, IInv, Threads, ThreadRecord
<1>4. st \in ThreadState /\ st.tag = t
  BY <1>1, <1>3 DEF IInv, Threads, ThreadState
<1>5. r \in ThreadRecord /\ r.at = "app" /\ r.pc = "idle"
  BY NotThereFacts DEF NotThere, ThreadRecord, Place
<1>6. thread' \in [Thread -> ThreadRecord] /\ thread'[t] = r
      /\ \A u \in Thread : u # t => thread'[u] = thread[u]
  BY <1>5 DEF StartThread, IInv, Threads
<1>7. thread_states' \in [Slot -> ThreadState] /\ thread_states'[i] = st
      /\ \A j \in Slot : j # i => thread_states'[j] = thread_states[j]
  BY <1>1, <1>4 DEF IInv, Threads
<1>8. Live(t)' /\ \A u \in Thread : u # t => (Live(u)' <=> Live(u))
  BY <1>5, <1>6 DEF Live
<1>9. t # NoThread
  BY VirtualDelayAssumption
<1>10. \A j \in Slot : thread_states[j].tag # t
  BY <1>3, <1>9 DEF IInv, Threads, Fine, Live
<1>11. Tagged'
  <2>1. \A u \in Thread : Live(u)' => \E j \in Slot : thread_states'[j].tag = u
    <3> SUFFICES ASSUME NEW u \in Thread, Live(u)'
                 PROVE  \E j \in Slot : thread_states'[j].tag = u
      OBVIOUS
    <3>1. CASE u = t
      BY <1>4, <1>7, <3>1
    <3>2. CASE u # t
      <4>1. PICK j \in Slot : thread_states[j].tag = u
        BY <1>8, <3>2 DEF IInv, Threads, Tagged
      <4>2. j # i
        BY <1>1, <4>1, VirtualDelayAssumption
      <4> QED
        BY <1>7, <4>1, <4>2
    <3> QED
      BY <3>1, <3>2
  <2>2. \A j, k \in Slot :
          thread_states'[j].tag = thread_states'[k].tag /\ thread_states'[j].tag # NoThread
            => j = k
    <3>1. \A j \in Slot : j # i => thread_states'[j].tag = thread_states[j].tag
                                   /\ thread_states'[j].tag # t
      BY <1>7, <1>10
    <3>2. thread_states'[i].tag = t
      BY <1>4, <1>7
    <3> QED
      BY <3>1, <3>2 DEF IInv, Threads, Tagged
  <2> QED
    BY <2>1, <2>2 DEF Tagged
<1>12. \A u \in Thread : ~ Live(u)' => thread'[u].pc = "idle"
  BY <1>6, <1>8 DEF IInv, Threads
<1>13. ASSUME NEW j \in Slot, thread_states'[j].tag # NoThread
       PROVE  Fine(thread'[thread_states'[j].tag], thread_states'[j], global_delay')
  <2>1. CASE j = i
    <3>1. Fine(r, st, global_delay')
      BY <1>5 DEF Fine
    <3>2. thread_states'[j] = st /\ thread'[t] = r
      BY <1>6, <1>7, <2>1
    <3> QED
      BY <1>4, <3>1, <3>2
  <2>2. CASE j # i
    <3>1. thread_states[j].tag \in Thread /\ thread_states[j].tag # t
      BY <1>7, <1>10, <1>13, <2>2 DEF IInv, Threads, ThreadState
    <3> QED
      BY <1>2, <1>6, <1>7, <1>13, <2>2, <3>1 DEF IInv, Threads
  <2> QED
    BY <2>1, <2>2
<1>14. Threads'
  BY <1>6, <1>7, <1>11, <1>12, <1>13 DEF Threads
<1> QED
  BY <1>2, <1>14 DEF experiment, IInv, Scalars
-----------------------------------------------------------------------------
\* startup() gives the main thread an entry, and nobody else.
LEMMA IInvInit == Init => IInv
<1> SUFFICES ASSUME Init PROVE IInv
  OBVIOUS
<1>1. PICK i \in Slot :
        thread_states =
          [j \in Slot |-> [tag |-> IF j = i THEN Main ELSE NoThread,
                           in_use |-> FALSE, local_delay |-> 0, pre_block_time |-> 0]]
  BY DEF Init
<1> DEFINE r == [NotThere EXCEPT !.at = "app"]
<1>2. r \in ThreadRecord /\ r.at = "app" /\ r.pc = "idle"
  BY NotThereFacts DEF NotThere, ThreadRecord, Place
<1>3. thread = [t \in Thread |-> IF t = Main THEN r ELSE NotThere]
  BY DEF Init
<1>4. thread \in [Thread -> ThreadRecord] /\ \A t \in Thread : thread[t].pc = "idle"
  BY <1>2, <1>3, NotThereFacts DEF NotThere
<1>5. \A t \in Thread : Live(t) <=> t = Main
  BY <1>2, <1>3 DEF Live, NotThere
<1>6. thread_states \in [Slot -> ThreadState]
  BY <1>1, VirtualDelayAssumption DEF ThreadState
<1>7. \A j \in Slot : thread_states[j].tag = IF j = i THEN Main ELSE NoThread
  BY <1>1
<1>8. Tagged
  BY <1>5, <1>7, VirtualDelayAssumption DEF Tagged
<1>9. ASSUME NEW j \in Slot, thread_states[j].tag # NoThread
      PROVE  Fine(thread[thread_states[j].tag], thread_states[j], global_delay)
  <2>1. thread_states[j].tag = Main
    BY <1>7, <1>9
  <2> QED
    BY <1>2, <1>3, <2>1, VirtualDelayAssumption DEF Fine
<1>10. Threads
  BY <1>4, <1>6, <1>8, <1>9 DEF Threads
<1>11. Scalars
  BY DEF Init, Scalars
<1> QED
  BY <1>10, <1>11 DEF IInv

\* Every step of a thread or of the profiler keeps the inductive invariant.
LEMMA IInvNext == IInv /\ [Next]_vars => IInv'
<1> SUFFICES ASSUME IInv, [Next]_vars PROVE IInv'
  OBVIOUS
<1>1. CASE ProfilerThread
  BY <1>1, ProfilerStep
<1>2. ASSUME NEW t \in Thread, Work(t) PROVE IInv'
  BY <1>2, SamplesStep, DelaysStep DEF Work
<1>3. ASSUME NEW t \in Thread, Program(t) PROVE IInv'
  <2>1. CASE \E skip_delays \in BOOLEAN : PostBlock(t, skip_delays)
    BY <2>1, PostBlockStep
  <2>2. CASE \E child \in Thread : Create(t, child)
    BY <2>2, CreateStep
  <2>3. CASE StartThread(t)
    BY <2>3, StartThreadStep
  <2>4. CASE (\E l \in Line : Sample(t, l)) \/ Handler(t) \/ CatchUp(t) \/ PreBlock(t) \/ Exit(t)
    BY <2>4, EnterStep
  <2> QED
    BY <1>3, <2>1, <2>2, <2>3, <2>4 DEF Program
<1>4. CASE UNCHANGED vars
  <2>1. Threads'
    BY <1>4, SameThreads DEF vars
  <2> QED
    BY <1>4, <2>1 DEF vars, IInv, Scalars
<1> QED
  BY <1>1, <1>2, <1>3, <1>4 DEF Next

\* The inductive invariant, in every reachable state.
THEOREM IInvHolds == Safety => []IInv
BY IInvInit, IInvNext, PTL DEF Safety

\* Delays are numbers and an entry of _thread_states belongs to one thread, for
\* any number of threads that are created, end and reuse each other's entries.
THEOREM VirtualDelayTypeCorrect == Safety => []TypeOK
BY IInvHolds, IInvTypeOK, PTL
-----------------------------------------------------------------------------
\* Only the end of add_delays takes a thread out of catch_up or end_sampling, and
\* whichever way it ends the thread has at least the delay it came with.
LEMMA PaidStep ==
  ASSUME IInv, NEW u \in Thread, Work(u),
         NEW t \in Thread, thread[t].at \in {"wake", "exit"}, thread'[t].at # thread[t].at
  PROVE  thread_states'[SlotOf(t)].local_delay >= thread[t].entry
<1>1. Live(t) /\ Live(u)
  BY WorkIsLive DEF Live, Work, Match, Attribute, Charge, Suggest, Check, Compare, Raise, Pay, Skip
<1>2. /\ thread[t] \in ThreadRecord /\ Local(t) \in Nat /\ global_delay \in Nat
      /\ Fine(thread[t], thread_states[SlotOf(t)], global_delay)
  BY <1>1, LiveFacts
<1>3. thread[t].entry \in Nat /\ thread[t].seen \in Nat
      /\ thread \in [Thread -> ThreadRecord]
  BY <1>2 DEF ThreadRecord, IInv, Threads
<1>4. thread[t].entry <= global_delay
      /\ (thread[t].pc \in {"raise", "pay"} => thread[t].entry <= thread[t].seen)
      /\ (thread[t].pc = "raise" => Local(t) > thread[t].seen)
  BY <1>2 DEF Fine, Local
<1>5. \A local \in Nat : Return(u, local) =>
        t = u /\ thread_states'[SlotOf(t)].local_delay = local
  <2> SUFFICES ASSUME NEW local \in Nat, Return(u, local)
               PROVE  t = u /\ thread_states'[SlotOf(t)].local_delay = local
    OBVIOUS
  <2>1. /\ thread_states'[SlotOf(u)].local_delay = local
        /\ \A v \in Thread : v # u => thread'[v] = thread[v]
    BY <1>1, ReturnFacts
  <2> QED
    BY <2>1
<1>6. ~ (Match(u) \/ Attribute(u) \/ Suggest(u) \/ Charge(u) \/ Check(u))
  <2> DEFINE next == [thread[u] EXCEPT !.pc = "match", !.samples = Tail(@)]
  <2>1. \A pc \in Pc : ~ Goto(u, pc)
    <3> SUFFICES ASSUME NEW pc \in Pc, Goto(u, pc) PROVE FALSE
      OBVIOUS
    <3>1. [thread[u] EXCEPT !.pc = pc].at = thread[u].at
      BY <1>3 DEF ThreadRecord
    <3>2. thread' = [thread EXCEPT ![u] = [thread[u] EXCEPT !.pc = pc]]
      BY DEF Goto
    <3> QED
      BY <1>3, <3>1, <3>2
  <2>2. thread' # [thread EXCEPT ![u] = next]
    <3>1. next.at = thread[u].at
      BY <1>3 DEF ThreadRecord
    <3> QED
      BY <1>3, <3>1
  <2>3. ~ (Suggest(u) \/ Charge(u))
    BY <2>2 DEF Suggest, Charge
  <2>4. ~ Attribute(u)
    <3>1. ASSUME Attribute(u) PROVE Goto(u, "charge") \/ Goto(u, "select")
      BY <2>2, <3>1 DEF Attribute
    <3> QED
      BY <2>1, <3>1 DEF Pc
  <2>5. ~ (Match(u) \/ Check(u))
    BY <2>1 DEF Match, Check, Pc
  <2> QED
    BY <2>3, <2>4, <2>5
<1>7. Local(u) \in Nat /\ thread[u].seen \in Nat
  BY <1>1, LiveFacts DEF ThreadRecord
<1>8. CASE Compare(u)
  <2>1. Local(u) = global_delay
    <3> DEFINE pc == IF Local(u) > global_delay THEN "raise" ELSE "pay"
               r == [thread[u] EXCEPT !.seen = global_delay, !.pc = pc]
    <3> SUFFICES ASSUME Local(u) # global_delay PROVE FALSE
      OBVIOUS
    <3>1. thread' = [thread EXCEPT ![u] = r]
      BY <1>8 DEF Compare
    <3>2. r.at = thread[u].at
      BY <1>3 DEF ThreadRecord
    <3> QED
      BY <1>3, <3>1, <3>2
  <2>2. Return(u, Local(u))
    BY <1>8, <2>1 DEF Compare
  <2> QED
    BY <1>2, <1>3, <1>4, <1>5, <1>7, <2>1, <2>2
<1>9. CASE Raise(u)
  <2>1. Return(u, Local(u)) /\ thread[u].pc = "raise"
    BY <1>9 DEF Raise
  <2> QED
    BY <1>2, <1>3, <1>4, <1>5, <1>7, <2>1
<1>10. CASE Pay(u)
  <2>1. PICK over \in Oversleep : Return(u, thread[u].seen + over)
    BY <1>10 DEF Pay
  <2>2. over \in Nat /\ thread[u].pc = "pay"
    BY <1>10, VirtualDelayAssumption DEF Pay
  <2> QED
    BY <1>3, <1>4, <1>5, <1>7, <2>1, <2>2
<1>11. CASE Skip(u)
  BY <1>2, <1>3, <1>4, <1>5, <1>11 DEF Skip
<1> QED
  BY <1>6, <1>8, <1>9, <1>10, <1>11 DEF Work

\* No other step takes a thread out of them.
LEMMA OthersStay ==
  ASSUME IInv, NEW u \in Thread, Program(u),
         NEW t \in Thread, thread[t].at \in {"wake", "exit"}
  PROVE  thread'[t].at = thread[t].at
<1>1. thread \in [Thread -> ThreadRecord]
  BY DEF IInv, Threads
<1>2. ASSUME NEW l \in Line, Sample(u, l) PROVE thread'[t].at = thread[t].at
  BY <1>1, <1>2 DEF Sample, Running, ThreadRecord
<1>3. CASE Handler(u) \/ CatchUp(u) \/ PreBlock(u) \/ Exit(u)
  BY <1>1, <1>3 DEF Handler, CatchUp, PreBlock, Exit, Running, Goto, ThreadRecord
<1>4. ASSUME NEW skip_delays \in BOOLEAN, PostBlock(u, skip_delays)
      PROVE  thread'[t].at = thread[t].at
  BY <1>1, <1>4 DEF PostBlock, ThreadRecord
<1>5. ASSUME NEW child \in Thread, Create(u, child) PROVE thread'[t].at = thread[t].at
  BY <1>1, <1>5 DEF Create
<1>6. CASE StartThread(u)
  BY <1>1, <1>6 DEF StartThread
<1> QED
  BY <1>2, <1>3, <1>4, <1>5, <1>6 DEF Program

\* A thread that goes on to wake another one, or ends, has executed every delay
\* inserted before its call, for any number of threads, whatever the sizes of the
\* delays and however long the sleeps.
THEOREM ThreadsPayBeforeWaking == Safety => PaidBeforeWaking
<1>1. IInv /\ [Next]_vars =>
        [\A t \in Thread :
           thread[t].at \in {"wake", "exit"} /\ thread'[t].at # thread[t].at =>
             thread_states'[SlotOf(t)].local_delay >= thread[t].entry]_vars
  <2>1. ASSUME IInv, Next, NEW t \in Thread,
               thread[t].at \in {"wake", "exit"}, thread'[t].at # thread[t].at
        PROVE  thread_states'[SlotOf(t)].local_delay >= thread[t].entry
    <3>1. ~ ProfilerThread
      BY <2>1 DEF ProfilerThread, Select, ChooseSize, Start, ClearNext, End
    <3>2. PICK u \in Thread : Work(u) \/ Program(u)
      BY <2>1, <3>1 DEF Next
    <3> QED
      BY <2>1, <3>2, PaidStep, OthersStay
  <2> QED
    BY <2>1
<1> QED
  BY <1>1, IInvHolds, PTL DEF Safety, PaidBeforeWaking
-----------------------------------------------------------------------------
\* What each thread owes is a number.
Pendings == \A t \in Thread : Pending(t) \in Nat

\* DelaysAreAccounted is inductive together with IInv.  That the delay owed is
\* finitely much needs no assumption on the number of threads: each step adds to one.
Accounted == IsFiniteSet(Owed) /\ DelaysAreAccounted

\* Every thread but t, and every entry of another thread, is left alone.
Own(t) ==
  /\ \A u \in Thread : u # t => thread'[u] = thread[u]
  /\ \A i \in Slot : thread_states[i].tag \notin {t, NoThread} =>
                       thread_states'[i] = thread_states[i]

\* A thread that is about to raise is ahead of its snapshot.
LEMMA PendingType == IInv => Pendings
<1> SUFFICES ASSUME IInv, NEW t \in Thread PROVE Pending(t) \in Nat
  BY DEF Pendings
<1>1. CASE Live(t)
  <2>1. /\ Local(t) \in Nat /\ Ahead(t) \in Nat /\ thread[t] \in ThreadRecord
        /\ Fine(thread[t], thread_states[SlotOf(t)], global_delay)
    BY <1>1, LiveFacts
  <2>2. CASE thread[t].pc = "raise"
    <3>1. Local(t) > thread[t].seen
      BY <2>1, <2>2 DEF Fine, Local
    <3>2. thread[t].seen \in Nat
      BY <2>1 DEF ThreadRecord
    <3>3. Local(t) - thread[t].seen \in Nat
      BY <2>1, <3>1, <3>2
    <3> QED
      BY <1>1, <2>2, <3>3 DEF Pending, Live
  <2> QED
    BY <1>1, <2>1, <2>2 DEF Pending, Live
<1>2. CASE ~ Live(t)
  <2>1. thread[t].pc = "idle"
    BY <1>2 DEF IInv, Threads
  <2>2. thread[t].parent_delay \in Nat /\ global_delay \in Nat
    BY DEF IInv, Scalars, Threads, ThreadRecord
  <2>3. Larger(0, thread[t].parent_delay - global_delay) \in Nat
    BY <2>2 DEF Larger
  <2> QED
    BY <1>2, <2>1, <2>3 DEF Pending
<1> QED
  BY <1>1, <1>2

\* The same after a step.
LEMMA PendingNext == IInv' => Pendings'
BY PendingType, PTL

\* A step that makes no thread but t owe more.
LEMMA OwedStep ==
  ASSUME Pendings, Pendings', IsFiniteSet(Owed), NEW t \in Thread,
         \A u \in Thread : u # t => Pending(u)' <= Pending(u)
  PROVE  /\ IsFiniteSet(Owed') /\ Cardinality(Owed) \in Nat /\ Cardinality(Owed') \in Nat
         /\ Cardinality(Owed') <= Cardinality(Owed) + (Pending(t)' - Pending(t))
<1> DEFINE own == {t} \X (1 .. Pending(t))
           new == {t} \X (1 .. Pending(t)')
           rest == Owed \ own
<1>1. Pending(t) \in Nat /\ Pending(t)' \in Nat
  BY DEF Pendings
<1>2. /\ IsFiniteSet(own) /\ Cardinality(own) = Pending(t)
      /\ IsFiniteSet(new) /\ Cardinality(new) = Pending(t)'
  <2>1. ASSUME NEW k \in Nat
        PROVE  IsFiniteSet({t} \X (1 .. k)) /\ Cardinality({t} \X (1 .. k)) = k
    <3>1. IsFiniteSet(1 .. k) /\ Cardinality(1 .. k) = k
      BY FS_Interval
    <3>2. IsFiniteSet({t}) /\ Cardinality({t}) = 1
      BY FS_Singleton
    <3>3. /\ IsFiniteSet({t} \X (1 .. k))
          /\ Cardinality({t} \X (1 .. k)) = Cardinality({t}) * Cardinality(1 .. k)
      BY <3>1, <3>2, FS_Product
    <3> QED
      BY <3>1, <3>2, <3>3
  <2> QED
    BY <1>1, <2>1
<1>3. own \subseteq Owed
  BY DEF Owed
<1>4. IsFiniteSet(rest) /\ Cardinality(rest) = Cardinality(Owed) - Pending(t)
  <2>1. Owed \cap own = own
    BY <1>3
  <2>2. /\ IsFiniteSet(rest)
        /\ Cardinality(rest) = Cardinality(Owed) - Cardinality(Owed \cap own)
    BY FS_Difference
  <2> QED
    BY <1>2, <2>1, <2>2
<1>5. IsFiniteSet(rest \cup new) /\ Cardinality(rest \cup new) <= Cardinality(rest) + Pending(t)'
  <2>1. /\ IsFiniteSet(rest \cup new)
        /\ Cardinality(rest \cup new)
             = Cardinality(rest) + Cardinality(new) - Cardinality(rest \cap new)
    BY <1>2, <1>4, FS_Union
  <2>2. Cardinality(rest \cap new) \in Nat /\ Cardinality(rest) \in Nat
    BY <1>2, <1>4, FS_Intersection, FS_CardinalityType
  <2> QED
    BY <1>1, <1>2, <2>1, <2>2
<1>6. Owed' \subseteq rest \cup new
  <2> SUFFICES ASSUME NEW u \in Thread, NEW k \in 1 .. Pending(u)'
               PROVE  <<u, k>> \in rest \cup new
    BY DEF Owed
  <2>1. CASE u = t
    BY <2>1
  <2>2. CASE u # t
    <3>1. k \in 1 .. Pending(u)
      BY <2>2 DEF Pendings
    <3> QED
      BY <2>2, <3>1 DEF Owed
  <2> QED
    BY <2>1, <2>2
<1>7. IsFiniteSet(Owed') /\ Cardinality(Owed') <= Cardinality(rest \cup new)
  BY <1>5, <1>6, FS_Subset
<1>8. /\ Cardinality(Owed) \in Nat /\ Cardinality(Owed') \in Nat
      /\ Cardinality(rest) \in Nat /\ Cardinality(rest \cup new) \in Nat
  BY <1>4, <1>5, <1>7, FS_CardinalityType
<1> QED
  BY <1>1, <1>4, <1>5, <1>7, <1>8

\* The entry with a thread's tag is the one it uses.
LEMMA TaggedSlotNext ==
  ASSUME IInv', NEW t \in Thread, NEW i \in Slot, thread_states'[i].tag = t
  PROVE  SlotOf(t)' = i
<1>1. t # NoThread
  BY VirtualDelayAssumption
<1>2. thread_states'[SlotOf(t)'].tag = t /\ SlotOf(t)' \in Slot
  BY DEF SlotOf
<1> QED
  BY <1>1, <1>2 DEF IInv, Threads, Tagged

\* What a thread owes by where it is.
LEMMA PendingIs ==
  ASSUME IInv, NEW t \in Thread
  PROVE  /\ Live(t) /\ thread[t].pc # "raise" => Pending(t) = Ahead(t)
         /\ thread[t].pc = "raise" => Pending(t) = Local(t) - thread[t].seen
         /\ thread[t].at = "created" => Pending(t) = Larger(0, thread[t].parent_delay - global_delay)
         /\ thread[t].at = "none" => Pending(t) = 0
<1>1. thread[t].pc = "raise" => Live(t)
  BY WorkIsLive
<1> QED
  BY <1>1 DEF Pending, Live

\* Threads that a step leaves alone owe no more after it than before.
LEMMA OthersOweNoMore ==
  ASSUME IInv, IInv', NEW t \in Thread,
         global_delay <= global_delay',
         Own(t)
  PROVE  \A u \in Thread : u # t => Pending(u)' <= Pending(u)
<1> SUFFICES ASSUME NEW u \in Thread, u # t PROVE Pending(u)' <= Pending(u)
  OBVIOUS
<1>0. thread'[u] = thread[u] /\ (Live(u)' <=> Live(u))
  BY DEF Live, Own
<1>1. global_delay \in Nat /\ global_delay' \in Nat
  BY DEF IInv, Scalars
<1>2. CASE Live(u)
  <2> DEFINE i == SlotOf(u)
  <2>1. /\ i \in Slot /\ thread_states[i].tag = u /\ thread[u] \in ThreadRecord
        /\ Local(u) \in Nat
    BY <1>2, LiveFacts
  <2>2. thread_states'[i] = thread_states[i]
    BY <2>1, VirtualDelayAssumption DEF Own
  <2>3. SlotOf(u)' = i
    BY <2>1, <2>2, TaggedSlotNext
  <2>4. Local(u)' = Local(u)
    BY <2>2, <2>3 DEF Local
  <2>5. CASE thread[u].pc = "raise"
    <3>1. Pending(u)' = Pending(u)
      BY <1>0, <2>4, <2>5 DEF Pending
    <3>2. Pending(u) \in Nat
      BY PendingType DEF Pendings
    <3> QED
      BY <3>1, <3>2
  <2>6. CASE thread[u].pc # "raise"
    <3>1. Pending(u) = Ahead(u) /\ Pending(u)' = Ahead(u)'
      BY <1>0, <1>2, <2>6 DEF Pending, Live
    <3>2. Ahead(u)' <= Ahead(u)
      BY <1>1, <2>1, <2>4 DEF Ahead, Larger
    <3> QED
      BY <3>1, <3>2
  <2> QED
    BY <2>5, <2>6
<1>3. CASE thread[u].at = "created"
  <2>1. thread[u].pc # "raise"
    BY <1>3, WorkIsLive DEF Live
  <2>2. /\ Pending(u) = Larger(0, thread[u].parent_delay - global_delay)
        /\ Pending(u)' = Larger(0, thread[u].parent_delay - global_delay')
    BY <1>0, <1>3, <2>1 DEF Pending, Live
  <2>3. thread[u].parent_delay \in Nat
    BY DEF IInv, Threads, ThreadRecord
  <2> QED
    BY <1>1, <2>2, <2>3 DEF Larger
<1>4. CASE thread[u].at = "none"
  <2>1. thread[u].pc # "raise"
    BY <1>4, WorkIsLive DEF Live
  <2>2. Pending(u) = 0 /\ Pending(u)' = 0
    BY <1>0, <1>4, <2>1 DEF Pending, Live
  <2> QED
    BY <2>2
<1> QED
  BY <1>2, <1>3, <1>4 DEF Live

\* A step of t that adds no more to global_delay and to what t owes than a reason
\* for it was given.
LEMMA AccountedStep ==
  ASSUME IInv, IInv', Accounted, NEW t \in Thread,
         global_delay <= global_delay',
         Own(t),
         global_delay' + Pending(t)' + allowed <= global_delay + Pending(t) + allowed'
  PROVE  Accounted'
<1>1. Pendings /\ Pendings'
  BY PendingType, PendingNext
<1>2. \A u \in Thread : u # t => Pending(u)' <= Pending(u)
  BY OthersOweNoMore
<1>3. /\ IsFiniteSet(Owed') /\ Cardinality(Owed) \in Nat /\ Cardinality(Owed') \in Nat
      /\ Cardinality(Owed') <= Cardinality(Owed) + (Pending(t)' - Pending(t))
  BY <1>1, <1>2, OwedStep DEF Accounted
<1>4. /\ Pending(t) \in Nat /\ Pending(t)' \in Nat
      /\ global_delay \in Nat /\ global_delay' \in Nat /\ allowed \in Nat /\ allowed' \in Nat
  BY <1>1 DEF Pendings, IInv, Scalars
<1>5. global_delay + Cardinality(Owed) <= allowed
  BY DEF Accounted, DelaysAreAccounted
<1>6. global_delay' + Cardinality(Owed') <= allowed'
  BY <1>3, <1>4, <1>5
<1> QED
  BY <1>3, <1>6 DEF Accounted, DelaysAreAccounted

\* A thread that has an entry and is not about to raise owes what it is ahead by.
LEMMA NextPending ==
  ASSUME IInv, IInv', NEW t \in Thread, Live(t)', thread'[t].pc # "raise",
         NEW i \in Slot, thread_states'[i].tag = t
  PROVE  Pending(t)' = Larger(0, thread_states'[i].local_delay - global_delay')
<1>1. Pending(t)' = Ahead(t)'
  BY DEF Pending, Live
<1>2. SlotOf(t)' = i
  BY TaggedSlotNext
<1> QED
  BY <1>1, <1>2 DEF Ahead, Local

\* The end of add_delays leaves the thread owing what it is ahead by, or nothing if
\* it ends.
LEMMA ReturnOwes ==
  ASSUME IInv, IInv', NEW t \in Thread, Live(t), NEW local \in Nat, Return(t, local)
  PROVE  Own(t) /\ Pending(t)' <= Larger(0, local - global_delay')
<1> DEFINE o == SlotOf(t)
<1>1. o \in Slot /\ thread_states[o].tag = t /\ thread_states[o] \in ThreadState
  BY SlotFacts
<1>2. thread \in [Thread -> ThreadRecord] /\ thread_states \in [Slot -> ThreadState]
  BY DEF IInv, Threads
<1>3. Own(t)
  BY <1>1, <1>2 DEF Return, Own
<1>4. local - global_delay' \in Int
  BY DEF IInv, Scalars
<1>5. CASE thread[t].at = "exit"
  <2>1. thread'[t] = NotThere
    BY <1>2, <1>5 DEF Return
  <2>2. Pending(t)' = 0
    BY <2>1 DEF Pending, Live, NotThere
  <2> QED
    BY <1>3, <1>4, <2>2 DEF Larger
<1>6. CASE thread[t].at # "exit"
  <2>1. /\ thread_states'[o].local_delay = local /\ thread_states'[o].tag = t
        /\ thread'[t].pc = "idle" /\ thread'[t].at \in {"app", thread[t].at}
    BY <1>1, <1>2, <1>6 DEF Return, ThreadState, ThreadRecord
  <2>2. Live(t)'
    BY <2>1 DEF Live
  <2>3. Pending(t)' = Larger(0, local - global_delay')
    BY <1>1, <2>1, <2>2, NextPending
  <2> QED
    BY <1>3, <1>4, <2>3 DEF Larger
<1> QED
  BY <1>5, <1>6

\* A step of t that leaves its delay and the global one alone, and does not end in
\* a raise.
LEMMA QuietStep ==
  ASSUME IInv, IInv', NEW t \in Thread, Live(t), Live(t)', Own(t),
         thread[t].pc # "raise", thread'[t].pc # "raise",
         thread_states'[SlotOf(t)].tag = t,
         thread_states'[SlotOf(t)].local_delay = Local(t),
         UNCHANGED <<global_delay, allowed>>,
         Accounted
  PROVE  Accounted'
<1>1. SlotOf(t) \in Slot
  BY SlotFacts
<1>2. Pending(t)' = Larger(0, Local(t) - global_delay)
  BY <1>1, NextPending
<1>3. Pending(t) = Larger(0, Local(t) - global_delay)
  BY PendingIs DEF Ahead
<1>4. Pending(t) \in Nat /\ global_delay \in Nat /\ allowed \in Nat
  BY PendingType DEF Pendings, IInv, Scalars
<1>5. global_delay' + Pending(t)' + allowed <= global_delay + Pending(t) + allowed'
  BY <1>2, <1>3, <1>4
<1>6. global_delay <= global_delay'
  BY <1>4
<1> QED
  BY <1>5, <1>6, AccountedStep

\* What a step of a live thread starts from.
LEMMA OwnFacts ==
  ASSUME IInv, NEW t \in Thread, Live(t)
  PROVE  /\ SlotOf(t) \in Slot /\ thread_states[SlotOf(t)].tag = t
         /\ thread_states[SlotOf(t)] \in ThreadState
         /\ Local(t) = thread_states[SlotOf(t)].local_delay /\ Local(t) \in Nat
         /\ thread[t] \in ThreadRecord
         /\ thread \in [Thread -> ThreadRecord]
         /\ thread_states \in [Slot -> ThreadState]
         /\ global_delay \in Nat /\ delay_size \in Nat /\ allowed \in Nat
         /\ Pending(t) \in Nat
<1>1. Pending(t) \in Nat
  BY PendingType DEF Pendings
<1> QED
  BY <1>1, LiveFacts DEF Local, IInv, Threads

\* The steps that only move a thread on.
LEMMA AccountedQuiet ==
  ASSUME IInv, IInv', Accounted, NEW t \in Thread,
         \/ Match(t) \/ Attribute(t) \/ Suggest(t) \/ Check(t)
         \/ (\E l \in Line : Sample(t, l)) \/ Handler(t) \/ CatchUp(t) \/ PreBlock(t) \/ Exit(t)
  PROVE  Accounted'
<1>1. Live(t)
  BY WorkIsLive
  DEF Match, Attribute, Suggest, Check, Sample, Handler, CatchUp, PreBlock, Exit, Running, Live
<1>2. /\ SlotOf(t) \in Slot /\ thread_states[SlotOf(t)].tag = t
      /\ thread_states[SlotOf(t)] \in ThreadState
      /\ Local(t) = thread_states[SlotOf(t)].local_delay
      /\ thread[t] \in ThreadRecord
      /\ thread \in [Thread -> ThreadRecord]
      /\ thread_states \in [Slot -> ThreadState]
  BY <1>1, OwnFacts
<1>3. thread[t].pc # "raise" /\ UNCHANGED <<global_delay, allowed>>
  BY DEF Match, Attribute, Suggest, Check, Sample, Handler, CatchUp, PreBlock, Exit, Running
<1>4. /\ thread_states'[SlotOf(t)].tag = t /\ thread_states'[SlotOf(t)].local_delay = Local(t)
      /\ \A i \in Slot : thread_states[i].tag \notin {t, NoThread} =>
                           thread_states'[i] = thread_states[i]
  <2>1. CASE UNCHANGED thread_states
    BY <1>2, <2>1
  <2>2. CASE CatchUp(t) \/ PreBlock(t) \/ Exit(t)
    BY <1>2, <2>2 DEF CatchUp, PreBlock, Exit, ThreadState
  <2> QED
    BY <2>1, <2>2 DEF Match, Attribute, Suggest, Check, Sample, Handler
<1>5. /\ \A u \in Thread : u # t => thread'[u] = thread[u]
      /\ thread'[t].pc # "raise" /\ Live(t)'
  <2>1. ASSUME NEW pc \in Pc \ {"raise"}, Goto(t, pc)
        PROVE  /\ \A u \in Thread : u # t => thread'[u] = thread[u]
               /\ thread'[t].pc # "raise" /\ Live(t)'
    BY <1>1, <1>2, <2>1 DEF Goto, Live, ThreadRecord
  <2>2. CASE Match(t) \/ Check(t) \/ Handler(t) \/ Attribute(t) \/ Suggest(t)
    <3>1. CASE thread' = [thread EXCEPT ![t].pc = "match", ![t].samples = Tail(@)]
      BY <1>1, <1>2, <3>1 DEF Live, ThreadRecord
    <3>2. CASE \E pc \in Pc \ {"raise"} : Goto(t, pc)
      BY <2>1, <3>2
    <3> QED
      BY <2>2, <3>1, <3>2 DEF Match, Check, Handler, Attribute, Suggest, Pc
  <2>3. CASE (\E l \in Line : Sample(t, l)) \/ CatchUp(t) \/ PreBlock(t) \/ Exit(t)
    BY <1>1, <1>2, <1>3, <2>3 DEF Sample, CatchUp, PreBlock, Exit, Live, ThreadRecord
  <2> QED
    BY <2>1, <2>2, <2>3
<1> QED
  BY <1>1, <1>3, <1>4, <1>5, QuietStep DEF Own

\* A sample in the selected line is a reason for delay_size more.
LEMMA AccountedCharge ==
  ASSUME IInv, IInv', Accounted, NEW t \in Thread, Charge(t)
  PROVE  Accounted'
<1> DEFINE o == SlotOf(t)
<1>1. Live(t) /\ thread[t].pc = "charge"
  BY WorkIsLive DEF Charge
<1>2. /\ o \in Slot /\ thread_states[o].tag = t
      /\ thread_states[o] \in ThreadState
      /\ Local(t) = thread_states[o].local_delay /\ Local(t) \in Nat
      /\ thread[t] \in ThreadRecord
      /\ thread \in [Thread -> ThreadRecord]
      /\ thread_states \in [Slot -> ThreadState]
      /\ global_delay \in Nat /\ delay_size \in Nat /\ allowed \in Nat
  BY <1>1, OwnFacts
<1>3. Own(t) /\ thread'[t].pc = "match" /\ Live(t)'
  BY <1>1, <1>2 DEF Charge, Own, Live, ThreadRecord
<1>4. thread_states'[o].tag = t /\ thread_states'[o].local_delay = Local(t) + delay_size
  BY <1>2 DEF Charge, ThreadState
<1>5. global_delay' = global_delay /\ allowed' = allowed + delay_size
  BY DEF Charge
<1>6. Pending(t)' = Larger(0, Local(t) + delay_size - global_delay)
  BY <1>2, <1>3, <1>4, <1>5, NextPending
<1>7. Pending(t) = Larger(0, Local(t) - global_delay)
  BY <1>1, PendingIs DEF Ahead
<1>8. global_delay' + Pending(t)' + allowed <= global_delay + Pending(t) + allowed'
  BY <1>2, <1>5, <1>6, <1>7 DEF Larger
<1> QED
  BY <1>2, <1>3, <1>5, <1>8, AccountedStep

\* add_delays: the snapshot turns what a thread is ahead by into what it is going to
\* raise global_delay by, however far others have raised it when it does.
LEMMA AccountedCompare ==
  ASSUME IInv, IInv', Accounted, NEW t \in Thread, Compare(t)
  PROVE  Accounted'
<1>1. Live(t) /\ thread[t].pc = "compare"
  BY WorkIsLive DEF Compare
<1>2. /\ SlotOf(t) \in Slot /\ thread_states[SlotOf(t)].tag = t
      /\ Local(t) = thread_states[SlotOf(t)].local_delay /\ Local(t) \in Nat
      /\ thread[t] \in ThreadRecord
      /\ thread \in [Thread -> ThreadRecord]
      /\ global_delay \in Nat /\ allowed \in Nat /\ Pending(t) \in Nat
  BY <1>1, OwnFacts
<1>3. global_delay' = global_delay /\ allowed' = allowed
  BY DEF Compare
<1>4. Pending(t) = Larger(0, Local(t) - global_delay)
  BY <1>1, PendingIs DEF Ahead
<1>5. Own(t) /\ Pending(t)' <= Pending(t) /\ Pending(t)' \in Nat
  <2>0. Pending(t)' \in Nat
    BY PendingNext DEF Pendings
  <2>1. CASE Local(t) = global_delay
    <3>1. Return(t, Local(t))
      BY <2>1 DEF Compare
    <3> QED
      BY <1>1, <1>2, <1>3, <1>4, <2>0, <3>1, ReturnOwes
  <2>2. CASE Local(t) # global_delay
    <3> DEFINE pc == IF Local(t) > global_delay THEN "raise" ELSE "pay"
               r == [thread[t] EXCEPT !.seen = global_delay, !.pc = pc]
    <3>1. thread' = [thread EXCEPT ![t] = r] /\ thread_states' = thread_states
      BY <2>2 DEF Compare
    <3>2. /\ thread'[t].pc = pc /\ thread'[t].seen = global_delay
          /\ thread'[t].at = thread[t].at /\ Own(t)
      BY <1>2, <3>1 DEF Own, ThreadRecord
    <3>3. CASE Local(t) > global_delay
      <4>1. Pending(t)' = Local(t)' - global_delay
        BY <1>1, <3>2, <3>3 DEF Pending, Live
      <4>2. Local(t)' = Local(t)
        BY <3>1 DEF Local, SlotOf
      <4> QED
        BY <1>2, <1>4, <2>0, <3>2, <3>3, <4>1, <4>2 DEF Larger
    <3>4. CASE ~ (Local(t) > global_delay)
      <4>1. thread'[t].pc # "raise" /\ Live(t)'
        BY <1>1, <3>2, <3>4 DEF Live
      <4>2. Pending(t)' = Larger(0, Local(t) - global_delay)
        BY <1>2, <1>3, <3>1, <4>1, NextPending
      <4> QED
        BY <1>2, <1>4, <2>0, <3>2, <4>2
    <3> QED
      BY <3>3, <3>4
  <2> QED
    BY <2>1, <2>2
<1>6. global_delay' + Pending(t)' + allowed <= global_delay + Pending(t) + allowed'
  BY <1>2, <1>3, <1>5
<1> QED
  BY <1>2, <1>3, <1>5, <1>6, AccountedStep

\* The raise moves what the thread owes to global_delay; the other ways out of
\* add_delays leave the thread ahead by what it overslept, or not at all.
LEMMA AccountedReturn ==
  ASSUME IInv, IInv', Accounted, NEW t \in Thread, Raise(t) \/ Pay(t) \/ Skip(t)
  PROVE  Accounted'
<1>1. Live(t)
  BY WorkIsLive DEF Raise, Pay, Skip
<1>2. /\ Local(t) = thread_states[SlotOf(t)].local_delay /\ Local(t) \in Nat
      /\ thread[t] \in ThreadRecord
      /\ global_delay \in Nat /\ allowed \in Nat /\ Pending(t) \in Nat
  BY <1>1, OwnFacts
<1>3. thread[t].seen \in Nat /\ Pending(t)' \in Nat
  BY <1>2, PendingNext DEF ThreadRecord, Pendings
<1>4. /\ thread[t].pc = "raise" => Local(t) > thread[t].seen
      /\ thread[t].pc \in {"raise", "pay"} => thread[t].seen <= global_delay
  BY <1>1, <1>2, SlotFacts DEF Fine
<1>5. CASE Raise(t)
  <2>1. /\ Return(t, Local(t)) /\ thread[t].pc = "raise" /\ allowed' = allowed
        /\ global_delay' = global_delay + (Local(t) - thread[t].seen)
    BY <1>5 DEF Raise
  <2>2. Own(t) /\ Pending(t)' <= Larger(0, Local(t) - global_delay')
    BY <1>1, <1>2, <2>1, ReturnOwes
  <2>3. Local(t) <= global_delay' /\ global_delay <= global_delay' /\ global_delay' \in Nat
    BY <1>2, <1>3, <1>4, <2>1
  <2>4. Pending(t)' = 0
    BY <1>2, <1>3, <2>2, <2>3 DEF Larger
  <2>5. Pending(t) = Local(t) - thread[t].seen
    BY <2>1, PendingIs
  <2>6. global_delay' + Pending(t)' + allowed <= global_delay + Pending(t) + allowed'
    BY <1>2, <2>1, <2>4, <2>5
  <2> QED
    BY <2>2, <2>3, <2>6, AccountedStep
<1>6. CASE Pay(t)
  <2>1. PICK over \in Oversleep :
          /\ Return(t, thread[t].seen + over) /\ thread[t].pc = "pay"
          /\ allowed' = allowed + over /\ global_delay' = global_delay
    BY <1>6 DEF Pay
  <2>2. over \in Nat /\ thread[t].seen + over \in Nat
    BY <1>3, VirtualDelayAssumption
  <2>3. Own(t) /\ Pending(t)' <= over
    <3>1. PICK local \in Nat : local = thread[t].seen + over
      BY <2>2
    <3>2. Return(t, local)
      BY <2>1, <3>1
    <3>3. Own(t) /\ Pending(t)' <= Larger(0, local - global_delay')
      BY <1>1, <3>2, ReturnOwes
    <3>4. Larger(0, local - global_delay') <= over /\ Larger(0, local - global_delay') \in Int
      BY <1>2, <1>3, <1>4, <2>1, <2>2, <3>1 DEF Larger
    <3> QED
      BY <1>3, <2>2, <3>3, <3>4
  <2>4. global_delay' + Pending(t)' + allowed <= global_delay + Pending(t) + allowed'
    BY <1>2, <1>3, <2>1, <2>2, <2>3
  <2> QED
    BY <1>2, <2>1, <2>3, <2>4, AccountedStep
<1>7. CASE Skip(t)
  <2>1. Return(t, global_delay) /\ allowed' = allowed /\ global_delay' = global_delay
    BY <1>7 DEF Skip
  <2>2. Own(t) /\ Pending(t)' <= Larger(0, global_delay - global_delay)
    BY <1>1, <1>2, <2>1, ReturnOwes
  <2>3. global_delay' + Pending(t)' + allowed <= global_delay + Pending(t) + allowed'
    BY <1>2, <1>3, <2>1, <2>2 DEF Larger
  <2> QED
    BY <1>2, <2>1, <2>2, <2>3, AccountedStep
<1> QED
  BY <1>5, <1>6, <1>7

\* post_block: what a thread is put ahead by has its reason in the handler that
\* slept meanwhile.
LEMMA AccountedPostBlock ==
  ASSUME IInv, IInv', Accounted, NEW t \in Thread,
         NEW skip_delays \in BOOLEAN, PostBlock(t, skip_delays)
  PROVE  Accounted'
<1> DEFINE o == SlotOf(t)
           local == IF skip_delays
                    THEN thread_states[o].local_delay
                           + (global_delay - thread_states[o].pre_block_time)
                    ELSE thread_states[o].local_delay
           woken == [thread_states[o] EXCEPT !.in_use = FALSE, !.pre_block_time = 0,
                                             !.local_delay = local]
<1>1. Live(t) /\ thread[t].pc = "idle"
  BY DEF PostBlock, Live
<1>2. /\ o \in Slot /\ thread_states[o].tag = t
      /\ thread_states[o] \in ThreadState
      /\ thread[t] \in ThreadRecord
      /\ thread \in [Thread -> ThreadRecord]
      /\ thread_states \in [Slot -> ThreadState]
      /\ global_delay \in Nat /\ allowed \in Nat /\ Pending(t) \in Nat
  BY <1>1, OwnFacts
<1>3. /\ thread_states' = [thread_states EXCEPT ![o] = woken]
      /\ thread' = [thread EXCEPT ![t].at = "app"]
      /\ allowed' = allowed + (Larger(0, local - global_delay) - Ahead(t))
      /\ global_delay' = global_delay
  BY <1>2 DEF PostBlock, ThreadState
<1>4. woken.tag = t /\ woken.local_delay = local
  BY <1>2 DEF ThreadState
<1>5. Own(t) /\ thread'[t].pc # "raise" /\ Live(t)'
  BY <1>1, <1>2, <1>3 DEF Own, Live, ThreadRecord
<1>6. Pending(t)' = Larger(0, local - global_delay)
  <2>1. thread_states'[o] = woken
    BY <1>2, <1>3
  <2> QED
    BY <1>2, <1>3, <1>4, <1>5, <2>1, NextPending
<1>7. Pending(t) = Ahead(t)
  BY <1>1, PendingIs
<1>8. Pending(t)' \in Nat
  BY PendingNext DEF Pendings
<1>9. global_delay' + Pending(t)' + allowed <= global_delay + Pending(t) + allowed'
  BY <1>2, <1>3, <1>6, <1>7, <1>8
<1> QED
  BY <1>2, <1>3, <1>5, <1>9, AccountedStep

\* A child inherits what its parent is ahead by, and the parent keeps it.
LEMMA AccountedCreate ==
  ASSUME IInv, IInv', Accounted, NEW t \in Thread, NEW child \in Thread, Create(t, child)
  PROVE  Accounted'
<1>1. Live(t)
  BY DEF Create, Running, Live
<1>2. Local(t) \in Nat /\ global_delay \in Nat /\ allowed \in Nat /\ Ahead(t) \in Nat
  BY <1>1, LiveFacts
<1>3. /\ thread[child].at = "none"
      /\ thread' = [thread EXCEPT ![child] = [NotThere EXCEPT !.at = "created",
                                                              !.parent_delay = Local(t)]]
      /\ allowed' = allowed + Ahead(t)
      /\ global_delay' = global_delay /\ thread_states' = thread_states
  BY DEF Create
<1>4. /\ thread'[child].at = "created" /\ thread'[child].parent_delay = Local(t)
      /\ thread'[child].pc = "idle"
      /\ Own(child)
  BY <1>3 DEF Own, NotThere, IInv, Threads
<1>5. Pending(child)' = Larger(0, Local(t) - global_delay')
  BY <1>4 DEF Pending, Live
<1>6. Pending(child)' = Ahead(t)
  BY <1>3, <1>5 DEF Ahead
<1>7. Pending(child) = 0
  BY <1>3, PendingIs
<1>8. global_delay' + Pending(child)' + allowed <= global_delay + Pending(child) + allowed'
  BY <1>2, <1>3, <1>6, <1>7
<1> QED
  BY <1>2, <1>3, <1>4, <1>8, AccountedStep

\* The child is ahead by what it was created with.
LEMMA AccountedStartThread ==
  ASSUME IInv, IInv', Accounted, NEW t \in Thread, StartThread(t)
  PROVE  Accounted'
<1>1. PICK i \in Slot :
        /\ thread_states[i].tag = NoThread
        /\ thread_states' = [thread_states EXCEPT ![i].tag = t,
                                                  ![i].local_delay = thread[t].parent_delay]
  BY DEF StartThread
<1>2. /\ thread \in [Thread -> ThreadRecord] /\ thread_states \in [Slot -> ThreadState]
      /\ thread[t].parent_delay \in Nat /\ global_delay \in Nat /\ allowed \in Nat
  BY DEF IInv, Scalars, Threads, ThreadRecord
<1>3. /\ thread[t].at = "created"
      /\ thread' = [thread EXCEPT ![t] = [NotThere EXCEPT !.at = "app"]]
      /\ global_delay' = global_delay /\ allowed' = allowed
  BY DEF StartThread
<1>4. Own(t) /\ thread'[t].pc # "raise" /\ Live(t)'
  BY <1>1, <1>2, <1>3 DEF Own, Live, NotThere
<1>5. thread_states'[i].tag = t /\ thread_states'[i].local_delay = thread[t].parent_delay
  BY <1>1, <1>2 DEF ThreadState
<1>6. Pending(t)' = Larger(0, thread[t].parent_delay - global_delay)
  BY <1>3, <1>4, <1>5, NextPending
<1>7. Pending(t) = Larger(0, thread[t].parent_delay - global_delay)
  BY <1>3, PendingIs
<1>8. Pending(t) \in Nat
  BY PendingType DEF Pendings
<1>9. global_delay' + Pending(t)' + allowed <= global_delay + Pending(t) + allowed'
  BY <1>2, <1>3, <1>6, <1>7, <1>8
<1> QED
  BY <1>2, <1>3, <1>4, <1>9, AccountedStep

\* The program starts with nothing owed.
LEMMA AccountedInit == Init => Accounted
<1> SUFFICES ASSUME Init PROVE Accounted
  OBVIOUS
<1>1. IInv
  BY IInvInit
<1>2. global_delay = 0 /\ allowed = 0
  BY DEF Init
<1>3. \A t \in Thread : Pending(t) = 0
  <2> SUFFICES ASSUME NEW t \in Thread PROVE Pending(t) = 0
    OBVIOUS
  <2>1. thread[t].pc = "idle" /\ thread[t].at = IF t = Main THEN "app" ELSE "none"
    BY DEF Init, NotThere
  <2>2. CASE t # Main
    BY <1>1, <2>1, <2>2, PendingIs
  <2>3. CASE t = Main
    <3>1. Live(t)
      BY <2>1, <2>3 DEF Live
    <3>2. Local(t) = 0
      <4>1. \A i \in Slot : thread_states[i].local_delay = 0
        BY DEF Init
      <4> QED
        BY <1>1, <3>1, <4>1, SlotFacts DEF Local
    <3>3. Ahead(t) = 0
      BY <1>2, <3>2 DEF Ahead, Larger
    <3> QED
      BY <1>1, <2>1, <3>1, <3>3, PendingIs
  <2> QED
    BY <2>2, <2>3
<1>4. Owed = {}
  <2>1. \A t \in Thread : 1 .. Pending(t) = {}
    BY <1>3
  <2> QED
    BY <2>1 DEF Owed
<1> QED
  BY <1>2, <1>4, FS_EmptySet DEF Accounted, DelaysAreAccounted

\* Every step of a thread or of the profiler keeps the delays accounted for.
LEMMA AccountedNext == IInv /\ IInv' /\ Accounted /\ [Next]_vars => Accounted'
<1> SUFFICES ASSUME IInv, IInv', Accounted, [Next]_vars PROVE Accounted'
  OBVIOUS
<1>1. CASE ProfilerThread \/ UNCHANGED vars
  <2>1. UNCHANGED <<global_delay, thread_states, thread, allowed>>
    BY <1>1 DEF ProfilerThread, Select, ChooseSize, Start, ClearNext, End, vars
  <2>2. Owed' = Owed
    BY <2>1 DEF Owed, Pending, Local, Ahead, SlotOf, Live
  <2> QED
    BY <2>1, <2>2 DEF Accounted, DelaysAreAccounted
<1>2. ASSUME NEW t \in Thread, Work(t) PROVE Accounted'
  BY <1>2, AccountedQuiet, AccountedCharge, AccountedCompare, AccountedReturn DEF Work
<1>3. ASSUME NEW t \in Thread, Program(t) PROVE Accounted'
  BY <1>3, AccountedQuiet, AccountedPostBlock, AccountedCreate, AccountedStartThread DEF Program
<1> QED
  BY <1>1, <1>2, <1>3 DEF Next

\* For any number of threads, however the loads and stores of add_delays interleave:
\* global_delay and all that is yet to be added to it is delay that has a reason.
THEOREM DelaysStayAccounted == Safety => []DelaysAreAccounted
<1>1. Init => IInv /\ Accounted
  BY IInvInit, AccountedInit
<1>2. (IInv /\ Accounted) /\ [Next]_vars => (IInv /\ Accounted)'
  BY IInvNext, AccountedNext
<1>3. IInv /\ Accounted => DelaysAreAccounted
  BY DEF Accounted
<1> QED
  BY <1>1, <1>2, <1>3, PTL DEF Safety
=============================================================================
