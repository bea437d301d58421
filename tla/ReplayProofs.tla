---------------------------- MODULE ReplayProofs ----------------------------
(***************************************************************************)
(* Proofs about Replay for every poll, window, pipe size and bound.        *)
(***************************************************************************)
EXTENDS Replay, TLAPS

\* A count above 0 is of frames that are out.
CountInv == report \in {"part", "all"} => sent

\* While the watchdog's reading is current, its flat seconds are no more than
\* the wire has been quiet; between a wake and its reading one poll is owed.
QuietInv ==
    /\ wd \in {"sampling", "judging"} => quiet >= 0
    /\ last = "same" /\ wd # "sampling" => stall <= quiet
    /\ last = "same" /\ wd = "sampling" => AtMost(stall + Poll, Flatline) <= quiet

\* An idle wake leaves nothing behind for the next send.
IdleInv ==
    /\ polledIdle => ~active /\ wd \in {"asleep", "exited"} /\ last = "none"
    /\ last = "none" => stall = 0
    /\ main = "wait" => active /\ ~polledIdle

\* In a send begun after an idle wake the flat seconds are no more than the
\* seconds watched, and a trip is its own.
WindowInv ==
    main = "wait" /\ freshStart =>
        /\ wd \in {"sampling", "judging"} => watched >= 0
        /\ last # "none" /\ wd # "sampling" => stall <= watched
        /\ last # "none" /\ wd = "sampling" =>
               AtMost(stall + Poll, Flatline) <= watched
        /\ tripped => watched = Flatline

\* Who changes which flag: no arithmetic is involved.
LEMMA FlagsInductive == FlagsOK /\ [Next]_vars => FlagsOK'
<1> USE DEF FlagsOK, flagVars, childVars, historyVars
<1> SUFFICES ASSUME FlagsOK, [Next]_vars PROVE FlagsOK'
  OBVIOUS
<1>1. CASE ChildNext
  BY <1>1 DEF ChildNext, SendFrame, OrphanSends, PrintStats, WireStalls,
     WireResumes, Finish, Fails, Dies, SignalStop, loopVars
<1>2. CASE LoopNext
  BY <1>2 DEF LoopNext, LoopSteps, LoopTop, Spawn, SpawnFails, Begin, Reap,
     KillChild, TryWaitFails, Tick, Gap, StopWatchdog, Join, Return, ChildGone
<1>3. CASE WakeExit \/ WakeIdle \/ WakeActive \/ Sample \/ SampleUnreadable
  BY <1>3 DEF WakeExit, WakeIdle, WakeActive, Sample, SampleUnreadable, loopVars
<1>4. CASE Judge
  <2>1. tripped' \in BOOLEAN
    BY <1>4 DEF Judge
  <2>2. QED
    BY <1>4, <2>1 DEF Judge, loopVars
<1>5. CASE UNCHANGED vars
  BY <1>5 DEF vars, loopVars
<1>6. QED
  BY <1>1, <1>2, <1>3, <1>4, <1>5 DEF Next, WatchdogNext, Finished

LEMMA RangesInductive == RangesOK /\ [Next]_vars => RangesOK'
<1> USE PollAssumption, FlatlineAssumption, BoundAssumption
    DEF RangesOK, outputVars, wdVars, historyVars
<1> SUFFICES ASSUME RangesOK, [Next]_vars PROVE RangesOK'
  OBVIOUS
<1>1. CASE ChildNext
  BY <1>1 DEF ChildNext, SendFrame, OrphanSends, PrintStats, WireStalls,
     WireResumes, Finish, Fails, Dies, SignalStop, EndsEarly, Counted, CounterMoves,
     Restarted, loopVars
<1>2. CASE LoopNext
  BY <1>2 DEF LoopNext, LoopSteps, LoopTop, Spawn, SpawnFails, Begin, Reap,
     KillChild, TryWaitFails, Tick, Gap, StopWatchdog, Join, AfterSend, Return,
     ChildGone, Restarted, childVars
<1>3. CASE WatchdogNext
  BY <1>3 DEF WatchdogNext, WakeExit, WakeIdle, WakeActive, PollPasses, Sample,
     SampleUnreadable, Judge, AtMost, loopVars, childVars
<1>4. CASE UNCHANGED vars
  BY <1>4 DEF vars, loopVars, childVars
<1>5. QED
  BY <1>1, <1>2, <1>3, <1>4 DEF Next, Finished

\* Only run_once has a child and may have killed it.
LocalsInv ==
    /\ killed => main = "wait"
    /\ child # "none" => main \in {"begin", "wait"}

LEMMA LocalsInductive == LocalsInv /\ [Next]_vars => LocalsInv'
<1> USE DEF LocalsInv, loopVars, childVars
<1> SUFFICES ASSUME LocalsInv, [Next]_vars PROVE LocalsInv'
  OBVIOUS
<1>1. CASE ChildNext
  BY <1>1 DEF ChildNext, SendFrame, OrphanSends, PrintStats, WireStalls,
     WireResumes, Finish, Fails, Dies, SignalStop, EndsEarly
<1>2. CASE LoopNext
  BY <1>2 DEF LoopNext, LoopSteps, LoopTop, Spawn, SpawnFails, Begin, Reap,
     KillChild, TryWaitFails, Tick, Gap, StopWatchdog, Join, AfterSend, Return,
     ChildGone
<1>3. CASE WatchdogNext
  BY <1>3 DEF WatchdogNext, WakeExit, WakeIdle, WakeActive, Sample,
     SampleUnreadable, Judge
<1>4. CASE UNCHANGED vars
  BY <1>4 DEF vars
<1>5. QED
  BY <1>1, <1>2, <1>3, <1>4 DEF Next, Finished

\* Every variable keeps its range, and the locals of run_once are those of a
\* send in progress (replay.rs:22-51, watchdog.rs:39-73).
THEOREM TypeCorrect == Spec => []TypeOK
<1>1. Init => FlagsOK
  BY DEF Init, FlagsOK
<1>2. Init => RangesOK
  BY PollAssumption, FlatlineAssumption, BoundAssumption DEF Init, RangesOK
<1>3. Init => LocalsInv
  BY DEF Init, LocalsInv
<1>4. FlagsOK /\ RangesOK /\ LocalsInv => TypeOK
  BY DEF LocalsInv, TypeOK
<1>5. QED
  BY <1>1, <1>2, <1>3, <1>4, FlagsInductive, RangesInductive, LocalsInductive,
     PTL DEF Spec

\* A send recorded as successful put something on the wire, or has no count in its
\* output (replay.rs:64-70).
THEOREM SuccessCorrect == Spec => []SuccessIsSent
<1>1. Init => CountInv
  BY DEF Init, CountInv
<1>2. CountInv /\ [Next]_vars => CountInv'
  <2> SUFFICES ASSUME CountInv, [Next]_vars PROVE CountInv'
    OBVIOUS
  <2> USE DEF CountInv, childVars, outputVars
  <2>1. Counted \in {"part", "all"} => sent
    BY DEF Counted
  <2>2. CASE ChildNext
    BY <2>1, <2>2 DEF ChildNext, SendFrame, OrphanSends, PrintStats, WireStalls,
       WireResumes, Finish, Fails, Dies, SignalStop, EndsEarly
  <2>3. CASE LoopNext
    BY <2>3 DEF LoopNext, LoopSteps, LoopTop, Spawn, SpawnFails, Begin, Reap,
       KillChild, TryWaitFails, Tick, Gap, StopWatchdog, Join, Return, ChildGone
  <2>4. CASE WatchdogNext
    BY <2>4 DEF WatchdogNext, WakeExit, WakeIdle, WakeActive, Sample,
       SampleUnreadable, Judge
  <2>5. CASE UNCHANGED vars
    BY <2>5 DEF vars
  <2>6. QED
    BY <2>2, <2>3, <2>4, <2>5 DEF Next, Finished
<1>3. TypeOK /\ CountInv => SuccessIsSent
  BY DEF CountInv, SuccessIsSent, Success, TypeOK, RangesOK
<1>4. QED
  BY <1>1, <1>2, <1>3, TypeCorrect, PTL DEF Spec

LEMMA QuietInductive == TypeOK /\ QuietInv /\ [Next]_vars => QuietInv'
<1> USE PollAssumption, FlatlineAssumption DEF QuietInv
<1> SUFFICES ASSUME TypeOK, QuietInv, [Next]_vars PROVE QuietInv'
  OBVIOUS
<1>1. CASE SendFrame \/ OrphanSends
  BY <1>1 DEF SendFrame, OrphanSends, CounterMoves, Restarted, TypeOK, RangesOK
<1>2. CASE UNCHANGED <<wdVars, quiet>>
  BY <1>2 DEF wdVars
<1>3. CASE WakeExit
  BY <1>3 DEF WakeExit, historyVars
<1>4. CASE WakeIdle \/ WakeActive
  BY <1>4 DEF WakeIdle, WakeActive, PollPasses, AtMost, TypeOK, RangesOK
<1>5. CASE Sample \/ SampleUnreadable
  BY <1>5 DEF Sample, SampleUnreadable, historyVars, AtMost, TypeOK, RangesOK
<1>6. CASE Judge
  BY <1>6 DEF Judge, historyVars
<1>7. QED
  BY <1>1, <1>2, <1>3, <1>4, <1>5, <1>6
  DEF Next, ChildNext, LoopNext, LoopSteps, WatchdogNext, Finished, PrintStats,
      WireStalls, WireResumes, Finish, Fails, Dies, SignalStop, LoopTop, Spawn,
      SpawnFails, Begin, Reap, KillChild, TryWaitFails, Tick, Gap,
      StopWatchdog, Join, historyVars, vars

\* The watchdog's flat seconds reach the window only on a quiet wire.
THEOREM FlatQuiet == Spec => FlatMeansQuiet
<1>1. Init => QuietInv
  BY DEF Init, QuietInv
<1>2. TypeOK /\ QuietInv /\ [Next]_vars =>
        [stall < Flatline /\ stall' = Flatline => quiet = Flatline]_vars
  <2> SUFFICES ASSUME TypeOK, QuietInv, Next, stall < Flatline, stall' = Flatline
               PROVE quiet = Flatline
    OBVIOUS
  <2>1. Sample \/ WakeIdle \/ UNCHANGED stall
    BY DEF Next, ChildNext, LoopNext, LoopSteps, WatchdogNext, Finished,
       SendFrame, OrphanSends, PrintStats, WireStalls, WireResumes, Finish,
       Fails, Dies, SignalStop, LoopTop, Spawn, SpawnFails, Begin, Reap,
       KillChild, TryWaitFails, Tick, Gap, StopWatchdog, Join, WakeExit,
       WakeActive, SampleUnreadable, Judge, wdVars, vars
  <2>2. stall' # 0 /\ stall' # stall
    BY FlatlineAssumption
  <2>3. Sample /\ last = "same"
    BY <2>1, <2>2 DEF WakeIdle, Sample
  <2>4. QED
    BY <2>3, FlatlineAssumption DEF Sample, QuietInv, TypeOK, RangesOK
<1>3. QED
  BY <1>1, <1>2, QuietInductive, TypeCorrect, PTL DEF Spec, FlatMeansQuiet

LEMMA IdleInductive == TypeOK /\ IdleInv /\ [Next]_vars => IdleInv'
<1> USE DEF IdleInv
<1> SUFFICES ASSUME TypeOK, IdleInv, [Next]_vars PROVE IdleInv'
  OBVIOUS
<1>1. CASE ChildNext
  BY <1>1 DEF ChildNext, SendFrame, OrphanSends, PrintStats, WireStalls,
     WireResumes, Finish, Fails, Dies, SignalStop, CounterMoves, loopVars,
     flagVars, wdVars, historyVars
<1>2. CASE LoopNext
  BY <1>2 DEF LoopNext, LoopSteps, LoopTop, Spawn, SpawnFails, Begin, Reap,
     KillChild, TryWaitFails, Tick, Gap, StopWatchdog, Join, AfterSend, Return,
     flagVars, wdVars, historyVars
<1>3. CASE WatchdogNext
  BY <1>3 DEF WatchdogNext, WakeExit, WakeIdle, WakeActive, PollPasses, Sample,
     SampleUnreadable, Judge, loopVars, flagVars, historyVars
<1>4. CASE UNCHANGED vars
  BY <1>4 DEF vars, loopVars, flagVars, wdVars, historyVars
<1>5. QED
  BY <1>1, <1>2, <1>3, <1>4 DEF Next, Finished

LEMMA WindowInductive ==
    TypeOK /\ IdleInv /\ WindowInv /\ [Next]_vars => WindowInv'
<1> USE PollAssumption, FlatlineAssumption DEF WindowInv
<1> SUFFICES ASSUME TypeOK, IdleInv, WindowInv, [Next]_vars,
                    main' = "wait", freshStart'
             PROVE WindowInv'
  OBVIOUS
<1>1. CASE Begin
  BY <1>1 DEF Begin, IdleInv, wdVars, Restarted
<1>2. CASE main = "wait" /\ ~Begin
  <2>1. freshStart
    BY <1>2 DEF Next, ChildNext, LoopNext, LoopSteps, WatchdogNext, Finished,
       SendFrame, OrphanSends, PrintStats, WireStalls, WireResumes, Finish,
       Fails, Dies, SignalStop, LoopTop, Spawn, SpawnFails, Reap,
       KillChild, TryWaitFails, Tick, Gap, StopWatchdog, Join, WakeExit,
       WakeIdle, WakeActive, Sample, SampleUnreadable, Judge, historyVars, vars
  <2>2. CASE SendFrame \/ OrphanSends
    BY <1>2, <2>1, <2>2 DEF SendFrame, OrphanSends, CounterMoves, flagVars,
       historyVars
  <2>3. CASE WakeExit
    BY <1>2, <2>1, <2>3 DEF WakeExit, flagVars, historyVars
  <2>4. CASE WakeActive
    <3>1. UNCHANGED <<last, stall, tripped>> /\ wd = "asleep" /\ wd' = "sampling"
      BY <2>4 DEF WakeActive, flagVars
    <3>2. watched' = AtMost(watched + Poll, Flatline)
      BY <2>4 DEF WakeActive, PollPasses
    <3>3. watched' >= 0
      BY <3>2 DEF AtMost, TypeOK, RangesOK
    <3>4. last # "none" => AtMost(stall + Poll, Flatline) <= watched'
      BY <1>2, <2>1, <3>1, <3>2 DEF AtMost, TypeOK, RangesOK
    <3>5. watched = Flatline => watched' = Flatline
      BY <3>2 DEF AtMost
    <3>6. QED
      BY <1>2, <2>1, <3>1, <3>3, <3>4, <3>5
  <2>5. CASE Judge
    <3>1. UNCHANGED <<last, stall, watched>> /\ wd = "judging" /\ wd' = "asleep"
      BY <2>5 DEF Judge, historyVars
    <3>2. last # "none" => stall <= watched
      BY <1>2, <2>1, <3>1
    <3>3. tripped' => tripped \/ stall >= Flatline
      BY <2>5 DEF Judge
    <3>4. stall >= Flatline => watched = Flatline
      BY <3>2 DEF IdleInv, TypeOK, RangesOK
    <3>5. QED
      BY <1>2, <2>1, <3>1, <3>2, <3>3, <3>4
  <2>6. CASE Sample \/ SampleUnreadable
    <3>1. UNCHANGED <<watched, tripped>> /\ wd = "sampling" /\ wd' = "judging"
      BY <2>6 DEF Sample, SampleUnreadable, flagVars, historyVars
    <3>2. watched >= 0 /\ (tripped => watched = Flatline)
      BY <1>2, <2>1, <3>1
    <3>3. CASE Sample
      <4>1. last = "same" => stall' <= watched
        BY <1>2, <2>1, <3>1, <3>3 DEF Sample
      <4>2. last # "same" => stall' <= watched
        BY <3>2, <3>3 DEF Sample
      <4>3. QED
        BY <3>1, <3>2, <4>1, <4>2
    <3>4. CASE SampleUnreadable
      <4>1. UNCHANGED <<last, stall>>
        BY <3>4 DEF SampleUnreadable
      <4>2. last # "none" => stall <= watched
        BY <1>2, <2>1, <3>1 DEF AtMost, TypeOK, RangesOK
      <4>3. QED
        BY <3>1, <3>2, <4>1, <4>2
    <3>5. QED
      BY <2>6, <3>3, <3>4
  <2>7. CASE UNCHANGED <<wdVars, watched, tripped>>
    BY <1>2, <2>1, <2>7 DEF wdVars
  <2>8. QED
    BY <1>2, <2>2, <2>3, <2>4, <2>5, <2>6, <2>7
    DEF Next, ChildNext, LoopNext, LoopSteps, WatchdogNext, Finished,
       PrintStats, WireStalls, WireResumes, Finish, Fails, Dies, SignalStop,
       LoopTop, Spawn, SpawnFails, Reap, KillChild, TryWaitFails, Tick, Gap,
       StopWatchdog, Join, WakeIdle, IdleInv, flagVars, historyVars, vars
<1>3. CASE main # "wait" /\ ~Begin
  <2>1. ~ChildNext
    BY <1>3 DEF ChildNext, SendFrame, OrphanSends, PrintStats, WireStalls,
       WireResumes, Finish, Fails, Dies, SignalStop, loopVars
  <2>2. ~LoopNext
    BY <1>3 DEF LoopNext, LoopSteps, LoopTop, Spawn, SpawnFails, Reap,
       KillChild, TryWaitFails, Tick, Gap, StopWatchdog, Join, AfterSend, Return
  <2>3. ~WatchdogNext
    BY <1>3 DEF WatchdogNext, WakeExit, WakeIdle, WakeActive, Sample,
       SampleUnreadable, Judge, loopVars
  <2>4. ~UNCHANGED vars
    BY <1>3 DEF vars, loopVars
  <2>5. QED
    BY <2>1, <2>2, <2>3, <2>4 DEF Next, Finished
<1>4. QED
  BY <1>1, <1>2, <1>3

\* A send that begins after an idle wake is killed only after a full window of
\* its own (watchdog.rs:64-73, replay.rs:39-51).
THEOREM KillWindow == Spec => KillNeedsWindow
<1>1. Init => IdleInv /\ WindowInv
  BY DEF Init, IdleInv, WindowInv
<1>2. WindowInv /\ [Next]_vars =>
        [~killed /\ killed' /\ freshStart => watched = Flatline]_vars
  <2> SUFFICES ASSUME WindowInv, Next, ~killed, killed', freshStart
               PROVE watched = Flatline
    OBVIOUS
  <2>1. KillChild
    BY DEF Next, ChildNext, LoopNext, LoopSteps, WatchdogNext, Finished,
       SendFrame, OrphanSends, PrintStats, WireStalls, WireResumes, Finish,
       Fails, Dies, SignalStop, LoopTop, Spawn, SpawnFails, Begin, Reap,
       TryWaitFails, Tick, Gap, StopWatchdog, Join, Return, WakeExit, WakeIdle,
       WakeActive, Sample, SampleUnreadable, Judge, loopVars, vars
  <2>2. QED
    BY <2>1 DEF KillChild, WindowInv
<1>3. QED
  BY <1>1, <1>2, IdleInductive, WindowInductive, TypeCorrect, PTL
  DEF Spec, KillNeedsWindow
=============================================================================
