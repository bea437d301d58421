------------------------------- MODULE Replay -------------------------------
(***************************************************************************)
(* One send and what guards it: the run loop that spawns tcpreplay and     *)
(* polls it (run/mod.rs, run/replay.rs), the watchdog thread that reads    *)
(* the interface's tx counter (run/watchdog.rs), the tcpreplay child with  *)
(* its stdout pipe, and the shutdown signal (run/signal.rs).               *)
(*                                                                         *)
(* Two threads share the flags active, tripped and stop.  Each load or     *)
(* store that another thread can come between is a step of its own.  Time  *)
(* is counted where the code counts it: one wake of the watchdog is Poll   *)
(* seconds.                                                                *)
(***************************************************************************)
EXTENDS Integers

CONSTANTS
    Poll,       \* watchdog.poll_secs, raised to at least 1
    Flatline,   \* watchdog.flatline_secs, raised to at least 1
    MaxFrames,  \* bound: frames of a capture or burst
    PipeLines,  \* stats lines the child's stdout pipe holds before a write blocks
    MaxOrphans, \* bound: frames of children lost to a failing try_wait; 0: it never fails
    Once        \* the --once flag

ASSUME PollAssumption == Poll \in Nat \ {0}
ASSUME FlatlineAssumption == Flatline \in Nat \ {0}
ASSUME BoundAssumption == /\ MaxFrames \in Nat \ {0}
                          /\ PipeLines \in Nat \ {0}
                          /\ MaxOrphans \in Nat
ASSUME OnceAssumption == Once \in BOOLEAN

VARIABLES
    main,      \* where the run loop is
    send,      \* what it sends: the capture or the identity burst
    killed,    \* run_once's local: the child was sent SIGKILL
    child,     \* the tcpreplay process
    exit,      \* how it ended: exit 0 ("ok"), exit 0 with a marker in its output that
               \* is_fatal looks for ("fatal"), or otherwise ("bad")
    report,    \* the first count in its output: none, or how it stood to the frames
    left,      \* frames it has not put on the wire
    sent,      \* whether it put any there
    lines,     \* unread stats lines in its stdout pipe
    orphans,   \* frames that children nobody waits for may still send
    active, tripped, stop,  \* the watchdog's shared flags
    wd,        \* where the watchdog thread is
    last,      \* its last reading: none, the counter's value, or outdated
    stall,     \* its flat seconds so far, saturated at Flatline
    shutdown,  \* SIGTERM or SIGINT was received
    quiet,     \* history: whole polls since the counter moved, in seconds, saturated
    watched,   \* history: whole polls since begin(), in seconds, saturated
    polledIdle, \* history: a wake saw no send since the last begin()
    freshStart  \* history: that was so when this send began

loopVars == <<main, send, killed>>
outputVars == <<exit, report>>
childVars == <<child, outputVars, left, sent, lines, orphans>>
flagVars == <<active, tripped, stop>>
wdVars == <<wd, last, stall>>
historyVars == <<quiet, watched, polledIdle, freshStart>>
vars == <<loopVars, childVars, flagVars, wdVars, shutdown, historyVars>>

AtMost(n, limit) == IF n > limit THEN limit ELSE n

Init ==
    /\ main = "top" /\ send = "capture" /\ killed = FALSE
    /\ child = "none" /\ exit = "ok" /\ report = "silent"
    /\ left = 0 /\ sent = FALSE /\ lines = 0 /\ orphans = 0
    /\ active = FALSE /\ tripped = FALSE /\ stop = FALSE
    /\ wd = "asleep" /\ last = "none" /\ stall = 0
    /\ shutdown = FALSE
    /\ quiet = 0 /\ watched = 0 /\ polledIdle = TRUE /\ freshStart = TRUE

-----------------------------------------------------------------------------
(* The tcpreplay child.                                                    *)

\* A history clock set back: a sleep in progress does not count as a whole poll.
Restarted == IF wd = "asleep" THEN -Poll ELSE 0

\* The interface counter moved: a reading the watchdog holds is outdated.
CounterMoves ==
    /\ last' = IF last = "none" THEN "none" ELSE "behind"
    /\ quiet' = Restarted

SendFrame ==
    /\ child = "running" /\ left > 0
    /\ left' = left - 1 /\ sent' = TRUE
    /\ CounterMoves
    /\ UNCHANGED <<loopVars, child, outputVars, lines, orphans, flagVars, wd, stall,
                   shutdown, watched, polledIdle, freshStart>>

OrphanSends ==
    /\ orphans > 0
    /\ orphans' = orphans - 1
    /\ CounterMoves
    /\ UNCHANGED <<loopVars, child, outputVars, left, sent, lines, flagVars, wd, stall,
                   shutdown, watched, polledIdle, freshStart>>

\* An "Actual:" line tells how many frames are out; parse_packets takes the first.
Counted ==
    IF report # "silent" THEN report
    ELSE IF ~sent THEN "zero" ELSE IF left > 0 THEN "part" ELSE "all"

\* --stats=1 prints now and then to a pipe nobody reads before the child has
\* exited: a write to the full pipe blocks.
PrintStats ==
    /\ child = "running"
    /\ \/ /\ lines < PipeLines /\ lines' = lines + 1 /\ report' = Counted
          /\ UNCHANGED child
       \/ lines = PipeLines /\ child' = "stalled" /\ UNCHANGED <<lines, report>>
    /\ UNCHANGED <<loopVars, exit, left, sent, orphans, flagVars, wdVars,
                   shutdown, historyVars>>

\* The wire stops taking frames, and may take them again.
WireStalls ==
    /\ child = "running" /\ left > 0
    /\ child' = "stalled"
    /\ UNCHANGED <<loopVars, outputVars, left, sent, lines, orphans, flagVars, wdVars,
                   shutdown, historyVars>>

WireResumes ==
    /\ child = "stalled" /\ lines < PipeLines
    /\ child' = "running"
    /\ UNCHANGED <<loopVars, outputVars, left, sent, lines, orphans, flagVars, wdVars,
                   shutdown, historyVars>>

\* All frames sent: the final stats are printed, which may block, then exit 0.
Finish ==
    /\ child = "running" /\ left = 0
    /\ \/ lines < PipeLines /\ child' = "exited" /\ report' = Counted
       \/ lines = PipeLines /\ child' = "stalled" /\ UNCHANGED report
    /\ UNCHANGED <<loopVars, exit, left, sent, lines, orphans, flagVars, wdVars,
                   shutdown, historyVars>>

\* It ends early: with or without a marker, with or without a last count.
EndsEarly ==
    /\ child' = "exited" /\ exit' \in {"ok", "fatal", "bad"}
    /\ report' \in {report, Counted}

\* An error at any time.  Exit 0 is no proof that anything was sent.
Fails ==
    /\ child = "running"
    /\ EndsEarly
    /\ UNCHANGED <<loopVars, left, sent, lines, orphans, flagVars, wdVars, shutdown,
                   historyVars>>

\* SIGKILL takes effect.
Dies ==
    /\ killed /\ child \in {"running", "stalled"}
    /\ child' = "exited" /\ exit' = "bad"
    /\ UNCHANGED <<loopVars, report, left, sent, lines, orphans, flagVars, wdVars,
                   shutdown, historyVars>>

\* systemd (or a terminal) signals the whole process group once; the daemon
\* sets its flag, a child that is alive aborts.
SignalStop ==
    /\ ~shutdown
    /\ shutdown' = TRUE
    /\ IF child \in {"running", "stalled"} THEN EndsEarly
       ELSE UNCHANGED <<child, outputVars>>
    /\ UNCHANGED <<loopVars, left, sent, lines, orphans, flagVars, wdVars,
                   historyVars>>

-----------------------------------------------------------------------------
(* The run loop around run_once.                                           *)

\* The send is over: after the capture comes the tick, which may hand over a
\* burst at once; after the burst comes the end of the iteration.
AfterSend == main' = IF send = "capture" THEN "tick" ELSE "iterated"

\* The child's exit and its output are gone.
ChildGone ==
    /\ child' = "none" /\ exit' = "ok" /\ report' = "silent"
    /\ left' = 0 /\ sent' = FALSE /\ lines' = 0

\* Return if the killed flag outlived run_once.
Return_KeepsKilled == UNCHANGED killed /\ ChildGone /\ AfterSend

\* run_once returns: its locals and the child are gone.
Return == killed' = FALSE /\ ChildGone /\ AfterSend

\* Success if it trusted the exit status and the marker alone.
Success_NoCount == exit = "ok" /\ ~killed

\* What a reaped child is recorded as; no count (None) is not a count of 0.
Success == exit = "ok" /\ ~killed /\ report # "zero"

\* LoopTop if it did not look at the shutdown flag.
LoopTop_NoShutdown ==
    /\ main = "top"
    /\ main' \in {"spawn", "gap"} /\ send' = "capture"
    /\ UNCHANGED <<killed, childVars, flagVars, wdVars, shutdown, historyVars>>

LoopTop ==
    /\ main = "top"
    /\ \/ shutdown /\ main' = "stopping"
       \/ ~shutdown /\ main' \in {"spawn", "gap"}  \* a capture, or none fit to send
    /\ send' = "capture"
    /\ UNCHANGED <<killed, childVars, flagVars, wdVars, shutdown,
                   historyVars>>

Spawn ==
    /\ main = "spawn"
    /\ child' = "running" /\ left' \in 1..MaxFrames
    /\ main' = "begin"
    /\ UNCHANGED <<send, killed, outputVars, sent, lines, orphans, flagVars, wdVars,
                   shutdown, historyVars>>

SpawnFails ==
    /\ main = "spawn"
    /\ AfterSend
    /\ UNCHANGED <<send, killed, childVars, flagVars, wdVars, shutdown,
                   historyVars>>

\* begin() if it did not tell the watchdog that a send is active.
Begin_NotActive ==
    /\ main = "begin"
    /\ tripped' = FALSE
    /\ main' = "wait"
    /\ watched' = Restarted /\ freshStart' = polledIdle /\ polledIdle' = FALSE
    /\ UNCHANGED <<send, killed, childVars, active, stop, wdVars, shutdown,
                   quiet>>

\* begin().  Its two stores are one step: a wake between them would need a
\* sleep of Poll seconds to fit there.
Begin ==
    /\ main = "begin"
    /\ tripped' = FALSE /\ active' = TRUE
    /\ main' = "wait"
    /\ watched' = Restarted /\ freshStart' = polledIdle /\ polledIdle' = FALSE
    /\ UNCHANGED <<send, killed, childVars, stop, wdVars, shutdown,
                   quiet>>

\* try_wait found the child exited: end(), then the verdict.
Reap ==
    /\ main = "wait" /\ child = "exited"
    /\ active' = FALSE
    /\ Return
    /\ UNCHANGED <<send, orphans, tripped, stop, wdVars, shutdown, historyVars>>

\* try_wait found the child alive and the watchdog has tripped.
KillChild ==
    /\ main = "wait" /\ child # "exited" /\ tripped /\ ~killed
    /\ killed' = TRUE
    /\ UNCHANGED <<main, send, childVars, flagVars, wdVars, shutdown,
                   historyVars>>

\* try_wait itself fails: run_once returns without end(), the child lives on.
TryWaitFails ==
    /\ main = "wait" /\ MaxOrphans > 0 /\ orphans + left <= MaxOrphans
    /\ orphans' = IF child = "exited" THEN orphans ELSE orphans + left
    /\ Return
    /\ UNCHANGED <<send, flagVars, wdVars, shutdown, historyVars>>

\* red_tick hands over a burst or nothing.
Tick ==
    /\ main = "tick"
    /\ \/ main' = "spawn" /\ send' = "burst"
       \/ main' = "iterated" /\ UNCHANGED send
    /\ UNCHANGED <<killed, childVars, flagVars, wdVars, shutdown,
                   historyVars>>

\* The inter-run gap, cut short by a shutdown.
Gap ==
    /\ \/ main = "iterated" /\ main' = IF Once THEN "stopping" ELSE "gap"
       \/ main = "gap" /\ main' = "top"
    /\ UNCHANGED <<send, killed, childVars, flagVars, wdVars, shutdown,
                   historyVars>>

\* run returns and drops the watchdog: stop is set, then the thread joined.
StopWatchdog ==
    /\ main = "stopping"
    /\ stop' = TRUE /\ main' = "joining"
    /\ UNCHANGED <<send, killed, childVars, active, tripped, wdVars,
                   shutdown, historyVars>>

Join ==
    /\ main = "joining" /\ wd = "exited"
    /\ main' = "stopped"
    /\ UNCHANGED <<send, killed, childVars, flagVars, wdVars, shutdown,
                   historyVars>>

-----------------------------------------------------------------------------
(* The watchdog thread.                                                    *)

WakeExit ==
    /\ wd = "asleep" /\ (stop \/ shutdown)
    /\ wd' = "exited"
    /\ UNCHANGED <<loopVars, childVars, flagVars, last, stall, shutdown,
                   historyVars>>

PollPasses ==
    /\ quiet' = AtMost(quiet + Poll, Flatline)
    /\ watched' = AtMost(watched + Poll, Flatline)

\* WakeIdle if it kept the flat seconds of the send before.
WakeIdle_KeepsStall ==
    /\ wd = "asleep" /\ ~stop /\ ~shutdown /\ ~active
    /\ PollPasses
    /\ polledIdle' = TRUE
    /\ UNCHANGED <<loopVars, childVars, flagVars, wdVars, shutdown, freshStart>>

WakeIdle ==
    /\ wd = "asleep" /\ ~stop /\ ~shutdown /\ ~active
    /\ last' = "none" /\ stall' = 0
    /\ PollPasses
    /\ polledIdle' = TRUE
    /\ UNCHANGED <<loopVars, childVars, flagVars, wd, shutdown, freshStart>>

WakeActive ==
    /\ wd = "asleep" /\ ~stop /\ ~shutdown /\ active
    /\ wd' = "sampling"
    /\ PollPasses
    /\ UNCHANGED <<loopVars, childVars, flagVars, last, stall, shutdown,
                   polledIdle, freshStart>>

\* Sample if a changed reading did not start the flat seconds over.
Sample_KeepsStall ==
    /\ wd = "sampling"
    /\ wd' = "judging"
    /\ last' = "same"
    /\ stall' = IF last = "same" THEN AtMost(stall + Poll, Flatline) ELSE stall
    /\ UNCHANGED <<loopVars, childVars, flagVars, shutdown, historyVars>>

\* step(): an unchanged reading adds a poll, a changed or first one starts over.
Sample ==
    /\ wd = "sampling"
    /\ wd' = "judging"
    /\ last' = "same"
    /\ stall' = IF last = "same" THEN AtMost(stall + Poll, Flatline) ELSE 0
    /\ UNCHANGED <<loopVars, childVars, flagVars, shutdown, historyVars>>

\* step() with a counter that could not be read.
SampleUnreadable ==
    /\ wd = "sampling"
    /\ wd' = "judging"
    /\ UNCHANGED <<loopVars, childVars, flagVars, last, stall, shutdown,
                   historyVars>>

Judge ==
    /\ wd = "judging"
    /\ wd' = "asleep"
    /\ tripped' = (tripped \/ stall >= Flatline)
    /\ UNCHANGED <<loopVars, childVars, active, stop, last, stall, shutdown,
                   historyVars>>

-----------------------------------------------------------------------------
Finished == main = "stopped" /\ UNCHANGED vars

ChildNext ==
    \/ SendFrame \/ OrphanSends \/ PrintStats \/ WireStalls \/ WireResumes
    \/ Finish \/ Fails \/ Dies \/ SignalStop

LoopSteps ==
    \/ LoopTop \/ Spawn \/ Begin \/ Reap
    \/ KillChild \/ Tick \/ Gap \/ StopWatchdog \/ Join

LoopNext == LoopSteps \/ SpawnFails \/ TryWaitFails

WatchdogNext ==
    \/ WakeExit \/ WakeIdle \/ WakeActive
    \/ Sample \/ SampleUnreadable \/ Judge

Next == ChildNext \/ LoopNext \/ WatchdogNext \/ Finished

Spec == Init /\ [][Next]_vars

(***************************************************************************)
(* Fairness: both threads are scheduled (system calls need not fail); a     *)
(* child that is neither stalled nor killed keeps sending and exits when    *)
(* done; SIGKILL takes effect; the sysfs counter is not unreadable for      *)
(* ever.  The wire owes nothing: a stalled child may stall for ever, and no *)
(* signal need ever come.                                                   *)
(***************************************************************************)
Fairness ==
    /\ WF_vars(LoopSteps) /\ WF_vars(WatchdogNext) /\ SF_vars(Sample)
    /\ WF_vars(SendFrame \/ Finish) /\ WF_vars(Dies)

FairSpec == Spec /\ Fairness
-----------------------------------------------------------------------------
FlagsOK ==
    /\ killed \in BOOLEAN
    /\ active \in BOOLEAN /\ tripped \in BOOLEAN /\ stop \in BOOLEAN
    /\ shutdown \in BOOLEAN
    /\ polledIdle \in BOOLEAN /\ freshStart \in BOOLEAN
    /\ sent \in BOOLEAN

RangesOK ==
    /\ main \in {"top", "spawn", "begin", "wait", "tick", "iterated", "gap",
                "stopping", "joining", "stopped"}
    /\ send \in {"capture", "burst"}
    /\ child \in {"none", "running", "stalled", "exited"}
    /\ exit \in {"ok", "fatal", "bad"} /\ report \in {"silent", "zero", "part", "all"}
    /\ left \in 0..MaxFrames /\ lines \in 0..PipeLines
    /\ orphans \in 0..MaxOrphans
    /\ wd \in {"asleep", "sampling", "judging", "exited"}
    /\ last \in {"none", "same", "behind"}
    /\ stall \in 0..Flatline
    /\ quiet \in -Poll..Flatline /\ watched \in -Poll..Flatline

\* The ranges of the variables, and that the locals of run_once are those of a
\* send in progress (replay.rs:39-51).
TypeOK ==
    /\ FlagsOK
    /\ RangesOK
    /\ killed => main = "wait"
    /\ child # "none" => main \in {"begin", "wait"}

\* watchdog.rs:39-57, step: the flat seconds only reach the window when the
\* wire has put nothing out for a whole window, however readings fail, sends
\* change over or a lost child keeps transmitting.
FlatMeansQuiet ==
    [][stall < Flatline /\ stall' = Flatline => quiet = Flatline]_vars

\* watchdog.rs:64-73 with replay.rs:39-51: a send that begins after a wake of
\* the watchdog between two sends is killed no sooner than a full window after
\* its begin(), whatever trips, late stores and flat seconds came before.
KillNeedsWindow ==
    [][~killed /\ killed' /\ freshStart => watched = Flatline]_vars

\* watchdog.rs:1-5 says so of every send: the child is killed when its counter
\* was flat for longer than the window while the send was active.  The poll in
\* which the send began is counted whole.
KillAlwaysNeedsWindow ==
    [][~killed /\ killed' => watched + Poll >= Flatline]_vars

\* replay.rs:64-70: a send recorded as successful put something on the wire,
\* however it ended, unless its output has no count at all, which the comment admits.
SuccessIsSent ==
    main = "wait" /\ child = "exited" /\ Success => sent \/ report = "silent"

\* replay.rs:39-51: run_once returns, though the child may stall on the wire
\* or block on the pipe that is only read after its exit.
SendEnds == main = "wait" ~> main # "wait" \/ shutdown

\* run/mod.rs:105-108, signal.rs:1-2: after a stop signal the daemon ends, unless it
\* waits for a child that has stalled: the watchdog has exited on the signal.
StopEnds == shutdown ~> main = "stopped" \/ child = "stalled"
=============================================================================
