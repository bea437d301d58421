------------------------------ MODULE RunLoop ------------------------------
(***************************************************************************)
(* The loop of `turbolaser run` (run/mod.rs), its heartbeat (run/status.rs) *)
(* and what `turbolaser pewpew` makes of it (control.rs).  What one send    *)
(* does is module Replay's, what the engine keeps module Session's.        *)
(***************************************************************************)
EXTENDS Naturals, FiniteSets

CONSTANTS
    Procs,    \* processes that may run the loop
    Once,     \* those started with --once
    Captures, \* capture files
    Weighted  \* those whose weight is not zero

ASSUME RunLoopAssumption == Once \subseteq Procs /\ Weighted \subseteq Captures

VARIABLES
    pool,   \* each capture: "absent", "torn" while it is being written, "whole"
    loop,   \* each process: where it is, and whether SIGTERM came
    status  \* the heartbeat file: whose it is; its states differ in wording only

Off == [pc |-> "off", cap |-> "none", stop |-> FALSE]
NoStatus == "none"

RunLoopInit ==
    /\ pool = [c \in Captures |-> "whole"]
    /\ loop = [p \in Procs |-> Off]
    /\ status = NoStatus

-----------------------------------------------------------------------------
\* status::write_atomic, which may fail: then the old file stays.
Beat(p) == status' \in {p, status}

At(p, pc) == loop[p].pc = pc
Goes(p, pc) == loop' = [loop EXCEPT ![p].pc = pc, ![p].cap = "none"]

\* scan_pcaps, which does not look into a file.
Present == {c \in Captures : pool[c] # "absent"}

\* If the same capture were picked again and again.
Selectable_First ==
    LET some == Weighted \cap Present
    IN  IF some = {} THEN {} ELSE {CHOOSE c \in some : TRUE}

\* weighted_pick: any capture that has a weight.
Selectable == Weighted \cap Present

\* The configuration is good and the engine has started.
Begin(p) ==
    /\ At(p, "off")
    /\ loop' = [loop EXCEPT ![p] = [Off EXCEPT !.pc = "top"]]
    /\ Beat(p)

\* The top of the loop.
Pick(p) ==
    /\ At(p, "top") /\ ~loop[p].stop
    /\ IF Selectable = {}
       THEN Goes(p, "nap") /\ Beat(p)
       ELSE /\ \E c \in Selectable : loop' = [loop EXCEPT ![p].pc = "read", ![p].cap = c]
            /\ UNCHANGED status
    /\ UNCHANGED pool

\* The remap cannot read a capture that is torn, or was removed since.
Skip(p) ==
    /\ At(p, "read") /\ pool[loop[p].cap] # "whole"
    /\ Goes(p, "nap") /\ Beat(p)
    /\ UNCHANGED pool

Send(p) ==
    /\ At(p, "read") /\ pool[loop[p].cap] = "whole"
    /\ Goes(p, "send") /\ Beat(p)
    /\ UNCHANGED pool

\* If --once were not looked at.
Sent_Loops(p) == At(p, "send") /\ Goes(p, "nap") /\ Beat(p) /\ UNCHANGED pool

\* The send and the burst after it are over, well or not.  --once looks here only.
Sent(p) ==
    /\ At(p, "send")
    /\ IF p \in Once THEN Goes(p, "end") ELSE Goes(p, "nap")
    /\ Beat(p)
    /\ UNCHANGED pool

\* interruptible_sleep.
Wake(p) == At(p, "nap") /\ Goes(p, "top") /\ UNCHANGED <<pool, status>>

\* If only the naps looked at the signal.
Leave_Nap(p) == At(p, "nap") /\ loop[p].stop

Leave(p) == At(p, "top") /\ loop[p].stop

\* The last heartbeat; the process is gone, with exit code 0.
End(p) ==
    /\ At(p, "end") \/ Leave(p)
    /\ loop' = [loop EXCEPT ![p] = Off]
    /\ Beat(p)
    /\ UNCHANGED pool

\* If nothing handled the signal.
Sigterm_Kills(p) == loop' = [loop EXCEPT ![p] = Off]

\* install_shutdown: the signal is only noted.
Sigterm(p) == loop' = [loop EXCEPT ![p].stop = TRUE]

\* Captures come and go: a copy or `turbolaser reload` leaves one torn at first.
Supply ==
    /\ \E c \in Captures, s \in {"absent", "torn", "whole"} :
        /\ pool[c] # s /\ (s = "whole" => pool[c] = "torn")
        /\ pool' = [pool EXCEPT ![c] = s]
    /\ UNCHANGED <<loop, status>>

Step(p) == Pick(p) \/ Skip(p) \/ Send(p) \/ Sent(p) \/ Wake(p)
=============================================================================
