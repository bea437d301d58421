------------------------------- MODULE Script -------------------------------
(***************************************************************************)
(* What a playbook promises the sensor, without cursors, slices or pinned  *)
(* nonces: burst after burst, the frames of a phase go out in their order, *)
(* each once, as many at a time as the cap allows; the next phase comes    *)
(* when all are out and the phase has lasted its dwell; a one-shot         *)
(* campaign stays in its last phase, a loop starts over.                   *)
(***************************************************************************)
EXTENDS Playbook

VARIABLES
    playbook, campaign,  \* the scenario pack's, fixed at load
    phase,               \* the current phase
    sent,                \* how many of its frames went out
    age                  \* the bursts it has lasted

vars == <<playbook, campaign, phase, sent, age>>

Least(a, b) == IF a <= b THEN a ELSE b

NextPhase ==
    IF phase < Len(playbook) THEN phase + 1
    ELSE IF campaign = "loop" THEN 1 ELSE phase

Init ==
    /\ playbook \in Playbooks /\ campaign \in Campaigns
    /\ phase = 1 /\ sent = 0 /\ age = 0

\* One burst; the phase may be over with it.
Burst ==
    LET ph == playbook[phase]
        n == sent + Least(Cap, Total(ph) - sent)
    IN  /\ \/ phase' = phase /\ sent' = n /\ age' = age + 1
           \/ /\ n = Total(ph) /\ age + 1 >= ph.dwell
              /\ phase' = NextPhase /\ sent' = 0 /\ age' = 0
        /\ UNCHANGED <<playbook, campaign>>

\* The timeline lives in memory: a restarted daemon plays it from the start.
Restart ==
    /\ phase' = 1 /\ sent' = 0 /\ age' = 0
    /\ UNCHANGED <<playbook, campaign>>

Next == Burst \/ Restart

Spec == Init /\ [][Next]_vars
=============================================================================
