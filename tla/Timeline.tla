------------------------------ MODULE Timeline ------------------------------
(***************************************************************************)
(* The scenario engine's walk through a playbook (scenario/engine.rs), as  *)
(* red_tick (simulate/engine.rs) drives it: one call of phase_frames per   *)
(* announce burst, the while loop of that call a step per event it slices, *)
(* then the fate of the burst on its way to the wire.  An event renders    *)
(* the same number of frames whatever its nonce, from a sealed plant that  *)
(* does not change.                                                        *)
(***************************************************************************)
EXTENDS Playbook

CONSTANTS
    NonceSpan,    \* bound: nonces wrap here, in the code at 2^64
    MaxRestarts   \* bound: restarts of the daemon

ASSUME NonceAssumption == NonceSpan \in Nat \ {0}
ASSUME RestartsAssumption == MaxRestarts \in Nat

VARIABLES
    playbook, campaign,  \* of the scenario pack, fixed at load
    phase, cursor,       \* phase_idx, event_cursor, counted from 1
    bursts,              \* bursts_in_phase
    offset,              \* event_frame_offset
    spill,               \* spill_nonce
    nonce,               \* announce_count
    at,                  \* where red_tick is: "idle", "emitting", "sending"
    frames,              \* attack frames in this burst so far
    restarts,
    convo,    \* history: the nonce each event was last started with
    missing   \* history: frames of this phase never reached the wire

timelineVars == <<phase, cursor, bursts, offset, spill>>
vars == <<playbook, campaign, timelineVars, nonce, at, frames, restarts, convo,
          missing>>

Now == playbook[phase]

\* Where the walk stands in its phase, and where it stood when the burst began.
Position == Now.start[cursor] + offset
Sent == Position - (IF at = "emitting" THEN frames ELSE 0)

Script == INSTANCE Script WITH sent <- Sent, age <- bursts

None == -1
Done == cursor > Events(Now)
Blank(pb) == [p \in 1..Len(pb) |-> [e \in 1..Events(pb[p]) |-> None]]

Init ==
    /\ playbook \in Playbooks /\ campaign \in Campaigns
    /\ phase = 1 /\ cursor = 1 /\ bursts = 0 /\ offset = 0 /\ spill = None
    /\ nonce = 0 /\ at = "idle" /\ frames = 0
    /\ restarts = 0 /\ convo = Blank(playbook) /\ missing = FALSE

\* Announce if bursts were not counted.
Announce_SameNonce ==
    /\ at = "idle"
    /\ at' = "emitting" /\ frames' = 0
    /\ UNCHANGED <<playbook, campaign, timelineVars, nonce, restarts, convo, missing>>

\* The cadence is due: red_tick counts the burst and calls phase_frames.
Announce ==
    /\ at = "idle"
    /\ at' = "emitting" /\ frames' = 0
    /\ nonce' = (nonce + 1) % NonceSpan
    /\ UNCHANGED <<playbook, campaign, timelineVars, restarts, convo, missing>>

-----------------------------------------------------------------------------
(* The while loop of phase_frames.                                         *)

\* Room if the cap bounded each event and not the burst.
Room_PerEvent == Cap

Room == Cap - frames
Remaining == Now.start[cursor + 1] - Now.start[cursor] - offset

\* EvNonce if a continued event took the nonce of its new burst.
EvNonce_Unpinned == (nonce - 1 + cursor - 1) % NonceSpan

\* The nonce the event at the cursor renders with: a spilling one keeps its own.
EvNonce ==
    IF spill # None THEN spill ELSE (nonce - 1 + cursor - 1) % NonceSpan

\* Drain if a finished event left its nonce pinned.
Drain_KeepsNonce ==
    /\ at = "emitting" /\ ~Done /\ Room > 0 /\ Remaining <= Room
    /\ frames' = frames + Remaining
    /\ offset' = 0 /\ cursor' = cursor + 1
    /\ convo' = [convo EXCEPT ![phase][cursor] = EvNonce]
    /\ UNCHANGED <<playbook, campaign, phase, bursts, spill, nonce, at, restarts,
                   missing>>

\* The rest of the event fits the burst.
Drain ==
    /\ at = "emitting" /\ ~Done /\ Room > 0 /\ Remaining <= Room
    /\ frames' = frames + Remaining
    /\ offset' = 0 /\ spill' = None /\ cursor' = cursor + 1
    /\ convo' = [convo EXCEPT ![phase][cursor] = EvNonce]
    /\ UNCHANGED <<playbook, campaign, phase, bursts, nonce, at, restarts, missing>>

\* It does not: the burst is filled, the rest is for the next one.
Spill ==
    /\ at = "emitting" /\ ~Done /\ Room > 0 /\ Remaining > Room
    /\ frames' = frames + Room
    /\ offset' = offset + Room /\ spill' = EvNonce
    /\ convo' = [convo EXCEPT ![phase][cursor] = EvNonce]
    /\ UNCHANGED <<playbook, campaign, phase, cursor, bursts, nonce, at, restarts,
                   missing>>

\* PhaseOver if dwell alone moved the timeline.
PhaseOver_DwellOnly == bursts + 1 >= Now.dwell

PhaseOver == Done /\ offset = 0 /\ bursts + 1 >= Now.dwell

\* Advance if a loop did not leave the last phase.
Advance_NoLoop ==
    /\ cursor' = 1 /\ bursts' = 0 /\ offset' = 0 /\ spill' = None
    /\ phase' = IF phase < Len(playbook) THEN phase + 1 ELSE phase

Advance ==
    /\ cursor' = 1 /\ bursts' = 0 /\ offset' = 0 /\ spill' = None
    /\ phase' = Script!NextPhase

\* The loop ends with the events spent or the cap reached; the burst is
\* counted and the phase may be over.
EndBurst ==
    /\ at = "emitting" /\ (Done \/ Room = 0)
    /\ at' = "sending"
    /\ \/ PhaseOver /\ Advance
       \/ ~PhaseOver /\ bursts' = bursts + 1
          /\ UNCHANGED <<phase, cursor, offset, spill>>
    /\ UNCHANGED <<playbook, campaign, nonce, frames, restarts, convo, missing>>

-----------------------------------------------------------------------------
(* The burst on its way: the pcap is written, then tcpreplay sends it.     *)

Fire ==
    /\ at = "sending"
    /\ at' = "idle" /\ frames' = 0
    /\ UNCHANGED <<playbook, campaign, timelineVars, nonce, restarts, convo,
                   missing>>

\* The pcap cannot be written, or tcpreplay fails or is killed.  Of a phase
\* that this burst has ended nothing is counted any more.
Lose ==
    /\ at = "sending"
    /\ at' = "idle" /\ frames' = 0
    /\ missing' = (missing \/ (frames > 0 /\ bursts > 0))
    /\ UNCHANGED <<playbook, campaign, timelineVars, nonce, restarts, convo>>

\* The daemon restarts: all of this lived in memory.
Restart ==
    /\ restarts < MaxRestarts
    /\ restarts' = restarts + 1
    /\ phase' = 1 /\ cursor' = 1 /\ bursts' = 0 /\ offset' = 0 /\ spill' = None
    /\ nonce' = 0 /\ at' = "idle" /\ frames' = 0
    /\ convo' = Blank(playbook) /\ missing' = FALSE
    /\ UNCHANGED <<playbook, campaign>>

-----------------------------------------------------------------------------
Steps == Announce \/ Drain \/ Spill \/ EndBurst \/ Fire \/ Lose

Next == Steps \/ Restart

Spec == Init /\ [][Next]_vars

\* The run loop comes round and announces come due; sends may all be lost.
FairSpec == Spec /\ WF_vars(Steps)

-----------------------------------------------------------------------------
\* Ranges, and how the cursor, the offset and the pinned nonce hang together
\* (scenario/engine.rs:41-49): an event in mid-spill has sent some of its
\* frames and not all, and only then is a nonce pinned.
TypeOK ==
    /\ playbook \in Playbooks /\ campaign \in Campaigns
    /\ phase \in 1..Len(playbook)
    /\ cursor \in 1..Events(Now) + 1
    /\ bursts \in Nat /\ offset \in Nat
    /\ spill \in Int /\ (spill # None <=> offset > 0)
    /\ IF Done THEN offset = 0 ELSE offset > 0 => Remaining > 0
    /\ nonce \in Nat /\ restarts \in Nat /\ missing \in BOOLEAN
    /\ at \in {"idle", "emitting", "sending"}

\* scenario/engine.rs:215-246: no burst exceeds the cap, whatever a single
\* event renders, and none stops short of it while the phase has frames left.
BurstFilled ==
    /\ frames \in 0..Cap
    /\ at = "sending" /\ frames < Cap => Done \/ (cursor = 1 /\ bursts = 0)

\* scenario/engine.rs:45-49: the slices of one event, over however many
\* bursts, are slices of one render.
OneRender ==
    [][frames' > frames /\ offset > 0
         => convo'[phase][cursor] = convo[phase][cursor]]_vars

\* simulate/engine.rs:565-568: an event that comes round again opens a
\* connection of its own.
FreshRender ==
    [][frames' > frames /\ offset = 0
         => convo'[phase][cursor] # convo[phase][cursor]]_vars

\* The walk implements the playbook's promise: every frame in its order, once,
\* as many as the cap allows, before the phase moves on.
PlaysScript == Script!Spec

\* scenario/engine.rs:249-272: a loop keeps coming back to its first phase; a
\* one-shot campaign reaches its last phase and repeats it for good.
Campaigning ==
    /\ campaign = "loop" => []<>(phase = 1 /\ bursts = 0 /\ at = "sending")
    /\ campaign = "oneshot" => <>[](phase = Len(playbook))
    /\ []<>(bursts = 0 /\ at = "sending")

\* scenario/engine.rs:249-251 says an oversized action "fully lands before the
\* timeline moves".
LandsBeforeMoving ==
    [][at = "emitting" /\ at' = "sending" /\ bursts' = 0 => ~missing]_vars
=============================================================================
