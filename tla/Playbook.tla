------------------------------ MODULE Playbook ------------------------------
(***************************************************************************)
(* The playbook of a scenario pack (scenario/playbook.rs), reduced to what *)
(* the walk through it can tell apart.  A phase is [dwell, start]:         *)
(* start[e] is the number of frames its events before the e-th render, and *)
(* the last entry the number all of them do.                               *)
(***************************************************************************)
EXTENDS Integers, Sequences

CONSTANTS
    Playbooks,  \* the playbooks considered
    Campaigns,  \* of "oneshot" and "loop"
    Cap         \* max_frames_per_burst, raised to at least 1

IsPhase(ph) ==
    /\ ph.dwell \in Nat \ {0}
    /\ ph.start \in Seq(Nat) /\ Len(ph.start) >= 1 /\ ph.start[1] = 0
    /\ \A e, f \in 1..Len(ph.start) : e <= f => ph.start[e] <= ph.start[f]

ASSUME PlaybooksAssumption ==
    \A pb \in Playbooks :
        Len(pb) \in Nat \ {0} /\ \A p \in 1..Len(pb) : IsPhase(pb[p])
ASSUME CampaignsAssumption == Campaigns \subseteq {"oneshot", "loop"}
ASSUME CapAssumption == Cap \in Nat \ {0}

Events(ph) == Len(ph.start) - 1
Total(ph) == ph.start[Len(ph.start)]
=============================================================================
