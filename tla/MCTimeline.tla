----------------------------- MODULE MCTimeline -----------------------------
(***************************************************************************)
(* Playbooks for TLC: the shapes that matter to the walk are phases with   *)
(* no event, events that render nothing, events that fit, fill and exceed  *)
(* the cap, and dwells shorter and longer than the events need.            *)
(***************************************************************************)
EXTENDS Timeline, SequencesExt

\* The phase with this dwell whose events render this many frames.
MCPhase(dwell, sizes) ==
    [dwell |-> dwell,
     start |-> FoldLeft(LAMBDA acc, n : Append(acc, acc[Len(acc)] + n), <<0>>,
                        sizes)]

MCSizes == {<<>>} \cup [1..1 -> {1, 5}] \cup [1..2 -> {0, 2, 5}]
MCPhases == {MCPhase(d, s) : d \in {1, 3}, s \in MCSizes}
MCPlaybooks ==
    {<<p>> : p \in MCPhases}
        \cup {<<p, MCPhase(2, <<1, 1, 0>>)>> : p \in MCPhases}
        \cup {<<MCPhase(1, <<3>>), p>> : p \in MCPhases}
=============================================================================
