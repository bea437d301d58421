-------------------------------- MODULE Host --------------------------------
(***************************************************************************)
(* A host runs the daemon (RemapCache) or `turbolaser reload` (Reload): the *)
(* sum of the two, and not their product.  Captures that another process   *)
(* writes under a running daemon are RemapCache's own (Copy).              *)
(***************************************************************************)
EXTENDS RemapCache, Reload

\* A variant's name has the number of its round.
ASSUME HostAssumption ==
    /\ \A r, s \in 1..Len(Rounds) : Rounds[r] = Rounds[s] => r = s
    /\ \A r \in 1..Len(Rounds) : Rounds[r] \in Captures
    /\ Len(Rounds) \in Nat

\* Of a host that runs the daemon.
Off == [Idle EXCEPT !.pc = "off"]

EitherInit == Init /\ forge \in {Idle, Off} /\ forged = <<>> /\ mapper = NoMapper /\ index = <<>>
Daemon == forge = Off /\ Next /\ UNCHANGED <<forge, forged, mapper, index>>
Forge == forge # Off /\ Forging /\ UNCHANGED <<stamp, recent, plans, up, look, cache, known, served>>
EitherSpec == EitherInit /\ [][Daemon \/ Forge]_<<vars, forge, forged, mapper, index>>
=============================================================================
