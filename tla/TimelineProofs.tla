--------------------------- MODULE TimelineProofs ---------------------------
(***************************************************************************)
(* The scenario engine's walk, for every playbook, cap and nonce width:    *)
(* its state stays coherent, bursts are filled to the cap, the slices of   *)
(* an event are of one render, and the walk implements Script.             *)
(***************************************************************************)
EXTENDS Timeline, TLAPS

\* What an offset table is good for: its entries grow towards the total.
LEMMA PhaseFacts ==
    ASSUME NEW pb \in Playbooks, NEW p \in 1..Len(pb)
    PROVE  /\ Len(pb) \in Nat \ {0}
           /\ Events(pb[p]) \in Nat
           /\ pb[p].dwell \in Nat \ {0}
           /\ pb[p].start[1] = 0
           /\ Total(pb[p]) = pb[p].start[Events(pb[p]) + 1]
           /\ \A e \in 1..Events(pb[p]) + 1 :
                /\ pb[p].start[e] \in Nat
                /\ pb[p].start[e] <= Total(pb[p])
           /\ \A e \in 1..Events(pb[p]) :
                pb[p].start[e] <= pb[p].start[e + 1]
<1> DEFINE ph == pb[p]
<1>1. IsPhase(ph) /\ Len(pb) \in Nat \ {0}
  BY PlaybooksAssumption
<1>2. /\ ph.dwell \in Nat \ {0} /\ ph.start \in Seq(Nat) /\ Len(ph.start) >= 1
      /\ ph.start[1] = 0
      /\ \A e, f \in 1..Len(ph.start) : e <= f => ph.start[e] <= ph.start[f]
  BY <1>1 DEF IsPhase
<1> HIDE DEF ph
<1>3. Len(ph.start) \in Nat
  BY <1>2
<1>4. \A e \in 1..Len(ph.start) : ph.start[e] \in Nat
  BY <1>2
<1>5. /\ Events(ph) \in Nat /\ Total(ph) = ph.start[Events(ph) + 1]
      /\ Len(ph.start) = Events(ph) + 1
  BY <1>2, <1>3 DEF Events, Total
<1>6. \A e \in 1..Events(ph) + 1 :
        ph.start[e] \in Nat /\ ph.start[e] <= Total(ph)
  BY <1>2, <1>4, <1>5
<1>7. \A e \in 1..Events(ph) : ph.start[e] <= ph.start[e + 1]
  <2>1. ASSUME NEW e \in 1..Events(ph)
        PROVE  e \in 1..Len(ph.start) /\ e + 1 \in 1..Len(ph.start) /\ e <= e + 1
    BY <1>5
  <2>2. QED
    BY <1>2, <2>1
<1>8. QED
  BY <1>1, <1>2, <1>5, <1>6, <1>7 DEF ph

\* A nonce is never None, so a pinned one can be told from none.
LEMMA NonceFacts ==
    ASSUME NEW a \in Int
    PROVE  a % NonceSpan \in Int /\ a % NonceSpan # None
BY NonceAssumption DEF None
-----------------------------------------------------------------------------
LEMMA TypeInit == Init => TypeOK
<1> SUFFICES ASSUME Init PROVE TypeOK
  OBVIOUS
<1>1. playbook \in Playbooks /\ phase = 1 /\ cursor = 1
  BY DEF Init
<1>2. Len(playbook) \in Nat \ {0}
  BY <1>1, PlaybooksAssumption
<1>3. 1 \in 1..Len(playbook) /\ Events(playbook[1]) \in Nat
  BY <1>1, <1>2, PhaseFacts
<1>4. phase \in 1..Len(playbook) /\ cursor \in 1..Events(Now) + 1
  BY <1>1, <1>3 DEF Now
<1>5. missing \in BOOLEAN
  BY DEF Init
<1>6. IF Done THEN offset = 0 ELSE offset > 0 => Remaining > 0
  BY DEF Init
<1>7. QED
  BY <1>4, <1>5, <1>6 DEF Init, TypeOK, None

\* The offset table around the cursor.
LEMMA AtCursor ==
    ASSUME TypeOK
    PROVE  /\ Len(playbook) \in Nat \ {0} /\ Events(Now) \in Nat
           /\ Now.dwell \in Nat \ {0} /\ Now.start[1] = 0
           /\ Now.start[cursor] \in Nat /\ Now.start[cursor] <= Total(Now)
           /\ Total(Now) \in Nat /\ Total(Now) = Now.start[Events(Now) + 1]
           /\ ~Done => /\ cursor + 1 \in 1..Events(Now) + 1
                       /\ Now.start[cursor + 1] \in Nat
                       /\ Now.start[cursor] <= Now.start[cursor + 1]
                       /\ Now.start[cursor + 1] <= Total(Now)
           /\ Done => cursor = Events(Now) + 1
<1>1. /\ playbook \in Playbooks /\ phase \in 1..Len(playbook)
      /\ cursor \in 1..Events(Now) + 1
  BY DEF TypeOK
<1>2. /\ Len(playbook) \in Nat \ {0} /\ Events(Now) \in Nat
      /\ Now.dwell \in Nat \ {0} /\ Now.start[1] = 0
      /\ Total(Now) = Now.start[Events(Now) + 1]
      /\ \A e \in 1..Events(Now) + 1 :
            Now.start[e] \in Nat /\ Now.start[e] <= Total(Now)
      /\ \A e \in 1..Events(Now) : Now.start[e] <= Now.start[e + 1]
  BY <1>1, PhaseFacts DEF Now
<1>3. Events(Now) + 1 \in 1..Events(Now) + 1
  BY <1>2
<1>4. ~Done => cursor \in 1..Events(Now) /\ cursor + 1 \in 1..Events(Now) + 1
  BY <1>1, <1>2 DEF Done
<1>5. Done => cursor = Events(Now) + 1
  BY <1>1, <1>2 DEF Done
<1>6. QED
  BY <1>1, <1>2, <1>3, <1>4, <1>5

\* Any phase may be entered at its first event.
LEMMA Entering ==
    ASSUME playbook \in Playbooks, NEW p \in 1..Len(playbook)
    PROVE  1 \in 1..Events(playbook[p]) + 1
BY PhaseFacts

LEMMA NextPhaseInside ==
    ASSUME TypeOK
    PROVE  Script!NextPhase \in 1..Len(playbook)
BY AtCursor DEF TypeOK, Script!NextPhase

LEMMA EvNonceFacts ==
    ASSUME TypeOK
    PROVE  EvNonce \in Int /\ EvNonce # None
<1>1. nonce - 1 + cursor - 1 \in Int
  BY AtCursor DEF TypeOK
<1>2. QED
  BY <1>1, NonceFacts DEF TypeOK, EvNonce

BurstOK == frames \in 0..Cap

LEMMA TypeNext ==
    ASSUME TypeOK, BurstOK, [Next]_vars
    PROVE  TypeOK' /\ BurstOK'
<1> USE DEF BurstOK
<1>0. Cap \in Nat /\ Room \in Nat /\ (~Done => Remaining \in Int)
  BY CapAssumption, AtCursor DEF TypeOK, Room, Remaining
<1>1. CASE Announce
  <2>1. nonce' \in Nat
    BY <1>1, NonceAssumption DEF Announce, TypeOK
  <2>2. QED
    BY <1>0, <1>1, <2>1 DEF Announce, timelineVars, TypeOK, Now, Done, Remaining
<1>2. CASE Drain
  <2>1. cursor' \in 1..Events(Now)' + 1
    BY <1>2, AtCursor DEF Drain, TypeOK, Now
  <2>2. offset' = 0 /\ spill' = None /\ offset' \in Nat /\ spill' \in Int
    BY <1>2 DEF Drain, None
  <2>3. Remaining \in Nat
    <3>1. ~Done /\ Remaining \in Int /\ offset \in Nat
      BY <1>0, <1>2 DEF Drain, TypeOK
    <3>2. CASE offset > 0
      BY <3>1, <3>2 DEF TypeOK
    <3>3. CASE offset = 0
      BY <3>1, <3>3, AtCursor DEF Remaining
    <3>4. QED
      BY <3>1, <3>2, <3>3
  <2>4. frames' \in 0..Cap
    BY <1>0, <1>2, <2>3 DEF Drain, Room
  <2>5. QED
    BY <1>2, <2>1, <2>2, <2>4 DEF Drain, TypeOK, Now, Done
<1>3. CASE Spill
  <2>1. offset' = offset + Room /\ Room > 0 /\ offset' \in Nat /\ offset' > 0
    BY <1>0, <1>3 DEF Spill, TypeOK
  <2>2. spill' \in Int /\ spill' # None
    BY <1>3, EvNonceFacts DEF Spill
  <2>3. Remaining' > 0 /\ ~Done'
    <3>1. Now' = Now /\ cursor' = cursor /\ ~Done /\ Remaining > Room
      BY <1>3 DEF Spill, Now
    <3>2. Remaining' = Remaining - Room
      <4>1. Remaining' = Now.start[cursor + 1] - Now.start[cursor] - offset'
        BY <3>1 DEF Remaining
      <4>2. /\ Now.start[cursor + 1] \in Nat /\ Now.start[cursor] \in Nat
            /\ offset \in Nat
        BY <3>1, AtCursor DEF TypeOK
      <4>3. QED
        BY <1>0, <2>1, <4>1, <4>2 DEF Remaining
    <3>3. QED
      BY <1>0, <3>1, <3>2 DEF Done
  <2>4. frames' \in 0..Cap
    BY <1>0, <1>3 DEF Spill, Room
  <2>5. QED
    BY <1>3, <2>1, <2>2, <2>3, <2>4 DEF Spill, TypeOK, Now, None
<1>4. CASE EndBurst
  <2>1. CASE PhaseOver
    <3>1. /\ phase' = Script!NextPhase /\ cursor' = 1 /\ bursts' = 0
          /\ offset' = 0 /\ spill' = None
      BY <1>4, <2>1 DEF EndBurst, Advance
    <3>2. phase' \in 1..Len(playbook')
      BY <1>4, <3>1, NextPhaseInside DEF EndBurst
    <3>3. cursor' \in 1..Events(Now)' + 1
      BY <1>4, <3>1, <3>2, Entering DEF EndBurst, TypeOK, Now
    <3>4. QED
      BY <1>4, <3>1, <3>2, <3>3 DEF EndBurst, TypeOK, None
  <2>2. CASE ~PhaseOver
    BY <1>4, <2>2 DEF EndBurst, TypeOK, Now, Done, Remaining
  <2>3. QED
    BY <2>1, <2>2
<1>5. CASE Fire
  BY <1>0, <1>5 DEF Fire, timelineVars, TypeOK, Now, Done, Remaining
<1>6. CASE Lose
  BY <1>0, <1>6 DEF Lose, timelineVars, TypeOK, Now, Done, Remaining
<1>7. CASE Restart
  <2>1. /\ phase' = 1 /\ cursor' = 1 /\ bursts' = 0 /\ offset' = 0
        /\ spill' = None /\ frames' = 0 /\ playbook' = playbook
    BY <1>7 DEF Restart
  <2>2. phase' \in 1..Len(playbook')
    BY <2>1, AtCursor
  <2>3. cursor' \in 1..Events(Now)' + 1
    BY <2>1, <2>2, Entering DEF TypeOK, Now
  <2>4. missing' \in BOOLEAN
    BY <1>7 DEF Restart
  <2>5. nonce' \in Nat /\ restarts' \in Nat
    BY <1>7 DEF Restart, TypeOK
  <2>6. QED
    BY <1>0, <1>7, <2>1, <2>2, <2>3, <2>4, <2>5 DEF Restart, TypeOK, None
<1>8. CASE UNCHANGED vars
  BY <1>8 DEF vars, timelineVars, TypeOK, Now, Done, Remaining
<1>9. QED
  BY <1>1, <1>2, <1>3, <1>4, <1>5, <1>6, <1>7, <1>8 DEF Next, Steps

-----------------------------------------------------------------------------
\* A short burst has nothing left to send.
Short == at = "sending" /\ frames < Cap => Done \/ (cursor = 1 /\ bursts = 0)

LEMMA ShortNext ==
    ASSUME TypeOK, BurstOK, Short, [Next]_vars
    PROVE  Short'
<1>1. CASE EndBurst
  <2>1. CASE PhaseOver
    BY <1>1, <2>1 DEF EndBurst, Advance, Short
  <2>2. CASE ~PhaseOver /\ Done
    BY <1>1, <2>2 DEF EndBurst, Short, Done, Now
  <2>3. CASE ~PhaseOver /\ Room = 0
    BY <1>1, <2>3, CapAssumption DEF EndBurst, Short, Room, BurstOK
  <2>4. QED
    BY <1>1, <2>1, <2>2, <2>3 DEF EndBurst
<1>2. CASE UNCHANGED vars
  BY <1>2 DEF vars, timelineVars, Short, Done, Now
<1>3. CASE Announce \/ Fire \/ Lose \/ Restart
  BY <1>3 DEF Announce, Fire, Lose, Restart, Short
<1>4. CASE Drain \/ Spill
  BY <1>4 DEF Drain, Spill, Short
<1>5. QED
  BY <1>1, <1>2, <1>3, <1>4 DEF Next, Steps

-----------------------------------------------------------------------------
\* The nonce pinned is the one the event in mid-spill was started with.
ConvoDomain ==
    /\ DOMAIN convo = 1..Len(playbook)
    /\ \A p \in 1..Len(playbook) : DOMAIN convo[p] = 1..Events(playbook[p])
Pinned == offset > 0 => convo[phase][cursor] = spill

\* What a slice does to the history.
LEMMA SliceConvo ==
    ASSUME TypeOK, ConvoDomain, ~Done,
           convo' = [convo EXCEPT ![phase][cursor] = EvNonce]
    PROVE  /\ convo'[phase][cursor] = EvNonce
           /\ DOMAIN convo' = 1..Len(playbook)
           /\ \A p \in 1..Len(playbook) :
                DOMAIN convo'[p] = 1..Events(playbook[p])
<1>1. phase \in 1..Len(playbook) /\ cursor \in 1..Events(Now)
  BY AtCursor DEF TypeOK, Done
<1>2. phase \in DOMAIN convo /\ cursor \in DOMAIN convo[phase]
  BY <1>1 DEF ConvoDomain, Now
<1>3. QED
  BY <1>2 DEF ConvoDomain

LEMMA PinnedNext ==
    ASSUME TypeOK, ConvoDomain, Pinned, [Next]_vars
    PROVE  ConvoDomain' /\ Pinned'
<1>1. CASE Drain
  <2>1. ConvoDomain'
    BY <1>1, SliceConvo DEF Drain, ConvoDomain
  <2>2. QED
    BY <1>1, <2>1 DEF Drain, Pinned
<1>2. CASE Spill
  <2>1. ConvoDomain'
    BY <1>2, SliceConvo DEF Spill, ConvoDomain
  <2>2. QED
    BY <1>2, <2>1, SliceConvo DEF Spill, Pinned
<1>3. CASE EndBurst
  BY <1>3 DEF EndBurst, Advance, ConvoDomain, Pinned
<1>4. CASE Restart
  BY <1>4 DEF Restart, Blank, ConvoDomain, Pinned
<1>5. CASE Announce \/ Fire \/ Lose \/ UNCHANGED vars
  BY <1>5 DEF Announce, Fire, Lose, vars, timelineVars, ConvoDomain, Pinned
<1>6. QED
  BY <1>1, <1>2, <1>3, <1>4, <1>5 DEF Next, Steps

\* A further slice of an event carries the nonce of the slices before.
LEMMA RenderStep ==
    ASSUME TypeOK, BurstOK, ConvoDomain, Pinned, [Next]_vars
    PROVE  frames' > frames /\ offset > 0
             => convo'[phase][cursor] = convo[phase][cursor]
<1> SUFFICES ASSUME frames' > frames, offset > 0
             PROVE  convo'[phase][cursor] = convo[phase][cursor]
  OBVIOUS
<1>1. EvNonce = convo[phase][cursor]
  BY DEF TypeOK, EvNonce, Pinned
<1>2. CASE Drain \/ Spill
  BY <1>1, <1>2, SliceConvo DEF Drain, Spill
<1>3. frames' # 0 /\ frames' # frames
  BY CapAssumption DEF BurstOK
<1>4. QED
  BY <1>2, <1>3 DEF Next, Steps, Announce, EndBurst, Fire, Lose, Restart, vars

-----------------------------------------------------------------------------
(* The invariant and what follows from it.                                 *)

Inv == TypeOK /\ BurstOK /\ Short /\ ConvoDomain /\ Pinned

LEMMA Invariance == Spec => []Inv
<1>1. Init => Inv
  BY TypeInit, CapAssumption
  DEF Init, Inv, BurstOK, Short, ConvoDomain, Pinned, Blank
<1>2. Inv /\ [Next]_vars => Inv'
  BY TypeNext, ShortNext, PinnedNext DEF Inv
<1>3. QED
  BY <1>1, <1>2, PTL DEF Spec

\* The ranges hold, and a pinned nonce goes with an event in mid-spill
\* (scenario/engine.rs:41-49), for every playbook, cap and nonce width.
THEOREM TypeCorrect == Spec => []TypeOK
<1>1. Inv => TypeOK
  BY DEF Inv
<1>2. QED
  BY <1>1, Invariance, PTL

\* No burst exceeds the cap or stops short of it with frames left
\* (scenario/engine.rs:215-246).
THEOREM BurstsFilled == Spec => []BurstFilled
<1>1. Inv => BurstFilled
  BY DEF Inv, BurstOK, Short, BurstFilled
<1>2. QED
  BY <1>1, Invariance, PTL

\* The slices of an event are of one render, over however many bursts
\* (scenario/engine.rs:45-49).
THEOREM RenderedOnce == Spec => OneRender
<1>1. Inv /\ [Next]_vars =>
        [frames' > frames /\ offset > 0
           => convo'[phase][cursor] = convo[phase][cursor]]_vars
  BY RenderStep DEF Inv
<1>2. QED
  BY <1>1, Invariance, PTL DEF Spec, OneRender

-----------------------------------------------------------------------------
(* The walk implements Script.  While a burst is being built, the script   *)
(* still stands where the burst began.                                     *)

Begun == at = "emitting" => frames <= Position

LEMMA PositionFacts ==
    ASSUME TypeOK
    PROVE  /\ Position \in Nat /\ Position <= Total(Now) /\ Total(Now) \in Nat
           /\ Done => Position = Total(Now)
           /\ ~Done => Remaining = Now.start[cursor + 1] - Position
<1>1. /\ Now.start[cursor] \in Nat /\ offset \in Nat /\ Total(Now) \in Nat
      /\ Now.start[cursor] <= Total(Now)
  BY AtCursor DEF TypeOK
<1>2. Done => Position = Total(Now)
  BY <1>1, AtCursor DEF TypeOK, Position
<1>3. ASSUME ~Done
      PROVE  /\ Remaining = Now.start[cursor + 1] - Position
             /\ Position <= Total(Now)
  <2>1. Now.start[cursor + 1] \in Nat /\ Now.start[cursor + 1] <= Total(Now)
    BY <1>3, AtCursor
  <2>2. Remaining = Now.start[cursor + 1] - Position
    BY <1>1, <2>1 DEF Remaining, Position
  <2>3. CASE offset = 0
    BY <1>1, <2>2, <2>3 DEF Position
  <2>4. CASE offset > 0
    <3>1. Remaining > 0
      BY <1>3, <2>4 DEF TypeOK
    <3>2. QED
      BY <1>1, <2>1, <2>2, <3>1 DEF Position
  <2>5. QED
    BY <1>1, <2>2, <2>3, <2>4
<1>4. QED
  BY <1>1, <1>2, <1>3 DEF Position

\* A slice moves the position by the frames it takes.
LEMMA SliceMoves ==
    ASSUME TypeOK, BurstOK, Drain \/ Spill
    PROVE  /\ Position' - frames' = Position - frames
           /\ Position \in Nat /\ frames \in Nat /\ Cap \in Nat
           /\ Position' \in Int /\ frames' \in Int
<1>1. /\ ~Done /\ Remaining = Now.start[cursor + 1] - Position
      /\ Position \in Nat /\ frames \in Nat /\ Cap \in Nat
      /\ Now.start[cursor + 1] \in Nat /\ Now.start[cursor] \in Nat
      /\ offset \in Nat
  BY PositionFacts, AtCursor, CapAssumption DEF BurstOK, Drain, Spill, TypeOK
<1>2. CASE Drain
  <2>1. Position' = Now.start[cursor + 1] + 0
    BY <1>2 DEF Drain, Position, Now
  <2>2. frames' = frames + Remaining
    BY <1>2 DEF Drain
  <2>3. QED
    BY <1>1, <2>1, <2>2
<1>3. CASE Spill
  <2>1. Position' = Now.start[cursor] + (offset + Room)
    BY <1>3 DEF Spill, Position, Now
  <2>2. frames' = frames + Room /\ Room = Cap - frames
    BY <1>3 DEF Spill, Room
  <2>3. QED
    BY <1>1, <2>1, <2>2 DEF Position
<1>4. QED
  BY <1>2, <1>3

LEMMA BegunNext ==
    ASSUME TypeOK, BurstOK, Begun, [Next]_vars
    PROVE  Begun'
<1>1. CASE Announce
  BY <1>1, PositionFacts
  DEF Announce, timelineVars, Begun, Position, Now
<1>2. CASE Drain \/ Spill
  <2>1. frames <= Position
    BY <1>2 DEF Drain, Spill, Begun
  <2>2. QED
    BY <1>2, <2>1, SliceMoves DEF Begun
<1>3. CASE EndBurst \/ Fire \/ Lose \/ Restart
  BY <1>3 DEF EndBurst, Fire, Lose, Restart, Begun
<1>4. CASE UNCHANGED vars
  BY <1>4 DEF vars, timelineVars, Begun, Position, Now
<1>5. QED
  BY <1>1, <1>2, <1>3, <1>4 DEF Next, Steps

\* The frames of a finished burst are what the script allows it.
LEMMA BurstSize ==
    ASSUME TypeOK, BurstOK, Begun, EndBurst
    PROVE  /\ Sent \in Nat /\ Sent <= Total(Now)
           /\ Sent + Script!Least(Cap, Total(Now) - Sent) = Position
<1>1. /\ Position \in Nat /\ Position <= Total(Now) /\ Total(Now) \in Nat
      /\ frames \in Nat /\ frames <= Cap /\ Cap \in Nat
      /\ frames <= Position /\ Sent = Position - frames
  BY PositionFacts, CapAssumption DEF BurstOK, Begun, EndBurst, Sent
<1>2. CASE Done
  BY <1>1, <1>2, PositionFacts DEF Script!Least
<1>3. CASE Room = 0
  BY <1>1, <1>3 DEF Room, Script!Least
<1>4. QED
  BY <1>1, <1>2, <1>3 DEF EndBurst

\* Every step of the walk is a step of the script or none.
LEMMA StepScript ==
    ASSUME TypeOK, BurstOK, Begun, [Next]_vars
    PROVE  [Script!Next]_(Script!vars)
<1>1. CASE Announce \/ Fire \/ Lose \/ UNCHANGED vars
  <2>1. Position \in Nat /\ (at # "emitting" => Sent = Position - 0)
    BY PositionFacts DEF Sent
  <2>2. Position' = Position /\ (at # "emitting" => Sent' = Position - 0)
    BY <1>1, <2>1
    DEF Announce, Fire, Lose, vars, timelineVars, Position, Now, Sent
  <2>3. Sent' = Sent
    BY <1>1, <2>1, <2>2
    DEF Announce, Fire, Lose, vars, timelineVars, Sent, Position, Now
  <2>4. /\ playbook' = playbook /\ campaign' = campaign /\ phase' = phase
        /\ bursts' = bursts
    BY <1>1 DEF Announce, Fire, Lose, vars, timelineVars
  <2>5. QED
    BY <2>3, <2>4 DEF Script!vars, Sent
<1>2. CASE Drain \/ Spill
  <2>1. Sent = Position - frames /\ Sent' = Position' - frames'
    BY <1>2 DEF Drain, Spill, Sent
  <2>2. Sent' = Sent
    BY <1>2, <2>1, SliceMoves
  <2>3. QED
    BY <1>2, <2>2 DEF Drain, Spill, Script!vars, Sent, Position, Now
<1>3. CASE EndBurst
  <2>1. Sent + Script!Least(Cap, Total(Now) - Sent) = Position
    BY <1>3, BurstSize
  <2>2. Position \in Nat
    BY PositionFacts
  <2>3. CASE PhaseOver
    <3>1. Position = Total(Now) /\ bursts + 1 >= Now.dwell
      BY <2>3, PositionFacts DEF PhaseOver
    <3>2. /\ phase' = Script!NextPhase /\ cursor' = 1 /\ bursts' = 0
          /\ offset' = 0 /\ playbook' = playbook /\ campaign' = campaign
          /\ at' = "sending"
      BY <1>3, <2>3 DEF EndBurst, Advance
    <3>3. phase' \in 1..Len(playbook')
      BY <3>2, NextPhaseInside
    <3>4. Now'.start[1] = 0
      BY <3>2, <3>3, PhaseFacts DEF TypeOK, Now
    <3>5. Sent' = 0
      BY <3>2, <3>4 DEF Sent, Position, Now
    <3>6. Script!Burst
      BY <2>1, <3>1, <3>2, <3>5 DEF Script!Burst, Sent, Position, Now, Total, Script!Total
    <3>7. QED
      BY <3>6 DEF Script!Next
  <2>4. CASE ~PhaseOver
    <3>1. /\ phase' = phase /\ cursor' = cursor /\ offset' = offset
          /\ playbook' = playbook /\ campaign' = campaign
          /\ bursts' = bursts + 1 /\ at' = "sending"
      BY <1>3, <2>4 DEF EndBurst
    <3>2. Sent' = Position
      BY <2>2, <3>1 DEF Sent, Position, Now
    <3>3. Script!Burst
      BY <2>1, <3>1, <3>2 DEF Script!Burst, Sent, Position, Now, Total, Script!Total
    <3>4. QED
      BY <3>3 DEF Script!Next
  <2>5. QED
    BY <2>3, <2>4
<1>4. CASE Restart
  <2>1. /\ phase' = 1 /\ cursor' = 1 /\ bursts' = 0 /\ offset' = 0
        /\ playbook' = playbook /\ campaign' = campaign /\ at' = "idle"
    BY <1>4 DEF Restart
  <2>2. Now'.start[1] = 0
    BY <2>1, AtCursor, PhaseFacts DEF TypeOK, Now
  <2>3. Sent' = 0
    BY <2>1, <2>2 DEF Sent, Position, Now
  <2>4. QED
    BY <2>1, <2>3 DEF Script!Next, Script!Restart, Sent, Position, Now
<1>5. QED
  BY <1>1, <1>2, <1>3, <1>4 DEF Next, Steps

\* The walk of the scenario engine (scenario/engine.rs:209-273) implements the
\* promise of a playbook: every frame of a phase in its order, once, as many a
\* burst as the cap allows, before the phase moves on.
THEOREM ImplementsScript == Spec => PlaysScript
<1>1. Init => Script!Init
  <2> SUFFICES ASSUME Init PROVE Script!Init
    OBVIOUS
  <2>1. TypeOK /\ phase = 1 /\ cursor = 1 /\ offset = 0 /\ at = "idle"
    BY TypeInit DEF Init
  <2>2. Sent = 0
    BY <2>1, AtCursor DEF Sent, Position, Now
  <2>3. QED
    BY <2>2 DEF Init, Script!Init, Sent, Position, Now
<1>2. Init => Begun
  BY DEF Init, Begun
<1>3. Inv /\ Begun /\ [Next]_vars => Begun' /\ [Script!Next]_(Script!vars)
  BY BegunNext, StepScript DEF Inv
<1>4. QED
  BY <1>1, <1>2, <1>3, Invariance, PTL DEF Spec, PlaysScript, Script!Spec
=============================================================================
