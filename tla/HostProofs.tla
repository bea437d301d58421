------------------------------ MODULE HostProofs -----------------------------
(***************************************************************************)
(* A host that runs the daemon or a reload, for any rounds, contents and   *)
(* budgets: what a reload is about to list is on disk as the list says, a  *)
(* variant keeps the identities of the capture it was forged from, what is *)
(* sent is a file of the cache, and a cache keeps to its budget.           *)
(***************************************************************************)
EXTENDS Host, ListProofs

hostVars == <<vars, forge, forged, mapper, index>>

-----------------------------------------------------------------------------
(* Lemmas about the operators.                                             *)

LEMMA MinExists ==
    ASSUME NEW S, S \subseteq Nat, S # {}
    PROVE  MinOf(S) \in S /\ \A b \in S : MinOf(S) <= b
<1>1. PICK x \in S : \A y \in S : x <= y
  BY LeastExists
<1>2. QED
  BY <1>1 DEF MinOf

-----------------------------------------------------------------------------
(* What a reload lists.                                                    *)

\* Where the entries of this run begin.
Before == IF index = Unreadable THEN 0 ELSE Len(index)

\* Between the start of a run and the writing of the roster, every entry added is a
\* variant of an earlier round, whose file nothing touches any more.
Running == forge.pc \in {"clone", "mutate", "write", "roster"}
Past == 1..(IF forge.pc = "roster" THEN Len(Rounds) ELSE forge.round - 1)
Listed(i) ==
    \E r \in Past : /\ forge.roster[i].file = Rounds[r]
                    /\ Len(source[Rounds[r]]) = forge.roster[i].frames
ForgeType ==
    /\ forge = [pc |-> forge.pc, round |-> forge.round, roster |-> forge.roster]
    /\ source = [c \in Captures |-> source[c]]
    /\ IsSeq(index)
    /\ Running => forge.round \in 1..Len(Rounds) /\ IsSeq(forge.roster)
RosterInv ==
    Running => /\ Before <= Len(forge.roster)
               /\ \A i \in (Before + 1)..Len(forge.roster) : Listed(i)
ForgeInv == ForgeType /\ RosterInv

LEMMA ForgeInit == EitherInit => ForgeInv
<1> SUFFICES ASSUME EitherInit PROVE ForgeInv
  OBVIOUS
<1>1. index = <<>> /\ forge \in {Idle, Off}
  BY DEF EitherInit
<1>2. IsSeq(index)
  BY <1>1 DEF IsSeq
<1>3. /\ Idle = [pc |-> "idle", round |-> 0, roster |-> <<>>]
      /\ Off = [pc |-> "off", round |-> 0, roster |-> <<>>]
  BY DEF Idle, Off
<1>4. source = [c \in Captures |-> source[c]]
  BY Zenon DEF EitherInit, Init
<1>5. QED
  BY <1>1, <1>2, <1>3, <1>4 DEF ForgeInv, ForgeType, RosterInv, Running

\* A run's next round, or its roster.
LEMMA NextRoundFacts ==
    ASSUME NEW r \in 1..Len(Rounds), NEW pc, NEW roster
    PROVE  \E q : /\ NextRound([pc |-> pc, round |-> r, roster |-> roster]) = q
                  /\ q = [pc |-> q.pc, round |-> q.round, roster |-> roster]
                  /\ \/ q.pc = "roster" /\ q.round = r /\ r = Len(Rounds)
                     \/ q.pc = "clone" /\ q.round = r + 1 /\ r + 1 \in 1..Len(Rounds)
<1> DEFINE f == [pc |-> pc, round |-> r, roster |-> roster]
           p == [pc |-> "roster", round |-> r, roster |-> roster]
           n == [pc |-> "clone", round |-> r + 1, roster |-> roster]
<1>1. CASE r = Len(Rounds)
  <2>1. NextRound(f) = p
    BY <1>1 DEF NextRound
  <2>2. QED
    BY <1>1, <2>1
<1>2. CASE r # Len(Rounds)
  <2>1. NextRound(f) = n
    <3>1. NextRound(f) = [[f EXCEPT !.pc = "clone"] EXCEPT !.round = f.round + 1]
      BY <1>2, Zenon DEF NextRound
    <3>2. [f EXCEPT !.pc = "clone"] = [pc |-> "clone", round |-> r, roster |-> roster]
      OBVIOUS
    <3>3. QED
      BY <3>1, <3>2
  <2>2. r + 1 \in 1..Len(Rounds)
    BY <1>2, HostAssumption
  <2>3. QED
    BY <2>1, <2>2
<1>3. QED
  BY <1>1, <1>2

\* A round ends: unlisted if its file could not be written, listed if it is whole.
LEMMA RoundEnds ==
    ASSUME ForgeInv, forge.pc \in {"mutate", "write"}, UNCHANGED <<source, index>>,
           NEW roster, IsSeq(roster),
           \/ roster = forge.roster
           \/ /\ roster = Append(forge.roster, Listing)
              /\ Len(source[Variant]) = Len(forged),
           forge' = NextRound([pc |-> forge.pc, round |-> forge.round, roster |-> roster])
    PROVE  ForgeInv'
<1>1. /\ forge.round \in 1..Len(Rounds) /\ IsSeq(forge.roster) /\ Running
      /\ Len(Rounds) \in Nat
  BY HostAssumption DEF ForgeInv, ForgeType, Running
<1>2. /\ forge' = [pc |-> forge'.pc, round |-> forge'.round, roster |-> roster]
      /\ \/ forge'.pc = "roster" /\ forge'.round = forge.round /\ forge.round = Len(Rounds)
         \/ forge'.pc = "clone" /\ forge'.round = forge.round + 1
              /\ forge.round + 1 \in 1..Len(Rounds)
  BY <1>1, NextRoundFacts
<1>3. forge'.roster = roster
  BY <1>2
<1>4. ForgeType'
  BY <1>1, <1>2, <1>3 DEF ForgeInv, ForgeType, IsSeq
<1>5. Before' = Before
  BY DEF Before
<1>6. Past \subseteq Past' /\ forge.round \in Past'
  BY <1>1, <1>2 DEF Past, ForgeInv
<1>7. Before \in Nat /\ Before <= Len(forge.roster) /\ Len(forge.roster) \in Nat
  <2>1. Len(index) \in Nat /\ Len(forge.roster) \in Nat
    BY <1>1, LenProperties DEF ForgeInv, ForgeType, IsSeq
  <2>2. QED
    BY <1>1, <2>1 DEF Before, ForgeInv, RosterInv
<1>8. \A i \in (Before + 1)..Len(forge.roster) : Listed(i)
  BY <1>1 DEF ForgeInv, RosterInv
<1>9. CASE roster = forge.roster
  <2>1. \A i \in (Before + 1)..Len(forge.roster) : Listed(i)'
    BY <1>3, <1>6, <1>8, <1>9 DEF Listed
  <2>2. QED
    BY <1>3, <1>4, <1>5, <1>7, <1>9, <2>1 DEF ForgeInv, RosterInv
<1>10. CASE /\ roster = Append(forge.roster, Listing)
            /\ Len(source[Variant]) = Len(forged)
  <2>1. /\ Len(roster) = Len(forge.roster) + 1
        /\ roster[Len(forge.roster) + 1] = Listing
        /\ \A i \in 1..Len(forge.roster) : roster[i] = forge.roster[i]
    BY <1>1, <1>10, AppendIsSeq
  <2>2. Listing.file = Rounds[forge.round] /\ Listing.frames = Len(forged)
    BY DEF Listing, Variant
  <2>3. ASSUME NEW i \in (Before + 1)..Len(roster) PROVE Listed(i)'
    <3>1. CASE i \in 1..Len(forge.roster)
      <4>1. Listed(i) /\ roster[i] = forge.roster[i]
        BY <1>7, <1>8, <2>1, <2>3, <3>1
      <4>2. QED
        BY <1>3, <1>6, <4>1 DEF Listed
    <3>2. CASE i = Len(forge.roster) + 1
      <4>1. roster[i] = Listing
        BY <2>1, <3>2
      <4>2. QED
        BY <1>3, <1>6, <1>10, <2>2, <4>1 DEF Listed, Variant
    <3>3. QED
      BY <1>7, <2>1, <2>3, <3>1, <3>2
  <2>4. QED
    BY <1>3, <1>4, <1>5, <1>7, <2>1, <2>3 DEF ForgeInv, RosterInv
<1>11. QED
  BY <1>9, <1>10

\* What writes to the file of the current round leaves the listed ones alone.
LEMMA RoundWrites ==
    ASSUME ForgeInv, forge.pc \in {"mutate", "write"}, NEW frames,
           source' = [source EXCEPT ![Variant] = frames], UNCHANGED index,
           forge' = [forge EXCEPT !.pc = "write"]
    PROVE  ForgeInv'
<1>1. /\ forge.round \in 1..Len(Rounds) /\ IsSeq(forge.roster) /\ Running
      /\ forge = [pc |-> forge.pc, round |-> forge.round, roster |-> forge.roster]
      /\ source = [c \in Captures |-> source[c]] /\ Len(Rounds) \in Nat
  BY HostAssumption DEF ForgeInv, ForgeType, Running
<1>2. /\ forge' = [pc |-> "write", round |-> forge.round, roster |-> forge.roster]
      /\ forge'.round = forge.round /\ forge'.roster = forge.roster /\ forge'.pc = "write"
  BY <1>1
<1>3. ForgeType'
  BY <1>1, <1>2 DEF ForgeInv, ForgeType, IsSeq
<1>4. Before' = Before
  BY DEF Before
<1>5. Past' = Past /\ Past \subseteq 1..Len(Rounds) /\ forge.round \notin Past
  BY <1>1, <1>2 DEF Past
<1>6. \A r \in Past : source'[Rounds[r]] = source[Rounds[r]]
  <2> SUFFICES ASSUME NEW r \in Past PROVE source'[Rounds[r]] = source[Rounds[r]]
    OBVIOUS
  <2>1. Rounds[r] # Variant /\ Rounds[r] \in Captures
    BY <1>1, <1>5, HostAssumption DEF Variant
  <2>2. QED
    BY <1>1, <2>1
<1>7. \A i \in (Before + 1)..Len(forge.roster) : Listed(i)'
  BY <1>1, <1>2, <1>5, <1>6 DEF ForgeInv, RosterInv, Listed
<1>8. QED
  BY <1>1, <1>2, <1>3, <1>4, <1>7 DEF ForgeInv, RosterInv

\* A round goes on in memory.
LEMMA RoundGoesOn ==
    ASSUME ForgeInv, forge.pc \in {"clone", "mutate"}, UNCHANGED <<source, index>>,
           forge' = [forge EXCEPT !.pc = "mutate"]
    PROVE  ForgeInv'
<1>1. /\ forge.round \in 1..Len(Rounds) /\ IsSeq(forge.roster) /\ Running
      /\ forge = [pc |-> forge.pc, round |-> forge.round, roster |-> forge.roster]
  BY DEF ForgeInv, ForgeType, Running
<1>2. /\ forge' = [pc |-> "mutate", round |-> forge.round, roster |-> forge.roster]
      /\ forge'.round = forge.round /\ forge'.roster = forge.roster /\ forge'.pc = "mutate"
  BY <1>1
<1>3. ForgeType'
  BY <1>1, <1>2 DEF ForgeInv, ForgeType, IsSeq
<1>4. Before' = Before /\ Past' = Past
  BY <1>2 DEF Before, Past
<1>5. \A i \in (Before + 1)..Len(forge.roster) : Listed(i)'
  BY <1>1, <1>2, <1>4 DEF ForgeInv, RosterInv, Listed
<1>6. QED
  BY <1>1, <1>2, <1>3, <1>4, <1>5 DEF ForgeInv, RosterInv

LEMMA ForgingKeeps == ASSUME ForgeInv, Forging PROVE ForgeInv'
<1> DEFINE record == [pc |-> forge.pc, round |-> forge.round, roster |-> forge.roster]
<1>1. /\ forge = record /\ source = [c \in Captures |-> source[c]] /\ IsSeq(index)
      /\ Running => IsSeq(forge.roster) /\ forge.round \in 1..Len(Rounds)
  BY DEF ForgeInv, ForgeType
<1>2. Idle = [pc |-> "idle", round |-> 0, roster |-> <<>>]
  BY DEF Idle
<1>3. IsSeq(Unreadable) /\ IsSeq(<<>>)
  BY DEF IsSeq, Unreadable, ToSet
<1>4. CASE Begin
  <2> DEFINE roster == IF index = Unreadable THEN <<>> ELSE index
  <2>1. UNCHANGED <<source, index>>
    BY <1>4 DEF Begin
  <2>2. forge' = [pc |-> "clone", round |-> 1, roster |-> roster]
    BY <1>4, Zenon DEF Begin
  <2>3. IsSeq(roster) /\ Len(roster) = Before /\ Before \in Nat
    <3>1. IsSeq(roster)
      BY <1>1, <1>3
    <3>2. Len(roster) = Before
      BY DEF Before
    <3>3. QED
      BY <3>1, <3>2, LenProperties DEF IsSeq
  <2>4. Before' = Before
    BY <2>1 DEF Before
  <2> HIDE DEF roster
  <2>5. 1 \in 1..Len(Rounds)
    BY ReloadAssumption, HostAssumption
  <2>6. forge'.roster = roster /\ forge'.round = 1 /\ forge'.pc = "clone"
    BY <2>2
  <2>7. ForgeType'
    BY <1>1, <2>1, <2>2, <2>3, <2>5, <2>6 DEF ForgeType, IsSeq
  <2>8. QED
    BY <2>3, <2>4, <2>6, <2>7 DEF ForgeInv, RosterInv
<1>5. CASE Create
  BY <1>5, RoundWrites DEF Create, Mutated
<1>6. CASE WriteFrame
  <2>1. forge.pc = "write" /\ UNCHANGED <<forge, index>>
    BY <1>6 DEF WriteFrame
  <2>2. PICK frames : source' = [source EXCEPT ![Variant] = frames]
    BY <1>6, Zenon DEF WriteFrame
  <2>3. forge' = [forge EXCEPT !.pc = "write"]
    BY <1>1, <2>1
  <2>4. QED
    BY <2>1, <2>2, <2>3, RoundWrites
<1>7. CASE WriteFails
  <2>1. /\ forge.pc \in {"mutate", "write"} /\ UNCHANGED <<source, index>>
        /\ forge' = NextRound(forge)
    BY <1>7 DEF WriteFails, Mutated
  <2>2. IsSeq(forge.roster) /\ forge' = NextRound(record)
    BY <1>1, <2>1 DEF Running
  <2>3. QED
    BY <2>1, <2>2, RoundEnds
<1>8. CASE Written
  <2> DEFINE roster == Append(forge.roster, Listing)
  <2>1. /\ forge.pc = "write" /\ UNCHANGED <<source, index>> /\ source[Variant] = forged
        /\ forge' = NextRound([forge EXCEPT !.roster = roster])
    BY <1>8, Zenon DEF Written
  <2>2. IsSeq(forge.roster)
    BY <1>1, <2>1 DEF Running
  <2>3. IsSeq(roster)
    BY <2>2, AppendIsSeq
  <2>4. [forge EXCEPT !.roster = roster]
          = [pc |-> forge.pc, round |-> forge.round, roster |-> roster]
    <3> HIDE DEF roster
    <3>1. QED
      BY <1>1
  <2>5. QED
    BY <2>1, <2>3, <2>4, RoundEnds
<1>9. CASE Finish
  <2>1. /\ index' \in {forge.roster, index, Unreadable} /\ forge' = Idle /\ UNCHANGED source
        /\ forge.pc = "roster"
    BY <1>9 DEF Finish
  <2>2. IsSeq(index')
    BY <1>1, <1>3, <2>1 DEF Running
  <2>3. QED
    BY <1>1, <1>2, <2>1, <2>2 DEF ForgeInv, ForgeType, RosterInv, Running, IsSeq
<1>10. CASE Crash
  <2>1. index' \in {index, Unreadable} /\ forge' = Idle /\ UNCHANGED source
    BY <1>10 DEF Crash
  <2>2. IsSeq(index')
    BY <1>1, <1>3, <2>1
  <2>3. QED
    BY <1>1, <1>2, <2>1, <2>2 DEF ForgeInv, ForgeType, RosterInv, Running, IsSeq
<1>11. CASE Clone
  BY <1>11, RoundGoesOn DEF Clone
<1>12. CASE Mutate
  <2>1. forge.pc = "mutate" /\ UNCHANGED <<source, forge, index>>
    BY <1>12 DEF Mutate
  <2>2. forge' = [forge EXCEPT !.pc = "mutate"]
    BY <1>1, <2>1
  <2>3. QED
    BY <2>1, <2>2, RoundGoesOn
<1>13. QED
  BY <1>4, <1>5, <1>6, <1>7, <1>8, <1>9, <1>10, <1>11, <1>12 DEF Forging

\* The daemon runs on hosts where no reload does.
LEMMA DaemonForges == ASSUME ForgeInv, Daemon PROVE ForgeInv'
<1>1. forge.pc = "off" /\ UNCHANGED <<forge, forged, mapper, index>>
  BY DEF Daemon, Off, Idle
<1>2. source' = [c \in Captures |-> source'[c]]
  <2>1. source = [c \in Captures |-> source[c]]
    BY DEF ForgeInv, ForgeType
  <2>2. UNCHANGED source \/ \E c \in Captures : \E frames : source' = [source EXCEPT ![c] = frames]
    <3>1. CASE Copy
      BY <3>1, CapturesAssumption, Zenon DEF Copy
    <3>2. CASE Start \/ Stop \/ Reset \/ Loop \/ Second
      BY <3>2 DEF Start, Stop, Reset, Loop, Hit, Look, Miss, Tick, Second, written
    <3>3. QED
      BY <3>1, <3>2 DEF Daemon, Next
  <2>3. QED
    BY <2>1, <2>2
<1>3. QED
  BY <1>1, <1>2 DEF ForgeInv, ForgeType, RosterInv, Running, IsSeq

LEMMA ForgeStep == ForgeInv /\ [Daemon \/ Forge]_hostVars => ForgeInv'
<1> SUFFICES ASSUME ForgeInv, [Daemon \/ Forge]_hostVars PROVE ForgeInv'
  OBVIOUS
<1>1. CASE Daemon
  BY <1>1, DaemonForges
<1>2. CASE Forge
  BY <1>2, ForgingKeeps DEF Forge
<1>3. CASE UNCHANGED hostVars
  BY <1>3 DEF hostVars, vars, written, ForgeInv, ForgeType, RosterInv, Running, Before, Past, Listed, IsSeq
<1>4. QED
  BY <1>1, <1>2, <1>3

-----------------------------------------------------------------------------
(* What is on disk.                                                        *)

Prefix(s, t) ==
    IsSeq(s) /\ Len(s) <= Len(t) /\ \A i \in 1..Len(s) : s[i] = t[i]

\* Where the daemon runs, every capture has the first frames of a version of it.
SourceInv ==
    /\ source = [c \in Captures |-> source[c]]
    /\ \A c \in Captures :
        IsSeq(source[c]) /\ (forge = Off => \E v \in Content[c] : Prefix(source[c], v))

LEMMA ContentIsSeq == ASSUME NEW c \in Captures, NEW v \in Content[c] PROVE IsSeq(v)
  BY CapturesAssumption DEF IsSeq

LEMMA EmptyIsSeq == IsSeq(<<>>) /\ Len(<<>>) = 0 /\ ToSet(<<>>) = {}
  BY DEF IsSeq, ToSet

LEMMA PrefixToSet ==
    ASSUME NEW t, IsSeq(t), NEW s, Prefix(s, t)
    PROVE  ToSet(s) \subseteq ToSet(t)
<1>1. /\ Len(s) \in Nat /\ ToSet(s) = {s[i] : i \in 1..Len(s)}
      /\ Len(t) \in Nat /\ ToSet(t) = {t[i] : i \in 1..Len(t)}
  BY SeqFacts DEF Prefix
<1>2. QED
  BY <1>1 DEF Prefix

LEMMA FirstFrames ==
    ASSUME NEW t, IsSeq(t), NEW n \in 0..Len(t)
    PROVE  Prefix(SubSeq(t, 1, n), t)
<1>1. Len(t) \in Nat /\ t \in Seq(ToSet(t))
  BY SeqFacts DEF IsSeq
<1> DEFINE s == SubSeq(t, 1, n)
<1>2. s \in Seq(ToSet(t)) /\ Len(s) = n + 1 - 1 /\ \A j \in 1..(n + 1 - 1) : s[j] = t[1 - 1 + j]
  <2>1. 1 \in Nat \ {0} /\ 1 <= n + 1
    BY <1>1
  <2>2. QED
    BY <1>1, <2>1, SubSeqFacts
<1>3. IsSeq(s)
  BY <1>2, SeqIsSeq
<1> HIDE DEF s
<1>4. Len(s) = n /\ \A j \in 1..n : s[j] = t[j]
  <2>1. n \in Nat /\ n + 1 - 1 = n /\ \A j \in 1..n : 1 - 1 + j = j
    BY <1>1
  <2>2. QED
    BY <1>2, <2>1
<1>5. QED
  BY <1>1, <1>3, <1>4 DEF Prefix, s

LEMMA SourceInit == EitherInit => SourceInv
<1> SUFFICES ASSUME EitherInit PROVE SourceInv
  OBVIOUS
<1>1. /\ source \in [Captures -> {<<>>} \cup UNION {Content[c] : c \in Captures}]
      /\ \A c \in Captures : source[c] \in IF c \in Arriving THEN {<<>>} ELSE Content[c]
      /\ \A c \in Captures : Content[c] # {}
  BY CapturesAssumption DEF EitherInit, Init
<1>2. ASSUME NEW c \in Captures
      PROVE  IsSeq(source[c]) /\ \E v \in Content[c] : Prefix(source[c], v)
  <2>1. \A v \in Content[c] : IsSeq(v) /\ Len(v) \in Nat
    BY ContentIsSeq, SeqFacts
  <2>2. CASE source[c] = <<>>
    BY <1>1, <2>1, <2>2, EmptyIsSeq DEF Prefix
  <2>3. CASE source[c] \in Content[c]
    BY <2>1, <2>3 DEF Prefix
  <2>4. QED
    BY <1>1, <2>2, <2>3
<1>3. source = [c \in Captures |-> source[c]]
  BY <1>1
<1>4. QED
  BY <1>2, <1>3 DEF SourceInv

\* A host of one kind stays one.
LEMMA ForgingStays == ASSUME ForgeInv, Forging PROVE forge'.pc # "off"
<1> DEFINE record == [pc |-> forge.pc, round |-> forge.round, roster |-> forge.roster]
<1>1. /\ forge = record
      /\ Running => forge.round \in 1..Len(Rounds)
  BY DEF ForgeInv, ForgeType
<1>2. Idle.pc = "idle"
  BY DEF Idle
<1>3. ASSUME forge.pc \in {"mutate", "write"}, NEW roster,
             forge' = NextRound([pc |-> forge.pc, round |-> forge.round, roster |-> roster])
      PROVE  forge'.pc # "off"
  BY <1>1, <1>3, NextRoundFacts DEF Running
<1>4. CASE Begin
  <2>1. \E roster : forge' = [pc |-> "clone", round |-> 1, roster |-> roster]
    BY <1>4, Zenon DEF Begin
  <2>2. QED
    BY <2>1
<1>5. CASE Clone \/ Create
  <2>1. \E pc \in {"mutate", "write"} : forge' = [record EXCEPT !.pc = pc]
    BY <1>1, <1>5 DEF Clone, Create
  <2>2. QED
    BY <2>1
<1>6. CASE Mutate \/ WriteFrame
  BY <1>6 DEF Mutate, WriteFrame
<1>7. CASE WriteFails
  <2>1. forge.pc \in {"mutate", "write"} /\ forge' = NextRound(record)
    BY <1>1, <1>7 DEF WriteFails, Mutated
  <2>2. QED
    BY <1>3, <2>1
<1>8. CASE Written
  <2> DEFINE roster == Append(forge.roster, Listing)
  <2>1. forge.pc = "write" /\ forge' = NextRound([record EXCEPT !.roster = roster])
    BY <1>1, <1>8, Zenon DEF Written
  <2> HIDE DEF roster
  <2>2. [record EXCEPT !.roster = roster]
          = [pc |-> forge.pc, round |-> forge.round, roster |-> roster]
    OBVIOUS
  <2>3. QED
    BY <1>3, <2>1, <2>2
<1>9. CASE Finish \/ Crash
  BY <1>2, <1>9 DEF Finish, Crash
<1>10. QED
  BY <1>4, <1>5, <1>6, <1>7, <1>8, <1>9 DEF Forging

LEMMA SourceStep == ForgeInv /\ SourceInv /\ [Daemon \/ Forge]_hostVars => SourceInv'
<1> SUFFICES ASSUME ForgeInv, SourceInv, [Daemon \/ Forge]_hostVars PROVE SourceInv'
  OBVIOUS
<1> USE DEF SourceInv
<1>1. /\ source = [c \in Captures |-> source[c]]
      /\ \A c \in Captures : IsSeq(source[c])
  OBVIOUS
<1>2. Off.pc = "off"
  BY DEF Off, Idle
<1>3. CASE Copy /\ forge' = forge
  <2>1. PICK c \in Arriving : \E v \in Content[c] : \E n \in 0..Len(v) :
          source' = [source EXCEPT ![c] = SubSeq(v, 1, n)]
    BY <1>3, Zenon DEF Copy
  <2>2. c \in Captures
    BY CapturesAssumption
  <2>7. PICK v \in Content[c] : \E n \in 0..Len(v) :
          source' = [source EXCEPT ![c] = SubSeq(v, 1, n)]
    BY <2>1
  <2>8. PICK n \in 0..Len(v) : source' = [source EXCEPT ![c] = SubSeq(v, 1, n)]
    BY <2>7
  <2>3. IsSeq(v)
    BY <2>2, ContentIsSeq
  <2> DEFINE s == SubSeq(v, 1, n)
  <2>4. Prefix(s, v)
    BY <2>3, FirstFrames
  <2> HIDE DEF s
  <2>5. source' = [source EXCEPT ![c] = s]
    BY <2>8 DEF s
  <2>6. QED
    BY <1>1, <1>3, <2>2, <2>4, <2>5 DEF IsSeq, Prefix
<1>4. CASE forge' = forge /\ (Start \/ Stop \/ Reset \/ Loop \/ Second)
  BY <1>4 DEF Start, Stop, Reset, Loop, Hit, Look, Miss, Tick, Second, written, IsSeq, Prefix
<1>5. CASE Forge
  <2>1. Forging
    BY <1>5 DEF Forge
  <2>2. forge' # Off
    BY <1>2, <2>1, ForgingStays
  <2>3. CASE Create
    <3>1. source' = [source EXCEPT ![Variant] = <<>>]
      BY <2>3 DEF Create
    <3>2. QED
      BY <1>1, <2>2, <3>1, EmptyIsSeq DEF IsSeq
  <2>4. CASE WriteFrame
    <3> DEFINE s == Append(source[Variant], forged[Len(source[Variant]) + 1])
    <3>1. source' = [source EXCEPT ![Variant] = s]
      BY <2>4, Zenon DEF WriteFrame
    <3>2. Variant \in Captures => IsSeq(s)
      BY <1>1, AppendIsSeq
    <3> HIDE DEF s
    <3>3. QED
      BY <1>1, <2>2, <3>1, <3>2 DEF IsSeq
  <2>5. CASE Begin \/ Clone \/ Mutate \/ WriteFails \/ Written \/ Finish \/ Crash
    BY <2>2, <2>5 DEF Begin, Clone, Mutate, WriteFails, Written, Finish, Crash, IsSeq
  <2>6. QED
    BY <2>1, <2>3, <2>4, <2>5 DEF Forging
<1>6. CASE UNCHANGED hostVars
  BY <1>6 DEF hostVars, vars, written, IsSeq, Prefix
<1>7. QED
  BY <1>3, <1>4, <1>5, <1>6 DEF Daemon, Next

-----------------------------------------------------------------------------
(* Moving and dropping frames.                                             *)

LEMMA CleanedFacts ==
    ASSUME NEW cap, IsSeq(cap), NEW map
    PROVE  /\ IsSeq(Cleaned(cap, map))
           /\ \A f \in ToSet(Cleaned(cap, map)) :
                f \in ToSet(cap) /\ Coherent(f, {map[a] : a \in DOMAIN map})
                /\ ~Leaks(f, DOMAIN map)
<1> DEFINE T == {f \in ToSet(cap) :
                   Coherent(f, {map[a] : a \in DOMAIN map}) /\ ~Leaks(f, DOMAIN map)}
<1>1. Cleaned(cap, map) = Kept(cap, T)
  BY DEF Cleaned
<1>2. IsSeq(Kept(cap, T)) /\ ToSet(Kept(cap, T)) = ToSet(cap) \cap T
  BY KeptFacts, Zenon
<1>3. QED
  BY <1>1, <1>2, Zenon

LEMMA FittingFacts ==
    ASSUME NEW cap, IsSeq(cap), NEW max
    PROVE  IsSeq(Fitting(cap, max)) /\ ToSet(Fitting(cap, max)) \subseteq ToSet(cap)
<1> DEFINE T == {f \in ToSet(cap) : f.len <= max}
<1>1. IsSeq(Kept(cap, T)) /\ ToSet(Kept(cap, T)) = ToSet(cap) \cap T
  BY KeptFacts, Zenon
<1>2. QED
  BY <1>1, Zenon DEF Fitting

LEMMA ThinnedFacts ==
    ASSUME NEW cap, IsSeq(cap)
    PROVE  IsSeq(Thinned(cap)) /\ ToSet(Thinned(cap)) \subseteq ToSet(cap)
<1> DEFINE fit == Fitting(cap, MaxFrame)
           T == {f \in ToSet(fit) : f.kind # "arp"}
<1>1. IsSeq(fit) /\ ToSet(fit) \subseteq ToSet(cap)
  BY FittingFacts
<1>2. Thinned(cap) = IF KeepArp THEN fit ELSE WithoutArp(fit)
  BY DEF Thinned
<1> HIDE DEF fit
<1>3. WithoutArp(fit) = Kept(fit, T)
  BY Zenon DEF WithoutArp
<1> HIDE DEF T
<1>4. IsSeq(Kept(fit, T)) /\ ToSet(Kept(fit, T)) = ToSet(fit) \cap T
  BY <1>1, KeptFacts, Zenon
<1>5. QED
  BY <1>1, <1>2, <1>3, <1>4

\* The frame f, moved.
Rewritten(f, map, macs) ==
    CASE f.kind = "ipv4" -> RewriteIp(f, map, macs)
      [] f.kind = "arp" -> RewriteArp(f, map, macs)
      [] OTHER -> f

LEMMA AppliedFacts ==
    ASSUME NEW cap, IsSeq(cap), NEW map, NEW macs
    PROVE  /\ IsSeq(ApplyHostMap(cap, map, macs))
           /\ \A f \in ToSet(ApplyHostMap(cap, map, macs)) :
                \E g \in ToSet(cap) : f = Rewritten(g, map, macs)
<1> DEFINE p == ApplyHostMap(cap, map, macs)
           n == Len(cap)
<1>1. n \in Nat /\ DOMAIN cap = 1..n /\ ToSet(cap) = {cap[i] : i \in 1..n}
  BY SeqFacts
<1>2. p = [i \in 1..n |-> Rewritten(cap[i], map, macs)]
  BY <1>1 DEF ApplyHostMap, Rewritten
<1> HIDE DEF p, n
<1>3. IsSeq(p) /\ ToSet(p) = {p[i] : i \in 1..n}
  <2>1. p = [i \in 1..n |-> p[i]]
    BY <1>2
  <2>2. QED
    BY <1>1, <2>1, FunctionIsSeq
<1>4. \A f \in ToSet(p) : \E i \in 1..n : f = Rewritten(cap[i], map, macs)
  BY <1>2, <1>3
<1>5. QED
  BY <1>1, <1>3, <1>4 DEF p

-----------------------------------------------------------------------------
(* The identities of a variant.                                            *)

\* f is g, but for what moves: it still packs the same headers.
SameIds(f, g) ==
    /\ {"kind", "svc", "ids", "ts"} \subseteq DOMAIN f
    /\ f.kind = g.kind /\ f.svc = g.svc /\ f.ids = g.ids /\ f.ts = g.ts

LEMMA RewrittenIds ==
    ASSUME NEW g, {"kind", "svc", "ids", "ts"} \subseteq DOMAIN g, NEW map, NEW macs
    PROVE  SameIds(Rewritten(g, map, macs), g)
<1>1. SameIds(RewriteIp(g, map, macs), g)
  <2>1. PICK a, b, c, d : RewriteIp(g, map, macs)
                            = [g EXCEPT !.src = a, !.dst = b, !.smac = c, !.dmac = d]
    BY Zenon DEF RewriteIp
  <2>2. QED
    BY <2>1 DEF SameIds
<1>2. SameIds(RewriteArp(g, map, macs), g)
  <2>1. PICK a, b, c, d, e, h :
          RewriteArp(g, map, macs)
            = [g EXCEPT !.src = a, !.dst = b, !.sha = c, !.smac = d, !.tha = e, !.dmac = h]
    BY Zenon DEF RewriteArp
  <2>2. QED
    BY <2>1 DEF SameIds
<1>3. SameIds(g, g)
  BY DEF SameIds
<1>4. QED
  BY <1>1, <1>2, <1>3 DEF Rewritten

\* What a round forges from: the original, moved or not, or a part of it.
LEMMA MovedIds ==
    ASSUME NEW fresh, NEW f \in ToSet(RemapCapture(Original, fresh))
    PROVE  \E g \in ToSet(Original) : SameIds(f, g)
<1> DEFINE map == RandomMap(Original, fresh)
<1>1. IsSeq(Original)
  BY ReloadAssumption DEF IsSeq
<1>2. f \in ToSet(ApplyHostMap(Original, map, <<>>))
  BY <1>1, AppliedFacts, CleanedFacts DEF RemapCapture
<1>3. PICK g \in ToSet(Original) : f = Rewritten(g, map, <<>>)
  BY <1>1, <1>2, AppliedFacts
<1>4. {"kind", "svc", "ids", "ts"} \subseteq DOMAIN g
  <2>1. DOMAIN g = DOMAIN Blank
    BY ReloadAssumption
  <2>2. QED
    BY <2>1 DEF Blank
<1> HIDE DEF map
<1>5. QED
  BY <1>3, <1>4, RewrittenIds

LEMMA OriginalIds == ASSUME NEW g \in ToSet(Original) PROVE SameIds(g, g)
<1>1. DOMAIN g = DOMAIN Blank
  BY ReloadAssumption
<1>2. QED
  BY <1>1 DEF Blank, SameIds

LEMMA SameWalk ==
    ASSUME NEW f, NEW g, SameIds(f, g)
    PROVE  Walked(f) = Walked(g)
  BY DEF SameIds, Walked, Matches

\* The identities of a frame.
IdsOf(f) == {Key(f.ids[i]) : i \in Walked(f)}

LEMMA SeqFinite == ASSUME NEW s, IsSeq(s) PROVE IsFiniteSet(ToSet(s)) /\ IsFiniteSet(DOMAIN s)
<1> DEFINE n == Len(s)
<1>1. n \in Nat /\ DOMAIN s = 1..n /\ ToSet(s) = {s[i] : i \in 1..n}
  BY SeqFacts
<1> HIDE DEF n
<1>2. IsFiniteSet(1..n)
  BY <1>1, FS_Interval
<1>3. IsFiniteSet({s[i] : i \in 1..n})
  BY <1>1, <1>2, ImageFinite
<1>4. QED
  BY <1>1, <1>2, <1>3

LEMMA IdentitiesFinite == IsFiniteSet(Identities(Original))
<1> DEFINE Of == [f \in ToSet(Original) |-> IdsOf(f)]
           S == {Of[f] : f \in ToSet(Original)}
<1>1. IsFiniteSet(ToSet(Original))
  BY ReloadAssumption, SeqFinite DEF IsSeq
<1>2. IsFiniteSet(S)
  <2>1. DOMAIN Of = ToSet(Original)
    OBVIOUS
  <2> HIDE DEF Of
  <2>2. QED
    BY <1>1, <2>1, ImageFinite
<1>3. ASSUME NEW f \in ToSet(Original) PROVE IsFiniteSet(Of[f])
  <2> DEFINE K == [i \in Walked(f) |-> Key(f.ids[i])]
  <2>1. IsSeq(f.ids)
    BY ReloadAssumption DEF IsSeq
  <2>2. IsFiniteSet(DOMAIN f.ids)
    BY <2>1, SeqFinite
  <2>3. Walked(f) \subseteq DOMAIN f.ids
    BY DEF Walked
  <2>4. IsFiniteSet(Walked(f))
    BY <2>2, <2>3, FS_Subset
  <2>5. IsFiniteSet({K[i] : i \in Walked(f)})
    <3>1. DOMAIN K = Walked(f)
      OBVIOUS
    <3> HIDE DEF K
    <3>2. QED
      BY <2>4, <3>1, ImageFinite
  <2>6. Of[f] = {K[i] : i \in Walked(f)}
    BY DEF IdsOf
  <2>7. QED
    BY <2>5, <2>6
<1>4. Identities(Original) = UNION S
  BY DEF Identities, IdsOf
<1> HIDE DEF Of
<1>5. QED
  BY <1>2, <1>3, <1>4, FS_UNION

\* A draw gives a used value only where all draws may do so.
LEMMA DrawnFacts ==
    ASSUME NEW used \in SUBSET Ids, NEW d \in Draws(used)
    PROVE  /\ Drawn(d, used) \in Ids
           /\ Drawn(d, used) \in used => 2 * Cardinality(used) > Cardinality(Ids)
<1> DEFINE F == {i \in 1..MaxDraws : d[i] \notin used}
           S == F \cup {MaxDraws}
<1>1. /\ d \in [1..MaxDraws -> Ids]
      /\ 2 * Cardinality(used) <= Cardinality(Ids) => F # {}
  BY DEF Draws
<1>2. MaxDraws \in 1..MaxDraws /\ MaxDraws \in Nat
  BY ReloadAssumption
<1>3. F \subseteq 1..MaxDraws /\ \A i \in F : d[i] \notin used
  OBVIOUS
<1>4. Drawn(d, used) = d[MinOf(S)]
  BY DEF Drawn
<1> HIDE DEF F
<1>5. MinOf(S) \in S /\ \A b \in S : MinOf(S) <= b
  <2>1. S \subseteq Nat /\ S # {}
    BY <1>2, <1>3
  <2>2. QED
    BY <2>1, MinExists
<1>6. MinOf(S) \in 1..MaxDraws
  BY <1>2, <1>3, <1>5
<1>7. F # {} => MinOf(S) \in F
  <2> SUFFICES ASSUME NEW i \in F PROVE MinOf(S) \in F
    OBVIOUS
  <2>1. MinOf(S) <= i /\ i <= MaxDraws /\ i \in Nat
    BY <1>2, <1>3, <1>5
  <2>2. MinOf(S) = MaxDraws => i = MaxDraws
    BY <1>2, <2>1
  <2>3. QED
    BY <1>5, <2>2
<1>8. Cardinality(used) \in Nat /\ Cardinality(Ids) \in Nat
  BY ReloadAssumption, FS_Subset, FS_CardinalityType
<1>9. QED
  BY <1>1, <1>3, <1>4, <1>6, <1>7, <1>8

\* A function has no more values than arguments.
Values(f, K) == {f[k] : k \in K}

LEMMA ValuesFew ==
    ASSUME NEW K, IsFiniteSet(K), NEW f
    PROVE  IsFiniteSet(Values(f, K)) /\ Cardinality(Values(f, K)) <= Cardinality(K)
<1> DEFINE g == [k \in K |-> f[k]]
<1>1. g \in Surjection(K, Values(f, K))
  BY DEF Surjection, Values
<1>2. QED
  BY <1>1, FS_Surjection

\* The tables of a mapper agree, and two identities share a value only in a crowd.
MapOK(m) ==
    /\ m = [todo |-> m.todo, fwd |-> m.fwd, used |-> m.used]
    /\ DOMAIN m.fwd \subseteq Identities(Original)
    /\ \A k \in DOMAIN m.fwd : m.fwd[k] \in Ids /\ <<k[1], m.fwd[k]>> \in m.used
    /\ \A u \in m.used : \E k \in DOMAIN m.fwd : u = <<k[1], m.fwd[k]>>
    /\ \A k, l \in DOMAIN m.fwd :
         k # l /\ k[1] = l[1] /\ m.fwd[k] = m.fwd[l] => Crowded(Identities(Original), k[1])

\* A new identity gets a value of another one only in a crowd.
LEMMA MappedApart ==
    ASSUME NEW m, MapOK(m), NEW k \in Identities(Original), k \notin DOMAIN m.fwd,
           NEW d \in Draws(UsedIn(m, k[1])), NEW l \in DOMAIN m.fwd, l[1] = k[1],
           m.fwd[l] = Drawn(d, UsedIn(m, k[1]))
    PROVE  Crowded(Identities(Original), k[1])
<1> DEFINE U == UsedIn(m, k[1])
           K == {x \in DOMAIN m.fwd : x[1] = k[1]}
           B == {x \in Identities(Original) : x[1] = k[1]}
<1>1. U \in SUBSET Ids /\ m.fwd[l] \in U
  BY DEF UsedIn, MapOK
<1>2. U \in SUBSET Values(m.fwd, K)
  <2> SUFFICES ASSUME NEW u \in U PROVE \E x \in K : u = m.fwd[x]
    BY DEF Values
  <2>1. <<k[1], u>> \in m.used
    BY DEF UsedIn
  <2>2. PICK x \in DOMAIN m.fwd : <<k[1], u>> = <<x[1], m.fwd[x]>>
    BY <2>1 DEF MapOK
  <2>3. QED
    BY <2>2
<1>3. 2 * Cardinality(U) > Cardinality(Ids)
  BY <1>1, DrawnFacts
<1>4. /\ B \in SUBSET Identities(Original) /\ K \cup {k} \in SUBSET B
      /\ K \in SUBSET B /\ k \notin K
  BY DEF MapOK
<1> HIDE DEF U, K
<1>5. IsFiniteSet(B)
  BY <1>4, IdentitiesFinite, FS_Subset
<1>6. IsFiniteSet(K) /\ Cardinality(K \cup {k}) <= Cardinality(B)
  BY <1>4, <1>5, FS_Subset
<1>7. Cardinality(K \cup {k}) = Cardinality(K) + 1
  BY <1>4, <1>6, FS_AddElement
<1>8. Cardinality(U) <= Cardinality(K) /\ Cardinality(U) \in Nat /\ Cardinality(K) \in Nat
  <2>1. /\ IsFiniteSet(Values(m.fwd, K))
        /\ Cardinality(Values(m.fwd, K)) <= Cardinality(K)
    BY <1>6, ValuesFew
  <2>2. IsFiniteSet(U) /\ Cardinality(U) <= Cardinality(Values(m.fwd, K))
    BY <1>2, <2>1, FS_Subset
  <2>3. /\ Cardinality(U) \in Nat /\ Cardinality(K) \in Nat
        /\ Cardinality(Values(m.fwd, K)) \in Nat
    BY <1>6, <2>1, <2>2, FS_CardinalityType
  <2>4. QED
    BY <2>1, <2>2, <2>3
<1>9. Cardinality(B) \in Nat /\ Cardinality(Ids) \in Nat
  BY <1>5, ReloadAssumption, FS_CardinalityType
<1>10. Crowded(Identities(Original), k[1]) <=> 2 * (Cardinality(B) - 1) > Cardinality(Ids)
  BY DEF Crowded
<1> HIDE DEF B
<1>11. QED
  BY <1>3, <1>6, <1>7, <1>8, <1>9, <1>10

\* An identity that has a value keeps it.
LEMMA MapRangeFacts ==
    ASSUME NEW m, MapOK(m), NEW k \in Identities(Original), NEW n \in MapRange(m, k)
    PROVE  /\ MapOK(n) /\ n.todo = m.todo /\ k \in DOMAIN n.fwd
           /\ \A l \in DOMAIN m.fwd : l \in DOMAIN n.fwd /\ n.fwd[l] = m.fwd[l]
<1>1. CASE k \in DOMAIN m.fwd
  BY <1>1 DEF MapRange
<1>2. CASE k \notin DOMAIN m.fwd
  <2>14. PICK v \in {Drawn(d, UsedIn(m, k[1])) : d \in Draws(UsedIn(m, k[1]))} :
           n = [m EXCEPT !.fwd = [l \in DOMAIN @ \cup {k} |-> IF l = k THEN v ELSE @[l]],
                         !.used = @ \cup {<<k[1], v>>}]
    BY <1>2, Zenon DEF MapRange
  <2>1. PICK d \in Draws(UsedIn(m, k[1])) : v = Drawn(d, UsedIn(m, k[1]))
    BY <2>14
  <2> DEFINE fwd == [l \in DOMAIN m.fwd \cup {k} |-> IF l = k THEN v ELSE m.fwd[l]]
  <2>2. v \in Ids
    BY <2>1, DrawnFacts DEF UsedIn
  <2>3. \A l \in DOMAIN m.fwd : l[1] = k[1] /\ m.fwd[l] = v => Crowded(Identities(Original), k[1])
    BY <1>2, <2>1, MappedApart
  <2>4. m = [todo |-> m.todo, fwd |-> m.fwd, used |-> m.used]
    BY DEF MapOK
  <2>5. n = [m EXCEPT !.fwd = fwd, !.used = m.used \cup {<<k[1], v>>}]
    BY <2>14
  <2>6. /\ DOMAIN fwd = DOMAIN m.fwd \cup {k} /\ fwd[k] = v
        /\ \A l \in DOMAIN m.fwd : fwd[l] = m.fwd[l]
    BY <1>2
  <2> HIDE DEF fwd
  <2>7. /\ n = [todo |-> m.todo, fwd |-> fwd, used |-> m.used \cup {<<k[1], v>>}]
        /\ n.todo = m.todo /\ n.fwd = fwd /\ n.used = m.used \cup {<<k[1], v>>}
    BY <2>4, <2>5
  <2>8. DOMAIN n.fwd \subseteq Identities(Original)
    BY <2>6, <2>7 DEF MapOK
  <2>9. \A x \in DOMAIN n.fwd : n.fwd[x] \in Ids /\ <<x[1], n.fwd[x]>> \in n.used
    BY <2>2, <2>6, <2>7 DEF MapOK
  <2>10. \A u \in n.used : \E x \in DOMAIN n.fwd : u = <<x[1], n.fwd[x]>>
    BY <2>6, <2>7 DEF MapOK
  <2>11. ASSUME NEW x \in DOMAIN n.fwd, NEW y \in DOMAIN n.fwd,
                x # y, x[1] = y[1], n.fwd[x] = n.fwd[y]
         PROVE  Crowded(Identities(Original), x[1])
    <3>1. CASE x = k
      BY <2>3, <2>6, <2>7, <2>11, <3>1
    <3>2. CASE y = k
      BY <2>3, <2>6, <2>7, <2>11, <3>2
    <3>3. CASE x # k /\ y # k
      BY <2>6, <2>7, <2>11, <3>3 DEF MapOK
    <3>4. QED
      BY <3>1, <3>2, <3>3
  <2>12. MapOK(n)
    BY <2>7, <2>8, <2>9, <2>10, <2>11 DEF MapOK
  <2>13. QED
    BY <2>6, <2>7, <2>12
<1>3. QED
  BY <1>1, <1>2

\* f has the headers of g, some of them with other identities.
Packs(f, g) ==
    /\ {"kind", "svc", "ids", "ts"} \subseteq DOMAIN f
    /\ f.kind = g.kind /\ f.svc = g.svc /\ f.ts = g.ts /\ DOMAIN f.ids = DOMAIN g.ids
    /\ \A j \in DOMAIN g.ids :
        /\ DOMAIN f.ids[j] = {"field", "id", "starts"}
        /\ f.ids[j].field = g.ids[j].field /\ f.ids[j].starts = g.ids[j].starts

Origin(f) == CHOOSE g \in ToSet(Original) : g.ts = f.ts

LEMMA OriginFacts ==
    ASSUME NEW f, NEW g \in ToSet(Original), SameIds(f, g)
    PROVE  Origin(f) = g /\ Packs(f, g)
<1>1. \E o \in ToSet(Original) : o.ts = f.ts
  BY DEF SameIds
<1>2. Origin(f) \in ToSet(Original) /\ Origin(f).ts = f.ts
  BY <1>1 DEF Origin
<1>3. Origin(f) = g
  BY <1>2, ReloadAssumption DEF SameIds
<1>4. \A j \in DOMAIN g.ids : DOMAIN g.ids[j] = {"field", "id", "starts"}
  <2>1. \A j \in DOMAIN g.ids : g.ids[j] \in ToSet(g.ids)
    BY DEF ToSet
  <2>2. QED
    BY <2>1, ReloadAssumption
<1>5. QED
  BY <1>3, <1>4 DEF SameIds, Packs

LEMMA ReplacedIsSeq ==
    ASSUME NEW s, IsSeq(s), NEW i, NEW r
    PROVE  IsSeq([s EXCEPT ![i] = r]) /\ Len([s EXCEPT ![i] = r]) = Len(s)
<1> DEFINE t == [s EXCEPT ![i] = r]
<1>1. Len(s) \in Nat /\ DOMAIN s = 1..Len(s)
  BY SeqFacts
<1>2. t = [n \in 1..Len(s) |-> t[n]]
  BY <1>1
<1> HIDE DEF t
<1>3. IsSeq(t) /\ Len(t) = Len(s)
  BY <1>1, <1>2, FunctionIsSeq
<1>4. QED
  BY <1>3 DEF t

LEMMA LessToDo ==
    ASSUME NEW m, m = [todo |-> m.todo, fwd |-> m.fwd, used |-> m.used], NEW S,
           NEW n, n = [m EXCEPT !.todo = S]
    PROVE  /\ n = [todo |-> S, fwd |-> m.fwd, used |-> m.used]
           /\ n.todo = S /\ n.fwd = m.fwd /\ n.used = m.used
  OBVIOUS

\* One identity of a frame is written.
Renamed(f, j, w) == [f EXCEPT !.ids[j].id = w]

LEMMA RenamedFacts ==
    ASSUME NEW f, NEW g, Packs(f, g), NEW j \in DOMAIN g.ids, NEW w
    PROVE  /\ Packs(Renamed(f, j, w), g)
           /\ Renamed(f, j, w).ids[j].id = w /\ Renamed(f, j, w).ts = f.ts
           /\ \A l \in DOMAIN g.ids : l # j => Renamed(f, j, w).ids[l] = f.ids[l]
<1> DEFINE h == [f.ids[j] EXCEPT !.id = w]
           ids == [f.ids EXCEPT ![j] = h]
           r == [f EXCEPT !.ids = ids]
<1>1. Renamed(f, j, w) = r
  BY DEF Renamed
<1>2. /\ DOMAIN h = {"field", "id", "starts"} /\ h.id = w
      /\ h.field = f.ids[j].field /\ h.starts = f.ids[j].starts
  BY DEF Packs
<1> HIDE DEF h
<1>3. /\ DOMAIN ids = DOMAIN g.ids /\ ids[j] = h
      /\ \A l \in DOMAIN g.ids : l # j => ids[l] = f.ids[l]
  BY DEF Packs
<1> HIDE DEF ids
<1>4. /\ {"kind", "svc", "ids", "ts"} \subseteq DOMAIN r /\ r.ids = ids
      /\ r.kind = f.kind /\ r.svc = f.svc /\ r.ts = f.ts
  BY DEF Packs
<1> HIDE DEF r
<1>5. \A l \in DOMAIN g.ids :
        /\ DOMAIN r.ids[l] = {"field", "id", "starts"}
        /\ r.ids[l].field = g.ids[l].field /\ r.ids[l].starts = g.ids[l].starts
  BY <1>2, <1>3, <1>4 DEF Packs
<1>6. Packs(r, g)
  BY <1>3, <1>4, <1>5 DEF Packs
<1>7. QED
  BY <1>1, <1>2, <1>3, <1>4, <1>6, Zenon

\* A header that the walk has not come to is the original's; one that it has come to
\* has the value of the original's identity.
HeaderOK(i, j) ==
    LET h == Origin(forged[i]).ids[j]
    IN  IF <<i, j>> \in mapper.todo THEN forged[i].ids[j].id = h.id
        ELSE /\ Key(h) \in DOMAIN mapper.fwd
             /\ forged[i].ids[j].id = Value(h.field, mapper.fwd[Key(h)])

FramesOK ==
    /\ IsSeq(forged)
    /\ \A i \in 1..Len(forged) :
        Origin(forged[i]) \in ToSet(Original) /\ Packs(forged[i], Origin(forged[i]))
HeadersOK ==
    /\ \A p \in mapper.todo :
        \E i \in 1..Len(forged) : \E j \in Walked(Origin(forged[i])) : p = <<i, j>>
    /\ \A i \in 1..Len(forged) : \A j \in Walked(Origin(forged[i])) : HeaderOK(i, j)
WorkInv == forge.pc = "mutate" => MapOK(mapper) /\ FramesOK /\ HeadersOK

LEMMA ClonedFacts ==
    ASSUME NEW cap \in Cloned
    PROVE  IsSeq(cap) /\ \A f \in ToSet(cap) : \E g \in ToSet(Original) : SameIds(f, g)
<1>1. IsSeq(Original)
  BY ReloadAssumption DEF IsSeq
<1>2. CASE RemapFirst
  <2>1. PICK fresh : cap = RemapCapture(Original, fresh)
    BY <1>2 DEF Cloned
  <2>2. IsSeq(RemapCapture(Original, fresh))
    BY <1>1, AppliedFacts, CleanedFacts DEF RemapCapture
  <2>3. QED
    BY <2>1, <2>2, MovedIds
<1>3. CASE ~RemapFirst
  BY <1>1, <1>3, OriginalIds DEF Cloned
<1>4. QED
  BY <1>2, <1>3

LEMMA CloneWorks == ASSUME Clone PROVE WorkInv'
<1>1. PICK cap \in Cloned :
        forged' = cap /\ mapper' = [NoMapper EXCEPT !.todo = Headers(cap)]
  BY DEF Clone
<1>2. IsSeq(cap) /\ \A f \in ToSet(cap) : \E g \in ToSet(Original) : SameIds(f, g)
  BY ClonedFacts
<1>3. DOMAIN cap = 1..Len(cap) /\ \A i \in 1..Len(cap) : cap[i] \in ToSet(cap)
  BY <1>2, SeqFacts
<1>4. ASSUME NEW i \in 1..Len(cap)
      PROVE  /\ Origin(cap[i]) \in ToSet(Original) /\ Packs(cap[i], Origin(cap[i]))
             /\ Walked(cap[i]) = Walked(Origin(cap[i])) /\ cap[i].ids = Origin(cap[i]).ids
  <2>1. PICK g \in ToSet(Original) : SameIds(cap[i], g)
    BY <1>2, <1>3
  <2>2. Origin(cap[i]) = g /\ Packs(cap[i], g) /\ Walked(cap[i]) = Walked(g)
    BY <2>1, OriginFacts, SameWalk
  <2>3. QED
    BY <2>1, <2>2 DEF SameIds
<1>5. /\ mapper' = [todo |-> Headers(cap), fwd |-> <<>>, used |-> {}]
      /\ mapper'.todo = Headers(cap) /\ mapper'.fwd = <<>> /\ mapper'.used = {}
  BY <1>1 DEF NoMapper
<1>6. MapOK(mapper')
  <2>1. DOMAIN mapper'.fwd = {}
    BY <1>5
  <2>2. QED
    BY <1>5, <2>1 DEF MapOK
<1>7. FramesOK'
  BY <1>1, <1>2, <1>4 DEF FramesOK, IsSeq
<1>8. \A i \in 1..Len(cap) : \A j \in Walked(Origin(cap[i])) : <<i, j>> \in Headers(cap)
  BY <1>3, <1>4 DEF Headers
<1>9. \A p \in Headers(cap) : \E i \in 1..Len(cap) : \E j \in Walked(Origin(cap[i])) : p = <<i, j>>
  BY <1>3, <1>4 DEF Headers
<1>10. HeadersOK'
  <2>1. \A i \in 1..Len(cap) : \A j \in Walked(Origin(cap[i])) : HeaderOK(i, j)'
    BY <1>1, <1>4, <1>5, <1>8 DEF HeaderOK
  <2>2. QED
    BY <1>1, <1>5, <1>9, <2>1 DEF HeadersOK
<1>11. QED
  BY <1>6, <1>7, <1>10 DEF WorkInv

LEMMA MutateWorks == ASSUME WorkInv, Mutate PROVE WorkInv'
<1>1. MapOK(mapper) /\ FramesOK /\ HeadersOK
  BY DEF WorkInv, Mutate
<1>2. PICK p \in mapper.todo :
        LET h == forged[p[1]].ids[p[2]]
        IN  \E m \in MapRange(mapper, Key(h)) :
              /\ mapper' = [m EXCEPT !.todo = @ \ {p}]
              /\ forged' = [forged EXCEPT ![p[1]].ids[p[2]].id = Value(h.field, m.fwd[Key(h)])]
  BY DEF Mutate
<1>3. PICK i \in 1..Len(forged) : \E j \in Walked(Origin(forged[i])) : p = <<i, j>>
  BY <1>1 DEF HeadersOK
<1>4. PICK j \in Walked(Origin(forged[i])) : p = <<i, j>>
  BY <1>3
<1> DEFINE g == Origin(forged[i])
           k == Key(g.ids[j])
<1>5. g \in ToSet(Original) /\ Packs(forged[i], g) /\ j \in DOMAIN g.ids /\ IsSeq(forged)
  BY <1>1 DEF FramesOK, Walked
<1>6. forged[i].ids[j].field = g.ids[j].field /\ Key(forged[i].ids[j]) = k
  <2>1. forged[i].ids[j].id = g.ids[j].id
    BY <1>1, <1>4 DEF HeadersOK, HeaderOK
  <2>2. QED
    BY <1>5, <2>1 DEF Packs, Key
<1>7. k \in Identities(Original)
  BY <1>5 DEF Identities
<1> HIDE DEF k
<1>8. PICK m \in MapRange(mapper, k) :
        /\ mapper' = [m EXCEPT !.todo = @ \ {p}]
        /\ forged' = [forged EXCEPT ![i].ids[j].id = Value(g.ids[j].field, m.fwd[k])]
  <2>1. p[1] = i /\ p[2] = j
    BY <1>4
  <2> DEFINE h == forged[i].ids[j]
  <2>2. PICK m \in MapRange(mapper, Key(h)) :
          /\ mapper' = [m EXCEPT !.todo = @ \ {p}]
          /\ forged' = [forged EXCEPT ![i].ids[j].id = Value(h.field, m.fwd[Key(h)])]
    BY <1>2, <2>1, Zenon
  <2>3. Key(h) = k /\ h.field = g.ids[j].field
    BY <1>6
  <2> HIDE DEF h, g
  <2>4. QED
    BY <2>2, <2>3, Zenon
<1> DEFINE w == Value(g.ids[j].field, m.fwd[k])
<1>9. /\ MapOK(m) /\ m.todo = mapper.todo /\ k \in DOMAIN m.fwd
      /\ \A l \in DOMAIN mapper.fwd : l \in DOMAIN m.fwd /\ m.fwd[l] = mapper.fwd[l]
  BY <1>1, <1>7, MapRangeFacts
<1>10. /\ mapper' = [todo |-> mapper.todo \ {p}, fwd |-> m.fwd, used |-> m.used]
       /\ mapper'.todo = mapper.todo \ {p} /\ mapper'.fwd = m.fwd /\ mapper'.used = m.used
  <2>1. m = [todo |-> m.todo, fwd |-> m.fwd, used |-> m.used] /\ m.todo = mapper.todo
    BY <1>9 DEF MapOK
  <2>2. mapper' = [m EXCEPT !.todo = m.todo \ {p}]
    BY <1>8, Zenon
  <2>3. QED
    BY <2>1, <2>2, LessToDo
<1>11. MapOK(mapper')
  <2>1. mapper' = [todo |-> mapper'.todo, fwd |-> mapper'.fwd, used |-> mapper'.used]
    BY <1>10
  <2>2. QED
    BY <1>9, <1>10, <2>1 DEF MapOK
<1> HIDE DEF g, w
<1>12. /\ IsSeq(forged') /\ Len(forged') = Len(forged)
       /\ \A n \in 1..Len(forged) : n # i => forged'[n] = forged[n]
       /\ Packs(forged'[i], g) /\ forged'[i].ids[j].id = w /\ forged'[i].ts = forged[i].ts
       /\ \A l \in DOMAIN g.ids : l # j => forged'[i].ids[l] = forged[i].ids[l]
  <2> DEFINE r == Renamed(forged[i], j, w)
  <2>1. /\ Packs(r, g) /\ r.ids[j].id = w /\ r.ts = forged[i].ts
        /\ \A l \in DOMAIN g.ids : l # j => r.ids[l] = forged[i].ids[l]
    <3>1. Packs(forged[i], g) /\ j \in DOMAIN g.ids
      BY <1>5 DEF g
    <3>2. QED
      BY <3>1, RenamedFacts
  <2>2. forged' = [forged EXCEPT ![i] = r]
    <3>1. forged' = [forged EXCEPT ![i].ids[j].id = w]
      BY <1>8, Zenon DEF w
    <3>2. QED
      BY <3>1, SMT DEF Renamed
  <2> HIDE DEF r
  <2>3. IsSeq(forged') /\ Len(forged') = Len(forged)
    BY <1>5, <2>2, ReplacedIsSeq
  <2>4. forged'[i] = r /\ \A n \in 1..Len(forged) : n # i => forged'[n] = forged[n]
    <3>1. DOMAIN forged = 1..Len(forged)
      BY <1>5, SeqFacts
    <3>2. QED
      BY <2>2, <3>1
  <2>5. QED
    BY <2>1, <2>3, <2>4
<1>13. \A n \in 1..Len(forged) : Origin(forged'[n]) = Origin(forged[n])
  <2>1. \A n \in 1..Len(forged) : forged'[n].ts = forged[n].ts
    BY <1>12
  <2>2. QED
    BY <2>1 DEF Origin
<1>14. FramesOK'
  <2>1. ASSUME NEW n \in 1..Len(forged)
        PROVE  /\ Origin(forged'[n]) \in ToSet(Original)
               /\ Packs(forged'[n], Origin(forged'[n]))
    <3>1. Origin(forged[n]) \in ToSet(Original) /\ Packs(forged[n], Origin(forged[n]))
      BY <1>1 DEF FramesOK
    <3>2. CASE n = i
      BY <1>12, <1>13, <3>1, <3>2 DEF g
    <3>3. CASE n # i
      BY <1>12, <1>13, <3>1, <3>3
    <3>4. QED
      BY <3>2, <3>3
  <2>2. QED
    BY <1>12, <2>1 DEF FramesOK, IsSeq
<1>15. ASSUME NEW n \in 1..Len(forged), NEW l \in Walked(Origin(forged[n]))
       PROVE  HeaderOK(n, l)'
  <2> DEFINE h == Origin(forged[n]).ids[l]
  <2>1. HeaderOK(n, l)
    BY <1>1 DEF HeadersOK
  <2>2. Origin(forged'[n]) = Origin(forged[n])
    BY <1>13
  <2>3. CASE n = i /\ l = j
    <3>1. <<n, l>> \notin mapper'.todo
      BY <1>4, <1>10, <2>3
    <3>2. h = g.ids[j] /\ Key(h) = k
      BY <2>3 DEF g, k
    <3>3. forged'[n].ids[l].id = Value(h.field, mapper'.fwd[Key(h)])
      BY <1>10, <1>12, <2>3, <3>2 DEF w
    <3>4. Key(h) \in DOMAIN mapper'.fwd
      BY <1>9, <1>10, <3>2
    <3>5. QED
      BY <2>2, <3>1, <3>3, <3>4 DEF HeaderOK
  <2>4. CASE ~(n = i /\ l = j)
    <3>1. <<n, l>> \in mapper'.todo <=> <<n, l>> \in mapper.todo
      BY <1>4, <1>10, <2>4
    <3>2. forged'[n].ids[l] = forged[n].ids[l]
      <4>1. CASE n # i
        BY <1>12, <4>1
      <4>2. CASE n = i
        <5>1. l # j /\ l \in DOMAIN g.ids
          BY <2>4, <4>2 DEF g, Walked
        <5>2. QED
          BY <1>12, <4>2, <5>1
      <4>3. QED
        BY <4>1, <4>2
    <3>3. Key(h) \in DOMAIN mapper.fwd =>
            Key(h) \in DOMAIN mapper'.fwd /\ mapper'.fwd[Key(h)] = mapper.fwd[Key(h)]
      BY <1>9, <1>10
    <3>4. QED
      BY <2>1, <2>2, <3>1, <3>2, <3>3 DEF HeaderOK
  <2>5. QED
    BY <2>3, <2>4
<1>16. \A q \in mapper'.todo :
         \E n \in 1..Len(forged) : \E l \in Walked(Origin(forged[n])) : q = <<n, l>>
  BY <1>1, <1>10 DEF HeadersOK
<1>17. HeadersOK'
  BY <1>12, <1>13, <1>15, <1>16 DEF HeadersOK
<1>18. QED
  BY <1>11, <1>14, <1>17 DEF WorkInv

\* A capture that was walked to its end keeps its identities.
LEMMA CreateKeeps == ASSUME WorkInv, Create PROVE IdentitiesKept'
<1> DEFINE pairs == UNION {{<<Origin(f).ids[i], f.ids[i]>> : i \in Walked(Origin(f))} :
                             f \in ToSet(forged')}
           keys == Identities(Original)
           Kept2(p, q) ==
               p[1].field = q[1].field =>
                 /\ p[1].id = q[1].id => p[2].id = q[2].id
                 /\ p[2].id = q[2].id =>
                     p[1].id = q[1].id \/ p[1].field = "vendor" \/ Crowded(keys, p[1].field)
<1>1. /\ MapOK(mapper) /\ FramesOK /\ HeadersOK /\ mapper.todo = {}
      /\ forged' = Fitting(forged, StandardFrame)
  BY DEF WorkInv, Create, Mutated
<1>2. IsSeq(forged)
  BY <1>1 DEF FramesOK
<1>3. ToSet(forged') \subseteq ToSet(forged) /\ ToSet(forged) = {forged[i] : i \in 1..Len(forged)}
  BY <1>1, <1>2, FittingFacts, SeqFacts
<1>4. ASSUME NEW p \in pairs
      PROVE  /\ Key(p[1]) \in DOMAIN mapper.fwd
             /\ p[2].id = Value(p[1].field, mapper.fwd[Key(p[1])])
  <2>1. PICK f \in ToSet(forged') : p \in {<<Origin(f).ids[j], f.ids[j]>> : j \in Walked(Origin(f))}
    BY <1>4
  <2>2. PICK j \in Walked(Origin(f)) : p = <<Origin(f).ids[j], f.ids[j]>>
    BY <2>1
  <2>3. PICK i \in 1..Len(forged) : f = forged[i]
    BY <1>3
  <2>4. HeaderOK(i, j)
    BY <1>1, <2>3 DEF HeadersOK
  <2>5. QED
    BY <1>1, <2>2, <2>3, <2>4 DEF HeaderOK
<1> HIDE DEF pairs
<1>5. ASSUME NEW p \in pairs, NEW q \in pairs PROVE Kept2(p, q)
  <2> SUFFICES ASSUME p[1].field = q[1].field
               PROVE  /\ p[1].id = q[1].id => p[2].id = q[2].id
                      /\ p[2].id = q[2].id =>
                          p[1].id = q[1].id \/ p[1].field = "vendor" \/ Crowded(keys, p[1].field)
    OBVIOUS
  <2> DEFINE k == Key(p[1])
             l == Key(q[1])
  <2>1. /\ k[1] = p[1].field /\ l[1] = p[1].field
        /\ k = l <=> p[1].id = q[1].id
    BY DEF Key
  <2>2. /\ k \in DOMAIN mapper.fwd /\ p[2].id = Value(p[1].field, mapper.fwd[k])
        /\ l \in DOMAIN mapper.fwd /\ q[2].id = Value(p[1].field, mapper.fwd[l])
    BY <1>4
  <2> HIDE DEF k, l
  <2>3. k # l /\ mapper.fwd[k] = mapper.fwd[l] => Crowded(keys, p[1].field)
    BY <1>1, <2>1, <2>2 DEF MapOK
  <2>4. p[1].field # "vendor" /\ p[2].id = q[2].id => mapper.fwd[k] = mapper.fwd[l]
    BY <2>2 DEF Value
  <2>5. QED
    BY <2>1, <2>2, <2>3, <2>4
<1>6. \A p, q \in pairs : Kept2(p, q)
  BY <1>5
<1>7. QED
  BY <1>6 DEF IdentitiesKept, Origin, pairs

ForgedInv == WorkInv /\ IdentitiesKept

LEMMA ForgedInit == EitherInit => ForgedInv
<1>1. EitherInit => forge.pc \notin {"mutate", "write"}
  BY DEF EitherInit, Idle, Off
<1>2. QED
  BY <1>1 DEF ForgedInv, WorkInv, IdentitiesKept

\* Neither a new round nor the roster has anything in work.
LEMMA ForgedStep == ForgeInv /\ ForgedInv /\ [Daemon \/ Forge]_hostVars => ForgedInv'
<1> SUFFICES ASSUME ForgeInv, ForgedInv, [Daemon \/ Forge]_hostVars PROVE ForgedInv'
  OBVIOUS
<1> DEFINE record == [pc |-> forge.pc, round |-> forge.round, roster |-> forge.roster]
<1>1. /\ forge = record
      /\ Running => forge.round \in 1..Len(Rounds)
  BY DEF ForgeInv, ForgeType
<1>2. forge'.pc \notin {"mutate", "write"} => ForgedInv'
  BY DEF ForgedInv, WorkInv, IdentitiesKept
<1>3. ASSUME forge.pc \in {"mutate", "write"}, NEW roster,
             forge' = NextRound([pc |-> forge.pc, round |-> forge.round, roster |-> roster])
      PROVE  ForgedInv'
  BY <1>1, <1>2, <1>3, NextRoundFacts DEF Running
<1>4. CASE Begin
  <2>1. \E roster : forge' = [pc |-> "clone", round |-> 1, roster |-> roster]
    BY <1>4, Zenon DEF Begin
  <2>2. QED
    BY <1>2, <2>1
<1>5. CASE Clone \/ Mutate
  <2>1. forge'.pc = "mutate"
    <3>1. forge' = [record EXCEPT !.pc = "mutate"] \/ (forge' = forge /\ forge.pc = "mutate")
      BY <1>1, <1>5 DEF Clone, Mutate
    <3>2. QED
      BY <3>1
  <2>2. WorkInv'
    BY <1>5, CloneWorks, MutateWorks DEF ForgedInv
  <2>3. QED
    BY <2>1, <2>2 DEF ForgedInv, IdentitiesKept
<1>6. CASE Create
  <2>1. forge'.pc = "write"
    <3>1. forge' = [record EXCEPT !.pc = "write"]
      BY <1>1, <1>6 DEF Create
    <3>2. QED
      BY <3>1
  <2>2. IdentitiesKept'
    BY <1>6, CreateKeeps DEF ForgedInv
  <2>3. QED
    BY <2>1, <2>2 DEF ForgedInv, WorkInv
<1>7. CASE WriteFails
  <2>1. forge.pc \in {"mutate", "write"} /\ forge' = NextRound(record)
    BY <1>1, <1>7 DEF WriteFails, Mutated
  <2>2. QED
    BY <1>3, <2>1
<1>8. CASE Written
  <2> DEFINE roster == Append(forge.roster, Listing)
  <2>1. forge.pc = "write" /\ forge' = NextRound([record EXCEPT !.roster = roster])
    BY <1>1, <1>8, Zenon DEF Written
  <2> HIDE DEF roster
  <2>2. [record EXCEPT !.roster = roster]
          = [pc |-> forge.pc, round |-> forge.round, roster |-> roster]
    OBVIOUS
  <2>3. QED
    BY <1>3, <2>1, <2>2
<1>9. CASE Finish \/ Crash
  BY <1>2, <1>9 DEF Finish, Crash, Idle
<1>10. CASE WriteFrame \/ Daemon \/ UNCHANGED hostVars
  <2>1. UNCHANGED <<forge, forged, mapper>>
    BY <1>10 DEF WriteFrame, Daemon, hostVars
  <2>2. QED
    BY <2>1 DEF ForgedInv, WorkInv, IdentitiesKept, FramesOK, HeadersOK, HeaderOK, IsSeq
<1>11. QED
  BY <1>4, <1>5, <1>6, <1>7, <1>8, <1>9, <1>10 DEF Forge, Forging

-----------------------------------------------------------------------------
(* The theorems.                                                           *)

\* reload/mod.rs:75-80, 110-118: what a run is about to list is on disk with as many
\* frames as the list says.
THEOREM ListedAreWhole == EitherSpec => []ListedIsWhole
<1>1. ForgeInv => ListedIsWhole
  <2> SUFFICES ASSUME ForgeInv, forge.pc = "roster",
                      NEW i \in (Before + 1)..Len(forge.roster)
               PROVE  Len(source[forge.roster[i].file]) = forge.roster[i].frames
    <3>1. Before + 1 = IF index = Unreadable THEN 1 ELSE Len(index) + 1
      BY DEF Before
    <3>2. QED
      BY <3>1 DEF ListedIsWhole
  <2>1. Listed(i)
    BY DEF ForgeInv, RosterInv, Running
  <2>2. QED
    BY <2>1 DEF Listed
<1>2. EitherSpec => []ForgeInv
  BY ForgeInit, ForgeStep, PTL DEF EitherSpec, hostVars
<1>3. QED
  BY <1>1, <1>2, PTL

\* proto/mapper.rs:3-6, 43-66: a walk that maps identity after identity gives each of
\* them one value throughout the capture, and each its own where there is room, but
\* for CIP vendors.
THEOREM VariantsKeepIdentities == EitherSpec => []IdentitiesKept
<1>1. ForgedInv => IdentitiesKept
  BY DEF ForgedInv
<1>2. EitherSpec => [](ForgeInv /\ ForgedInv)
  BY ForgeInit, ForgeStep, ForgedInit, ForgedStep, PTL DEF EitherSpec, hostVars
<1>3. QED
  BY <1>1, <1>2, PTL

-----------------------------------------------------------------------------
(* What is sent is in the cache.                                           *)

\* What Put does: p is files without the one at i, and with e at the end.
Replaces(files, e, i, p) ==
    /\ i \in 1..Len(files) /\ Name(files[i]) = Name(e)
    /\ IsSeq(p) /\ Len(p) = Len(files) /\ p[Len(files)] = e
    /\ \A j \in 1..(i - 1) : p[j] = files[j]
    /\ \A j \in i..(Len(files) - 1) : p[j] = files[j + 1]

LEMMA PutShape ==
    ASSUME NEW files, IsSeq(files), NEW e
    PROVE  \/ /\ Put(files, e) = Append(files, e)
              /\ \A i \in 1..Len(files) : Name(files[i]) # Name(e)
           \/ \E i \in 1..Len(files) : Replaces(files, e, i, Put(files, e))
<1> DEFINE same == {i \in DOMAIN files : Name(files[i]) = Name(e)}
           S == ToSet(files)
           n == Len(files)
<1>1. files \in Seq(S) /\ n \in Nat /\ DOMAIN files = 1..n
  BY LenProperties DEF IsSeq
<1>2. CASE same = {}
  <2>1. Put(files, e) = Append(files, e)
    BY <1>2, Zenon DEF Put
  <2>2. QED
    BY <1>1, <1>2, <2>1
<1>3. CASE same # {}
  <2> DEFINE i == MinOf(same)
             head == SubSeq(files, 1, i - 1)
             tail == SubSeq(files, i + 1, n)
             rest == head \o tail
  <2>1. i \in same /\ i \in 1..n
    <3>1. same \subseteq 1..n
      BY <1>1
    <3> HIDE DEF same
    <3>2. same \subseteq Nat
      BY <3>1
    <3>3. QED
      BY <1>3, <3>1, <3>2, MinExists
  <2>2. Name(files[i]) = Name(e)
    BY <2>1
  <2>3. Put(files, e) = Append(rest, e)
    BY <1>3, Zenon DEF Put, RemoveAt
  <2> HIDE DEF i, same
  <2>4. /\ head \in Seq(S) /\ tail \in Seq(S) /\ Len(head) = i - 1 /\ Len(tail) = n - i
        /\ \A j \in 1..(i - 1) : head[j] = files[j]
        /\ \A j \in 1..(n - i) : tail[j] = files[i + j]
    <3>1. /\ head \in Seq(S) /\ Len(head) = i - 1 + 1 - 1
          /\ \A j \in 1..(i - 1 + 1 - 1) : head[j] = files[1 - 1 + j]
      <4>1. 1 \in Nat \ {0} /\ i - 1 \in 0..n /\ 1 <= i - 1 + 1
        BY <1>1, <2>1
      <4>2. QED
        BY <4>1, SubSeqFacts
    <3> DEFINE a == i + 1
    <3>2. /\ tail \in Seq(S) /\ Len(tail) = n + 1 - a
          /\ \A j \in 1..(n + 1 - a) : tail[j] = files[a - 1 + j]
      <4>1. a \in Nat \ {0} /\ n \in 0..n /\ a <= n + 1
        <5> HIDE DEF n
        <5>1. QED
          BY <1>1, <2>1
      <4>2. tail = SubSeq(files, a, n)
        OBVIOUS
      <4> HIDE DEF a, tail
      <4>3. QED
        BY <4>1, <4>2, SubSeqFacts
    <3> HIDE DEF head, tail, n
    <3>3. /\ i - 1 + 1 - 1 = i - 1 /\ n + 1 - a = n - i /\ a - 1 = i
          /\ \A j \in 1..(i - 1) : 1 - 1 + j = j
      BY <1>1, <2>1
    <3> HIDE DEF a
    <3>4. QED
      BY <3>1, <3>2, <3>3
  <2> HIDE DEF head, tail
  <2>5. /\ rest \in Seq(S) /\ Len(rest) = n - 1
        /\ \A j \in 1..(n - 1) : rest[j] = IF j <= i - 1 THEN head[j] ELSE tail[j - (i - 1)]
    <3>1. /\ rest \in Seq(S) /\ Len(rest) = Len(head) + Len(tail)
          /\ \A j \in 1..(Len(head) + Len(tail)) :
                rest[j] = IF j <= Len(head) THEN head[j] ELSE tail[j - Len(head)]
      BY <2>4, ConcatProperties
    <3> HIDE DEF rest
    <3>2. QED
      BY <1>1, <2>1, <2>4, <3>1
  <2> HIDE DEF rest
  <2>6. \A j \in 1..(n - 1) : rest[j] = IF j < i THEN files[j] ELSE files[j + 1]
    BY <1>1, <2>1, <2>4, <2>5
  <2> DEFINE p == Append(rest, e)
  <2>7. /\ IsSeq(p) /\ Len(p) = n /\ p[n] = e
        /\ \A j \in 1..(n - 1) : p[j] = rest[j]
    <3>1. IsSeq(rest) /\ Len(rest) + 1 = n
      BY <1>1, <2>1, <2>5, SeqIsSeq
    <3>2. /\ IsSeq(p) /\ Len(p) = Len(rest) + 1 /\ p[Len(rest) + 1] = e
          /\ \A j \in 1..Len(rest) : p[j] = rest[j]
      BY <3>1, AppendIsSeq
    <3> HIDE DEF p
    <3>3. Len(rest) = n - 1
      BY <2>5
    <3>4. QED
      BY <3>1, <3>2, <3>3
  <2> HIDE DEF p
  <2>8. Replaces(files, e, i, p)
    BY <1>1, <2>1, <2>2, <2>6, <2>7 DEF Replaces
  <2>9. QED
    BY <2>1, <2>3, <2>8 DEF p
<1>4. QED
  BY <1>2, <1>3

\* What is written last stays, whatever has to go.
LEMMA PutFacts ==
    ASSUME NEW files, IsSeq(files), NEW e
    PROVE  /\ IsSeq(Put(files, e)) /\ Len(Put(files, e)) \in Nat \ {0}
           /\ Put(files, e)[Len(Put(files, e))] = e
           /\ ToSet(Put(files, e)) \subseteq ToSet(files) \cup {e}
<1> DEFINE p == Put(files, e)
           n == Len(files)
<1>1. n \in Nat /\ DOMAIN files = 1..n
  BY SeqFacts
<1>2. CASE p = Append(files, e)
  BY <1>2, AppendIsSeq, AppendToSet
<1>3. ASSUME NEW i \in 1..n, Replaces(files, e, i, p)
      PROVE  /\ IsSeq(p) /\ Len(p) \in Nat \ {0} /\ p[Len(p)] = e
             /\ ToSet(p) \subseteq ToSet(files) \cup {e}
  <2> HIDE DEF p
  <2>1. IsSeq(p) /\ Len(p) \in Nat \ {0} /\ p[Len(p)] = e /\ DOMAIN p = 1..n
    BY <1>1, <1>3, SeqFacts DEF Replaces
  <2>2. ASSUME NEW j \in 1..n PROVE p[j] \in ToSet(files) \cup {e}
    <3>1. /\ p[n] = e
          /\ \A k \in 1..(i - 1) : p[k] = files[k]
          /\ \A k \in i..(n - 1) : p[k] = files[k + 1]
      BY <1>3 DEF Replaces
    <3> HIDE DEF n
    <3>2. \A k \in 1..n : files[k] \in ToSet(files)
      BY <1>1 DEF ToSet
    <3>3. CASE j \in 1..(i - 1)
      BY <1>1, <3>1, <3>2, <3>3
    <3>4. CASE j \in i..(n - 1)
      <4>1. j + 1 \in 1..n
        BY <1>1, <3>4
      <4>2. QED
        BY <3>1, <3>2, <3>4, <4>1
    <3>5. CASE j = n
      BY <3>1, <3>5
    <3>6. QED
      BY <1>1, <3>3, <3>4, <3>5
  <2>3. QED
    BY <2>1, <2>2 DEF ToSet
<1>4. QED
  BY <1>2, <1>3, PutShape

LEMMA EvictedFacts ==
    ASSUME NEW files, IsSeq(files), Len(files) \in Nat \ {0}, NEW max
    PROVE  /\ IsSeq(Evicted(files, max)) /\ ToSet(Evicted(files, max)) \subseteq ToSet(files)
           /\ files[Len(files)] \in ToSet(Evicted(files, max))
           /\ \/ Bytes(Evicted(files, max)) <= max
              \/ Len(Evicted(files, max)) = 1
<1> DEFINE fits == {i \in DOMAIN files : Bytes(From(files, i)) <= max}
           n == Len(files)
           from == MinOf(fits \cup {n})
           S == ToSet(files)
<1>1. files \in Seq(S) /\ DOMAIN files = 1..n /\ n \in Nat \ {0}
  BY LenProperties DEF IsSeq
<1>2. Evicted(files, max) = SubSeq(files, from, n)
  BY Zenon DEF Evicted, From
<1>3. from \in 1..n /\ (from \in fits \/ from = n)
  <2>1. fits \subseteq 1..n
    BY <1>1
  <2> HIDE DEF fits
  <2> DEFINE T == fits \cup {n}
  <2>2. n \in Nat /\ n \in 1..n
    BY <1>1
  <2>3. T \subseteq 1..n /\ T # {}
    BY <2>1, <2>2, Zenon
  <2> HIDE DEF T
  <2>4. T \subseteq Nat
    BY <2>2, <2>3
  <2>5. MinOf(T) \in T
    BY <2>3, <2>4, MinExists
  <2>6. QED
    BY <2>3, <2>5 DEF T
<1>7. from \in fits => Bytes(SubSeq(files, from, n)) <= max
  BY Zenon DEF From
<1> HIDE DEF from, fits
<1> DEFINE p == SubSeq(files, from, n)
<1>4. /\ p \in Seq(S) /\ Len(p) = n + 1 - from
      /\ \A j \in 1..(n + 1 - from) : p[j] = files[from - 1 + j]
  <2>1. from \in Nat \ {0} /\ n \in 0..n /\ from <= n + 1
    <3> HIDE DEF n
    <3>1. QED
      BY <1>1, <1>3
  <2>2. QED
    BY <2>1, SubSeqFacts
<1> HIDE DEF p, n, S
<1>5. DOMAIN p = 1..(n + 1 - from) /\ n + 1 - from \in 1..(n + 1 - from)
      /\ from - 1 + (n + 1 - from) = n
  BY <1>1, <1>3, <1>4, LenProperties
<1>6. IsSeq(p) /\ ToSet(p) \subseteq S /\ files[n] \in ToSet(p)
  <2>1. \A j \in DOMAIN p : p[j] \in S
    <3>1. \A j \in 1..Len(p) : p[j] \in S
      BY <1>4, ElementOfSeq
    <3>2. QED
      BY <1>4, <1>5, <3>1
  <2>2. files[n] \in ToSet(p)
    BY <1>4, <1>5 DEF ToSet
  <2>3. QED
    BY <1>4, <2>1, <2>2, SeqIsSeq DEF ToSet
<1>8. Bytes(p) <= max \/ Len(p) = 1
  BY <1>1, <1>3, <1>4, <1>7 DEF p
<1>9. QED
  BY <1>2, <1>6, <1>8 DEF p, n, S

CacheType == cache = [d \in Dirs |-> cache[d]] /\ \A d \in Dirs : IsSeq(cache[d])
CacheInv ==
    /\ CacheType
    /\ served # Nothing => up /\ served \in ToSet(cache[DirOf(served.cap)])

LEMMA CacheInit == EitherInit => CacheInv
<1> SUFFICES ASSUME EitherInit PROVE CacheInv
  OBVIOUS
<1>1. cache = [d \in Dirs |-> <<>>] /\ served = Nothing
  BY DEF EitherInit, Init
<1>2. QED
  BY <1>1 DEF CacheInv, CacheType, IsSeq

LEMMA DirOfType == ASSUME NEW c PROVE DirOf(c) \in Dirs
  BY DEF DirOf, Dirs

LEMMA CachedFacts ==
    ASSUME CacheType, NEW dir \in Dirs, NEW e, Cached(dir, e)
    PROVE  CacheType' /\ e \in ToSet(cache'[dir])
<1> DEFINE files == Put(cache[dir], e)
           projected == IF known[dir] = Unknown THEN Bytes(files) ELSE known[dir] + Weight(e)
           left == IF projected > Budget[dir] THEN Evicted(files, Budget[dir]) ELSE files
<1>1. cache' = [cache EXCEPT ![dir] = left]
  BY Zenon DEF Cached
<1>2. IsSeq(files) /\ Len(files) \in Nat \ {0} /\ files[Len(files)] = e
  BY PutFacts DEF CacheType
<1> HIDE DEF files
<1>3. /\ IsSeq(Evicted(files, Budget[dir])) /\ e \in ToSet(Evicted(files, Budget[dir]))
  BY <1>2, EvictedFacts
<1>4. e \in ToSet(files)
  BY <1>2, LenProperties DEF IsSeq, ToSet
<1> HIDE DEF projected
<1>5. IsSeq(left) /\ e \in ToSet(left)
  BY <1>2, <1>3, <1>4
<1> HIDE DEF left
<1>6. QED
  BY <1>1, <1>5 DEF CacheType

LEMMA CutShortFacts ==
    ASSUME CacheType, NEW dir \in Dirs, NEW e, CutShort(dir, e)
    PROVE  CacheType'
<1>1. PICK x : cache' = [cache EXCEPT ![dir] = Put(cache[dir], x)]
  BY Zenon DEF CutShort
<1>2. IsSeq(Put(cache[dir], x))
  BY PutFacts DEF CacheType
<1>3. QED
  BY <1>1, <1>2 DEF CacheType

\* What is served is a file of the cache, with the name of the capture as it is.
LEMMA HitFacts ==
    ASSUME NEW c \in Captures, Hit(c)
    PROVE  /\ served' \in ToSet(cache[DirOf(c)])
           /\ served'.cap = c /\ served'.stamp = stamp[c] /\ served'.seed = ledger.seed
           /\ up /\ UNCHANGED <<written, plans, up, cache, look>>
<1>1. PICK e \in Hits(c) : served' = e
  BY DEF Hit
<1>2. /\ e \in ToSet(cache[DirOf(c)])
      /\ Name(e) = Name(Entry(c, Stat(c), ledger, <<>>, "hit"))
  BY <1>1 DEF Hits
<1>3. e.cap = c /\ e.stamp = stamp[c] /\ e.seed = ledger.seed
  BY <1>2 DEF Name, Entry, Stat
<1>4. QED
  BY <1>1, <1>2, <1>3 DEF Hit, Picks

\* What the daemon looked at is a capture.
LookInv ==
    /\ look = [cap |-> look.cap, stamp |-> look.stamp, size |-> look.size]
    /\ look # NotLooked => up /\ served = Nothing /\ look.cap \in Captures

LEMMA LookInit == EitherInit => LookInv
  BY DEF EitherInit, Init, LookInv, NotLooked

LEMMA LookStep == LookInv /\ [Daemon \/ Forge]_hostVars => LookInv'
<1> SUFFICES ASSUME LookInv, [Daemon \/ Forge]_hostVars PROVE LookInv'
  OBVIOUS
<1>1. CASE look' = NotLooked
  BY <1>1 DEF LookInv, NotLooked
<1>2. CASE UNCHANGED <<look, up, served>>
  BY <1>2 DEF LookInv
<1>3. ASSUME NEW c \in Captures, Look(c) PROVE LookInv'
  <2>1. up' = up /\ served' = served /\ up /\ served = Nothing
    BY <1>3 DEF Look, Picks
  <2>2. look' = [cap |-> c, stamp |-> stamp[c], size |-> Len(source[c])]
    BY <1>3 DEF Look, Stat
  <2>3. QED
    BY <2>1, <2>2 DEF LookInv
<1>4. ASSUME NEW c \in Captures, Hit(c) PROVE LookInv'
  <2>1. look' = look /\ look = NotLooked
    BY <1>4 DEF Hit, Picks
  <2>2. QED
    BY <1>1, <2>1
<1>5. CASE Start
  <2>1. look' = look /\ (look # NotLooked => up) /\ ~up
    BY <1>5 DEF Start, LookInv
  <2>2. QED
    BY <1>1, <2>1
<1>6. CASE Tick
  <2>1. look' = look /\ (look # NotLooked => served = Nothing) /\ served # Nothing
    BY <1>6 DEF Tick, LookInv
  <2>2. QED
    BY <1>1, <2>1
<1>7. CASE Stop \/ Miss
  BY <1>1, <1>7 DEF Stop, Miss
<1>8. CASE Reset \/ Copy \/ Second \/ Forge \/ UNCHANGED hostVars
  BY <1>2, <1>8 DEF Reset, Copy, Second, Forge, hostVars, vars
<1>9. QED
  BY <1>3, <1>4, <1>5, <1>6, <1>7, <1>8 DEF Daemon, Next, Loop

\* A remap that is sent was written to the cache before.
LEMMA MissFacts ==
    ASSUME LookInv, Miss
    PROVE  /\ up /\ UNCHANGED <<written, up>> /\ served = Nothing /\ look.cap \in Captures
           /\ \/ UNCHANGED <<plans, cache, known, served>>
              \/ UNCHANGED epochs /\ \E r \in Remaps(look.cap) :
                  LET c == look.cap
                      e == Entry(c, look, ledger', r.frames, r.made)
                  IN  /\ ledger' = FoldLeft(Register, ledger, r.new)
                      /\ disk' \in {disk, ledger'}
                      /\ \/ Cached(DirOf(c), e) /\ served' = e
                         \/ CutShort(DirOf(c), e) /\ UNCHANGED <<known, served>>
                         \/ UNCHANGED <<cache, known, served>>
<1>1. up /\ UNCHANGED <<written, up>> /\ served = Nothing /\ look.cap \in Captures
  BY DEF Miss, LookInv
<1>2. CASE UNCHANGED <<plans, cache, known, served>>
  BY <1>1, <1>2
<1>3. CASE ~UNCHANGED <<plans, cache, known, served>>
  <2> DEFINE c == look.cap
             Made(r) == LET l == FoldLeft(Register, ledger, r.new)
                            e == Entry(c, look, l, r.frames, r.made)
                        IN  /\ ledger' = l
                            /\ IF ledger.zones = {} THEN UNCHANGED disk ELSE MaySave
                            /\ \/ Cached(DirOf(c), e) /\ served' = e
                               \/ CutShort(DirOf(c), e) /\ UNCHANGED <<known, served>>
                               \/ UNCHANGED <<cache, known, served>>
  <2>1. UNCHANGED epochs /\ \E r \in Remaps(c) : Made(r)
    BY <1>3, Zenon DEF Miss
  <2>2. PICK r \in Remaps(c) : Made(r)
    BY <2>1
  <2>3. ledger' = FoldLeft(Register, ledger, r.new) /\ disk' \in {disk, ledger'}
    BY <2>2 DEF MaySave
  <2>4. \/ Cached(DirOf(c), Entry(c, look, ledger', r.frames, r.made))
             /\ served' = Entry(c, look, ledger', r.frames, r.made)
        \/ CutShort(DirOf(c), Entry(c, look, ledger', r.frames, r.made))
             /\ UNCHANGED <<known, served>>
        \/ UNCHANGED <<cache, known, served>>
    BY <2>2, <2>3, Zenon
  <2>5. QED
    BY <1>1, <2>1, <2>3, <2>4, Zenon
<1>4. QED
  BY <1>2, <1>3

LEMMA CacheStep == LookInv /\ CacheInv /\ [Daemon \/ Forge]_hostVars => CacheInv'
<1> SUFFICES ASSUME LookInv, CacheInv, [Daemon \/ Forge]_hostVars PROVE CacheInv'
  OBVIOUS
<1>1. CASE Start
  <2>1. up = FALSE /\ UNCHANGED served /\ cache' = [cache EXCEPT !["shm"] = <<>>]
    BY <1>1 DEF Start, CacheInv
  <2>2. IsSeq(<<>>)
    BY DEF IsSeq
  <2>3. CacheType'
    BY <2>1, <2>2 DEF CacheInv, CacheType
  <2>4. QED
    BY <2>1, <2>3 DEF CacheInv
<1>2. CASE Stop
  BY <1>2 DEF Stop, CacheInv, CacheType, IsSeq
<1>3. CASE Reset
  BY <1>3 DEF Reset, CacheInv, CacheType, IsSeq
<1>4. ASSUME NEW c \in Captures, Hit(c) PROVE CacheInv'
  BY <1>4, HitFacts DEF CacheInv, CacheType, IsSeq
<1>5. CASE Miss
  <2> DEFINE c == look.cap
  <2>1. DirOf(c) \in Dirs /\ CacheType
    BY DirOfType DEF CacheInv
  <2>2. up /\ UNCHANGED up /\ served = Nothing
    BY <1>5, MissFacts
  <2>3. CASE UNCHANGED <<cache, served>>
    BY <2>2, <2>3 DEF CacheInv, CacheType, IsSeq
  <2>4. CASE ~UNCHANGED <<cache, served>>
    <3>1. PICK r \in Remaps(c) :
            \/ Cached(DirOf(c), Entry(c, look, ledger', r.frames, r.made))
                 /\ served' = Entry(c, look, ledger', r.frames, r.made)
            \/ CutShort(DirOf(c), Entry(c, look, ledger', r.frames, r.made)) /\ UNCHANGED served
      BY <1>5, <2>4, MissFacts, Zenon
    <3> DEFINE e == Entry(c, look, ledger', r.frames, r.made)
    <3>2. e.cap = c
      BY DEF Entry
    <3>3. \/ Cached(DirOf(c), e) /\ served' = e
          \/ CutShort(DirOf(c), e) /\ UNCHANGED served
      BY <3>1
    <3> HIDE DEF e, c
    <3>4. CASE Cached(DirOf(c), e) /\ served' = e
      BY <2>1, <2>2, <3>2, <3>4, CachedFacts DEF CacheInv
    <3>5. CASE CutShort(DirOf(c), e) /\ UNCHANGED served
      BY <2>1, <2>2, <3>5, CutShortFacts DEF CacheInv
    <3>6. QED
      BY <3>3, <3>4, <3>5
  <2>5. QED
    BY <2>3, <2>4
<1>6. ASSUME UNCHANGED <<cache, up, served>> PROVE CacheInv'
  BY <1>6 DEF CacheInv, CacheType, IsSeq
<1>7. CASE Tick
  BY <1>7 DEF Tick, CacheInv, CacheType, IsSeq
<1>8. CASE (\E c \in Captures : Look(c)) \/ Copy \/ Second \/ Forge \/ UNCHANGED hostVars
  BY <1>6, <1>8 DEF Look, Copy, Second, Forge, hostVars, vars
<1>9. QED
  BY <1>1, <1>2, <1>3, <1>4, <1>5, <1>7, <1>8 DEF Daemon, Next, Loop

-----------------------------------------------------------------------------
(* What a directory holds.                                                 *)

\* What the two sums of a directory's files add.
Weights(files) == [i \in 1..Len(files) |-> Weight(files[i])]
WholeWeights(files) ==
    [i \in 1..Len(files) |-> IF files[i].whole THEN Weight(files[i]) ELSE 0]

AddWeight(n, e) == n + Weight(e)
Weighing == INSTANCE ListProofs WITH Op <- AddWeight

LEMMA BytesSum ==
    ASSUME NEW files, IsSeq(files)
    PROVE  \E v : SumBy(Weights(files), Len(files), v) /\ Bytes(files) = v[Len(files)]
<1>1. PICK v : /\ Weighing!Folded(files, 0, v)
               /\ Weighing!FoldLeft(AddWeight, 0, files) = v[Len(files)]
  BY Weighing!FoldSteps DEF IsSeq
<1>2. SumBy(Weights(files), Len(files), v)
  BY <1>1 DEF Weighing!Folded, SumBy, Weights, AddWeight
<1>3. Bytes(files) = Weighing!FoldLeft(AddWeight, 0, files)
  BY DEF Bytes, AddWeight, FoldLeft, MapThenFoldSet, Max,
         Weighing!FoldLeft, Weighing!MapThenFoldSet, Weighing!Max
<1>4. QED
  BY <1>1, <1>2, <1>3

AddWhole(n, e) == n + (IF e.whole THEN Weight(e) ELSE 0)
Completing == INSTANCE ListProofs WITH Op <- AddWhole

LEMMA CompleteSum ==
    ASSUME NEW files, IsSeq(files)
    PROVE  \E v : /\ SumBy(WholeWeights(files), Len(files), v)
                  /\ CompleteBytes(files) = v[Len(files)]
<1>1. PICK v : /\ Completing!Folded(files, 0, v)
               /\ Completing!FoldLeft(AddWhole, 0, files) = v[Len(files)]
  BY Completing!FoldSteps DEF IsSeq
<1>2. SumBy(WholeWeights(files), Len(files), v)
  BY <1>1 DEF Completing!Folded, SumBy, WholeWeights, AddWhole
<1>3. CompleteBytes(files) = Completing!FoldLeft(AddWhole, 0, files)
  BY DEF CompleteBytes, AddWhole, FoldLeft, MapThenFoldSet, Max,
         Completing!FoldLeft, Completing!MapThenFoldSet, Completing!Max
<1>4. QED
  BY <1>1, <1>2, <1>3

Framed(files) == IsSeq(files) /\ \A i \in 1..Len(files) : Len(files[i].frames) \in Nat
WholeWeight(e) == IF e.whole THEN Weight(e) ELSE 0

LEMMA PutFramed ==
    ASSUME NEW files, Framed(files), NEW e, Len(e.frames) \in Nat
    PROVE  Framed(Put(files, e))
<1> DEFINE p == Put(files, e)
<1>1. IsSeq(p) /\ ToSet(p) \subseteq ToSet(files) \cup {e}
  BY PutFacts DEF Framed
<1>2. ToSet(files) = {files[i] : i \in 1..Len(files)} /\ ToSet(p) = {p[i] : i \in 1..Len(p)}
  BY <1>1, SeqFacts DEF Framed
<1> HIDE DEF p
<1>3. QED
  BY <1>1, <1>2 DEF Framed, p

LEMMA EvictedFramed ==
    ASSUME NEW files, Framed(files), Len(files) \in Nat \ {0}, NEW max
    PROVE  Framed(Evicted(files, max))
<1> DEFINE p == Evicted(files, max)
<1>1. IsSeq(p) /\ ToSet(p) \subseteq ToSet(files)
  BY EvictedFacts DEF Framed
<1>2. ToSet(files) = {files[i] : i \in 1..Len(files)} /\ ToSet(p) = {p[i] : i \in 1..Len(p)}
  BY <1>1, SeqFacts DEF Framed
<1> HIDE DEF p
<1>3. QED
  BY <1>1, <1>2 DEF Framed, p

\* The complete files are some of all.
LEMMA CompleteLess ==
    ASSUME NEW files, Framed(files)
    PROVE  CompleteBytes(files) \in Nat /\ Bytes(files) \in Nat
           /\ CompleteBytes(files) <= Bytes(files)
<1>1. PICK v : SumBy(WholeWeights(files), Len(files), v)
               /\ CompleteBytes(files) = v[Len(files)]
  BY CompleteSum DEF Framed
<1>2. PICK x : SumBy(Weights(files), Len(files), x) /\ Bytes(files) = x[Len(files)]
  BY BytesSum DEF Framed
<1>3. \A i \in 1..Len(files) : /\ WholeWeights(files)[i] \in Nat /\ Weights(files)[i] \in Nat
                               /\ WholeWeights(files)[i] <= Weights(files)[i]
  BY DEF Framed, WholeWeights, Weights, Weight
<1>4. Len(files) \in Nat
  BY SeqFacts DEF Framed
<1>5. QED
  BY <1>1, <1>2, <1>3, <1>4, SumLess

\* A file that is put adds no more than its own weight to what is complete.
LEMMA PutBytes ==
    ASSUME NEW files, Framed(files), NEW e, Len(e.frames) \in Nat
    PROVE  CompleteBytes(Put(files, e)) <= CompleteBytes(files) + WholeWeight(e)
<1> DEFINE p == Put(files, e)
           n == Len(files)
           w == WholeWeights(files)
           u == WholeWeights(p)
<1>1. Framed(p) /\ n \in Nat /\ IsSeq(files) /\ IsSeq(p)
  BY PutFramed, SeqFacts DEF Framed
<1>2. PICK v : SumBy(w, n, v) /\ CompleteBytes(files) = v[n]
  BY CompleteSum DEF Framed
<1>3. PICK x : SumBy(u, Len(p), x) /\ CompleteBytes(p) = x[Len(p)]
  BY <1>1, CompleteSum
<1>4. /\ \A i \in 1..n : w[i] = WholeWeight(files[i]) /\ w[i] \in Nat
      /\ \A i \in 1..Len(p) : u[i] = WholeWeight(p[i]) /\ u[i] \in Nat
  <2>1. \A i \in 1..n : Len(files[i].frames) \in Nat
    BY DEF Framed
  <2>2. \A i \in 1..Len(p) : Len(p[i].frames) \in Nat
    BY <1>1 DEF Framed
  <2> HIDE DEF p
  <2>3. QED
    BY <2>1, <2>2 DEF WholeWeights, WholeWeight, Weight
<1>5. v[n] \in Nat
  <2> HIDE DEF n, w
  <2>1. QED
    BY <1>1, <1>2, <1>4, SumNat
<1>6. CASE p = Append(files, e)
  <2>1. Len(p) = n + 1 /\ p[n + 1] = e /\ \A i \in 1..n : p[i] = files[i]
    BY <1>1, <1>6, AppendIsSeq
  <2>2. u[n + 1] = WholeWeight(e) /\ \A i \in 1..n : u[i] = w[i]
    <3> HIDE DEF p, u, w, n
    <3>1. n + 1 \in 1..Len(p) /\ \A i \in 1..n : i \in 1..Len(p)
      BY <1>1, <2>1
    <3>2. QED
      BY <1>4, <2>1, <3>1
  <2> HIDE DEF p, u, w, n
  <2>3. x[n + 1] = v[n] + u[n + 1]
    BY <1>1, <1>2, <1>3, <1>4, <2>1, <2>2, SumMore
  <2>4. u[n + 1] \in Nat
    BY <1>1, <1>4, <2>1
  <2>5. QED
    BY <1>2, <1>3, <1>5, <2>1, <2>2, <2>3, <2>4 DEF p
<1>7. ASSUME NEW i \in 1..n, Replaces(files, e, i, p)
      PROVE  CompleteBytes(p) <= CompleteBytes(files) + WholeWeight(e)
  <2>1. /\ Len(p) = n /\ p[n] = e
        /\ \A j \in 1..(i - 1) : p[j] = files[j]
        /\ \A j \in i..(n - 1) : p[j] = files[j + 1]
    BY <1>7 DEF Replaces
  <2> HIDE DEF p, u, w, n
  <2>2. u[n] = WholeWeight(e)
    BY <1>1, <1>4, <2>1
  <2>3. \A j \in 1..(i - 1) : u[j] = w[j]
    <3>1. \A j \in 1..(i - 1) : j \in 1..n
      BY <1>1
    <3>2. QED
      BY <1>4, <2>1, <3>1
  <2>4. \A j \in i..(n - 1) : u[j] = w[j + 1]
    <3>1. \A j \in i..(n - 1) : j \in 1..n /\ j + 1 \in 1..n
      BY <1>1
    <3>2. QED
      BY <1>4, <2>1, <3>1
  <2>5. x[n] + w[i] = v[n] + u[n]
    <3>1. /\ SumBy(u, n, x) /\ \A j \in 1..n : u[j] \in Nat
          /\ \A j \in 1..n : w[j] \in Nat
      BY <1>3, <1>4, <2>1
    <3>2. QED
      BY <1>1, <1>2, <2>3, <2>4, <3>1, SumReplaced
  <2>6. x[n] \in Nat
    BY <1>1, <1>3, <1>4, <2>1, SumNat
  <2>7. w[i] \in Nat /\ u[n] \in Nat
    BY <1>1, <1>4, <2>1
  <2>8. QED
    BY <1>2, <1>3, <1>5, <2>1, <2>2, <2>5, <2>6, <2>7
<1> HIDE DEF p
<1>8. QED
  BY <1>6, <1>7, PutShape DEF Framed, p
LEMMA CompleteFinite ==
    ASSUME NEW files, IsSeq(files)
    PROVE  /\ Complete(files) = {i \in 1..Len(files) : files[i].whole}
           /\ IsFiniteSet(Complete(files))
           /\ Cardinality(Complete(files)) \in Nat
           /\ Len(files) = 1 => Cardinality(Complete(files)) <= 1
<1>1. Len(files) \in Nat /\ Complete(files) = {i \in 1..Len(files) : files[i].whole}
  BY SeqFacts DEF Complete
<1>2. IsFiniteSet(1..Len(files)) /\ Cardinality(1..Len(files)) = Len(files)
  <2> DEFINE n == Len(files)
  <2> HIDE DEF n
  <2>1. n \in Nat
    BY <1>1 DEF n
  <2>2. IsFiniteSet(1..n) /\ Cardinality(1..n) = n
    BY <2>1, FS_Interval
  <2>3. QED
    BY <2>2 DEF n
<1>3. Complete(files) \in SUBSET (1..Len(files))
  BY <1>1
<1>4. QED
  BY <1>1, <1>2, <1>3, FS_Subset, FS_CardinalityType

\* A file that was cut is none more of the complete ones.
LEMMA PutFew ==
    ASSUME NEW files, IsSeq(files), NEW e, ~e.whole
    PROVE  Cardinality(Complete(Put(files, e))) <= Cardinality(Complete(files))
<1> DEFINE p == Put(files, e)
           n == Len(files)
           C == Complete(files)
           P == Complete(p)
<1>1. IsSeq(p) /\ n \in Nat
  BY PutFacts, SeqFacts
<1>2. /\ C = {i \in 1..n : files[i].whole} /\ IsFiniteSet(C)
      /\ P = {i \in 1..Len(p) : p[i].whole} /\ IsFiniteSet(P)
  BY <1>1, CompleteFinite
<1> HIDE DEF C, P, p
<1>3. CASE p = Append(files, e)
  <2>1. Len(p) = n + 1 /\ p[n + 1] = e /\ \A i \in 1..n : p[i] = files[i]
    BY <1>1, <1>3, AppendIsSeq
  <2> HIDE DEF n
  <2>2. P \in SUBSET C
    <3> SUFFICES ASSUME NEW i \in P PROVE i \in C
      OBVIOUS
    <3>1. i \in 1..(n + 1) /\ p[i].whole
      BY <1>2, <2>1
    <3>2. i # n + 1
      BY <2>1, <3>1
    <3>3. i \in 1..n
      BY <1>1, <3>1, <3>2
    <3>4. QED
      BY <1>2, <2>1, <3>1, <3>3
  <2>3. QED
    BY <1>2, <2>2, FS_Subset DEF C, P, p
<1>4. ASSUME NEW i \in 1..n, Replaces(files, e, i, p)
      PROVE  Cardinality(P) <= Cardinality(C)
  <2>1. /\ Len(p) = n /\ p[n] = e
        /\ \A j \in 1..(i - 1) : p[j] = files[j]
        /\ \A j \in i..(n - 1) : p[j] = files[j + 1]
    BY <1>4 DEF Replaces
  <2> HIDE DEF n
  <2> DEFINE f == [j \in P |-> IF j < i THEN j ELSE j + 1]
  <2>2. ASSUME NEW j \in P PROVE f[j] \in C /\ j \in 1..(n - 1)
    <3>1. j \in 1..n /\ p[j].whole
      BY <1>2, <2>1
    <3>2. j # n
      BY <2>1, <3>1
    <3>3. j \in 1..(n - 1)
      BY <1>1, <3>1, <3>2
    <3>4. CASE j < i
      <4>1. j \in 1..(i - 1)
        BY <3>3, <3>4
      <4>2. QED
        BY <1>2, <2>1, <3>1, <3>3, <3>4, <4>1
    <3>5. CASE ~(j < i)
      <4>1. j \in i..(n - 1) /\ j + 1 \in 1..n
        BY <1>1, <3>3, <3>5
      <4>2. p[j] = files[j + 1]
        BY <2>1, <4>1
      <4>3. QED
        BY <1>2, <3>1, <3>3, <3>5, <4>1, <4>2
    <3>6. QED
      BY <3>4, <3>5
  <2>3. OneToOne(f)
    <3>1. \A j, k \in P : f[j] = f[k] => j = k
      BY <1>1, <2>2
    <3>2. QED
      BY <3>1 DEF OneToOne
  <2>4. DOMAIN f = P /\ {f[j] : j \in P} \in SUBSET C
    BY <2>2
  <2> HIDE DEF f
  <2>5. Cardinality({f[j] : j \in P}) = Cardinality(P)
    BY <1>2, <2>3, <2>4, ImageCardinality
  <2>6. Cardinality({f[j] : j \in P}) <= Cardinality(C)
    BY <1>2, <2>4, FS_Subset
  <2>7. QED
    BY <2>5, <2>6
<1>5. QED
  BY <1>3, <1>4, PutShape DEF P, C, p

\* The estimate is never less than what is complete.
BoundOf(d) ==
    /\ Framed(cache[d])
    /\ known[d] \in Nat \cup {Unknown}
    /\ known[d] # Unknown => CompleteBytes(cache[d]) <= known[d]
    /\ CompleteBytes(cache[d]) <= Budget[d] \/ Cardinality(Complete(cache[d])) <= 1
BoundInv ==
    /\ cache = [d \in Dirs |-> cache[d]] /\ known = [d \in Dirs |-> known[d]]
    /\ \A d \in Dirs : BoundOf(d)

LEMMA EmptyBound ==
    /\ Framed(<<>>) /\ CompleteBytes(<<>>) = 0
    /\ Cardinality(Complete(<<>>)) <= 1
<1>1. Framed(<<>>)
  BY EmptyIsSeq DEF Framed
<1>2. CompleteBytes(<<>>) = 0
  <2>1. PICK v : SumBy(WholeWeights(<<>>), 0, v) /\ CompleteBytes(<<>>) = v[0]
    BY EmptyIsSeq, CompleteSum
  <2>2. QED
    BY <2>1 DEF SumBy
<1>3. Cardinality(Complete(<<>>)) <= 1
  <2>1. Complete(<<>>) = {}
    BY EmptyIsSeq, CompleteFinite
  <2>2. QED
    BY <2>1, FS_EmptySet
<1>4. QED
  BY <1>1, <1>2, <1>3

\* One directory, and its estimate, are changed.
LEMMA BoundChanges ==
    ASSUME BoundInv, NEW dir \in Dirs, NEW files, Framed(files), NEW size,
           cache' = [cache EXCEPT ![dir] = files], known' = [known EXCEPT ![dir] = size],
           size \in Nat \cup {Unknown},
           size # Unknown => CompleteBytes(files) <= size,
           CompleteBytes(files) <= Budget[dir] \/ Cardinality(Complete(files)) <= 1
    PROVE  BoundInv'
<1>1. /\ cache' = [d \in Dirs |-> IF d = dir THEN files ELSE cache[d]]
      /\ known' = [d \in Dirs |-> IF d = dir THEN size ELSE known[d]]
  BY DEF BoundInv
<1>2. cache' = [d \in Dirs |-> cache'[d]] /\ known' = [d \in Dirs |-> known'[d]]
  BY <1>1
<1>3. ASSUME NEW d \in Dirs PROVE BoundOf(d)'
  <2>1. CASE d = dir
    <3>1. cache'[d] = files /\ known'[d] = size
      BY <1>1, <2>1
    <3>2. QED
      BY <2>1, <3>1 DEF BoundOf
  <2>2. CASE d # dir
    <3>1. cache'[d] = cache[d] /\ known'[d] = known[d] /\ BoundOf(d)
      BY <1>1, <2>2 DEF BoundInv
    <3>2. QED
      BY <3>1 DEF BoundOf
  <2>3. QED
    BY <2>1, <2>2
<1>4. QED
  BY <1>2, <1>3 DEF BoundInv

LEMMA CachedBound ==
    ASSUME BoundInv, NEW dir \in Dirs, NEW e, Len(e.frames) \in Nat, Cached(dir, e)
    PROVE  BoundInv'
<1> DEFINE files == Put(cache[dir], e)
           projected == IF known[dir] = Unknown THEN Bytes(files) ELSE known[dir] + Weight(e)
           most == Budget[dir]
           left == IF projected > most THEN Evicted(files, most) ELSE files
           size == IF projected > most THEN Bytes(left) ELSE projected
<1>1. cache' = [cache EXCEPT ![dir] = left] /\ known' = [known EXCEPT ![dir] = size]
  BY Zenon DEF Cached
<1>2. BoundOf(dir) /\ most \in Nat
  BY LimitsAssumption DEF BoundInv
<1>3. Framed(files) /\ IsSeq(files) /\ Len(files) \in Nat \ {0}
  BY <1>2, PutFramed, PutFacts DEF BoundOf, Framed
<1>4. CompleteBytes(files) <= CompleteBytes(cache[dir]) + WholeWeight(e)
  BY <1>2, PutBytes DEF BoundOf
<1>5. CompleteBytes(files) \in Nat /\ Bytes(files) \in Nat
      /\ CompleteBytes(files) <= Bytes(files) /\ CompleteBytes(cache[dir]) \in Nat
  BY <1>2, <1>3, CompleteLess DEF BoundOf
<1>6. Weight(e) \in Nat /\ WholeWeight(e) \in Nat /\ WholeWeight(e) <= Weight(e)
  BY DEF Weight, WholeWeight
<1> HIDE DEF files, most
<1>7. projected \in Nat /\ CompleteBytes(files) <= projected
  <2>1. CASE known[dir] = Unknown
    BY <1>5, <2>1
  <2>2. CASE known[dir] # Unknown
    <3>1. known[dir] \in Nat /\ CompleteBytes(cache[dir]) <= known[dir]
      BY <1>2, <2>2 DEF BoundOf
    <3>2. QED
      BY <1>4, <1>5, <1>6, <2>2, <3>1
  <2>3. QED
    BY <2>1, <2>2
<1> HIDE DEF projected
<1>8. /\ Framed(left) /\ size \in Nat /\ CompleteBytes(left) <= size
      /\ CompleteBytes(left) <= most \/ Cardinality(Complete(left)) <= 1
  <2>1. CASE projected > most
    <3> DEFINE f == Evicted(files, most)
    <3>1. Framed(f) /\ (Bytes(f) <= most \/ Len(f) = 1)
      BY <1>3, EvictedFramed, EvictedFacts
    <3> HIDE DEF f
    <3>2. CompleteBytes(f) \in Nat /\ Bytes(f) \in Nat /\ CompleteBytes(f) <= Bytes(f)
      BY <3>1, CompleteLess
    <3>3. Len(f) = 1 => Cardinality(Complete(f)) <= 1
      BY <3>1, CompleteFinite DEF Framed
    <3>4. left = f /\ size = Bytes(f)
      BY <2>1 DEF f
    <3> HIDE DEF left, size
    <3>5. QED
      BY <1>2, <3>1, <3>2, <3>3, <3>4
  <2>2. CASE ~(projected > most)
    <3>1. left = files /\ size = projected
      BY <2>2
    <3> HIDE DEF left, size
    <3>2. QED
      BY <1>2, <1>3, <1>5, <1>7, <2>2, <3>1
  <2>3. QED
    BY <2>1, <2>2
<1> HIDE DEF left, size
<1>9. QED
  BY <1>1, <1>8, BoundChanges DEF most

LEMMA CutShortBound ==
    ASSUME BoundInv, NEW dir \in Dirs, NEW c, NEW at, NEW l, NEW frames, IsSeq(frames), NEW made,
           CutShort(dir, Entry(c, at, l, frames, made)), UNCHANGED known
    PROVE  BoundInv'
<1> DEFINE e == Entry(c, at, l, frames, made)
<1>1. PICK k \in 0..Len(e.frames) - 1 :
        cache' = [cache EXCEPT ![dir] =
                     Put(cache[dir], [e EXCEPT !.frames = SubSeq(e.frames, 1, k), !.whole = FALSE])]
  BY Zenon DEF CutShort
<1> DEFINE x == [e EXCEPT !.frames = SubSeq(e.frames, 1, k), !.whole = FALSE]
           files == Put(cache[dir], x)
<1>2. e.frames = frames /\ x.whole = FALSE /\ x.frames = SubSeq(frames, 1, k)
  BY DEF Entry
<1>3. Len(frames) \in Nat
  BY SeqFacts
<1> HIDE DEF e
<1>4. Len(x.frames) \in Nat
  <2>1. 1 \in Nat \ {0} /\ k \in 0..Len(frames) /\ 1 <= k + 1
    BY <1>2, <1>3
  <2>2. SubSeq(frames, 1, k) \in Seq(ToSet(frames))
    BY <2>1, SubSeqFacts
  <2>3. QED
    BY <1>2, <2>2, LenProperties
<1> HIDE DEF x
<1>5. /\ BoundOf(dir) /\ IsSeq(cache[dir])
      /\ known[dir] # Unknown => known[dir] \in Nat
  BY DEF BoundInv, BoundOf, Framed
<1>6. Framed(files)
  BY <1>4, <1>5, PutFramed DEF BoundOf
<1>7. CompleteBytes(files) <= CompleteBytes(cache[dir]) + WholeWeight(x)
  BY <1>4, <1>5, PutBytes DEF BoundOf
<1>8. Cardinality(Complete(files)) <= Cardinality(Complete(cache[dir]))
  BY <1>2, <1>5, PutFew
<1>9. /\ WholeWeight(x) = 0
      /\ CompleteBytes(files) \in Nat /\ CompleteBytes(cache[dir]) \in Nat
      /\ Cardinality(Complete(files)) \in Nat /\ Cardinality(Complete(cache[dir])) \in Nat
  BY <1>2, <1>5, <1>6, CompleteLess, CompleteFinite DEF WholeWeight, BoundOf, Framed
<1>10. Budget[dir] \in Nat
  BY LimitsAssumption
<1> HIDE DEF files
<1>11. cache' = [cache EXCEPT ![dir] = files]
  BY <1>1 DEF files, x
<1>12. known' = [known EXCEPT ![dir] = known[dir]]
  BY DEF BoundInv
<1>13. /\ known[dir] # Unknown => CompleteBytes(files) <= known[dir]
       /\ CompleteBytes(files) <= Budget[dir] \/ Cardinality(Complete(files)) <= 1
  BY <1>5, <1>7, <1>8, <1>9, <1>10 DEF BoundOf
<1>14. QED
  BY <1>5, <1>6, <1>11, <1>12, <1>13, BoundChanges DEF BoundOf

-----------------------------------------------------------------------------
(* What a remap gives.                                                     *)

\* A remap into the plan ends with some assignment, of hosts to addresses.
LEMMA ReconcileEnds ==
    ASSUME NEW cap, NEW groups, NEW zones, NEW registered, NEW deviceMacs,
           NEW reservedMacs, NEW budget
    PROVE  \E end, macs :
             Reconcile(cap, groups, zones, registered, deviceMacs, reservedMacs, budget)
               = [new |-> end.new, map |-> end.map,
                  frames |-> Cleaned(ApplyHostMap(cap, end.map, macs), end.map)]
  BY Zenon DEF Reconcile

LEMMA RemapsFramed ==
    ASSUME SourceInv, NEW c \in Captures, NEW r \in Remaps(c)
    PROVE  IsSeq(r.frames)
<1>1. IsSeq(source[c])
  BY DEF SourceInv
<1>2. \A map, macs : IsSeq(Thinned(Cleaned(ApplyHostMap(source[c], map, macs), map)))
  BY <1>1, AppliedFacts, CleanedFacts, ThinnedFacts
<1>3. CASE ledger.zones = {}
  <2>1. PICK fresh : r = [new |-> <<>>, made |-> "random",
                          frames |-> Thinned(RemapCapture(source[c], fresh))]
    BY <1>3, Zenon DEF Remaps
  <2>2. r.frames = Thinned(RemapCapture(source[c], fresh))
    BY <2>1
  <2>3. QED
    BY <1>2, <2>2 DEF RemapCapture
<1>4. CASE ledger.zones # {}
  <2> DEFINE budget == IF WireAssets(ledger) >= AssetCap THEN 0 ELSE AssetCap - WireAssets(ledger)
             R(groups) == Reconcile(source[c], groups, ZoneTargets(ledger),
                                    RegisteredOrigins(ledger), DeviceMacMap(ledger),
                                    UsedMacs(ledger), budget)
  <2>1. PICK groups : r = [new |-> R(groups).new, made |-> "plan",
                           frames |-> Thinned(R(groups).frames)]
    BY <1>4, Zenon DEF Remaps
  <2>2. PICK end, macs : R(groups) = [new |-> end.new, map |-> end.map,
            frames |-> Cleaned(ApplyHostMap(source[c], end.map, macs), end.map)]
    <3> HIDE DEF budget
    <3>1. QED
      BY ReconcileEnds
  <2> HIDE DEF R
  <2>3. r.frames = Thinned(Cleaned(ApplyHostMap(source[c], end.map, macs), end.map))
    BY <2>1, <2>2
  <2>4. QED
    BY <1>2, <2>3
<1>5. QED
  BY <1>3, <1>4

\* What a remap that is not served from the cache writes.
LEMMA MissWrites ==
    ASSUME SourceInv, LookInv, Miss, ~UNCHANGED <<cache, known>>
    PROVE  \E frames : IsSeq(frames) /\ \E made :
             LET e == Entry(look.cap, look, ledger', frames, made)
             IN  \/ Cached(DirOf(look.cap), e)
                 \/ CutShort(DirOf(look.cap), e) /\ UNCHANGED known
<1>1. PICK r \in Remaps(look.cap) :
        LET e == Entry(look.cap, look, ledger', r.frames, r.made)
        IN  \/ Cached(DirOf(look.cap), e)
            \/ CutShort(DirOf(look.cap), e) /\ UNCHANGED known
  BY MissFacts, Zenon
<1>2. IsSeq(r.frames)
  BY MissFacts, RemapsFramed
<1>3. QED
  BY <1>1, <1>2, Zenon

LEMMA BoundInit == EitherInit => BoundInv
<1> SUFFICES ASSUME EitherInit PROVE BoundInv
  OBVIOUS
<1>1. cache = [d \in Dirs |-> <<>>] /\ known = [d \in Dirs |-> Unknown]
  BY DEF EitherInit, Init
<1>2. QED
  BY <1>1, EmptyBound DEF BoundInv, BoundOf

LEMMA BoundStep ==
    SourceInv /\ LookInv /\ BoundInv /\ [Daemon \/ Forge]_hostVars => BoundInv'
<1> SUFFICES ASSUME SourceInv, LookInv, BoundInv, [Daemon \/ Forge]_hostVars PROVE BoundInv'
  OBVIOUS
<1> USE DEF BoundInv, BoundOf
<1>1. CASE Start
  <2>1. /\ cache' = [cache EXCEPT !["shm"] = <<>>]
        /\ known' = [d \in Dirs |-> Unknown]
    BY <1>1 DEF Start
  <2>2. \A d \in Dirs : cache'[d] \in {<<>>, cache[d]} /\ known'[d] = Unknown
    BY <2>1
  <2>3. /\ cache' = [d \in Dirs |-> cache'[d]] /\ known' = [d \in Dirs |-> known'[d]]
    BY <2>1
  <2>4. \A d \in Dirs : Budget[d] \in Nat
    BY LimitsAssumption
  <2>5. QED
    BY <2>2, <2>3, <2>4, EmptyBound
<1>2. CASE Stop
  <2>1. UNCHANGED cache /\ known' = [d \in Dirs |-> Unknown]
    BY <1>2 DEF Stop
  <2>2. QED
    BY <2>1
<1>3. CASE UNCHANGED <<cache, known>>
  BY <1>3
<1>4. CASE Miss /\ ~UNCHANGED <<cache, known>>
  <2> DEFINE c == look.cap
  <2>1. PICK frames : IsSeq(frames) /\ \E made :
             LET e == Entry(c, look, ledger', frames, made)
             IN  Cached(DirOf(c), e) \/ (CutShort(DirOf(c), e) /\ UNCHANGED known)
    BY <1>4, MissWrites, Zenon
  <2>2. PICK made :
             \/ Cached(DirOf(c), Entry(c, look, ledger', frames, made))
             \/ CutShort(DirOf(c), Entry(c, look, ledger', frames, made)) /\ UNCHANGED known
    BY <2>1, Zenon
  <2>3. DirOf(c) \in Dirs
    BY DirOfType
  <2>4. Len(Entry(c, look, ledger', frames, made).frames) \in Nat
    BY <2>1, SeqFacts DEF Entry
  <2> HIDE DEF BoundInv, BoundOf, c
  <2>5. CASE Cached(DirOf(c), Entry(c, look, ledger', frames, made))
    BY <2>3, <2>4, <2>5, CachedBound
  <2>6. CASE CutShort(DirOf(c), Entry(c, look, ledger', frames, made)) /\ UNCHANGED known
    BY <2>1, <2>3, <2>6, CutShortBound
  <2>7. QED
    BY <2>2, <2>5, <2>6
<1> HIDE DEF BoundInv, BoundOf
<1>5. CASE Reset \/ Tick \/ Copy \/ Second \/ \E c \in Captures : Hit(c) \/ Look(c)
  BY <1>3, <1>5 DEF Reset, Tick, Copy, Second, Hit, Look
<1>6. CASE Forge \/ UNCHANGED hostVars
  BY <1>3, <1>6 DEF Forge, hostVars, vars
<1>7. QED
  BY <1>1, <1>2, <1>3, <1>4, <1>5, <1>6 DEF Daemon, Next, Loop

-----------------------------------------------------------------------------
(* The theorems of the cache.                                              *)

\* simulate/engine.rs:281, 1098: what is being sent is in the cache, whatever was
\* evicted to make room for it.
THEOREM SentIsCached == EitherSpec => []ServedStays
<1>1. CacheInv => ServedStays
  BY DEF CacheInv, ServedStays, Sending
<1>2. EitherSpec => [](LookInv /\ CacheInv)
  BY LookInit, LookStep, CacheInit, CacheStep, PTL DEF EitherSpec, hostVars
<1>3. QED
  BY <1>1, <1>2, PTL

\* simulate/engine.rs:280-283, 1096-1118: the complete files of a cache directory fit
\* its budget, or there is only the one just written, however many files were cut
\* short, and though the estimate of what is there is seldom right.
THEOREM CacheIsBounded == EitherSpec => []CacheBounded
<1>1. BoundInv => CacheBounded
  BY DEF BoundInv, BoundOf, CacheBounded
<1>2. EitherSpec => [](ForgeInv /\ SourceInv /\ LookInv /\ BoundInv)
  BY ForgeInit, ForgeStep, SourceInit, SourceStep, LookInit, LookStep, BoundInit, BoundStep, PTL
     DEF EitherSpec, hostVars
<1>3. QED
  BY <1>1, <1>2, PTL
=============================================================================
