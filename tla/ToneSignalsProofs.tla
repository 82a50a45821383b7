------------------------- MODULE ToneSignalsProofs -------------------------
(***************************************************************************)
(* Proofs about ToneSignals for any size of a card's buffer, any stretch   *)
(* of waiting, priming and idling, and any number of lost reports: how     *)
(* long a release waits for the connect signal.                            *)
(***************************************************************************)
EXTENDS ToneSignals, SequenceTheorems, TLAPS

Sigs == {None, "connected", "released", "refused"}
Frames == [of : Sigs \cup {"game"}, note : {"low", "high", "lower", "silence"}, pulse : BOOLEAN]

\* The stages of a signal, each way's own.
BtStages == {"wait", "takeover", "prime", "voice", "tail", "quiet"}
Ds4Stages == {"configure", "report", "stop"}
CardStages == {"decide", "write", "idle", "breathe"}
StagesOf(way) ==
    {"end"} \cup CASE way = "ds5bt" -> BtStages [] way = "ds4bt" -> Ds4Stages
                   [] way = "card" -> CardStages [] OTHER -> {"breathe"}
Stages == {"end"} \cup BtStages \cup Ds4Stages \cup CardStages

Playing == [sig : Sigs, at : Int, stage : Stages, prime : Int, twice : BOOLEAN, todo : Seq(Frames)]

\* What a wait depends on, by type.
Types ==
    /\ set \in [way : Ways, tone : BOOLEAN, light : BOOLEAN, rumble : BOOLEAN,
                game : BOOLEAN, cap : Caps]
    /\ fresh \in BOOLEAN
    /\ life \in {"idle", "bridged", "asked", "closed"}
    /\ play \in Playing
    /\ queue \in Seq(Frames)
    /\ late \in Nat

\* A stage belongs to the way, a light alone is played for a session that shows it, and
\* the card has room for at least one frame after each of its steps.
InPlace ==
    /\ play.stage \in StagesOf(set.way)
    /\ set.way = "light" => play.sig # "refused"
    /\ set.way = "light" /\ play.stage = "breathe" => set.light
    /\ Len(queue) < set.cap

\* A first play on a card and its idling; and what there is of a wait before the card breathes.
Repeat == Span + CardWait + CardIdle
Sounded == IF set.way = "card" THEN Span + Repeat ELSE 0

\* What a release may have waited by now, stage by stage.
SoFar ==
    CASE play.stage = "voice" -> play.at \in 0 .. Voice - 1 /\ late <= play.at
      [] play.stage = "tail"  -> late <= Voice
      [] play.stage = "quiet" -> play.at \in 0 .. BtDrain - 1 /\ late <= Voice + play.at
      [] play.stage = "write" ->
            /\ play.at \in 0 .. Span - 1 /\ Len(play.todo) \in 1 .. Span - play.at
            /\ late <= (IF play.twice THEN 0 ELSE Repeat) + play.at
      [] play.stage = "idle"  ->
            play.at \in 0 .. CardWait + CardIdle - 1 /\ late <= Span + play.at
      [] play.stage = "breathe" ->
            IF Breathes THEN play.at \in Nat /\ (late <= Sounded \/ (late <= Sounded + 1 /\ Steps))
            ELSE play.at \in 0 .. CardWait /\ late <= Sounded + play.at
      [] play.stage = "end"   -> CutInTime
      [] OTHER                -> late = 0

\* Only a connect signal is waited for, and only by a release that asked.
IInv == Types /\ InPlace /\ SoFar /\ (~Cancelled => late = 0)

-----------------------------------------------------------------------------
(* Lengths and queues. *)

\* The lengths of what is played.
LEMMA Lengths ==
    /\ Voice = 32 /\ Span = 37 /\ CardWait = 41 /\ BtDrain = 30
    /\ BtWait \in Nat /\ CardIdle \in Nat \ {0} /\ Repeat = 78 + CardIdle
    /\ \A c \in Caps : c \in Nat \ {0}
BY BoundsAssumption DEF Voice, Span, CardWait, BtDrain, BtTone, BtGap, CardTone, CardGap, CardMargin, Repeat

\* What is played of a signal on a card is Span frames.
LEMMA SamplesAre ==
    ASSUME Types, NEW sig \in Sigs, NEW pulse \in BOOLEAN
    PROVE  Samples(sig, pulse) \in Seq(Frames) /\ Len(Samples(sig, pulse)) = Span
<1>1. \A i \in 1 .. Span : NoteAt(sig, i - 1, CardNotes, CardGap) \in {"low", "high", "lower", "silence"}
  BY DEF NoteAt, First, Second
<1>2. set.rumble \in BOOLEAN
  BY DEF Types
<1> DEFINE f(i) == [of |-> sig, note |-> NoteAt(sig, i - 1, CardNotes, CardGap),
                    pulse |-> pulse /\ set.rumble]
<1>3. \A i \in 1 .. Span : f(i) \in Frames
  BY <1>1, <1>2 DEF Frames
<1>4. Samples(sig, pulse) = [i \in 1 .. Span |-> f(i)]
  BY DEF Samples
<1> HIDE DEF f
<1> QED
  BY <1>3, <1>4, Lengths

\* A game adds a frame where there is room for one.
LEMMA GameFits ==
    ASSUME Types, InPlace
    PROVE  WithGame \in Seq(Frames) /\ Len(WithGame) <= set.cap
<1>1. Game \in Frames
  BY DEF Game, Frames
<1>2. queue \in Seq(Frames) /\ Len(queue) < set.cap /\ set.cap \in Nat /\ Len(queue) \in Nat
  BY Lengths DEF Types, InPlace
<1>3. Append(queue, Game) \in Seq(Frames) /\ Len(Append(queue, Game)) = Len(queue) + 1
  BY <1>1, <1>2
<1> QED
  BY <1>2, <1>3 DEF WithGame

\* A frame played leaves room for one.
LEMMA RestFits ==
    ASSUME Types, NEW q \in Seq(Frames), Len(q) <= set.cap
    PROVE  Rest(q) \in Seq(Frames) /\ Len(Rest(q)) < set.cap
<1>1. set.cap \in Nat \ {0}
  BY Lengths DEF Types
<1>2. CASE q = <<>>
  BY <1>1, <1>2 DEF Rest
<1>3. CASE q # <<>>
  <2>1. Tail(q) \in Seq(Frames) /\ Len(Tail(q)) = Len(q) - 1 /\ Len(q) \in Nat
    BY <1>3
  <2> QED
    BY <1>1, <1>3, <2>1 DEF Rest
<1> QED
  BY <1>2, <1>3

\* A signal that goes on is the same signal.
LEMMA GoesOn ==
    ASSUME Types, NEW stage \in Stages, NEW at \in Int, Goes(stage, at)
    PROVE  /\ play' \in Playing
           /\ play'.stage = stage /\ play'.at = at
           /\ play'.sig = play.sig /\ play'.twice = play.twice /\ play'.todo = play.todo
BY DEF Types, Goes, Playing

-----------------------------------------------------------------------------
(* The steps. *)

LEMMA Initially == Init => IInv
<1> SUFFICES ASSUME Init PROVE IInv
  OBVIOUS
<1>1. /\ play = [sig |-> "none", at |-> 0, stage |-> "end", prime |-> 0, twice |-> FALSE,
                 todo |-> <<>>]
      /\ life = "idle" /\ queue = <<>> /\ late = 0 /\ fresh \in BOOLEAN
      /\ set \in [way : Ways, tone : BOOLEAN, light : BOOLEAN, rumble : BOOLEAN,
                  game : BOOLEAN, cap : Caps]
  BY DEF Init, NoPlay, None
<1>2. <<>> \in Seq(Frames) /\ Len(<<>>) = 0
  OBVIOUS
<1>3. Types
  BY <1>1, <1>2 DEF Types, Sigs, None, Stages, Playing
<1>4. InPlace
  BY <1>1, <1>2, Lengths DEF InPlace, StagesOf
<1>5. SoFar
  BY <1>1, Lengths DEF SoFar, CutInTime
<1> QED
  BY <1>1, <1>3, <1>4, <1>5 DEF IInv

\* The stages of a Bluetooth DualSense: the voice and the drain count, nothing else.
LEMMA BtKeeps ==
    ASSUME IInv, BtWaits \/ BtTakesOver \/ BtPrimes \/ BtVoices \/ BtTails \/ BtQuiets
    PROVE  IInv'
<1>1. /\ UNCHANGED <<set, fresh, life, queue>> /\ play.stage \in BtStages
      /\ late' \in {late, IF Cancelled THEN late + 1 ELSE late}
  BY DEF BtWaits, BtTakesOver, BtPrimes, BtVoices, BtTails, BtQuiets, Later, BtStages
<1>2. set.way = "ds5bt"
  BY <1>1 DEF IInv, InPlace, StagesOf, BtStages, Ds4Stages, CardStages
<1>0. /\ Types /\ InPlace /\ SoFar /\ (~Cancelled => late = 0)
      /\ play \in Playing /\ play.at \in Int /\ play.at + 1 \in Int /\ late \in Nat
      /\ {"wait", "takeover", "prime", "voice", "tail", "quiet", "end"} \subseteq Stages
  BY DEF IInv, Types, Playing, Stages, BtStages
<1> DEFINE on == /\ play' \in Playing /\ play'.stage \in {"end"} \cup BtStages
                 /\ play'.sig = play.sig
<1>3. CASE BtWaits
  <2>1. Goes("wait", play.at + 1) \/ Goes("takeover", 0)
    BY <1>3 DEF BtWaits
  <2>2. /\ on /\ play'.stage \in {"wait", "takeover"}
    BY <1>0, <2>1, GoesOn DEF BtStages
  <2>3. late' = late /\ late = 0
    BY <1>0, <1>3 DEF BtWaits, SoFar
  <2>4. SoFar'
    BY <2>2, <2>3 DEF SoFar
  <2> QED
    BY <1>0, <1>1, <1>2, <2>2, <2>3, <2>4 DEF IInv, Types, InPlace, StagesOf
<1>4. CASE BtTakesOver
  <2> DEFINE prime == IF ~set.tone THEN 0 ELSE IF primed THEN BtPrime ELSE 3 * BtPrime
             back == -prime
  <2>1. prime \in Int /\ back \in Int
    BY BoundsAssumption
  <2>2. /\ play' = [play EXCEPT !.stage = "prime", !.at = back, !.prime = prime]
        /\ late' = late /\ play.stage = "takeover"
    BY <1>4 DEF BtTakesOver
  <2> HIDE DEF prime, back
  <2>3. on /\ play'.stage = "prime"
    <3>1. play' \in Playing
      BY <1>0, <2>1, <2>2 DEF Playing
    <3>2. play'.stage = "prime" /\ play'.sig = play.sig
      BY <1>0, <2>2 DEF Playing
    <3> QED
      BY <3>1, <3>2 DEF BtStages
  <2>4. SoFar' /\ late = 0
    BY <1>0, <2>2, <2>3 DEF SoFar
  <2> QED
    BY <1>0, <1>1, <1>2, <2>2, <2>3, <2>4 DEF IInv, Types, InPlace, StagesOf
<1>5. CASE BtPrimes
  <2>1. late' = late /\ play.stage = "prime"
    BY <1>5 DEF BtPrimes, Later
  <2>2. Goes("prime", play.at + 1) \/ Goes("quiet", 0) \/ Goes("voice", 0)
    BY <1>5 DEF BtPrimes
  <2>3. on /\ (play'.stage = "prime" \/ (play'.stage \in {"voice", "quiet"} /\ play'.at = 0))
    BY <1>0, <2>2, GoesOn DEF BtStages
  <2>4. late = 0
    BY <1>0, <2>1 DEF SoFar
  <2>5. SoFar'
    BY <2>1, <2>3, <2>4, Lengths DEF SoFar
  <2> QED
    BY <1>0, <1>1, <1>2, <2>1, <2>3, <2>4, <2>5 DEF IInv, Types, InPlace, StagesOf
<1>6. CASE BtVoices
  <2>1. Goes(IF play.at + 1 < Voice THEN "voice" ELSE "tail", play.at + 1)
        /\ play.stage = "voice"
    BY <1>6 DEF BtVoices
  <2>2. /\ on /\ play'.at = play.at + 1
        /\ play'.stage = IF play.at + 1 < Voice THEN "voice" ELSE "tail"
    BY <1>0, <2>1, GoesOn DEF BtStages
  <2>3. /\ play.at \in 0 .. Voice - 1 /\ late <= play.at
        /\ late' \in Nat /\ late' <= late + 1
    BY <1>0, <1>1, <2>1 DEF SoFar
  <2>4. CASE play.at + 1 < Voice
    <3>1. play'.at \in 0 .. Voice - 1 /\ late' <= play'.at /\ play'.stage = "voice"
      BY <1>0, <2>2, <2>3, <2>4, Lengths
    <3> QED
      BY <1>0, <1>1, <1>2, <2>2, <2>3, <3>1 DEF IInv, Types, InPlace, StagesOf, SoFar, Cancelled
  <2>5. CASE ~(play.at + 1 < Voice)
    <3>1. late' <= Voice /\ play'.stage = "tail"
      BY <1>0, <2>2, <2>3, <2>5, Lengths
    <3> QED
      BY <1>0, <1>1, <1>2, <2>2, <2>3, <3>1 DEF IInv, Types, InPlace, StagesOf, SoFar, Cancelled
  <2> QED
    BY <2>4, <2>5
<1>7. CASE BtTails
  <2>1. late' = late /\ play.stage = "tail"
    BY <1>7 DEF BtTails, Later
  <2>2. Goes("tail", play.at + 1) \/ Goes("quiet", 0)
    BY <1>7 DEF BtTails
  <2>3. on /\ (play'.stage = "tail" \/ (play'.stage = "quiet" /\ play'.at = 0))
    BY <1>0, <2>2, GoesOn DEF BtStages
  <2>4. late <= Voice
    BY <1>0, <2>1 DEF SoFar
  <2>5. SoFar'
    BY <1>0, <2>1, <2>3, <2>4, Lengths DEF SoFar
  <2> QED
    BY <1>0, <1>1, <1>2, <2>1, <2>3, <2>5 DEF IInv, Types, InPlace, StagesOf, Cancelled
<1>8. CASE BtQuiets
  <2>1. Goes(IF play.at + 1 < BtDrain THEN "quiet" ELSE "end", play.at + 1)
        /\ play.stage = "quiet"
    BY <1>8 DEF BtQuiets
  <2>2. /\ on /\ play'.at = play.at + 1
        /\ play'.stage = IF play.at + 1 < BtDrain THEN "quiet" ELSE "end"
    BY <1>0, <2>1, GoesOn DEF BtStages
  <2>3. /\ play.at \in 0 .. BtDrain - 1 /\ late <= Voice + play.at
        /\ late' \in Nat /\ late' <= late + 1
    BY <1>0, <1>1, <2>1 DEF SoFar
  <2>4. CASE play.at + 1 < BtDrain
    <3>1. play'.at \in 0 .. BtDrain - 1 /\ late' <= Voice + play'.at /\ play'.stage = "quiet"
      BY <1>0, <2>2, <2>3, <2>4, Lengths
    <3> QED
      BY <1>0, <1>1, <1>2, <2>2, <2>3, <3>1 DEF IInv, Types, InPlace, StagesOf, SoFar, Cancelled
  <2>5. CASE ~(play.at + 1 < BtDrain)
    <3>1. late' <= Voice + BtDrain /\ play'.stage = "end"
      BY <1>0, <2>2, <2>3, <2>5, Lengths
    <3>2. CutInTime'
      BY <1>1, <1>2, <3>1 DEF CutInTime
    <3> QED
      BY <1>0, <1>1, <1>2, <2>2, <2>3, <3>1, <3>2
      DEF IInv, Types, InPlace, StagesOf, SoFar, Cancelled
  <2> QED
    BY <2>4, <2>5
<1> QED
  BY <1>3, <1>4, <1>5, <1>6, <1>7, <1>8

\* No release waits for a DualShock 4's signal.
LEMMA Ds4Keeps == ASSUME IInv, Ds4Configures \/ Ds4Sends \/ Ds4Stops PROVE IInv'
<1>1. /\ UNCHANGED <<set, fresh, life, queue, late>> /\ play.stage \in Ds4Stages
  BY DEF Ds4Configures, Ds4Sends, Ds4Stops, Ds4Stages
<1>2. set.way = "ds4bt" /\ late = 0
  BY <1>1 DEF IInv, InPlace, SoFar, StagesOf, BtStages, Ds4Stages, CardStages
<1> DEFINE prime == -((3 * Ds4Prime) \div 2)
<1>3. PICK stage \in {"report", "stop", "end"}, at \in Int : Goes(stage, at)
  <2>1. prime \in Int
    BY BoundsAssumption
  <2>2. play.at + 1 \in Int
    BY DEF IInv, Types, Playing
  <2>3. \/ Goes("end", 0) \/ Goes("report", prime) \/ Goes("report", 0)
        \/ Goes("report", play.at + 1) \/ Goes("stop", 0)
    BY DEF Ds4Configures, Ds4Sends, Ds4Stops
  <2> QED
    BY <2>1, <2>2, <2>3
<1>4. /\ play' \in Playing
      /\ play'.stage \in {"end"} \cup Ds4Stages /\ play'.sig = play.sig
  BY <1>3, GoesOn DEF IInv, Stages, Ds4Stages
<1>5. SoFar'
  BY <1>1, <1>2, <1>4 DEF SoFar, CutInTime, Ds4Stages
<1> QED
  BY <1>1, <1>2, <1>4, <1>5 DEF IInv, Types, InPlace, StagesOf, Ds4Stages

\* A card takes a frame of what is left at each step, or none of it at all.
LEMMA WritesKeep == ASSUME IInv, CardWrites PROVE IInv'
<1> DEFINE room == set.cap - Len(queue)
           n == IF room < Len(play.todo) THEN room ELSE Len(play.todo)
           q == queue \o SubSeq(play.todo, 1, n)
           stage == IF play.twice THEN "idle" ELSE "breathe"
           rest == SubSeq(play.todo, n + 1, Len(play.todo))
           bound == IF play.twice THEN 0 ELSE Repeat
<1>1. /\ UNCHANGED <<set, fresh, life>> /\ play.stage = "write"
      /\ late' = IF Cancelled THEN late + 1 ELSE late
      /\ \/ /\ queue' = Rest(q) /\ n < Len(play.todo)
            /\ play' = [play EXCEPT !.todo = rest, !.at = play.at + 1]
         \/ queue' \in {Rest(q), Rest(queue)}
            /\ play' = [play EXCEPT !.todo = <<>>, !.at = 0, !.stage = stage]
  BY DEF CardWrites, WrittenTo, Later
<1>2. /\ Types /\ InPlace /\ SoFar /\ (~Cancelled => late = 0)
      /\ play \in Playing /\ play.todo \in Seq(Frames) /\ queue \in Seq(Frames)
      /\ late \in Nat /\ set.cap \in Nat \ {0} /\ play.twice \in BOOLEAN
      /\ Len(queue) < set.cap /\ Len(queue) \in Nat /\ Len(play.todo) \in Nat
  BY Lengths DEF IInv, Types, InPlace, Playing
<1>3. /\ play.at \in 0 .. Span - 1 /\ Len(play.todo) \in 1 .. Span - play.at
      /\ late <= bound + play.at
  BY <1>1, <1>2 DEF SoFar
<1>4. set.way = "card"
  BY <1>1, <1>2 DEF InPlace, StagesOf, BtStages, Ds4Stages, CardStages
<1>5. n \in 1 .. Len(play.todo) /\ n <= room
  BY <1>2, <1>3
<1> HIDE DEF n
<1>6. /\ rest \in Seq(Frames) /\ Len(rest) = Len(play.todo) - n
      /\ SubSeq(play.todo, 1, n) \in Seq(Frames) /\ Len(SubSeq(play.todo, 1, n)) = n
  BY <1>2, <1>5
<1>7. q \in Seq(Frames) /\ Len(q) <= set.cap
  <2>1. q \in Seq(Frames) /\ Len(q) = Len(queue) + n
    BY <1>2, <1>6, ConcatProperties
  <2> QED
    BY <1>2, <1>5, <2>1
<1>a. /\ bound \in Nat /\ (play.twice => bound = 0) /\ (~play.twice => bound = Repeat)
  BY Lengths
<1> HIDE DEF q, rest, bound, stage
<1>8. queue' \in Seq(Frames) /\ Len(queue') < set.cap
  BY <1>1, <1>2, <1>7, RestFits
<1>9. late' \in Nat /\ late' <= late + 1
  BY <1>1, <1>2
<1>b. /\ Span = 37 /\ late \in Nat /\ bound \in Nat
      /\ play.at \in 0 .. 36 /\ late <= bound + play.at /\ late' \in Nat /\ late' <= late + 1
  BY <1>2, <1>3, <1>9, <1>a, Lengths
<1>10. CASE n < Len(play.todo) /\ play' = [play EXCEPT !.todo = rest, !.at = play.at + 1]
  <2> DEFINE at == play.at + 1
  <2>0. play.at \in Int /\ at \in Int /\ n < Len(play.todo)
    BY <1>2, <1>10 DEF Playing
  <2> HIDE DEF at
  <2>1. /\ play' \in Playing /\ play'.stage = "write" /\ play'.sig = play.sig
        /\ play'.at = at /\ play'.todo = rest /\ play'.twice = play.twice
    <3>1. play' = [play EXCEPT !.todo = rest, !.at = at]
      BY <1>10 DEF at
    <3> QED
      BY <1>1, <1>2, <1>6, <2>0, <3>1 DEF Playing
  <2>2. late' <= bound + at
    BY <1>b DEF at
  <2>3. at \in 0 .. Span - 1 /\ Len(rest) \in 1 .. Span - at
    <3> DEFINE l == Len(play.todo)
               i == play.at
               r == Len(rest)
    <3>1. l \in Nat /\ l <= 37 - i /\ i \in 0 .. 36
      BY <1>2, <1>3, <1>b
    <3>2. n \in Nat /\ n >= 1
      BY <1>2, <1>5
    <3>3. r = l - n /\ n < l /\ at = i + 1
      BY <1>6, <2>0 DEF at
    <3> HIDE DEF l, i, r
    <3>4. at \in 0 .. 36 /\ r \in 1 .. 37 - at
      BY <3>1, <3>2, <3>3
    <3> QED
      BY <1>b, <3>4 DEF r
  <2>4. SoFar'
    BY <1>1, <1>a, <2>1, <2>2, <2>3 DEF SoFar, bound
  <2> QED
    BY <1>1, <1>2, <1>4, <1>8, <1>9, <2>1, <2>4
    DEF IInv, Types, InPlace, StagesOf, CardStages, Cancelled
<1>11. CASE play' = [play EXCEPT !.todo = <<>>, !.at = 0, !.stage = stage]
  <2> DEFINE none == <<>>
  <2>1. none \in Seq(Frames) /\ stage \in Stages
    BY DEF Stages, CardStages, stage
  <2> HIDE DEF none
  <2>2. /\ play' \in Playing /\ play'.stage = stage /\ play'.sig = play.sig /\ play'.at = 0
    <3>1. play' = [play EXCEPT !.todo = none, !.at = 0, !.stage = stage]
      BY <1>11 DEF none
    <3> DEFINE zero == 0
    <3>2. play' = [play EXCEPT !.todo = none, !.at = zero, !.stage = stage] /\ zero \in Int
      BY <3>1
    <3> HIDE DEF zero
    <3>3. play \in Playing
      BY <1>2
    <3>4. play' \in Playing /\ play'.stage = stage /\ play'.sig = play.sig /\ play'.at = zero
      BY <2>1, <3>2, <3>3 DEF Playing
    <3> QED
      BY <3>4 DEF zero
  <2>3. late' <= bound + Span
    BY <1>b
  <2>4. SoFar'
    <3>1. CASE play.twice
      BY <1>9, <1>a, <2>2, <2>3, <3>1, Lengths DEF SoFar, stage
    <3>2. CASE ~play.twice
      <4>1. Sounded' = Span + Repeat
        BY <1>1, <1>4 DEF Sounded
      <4>2. late' <= Sounded' /\ Sounded' \in Nat
        BY <1>9, <1>a, <2>3, <3>2, <4>1, Lengths
      <4> QED
        BY <2>2, <3>2, <4>2, Lengths DEF SoFar, stage
    <3> QED
      BY <1>2, <3>1, <3>2
  <2> QED
    BY <1>1, <1>2, <1>4, <1>8, <1>9, <2>2, <2>4
    DEF IInv, Types, InPlace, StagesOf, CardStages, Cancelled, stage
<1> QED
  BY <1>1, <1>10, <1>11 DEF rest

\* The first play runs out and idles, and the second is written.
LEMMA IdlesKeep == ASSUME IInv, CardIdles PROVE IInv'
<1>1. /\ UNCHANGED <<set, life>> /\ fresh' \in {fresh, fresh /\ play.sig = "refused"}
      /\ play.stage = "idle" /\ queue' = Rest(WithGame)
      /\ late' = IF Cancelled THEN late + 1 ELSE late
      /\ \/ play.at + 1 < CardWait + CardIdle /\ Goes("idle", play.at + 1)
         \/ play' = [play EXCEPT !.stage = "write", !.at = 0, !.twice = FALSE,
                                 !.todo = Samples(play.sig, TRUE)]
  BY DEF CardIdles, Later
<1>2. /\ Types /\ InPlace /\ SoFar /\ (~Cancelled => late = 0)
      /\ play \in Playing /\ play.at \in Int /\ play.sig \in Sigs /\ late \in Nat
      /\ fresh \in BOOLEAN /\ fresh' \in BOOLEAN
  BY <1>1 DEF IInv, Types, Playing
<1>3. play.at \in 0 .. CardWait + CardIdle - 1 /\ late <= Span + play.at
  BY <1>1, <1>2 DEF SoFar
<1>4. set.way = "card"
  BY <1>1, <1>2 DEF InPlace, StagesOf, BtStages, Ds4Stages, CardStages
<1>5. queue' \in Seq(Frames) /\ Len(queue') < set.cap
  BY <1>1, <1>2, GameFits, RestFits
<1>6. late' \in Nat /\ late' <= late + 1
  BY <1>1, <1>2
<1>7. CASE play.at + 1 < CardWait + CardIdle /\ Goes("idle", play.at + 1)
  <2>1. "idle" \in Stages /\ play.at + 1 \in Int
    BY <1>2 DEF Stages, CardStages
  <2>2. /\ play' \in Playing /\ play'.stage = "idle" /\ play'.sig = play.sig
        /\ play'.at = play.at + 1
    BY <1>2, <1>7, <2>1, GoesOn
  <2>3. SoFar'
    <3>1. play'.at \in 0 .. CardWait + CardIdle - 1 /\ late' <= Span + play'.at
      BY <1>2, <1>3, <1>6, <1>7, <2>2, Lengths
    <3> QED
      BY <2>2, <3>1 DEF SoFar
  <2> QED
    BY <1>1, <1>2, <1>4, <1>5, <1>6, <2>2, <2>3
    DEF IInv, Types, InPlace, StagesOf, CardStages, Cancelled
<1>8. CASE play' = [play EXCEPT !.stage = "write", !.at = 0, !.twice = FALSE,
                                !.todo = Samples(play.sig, TRUE)]
  <2> DEFINE samples == Samples(play.sig, TRUE)
  <2>1. samples \in Seq(Frames) /\ Len(samples) = Span /\ "write" \in Stages
    BY <1>2, SamplesAre DEF Stages, CardStages
  <2> HIDE DEF samples
  <2>2. /\ play' \in Playing /\ play'.stage = "write" /\ play'.sig = play.sig
        /\ play'.at = 0 /\ play'.twice = FALSE /\ play'.todo = samples
    <3>1. play' = [play EXCEPT !.stage = "write", !.at = 0, !.twice = FALSE, !.todo = samples]
      BY <1>8 DEF samples
    <3> QED
      <4> DEFINE no == FALSE
                 zero == 0
      <4>1. no \in BOOLEAN /\ zero \in Int
        OBVIOUS
      <4>2. play' = [play EXCEPT !.stage = "write", !.at = zero, !.twice = no, !.todo = samples]
        BY <3>1
      <4> HIDE DEF no, zero
      <4>3. /\ play' \in Playing /\ play'.stage = "write" /\ play'.sig = play.sig
            /\ play'.at = zero /\ play'.twice = no /\ play'.todo = samples
        <5>1. play \in Playing
          BY <1>2
        <5>2. play' \in Playing
          BY <2>1, <4>1, <4>2, <5>1 DEF Playing
        <5> QED
          BY <4>2, <5>1, <5>2 DEF Playing
      <4> QED
        BY <4>3 DEF no, zero
  <2>3. late' <= Repeat
    BY <1>2, <1>3, <1>6, Lengths
  <2>4. SoFar'
    <3>1. play'.at \in 0 .. Span - 1 /\ Len(play'.todo) \in 1 .. Span - play'.at
      BY <2>1, <2>2, Lengths
    <3>2. late' <= Repeat + play'.at
      BY <2>2, <2>3, <1>6, Lengths
    <3> QED
      BY <2>2, <3>1, <3>2 DEF SoFar
  <2> QED
    BY <1>1, <1>2, <1>4, <1>5, <1>6, <2>2, <2>4
    DEF IInv, Types, InPlace, StagesOf, CardStages, Cancelled
<1> QED
  BY <1>1, <1>7, <1>8

\* A light that is written goes on to an even step at most.
LEMMA BreathesKeep == ASSUME IInv, CardBreathes PROVE IInv'
<1>1. /\ UNCHANGED <<set, fresh, life>> /\ play.stage = "breathe" /\ play.at < BreatheFor
      /\ ~(Breathes /\ Cancelled /\ Steps)
      /\ queue' = IF set.way = "card" THEN Rest(WithGame) ELSE queue
      /\ Goes("breathe", play.at + 1) /\ late' = IF Cancelled THEN late + 1 ELSE late
  BY DEF CardBreathes, Later
<1>2. /\ Types /\ InPlace /\ SoFar /\ (~Cancelled => late = 0)
      /\ play \in Playing /\ play.at \in Int /\ late \in Nat /\ set.light \in BOOLEAN
  BY DEF IInv, Types, Playing
<1>3. queue' \in Seq(Frames) /\ Len(queue') < set.cap
  BY <1>1, <1>2, GameFits, RestFits DEF Types, InPlace
<1>4. "breathe" \in Stages /\ play.at + 1 \in Int
  BY <1>2 DEF Stages, CardStages
<1>5. /\ play' \in Playing /\ play'.stage = "breathe" /\ play'.sig = play.sig
      /\ play'.at = play.at + 1
  BY <1>1, <1>2, <1>4, GoesOn
<1>6. Breathes' = Breathes /\ Sounded' = Sounded /\ Sounded \in Nat /\ Cancelled' = Cancelled
  BY <1>1, <1>5, Lengths DEF Breathes, Sounded, Cancelled
<1>7. late' \in Nat /\ (~Cancelled' => late' = 0)
  BY <1>1, <1>2, <1>6
<1>8. SoFar'
  <2>1. CASE Breathes
    <3>1. play.at \in Nat /\ (late <= Sounded \/ (late <= Sounded + 1 /\ Steps))
      BY <1>1, <1>2, <2>1 DEF SoFar
    <3>2. CASE ~Cancelled
      BY <1>2, <1>5, <1>6, <1>7, <2>1, <3>1, <3>2 DEF SoFar
    <3>3. CASE Cancelled
      <4>1. play.at % 2 # 0 /\ late <= Sounded /\ late' = late + 1
        BY <1>1, <2>1, <3>1, <3>3 DEF Steps
      <4>2. play'.at \in Nat /\ play'.at % 2 = 0
        BY <1>5, <3>1, <4>1
      <4>3. late' <= Sounded + 1
        BY <1>2, <1>6, <4>1
      <4> QED
        BY <1>5, <1>6, <2>1, <4>2, <4>3 DEF SoFar, Steps
    <3> QED
      BY <3>2, <3>3
  <2>2. CASE ~Breathes
    <3>1. play.at \in 0 .. CardWait /\ late <= Sounded + play.at
      BY <1>1, <1>2, <2>2 DEF SoFar
    <3>2. play.at < CardWait
      BY <1>1, <2>2 DEF BreatheFor
    <3>3. play'.at \in 0 .. CardWait /\ late' <= Sounded + play'.at
      BY <1>1, <1>2, <1>5, <1>6, <3>1, <3>2, Lengths
    <3> QED
      BY <1>5, <1>6, <2>2, <3>3 DEF SoFar
  <2> QED
    BY <2>1, <2>2
<1> QED
  BY <1>1, <1>2, <1>3, <1>5, <1>7, <1>8 DEF IInv, Types, InPlace

\* A card's signal begins with nothing waited for.
LEMMA DecidesKeep == ASSUME IInv, CardDecides PROVE IInv'
<1> DEFINE twice == fresh /\ ~Cancelled
           samples == Samples(play.sig, ~twice)
           zero == 0
<1>1. /\ UNCHANGED <<set, fresh, life, queue, late>> /\ play.stage = "decide"
      /\ play' = [play EXCEPT !.stage = "write", !.at = zero, !.twice = twice, !.todo = samples]
  BY DEF CardDecides
<1>2. /\ Types /\ InPlace /\ SoFar /\ play \in Playing /\ play.sig \in Sigs
      /\ twice \in BOOLEAN /\ (~twice) \in BOOLEAN /\ zero \in Int
  BY DEF IInv, Types, Playing, Cancelled
<1>3. late = 0
  BY <1>1, <1>2 DEF SoFar
<1>4. set.way = "card"
  BY <1>1, <1>2 DEF InPlace, StagesOf, BtStages, Ds4Stages, CardStages
<1>5. samples \in Seq(Frames) /\ Len(samples) = Span /\ "write" \in Stages
  BY <1>2, SamplesAre DEF Stages, CardStages
<1> HIDE DEF twice, samples, zero
<1>6. play' \in Playing /\ play'.stage = "write" /\ play'.at = zero /\ play'.todo = samples
  <2>1. play' \in Playing
    BY <1>1, <1>2, <1>5 DEF Playing
  <2> QED
    BY <1>1, <1>2, <2>1 DEF Playing
<1>7. SoFar'
  <2>1. play'.at \in 0 .. Span - 1 /\ Len(play'.todo) \in 1 .. Span - play'.at
    BY <1>5, <1>6, Lengths DEF zero
  <2>2. late' = 0 /\ play'.at = 0 /\ Repeat \in Nat
    BY <1>1, <1>3, <1>6, Lengths DEF zero
  <2>3. late' <= (IF play'.twice THEN 0 ELSE Repeat) + play'.at
    BY <2>2
  <2> QED
    BY <1>6, <2>1, <2>3 DEF SoFar
<1> QED
  BY <1>1, <1>2, <1>3, <1>4, <1>6, <1>7 DEF IInv, Types, InPlace, StagesOf, CardStages

\* A light that was waited for has ended at an even step.
LEMMA BreathedKeeps == ASSUME IInv, CardBreathed PROVE IInv'
<1>1. /\ UNCHANGED <<set, fresh, life, queue, late>> /\ play.stage = "breathe" /\ Goes("end", 0)
  BY DEF CardBreathed
<1>2. /\ Types /\ InPlace /\ SoFar /\ (~Cancelled => late = 0) /\ late \in Nat
      /\ play \in Playing /\ play.at \in Int /\ set.way \in {"card", "light"}
  <2>1. set.way \in {"ds5bt", "ds4bt", "card", "light"}
    BY BoundsAssumption DEF IInv, Types
  <2>2. set.way \in {"card", "light"}
    BY <1>1, <2>1 DEF IInv, InPlace, StagesOf, BtStages, Ds4Stages
  <2> QED
    BY <2>2 DEF IInv, Types, Playing
<1>3. /\ play' \in Playing /\ play'.stage = "end" /\ play'.sig = play.sig
  BY <1>1, <1>2, GoesOn DEF Stages
<1>4. late <= Sounded + CardWait
  <2>1. CASE Breathes
    BY <1>1, <1>2, <2>1, Lengths DEF SoFar, Sounded
  <2>2. CASE ~Breathes
    <3>1. play.at \in 0 .. CardWait /\ late <= Sounded + play.at
      BY <1>1, <1>2, <2>2 DEF SoFar
    <3> QED
      BY <1>2, <3>1, Lengths DEF Sounded
  <2> QED
    BY <2>1, <2>2
<1>5. set.way = "light" => late <= 1
  <2>1. set.way = "light" => Breathes
    BY <1>1, <1>2 DEF InPlace, Breathes
  <2> QED
    BY <1>1, <1>2, <2>1 DEF SoFar, Sounded
<1>6. SoFar'
  <2>1. CutInTime'
    BY <1>1, <1>2, <1>4, <1>5, Lengths DEF CutInTime, Sounded, Repeat
  <2> QED
    BY <1>3, <2>1 DEF SoFar
<1> QED
  BY <1>1, <1>2, <1>3, <1>6 DEF IInv, Types, InPlace, StagesOf, Cancelled

\* A signal begins when none is waited for.
LEMMA BeginsWell ==
    ASSUME IInv, NEW sig \in Sigs \ {None}, Begins(sig), UNCHANGED <<set, fresh, queue>>,
           life' \in {"idle", "bridged", "asked", "closed"}, late' = 0,
           set.way = "light" => sig # "refused"
    PROVE  IInv'
<1>1. /\ Types /\ InPlace /\ set.way \in {"ds5bt", "ds4bt", "card", "light"}
      /\ set.light \in BOOLEAN
  BY BoundsAssumption DEF IInv, Types
<1>2. play' = [sig |-> sig, at |-> 0, stage |-> Start(sig), prime |-> 0, twice |-> FALSE,
               todo |-> <<>>]
  BY DEF Begins, NoPlay
<1>3. /\ Start(sig) \in {"configure", "wait", "takeover", "decide", "breathe", "end"}
      /\ Start(sig) \in StagesOf(set.way) /\ Start(sig) \in Stages
      /\ (set.way = "light" /\ Start(sig) = "breathe" => set.light)
  BY <1>1 DEF Start, StagesOf, Stages, BtStages, Ds4Stages, CardStages
<1>4. <<>> \in Seq(Frames)
  OBVIOUS
<1>5. play' \in Playing
  BY <1>2, <1>3, <1>4 DEF Playing
<1>6. SoFar'
  <2>1. CutInTime'
    BY <1>1, Lengths DEF CutInTime
  <2>2. play'.at = 0 /\ Sounded' \in Nat /\ CardWait \in Nat
    BY <1>2, Lengths DEF Sounded
  <2> QED
    BY <1>2, <1>3, <2>1, <2>2 DEF SoFar
<1> QED
  BY <1>1, <1>2, <1>3, <1>5, <1>6 DEF IInv, Types, InPlace

\* The session's own steps: what is asked for begins to wait, with nothing waited yet.
LEMMA SessionKeeps ==
    ASSUME IInv, Connects \/ Refuses \/ Asks \/ Releases \/ PlaysOn \/ Closes
    PROVE  IInv'
<1>1. /\ Types /\ InPlace /\ SoFar /\ (~Cancelled => late = 0) /\ late \in Nat
      /\ play \in Playing
  BY DEF IInv, Types
<1>2. CASE Connects
  BY <1>1, <1>2, BeginsWell DEF Connects, Cancelled, Sigs, None
<1>3. CASE Refuses
  BY <1>1, <1>3, BeginsWell DEF Refuses, Cancelled, Sigs, None
<1>4. CASE Releases
  BY <1>1, <1>4, BeginsWell DEF Releases, Sigs, None
<1>5. CASE Asks
  <2>1. /\ UNCHANGED <<set, fresh, play, queue, late>> /\ life' = "asked"
        /\ late = 0 /\ ~Cancelled
    BY <1>1, <1>5 DEF Asks, Cancelled
  <2>2. SoFar'
    BY <1>1, <2>1 DEF SoFar, CutInTime, Breathes, Steps, Sounded
  <2> QED
    BY <1>1, <2>1, <2>2 DEF IInv, Types, InPlace
<1>6. CASE PlaysOn
  <2>1. UNCHANGED <<set, fresh, life, play, late>> /\ queue' = Rest(WithGame)
    BY <1>6 DEF PlaysOn
  <2>2. queue' \in Seq(Frames) /\ Len(queue') < set.cap
    BY <1>1, <2>1, GameFits, RestFits
  <2>3. SoFar' /\ (~Cancelled' => late' = 0)
    BY <1>1, <2>1 DEF SoFar, CutInTime, Breathes, Steps, Sounded, Cancelled
  <2> QED
    BY <1>1, <2>1, <2>2, <2>3 DEF IInv, Types, InPlace
<1>7. CASE Closes
  <2>1. /\ UNCHANGED <<set, fresh, life, late>> /\ queue' = <<>> /\ life = "closed"
        /\ play' = [sig |-> "none", at |-> 0, stage |-> "end", prime |-> 0, twice |-> FALSE,
                    todo |-> <<>>]
    BY <1>7 DEF Closes, NoPlay, None
  <2>2. <<>> \in Seq(Frames) /\ Len(<<>>) = 0
    OBVIOUS
  <2>3. late = 0
    BY <1>1, <2>1 DEF Cancelled
  <2>4. play' \in Playing
    BY <2>1, <2>2 DEF Playing, Sigs, None, Stages
  <2>5. SoFar'
    BY <2>1, <2>3, Lengths DEF SoFar, CutInTime
  <2>6. queue' \in Seq(Frames) /\ Len(queue') < set.cap
    BY <1>1, <2>1, <2>2, Lengths DEF Types
  <2> QED
    BY <1>1, <2>1, <2>3, <2>4, <2>5, <2>6 DEF IInv, Types, InPlace, StagesOf
<1> QED
  BY <1>2, <1>3, <1>4, <1>5, <1>6, <1>7

-----------------------------------------------------------------------------
(* What is proved. *)

\* The inductive invariant: what a release may have waited by each stage of a signal.
THEOREM Invariance == Spec => []IInv
<1>1. IInv /\ [Next]_vars => IInv'
  <2> SUFFICES ASSUME IInv, [Next]_vars PROVE IInv'
    OBVIOUS
  <2>1. CASE UNCHANGED vars
    BY <2>1 DEF vars, IInv, Types, InPlace, SoFar, CutInTime, Breathes, Steps, Sounded, Cancelled
  <2>2. CASE Signal
    BY <2>2, BtKeeps, Ds4Keeps, DecidesKeep, WritesKeep, IdlesKeep, BreathesKeep, BreathedKeeps
    DEF Signal
  <2> QED
    BY <2>1, <2>2, SessionKeeps DEF Next
<1> QED
  BY <1>1, Initially, PTL DEF Spec

\* At no stage has a release waited longer than the whole may take.
LEMMA InTime == IInv => CutInTime
<1> SUFFICES ASSUME IInv PROVE CutInTime
  OBVIOUS
<1>1. /\ Types /\ InPlace /\ SoFar /\ late \in Nat /\ play.stage \in StagesOf(set.way)
      /\ set.way \in {"ds5bt", "ds4bt", "card", "light"}
  BY BoundsAssumption DEF IInv, Types, InPlace
<1>2. CASE set.way = "ds5bt"
  <2>1. late <= Voice + BtDrain
    <3>1. play.stage \in {"end", "wait", "takeover", "prime", "voice", "tail", "quiet"}
      BY <1>1, <1>2 DEF StagesOf, BtStages
    <3>2. play.stage = "voice" => late <= 31
      BY <1>1, Lengths DEF SoFar
    <3>3. play.stage = "tail" => late <= 32
      BY <1>1, Lengths DEF SoFar
    <3>4. play.stage = "quiet" => late <= 61
      BY <1>1, Lengths DEF SoFar
    <3>5. play.stage \in {"wait", "takeover", "prime"} => late = 0
      BY <1>1 DEF SoFar
    <3>6. play.stage = "end" => late <= Voice + BtDrain
      BY <1>1, <1>2 DEF SoFar, CutInTime
    <3> QED
      BY <1>1, <3>1, <3>2, <3>3, <3>4, <3>5, <3>6, Lengths
  <2> QED
    BY <1>2, <2>1 DEF CutInTime
<1>3. CASE set.way = "ds4bt"
  BY <1>1, <1>3, Lengths DEF SoFar, StagesOf, Ds4Stages, CutInTime
<1>4. CASE set.way = "card"
  <2>1. late <= 2 * Span + CardWait + CardIdle + CardWait
    <3>1. play.stage \in {"end", "decide", "write", "idle", "breathe"}
      BY <1>1, <1>4 DEF StagesOf, CardStages
    <3>2. play.stage = "write" => late <= Repeat + 36
      <4> SUFFICES ASSUME play.stage = "write" PROVE late <= Repeat + 36
        OBVIOUS
      <4>1. play.at \in 0 .. 36 /\ late <= (IF play.twice THEN 0 ELSE Repeat) + play.at
        BY <1>1, Lengths DEF SoFar
      <4> QED
        BY <1>1, <4>1, Lengths
    <3>3. play.stage = "idle" => late <= 37 + 40 + CardIdle
      BY <1>1, Lengths DEF SoFar
    <3>4. play.stage = "breathe" => late <= Sounded + CardWait
      <4> SUFFICES ASSUME play.stage = "breathe" PROVE late <= Sounded + CardWait
        OBVIOUS
      <4>1. Sounded = Span + Repeat
        BY <1>4 DEF Sounded
      <4>2. CASE Breathes
        BY <1>1, <4>1, <4>2, Lengths DEF SoFar
      <4>3. CASE ~Breathes
        <5>1. play.at \in 0 .. CardWait /\ late <= Sounded + play.at
          BY <1>1, <4>3 DEF SoFar
        <5> QED
          BY <1>1, <4>1, <5>1, Lengths
      <4> QED
        BY <4>2, <4>3
    <3>5. play.stage = "decide" => late = 0
      BY <1>1 DEF SoFar
    <3>6. play.stage = "end" => late <= 2 * Span + CardWait + CardIdle + CardWait
      BY <1>1, <1>4 DEF SoFar, CutInTime
    <3>7. Sounded = 115 + CardIdle
      BY <1>4, Lengths DEF Sounded
    <3> QED
      BY <1>1, <3>1, <3>2, <3>3, <3>4, <3>5, <3>6, <3>7, Lengths
  <2> QED
    BY <1>4, <2>1 DEF CutInTime
<1>5. CASE set.way = "light"
  <2>1. play.stage = "breathe" => Breathes /\ Sounded = 0
    BY <1>1, <1>5 DEF InPlace, Breathes, Sounded
  <2> QED
    BY <1>1, <1>5, <2>1, Lengths DEF SoFar, StagesOf, CutInTime
<1> QED
  BY <1>1, <1>2, <1>3, <1>4, <1>5

\* A release waits for the connect signal no longer than what may not be cut
\* (btsig_play_fd, feedback_play, feedback_breathe_wired), for any buffer and any stretch of
\* priming and idling: the prime, the repeat not begun and the light are cut short.
THEOREM ReleaseIsNotKept == Spec => []CutInTime
BY Invariance, InTime, PTL
=============================================================================
