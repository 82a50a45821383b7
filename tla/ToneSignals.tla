----------------------------- MODULE ToneSignals -----------------------------
(***************************************************************************)
(* The signals a pad plays: two rising notes, a pulse and green when it is *)
(* bridged, two falling notes and three yellow flashes when it is handed   *)
(* back, two low notes and three red flashes when it is refused.  A        *)
(* Bluetooth DualSense is sent a report for each 10 ms frame               *)
(* (ctm_bt_signal.inl), a Bluetooth DualShock 4 one for two frames of 4 ms *)
(* (ds4_signal.inl), a cabled DualSense samples for its sound card, and    *)
(* its light apart from them (ctm_feedback.inl, ctm_signal_wired.inl).     *)
(* The connect signal has a thread of its own, and a release waits for it. *)
(***************************************************************************)
EXTENDS Integers, Sequences, SequencesExt

CONSTANTS
    Ways,        \* "ds5bt", "ds4bt", "card" (a cable), "light" (a cable with no card)
    Caps,        \* sizes of a card's buffer in 10 ms, 2..10 (BUFFER_SIZE)
    \* stretches in which one step is like the next, shorter here than in the code
    BtWait,      \* BT_BRIDGE_SIGNAL_WAIT_MS, in 20 ms (75)
    BtPrime,     \* BTSIG_PRIME_FRAMES (60)
    Ds4Prime,    \* DS4SIG_PRIME_FRAMES (150)
    CardIdle,    \* FEEDBACK_REPEAT_GAP_MS, in 10 ms (150)
    MaxLost      \* bounds the reports of a signal that do not arrive

ASSUME BoundsAssumption ==
    /\ Ways \subseteq {"ds5bt", "ds4bt", "card", "light"}
    /\ {BtWait, BtPrime, Ds4Prime, CardIdle} \cup Caps \subseteq Nat \ {0}
    /\ MaxLost \in Nat

VARIABLES
    set,     \* what stays: the way, the switches, the card's buffer, whether a game plays
    primed,  \* g_btsig_primed knows the pad;  full: it has no room for another
    full,
    fresh,   \* card_fresh: no signal was played since the cable went in
    life,    \* "idle", "bridged", "asked" (the release waits), "closed"
    play,    \* the signal being played
    queue,   \* what the card holds, 10 ms each
    pad,     \* what the pad has done with this signal
    lost,    \* what a Bluetooth signal lost of its reports, a card of its writes
    late     \* frames played, or 10 ms passed, since the release asked

vars == <<set, primed, full, fresh, life, play, queue, pad, lost, late>>

-----------------------------------------------------------------------------
(* What a signal is. *)

BtTone == 14  BtGap == 4  BtDrain == 30
Ds4Tone == 36  Ds4Gap == 10  Ds4TailMax == 200
CardTone == 14  CardGap == 9  CardMargin == 4  CardGrace == 25
FlashMs == 750  ConnectedMs == 700  PulseMs == 250

\* The notes there are, and how many frames each has: encoded beforehand for the two
\* Bluetooth ways, rendered for a card.
BtNotes == [low |-> BtTone, high |-> BtTone, lower |-> BtTone]
Ds4Notes == [low |-> Ds4Tone, high |-> Ds4Tone, lower |-> Ds4Tone]
CardNotes == [n \in {"low", "high", "lower"} |-> CardTone]

Voice == 2 * BtTone + BtGap
None == "none"

First(sig) == IF sig = "released" THEN "high" ELSE "low"
Second(sig) ==
    CASE sig = "connected" -> "high" [] sig = "released" -> "low" [] OTHER -> "lower"
Colour(sig) ==
    CASE sig = "connected" -> "green" [] sig = "released" -> "yellow" [] OTHER -> "red"

\* signal_flash_level: lit in the first half of each flash.
FlashLit(at, total) ==
    /\ at \in 0..(total - 1)
    /\ at % (total \div 3) < (total \div 3) \div 2

\* The light of a signal at a time, of a connect steady.
Light(sig, at, total) ==
    IF ~set.light THEN None
    ELSE IF sig = "connected" \/ FlashLit(at, total) THEN Colour(sig) ELSE "dark"

\* The i-th frame of two notes with a gap between them.
NoteAt(sig, i, notes, gap) ==
    LET second == notes[First(sig)] + gap
    IN  IF ~set.tone THEN "silence"
        ELSE IF i \in 0..(notes[First(sig)] - 1) THEN First(sig)
        ELSE IF i \in second..(second + notes[Second(sig)] - 1) THEN Second(sig)
        ELSE "silence"

-----------------------------------------------------------------------------
(* What reaches the pad. *)

NoPlay == [sig |-> None, at |-> 0, stage |-> "end", prime |-> 0, twice |-> FALSE, todo |-> <<>>]
\* A pad before a signal: what it hears, feels and shows of it, whether its light is
\* taken over, and whether its speaker is dead, as a fresh cable's first stream is.
Quiet(ours, deaf) ==
    [hears |-> <<>>, feels |-> <<>>, shows |-> <<>>, ours |-> ours, deaf |-> deaf]

\* One thing after another; a note that goes on is longer by a frame.
Then(s, x) == IF s # <<>> /\ Last(s) = x THEN s ELSE Append(s, x)
Hears(s, note) ==
    IF s # <<>> /\ Last(s).note = note
    THEN IF note = "silence" THEN s ELSE [s EXCEPT ![Len(s)].for = @ + 1]
    ELSE Append(s, [note |-> note, for |-> 1])

Shows(p, colour) ==
    IF colour = None \/ ~p.ours THEN p ELSE [p EXCEPT !.shows = Then(@, colour)]
Plays(p, notes, pulse) ==
    [p EXCEPT !.hears = FoldLeft(Hears, @, notes), !.feels = Then(@, pulse)]

\* A report is written, and may be lost: the player counts it and goes on.
Sends(p) ==
    \/ pad' = p /\ UNCHANGED lost
    \/ lost < MaxLost /\ lost' = lost + 1 /\ UNCHANGED pad

Cancelled == play.sig = "connected" /\ life = "asked"
Later(n) == late' = IF Cancelled THEN late + n ELSE late
Goes(stage, at) == play' = [play EXCEPT !.stage = stage, !.at = at]

-----------------------------------------------------------------------------
(* A Bluetooth DualSense: btsig_play_fd. *)

Lit(sig) == IF sig = "connected" THEN Voice ELSE FlashMs \div 10
Buzz(sig) == IF sig = "refused" THEN 2 * Voice ELSE Voice

\* A bridge waits a while for the host's first colour to come and go.
BtWaits ==
    /\ play.stage = "wait"
    /\ IF play.at < BtWait /\ ~Cancelled THEN Goes("wait", play.at + 1) ELSE Goes("takeover", 0)
    /\ UNCHANGED <<set, primed, full, fresh, life, queue, pad, lost, late>>

\* The light is taken over, and the prime begins: long for a pad not primed yet.
BtTakesOver ==
    /\ play.stage = "takeover"
    /\ LET prime == IF ~set.tone THEN 0 ELSE IF primed THEN BtPrime ELSE 3 * BtPrime
       IN  play' = [play EXCEPT !.stage = "prime", !.at = -prime, !.prime = prime]
    /\ Sends([pad EXCEPT !.ours = TRUE])
    /\ UNCHANGED <<set, primed, full, fresh, life, queue, late>>

\* Slip: the prime is played out whoever waits.
BtPrimesOn ==
    /\ play.stage = "prime"
    /\ Sends(Plays(pad, <<"silence">>, FALSE)) /\ Later(1)
    /\ IF play.at < 0 THEN Goes("prime", play.at + 1) ELSE Goes("voice", 0)
    /\ UNCHANGED <<set, primed, full, fresh, life, queue>>
\* The prime: silence, given up for a release that waits.  Played out with nothing
\* lost, the pad is known as primed.
BtPrimes ==
    /\ play.stage = "prime"
    /\ IF play.at < 0 /\ ~Cancelled THEN
           /\ Sends(Plays(pad, <<"silence">>, FALSE)) /\ Later(1)
           /\ Goes("prime", play.at + 1) /\ UNCHANGED primed
       ELSE
           /\ Goes(IF play.at < 0 THEN "quiet" ELSE "voice", 0)
           /\ primed' = (primed \/ (play.prime > 0 /\ play.at = 0 /\ lost = 0 /\ ~full))
           /\ UNCHANGED <<pad, lost, late>>
    /\ UNCHANGED <<set, full, fresh, life, queue>>

BtFrame(i) ==
    Shows(Plays(pad, <<NoteAt(play.sig, i, BtNotes, BtGap)>>, set.rumble /\ i < Buzz(play.sig)),
          Light(play.sig, i * 10, Lit(play.sig) * 10))

\* The notes, never cut into.
BtVoices ==
    /\ play.stage = "voice"
    /\ Sends(BtFrame(play.at)) /\ Later(1)
    /\ Goes(IF play.at + 1 < Voice THEN "voice" ELSE "tail", play.at + 1)
    /\ UNCHANGED <<set, primed, full, fresh, life, queue>>

\* The rest of the light, with the pulse for as long as it lasts.
BtTails ==
    /\ play.stage = "tail"
    /\ IF play.at < Lit(play.sig) /\ ~Cancelled
       THEN Sends(BtFrame(play.at)) /\ Later(1) /\ Goes("tail", play.at + 1)
       ELSE Goes("quiet", 0) /\ UNCHANGED <<pad, lost, late>>
    /\ UNCHANGED <<set, primed, full, fresh, life, queue>>

\* Silence until the decoder has drained, however the signal ended.
BtQuiets ==
    /\ play.stage = "quiet"
    /\ Sends(Plays(pad, <<"silence">>, FALSE)) /\ Later(1)
    /\ Goes(IF play.at + 1 < BtDrain THEN "quiet" ELSE "end", play.at + 1)
    /\ UNCHANGED <<set, primed, full, fresh, life, queue>>

-----------------------------------------------------------------------------
(* A Bluetooth DualShock 4: ds4sig_play_fd, two frames to a report. *)

Ms(sig) == IF sig = "connected" THEN ConnectedMs ELSE FlashMs
Combined == set.light \/ set.rumble

\* Slip: the stream ends with its notes.
Ds4TailNone(sig) == 0
\* Silence after the notes for as long as the light lasts, an even number of frames.
Ds4Tail(sig) ==
    LET notes == 2 * Ds4Tone + Ds4Gap
        tail == (Ms(sig) - notes * 4 + 3) \div 4
        even == tail + (tail % 2)
    IN  IF ~Combined \/ Ms(sig) <= notes * 4 THEN 0
        ELSE IF even > Ds4TailMax THEN Ds4TailMax ELSE even

\* Reports of the notes and the tail.
Ds4Reports(sig) == (2 * Ds4Tone + Ds4Gap + Ds4Tail(sig)) \div 2

\* The configuration first, then the prime: three times its length, always.
Ds4Configures ==
    /\ play.stage = "configure"
    /\ IF ~set.tone /\ ~Combined THEN Goes("end", 0)
       ELSE Goes("report", IF set.tone THEN -((3 * Ds4Prime) \div 2) ELSE 0)
    /\ Sends(pad)
    /\ UNCHANGED <<set, primed, full, fresh, life, queue, late>>

Ds4Report(k) ==
    LET notes == [j \in 1..2 |-> NoteAt(play.sig, 2 * k + j - 1, Ds4Notes, Ds4Gap)]
        at == k * 8
        shown == k >= 0 /\ at < Ms(play.sig)
        p == Plays(pad, notes, set.rumble /\ shown /\ at < PulseMs)
    IN  IF Combined /\ shown THEN Shows(p, Light(play.sig, at, FlashMs)) ELSE p

Ds4Sends ==
    /\ play.stage = "report"
    /\ Sends(Ds4Report(play.at))
    /\ IF play.at + 1 < Ds4Reports(play.sig) THEN Goes("report", play.at + 1)
       ELSE Goes(IF Combined THEN "stop" ELSE "end", 0)
    /\ UNCHANGED <<set, primed, full, fresh, life, queue, late>>

\* One report more: the motors stop, the light ends green or dark.
Ds4Stops ==
    /\ play.stage = "stop"
    /\ Sends(Shows(Plays(pad, <<"silence", "silence">>, FALSE),
                   IF ~set.light THEN None
                   ELSE IF play.sig = "connected" THEN "green" ELSE "dark"))
    /\ Goes("end", 0)
    /\ UNCHANGED <<set, primed, full, fresh, life, queue, late>>

-----------------------------------------------------------------------------
(* A cabled DualSense: feedback_play, and a refusal's own, in steps of 10 ms. *)

Span == 2 * CardTone + CardGap
CardWait == Span + CardMargin
\* The samples: the notes on the speaker, the pulse beneath all of them.
Samples(sig, pulse) ==
    [i \in 1..Span |-> [of |-> sig, note |-> NoteAt(sig, i - 1, CardNotes, CardGap),
                        pulse |-> pulse /\ set.rumble]]
Game == [of |-> "game", note |-> "silence", pulse |-> FALSE]

\* The card plays what is first in its queue.  A cold speaker stays dead until the
\* stream that woke it has run dry.
Played(q) ==
    IF q = <<>> THEN [pad EXCEPT !.deaf = IF @ = "first" THEN "no" ELSE @]
    ELSE LET h == Head(q)
             p == [pad EXCEPT !.deaf = IF @ = "cold" THEN "first" ELSE @]
         IN  IF h.of # play.sig THEN p
             ELSE Plays(p, <<IF pad.deaf = "no" THEN h.note ELSE "silence">>, h.pulse)
Rest(q) == IF q = <<>> THEN q ELSE Tail(q)

\* The game's sound gets in while no signal has the speaker (write_iso_audio).
WithGame == IF set.game /\ Len(queue) < set.cap THEN Append(queue, Game) ELSE queue

\* Twice on a fresh cable, whose first stream is dead; the first time without the
\* pulse.  A release that waits is not kept waiting for it.
CardDecides ==
    /\ play.stage = "decide"
    /\ LET twice == fresh /\ ~Cancelled
       IN  play' = [play EXCEPT !.stage = "write", !.at = 0, !.twice = twice,
                                !.todo = Samples(play.sig, ~twice)]
    /\ UNCHANGED <<set, primed, full, fresh, life, queue, pad, lost, late>>

\* write_iso_audio_waiting: as much as there is room for, until all of it is written
\* or its time is over; or the card takes none of it, and it is given up.
CardLimit == IF play.sig = "refused" THEN 40 ELSE Span + CardGrace
WrittenTo(stage) ==
    play' = [play EXCEPT !.todo = <<>>, !.at = 0, !.stage = stage]
CardWrites ==
    /\ play.stage = "write"
    /\ LET room == set.cap - Len(queue)
           n == IF room < Len(play.todo) THEN room ELSE Len(play.todo)
           q == queue \o SubSeq(play.todo, 1, n)
           then == IF play.twice THEN "idle" ELSE "breathe"
       IN  \/ /\ pad' = Played(q) /\ queue' = Rest(q) /\ UNCHANGED lost
              /\ IF n < Len(play.todo) /\ play.at + 1 < CardLimit
                 THEN play' = [play EXCEPT !.todo = SubSeq(@, n + 1, Len(@)), !.at = @ + 1]
                 ELSE WrittenTo(then)
           \/ /\ play.at = 0 /\ lost < MaxLost /\ lost' = lost + 1
              /\ pad' = Played(queue) /\ queue' = Rest(queue)
              /\ WrittenTo(then)
    /\ Later(1)
    /\ UNCHANGED <<set, primed, full, fresh, life>>

\* The first play runs out and the card is left idle; then the second.  A session
\* is done with the cable's first stream.
CardIdles ==
    /\ play.stage = "idle"
    /\ pad' = Played(WithGame) /\ queue' = Rest(WithGame) /\ Later(1)
    /\ IF play.at + 1 < CardWait + CardIdle THEN Goes("idle", play.at + 1) /\ UNCHANGED fresh
       ELSE /\ play' = [play EXCEPT !.stage = "write", !.at = 0, !.twice = FALSE,
                                    !.todo = Samples(play.sig, TRUE)]
            /\ fresh' = (fresh /\ play.sig = "refused")
    /\ UNCHANGED <<set, primed, full, life, lost>>

\* Until the sound is out, feedback_breathe_wired: a colour is written when it
\* changes, every 20 ms.  Without the light, and for a refusal, the wait alone.
Breathes == set.light /\ play.sig # "refused"
BreatheFor ==
    IF ~Breathes THEN CardWait
    ELSE IF play.sig # "connected" THEN FlashMs \div 10 ELSE CardWait + (CardWait % 2)
Steps == play.at % 2 = 0
CardBreathes ==
    /\ play.stage = "breathe" /\ play.at < BreatheFor /\ ~(Breathes /\ Cancelled /\ Steps)
    /\ LET p == IF set.way = "card" THEN Played(WithGame) ELSE pad
           now == Light(play.sig, play.at * 10, FlashMs)
           was == IF play.at = 0 THEN None ELSE Light(play.sig, (play.at - 2) * 10, FlashMs)
       IN  \/ pad' = (IF Breathes /\ Steps /\ now # was THEN Shows(p, now) ELSE p) /\ UNCHANGED lost
           \/ Breathes /\ Steps /\ now # was /\ lost < MaxLost /\ lost' = lost + 1 /\ pad' = p
    /\ queue' = IF set.way = "card" THEN Rest(WithGame) ELSE queue
    /\ Goes("breathe", play.at + 1) /\ Later(1)
    /\ UNCHANGED <<set, primed, full, fresh, life>>

\* The last colour: green for a bridged pad, else dark, cut short or not.
CardBreathed ==
    /\ play.stage = "breathe"
    /\ play.at >= BreatheFor \/ (Breathes /\ Cancelled /\ Steps)
    /\ IF Breathes THEN Sends(Shows(pad, IF play.sig = "connected" THEN "green" ELSE "dark"))
       ELSE UNCHANGED <<pad, lost>>
    /\ Goes("end", 0)
    /\ UNCHANGED <<set, primed, full, fresh, life, queue, late>>

-----------------------------------------------------------------------------
(* The session around them. *)

\* Where a signal starts: signal_route_for, and without the light a cable with no card
\* has nothing to play.
Start(sig) ==
    CASE set.way = "ds4bt" -> "configure"
      [] set.way = "ds5bt" -> IF sig = "connected" THEN "wait" ELSE "takeover"
      [] set.way = "card"  -> "decide"
      [] set.way = "light" -> IF set.light THEN "breathe" ELSE "end"

Begins(sig) ==
    /\ play' = [NoPlay EXCEPT !.sig = sig, !.stage = Start(sig)]
    /\ pad' = Quiet(set.way # "ds5bt" \/ pad.ours, pad.deaf)
    /\ lost' = IF set.way = "card" THEN lost ELSE 0

Init ==
    /\ set \in [way : Ways, tone : BOOLEAN, light : BOOLEAN, rumble : BOOLEAN,
                game : BOOLEAN, cap : Caps]
    /\ set.way # "card" => (~set.game /\ set.cap = CHOOSE c \in Caps : TRUE)
    /\ primed \in BOOLEAN /\ full \in BOOLEAN /\ fresh \in BOOLEAN
    /\ set.way # "ds5bt" => ~primed /\ ~full
    \* When a fresh cable's dead stream ends under a game's sound is the pad's, and unknown.
    /\ set.way # "card" \/ set.game => ~fresh
    /\ life = "idle" /\ play = NoPlay /\ queue = <<>> /\ lost = 0 /\ late = 0
    /\ pad = Quiet(set.way # "ds5bt", IF fresh THEN "cold" ELSE "no")

Over == play.stage = "end"
\* The connect signal, when the session is served; a DualShock 4's comes before it.
Connects ==
    /\ life = "idle" /\ life' = "bridged"
    /\ Begins("connected")
    /\ UNCHANGED <<set, primed, full, fresh, queue, late>>

\* A plug that was refused, with no session.
Refuses ==
    /\ life = "idle" /\ life' = "closed" /\ set.way # "light" /\ ~set.game
    /\ (set.way = "card" => (set.tone \/ set.rumble))
    /\ Begins("refused")
    /\ UNCHANGED <<set, primed, full, fresh, queue, late>>

\* signal_close: from now on the connect signal is cancelled, or may not begin.
Asks ==
    /\ \/ life = "bridged" /\ (set.way = "ds4bt" => Over)
       \/ life = "idle" /\ set.way # "ds4bt"
    /\ life' = "asked"
    /\ UNCHANGED <<set, primed, full, fresh, play, queue, pad, lost, late>>

\* The release waits for the connect signal, then plays its own.
Releases ==
    /\ life = "asked" /\ Over
    /\ life' = "closed"
    /\ Begins("released") /\ late' = 0
    /\ UNCHANGED <<set, primed, full, fresh, queue>>

\* Between its signals the card plays on.
PlaysOn ==
    /\ life = "bridged" /\ Over /\ set.way = "card"
    /\ pad' = Played(WithGame) /\ queue' = Rest(WithGame)
    /\ UNCHANGED <<set, primed, full, fresh, life, play, lost, late>>

\* The card is closed, with all that it still holds.
Closes ==
    /\ life = "closed" /\ Over /\ play.sig # None
    /\ queue' = <<>> /\ play' = NoPlay
    /\ UNCHANGED <<set, primed, full, fresh, life, pad, lost, late>>

Signal ==
    \/ BtWaits \/ BtTakesOver \/ BtPrimes \/ BtVoices \/ BtTails \/ BtQuiets
    \/ Ds4Configures \/ Ds4Sends \/ Ds4Stops
    \/ CardDecides \/ CardWrites \/ CardIdles \/ CardBreathes \/ CardBreathed

Next == Signal \/ Connects \/ Refuses \/ Asks \/ Releases \/ PlaysOn \/ Closes

Spec == Init /\ [][Next]_vars

-----------------------------------------------------------------------------
(* Properties. *)

Ended == Over /\ play.sig # None
Cut == play.sig = "connected" /\ life = "asked"
Notes(p) == SelectSeq(p.hears, LAMBDA r : r.note # "silence")
Pulses(p) == SelectSeq(p.feels, LAMBDA f : f)
LitRuns(p) == SelectSeq(p.shows, LAMBDA c : c # "dark")
Tone == CASE set.way = "ds5bt" -> BtTone [] set.way = "ds4bt" -> Ds4Tone [] OTHER -> CardTone

Pair == <<[note |-> First(play.sig), for |-> Tone], [note |-> Second(play.sig), for |-> Tone]>>
Silence == [note |-> "silence", for |-> 1]
\* Both notes, whole and apart; by a release of a fresh cable they may be played twice.
WholeSound ==
    /\ Notes(pad) = Pair \/ (play.sig = "released" /\ Notes(pad) = Pair \o Pair)
    /\ \E i \in 1..(Len(pad.hears) - 2) :
           SubSeq(pad.hears, i, i + 2) = <<Pair[1], Silence, Pair[2]>>

\* A signal that nothing cut and of which nothing was lost is over only when the pad has
\* given all of it: both notes, whole and apart, where the tone is on, one pulse where the
\* rumble is, three flashes or a steady light where the light is, and nothing of what is
\* switched off; so a card is closed only after the release was heard.  A fresh cable's
\* dead stream costs none of it.  And one that was cut finds a Bluetooth DualSense's notes
\* either whole or not begun, never cut into ("every tone that starts is heard whole").
SignalIsWhole ==
    Ended /\ lost = 0 =>
        /\ ~Cut =>
             /\ set.way # "light" =>
                  /\ IF ~set.tone THEN Notes(pad) = <<>>
                     ELSE WholeSound
                  /\ Len(Pulses(pad)) = IF set.rumble THEN 1 ELSE 0
             /\ ~(set.way \in {"card", "light"} /\ play.sig = "refused") =>
                  /\ ToSet(LitRuns(pad)) = IF set.light THEN {Colour(play.sig)} ELSE {}
                  /\ Len(LitRuns(pad)) =
                        IF ~set.light THEN 0 ELSE IF play.sig = "connected" THEN 1 ELSE 3
        /\ set.way = "ds5bt" /\ set.tone => WholeSound \/ Notes(pad) = <<>>

\* However a signal ended, and with any report of it lost, the pad is left quiet: the
\* motors still, the light green on a bridged pad and dark on any other.
LeftQuiet ==
    Ended =>
        /\ set.way \in {"ds5bt", "ds4bt"} /\ pad.feels # <<>> => ~Last(pad.feels)
        /\ pad.shows # <<>> => Last(pad.shows) =
                IF play.sig = "connected" THEN "green" ELSE "dark"

\* What the player of a pad's signal sees of one that is over.
SignalEndsWell == SignalIsWhole /\ LeftQuiet

\* A release waits for the connect signal no longer than what may not be cut: the
\* voice and its drain over Bluetooth; on a card the sound being written, the repeat
\* once it was begun, and the wait of a pad whose light is off.
CutInTime ==
    late <= CASE set.way = "ds5bt" -> Voice + BtDrain
              [] set.way = "card" -> 2 * Span + CardWait + CardIdle + CardWait
              [] OTHER -> 2

\* One repeat per cabling: no release is played twice (ctm_feedback.inl: "the flag is cleared
\* here so the release tone is not doubled").
ReleaseOnce == play.sig = "released" => ~play.twice
=============================================================================
