----------------------------- MODULE SignalHold -----------------------------
(***************************************************************************)
(* Who may write a bridged pad's light and motors                          *)
(* (src/src/controllers/controller_common.c, controller_ds4.c and          *)
(* ctm_feedback.inl).  Three threads do: the session's, which passes the   *)
(* PC's reports on; the connected signal's, a detached one per connection  *)
(* of the session, which breathes green and may pulse the motors; and      *)
(* plug-out's, which plays the release signal and then closes the node.    *)
(* They agree through signal_running, signal_closed, signal_motors_done    *)
(* and signal_kept, each read or written in one hold of signal_mutex.      *)
(*                                                                         *)
(* Two kinds of pad are here.  A cabled DualShock 4's patcher takes the    *)
(* PC's claims out of its reports while a signal holds the pad, and the    *)
(* signal puts the PC's colour back as it ends.  A DualSense's reports are *)
(* never held; a colour a signal covers is owed, and the session's thread  *)
(* puts it back.  Light and rumble signals are switched on.                *)
(***************************************************************************)
EXTENDS Naturals

CONSTANTS
    Kinds,        \* the kinds of pad looked at: "ds4" (on a cable), "ds5"
    Colours,      \* the colours the PC sets
    NoColour,     \* none
    MaxConnects,  \* bound on the session's connections
    MaxReports,   \* bound on the PC's reports
    WritesFail    \* whether a signal's write to the pad may fail

ASSUME SignalAssumption ==
    /\ Kinds \subseteq {"ds4", "ds5"}
    /\ NoColour \notin Colours
    /\ Colours \cap {"green", "yellow", "dark", "tv"} = {}
    /\ MaxConnects \in Nat \ {0} /\ MaxReports \in Nat /\ WritesFail \in BOOLEAN

Signals == 1 .. MaxConnects
Rounds == 4   \* the connected signal's last try at giving the light back

VARIABLES
    kind,            \* the pad's kind, which never changes
    running, closed, motorsDone, kept,  \* signal_running, _closed, _motors_done, _kept
    taken, owed,     \* ready_light_taken; ready_light_owed and its colour
    sess,            \* where the session's thread is
    hand,            \* the report it is passing on
    sig, gave, round,  \* per connected signal: where it is, and its locals
    plug,            \* where plug-out is
    stop,            \* the controller's stop
    light, motors,   \* what the pad shows and does
    hostLight,       \* the last colour a report of the PC's set
    failed,          \* a signal's write has failed
    connects, reports  \* counts, for the bounds

holdVars == <<running, closed, motorsDone>>
owedVars == <<taken, owed>>
sessVars == <<sess, hand, connects, reports>>
sigVars == <<sig, gave, round>>
plugVars == <<plug, stop>>
padVars == <<light, motors>>
vars == <<kind, holdVars, kept, owedVars, sessVars, sigVars, plugVars, padVars, hostLight, failed>>

NoReport == [colour |-> NoColour, rumbles |-> FALSE, light |-> FALSE, motors |-> FALSE]

Init ==
    /\ kind \in Kinds
    /\ running = FALSE /\ closed = FALSE /\ motorsDone = FALSE /\ kept = NoColour
    /\ taken = FALSE /\ owed = NoColour
    /\ sess = "dial" /\ hand = NoReport /\ connects = 0 /\ reports = 0
    /\ sig = [s \in Signals |-> "unborn"]
    /\ gave = [s \in Signals |-> NoColour]
    /\ round = [s \in Signals |-> 1]
    /\ plug = "in" /\ stop = FALSE
    /\ light = "tv" /\ motors = "still"
    /\ hostLight = NoColour /\ failed = FALSE

Busy == running \/ closed                         \* controller_signal_busy
MotorsHeld == closed \/ (running /\ ~motorsDone)  \* controller_signal_motors_held
Cancelled == running /\ closed                    \* controller_signal_cancelled

-----------------------------------------------------------------------------
(***************************************************************************)
(* The session's thread: it connects, starts the connected signal and then *)
(* passes the PC's reports on until the link drops or it is stopped.       *)
(***************************************************************************)
Connect ==
    /\ sess = "dial" /\ ~stop
    /\ connects < MaxConnects
    /\ connects' = connects + 1
    /\ sess' = "signal"
    /\ UNCHANGED <<kind, holdVars, kept, owedVars, hand, reports, sigVars, plugVars, padVars, hostLight, failed>>

\* A mutation of SignalBegins: no claim is looked for.
BeginUnclaimed ==
    /\ sess = "signal"
    /\ IF closed THEN sess' = "run" /\ UNCHANGED <<running, motorsDone>>
       ELSE sess' = "spawn" /\ running' = TRUE /\ motorsDone' = FALSE
    /\ UNCHANGED <<kind, closed, kept, owedVars, hand, connects, reports, sigVars, plugVars, padVars, hostLight, failed>>

SignalBegins ==     \* controller_signal_begin()
    /\ sess = "signal"
    /\ IF Busy THEN sess' = "run" /\ UNCHANGED <<running, motorsDone>>
       ELSE sess' = "spawn" /\ running' = TRUE /\ motorsDone' = FALSE
    /\ UNCHANGED <<kind, closed, kept, owedVars, hand, connects, reports, sigVars, plugVars, padVars, hostLight, failed>>

SignalStarts ==
    /\ sess = "spawn"
    /\ sess' = "run"
    /\ sig' = [sig EXCEPT ![connects] = IF kind = "ds4" THEN "pulse" ELSE "breath"]
    /\ UNCHANGED <<kind, holdVars, kept, owedVars, hand, connects, reports, gave, round, plugVars, padVars, hostLight, failed>>

\* A mutation of SpawnFails: the claim is not given back.
SpawnKeepsClaim ==
    /\ sess = "spawn"
    /\ sess' = "run"
    /\ UNCHANGED <<kind, holdVars, kept, owedVars, hand, connects, reports, sigVars, plugVars, padVars, hostLight, failed>>

SpawnFails ==       \* pthread_create() failed: controller_signal_end(c, NULL)
    /\ sess = "spawn"
    /\ sess' = "run"
    /\ running' = FALSE
    /\ UNCHANGED <<kind, closed, motorsDone, kept, owedVars, hand, connects, reports, sigVars, plugVars, padVars, hostLight, failed>>

\* ready_light_note_host(): the colour of the PC's first light report, and of
\* any while one is owed, is owed if a signal holds the pad.
NoteHost(colour) ==
    IF kind = "ds5" /\ colour # NoColour /\ (~taken \/ owed # NoColour)
    THEN taken' = TRUE /\ owed' = IF Busy THEN colour ELSE NoColour
    ELSE UNCHANGED owedVars

\* A report of the PC's.  A DualSense's is noted.  A DualShock 4's colour is
\* kept, and its light claim held or not, in one hold of the mutex
\* (controller_signal_host_report).
TakeReport(colour, rumbles) ==
    /\ sess = "run" /\ ~stop
    /\ reports < MaxReports
    /\ reports' = reports + 1
    /\ hand' = [colour |-> colour, rumbles |-> rumbles, light |-> kind = "ds4" /\ Busy, motors |-> FALSE]
    /\ sess' = IF hand'.light THEN "judge" ELSE "write"
    /\ hostLight' = IF colour = NoColour THEN hostLight ELSE colour
    /\ kept' = IF kind = "ds4" THEN hostLight' ELSE kept
    /\ NoteHost(colour)
    /\ UNCHANGED <<kind, holdVars, connects, sigVars, plugVars, padVars, failed>>

JudgeMotors ==      \* asked in a hold of its own, and only of a held report
    /\ sess = "judge"
    /\ hand' = [hand EXCEPT !.motors = MotorsHeld]
    /\ sess' = "write"
    /\ UNCHANGED <<kind, holdVars, kept, owedVars, connects, reports, sigVars, plugVars, padVars, hostLight, failed>>

WriteReport ==
    /\ sess = "write"
    /\ light' = IF hand.colour # NoColour /\ ~hand.light THEN hand.colour ELSE light
    /\ motors' = IF hand.rumbles /\ ~hand.motors THEN "host" ELSE motors
    /\ hand' = NoReport
    /\ sess' = "run"
    /\ UNCHANGED <<kind, holdVars, kept, owedVars, connects, reports, sigVars, plugVars, hostLight, failed>>

\* ready_light_tick(), for a colour owed: looked at, then painted.
TickLooks ==
    /\ sess = "run" /\ ~stop
    /\ owed # NoColour /\ ~Busy
    /\ sess' = "tick"
    /\ UNCHANGED <<kind, holdVars, kept, owedVars, hand, connects, reports, sigVars, plugVars, padVars, hostLight, failed>>

TickPaints ==
    /\ sess = "tick"
    /\ light' = owed
    /\ owed' = NoColour
    /\ sess' = "run"
    /\ UNCHANGED <<kind, holdVars, kept, taken, hand, connects, reports, sigVars, plugVars, motors, hostLight, failed>>

LinkDrops ==
    /\ sess = "run" /\ ~stop
    /\ sess' = "dial"
    /\ UNCHANGED <<kind, holdVars, kept, owedVars, hand, connects, reports, sigVars, plugVars, padVars, hostLight, failed>>

SessionStops ==     \* told to, or no host answered
    /\ sess = "dial" \/ (sess = "run" /\ stop)
    /\ stop' = TRUE
    /\ sess' = "over"
    /\ UNCHANGED <<kind, holdVars, kept, owedVars, hand, connects, reports, sigVars, plug, padVars, hostLight, failed>>

SessionWork == SignalBegins \/ SignalStarts \/ SpawnFails \/ JudgeMotors \/ WriteReport
               \/ TickLooks \/ TickPaints \/ SessionStops

-----------------------------------------------------------------------------
(***************************************************************************)
(* A connected signal's thread: ds4_signal_play() and                      *)
(* ds4_connected_thread(), or feedback_signal_thread() for a DualSense,    *)
(* which only breathes here and ends with nothing to give back.            *)
(***************************************************************************)
SigGoto(s, place) == sig' = [sig EXCEPT ![s] = place]

\* A frame claims what the signal still drives; a failed one ends the play.
SigPulse(s) ==
    /\ sig[s] = "pulse"
    /\ ~closed
    /\ \/ /\ light' = "green" /\ motors' = "pulse"
          /\ UNCHANGED <<sig, failed>>
       \/ /\ WritesFail
          /\ failed' = TRUE
          /\ SigGoto(s, "cut")
          /\ UNCHANGED padVars
    /\ UNCHANGED <<kind, holdVars, kept, owedVars, sessVars, gave, round, plugVars, hostLight>>

\* A mutation of SigCut: a pulse cut short leaves the motors as they are.
SigCutLeaves(s) ==
    /\ sig[s] \in {"pulse", "breath"}
    /\ closed
    /\ SigGoto(s, IF kind = "ds4" THEN "keep" ELSE "end")
    /\ UNCHANGED <<kind, holdVars, kept, owedVars, sessVars, gave, round, plugVars, padVars, hostLight, failed>>

SigCut(s) ==        \* controller_signal_stopping(), between frames
    /\ sig[s] \in {"pulse", "breath"}
    /\ closed
    /\ SigGoto(s, IF sig[s] = "pulse" THEN "cut" ELSE IF kind = "ds4" THEN "keep" ELSE "end")
    /\ UNCHANGED <<kind, holdVars, kept, owedVars, sessVars, gave, round, plugVars, padVars, hostLight, failed>>

SigPulseOver(s) ==
    /\ sig[s] = "pulse"
    /\ SigGoto(s, "stop")
    /\ UNCHANGED <<kind, holdVars, kept, owedVars, sessVars, gave, round, plugVars, padVars, hostLight, failed>>

SigStop(s) ==       \* the pulse's stop, in the play or after it
    /\ sig[s] \in {"stop", "cut"}
    /\ \/ /\ motors' = "still"
          /\ SigGoto(s, IF sig[s] = "stop" THEN "free" ELSE "cutfree")
          /\ UNCHANGED failed
       \/ /\ WritesFail
          /\ failed' = TRUE
          /\ SigGoto(s, IF sig[s] = "stop" THEN "cut" ELSE "cutfree")
          /\ UNCHANGED motors
    /\ UNCHANGED <<kind, holdVars, kept, owedVars, sessVars, gave, round, plugVars, light, hostLight>>

SigMotorsDone(s) == \* controller_signal_motors_done()
    /\ sig[s] \in {"free", "cutfree"}
    /\ motorsDone' = TRUE
    /\ SigGoto(s, IF sig[s] = "free" THEN "breath" ELSE "keep")
    /\ UNCHANGED <<kind, running, closed, kept, owedVars, sessVars, gave, round, plugVars, padVars, hostLight, failed>>

\* A mutation of SigBreath: every frame claims the motors too, at zero.
BreathClaimsMotors(s) ==
    /\ sig[s] = "breath"
    /\ ~closed
    /\ light' = "green"
    /\ motors' = IF kind = "ds4" THEN "still" ELSE motors
    /\ UNCHANGED <<kind, holdVars, kept, owedVars, sessVars, sigVars, plugVars, hostLight, failed>>

SigBreath(s) ==
    /\ sig[s] = "breath"
    /\ ~closed
    /\ light' = "green"
    /\ UNCHANGED <<kind, holdVars, kept, owedVars, sessVars, sigVars, plugVars, motors, hostLight, failed>>

SigBreathOver(s) == \* its time is up, or a frame failed
    /\ sig[s] = "breath"
    /\ SigGoto(s, IF kind = "ds4" THEN "keep" ELSE "end")
    /\ UNCHANGED <<kind, holdVars, kept, owedVars, sessVars, gave, round, plugVars, padVars, hostLight, failed>>

\* The light goes back: the PC's colour is read, stopping is asked, it is
\* written (green when there is none), and the signal ends if nothing newer came.
SigKept(s) ==
    /\ sig[s] = "keep"
    /\ gave' = [gave EXCEPT ![s] = kept]
    /\ SigGoto(s, "look")
    /\ UNCHANGED <<kind, holdVars, kept, owedVars, sessVars, round, plugVars, padVars, hostLight, failed>>

SigLooks(s) ==
    /\ sig[s] = "look"
    /\ SigGoto(s, IF closed THEN "end" ELSE "paint")
    /\ UNCHANGED <<kind, holdVars, kept, owedVars, sessVars, gave, round, plugVars, padVars, hostLight, failed>>

SigPaints(s) ==
    /\ sig[s] = "paint"
    /\ \/ light' = (IF gave[s] = NoColour THEN "green" ELSE gave[s]) /\ UNCHANGED failed
       \/ WritesFail /\ failed' = TRUE /\ UNCHANGED light
    /\ SigGoto(s, "end")
    /\ UNCHANGED <<kind, holdVars, kept, owedVars, sessVars, gave, round, plugVars, motors, hostLight>>

\* A mutation of SigEnd: the signal lets go whatever came meanwhile.
SigEndsAnyway(s) ==
    /\ sig[s] = "end"
    /\ running' = FALSE
    /\ SigGoto(s, "gone")
    /\ UNCHANGED <<kind, closed, motorsDone, kept, owedVars, sessVars, gave, round, plugVars, padVars, hostLight, failed>>

SigEnd(s) ==        \* controller_signal_end()
    /\ sig[s] = "end"
    /\ IF kind = "ds5" \/ round[s] = Rounds \/ closed \/ kept = gave[s]
       THEN running' = FALSE /\ SigGoto(s, "gone") /\ UNCHANGED round
       ELSE SigGoto(s, "keep") /\ round' = [round EXCEPT ![s] = @ + 1] /\ UNCHANGED running
    /\ UNCHANGED <<kind, closed, motorsDone, kept, owedVars, sessVars, gave, plugVars, padVars, hostLight, failed>>

SigStep(s) ==
    \/ SigPulse(s) \/ SigCut(s) \/ SigPulseOver(s) \/ SigStop(s) \/ SigMotorsDone(s)
    \/ SigBreath(s) \/ SigBreathOver(s) \/ SigKept(s) \/ SigLooks(s) \/ SigPaints(s) \/ SigEnd(s)

-----------------------------------------------------------------------------
(***************************************************************************)
(* Plug-out: no signal from here on; the one that runs is waited for; the  *)
(* release signal plays, unless the device is gone or the app is quitting; *)
(* the session is stopped and waited for; the node is closed.              *)
(***************************************************************************)
PlugOut ==
    /\ plug = "in"
    /\ closed' = TRUE
    /\ plug' = "closing"
    /\ UNCHANGED <<kind, running, motorsDone, kept, owedVars, sessVars, sigVars, stop, padVars, hostLight, failed>>

\* A mutation of SignalClosed: nothing is waited for.
CloseWaitsNot ==
    /\ plug = "closing"
    /\ plug' \in {"release", "stop"}
    /\ UNCHANGED <<kind, holdVars, kept, owedVars, sessVars, sigVars, stop, padVars, hostLight, failed>>

SignalClosed ==
    /\ plug = "closing"
    /\ ~running
    /\ plug' \in {"release", "stop"}
    /\ UNCHANGED <<kind, holdVars, kept, owedVars, sessVars, sigVars, stop, padVars, hostLight, failed>>

ReleaseBegins ==
    /\ plug = "release"
    /\ light' = "yellow"
    /\ motors' = IF kind = "ds4" THEN "pulse" ELSE motors
    /\ plug' = "releasing"
    /\ UNCHANGED <<kind, holdVars, kept, owedVars, sessVars, sigVars, stop, hostLight, failed>>

\* The pulse's stop, and the light left dark.  A DualSense's write loop asks
\* whether it is cancelled, and leaves the rest unplayed when it is.
ReleaseEnds ==
    /\ plug = "releasing"
    /\ IF kind = "ds5" /\ Cancelled THEN plug' = "cut" /\ UNCHANGED padVars
       ELSE /\ plug' = "stop"
            /\ light' = "dark"
            /\ motors' = IF kind = "ds4" THEN "still" ELSE motors
    /\ UNCHANGED <<kind, holdVars, kept, owedVars, sessVars, sigVars, stop, hostLight, failed>>

StopSession ==
    /\ plug \in {"stop", "cut"}
    /\ stop' = TRUE
    /\ plug' = "join"
    /\ UNCHANGED <<kind, holdVars, kept, owedVars, sessVars, sigVars, padVars, hostLight, failed>>

CloseNode ==
    /\ plug = "join"
    /\ sess = "over"
    /\ plug' = "gone"
    /\ UNCHANGED <<kind, holdVars, kept, owedVars, sessVars, sigVars, stop, padVars, hostLight, failed>>

PlugWork == SignalClosed \/ ReleaseBegins \/ ReleaseEnds \/ StopSession \/ CloseNode

Next ==
    \/ Connect \/ SessionWork \/ LinkDrops
    \/ \E colour \in Colours \cup {NoColour}, rumbles \in BOOLEAN : TakeReport(colour, rumbles)
    \/ \E s \in Signals : SigStep(s)
    \/ PlugOut \/ PlugWork

Spec == Init /\ [][Next]_vars

\* Every thread runs; a signal's frames end with its time.
SigLeaves(s) ==
    SigCut(s) \/ SigPulseOver(s) \/ SigStop(s) \/ SigMotorsDone(s) \/ SigBreathOver(s)
    \/ SigKept(s) \/ SigLooks(s) \/ SigPaints(s) \/ SigEnd(s)

FairSpec ==
    /\ Spec
    /\ WF_vars(SessionWork)
    /\ WF_vars(PlugWork)
    /\ \A s \in Signals : WF_vars(SigLeaves(s))

-----------------------------------------------------------------------------
(***************************************************************************)
(* Properties.                                                             *)
(***************************************************************************)
Reports == [colour : Colours \cup {NoColour}, rumbles : BOOLEAN, light : BOOLEAN, motors : BOOLEAN]
Shown == Colours \cup {"tv", "green", "yellow", "dark"}

\* The values the variables take.
TypeOK ==
    /\ kind \in Kinds
    /\ {running, closed, motorsDone, taken, stop, failed} \subseteq BOOLEAN
    /\ {kept, owed, hostLight} \subseteq Colours \cup {NoColour}
    /\ kind = "ds4" => owed = NoColour /\ ~taken
    /\ sess \in {"dial", "signal", "spawn", "run", "judge", "write", "tick", "over"}
    /\ hand \in Reports
    /\ sig \in [Signals -> {"unborn", "pulse", "stop", "cut", "free", "cutfree", "breath",
                            "keep", "look", "paint", "end", "gone"}]
    /\ gave \in [Signals -> Colours \cup {NoColour}]
    /\ round \in [Signals -> 1 .. Rounds]
    /\ plug \in {"in", "closing", "release", "releasing", "cut", "stop", "join", "gone"}
    /\ light \in Shown /\ motors \in {"still", "pulse", "host"}
    /\ connects \in 0 .. MaxConnects /\ reports \in 0 .. MaxReports

Playing(s) == sig[s] \notin {"unborn", "gone"}
Releasing == plug \in {"release", "releasing", "cut"}

\* "Plug-out does not close anything until it has finished" (controller_common.c):
\* once plug-out goes on, no signal's thread is left that touches the controller.
NothingTouchesAClosedPad ==
    plug \notin {"in", "closing"} => \A s \in Signals : ~Playing(s)

\* "Two signals on one light is a flicker": whoever plays has the claim, and
\* nobody plays beside another, the release included; and the release "IS the
\* release": nothing cancels it, because no claim can be taken once plug-out has
\* begun.
OneSignalAtATime ==
    /\ \A s, t \in Signals : Playing(s) /\ Playing(t) => s = t
    /\ (\E s \in Signals : Playing(s)) => running /\ ~Releasing
    /\ plug # "cut"

\* "The pulse always ends with a stop, however the pattern ended": the motors
\* run as the signal left them only while it still has its stop to write.
PulseAlwaysStops ==
    motors = "pulse" /\ ~failed =>
        \/ plug = "releasing"
        \/ \E s \in Signals : sig[s] \in {"pulse", "stop", "cut"}

\* The session is between reports, nothing holds the pad and nothing is owed.
\* A DualShock 4's signal tries only so often ("Bounded"), and a write that
\* failed leaves the light as it was.
AtRest == /\ sess = "run" /\ ~Busy /\ owed = NoColour
          /\ ~failed
          /\ \A s \in Signals : round[s] < Rounds

\* The PC's last colour is on the pad whenever it is at rest: "A COLOUR SET
\* WHILE THE BRIDGE'S OWN SIGNAL PAINTS THE PAD IS KEPT".  Of a DualSense this is
\* said until its link has dropped once (see HostColourStays).
HostColourShows ==
    AtRest /\ hostLight # NoColour /\ (kind = "ds5" => connects = 1)
        => light = hostLight

\* The same over reconnects: the light stays the PC's for the session, "a
\* reconnect included: the PC still has the pad then".
HostColourStays ==
    AtRest /\ hostLight # NoColour => light = hostLight

\* "The motors are let go with that stop, not when the breath ends": a rumble of
\* the PC's that reached the pad is stopped by no signal but by the pulse of
\* a later one, or by the release.
HostRumbleStays ==
    [][motors = "host" /\ motors' # "host" =>
        Releasing \/ \E s \in Signals : sig[s] \in {"pulse", "stop", "cut"}]_vars

\* Plug-out's wait is "unbounded on purpose", and it ends: every claim is given
\* back, by a signal that ended, was cut short, or never got a thread.
PlugOutReturns == plug = "closing" ~> plug = "gone"
=============================================================================
