-------------------------- MODULE SignalHoldProofs --------------------------
(***************************************************************************)
(* Proofs about SignalHold for any kinds, colours and numbers of           *)
(* connections and reports: one signal plays at a time, none is left when  *)
(* plug-out goes on, every pulse of the motors has its stop ahead, no      *)
(* signal's breath stops the PC's rumble, and the PC's colour is on the    *)
(* pad whenever it is at rest.                                             *)
(***************************************************************************)
EXTENDS SignalHold, TLAPS

Driving == {"pulse", "stop", "cut"}

\* Types are enough of what a signal's thread is.
SigTypes == sig \in [Signals -> {"unborn", "pulse", "stop", "cut", "free", "cutfree", "breath",
                                 "keep", "look", "paint", "end", "gone"}]

\* Whoever plays has the claim, and nobody else plays; the session's claim that has no thread
\* yet is nobody else's either.
ClaimInv ==
    /\ \A s, t \in Signals : Playing(s) /\ Playing(t) => s = t
    /\ \A s \in Signals : Playing(s) => running
    /\ sess = "spawn" => running /\ \A s \in Signals : ~Playing(s)

\* The pad is closed from plug-out's first step on, and free from its second.
CloseInv ==
    /\ plug = "in" <=> ~closed
    /\ closed \in BOOLEAN /\ running \in BOOLEAN
    /\ plug \notin {"in", "closing"} => ~running
    /\ plug # "cut"

\* Only a DualShock 4's motors are pulsed, and the pulse's stop is still to come.
PulseInv ==
    /\ \A s \in Signals : sig[s] \in Driving => kind = "ds4"
    /\ motors = "pulse" => kind = "ds4"
    /\ failed \in BOOLEAN
    /\ PulseAlwaysStops

IInv == SigTypes /\ ClaimInv /\ CloseInv /\ PulseInv

USE SignalAssumption
USE DEF Playing, Driving, Busy, Cancelled, SigGoto, holdVars, owedVars, sessVars, sigVars,
        plugVars, padVars

\* Nothing has begun.
LEMMA Initially == Init => IInv
BY DEF Init, IInv, SigTypes, ClaimInv, CloseInv, PulseInv, PulseAlwaysStops

\* The session's thread: a claim is taken only where nobody holds the pad.
LEMMA SessionKeeps ==
    ASSUME IInv,
           \/ Connect \/ SessionWork \/ LinkDrops
           \/ \E colour \in Colours \cup {NoColour}, rumbles \in BOOLEAN : TakeReport(colour, rumbles)
    PROVE  IInv'
<1> USE DEF IInv
<1>1. CASE SignalBegins
  BY <1>1 DEF SignalBegins, SigTypes, ClaimInv, CloseInv, PulseInv, PulseAlwaysStops
<1>2. CASE SignalStarts
  <2>1. \A s \in Signals : sig'[s] = sig[s] \/ (s = connects /\ sig'[s] \in {"pulse", "breath"}
                                                /\ (sig'[s] = "pulse" => kind = "ds4"))
    BY <1>2 DEF SignalStarts, SigTypes
  <2>2. SigTypes' /\ ClaimInv' /\ CloseInv'
    BY <1>2, <2>1 DEF SignalStarts, SigTypes, ClaimInv, CloseInv
  <2>3. \A s \in Signals : sig[s] \notin Driving
    BY <1>2 DEF SignalStarts, ClaimInv
  <2>4. PulseInv'
    BY <1>2, <2>1, <2>3 DEF SignalStarts, PulseInv, PulseAlwaysStops
  <2> QED
    BY <2>2, <2>4
<1>3. CASE SpawnFails
  BY <1>3 DEF SpawnFails, SigTypes, ClaimInv, CloseInv, PulseInv, PulseAlwaysStops
<1>4. CASE \/ Connect \/ LinkDrops \/ JudgeMotors \/ TickLooks \/ TickPaints \/ SessionStops
           \/ \E colour \in Colours \cup {NoColour}, rumbles \in BOOLEAN : TakeReport(colour, rumbles)
  <2>1. /\ UNCHANGED <<kind, sig, running, closed, plug, motors, failed>>
        /\ sess' # "spawn"
    BY <1>4 DEF Connect, LinkDrops, JudgeMotors, TickLooks, TickPaints, SessionStops, TakeReport
  <2> QED
    BY <2>1 DEF SigTypes, ClaimInv, CloseInv, PulseInv, PulseAlwaysStops
<1>5. CASE WriteReport
  <2>1. /\ UNCHANGED <<kind, sig, running, closed, plug, failed>>
        /\ sess' # "spawn" /\ motors' \in {motors, "host"}
    BY <1>5 DEF WriteReport
  <2> QED
    BY <2>1 DEF SigTypes, ClaimInv, CloseInv, PulseInv, PulseAlwaysStops
<1> QED
  BY <1>1, <1>2, <1>3, <1>4, <1>5 DEF SessionWork

\* A signal's thread: it is the only one, and lets the claim go as it ends.
LEMMA SignalKeeps == ASSUME IInv, NEW s \in Signals, SigStep(s) PROVE IInv'
<1> USE DEF IInv
<1>1. Playing(s) /\ running /\ (\A t \in Signals : t # s => ~Playing(t)) /\ sess # "spawn"
  BY DEF SigStep, SigPulse, SigCut, SigPulseOver, SigStop, SigMotorsDone, SigBreath,
         SigBreathOver, SigKept, SigLooks, SigPaints, SigEnd, ClaimInv
<1>2. UNCHANGED <<kind, closed, plug, sess>> /\ running' \in {running, FALSE}
  BY DEF SigStep, SigPulse, SigCut, SigPulseOver, SigStop, SigMotorsDone, SigBreath,
         SigBreathOver, SigKept, SigLooks, SigPaints, SigEnd
<1>3. SigTypes' /\ \A t \in Signals : t # s => sig'[t] = sig[t]
  BY DEF SigStep, SigPulse, SigCut, SigPulseOver, SigStop, SigMotorsDone, SigBreath,
         SigBreathOver, SigKept, SigLooks, SigPaints, SigEnd, SigTypes
<1>4. ~running' => ~Playing(s)'
  BY <1>1 DEF SigStep, SigPulse, SigCut, SigPulseOver, SigStop, SigMotorsDone, SigBreath,
         SigBreathOver, SigKept, SigLooks, SigPaints, SigEnd, SigTypes
<1>5. ClaimInv' /\ CloseInv'
  BY <1>1, <1>2, <1>3, <1>4 DEF ClaimInv, CloseInv
<1>6. CASE sig[s] \in {"pulse", "stop", "cut"}
  <2>1. kind = "ds4"
    BY <1>6 DEF PulseInv
  <2>2. \/ sig'[s] \in Driving
        \/ motors' = "still" \/ failed' = TRUE
    BY <1>6 DEF SigStep, SigPulse, SigCut, SigPulseOver, SigStop, SigMotorsDone, SigBreath,
           SigBreathOver, SigKept, SigLooks, SigPaints, SigEnd, SigTypes
  <2>3. failed' \in BOOLEAN
    BY <1>6 DEF SigStep, SigPulse, SigCut, SigPulseOver, SigStop, SigMotorsDone, SigBreath,
           SigBreathOver, SigKept, SigLooks, SigPaints, SigEnd, PulseInv
  <2>4. \A t \in Signals : sig'[t] \in Driving => kind' = "ds4"
    BY <1>2, <2>1
  <2>5. PulseAlwaysStops'
    <3>1. CASE sig'[s] \in Driving
      BY <3>1 DEF PulseAlwaysStops
    <3>2. CASE motors' = "still"
      BY <3>2 DEF PulseAlwaysStops
    <3>3. CASE failed' = TRUE
      BY <3>3 DEF PulseAlwaysStops
    <3> QED
      BY <2>2, <3>1, <3>2, <3>3
  <2> QED
    BY <1>2, <1>3, <1>5, <2>1, <2>3, <2>4, <2>5 DEF PulseInv
<1>7. CASE sig[s] \notin {"pulse", "stop", "cut"}
  <2>1. /\ sig'[s] \notin Driving /\ UNCHANGED motors
        /\ failed' \in {failed, TRUE}
    BY <1>7 DEF SigStep, SigPulse, SigCut, SigPulseOver, SigStop, SigMotorsDone, SigBreath,
           SigBreathOver, SigKept, SigLooks, SigPaints, SigEnd, SigTypes
  <2>2. \A t \in Signals : sig'[t] \in Driving => sig[t] \in Driving
    BY <1>3, <2>1
  <2>3. \A t \in Signals : sig[t] \notin Driving
    BY <1>1, <1>7
  <2>4. motors = "pulse" /\ ~failed => plug = "releasing"
    BY <2>3 DEF PulseInv, PulseAlwaysStops
  <2>5. failed' \in BOOLEAN /\ (~failed' => ~failed)
    <3>1. failed \in BOOLEAN
      BY DEF PulseInv
    <3>2. CASE failed' = failed
      BY <3>1, <3>2
    <3>3. CASE failed' = TRUE
      BY <3>3
    <3> QED
      BY <2>1, <3>2, <3>3
  <2>6. PulseAlwaysStops'
    BY <1>2, <2>1, <2>4, <2>5 DEF PulseAlwaysStops
  <2> QED
    BY <1>2, <1>3, <1>5, <2>1, <2>2, <2>5, <2>6 DEF PulseInv
<1> QED
  BY <1>6, <1>7

\* Plug-out: the release plays with the pad closed and free, so it is never cut.
LEMMA PlugKeeps == ASSUME IInv, PlugOut \/ PlugWork PROVE IInv'
<1> USE DEF IInv
<1>1. UNCHANGED <<kind, sig, running, sess, failed>>
  BY DEF PlugOut, PlugWork, SignalClosed, ReleaseBegins, ReleaseEnds, StopSession, CloseNode
<1>2. SigTypes' /\ ClaimInv'
  BY <1>1 DEF SigTypes, ClaimInv
<1>3. CloseInv'
  <2>1. CASE PlugOut
    BY <1>1, <2>1 DEF PlugOut, CloseInv
  <2>2. CASE PlugWork
    BY <1>1, <2>2 DEF PlugWork, SignalClosed, ReleaseBegins, ReleaseEnds, StopSession,
                      CloseNode, CloseInv
  <2> QED
    BY <2>1, <2>2
<1>4. PulseInv'
  <2>1. CASE PlugOut \/ SignalClosed \/ StopSession \/ CloseNode
    BY <1>1, <2>1 DEF PlugOut, SignalClosed, StopSession, CloseNode, PulseInv,
                      PulseAlwaysStops
  <2>2. CASE ReleaseBegins
    BY <1>1, <2>2 DEF ReleaseBegins, PulseInv, PulseAlwaysStops
  <2>3. CASE ReleaseEnds
    BY <1>1, <2>3 DEF ReleaseEnds, PulseInv, PulseAlwaysStops, CloseInv
  <2> QED
    BY <2>1, <2>2, <2>3 DEF PlugWork
<1> QED
  BY <1>2, <1>3, <1>4

\* The inductive invariant.
THEOREM Invariance == Spec => []IInv
<1>1. IInv /\ [Next]_vars => IInv'
  <2> SUFFICES ASSUME IInv, [Next]_vars PROVE IInv'
    OBVIOUS
  <2>1. CASE UNCHANGED vars
    BY <2>1 DEF vars, IInv, SigTypes, ClaimInv, CloseInv, PulseInv, PulseAlwaysStops
  <2> QED
    BY <2>1, SessionKeeps, SignalKeeps, PlugKeeps DEF Next
<1> QED
  BY <1>1, Initially, PTL DEF Spec

\* Two signals never play on one pad, the release plays alone, and nothing cancels it
\* (controller_signal_begin, controller_signal_close), however many connections there are.
THEOREM OneSignal == Spec => []OneSignalAtATime
<1>1. IInv => OneSignalAtATime
  BY DEF IInv, ClaimInv, CloseInv, OneSignalAtATime, Releasing
<1> QED
  BY <1>1, Invariance, PTL

\* Once plug-out's wait is over no signal's thread is left to touch what it closes.
THEOREM ClosedIsUntouched == Spec => []NothingTouchesAClosedPad
<1>1. IInv => NothingTouchesAClosedPad
  BY DEF IInv, ClaimInv, CloseInv, NothingTouchesAClosedPad
<1> QED
  BY <1>1, Invariance, PTL

\* Motors a signal set running are stopped by it, but for a write that failed
\* (ds4_signal_play, ds4_connected_thread).
THEOREM PulsesStop == Spec => []PulseAlwaysStops
<1>1. IInv => PulseAlwaysStops
  BY DEF IInv, PulseInv
<1> QED
  BY <1>1, Invariance, PTL

\* No signal's breath, and nothing it does while it gives the light back, stops a rumble of
\* the PC's: only a pulse does, or the release (ds4_signal_play, ds4_set_signal).
THEOREM RumbleStays == Spec => HostRumbleStays
<1>1. Next /\ motors = "host" /\ motors' # "host"
        => Releasing \/ \E s \in Signals : sig[s] \in Driving
  <2> SUFFICES ASSUME Next, motors = "host", motors' # "host"
               PROVE  Releasing \/ \E s \in Signals : sig[s] \in Driving
    OBVIOUS
  <2>1. ASSUME NEW s \in Signals, SigStep(s) PROVE sig[s] \in Driving
    BY <2>1 DEF SigStep, SigPulse, SigCut, SigPulseOver, SigStop, SigMotorsDone, SigBreath,
                SigBreathOver, SigKept, SigLooks, SigPaints, SigEnd
  <2>2. CASE PlugOut \/ PlugWork
    BY <2>2 DEF PlugOut, PlugWork, SignalClosed, ReleaseBegins, ReleaseEnds, StopSession,
                CloseNode, Releasing
  <2>3. CASE \/ Connect \/ SessionWork \/ LinkDrops
             \/ \E colour \in Colours \cup {NoColour}, rumbles \in BOOLEAN : TakeReport(colour, rumbles)
    BY <2>3 DEF Connect, LinkDrops, SessionWork, SignalBegins, SignalStarts, SpawnFails,
                JudgeMotors, WriteReport, TickLooks, TickPaints, SessionStops, TakeReport
  <2> QED
    BY <2>1, <2>2, <2>3 DEF Next
<1> QED
  BY <1>1, PTL DEF Spec, HostRumbleStays

-----------------------------------------------------------------------------
(***************************************************************************)
(* The PC's colour.  On its way to the pad it is in the report at hand;    *)
(* while a signal holds the pad it is kept, for a DualShock 4, or owed, for*)
(* a DualSense.                                                            *)
(***************************************************************************)
\* The report at hand is the PC's last, and so is a colour owed.
ReportInv ==
    /\ sess = "judge" => hand.light
    /\ sess = "tick" => owed # NoColour /\ ~running
    /\ sess \in {"judge", "write"} /\ hand.colour # NoColour => hand.colour = hostLight
    /\ owed # NoColour => owed = hostLight

Tries == \A s \in Signals : round[s] < Rounds
OnItsWay == sess = "write" /\ ~hand.light /\ hand.colour = hostLight

\* A DualShock 4's: the signal ends with what it gave back on the pad, so what was kept last
\* is there once nobody holds it.
HeldInv == kind = "ds4" =>
    /\ kept = hostLight
    /\ running /\ sess \in {"judge", "write"} => hand.light
    /\ ~closed /\ ~failed /\ Tries =>
          /\ \A s \in Signals : sig[s] = "end" =>
                light = IF gave[s] = NoColour THEN "green" ELSE gave[s]
          /\ hostLight # NoColour /\ (~running \/ sess = "spawn") =>
                light = hostLight \/ OnItsWay

\* A DualSense's, on its first connection: what the signal covers is owed.
OwedInv == kind = "ds5" =>
    /\ sess # "judge" /\ (sess = "write" => ~hand.light)
    /\ connects = 0 => hostLight = NoColour /\ sess \in {"dial", "over"}
    /\ connects = 1 /\ sess \in {"signal", "spawn"} => hostLight = NoColour
    /\ taken <=> hostLight # NoColour
    /\ connects = 1 /\ ~closed /\ hostLight # NoColour =>
          \/ owed = hostLight
          \/ ~running /\ owed = NoColour /\ (light = hostLight \/ OnItsWay)

\* The switches, and the colours kept and owed.
Flags == /\ running \in BOOLEAN /\ closed \in BOOLEAN /\ motorsDone \in BOOLEAN
         /\ taken \in BOOLEAN /\ stop \in BOOLEAN /\ failed \in BOOLEAN

\* Everything else the types say.
Values ==
    /\ kind \in Kinds
    /\ {kept, owed, hostLight} \subseteq Colours \cup {NoColour}
    /\ kind = "ds4" => owed = NoColour /\ ~taken
    /\ sess \in {"dial", "signal", "spawn", "run", "judge", "write", "tick", "over"}
    /\ hand \in Reports
    /\ SigTypes
    /\ gave \in [Signals -> Colours \cup {NoColour}]
    /\ round \in [Signals -> 1 .. Rounds]
    /\ plug \in {"in", "closing", "release", "releasing", "cut", "stop", "join", "gone"}
    /\ light \in Shown /\ motors \in {"still", "pulse", "host"}
    /\ connects \in 0 .. MaxConnects /\ reports \in 0 .. MaxReports

\* The two together are the types.
LEMMA TypesAre == TypeOK <=> Flags /\ Values
<1>1. {running, closed, motorsDone, taken, stop, failed} \subseteq BOOLEAN <=> Flags
  BY Zenon DEF Flags
<1> QED
  BY <1>1, Zenon DEF TypeOK, Values, SigTypes

\* After a step too.
LEMMA TypesAreNext == TypeOK' <=> Flags' /\ Values'
BY TypesAre, PTL

\* A switch is only ever set or cleared.
LEMMA FlagsStep == Flags /\ [Next]_vars => Flags'
<1> SUFFICES ASSUME Flags, [Next]_vars PROVE Flags'
  OBVIOUS
<1> USE DEF Flags
<1>1. CASE \/ Connect \/ SessionWork \/ LinkDrops
           \/ \E colour \in Colours \cup {NoColour}, rumbles \in BOOLEAN : TakeReport(colour, rumbles)
  BY <1>1, Zenon DEF Connect, SessionWork, LinkDrops, TakeReport, NoteHost, SignalBegins,
              SignalStarts, SpawnFails, JudgeMotors, WriteReport, TickLooks, TickPaints,
              SessionStops
<1>2. ASSUME NEW s \in Signals, SigStep(s) PROVE Flags'
  BY <1>2, Zenon DEF SigStep, SigPulse, SigCut, SigPulseOver, SigStop, SigMotorsDone,
              SigBreath, SigBreathOver, SigKept, SigLooks, SigPaints, SigEnd
<1>3. CASE PlugOut \/ PlugWork
  BY <1>3, Zenon DEF PlugOut, PlugWork, SignalClosed, ReleaseBegins, ReleaseEnds, StopSession,
              CloseNode
<1>4. CASE UNCHANGED vars
  BY <1>4, Zenon DEF vars
<1> QED
  BY <1>1, <1>2, <1>3, <1>4, Zenon DEF Next

\* The values the variables take, and what the session's thread has in hand.
LEMMA ValuesStep == Values /\ ReportInv /\ [Next]_vars => Values' /\ ReportInv'
<1> SUFFICES ASSUME Values, ReportInv, [Next]_vars PROVE Values' /\ ReportInv'
  OBVIOUS
<1> USE DEF Values, SigTypes, ReportInv, Rounds, Signals
<1>1. CASE Connect \/ SignalBegins \/ SpawnFails \/ LinkDrops \/ SessionStops
  BY <1>1 DEF Connect, SignalBegins, SpawnFails, LinkDrops, SessionStops
<1>2. CASE SignalStarts
  BY <1>2 DEF SignalStarts
<1>3. ASSUME NEW colour \in Colours \cup {NoColour}, NEW rumbles \in BOOLEAN,
             TakeReport(colour, rumbles)
      PROVE  Values' /\ ReportInv'
  BY <1>3 DEF TakeReport, NoteHost, Reports
<1>4. CASE JudgeMotors
  BY <1>4 DEF JudgeMotors, MotorsHeld, Reports
<1>5. CASE WriteReport
  BY <1>5 DEF WriteReport, NoReport, Reports, Shown
<1>6. CASE TickLooks \/ TickPaints
  BY <1>6 DEF TickLooks, TickPaints, Shown
<1>7. ASSUME NEW s \in Signals, SigStep(s) PROVE Values' /\ ReportInv'
  <2>1. CASE SigPulse(s) \/ SigCut(s)
    BY <2>1 DEF SigPulse, SigCut, Shown
  <2>2. CASE SigPulseOver(s) \/ SigStop(s)
    BY <2>2 DEF SigPulseOver, SigStop
  <2>3. CASE SigMotorsDone(s) \/ SigBreath(s) \/ SigBreathOver(s)
    BY <2>3 DEF SigMotorsDone, SigBreath, SigBreathOver, Shown
  <2>4. CASE SigKept(s)
    <3>1. kept \in Colours \cup {NoColour} /\ gave' \in [Signals -> Colours \cup {NoColour}]
      BY <2>4 DEF SigKept
    <3>2. sig' \in [Signals -> {"unborn", "pulse", "stop", "cut", "free", "cutfree", "breath",
                               "keep", "look", "paint", "end", "gone"}]
      BY <2>4 DEF SigKept
    <3> QED
      BY <2>4, <3>1, <3>2 DEF SigKept
  <2>5. CASE SigLooks(s)
    BY <2>5 DEF SigLooks
  <2>6. CASE SigPaints(s)
    BY <2>6 DEF SigPaints, Shown
  <2>7. CASE SigEnd(s)
    BY <2>7 DEF SigEnd
  <2> QED
    BY <1>7, <2>1, <2>2, <2>3, <2>4, <2>5, <2>6, <2>7, Zenon DEF SigStep
<1>8. CASE PlugOut \/ PlugWork
  <2>1. CASE PlugOut \/ SignalClosed \/ StopSession \/ CloseNode
    BY <2>1 DEF PlugOut, SignalClosed, StopSession, CloseNode
  <2>2. CASE ReleaseBegins \/ ReleaseEnds
    BY <2>2 DEF ReleaseBegins, ReleaseEnds, Shown
  <2> QED
    BY <1>8, <2>1, <2>2, Zenon DEF PlugWork
<1>9. CASE UNCHANGED vars
  BY <1>9 DEF vars
<1> QED
  BY <1>1, <1>2, <1>3, <1>4, <1>5, <1>6, <1>7, <1>8, <1>9 DEF Next, SessionWork

\* A step keeps the types, because a colour is only painted when one is owed.
LEMMA TypeStep == TypeOK /\ ReportInv /\ [Next]_vars => TypeOK' /\ ReportInv'
BY TypesAre, TypesAreNext, FlagsStep, ValuesStep

\* The session's thread hands a DualShock 4's colour to whoever may show it.
LEMMA SessionHands ==
    ASSUME IInv, TypeOK, ReportInv, HeldInv,
           \/ Connect \/ SessionWork \/ LinkDrops
           \/ \E colour \in Colours \cup {NoColour}, rumbles \in BOOLEAN : TakeReport(colour, rumbles)
    PROVE  HeldInv'
<1> SUFFICES ASSUME kind = "ds4" PROVE HeldInv'
  BY DEF Connect, SessionWork, LinkDrops, TakeReport, SignalBegins, SignalStarts, SpawnFails,
         JudgeMotors, WriteReport, TickLooks, TickPaints, SessionStops, HeldInv
<1> USE DEF HeldInv, Tries, OnItsWay
<1>1. CASE Connect \/ SignalBegins \/ SpawnFails \/ LinkDrops \/ SessionStops \/ TickLooks
  BY <1>1 DEF Connect, SignalBegins, SpawnFails, LinkDrops, SessionStops, TickLooks
<1>2. CASE SignalStarts
  BY <1>2 DEF SignalStarts, IInv, ClaimInv, SigTypes
<1>3. ASSUME NEW colour \in Colours \cup {NoColour}, NEW rumbles \in BOOLEAN,
             TakeReport(colour, rumbles)
      PROVE  HeldInv'
  BY <1>3 DEF TakeReport
<1>4. CASE JudgeMotors
  BY <1>4 DEF JudgeMotors, ReportInv, TypeOK, Reports
<1>5. CASE WriteReport
  BY <1>5 DEF WriteReport, ReportInv, IInv, ClaimInv
<1>6. CASE TickPaints
  BY <1>6 DEF TickPaints, ReportInv, TypeOK
<1> QED
  BY <1>1, <1>2, <1>3, <1>4, <1>5, <1>6 DEF SessionWork

\* A DualShock 4's signal gives back what was kept, and goes again if something newer came.
LEMMA SignalGives ==
    ASSUME IInv, TypeOK, HeldInv, NEW s \in Signals, SigStep(s)
    PROVE  HeldInv'
<1> SUFFICES ASSUME kind = "ds4" PROVE HeldInv'
  BY DEF SigStep, SigPulse, SigCut, SigPulseOver, SigStop, SigMotorsDone, SigBreath,
         SigBreathOver, SigKept, SigLooks, SigPaints, SigEnd, HeldInv
<1>1. running /\ sess # "spawn" /\ \A t \in Signals : Playing(t) => t = s
  BY DEF SigStep, SigPulse, SigCut, SigPulseOver, SigStop, SigMotorsDone, SigBreath,
         SigBreathOver, SigKept, SigLooks, SigPaints, SigEnd, IInv, ClaimInv
<1>2. UNCHANGED <<kind, kept, sess, hand, hostLight, closed>>
  BY DEF SigStep, SigPulse, SigCut, SigPulseOver, SigStop, SigMotorsDone, SigBreath,
         SigBreathOver, SigKept, SigLooks, SigPaints, SigEnd
<1>3. CASE SigEnd(s)
  <2>1. /\ UNCHANGED <<light, gave, failed>> /\ sig'[s] # "end"
        /\ \A t \in Signals : t # s => sig'[t] = sig[t]
    BY <1>3 DEF SigEnd, TypeOK
  <2>2. \A t \in Signals : sig'[t] # "end"
    BY <1>1, <2>1
  <2>3. ASSUME ~closed, ~failed, Tries' PROVE Tries
    BY <1>3, <2>3 DEF SigEnd, Tries, TypeOK, Rounds
  <2>4. ASSUME ~closed, ~failed, Tries', hostLight # NoColour, ~running'
        PROVE  light = hostLight
    <3>1. kept = gave[s] /\ kept = hostLight
      <4>1. round[s] < Rounds
        BY <2>3, <2>4 DEF Tries
      <4>2. round[s] # Rounds
        BY <4>1 DEF Rounds
      <4> QED
        BY <1>1, <1>3, <2>4, <4>2 DEF SigEnd, HeldInv
    <3>2. sig[s] = "end"
      BY <1>3 DEF SigEnd
    <3> QED
      BY <2>3, <2>4, <3>1, <3>2 DEF HeldInv
  <2> QED
    BY <1>1, <1>2, <2>1, <2>2, <2>4 DEF HeldInv
<1>4. CASE SigPaints(s)
  BY <1>1, <1>4 DEF SigPaints, HeldInv, Tries, TypeOK
<1>5. CASE SigLooks(s) \/ SigCut(s)
  <2>1. closed \/ (sig'[s] # "end" /\ \A t \in Signals : t # s => sig'[t] = sig[t])
    BY <1>5 DEF SigLooks, SigCut, TypeOK
  <2>2. closed \/ \A t \in Signals : sig'[t] # "end"
    BY <1>1, <2>1
  <2>3. UNCHANGED running
    BY <1>5 DEF SigLooks, SigCut
  <2> QED
    BY <1>1, <1>2, <2>2, <2>3 DEF HeldInv
<1>6. CASE SigPulse(s) \/ SigPulseOver(s) \/ SigStop(s) \/ SigMotorsDone(s) \/ SigBreath(s)
           \/ SigBreathOver(s) \/ SigKept(s)
  <2>1. /\ UNCHANGED <<running, round>>
        /\ sig'[s] # "end" /\ \A t \in Signals : t # s => sig'[t] = sig[t]
    BY <1>6 DEF SigPulse, SigPulseOver, SigStop, SigMotorsDone, SigBreath, SigBreathOver,
                SigKept, TypeOK
  <2>2. \A t \in Signals : sig'[t] # "end"
    BY <1>1, <2>1
  <2> QED
    BY <1>1, <1>2, <2>1, <2>2 DEF HeldInv
<1> QED
  BY <1>3, <1>4, <1>5, <1>6 DEF SigStep

\* A DualSense's signal paints over a colour only while it is owed.
LEMMA SignalCovers ==
    ASSUME IInv, TypeOK, OwedInv, NEW s \in Signals, SigStep(s)
    PROVE  OwedInv'
<1>1. running
  BY DEF SigStep, SigPulse, SigCut, SigPulseOver, SigStop, SigMotorsDone, SigBreath,
         SigBreathOver, SigKept, SigLooks, SigPaints, SigEnd, IInv, ClaimInv
<1>2. UNCHANGED <<kind, owed, taken, sess, hand, connects, hostLight, closed>>
  BY DEF SigStep, SigPulse, SigCut, SigPulseOver, SigStop, SigMotorsDone, SigBreath,
         SigBreathOver, SigKept, SigLooks, SigPaints, SigEnd
<1> QED
  BY <1>1, <1>2 DEF OwedInv

\* The session's thread owes what a signal is over, and paints it when it is not.
LEMMA SessionOwes ==
    ASSUME IInv, TypeOK, ReportInv, OwedInv,
           \/ Connect \/ SessionWork \/ LinkDrops
           \/ \E colour \in Colours \cup {NoColour}, rumbles \in BOOLEAN : TakeReport(colour, rumbles)
    PROVE  OwedInv'
<1> SUFFICES ASSUME kind = "ds5" PROVE OwedInv'
  BY DEF Connect, SessionWork, LinkDrops, TakeReport, SignalBegins, SignalStarts, SpawnFails,
         JudgeMotors, WriteReport, TickLooks, TickPaints, SessionStops, OwedInv
<1> USE DEF OwedInv, OnItsWay
<1>1. CASE Connect
  BY <1>1 DEF Connect, TypeOK
<1>2. CASE SignalBegins \/ SignalStarts \/ SpawnFails
  BY <1>2 DEF SignalBegins, SignalStarts, SpawnFails, TypeOK
<1>3. CASE LinkDrops \/ SessionStops \/ TickLooks \/ JudgeMotors
  BY <1>3 DEF LinkDrops, SessionStops, TickLooks, JudgeMotors
<1>4. ASSUME NEW colour \in Colours \cup {NoColour}, NEW rumbles \in BOOLEAN,
             TakeReport(colour, rumbles)
      PROVE  OwedInv'
  BY <1>4 DEF TakeReport, NoteHost
<1>5. CASE WriteReport
  BY <1>5 DEF WriteReport, ReportInv
<1>6. CASE TickPaints
  BY <1>6 DEF TickPaints, ReportInv
<1> QED
  BY <1>1, <1>2, <1>3, <1>4, <1>5, <1>6 DEF SessionWork

\* Where the PC's colour is, in every state.
LEMMA ColourStep ==
    IInv /\ TypeOK /\ ReportInv /\ HeldInv /\ OwedInv /\ [Next]_vars => HeldInv' /\ OwedInv'
<1> SUFFICES ASSUME IInv, TypeOK, ReportInv, HeldInv, OwedInv, [Next]_vars
             PROVE  HeldInv' /\ OwedInv'
  OBVIOUS
<1>1. CASE PlugOut \/ PlugWork
  <2>1. closed' /\ UNCHANGED <<kind, kept, running, sess, hand, connects, taken, hostLight>>
    BY <1>1 DEF PlugOut, PlugWork, SignalClosed, ReleaseBegins, ReleaseEnds, StopSession,
                CloseNode, IInv, CloseInv
  <2> QED
    BY <2>1 DEF HeldInv, OwedInv
<1>2. CASE UNCHANGED vars
  BY <1>2 DEF vars, HeldInv, OwedInv, Tries, OnItsWay
<1> QED
  BY <1>1, <1>2, SessionHands, SignalGives, SessionOwes, SignalCovers DEF Next

\* Nothing is in hand, kept, owed or on the pad.
LEMMA ColoursInitially == Init => TypeOK /\ ReportInv /\ HeldInv /\ OwedInv
<1> SUFFICES ASSUME Init PROVE TypeOK /\ ReportInv /\ HeldInv /\ OwedInv
  OBVIOUS
<1>1. Flags
  BY Zenon DEF Init, Flags
<1>2. Values
  BY DEF Init, Values, SigTypes, NoReport, Reports, Shown, Rounds, Signals
<1>3. ReportInv /\ HeldInv /\ OwedInv
  BY DEF Init, ReportInv, HeldInv, OwedInv, NoReport, Signals
<1> QED
  BY <1>1, <1>2, <1>3, TypesAre

\* The values the variables take, whatever the kinds, colours and bounds.
THEOREM TypeCorrect == Spec => []TypeOK
BY ColoursInitially, TypeStep, PTL DEF Spec

\* "A COLOUR SET WHILE THE BRIDGE'S OWN SIGNAL PAINTS THE PAD IS KEPT" (controller_common.c,
\* over ready_light_note_host): the PC's last colour is on the pad whenever it is at rest, on
\* every connection of a DualShock 4 and on the first of a DualSense.
THEOREM ColourShows == Spec => []HostColourShows
<1>1. CloseInv /\ TypeOK /\ HeldInv /\ OwedInv => HostColourShows
  BY DEF CloseInv, TypeOK, HeldInv, OwedInv, HostColourShows, AtRest, Tries, OnItsWay
<1>2. IInv => CloseInv
  BY DEF IInv
<1> QED
  BY <1>1, <1>2, ColoursInitially, TypeStep, ColourStep, Invariance, PTL DEF Spec
=============================================================================
