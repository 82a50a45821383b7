---------------------------- MODULE ThreadProofs ----------------------------
(***************************************************************************)
(* Proofs about the threads that serve bridged pads.  GestureWorker, for   *)
(* any devices and any numbers of streams and workers: there is one        *)
(* worker, and g_gesture_worker_running says so.  BridgeSession, for any   *)
(* of its times: a session that ends says why, a connection that relays    *)
(* has its input thread, nothing is sent where it may not be, and the      *)
(* give-up comes neither early nor late.                                   *)
(***************************************************************************)
EXTENDS GestureWorker, BridgeSession, FiniteSetTheorems, TLAPS

(* The gesture worker. *)

\* What SingleWorker rests on: the places of the workers and the flag.
Places == /\ wpc \in [Workers -> {"unborn", "top", "wait", "woken", "serve", "leave", "dead"}]
          /\ flag \in BOOLEAN
WorkerInv == Places /\ SingleWorker

\* A worker that moves from one place in its life to another leaves the rest as it was.
LEMMA MovesOn ==
    ASSUME WorkerInv, NEW w \in Workers, Alive(w), UNCHANGED flag,
           NEW place \in {"top", "wait", "woken", "serve", "leave"}, Goto(w, place)
    PROVE  WorkerInv'
BY DEF WorkerInv, Places, SingleWorker, Alive, Goto

\* A worker is started only where the flag says none runs, and no worker runs then.
LEMMA Starts ==
    ASSUME WorkerInv, NEW w \in Workers, ~flag, StartWorker(w)
    PROVE  WorkerInv'
BY DEF WorkerInv, Places, SingleWorker, Alive, Goto, StartWorker

\* The one worker takes the flag with it.
LEMMA Leaves ==
    ASSUME WorkerInv, NEW w \in Workers, Leave(w)
    PROVE  WorkerInv'
BY DEF WorkerInv, Places, SingleWorker, Alive, Goto, Leave

\* "The worker is a SINGLE thread", and the flag a plug goes by says exactly whether it
\* runs (ctm_bridge_gesture_init, gesture_worker), over any number of streams.
THEOREM OneWorker == GWSpec => []SingleWorker
<1>1. GWInit => WorkerInv
  BY DEF GWInit, WorkerInv, Places, SingleWorker, Alive
<1>2. WorkerInv /\ [GWNext]_gwVars => WorkerInv'
  <2> SUFFICES ASSUME WorkerInv, [GWNext]_gwVars PROVE WorkerInv'
    OBVIOUS
  <2>1. CASE UNCHANGED <<wpc, flag>>
    BY <2>1 DEF WorkerInv, Places, SingleWorker, Alive
  <2>2. ASSUME NEW k \in Keys, PlugStarts(k) PROVE WorkerInv'
    BY <2>1, <2>2, Starts DEF PlugStarts
  <2>3. ASSUME NEW w \in Workers, WorkerStep(w) PROVE WorkerInv'
    <3>1. CASE Top(w)
      BY <3>1, MovesOn DEF Top, Alive
    <3>2. CASE Wake(w)
      BY <3>2, MovesOn DEF Wake, Alive
    <3>3. CASE Woken(w)
      BY <3>3, MovesOn DEF Woken, Alive
    <3>4. CASE Serve(w)
      BY <3>4, MovesOn DEF Serve, Alive
    <3> QED
      BY <2>3, <3>1, <3>2, <3>3, <3>4, Leaves DEF WorkerStep
  <2> QED
    BY <2>1, <2>2, <2>3
    DEF GWNext, gwVars, StreamStarts, StreamEnds, PlugEnds, Request, appVars
<1>3. WorkerInv => SingleWorker
  BY DEF WorkerInv
<1> QED
  BY <1>1, <1>2, <1>3, PTL DEF GWSpec

\* Requests come from bridged devices only, and the app's one thread plugs one at a time.
THEOREM WorkerTypes == GWSpec => []GWTypeOK
<1>1. GWInit => GWTypeOK
  <2> SUFFICES ASSUME GWInit PROVE GWTypeOK
    OBVIOUS
  <2>1. Cardinality({}) = 0
    BY FS_EmptySet
  <2>2. plugging \subseteq Keys /\ Cardinality(plugging) <= 1 /\ streams \in 0 .. MaxStreams
    BY <2>1, WorkerBounds DEF GWInit
  <2>3. {running, flag, pending} \subseteq BOOLEAN
    BY Zenon DEF GWInit
  <2> QED
    BY <2>2, <2>3 DEF GWInit, GWTypeOK
<1>2. GWTypeOK /\ [GWNext]_gwVars => GWTypeOK'
  <2> SUFFICES ASSUME GWTypeOK, [GWNext]_gwVars PROVE GWTypeOK'
    OBVIOUS
  <2> USE WorkerBounds DEF GWTypeOK, Goto, appVars
  <2>1. CASE StreamStarts
    BY <2>1 DEF StreamStarts
  <2>2. CASE StreamEnds
    BY <2>2 DEF StreamEnds
  <2>3. ASSUME NEW k \in Keys, PlugStarts(k) PROVE GWTypeOK'
    <3>1. Cardinality({k}) = 1
      BY FS_Singleton
    <3>2. CASE UNCHANGED <<flag, wpc>>
      BY <2>3, <3>1, <3>2 DEF PlugStarts
    <3>3. ASSUME NEW w \in Workers, StartWorker(w) PROVE GWTypeOK'
      BY <2>3, <3>1, <3>3 DEF PlugStarts, StartWorker
    <3> QED
      BY <2>3, <3>2, <3>3 DEF PlugStarts
  <2>4. ASSUME NEW k \in Keys, Request(k) PROVE GWTypeOK'
    BY <2>4 DEF Request
  <2>5. CASE PlugEnds
    <3>1. Cardinality({}) = 0
      BY FS_EmptySet
    <3> QED
      BY <2>5, <3>1 DEF PlugEnds
  <2>6. ASSUME NEW w \in Workers, WorkerStep(w) PROVE GWTypeOK'
    BY <2>6 DEF WorkerStep, Top, Wake, Woken, Serve, Leave
  <2>7. CASE UNCHANGED gwVars
    BY <2>7 DEF gwVars
  <2> QED
    BY <2>1, <2>2, <2>3, <2>4, <2>5, <2>6, <2>7 DEF GWNext
<1> QED
  BY <1>1, <1>2, PTL DEF GWSpec

-----------------------------------------------------------------------------
(* A pad's session. *)

InRelay == {"loop", "reply", "replying"}

\* Flags are flags, and send_mutex is held by the thread whose place says so.
HolderInv ==
    /\ {stop, deviceGone, hostGone, answered, sendFailed, wake, ready} \subseteq BOOLEAN
    /\ holder \in {"none", "sess", "inp", "mic"}
    /\ holder = "inp" <=> inp = "send"
    /\ holder = "mic" <=> mic = "send"
    /\ holder = "sess" <=> sess = "replying"

\* From its first step on plug-out has told the session to stop, and each thread it has
\* waited for stays ended.
PlugInv ==
    /\ plug \in {"in", "shut", "join", "mic", "close", "out"}
    /\ plug # "in" => stop
    /\ plug \in {"mic", "close", "out"} => sess = "over"
    /\ plug \in {"close", "out"} => mic \in {"off", "done"}

\* The input thread lives from the start of a relay to its join, and is not woken before.
InputInv ==
    /\ inp \in {"none", "poll", "want", "send", "done"}
    /\ inp # "none" => sess \in InRelay \cup {"unready", "join"}
    /\ sess \in InRelay =>
           \/ inp \in {"poll", "want", "send"} /\ ~wake
           \/ stop \/ sendFailed \/ link = "broken"

\* Only a link that is past its greeting is ready, or has a chunk of audio under way.
ReadyInv == ready \/ mic = "send" => sess \in InRelay \cup {"unready", "hangup"}

\* The trouble clock shows the time since the last answered connection, except from such a
\* connection's end to the moment it clears the clock.
ClockInv ==
    /\ timer \in 0 .. Answer /\ age \in Nat \cup {None}
    /\ sess = "open" => age = None
    /\ age = None => sess \in {"open", "round", "over"} /\ quiet = 0
    /\ age # None /\ ~(sess = "settle" /\ answered) => quiet = age
    /\ sess = "settle" /\ answered => quiet = 0

\* How far the clock can be where the session waits, or is about to.
TimeInv ==
    ~stop =>
        /\ sess \in {"round", "try"} /\ age # None => age <= Bound
        /\ sess \in {"dial", "pause", "dialled"} => age <= HostGone
        /\ sess \in {"greet", "rest"} => age <= HostGone + timer
        /\ sess = "start" => age <= Bound /\ (~answered => age <= HostGone)
        /\ sess \in InRelay /\ ~answered => sess = "loop" /\ age <= HostGone + timer

IInv == HolderInv /\ PlugInv /\ InputInv /\ ReadyInv /\ SessionSaysWhy /\ ClockInv /\ TimeInv

USE SessionAssumption
USE DEF InRelay, flags, threads, sendVars, world, clocks, Free, OutOfTime, Bound, Relaying,
        Unanswered

\* Nothing has begun.
LEMMA Initially == Init => IInv
<1> SUFFICES ASSUME Init PROVE IInv
  OBVIOUS
<1> USE DEF Init
<1>1. HolderInv
  BY DEF HolderInv
<1>2. PlugInv
  BY DEF PlugInv
<1>3. InputInv
  BY DEF InputInv
<1>4. ReadyInv
  BY DEF ReadyInv
<1>5. SessionSaysWhy
  BY DEF SessionSaysWhy
<1>6. ClockInv
  BY DEF ClockInv
<1>7. TimeInv
  BY DEF TimeInv
<1> QED
  BY <1>1, <1>2, <1>3, <1>4, <1>5, <1>6, <1>7 DEF IInv

\* The session's thread.
LEMMA SessionKeeps == ASSUME IInv, SessionStep PROVE IInv'
<1> USE DEF IInv, HolderInv, PlugInv, InputInv, ReadyInv, SessionSaysWhy, ClockInv, TimeInv
<1>1. CASE Start
  <2> USE <1>1 DEF Start
  <2>1. HolderInv'
    OBVIOUS
  <2>2. PlugInv'
    OBVIOUS
  <2>3. InputInv'
    OBVIOUS
  <2>4. ReadyInv'
    OBVIOUS
  <2>5. SessionSaysWhy'
    OBVIOUS
  <2>6. ClockInv'
    OBVIOUS
  <2>7. TimeInv'
    OBVIOUS
  <2> QED
    BY <2>1, <2>2, <2>3, <2>4, <2>5, <2>6, <2>7
<1>2. CASE Round
  BY <1>2 DEF Round
<1>3. CASE Try
  <2> USE <1>3 DEF Try, GiveUp
  <2>1. HolderInv'
    OBVIOUS
  <2>2. PlugInv'
    OBVIOUS
  <2>3. InputInv'
    OBVIOUS
  <2>4. ReadyInv'
    OBVIOUS
  <2>5. SessionSaysWhy'
    OBVIOUS
  <2>6. ClockInv'
    OBVIOUS
  <2>7. TimeInv'
    OBVIOUS
  <2> QED
    BY <2>1, <2>2, <2>3, <2>4, <2>5, <2>6, <2>7
<1>4. CASE DialConnects
  BY <1>4 DEF DialConnects
<1>5. CASE DialFails
  BY <1>5 DEF DialFails
<1>6. CASE Pause
  BY <1>6 DEF Pause
<1>7. CASE Greet
  <2> USE <1>7 DEF Greet
  <2>1. HolderInv'
    OBVIOUS
  <2>2. PlugInv'
    OBVIOUS
  <2>3. InputInv'
    OBVIOUS
  <2>4. ReadyInv'
    OBVIOUS
  <2>5. SessionSaysWhy'
    OBVIOUS
  <2>6. ClockInv'
    OBVIOUS
  <2>7. TimeInv'
    OBVIOUS
  <2> QED
    BY <2>1, <2>2, <2>3, <2>4, <2>5, <2>6, <2>7
<1>8. CASE GreetAnswered
  BY <1>8 DEF GreetAnswered, Reads
<1>9. CASE GreetEnds
  BY <1>9 DEF GreetEnds
<1>10. CASE StartRelay
  <2> USE <1>10 DEF StartRelay
  <2>1. HolderInv'
    OBVIOUS
  <2>2. PlugInv'
    OBVIOUS
  <2>3. InputInv'
    OBVIOUS
  <2>4. ReadyInv'
    OBVIOUS
  <2>5. SessionSaysWhy'
    OBVIOUS
  <2>6. ClockInv'
    OBVIOUS
  <2>7. TimeInv'
    OBVIOUS
  <2> QED
    BY <2>1, <2>2, <2>3, <2>4, <2>5, <2>6, <2>7
<1>11. CASE Hear
  BY <1>11 DEF Hear, Reads
<1>12. CASE ReplyBegins
  BY <1>12 DEF ReplyBegins
<1>13. CASE ReplyEnds
  <2> USE <1>13 DEF ReplyEnds
  <2>1. HolderInv'
    OBVIOUS
  <2>2. PlugInv'
    OBVIOUS
  <2>3. InputInv'
    OBVIOUS
  <2>4. ReadyInv'
    OBVIOUS
  <2>5. SessionSaysWhy'
    OBVIOUS
  <2>6. ClockInv'
    OBVIOUS
  <2>7. TimeInv'
    OBVIOUS
  <2> QED
    BY <2>1, <2>2, <2>3, <2>4, <2>5, <2>6, <2>7
<1>14. CASE LoopEnds
  BY <1>14 DEF LoopEnds
<1>15. CASE Unready
  BY <1>15 DEF Unready
<1>16. CASE JoinInput
  BY <1>16 DEF JoinInput
<1>17. CASE WakeSend
  BY <1>17 DEF WakeSend
<1>18. CASE Disconnect
  BY <1>18 DEF Disconnect
<1>19. CASE Settle
  <2> USE <1>19 DEF Settle, GiveUp
  <2>1. HolderInv'
    OBVIOUS
  <2>2. PlugInv'
    OBVIOUS
  <2>3. InputInv'
    OBVIOUS
  <2>4. ReadyInv'
    OBVIOUS
  <2>5. SessionSaysWhy'
    OBVIOUS
  <2>6. ClockInv'
    OBVIOUS
  <2>7. TimeInv'
    OBVIOUS
  <2> QED
    BY <2>1, <2>2, <2>3, <2>4, <2>5, <2>6, <2>7
<1>20. CASE Rest
  BY <1>20 DEF Rest
<1> QED
  BY <1>1, <1>2, <1>3, <1>4, <1>5, <1>6, <1>7, <1>8, <1>9, <1>10, <1>11, <1>12, <1>13,
     <1>14, <1>15, <1>16, <1>17, <1>18, <1>19, <1>20 DEF SessionStep

\* The input thread.
LEMMA InputKeeps == ASSUME IInv, InputStep PROVE IInv'
<1> USE DEF IInv, HolderInv, PlugInv, InputInv, ReadyInv, SessionSaysWhy, ClockInv, TimeInv
<1>1. CASE InputLeaves
  BY <1>1 DEF InputLeaves
<1>2. CASE InputHangsUp
  BY <1>2 DEF InputHangsUp
<1>3. CASE InputReads
  BY <1>3 DEF InputReads
<1>4. CASE InputSends
  BY <1>4 DEF InputSends
<1>5. CASE InputSent
  BY <1>5 DEF InputSent
<1> QED
  BY <1>1, <1>2, <1>3, <1>4, <1>5 DEF InputStep

\* The microphone's thread.
LEMMA MicKeeps == ASSUME IInv, MicStep PROVE IInv'
<1> USE DEF IInv, HolderInv, PlugInv, InputInv, ReadyInv, SessionSaysWhy, ClockInv, TimeInv
<1>1. CASE MicReads
  BY <1>1 DEF MicReads
<1>2. CASE MicSends
  BY <1>2 DEF MicSends
<1>3. CASE MicSent
  BY <1>3 DEF MicSent
<1>4. CASE MicLeaves
  BY <1>4 DEF MicLeaves
<1> QED
  BY <1>1, <1>2, <1>3, <1>4 DEF MicStep

\* Plug-out, past its first step.
LEMMA PlugKeeps == ASSUME IInv, PlugStep PROVE IInv'
<1> USE DEF IInv, HolderInv, PlugInv, InputInv, ReadyInv, SessionSaysWhy, ClockInv, TimeInv
<1>1. CASE PlugShuts
  BY <1>1 DEF PlugShuts
<1>2. CASE PlugJoins
  BY <1>2 DEF PlugJoins
<1>3. CASE PlugStopsMic
  BY <1>3 DEF PlugStopsMic
<1>4. CASE PlugCloses
  BY <1>4 DEF PlugCloses
<1> QED
  BY <1>1, <1>2, <1>3, <1>4 DEF PlugStep

\* Time.
LEMMA TickKeeps == ASSUME IInv, Tick PROVE IInv'
<1> USE DEF IInv, HolderInv, PlugInv, InputInv, ReadyInv, SessionSaysWhy, ClockInv, TimeInv
<1>1. CASE Tick
  BY <1>1 DEF Tick, Waits, Least, Stuck, Cap
<1> QED
  BY <1>1 DEF Tick

\* The PC and the pad.
LEMMA WorldKeeps ==
    ASSUME IInv,
           \/ \E n \in {"answers", "deaf", "refuses", "drops"} : NetChanges(n)
           \/ PeerHangsUp \/ BufferFills \/ DeviceHangsUp \/ PlugOut
    PROVE  IInv'
<1> USE DEF IInv, HolderInv, PlugInv, InputInv, ReadyInv, SessionSaysWhy, ClockInv, TimeInv
<1>1. ASSUME NEW n, NetChanges(n) PROVE IInv'
  BY <1>1 DEF NetChanges
<1>2. CASE PeerHangsUp
  BY <1>2 DEF PeerHangsUp
<1>3. CASE BufferFills
  BY <1>3 DEF BufferFills
<1>4. CASE DeviceHangsUp
  BY <1>4 DEF DeviceHangsUp
<1>5. CASE PlugOut
  BY <1>5 DEF PlugOut
<1> QED
  BY <1>1, <1>2, <1>3, <1>4, <1>5

\* The inductive invariant.
THEOREM Invariance == Spec => []IInv
<1>1. IInv /\ [Next]_vars => IInv'
  <2> SUFFICES ASSUME IInv, [Next]_vars PROVE IInv'
    OBVIOUS
  <2>1. CASE UNCHANGED vars
    BY <2>1 DEF vars, IInv, HolderInv, PlugInv, InputInv, ReadyInv, SessionSaysWhy, ClockInv,
                TimeInv
  <2> QED
    BY <2>1, SessionKeeps, InputKeeps, MicKeeps, PlugKeeps, WorldKeeps, TickKeeps DEF Next
<1> QED
  BY <1>1, Initially, PTL DEF Spec

\* Whatever ends a session (no node, a pad unplugged, nobody answering, plug-out), it is
\* known: a flag the app looks at is up, or plug-out is under way.
THEOREM EndsAreSaid == Spec => []SessionSaysWhy
<1>1. IInv => SessionSaysWhy
  BY DEF IInv
<1> QED
  BY <1>1, Invariance, PTL

\* A connection that relays is never left without a thread that reads the pad
\* (run_session, input_thread_main, wake_pipe).
THEOREM RelayHasInput == Spec => []PadIsServed
<1>1. IInv => PadIsServed
  BY DEF IInv, InputInv, PadIsServed
<1> QED
  BY <1>1, Invariance, PTL

\* No audio goes before a connection's greeting, and nothing at all on a transport that was
\* destroyed (ctm_transport_send_when_ready, ctm_controller_plug_out_reason).
THEOREM SendsKeepToTheirLink == Spec => []NoStraySends
<1>1. IInv => NoStraySends
  BY DEF IInv, HolderInv, PlugInv, InputInv, ReadyInv, NoStraySends
<1> QED
  BY <1>1, Invariance, PTL

\* A pad nobody serves is given back within the give-up and one greeting's wait, whatever
\* the PC does (link_trouble.inl), for any lengths of the waits.
THEOREM GivenUpInTime == Spec => []GivesUpInTime
<1>1. IInv => GivesUpInTime
  <2> SUFFICES ASSUME IInv, Unserved, ~stop PROVE quiet <= Bound
    BY DEF GivesUpInTime
  <2> USE DEF IInv, ClockInv, TimeInv
  <2>1. age # None /\ quiet = age
    BY DEF Unserved
  <2>2. age <= Bound
    BY <2>1 DEF Unserved
  <2> QED
    BY <2>1, <2>2
<1> QED
  BY <1>1, Invariance, PTL

\* And never earlier than the give-up: what the trouble clock shows is time without an
\* answered connection.
THEOREM GivenUpNoEarlier == Spec => NotGivenUpEarly
<1>1. IInv /\ [Next]_vars => [hostGone' /\ ~hostGone => quiet >= HostGone]_vars
  <2> SUFFICES ASSUME IInv, Next, hostGone', ~hostGone PROVE quiet >= HostGone
    BY DEF vars
  <2>1. Try \/ Settle
    BY DEF Next, SessionStep, Start, Round, DialConnects, DialFails, Pause, Greet,
           GreetAnswered, GreetEnds, StartRelay, Hear, ReplyBegins, ReplyEnds, LoopEnds,
           Unready, JoinInput, WakeSend, Disconnect, Rest, InputStep, InputLeaves,
           InputHangsUp, InputReads, InputSends, InputSent, MicStep, MicReads, MicSends,
           MicSent, MicLeaves, PlugOut, PlugStep, PlugShuts, PlugJoins, PlugStopsMic,
           PlugCloses, NetChanges, PeerHangsUp, BufferFills, DeviceHangsUp, Tick
  <2>2. CASE Try
    BY <2>2 DEF Try, IInv, ClockInv
  <2>3. CASE Settle
    BY <2>3 DEF Settle, IInv, ClockInv
  <2> QED
    BY <2>1, <2>2, <2>3
<1> QED
  BY <1>1, Invariance, PTL DEF Spec, NotGivenUpEarly
=============================================================================
