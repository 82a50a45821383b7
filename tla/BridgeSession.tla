---------------------------- MODULE BridgeSession ----------------------------
(***************************************************************************)
(* A bridged pad's session (src/src/controllers/controller_common.c and    *)
(* link_trouble.inl, over src/src/shared/ctm_transport.c): the session's   *)
(* thread, which dials the PC, greets it, relays, redials, and gives the   *)
(* pad back when nobody answers; the input thread of a connection; the     *)
(* microphone's, which lives across connections; and plug-out, which has   *)
(* to end all three wherever they are.  The three senders share a mutex,   *)
(* and a send to a PC that does not read waits, holding it.                *)
(*                                                                         *)
(* Time passes in ticks, and only while the session's thread waits: what   *)
(* it does between two waits takes none.                                   *)
(***************************************************************************)
EXTENDS Naturals

CONSTANTS
    NeedsConfig,  \* the values of needs_host_config looked at
    HostGone,     \* CTM_HOST_GONE_MS, in ticks
    Answer,       \* CTM_HOST_ANSWER_US
    ConnectMost,  \* CTM_CONNECT_TIMEOUT_MS
    Redial,       \* the half second between two attempts
    None          \* no trouble clock running

ASSUME SessionAssumption ==
    /\ NeedsConfig \subseteq BOOLEAN
    /\ {HostGone, Answer} \subseteq Nat \ {0}
    /\ {ConnectMost, Redial} \subseteq 1 .. Answer   \* waits no longer than an answer's
    /\ None \notin Nat

Cap == HostGone + Answer + 1   \* where the counts of ticks stop
Bound == HostGone + Answer
Least(a, b) == IF a < b THEN a ELSE b

VARIABLES
    needs,       \* a DualSense's handshake waits for HOST_CONFIG; a relay type's does not
    sess,        \* where the session's thread is
    inp, mic,    \* where the input and the microphone's threads are
    plug,        \* where plug-out is
    stop, deviceGone, hostGone, answered, sendFailed,  \* the controller's flags
    wake,        \* the wake pipe has something to read
    link,        \* xport.fd: none, open, or broken (shut down or reset)
    ready,       \* the transport's: the opening exchange is done
    holder,      \* who holds send_mutex, in a send
    room,        \* the socket's buffer has room
    net,         \* what the PC does
    device,      \* the pad's node is there
    age,         \* the trouble clock, or None
    timer,       \* how long the session's present wait has lasted
    quiet        \* time since an answered connection ended (a history variable)

flags == <<stop, deviceGone, hostGone>>
threads == <<inp, mic>>
sendVars == <<holder, room>>
world == <<needs, net, device>>
clocks == <<age, timer, quiet>>
vars == <<needs, sess, inp, mic, plug, stop, deviceGone, hostGone, answered, sendFailed, wake,
          link, ready, holder, room, net, device, age, timer, quiet>>

Init ==
    /\ needs \in NeedsConfig
    /\ sess = "open" /\ inp = "none" /\ mic = "off" /\ plug = "in"
    /\ stop = FALSE /\ deviceGone = FALSE /\ hostGone = FALSE
    /\ answered = FALSE /\ sendFailed = FALSE /\ wake = FALSE
    /\ link = "none" /\ ready = FALSE /\ holder = "none" /\ room = TRUE
    /\ net \in {"answers", "deaf", "refuses", "drops"} /\ device = TRUE
    /\ age = None /\ timer = 0 /\ quiet = 0

Reads == link = "open" /\ net = "answers"
Free == holder = "none"
Stuck == ~Free /\ link = "open" /\ ~room /\ ~Reads   \* a send that waits, with the mutex
OutOfTime == age # None /\ age >= HostGone           \* link_trouble_left_ms() is 0

-----------------------------------------------------------------------------
(***************************************************************************)
(* The PC and the pad.  The PC answers and reads, or takes connections and *)
(* does neither, or refuses, or drops what it is sent.                     *)
(***************************************************************************)
NetChanges(n) ==
    /\ n # net
    /\ net' = n
    /\ link' = IF n = "refuses" /\ link = "open" THEN "broken" ELSE link
    /\ room' = (room \/ n = "answers")
    /\ UNCHANGED <<needs, device, sess, threads, plug, flags, answered, sendFailed, wake, ready, holder, clocks>>

PeerHangsUp ==      \* it ends this connection
    /\ Reads
    /\ link' = "broken"
    /\ UNCHANGED <<world, sess, threads, plug, flags, answered, sendFailed, wake, ready, sendVars, clocks>>

BufferFills ==      \* of what a PC that does not read was sent
    /\ ~Free /\ link = "open" /\ ~Reads /\ room
    /\ room' = FALSE
    /\ UNCHANGED <<world, sess, threads, plug, flags, answered, sendFailed, wake, link, ready, holder, clocks>>

DeviceHangsUp ==
    /\ device
    /\ device' = FALSE
    /\ UNCHANGED <<needs, net, sess, threads, plug, flags, answered, sendFailed, wake, link, ready, sendVars, clocks>>

-----------------------------------------------------------------------------
(***************************************************************************)
(* session_main().                                                         *)
(***************************************************************************)
Start ==            \* the pad's node and the wake pipe, or "A SESSION THAT CANNOT START SAYS SO"
    /\ sess = "open"
    /\ \/ sess' = "round" /\ UNCHANGED flags
       \/ sess' = "over" /\ deviceGone' = TRUE /\ stop' = TRUE /\ UNCHANGED hostGone
    /\ UNCHANGED <<world, threads, plug, answered, sendFailed, wake, link, ready, sendVars, clocks>>

\* A mutation of Round: every round of connects starts the clock again.
RoundRestarts ==
    /\ sess = "round"
    /\ IF stop THEN sess' = "over" /\ UNCHANGED age
       ELSE sess' = "try" /\ age' = 0
    /\ UNCHANGED <<world, threads, plug, flags, answered, sendFailed, wake, link, ready, sendVars, timer, quiet>>

Round ==            \* link_trouble_begin()
    /\ sess = "round"
    /\ IF stop THEN sess' = "over" /\ UNCHANGED age
       ELSE sess' = "try" /\ age' = IF age = None THEN 0 ELSE age
    /\ UNCHANGED <<world, threads, plug, flags, answered, sendFailed, wake, link, ready, sendVars, timer, quiet>>

GiveUp ==
    /\ sess' = "over" /\ hostGone' = TRUE /\ stop' = TRUE
    /\ UNCHANGED <<deviceGone, timer>>

Try ==              \* ctm_transport_connect_within() first marks the link not ready
    /\ sess = "try"
    /\ Free
    /\ \/ stop /\ sess' = "over" /\ UNCHANGED <<flags, ready, timer>>
       \/ ~stop /\ OutOfTime /\ GiveUp /\ UNCHANGED ready
       \/ ~stop /\ ~OutOfTime /\ sess' = "dial" /\ timer' = 0 /\ ready' = FALSE /\ UNCHANGED flags
    /\ UNCHANGED <<world, threads, plug, answered, sendFailed, wake, link, sendVars, age, quiet>>

DialConnects ==
    /\ sess = "dial"
    /\ net \in {"answers", "deaf"}
    /\ link' = "open" /\ room' = TRUE
    /\ sess' = "dialled"
    /\ UNCHANGED <<world, threads, plug, flags, answered, sendFailed, wake, ready, holder, clocks>>

DialFails ==        \* refused at once, or its time is up
    /\ sess = "dial"
    /\ net = "refuses" \/ timer >= ConnectMost \/ OutOfTime
    /\ sess' = "pause"
    /\ UNCHANGED <<world, threads, plug, flags, answered, sendFailed, wake, link, ready, sendVars, clocks>>

Pause ==
    /\ sess = "pause"
    /\ stop \/ timer >= Redial \/ OutOfTime
    /\ sess' = "try"
    /\ UNCHANGED <<world, threads, plug, flags, answered, sendFailed, wake, link, ready, sendVars, clocks>>

-----------------------------------------------------------------------------
(***************************************************************************)
(* run_session(): the handshake, the relay, and the way out.               *)
(***************************************************************************)
Greet ==            \* ENUM and HELLO, on a socket with room for them
    /\ sess = "dialled"
    /\ IF stop THEN sess' = "over" /\ UNCHANGED answered
       ELSE /\ answered' = FALSE
            /\ sess' = IF link = "broken" THEN "hangup" ELSE IF needs THEN "greet" ELSE "start"
    /\ timer' = 0
    /\ UNCHANGED <<world, threads, plug, flags, sendFailed, wake, link, ready, sendVars, age, quiet>>

GreetAnswered ==    \* HOST_CONFIG
    /\ sess = "greet" /\ ~stop
    /\ Reads
    /\ answered' = TRUE
    /\ sess' = "start"
    /\ UNCHANGED <<world, threads, plug, flags, sendFailed, wake, link, ready, sendVars, clocks>>

GreetEnds ==        \* told to stop, dropped, another answer, or none in time
    /\ sess = "greet"
    /\ stop \/ link = "broken" \/ Reads \/ timer >= Answer
    /\ sess' = "hangup"
    /\ UNCHANGED <<world, threads, plug, flags, answered, sendFailed, wake, link, ready, sendVars, clocks>>

\* A mutation of StartRelay: what is in the wake pipe is not drained.
StartUndrained ==
    /\ sess = "start"
    /\ Free
    /\ ready' = TRUE /\ sendFailed' = FALSE
    /\ \/ sess' = "loop" /\ inp' = "poll"
          /\ mic' \in (IF mic = "off" THEN {"off", "idle"} ELSE {mic})
       \/ sess' = "hangup" /\ UNCHANGED threads
    /\ timer' = 0
    /\ UNCHANGED <<world, plug, flags, answered, wake, link, sendVars, age, quiet>>

StartRelay ==       \* ready, the pipe drained, the input thread, and the microphone's once
    /\ sess = "start"
    /\ Free
    /\ ready' = TRUE /\ sendFailed' = FALSE /\ wake' = FALSE
    /\ \/ sess' = "loop" /\ inp' = "poll"
          /\ mic' \in (IF mic = "off" THEN {"off", "idle"} ELSE {mic})
       \/ sess' = "hangup" /\ UNCHANGED threads
    /\ timer' = 0
    /\ UNCHANGED <<world, plug, flags, answered, link, sendVars, age, quiet>>

Relaying == sess = "loop" /\ ~stop /\ ~sendFailed /\ link # "broken"
Unanswered == ~answered /\ timer >= Answer

Hear ==             \* a message; a feature request is replied to
    /\ Relaying /\ ~Unanswered
    /\ Reads
    /\ answered' = TRUE
    /\ sess' \in {"loop", "reply"}
    /\ UNCHANGED <<world, threads, plug, flags, sendFailed, wake, link, ready, sendVars, clocks>>

ReplyBegins ==
    /\ sess = "reply"
    /\ Free
    /\ holder' = "sess"
    /\ sess' = "replying"
    /\ UNCHANGED <<world, threads, plug, flags, answered, sendFailed, wake, link, ready, room, clocks>>

ReplyEnds ==        \* whether it went or not
    /\ sess = "replying"
    /\ ~Stuck
    /\ holder' = "none"
    /\ sess' = "loop"
    /\ UNCHANGED <<world, threads, plug, flags, answered, sendFailed, wake, link, ready, room, clocks>>

LoopEnds ==
    /\ sess = "loop"
    /\ ~Relaying \/ Unanswered
    /\ sess' = "unready"
    /\ UNCHANGED <<world, threads, plug, flags, answered, sendFailed, wake, link, ready, sendVars, clocks>>

Unready ==          \* ctm_transport_set_ready(0) takes send_mutex; then the input thread is woken
    /\ sess = "unready"
    /\ Free
    /\ ready' = FALSE /\ wake' = TRUE
    /\ sess' = "join"
    /\ UNCHANGED <<world, threads, plug, flags, answered, sendFailed, link, sendVars, clocks>>

JoinInput ==
    /\ sess = "join"
    /\ inp = "done"
    /\ inp' = "none"
    /\ sess' = "hangup"
    /\ UNCHANGED <<world, mic, plug, flags, answered, sendFailed, wake, link, ready, sendVars, clocks>>

\* ctm_transport_disconnect(): a busy mutex has its send woken first.
WakeSend ==
    /\ sess = "hangup"
    /\ ~Free /\ link = "open"
    /\ link' = "broken"
    /\ UNCHANGED <<world, sess, threads, plug, flags, answered, sendFailed, wake, ready, sendVars, clocks>>

Disconnect ==
    /\ sess = "hangup"
    /\ Free
    /\ link' = "none" /\ ready' = FALSE
    /\ quiet' = IF answered THEN 0 ELSE quiet
    /\ sess' = "settle"
    /\ UNCHANGED <<world, threads, plug, flags, answered, sendFailed, wake, sendVars, age, timer>>

\* A mutation of Settle: an answered greeting leaves the clock running.
SettleKeepsClock ==
    /\ sess = "settle"
    /\ \/ (answered \/ stop) /\ sess' = "round" /\ UNCHANGED <<flags, timer, age>>
       \/ ~answered /\ ~stop /\ OutOfTime /\ GiveUp /\ UNCHANGED age
       \/ ~answered /\ ~stop /\ ~OutOfTime /\ sess' = "rest" /\ timer' = 0 /\ UNCHANGED <<flags, age>>
    /\ UNCHANGED <<world, threads, plug, answered, sendFailed, wake, link, ready, sendVars, quiet>>

Settle ==           \* an answered greeting clears the clock; another is trouble
    /\ sess = "settle"
    /\ \/ answered /\ age' = None /\ sess' = "round" /\ UNCHANGED <<flags, timer>>
       \/ ~answered /\ stop /\ sess' = "round" /\ UNCHANGED <<flags, timer, age>>
       \/ ~answered /\ ~stop /\ OutOfTime /\ GiveUp /\ UNCHANGED age
       \/ ~answered /\ ~stop /\ ~OutOfTime /\ sess' = "rest" /\ timer' = 0 /\ UNCHANGED <<flags, age>>
    /\ UNCHANGED <<world, threads, plug, answered, sendFailed, wake, link, ready, sendVars, quiet>>

Rest ==
    /\ sess = "rest"
    /\ stop \/ timer >= Redial
    /\ sess' = "round"
    /\ UNCHANGED <<world, threads, plug, flags, answered, sendFailed, wake, link, ready, sendVars, clocks>>

SessionStep ==
    \/ Start \/ Round \/ Try \/ DialConnects \/ DialFails \/ Pause \/ Greet \/ GreetAnswered
    \/ GreetEnds \/ StartRelay \/ Hear \/ ReplyBegins \/ ReplyEnds \/ LoopEnds \/ Unready
    \/ JoinInput \/ WakeSend \/ Disconnect \/ Settle \/ Rest

-----------------------------------------------------------------------------
(***************************************************************************)
(* input_thread_main().                                                    *)
(***************************************************************************)
InputLeaves ==
    /\ inp = "poll"
    /\ stop \/ sendFailed \/ wake
    /\ inp' = "done"
    /\ UNCHANGED <<world, sess, mic, plug, flags, answered, sendFailed, wake, link, ready, sendVars, clocks>>

InputHangsUp ==     \* "THE DEVICE HAS GONE, AND THE SESSION ENDS WITH IT"
    /\ inp = "poll"
    /\ ~wake /\ ~device
    /\ deviceGone' = TRUE /\ stop' = TRUE
    /\ inp' = "done"
    /\ UNCHANGED <<world, sess, mic, plug, hostGone, answered, sendFailed, wake, link, ready, sendVars, clocks>>

InputReads ==       \* a report, or a keepalive that is due
    /\ inp = "poll"
    /\ ~stop /\ ~sendFailed /\ ~wake /\ device
    /\ inp' = "want"
    /\ UNCHANGED <<world, sess, mic, plug, flags, answered, sendFailed, wake, link, ready, sendVars, clocks>>

InputSends ==
    /\ inp = "want"
    /\ Free
    /\ holder' = "inp"
    /\ inp' = "send"
    /\ UNCHANGED <<world, sess, mic, plug, flags, answered, sendFailed, wake, link, ready, room, clocks>>

\* A mutation of InputSent: a failed send stops the session.
InputSentStops ==
    /\ inp = "send"
    /\ ~Stuck
    /\ holder' = "none"
    /\ inp' = IF link = "broken" THEN "done" ELSE "poll"
    /\ stop' = (stop \/ link = "broken")
    /\ UNCHANGED <<world, sess, mic, plug, deviceGone, hostGone, answered, sendFailed, wake, link, ready, room, clocks>>

InputSent ==        \* "A FAILED SEND IS A LOST LINK, NOT A STOP"
    /\ inp = "send"
    /\ ~Stuck
    /\ holder' = "none"
    /\ inp' = IF link = "broken" THEN "done" ELSE "poll"
    /\ sendFailed' = (sendFailed \/ link = "broken")
    /\ UNCHANGED <<world, sess, mic, plug, flags, answered, wake, link, ready, room, clocks>>

InputStep == InputLeaves \/ InputHangsUp \/ InputReads \/ InputSends \/ InputSent

-----------------------------------------------------------------------------
(***************************************************************************)
(* The microphone's thread: ctm_transport_send_when_ready().               *)
(***************************************************************************)
MicReads ==
    /\ mic = "idle" /\ ~stop
    /\ mic' = "want"
    /\ UNCHANGED <<world, sess, inp, plug, flags, answered, sendFailed, wake, link, ready, sendVars, clocks>>

MicSends ==         \* a chunk that may not go yet is dropped
    /\ mic = "want"
    /\ Free
    /\ IF ready THEN mic' = "send" /\ holder' = "mic"
       ELSE mic' = "idle" /\ UNCHANGED holder
    /\ UNCHANGED <<world, sess, inp, plug, flags, answered, sendFailed, wake, link, ready, room, clocks>>

MicSent ==
    /\ mic = "send"
    /\ ~Stuck
    /\ mic' = "idle" /\ holder' = "none"
    /\ UNCHANGED <<world, sess, inp, plug, flags, answered, sendFailed, wake, link, ready, room, clocks>>

MicLeaves ==        \* told to stop, or the card failed for good
    /\ mic = "idle"
    /\ mic' = "done"
    /\ UNCHANGED <<world, sess, inp, plug, flags, answered, sendFailed, wake, link, ready, sendVars, clocks>>

MicStep == MicReads \/ MicSends \/ MicSent \/ MicLeaves

-----------------------------------------------------------------------------
(***************************************************************************)
(* ctm_controller_plug_out_reason(), past its signals (SignalHold).        *)
(***************************************************************************)
PlugOut ==
    /\ plug = "in"
    /\ stop' = TRUE
    /\ plug' = "shut"
    /\ UNCHANGED <<world, sess, threads, deviceGone, hostGone, answered, sendFailed, wake, link, ready, sendVars, clocks>>

\* A mutation of PlugShuts: the socket is left for the session to close.
PlugOnlyWakes ==
    /\ plug = "shut"
    /\ wake' = TRUE
    /\ plug' = "join"
    /\ UNCHANGED <<world, sess, threads, flags, answered, sendFailed, link, ready, sendVars, clocks>>

PlugShuts ==        \* the socket there is, if any, and the wake pipe
    /\ plug = "shut"
    /\ link' = IF link = "open" THEN "broken" ELSE link
    /\ wake' = TRUE
    /\ plug' = "join"
    /\ UNCHANGED <<world, sess, threads, flags, answered, sendFailed, ready, sendVars, clocks>>

PlugJoins ==
    /\ plug = "join"
    /\ sess = "over"
    /\ plug' = "mic"
    /\ UNCHANGED <<world, sess, threads, flags, answered, sendFailed, wake, link, ready, sendVars, clocks>>

\* A mutation of PlugStopsMic: the transport goes first.
PlugForgetsMic ==
    /\ plug = "mic"
    /\ plug' = "close"
    /\ UNCHANGED <<world, sess, threads, flags, answered, sendFailed, wake, link, ready, sendVars, clocks>>

PlugStopsMic ==     \* "THE MICROPHONE THREAD FIRST, THEN ITS TRANSPORT"
    /\ plug = "mic"
    /\ mic \in {"off", "done"}
    /\ plug' = "close"
    /\ UNCHANGED <<world, sess, threads, flags, answered, sendFailed, wake, link, ready, sendVars, clocks>>

PlugCloses ==
    /\ plug = "close"
    /\ Free
    /\ link' = "none" /\ ready' = FALSE
    /\ plug' = "out"
    /\ UNCHANGED <<world, sess, threads, flags, answered, sendFailed, wake, sendVars, clocks>>

PlugStep == PlugShuts \/ PlugJoins \/ PlugStopsMic \/ PlugCloses

-----------------------------------------------------------------------------
\* The session's thread is in a wait that may go on.  An answered connection is
\* not timed, nor is what holds it up: it clears the clock when it ends.
Waits ==
    \/ sess = "dial" /\ timer < ConnectMost /\ ~OutOfTime
    \/ sess = "pause" /\ ~stop /\ timer < Redial /\ ~OutOfTime
    \/ sess = "greet" /\ ~stop /\ link = "open" /\ timer < Answer
    \/ Relaying /\ ~answered /\ timer < Answer
    \/ sess \in {"unready", "join"} /\ ~answered /\ Stuck
    \/ sess = "rest" /\ ~stop /\ timer < Redial

Tick ==
    /\ Waits
    /\ age' = IF age = None THEN None ELSE Least(age + 1, Cap)
    /\ timer' = Least(timer + 1, Answer)
    /\ quiet' = Least(quiet + 1, Cap)
    /\ UNCHANGED <<world, sess, threads, plug, flags, answered, sendFailed, wake, link, ready, sendVars>>

Next ==
    \/ SessionStep \/ InputStep \/ MicStep
    \/ PlugOut \/ PlugStep
    \/ \E n \in {"answers", "deaf", "refuses", "drops"} : NetChanges(n)
    \/ PeerHangsUp \/ BufferFills \/ DeviceHangsUp
    \/ Tick

Spec == Init /\ [][Next]_vars

\* Every thread runs and time passes; nobody has to plug out, hang up or answer.
FairSpec ==
    /\ Spec
    /\ WF_vars(SessionStep) /\ WF_vars(InputStep) /\ WF_vars(MicStep)
    /\ WF_vars(PlugStep) /\ WF_vars(Tick)

-----------------------------------------------------------------------------
(***************************************************************************)
(* Properties.                                                             *)
(***************************************************************************)

\* The values the variables take.
TypeOK ==
    /\ needs \in NeedsConfig
    /\ sess \in {"open", "round", "try", "dial", "pause", "dialled", "greet", "start", "loop",
                 "reply", "replying", "unready", "join", "hangup", "settle", "rest", "over"}
    /\ inp \in {"none", "poll", "want", "send", "done"}
    /\ mic \in {"off", "idle", "want", "send", "done"}
    /\ plug \in {"in", "shut", "join", "mic", "close", "out"}
    /\ {stop, deviceGone, hostGone, answered, sendFailed, wake, ready, room, device} \subseteq BOOLEAN
    /\ link \in {"none", "open", "broken"}
    /\ holder \in {"none", "sess", "inp", "mic"}
    /\ holder = "inp" <=> inp = "send"
    /\ holder = "mic" <=> mic = "send"
    /\ holder = "sess" <=> sess = "replying"
    /\ net \in {"answers", "deaf", "refuses", "drops"}
    /\ age \in 0 .. Cap \cup {None} /\ timer \in 0 .. Answer /\ quiet \in 0 .. Cap

\* A session that ends says why: whatever path raised stop, either plug-out is
\* under way or one of the two flags the app acts on is up.  Otherwise the row
\* stays "bridged" over a session that has ended.
SessionSaysWhy == (stop \/ sess = "over") => plug # "in" \/ deviceGone \/ hostGone

\* While a connection relays, its input thread is there to read the pad: it ends
\* early only if it stopped the session or lost the link.
PadIsServed == Relaying => inp \in {"poll", "want", "send"}

\* The microphone's thread outlives a connection and keeps to it all the same:
\* audio is held back until the greeting of the present connection is done, and
\* once plug-out has destroyed the transport no thread is left that uses it.
NoStraySends ==
    /\ mic = "send" => sess \notin {"try", "dial", "pause", "dialled", "greet", "settle", "rest"}
    /\ plug = "out" => sess = "over" /\ Free /\ mic \in {"off", "done"} /\ inp \in {"none", "done"}

\* "A REFUSED GREETING STRANDED THE PAD": a session that waits for the PC, by
\* dialling, greeting or resting, has not waited longer than the give-up and one
\* greeting, however many connects succeeded in between.
Unserved == \/ sess \in {"try", "dial", "pause", "dialled", "greet", "start", "rest"}
            \/ Relaying /\ ~answered
GivesUpInTime == Unserved /\ ~stop => quiet <= Bound

\* The pad is not given back early: the host is called gone only after the whole
\* give-up without an answered connection.
NotGivenUpEarly == [][hostGone' /\ ~hostGone => quiet >= HostGone]_vars

\* What the header of link_trouble.inl says of a PC that hangs: "a listener that
\* is hung but still takes connections gets the pad back after 5 to 8 s".
HungListenerGivenUp == ~stop /\ ~answered => quiet <= Bound

\* Plug-out comes back, wherever the session, the input and the microphone's
\* threads are, a send that nobody reads included.
PlugOutReturns == plug = "shut" ~> plug = "out"
=============================================================================
