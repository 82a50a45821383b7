------------------------------ MODULE HostMouse ------------------------------
(***************************************************************************)
(* The TV pointer as the PC's mouse and keyboard                           *)
(* (src/src/shared/ctm_hostmouse.c, plugged and unplugged by ui_bridge.c): *)
(* the app's thread, which plugs, unplugs and feeds what the remote does,  *)
(* and the pointer's session thread, which dials, greets, redials and      *)
(* gives up.  The two share the transport and what was last sent.          *)
(*                                                                         *)
(* Time passes in ticks, and only while the session's thread waits.        *)
(***************************************************************************)
EXTENDS Naturals, FiniteSets

CONSTANTS
    Keys,         \* keyboard usages
    MaxKeys,      \* HM_KB_MAX_KEYS
    Places,       \* positions with buttons, as a feed scales them
    Nowhere,      \* last_buttons = 0xFF: differs from all of them
    HostGone,     \* HM_HOST_GONE_MS, in ticks
    ConnectMost,  \* CTM_CONNECT_TIMEOUT_MS
    Redial        \* the half second from one attempt to the next

ASSUME PointerAssumption ==
    /\ MaxKeys \in Nat /\ Nowhere \notin Places
    /\ {HostGone, ConnectMost, Redial} \subseteq Nat \ {0}

Cap == HostGone + 2            \* where the counts of ticks stop
Least(a, b) == IF a < b THEN a ELSE b

VARIABLES
    app,         \* where the app's thread is
    sess,        \* where the session's thread is
    stop, connected, hostGone,   \* g_hm's
    last, keys,  \* g_hm's, under state_mutex: what was last sent, and the keys down
    report,      \* what the app's thread was fed, then what it is about to send
    held,        \* the keys the remote has down
    link,        \* xport.fd: none, open, or broken (shut down or reset)
    holder,      \* who holds send_mutex, in a send
    gone,        \* time since lost_at
    timer,       \* time since tried_at, or of the rest after a failed HELLO
    net,         \* what the PC does
    pc,          \* the listener's side: its bridge, the greeting, what its device shows
    quiet        \* time since a greeted connection ended (a history variable)

flags == <<stop, connected, hostGone>>
sent == <<last, keys>>
remote == <<report, held>>
clocks == <<gone, timer, quiet>>
vars == <<app, sess, stop, connected, hostGone, last, keys, report, held, link, holder,
          gone, timer, net, pc, quiet>>

NoReport == [keys |-> {}]
Fresh == [bridge |-> FALSE, greeted |-> FALSE, keys |-> {}, at |-> Nowhere]

Init ==
    /\ app = "out" /\ sess = "off"
    /\ stop = FALSE /\ connected = FALSE /\ hostGone = FALSE
    /\ last = Nowhere /\ keys = {} /\ report = NoReport /\ held = {}
    /\ link = "none" /\ holder = "none"
    /\ gone = 0 /\ timer = 0 /\ quiet = 0
    /\ net \in {"answers", "deaf", "refuses", "drops"} /\ pc = Fresh

Free == holder = "none"
OutOfTime == gone >= HostGone

\* A send that may wait, with the mutex: the PC does not read, and the buffer
\* was sent more than a greeting.
Stuck(who) == holder = who /\ link = "open" /\ net # "answers" /\ pc.greeted

-----------------------------------------------------------------------------
(***************************************************************************)
(* The PC answers and reads, or takes connections and does neither, or     *)
(* refuses, or drops what it is sent; and it may end a connection.         *)
(***************************************************************************)
NetChanges(n) ==
    /\ n # net
    /\ net' = n
    /\ link' = IF n = "refuses" /\ link = "open" THEN "broken" ELSE link
    /\ UNCHANGED <<app, sess, flags, sent, remote, holder, clocks, pc>>

PeerHangsUp ==
    /\ link = "open"
    /\ link' = "broken"
    /\ UNCHANGED <<app, sess, flags, sent, remote, holder, clocks, net, pc>>

-----------------------------------------------------------------------------
(***************************************************************************)
(* ctm_tv_pointer_plug(), on the app's thread.  One whose host is gone was *)
(* unplugged first.                                                        *)
(***************************************************************************)
BridgeStart ==      \* answered; or not, and perhaps started all the same; or refused
    /\ app = "out"
    /\ \/ app' = "plug" /\ pc' = [Fresh EXCEPT !.bridge = TRUE]
       \/ app' = "tell" /\ pc' \in {pc, [Fresh EXCEPT !.bridge = TRUE]}
       \/ app' = "out" /\ UNCHANGED pc
    /\ UNCHANGED <<sess, flags, sent, remote, link, holder, clocks, net>>

Plug ==             \* ctm_hostmouse_plug(): the thread may not start
    /\ app = "plug"
    /\ stop' = FALSE /\ hostGone' = FALSE
    /\ \/ app' = "in" /\ sess' = "try" /\ gone' = 0 /\ quiet' = 0
       \/ app' = "tell" /\ UNCHANGED <<sess, gone, quiet>>
    /\ UNCHANGED <<connected, sent, remote, link, holder, timer, net, pc>>

BridgeStop ==
    /\ app = "tell"
    /\ app' = "out"
    /\ pc' = Fresh
    /\ UNCHANGED <<sess, flags, sent, remote, link, holder, clocks, net>>

-----------------------------------------------------------------------------
(***************************************************************************)
(* ctm_hostmouse_unplug().                                                 *)
(***************************************************************************)
Unplug ==
    /\ app = "in"
    /\ stop' = TRUE
    /\ app' = "shut"
    /\ UNCHANGED <<sess, connected, hostGone, sent, remote, link, holder, clocks, net, pc>>

\* A mutation of UnplugShuts: a busy mutex is waited for, and nothing woken.
ShutsWhenFree ==
    /\ app = "shut"
    /\ Free /\ link' = "none" /\ app' = "join"
    /\ UNCHANGED <<sess, flags, sent, remote, holder, clocks, net, pc>>

UnplugShuts ==      \* ctm_transport_disconnect(): a send under way is woken first
    /\ app = "shut"
    /\ \/ Free /\ link' = "none" /\ app' = "join"
       \/ ~Free /\ link = "open" /\ link' = "broken" /\ UNCHANGED app
    /\ UNCHANGED <<sess, flags, sent, remote, holder, clocks, net, pc>>

\* A mutation of UnplugJoins: the thread is not waited for.
UnplugLeaves ==
    /\ app = "join"
    /\ sess' = "off"
    /\ app' = "tell"
    /\ UNCHANGED <<flags, sent, remote, link, holder, clocks, net, pc>>

UnplugJoins ==      \* then the transport is destroyed, and the listener told
    /\ app = "join"
    /\ sess = "over"
    /\ sess' = "off"
    /\ app' = "tell"
    /\ UNCHANGED <<flags, sent, remote, link, holder, clocks, net, pc>>

-----------------------------------------------------------------------------
(***************************************************************************)
(* ctm_hostmouse_feed() and ctm_hostmouse_feed_key(): a look at connected, *)
(* the change noted under state_mutex, and the report sent outside it.     *)
(***************************************************************************)
Call(what) ==
    IF connected THEN app' = "note" /\ report' = what
    ELSE UNCHANGED <<app, report>>

KeyGoes(k) ==       \* down or up
    /\ app = "in"
    /\ held' = IF k \in held THEN held \ {k} ELSE held \cup {k}
    /\ Call([key |-> k])
    /\ UNCHANGED <<sess, flags, sent, link, holder, clocks, net, pc>>

Moves(p) ==
    /\ app = "in"
    /\ Call([at |-> p])
    /\ UNCHANGED <<sess, flags, sent, held, link, holder, clocks, net, pc>>

NoteKey ==          \* a key too many is not noted, and neither is its release
    /\ app = "note" /\ "key" \in DOMAIN report
    /\ LET k == report.key
           after == IF k \notin held THEN keys \ {k}
                    ELSE IF Cardinality(keys) < MaxKeys THEN keys \cup {k} ELSE keys
       IN  /\ keys' = after
           /\ IF after # keys THEN app' = "want" /\ report' = [keys |-> after]
              ELSE app' = "in" /\ report' = NoReport
    /\ UNCHANGED <<sess, flags, last, held, link, holder, clocks, net, pc>>

NotePlace ==        \* nothing to send when nothing changed
    /\ app = "note" /\ "at" \in DOMAIN report
    /\ last' = report.at
    /\ IF report.at # last THEN app' = "want" /\ UNCHANGED report
       ELSE app' = "in" /\ report' = NoReport
    /\ UNCHANGED <<sess, flags, keys, held, link, holder, clocks, net, pc>>

ReportBegins ==
    /\ app = "want"
    /\ \/ link = "none" /\ app' = "in" /\ report' = NoReport /\ UNCHANGED holder
       \/ link # "none" /\ Free /\ holder' = "app" /\ app' = "send" /\ UNCHANGED report
    /\ UNCHANGED <<sess, flags, sent, held, link, clocks, net, pc>>

\* The PC's device shows it, once greeted.
Shown == IF "at" \in DOMAIN report THEN [pc EXCEPT !.at = report.at]
         ELSE [pc EXCEPT !.keys = report.keys]

ReportEnds ==
    /\ app = "send"
    /\ holder' = "none" /\ app' = "in" /\ report' = NoReport
    /\ pc' = IF link = "open" /\ pc.greeted THEN Shown ELSE pc
    /\ UNCHANGED <<sess, flags, sent, held, link, clocks, net>>

AppStep ==
    \/ Plug \/ BridgeStop \/ UnplugShuts \/ UnplugJoins
    \/ NoteKey \/ NotePlace \/ ReportBegins \/ ReportEnds

-----------------------------------------------------------------------------
(***************************************************************************)
(* hm_session_main().                                                      *)
(***************************************************************************)
Try ==
    /\ sess = "try"
    /\ \/ stop /\ sess' = "over" /\ UNCHANGED <<hostGone, timer>>
       \/ ~stop /\ OutOfTime /\ hostGone' = TRUE /\ sess' = "over" /\ UNCHANGED timer
       \/ ~stop /\ ~OutOfTime /\ sess' = "dial" /\ timer' = 0 /\ UNCHANGED hostGone
    /\ UNCHANGED <<app, stop, connected, sent, remote, link, holder, gone, net, pc, quiet>>

DialConnects ==
    /\ sess = "dial"
    /\ net \in {"answers", "deaf"}
    /\ link' = "open"
    /\ pc' = [pc EXCEPT !.greeted = FALSE]
    /\ sess' = "dialled"
    /\ UNCHANGED <<app, flags, sent, remote, holder, clocks, net>>

DialFails ==        \* refused at once, or its time or the give-up is up
    /\ sess = "dial"
    /\ net = "refuses" \/ timer >= ConnectMost \/ OutOfTime
    /\ sess' = "pause"
    /\ UNCHANGED <<app, flags, sent, remote, link, holder, clocks, net, pc>>

Pause ==            \* the attempt's own wait counts
    /\ sess = "pause"
    /\ stop \/ timer >= Redial \/ OutOfTime
    /\ sess' = "try"
    /\ UNCHANGED <<app, flags, sent, remote, link, holder, clocks, net, pc>>

Dialled ==
    /\ sess = "dialled"
    /\ sess' = IF stop THEN "quit" ELSE "hello"
    /\ UNCHANGED <<app, flags, sent, remote, link, holder, clocks, net, pc>>

Hello ==            \* on a socket with room for it
    /\ sess = "hello"
    /\ Free
    /\ \/ link = "open" /\ sess' = "greeted"
          /\ pc' = [pc EXCEPT !.greeted = TRUE, !.keys = {}, !.at = Nowhere]
       \/ link # "open" /\ sess' = "unsaid" /\ UNCHANGED pc
    /\ UNCHANGED <<app, flags, sent, remote, link, holder, clocks, net>>

\* A mutation of Greeted: what was last sent stands across links.
GreetedKeeps ==
    /\ sess = "greeted"
    /\ connected' = TRUE /\ UNCHANGED last /\ keys' = {}
    /\ sess' = "top"
    /\ UNCHANGED <<app, stop, hostGone, remote, link, holder, clocks, net, pc>>

Greeted ==          \* "force first feed to send", "no stuck keys across links"
    /\ sess = "greeted"
    /\ connected' = TRUE /\ last' = Nowhere /\ keys' = {}
    /\ sess' = "top"
    /\ UNCHANGED <<app, stop, hostGone, remote, link, holder, clocks, net, pc>>

Top ==              \* stop is looked at between two messages only
    /\ sess = "top"
    /\ IF stop THEN connected' = FALSE /\ sess' = "drop"
       ELSE sess' = "loop" /\ UNCHANGED connected
    /\ UNCHANGED <<app, stop, hostGone, sent, remote, link, holder, clocks, net, pc>>

Hear ==             \* only a feature request is replied to
    /\ sess = "loop"
    /\ link = "open" /\ net = "answers"
    /\ sess' \in {"reply", "top"}
    /\ UNCHANGED <<app, flags, sent, remote, link, holder, clocks, net, pc>>

ReplyBegins ==
    /\ sess = "reply"
    /\ \/ link = "none" /\ sess' = "top" /\ UNCHANGED holder
       \/ link # "none" /\ Free /\ holder' = "sess" /\ sess' = "replying"
    /\ UNCHANGED <<app, flags, sent, remote, link, clocks, net, pc>>

ReplyEnds ==
    /\ sess = "replying"
    /\ holder' = "none" /\ sess' = "top"
    /\ UNCHANGED <<app, flags, sent, remote, link, clocks, net, pc>>

LinkDrops ==
    /\ sess = "loop"
    /\ link # "open"
    /\ connected' = FALSE
    /\ sess' = "drop"
    /\ UNCHANGED <<app, stop, hostGone, sent, remote, link, holder, clocks, net, pc>>

\* After a relay, a HELLO that failed, or a stop seen once connected.  The link
\* is broken or nobody sends, so there is no send to wake (UnplugShuts has).
Disconnect ==       \* the give-up counts from here only after a relay
    /\ sess \in {"drop", "unsaid", "quit"}
    /\ Free
    /\ link' = "none"
    /\ gone' = IF sess = "drop" THEN 0 ELSE gone
    /\ quiet' = IF sess = "drop" THEN 0 ELSE quiet
    /\ timer' = 0
    /\ sess' = IF sess = "drop" THEN "try" ELSE IF sess = "unsaid" THEN "rest" ELSE "over"
    /\ UNCHANGED <<app, flags, sent, remote, holder, net, pc>>

Rest ==             \* it does not look at stop
    /\ sess = "rest"
    /\ timer >= Redial
    /\ sess' = "try"
    /\ UNCHANGED <<app, flags, sent, remote, link, holder, clocks, net, pc>>

SessionStep ==
    \/ Try \/ DialConnects \/ DialFails \/ Pause \/ Dialled \/ Hello \/ Greeted
    \/ Top \/ Hear \/ ReplyBegins \/ ReplyEnds \/ LinkDrops \/ Disconnect \/ Rest

-----------------------------------------------------------------------------
\* A mutation of Waits: an attempt has the transport's whole time.
WaitsOn ==
    \/ sess = "dial" /\ timer < ConnectMost
    \/ sess = "pause" /\ ~stop /\ timer < Redial /\ ~OutOfTime
    \/ sess = "rest" /\ timer < Redial

Waits ==
    \/ sess = "dial" /\ timer < ConnectMost /\ ~OutOfTime
    \/ sess = "pause" /\ ~stop /\ timer < Redial /\ ~OutOfTime
    \/ sess = "rest" /\ timer < Redial

Tick ==
    /\ Waits
    /\ gone' = Least(gone + 1, Cap)
    /\ quiet' = Least(quiet + 1, Cap)
    /\ timer' = timer + 1
    /\ UNCHANGED <<app, sess, flags, sent, remote, link, holder, net, pc>>

Next ==
    \/ BridgeStart \/ Unplug \/ AppStep
    \/ \E k \in Keys : KeyGoes(k)
    \/ \E p \in Places : Moves(p)
    \/ SessionStep
    \/ \E n \in {"answers", "deaf", "refuses", "drops"} : NetChanges(n)
    \/ PeerHangsUp
    \/ Tick

Spec == Init /\ [][Next]_vars

\* Both threads go on with what they are in, but for a send that the PC does not
\* take; and time passes.  Nobody has to plug, unplug or touch the remote.
FairSpec ==
    /\ Spec
    /\ WF_vars(~Stuck("app") /\ AppStep)
    /\ WF_vars(~Stuck("sess") /\ SessionStep)
    /\ WF_vars(Tick)

-----------------------------------------------------------------------------
(***************************************************************************)
(* Properties.                                                             *)
(***************************************************************************)

\* The values the variables take.
TypeOK ==
    /\ app \in {"out", "plug", "in", "note", "want", "send", "shut", "join", "tell"}
    /\ sess \in {"off", "try", "dial", "pause", "dialled", "hello", "greeted", "top", "loop",
                 "reply", "replying", "drop", "unsaid", "quit", "rest", "over"}
    /\ {stop, connected, hostGone} \subseteq BOOLEAN
    /\ last \in Places \cup {Nowhere} /\ keys \subseteq Keys /\ held \subseteq Keys
    /\ Cardinality(keys) <= MaxKeys
    /\ report \in [key : Keys] \cup [at : Places] \cup [keys : SUBSET Keys]
    /\ link \in {"none", "open", "broken"}
    /\ holder \in {"none", "app", "sess"}
    /\ (holder = "app") = (app = "send") /\ (holder = "sess") = (sess = "replying")
    /\ gone \in 0 .. Cap /\ quiet \in 0 .. Cap /\ timer \in 0 .. ConnectMost + Redial
    /\ net \in {"answers", "deaf", "refuses", "drops"}
    /\ pc \in [bridge : BOOLEAN, greeted : BOOLEAN, keys : SUBSET Keys, at : Places \cup {Nowhere}]

\* A relay that stands, with no feed under way.
Settled == app = "in" /\ sess \in {"top", "loop"} /\ link = "open"

\* What is remembered as sent reached the device of the present link: a movement
\* that is not sent because "nothing changed" is one the PC has, and a key that is
\* noted as down is down there, its press was sent and its release will be.
SentIsShown == Settled => last \in {Nowhere, pc.at} /\ keys \subseteq pc.keys

\* "no stuck keys across links": with nothing held on the remote, nothing is
\* down on the PC.
NoStuckKeys == Settled /\ held = {} => pc.keys = {}

\* "no attempt waits past the give-up either": the listener frees a dropped
\* bridge's port, and an attempt after that could reach another's session.
NoLateKnock == sess = "dial" => quiet <= HostGone

\* It does not knock for ever: it is connected in the end, or gives up, or is
\* told to stop.
KnockingEnds == sess = "try" ~> connected \/ hostGone \/ stop

\* While the pointer is out, nothing of it is left here, no session thread and
\* nobody in a send on a destroyed transport; and the listener is left with no
\* pointer that this TV has given up or unplugged.
OutIsOut ==
    /\ app \in {"out", "plug", "tell"} => sess = "off" /\ Free /\ link = "none"
    /\ app = "out" => ~pc.bridge

\* An unplug comes back, a reply that the PC does not read included.
UnplugReturns == app = "shut" ~> app = "out"

\* Whatever the PC does or leaves undone, a knock ends and an unplug comes back.  A
\* feed is not in it: the send of one has no limit in the code, so the app's thread
\* may be in it for as long as the PC leaves it unread (Stuck, which FairSpec does
\* not ask to end), and no unplug begins before it comes back.
KnocksAndUnplugsEnd == KnockingEnds /\ UnplugReturns
=============================================================================
