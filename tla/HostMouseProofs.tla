--------------------------- MODULE HostMouseProofs ---------------------------
(***************************************************************************)
(* Proofs about HostMouse for any keys, places and times: nothing of a     *)
(* pointer that is out is left, no knock comes after the give-up, and what *)
(* is remembered as sent is what the PC shows.                             *)
(***************************************************************************)
EXTENDS HostMouse, TLAPS

KeyReports == [key : Keys]
PlaceReports == [at : Places]
KeysReports == [keys : SUBSET Keys]

\* As much of the variables' types as the steps need, and who holds send_mutex.
Types ==
    /\ report \in KeyReports \cup PlaceReports \cup KeysReports
    /\ app = "note" => report \in KeyReports \cup PlaceReports
    /\ app \in {"want", "send"} => report \in PlaceReports \cup KeysReports
    /\ keys \subseteq Keys
    /\ pc \in [bridge : BOOLEAN, greeted : BOOLEAN, keys : SUBSET Keys, at : Places \cup {Nowhere}]
    /\ holder \in {"none", "app", "sess"}
    /\ holder = "app" <=> app = "send"
    /\ holder = "sess" <=> sess = "replying"

\* The transport has a socket only from a connect to the disconnect after it.
LinkInv ==
    /\ sess \in {"off", "try", "dial", "pause", "rest", "over"} => link = "none"
    /\ sess \in {"greeted", "top", "loop", "reply", "replying"} => pc.greeted

\* A pointer that is out has no thread here and no bridge on the listener.
OutInv ==
    /\ app \in {"out", "plug", "tell"} => sess = "off"
    /\ app = "out" => ~pc.bridge

\* The give-up's clock is the time since a greeted link.
ClockInv ==
    /\ gone \in Nat /\ quiet = gone
    /\ sess = "dial" => gone <= HostGone

\* On a link that stands, what is noted is what the PC shows, once the report that the app's
\* thread is about to send has gone.
SentInv ==
    sess \in {"top", "loop", "reply", "replying"} /\ link = "open" =>
        /\ app \in {"in", "note"} => last \in {Nowhere, pc.at} /\ keys \subseteq pc.keys
        /\ app \in {"want", "send"} /\ report \in PlaceReports =>
               last \in {Nowhere, report.at} /\ keys \subseteq pc.keys
        /\ app \in {"want", "send"} /\ report \in KeysReports =>
               last \in {Nowhere, pc.at} /\ keys \subseteq report.keys

IInv == Types /\ LinkInv /\ OutInv /\ ClockInv /\ SentInv

USE PointerAssumption
USE DEF KeyReports, PlaceReports, KeysReports, NoReport, Fresh, Free, OutOfTime, Call, Shown,
        flags, sent, remote, clocks

\* Nothing has begun.
LEMMA Initially == Init => IInv
BY DEF Init, IInv, Types, LinkInv, OutInv, ClockInv, SentInv

\* The app's thread, in a plug, an unplug or a feed.
LEMMA AppKeeps == ASSUME IInv, AppStep PROVE IInv'
<1> USE DEF IInv, Types, LinkInv, OutInv, ClockInv, SentInv
<1>1. CASE Plug
  BY <1>1 DEF Plug
<1>2. CASE BridgeStop
  BY <1>2 DEF BridgeStop
<1>3. CASE UnplugShuts
  BY <1>3 DEF UnplugShuts
<1>4. CASE UnplugJoins
  BY <1>4 DEF UnplugJoins
<1>5. CASE NoteKey
  BY <1>5 DEF NoteKey
<1>6. CASE NotePlace
  BY <1>6 DEF NotePlace
<1>7. CASE ReportBegins
  BY <1>7 DEF ReportBegins
<1>8. CASE ReportEnds
  BY <1>8 DEF ReportEnds
<1> QED
  BY <1>1, <1>2, <1>3, <1>4, <1>5, <1>6, <1>7, <1>8 DEF AppStep

\* The session's thread.
LEMMA SessionKeeps == ASSUME IInv, SessionStep PROVE IInv'
<1> USE DEF IInv, Types, LinkInv, OutInv, ClockInv, SentInv
<1>1. CASE Try
  BY <1>1 DEF Try
<1>2. CASE DialConnects
  BY <1>2 DEF DialConnects
<1>3. CASE DialFails
  BY <1>3 DEF DialFails
<1>4. CASE Pause
  BY <1>4 DEF Pause
<1>5. CASE Dialled
  BY <1>5 DEF Dialled
<1>6. CASE Hello
  BY <1>6 DEF Hello
<1>7. CASE Greeted
  BY <1>7 DEF Greeted
<1>8. CASE Top
  BY <1>8 DEF Top
<1>9. CASE Hear
  BY <1>9 DEF Hear
<1>10. CASE ReplyBegins
  BY <1>10 DEF ReplyBegins
<1>11. CASE ReplyEnds
  BY <1>11 DEF ReplyEnds
<1>12. CASE LinkDrops
  BY <1>12 DEF LinkDrops
<1>13. CASE Disconnect
  BY <1>13 DEF Disconnect
<1>14. CASE Rest
  BY <1>14 DEF Rest
<1> QED
  BY <1>1, <1>2, <1>3, <1>4, <1>5, <1>6, <1>7, <1>8, <1>9, <1>10, <1>11, <1>12, <1>13,
     <1>14 DEF SessionStep

\* The remote, the user, the PC and time.
LEMMA WorldKeeps ==
    ASSUME IInv,
           \/ BridgeStart \/ Unplug \/ PeerHangsUp \/ Tick
           \/ \E k \in Keys : KeyGoes(k)
           \/ \E p \in Places : Moves(p)
           \/ \E n \in {"answers", "deaf", "refuses", "drops"} : NetChanges(n)
    PROVE  IInv'
<1> USE DEF IInv, Types, LinkInv, OutInv, ClockInv, SentInv
<1>1. CASE BridgeStart
  BY <1>1 DEF BridgeStart
<1>2. CASE Unplug
  BY <1>2 DEF Unplug
<1>3. CASE PeerHangsUp
  BY <1>3 DEF PeerHangsUp
<1>4. CASE Tick
  BY <1>4 DEF Tick, Waits, Least, Cap
<1>5. ASSUME NEW k \in Keys, KeyGoes(k) PROVE IInv'
  BY <1>5 DEF KeyGoes
<1>6. ASSUME NEW p \in Places, Moves(p) PROVE IInv'
  BY <1>6 DEF Moves
<1>7. ASSUME NEW n, NetChanges(n) PROVE IInv'
  BY <1>7 DEF NetChanges
<1> QED
  BY <1>1, <1>2, <1>3, <1>4, <1>5, <1>6, <1>7

\* The inductive invariant.
THEOREM Invariance == Spec => []IInv
<1>1. IInv /\ [Next]_vars => IInv'
  <2> SUFFICES ASSUME IInv, [Next]_vars PROVE IInv'
    OBVIOUS
  <2>1. CASE UNCHANGED vars
    BY <2>1 DEF vars, IInv, Types, LinkInv, OutInv, ClockInv, SentInv
  <2> QED
    BY <2>1, AppKeeps, SessionKeeps, WorldKeeps DEF Next
<1> QED
  BY <1>1, Initially, PTL DEF Spec

\* A pointer that was unplugged, or never plugged, has no thread, no socket and no bridge:
\* ctm_hostmouse_unplug() has waited, and the listener was told after it.
THEOREM OutLeavesNothing == Spec => []OutIsOut
<1>1. IInv => OutIsOut
  BY DEF IInv, Types, LinkInv, OutInv, OutIsOut
<1> QED
  BY <1>1, Invariance, PTL

\* No attempt is under way past the give-up, when the port may be another's
\* (hm_session_main), whatever the times.
THEOREM KnocksInTime == Spec => []NoLateKnock
<1>1. IInv => NoLateKnock
  BY DEF IInv, ClockInv, NoLateKnock
<1> QED
  BY <1>1, Invariance, PTL

\* A report held back because nothing changed is one the PC has, across drops and redials
\* (ctm_hostmouse_feed, ctm_hostmouse_feed_key, and what a greeting resets).
THEOREM NotedIsShown == Spec => []SentIsShown
<1>1. IInv => SentIsShown
  BY DEF IInv, SentInv, SentIsShown, Settled
<1> QED
  BY <1>1, Invariance, PTL
==============================================================================
