----------------------------- MODULE AgentProbe -----------------------------
(***************************************************************************)
(* What the TV knows of the listener on the PC: the probe's thread, which  *)
(* asks STATUS for as long as the app lives                                *)
(* (src/src/app/ctm_gesture_worker.inl), a plug's bridge_start_command(),  *)
(* the address a stream sets (ctm_bridge_set_agent_host), and the park     *)
(* outside a stream.  They share g_agent_online, g_agent_probed,           *)
(* g_agent_compat and g_agent_locked with no lock: a command is sent, up   *)
(* to a second passes, and its answer is written in several stores.        *)
(***************************************************************************)
EXTENDS Naturals

CONSTANTS
    Hosts,   \* the listeners' addresses (host and port)
    NoHost,  \* g_agent_host is empty
    Plugs    \* whether plugs happen in the behaviours looked at

ASSUME HostAssumption == NoHost \notin Hosts /\ Plugs \in BOOLEAN

\* What a listener is to a TV that asks it: not there, there but not answering
\* in time, too new for this TV, on a locked Windows, or ready.
Listeners == {"down", "mute", "update", "locked", "ready"}

Answers(s) == s \in {"update", "locked", "ready"}
Verdict(s) == IF s = "update" THEN "update" ELSE IF Answers(s) THEN "ok" ELSE "unknown"
LockedIn(s) == s = "locked"

VARIABLES
    host,     \* g_agent_host and g_agent_port
    online,   \* g_agent_online
    probed,   \* g_agent_probed
    compat,   \* g_agent_compat: "unknown", "ok" or "update"
    locked,   \* g_agent_locked
    parked,   \* g_probe_parked
    soon,     \* g_probe_now
    probe,    \* where the probe's thread is
    asking,   \* the address its command goes to, while it is under way
    reply,    \* what it heard there
    plug,     \* where a plug's bridge_start_command() is
    calling,  \* the address its command went to
    listens   \* per address, the listener

flags == <<online, probed, compat, locked>>
probeVars == <<probe, asking, reply>>
plugVars == <<plug, calling>>
appVars == <<host, parked>>
vars == <<flags, probeVars, plugVars, appVars, soon, listens>>

Init ==
    /\ host = NoHost
    /\ online = FALSE /\ probed = FALSE /\ compat = "unknown" /\ locked = FALSE
    /\ parked = TRUE /\ soon = FALSE
    /\ probe = "look" /\ asking = NoHost /\ reply = "down"
    /\ plug = "idle" /\ calling = NoHost
    /\ listens \in [Hosts -> Listeners]

-----------------------------------------------------------------------------
(***************************************************************************)
(* The PC: its listener starts, stops, hangs, is updated; Windows is       *)
(* locked and unlocked.                                                    *)
(***************************************************************************)
ListenerChanges(h, s) ==
    /\ s # listens[h]
    /\ listens' = [listens EXCEPT ![h] = s]
    /\ UNCHANGED <<flags, probeVars, plugVars, appVars, soon>>

(***************************************************************************)
(* The app: ctm_bridge_set_agent_host() with agent_endpoint_set(), and     *)
(* ctm_agent_probe_park().                                                 *)
(***************************************************************************)
SetHost(h) ==
    /\ host' = h
    /\ IF h = NoHost THEN online' = FALSE /\ probed' = FALSE
       ELSE IF h # host THEN online' = TRUE /\ probed' = FALSE
       ELSE UNCHANGED <<online, probed>>
    /\ IF h # host THEN compat' = "unknown" ELSE UNCHANGED compat
    /\ soon' = (soon \/ h # NoHost)
    /\ UNCHANGED <<locked, probeVars, plugVars, parked, listens>>

Park ==
    /\ ~parked
    /\ parked' = TRUE
    /\ UNCHANGED <<flags, probeVars, plugVars, host, soon, listens>>

Unpark ==
    /\ parked' = FALSE
    /\ probed' = FALSE
    /\ compat' = "unknown"
    /\ locked' = FALSE
    /\ soon' = TRUE
    /\ UNCHANGED <<online, probeVars, plugVars, host, listens>>

-----------------------------------------------------------------------------
(***************************************************************************)
(* The probe's thread, one action per store that others can see.           *)
(***************************************************************************)
\* A mutation of ProbeLooks: it asks only a listener that reads ONLINE.
ProbeLatches ==
    /\ probe = "look"
    /\ IF host # NoHost /\ ~parked /\ (online \/ ~probed)
       THEN probe' = "ask" /\ asking' = host
       ELSE probe' = "sleep" /\ UNCHANGED asking
    /\ UNCHANGED <<flags, reply, plugVars, appVars, soon, listens>>

ProbeLooks ==       \* connect() reads the address; parked, it only sleeps
    /\ probe = "look"
    /\ IF host # NoHost /\ ~parked
       THEN probe' = "ask" /\ asking' = host
       ELSE probe' = "sleep" /\ UNCHANGED asking
    /\ UNCHANGED <<flags, reply, plugVars, appVars, soon, listens>>

ProbeHears ==       \* send_agent_line(): the lock is read before the flags
    /\ probe = "ask"
    /\ reply' = listens[asking]
    /\ locked' = IF Answers(reply') THEN LockedIn(reply') ELSE locked
    /\ probe' = "flags" /\ asking' = NoHost
    /\ UNCHANGED <<online, probed, compat, plugVars, appVars, soon, listens>>

ProbeFlags ==
    /\ probe = "flags"
    /\ online' = Answers(reply)
    /\ probed' = TRUE
    /\ probe' = "compat"
    /\ UNCHANGED <<compat, locked, asking, reply, plugVars, appVars, soon, listens>>

ProbeCompat ==      \* g_agent_online is read again, as it is now
    /\ probe = "compat"
    /\ compat' = IF online THEN Verdict(reply) ELSE "unknown"
    /\ probe' = "locked"
    /\ UNCHANGED <<online, probed, locked, asking, reply, plugVars, appVars, soon, listens>>

ProbeLocked ==
    /\ probe = "locked"
    /\ locked' = (online /\ LockedIn(reply))
    /\ probe' = "sleep"
    /\ UNCHANGED <<online, probed, compat, asking, reply, plugVars, appVars, soon, listens>>

ProbeWakes ==       \* asked to, or after ten seconds
    /\ probe = "sleep"
    /\ probe' = "look"
    /\ soon' = FALSE
    /\ UNCHANGED <<flags, asking, reply, plugVars, appVars, listens>>

ProbeStep == ProbeLooks \/ ProbeHears \/ ProbeFlags \/ ProbeCompat \/ ProbeLocked \/ ProbeWakes

-----------------------------------------------------------------------------
(***************************************************************************)
(* A plug: bridge_start_command(), which asks STATUS when there is no      *)
(* verdict, and plug_in_scan_index(), which wants a probe after a failure. *)
(***************************************************************************)
PlugStarts ==
    /\ Plugs
    /\ plug = "idle"
    /\ host # NoHost
    /\ plug' = IF compat = "unknown" THEN "status" ELSE "judge"
    /\ calling' = host
    /\ UNCHANGED <<flags, probeVars, appVars, soon, listens>>

PlugFails == plug' = "idle" /\ soon' = TRUE

NotReached == online' = FALSE /\ probed' = TRUE
Reached == online' = TRUE /\ probed' = TRUE

PlugStatus ==
    LET s == listens[calling] IN
    /\ plug = "status"
    /\ \/ /\ s = "down"
          /\ NotReached
          /\ PlugFails
          /\ UNCHANGED <<compat, locked>>
       \/ /\ s = "mute"
          /\ plug' = "judge"
          /\ UNCHANGED <<flags, soon>>
       \/ /\ Answers(s)
          /\ locked' = LockedIn(s)
          /\ Reached
          /\ compat' = Verdict(s)
          /\ plug' = "judge"
          /\ UNCHANGED soon
    /\ UNCHANGED <<calling, probeVars, appVars, listens>>

PlugJudges ==       \* told which side to update, or BRIDGE_START is sent
    /\ plug = "judge"
    /\ IF compat = "update" THEN PlugFails /\ UNCHANGED calling
       ELSE IF host = NoHost THEN PlugFails /\ UNCHANGED calling
       ELSE plug' = "start" /\ calling' = host /\ UNCHANGED soon
    /\ UNCHANGED <<flags, probeVars, appVars, listens>>

PlugBridges ==
    LET s == listens[calling] IN
    /\ plug = "start"
    /\ CASE s = "down" -> NotReached /\ UNCHANGED <<compat, locked>>
         [] s = "mute" -> UNCHANGED flags
         [] s = "update" -> /\ Reached /\ UNCHANGED locked
                            /\ compat' = "update"
         [] s = "locked" -> /\ Reached /\ UNCHANGED compat
                            /\ locked' = TRUE
         [] s = "ready" -> Reached /\ UNCHANGED <<compat, locked>>
    /\ plug' = "idle"
    /\ soon' = (soon \/ s # "ready")
    /\ UNCHANGED <<calling, probeVars, appVars, listens>>

PlugStep == PlugStatus \/ PlugJudges \/ PlugBridges

Next ==
    \/ \E h \in Hosts, s \in Listeners : ListenerChanges(h, s)
    \/ \E h \in Hosts \cup {NoHost} : SetHost(h)
    \/ Park \/ Unpark
    \/ ProbeStep
    \/ PlugStarts \/ PlugStep

Spec == Init /\ [][Next]_vars

\* The probe's thread never ends and every wait of it is bounded; so is every
\* wait of a plug.
FairSpec == Spec /\ WF_vars(ProbeStep) /\ WF_vars(PlugStep)

-----------------------------------------------------------------------------
(***************************************************************************)
(* Properties.                                                             *)
(***************************************************************************)

\* The values the variables take.
TypeOK ==
    /\ host \in Hosts \cup {NoHost}
    /\ {online, probed, locked, parked, soon} \subseteq BOOLEAN
    /\ compat \in {"unknown", "ok", "update"}
    /\ probe \in {"look", "ask", "flags", "compat", "locked", "sleep"}
    /\ plug \in {"idle", "status", "judge", "start"}
    /\ reply \in Listeners
    /\ listens \in [Hosts -> Listeners]
    /\ {asking, calling} \subseteq Hosts \cup {NoHost}
    /\ probe = "ask" <=> asking \in Hosts
    /\ plug \in {"status", "start"} => calling \in Hosts

\* What the flags read once they are true of the listener at the address.
TrueReading ==
    /\ host # NoHost
    /\ probed
    /\ online = Answers(listens[host])
    /\ compat = Verdict(listens[host])
    /\ locked = LockedIn(listens[host])

\* The panel is never stuck on an old reading, ONLINE or OFFLINE (the fault the
\* comments over AGENT_PROBE_INTERVAL_US and in send_agent_line tell of): during
\* a stream, once nothing changes at the PC, the flags come to be true of it
\* and stay so, plugs or no plugs.
Settled == host # NoHost /\ ~parked
StaysPut == <>[][UNCHANGED <<host, parked, listens>> /\ ~Unpark]_vars
ReadingSettles == (<>[] Settled /\ StaysPut) => <>[] TrueReading
=============================================================================
