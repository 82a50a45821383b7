---------------------------- MODULE SessionTable ----------------------------
(***************************************************************************)
(* The table of bridged devices (g_sessions, src/src/app/ui_bridge.c) and  *)
(* the paths that change it: the plug, which starts a session on the PC's  *)
(* listener, makes a controller and records it; the panel's release and    *)
(* the gesture worker's, both stop_session(); and the end of a stream,     *)
(* release_local_sessions_on_exit().                                       *)
(*                                                                         *)
(* What runs under g_sessions_mutex is one action.  What runs between two  *)
(* such sections (a BRIDGE_START or BRIDGE_STOP exchange, a plug-out, a    *)
(* destroy) is an action of its own, so every interleaving of the paths is *)
(* a behaviour.  A plug call is numbered; the number stands for the        *)
(* session name (busid) it makes and for the controller it allocates,      *)
(* since a call makes at most one of each.                                 *)
(***************************************************************************)
EXTENDS Naturals, FiniteSets

CONSTANTS
    Keys,         \* the devices, by their logical key
    Pluggers,     \* threads that may be inside plug_in_item()
    Releasers,    \* threads of the app that may call stop_session()
    Worker,       \* the gesture worker
    Exit,         \* the thread that ends a stream
    MaxSessions,  \* MAX_SESSIONS
    MaxPlugs      \* bound on the plug calls of a behaviour

Threads == Pluggers \cup Releasers \cup {Worker, Exit}
Stoppers == Releasers \cup {Worker}

ASSUME BoundsAssumption == MaxSessions \in Nat /\ MaxPlugs \in Nat

ASSUME ThreadsAssumption ==
    /\ Worker # Exit
    /\ Pluggers \cap (Releasers \cup {Worker, Exit}) = {}
    /\ Releasers \cap {Worker, Exit} = {}

Attempts == 1 .. MaxPlugs
None == 0

VARIABLES
    entry,     \* per key, the attempt its table entry holds, or None
    stopping,  \* keys whose entry is marked stopping
    seq,       \* plug calls made so far
    keyOf,     \* per attempt, the key it was asked to plug, or None
    answer,    \* per attempt, what plug_in_scan_index() has answered
    ctl,       \* per attempt, the life of its controller
    outs,      \* per attempt, the plug-outs of its controller begun so far
    pc,        \* per thread, where it is
    cur,       \* per thread, the attempt it is working on, or None
    asked,     \* controllers with unplug_requested set
    pending,   \* g_gesture_pending
    todo,      \* the keys the worker has copied and not yet stopped
    batch,     \* the attempts the exit has claimed
    left,      \* those of batch its loop has not reached
    reached,   \* listener_reached of the exit
    live,      \* the sessions the PC's listener has
    gaveUp     \* sessions no BRIDGE_STOP reached the listener for

table == <<entry, stopping>>
plugVars == <<seq, keyOf, answer>>
life == <<ctl, outs>>
workerVars == <<asked, pending, todo>>
exitVars == <<batch, left, reached>>
listener == <<live, gaveUp>>
vars == <<table, plugVars, life, pc, cur, workerVars, exitVars, listener>>

\* Where each kind of thread can be.
PlugPlaces == {"idle", "check", "start", "make", "add", "dropOut", "dropFree",
               "out", "free", "tell"}
StopPlaces == {"idle", "scan", "next", "out", "free", "tell", "remove"}
ExitPlaces == {"idle", "next", "out", "free", "tell", "remove", "wait"}

(***************************************************************************)
(* session_index_locked() finds a key; a stopping entry counts.            *)
(***************************************************************************)
InTable(k) == entry[k] # None
Bridged(k) == InTable(k) /\ k \notin stopping
Recorded == {k \in Keys : InTable(k)}

Init ==
    /\ entry = [k \in Keys |-> None]
    /\ stopping = {}
    /\ seq = 0
    /\ keyOf = [n \in Attempts |-> None]
    /\ answer = [n \in Attempts |-> "none"]
    /\ ctl = [n \in Attempts |-> "none"]
    /\ outs = [n \in Attempts |-> 0]
    /\ pc = [t \in Threads |-> "idle"]
    /\ cur = [t \in Threads |-> None]
    /\ asked = {}
    /\ pending = FALSE
    /\ todo = {}
    /\ batch = {}
    /\ left = {}
    /\ reached = TRUE
    /\ live = {}
    /\ gaveUp = {}

Goto(t, place) == pc' = [pc EXCEPT ![t] = place]
Return(t) == /\ Goto(t, "idle")
             /\ cur' = [cur EXCEPT ![t] = None]
Answer(n, a) == answer' = [answer EXCEPT ![n] = a]

-----------------------------------------------------------------------------
(***************************************************************************)
(* The plug: plug_in_item() and plug_in_scan_index().  The ways out before *)
(* the key check (no address, no node, a node that cannot be read) change  *)
(* nothing here and are left out.                                          *)
(***************************************************************************)
PlugCall(p, k) ==
    /\ pc[p] = "idle"
    /\ seq < MaxPlugs
    /\ seq' = seq + 1
    /\ keyOf' = [keyOf EXCEPT ![seq + 1] = k]
    /\ cur' = [cur EXCEPT ![p] = seq + 1]
    /\ Goto(p, "check")
    /\ UNCHANGED <<table, answer, life, workerVars, exitVars, listener>>

\* plug_key_is_set(): looked up under the mutex, which is then let go.
PlugCheck(p) ==
    /\ pc[p] = "check"
    /\ \/ /\ InTable(keyOf[cur[p]])
          /\ Answer(cur[p], "yes")
          /\ Return(p)
       \/ /\ ~InTable(keyOf[cur[p]])
          /\ Goto(p, "start")
          /\ UNCHANGED <<answer, cur>>
    /\ UNCHANGED <<table, seq, keyOf, life, workerVars, exitVars, listener>>

\* bridge_start_command(), as far as the table's paths tell its outcomes apart.
PlugStarted(p) ==   \* OK with a port
    /\ pc[p] = "start"
    /\ live' = live \cup {cur[p]}
    /\ Goto(p, "make")
    /\ UNCHANGED <<table, plugVars, life, cur, workerVars, exitVars, gaveUp>>

PlugRefused(p) ==   \* not reached, or refused in words: nothing was started
    /\ pc[p] = "start"
    /\ Answer(cur[p], "no")
    /\ Return(p)
    /\ UNCHANGED <<table, seq, keyOf, life, workerVars, exitVars, listener>>

\* A mutation of PlugUnsaid: no answer is taken for no session.
PlugUnsaidLeaves(p) ==
    /\ pc[p] = "start"
    /\ live' \in {live, live \cup {cur[p]}}
    /\ Answer(cur[p], "no")
    /\ Return(p)
    /\ UNCHANGED <<table, seq, keyOf, life, workerVars, exitVars, gaveUp>>

PlugUnsaid(p) ==    \* no answer, or an OK naming no port: it may be running
    /\ pc[p] = "start"
    /\ live' \in {live, live \cup {cur[p]}}
    /\ Answer(cur[p], "no")
    /\ Goto(p, "tell")
    /\ UNCHANGED <<table, seq, keyOf, life, cur, workerVars, exitVars, gaveUp>>

\* ctm_controller_create() and ctm_controller_plug_in(), which starts its thread.
PlugMake(p) ==
    /\ pc[p] = "make"
    /\ \/ /\ ctl' = [ctl EXCEPT ![cur[p]] = "running"]
          /\ Goto(p, "add")
          /\ UNCHANGED answer
       \/ /\ Answer(cur[p], "no")
          /\ Goto(p, "tell")
          /\ UNCHANGED ctl
    /\ UNCHANGED <<table, seq, keyOf, outs, cur, workerVars, exitVars, listener>>

\* add_session(): a fresh key is appended while there is room.
AddNew(p) ==
    LET k == keyOf[cur[p]] IN
    /\ pc[p] = "add"
    /\ ~InTable(k)
    /\ Cardinality(Recorded) < MaxSessions
    /\ entry' = [entry EXCEPT ![k] = cur[p]]
    /\ Answer(cur[p], "yes")
    /\ Return(p)
    /\ UNCHANGED <<stopping, seq, keyOf, life, workerVars, exitVars, listener>>

\* Mutations of AddReplaces: the entry keeps the controller it held; the one
\* it held is not torn down.
AddReplacesKeepsOld(p) ==
    LET k == keyOf[cur[p]] IN
    /\ pc[p] = "add"
    /\ Bridged(k)
    /\ cur' = [cur EXCEPT ![p] = entry[k]]
    /\ Answer(cur[p], "yes")
    /\ Goto(p, "dropOut")
    /\ UNCHANGED <<table, seq, keyOf, life, workerVars, exitVars, listener>>

AddReplacesLeaks(p) ==
    LET k == keyOf[cur[p]] IN
    /\ pc[p] = "add"
    /\ Bridged(k)
    /\ entry' = [entry EXCEPT ![k] = cur[p]]
    /\ Answer(cur[p], "yes")
    /\ Return(p)
    /\ UNCHANGED <<stopping, seq, keyOf, life, workerVars, exitVars, listener>>

\* add_session(): the entry takes the new controller, and this path then tears
\* down the one it held.  No BRIDGE_STOP is sent for the replaced session.
AddReplaces(p) ==
    LET k == keyOf[cur[p]] IN
    /\ pc[p] = "add"
    /\ Bridged(k)
    /\ entry' = [entry EXCEPT ![k] = cur[p]]
    /\ cur' = [cur EXCEPT ![p] = entry[k]]
    /\ Answer(cur[p], "yes")
    /\ Goto(p, "dropOut")
    /\ UNCHANGED <<stopping, seq, keyOf, life, workerVars, exitVars, listener>>

\* add_session() refuses: the table is full, or the key is still stopping.
AddRefused(p) ==
    LET k == keyOf[cur[p]] IN
    /\ pc[p] = "add"
    /\ \/ InTable(k) /\ k \in stopping
       \/ ~InTable(k) /\ Cardinality(Recorded) >= MaxSessions
    /\ Answer(cur[p], "no")
    /\ Goto(p, "out")
    /\ UNCHANGED <<table, seq, keyOf, life, cur, workerVars, exitVars, listener>>

-----------------------------------------------------------------------------
(***************************************************************************)
(* Tearing a controller down.  ctm_controller_plug_out() and               *)
(* ctm_controller_destroy() do what they are told to whatever controller   *)
(* they are given: nothing here looks at ctl first.                        *)
(***************************************************************************)
PlugOut(t) ==
    /\ pc[t] \in {"out", "dropOut"}
    /\ ctl' = [ctl EXCEPT ![cur[t]] = "out"]
    /\ outs' = [outs EXCEPT ![cur[t]] = @ + 1]
    /\ Goto(t, IF pc[t] = "out" THEN "free" ELSE "dropFree")
    /\ UNCHANGED <<table, plugVars, cur, workerVars, exitVars, listener>>

Destroy(t) ==
    /\ pc[t] = "free"
    /\ ctl' = [ctl EXCEPT ![cur[t]] = "gone"]
    /\ Goto(t, "tell")
    /\ UNCHANGED <<table, plugVars, outs, cur, workerVars, exitVars, listener>>

DestroyReplaced(p) ==
    /\ pc[p] = "dropFree"
    /\ ctl' = [ctl EXCEPT ![cur[p]] = "gone"]
    /\ Return(p)
    /\ UNCHANGED <<table, plugVars, outs, workerVars, exitVars, listener>>

(***************************************************************************)
(* "BRIDGE_STOP <busid>", then back to the caller: a plug returns, the     *)
(* exit takes its next pad, a stop_session() goes on to its removal.       *)
(***************************************************************************)
AfterTell(t) ==
    IF t \in Stoppers THEN "remove" ELSE IF t = Exit THEN "next" ELSE "idle"

Tell(t) ==
    /\ pc[t] = "tell"
    /\ Goto(t, AfterTell(t))
    /\ cur' = [cur EXCEPT ![t] = IF t \in Stoppers THEN @ ELSE None]
    /\ UNCHANGED <<table, plugVars, life, workerVars, batch, left>>

Telling(t) == t # Exit \/ reached

TellStop(t) ==      \* it reaches the listener, whatever comes back
    /\ Tell(t)
    /\ Telling(t)
    /\ live' = live \ {cur[t]}
    /\ UNCHANGED <<reached, gaveUp>>

TellLost(t) ==      \* it does not; the exit asks no more once a connect fails
    /\ Tell(t)
    /\ Telling(t)
    /\ gaveUp' = gaveUp \cup {cur[t]}
    /\ IF t = Exit THEN reached' \in BOOLEAN ELSE UNCHANGED reached
    /\ UNCHANGED live

TellSkipped ==      \* the exit, after a connect that failed
    /\ Tell(Exit)
    /\ ~Telling(Exit)
    /\ gaveUp' = gaveUp \cup {cur[Exit]}
    /\ UNCHANGED <<reached, live>>

-----------------------------------------------------------------------------
(***************************************************************************)
(* stop_session(): the entry is claimed under the mutex, and a path that   *)
(* finds it gone or already claimed returns.                               *)
(***************************************************************************)
\* A mutation of Claim: an entry another path has claimed is claimed again.
ClaimAgain(t, k) ==
    /\ InTable(k)
    /\ stopping' = stopping \cup {k}
    /\ cur' = [cur EXCEPT ![t] = entry[k]]
    /\ Goto(t, "out")

Claim(t, k) ==
    /\ Bridged(k)
    /\ stopping' = stopping \cup {k}
    /\ cur' = [cur EXCEPT ![t] = entry[k]]
    /\ Goto(t, "out")

Release(r, k) ==
    /\ pc[r] = "idle"
    /\ Claim(r, k)
    /\ UNCHANGED <<entry, plugVars, life, workerVars, exitVars, listener>>

\* A mutation of RemoveStopped: every stopping entry goes, whatever the key.
RemoveAllStopped(ks) ==
    /\ entry' = [k \in Keys |-> IF k \in stopping THEN None ELSE entry[k]]
    /\ stopping' = {}

\* session_remove_stopped_locked(): by key, and only an entry that is stopping.
RemoveStopped(ks) ==
    LET out == {k \in ks : InTable(k) /\ k \in stopping} IN
    /\ entry' = [k \in Keys |-> IF k \in out THEN None ELSE entry[k]]
    /\ stopping' = stopping \ out

\* A mutation of Remove: the claimed entry is left in the table.
RemoveForgets(t) ==
    /\ t \in Stoppers
    /\ pc[t] = "remove"
    /\ cur' = [cur EXCEPT ![t] = None]
    /\ Goto(t, IF t = Worker THEN "next" ELSE "idle")
    /\ UNCHANGED <<table, plugVars, life, workerVars, exitVars, listener>>

Remove(t) ==
    /\ t \in Stoppers
    /\ pc[t] = "remove"
    /\ RemoveStopped({keyOf[cur[t]]})
    /\ cur' = [cur EXCEPT ![t] = None]
    /\ Goto(t, IF t = Worker THEN "next" ELSE "idle")
    /\ UNCHANGED <<plugVars, life, workerVars, exitVars, listener>>

-----------------------------------------------------------------------------
(***************************************************************************)
(* The gesture worker.  A controller's input thread raises the request     *)
(* once (controller_request_unplug, gesture_requested); the worker takes   *)
(* it, copies the keys that ask, and stops them one at a time, by key.     *)
(***************************************************************************)
Ask(n) ==
    /\ ctl[n] = "running"
    /\ n \notin asked
    /\ asked' = asked \cup {n}
    /\ pending' = TRUE
    /\ UNCHANGED <<table, plugVars, life, pc, cur, todo, exitVars, listener>>

WorkerTake ==
    /\ pc[Worker] = "idle"
    /\ pending
    /\ pending' = FALSE
    /\ Goto(Worker, "scan")
    /\ UNCHANGED <<table, plugVars, life, cur, asked, todo, exitVars, listener>>

WorkerScan ==
    /\ pc[Worker] = "scan"
    /\ todo' = {k \in Keys : Bridged(k) /\ entry[k] \in asked}
    /\ Goto(Worker, "next")
    /\ UNCHANGED <<table, plugVars, life, cur, asked, pending, exitVars, listener>>

WorkerStop(k) ==
    /\ pc[Worker] = "next"
    /\ k \in todo
    /\ todo' = todo \ {k}
    /\ \/ Claim(Worker, k)
       \/ ~Bridged(k) /\ UNCHANGED <<stopping, cur, pc>>
    /\ UNCHANGED <<entry, plugVars, life, asked, pending, exitVars, listener>>

WorkerDone ==
    /\ pc[Worker] = "next"
    /\ todo = {}
    /\ Goto(Worker, "idle")
    /\ UNCHANGED <<table, plugVars, life, cur, workerVars, exitVars, listener>>

-----------------------------------------------------------------------------
(***************************************************************************)
(* release_local_sessions_on_exit(): claim every entry nobody else has,    *)
(* tear those down one after another, remove them, and wait, for five      *)
(* seconds at most, for the entries other paths are still tearing down.    *)
(***************************************************************************)
\* A mutation of ExitClaim: it takes every entry, claimed or not.
ExitClaimsAll ==
    LET mine == Recorded IN
    /\ pc[Exit] = "idle"
    /\ stopping' = stopping \cup mine
    /\ batch' = {entry[k] : k \in mine}
    /\ left' = batch'
    /\ reached' = TRUE
    /\ Goto(Exit, "next")
    /\ UNCHANGED <<entry, plugVars, life, cur, workerVars, listener>>

ExitClaim ==
    LET mine == {k \in Keys : Bridged(k)} IN
    /\ pc[Exit] = "idle"
    /\ stopping' = stopping \cup mine
    /\ batch' = {entry[k] : k \in mine}
    /\ left' = batch'
    /\ reached' = TRUE
    /\ Goto(Exit, "next")
    /\ UNCHANGED <<entry, plugVars, life, cur, workerVars, listener>>

ExitNext(n) ==
    /\ pc[Exit] = "next"
    /\ n \in left
    /\ left' = left \ {n}
    /\ cur' = [cur EXCEPT ![Exit] = n]
    /\ Goto(Exit, "out")
    /\ UNCHANGED <<table, plugVars, life, workerVars, batch, reached, listener>>

\* The removals and the first look at what is left are one hold of the mutex.
ExitRemove ==
    /\ pc[Exit] = "next"
    /\ left = {}
    /\ RemoveStopped({keyOf[n] : n \in batch})
    /\ batch' = {}
    /\ Goto(Exit, IF stopping' = {} THEN "idle" ELSE "wait")
    /\ UNCHANGED <<plugVars, life, cur, workerVars, left, reached, listener>>

ExitWoken ==
    /\ pc[Exit] = "wait"
    /\ stopping = {}
    /\ Goto(Exit, "idle")
    /\ UNCHANGED <<table, plugVars, life, cur, workerVars, exitVars, listener>>

ExitTimesOut ==
    /\ pc[Exit] = "wait"
    /\ stopping # {}
    /\ Goto(Exit, "idle")
    /\ UNCHANGED <<table, plugVars, life, cur, workerVars, exitVars, listener>>

-----------------------------------------------------------------------------
Plug(p) == \/ \E k \in Keys : PlugCall(p, k)
           \/ PlugCheck(p) \/ PlugStarted(p) \/ PlugRefused(p) \/ PlugUnsaid(p)
           \/ PlugMake(p) \/ AddNew(p) \/ AddReplaces(p) \/ AddRefused(p)
           \/ DestroyReplaced(p)

Teardown(t) == PlugOut(t) \/ Destroy(t) \/ TellStop(t) \/ TellLost(t)

WorkerStep == WorkerTake \/ WorkerScan \/ (\E k \in Keys : WorkerStop(k)) \/ WorkerDone

ExitLoop == TellSkipped \/ (\E n \in Attempts : ExitNext(n)) \/ ExitRemove \/ ExitWoken

Next ==
    \/ \E p \in Pluggers : Plug(p)
    \/ \E t \in Threads : Teardown(t)
    \/ \E r \in Releasers, k \in Keys : Release(r, k)
    \/ \E t \in Stoppers : Remove(t)
    \/ \E n \in Attempts : Ask(n)
    \/ WorkerStep
    \/ ExitClaim \/ ExitLoop \/ ExitTimesOut

Spec == Init /\ [][Next]_vars

(***************************************************************************)
(* A thread inside one of these calls goes on: the plug-out's waits and    *)
(* the exchanges with the listener are bounded in the code.  Nobody has to *)
(* plug, release, ask or end a stream, and no timeout has to come.         *)
(***************************************************************************)
Fairness ==
    /\ \A t \in Threads : WF_vars(Teardown(t))
    /\ \A p \in Pluggers : WF_vars(DestroyReplaced(p))
    /\ \A t \in Stoppers : WF_vars(Remove(t))
    /\ WF_vars(WorkerStep)
    /\ WF_vars(ExitLoop)

FairSpec == Spec /\ Fairness

-----------------------------------------------------------------------------
(***************************************************************************)
(* Properties.                                                             *)
(***************************************************************************)

\* The values the variables take.
TypeOK ==
    /\ entry \in [Keys -> Attempts \cup {None}]
    /\ stopping \subseteq Keys
    /\ seq \in 0 .. MaxPlugs
    /\ keyOf \in [Attempts -> Keys \cup {None}]
    /\ answer \in [Attempts -> {"none", "yes", "no"}]
    /\ ctl \in [Attempts -> {"none", "running", "out", "gone"}]
    /\ outs \in [Attempts -> Nat]
    /\ pc \in [Threads -> PlugPlaces \cup StopPlaces \cup ExitPlaces]
    /\ \A p \in Pluggers : pc[p] \in PlugPlaces
    /\ \A t \in Stoppers : pc[t] \in StopPlaces
    /\ pc[Exit] \in ExitPlaces
    /\ cur \in [Threads -> Attempts \cup {None}]
    /\ asked \subseteq Attempts
    /\ pending \in BOOLEAN
    /\ todo \subseteq Keys
    /\ batch \subseteq Attempts
    /\ left \subseteq batch
    /\ reached \in BOOLEAN
    /\ live \subseteq Attempts
    /\ gaveUp \subseteq Attempts

\* "ONE PATH TEARS A CONTROLLER DOWN, WHICHEVER ASKS FIRST" (ui_bridge.c, over
\* stop_session): no controller is ever plugged out a second time, and none is
\* destroyed without having been plugged out.
TornDownOnce ==
    \A n \in Attempts : /\ outs[n] <= 1
                        /\ ctl[n] \in {"out", "gone"} <=> outs[n] = 1

\* A path that reads a controller through the table under g_sessions_mutex,
\* past any stopping entry, reads one that no path has begun to tear down.
TableHoldsRunning ==
    \A k \in Keys : Bridged(k) => ctl[entry[k]] = "running" /\ keyOf[entry[k]] = k

\* The threads that have claimed attempt n and not yet removed its entry.
Claimants(n) ==
    {t \in Stoppers : cur[t] = n} \cup (IF n \in batch THEN {Exit} ELSE {})

\* Every stopping entry is one that exactly one path is tearing down and will
\* remove: none is left behind, which would refuse its device a new session
\* for good, and none is removed by a path that did not claim it.
StoppingIsClaimed ==
    \A k \in stopping : InTable(k) /\ Cardinality(Claimants(entry[k])) = 1

\* Who still has a BRIDGE_STOP ahead of it for session n.
WillStop(n) ==
    \/ \E k \in Keys : Bridged(k) /\ entry[k] = n
    \/ \E t \in Threads :
          cur[t] = n /\ pc[t] \in {"make", "add", "out", "free", "tell"}
    \/ n \in left

\* No phantom pad: a session the listener has is one that some path will still
\* stop, unless the listener could not be told.
NoPhantomSession == \A n \in live : WillStop(n) \/ n \in gaveUp

\* The end of a stream "still returns with every release played": unless its
\* wait timed out (an entry is still stopping), no release is under way when
\* release_local_sessions_on_exit() returns.
Releasing(t) == pc[t] \in {"out", "free", "tell", "remove"}
ExitReturnsQuiet ==
    [][ (pc[Exit] # "idle" /\ pc'[Exit] = "idle" /\ stopping' = {})
        => /\ \A t \in Stoppers : ~Releasing(t)
           /\ \A n \in batch : ctl[n] = "gone" ]_vars

(***************************************************************************)
(* Who owns a controller: the table while its entry is not stopping, and   *)
(* otherwise the path that made it or claimed it.                          *)
(***************************************************************************)
Holds(t, n) ==
    \/ cur[t] = n /\ pc[t] \in {"add", "out", "free", "dropOut", "dropFree"}
    \/ t = Exit /\ n \in left

OwnerOf(n) ==
    CASE ctl[n] = "none" -> "unborn"
      [] ctl[n] = "gone" -> "gone"
      [] OTHER -> IF \E k \in Keys : Bridged(k) /\ entry[k] = n THEN "table"
                  ELSE IF \E t \in Threads : Holds(t, n)
                       THEN CHOOSE t \in Threads : Holds(t, n)
                       ELSE "lost"

Ownership == INSTANCE ControllerOwnership
    WITH Paths <- Threads, Controllers <- Attempts,
         owner <- [n \in Attempts |-> OwnerOf(n)]

\* The table's paths, with all their interleavings, keep the promise of
\* ControllerOwnership: every controller has exactly one owner at a time.
ImplementsOwnership == Ownership!Spec

\* A stopping entry leaves the table, so its device can be bridged again.
StoppingEnds == \A k \in Keys : k \in stopping ~> k \notin stopping

\* A recorded controller whose unplug request the worker has not taken yet is
\* torn down, by the worker or by a path that was there first.
AskedGoes ==
    \A n \in Attempts :
        (pending /\ n \in asked /\ \E k \in Keys : Bridged(k) /\ entry[k] = n)
            ~> ctl[n] = "gone"

\* What is claimed is let go and what is asked is done: no device is refused for good
\* (plug_key_is_set), and no pad's own request to be released is lost.
ReleasesEnd == StoppingEnds /\ AskedGoes

\* What the comment in gesture_worker() says of the keys it has copied: "a key
\* another path got to first is simply skipped there too".  So the worker only
\* ever stops a controller that asked for it.
GestureStopsAskers ==
    [][ (pc[Worker] = "next" /\ pc'[Worker] = "out") => cur'[Worker] \in asked ]_vars
=============================================================================
