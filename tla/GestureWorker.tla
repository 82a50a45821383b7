---------------------------- MODULE GestureWorker ----------------------------
(***************************************************************************)
(* The life of the gesture worker's thread                                 *)
(* (src/src/app/ctm_gesture_worker.inl): who starts it, what it waits for, *)
(* and how it leaves.  The app starts and ends streams (g_running) and     *)
(* plugs devices while one runs; every plug calls ctm_bridge_gesture_init, *)
(* which starts a worker when none is running.  A bridged controller's     *)
(* input thread raises a request, which the worker is there to serve.      *)
(*                                                                         *)
(* The app is one thread here: it ends a stream only between two plugs.    *)
(* A worker is one of a bounded number of threads, each used once.         *)
(***************************************************************************)
EXTENDS Naturals, FiniteSets

CONSTANTS
    Keys,        \* the devices
    ThreadsFail, \* whether pthread_create may fail
    MaxWorkers,  \* bound on the workers ever started
    MaxStreams   \* bound on the streams ever started

ASSUME WorkerBounds == MaxWorkers \in Nat \ {0} /\ MaxStreams \in Nat /\ ThreadsFail \in BOOLEAN

Workers == 1 .. MaxWorkers

VARIABLES
    running,  \* g_running
    flag,     \* g_gesture_worker_running
    pending,  \* g_gesture_pending
    wpc,      \* per worker, where it is
    gesture,  \* per worker, its local copy of pending
    plugging, \* the device the app's thread is plugging, if any
    bridged,  \* the devices in the session table
    asked,    \* those whose controller has asked to be unplugged
    streams   \* streams started so far

appVars == <<plugging, bridged, streams>>
gwVars == <<running, flag, pending, wpc, gesture, plugging, bridged, asked, streams>>

GWInit ==
    /\ running = FALSE
    /\ flag = FALSE
    /\ pending = FALSE
    /\ wpc = [w \in Workers |-> "unborn"]
    /\ gesture = [w \in Workers |-> FALSE]
    /\ plugging = {}
    /\ bridged = {}
    /\ asked = {}
    /\ streams = 0

Goto(w, place) == wpc' = [wpc EXCEPT ![w] = place]

-----------------------------------------------------------------------------
(***************************************************************************)
(* The app.  The end of a stream clears g_running and releases every       *)
(* session (release_local_sessions_on_exit).                               *)
(***************************************************************************)
StreamStarts ==
    /\ plugging = {}
    /\ ~running
    /\ streams < MaxStreams
    /\ running' = TRUE
    /\ streams' = streams + 1
    /\ UNCHANGED <<flag, pending, wpc, gesture, plugging, bridged, asked>>

StreamEnds ==
    /\ plugging = {}
    /\ running
    /\ running' = FALSE
    /\ bridged' = {}
    /\ asked' = {}
    /\ UNCHANGED <<flag, pending, wpc, gesture, plugging, streams>>

\* ctm_bridge_gesture_init(), the first thing plug_in_item() does: nothing when
\* the flag says a worker runs, otherwise a new worker, or none if the thread
\* cannot be made.
StartWorker(w) ==
    /\ wpc[w] = "unborn"
    /\ \A v \in Workers : v < w => wpc[v] # "unborn"
    /\ flag' = TRUE
    /\ Goto(w, "top")

\* A mutation of PlugStarts: a worker for every plug.
PlugAlwaysStarts(k) ==
    /\ plugging = {}
    /\ running
    /\ k \notin bridged
    /\ plugging' = {k}
    /\ \E w \in Workers : StartWorker(w)
    /\ UNCHANGED <<running, pending, gesture, bridged, asked, streams>>

PlugStarts(k) ==
    /\ plugging = {}
    /\ running
    /\ k \notin bridged
    /\ plugging' = {k}
    /\ \/ flag /\ UNCHANGED <<flag, wpc>>
       \/ ~flag /\ \E w \in Workers : StartWorker(w)
       \/ ~flag /\ ThreadsFail /\ UNCHANGED <<flag, wpc>>
    /\ UNCHANGED <<running, pending, gesture, bridged, asked, streams>>

PlugEnds ==
    /\ plugging # {}
    /\ plugging' = {}
    /\ \/ bridged' = bridged \cup plugging
       \/ UNCHANGED bridged
    /\ UNCHANGED <<running, flag, pending, wpc, gesture, asked, streams>>

\* controller_request_unplug() and gesture_requested(), on an input thread.
Request(k) ==
    /\ k \in bridged \ asked
    /\ asked' = asked \cup {k}
    /\ pending' = TRUE
    /\ UNCHANGED <<running, flag, wpc, gesture, appVars>>

-----------------------------------------------------------------------------
(***************************************************************************)
(* gesture_worker().                                                       *)
(***************************************************************************)
Top(w) ==           \* while (g_running)
    /\ wpc[w] = "top"
    /\ Goto(w, IF running THEN "wait" ELSE "leave")
    /\ UNCHANGED <<running, flag, pending, gesture, appVars, asked>>

\* A mutation of Wake: the flag is cleared unread.
WakeUnread(w) ==
    /\ wpc[w] = "wait"
    /\ gesture' \in {[gesture EXCEPT ![w] = pending], [gesture EXCEPT ![w] = FALSE]}
    /\ pending' = FALSE
    /\ Goto(w, "woken")
    /\ UNCHANGED <<running, flag, appVars, asked>>

\* The wait ends on a request, once g_running is false, or by its three
\* seconds; the flag is taken in the same hold of g_gesture_mutex.
Wake(w) ==
    /\ wpc[w] = "wait"
    /\ gesture' = [gesture EXCEPT ![w] = pending]
    /\ pending' = FALSE
    /\ Goto(w, "woken")
    /\ UNCHANGED <<running, flag, appVars, asked>>

Woken(w) ==
    /\ wpc[w] = "woken"
    /\ Goto(w, IF ~running THEN "leave" ELSE IF gesture[w] THEN "serve" ELSE "top")
    /\ UNCHANGED <<running, flag, pending, gesture, appVars, asked>>

\* The sessions that ask are copied and each is stopped (SessionTable).
Serve(w) ==
    /\ wpc[w] = "serve"
    /\ bridged' = bridged \ asked
    /\ asked' = {}
    /\ Goto(w, "top")
    /\ UNCHANGED <<running, flag, pending, gesture, plugging, streams>>

Leave(w) ==
    /\ wpc[w] = "leave"
    /\ flag' = FALSE
    /\ Goto(w, "dead")
    /\ UNCHANGED <<running, pending, gesture, appVars, asked>>

WorkerStep(w) == Top(w) \/ Wake(w) \/ Woken(w) \/ Serve(w) \/ Leave(w)

GWNext ==
    \/ StreamStarts \/ StreamEnds
    \/ \E k \in Keys : PlugStarts(k) \/ Request(k)
    \/ PlugEnds
    \/ \E w \in Workers : WorkerStep(w)

GWSpec == GWInit /\ [][GWNext]_gwVars

\* A worker's thread runs, and its wait ends after three seconds at most.
GWFairSpec == GWSpec /\ \A w \in Workers : WF_gwVars(WorkerStep(w))

-----------------------------------------------------------------------------
(***************************************************************************)
(* Properties.                                                             *)
(***************************************************************************)

\* The values the variables take.
GWTypeOK ==
    /\ {running, flag, pending} \subseteq BOOLEAN
    /\ wpc \in [Workers -> {"unborn", "top", "wait", "woken", "serve", "leave", "dead"}]
    /\ gesture \in [Workers -> BOOLEAN]
    /\ plugging \subseteq Keys /\ Cardinality(plugging) <= 1
    /\ bridged \subseteq Keys
    /\ asked \subseteq bridged
    /\ streams \in 0 .. MaxStreams

Alive(w) == wpc[w] \notin {"unborn", "dead"}

\* "The worker is a SINGLE thread": two of them could take the same request
\* apart, or serve each other's.  The flag says so exactly.
SingleWorker ==
    /\ \A v, w \in Workers : Alive(v) /\ Alive(w) => v = w
    /\ flag <=> \E w \in Workers : Alive(w)

\* "Last thing before the thread dies, so the next plug can create a replacement":
\* where every thread can be made, a bridged device has a worker to serve it.
PluggedHasWorker == ~ThreadsFail /\ running /\ bridged # {} => \E w \in Workers : Alive(w)

\* A request raised while a worker is in its loop is served, or the stream
\* ends: taking the flag before the look at the table never loses one.  And with
\* no stream left to run, no worker is left either.
RequestServed ==
    /\ \A k \in Keys :
          (k \in asked /\ pending /\ \E w \in Workers : wpc[w] \in {"wait", "woken", "serve"})
              ~> (k \notin asked \/ ~running)
    /\ (<>[] ~running) => <>[] (\A w \in Workers : ~Alive(w))
=============================================================================
