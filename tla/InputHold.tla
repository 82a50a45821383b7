----------------------------- MODULE InputHold ------------------------------
(***************************************************************************)
(* A bridged device's input thread (controller_common.c, input_thread_     *)
(* main): from the reports the kernel keeps to what the PC is shown.  Two  *)
(* things stand between them.  What was held as the bridge started is      *)
(* sent as released until it is let go (switch_hold.inl), and while the    *)
(* TV's overlay is open a pad's reports are sent blank and a keyboard or a *)
(* mouse is handed back to the TV.  A report is the set of inputs that are *)
(* down in it; its layout is in PadLayouts.                                *)
(***************************************************************************)
EXTENDS Integers, Sequences, FiniteSets

CONSTANTS
    Kinds,      \* the devices to look at, of "steady", "touch", "generic", "xbox", "keyboard", "mouse"
    Inputs,     \* what a pad has
    QueueCap,   \* reports the kernel keeps for a reader (64)
    HoldTicks,  \* how long a chord is held for, in ticks (4 s)
    MaxDue      \* bounds the chords and shortcuts a person makes

ASSUME KindsAssumption ==
    Kinds \subseteq {"steady", "touch", "generic", "xbox", "keyboard", "mouse"}
ASSUME BoundsAssumption == {QueueCap, HoldTicks, MaxDue} \subseteq Nat \ {0}

VARIABLES
    kind,       \* "steady" and "touch" report all the time, the others report a
                \* change; "touch" is a DualShock 4, with its chord
    down,       \* the inputs a person has down
    queue,      \* the node's reports, oldest first
    lost,       \* the newest report found the queue full
    held,       \* the app holds the input: its overlay is open
    connected,  \* the input thread runs on a connection
    job,        \* the thread's report between being read and being sent
    swh,        \* what was held as the bridge started: followed or not, looked at, held
    keep,       \* the last report, for the keepalive
    handedBack, \* the TV has the keyboard or the mouse
    chord,      \* Never, the ticks since the chord was seen, or Fired
    asks,       \* releases asked, or shortcuts told
    pc,         \* the inputs the PC's device shows down
    \* history
    due,        \* chords made; and for a keyboard, connections made
    since,      \* what was down as the bridge started and was never let go
    first       \* what was down in the first report to get in, and in each one since

vars == <<kind, down, queue, lost, held, connected, job, swh, keep, handedBack,
          chord, asks, pc, due, since, first>>

Quiet == kind \in {"generic", "xbox", "keyboard", "mouse"}
Kept == kind \in {"generic", "xbox"}
Shared == kind \in {"keyboard", "mouse"}
OwnInputs ==
    CASE kind = "mouse" -> {"left"}
      [] kind = "keyboard" -> {"mods", "s"}
      [] kind = "touch" -> {"chord"}
      [] OTHER -> Inputs
Chorded(keys) == {"mods", "s"} \subseteq keys \/ "chord" \in keys
Never == -1
Fired == HoldTicks + 1

\* A pad's whole report, and one that is not: a DualShock 4 over Bluetooth sends
\* short reports too, which nobody here reads.
Report(keys) == [partial |-> FALSE, keys |-> keys]
PartialReport == [partial |-> TRUE, keys |-> {}]
NoJob == [at |-> "idle", partial |-> FALSE, keys |-> {}, held |-> FALSE, out |-> {}]

Init ==
    /\ kind \in Kinds
    /\ down \in SUBSET OwnInputs
    /\ queue = <<>> /\ lost = FALSE
    /\ held \in BOOLEAN
    /\ connected = FALSE
    /\ job = NoJob
    \* switch_hold_begin: at once for a pad that reports all the time, and for
    \* the others when their input nodes say that something is held.
    /\ swh = [armed |-> ~Quiet \/ down # {}, seen |-> FALSE, held |-> {}]
    /\ keep = {}
    /\ handedBack = FALSE
    /\ chord = Never
    /\ asks = 0
    /\ pc = {}
    /\ due = IF Chorded(down) THEN 1 ELSE 0
    /\ since = down
    /\ first = [made |-> FALSE, keys |-> {}]

-----------------------------------------------------------------------------
(* The device and the person. *)

\* A report comes, and is dropped when the reader has left the queue full.
Made(r) ==
    IF Len(queue) < QueueCap THEN queue' = Append(queue, r) /\ lost' = FALSE
    ELSE lost' = TRUE /\ UNCHANGED queue

States(keys) ==
    /\ Made(Report(keys))
    /\ first' = IF lost' THEN first
                ELSE [made |-> TRUE,
                      keys |-> IF first.made THEN first.keys \cap keys ELSE keys]

Turn(keys) ==
    /\ down' = keys
    /\ IF Quiet THEN States(keys) ELSE UNCHANGED <<queue, lost, first>>

Press ==
    /\ \E i \in OwnInputs \ down :
        LET made == Chorded(down \cup {i}) /\ ~Chorded(down)
        IN  /\ made => due < MaxDue
            /\ due' = IF made THEN due + 1 ELSE due
            /\ Turn(down \cup {i})
    /\ UNCHANGED <<kind, held, connected, job, swh, keep, handedBack, chord, asks, pc, since>>

LetGo ==
    /\ \E i \in down :
        /\ Turn(down \ {i})
        /\ since' = since \ {i}
    /\ UNCHANGED <<kind, held, connected, job, swh, keep, handedBack, chord, asks, pc, due>>

Reports ==
    /\ ~Quiet /\ Len(queue) < QueueCap
    /\ States(down)
    /\ UNCHANGED <<kind, down, held, connected, job, swh, keep, handedBack,
                   chord, asks, pc, due, since>>

Drops ==
    /\ ~Quiet /\ Len(queue) = QueueCap
    /\ States(down)
    /\ UNCHANGED <<kind, down, held, connected, job, swh, keep, handedBack,
                   chord, asks, pc, due, since>>

Partials ==
    /\ kind = "touch" /\ Len(queue) < QueueCap
    /\ Made(PartialReport)
    /\ UNCHANGED <<kind, down, held, connected, job, swh, keep, handedBack,
                   chord, asks, pc, due, since, first>>

\* ctm_input_set_held, as the overlay opens and closes.
SetHeld ==
    /\ held' = ~held
    /\ UNCHANGED <<kind, down, queue, lost, connected, job, swh, keep, handedBack,
                   chord, asks, pc, due, since, first>>

Tick ==
    /\ chord \in 0..(HoldTicks - 1)
    /\ chord' = chord + 1
    /\ UNCHANGED <<kind, down, queue, lost, held, connected, job, swh, keep,
                   handedBack, asks, pc, due, since, first>>

-----------------------------------------------------------------------------
(* The connection. *)

\* A new device arrives on the PC, with nothing down; the grabs are fresh.
\* What the device reported in the meantime is still in the queue.
Connects ==
    /\ ~connected /\ job.at = "idle"
    /\ kind = "keyboard" => due < MaxDue
    /\ connected' = TRUE
    /\ handedBack' = FALSE
    /\ chord' = IF kind = "keyboard" THEN Never ELSE chord
    /\ pc' = {}
    /\ due' = IF kind = "keyboard" THEN due + 1 ELSE due
    /\ UNCHANGED <<kind, down, queue, lost, held, job, swh, keep, asks, since, first>>

\* The report at hand goes on to a send that fails.
LinkDrops ==
    /\ connected
    /\ connected' = FALSE
    /\ UNCHANGED <<kind, down, queue, lost, held, job, swh, keep, handedBack, chord, asks, pc,
                   due, since, first>>

-----------------------------------------------------------------------------
(* What was held as the bridge started. *)

\* The first report says what is held; after it, what is seen at rest is let go.
Note(keys) ==
    [swh EXCEPT !.seen = TRUE,
                !.held = IF swh.seen THEN @ \cap keys ELSE keys]

\* Slip: anything that is down in a report is taken for held, not just in the first.
NoteFollowed(r) == IF swh.armed /\ ~r.partial THEN [swh EXCEPT !.held = r.keys] ELSE swh

\* Slip: a report that lacks the inputs is taken for one that has them at rest.
NoteFollowedOnce(r) == IF swh.armed /\ ~r.partial THEN Note(r.keys) ELSE swh

Applied(s, keys) == keys \ s.held

\* A pad's report is blanked for the app; a keyboard and a mouse have no plan
\* to blank by, and are handed back.
Blanked(on, keys) == IF on /\ ~Shared THEN {} ELSE keys

(* The hand-back of a keyboard or a mouse. *)

\* Slip: the TV gets the keyboard, and the PC keeps what it was shown.
HandBackSilent ==
    /\ handedBack' = (Shared /\ held)
    /\ UNCHANGED pc

HandBack ==
    /\ handedBack' = (Shared /\ held)
    /\ pc' = IF Shared /\ held /\ ~handedBack THEN {} ELSE pc

(* The chord on a pad, and a keyboard's shortcut. *)

\* Slip: the hold is timed again once it has fired.
ChordSeenAgain(r) ==
    CASE ~r.partial /\ "chord" \notin r.keys -> chord' = Never /\ UNCHANGED asks
      [] "chord" \in r.keys /\ chord = Never -> chord' = 0 /\ UNCHANGED asks
      [] "chord" \in r.keys /\ chord = HoldTicks -> chord' = Never /\ asks' = asks + 1
      [] OTHER -> UNCHANGED <<chord, asks>>

\* A partial report says nothing of the chord.
ChordSeen(r) ==
    CASE ~r.partial /\ "chord" \notin r.keys -> chord' = Never /\ UNCHANGED asks
      [] "chord" \in r.keys /\ chord = Never -> chord' = 0 /\ UNCHANGED asks
      [] "chord" \in r.keys /\ chord = HoldTicks -> chord' = Fired /\ asks' = asks + 1
      [] OTHER -> UNCHANGED <<chord, asks>>

\* The letter is told once for as long as its reports go on.
Shortcut(keys) ==
    CASE kind # "keyboard" -> UNCHANGED <<chord, asks>>
      [] kind = "keyboard" /\ ~Chorded(keys) -> chord' = Never /\ UNCHANGED asks
      [] kind = "keyboard" /\ Chorded(keys) ->
            /\ chord' = Fired
            /\ asks' = IF chord = Fired THEN asks ELSE asks + 1

-----------------------------------------------------------------------------
(* The input thread. *)

\* A report is taken; of a device the TV has, it is passed over.  A report
\* with the shortcut is all released from here on.
Takes ==
    /\ connected /\ job.at = "idle" /\ queue # <<>>
    /\ queue' = Tail(queue)
    /\ HandBack
    /\ LET r == Head(queue)
       IN  IF handedBack' THEN UNCHANGED <<job, chord, asks>>
           ELSE /\ Shortcut(r.keys)
                /\ job' = [NoJob EXCEPT !.at = "judge", !.partial = r.partial,
                              !.keys = IF kind = "keyboard" /\ Chorded(r.keys) THEN {}
                                       ELSE r.keys]
    /\ UNCHANGED <<kind, down, lost, held, connected, swh, keep, due, since, first>>

\* Whether the app holds the input is read once; the copy for the PC is made.
Judges ==
    /\ job.at = "judge"
    /\ swh' = NoteFollowedOnce(job)
    /\ keep' = IF kind = "generic" \/ (kind = "xbox" /\ held) THEN job.keys ELSE keep
    /\ job' = [job EXCEPT !.at = "send", !.held = held,
                          !.out = Blanked(held, Applied(swh', job.keys))]
    /\ IF held /\ kind = "touch" THEN ChordSeen(job) ELSE UNCHANGED <<chord, asks>>
    /\ UNCHANGED <<kind, down, queue, lost, held, connected, handedBack, pc, due, since, first>>

\* Sent, and then shown to the type's own reader unless it was held.  A
\* partial report shows the PC's device nothing either.
Sends ==
    /\ job.at = "send" /\ connected
    /\ pc' = IF job.partial THEN pc ELSE job.out
    /\ keep' = IF kind = "xbox" /\ ~job.held THEN job.keys ELSE keep
    /\ job' = NoJob
    /\ IF ~job.held /\ kind = "touch" THEN ChordSeen(job) ELSE UNCHANGED <<chord, asks>>
    /\ UNCHANGED <<kind, down, queue, lost, held, connected, swh, handedBack,
                   due, since, first>>

\* Not sent: the thread ends, and the type's reader is not shown the report.
SendFails ==
    /\ job.at = "send" /\ ~connected
    /\ job' = NoJob
    /\ UNCHANGED <<kind, down, queue, lost, held, connected, swh, keep, handedBack,
                   chord, asks, pc, due, since, first>>

\* Nothing to read: the hand-back, and a pad that goes quiet is sent again as
\* it was last read.
Idles ==
    /\ connected /\ job.at = "idle" /\ queue = <<>>
    /\ HandBack
    /\ UNCHANGED <<kind, down, queue, lost, held, connected, job, swh, keep,
                   chord, asks, due, since, first>>

\* Slip: the pad's last report is sent again as it came.
KeepaliveRaw ==
    /\ connected /\ job.at = "idle" /\ queue = <<>> /\ Kept
    /\ pc' = Blanked(held, keep)
    /\ UNCHANGED <<kind, down, queue, lost, held, connected, job, swh, keep, handedBack,
                   chord, asks, due, since, first>>

Keepalive ==
    /\ connected /\ job.at = "idle" /\ queue = <<>> /\ Kept
    /\ pc' = Blanked(held, Applied(swh, keep))
    /\ UNCHANGED <<kind, down, queue, lost, held, connected, job, swh, keep, handedBack,
                   chord, asks, due, since, first>>

Next ==
    \/ Press \/ LetGo \/ Reports \/ Drops \/ Partials \/ SetHeld \/ Tick
    \/ Connects \/ LinkDrops
    \/ Takes \/ Judges \/ Sends \/ SendFails \/ Idles \/ Keepalive

\* The thread runs, time passes, and a pad that reports all the time gets a
\* report in again and again.
Fairness ==
    /\ WF_vars(Takes) /\ WF_vars(Judges) /\ WF_vars(Sends) /\ WF_vars(SendFails)
    /\ WF_vars(Idles) /\ WF_vars(Keepalive)
    /\ WF_vars(Tick) /\ SF_vars(Reports)

Spec == Init /\ [][Next]_vars /\ Fairness

-----------------------------------------------------------------------------
TypeOK ==
    /\ kind \in Kinds
    /\ down \subseteq OwnInputs /\ pc \subseteq OwnInputs /\ keep \subseteq OwnInputs
    /\ Len(queue) <= QueueCap
    /\ {lost, held, connected, handedBack} \subseteq BOOLEAN
    /\ job.at \in {"idle", "judge", "send"}
    /\ chord \in {Never, Fired} \cup 0..HoldTicks
    /\ asks \in 0..MaxDue /\ due \in 0..MaxDue

\* The rule of switch_hold.inl as it is written: what was held as the bridge
\* started and has not been let go since is never shown on the PC.
SwitchRule == connected => pc \cap since = {}

\* It holds whatever is pressed, held for the app, dropped or reconnected in
\* between, and whichever way a report is sent, itself or by the keepalive
\* (swh_note, swh_apply), but for a keyboard whose shortcut was used: its report
\* is emptied before it is followed.
SwitchHeldStaysHidden == (kind = "keyboard" => asks = 0) => SwitchRule

CaughtUp == connected /\ job.at = "idle" /\ queue = <<>> /\ ~lost /\ ~held /\ ~handedBack

\* Once a device's reports have been read and the overlay is closed, the PC
\* shows nothing that is not down: the keepalive sends what the device last
\* said, and every report the pad sends is kept for it (xbox_on_input_report,
\* pad_keep_update).
LastReportStands == CaughtUp /\ Quiet => pc \subseteq down

\* So it is through holds, hand-backs, reconnects and full queues, but for a
\* Bluetooth Xbox pad, which keeps a report only once it has been sent.
NothingLingers == kind # "xbox" => LastReportStands

\* What a person keeps up settles.  While the overlay stays open on a live
\* connection, the PC's device ends up with nothing down and stays so.  With it
\* closed, only what was down from the first report on is kept from the PC: the
\* hold over a bridge's start ends input by input, and what is then kept down
\* arrives (swh_note, pad_keep_update).  A keyboard and a mouse are left out of
\* this: the hand-back passes over reports that the hold would have followed.
\* And a chord that is held down asks for the release, partial reports in
\* between or not (ds4_on_input_report).
HeldSettles ==
    /\ <>[](held /\ connected) => <>[](pc = {})
    /\ \A keys \in SUBSET Inputs :
          <>[](kind \in {"steady", "generic"} /\ connected /\ ~held /\ down = keys
                 /\ first.made /\ (Quiet => ~lost))
              => <>[](keys \ first.keys \subseteq pc)
    /\ <>[](connected /\ "chord" \in down) => <>[](chord = Fired)

\* Nothing asks twice: a hold of the chord asks once and a press of the shortcut
\* tells once for each connection it is read on.
AsksOncePerHold == asks <= due
=============================================================================
