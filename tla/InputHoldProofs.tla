--------------------------- MODULE InputHoldProofs ---------------------------
(***************************************************************************)
(* Proofs about InputHold for any devices and inputs, any length of the    *)
(* kernel's queue and of a hold: what was held as the bridge started is    *)
(* never shown on the PC before it is let go, nothing that was let go      *)
(* lingers there once the reports are read, and no hold of a chord asks    *)
(* twice.                                                                  *)
(***************************************************************************)
EXTENDS InputHold, SequenceTheorems, TLAPS

Anything == Inputs \cup {"left", "mods", "s", "chord"}
Reps == [partial : BOOLEAN, keys : SUBSET Anything]

Jobs == [at : {"idle", "judge", "send"}, partial : BOOLEAN, keys : SUBSET Anything,
         held : BOOLEAN, out : SUBSET Anything]

Types ==
    /\ down \in SUBSET Anything /\ since \subseteq down
    /\ queue \in Seq(Reps)
    /\ job \in Jobs
    /\ swh \in [armed : BOOLEAN, seen : BOOLEAN, held : SUBSET Anything]
    /\ held \in BOOLEAN
    /\ asks \in Nat

\* A keyboard's shortcut that is being held was told.
ToldInv ==
    kind = "keyboard" => chord \in {Never, Fired} /\ (chord = Fired => asks > 0)

\* What was held and not let go is in every report there is of it.
SinceInv ==
    /\ since # {} => swh.armed
    /\ \A n \in 1..Len(queue) : IF queue[n].partial THEN queue[n].keys = {}
                                ELSE since \subseteq queue[n].keys

\* The report at hand has it, until it is followed; from then on the copy for the PC has
\* not, and the hold has it.
JobInv ==
    /\ IF job.partial THEN job.keys = {} ELSE job.at # "idle" => since \subseteq job.keys
    /\ job.at = "send" /\ ~job.partial => job.out \cap since = {} /\ (since = {} \/ swh.seen)

\* What has been looked at is held, and nothing is kept for the keepalive before that.
HeldInv ==
    /\ swh.seen => since \subseteq swh.held
    /\ ~swh.seen /\ since # {} => keep = {}

Core == SinceInv /\ JobInv /\ HeldInv /\ pc \cap since = {}

\* The part that a keyboard's shortcut ends.
Applies == kind = "keyboard" => asks = 0
IInv == Types /\ ToldInv /\ (Applies => Core)

USE BoundsAssumption
USE DEF Anything

\* A session's thread may have nothing in hand.
LEMMA NoJobIsOne == NoJob \in Jobs
BY DEF NoJob, Jobs

\* Nothing has begun.
LEMMA Initially == Init => IInv
<1> SUFFICES ASSUME Init PROVE IInv
  OBVIOUS
<1>1. down \in SUBSET Anything
  BY DEF Init, OwnInputs
<1>2. Types
  BY <1>1, NoJobIsOne DEF Init, Types, Reps, Quiet
<1>3. ToldInv
  BY DEF Init, ToldInv, Never, Fired
<1>4. SinceInv
  <2>1. since = down /\ queue = <<>>
    BY DEF Init
  <2>2. since # {} => swh.armed
    BY DEF Init
  <2> QED
    BY <2>1, <2>2 DEF SinceInv
<1>5. JobInv /\ HeldInv /\ pc = {}
  BY DEF Init, JobInv, HeldInv, NoJob
<1> QED
  BY <1>2, <1>3, <1>4, <1>5 DEF IInv, Core

-----------------------------------------------------------------------------
\* A report of what is down joins the queue or finds it full.
LEMMA MadeKeeps ==
    ASSUME Types, NEW r \in Reps, Made(r), NEW kept \in SUBSET Anything,
           IF r.partial THEN r.keys = {} ELSE kept \subseteq r.keys
    PROVE  /\ queue' \in Seq(Reps)
           /\ (\A n \in 1..Len(queue) : IF queue[n].partial THEN queue[n].keys = {}
                                         ELSE kept \subseteq queue[n].keys)
              => \A n \in 1..Len(queue') : IF queue'[n].partial THEN queue'[n].keys = {}
                                            ELSE kept \subseteq queue'[n].keys
<1>1. CASE UNCHANGED queue
  BY <1>1 DEF Types
<1>2. CASE queue' = Append(queue, r)
  BY <1>2 DEF Types
<1> QED
  BY <1>1, <1>2 DEF Made

\* The person turns something, and the device may report it.
LEMMA Turns ==
    ASSUME IInv, NEW keys \in SUBSET Anything, Turn(keys), since' \subseteq since,
           since' \subseteq keys,
           UNCHANGED <<kind, held, job, swh, keep, chord, asks, pc>>
    PROVE  IInv'
<1>1. Report(keys) \in Reps /\ ~Report(keys).partial /\ Report(keys).keys = keys
  BY DEF Report, Reps
<1>2. since' \in SUBSET Anything
  OBVIOUS
<1>3. /\ queue' \in Seq(Reps)
      /\ (\A n \in 1..Len(queue) : IF queue[n].partial THEN queue[n].keys = {}
                                    ELSE since' \subseteq queue[n].keys)
         => \A n \in 1..Len(queue') : IF queue'[n].partial THEN queue'[n].keys = {}
                                       ELSE since' \subseteq queue'[n].keys
  <2>1. CASE Quiet
    BY <2>1, <1>1, <1>2, MadeKeeps DEF Turn, States, IInv
  <2>2. CASE ~Quiet
    BY <2>2 DEF Turn, IInv, Types
  <2> QED
    BY <2>1, <2>2
<1>4. Types' /\ ToldInv'
  BY <1>3 DEF IInv, Types, ToldInv, Turn
<1>5. ASSUME Core PROVE Core'
  <2>1. SinceInv'
    BY <1>3, <1>5 DEF Core, SinceInv, Turn
  <2> QED
    BY <1>5, <2>1 DEF Core, JobInv, HeldInv
<1> QED
  BY <1>4, <1>5 DEF IInv, Applies

\* The device reports what is down, or something that is no pad's state.
LEMMA ReportsOnce ==
    ASSUME IInv, Reports \/ Drops \/ Partials
    PROVE  IInv'
<1>1. PICK r \in Reps : /\ Made(r)
                        /\ IF r.partial THEN r.keys = {} ELSE down \subseteq r.keys
  <2>1. CASE Reports \/ Drops
    <3>1. Report(down) \in Reps /\ ~Report(down).partial /\ Report(down).keys = down
      BY DEF Report, Reps, IInv, Types
    <3>2. Made(Report(down))
      BY <2>1 DEF Reports, Drops, States
    <3> QED
      BY <3>1, <3>2
  <2>2. CASE Partials
    <3>1. PartialReport \in Reps /\ PartialReport.partial /\ PartialReport.keys = {}
      BY DEF PartialReport, Reps
    <3>2. Made(PartialReport)
      BY <2>2 DEF Partials
    <3> QED
      BY <3>1, <3>2
  <2> QED
    BY <2>1, <2>2
<1>2. UNCHANGED <<kind, down, held, job, swh, keep, chord, asks, pc, since>>
  BY DEF Reports, Drops, Partials
<1>3. Types' /\ ToldInv'
  BY <1>1, <1>2, MadeKeeps DEF IInv, Types, ToldInv
<1>4. ASSUME Core PROVE Core'
  <2>1. since \in SUBSET Anything /\ IF r.partial THEN r.keys = {} ELSE since \subseteq r.keys
    BY <1>1, <1>4 DEF Core, SinceInv, IInv, Types
  <2>2. SinceInv'
    BY <1>1, <1>2, <1>4, <2>1, MadeKeeps DEF Core, SinceInv, IInv
  <2> QED
    BY <1>2, <1>4, <2>2 DEF Core, JobInv, HeldInv
<1> QED
  BY <1>2, <1>3, <1>4 DEF IInv, Applies

-----------------------------------------------------------------------------
\* The hand-back lets everything go.
LEMMA HandsBack ==
    ASSUME HandBack
    PROVE  pc' = {} \/ pc' = pc
BY DEF HandBack

\* A shortcut is told, and was not told of only where there is none.
LEMMA Tells ==
    ASSUME ToldInv, asks \in Nat, NEW keys, Shortcut(keys), UNCHANGED kind
    PROVE  /\ asks' \in Nat /\ asks' >= asks /\ ToldInv'
           /\ kind = "keyboard" /\ Chorded(keys) => asks' > 0
<1>1. CASE kind # "keyboard"
  <2>1. asks' = asks
    BY <1>1 DEF Shortcut
  <2> QED
    BY <1>1, <2>1 DEF ToldInv
<1>2. CASE kind = "keyboard" /\ ~Chorded(keys)
  <2>1. chord' = Never /\ asks' = asks
    BY <1>2 DEF Shortcut
  <2> QED
    BY <1>2, <2>1 DEF ToldInv, Never, Fired
<1>3. CASE kind = "keyboard" /\ Chorded(keys)
  <2>1. chord' = Fired /\ asks' = IF chord = Fired THEN asks ELSE asks + 1
    BY <1>3 DEF Shortcut
  <2> QED
    BY <1>3, <2>1 DEF ToldInv
<1> QED
  <2>1. kind # "keyboard" \/ (kind = "keyboard" /\ ~Chorded(keys))
          \/ (kind = "keyboard" /\ Chorded(keys))
    OBVIOUS
  <2> QED
    BY <2>1, <1>1, <1>2, <1>3

\* A report is taken: it has what was held, unless it is a keyboard's with its shortcut,
\* which is told of.
LEMMA TakesOne ==
    ASSUME IInv, Takes
    PROVE  IInv'
<1> DEFINE r == Head(queue)
           keys == IF kind = "keyboard" /\ Chorded(r.keys) THEN {} ELSE r.keys
<1>1. r = queue[1] /\ r \in Reps /\ Len(queue) # 0 /\ queue' = Tail(queue)
  BY DEF Takes, IInv, Types
<1>2. /\ queue' \in Seq(Reps) /\ Len(queue') = Len(queue) - 1
      /\ \A n \in 1..Len(queue') : n + 1 \in 1..Len(queue) /\ queue'[n] = queue[n + 1]
  BY <1>1 DEF IInv, Types
<1>3. UNCHANGED <<kind, down, held, swh, keep, since>>
  BY DEF Takes
<1>4. SinceInv => SinceInv'
  <2> SUFFICES ASSUME SinceInv PROVE SinceInv'
    OBVIOUS
  <2>1. \A n \in 1..Len(queue') : IF queue'[n].partial THEN queue'[n].keys = {}
                                    ELSE since \subseteq queue'[n].keys
    BY <1>2 DEF SinceInv
  <2> QED
    BY <1>3, <2>1 DEF SinceInv
<1>5. CASE UNCHANGED <<job, chord, asks>>
  <2>1. Types' /\ ToldInv'
    BY <1>2, <1>3, <1>5 DEF IInv, Types, ToldInv
  <2>2. Core => Core'
    BY <1>3, <1>4, <1>5, HandsBack DEF Core, JobInv, HeldInv, Takes
  <2> QED
    BY <1>3, <1>5, <2>1, <2>2 DEF IInv, Applies
<1>6. CASE /\ Shortcut(r.keys)
           /\ job' = [NoJob EXCEPT !.at = "judge", !.partial = r.partial, !.keys = keys]
  <2>1. job' = [at |-> "judge", partial |-> r.partial, keys |-> keys, held |-> FALSE, out |-> {}]
    BY <1>6 DEF NoJob
  <2>2. asks' \in Nat /\ asks' >= asks /\ ToldInv'
    BY <1>3, <1>6, Tells DEF IInv, Types
  <2>3. Types'
    <3>1. keys \in SUBSET Anything /\ r.partial \in BOOLEAN
      BY <1>1 DEF Reps
    <3> HIDE DEF keys, r
    <3> QED
      BY <1>2, <1>3, <2>1, <2>2, <3>1 DEF IInv, Types, Jobs
  <2>4. ASSUME Applies' PROVE Core'
    <3>1. Core
      BY <1>3, <2>2, <2>4 DEF IInv, Applies, Types
    <3>2. keys = r.keys
      BY <1>3, <1>6, <2>2, <2>4, Tells DEF Applies, IInv, Types
    <3>3. IF r.partial THEN keys = {} ELSE since \subseteq keys
      BY <1>1, <3>1, <3>2 DEF Core, SinceInv
    <3>4. JobInv'
      <4> HIDE DEF keys, r
      <4> QED
        BY <1>3, <2>1, <3>3 DEF JobInv
    <3> QED
      BY <1>3, <1>4, <3>1, <3>4, HandsBack DEF Core, HeldInv, Takes
  <2> QED
    BY <2>2, <2>3, <2>4 DEF IInv
<1> QED
  BY <1>5, <1>6 DEF Takes

\* It is followed, kept and judged: what the hold has is not in the copy for the PC.
LEMMA JudgesOne ==
    ASSUME IInv, Judges
    PROVE  IInv'
<1>1. UNCHANGED <<kind, down, queue, held, pc, since>> /\ job.at = "judge"
  BY DEF Judges
<1>2. /\ swh' = NoteFollowedOnce(job)
      /\ swh' \in [armed : BOOLEAN, seen : BOOLEAN, held : SUBSET Anything]
      /\ swh'.armed = swh.armed
  BY DEF Judges, NoteFollowedOnce, Note, IInv, Types, Jobs
<1>3. /\ job'.at = "send" /\ job'.partial = job.partial /\ job'.keys = job.keys
      /\ job'.out \subseteq job.keys \ swh'.held
      /\ job' \in Jobs
  <2>1. job' = [job EXCEPT !.at = "send", !.held = held,
                          !.out = Blanked(held, Applied(swh', job.keys))]
    BY DEF Judges
  <2>2. Blanked(held, Applied(swh', job.keys)) \subseteq job.keys \ swh'.held
    BY DEF Blanked, Applied
  <2>3. held \in BOOLEAN /\ job.keys \in SUBSET Anything
    BY DEF IInv, Types, Jobs
  <2> QED
    BY <2>1, <2>2, <2>3 DEF IInv, Types, Jobs
<1>4. asks' \in Nat /\ asks' >= asks /\ ToldInv'
  BY <1>1 DEF Judges, ChordSeen, IInv, ToldInv, Types, Never, Fired
<1>5. Types'
  BY <1>1, <1>2, <1>3, <1>4 DEF IInv, Types
<1>6. ASSUME Applies' PROVE Core'
  <2>1. Core
    BY <1>1, <1>4, <1>6 DEF IInv, Applies, Types
  <2>2. SinceInv'
    BY <1>1, <1>2, <2>1 DEF Core, SinceInv
  <2>3. ~job.partial => since = {} \/ (swh'.seen /\ since \subseteq swh'.held)
    BY <1>1, <1>2, <2>1 DEF Core, SinceInv, JobInv, HeldInv, NoteFollowedOnce, Note, IInv, Types
  <2>4. JobInv'
    BY <1>1, <1>3, <2>1, <2>3 DEF Core, JobInv
  <2>5. HeldInv'
    <3>1. CASE job.partial
      BY <1>1, <1>2, <2>1, <3>1 DEF Core, JobInv, HeldInv, NoteFollowedOnce, Judges
    <3>2. CASE ~job.partial
      BY <1>1, <2>3, <3>2 DEF HeldInv
    <3> QED
      BY <3>1, <3>2
  <2> QED
    BY <1>1, <2>1, <2>2, <2>4, <2>5 DEF Core
<1> QED
  BY <1>4, <1>5, <1>6 DEF IInv

\* It is sent, and kept where the type's own reader keeps it.
LEMMA SendsOne ==
    ASSUME IInv, Sends
    PROVE  IInv'
<1>1. UNCHANGED <<kind, down, queue, held, swh, since>> /\ job.at = "send"
      /\ job' = NoJob /\ (keep' = keep \/ keep' = job.keys)
      /\ pc' = IF job.partial THEN pc ELSE job.out
  BY DEF Sends
<1>2. asks' \in Nat /\ asks' >= asks /\ ToldInv'
  BY <1>1 DEF Sends, ChordSeen, IInv, ToldInv, Types, Never, Fired
<1>3. Types'
  BY <1>1, <1>2, NoJobIsOne DEF IInv, Types
<1>4. ASSUME Applies' PROVE Core'
  <2>1. Core
    BY <1>1, <1>2, <1>4 DEF IInv, Applies, Types
  <2>2. SinceInv' /\ JobInv'
    BY <1>1, <2>1 DEF Core, SinceInv, JobInv, NoJob
  <2>3. HeldInv'
    BY <1>1, <2>1 DEF Core, JobInv, HeldInv
  <2>4. pc' \cap since' = {}
    BY <1>1, <2>1 DEF Core, JobInv
  <2> QED
    BY <2>2, <2>3, <2>4 DEF Core
<1> QED
  BY <1>2, <1>3, <1>4 DEF IInv

\* Every other step shows the PC nothing, or what the hold leaves of what is kept.
LEMMA OtherSteps ==
    ASSUME IInv, \/ SetHeld \/ Tick \/ Connects \/ LinkDrops
                 \/ SendFails \/ Idles \/ Keepalive \/ UNCHANGED vars
    PROVE  IInv'
<1>1. UNCHANGED <<kind, down, queue, swh, keep, asks, since>>
  BY DEF SetHeld, Tick, Connects, LinkDrops, SendFails, Idles, Keepalive, vars
<1>2. job' = job \/ job' = NoJob
  BY DEF SetHeld, Tick, Connects, LinkDrops, SendFails, Idles, Keepalive, vars
<1>3. held' \in BOOLEAN
  BY DEF SetHeld, Tick, Connects, LinkDrops, SendFails, Idles, Keepalive, vars, IInv, Types
<1>4. Types'
  <2>1. job' \in Jobs
    BY <1>2, NoJobIsOne DEF IInv, Types
  <2> QED
    BY <1>1, <1>3, <2>1 DEF IInv, Types
<1>5. ToldInv'
  <2>1. CASE Tick
    <3>1. kind # "keyboard"
      BY <2>1 DEF Tick, IInv, ToldInv, Never, Fired
    <3> QED
      BY <1>1, <3>1 DEF ToldInv
  <2>2. CASE Connects
    BY <1>1, <2>2 DEF Connects, IInv, ToldInv, Never, Fired
  <2>3. CASE UNCHANGED chord
    BY <1>1, <2>3 DEF IInv, ToldInv
  <2> QED
    BY <2>1, <2>2, <2>3 DEF SetHeld, LinkDrops, SendFails, Idles, Keepalive, vars
<1>6. ASSUME Core PROVE Core'
  <2>1. SinceInv' /\ HeldInv'
    BY <1>1, <1>6 DEF Core, SinceInv, HeldInv
  <2>2. JobInv'
    BY <1>1, <1>2, <1>6 DEF Core, JobInv, NoJob
  <2>3. pc' \cap since' = {}
    <3>1. CASE Keepalive
      <4>1. pc' \subseteq keep \ swh.held
        BY <3>1 DEF Keepalive, Blanked, Applied
      <4> QED
        BY <1>1, <1>6, <4>1 DEF Core, HeldInv, IInv, Types
    <3>2. CASE pc' = {} \/ pc' = pc
      BY <1>1, <1>6, <3>2 DEF Core
    <3> QED
      BY <3>1, <3>2, HandsBack DEF SetHeld, Tick, Connects, LinkDrops, SendFails, Idles, vars
  <2> QED
    BY <2>1, <2>2, <2>3 DEF Core
<1> QED
  BY <1>1, <1>4, <1>5, <1>6 DEF IInv, Applies

\* Every step keeps the hold.
LEMMA NextInv == IInv /\ [Next]_vars => IInv'
<1> SUFFICES ASSUME IInv, [Next]_vars PROVE IInv'
  OBVIOUS
<1>1. CASE Press
  <2>1. PICK i \in OwnInputs \ down : Turn(down \cup {i})
    BY <1>1 DEF Press
  <2>2. down \cup {i} \in SUBSET Anything
    BY <2>1 DEF OwnInputs, IInv, Types
  <2>3. UNCHANGED <<kind, held, job, swh, keep, chord, asks, pc, since>>
    BY <1>1 DEF Press
  <2>4. since \subseteq down \cup {i}
    BY <2>3 DEF IInv, Types
  <2> QED
    BY <2>1, <2>2, <2>3, <2>4, Turns
<1>2. CASE LetGo
  BY <1>2, Turns DEF LetGo, IInv, Types
<1> QED
  BY <1>1, <1>2, ReportsOnce, TakesOne, JudgesOne, SendsOne, OtherSteps DEF Next

\* The inductive invariant.
THEOREM Invariance == Spec => []IInv
BY Initially, NextInv, PTL DEF Spec

\* "What was held as the bridge started is sent as released until it is let go"
\* (switch_hold.inl), for every device, whatever the app holds, the link drops or the
\* keepalive sends again; a keyboard's shortcut is where it ends.
THEOREM HeldStaysHidden == Spec => []SwitchHeldStaysHidden
<1>1. IInv => SwitchHeldStaysHidden
  BY DEF IInv, Applies, Core, SwitchHeldStaysHidden, SwitchRule
<1> QED
  BY <1>1, Invariance, PTL

-----------------------------------------------------------------------------
(***************************************************************************)
(* What the reports are of.                                                *)
(***************************************************************************)
\* A report names what its device has, and only a DualShock 4's may be short.
OwnReps == {r \in Reps : r.keys \subseteq OwnInputs /\ (r.partial => kind = "touch" /\ r.keys = {})}

OwnInv ==
    /\ down \subseteq OwnInputs
    /\ queue \in Seq(OwnReps)
    /\ [partial |-> job.partial, keys |-> job.keys] \in OwnReps
    /\ due \in Nat
    /\ chord \in {Never, Fired} \cup 0..HoldTicks

\* How the queue moves.
Queued(r) == queue' = Append(queue, r) /\ ~lost'
Passed == queue # <<>> /\ queue' = Tail(queue) /\ lost' = lost

\* The device stays what it is.
LEMMA KindStays == ASSUME [Next]_vars PROVE kind' = kind /\ OwnInputs' = OwnInputs /\ OwnReps' = OwnReps
<1>1. kind' = kind
  BY DEF Next, vars, Press, LetGo, Reports, Drops, Partials, SetHeld, Tick, Connects, LinkDrops,
         Takes, Judges, Sends, SendFails, Idles, Keepalive
<1> QED
  BY <1>1 DEF OwnInputs, OwnReps

\* What a person turns is reported as it then is, or lost; a device that reports all the
\* time reports it later.
LEMMA TurnReports ==
    ASSUME NEW keys, Turn(keys)
    PROVE  /\ down' = keys
           /\ \/ Quiet /\ (Queued(Report(keys)) \/ (lost' /\ UNCHANGED queue))
              \/ ~Quiet /\ UNCHANGED <<queue, lost>>
BY DEF Turn, States, Made, Queued

\* The device reports what is then down, or nothing that counts, or nothing.
LEMMA DeviceReports ==
    ASSUME OwnInv, Press \/ LetGo \/ Reports \/ Drops \/ Partials
    PROVE  /\ down' \subseteq OwnInputs
           /\ \/ \E r \in OwnReps : Queued(r) /\ (r.partial \/ r.keys = down')
              \/ lost' /\ UNCHANGED queue
              \/ UNCHANGED <<queue, lost>> /\ (Quiet => UNCHANGED down)
<1>1. ASSUME NEW keys \in SUBSET OwnInputs
      PROVE  Report(keys) \in OwnReps /\ Report(keys).keys = keys
  <2>1. keys \in SUBSET Anything
    BY DEF OwnInputs
  <2> QED
    BY <2>1 DEF Report, OwnReps, Reps
<1>2. CASE Press
  <2>1. PICK i \in OwnInputs \ down : Turn(down \cup {i})
    BY <1>2 DEF Press
  <2>2. down \cup {i} \in SUBSET OwnInputs
    BY DEF OwnInv
  <2> QED
    BY <1>1, <2>1, <2>2, TurnReports
<1>3. CASE LetGo
  <2>1. PICK i \in down : Turn(down \ {i})
    BY <1>3 DEF LetGo
  <2>2. down \ {i} \in SUBSET OwnInputs
    BY DEF OwnInv
  <2> QED
    BY <1>1, <2>1, <2>2, TurnReports
<1>4. CASE Reports \/ Drops
  <2>1. /\ down \in SUBSET OwnInputs /\ down' = down
        /\ Queued(Report(down)) \/ (lost' /\ UNCHANGED queue)
    BY <1>4 DEF Reports, Drops, States, Made, OwnInv, Queued
  <2> QED
    BY <1>1, <2>1
<1>5. CASE Partials
  <2>1. PartialReport \in OwnReps /\ PartialReport.partial
    BY <1>5 DEF Partials, PartialReport, OwnReps, Reps
  <2>2. down' = down /\ (Queued(PartialReport) \/ (lost' /\ UNCHANGED queue))
    BY <1>5 DEF Partials, Made, Queued
  <2> QED
    BY <2>1, <2>2 DEF OwnInv
<1> QED
  BY <1>2, <1>3, <1>4, <1>5

\* A step reports, or it takes a report, or neither.
LEMMA QueueSteps ==
    ASSUME OwnInv, [Next]_vars
    PROVE  /\ down' \subseteq OwnInputs
           /\ \/ \E r \in OwnReps : Queued(r) /\ (r.partial \/ r.keys = down')
              \/ lost' /\ UNCHANGED queue
              \/ Passed /\ UNCHANGED down
              \/ UNCHANGED <<queue, lost>> /\ (Quiet => UNCHANGED down)
<1>1. CASE Takes
  BY <1>1 DEF Takes, OwnInv, Passed
<1>2. CASE \/ SetHeld \/ Tick \/ Connects \/ LinkDrops
           \/ Judges \/ Sends \/ SendFails \/ Idles \/ Keepalive \/ UNCHANGED vars
  BY <1>2 DEF SetHeld, Tick, Connects, LinkDrops, Judges, Sends, SendFails, Idles, Keepalive,
              vars, OwnInv
<1> QED
  BY <1>1, <1>2, DeviceReports DEF Next

\* What the thread has in hand came from the queue.
LEMMA JobIsOwn ==
    ASSUME IInv, OwnInv, [Next]_vars
    PROVE  [partial |-> job'.partial, keys |-> job'.keys] \in OwnReps
<1>1. CASE Takes
  <2>1. Head(queue) \in OwnReps /\ queue # <<>>
    BY <1>1 DEF Takes, OwnInv
  <2>2. \/ job' = job
        \/ /\ job'.partial = Head(queue).partial
           /\ job'.keys \in {Head(queue).keys, {}}
    BY <1>1 DEF Takes, NoJob
  <2>3. CASE job' = job
    BY <2>3 DEF OwnInv
  <2>4. ASSUME job'.partial = Head(queue).partial, job'.keys \in {Head(queue).keys, {}}
        PROVE  [partial |-> job'.partial, keys |-> job'.keys] \in OwnReps
    BY <2>1, <2>4 DEF OwnReps, Reps
  <2> QED
    BY <2>2, <2>3, <2>4
<1>2. CASE Judges
  <2>1. job'.partial = job.partial /\ job'.keys = job.keys
    BY <1>2 DEF Judges, IInv, Types, Jobs
  <2> QED
    BY <2>1 DEF OwnInv
<1>3. CASE ~Takes /\ ~Judges
  <2>1. job' = job \/ job' = NoJob
    BY <1>3 DEF Next, vars, Press, LetGo, Reports, Drops, Partials, SetHeld, Tick, Connects,
                LinkDrops, Sends, SendFails, Idles, Keepalive
  <2>2. [partial |-> NoJob.partial, keys |-> NoJob.keys] \in OwnReps
    BY DEF OwnReps, Reps, NoJob
  <2> QED
    BY <2>1, <2>2 DEF OwnInv
<1> QED
  BY <1>1, <1>2, <1>3

\* A chord is timed up to its hold, and no further.
LEMMA ChordIsTimed ==
    ASSUME IInv, OwnInv, [Next]_vars
    PROVE  chord' \in {Never, Fired} \cup 0..HoldTicks /\ due' \in Nat
<1>1. chord' \in {Never, Fired} \cup 0..HoldTicks
  <2>1. CASE Takes
    BY <2>1 DEF Takes, Shortcut, OwnInv
  <2>2. CASE Judges \/ Sends
    BY <2>2 DEF Judges, Sends, ChordSeen, OwnInv
  <2>3. CASE Tick
    BY <2>3 DEF Tick, OwnInv
  <2>4. CASE ~Takes /\ ~Judges /\ ~Sends /\ ~Tick
    BY <2>4 DEF Next, vars, Press, LetGo, Reports, Drops, Partials, SetHeld, Connects,
                LinkDrops, SendFails, Idles, Keepalive, OwnInv
  <2> QED
    BY <2>1, <2>2, <2>3, <2>4
<1>2. due' \in {due, due + 1}
  BY DEF Next, vars, Press, LetGo, Reports, Drops, Partials, SetHeld, Tick, Connects, LinkDrops,
         Takes, Judges, Sends, SendFails, Idles, Keepalive
<1> QED
  BY <1>1, <1>2 DEF OwnInv

\* Every step's reports are the device's.
LEMMA OwnStep == IInv /\ OwnInv /\ [Next]_vars => OwnInv'
<1> SUFFICES ASSUME IInv, OwnInv, [Next]_vars PROVE OwnInv'
  OBVIOUS
<1>1. queue' \in Seq(OwnReps)
  <2>1. \/ \E r \in OwnReps : queue' = Append(queue, r)
        \/ queue' = queue
        \/ queue # <<>> /\ queue' = Tail(queue)
    BY QueueSteps DEF Queued, Passed
  <2>2. queue \in Seq(OwnReps)
    BY DEF OwnInv
  <2>3. ASSUME NEW r \in OwnReps PROVE Append(queue, r) \in Seq(OwnReps)
    BY <2>2, AppendProperties
  <2>4. queue # <<>> => Tail(queue) \in Seq(OwnReps)
    BY <2>2, HeadTailProperties
  <2> QED
    BY <2>1, <2>2, <2>3, <2>4
<1> QED
  BY <1>1, QueueSteps, KindStays, JobIsOwn, ChordIsTimed DEF OwnInv

\* Nothing has been reported.
LEMMA OwnInitially == Init => OwnInv
<1> SUFFICES ASSUME Init PROVE OwnInv
  OBVIOUS
<1>1. [partial |-> job.partial, keys |-> job.keys] \in OwnReps
  BY DEF Init, NoJob, OwnReps, Reps
<1> QED
  BY <1>1 DEF Init, OwnInv, Never

-----------------------------------------------------------------------------
(***************************************************************************)
(* Nothing lingers.                                                        *)
(***************************************************************************)
\* Of a device that reports a change, the newest report there is says what is down, unless
\* it was lost: it is the last in the queue, or in hand, or what the PC was shown and what is
\* kept for the keepalive.  What the TV has, the PC has nothing of.
LingerInv ==
    /\ handedBack => Shared /\ pc = {} /\ job.at = "idle"
    /\ job.at = "send" => job.out \subseteq job.keys /\ (kind = "generic" => keep = job.keys)
    /\ Quiet /\ kind # "xbox" /\ ~lost =>
          /\ queue # <<>> => queue[Len(queue)].keys = down
          /\ queue = <<>> /\ job.at # "idle" => job.keys \subseteq down
          /\ queue = <<>> /\ job.at = "idle" => /\ kind = "generic" => keep \subseteq down
                                                /\ connected => pc \subseteq down

\* A report of the device's is the newest.
LEMMA DeviceLingers ==
    ASSUME OwnInv, LingerInv, Press \/ LetGo \/ Reports \/ Drops \/ Partials
    PROVE  LingerInv'
<1>1. UNCHANGED <<kind, handedBack, pc, job, keep, connected>>
  BY DEF Press, LetGo, Reports, Drops, Partials
<1>2. ASSUME NEW r \in OwnReps, Queued(r), r.partial \/ r.keys = down' PROVE LingerInv'
  <2>1. Quiet => r.keys = down'
    BY <1>2 DEF OwnReps, Quiet
  <2>2. queue' # <<>> /\ queue'[Len(queue')] = r
    <3>1. queue \in Seq(OwnReps)
      BY DEF OwnInv
    <3> QED
      BY <1>2, <3>1, AppendProperties DEF Queued
  <2> QED
    BY <1>1, <2>1, <2>2 DEF LingerInv, Quiet, Shared
<1>3. CASE lost' /\ UNCHANGED queue
  BY <1>1, <1>3 DEF LingerInv, Shared
<1>4. CASE UNCHANGED <<queue, lost>> /\ (Quiet => UNCHANGED down)
  BY <1>1, <1>4 DEF LingerInv, Shared, Quiet
<1> QED
  BY <1>2, <1>3, <1>4, DeviceReports

\* A hand-back leaves the PC with nothing.
LEMMA HandsAllBack ==
    ASSUME LingerInv, HandBack
    PROVE  /\ handedBack' => Shared /\ pc' = {}
           /\ pc' \subseteq pc
BY DEF LingerInv, HandBack

\* The newest report is taken last.
LEMMA TakesLingers == ASSUME OwnInv, LingerInv, Takes PROVE LingerInv'
<1>1. /\ UNCHANGED <<kind, down, lost, keep, connected>>
      /\ job.at = "idle" /\ queue # <<>> /\ queue' = Tail(queue) /\ HandBack
  BY DEF Takes
<1>2. /\ queue' = <<>> => Head(queue) = queue[Len(queue)]
      /\ queue' # <<>> => queue'[Len(queue')] = queue[Len(queue)]
  <2>1. queue \in Seq(OwnReps)
    BY DEF OwnInv
  <2>2. /\ queue' \in Seq(OwnReps) /\ Len(queue') = Len(queue) - 1
        /\ \A n \in 1..Len(queue') : queue'[n] = queue[n + 1]
    BY <1>1, <2>1, HeadTailProperties
  <2>3. Len(queue) \in Nat \ {0} /\ Head(queue) = queue[1]
    BY <1>1, <2>1
  <2>4. queue' = <<>> <=> Len(queue') = 0
    BY <2>2, EmptySeq
  <2> QED
    BY <2>2, <2>3, <2>4
<1>3. CASE handedBack'
  <2>1. pc' = {} /\ Shared /\ job' = job
    BY <1>1, <1>3, HandsAllBack DEF Takes
  <2>2. kind # "generic" /\ job'.at = "idle"
    BY <1>1, <2>1 DEF Shared
  <2>3. Quiet /\ kind # "xbox" /\ ~lost => queue[Len(queue)].keys = down
    BY <1>1 DEF LingerInv
  <2> QED
    BY <1>1, <1>2, <2>1, <2>2, <2>3 DEF LingerInv, Shared, Quiet
<1>4. CASE ~handedBack'
  <2>1. job'.at = "judge" /\ job'.keys \subseteq Head(queue).keys
    BY <1>4 DEF Takes, NoJob
  <2> QED
    BY <1>1, <1>2, <1>4, <2>1 DEF LingerInv, Quiet
<1> QED
  BY <1>3, <1>4

\* What the thread has read it shows, and keeps.
LEMMA ThreadLingers ==
    ASSUME IInv, OwnInv, LingerInv, Judges \/ Sends \/ SendFails \/ Idles \/ Keepalive
    PROVE  LingerInv'
<1>1. UNCHANGED <<kind, down, queue, lost, connected>>
  BY DEF Judges, Sends, SendFails, Idles, Keepalive
<1>2. CASE Judges
  <2>1. /\ UNCHANGED <<handedBack, pc>> /\ job.at = "judge" /\ job'.at = "send"
        /\ job'.keys = job.keys /\ job'.out \subseteq job.keys
        /\ kind = "generic" => keep' = job.keys
    BY <1>2 DEF Judges, Blanked, Applied, IInv, Types, Jobs
  <2> QED
    BY <1>1, <2>1 DEF LingerInv, Quiet
<1>3. CASE Sends
  <2>1. /\ UNCHANGED handedBack /\ job.at = "send" /\ job'.at = "idle"
        /\ kind = "generic" => keep' = keep
        /\ Quiet => pc' = job.out
    BY <1>3 DEF Sends, NoJob, OwnInv, OwnReps, Quiet
  <2> QED
    BY <1>1, <2>1 DEF LingerInv, Quiet
<1>4. CASE SendFails
  <2>1. UNCHANGED <<handedBack, pc, keep>> /\ job.at = "send" /\ job'.at = "idle" /\ ~connected
    BY <1>4 DEF SendFails, NoJob
  <2> QED
    BY <1>1, <2>1 DEF LingerInv, Quiet
<1>5. CASE Idles
  <2>1. UNCHANGED <<job, keep>> /\ job.at = "idle" /\ HandBack
    BY <1>5 DEF Idles
  <2> QED
    BY <1>1, <2>1, HandsAllBack DEF LingerInv, Quiet, Shared
<1>6. CASE Keepalive
  <2>1. UNCHANGED <<job, keep, handedBack>> /\ job.at = "idle" /\ queue = <<>>
        /\ Kept /\ pc' \subseteq keep
    BY <1>6 DEF Keepalive, Blanked, Applied
  <2> QED
    BY <1>1, <2>1 DEF LingerInv, Quiet, Kept, Shared
<1> QED
  BY <1>2, <1>3, <1>4, <1>5, <1>6

\* Wherever the newest report is, it stays good.
LEMMA LingerStep == IInv /\ OwnInv /\ LingerInv /\ [Next]_vars => LingerInv'
<1> SUFFICES ASSUME IInv, OwnInv, LingerInv, [Next]_vars PROVE LingerInv'
  OBVIOUS
<1>1. CASE SetHeld \/ Tick \/ LinkDrops \/ UNCHANGED vars
  <2>1. /\ UNCHANGED <<kind, down, queue, lost, job, keep, handedBack, pc>>
        /\ connected' => connected
    BY <1>1 DEF SetHeld, Tick, LinkDrops, vars
  <2> QED
    BY <2>1 DEF LingerInv, Quiet, Shared
<1>2. CASE Connects
  <2>1. UNCHANGED <<kind, down, queue, lost, job, keep>> /\ ~handedBack' /\ pc' = {}
    BY <1>2 DEF Connects
  <2> QED
    BY <2>1 DEF LingerInv, Quiet
<1> QED
  BY <1>1, <1>2, DeviceLingers, TakesLingers, ThreadLingers DEF Next

\* Once its reports have been read the PC shows nothing of a device that is not down on it
\* (handback_sync_hold, pad_keep_update): through holds, hand-backs, reconnects and
\* full queues, of every device that reports only a change but a Bluetooth Xbox pad.
THEOREM NoneLinger == Spec => []NothingLingers
<1>1. Init => LingerInv
  BY DEF Init, LingerInv, NoJob
<1>2. LingerInv => NothingLingers
  BY DEF LingerInv, NothingLingers, LastReportStands, CaughtUp
<1> QED
  BY <1>1, <1>2, OwnInitially, OwnStep, LingerStep, Invariance, NextInv, PTL DEF Spec

-----------------------------------------------------------------------------
(***************************************************************************)
(* No hold asks twice.  The reports that have not been looked at are given *)
(* dates: how many chords had been made when each came.  Place 0 is the    *)
(* report a DualShock 4's thread has in hand, the others are the queue's.  *)
(***************************************************************************)
Places == 0..Len(queue)
Unseen(n) ==
    n > 0 \/ (kind = "touch" /\ (job.at = "judge" \/ (job.at = "send" /\ ~job.held)))
KeysAt(n) == IF n = 0 THEN job.keys ELSE queue[n].keys
PartialAt(n) == IF n = 0 THEN job.partial ELSE queue[n].partial

\* A report that has the chord, and one that says it is let go.
Has(n) == Unseen(n) /\ Chorded(KeysAt(n))
Lacks(n) == Unseen(n) /\ ~PartialAt(n) /\ ~Chorded(KeysAt(n))

\* c is the date of the report looked at last, d(n) that of the report at n.
InOrder(c, d) ==
    /\ asks <= c /\ c <= due
    /\ \A n \in Places : Unseen(n) => c <= d[n] /\ d[n] <= due
    /\ \A m, n \in Places : m < n /\ Unseen(m) => d[m] <= d[n]

\* Between two of a chord's reports with one of its release there is a new chord.
Told(c, d) ==
    /\ \A m, n \in Places : m < n /\ Lacks(m) /\ Has(n) => d[m] < d[n]
    /\ Chorded(down) => \A n \in Places : Lacks(n) => d[n] < due

\* What is being timed, and what is seen next, has not asked yet.
Owed(c, d) ==
    /\ chord \in 0..HoldTicks => asks < c
    /\ chord = Never => /\ \A n \in Places : Has(n) => c < d[n]
                        /\ Chorded(down) => c < due

Dated(c, d) == InOrder(c, d) /\ Told(c, d) /\ Owed(c, d)

AskInv ==
    IF kind \in {"touch", "keyboard"}
    THEN \E c \in Nat : \E d \in [Places -> Nat] : Dated(c, d)
    ELSE asks = 0

\* The places are numbers.
LEMMA PlacesAre ==
    ASSUME OwnInv
    PROVE  /\ Len(queue) \in Nat /\ 0 \in Places
           /\ \A n \in Places : n \in Nat
           /\ \A n \in 1..Len(queue) : n \in Places
<1>1. queue \in Seq(OwnReps)
  BY DEF OwnInv
<1> QED
  BY <1>1, LenProperties DEF Places

\* A report that joins the queue has the date of its coming; a chord made is a new date.
LEMMA DatesJoin ==
    ASSUME OwnInv, OwnInv', NEW c \in Nat, NEW d \in [Places -> Nat], Dated(c, d),
           UNCHANGED <<kind, job, chord, asks>>,
           due' = due \/ due' = due + 1,
           Chorded(down') => Chorded(down) \/ due' = due + 1,
           \/ UNCHANGED queue
           \/ \E r \in OwnReps : queue' = Append(queue, r) /\ (r.partial \/ r.keys = down')
    PROVE  \E e \in [Places' -> Nat] : Dated(c, e)'
<1>1. due \in Nat /\ due' \in Nat /\ asks' = asks
  BY DEF OwnInv
<1>2. PICK e \in [Places' -> Nat] : \A n \in Places' : e[n] = IF n \in Places THEN d[n] ELSE due'
  <2>1. [n \in Places' |-> IF n \in Places THEN d[n] ELSE due'] \in [Places' -> Nat]
    BY <1>1
  <2> QED
    BY <2>1
<1>3. \A n \in Places : /\ n \in Places' /\ e[n] = d[n] /\ (Unseen(n)' <=> Unseen(n))
                        /\ KeysAt(n)' = KeysAt(n) /\ PartialAt(n)' = PartialAt(n)
  <2>1. queue \in Seq(OwnReps) /\ Len(queue) \in Nat
    BY PlacesAre DEF OwnInv
  <2>2. CASE UNCHANGED queue
    BY <2>2 DEF Places, Unseen, KeysAt, PartialAt
  <2>3. ASSUME NEW r \in OwnReps, queue' = Append(queue, r)
        PROVE  /\ Len(queue') = Len(queue) + 1
               /\ \A n \in 1..Len(queue) : queue'[n] = queue[n]
    BY <2>1, <2>3, AppendProperties
  <2>4. ASSUME NEW r \in OwnReps, queue' = Append(queue, r), NEW n \in Places
        PROVE  /\ n \in Places' /\ (Unseen(n)' <=> Unseen(n))
               /\ KeysAt(n)' = KeysAt(n) /\ PartialAt(n)' = PartialAt(n)
    BY <2>1, <2>3, <2>4 DEF Places, Unseen, KeysAt, PartialAt
  <2>5. \A n \in Places : /\ n \in Places' /\ (Unseen(n)' <=> Unseen(n))
                          /\ KeysAt(n)' = KeysAt(n) /\ PartialAt(n)' = PartialAt(n)
    BY <2>2, <2>4
  <2> QED
    BY <1>2, <2>5
<1>4. \A n \in Places' : n \notin Places =>
         /\ e[n] = due' /\ (PartialAt(n)' => KeysAt(n)' = {})
         /\ PartialAt(n)' \/ KeysAt(n)' = down'
         /\ \A m \in Places' : m # n => m < n /\ m \in Places
  <2>1. queue \in Seq(OwnReps) /\ Len(queue) \in Nat
    BY PlacesAre DEF OwnInv
  <2>2. ASSUME NEW r \in OwnReps, queue' = Append(queue, r), r.partial \/ r.keys = down',
               NEW n \in Places', n \notin Places
        PROVE  /\ n = Len(queue) + 1 /\ queue'[n] = r /\ (r.partial => r.keys = {})
               /\ \A m \in Places' : m # n => m < n /\ m \in Places
    <3>1. Len(queue') = Len(queue) + 1 /\ queue'[Len(queue) + 1] = r
      BY <2>1, <2>2, AppendProperties
    <3> QED
      BY <2>1, <2>2, <3>1 DEF Places, OwnReps
  <2>3. CASE UNCHANGED queue
    BY <2>3 DEF Places
  <2>4. ASSUME NEW r \in OwnReps, queue' = Append(queue, r), r.partial \/ r.keys = down',
               NEW n \in Places', n \notin Places
        PROVE  /\ PartialAt(n)' => KeysAt(n)' = {}
               /\ PartialAt(n)' \/ KeysAt(n)' = down'
    BY <2>1, <2>2, <2>4 DEF KeysAt, PartialAt
  <2>5. \A n \in Places' : n \notin Places => e[n] = due'
    BY <1>2
  <2> QED
    BY <2>2, <2>3, <2>4, <2>5
<1>5. ~Chorded({})
  BY DEF Chorded
<1>6. \A n \in Places' : n \notin Places => (Has(n)' => Chorded(down')) /\ (Lacks(n)' => ~Chorded(down'))
  BY <1>4, <1>5 DEF Has, Lacks
<1>7. \A n \in Places : (Has(n)' <=> Has(n)) /\ (Lacks(n)' <=> Lacks(n))
  BY <1>3 DEF Has, Lacks
<1>8. \A n \in Places : d[n] \in Nat
  OBVIOUS
<1>9. InOrder(c, e)'
  <2>1. \A n \in Places' : Unseen(n)' => c <= e[n] /\ e[n] <= due'
    BY <1>1, <1>3, <1>4, <1>8 DEF Dated, InOrder
  <2>2. \A m, n \in Places' : m < n /\ Unseen(m)' => e[m] <= e[n]
    <3> SUFFICES ASSUME NEW m \in Places', NEW n \in Places', m < n, Unseen(m)'
                 PROVE  e[m] <= e[n]
      OBVIOUS
    <3>1. m \in Nat /\ n \in Nat
      BY DEF Places
    <3>2. m \in Places
      BY <1>4, <3>1
    <3>3. CASE n \in Places
      BY <1>3, <3>2, <3>3 DEF Dated, InOrder
    <3>4. CASE n \notin Places
      BY <1>1, <1>3, <1>4, <1>8, <3>2, <3>4 DEF Dated, InOrder
    <3> QED
      BY <3>3, <3>4
  <2>3. asks' <= c /\ c <= due'
    BY <1>1 DEF Dated, InOrder
  <2> QED
    BY <2>1, <2>2, <2>3 DEF InOrder
<1>10. \A n \in Places : Lacks(n) /\ Chorded(down') => d[n] < due'
  BY <1>1, <1>8 DEF Dated, Told, InOrder, Lacks
<1>11. Told(c, e)'
  <2>1. \A m, n \in Places' : m < n /\ Lacks(m)' /\ Has(n)' => e[m] < e[n]
    <3> SUFFICES ASSUME NEW m \in Places', NEW n \in Places', m < n, Lacks(m)', Has(n)'
                 PROVE  e[m] < e[n]
      OBVIOUS
    <3>1. m \in Nat /\ n \in Nat
      BY DEF Places
    <3>2. m \in Places
      BY <1>4, <3>1
    <3>3. CASE n \in Places
      BY <1>3, <1>7, <3>2, <3>3 DEF Dated, Told
    <3>4. CASE n \notin Places
      BY <1>3, <1>4, <1>6, <1>7, <1>10, <3>2, <3>4
    <3> QED
      BY <3>3, <3>4
  <2>2. Chorded(down') => \A n \in Places' : Lacks(n)' => e[n] < due'
    BY <1>3, <1>6, <1>7, <1>10
  <2>3. Chorded(down)' <=> Chorded(down')
    BY DEF Chorded
  <2> QED
    BY <2>1, <2>2, <2>3 DEF Told
<1>12. Owed(c, e)'
  <2>1. chord = Never /\ Chorded(down') => c < due'
    BY <1>1 DEF Dated, Owed, InOrder
  <2>2. chord = Never => \A n \in Places' : Has(n)' => c < e[n]
    BY <1>3, <1>4, <1>6, <1>7, <2>1 DEF Dated, Owed
  <2>3. Chorded(down)' <=> Chorded(down')
    BY DEF Chorded
  <2>4. chord \in 0..HoldTicks => asks < c
    BY DEF Dated, Owed
  <2> QED
    BY <1>1, <2>1, <2>2, <2>3, <2>4 DEF Owed
<1> QED
  BY <1>2, <1>9, <1>11, <1>12 DEF Dated

\* What the chord's timing may become once the report dated c is the last looked at, where
\* again says that nothing was looked at.
Timed(c, again) ==
    /\ asks' <= c
    /\ chord' \in 0..HoldTicks => asks' < c
    /\ chord' = Never => again

\* The reports move up by k places, and the first may have been looked at.
LEMMA DatesMove ==
    ASSUME OwnInv, OwnInv', NEW c \in Nat, NEW d \in [Places -> Nat], Dated(c, d),
           NEW k \in {0, 1}, NEW c1 \in Nat, UNCHANGED <<down, due>>,
           \A n \in Places' : /\ n + k \in Places
                              /\ Unseen(n)' => Unseen(n + k)
                              /\ Has(n)' => Has(n + k)
                              /\ Lacks(n)' => Lacks(n + k),
           \/ c1 = c /\ Timed(c, chord = Never)
           \/ k \in Places /\ Unseen(k) /\ c1 = d[k] /\ Timed(c1, Lacks(k)) /\ ~Unseen(0)'
    PROVE  \E e \in [Places' -> Nat] : Dated(c1, e)'
<1>1. PICK e \in [Places' -> Nat] : \A n \in Places' : e[n] = d[n + k]
  <2>1. [n \in Places' |-> d[n + k]] \in [Places' -> Nat]
    OBVIOUS
  <2> QED
    BY <2>1
<1>2. due \in Nat /\ due' = due /\ (Chorded(down)' <=> Chorded(down))
  BY DEF OwnInv
<1>3. \A n \in Places' : n \in Nat
  BY DEF Places
<1>4. \A n \in Places' : Has(n)' => Unseen(n)'
  BY DEF Has
<1>5. \A n \in Places' : Unseen(n)' /\ c1 # c => k \in Places /\ Unseen(k) /\ c1 = d[k] /\ k < n + k
  BY <1>3 DEF Unseen
<1>6. InOrder(c1, e)'
  <2>1. asks' <= c1 /\ c1 <= due'
    BY <1>2 DEF Timed, Dated, InOrder
  <2>2. \A n \in Places' : Unseen(n)' => c1 <= e[n] /\ e[n] <= due'
    BY <1>1, <1>2, <1>5 DEF Dated, InOrder
  <2>3. \A m, n \in Places' : m < n /\ Unseen(m)' => e[m] <= e[n]
    BY <1>1, <1>3 DEF Dated, InOrder
  <2> QED
    BY <2>1, <2>2, <2>3 DEF InOrder
<1>7. Told(c1, e)'
  <2>1. \A m, n \in Places' : m < n /\ Lacks(m)' /\ Has(n)' => e[m] < e[n]
    BY <1>1, <1>3 DEF Dated, Told
  <2>2. Chorded(down) => \A n \in Places' : Lacks(n)' => e[n] < due
    BY <1>1 DEF Dated, Told
  <2> QED
    BY <1>2, <2>1, <2>2 DEF Told
<1>8. Owed(c1, e)'
  <2>1. CASE c1 = c /\ Timed(c, chord = Never)
    BY <1>1, <1>2, <2>1 DEF Timed, Dated, Owed
  <2>2. CASE k \in Places /\ Unseen(k) /\ c1 = d[k] /\ Timed(c1, Lacks(k)) /\ ~Unseen(0)'
    <3>1. \A n \in Places' : Has(n)' => k < n + k
      BY <1>3, <1>4, <2>2 DEF Unseen
    <3>2. chord' = Never => \A n \in Places' : Has(n)' => c1 < e[n]
      BY <1>1, <2>2, <3>1 DEF Timed, Dated, Told
    <3>3. chord' = Never /\ Chorded(down) => c1 < due
      BY <2>2 DEF Timed, Dated, Told
    <3> QED
      BY <1>2, <2>2, <3>2, <3>3 DEF Timed, Owed
  <2> QED
    BY <2>1, <2>2
<1> QED
  BY <1>6, <1>7, <1>8 DEF Dated

\* A new connection may hear of a keyboard's chord again: every date is one later.
LEMMA DatesRenew ==
    ASSUME OwnInv, NEW c \in Nat, NEW d \in [Places -> Nat], Dated(c, d),
           UNCHANGED <<kind, down, queue, job, asks>>, chord' = Never, due' = due + 1
    PROVE  \E e \in [Places' -> Nat] : Dated(c, e)'
<1>1. Places' = Places
  BY DEF Places
<1>2. PICK e \in [Places -> Nat] : \A n \in Places : e[n] = d[n] + 1
  <2>1. [n \in Places |-> d[n] + 1] \in [Places -> Nat]
    OBVIOUS
  <2> QED
    BY <2>1
<1>3. \A n \in Places : (Unseen(n)' <=> Unseen(n)) /\ (Has(n)' <=> Has(n)) /\ (Lacks(n)' <=> Lacks(n))
  BY DEF Unseen, Has, Lacks, KeysAt, PartialAt
<1>4. due \in Nat /\ (Chorded(down)' <=> Chorded(down)) /\ \A n \in Places : d[n] \in Nat
  BY DEF OwnInv
<1>5. InOrder(c, e)'
  BY <1>1, <1>2, <1>3, <1>4 DEF Dated, InOrder
<1>6. Told(c, e)'
  BY <1>1, <1>2, <1>3, <1>4 DEF Dated, Told
<1>7. \A n \in Places : Has(n) => c < e[n]
  BY <1>2, <1>4 DEF Dated, InOrder, Has
<1>8. Owed(c, e)'
  <2>1. chord' \notin 0..HoldTicks
    BY DEF Never
  <2>2. c < due'
    BY <1>4 DEF Dated, InOrder
  <2> QED
    BY <1>1, <1>3, <1>7, <2>1, <2>2 DEF Owed
<1> QED
  BY <1>1, <1>5, <1>6, <1>8 DEF Dated

\* The person and the device: a chord is made, and reported, or not.
LEMMA DeviceAsks ==
    ASSUME OwnInv, OwnInv', AskInv, Press \/ LetGo \/ Reports \/ Drops \/ Partials
    PROVE  AskInv'
<1>1. UNCHANGED <<kind, job, chord, asks>>
  BY DEF Press, LetGo, Reports, Drops, Partials
<1>2. due' = due \/ due' = due + 1
  BY DEF Press, LetGo, Reports, Drops, Partials
<1>3. Chorded(down') => Chorded(down) \/ due' = due + 1
  BY DEF Press, LetGo, Turn, Reports, Drops, Partials, Chorded
<1>4. \/ UNCHANGED queue
      \/ \E r \in OwnReps : queue' = Append(queue, r) /\ (r.partial \/ r.keys = down')
  BY DeviceReports DEF Queued
<1>5. CASE kind \in {"touch", "keyboard"}
  <2>1. PICK c \in Nat, d \in [Places -> Nat] : Dated(c, d)
    BY <1>5 DEF AskInv
  <2>2. \E e \in [Places' -> Nat] : Dated(c, e)'
    BY <1>1, <1>2, <1>3, <1>4, <2>1, DatesJoin
  <2> QED
    BY <1>1, <1>5, <2>2 DEF AskInv
<1>6. CASE kind \notin {"touch", "keyboard"}
  BY <1>1, <1>6 DEF AskInv
<1> QED
  BY <1>5, <1>6

\* Where the reports are once one is taken.
LEMMA PlacesPass ==
    ASSUME OwnInv, Takes
    PROVE  /\ 1 \in Places
           /\ \A n \in Places' : n + 1 \in Places
           /\ \A n \in Places' : n # 0 => /\ KeysAt(n)' = KeysAt(n + 1)
                                          /\ PartialAt(n)' = PartialAt(n + 1)
           /\ KeysAt(1) = Head(queue).keys /\ PartialAt(1) = Head(queue).partial
           /\ Head(queue) \in OwnReps
<1>1. queue \in Seq(OwnReps) /\ queue # <<>> /\ queue' = Tail(queue)
  BY DEF Takes, OwnInv
<1>2. /\ Head(queue) \in OwnReps /\ Len(queue') = Len(queue) - 1
      /\ \A n \in 1..Len(queue') : queue'[n] = queue[n + 1]
  BY <1>1, HeadTailProperties
<1>3. Len(queue) \in Nat \ {0} /\ Head(queue) = queue[1]
  BY <1>1
<1> QED
  BY <1>2, <1>3 DEF Places, KeysAt, PartialAt

\* A keyboard's shortcut is told as its report is taken, once for a chord.
LEMMA ShortcutTimes ==
    ASSUME OwnInv, NEW c \in Nat, NEW d \in [Places -> Nat], Dated(c, d), kind = "keyboard",
           NEW keys, 1 \in Places, keys = KeysAt(1), ~PartialAt(1), Shortcut(keys),
           asks \in Nat
    PROVE  Timed(d[1], Lacks(1))
<1>1. Unseen(1) /\ asks \in Int /\ d[1] \in Nat /\ c <= d[1] /\ asks <= c
  BY DEF Unseen, Dated, InOrder
<1>2. CASE ~Chorded(keys)
  <2>1. chord' = Never /\ asks' = asks /\ Lacks(1)
    BY <1>1, <1>2 DEF Shortcut, Lacks
  <2> QED
    BY <1>1, <2>1 DEF Timed, Never
<1>3. CASE Chorded(keys)
  <2>1. chord' = Fired /\ asks' = (IF chord = Fired THEN asks ELSE asks + 1) /\ Has(1)
    BY <1>1, <1>3 DEF Shortcut, Has
  <2>2. chord # Fired => asks < d[1]
    BY <1>1, <2>1 DEF OwnInv, Dated, Owed
  <2> QED
    BY <1>1, <2>1, <2>2 DEF Timed, Never, Fired
<1> QED
  BY <1>2, <1>3

\* A report is taken: into the thread's hand, or to be told of, or passed over.
LEMMA TakesAsks == ASSUME IInv, OwnInv, OwnInv', AskInv, Takes PROVE AskInv'
<1>1. UNCHANGED <<kind, down, due>> /\ job.at = "idle" /\ asks \in Nat
  BY DEF Takes, IInv, Types
<1>2. /\ handedBack' => Shared /\ UNCHANGED <<job, chord, asks>>
      /\ ~handedBack' => /\ Shortcut(Head(queue).keys)
                         /\ job'.at = "judge" /\ job'.partial = Head(queue).partial
                         /\ kind # "keyboard" => job'.keys = Head(queue).keys
  BY DEF Takes, HandBack, NoJob
<1>3. CASE kind \notin {"touch", "keyboard"}
  BY <1>1, <1>2, <1>3 DEF AskInv, Shortcut
<1>4. CASE kind = "touch"
  <2>1. PICK c \in Nat, d \in [Places -> Nat] : Dated(c, d)
    BY <1>4 DEF AskInv
  <2>2. /\ UNCHANGED <<chord, asks>>
        /\ job'.keys = Head(queue).keys /\ job'.partial = Head(queue).partial
    BY <1>2, <1>4 DEF Shared, Shortcut
  <2>3. KeysAt(0)' = KeysAt(0 + 1) /\ PartialAt(0)' = PartialAt(0 + 1)
    BY <2>2, PlacesPass DEF KeysAt, PartialAt
  <2>4. \A n \in Places' : n \in Nat
    BY DEF Places
  <2>5. \A n \in Places' : /\ n + 1 \in Places /\ Unseen(n + 1)
                           /\ KeysAt(n)' = KeysAt(n + 1) /\ PartialAt(n)' = PartialAt(n + 1)
    BY <2>3, <2>4, PlacesPass DEF Unseen
  <2>6. \A n \in Places' : (Has(n)' => Has(n + 1)) /\ (Lacks(n)' => Lacks(n + 1))
    BY <2>5 DEF Has, Lacks
  <2>7. Timed(c, chord = Never)
    BY <2>1, <2>2 DEF Timed, Dated, Owed, InOrder
  <2>8. \E e \in [Places' -> Nat] : Dated(c, e)'
    BY <1>1, <2>1, <2>5, <2>6, <2>7, DatesMove
  <2> QED
    BY <1>1, <1>4, <2>8 DEF AskInv
<1>5. CASE kind = "keyboard"
  <2>1. PICK c \in Nat, d \in [Places -> Nat] : Dated(c, d)
    BY <1>5 DEF AskInv
  <2>2. ~Unseen(0)' /\ Unseen(1) /\ \A n \in Places' : n \in Nat
    BY <1>1, <1>5 DEF Unseen, Places
  <2>3. \A n \in Places' : /\ n + 1 \in Places /\ Unseen(n + 1)
                           /\ Has(n)' => Has(n + 1)
                           /\ Lacks(n)' => Lacks(n + 1)
    <3>1. \A n \in Places' : n + 1 \in Places /\ Unseen(n + 1)
      BY <2>2, PlacesPass DEF Unseen
    <3>2. \A n \in Places' : n # 0 => (Has(n)' => Has(n + 1)) /\ (Lacks(n)' => Lacks(n + 1))
      BY <3>1, PlacesPass DEF Has, Lacks
    <3>3. ~Has(0)' /\ ~Lacks(0)'
      BY <2>2 DEF Has, Lacks
    <3> QED
      BY <3>1, <3>2, <3>3
  <2>4. CASE handedBack'
    <3>1. Timed(c, chord = Never)
      BY <1>2, <2>1, <2>4 DEF Timed, Dated, Owed, InOrder
    <3>2. \E e \in [Places' -> Nat] : Dated(c, e)'
      BY <1>1, <2>1, <2>3, <3>1, DatesMove
    <3> QED
      BY <1>1, <1>5, <3>2 DEF AskInv
  <2>5. CASE ~handedBack'
    <3>1. ~PartialAt(1) /\ 1 \in Places /\ d[1] \in Nat
      BY <1>5, PlacesPass DEF OwnReps
    <3>2. Timed(d[1], Lacks(1))
      BY <1>1, <1>2, <1>5, <2>1, <2>5, <3>1, PlacesPass, ShortcutTimes
    <3>3. \E e \in [Places' -> Nat] : Dated(d[1], e)'
      BY <1>1, <2>1, <2>2, <2>3, <3>1, <3>2, DatesMove
    <3> QED
      BY <1>1, <1>5, <3>1, <3>3 DEF AskInv
  <2> QED
    BY <2>4, <2>5
<1> QED
  BY <1>3, <1>4, <1>5

\* A chord is timed as its report is looked at, and asks once for its hold.
LEMMA ChordTimes ==
    ASSUME OwnInv, NEW c \in Nat, NEW d \in [Places -> Nat], Dated(c, d), kind = "touch",
           Unseen(0), asks \in Nat, ChordSeen(job)
    PROVE  Timed(c, chord = Never) \/ Timed(d[0], Lacks(0))
<1>1. 0 \in Places /\ d[0] \in Nat /\ c <= d[0] /\ asks <= c
  BY PlacesAre DEF Dated, InOrder
<1>2. /\ Chorded(job.keys) <=> "chord" \in job.keys
      /\ job.partial => "chord" \notin job.keys
  <2>1. job.keys \subseteq {"chord"} /\ (job.partial => job.keys = {})
    BY DEF OwnInv, OwnReps, OwnInputs
  <2> QED
    BY <2>1 DEF Chorded
<1>3. CASE ~job.partial /\ "chord" \notin job.keys
  <2>1. chord' = Never /\ asks' = asks /\ Lacks(0)
    BY <1>2, <1>3 DEF ChordSeen, Lacks, KeysAt, PartialAt
  <2> QED
    BY <1>1, <2>1 DEF Timed, Never
<1>4. CASE job.partial
  <2>1. chord' = chord /\ asks' = asks
    BY <1>2, <1>4 DEF ChordSeen
  <2> QED
    BY <2>1 DEF Timed, Dated, Owed, InOrder
<1>5. CASE ~job.partial /\ "chord" \in job.keys /\ chord = Never
  <2>1. chord' = 0 /\ asks' = asks /\ Has(0)
    BY <1>2, <1>5 DEF ChordSeen, Has, KeysAt, Never
  <2>2. asks < d[0]
    BY <1>1, <1>5, <2>1 DEF Dated, Owed
  <2> QED
    BY <1>1, <2>1, <2>2 DEF Timed, Never
<1>6. CASE ~job.partial /\ "chord" \in job.keys /\ chord = HoldTicks
  <2>1. chord' = Fired /\ asks' = asks + 1
    BY <1>6 DEF ChordSeen, Never
  <2>2. asks < c
    BY <1>6 DEF Dated, Owed
  <2> QED
    BY <1>1, <2>1, <2>2 DEF Timed, Never, Fired
<1>7. CASE ~job.partial /\ "chord" \in job.keys /\ chord # Never /\ chord # HoldTicks
  <2>1. chord' = chord /\ asks' = asks
    BY <1>7 DEF ChordSeen
  <2> QED
    BY <2>1 DEF Timed, Dated, Owed, InOrder
<1> QED
  BY <1>3, <1>4, <1>5, <1>6, <1>7

\* Where nothing is looked at, the dates stand.
LEMMA DatesStay ==
    ASSUME OwnInv, OwnInv', AskInv, UNCHANGED <<kind, down, queue, asks, due>>,
           Unseen(0)' => Unseen(0) /\ job'.keys = job.keys /\ job'.partial = job.partial,
           chord' = chord \/ (chord \in 0..HoldTicks /\ chord' \in 0..HoldTicks)
    PROVE  AskInv'
<1>1. CASE kind \notin {"touch", "keyboard"}
  BY <1>1 DEF AskInv
<1>2. CASE kind \in {"touch", "keyboard"}
  <2>1. PICK c \in Nat, d \in [Places -> Nat] : Dated(c, d)
    BY <1>2 DEF AskInv
  <2>2. \A n \in Places' : n \in Nat /\ n \in Places
    BY DEF Places
  <2>3. \A n \in Places' : Unseen(n)' =>
           Unseen(n) /\ KeysAt(n)' = KeysAt(n) /\ PartialAt(n)' = PartialAt(n)
    BY <2>2 DEF Unseen, KeysAt, PartialAt
  <2>4. \A n \in Places' : /\ n + 0 \in Places /\ n + 0 = n
                           /\ Unseen(n)' => Unseen(n + 0)
                           /\ Has(n)' => Has(n + 0)
                           /\ Lacks(n)' => Lacks(n + 0)
    BY <2>2, <2>3 DEF Has, Lacks
  <2>5. Timed(c, chord = Never)
    BY <2>1 DEF Timed, Dated, Owed, InOrder, Never
  <2>6. \E e \in [Places' -> Nat] : Dated(c, e)'
    BY <2>1, <2>4, <2>5, DatesMove
  <2> QED
    BY <1>2, <2>6 DEF AskInv
<1> QED
  BY <1>1, <1>2

\* The report in hand is looked at, and not again.
LEMMA JobAsks ==
    ASSUME OwnInv, OwnInv', AskInv, asks \in Nat, UNCHANGED <<kind, down, queue, due>>,
           kind = "touch", Unseen(0), ~Unseen(0)', ChordSeen(job)
    PROVE  AskInv'
<1>1. PICK c \in Nat, d \in [Places -> Nat] : Dated(c, d)
  BY DEF AskInv
<1>2. \A n \in Places' : n \in Nat /\ n \in Places
  BY DEF Places
<1>3. \A n \in Places' : Unseen(n)' =>
         Unseen(n) /\ KeysAt(n)' = KeysAt(n) /\ PartialAt(n)' = PartialAt(n)
  BY <1>2 DEF Unseen, KeysAt, PartialAt
<1>4. \A n \in Places' : /\ n + 0 \in Places /\ n + 0 = n
                         /\ Unseen(n)' => Unseen(n + 0)
                         /\ Has(n)' => Has(n + 0)
                         /\ Lacks(n)' => Lacks(n + 0)
  BY <1>2, <1>3 DEF Has, Lacks
<1>5. CASE Timed(c, chord = Never)
  <2>1. \E e \in [Places' -> Nat] : Dated(c, e)'
    BY <1>1, <1>4, <1>5, DatesMove
  <2> QED
    BY <2>1 DEF AskInv
<1>6. CASE Timed(d[0], Lacks(0))
  <2>1. 0 \in Places /\ d[0] \in Nat
    BY PlacesAre
  <2>2. \E e \in [Places' -> Nat] : Dated(d[0], e)'
    BY <1>1, <1>4, <1>6, <2>1, DatesMove
  <2> QED
    BY <2>1, <2>2 DEF AskInv
<1> QED
  BY <1>1, <1>5, <1>6, ChordTimes

\* Every step keeps the count of what may still ask within the chords made.
LEMMA AskStep == IInv /\ OwnInv /\ OwnInv' /\ AskInv /\ [Next]_vars => AskInv'
<1> SUFFICES ASSUME IInv, OwnInv, OwnInv', AskInv, [Next]_vars PROVE AskInv'
  OBVIOUS
<1>1. CASE Judges
  <2>1. /\ UNCHANGED <<kind, down, queue, due>> /\ job.at = "judge"
        /\ job'.at = "send" /\ job'.held = held
        /\ job'.keys = job.keys /\ job'.partial = job.partial /\ asks \in Nat
    BY <1>1 DEF Judges, IInv, Types, Jobs
  <2>2. CASE held /\ kind = "touch"
    <3>1. Unseen(0) /\ ~Unseen(0)' /\ ChordSeen(job)
      BY <1>1, <2>1, <2>2 DEF Judges, Unseen
    <3> QED
      BY <2>1, <2>2, <3>1, JobAsks
  <2>3. CASE ~(held /\ kind = "touch")
    <3>1. UNCHANGED <<chord, asks>> /\ (Unseen(0)' => Unseen(0))
      BY <1>1, <2>1, <2>3 DEF Judges, Unseen
    <3> QED
      BY <2>1, <3>1, DatesStay
  <2> QED
    BY <2>2, <2>3
<1>2. CASE Sends
  <2>1. /\ UNCHANGED <<kind, down, queue, due>> /\ job.at = "send" /\ job'.at = "idle"
        /\ asks \in Nat /\ ~Unseen(0)'
    BY <1>2 DEF Sends, NoJob, IInv, Types, Unseen
  <2>2. CASE ~job.held /\ kind = "touch"
    <3>1. Unseen(0) /\ ChordSeen(job)
      BY <1>2, <2>1, <2>2 DEF Sends, Unseen
    <3> QED
      BY <2>1, <2>2, <3>1, JobAsks
  <2>3. CASE ~(~job.held /\ kind = "touch")
    <3>1. UNCHANGED <<chord, asks>>
      BY <1>2, <2>3 DEF Sends
    <3> QED
      BY <2>1, <3>1, DatesStay
  <2> QED
    BY <2>2, <2>3
<1>3. CASE SendFails \/ Tick \/ SetHeld \/ LinkDrops \/ Idles \/ Keepalive \/ UNCHANGED vars
           \/ (Connects /\ kind # "keyboard")
  <2>1. /\ UNCHANGED <<kind, down, queue, asks, due>>
        /\ job' = job \/ (job' = NoJob)
        /\ chord' = chord \/ (chord \in 0..HoldTicks /\ chord' \in 0..HoldTicks)
    BY <1>3 DEF SendFails, Tick, SetHeld, LinkDrops, Idles, Keepalive, Connects, vars
  <2>2. Unseen(0)' => Unseen(0) /\ job' = job
    BY <2>1 DEF Unseen, NoJob
  <2> QED
    BY <2>1, <2>2, DatesStay
<1>4. CASE Connects /\ kind = "keyboard"
  <2>1. UNCHANGED <<kind, down, queue, job, asks>> /\ chord' = Never /\ due' = due + 1
    BY <1>4 DEF Connects
  <2>2. PICK c \in Nat, d \in [Places -> Nat] : Dated(c, d)
    BY <1>4 DEF AskInv
  <2>3. \E e \in [Places' -> Nat] : Dated(c, e)'
    BY <2>1, <2>2, DatesRenew
  <2> QED
    BY <1>4, <2>1, <2>3 DEF AskInv
<1> QED
  BY <1>1, <1>2, <1>3, <1>4, DeviceAsks, TakesAsks DEF Next

\* Nothing has asked, and a chord that is down is one made.
LEMMA AskInitially == Init => AskInv
<1> SUFFICES ASSUME Init PROVE AskInv
  OBVIOUS
<1>1. CASE kind \notin {"touch", "keyboard"}
  BY <1>1 DEF Init, AskInv
<1>2. CASE kind \in {"touch", "keyboard"}
  <2>1. Places = {0} /\ ~Unseen(0)
    BY DEF Init, Places, Unseen, NoJob
  <2>2. PICK d \in [Places -> Nat] : \A n \in Places : d[n] = 0
    <3>1. [n \in Places |-> 0] \in [Places -> Nat]
      OBVIOUS
    <3> QED
      BY <3>1
  <2>3. Dated(0, d)
    BY <2>1 DEF Init, Dated, InOrder, Told, Owed, Has, Lacks, Never
  <2> QED
    BY <1>2, <2>2, <2>3 DEF AskInv
<1> QED
  BY <1>1, <1>2

\* A hold of the chord asks for the release once, and a press of the shortcut tells once for
\* each connection it is read on (ds4_on_input_report, kbd_shortcut_letter), whatever is
\* queued, dropped, passed over or sent in between.
THEOREM NothingAsksTwice == Spec => []AsksOncePerHold
<1>1. IInv /\ OwnInv /\ AskInv => AsksOncePerHold
  <2> SUFFICES ASSUME IInv, OwnInv, AskInv PROVE asks <= due
    BY DEF AsksOncePerHold
  <2>1. asks \in Nat /\ due \in Nat
    BY DEF IInv, Types, OwnInv
  <2>2. CASE kind \in {"touch", "keyboard"}
    <3>1. PICK c \in Nat, d \in [Places -> Nat] : Dated(c, d)
      BY <2>2 DEF AskInv
    <3> QED
      BY <2>1, <3>1 DEF Dated, InOrder
  <2>3. CASE kind \notin {"touch", "keyboard"}
    BY <2>1, <2>3 DEF AskInv
  <2> QED
    BY <2>2, <2>3
<1> QED
  BY <1>1, OwnInitially, OwnStep, AskInitially, AskStep, Invariance, NextInv, PTL DEF Spec
=============================================================================
