---------------------------- MODULE FeatureMemory ----------------------------
(***************************************************************************)
(* The PC asks a bridged pad for its feature reports.  The kernel holds    *)
(* one lock over every hidraw node for the whole of such a request, and a  *)
(* Bluetooth pad may leave one unanswered for the platform's whole wait,   *)
(* behind which every other pad's waits.  So what a pad left unanswered is *)
(* not asked again, on this bridge and on the pad's later ones; a          *)
(* DualSense is always asked, and over Bluetooth its answers to the three  *)
(* reports that do not change are kept (feature_memory.inl,                *)
(* handle_message).                                                        *)
(***************************************************************************)
EXTENDS Integers, FiniteSets

CONSTANTS
    Pads,
    DualSenses,   \* those, and the Edges, among them
    Nameless,     \* pads with neither a serial nor a MAC
    Reports,
    Lasting,      \* the reports whose answers are kept (feature_answer_slot)
    Lengths,      \* lengths of a request
    TooLong,      \* those over FEATURE_ANSWER_BYTES
    PadsMax,      \* FEATURE_PADS_MAX (8)
    MaxAsks,      \* bounds the requests, the bridges and the runs of the app
    MaxBridges,
    MaxRuns

ASSUME PadsAssumption ==
    /\ DualSenses \cup Nameless \subseteq Pads /\ IsFiniteSet(Pads)
    /\ Lasting \subseteq Reports /\ TooLong \subseteq Lengths
    /\ {PadsMax, MaxAsks, MaxBridges, MaxRuns} \subseteq Nat

VARIABLES
    bridge,      \* how each pad is bridged: "none", "BT", "USB"
    unanswered,  \* feature_unanswered of its controller
    pads,        \* s_feature_pads: what a pad left unanswered
    answers,     \* s_feature_answers: what a pad answered
    ask,         \* the request a session has in hand
    count,       \* requests, bridges and runs so far
    \* history
    said,        \* where the last reply of each session came from
    left         \* the reports each pad left unanswered: on this bridge, in this run

vars == <<bridge, unanswered, pads, answers, ask, count, said, left>>

None == [at |-> "none"]
Unbridged == "none"
NothingSaid == [from |-> "none"]
NoneLeft == [bridge |-> {}, run |-> {}]
Nothing == [p \in {} |-> {}]

Init ==
    /\ bridge = [p \in Pads |-> Unbridged]
    /\ unanswered = [p \in Pads |-> {}]
    /\ pads = Nothing /\ answers = Nothing
    /\ ask = [p \in Pads |-> None]
    /\ count = [asks |-> 0, bridges |-> 0, runs |-> 1]
    /\ said = [p \in Pads |-> NothingSaid]
    /\ left = [p \in Pads |-> NoneLeft]

-----------------------------------------------------------------------------
(* The two tables, each under the one mutex. *)

Named(p) == p \notin Nameless
\* Slip: an Edge, or a DualSense that the service lets down, is kept like any other pad.
AskedLikeAny(p) == FALSE
AlwaysAsked(p) == p \in DualSenses

\* feature_answers_kept_for
KeptFor(p) == p \in DualSenses /\ bridge[p] = "BT"

\* A table with what p said added to what it holds of p: a pad that is new to it
\* finds no room in a full one.
With(table, p, set) ==
    IF ~Named(p) \/ (p \notin DOMAIN table /\ Cardinality(DOMAIN table) >= PadsMax) THEN table
    ELSE [q \in DOMAIN table \cup {p} |->
            IF q # p THEN table[q] ELSE IF p \in DOMAIN table THEN table[p] \cup set ELSE set]
Held(table, p) == IF Named(p) /\ p \in DOMAIN table THEN table[p] ELSE {}

\* feature_answer_keep: the later answer to a report takes the earlier one's place.
Keep(p, answer) ==
    IF answer.id \notin Lasting \/ answer.len \in TooLong THEN answers
    ELSE LET others == {a \in Held(answers, p) : a.id # answer.id}
             without == IF p \in DOMAIN answers THEN [answers EXCEPT ![p] = others] ELSE answers
         IN  With(without, p, {answer})

\* feature_answer_recall: the same report, asked at the same length.
Recall(p, id, len) == {a \in Held(answers, p) : a.id = id /\ a.len = len}

\* feature_unanswered
Refused(p, id) == ~AlwaysAsked(p) /\ id \in unanswered[p] \cup Held(pads, p)

-----------------------------------------------------------------------------
(* A session's requests. *)

\* What the pad says to a request: of the report, at the length, over the bus.
Answer(p, id, len) == [id |-> id, len |-> len, bus |-> bridge[p]]

MayAsk(p) ==
    /\ bridge[p] # Unbridged /\ ask[p] = None
    /\ count.asks < MaxAsks /\ count' = [count EXCEPT !.asks = @ + 1]

\* FEATURE_GET: the earlier answer, or no answer where none came before, or the pad
\* is asked.  The clock starts here, before anything is waited for.
Get(p, id, len) ==
    /\ MayAsk(p)
    /\ LET earlier == IF KeptFor(p) /\ len \notin TooLong THEN Recall(p, id, len) ELSE {}
       IN  \/ /\ earlier # {}
              /\ \E a \in earlier : said' = [said EXCEPT ![p] =
                    [from |-> "memory", answer |-> a, own |-> Answer(p, id, len)]]
              /\ UNCHANGED <<unanswered, ask>>
           \/ /\ earlier = {} /\ Refused(p, id)
              /\ unanswered' = [unanswered EXCEPT ![p] = @ \cup {id}]
              /\ said' = [said EXCEPT ![p] = [from |-> "refused"]]
              /\ UNCHANGED ask
           \/ /\ earlier = {} /\ ~Refused(p, id)
              /\ ask' = [ask EXCEPT ![p] =
                    [at |-> "waiting", get |-> TRUE, id |-> id, len |-> len, long |-> FALSE]]
              /\ UNCHANGED <<unanswered, said>>
    /\ UNCHANGED <<bridge, pads, answers, left>>

\* FEATURE_SET: always sent.
Set(p) ==
    /\ MayAsk(p)
    /\ ask' = [ask EXCEPT ![p] =
            [at |-> "waiting", get |-> FALSE, long |-> FALSE]]
    /\ UNCHANGED <<bridge, unanswered, pads, answers, said, left>>

\* The kernel lets one request in.
Enters(p) ==
    /\ ask[p].at = "waiting" /\ \A q \in Pads : ask[q].at # "asked"
    /\ ask' = [ask EXCEPT ![p].at = "asked"]
    /\ UNCHANGED <<bridge, unanswered, pads, answers, count, said, left>>

\* The pad answers; what is to last is kept.
Answers(p) ==
    /\ ask[p].at = "asked"
    /\ answers' = IF ask[p].get /\ KeptFor(p) THEN Keep(p, Answer(p, ask[p].id, ask[p].len))
                  ELSE answers
    /\ said' = [said EXCEPT ![p] = [from |-> "pad"]]
    /\ ask' = [ask EXCEPT ![p] = None]
    /\ UNCHANGED <<bridge, unanswered, pads, count, left>>

\* Slip: what finds no room in the table is not kept for the bridge either.
NotesNoAnswerWithRoom(p, long) ==
    IF ask[p].get /\ long /\ ~AlwaysAsked(p) /\ p \in DOMAIN With(pads, p, {ask[p].id}) THEN
        /\ unanswered' = [unanswered EXCEPT ![p] = @ \cup {ask[p].id}]
        /\ pads' = With(pads, p, {ask[p].id})
    ELSE UNCHANGED <<unanswered, pads>>
\* feature_wait_note: a get that failed after the platform's whole wait, as the
\* clock has it, is taken for one left unanswered.
NotesNoAnswer(p, long) ==
    IF ask[p].get /\ long /\ ~AlwaysAsked(p) THEN
        /\ unanswered' = [unanswered EXCEPT ![p] = @ \cup {ask[p].id}]
        /\ pads' = With(pads, p, {ask[p].id})
    ELSE UNCHANGED <<unanswered, pads>>

Fails(p) == said' = [said EXCEPT ![p] = [from |-> "failed"]]

\* The pad turns it down, or is gone: it fails as soon as it is in.
TurnsDown(p) ==
    /\ ask[p].at = "asked"
    /\ NotesNoAnswer(p, ask[p].long) /\ Fails(p)
    /\ ask' = [ask EXCEPT ![p] = None]
    /\ UNCHANGED <<bridge, answers, count, left>>

\* A Bluetooth pad gives no answer for the whole wait, and those that waited
\* behind it for most of that have waited as long.
GivesNoAnswer(p) ==
    /\ ask[p].at = "asked" /\ bridge[p] = "BT"
    /\ NotesNoAnswer(p, TRUE) /\ Fails(p)
    /\ \E behind \in SUBSET {q \in Pads : ask[q].at = "waiting"} :
            ask' = [q \in Pads |-> IF q = p THEN None
                                   ELSE IF q \in behind THEN [ask[q] EXCEPT !.long = TRUE]
                                   ELSE ask[q]]
    /\ left' = IF ~ask[p].get THEN left
               ELSE [left EXCEPT ![p] = [bridge |-> @.bridge \cup {ask[p].id},
                                         run |-> @.run \cup {ask[p].id}]]
    /\ UNCHANGED <<bridge, answers, count>>

-----------------------------------------------------------------------------
Bridges(p, bus) ==
    /\ bridge[p] = Unbridged /\ count.bridges < MaxBridges
    /\ bridge' = [bridge EXCEPT ![p] = bus]
    /\ count' = [count EXCEPT !.bridges = @ + 1]
    /\ unanswered' = [unanswered EXCEPT ![p] = {}]
    /\ said' = [said EXCEPT ![p] = NothingSaid]
    /\ left' = [left EXCEPT ![p].bridge = {}]
    /\ UNCHANGED <<pads, answers, ask>>

\* A release waits for the session's thread.
Releases(p) ==
    /\ bridge[p] # Unbridged /\ ask[p] = None
    /\ bridge' = [bridge EXCEPT ![p] = Unbridged]
    /\ UNCHANGED <<unanswered, pads, answers, ask, count, said, left>>

\* "until the app stops"
AppRestarts ==
    /\ count.runs < MaxRuns
    /\ bridge' = [p \in Pads |-> Unbridged]
    /\ unanswered' = [p \in Pads |-> {}]
    /\ pads' = Nothing /\ answers' = Nothing
    /\ ask' = [p \in Pads |-> None]
    /\ count' = [count EXCEPT !.runs = @ + 1]
    /\ said' = [p \in Pads |-> NothingSaid]
    /\ left' = [p \in Pads |-> NoneLeft]

Next ==
    \/ \E p \in Pads :
        \/ \E id \in Reports, len \in Lengths : Get(p, id, len)
        \/ Set(p) \/ Enters(p) \/ Answers(p) \/ TurnsDown(p) \/ GivesNoAnswer(p)
        \/ \E bus \in {"BT", "USB"} : Bridges(p, bus)
        \/ Releases(p)
    \/ AppRestarts

Spec == Init /\ [][Next]_vars

-----------------------------------------------------------------------------
(* Properties. *)

TypeOK ==
    /\ \A p \in Pads : bridge[p] \in {Unbridged, "BT", "USB"} /\ unanswered[p] \subseteq Reports
    /\ DOMAIN pads \subseteq Pads /\ DOMAIN answers \subseteq Pads
    /\ \A p \in Pads : ask[p].at \in {"none", "waiting", "asked"}

\* A report that a pad left unanswered for the whole wait, in which every other hidraw
\* call on the TV waits too, is not asked of it again: on that bridge whatever room
\* there is, and on its later ones where the pad has a name and found room
\* ("so a report the pad left unanswered for the platform's whole wait fails at once
\* afterwards", feature_memory.inl).
SilentAskedOnce ==
    \A p \in Pads \ DualSenses :
        ask[p] # None /\ ask[p].get =>
            ask[p].id \notin left[p].bridge \cup (IF p \in DOMAIN pads THEN left[p].run ELSE {})

\* An answer given from memory is what this pad would say to the same question on this
\* connection: of the report, at the length, over the bus (feature_answer_recall).
MemoryIsTrue ==
    \A p \in Pads : said[p].from = "memory" => said[p].answer = said[p].own

\* "A DUALSENSE IS ALWAYS ASKED": whatever it, or the service behind it, left unanswered
\* before, a reply of no answer to the PC is one the pad was asked for.
DualSenseIsAsked == \A p \in DualSenses : said[p].from # "refused"

\* A reply that the pad was not asked for says what the pad would have said.
UnaskedIsTrue == MemoryIsTrue /\ DualSenseIsAsked

\* What the comment says is remembered: a report left unanswered for the platform's
\* whole wait.  The clock is read before the wait for the other pads' requests
\* (controller_common.c: asked_us), so one turned down at once behind another pad's
\* silence is remembered too: this does not hold.
OnlyTheSilentRemembered ==
    \A p \in Pads : unanswered[p] \cup Held(pads, p) \subseteq left[p].run
=============================================================================
