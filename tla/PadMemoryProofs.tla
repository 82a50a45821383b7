-------------------------- MODULE PadMemoryProofs --------------------------
(***************************************************************************)
(* Proofs that what is remembered of a pad is the pad's.  FeatureMemory,   *)
(* for any pads, reports, lengths, table size and numbers of requests,     *)
(* bridges and runs: a pad's silence is met once, and a reply from memory  *)
(* is the one the pad would give.  XpadEvents, for any codes, any values   *)
(* and any length of the kernel's queue: once the reader has caught up,    *)
(* the state its reports are made of is the pad's.                         *)
(***************************************************************************)
EXTENDS FeatureMemory, XpadEvents, SequenceTheorems, TLAPS

(* The memory of feature reports. *)

Asked == [at : {"waiting", "asked"}, get : {TRUE}, id : Reports, len : Lengths, long : BOOLEAN]
Told == [at : {"waiting", "asked"}, get : {FALSE}, long : BOOLEAN]
AskInv == ask \in [Pads -> {None} \cup Asked \cup Told]

Sets == [Pads -> SUBSET Reports]
Lefts == [Pads -> [bridge : SUBSET Reports, run : SUBSET Reports]]

\* What the two places remember of a pad is at least what it left unanswered: its
\* controller, of this bridge; the table, of this run, where it has the pad; and where it
\* has not, the pad has no name or the table was full, and stays so.
SilenceInv ==
    /\ unanswered \in Sets /\ left \in Lefts
    /\ DOMAIN pads \subseteq Pads \ Nameless
    /\ \A p \in Pads \ DualSenses :
        /\ left[p].bridge \subseteq unanswered[p]
        /\ p \in DOMAIN pads => left[p].run \subseteq pads[p]
        /\ Named(p) /\ p \notin DOMAIN pads /\ left[p].run # {}
              => Cardinality(DOMAIN pads) >= PadsMax

IInv == AskInv /\ SilenceInv /\ SilentAskedOnce

-----------------------------------------------------------------------------
\* feature_pad_remember forgets nothing: the pads it has stay, with what it has of them.
LEMMA WithKeeps ==
    ASSUME NEW table, NEW p, NEW set
    PROVE  /\ DOMAIN table \subseteq DOMAIN With(table, p, set)
           /\ DOMAIN With(table, p, set) \subseteq DOMAIN table \cup {p}
           /\ \A q \in DOMAIN table : table[q] \subseteq With(table, p, set)[q]
BY DEF With

\* And what it is told of a pad it has or finds room for is there.
LEMMA WithAdds ==
    ASSUME NEW table, NEW p, NEW set, p \in DOMAIN With(table, p, set), p \notin Nameless
    PROVE  /\ p \in DOMAIN table => With(table, p, set)[p] = table[p] \cup set
           /\ p \notin DOMAIN table => With(table, p, set)[p] = set
BY DEF With, Named

\* The table takes no pad without a name, and grows only where it has room.
LEMMA WithRoom ==
    ASSUME NEW table, NEW p, NEW set
    PROVE  /\ p \in DOMAIN With(table, p, set) => p \in DOMAIN table \/ p \notin Nameless
           /\ DOMAIN With(table, p, set) # DOMAIN table
                 => ~(Cardinality(DOMAIN table) >= PadsMax)
           /\ p \notin DOMAIN With(table, p, set) /\ p \notin Nameless
                 => Cardinality(DOMAIN With(table, p, set)) >= PadsMax
BY DEF With, Named

-----------------------------------------------------------------------------
\* The requests in hand.
LEMMA InHand ==
    ASSUME AskInv, NEW p \in Pads, ask[p].at # "none"
    PROVE  /\ ask[p] \in Asked \cup Told
           /\ ask[p].get \in BOOLEAN
           /\ ask[p].get => ask[p] \in Asked /\ ask[p].id \in Reports
<1>1. ask[p] \in Asked \/ ask[p] \in Told
  BY DEF AskInv, None
<1>2. CASE ask[p] \in Asked
  BY <1>2 DEF Asked
<1>3. CASE ask[p] \in Told
  <2>1. ask[p].get = FALSE
    BY <1>3 DEF Told
  <2> QED
    BY <1>3, <2>1
<1> QED
  BY <1>1, <1>2, <1>3

\* A request that waits, or whose wait is over, is still the same request.
LEMMA Waited ==
    ASSUME NEW r \in Asked \cup Told
    PROVE  /\ [r EXCEPT !.at = "asked"] \in Asked \cup Told
           /\ [r EXCEPT !.long = TRUE] \in Asked \cup Told
<1>1. CASE r \in Asked
  BY <1>1 DEF Asked
<1>2. CASE r \in Told
  BY <1>2 DEF Told
<1> QED
  BY <1>1, <1>2

\* Every step keeps the requests of a session what they are.
LEMMA AskStep ==
    ASSUME AskInv, Next
    PROVE  AskInv'
<1> USE DEF AskInv
<1>1. ASSUME NEW p \in Pads, NEW id \in Reports, NEW len \in Lengths, Get(p, id, len)
      PROVE  AskInv'
  <2>1. [at |-> "waiting", get |-> TRUE, id |-> id, len |-> len, long |-> FALSE] \in Asked
    BY DEF Asked
  <2> QED
    BY <1>1, <2>1 DEF Get
<1>2. ASSUME NEW p \in Pads, Set(p) PROVE AskInv'
  <2>1. [at |-> "waiting", get |-> FALSE, long |-> FALSE] \in Told
    BY DEF Told
  <2> QED
    BY <1>2, <2>1 DEF Set
<1>3. ASSUME NEW p \in Pads, Enters(p) PROVE AskInv'
  <2>1. [ask[p] EXCEPT !.at = "asked"] \in Asked \cup Told
    BY <1>3, InHand, Waited DEF Enters
  <2> QED
    BY <1>3, <2>1 DEF Enters
<1>4. ASSUME NEW p \in Pads, Answers(p) \/ TurnsDown(p) PROVE AskInv'
  BY <1>4 DEF Answers, TurnsDown
<1>5. ASSUME NEW p \in Pads, GivesNoAnswer(p) PROVE AskInv'
  <2>1. PICK behind \in SUBSET {q \in Pads : ask[q].at = "waiting"} :
            ask' = [q \in Pads |-> IF q = p THEN None
                                   ELSE IF q \in behind THEN [ask[q] EXCEPT !.long = TRUE]
                                   ELSE ask[q]]
    BY <1>5 DEF GivesNoAnswer
  <2>2. \A q \in behind : [ask[q] EXCEPT !.long = TRUE] \in Asked \cup Told
    BY <2>1, InHand, Waited
  <2> QED
    BY <2>1, <2>2
<1>6. ASSUME NEW p \in Pads,
             Releases(p) \/ \E bus \in {"BT", "USB"} : Bridges(p, bus)
      PROVE  AskInv'
  BY <1>6 DEF Releases, Bridges
<1>7. CASE AppRestarts
  BY <1>7 DEF AppRestarts
<1> QED
  BY <1>1, <1>2, <1>3, <1>4, <1>5, <1>6, <1>7 DEF Next

\* A get that is remembered, whether or not the pad was what kept it waiting.
LEMMA Remembers ==
    ASSUME AskInv, SilenceInv, NEW p \in Pads, ask[p].at = "asked", NEW long \in BOOLEAN,
           NotesNoAnswer(p, long),
           left' = left \/ (long /\ left' = IF ~ask[p].get THEN left
                              ELSE [left EXCEPT ![p] = [bridge |-> @.bridge \cup {ask[p].id},
                                                        run |-> @.run \cup {ask[p].id}]])
    PROVE  SilenceInv'
<1>1. CASE ~ask[p].get
  BY <1>1 DEF SilenceInv, NotesNoAnswer, Sets, Lefts, Named
<1>2. CASE ask[p].get
  <2>1. ask[p].id \in Reports
    BY <1>2, InHand
  <2>2. left' \in Lefts
    BY <1>2, <2>1 DEF SilenceInv, Lefts
  <2>3. CASE ~long \/ AlwaysAsked(p)
    <3>1. UNCHANGED <<unanswered, pads>>
      BY <2>3 DEF NotesNoAnswer
    <3>2. \A q \in Pads \ DualSenses : left'[q] = left[q]
      BY <2>3 DEF AlwaysAsked, SilenceInv, Lefts
    <3> QED
      BY <2>2, <3>1, <3>2 DEF SilenceInv, Named
  <2>4. CASE long /\ ~AlwaysAsked(p)
    <3> DEFINE now == With(pads, p, {ask[p].id})
    <3>1. unanswered' = [unanswered EXCEPT ![p] = @ \cup {ask[p].id}] /\ pads' = now
      BY <1>2, <2>4 DEF NotesNoAnswer
    <3>2. unanswered' \in Sets
      BY <2>1, <3>1 DEF SilenceInv, Sets
    <3>3. DOMAIN now \subseteq Pads \ Nameless
      BY WithKeeps, WithRoom DEF SilenceInv
    <3>4. left'[p].bridge \subseteq left[p].bridge \cup {ask[p].id}
          /\ left'[p].run \subseteq left[p].run \cup {ask[p].id}
          /\ \A q \in Pads : q # p => left'[q] = left[q]
      BY DEF SilenceInv, Lefts
    <3>5. ASSUME NEW q \in Pads \ DualSenses
          PROVE  /\ left'[q].bridge \subseteq unanswered'[q]
                 /\ q \in DOMAIN now => left'[q].run \subseteq now[q]
                 /\ Named(q) /\ q \notin DOMAIN now /\ left'[q].run # {}
                       => Cardinality(DOMAIN now) >= PadsMax
      <4>1. left'[q].bridge \subseteq unanswered'[q]
        BY <3>1, <3>4 DEF SilenceInv, Sets
      <4>2. CASE q = p
        <5>1. CASE p \in DOMAIN now
          <6>1. p \notin DOMAIN pads => left[p].run = {}
            BY <5>1, <3>3, WithRoom, <4>2 DEF SilenceInv, Named
          <6>2. ask[p].id \in now[p] /\ left[p].run \subseteq now[p]
            <7>1. p \in Pads \ DualSenses /\ p \notin Nameless
              BY <4>2, <5>1, <3>3
            <7>2. CASE p \in DOMAIN pads
              <8>1. now[p] = pads[p] \cup {ask[p].id}
                BY <5>1, <7>1, <7>2, WithAdds
              <8>2. left[p].run \subseteq pads[p]
                BY <7>1, <7>2 DEF SilenceInv
              <8> QED
                BY <8>1, <8>2
            <7>3. CASE p \notin DOMAIN pads
              <8>1. now[p] = {ask[p].id}
                BY <5>1, <7>1, <7>3, WithAdds
              <8> QED
                BY <6>1, <7>3, <8>1
            <7> QED
              BY <7>2, <7>3
          <6> QED
            BY <3>4, <4>1, <4>2, <5>1, <6>2
        <5>2. CASE p \notin DOMAIN now
          BY <4>1, <4>2, <5>2, WithRoom DEF Named
        <5> QED
          BY <5>1, <5>2
      <4>3. CASE q # p
        <5>1. left'[q].run = left[q].run
          BY <3>4, <4>3
        <5>2. q \in DOMAIN now <=> q \in DOMAIN pads
          BY <4>3, WithKeeps
        <5>3. CASE q \in DOMAIN now
          BY <4>1, <5>1, <5>2, <5>3, WithKeeps DEF SilenceInv
        <5>4. CASE q \notin DOMAIN now
          BY <4>1, <5>1, <5>2, <5>4, WithRoom DEF SilenceInv
        <5> QED
          BY <5>3, <5>4
      <4> QED
        BY <4>2, <4>3
    <3> HIDE DEF now
    <3> QED
      BY <2>2, <3>1, <3>2, <3>3, <3>5 DEF SilenceInv
  <2> QED
    BY <2>3, <2>4
<1> QED
  BY <1>1, <1>2

\* What another pad's request does to a pad: nothing, but that it may have waited.
Untouched(q) ==
    /\ ask'[q] = ask[q] \/ /\ ask[q].at = "waiting"
                            /\ ask'[q] = [ask[q] EXCEPT !.long = TRUE]
    /\ left'[q].run = left[q].run /\ left'[q].bridge \subseteq left[q].bridge
    /\ q \in DOMAIN pads' <=> q \in DOMAIN pads

\* A pad that no step touches is not asked again what it left unanswered.
LEMMA StaysSilent ==
    ASSUME AskInv, SilentAskedOnce, NEW q \in Pads \ DualSenses, Untouched(q),
           ask'[q] # None, ask'[q].get
    PROVE  ask'[q].id \notin
              left'[q].bridge \cup (IF q \in DOMAIN pads' THEN left'[q].run ELSE {})
<1>1. CASE ask'[q] = ask[q]
  BY <1>1 DEF Untouched, SilentAskedOnce
<1>2. CASE ask[q].at = "waiting" /\ ask'[q] = [ask[q] EXCEPT !.long = TRUE]
  <2>1. ask[q] # None /\ ask[q] \in Asked \cup Told
    BY <1>2, InHand DEF None
  <2>2. ask'[q].get = ask[q].get /\ (ask[q] \in Asked => ask'[q].id = ask[q].id)
    <3>1. CASE ask[q] \in Asked
      BY <1>2, <3>1 DEF Asked
    <3>2. CASE ask[q] \in Told
      <4>1. ask[q] \notin Asked
        BY <3>2 DEF Asked, Told
      <4>2. ask'[q].get = ask[q].get
        BY <1>2, <3>2 DEF Told
      <4> QED
        BY <4>1, <4>2
    <3> QED
      BY <2>1, <3>1, <3>2
  <2>3. ask[q].get /\ ask'[q].id = ask[q].id
    BY <1>2, <2>2, InHand
  <2> QED
    BY <2>1, <2>3 DEF Untouched, SilentAskedOnce
<1> QED
  BY <1>1, <1>2 DEF Untouched

\* The whole of it, action by action.
LEMMA SilenceStep ==
    ASSUME IInv, Next
    PROVE  SilenceInv' /\ SilentAskedOnce'
<1> USE DEF IInv
<1>1. ASSUME NEW p \in Pads, NEW id \in Reports, NEW len \in Lengths, Get(p, id, len)
      PROVE  SilenceInv' /\ SilentAskedOnce'
  <2>1. SilenceInv'
    <3>1. CASE UNCHANGED unanswered
      BY <1>1, <3>1 DEF Get, SilenceInv, Named
    <3>2. CASE unanswered' = [unanswered EXCEPT ![p] = @ \cup {id}]
      BY <1>1, <3>2 DEF Get, SilenceInv, Named, Sets
    <3> QED
      BY <1>1, <3>1, <3>2 DEF Get
  <2>2. CASE UNCHANGED ask
    BY <1>1, <2>1, <2>2 DEF Get, SilentAskedOnce
  <2>3. CASE ~Refused(p, id) /\ ask' = [ask EXCEPT ![p] =
              [at |-> "waiting", get |-> TRUE, id |-> id, len |-> len, long |-> FALSE]]
    <3>1. UNCHANGED <<left, pads>>
      BY <1>1 DEF Get
    <3>2. ASSUME p \notin DualSenses
          PROVE  id \notin left[p].bridge \cup (IF p \in DOMAIN pads THEN left[p].run ELSE {})
      <4>1. id \notin unanswered[p] \cup Held(pads, p)
        BY <2>3, <3>2 DEF Refused, AlwaysAsked
      <4>2. p \in DOMAIN pads => Held(pads, p) = pads[p]
        BY DEF Held, Named, SilenceInv
      <4> QED
        BY <3>2, <4>1, <4>2 DEF SilenceInv
    <3>3. ask'[p].id = id /\ \A q \in Pads : q # p => ask'[q] = ask[q]
      BY <2>3 DEF AskInv
    <3> QED
      BY <2>1, <3>1, <3>2, <3>3 DEF SilentAskedOnce
  <2> QED
    BY <1>1, <2>1, <2>2, <2>3 DEF Get
<1>2. ASSUME NEW p \in Pads, Set(p) PROVE SilenceInv' /\ SilentAskedOnce'
  <2>1. ask'[p].get = FALSE /\ \A q \in Pads : q # p => ask'[q] = ask[q]
    BY <1>2 DEF Set, AskInv
  <2>2. UNCHANGED <<unanswered, pads, left>>
    BY <1>2 DEF Set
  <2> QED
    BY <2>1, <2>2 DEF SilenceInv, SilentAskedOnce, Named
<1>3. ASSUME NEW p \in Pads, Enters(p) PROVE SilenceInv' /\ SilentAskedOnce'
  <2>1. UNCHANGED <<unanswered, pads, left>>
    BY <1>3 DEF Enters
  <2>2. ask[p] # None /\ ask[p] \in Asked \cup Told
    BY <1>3, InHand DEF Enters, None
  <2>3. ask'[p] = [ask[p] EXCEPT !.at = "asked"] /\ \A q \in Pads : q # p => ask'[q] = ask[q]
    BY <1>3 DEF Enters, AskInv
  <2>4. CASE ask[p] \in Asked
    <3>1. ask'[p].id = ask[p].id /\ ask[p].get
      BY <2>3, <2>4 DEF Asked
    <3> QED
      BY <2>1, <2>2, <2>3, <3>1 DEF SilenceInv, SilentAskedOnce, Named
  <2>5. CASE ask[p] \in Told
    <3>1. ask'[p].get = FALSE
      BY <2>3, <2>5 DEF Told
    <3> QED
      BY <2>1, <2>3, <3>1 DEF SilenceInv, SilentAskedOnce, Named
  <2> QED
    BY <2>2, <2>4, <2>5
<1>4. ASSUME NEW p \in Pads, Answers(p) PROVE SilenceInv' /\ SilentAskedOnce'
  <2>1. UNCHANGED <<unanswered, pads, left>>
    BY <1>4 DEF Answers
  <2>2. ask'[p] = None /\ \A q \in Pads : q # p => ask'[q] = ask[q]
    BY <1>4 DEF Answers, AskInv
  <2>3. SilenceInv'
    BY <2>1 DEF SilenceInv, Named
  <2> QED
    BY <2>1, <2>2, <2>3 DEF SilentAskedOnce
<1>5. ASSUME NEW p \in Pads, TurnsDown(p) \/ GivesNoAnswer(p)
      PROVE  SilenceInv' /\ SilentAskedOnce'
  <2>1. PICK long \in BOOLEAN :
            /\ NotesNoAnswer(p, long)
            /\ left' = left \/ (long /\ left' = IF ~ask[p].get THEN left
                              ELSE [left EXCEPT ![p] = [bridge |-> @.bridge \cup {ask[p].id},
                                                        run |-> @.run \cup {ask[p].id}]])
    <3>1. CASE TurnsDown(p)
      <4>1. ask[p].long \in BOOLEAN
        BY <3>1, InHand DEF TurnsDown, Asked, Told
      <4> QED
        BY <3>1, <4>1 DEF TurnsDown
    <3>2. CASE GivesNoAnswer(p)
      BY <3>2 DEF GivesNoAnswer
    <3> QED
      BY <1>5, <3>1, <3>2
  <2>2. ask[p].at = "asked"
    BY <1>5 DEF TurnsDown, GivesNoAnswer
  <2>3. SilenceInv'
    BY <2>1, <2>2, Remembers
  <2>4. ask'[p] = None
    BY <1>5 DEF TurnsDown, GivesNoAnswer, AskInv
  <2>5. ASSUME NEW q \in Pads, q # p PROVE Untouched(q)
    <3>1. ask'[q] = ask[q] \/ (ask[q].at = "waiting" /\ ask'[q] = [ask[q] EXCEPT !.long = TRUE])
      BY <1>5, <2>5 DEF TurnsDown, GivesNoAnswer, AskInv
    <3>2. left'[q] = left[q]
      BY <2>1, <2>5 DEF SilenceInv, Lefts
    <3>3. q \in DOMAIN pads' <=> q \in DOMAIN pads
      BY <2>1, <2>5, WithKeeps DEF NotesNoAnswer
    <3> QED
      BY <3>1, <3>2, <3>3 DEF Untouched
  <2>6. SilentAskedOnce'
    BY <2>4, <2>5, StaysSilent DEF SilentAskedOnce
  <2> QED
    BY <2>3, <2>6
<1>6. ASSUME NEW p \in Pads, NEW bus \in {"BT", "USB"}, Bridges(p, bus)
      PROVE  SilenceInv' /\ SilentAskedOnce'
  <2>1. /\ left' \in Lefts /\ unanswered' \in Sets
        /\ left'[p].bridge = {} /\ left'[p].run = left[p].run
        /\ \A q \in Pads : q # p => left'[q] = left[q] /\ unanswered'[q] = unanswered[q]
    BY <1>6 DEF Bridges, SilenceInv, Lefts, Sets
  <2>2. UNCHANGED <<pads, ask>>
    BY <1>6 DEF Bridges
  <2>3. SilenceInv'
    BY <2>1, <2>2 DEF SilenceInv, Named
  <2>4. \A q \in Pads : Untouched(q)
    BY <2>1, <2>2 DEF Untouched
  <2> QED
    BY <2>3, <2>4, StaysSilent DEF SilentAskedOnce
<1>7. ASSUME NEW p \in Pads, Releases(p) PROVE SilenceInv' /\ SilentAskedOnce'
  BY <1>7 DEF Releases, SilenceInv, SilentAskedOnce, Named
<1>8. CASE AppRestarts
  BY <1>8 DEF AppRestarts, Nothing, NoneLeft, SilenceInv, SilentAskedOnce, Sets, Lefts
<1> QED
  BY <1>1, <1>2, <1>3, <1>4, <1>5, <1>6, <1>7, <1>8 DEF Next

\* A report that a pad left unanswered for the whole wait is not asked of it again, on that
\* bridge nor, where the table has the pad, on its later ones (feature_pad_remember,
\* feature_unanswered).
THEOREM SilenceIsMetOnce == Spec => []SilentAskedOnce
<1>1. Init => IInv
  BY DEF Init, IInv, AskInv, SilenceInv, SilentAskedOnce, Nothing, NoneLeft, Sets, Lefts
<1>2. IInv /\ [Next]_vars => IInv'
  <2>1. ASSUME IInv, UNCHANGED vars PROVE IInv'
    BY <2>1 DEF vars, IInv, AskInv, SilenceInv, SilentAskedOnce, Named
  <2> QED
    BY <2>1, AskStep, SilenceStep DEF IInv
<1>3. IInv => SilentAskedOnce
  BY DEF IInv
<1> QED
  BY <1>1, <1>2, <1>3, PTL DEF Spec

-----------------------------------------------------------------------------
\* Only answers given over Bluetooth are kept; what was said from memory was asked for
\* over Bluetooth, and a DualSense was refused nothing.
Kept == [id : Reports, len : Lengths, bus : {"BT"}]
Recalled == [from : {"memory"}, answer : Kept, own : Kept]
Asking == {NothingSaid, [from |-> "refused"], [from |-> "pad"], [from |-> "failed"]}
MemoryInv ==
    /\ \A p \in DOMAIN answers : answers[p] \subseteq Kept
    /\ said \in [Pads -> Recalled \cup Asking]
    /\ UnaskedIsTrue

\* What a table holds of each pad is made of kept answers.
LEMMA WithOf ==
    ASSUME NEW table, NEW p, NEW set \in SUBSET Kept, \A q \in DOMAIN table : table[q] \subseteq Kept
    PROVE  \A q \in DOMAIN With(table, p, set) : With(table, p, set)[q] \subseteq Kept
BY DEF With

\* feature_memory_keep puts a kept answer among kept answers.
LEMMA KeepsKept ==
    ASSUME MemoryInv, NEW p \in Pads, NEW answer \in Kept
    PROVE  \A q \in DOMAIN Keep(p, answer) : Keep(p, answer)[q] \subseteq Kept
<1> DEFINE others == {a \in Held(answers, p) : a.id # answer.id}
           without == IF p \in DOMAIN answers THEN [answers EXCEPT ![p] = others] ELSE answers
<1>1. others \subseteq Kept
  BY DEF MemoryInv, Held
<1>2. \A q \in DOMAIN without : without[q] \subseteq Kept
  BY <1>1 DEF MemoryInv
<1>3. {answer} \in SUBSET Kept
  OBVIOUS
<1>4. \A q \in DOMAIN With(without, p, {answer}) : With(without, p, {answer})[q] \subseteq Kept
  <2> HIDE DEF without
  <2> QED
    BY <1>2, <1>3, WithOf
<1> QED
  BY <1>4 DEF Keep, MemoryInv

\* What a step says to a pad's PC.
LEMMA Says ==
    ASSUME MemoryInv, NEW p \in Pads, NEW reply \in Recalled \cup Asking,
           said' = [said EXCEPT ![p] = reply],
           reply.from = "memory" => reply.answer = reply.own,
           p \in DualSenses => reply.from # "refused",
           \A q \in DOMAIN answers' : answers'[q] \subseteq Kept
    PROVE  MemoryInv'
BY DEF MemoryInv, UnaskedIsTrue, MemoryIsTrue, DualSenseIsAsked, PadsAssumption

\* Before anything is said.
LEMMA Untold ==
    ASSUME said = [p \in Pads |-> NothingSaid], answers = Nothing
    PROVE  MemoryInv
<1>1. \A q \in DOMAIN answers : answers[q] \subseteq Kept
  BY DEF Nothing
<1>2. said \in [Pads -> Recalled \cup Asking]
  BY DEF Asking
<1>3. \A p \in Pads : said[p].from = "none"
  BY DEF NothingSaid
<1>4. UnaskedIsTrue
  BY <1>3, PadsAssumption DEF UnaskedIsTrue, MemoryIsTrue, DualSenseIsAsked
<1> QED
  BY <1>1, <1>2, <1>4 DEF MemoryInv

\* Every step keeps what is remembered true.
LEMMA MemoryStep ==
    ASSUME AskInv, MemoryInv, Next
    PROVE  MemoryInv'
<1> USE DEF Asking, NothingSaid
<1>1. ASSUME NEW p \in Pads, NEW id \in Reports, NEW len \in Lengths, Get(p, id, len)
      PROVE  MemoryInv'
  <2>1. UNCHANGED answers
    BY <1>1 DEF Get
  <2>2. CASE UNCHANGED said
    BY <2>1, <2>2 DEF MemoryInv, UnaskedIsTrue, MemoryIsTrue, DualSenseIsAsked
  <2>3. ASSUME NEW a \in Recall(p, id, len), KeptFor(p),
               said' = [said EXCEPT ![p] =
                          [from |-> "memory", answer |-> a, own |-> Answer(p, id, len)]]
        PROVE  MemoryInv'
    <3> DEFINE reply == [from |-> "memory", answer |-> a, own |-> Answer(p, id, len)]
    <3>1. a \in Kept /\ a.id = id /\ a.len = len
      BY DEF Recall, Held, MemoryInv
    <3>2. Answer(p, id, len) \in Kept /\ a = Answer(p, id, len)
      BY <2>3, <3>1 DEF Kept, KeptFor, Answer
    <3>3. reply \in Recalled /\ reply.from = "memory" /\ reply.answer = reply.own
      BY <3>1, <3>2 DEF Recalled
    <3> QED
      BY <2>1, <2>3, <3>3, Says DEF MemoryInv
  <2>4. CASE Refused(p, id) /\ said' = [said EXCEPT ![p] = [from |-> "refused"]]
    <3>1. p \notin DualSenses
      BY <2>4 DEF Refused, AlwaysAsked
    <3> QED
      BY <2>1, <2>4, <3>1, Says DEF MemoryInv
  <2> QED
    BY <1>1, <2>2, <2>3, <2>4 DEF Get
<1>2. ASSUME NEW p \in Pads, Answers(p) PROVE MemoryInv'
  <2>1. \A q \in DOMAIN answers' : answers'[q] \subseteq Kept
    <3>1. CASE ask[p].get /\ KeptFor(p)
      <4>1. ask[p] \in Asked
        BY <1>2, <3>1, InHand DEF Answers
      <4>2. Answer(p, ask[p].id, ask[p].len) \in Kept
        BY <3>1, <4>1 DEF Asked, Kept, Answer, KeptFor
      <4> QED
        BY <1>2, <3>1, <4>2, KeepsKept DEF Answers
    <3>2. CASE ~(ask[p].get /\ KeptFor(p))
      BY <1>2, <3>2 DEF Answers, MemoryInv
    <3> QED
      BY <3>1, <3>2
  <2>2. said' = [said EXCEPT ![p] = [from |-> "pad"]]
    BY <1>2 DEF Answers
  <2> QED
    BY <2>1, <2>2, Says
<1>3. ASSUME NEW p \in Pads, TurnsDown(p) \/ GivesNoAnswer(p) PROVE MemoryInv'
  <2>1. said' = [said EXCEPT ![p] = [from |-> "failed"]] /\ UNCHANGED answers
    BY <1>3 DEF TurnsDown, GivesNoAnswer, Fails
  <2> QED
    BY <2>1, Says DEF MemoryInv
<1>4. ASSUME NEW p \in Pads, NEW bus \in {"BT", "USB"}, Bridges(p, bus) PROVE MemoryInv'
  <2>1. said' = [said EXCEPT ![p] = NothingSaid] /\ UNCHANGED answers
    BY <1>4 DEF Bridges
  <2> QED
    BY <2>1, Says DEF MemoryInv
<1>5. CASE AppRestarts
  <2>1. said' = [p \in Pads |-> NothingSaid] /\ answers' = Nothing
    BY <1>5 DEF AppRestarts
  <2>2. \A q \in DOMAIN answers' : answers'[q] \subseteq Kept
    BY <2>1 DEF Nothing
  <2>3. said' \in [Pads -> Recalled \cup Asking]
    BY <2>1
  <2>4. \A p \in Pads : said'[p].from = "none"
    BY <2>1
  <2>5. UnaskedIsTrue'
    BY <2>4, PadsAssumption DEF UnaskedIsTrue, MemoryIsTrue, DualSenseIsAsked
  <2> QED
    BY <2>2, <2>3, <2>5 DEF MemoryInv
<1>6. CASE UNCHANGED <<said, answers>>
  BY <1>6 DEF MemoryInv, UnaskedIsTrue, MemoryIsTrue, DualSenseIsAsked
<1> QED
  BY <1>1, <1>2, <1>3, <1>4, <1>5, <1>6 DEF Next, Set, Enters, Releases

\* What the PC is told without the pad being asked is what the pad would say: its own
\* answer to that very question over that bus (feature_answer_recall), and no refusal of
\* a DualSense's (feature_pad_always_asked).
THEOREM UnaskedRepliesAreTrue == Spec => []UnaskedIsTrue
<1>1. Init => AskInv /\ MemoryInv
  BY Untold DEF Init, AskInv
<1>2. AskInv /\ MemoryInv /\ [Next]_vars => (AskInv /\ MemoryInv)'
  <2>1. ASSUME AskInv, MemoryInv, UNCHANGED vars PROVE (AskInv /\ MemoryInv)'
    BY <2>1 DEF vars, AskInv, MemoryInv, UnaskedIsTrue, MemoryIsTrue, DualSenseIsAsked
  <2> QED
    BY <2>1, AskStep, MemoryStep
<1>3. MemoryInv => UnaskedIsTrue
  BY DEF MemoryInv
<1> QED
  BY <1>1, <1>2, <1>3, PTL DEF Spec

-----------------------------------------------------------------------------
(* The state of an Xbox pad that is read by events. *)

Marks == {"REPORT", "DROPPED"}
Events == [code : Codes \cup Marks, value : Int]
Bits == {KeyBit[k] : k \in Keys}
States == [on : SUBSET Bits, axis : [AbsAxes -> Int]]

\* The codes a pad has that reports its directions by keys, or by a hat.
WaysOf(byKeys) == Codes \ (IF byKeys THEN Hats ELSE Directions)
Ways == WaysOf(hatKeys)

\* The types, and the queue's length.
XpadTypes ==
    /\ hatKeys \in BOOLEAN /\ resync \in BOOLEAN
    /\ held \in [Codes -> Int]
    /\ queue \in Seq(Events) /\ Len(queue) <= QueueCap + 1
    /\ st \in States
    /\ at \in {"events", "axes", "keys"}
    /\ hat \in Int \X Int

Pending(c) == \E j \in 1 .. Len(queue) : queue[j].code = c

\* What the pad does not report its directions by is at rest, and never in the queue.
OneWay ==
    /\ \A c \in Codes \ Ways : held[c] = 0
    /\ \A j \in 1 .. Len(queue) : queue[j].code \in Ways \/ queue[j] \in {Syn, Dropped}

\* The last event kept for a code has the value the driver holds.
Truthful ==
    \A j \in 1 .. Len(queue) :
        queue[j].code \in Codes =>
            \/ queue[j].value = held[queue[j].code]
            \/ \E l \in j + 1 .. Len(queue) : queue[l].code = queue[j].code

\* A state that shows value v of code c.
Shows(s, c, v) ==
    /\ c \in Keys => (KeyBit[c] \in s.on <=> v # 0)
    /\ c \in AbsAxes => s.axis[c] = v
    /\ c = "HAT0X" => /\ <<"dpad", 8>> \in s.on <=> v < 0
                      /\ <<"dpad", 2>> \in s.on <=> v > 0
    /\ c = "HAT0Y" => /\ <<"dpad", 1>> \in s.on <=> v < 0
                      /\ <<"dpad", 4>> \in s.on <=> v > 0

\* While events are read and none was dropped, the state shows what no event is kept for.
EventsInv ==
    at = "events" /\ ~resync /\ ~Pending("DROPPED") =>
        \A c \in Ways : Shows(st, c, held[c]) \/ Pending(c)

\* Between the axes and the keys, the axes do, and so does the hat that was read.
AxesInv ==
    at = "keys" /\ ~Pending("DROPPED") =>
        /\ \A c \in AbsAxes : st.axis[c] = held[c] \/ Pending(c)
        /\ hat[1] = held["HAT0X"] \/ Pending("HAT0X")
        /\ hat[2] = held["HAT0Y"] \/ Pending("HAT0Y")

XpadInv == XpadTypes /\ OneWay /\ Truthful /\ EventsInv /\ AxesInv

USE XpadAssumption

-----------------------------------------------------------------------------
(* The codes and their bits. *)

\* No two keys have a bit in common.
LEMMA BitsApart == \A k, l \in Keys : KeyBit[k] = KeyBit[l] => k = l
BY DEF Keys, KeyBit

\* The directions have the bits of the four keys, and no other key has any of those.
LEMMA DirectionBits ==
    /\ Directions \subseteq Keys
    /\ \A k \in Keys : KeyBit[k] = <<KeyBit[k][1], KeyBit[k][2]>>
    /\ \A k \in Keys : KeyBit[k][1] = "dpad" <=> k \in Directions
    /\ KeyBit["HAPPY1"] = <<"dpad", 8>> /\ KeyBit["HAPPY2"] = <<"dpad", 2>>
    /\ KeyBit["HAPPY3"] = <<"dpad", 1>> /\ KeyBit["HAPPY4"] = <<"dpad", 4>>
BY DEF Keys, KeyBit, Directions

\* Keys, axes and hats are different codes, and a mark is none of them.
LEMMA CodesApart ==
    /\ Keys \cap AbsAxes = {} /\ Keys \cap Hats = {} /\ AbsAxes \cap Hats = {}
    /\ Codes \cap Marks = {}
BY DEF Keys, KeyBit, AbsAxes, Hats, Codes, Marks

\* A hat's axis sets bits of the directions only, and at most one of its two.
LEMMA HatBitsAre ==
    ASSUME NEW v \in Int, NEW m \in {1, 8}, NEW p \in {2, 4}
    PROVE  /\ HatBits(m, p, v) \subseteq {<<"dpad", m>>, <<"dpad", p>>}
           /\ <<"dpad", m>> \in HatBits(m, p, v) <=> v < 0
           /\ <<"dpad", p>> \in HatBits(m, p, v) <=> v > 0
<1>1. <<"dpad", m>> # <<"dpad", p>>
  BY DEF HatBits
<1> QED
  BY <1>1 DEF HatBits

\* An event is shown by the state it is fed into, and nothing else is shown otherwise.
LEMMA Feeds ==
    ASSUME NEW s \in States, NEW byKeys \in BOOLEAN, NEW e \in Events,
           e.code \in WaysOf(byKeys) \cup Marks
    PROVE  /\ ApplyEvent(s, e) \in States
           /\ \A c \in WaysOf(byKeys), v \in Int :
                 IF c = e.code THEN v = e.value => Shows(ApplyEvent(s, e), c, v)
                 ELSE Shows(s, c, v) => Shows(ApplyEvent(s, e), c, v)
<1>1. CASE e.code \in Keys
  <2>1. ApplyEvent(s, e) = [s EXCEPT !.on = IF e.value # 0 THEN @ \cup {KeyBit[e.code]}
                                            ELSE @ \ {KeyBit[e.code]}]
    BY <1>1, CodesApart DEF ApplyEvent, Key, Hats
  <2>2. ApplyEvent(s, e) \in States
    BY <1>1, <2>1 DEF States, Bits
  <2>3. ASSUME NEW c \in WaysOf(byKeys), NEW v \in Int
        PROVE  IF c = e.code THEN v = e.value => Shows(ApplyEvent(s, e), c, v)
               ELSE Shows(s, c, v) => Shows(ApplyEvent(s, e), c, v)
    <3>1. CASE c \in Keys
      BY <1>1, <2>1, <3>1, BitsApart, CodesApart DEF Shows, States, Hats
    <3>2. CASE c \in AbsAxes
      BY <1>1, <2>1, <3>2, CodesApart DEF Shows, States, Hats
    <3>3. CASE c \in Hats
      <4>1. e.code \notin Directions
        BY <1>1, <3>3, CodesApart DEF WaysOf, Codes
      <4>2. KeyBit[e.code] \notin {<<"dpad", 8>>, <<"dpad", 2>>, <<"dpad", 1>>, <<"dpad", 4>>}
        BY <1>1, <4>1, DirectionBits, BitsApart DEF Directions
      <4> QED
        BY <1>1, <2>1, <3>3, <4>2, CodesApart DEF Shows, States, Hats
    <3> QED
      BY <3>1, <3>2, <3>3 DEF WaysOf, Codes
  <2> QED
    BY <2>2, <2>3
<1>2. CASE e.code \in AbsAxes
  <2>1. ApplyEvent(s, e) = [s EXCEPT !.axis[e.code] = e.value]
    BY <1>2, CodesApart DEF ApplyEvent, Hats
  <2> QED
    BY <1>2, <2>1, CodesApart DEF Shows, States, Events, Hats
<1>3. CASE e.code \in Hats
  <2> DEFINE m == IF e.code = "HAT0X" THEN 8 ELSE 1
             p == IF e.code = "HAT0X" THEN 2 ELSE 4
             bits == HatBits(m, p, e.value)
  <2>1. ApplyEvent(s, e) = [s EXCEPT !.on = (@ \ {<<"dpad", m>>, <<"dpad", p>>}) \cup bits]
    BY <1>3, CodesApart DEF ApplyEvent, DpadAxis, Hats
  <2>2. /\ bits \subseteq {<<"dpad", m>>, <<"dpad", p>>}
        /\ <<"dpad", m>> \in bits <=> e.value < 0
        /\ <<"dpad", p>> \in bits <=> e.value > 0
    BY HatBitsAre DEF Events
  <2>3. {<<"dpad", 8>>, <<"dpad", 2>>, <<"dpad", 1>>, <<"dpad", 4>>} \subseteq Bits
    BY DirectionBits DEF Bits, Directions
  <2> HIDE DEF bits
  <2>4. ApplyEvent(s, e) \in States
    BY <2>1, <2>2, <2>3 DEF States
  <2>5. ASSUME NEW c \in WaysOf(byKeys), NEW v \in Int
        PROVE  IF c = e.code THEN v = e.value => Shows(ApplyEvent(s, e), c, v)
               ELSE Shows(s, c, v) => Shows(ApplyEvent(s, e), c, v)
    <3>1. CASE c \in Keys
      <4>1. KeyBit[c] \notin {<<"dpad", 8>>, <<"dpad", 2>>, <<"dpad", 1>>, <<"dpad", 4>>}
        BY <1>3, <3>1, DirectionBits, BitsApart, CodesApart DEF Directions, WaysOf, Marks, Hats
      <4> QED
        BY <1>3, <2>1, <2>2, <3>1, <4>1, CodesApart DEF Shows, States, Hats
    <3>2. CASE c \in AbsAxes
      BY <1>3, <2>1, <3>2, CodesApart DEF Shows, States, Hats
    <3>3. CASE c = "HAT0X"
      BY <1>3, <2>1, <2>2, <3>3, CodesApart DEF Shows, States, Hats
    <3>4. CASE c = "HAT0Y"
      BY <1>3, <2>1, <2>2, <3>4, CodesApart DEF Shows, States, Hats
    <3> QED
      BY <3>1, <3>2, <3>3, <3>4 DEF WaysOf, Codes, Hats
  <2> QED
    BY <2>4, <2>5
<1>4. CASE e.code \in Marks
  <2>1. ApplyEvent(s, e) = s /\ e.code \notin Codes
    BY <1>4, CodesApart DEF ApplyEvent, Codes, Hats
  <2> QED
    BY <2>1 DEF WaysOf
<1> QED
  BY <1>1, <1>2, <1>3, <1>4 DEF WaysOf, Codes

\* A state that shows every key of a set, and a hat when the four direction keys are up.
WholeIs(s, keys, x, y, axis) ==
    /\ s \in States /\ s.axis = axis
    /\ \A k \in Keys \ Directions : KeyBit[k] \in s.on <=> k \in keys
    /\ x = 0 /\ y = 0 => \A k \in Keys : KeyBit[k] \in s.on <=> k \in keys
    /\ keys \cap Directions = {} =>
          /\ <<"dpad", 8>> \in s.on <=> x < 0
          /\ <<"dpad", 2>> \in s.on <=> x > 0
          /\ <<"dpad", 1>> \in s.on <=> y < 0
          /\ <<"dpad", 4>> \in s.on <=> y > 0

\* What is read whole is one.
LEMMA WholeShows ==
    ASSUME NEW keys \in SUBSET Keys, NEW x \in Int, NEW y \in Int, NEW axis \in [AbsAxes -> Int]
    PROVE  WholeIs(WholeState(keys, x, y, axis), keys, x, y, axis)
<1> DEFINE s == WholeState(keys, x, y, axis)
           xs == HatBits(8, 2, x)
           ys == HatBits(1, 4, y)
<1>1. /\ xs \subseteq {<<"dpad", 8>>, <<"dpad", 2>>} /\ ys \subseteq {<<"dpad", 1>>, <<"dpad", 4>>}
      /\ <<"dpad", 8>> \in xs <=> x < 0
      /\ <<"dpad", 2>> \in xs <=> x > 0
      /\ <<"dpad", 1>> \in ys <=> y < 0
      /\ <<"dpad", 4>> \in ys <=> y > 0
  BY HatBitsAre
<1>2. s.on = {KeyBit[k] : k \in keys} \cup xs \cup ys /\ s.axis = axis
      /\ s = [on |-> s.on, axis |-> axis]
  BY DEF WholeState
<1>3. x = 0 => xs = {}
  BY DEF HatBits
<1>4. y = 0 => ys = {}
  BY DEF HatBits
<1>5. {<<"dpad", 8>>, <<"dpad", 2>>, <<"dpad", 1>>, <<"dpad", 4>>} \subseteq Bits
  BY DirectionBits DEF Bits, Directions
<1> HIDE DEF xs, ys, s
<1>6. s \in States
  BY <1>1, <1>2, <1>5 DEF States, Bits
<1>7. \A k \in Keys : KeyBit[k] \in {KeyBit[l] : l \in keys} <=> k \in keys
  BY BitsApart
<1>8. \A k \in Keys \ Directions : KeyBit[k] \notin xs \cup ys
  BY <1>1, DirectionBits, BitsApart DEF Directions
<1>9. \A k \in Keys \ Directions : KeyBit[k] \in s.on <=> k \in keys
  BY <1>2, <1>7, <1>8
<1>10. x = 0 /\ y = 0 => \A k \in Keys : KeyBit[k] \in s.on <=> k \in keys
  BY <1>2, <1>3, <1>4, <1>7
<1>11. keys \cap Directions = {} =>
           \A k \in Directions : KeyBit[k] \notin {KeyBit[l] : l \in keys}
  BY <1>7, DirectionBits
<1>12. keys \cap Directions = {} =>
           /\ <<"dpad", 8>> \in s.on <=> x < 0
           /\ <<"dpad", 2>> \in s.on <=> x > 0
           /\ <<"dpad", 1>> \in s.on <=> y < 0
           /\ <<"dpad", 4>> \in s.on <=> y > 0
  BY <1>1, <1>2, <1>11, DirectionBits DEF Directions
<1> QED
  <2>1. WholeIs(s, keys, x, y, axis)
    BY <1>2, <1>6, <1>9, <1>10, <1>12 DEF WholeIs
  <2> QED
    BY <2>1 DEF s

-----------------------------------------------------------------------------
(* The steps. *)

\* A queue that loses its head.
LEMMA Tails ==
    ASSUME NEW q \in Seq(Events), q # <<>>
    PROVE  /\ Head(q) = q[1] /\ q[1] \in Events
           /\ Tail(q) \in Seq(Events)
           /\ Len(q) \in Nat \ {0} /\ Len(Tail(q)) = Len(q) - 1
           /\ \A j \in 1 .. Len(q) - 1 : Tail(q)[j] = q[j + 1]
OBVIOUS

\* Two events behind a queue.
LEMMA Appended ==
    ASSUME NEW S, NEW q \in Seq(S), NEW a \in S, NEW b \in S
    PROVE  /\ q \o <<a, b>> \in Seq(S)
           /\ Len(q) \in Nat /\ Len(q \o <<a, b>>) = Len(q) + 2
           /\ \A j \in 1 .. Len(q) : (q \o <<a, b>>)[j] = q[j]
           /\ (q \o <<a, b>>)[Len(q) + 1] = a /\ (q \o <<a, b>>)[Len(q) + 2] = b
OBVIOUS

\* A packet behind a queue.
LEMMA PacketAppended ==
    ASSUME NEW q \in Seq(Events), NEW e \in Events
    PROVE  LET t == q \o <<e, Syn>>
           IN  /\ t \in Seq(Events) /\ Len(q) \in Nat /\ Len(t) = Len(q) + 2
               /\ \A j \in 1 .. Len(q) : t[j] = q[j]
               /\ t[Len(q) + 1] = e /\ t[Len(q) + 2] = Syn
<1>1. Syn \in Events
  BY DEF Syn, Events, Marks
<1> QED
  BY <1>1, Appended

\* A packet is kept behind what there is, or behind the word that it was dropped.
LEMMA Packets ==
    ASSUME XpadTypes, NEW e \in Events
    PROVE  LET q == KernelKeeps(<<e, Syn>>)
           IN  /\ q \in Seq(Events) /\ Len(q) <= QueueCap + 1 /\ Len(queue) \in Nat
               /\ \/ /\ Len(q) = Len(queue) + 2
                     /\ \A j \in 1 .. Len(queue) : q[j] = queue[j]
                     /\ q[Len(queue) + 1] = e /\ q[Len(queue) + 2] = Syn
                  \/ Len(q) = 3 /\ q[1] = Dropped /\ q[2] = e /\ q[3] = Syn
<1> DEFINE q == KernelKeeps(<<e, Syn>>)
           d == <<Dropped>>
<1>1. queue \in Seq(Events) /\ Len(queue) \in Nat
  BY DEF XpadTypes
<1>2. d \in Seq(Events) /\ Len(d) = 1 /\ d[1] = Dropped
  BY DEF Dropped, Events, Marks
<1>3. q = queue \o <<e, Syn>> \/ q = d \o <<e, Syn>>
  BY DEF KernelKeeps
<1> HIDE DEF d, q
<1>4. q = queue \o <<e, Syn>> =>
          /\ q \in Seq(Events) /\ Len(q) = Len(queue) + 2
          /\ \A j \in 1 .. Len(queue) : q[j] = queue[j]
          /\ q[Len(queue) + 1] = e /\ q[Len(queue) + 2] = Syn
  BY <1>1, PacketAppended
<1>5. ASSUME q = d \o <<e, Syn>>
      PROVE  /\ q \in Seq(Events) /\ Len(q) = Len(d) + 2
             /\ q[Len(d) + 1] = e /\ q[Len(d) + 2] = Syn
             /\ \A j \in 1 .. Len(d) : q[j] = d[j]
  BY <1>2, <1>5, PacketAppended
<1>6. q = d \o <<e, Syn>> =>
          q \in Seq(Events) /\ Len(q) = 3 /\ q[1] = Dropped /\ q[2] = e /\ q[3] = Syn
  BY <1>2, <1>5
<1> QED
  <2>1. \/ Len(queue) + 2 <= QueueCap /\ q = queue \o <<e, Syn>>
        \/ q = d \o <<e, Syn>>
    BY DEF KernelKeeps, q, d
  <2>2. QueueCap \in Nat /\ QueueCap >= 2
    OBVIOUS
  <2>3. Len(q) <= QueueCap + 1
    <3>1. CASE q = d \o <<e, Syn>>
      <4>1. Len(q) = 3
        BY <1>6, <3>1
      <4> QED
        BY <2>2, <4>1
    <3>2. CASE Len(queue) + 2 <= QueueCap /\ q = queue \o <<e, Syn>>
      <4>1. Len(q) = Len(queue) + 2
        BY <1>4, <3>2
      <4> QED
        BY <1>1, <2>2, <3>2, <4>1
    <3> QED
      BY <2>1, <3>1, <3>2
  <2> QED
    BY <1>1, <1>3, <1>4, <1>6, <2>3 DEF q

\* Nothing is read yet.
LEMMA XpadInitially == XEInit => XpadInv
<1> SUFFICES ASSUME XEInit PROVE XpadInv
  OBVIOUS
<1> USE DEF XEInit
<1>1. XpadTypes
  <2>1. Resting \in States
    BY DEF Resting, States
  <2>2. queue \in Seq(Events) /\ Len(queue) = 0 /\ QueueCap \in Nat
    OBVIOUS
  <2>3. held \in [Codes -> Int] /\ hat \in Int \X Int
    OBVIOUS
  <2>4. Len(queue) <= QueueCap + 1
    BY <2>2
  <2> QED
    BY <2>1, <2>2, <2>3, <2>4 DEF XpadTypes
<1>2. OneWay /\ Truthful
  BY DEF OneWay, Truthful, Ways, WaysOf
<1>3. EventsInv /\ AxesInv
  BY DEF EventsInv, AxesInv
<1> QED
  BY <1>1, <1>2, <1>3 DEF XpadInv

\* A code that moves is a pending one then, with its value as the last.
LEMMA MoveKeeps ==
    ASSUME XpadInv, NEW c \in PadMoves, NEW v \in ValuesOf(c), Move(c, v)
    PROVE  XpadInv'
<1> DEFINE e == [code |-> c, value |-> v]
           n == Len(queue)
<1>1. c \in Ways /\ c \in Codes /\ v \in Int /\ e \in Events
  BY DEF PadMoves, Ways, WaysOf, ValuesOf, Events
<1>2. /\ queue' \in Seq(Events) /\ Len(queue') <= QueueCap + 1 /\ n \in Nat
      /\ \/ /\ Len(queue') = n + 2
            /\ \A j \in 1 .. n : queue'[j] = queue[j]
            /\ queue'[n + 1] = e /\ queue'[n + 2] = Syn
         \/ Len(queue') = 3 /\ queue'[1] = Dropped /\ queue'[2] = e /\ queue'[3] = Syn
  BY <1>1, Packets DEF XpadInv, Move
<1>3. /\ held' = [held EXCEPT ![c] = v] /\ held \in [Codes -> Int]
      /\ UNCHANGED <<hatKeys, st, resync, at, hat>> /\ Ways' = Ways
  BY DEF Move, XpadInv, XpadTypes, Ways
<1>4. Syn.code = "REPORT" /\ Dropped.code = "DROPPED" /\ e.code = c /\ e.value = v
      /\ Codes \cap Marks = {} /\ Marks = {"REPORT", "DROPPED"}
  BY CodesApart DEF Syn, Dropped, Marks
<1> HIDE DEF e, n
<1>5. XpadTypes'
  BY <1>1, <1>2, <1>3 DEF XpadInv, XpadTypes
<1>6. OneWay'
  <2>1. \A d \in Codes \ Ways : held'[d] = 0
    BY <1>1, <1>3 DEF XpadInv, OneWay
  <2>2. \A j \in 1 .. n : queue[j].code \in Ways \/ queue[j] \in {Syn, Dropped}
    BY DEF XpadInv, OneWay, n
  <2>3. \A j \in 1 .. Len(queue') : queue'[j].code \in Ways \/ queue'[j] \in {Syn, Dropped}
    <3> SUFFICES ASSUME NEW j \in 1 .. Len(queue')
                 PROVE  queue'[j].code \in Ways \/ queue'[j] \in {Syn, Dropped}
      OBVIOUS
    <3>1. queue'[j] \in {e, Syn, Dropped} \/ (j \in 1 .. n /\ queue'[j] = queue[j])
      BY <1>2
    <3> QED
      BY <1>1, <1>4, <2>2, <3>1
  <2> QED
    BY <1>3, <2>1, <2>3 DEF OneWay
<1>7. Truthful'
  <2> SUFFICES ASSUME NEW j \in 1 .. Len(queue'), queue'[j].code \in Codes,
                      queue'[j].value # held'[queue'[j].code]
               PROVE  \E l \in j + 1 .. Len(queue') : queue'[l].code = queue'[j].code
    BY DEF Truthful
  <2>1. queue'[j] # e /\ queue'[j] # Syn /\ queue'[j] # Dropped
    BY <1>1, <1>3, <1>4
  <2>2. /\ Len(queue') = n + 2 /\ j \in 1 .. n /\ queue'[j] = queue[j]
        /\ \A l \in 1 .. n : queue'[l] = queue[l]
        /\ queue'[n + 1] = e
    BY <1>2, <2>1
  <2>3. CASE queue[j].code = c
    BY <1>2, <1>4, <2>2, <2>3
  <2>4. CASE queue[j].code # c
    <3>1. queue[j].value # held[queue[j].code] /\ queue[j].code \in Codes
      BY <1>3, <2>2, <2>4
    <3>2. PICK l \in j + 1 .. n : queue[l].code = queue[j].code
      BY <2>2, <3>1 DEF XpadInv, Truthful, n
    <3> QED
      BY <1>2, <2>2, <3>2
  <2> QED
    BY <2>3, <2>4
<1>8. CASE Len(queue') = 3 /\ queue'[1] = Dropped
  <2>1. Pending("DROPPED")'
    BY <1>4, <1>8 DEF Pending
  <2> QED
    BY <1>5, <1>6, <1>7, <2>1 DEF XpadInv, EventsInv, AxesInv
<1>9. CASE /\ Len(queue') = n + 2
           /\ \A j \in 1 .. n : queue'[j] = queue[j]
           /\ queue'[n + 1] = e
  <2>1. \A d : Pending(d) => Pending(d)'
    BY <1>2, <1>9 DEF Pending, n
  <2>2. Pending(c)'
    BY <1>2, <1>4, <1>9 DEF Pending
  <2>3. \A d \in Codes \ {c} : held'[d] = held[d]
    BY <1>3
  <2>4. EventsInv'
    BY <1>3, <2>1, <2>2, <2>3 DEF XpadInv, EventsInv, Ways, WaysOf
  <2>5. AxesInv'
    BY <1>3, <2>1, <2>2, <2>3 DEF XpadInv, AxesInv, Codes, Hats
  <2> QED
    BY <1>5, <1>6, <1>7, <2>4, <2>5 DEF XpadInv
<1> QED
  BY <1>2, <1>8, <1>9

\* The last event of a code is the one that makes the state show it.
LEMMA EventKeeps == ASSUME XpadInv, ReadEvent PROVE XpadInv'
<1> DEFINE e == Head(queue)
           n == Len(queue)
<1>1. /\ e = queue[1] /\ e \in Events /\ queue' \in Seq(Events)
      /\ n \in Nat \ {0} /\ Len(queue') = n - 1
      /\ \A j \in 1 .. n - 1 : queue'[j] = queue[j + 1]
  BY Tails DEF XpadInv, XpadTypes, ReadEvent
<1>2. /\ UNCHANGED <<hatKeys, held, hat>> /\ Ways' = Ways
      /\ at = "events" /\ resync' = (resync \/ e = Dropped)
      /\ st' = IF resync THEN st ELSE ApplyEvent(st, e)
      /\ at' = IF resync /\ e = Syn THEN "axes" ELSE "events"
  BY DEF ReadEvent, Ways
<1>3. e.code \in WaysOf(hatKeys) \/ e \in {Syn, Dropped}
  BY <1>1 DEF XpadInv, OneWay, Ways
<1>4. /\ ApplyEvent(st, e) \in States
      /\ \A c \in Ways, v \in Int :
            IF c = e.code THEN v = e.value => Shows(ApplyEvent(st, e), c, v)
            ELSE Shows(st, c, v) => Shows(ApplyEvent(st, e), c, v)
  <2>1. e.code \in WaysOf(hatKeys) \cup Marks
    BY <1>3 DEF Syn, Dropped, Marks
  <2> QED
    BY <1>1, <2>1, Feeds DEF XpadInv, XpadTypes, Ways
<1> HIDE DEF e, n
<1>5. XpadTypes'
  BY <1>1, <1>2, <1>4 DEF XpadInv, XpadTypes, n
<1>6. OneWay'
  BY <1>1, <1>2 DEF XpadInv, OneWay, n
<1>7. Truthful'
  <2> SUFFICES ASSUME NEW j \in 1 .. n - 1, queue'[j].code \in Codes,
                      queue'[j].value # held[queue'[j].code]
               PROVE  \E l \in j + 1 .. n - 1 : queue'[l].code = queue'[j].code
    BY <1>1, <1>2 DEF Truthful
  <2>1. j + 1 \in 1 .. n /\ queue'[j] = queue[j + 1]
    BY <1>1
  <2>2. PICK l \in j + 2 .. n : queue[l].code = queue[j + 1].code
    BY <1>1, <2>1 DEF XpadInv, Truthful, n
  <2>3. l - 1 \in j + 1 .. n - 1 /\ queue'[l - 1] = queue[l]
    BY <1>1, <2>2
  <2> QED
    BY <2>1, <2>2, <2>3
<1>8. \A c : Pending(c) => Pending(c)' \/ c = e.code
  <2> SUFFICES ASSUME NEW c, NEW j \in 1 .. n, queue[j].code = c, j # 1 PROVE Pending(c)'
    BY <1>1 DEF Pending, n
  <2>1. j - 1 \in 1 .. n - 1 /\ queue'[j - 1] = queue[j]
    BY <1>1
  <2> QED
    BY <1>1, <2>1 DEF Pending
<1>9. EventsInv'
  <2> SUFFICES ASSUME at' = "events", ~resync', ~Pending("DROPPED")', NEW c \in Ways
               PROVE  Shows(st', c, held[c]) \/ Pending(c)'
    BY <1>2 DEF EventsInv
  <2>1. ~resync /\ e # Dropped /\ st' = ApplyEvent(st, e)
    BY <1>2
  <2>2. e.code # "DROPPED"
    BY <1>3, <2>1, CodesApart DEF Syn, Marks, WaysOf
  <2>3. ~Pending("DROPPED")
    BY <1>8, <2>2
  <2>4. Shows(st, c, held[c]) \/ Pending(c)
    BY <1>2, <2>1, <2>3 DEF XpadInv, EventsInv
  <2>5. c \in Codes /\ held[c] \in Int
    BY DEF Ways, WaysOf, XpadInv, XpadTypes
  <2>6. CASE c = e.code
    <3>1. e.value = held[c] \/ \E l \in 2 .. n : queue[l].code = c
      BY <1>1, <2>5, <2>6 DEF XpadInv, Truthful, n
    <3>2. CASE \E l \in 2 .. n : queue[l].code = c
      <4>1. PICK l \in 2 .. n : queue[l].code = c
        BY <3>2
      <4>2. l - 1 \in 1 .. n - 1 /\ queue'[l - 1].code = c
        BY <1>1, <4>1
      <4> QED
        BY <1>1, <4>2 DEF Pending
    <3> QED
      BY <1>4, <2>1, <2>5, <2>6, <3>1, <3>2
  <2>7. CASE c # e.code
    BY <1>4, <1>8, <2>1, <2>4, <2>5, <2>7
  <2> QED
    BY <2>6, <2>7
<1>10. AxesInv'
  BY <1>2 DEF AxesInv
<1> QED
  BY <1>5, <1>6, <1>7, <1>9, <1>10 DEF XpadInv

\* The axes are read as the driver holds them.
LEMMA AxesKeep == ASSUME XpadInv, ReadAxes PROVE XpadInv'
<1>1. /\ UNCHANGED <<hatKeys, held, queue, resync>> /\ Ways' = Ways
      /\ st' = [st EXCEPT !.axis = [a \in AbsAxes |-> held[a]]]
      /\ hat' = <<held["HAT0X"], held["HAT0Y"]>> /\ at' = "keys"
  BY DEF ReadAxes, Ways
<1>2. AbsAxes \subseteq Codes /\ Hats \subseteq Codes
  BY DEF Codes
<1>3. XpadTypes'
  <2>1. [a \in AbsAxes |-> held[a]] \in [AbsAxes -> Int] /\ hat' \in Int \X Int
    BY <1>1, <1>2 DEF XpadInv, XpadTypes, Hats
  <2>2. st' \in States
    BY <1>1, <2>1 DEF XpadInv, XpadTypes, States
  <2> QED
    BY <1>1, <2>1, <2>2 DEF XpadInv, XpadTypes
<1>4. OneWay' /\ Truthful'
  BY <1>1 DEF XpadInv, OneWay, Truthful
<1>5. EventsInv' /\ AxesInv'
  BY <1>1 DEF EventsInv, AxesInv, XpadInv, XpadTypes, States
<1> QED
  BY <1>3, <1>4, <1>5 DEF XpadInv

\* The keys are read as the driver holds them, and put together with the hat.
LEMMA KeysKeep == ASSUME XpadInv, ReadKeys PROVE XpadInv'
<1> DEFINE down == {k \in Keys : held[k] # 0}
           s == WholeState(down, hat[1], hat[2], st.axis)
<1>1. /\ UNCHANGED <<hatKeys, held, queue>> /\ Ways' = Ways /\ at = "keys"
      /\ st' = s /\ at' = "events" /\ hat' = <<0, 0>> /\ resync' = FALSE
  BY DEF ReadKeys, Ways
<1>2. hat[1] \in Int /\ hat[2] \in Int /\ st.axis \in [AbsAxes -> Int]
  BY DEF XpadInv, XpadTypes, States
<1>3. WholeIs(s, down, hat[1], hat[2], st.axis)
  BY <1>2, WholeShows
<1> HIDE DEF s
<1> USE DEF WholeIs
<1>4. XpadTypes'
  <2>1. hat' \in Int \X Int
    BY <1>1
  <2> QED
    BY <1>1, <1>3, <2>1 DEF XpadInv, XpadTypes
<1>5. OneWay' /\ Truthful'
  BY <1>1 DEF XpadInv, OneWay, Truthful
<1>6. \A c : Pending(c)' <=> Pending(c)
  BY <1>1 DEF Pending
<1>7. EventsInv'
  <2> SUFFICES ASSUME ~Pending("DROPPED"), NEW c \in Ways, ~Pending(c)
               PROVE  Shows(s, c, held[c])
    BY <1>1, <1>6 DEF EventsInv
  <2>1. /\ \A a \in AbsAxes : st.axis[a] = held[a] \/ Pending(a)
        /\ hat[1] = held["HAT0X"] \/ Pending("HAT0X")
        /\ hat[2] = held["HAT0Y"] \/ Pending("HAT0Y")
    BY <1>1 DEF XpadInv, AxesInv
  <2>2. CASE c \in AbsAxes
    BY <1>3, <2>1, <2>2, CodesApart DEF Shows, Hats
  <2>3. CASE c \in Keys
    <3>1. KeyBit[c] \in s.on <=> c \in down
      <4>1. CASE hatKeys
        <5>1. \A h \in Hats : h \notin Ways /\ h \in Codes
          BY <4>1 DEF Ways, WaysOf, Codes
        <5>2. \A h \in Hats : held[h] = 0 /\ ~Pending(h)
          BY <5>1, CodesApart DEF XpadInv, OneWay, Pending, Syn, Dropped, Marks
        <5> QED
          BY <1>3, <2>1, <2>3, <5>2 DEF Hats
      <4>2. CASE ~hatKeys
        BY <1>3, <2>3, <4>2 DEF Ways, WaysOf
      <4> QED
        BY <4>1, <4>2
    <3> QED
      BY <2>3, <3>1, CodesApart DEF Shows, Hats
  <2>4. CASE c \in Hats
    <3>1. ~hatKeys
      BY <2>4 DEF Ways, WaysOf
    <3>2. down \cap Directions = {}
      BY <3>1, DirectionBits DEF XpadInv, OneWay, Ways, WaysOf, Codes
    <3> QED
      BY <1>3, <2>1, <2>4, <3>2, CodesApart DEF Shows, Hats
  <2> QED
    BY <2>2, <2>3, <2>4 DEF Ways, WaysOf, Codes
<1>8. AxesInv'
  BY <1>1 DEF AxesInv
<1> QED
  BY <1>4, <1>5, <1>7, <1>8 DEF XpadInv

\* The inductive invariant.
THEOREM XpadInvariance == XESpec => []XpadInv
<1>1. XpadInv /\ [XENext]_xeVars => XpadInv'
  <2> SUFFICES ASSUME XpadInv, [XENext]_xeVars PROVE XpadInv'
    OBVIOUS
  <2>1. CASE UNCHANGED xeVars
    BY <2>1 DEF xeVars, XpadInv, XpadTypes, OneWay, Truthful, EventsInv, AxesInv, Ways, Pending
  <2> QED
    BY <2>1, MoveKeeps, EventKeeps, AxesKeep, KeysKeep DEF XENext
<1> QED
  BY <1>1, XpadInitially, PTL DEF XESpec

\* The queue holds what the kernel keeps, or the packet it kept last behind the word that
\* some were dropped, and the state has the bits of keys only.
THEOREM XpadTypeCorrect == XESpec => []XETypeOK
<1>1. XpadInv => XETypeOK
  BY DEF XpadInv, XpadTypes, XETypeOK, Events, Marks, States, Bits
<1> QED
  BY <1>1, XpadInvariance, PTL

\* With nothing kept and nothing to be read afresh, every bit and axis is the pad's.
LEMMA Healed == XpadInv => DropsHeal
<1> SUFFICES ASSUME XpadInv, queue = <<>>, at = "events", ~resync PROVE st = Settled
  BY DEF DropsHeal
<1> DEFINE down == {k \in Keys : held[k] # 0}
<1>1. \A c \in Ways : Shows(st, c, held[c])
  BY DEF XpadInv, EventsInv, Pending
<1>2. /\ \A c \in Codes : held[c] \in Int
      /\ held["HAT0X"] \in Int /\ held["HAT0Y"] \in Int
      /\ \A c \in Codes \ Ways : held[c] = 0
      /\ [a \in AbsAxes |-> held[a]] \in [AbsAxes -> Int]
  BY DEF XpadInv, XpadTypes, OneWay, Codes, Hats
<1> DEFINE axes == [a \in AbsAxes |-> held[a]]
<1>3. WholeIs(Settled, down, held["HAT0X"], held["HAT0Y"], axes)
  <2>1. Settled = WholeState(down, held["HAT0X"], held["HAT0Y"], axes)
    BY DEF Settled
  <2>2. down \in SUBSET Keys /\ axes \in [AbsAxes -> Int]
    BY <1>2
  <2> HIDE DEF down, axes
  <2> QED
    BY <1>2, <2>1, <2>2, WholeShows
<1> USE DEF WholeIs
<1>4. st.axis = Settled.axis
  <2>1. \A a \in AbsAxes : a \in Ways
    BY CodesApart, DirectionBits DEF Ways, WaysOf, Codes
  <2> QED
    BY <1>1, <1>3, <2>1 DEF Shows, XpadInv, XpadTypes, States
<1>5. \A k \in Keys : KeyBit[k] \in st.on <=> KeyBit[k] \in Settled.on
  <2> SUFFICES ASSUME NEW k \in Keys PROVE KeyBit[k] \in st.on <=> KeyBit[k] \in Settled.on
    OBVIOUS
  <2>1. CASE k \in Ways
    <3>1. KeyBit[k] \in st.on <=> k \in down
      BY <1>1, <2>1 DEF Shows
    <3>2. CASE k \notin Directions
      BY <1>3, <3>1, <3>2
    <3>3. CASE k \in Directions
      <4>1. \A h \in Hats : h \in Codes \ Ways
        BY <2>1, <3>3 DEF Ways, WaysOf, Codes
      <4> QED
        BY <1>2, <1>3, <3>1, <4>1 DEF Hats
    <3> QED
      BY <3>2, <3>3
  <2>2. CASE k \notin Ways
    <3>1. ~hatKeys /\ k \in Directions
      BY <2>2, CodesApart DEF Ways, WaysOf, Codes
    <3>2. /\ down \cap Directions = {} /\ Hats \subseteq Ways
      BY <1>2, <3>1, CodesApart, DirectionBits DEF Ways, WaysOf, Codes
    <3>3. /\ <<"dpad", 8>> \in st.on <=> held["HAT0X"] < 0
          /\ <<"dpad", 2>> \in st.on <=> held["HAT0X"] > 0
          /\ <<"dpad", 1>> \in st.on <=> held["HAT0Y"] < 0
          /\ <<"dpad", 4>> \in st.on <=> held["HAT0Y"] > 0
      BY <1>1, <3>2 DEF Shows, Hats
    <3> QED
      BY <1>3, <3>1, <3>2, <3>3, DirectionBits DEF Directions
  <2> QED
    BY <2>1, <2>2
<1> DEFINE s == Settled
<1> HIDE DEF s
<1>6. st \in States /\ s \in States /\ st.axis = s.axis
      /\ \A k \in Keys : KeyBit[k] \in st.on <=> KeyBit[k] \in s.on
  BY <1>3, <1>4, <1>5 DEF XpadInv, XpadTypes, s
<1>7. st.on = s.on
  <2>1. \A b \in Bits : b \in st.on <=> b \in s.on
    BY <1>6 DEF Bits
  <2>2. st.on \subseteq Bits /\ s.on \subseteq Bits
    BY <1>6 DEF States
  <2> QED
    BY <2>1, <2>2
<1>8. st = [on |-> st.on, axis |-> st.axis] /\ s = [on |-> s.on, axis |-> s.axis]
  BY <1>6 DEF States
<1> QED
  BY <1>6, <1>7, <1>8 DEF s

\* However the moves fall between an overflow, the axes and the keys (xpad_read_input,
\* xpad_read_state): a reader that has caught up has the pad's state.
THEOREM OverflowsHeal == XESpec => []DropsHeal
BY XpadInvariance, Healed, PTL
=============================================================================
