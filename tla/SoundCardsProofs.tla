-------------------------- MODULE SoundCardsProofs --------------------------
(***************************************************************************)
(* Proofs about SoundCards for any pads, size of the table of notes, number*)
(* of errors, cables and boots: until a first free card is taken or the    *)
(* code acts for a pad that is gone, a session's card, speaker and         *)
(* microphone are its own pad's, and a note that is believed is true.      *)
(***************************************************************************)
EXTENDS SoundCards, FiniteSetTheorems, WellFoundedInduction, TLAPS

Note == [node : Int, card : Int, dev : Int]
Session == [at : {"none", "refused", "plugged", "serving"}, node : Int, dev : Int,
            card : Int, fresh : BOOLEAN, spk : Int]
MicStages == {"off", "opening", "scanning", "running", "reopening", "ended"}
Mic == [at : MicStages, card : Int, on : Int, streak : Int]

TypeInv ==
    /\ plugs \in Nat /\ boot \in Nat /\ readable \in BOOLEAN
    /\ cabled \in [Pads -> Note]
    /\ notes \in SUBSET Note /\ loaded \in BOOLEAN
    /\ file \in [boot : Nat, notes : SUBSET Note]
    /\ lock \in Pads \cup {Nobody} /\ listens \in SUBSET Int
    /\ sess \in [Pads -> Session] /\ mic \in [Pads -> Mic]
    /\ guessed \in BOOLEAN /\ matched \in SUBSET Pads

\* No two pads share a node, a card or a device number, and what is given out is
\* counted.
KernelInv ==
    /\ \A p \in Pads : In(p) =>
          cabled[p].node \in Nat /\ cabled[p].card \in Nat /\ cabled[p].dev \in 1..plugs
    /\ \A p, q \in Pads : In(p) /\ In(q) /\ p # q =>
          /\ cabled[p].node # cabled[q].node
          /\ cabled[p].card # cabled[q].card
          /\ cabled[p].dev # cabled[q].dev

\* The device number a session was bridged on is its pad's or nobody's by now; only
\* a session that serves has a card, and only one that listens has the lock.
LinkInv ==
    /\ \A p \in Pads : sess[p].at # "none" =>
          /\ sess[p].dev \in 1..plugs
          /\ \A q \in Pads : cabled[q].dev = sess[p].dev
                                => q = p /\ cabled[p].node = sess[p].node
    /\ \A p \in Pads :
          /\ sess[p].at \in {"none", "refused"} => mic[p] = NoMic /\ sess[p].spk = None
          /\ sess[p].at # "serving" => sess[p].card = None
    /\ lock # Nobody => sess[lock].at \in {"plugged", "refused"}
    /\ lock = Nobody => listens = {}

\* The notes that this run or a later one of this boot can believe.
Believable == notes \cup (IF file.boot = boot THEN file.notes ELSE {})

NotesInv == file.boot <= boot /\ \A n \in Believable : n.dev \in 1..plugs

\* What a session has opened is on the device it was bridged on, and what it has
\* been told is its pad's card, while the pad is there; a microphone without an
\* answer is on nothing.
OwnInv ==
    \A p \in Pads :
        /\ {sess[p].spk, mic[p].on} \subseteq {None, sess[p].dev}
        /\ sess[p].at # "none" /\ ~Gone(p)
              => {sess[p].card, mic[p].card} \subseteq {None, cabled[p].card}
        /\ sess[p].card = None => mic[p].on = None /\ mic[p].card = None

\* A note is of a device: while a pad is that device, the note has its node and its
\* card, and the pad was matched on this cable.
MemoryInv ==
    /\ \A n \in Believable : \A p \in Pads : cabled[p].dev = n.dev =>
          p \in matched /\ cabled[p].node = n.node /\ cabled[p].card = n.card
    /\ \A p \in Pads : sess[p].at = "serving" /\ ~Gone(p) /\ ~sess[p].fresh => p \in matched

IInv ==
    /\ TypeInv /\ KernelInv /\ LinkInv /\ NotesInv
    /\ ~guessed => OwnInv /\ MemoryInv

-----------------------------------------------------------------------------
\* The lowest free number is a free number.
LEMMA MinIn ==
    ASSUME NEW S \in SUBSET Nat, S # {}
    PROVE  Min(S) \in S
<1> DEFINE R == OpToRel(<, Nat)
<1>1. IsWellFoundedOn(R, Nat)
  BY NatLessThanWellFounded
<1>2. \E x \in S : \A y \in S : ~(<<y, x>> \in R)
  <2> HIDE DEF R
  <2> QED
    BY <1>1, WFMin
<1>3. \A x, y \in Nat : x > y => <<y, x>> \in R
  BY DEF OpToRel
<1> HIDE DEF R
<1>4. \E x \in S : \A y \in S : x <= y
  <2>1. PICK x \in S : \A y \in S : ~(<<y, x>> \in R)
    BY <1>2
  <2>2. \A y \in S : ~(x > y)
    BY <2>1, <1>3
  <2> QED
    BY <2>2
<1> QED
  BY <1>4 DEF Min

\* There is one for a pad that is put in: there are as many numbers as pads.
LEMMA FreeNumber ==
    ASSUME NEW p \in Pads, NEW f \in [Pads -> Int], f[p] = None
    PROVE  /\ Numbers \ {f[q] : q \in Pads} # {}
           /\ Numbers \subseteq Nat
<1>1. IsFiniteSet(Pads) /\ Cardinality(Pads) \in Nat
  BY PadsAssumption, FS_CardinalityType
<1>2. Cardinality(Pads) # 0
  BY <1>1, FS_EmptySet
<1>3. /\ IsFiniteSet(Numbers) /\ Cardinality(Numbers) = Cardinality(Pads)
      /\ Numbers \subseteq Nat
  <2>1. Cardinality(Pads) - 1 \in Nat
    BY <1>1, <1>2
  <2>2. /\ IsFiniteSet(0..(Cardinality(Pads) - 1))
        /\ Cardinality(0..(Cardinality(Pads) - 1)) = (Cardinality(Pads) - 1) - 0 + 1
    BY <2>1, FS_Interval
  <2> QED
    BY <1>1, <2>1, <2>2 DEF Numbers
<1> DEFINE Others == Pads \ {p}
<1>4. IsFiniteSet(Others) /\ Cardinality(Others) = Cardinality(Pads) - 1
  BY <1>1, FS_RemoveElement
<1>5. ASSUME Numbers \subseteq {f[q] : q \in Pads}
      PROVE  FALSE
  <2> DEFINE g == [n \in Numbers |-> CHOOSE q \in Others : f[q] = n]
  <2>1. \A n \in Numbers : \E q \in Others : f[q] = n
    BY <1>3, <1>5 DEF None
  <2>2. \A n \in Numbers : g[n] \in Others /\ f[g[n]] = n
    BY <2>1
  <2>3. g \in [Numbers -> Others]
    BY <2>2
  <2>4. Cardinality(Others) < Cardinality(Numbers)
    BY <1>1, <1>3, <1>4
  <2> HIDE DEF g, Others
  <2>5. \E x, y \in Numbers : x # y /\ g[x] = g[y]
    BY <1>3, <1>4, <2>3, <2>4, FS_PigeonHole
  <2> QED
    BY <2>2, <2>5
<1> QED
  BY <1>3, <1>5

-----------------------------------------------------------------------------
\* A pad that is in is the device behind its card.
LEMMA OwnDevice ==
    ASSUME TypeInv, KernelInv, NEW p \in Pads, In(p)
    PROVE  cabled[p].card \in Cards /\ DevOf(cabled[p].card) = cabled[p].dev
<1>1. cabled[p].card \in Cards
  BY DEF Cards
<1>2. \A q \in Pads : cabled[q].card = cabled[p].card => q = p
  <2>1. SUFFICES ASSUME NEW q \in Pads, cabled[q].card = cabled[p].card, q # p
                 PROVE  FALSE
    OBVIOUS
  <2>2. In(q)
    BY <2>1 DEF KernelInv, In, Away, None
  <2> QED
    BY <2>1, <2>2 DEF KernelInv
<1> QED
  BY <1>1, <1>2 DEF DevOf

\* And a card that is there is some pad's.
LEMMA CardOwner ==
    ASSUME TypeInv, KernelInv, NEW c
    PROVE  /\ c \in Cards => \E p \in Pads : In(p) /\ c = cabled[p].card /\ DevOf(c) = cabled[p].dev
           /\ DevOf(c) \in {None} \cup 1..plugs
           /\ DevOf(c) # None <=> c \in Cards
           /\ c \in Cards => c \in Nat
<1>1. ASSUME c \in Cards
      PROVE  \E p \in Pads : In(p) /\ c = cabled[p].card /\ DevOf(c) = cabled[p].dev
  <2>1. PICK p \in Pads : In(p) /\ c = cabled[p].card
    BY <1>1 DEF Cards
  <2> QED
    BY <2>1, OwnDevice
<1>2. CASE c \in Cards
  <2>1. PICK p \in Pads : In(p) /\ c = cabled[p].card /\ DevOf(c) = cabled[p].dev
    BY <1>1, <1>2
  <2> QED
    BY <1>2, <2>1 DEF KernelInv, TypeInv, None
<1>3. CASE c \notin Cards
  BY <1>3 DEF DevOf
<1> QED
  BY <1>2, <1>3, <1>1

\* Two devices that are in and have one number are one pad's.
LEMMA DeviceIsOne ==
    ASSUME TypeInv, KernelInv, NEW p \in Pads, NEW q \in Pads,
           cabled[p].dev = cabled[q].dev, In(p)
    PROVE  p = q
BY DEF TypeInv, KernelInv, In, Away, None

\* A pad that a session still has is in.
LEMMA StillIn ==
    ASSUME TypeInv, KernelInv, LinkInv, NEW p \in Pads, sess[p].at # "none", ~Gone(p)
    PROVE  /\ In(p) /\ sess[p].dev = cabled[p].dev /\ sess[p].node = cabled[p].node
           /\ sess[p].dev \in 1..plugs
BY DEF TypeInv, LinkInv, Gone, In, Away, None

-----------------------------------------------------------------------------
\* What is believed by now was believable before.
LEMMA PrunedIsOld ==
    ASSUME TypeInv, KernelInv
    PROVE  /\ Loaded \subseteq Believable /\ Pruned \subseteq Believable
           /\ Believable \subseteq Note
           /\ \A n \in Pruned :
                 DevOf(n.card) = n.dev /\ (n.dev # None => n.card \in Cards)
<1>1. Loaded \subseteq Believable /\ Believable \subseteq Note
  BY DEF Loaded, Believable, TypeInv
<1>2. Pruned \subseteq Loaded /\ \A n \in Pruned : DevOf(n.card) = n.dev
  BY DEF Pruned, StillTrue
<1> QED
  BY <1>1, <1>2, CardOwner

\* The table after a note is what was believed, and the note.
LEMMA WithNoteAdds ==
    ASSUME NEW node, NEW card
    PROVE  WithNote(node, card)
              \subseteq Pruned \cup {[node |-> node, card |-> card, dev |-> DevOf(card)]}
BY DEF WithNote

\* Remembering makes nothing believable but what is remembered.
LEMMA RememberKeeps ==
    ASSUME TypeInv, NEW ns \in SUBSET Note, Remember(ns), boot' = boot
    PROVE  /\ Believable' \subseteq Believable \cup ns
           /\ notes' \in SUBSET Note /\ loaded' \in BOOLEAN
           /\ file' \in [boot : Nat, notes : SUBSET Note]
           /\ file'.boot \in {file.boot, boot}
<1>1. CASE ns # Loaded
  <2>1. file' = [boot |-> boot, notes |-> ns] /\ notes' = ns /\ loaded' = TRUE
    BY <1>1 DEF Remember
  <2> QED
    BY <2>1 DEF Believable, TypeInv
<1>2. CASE ns = Loaded
  <2>1. file' = file /\ notes' = ns /\ loaded' = TRUE
    BY <1>2 DEF Remember
  <2> QED
    BY <2>1 DEF Believable, TypeInv
<1> QED
  BY <1>1, <1>2

\* The speaker that is opened is the one that was, or the card's, or a guess.
LEMMA SpeakerIs ==
    ASSUME TypeInv, NEW p \in Pads, NEW c
    PROVE  /\ Speaker(sess[p], c) \in Int
           /\ c # None => Speaker(sess[p], c) \in {sess[p].spk, DevOf(c)}
<1>1. \A d : DevOf(d) \in Int
  BY DEF DevOf, Cards, TypeInv, Note, None
<1>2. sess[p].spk \in Int
  BY DEF TypeInv, Session
<1> QED
  BY <1>1, <1>2 DEF Speaker

\* A microphone's fields change one at a time.
LEMMA MicFields ==
    ASSUME NEW m \in Mic
    PROVE  /\ \A at \in MicStages : [m EXCEPT !.at = at] \in Mic
           /\ \A i \in Int : /\ [m EXCEPT !.card = i] \in Mic
                            /\ [m EXCEPT !.on = i] \in Mic
                            /\ [m EXCEPT !.streak = i] \in Mic
BY DEF Mic

\* What an answer does: to a refused plug nothing, and a session serves with the card
\* it was told, its speaker on it and its microphone about to be.
LEMMA Answers ==
    ASSUME TypeInv, NEW p \in Pads, sess[p].at \in {"plugged", "refused"},
           NEW c \in Int, NEW fresh \in BOOLEAN, Answered(p, c, fresh)
    PROVE  /\ sess' \in [Pads -> Session] /\ mic' \in [Pads -> Mic] /\ guessed' \in BOOLEAN
           /\ \A q \in Pads \ {p} : sess'[q] = sess[q] /\ mic'[q] = mic[q]
           /\ guessed \/ Gone(p) => guessed'
           /\ sess[p].at = "refused" => sess'[p] = NoSession /\ mic'[p] = mic[p]
           /\ sess[p].at = "plugged" =>
                 /\ sess'[p].at = "serving"
                 /\ sess'[p].node = sess[p].node /\ sess'[p].dev = sess[p].dev
                 /\ sess'[p].card = c /\ sess'[p].fresh = fresh
                 /\ guessed' \/ sess'[p].spk \in {sess[p].spk} \cup {d \in {DevOf(c)} : c # None}
                 /\ mic'[p] = mic[p] \/ (mic'[p].card = c /\ mic'[p].on = None)
<1> DEFINE s == sess[p]
           spk == Speaker(s, c)
<1>1. spk \in Int /\ (c # None => spk \in {s.spk, DevOf(c)})
  BY SpeakerIs
<1>2. sess[p] \in Session /\ mic[p] \in Mic /\ NoMic \in Mic /\ NoSession \in Session
  BY DEF TypeInv, NoMic, NoSession, Mic, MicStages, Session, None
<1>3. CASE s.at = "refused"
  <2>1. /\ sess' = [sess EXCEPT ![p] = NoSession] /\ mic' = mic
        /\ guessed' = (guessed \/ Gone(p))
    BY <1>3 DEF Answered
  <2>2. guessed' \in BOOLEAN /\ (guessed \/ Gone(p) => guessed')
    BY <2>1, Zenon DEF TypeInv
  <2> QED
    BY <1>2, <1>3, <2>1, <2>2 DEF TypeInv
<1>4. CASE s.at = "plugged"
  <2> DEFINE t == [s EXCEPT !.at = "serving", !.card = c, !.fresh = fresh, !.spk = spk]
             m == [NoMic EXCEPT !.at = "opening", !.card = c]
  <2>1. /\ sess' = [sess EXCEPT ![p] = t]
        /\ mic' = [mic EXCEPT ![p] = m] \/ mic' = mic
        /\ guessed' = (guessed \/ Gone(p) \/ (c = None /\ spk # s.spk))
    BY <1>4 DEF Answered
  <2>2. /\ t \in Session /\ t.at = "serving" /\ t.node = s.node /\ t.dev = s.dev
        /\ t.card = c /\ t.fresh = fresh /\ t.spk = spk
    BY <1>1, <1>2 DEF Session
  <2>3. m \in Mic /\ m.card = c /\ m.on = None
    <3>1. NoMic \in Mic /\ NoMic.on = None
      BY <1>2 DEF NoMic
    <3>2. m \in Mic
      <4>1. "opening" \in MicStages
        BY DEF MicStages
      <4> QED
        BY <3>1, <4>1, MicFields, Zenon
    <3> QED
      BY <3>1, <3>2 DEF Mic
  <2>4. guessed' \in BOOLEAN /\ (guessed \/ Gone(p) => guessed')
        /\ (c = None /\ spk # s.spk => guessed')
    BY <2>1, Zenon DEF TypeInv
  <2>5. sess'[p] = t /\ sess' \in [Pads -> Session] /\ \A q \in Pads \ {p} : sess'[q] = sess[q]
    <3> HIDE DEF t
    <3> QED
      BY <2>1, <2>2 DEF TypeInv
  <2>6. /\ mic' \in [Pads -> Mic] /\ \A q \in Pads \ {p} : mic'[q] = mic[q]
        /\ mic'[p] = mic[p] \/ (mic'[p].card = c /\ mic'[p].on = None)
    <3> HIDE DEF m
    <3> QED
      BY <2>1, <2>3 DEF TypeInv
  <2>7. guessed' \/ t.spk \in {s.spk} \cup {d \in {DevOf(c)} : c # None}
    <3> HIDE DEF spk, t
    <3> QED
      BY <1>1, <2>2, <2>4, Zenon
  <2> HIDE DEF t
  <2> QED
    BY <1>4, <2>2, <2>4, <2>5, <2>6, <2>7, Zenon
<1> QED
  BY <1>3, <1>4

-----------------------------------------------------------------------------
\* The note that is written for a pad on its cable.
NoteOf(p) == [node |-> cabled[p].node, card |-> cabled[p].card, dev |-> cabled[p].dev]

\* A note that is found is of the pad that is on the node, which was matched.
LEMMA KnownIsOwn ==
    ASSUME TypeInv, KernelInv, LinkInv, NotesInv, MemoryInv, NEW p \in Pads,
           sess[p].at # "none", ~Gone(p), NEW c \in Known(sess[p].node)
    PROVE  c = cabled[p].card /\ p \in matched
<1>1. PICK n \in Pruned : n.node = sess[p].node /\ c = n.card
  BY DEF Known
<1>2. n \in Believable /\ DevOf(n.card) = n.dev /\ n.dev \in 1..plugs
  BY PrunedIsOld DEF NotesInv
<1>3. PICK q \in Pads : In(q) /\ n.card = cabled[q].card /\ n.dev = cabled[q].dev
  BY <1>2, CardOwner DEF None, TypeInv
<1>4. q \in matched /\ cabled[q].node = n.node
  BY <1>2, <1>3 DEF MemoryInv
<1>5. In(p) /\ cabled[p].node = n.node
  BY <1>1, StillIn
<1>6. p = q
  BY <1>3, <1>4, <1>5 DEF KernelInv
<1> QED
  BY <1>1, <1>3, <1>4, <1>6

\* Elimination is right: the pad's own card is free while nothing listens, and no other
\* node's note names it.
LEMMA OnlyIsOwn ==
    ASSUME TypeInv, KernelInv, LinkInv, NotesInv, OwnInv, MemoryInv, NEW p \in Pads,
           sess[p].at # "none", sess[p].card = None, ~Gone(p), lock = Nobody,
           NEW c, Unclaimed(sess[p].node) = {c}
    PROVE  c = cabled[p].card
<1>1. In(p) /\ sess[p].dev = cabled[p].dev /\ sess[p].node = cabled[p].node /\ sess[p].dev \in 1..plugs
  BY StillIn
<1>2. cabled[p].card \in Cards /\ DevOf(cabled[p].card) = cabled[p].dev
  BY <1>1, OwnDevice
<1>3. cabled[p].dev \notin HeldMics
  <2>1. SUFFICES ASSUME NEW q \in Pads, mic[q].on = cabled[p].dev
                 PROVE  FALSE
    BY DEF HeldMics, LinkInv
  <2>2. mic[q].on # None
    BY <1>1, <2>1 DEF None, TypeInv
  <2>3. mic[q].on = sess[q].dev
    BY <2>2 DEF OwnInv
  <2>4. sess[q].at # "none"
    BY <2>2 DEF LinkInv, NoMic
  <2>5. p = q
    BY <2>1, <2>3, <2>4 DEF LinkInv
  <2> QED
    BY <2>2, <2>5 DEF OwnInv
<1>4. cabled[p].card \in Open
  BY <1>2, <1>3 DEF Open, FreeMic
<1>5. cabled[p].card \notin Claimed(sess[p].node)
  <2>1. SUFFICES ASSUME NEW n \in Pruned, n.node # sess[p].node, n.card = cabled[p].card
                 PROVE  FALSE
    BY DEF Claimed
  <2>2. n \in Believable /\ n.dev = cabled[p].dev
    BY <1>2, <2>1, PrunedIsOld
  <2> QED
    BY <1>1, <2>1, <2>2 DEF MemoryInv
<1> QED
  BY <1>4, <1>5 DEF Unclaimed

\* The card that falls silent is the muted pad's.
LEMMA SilentIsOwn ==
    ASSUME TypeInv, KernelInv, LinkInv, NEW p \in Pads, sess[p].at # "none", ~Gone(p),
           NEW r \in Readings(p), NEW q \in Pads, cabled[q].dev \in FellSilent(r)
    PROVE  q = p
<1>1. In(p) /\ cabled[p].node = sess[p].node
  BY StillIn
<1>2. /\ cabled[q].dev \in listens
      /\ r[cabled[q].dev].live = 1 /\ r[cabled[q].dev].muted = 0
  BY DEF Readings, FellSilent, None
<1>3. PICK m \in Muted(p) : cabled[m].dev = cabled[q].dev
  BY <1>2 DEF Readings
<1>4. m \in Pads /\ In(m) /\ (m = p \/ cabled[m].node = sess[p].node)
  BY DEF Muted
<1>5. m = p
  BY <1>1, <1>4 DEF KernelInv
<1> QED
  BY <1>3, <1>4, <1>5, DeviceIsOne

-----------------------------------------------------------------------------
\* What both ways to an answer have in common: a table is remembered and an answer
\* given.  The table is the old one, and at most a note of a device; without a guess
\* the answer and the note are the pad's own, if the pad is there.
Asked(p, c, fresh, ns) ==
    /\ Remember(ns) /\ Answered(p, c, fresh)
    /\ UNCHANGED <<cabled, plugs, boot, readable>> /\ lock' = Nobody /\ listens' = {}
    /\ sess[p].at \in {"plugged", "refused"} /\ sess[p].card = None
    /\ matched' \in SUBSET Pads /\ matched \subseteq matched'
    /\ \A n \in ns : n \in Believable \/ n.dev \in 1..plugs
    /\ ~guessed /\ ~Gone(p) =>
          /\ c \in {None, cabled[p].card}
          /\ \A n \in ns : n \in Believable \/ (n = NoteOf(p) /\ p \in matched')
          /\ fresh \/ p \in matched'

\* A note of a card that is there is a note of a device.
LEMMA NoteIsNote ==
    ASSUME TypeInv, KernelInv, NEW node \in Int, NEW c \in Cards
    PROVE  /\ WithNote(node, c) \in SUBSET Note
           /\ \A n \in WithNote(node, c) : n \in Believable \/
                 (n = [node |-> node, card |-> c, dev |-> DevOf(c)] /\ n.dev \in 1..plugs)
<1> DEFINE note == [node |-> node, card |-> c, dev |-> DevOf(c)]
<1>1. c \in Nat /\ DevOf(c) \in 1..plugs
  BY CardOwner
<1>2. note \in Note /\ note.dev \in 1..plugs
  BY <1>1 DEF Note, TypeInv
<1>3. Pruned \subseteq Believable /\ Believable \subseteq Note
  BY PrunedIsOld
<1>4. WithNote(node, c) \subseteq Pruned \cup {note}
  BY WithNoteAdds
<1> QED
  BY <1>2, <1>3, <1>4

\* A note is right, and so is the one card that is left; no card at all is no answer.
LEMMA MatchesAsks ==
    ASSUME IInv, NEW p \in Pads, Matches(p)
    PROVE  \E c \in Int, fresh \in BOOLEAN, ns \in SUBSET Note : Asked(p, c, fresh, ns)
<1> USE DEF IInv
<1> DEFINE s == sess[p]
           known == Known(s.node)
           only == Unclaimed(s.node)
<1>1. /\ lock = Nobody /\ s.at \in {"plugged", "refused"} /\ s.card = None
      /\ UNCHANGED <<cabled, plugs, boot, readable, lock, listens>>
  BY DEF Matches
<1>2. lock' = Nobody /\ listens' = {} /\ matched \in SUBSET Pads /\ s.node \in Int /\ s.at # "none"
  BY <1>1 DEF LinkInv, TypeInv, Session
<1>3. Pruned \in SUBSET Note /\ Pruned \subseteq Believable
  BY PrunedIsOld
<1>4. CASE /\ known # {}
           /\ Remember(Pruned)
           /\ \E c \in known : Answered(p, c, FALSE)
           /\ UNCHANGED matched
  <2>1. PICK c \in known : Answered(p, c, FALSE)
    BY <1>4
  <2>2. c \in Int
    BY <1>3 DEF Known, Note
  <2>3. ~guessed /\ ~Gone(p) => c = cabled[p].card /\ p \in matched
    BY <1>2, KnownIsOwn
  <2>4. Asked(p, c, FALSE, Pruned)
    BY <1>1, <1>2, <1>3, <1>4, <2>1, <2>3 DEF Asked
  <2> QED
    BY <1>3, <2>2, <2>4
<1>5. CASE /\ known = {} /\ Cardinality(only) = 1
           /\ \E c \in only :
                 /\ Remember(WithNote(s.node, c))
                 /\ Answered(p, c, TRUE)
           /\ matched' = matched \cup {p}
  <2>1. PICK c \in only : Remember(WithNote(s.node, c)) /\ Answered(p, c, TRUE)
    BY <1>5
  <2>2. c \in Cards /\ only \subseteq Cards
    BY DEF Unclaimed, Open
  <2>3. only = {c}
    <3>1. IsFiniteSet(Cards)
      <4> DEFINE f == [x \in {q \in Pads : In(q)} |-> cabled[x].card]
      <4>1. IsFiniteSet({q \in Pads : In(q)})
        BY PadsAssumption, FS_Subset
      <4>2. f \in Surjection({q \in Pads : In(q)}, Cards)
        BY DEF Surjection, Cards
      <4> QED
        BY <4>1, <4>2, FS_Surjection
    <3>2. IsFiniteSet(only)
      BY <2>2, <3>1, FS_Subset
    <3>3. \E x : only = {x}
      BY <1>5, <3>2, FS_Singleton
    <3> QED
      BY <3>3
  <2>4. /\ WithNote(s.node, c) \in SUBSET Note
        /\ \A n \in WithNote(s.node, c) : n \in Believable \/
              (n = [node |-> s.node, card |-> c, dev |-> DevOf(c)] /\ n.dev \in 1..plugs)
    BY <1>2, <2>2, NoteIsNote
  <2>5. ASSUME ~guessed, ~Gone(p)
        PROVE  c = cabled[p].card /\ [node |-> s.node, card |-> c, dev |-> DevOf(c)] = NoteOf(p)
    <3>1. c = cabled[p].card
      BY <1>1, <1>2, <2>3, <2>5, OnlyIsOwn
    <3>2. In(p) /\ s.node = cabled[p].node
      BY <1>2, <2>5, StillIn
    <3> QED
      BY <3>1, <3>2, OwnDevice DEF NoteOf
  <2>6. Asked(p, c, TRUE, WithNote(s.node, c))
    BY <1>1, <1>2, <1>5, <2>1, <2>4, <2>5 DEF Asked
  <2>7. c \in Int
    BY <2>2, CardOwner
  <2> QED
    BY <2>4, <2>6, <2>7
<1>6. CASE /\ known = {} /\ Open = {}
           /\ Remember(Pruned)
           /\ Answered(p, None, TRUE)
           /\ UNCHANGED matched
  <2>1. Asked(p, None, TRUE, Pruned)
    BY <1>1, <1>2, <1>3, <1>6 DEF Asked
  <2>2. None \in Int
    BY DEF None
  <2> QED
    BY <1>3, <2>1, <2>2
<1> QED
  BY <1>4, <1>5, <1>6 DEF Matches

\* And so is the one card that fell silent.
LEMMA HearsAsks ==
    ASSUME IInv, NEW p \in Pads, Hears(p)
    PROVE  \E c \in Int, fresh \in BOOLEAN, ns \in SUBSET Note : Asked(p, c, fresh, ns)
<1> USE DEF IInv
<1>1. /\ lock = p /\ lock' = Nobody /\ listens' = {}
      /\ UNCHANGED <<cabled, plugs, boot, readable>>
  BY DEF Hears
<1>2. /\ sess[p].at \in {"plugged", "refused"} /\ sess[p].card = None
      /\ matched \in SUBSET Pads /\ sess[p].node \in Int
  BY <1>1, PadsAssumption DEF LinkInv, TypeInv, Session
<1>3. Pruned \in SUBSET Note /\ Pruned \subseteq Believable
  BY PrunedIsOld
<1>4. PICK r \in Readings(p) :
        \/ /\ Cardinality(FellSilent(r)) = 1
           /\ \E q \in {q \in Pads : cabled[q].dev \in FellSilent(r)} :
                /\ Remember(WithNote(sess[p].node, cabled[q].card))
                /\ Answered(p, cabled[q].card, TRUE)
                /\ matched' = matched \cup {q}
        \/ /\ Cardinality(FellSilent(r)) # 1
           /\ Remember(Pruned)
           /\ Answered(p, None, TRUE)
           /\ UNCHANGED matched
  BY DEF Hears
<1>5. CASE \E q \in {q \in Pads : cabled[q].dev \in FellSilent(r)} :
                /\ Remember(WithNote(sess[p].node, cabled[q].card))
                /\ Answered(p, cabled[q].card, TRUE)
                /\ matched' = matched \cup {q}
  <2>1. PICK q \in Pads :
                /\ cabled[q].dev \in FellSilent(r)
                /\ Remember(WithNote(sess[p].node, cabled[q].card))
                /\ Answered(p, cabled[q].card, TRUE)
                /\ matched' = matched \cup {q}
    BY <1>5
  <2> DEFINE c == cabled[q].card
  <2>2. c \in Int /\ In(q) /\ c \in Cards
    <3>1. PICK m \in Muted(p) : cabled[m].dev = cabled[q].dev
      BY <2>1 DEF Readings, FellSilent, None
    <3>2. m \in Pads /\ In(m)
      BY DEF Muted
    <3>3. q = m
      BY <3>1, <3>2, DeviceIsOne
    <3> QED
      BY <3>2, <3>3, OwnDevice DEF TypeInv, Note
  <2>3. /\ WithNote(sess[p].node, c) \in SUBSET Note
        /\ \A n \in WithNote(sess[p].node, c) : n \in Believable \/
              (n = [node |-> sess[p].node, card |-> c, dev |-> DevOf(c)] /\ n.dev \in 1..plugs)
    BY <1>2, <2>2, NoteIsNote
  <2>4. ASSUME ~Gone(p)
        PROVE  q = p /\ [node |-> sess[p].node, card |-> c, dev |-> DevOf(c)] = NoteOf(p)
    <3>1. q = p
      BY <1>2, <2>1, <2>4, SilentIsOwn
    <3>2. In(p) /\ sess[p].node = cabled[p].node
      BY <1>2, <2>4, StillIn
    <3> QED
      BY <3>1, <3>2, OwnDevice DEF NoteOf
  <2>5. Asked(p, c, TRUE, WithNote(sess[p].node, c))
    BY <1>1, <1>2, <2>1, <2>3, <2>4 DEF Asked
  <2> QED
    BY <2>2, <2>3, <2>5
<1>6. CASE Remember(Pruned) /\ Answered(p, None, TRUE) /\ UNCHANGED matched
  <2>1. Asked(p, None, TRUE, Pruned)
    BY <1>1, <1>2, <1>3, <1>6 DEF Asked
  <2>2. None \in Int
    BY DEF None
  <2> QED
    BY <1>3, <2>1, <2>2
<1> QED
  BY <1>4, <1>5, <1>6

-----------------------------------------------------------------------------
\* A pad that is put in gets a node and a card that no other has, and a device number
\* never given out in this boot.
LEMMA CablesIn ==
    ASSUME TypeInv, KernelInv, NEW p \in Pads, CableIn(p)
    PROVE  \E node, card \in Nat :
              /\ cabled' = [cabled EXCEPT ![p] = [node |-> node, card |-> card, dev |-> plugs + 1]]
              /\ \A q \in Pads : cabled[q].node # node /\ cabled[q].card # card
<1>1. ~In(p) /\ cabled[p] = Away
  BY DEF CableIn, In
<1> DEFINE fn == [q \in Pads |-> cabled[q].node]
           fc == [q \in Pads |-> cabled[q].card]
           nodes == {cabled[q].node : q \in Pads}
           node == Min(Numbers \ nodes)
           card == Min(Numbers \ Cards)
<1>2. fn \in [Pads -> Int] /\ fc \in [Pads -> Int] /\ fn[p] = None /\ fc[p] = None
  BY <1>1 DEF TypeInv, Note, Away
<1>3. /\ Numbers \ {fn[q] : q \in Pads} # {} /\ Numbers \ {fc[q] : q \in Pads} # {}
      /\ Numbers \subseteq Nat
  <2> HIDE DEF fn, fc
  <2> QED
    BY <1>2, FreeNumber
<1>4. Cards \subseteq {fc[q] : q \in Pads} /\ nodes = {fn[q] : q \in Pads}
  BY DEF Cards
<1>5. node \in Numbers \ nodes
  <2> HIDE DEF fn, fc
  <2>1. Numbers \ nodes \in SUBSET Nat /\ Numbers \ nodes # {}
    BY <1>3, <1>4
  <2> QED
    BY <2>1, MinIn
<1>6. card \in Numbers \ Cards
  <2> HIDE DEF fn, fc
  <2>1. Numbers \ Cards \in SUBSET Nat /\ Numbers \ Cards # {}
    BY <1>3, <1>4
  <2> QED
    BY <2>1, MinIn
<1>7. \A q \in Pads : cabled[q].card # card
  <2>1. card \in Nat
    BY <1>3, <1>6
  <2> QED
    BY <1>6, <2>1 DEF Cards, In, Away, None
<1>8. \A q \in Pads : cabled[q].node # node
  BY <1>5
<1>9. cabled' = [cabled EXCEPT ![p] = [node |-> node, card |-> card, dev |-> plugs + 1]]
  BY DEF CableIn
<1>10. node \in Nat /\ card \in Nat
  BY <1>3, <1>5, <1>6
<1> HIDE DEF node, card, nodes
<1>11. /\ cabled' = [cabled EXCEPT ![p] = [node |-> node, card |-> card, dev |-> plugs + 1]]
       /\ \A q \in Pads : cabled[q].node # node /\ cabled[q].card # card
  BY <1>7, <1>8, <1>9, Zenon
<1> QED
  BY <1>10, <1>11, Zenon

\* After a boot the pads that were in have nodes, cards and devices of their own.
LEMMA BootsUp ==
    ASSUME TypeInv, TvBoots
    PROVE  /\ plugs' \in Nat /\ cabled' \in [Pads -> Note]
           /\ KernelInv'
<1> DEFINE in == {p \in Pads : In(p)}
           n == Cardinality(in)
           orders == {f \in [in -> 0..(n - 1)] : \A p, q \in in : p # q => f[p] # f[q]}
<1>1. IsFiniteSet(in) /\ n \in Nat
  BY PadsAssumption, FS_Subset, FS_CardinalityType
<1>2. PICK nodes \in orders, cards \in orders :
        cabled' = [p \in Pads |->
            IF p \in in THEN [node |-> nodes[p], card |-> cards[p], dev |-> cards[p] + 1]
            ELSE Away]
  BY DEF TvBoots
<1>3. plugs' = n
  BY DEF TvBoots
<1>4. /\ \A p \in in : nodes[p] \in 0..(n - 1) /\ cards[p] \in 0..(n - 1)
      /\ \A p, q \in in : p # q => nodes[p] # nodes[q] /\ cards[p] # cards[q]
  OBVIOUS
<1> HIDE DEF in, n, orders
<1>5. \A p \in Pads : p \in in \/ cabled'[p] = Away
  BY <1>2
<1>6. \A p \in in : p \in Pads => /\ cabled'[p].node = nodes[p] /\ cabled'[p].card = cards[p]
                                 /\ cabled'[p].dev = cards[p] + 1
  BY <1>2
<1>7. cabled' \in [Pads -> Note]
  BY <1>1, <1>2, <1>4 DEF Note, Away, None
<1>8. \A p \in Pads : In(p)' => p \in in
  BY <1>5 DEF In
<1>9. KernelInv'
  BY <1>1, <1>3, <1>4, <1>6, <1>8 DEF KernelInv
<1> QED
  BY <1>1, <1>3, <1>7, <1>9

-----------------------------------------------------------------------------
\* Every step keeps the types.
LEMMA TypeStep ==
    ASSUME IInv, Next
    PROVE  TypeInv'
<1> USE DEF IInv
<1>0. NoMic \in Mic /\ NoSession \in Session /\ Away \in Note
  BY DEF NoMic, NoSession, Away, None, Mic, MicStages, Session, Note
<1>1. \A d : DevOf(d) \in Int
  BY DEF DevOf, Cards, TypeInv, Note, None
<1>2. ASSUME NEW p \in Pads, PlugsIn(p) \/ Refused(p) PROVE TypeInv'
  <2>1. cabled[p].node \in Int /\ cabled[p].dev \in Int
    BY DEF TypeInv, Note
  <2> QED
    <3>1. PICK at \in {"plugged", "refused"} : Plugged(at, p)
      BY <1>2 DEF PlugsIn, Refused
    <3> DEFINE s == [NoSession EXCEPT !.at = at, !.node = cabled[p].node, !.dev = cabled[p].dev]
    <3>2. s \in Session
      BY <1>0, <2>1 DEF Session
    <3>3. sess' = [sess EXCEPT ![p] = s]
      BY <3>1 DEF Plugged
    <3> HIDE DEF s
    <3>4. sess' \in [Pads -> Session]
      BY <3>2, <3>3 DEF TypeInv
    <3> QED
      BY <1>2, <3>4 DEF PlugsIn, Refused, TypeInv
<1>3. ASSUME NEW p \in Pads, PlugsOut(p) PROVE TypeInv'
  BY <1>0, <1>3 DEF PlugsOut, TypeInv
<1>4. ASSUME NEW p \in Pads, Matches(p) \/ Hears(p) PROVE TypeInv'
  <2>1. PICK c \in Int, fresh \in BOOLEAN, ns \in SUBSET Note : Asked(p, c, fresh, ns)
    BY <1>4, MatchesAsks, HearsAsks
  <2>2. sess' \in [Pads -> Session] /\ mic' \in [Pads -> Mic] /\ guessed' \in BOOLEAN
    BY <2>1, Answers DEF Asked
  <2>3. /\ notes' \in SUBSET Note /\ loaded' \in BOOLEAN
        /\ file' \in [boot : Nat, notes : SUBSET Note]
    BY <2>1, RememberKeeps DEF Asked
  <2> QED
    BY <2>1, <2>2, <2>3 DEF Asked, TypeInv
<1>5. ASSUME NEW p \in Pads, Listens(p) PROVE TypeInv'
  <2>1. Pruned \in SUBSET Note
    BY PrunedIsOld
  <2>2. /\ notes' \in SUBSET Note /\ loaded' \in BOOLEAN
        /\ file' \in [boot : Nat, notes : SUBSET Note]
    BY <1>5, <2>1, RememberKeeps DEF Listens
  <2> QED
    BY <1>1, <1>5, <2>2 DEF Listens, TypeInv
<1>6. ASSUME NEW p \in Pads, Reconnects(p) PROVE TypeInv'
  <2>1. sess' \in [Pads -> Session]
    BY <1>1, <1>6 DEF Reconnects, TypeInv, Session
  <2>2. guessed' \in BOOLEAN
    BY <1>6, Zenon DEF Reconnects, TypeInv
  <2> QED
    BY <1>6, <2>1, <2>2 DEF Reconnects, TypeInv
<1>7. ASSUME NEW p \in Pads, SpeakerHeals(p) PROVE TypeInv'
  <2>1. PICK spk \in Int : sess' = [sess EXCEPT ![p].spk = spk]
    <3>1. PICK d \in {None} \cup {DevOf(c) : c \in {Min(can) : can \in SUBSET Cards}} :
            sess' = [sess EXCEPT ![p].spk = d]
      BY <1>7 DEF SpeakerHeals
    <3>2. d \in Int
      BY <1>1 DEF None
    <3> QED
      BY <3>1, <3>2
  <2>2. sess' \in [Pads -> Session]
    BY <2>1 DEF TypeInv, Session
  <2>3. guessed' \in BOOLEAN
    BY <1>7, Zenon DEF SpeakerHeals, TypeInv
  <2> QED
    BY <1>7, <2>2, <2>3 DEF SpeakerHeals, TypeInv
<1>8. ASSUME NEW p \in Pads, MicOpens(p) \/ MicReopens(p) PROVE TypeInv'
  <2>1. mic' \in [Pads -> Mic]
    <3>1. mic[p] \in Mic /\ DevOf(mic[p].card) \in Int /\ None \in Int
      BY <1>1 DEF TypeInv, None
    <3> DEFINE opened == [mic[p] EXCEPT !.at = "running", !.on = DevOf(mic[p].card)]
               scans == [mic[p] EXCEPT !.at = "scanning", !.card = None]
               again == [mic[p] EXCEPT !.at = "running", !.on = DevOf(mic[p].card), !.streak = 0]
               ended == [NoMic EXCEPT !.at = "ended"]
    <3>2. opened \in Mic /\ scans \in Mic /\ again \in Mic /\ ended \in Mic
      <4>1. opened \in Mic
        BY <3>1, MicFields DEF MicStages
      <4>2. scans \in Mic
        BY <3>1, MicFields DEF MicStages
      <4>3. again \in Mic
        <5>1. opened \in Mic /\ 0 \in Int
          BY <4>1
        <5> QED
          BY <5>1, MicFields, Zenon
      <4>4. ended \in Mic
        BY <1>0, MicFields DEF MicStages
      <4> QED
        BY <4>1, <4>2, <4>3, <4>4
    <3>3. \E m \in {opened, scans, again, ended} : mic' = [mic EXCEPT ![p] = m]
      <4>1. CASE MicOpens(p)
        BY <4>1 DEF MicOpens, TypeInv
      <4>2. CASE MicReopens(p)
        BY <4>2 DEF MicReopens, TypeInv
      <4> QED
        BY <1>8, <4>1, <4>2
    <3> HIDE DEF opened, scans, again, ended
    <3> QED
      BY <3>2, <3>3 DEF TypeInv
  <2>2. guessed' \in BOOLEAN
    BY <1>8, Zenon DEF MicOpens, MicReopens, TypeInv
  <2> QED
    BY <1>8, <2>1, <2>2 DEF MicOpens, MicReopens, MicUnchanged, TypeInv
<1>9. ASSUME NEW p \in Pads, MicScans(p) PROVE TypeInv'
  <2>1. ASSUME Open # {} PROVE Min(Open) \in Int
    <3>1. Open \in SUBSET Nat
      BY CardOwner DEF Open
    <3>2. PICK c \in Open : c = Min(Open)
      BY <2>1, <3>1, MinIn
    <3> QED
      BY <3>1, <3>2
  <2>2. mic' \in [Pads -> Mic]
    <3> DEFINE ended == [mic[p] EXCEPT !.at = "ended"]
               first == [mic[p] EXCEPT !.at = "running", !.card = Min(Open), !.on = DevOf(Min(Open))]
    <3>1. mic[p] \in Mic
      BY DEF TypeInv
    <3>2. ended \in Mic /\ (Open # {} => first \in Mic)
      BY <1>1, <2>1, <3>1, MicFields DEF MicStages
    <3>3. mic' = [mic EXCEPT ![p] = IF Open = {} THEN ended ELSE first]
      BY <1>9 DEF MicScans, TypeInv
    <3> HIDE DEF ended, first
    <3> QED
      BY <3>2, <3>3 DEF TypeInv
  <2>3. guessed' \in BOOLEAN
    BY <1>9, Zenon DEF MicScans, TypeInv
  <2> QED
    BY <1>9, <2>2, <2>3 DEF MicScans, MicUnchanged, TypeInv
<1>10. ASSUME NEW p \in Pads, MicReads(p) \/ MicFails(p) PROVE TypeInv'
  <2>1. mic' \in [Pads -> Mic]
    <3> DEFINE calm == [mic[p] EXCEPT !.streak = 0]
               again == [mic[p] EXCEPT !.at = "reopening", !.on = None]
               one == [mic[p] EXCEPT !.streak = @ + 1]
    <3>1. mic[p] \in Mic
      BY DEF TypeInv
    <3>2. calm \in Mic /\ again \in Mic /\ one \in Mic
      <4>0. 0 \in Int /\ None \in Int /\ "reopening" \in MicStages
        BY DEF None, MicStages
      <4>1. calm \in Mic
        BY <3>1, <4>0, MicFields, Zenon
      <4>2. again \in Mic
        BY <3>1, <4>0, MicFields, Zenon
      <4>3. one \in Mic
        <5>1. mic[p].streak + 1 \in Int
          BY <3>1 DEF Mic
        <5> QED
          BY <3>1, <5>1, MicFields
      <4> QED
        BY <4>1, <4>2, <4>3
    <3>3. \E m \in {calm, again, one} : mic' = [mic EXCEPT ![p] = m]
      BY <1>10 DEF MicReads, MicFails, MicRecoverError, TypeInv
    <3> HIDE DEF calm, again, one
    <3> QED
      BY <3>2, <3>3 DEF TypeInv
  <2> QED
    BY <1>10, <2>1 DEF MicReads, MicFails, MicUnchanged, TypeInv
<1>11. ASSUME NEW p \in Pads, CableIn(p) PROVE TypeInv'
  <2>1. PICK node, card \in Nat :
          cabled' = [cabled EXCEPT ![p] = [node |-> node, card |-> card, dev |-> plugs + 1]]
    BY <1>11, CablesIn
  <2>2. [node |-> node, card |-> card, dev |-> plugs + 1] \in Note
    BY DEF Note, TypeInv
  <2> QED
    BY <1>11, <2>1, <2>2 DEF CableIn, TypeInv
<1>12. ASSUME NEW p \in Pads, CableOut(p) PROVE TypeInv'
  BY <1>0, <1>12 DEF CableOut, TypeInv
<1>13. CASE AppRestarts
  BY <1>0, <1>13 DEF AppRestarts, AppGone, TypeInv
<1>14. CASE TvBoots
  <2>1. plugs' \in Nat /\ cabled' \in [Pads -> Note]
    BY <1>14, BootsUp
  <2>2. /\ AppGone /\ boot' = boot + 1 /\ guessed' = FALSE /\ matched' = {}
        /\ UNCHANGED <<readable, file>>
    BY <1>14 DEF TvBoots
  <2>3. /\ notes' \in SUBSET Note /\ lock' \in Pads \cup {Nobody} /\ listens' \in SUBSET Int
        /\ loaded' \in BOOLEAN /\ guessed' \in BOOLEAN /\ matched' \in SUBSET Pads
    BY <2>2, Zenon DEF AppGone
  <2>4. sess' \in [Pads -> Session] /\ mic' \in [Pads -> Mic]
    BY <1>0, <2>2 DEF AppGone
  <2>5. boot' \in Nat /\ readable' \in BOOLEAN /\ file' \in [boot : Nat, notes : SUBSET Note]
    BY <2>2 DEF TypeInv
  <2> QED
    BY <2>1, <2>3, <2>4, <2>5 DEF TypeInv
<1> QED
  BY <1>2, <1>3, <1>4, <1>5, <1>6, <1>7, <1>8, <1>9, <1>10, <1>11, <1>12, <1>13, <1>14
     DEF Next

-----------------------------------------------------------------------------
\* Only cables and boots change what the kernel has made of the pads.
LEMMA OthersLeaveCables ==
    ASSUME IInv, Next, ~TvBoots, \A p \in Pads : ~CableIn(p) /\ ~CableOut(p)
    PROVE  UNCHANGED <<cabled, plugs, boot>>
<1>1. ASSUME NEW p \in Pads, Matches(p) \/ Hears(p) PROVE UNCHANGED <<cabled, plugs, boot>>
  BY <1>1 DEF Matches, Hears
<1>2. ASSUME NEW p \in Pads, PlugsIn(p) \/ Refused(p) \/ PlugsOut(p) \/ Listens(p)
                             \/ Reconnects(p) \/ SpeakerHeals(p)
      PROVE  UNCHANGED <<cabled, plugs, boot>>
  BY <1>2 DEF PlugsIn, Refused, PlugsOut, Listens, Reconnects, SpeakerHeals
<1>3. ASSUME NEW p \in Pads, MicOpens(p) \/ MicScans(p) \/ MicReads(p) \/ MicFails(p) \/ MicReopens(p)
      PROVE  UNCHANGED <<cabled, plugs, boot>>
  BY <1>3 DEF MicOpens, MicScans, MicReads, MicFails, MicReopens, MicUnchanged
<1>4. CASE AppRestarts
  BY <1>4 DEF AppRestarts
<1> QED
  BY <1>1, <1>2, <1>3, <1>4 DEF Next

\* A boot is counted.
LEMMA BootsCount ==
    ASSUME TypeInv, boot' = boot
    PROVE  ~TvBoots
<1>1. TvBoots => boot' = boot + 1
  BY DEF TvBoots
<1> QED
  BY <1>1 DEF TypeInv

\* A guess is taken back by a boot alone.
LEMMA GuessStays ==
    ASSUME IInv, Next, ~TvBoots, ~guessed'
    PROVE  ~guessed
<1> USE DEF IInv
<1>1. ASSUME NEW p \in Pads, Matches(p) \/ Hears(p) PROVE ~guessed
  <2>1. PICK c \in Int, fresh \in BOOLEAN, ns \in SUBSET Note : Asked(p, c, fresh, ns)
    BY <1>1, MatchesAsks, HearsAsks
  <2> QED
    BY <2>1, Answers DEF Asked
<1>2. ASSUME NEW p \in Pads, PlugsIn(p) \/ Refused(p) \/ PlugsOut(p) \/ Listens(p)
                             \/ Reconnects(p) \/ SpeakerHeals(p)
      PROVE  ~guessed
  BY <1>2 DEF PlugsIn, Refused, PlugsOut, Listens, Reconnects, SpeakerHeals
<1>3. ASSUME NEW p \in Pads, MicOpens(p) \/ MicScans(p) \/ MicReads(p) \/ MicFails(p) \/ MicReopens(p)
      PROVE  ~guessed
  BY <1>3 DEF MicOpens, MicScans, MicReads, MicFails, MicReopens
<1>4. ASSUME AppRestarts \/ \E p \in Pads : CableIn(p) \/ CableOut(p)
      PROVE  ~guessed
  BY <1>4 DEF AppRestarts, CableIn, CableOut
<1> QED
  BY <1>1, <1>2, <1>3, <1>4 DEF Next

\* Cables and boots keep the kernel's numbers apart.
LEMMA KernelStep ==
    ASSUME IInv, Next
    PROVE  KernelInv'
<1> USE DEF IInv
<1>1. ASSUME NEW p \in Pads, CableIn(p) PROVE KernelInv'
  <2>1. PICK node, card \in Nat :
          /\ cabled' = [cabled EXCEPT ![p] = [node |-> node, card |-> card, dev |-> plugs + 1]]
          /\ \A q \in Pads : cabled[q].node # node /\ cabled[q].card # card
    BY <1>1, CablesIn
  <2>2. plugs' = plugs + 1 /\ plugs \in Nat
    BY <1>1 DEF CableIn, TypeInv
  <2>3. /\ cabled'[p].node = node /\ cabled'[p].card = card /\ cabled'[p].dev = plugs + 1
        /\ \A q \in Pads \ {p} : cabled'[q] = cabled[q]
    BY <2>1 DEF TypeInv
  <2>4. \A q \in Pads : In(q)' /\ q # p => In(q) /\ cabled[q].dev \in 1..plugs
    BY <2>3 DEF In, KernelInv
  <2> QED
    BY <2>1, <2>2, <2>3, <2>4 DEF KernelInv
<1>2. ASSUME NEW p \in Pads, CableOut(p) PROVE KernelInv'
  <2>1. /\ cabled'[p] = Away /\ plugs' = plugs
        /\ \A q \in Pads \ {p} : cabled'[q] = cabled[q]
    BY <1>2 DEF CableOut, TypeInv
  <2>2. \A q \in Pads : In(q)' => q # p /\ In(q)
    BY <2>1 DEF In
  <2> QED
    BY <2>1, <2>2 DEF KernelInv
<1>3. CASE TvBoots
  BY <1>3, BootsUp
<1>4. CASE ~TvBoots /\ \A p \in Pads : ~CableIn(p) /\ ~CableOut(p)
  <2>1. UNCHANGED <<cabled, plugs>>
    BY <1>4, OthersLeaveCables
  <2> QED
    BY <2>1 DEF KernelInv, In
<1> QED
  BY <1>1, <1>2, <1>3, <1>4

-----------------------------------------------------------------------------
\* What an answer leaves of a session and its microphone.
LEMMA AskLinks ==
    ASSUME TypeInv, LinkInv, NEW p \in Pads, NEW c \in Int, NEW fresh \in BOOLEAN, NEW ns,
           Asked(p, c, fresh, ns)
    PROVE  LinkInv'
<1>1. /\ \A q \in Pads \ {p} : sess'[q] = sess[q] /\ mic'[q] = mic[q]
      /\ sess[p].at = "refused" => sess'[p] = NoSession /\ mic'[p] = mic[p]
      /\ sess[p].at = "plugged" =>
            /\ sess'[p].at = "serving"
            /\ sess'[p].node = sess[p].node /\ sess'[p].dev = sess[p].dev
      /\ sess[p].at \in {"plugged", "refused"}
      /\ cabled' = cabled /\ plugs' = plugs /\ lock' = Nobody /\ listens' = {}
  BY Answers DEF Asked
<1>2. CASE sess[p].at = "refused"
  BY <1>1, <1>2 DEF LinkInv, NoSession
<1>3. CASE sess[p].at = "plugged"
  BY <1>1, <1>3 DEF LinkInv
<1> QED
  BY <1>1, <1>2, <1>3

\* A microphone's step is a session's that is not a refused plug's.
LEMMA MicSteps ==
    ASSUME TypeInv, LinkInv, NEW p \in Pads,
           MicOpens(p) \/ MicScans(p) \/ MicReads(p) \/ MicFails(p) \/ MicReopens(p)
    PROVE  /\ sess[p].at \in {"plugged", "serving"}
           /\ \A q \in Pads \ {p} : mic'[q] = mic[q]
           /\ UNCHANGED <<cabled, plugs, boot, readable, notes, loaded, file, lock,
                          listens, sess, matched>>
<1>1. mic[p].at # "off"
  BY DEF MicOpens, MicScans, MicReads, MicFails, MicReopens
<1>2. sess[p].at \in {"plugged", "serving"}
  BY <1>1 DEF LinkInv, NoMic, TypeInv, Session
<1>3. \E m : mic' = [mic EXCEPT ![p] = m]
  BY DEF MicOpens, MicScans, MicReads, MicFails, MicReopens, TypeInv
<1>4. \A q \in Pads \ {p} : mic'[q] = mic[q]
  BY <1>3 DEF TypeInv
<1>5. MicUnchanged
  BY DEF MicOpens, MicScans, MicReads, MicFails, MicReopens
<1> QED
  BY <1>2, <1>4, <1>5 DEF MicUnchanged

\* A plug's step makes a session of its pad as it is.
LEMMA PlugSteps ==
    ASSUME TypeInv, NEW p \in Pads, PlugsIn(p) \/ Refused(p)
    PROVE  /\ sess[p].at = "none" /\ In(p)
           /\ sess'[p].at \in {"plugged", "refused"}
           /\ sess'[p].node = cabled[p].node /\ sess'[p].dev = cabled[p].dev
           /\ sess'[p].card = None /\ sess'[p].spk = None
           /\ \A q \in Pads \ {p} : sess'[q] = sess[q]
           /\ UNCHANGED <<cabled, plugs, boot, readable, notes, loaded, file, lock,
                          listens, mic, guessed, matched>>
<1>1. /\ sess[p].at = "none" /\ In(p)
      /\ UNCHANGED <<cabled, plugs, boot, readable, notes, loaded, file, lock,
                     listens, mic, guessed, matched>>
  BY DEF PlugsIn, Refused
<1>2. PICK at \in {"plugged", "refused"} : Plugged(at, p)
  BY DEF PlugsIn, Refused
<1>3. sess' = [sess EXCEPT ![p] =
        [NoSession EXCEPT !.at = at, !.node = cabled[p].node, !.dev = cabled[p].dev]]
  BY <1>2 DEF Plugged
<1> QED
  BY <1>1, <1>3 DEF NoSession, TypeInv

\* A reconnect asks again without a card, and opens a speaker with one.
LEMMA ReconnectSteps ==
    ASSUME TypeInv, NEW p \in Pads, Reconnects(p)
    PROVE  /\ sess[p].at = "serving"
           /\ sess'[p].at = "serving" \/ (sess'[p].at = "plugged" /\ sess[p].card = None)
           /\ sess'[p].node = sess[p].node /\ sess'[p].dev = sess[p].dev
           /\ sess'[p].card = sess[p].card /\ sess'[p].fresh = sess[p].fresh
           /\ sess'[p].spk \in {sess[p].spk, DevOf(sess[p].card)}
           /\ guessed \/ (Gone(p) /\ sess'[p] # sess[p]) => guessed'
           /\ \A q \in Pads \ {p} : sess'[q] = sess[q]
           /\ UNCHANGED <<cabled, plugs, boot, readable, notes, loaded, file, lock,
                          listens, mic, matched>>
<1>1. /\ sess[p].at = "serving"
      /\ UNCHANGED <<cabled, plugs, boot, readable, notes, loaded, file, lock,
                     listens, mic, matched>>
      /\ guessed' = (guessed \/ (Gone(p) /\ sess'[p] # sess[p]))
  BY DEF Reconnects
<1> DEFINE s == sess[p]
           t == IF s.card = None THEN [s EXCEPT !.at = "plugged"]
                ELSE IF s.spk = None /\ FreeSpeaker(s.card) THEN [s EXCEPT !.spk = DevOf(s.card)]
                ELSE s
<1>2. s \in Session
  BY DEF TypeInv
<1>3. /\ t.at = "serving" \/ (t.at = "plugged" /\ s.card = None)
      /\ t.node = s.node /\ t.dev = s.dev /\ t.card = s.card /\ t.fresh = s.fresh
      /\ t.spk \in {s.spk, DevOf(s.card)}
  BY <1>1, <1>2 DEF Session
<1>4. sess' = [sess EXCEPT ![p] = t]
  BY DEF Reconnects
<1> HIDE DEF t
<1>5. sess'[p] = t /\ \A q \in Pads \ {p} : sess'[q] = sess[q]
  BY <1>4 DEF TypeInv
<1> QED
  BY <1>1, <1>3, <1>5

\* A speaker that is opened again is on the session's card, or its session guesses or
\* acts for a pad that is gone.
LEMMA SpeakerSteps ==
    ASSUME TypeInv, KernelInv, NEW p \in Pads, SpeakerHeals(p)
    PROVE  /\ sess[p].spk # None
           /\ sess'[p].at = sess[p].at /\ sess'[p].node = sess[p].node
           /\ sess'[p].dev = sess[p].dev /\ sess'[p].card = sess[p].card
           /\ sess'[p].fresh = sess[p].fresh
           /\ guessed => guessed'
           /\ sess'[p].spk = None \/ guessed' \/
                 (~Gone(p) /\ sess[p].card # None /\ sess'[p].spk = DevOf(sess[p].card))
           /\ \A q \in Pads \ {p} : sess'[q] = sess[q]
           /\ UNCHANGED <<cabled, plugs, boot, readable, notes, loaded, file, lock,
                          listens, mic, matched>>
<1> DEFINE shut == [sess[p] EXCEPT !.spk = None]
           free(c) == c \in Cards /\ \A q \in Pads \ {p} : sess[q].spk # DevOf(c)
           wants == IF shut.card # None THEN {shut.card} ELSE Cards
           can == {c \in wants : free(c)}
           spk == IF can = {} THEN None ELSE DevOf(Min(can))
<1>1. /\ sess[p].spk # None
      /\ sess' = [sess EXCEPT ![p].spk = spk]
      /\ guessed' = (guessed \/ (can # {} /\ (Gone(p) \/ shut.card = None)))
      /\ UNCHANGED <<cabled, plugs, boot, readable, notes, loaded, file, lock,
                     listens, mic, matched>>
  BY DEF SpeakerHeals
<1>2. shut.card = sess[p].card
  BY DEF TypeInv, Session
<1>3. ASSUME can # {}, sess[p].card # None
      PROVE  spk = DevOf(sess[p].card)
  <2>1. can = {sess[p].card} /\ sess[p].card \in Cards
    BY <1>2, <1>3
  <2>2. can \in SUBSET Nat
    BY <2>1, CardOwner
  <2>3. Min(can) \in can
    <3> HIDE DEF can
    <3> QED
      BY <1>3, <2>2, MinIn
  <2>4. Min(can) = sess[p].card
    <3> HIDE DEF can
    <3> QED
      BY <2>1, <2>3
  <2> QED
    BY <1>3, <2>4
<1>4. can = {} => spk = None
  OBVIOUS
<1> HIDE DEF spk, can
<1>5. /\ sess'[p].spk = spk /\ sess'[p].at = sess[p].at /\ sess'[p].node = sess[p].node
      /\ sess'[p].dev = sess[p].dev /\ sess'[p].card = sess[p].card
      /\ sess'[p].fresh = sess[p].fresh
      /\ \A q \in Pads \ {p} : sess'[q] = sess[q]
  BY <1>1 DEF TypeInv, Session
<1> HIDE DEF shut
<1> QED
  BY <1>1, <1>2, <1>3, <1>4, <1>5

\* Every step keeps sessions, microphones and the lock to their pads.
LEMMA LinkStep ==
    ASSUME IInv, Next
    PROVE  LinkInv'
<1> USE DEF IInv
<1>1. ASSUME NEW p \in Pads, PlugsIn(p) \/ Refused(p) PROVE LinkInv'
  <2>1. lock # p
    BY <1>1, PlugSteps, PadsAssumption DEF LinkInv
  <2>2. cabled[p].dev \in 1..plugs /\ \A q \in Pads : cabled[q].dev = cabled[p].dev => q = p
    BY <1>1, PlugSteps, DeviceIsOne DEF KernelInv
  <2>3. /\ sess[p].at = "none"
        /\ sess'[p].at \in {"plugged", "refused"}
        /\ sess'[p].node = cabled[p].node /\ sess'[p].dev = cabled[p].dev
        /\ sess'[p].card = None /\ sess'[p].spk = None
        /\ \A q \in Pads \ {p} : sess'[q] = sess[q]
        /\ UNCHANGED <<cabled, plugs, lock, listens, mic>>
    BY <1>1, PlugSteps
  <2>4. lock \in Pads \cup {Nobody}
    BY DEF TypeInv
  <2> QED
    BY <2>1, <2>2, <2>3, <2>4 DEF LinkInv
<1>2. ASSUME NEW p \in Pads, PlugsOut(p) PROVE LinkInv'
  <2>1. /\ sess'[p] = NoSession /\ mic'[p] = NoMic /\ lock # p
        /\ \A q \in Pads \ {p} : sess'[q] = sess[q] /\ mic'[q] = mic[q]
        /\ UNCHANGED <<cabled, plugs, lock, listens>>
    BY <1>2 DEF PlugsOut, TypeInv
  <2>2. lock \in Pads \cup {Nobody}
    BY DEF TypeInv
  <2> QED
    BY <2>1, <2>2 DEF LinkInv, NoSession
<1>3. ASSUME NEW p \in Pads, Matches(p) \/ Hears(p) PROVE LinkInv'
  <2>1. PICK c \in Int, fresh \in BOOLEAN, ns \in SUBSET Note : Asked(p, c, fresh, ns)
    BY <1>3, MatchesAsks, HearsAsks
  <2> QED
    BY <2>1, AskLinks
<1>4. ASSUME NEW p \in Pads, Listens(p) PROVE LinkInv'
  BY <1>4, PadsAssumption DEF Listens, LinkInv
<1>5. ASSUME NEW p \in Pads, Reconnects(p) PROVE LinkInv'
  <2>1. lock # p
    BY <1>5, ReconnectSteps, PadsAssumption DEF LinkInv
  <2>2. lock \in Pads \cup {Nobody}
    BY DEF TypeInv
  <2> QED
    BY <1>5, <2>1, <2>2, ReconnectSteps DEF LinkInv
<1>6. ASSUME NEW p \in Pads, SpeakerHeals(p) PROVE LinkInv'
  <2>1. lock \in Pads \cup {Nobody}
    BY DEF TypeInv
  <2> QED
    BY <1>6, <2>1, SpeakerSteps DEF LinkInv
<1>7. ASSUME NEW p \in Pads,
             MicOpens(p) \/ MicScans(p) \/ MicReads(p) \/ MicFails(p) \/ MicReopens(p)
      PROVE  LinkInv'
  BY <1>7, MicSteps DEF LinkInv
<1>8. ASSUME NEW p \in Pads, CableIn(p) PROVE LinkInv'
  <2>1. PICK node, card \in Nat :
          cabled' = [cabled EXCEPT ![p] = [node |-> node, card |-> card, dev |-> plugs + 1]]
    BY <1>8, CablesIn
  <2>2. /\ cabled'[p].dev = plugs + 1 /\ \A q \in Pads \ {p} : cabled'[q] = cabled[q]
        /\ plugs' = plugs + 1 /\ plugs \in Nat /\ UNCHANGED <<lock, listens, sess, mic>>
    BY <1>8, <2>1 DEF CableIn, TypeInv
  <2> QED
    BY <2>2 DEF LinkInv
<1>9. ASSUME NEW p \in Pads, CableOut(p) PROVE LinkInv'
  <2>1. /\ cabled'[p] = Away /\ \A q \in Pads \ {p} : cabled'[q] = cabled[q]
        /\ plugs \in Nat /\ UNCHANGED <<plugs, lock, listens, sess, mic>>
    BY <1>9 DEF CableOut, TypeInv
  <2> QED
    BY <2>1 DEF LinkInv, Away, None
<1>10. CASE AppRestarts \/ TvBoots
  <2>1. AppGone
    BY <1>10 DEF AppRestarts, TvBoots
  <2> QED
    BY <2>1 DEF AppGone, LinkInv, NoSession
<1> QED
  BY <1>1, <1>2, <1>3, <1>4, <1>5, <1>6, <1>7, <1>8, <1>9, <1>10 DEF Next

-----------------------------------------------------------------------------
\* What one step of each kind does to the notes.
LEMMA BelievableStep ==
    ASSUME IInv, Next
    PROVE  /\ file'.boot \in 0..boot'
           /\ TvBoots => Believable' = {}
           /\ Believable' \subseteq Believable \/
                 \E p \in Pads, c \in Int, fresh \in BOOLEAN, ns \in SUBSET Note :
                    Asked(p, c, fresh, ns) /\ Believable' \subseteq Believable \cup ns
<1> USE DEF IInv
<1>0. file.boot \in 0..boot
  BY DEF NotesInv, TypeInv
<1>1. ASSUME NEW p \in Pads, Matches(p) \/ Hears(p)
      PROVE  /\ file'.boot \in 0..boot' /\ ~TvBoots
             /\ \E c \in Int, fresh \in BOOLEAN, ns \in SUBSET Note :
                    Asked(p, c, fresh, ns) /\ Believable' \subseteq Believable \cup ns
  <2>1. PICK c \in Int, fresh \in BOOLEAN, ns \in SUBSET Note : Asked(p, c, fresh, ns)
    BY <1>1, MatchesAsks, HearsAsks
  <2>2. boot' = boot /\ boot \in Nat /\ Remember(ns)
    BY <2>1 DEF Asked, TypeInv
  <2>3. Believable' \subseteq Believable \cup ns /\ file'.boot \in {file.boot, boot}
    BY <2>2, RememberKeeps
  <2>4. ~TvBoots
    BY <2>2 DEF TvBoots
  <2> QED
    BY <1>0, <2>1, <2>2, <2>3, <2>4
<1>2. ASSUME NEW p \in Pads, Listens(p)
      PROVE  file'.boot \in 0..boot' /\ Believable' \subseteq Believable /\ ~TvBoots
  <2>1. boot' = boot /\ boot \in Nat /\ Remember(Pruned)
    BY <1>2 DEF Listens, TypeInv
  <2>2. Pruned \in SUBSET Note /\ Pruned \subseteq Believable
    BY PrunedIsOld
  <2>3. Believable' \subseteq Believable \cup Pruned /\ file'.boot \in {file.boot, boot}
    BY <2>1, <2>2, RememberKeeps
  <2>4. ~TvBoots
    BY <2>1 DEF TvBoots
  <2> QED
    BY <1>0, <2>1, <2>2, <2>3, <2>4
<1>3. ASSUME UNCHANGED <<boot, file>>, notes' \in {notes, {}}
      PROVE  file'.boot \in 0..boot' /\ Believable' \subseteq Believable /\ ~TvBoots
  <2>1. ~TvBoots
    BY <1>3 DEF TvBoots, TypeInv
  <2> QED
    BY <1>0, <1>3, <2>1 DEF Believable
<1>4. ASSUME NEW p \in Pads, PlugsIn(p) \/ Refused(p) \/ PlugsOut(p) \/ Reconnects(p) \/ SpeakerHeals(p)
      PROVE  UNCHANGED <<boot, file, notes>>
  BY <1>4 DEF PlugsIn, Refused, PlugsOut, Reconnects, SpeakerHeals
<1>5. ASSUME NEW p \in Pads,
             MicOpens(p) \/ MicScans(p) \/ MicReads(p) \/ MicFails(p) \/ MicReopens(p)
      PROVE  UNCHANGED <<boot, file, notes>>
  BY <1>5, MicSteps
<1>6. ASSUME NEW p \in Pads, CableIn(p) \/ CableOut(p)
      PROVE  UNCHANGED <<boot, file, notes>>
  BY <1>6 DEF CableIn, CableOut
<1>7. AppRestarts => UNCHANGED <<boot, file>> /\ notes' = {}
  BY DEF AppRestarts, AppGone
<1>8. ASSUME TvBoots
      PROVE  file'.boot \in 0..boot' /\ Believable' = {}
  <2>1. boot' = boot + 1 /\ file' = file /\ notes' = {} /\ boot \in Nat
    BY <1>8 DEF TvBoots, AppGone, TypeInv
  <2> QED
    BY <1>0, <2>1 DEF Believable
<1> QED
  BY <1>1, <1>2, <1>3, <1>4, <1>5, <1>6, <1>7, <1>8 DEF Next

\* Device numbers are given out in order within a boot.
LEMMA PlugsGrow ==
    ASSUME IInv, Next, ~TvBoots
    PROVE  1..plugs \subseteq 1..plugs'
<1> USE DEF IInv
<1>1. CASE \A p \in Pads : ~CableIn(p) /\ ~CableOut(p)
  BY <1>1, OthersLeaveCables
<1>2. ASSUME NEW p \in Pads, CableIn(p) \/ CableOut(p)
      PROVE  plugs' \in {plugs, plugs + 1}
  BY <1>2 DEF CableIn, CableOut
<1> QED
  BY <1>1, <1>2 DEF TypeInv

\* Every step keeps the notes to devices of this boot, and the file to no later one.
LEMMA NotesStep ==
    ASSUME IInv, Next
    PROVE  NotesInv'
<1> USE DEF IInv
<1>1. file'.boot <= boot'
  <2>1. boot' \in Nat
    BY TypeStep DEF TypeInv
  <2> QED
    BY <2>1, BelievableStep
<1>2. \A n \in Believable' : n.dev \in 1..plugs'
  <2>1. CASE TvBoots
    BY <2>1, BelievableStep
  <2>2. CASE ~TvBoots
    <3>1. \A n \in Believable' : n.dev \in 1..plugs
      BY BelievableStep DEF Asked, NotesInv
    <3> QED
      BY <2>2, <3>1, PlugsGrow
  <2> QED
    BY <2>1, <2>2
<1> QED
  BY <1>1, <1>2 DEF NotesInv

-----------------------------------------------------------------------------
\* An answer opens what is the pad's own.
LEMMA AskOwn ==
    ASSUME IInv, NEW p \in Pads, NEW c \in Int, NEW fresh \in BOOLEAN, NEW ns,
           Asked(p, c, fresh, ns), ~guessed'
    PROVE  OwnInv'
<1> USE DEF IInv
<1>1. /\ \A q \in Pads \ {p} : sess'[q] = sess[q] /\ mic'[q] = mic[q]
      /\ guessed \/ Gone(p) => guessed'
      /\ sess[p].at = "refused" => sess'[p] = NoSession /\ mic'[p] = mic[p]
      /\ sess[p].at = "plugged" =>
            /\ sess'[p].at = "serving"
            /\ sess'[p].node = sess[p].node /\ sess'[p].dev = sess[p].dev
            /\ sess'[p].card = c /\ sess'[p].fresh = fresh
            /\ guessed' \/ sess'[p].spk \in {sess[p].spk} \cup {d \in {DevOf(c)} : c # None}
            /\ mic'[p] = mic[p] \/ (mic'[p].card = c /\ mic'[p].on = None)
  BY Answers DEF Asked
<1>2. /\ sess[p].at \in {"plugged", "refused"} /\ sess[p].card = None /\ cabled' = cabled
      /\ ~guessed /\ ~Gone(p) => c \in {None, cabled[p].card}
  BY DEF Asked
<1>3. ~guessed /\ ~Gone(p) /\ OwnInv
  BY <1>1
<1>4. In(p) /\ sess[p].dev = cabled[p].dev
  BY <1>2, <1>3, StillIn
<1>5. c # None => DevOf(c) = sess[p].dev
  BY <1>2, <1>3, <1>4, OwnDevice
<1>6. CASE sess[p].at = "refused"
  <2>1. mic[p] = NoMic
    BY <1>6 DEF LinkInv
  <2> QED
    BY <1>1, <1>2, <1>3, <1>6, <2>1 DEF OwnInv, NoSession, NoMic, Gone
<1>7. CASE sess[p].at = "plugged"
  BY <1>1, <1>2, <1>3, <1>5, <1>7 DEF OwnInv, Gone
<1> QED
  BY <1>2, <1>6, <1>7

\* What a microphone is opened on is what its session was told, or a guess.
LEMMA MicOwn ==
    ASSUME IInv, Next, NEW p \in Pads,
           MicOpens(p) \/ MicScans(p) \/ MicReads(p) \/ MicFails(p) \/ MicReopens(p), ~guessed'
    PROVE  OwnInv'
<1> USE DEF IInv
<1>1. /\ sess[p].at \in {"plugged", "serving"}
      /\ \A q \in Pads \ {p} : mic'[q] = mic[q]
      /\ UNCHANGED <<cabled, sess, boot>>
  BY MicSteps
<1>2. ~guessed /\ OwnInv
  BY <1>1, GuessStays, BootsCount
<1>3. mic[p] \in Mic
  BY DEF TypeInv
<1>4. ASSUME ~Gone(p), mic[p].card \in Cards
      PROVE  DevOf(mic[p].card) = sess[p].dev /\ sess[p].card # None
  <2>1. mic[p].card # None
    BY <1>4, CardOwner DEF None
  <2>2. mic[p].card = cabled[p].card /\ sess[p].card # None
    BY <1>1, <1>2, <1>4, <2>1 DEF OwnInv
  <2> QED
    BY <1>1, <1>4, <2>2, StillIn, OwnDevice
<1>5. /\ mic'[p].card \in {mic[p].card, None}
      /\ \/ mic'[p].on \in {mic[p].on, None}
         \/ ~Gone(p) /\ mic[p].card \in Cards /\ mic'[p].on = DevOf(mic[p].card)
  <2>1. CASE MicOpens(p)
    <3>1. CASE mic[p].card # None /\ FreeMic(mic[p].card)
      <4>1. mic'[p] = [mic[p] EXCEPT !.at = "running", !.on = DevOf(mic[p].card)]
        BY <2>1, <3>1 DEF MicOpens, TypeInv
      <4>2. mic'[p].at = "running" /\ mic'[p].card = mic[p].card /\ mic'[p].on = DevOf(mic[p].card)
        BY <1>3, <4>1 DEF Mic
      <4>3. ~Gone(p)
        BY <2>1, <4>2 DEF MicOpens
      <4> QED
        BY <3>1, <4>2, <4>3 DEF FreeMic
    <3>2. CASE ~(mic[p].card # None /\ FreeMic(mic[p].card))
      <4>1. mic'[p] = [mic[p] EXCEPT !.at = "scanning", !.card = None]
        BY <2>1, <3>2 DEF MicOpens, TypeInv
      <4> QED
        BY <1>3, <4>1 DEF Mic
    <3> QED
      BY <3>1, <3>2
  <2>2. CASE MicScans(p)
    <3>1. Open = {}
      BY <2>2 DEF MicScans
    <3>2. mic'[p] = [mic[p] EXCEPT !.at = "ended"]
      BY <2>2, <3>1 DEF MicScans, TypeInv
    <3> QED
      BY <1>3, <3>2 DEF Mic
  <2>3. CASE MicReads(p)
    BY <1>3, <2>3 DEF MicReads, TypeInv, Mic
  <2>4. CASE MicFails(p)
    <3>1. PICK kind \in {"overrun", "again", "poll", "gone"} : mic'[p] = MicRecoverError(mic[p], kind)
      BY <2>4 DEF MicFails, TypeInv
    <3> QED
      BY <1>3, <3>1 DEF MicRecoverError, Mic
  <2>5. CASE MicReopens(p)
    <3>1. CASE FreeMic(mic[p].card)
      <4>1. mic'[p] = [mic[p] EXCEPT !.at = "running", !.on = DevOf(mic[p].card), !.streak = 0]
        BY <2>5, <3>1 DEF MicReopens, TypeInv
      <4>2. mic'[p].at = "running" /\ mic'[p].card = mic[p].card /\ mic'[p].on = DevOf(mic[p].card)
        BY <1>3, <4>1 DEF Mic
      <4>3. ~Gone(p)
        BY <2>5, <4>2 DEF MicReopens
      <4> QED
        BY <3>1, <4>2, <4>3 DEF FreeMic
    <3>2. CASE ~FreeMic(mic[p].card)
      <4>1. mic'[p] = [NoMic EXCEPT !.at = "ended"]
        BY <2>5, <3>2 DEF MicReopens, TypeInv
      <4> QED
        BY <4>1 DEF NoMic
    <3> QED
      BY <3>1, <3>2
  <2> QED
    BY <2>1, <2>2, <2>3, <2>4, <2>5
<1> QED
  BY <1>1, <1>2, <1>4, <1>5 DEF OwnInv, Gone

\* Until a guess, every step opens what is the pad's own.
LEMMA OwnStep ==
    ASSUME IInv, Next, ~guessed'
    PROVE  OwnInv'
<1> USE DEF IInv
<1>1. boot' = boot => ~guessed /\ OwnInv
  BY GuessStays, BootsCount
<1>2. ASSUME NEW p \in Pads, PlugsIn(p) \/ Refused(p) PROVE OwnInv'
  <2>1. /\ sess[p].at = "none" /\ sess'[p].card = None /\ sess'[p].spk = None
        /\ \A q \in Pads \ {p} : sess'[q] = sess[q]
        /\ UNCHANGED <<cabled, mic, boot>>
    BY <1>2, PlugSteps
  <2>2. mic[p] = NoMic
    BY <2>1 DEF LinkInv
  <2>3. OwnInv
    BY <1>1, <2>1
  <2> QED
    BY <2>1, <2>2, <2>3 DEF OwnInv, Gone, NoMic
<1>3. ASSUME NEW p \in Pads, PlugsOut(p) PROVE OwnInv'
  <2>1. /\ sess'[p] = NoSession /\ mic'[p] = NoMic
        /\ \A q \in Pads \ {p} : sess'[q] = sess[q] /\ mic'[q] = mic[q]
        /\ cabled' = cabled /\ boot' = boot
    BY <1>3 DEF PlugsOut, TypeInv
  <2>2. OwnInv
    BY <1>1, <2>1
  <2> QED
    BY <2>1, <2>2 DEF OwnInv, Gone, NoSession, NoMic
<1>4. ASSUME NEW p \in Pads, Matches(p) \/ Hears(p) PROVE OwnInv'
  <2>1. PICK c \in Int, fresh \in BOOLEAN, ns \in SUBSET Note : Asked(p, c, fresh, ns)
    BY <1>4, MatchesAsks, HearsAsks
  <2> QED
    BY <2>1, AskOwn
<1>5. ASSUME NEW p \in Pads, Listens(p) PROVE OwnInv'
  <2>1. UNCHANGED <<sess, mic, cabled, boot>>
    BY <1>5 DEF Listens
  <2>2. OwnInv
    BY <1>1, <2>1
  <2> QED
    BY <2>1, <2>2 DEF OwnInv, Gone
<1>6. ASSUME NEW p \in Pads, Reconnects(p) PROVE OwnInv'
  <2>1. /\ sess[p].at = "serving" /\ sess'[p].at # "none"
        /\ sess'[p].dev = sess[p].dev /\ sess'[p].card = sess[p].card
        /\ sess'[p].spk \in {sess[p].spk, DevOf(sess[p].card)}
        /\ Gone(p) => sess'[p] = sess[p]
        /\ \A q \in Pads \ {p} : sess'[q] = sess[q]
        /\ UNCHANGED <<cabled, mic, boot>>
    BY <1>6, ReconnectSteps
  <2>2. OwnInv
    BY <1>1, <2>1
  <2>3. ASSUME ~Gone(p)
        PROVE  DevOf(sess[p].card) \in {None, sess[p].dev}
    <3>1. CASE sess[p].card = None
      BY <3>1, CardOwner DEF None
    <3>2. CASE sess[p].card = cabled[p].card
      BY <2>1, <2>3, <3>2, StillIn, OwnDevice
    <3> QED
      BY <2>1, <2>2, <2>3, <3>1, <3>2 DEF OwnInv
  <2> QED
    BY <2>1, <2>2, <2>3 DEF OwnInv, Gone
<1>7. ASSUME NEW p \in Pads, SpeakerHeals(p) PROVE OwnInv'
  <2>1. /\ sess[p].spk # None
        /\ sess'[p].at = sess[p].at /\ sess'[p].dev = sess[p].dev /\ sess'[p].card = sess[p].card
        /\ sess'[p].spk = None \/
              (~Gone(p) /\ sess[p].card # None /\ sess'[p].spk = DevOf(sess[p].card))
        /\ \A q \in Pads \ {p} : sess'[q] = sess[q]
        /\ UNCHANGED <<cabled, mic, boot>>
    BY <1>7, SpeakerSteps
  <2>2. OwnInv
    BY <1>1, <2>1
  <2>3. sess[p].at # "none"
    BY <2>1 DEF LinkInv
  <2>4. ASSUME ~Gone(p), sess[p].card # None
        PROVE  DevOf(sess[p].card) = sess[p].dev
    <3>1. sess[p].card = cabled[p].card
      BY <2>2, <2>3, <2>4 DEF OwnInv
    <3> QED
      BY <2>3, <2>4, <3>1, StillIn, OwnDevice
  <2> QED
    BY <2>1, <2>2, <2>4 DEF OwnInv, Gone
<1>8. ASSUME NEW p \in Pads,
             MicOpens(p) \/ MicScans(p) \/ MicReads(p) \/ MicFails(p) \/ MicReopens(p)
      PROVE  OwnInv'
  BY <1>8, MicOwn
<1>9. ASSUME NEW p \in Pads, CableIn(p) PROVE OwnInv'
  <2>1. PICK node, card \in Nat :
          cabled' = [cabled EXCEPT ![p] = [node |-> node, card |-> card, dev |-> plugs + 1]]
    BY <1>9, CablesIn
  <2>2. /\ cabled'[p].dev = plugs + 1 /\ \A q \in Pads \ {p} : cabled'[q] = cabled[q]
        /\ plugs \in Nat /\ UNCHANGED <<boot, sess, mic>>
    BY <1>9, <2>1 DEF CableIn, TypeInv
  <2>3. OwnInv
    BY <1>1, <2>2
  <2>4. sess[p].at # "none" => Gone(p)'
    BY <2>2 DEF LinkInv, Gone
  <2> QED
    BY <2>2, <2>3, <2>4 DEF OwnInv, Gone
<1>10. ASSUME NEW p \in Pads, CableOut(p) PROVE OwnInv'
  <2>1. /\ cabled'[p].dev = None /\ \A q \in Pads \ {p} : cabled'[q] = cabled[q]
        /\ UNCHANGED <<boot, sess, mic>>
    BY <1>10 DEF CableOut, TypeInv, Away
  <2>2. OwnInv
    BY <1>1, <2>1
  <2>3. sess[p].at # "none" => Gone(p)'
    BY <2>1 DEF LinkInv, Gone, None, TypeInv
  <2> QED
    BY <2>1, <2>2, <2>3 DEF OwnInv, Gone
<1>11. CASE AppRestarts \/ TvBoots
  <2>1. AppGone
    BY <1>11 DEF AppRestarts, TvBoots
  <2> QED
    BY <2>1 DEF AppGone, OwnInv, NoSession, NoMic
<1> QED
  BY <1>2, <1>3, <1>4, <1>5, <1>6, <1>7, <1>8, <1>9, <1>10, <1>11 DEF Next

-----------------------------------------------------------------------------
\* Until a guess, every step leaves notes that are true.
LEMMA MemoryStep ==
    ASSUME IInv, Next, ~guessed'
    PROVE  MemoryInv'
<1> USE DEF IInv
<1>1. CASE TvBoots
  <2>1. Believable' = {} /\ AppGone
    BY <1>1, BelievableStep DEF TvBoots
  <2> QED
    BY <2>1 DEF MemoryInv, AppGone, NoSession
<1>2. ASSUME ~TvBoots
      PROVE  MemoryInv'
  <2>1. ~guessed /\ OwnInv /\ MemoryInv
    BY <1>2, GuessStays
  <2>2. ASSUME NEW p \in Pads, NEW c \in Int, NEW fresh \in BOOLEAN, NEW ns,
               Asked(p, c, fresh, ns), Believable' \subseteq Believable \cup ns
        PROVE  MemoryInv'
    <3>1. /\ \A q \in Pads \ {p} : sess'[q] = sess[q]
          /\ ~Gone(p)
          /\ sess[p].at = "refused" => sess'[p] = NoSession
          /\ sess[p].at = "plugged" => sess'[p].fresh = fresh
      BY <2>2, Answers DEF Asked
    <3>2. /\ sess[p].at \in {"plugged", "refused"} /\ cabled' = cabled
          /\ \A n \in ns : n \in Believable \/ (n = NoteOf(p) /\ p \in matched')
          /\ fresh \/ p \in matched'
          /\ matched \subseteq matched'
      BY <2>1, <2>2, <3>1 DEF Asked
    <3>3. In(p)
      BY <3>1, <3>2, StillIn
    <3>4. \A q \in Pads : cabled[q].dev = NoteOf(p).dev
             => q = p /\ cabled[q].node = NoteOf(p).node /\ cabled[q].card = NoteOf(p).card
      BY <3>3, DeviceIsOne DEF NoteOf
    <3>5. \A n \in Believable' : \A q \in Pads : cabled[q].dev = n.dev =>
             q \in matched' /\ cabled[q].node = n.node /\ cabled[q].card = n.card
      BY <2>1, <2>2, <3>2, <3>4 DEF MemoryInv
    <3>6. \A q \in Pads : sess'[q].at = "serving" /\ ~Gone(q)' /\ ~sess'[q].fresh => q \in matched'
      BY <2>1, <3>1, <3>2 DEF MemoryInv, Gone, NoSession
    <3> QED
      BY <3>2, <3>5, <3>6 DEF MemoryInv
  <2>3. ASSUME Believable' \subseteq Believable, UNCHANGED <<cabled, matched>>,
               \A q \in Pads : sess'[q].at = "serving" =>
                   sess[q].at = "serving" /\ sess'[q].dev = sess[q].dev /\ sess'[q].fresh = sess[q].fresh
        PROVE  MemoryInv'
    BY <2>1, <2>3 DEF MemoryInv, Gone
  <2>4. ASSUME NEW p \in Pads, CableIn(p) \/ CableOut(p)
        PROVE  MemoryInv'
    <3>1. /\ cabled'[p].dev \notin 1..plugs /\ \A q \in Pads \ {p} : cabled'[q] = cabled[q]
          /\ UNCHANGED <<boot, file, notes, sess>> /\ matched' = matched \ {p}
      <4>1. CASE CableIn(p)
        <5>1. PICK node, card \in Nat :
                cabled' = [cabled EXCEPT ![p] = [node |-> node, card |-> card, dev |-> plugs + 1]]
          BY <4>1, CablesIn
        <5> QED
          BY <4>1, <5>1 DEF CableIn, TypeInv
      <4>2. CASE CableOut(p)
        BY <4>2 DEF CableOut, TypeInv, Away, None
      <4> QED
        BY <2>4, <4>1, <4>2
    <3>2. Believable' = Believable
      BY <3>1 DEF Believable
    <3>3. \A n \in Believable : n.dev \in 1..plugs
      BY DEF NotesInv
    <3>4. sess[p].at = "serving" => Gone(p)'
      BY <3>1 DEF LinkInv, Gone
    <3> QED
      BY <2>1, <3>1, <3>2, <3>3, <3>4 DEF MemoryInv, Gone
  <2>5. ASSUME NEW p \in Pads, PlugsIn(p) \/ Refused(p) PROVE MemoryInv'
    <3>1. UNCHANGED <<boot, file, notes, cabled, matched>>
      BY <2>5, PlugSteps
    <3>2. Believable' = Believable
      BY <3>1 DEF Believable
    <3> QED
      BY <2>3, <2>5, <3>1, <3>2, PlugSteps
  <2>6. ASSUME NEW p \in Pads, PlugsOut(p) PROVE MemoryInv'
    <3>1. /\ UNCHANGED <<boot, file, notes, cabled, matched>>
          /\ sess'[p].at = "none" /\ \A q \in Pads \ {p} : sess'[q] = sess[q]
      BY <2>6 DEF PlugsOut, TypeInv, NoSession
    <3>2. Believable' = Believable
      BY <3>1 DEF Believable
    <3> QED
      BY <2>3, <3>1, <3>2
  <2>7. ASSUME NEW p \in Pads, Matches(p) \/ Hears(p) PROVE MemoryInv'
    <3>1. PICK c \in Int, fresh \in BOOLEAN, ns \in SUBSET Note : Asked(p, c, fresh, ns)
      BY <2>7, MatchesAsks, HearsAsks
    <3>2. Believable' \subseteq Believable \cup ns
      BY <3>1, RememberKeeps DEF Asked
    <3> QED
      BY <2>2, <3>1, <3>2
  <2>8. ASSUME NEW p \in Pads, Listens(p) PROVE MemoryInv'
    <3>1. UNCHANGED <<boot, cabled, sess, matched>> /\ Remember(Pruned)
      BY <2>8 DEF Listens
    <3>2. Pruned \in SUBSET Note /\ Pruned \subseteq Believable
      BY PrunedIsOld
    <3>3. Believable' \subseteq Believable \cup Pruned
      BY <3>1, <3>2, RememberKeeps
    <3> QED
      BY <2>3, <3>1, <3>2, <3>3
  <2>9. ASSUME NEW p \in Pads, Reconnects(p) \/ SpeakerHeals(p) PROVE MemoryInv'
    <3>1. UNCHANGED <<boot, file, notes, cabled, matched>>
      BY <2>9, ReconnectSteps, SpeakerSteps
    <3>2. Believable' = Believable
      BY <3>1 DEF Believable
    <3>3. \A q \in Pads : sess'[q].at = "serving" =>
             sess[q].at = "serving" /\ sess'[q].dev = sess[q].dev /\ sess'[q].fresh = sess[q].fresh
      <4>1. CASE Reconnects(p)
        BY <4>1, ReconnectSteps
      <4>2. CASE SpeakerHeals(p)
        BY <4>2, SpeakerSteps
      <4> QED
        BY <2>9, <4>1, <4>2
    <3> QED
      BY <2>3, <3>1, <3>2, <3>3
  <2>10. ASSUME NEW p \in Pads,
                MicOpens(p) \/ MicScans(p) \/ MicReads(p) \/ MicFails(p) \/ MicReopens(p)
         PROVE  MemoryInv'
    <3>1. UNCHANGED <<boot, file, notes, cabled, matched, sess>>
      BY <2>10, MicSteps
    <3>2. Believable' = Believable
      BY <3>1 DEF Believable
    <3> QED
      BY <2>3, <3>1, <3>2
  <2>11. CASE AppRestarts
    <3>1. UNCHANGED <<boot, file, cabled, matched>> /\ notes' = {} /\ AppGone
      BY <2>11 DEF AppRestarts, AppGone
    <3>2. Believable' \subseteq Believable
      BY <3>1 DEF Believable
    <3> QED
      BY <2>3, <3>1, <3>2 DEF AppGone, NoSession
  <2> QED
    BY <1>2, <2>4, <2>5, <2>6, <2>7, <2>8, <2>9, <2>10, <2>11 DEF Next
<1> QED
  BY <1>1, <1>2

-----------------------------------------------------------------------------
\* The invariant: the kernel's numbers are each one pad's, sessions are of pads, and
\* before a guess what is open and what is remembered is true of them.
THEOREM Invariance == Spec => []IInv
<1>1. Init => IInv
  <2>1. ASSUME Init PROVE TypeInv
    <3>1. Away \in Note /\ NoSession \in Session /\ NoMic \in Mic
      BY DEF Away, NoSession, NoMic, None, Note, Session, Mic, MicStages
    <3>2. file \in [boot : Nat, notes : SUBSET Note] /\ guessed \in BOOLEAN /\ loaded \in BOOLEAN
      BY <2>1 DEF Init, NoFile
    <3> QED
      BY <2>1, <3>1, <3>2 DEF Init, TypeInv
  <2>2. ASSUME Init PROVE \A p \in Pads : ~In(p) /\ sess[p] = NoSession /\ mic[p] = NoMic
    BY <2>2 DEF Init, In
  <2>3. ASSUME Init PROVE KernelInv /\ OwnInv
    BY <2>2, <2>3 DEF KernelInv, OwnInv, NoSession, NoMic
  <2>4. ASSUME Init PROVE LinkInv
    BY <2>2, <2>4 DEF Init, LinkInv, NoSession
  <2>5. ASSUME Init PROVE Believable = {} /\ file.boot = 0 /\ boot = 1
    BY <2>5 DEF Init, Believable, NoFile
  <2>6. ASSUME Init PROVE NotesInv /\ MemoryInv
    BY <2>2, <2>5, <2>6 DEF NotesInv, MemoryInv, NoSession
  <2> QED
    BY <2>1, <2>3, <2>4, <2>6 DEF IInv
<1>2. IInv /\ [Next]_vars => IInv'
  <2>1. ASSUME IInv, Next PROVE IInv'
    BY <2>1, TypeStep, KernelStep, LinkStep, NotesStep, OwnStep, MemoryStep DEF IInv
  <2>2. ASSUME IInv, UNCHANGED vars PROVE IInv'
    <3>1. TypeInv' /\ KernelInv' /\ LinkInv'
      BY <2>2 DEF IInv, TypeInv, KernelInv, LinkInv, In, vars
    <3>2. Believable' = Believable /\ guessed' = guessed
      BY <2>2 DEF Believable, vars
    <3>3. NotesInv'
      BY <2>2, <3>2 DEF IInv, NotesInv, vars
    <3>4. OwnInv /\ MemoryInv => OwnInv' /\ MemoryInv'
      BY <2>2, <3>2 DEF OwnInv, MemoryInv, Gone, vars
    <3> QED
      BY <2>2, <3>1, <3>2, <3>3, <3>4 DEF IInv
  <2> QED
    BY <2>1, <2>2
<1> QED
  BY <1>1, <1>2, PTL DEF Spec

\* A session's card, its speaker and its microphone are its own pad's, until something
\* was opened on the first free card or for a pad that is gone: through replugged
\* cables, reconnects, restarts, reopened speakers and microphones, for any number of
\* pads.
THEOREM SoundStaysOwn == Spec => []SoundIsOwn
<1>1. IInv => SoundIsOwn
  <2>1. SUFFICES ASSUME IInv, ~guessed, NEW p \in Pads, Serves(p)
                 PROVE  /\ sess[p].card \in {None, cabled[p].card}
                        /\ {sess[p].spk, mic[p].on} \subseteq {None, cabled[p].dev}
    BY DEF SoundIsOwn
  <2>2. sess[p].at # "none" /\ ~Gone(p) /\ sess[p].dev = cabled[p].dev
    BY <2>1 DEF Serves, Gone
  <2> QED
    BY <2>1, <2>2 DEF IInv, OwnInv
<1> QED
  BY <1>1, Invariance, PTL

\* A note that would be believed names the card of the pad that is on its node, which was
\* matched on this cable; and a session that does not play its tone twice is of a pad
\* that was matched.
THEOREM NotesStayTrue == Spec => []NotesAreTrue
<1>1. IInv => NotesAreTrue
  <2>1. SUFFICES ASSUME IInv, ~guessed
                 PROVE  /\ \A n \in Pruned : \E p \in matched :
                              cabled[p].node = n.node /\ cabled[p].card = n.card
                        /\ \A p \in Pads : Serves(p) /\ sess[p].at = "serving" /\ ~sess[p].fresh
                              => p \in matched
    BY DEF NotesAreTrue
  <2>2. ASSUME NEW n \in Pruned
        PROVE  \E p \in matched : cabled[p].node = n.node /\ cabled[p].card = n.card
    <3>1. n \in Believable /\ DevOf(n.card) = n.dev /\ n.dev \in 1..plugs
      BY <2>1, PrunedIsOld DEF IInv, NotesInv
    <3>2. n.card \in Cards
      BY <2>1, <3>1, CardOwner DEF IInv, None
    <3>3. PICK p \in Pads : In(p) /\ n.card = cabled[p].card /\ n.dev = cabled[p].dev
      BY <2>1, <3>1, <3>2, CardOwner DEF IInv
    <3> QED
      BY <2>1, <3>1, <3>3 DEF IInv, MemoryInv
  <2>3. \A p \in Pads : Serves(p) /\ sess[p].at = "serving" /\ ~sess[p].fresh => p \in matched
    BY <2>1 DEF IInv, MemoryInv, Serves
  <2> QED
    BY <2>2, <2>3
<1> QED
  BY <1>1, Invariance, PTL

-----------------------------------------------------------------------------
\* The table and its file have room for what is in them.
Fits(ns) == IsFiniteSet(ns) /\ Cardinality(ns) <= NotesMax
RoomInv == Fits(notes) /\ Fits(file.notes)

\* Dropping notes leaves room, and a note is written only where there is.
LEMMA NotesFit ==
    ASSUME RoomInv
    PROVE  /\ Fits(Loaded) /\ Fits(Pruned) /\ Fits({})
           /\ \A node, card : Fits(WithNote(node, card))
<1>0. NotesMax \in Nat \ {0}
  BY BoundsAssumption
<1>1. Fits({})
  BY <1>0, FS_EmptySet DEF Fits
<1>2. Fits(Loaded)
  BY <1>1 DEF Loaded, RoomInv
<1>3. ASSUME NEW S, Fits(S), NEW T, T \subseteq S
      PROVE  Fits(T) /\ Cardinality(T) \in Nat
  <2>1. IsFiniteSet(T) /\ Cardinality(T) <= Cardinality(S)
    BY <1>3, FS_Subset DEF Fits
  <2>2. Cardinality(T) \in Nat /\ Cardinality(S) \in Nat
    BY <1>3, <2>1, FS_CardinalityType DEF Fits
  <2> QED
    BY <1>0, <1>3, <2>1, <2>2 DEF Fits
<1>4. Fits(Pruned)
  BY <1>2, <1>3 DEF Pruned
<1>5. ASSUME NEW node, NEW card
      PROVE  Fits(WithNote(node, card))
  <2> DEFINE others == {n \in Pruned : n.card # card \/ n.node = node}
             mine == {n \in others : n.node = node}
             note == [node |-> node, card |-> card, dev |-> DevOf(card)]
  <2>1. WithNote(node, card) = IF ~readable THEN Pruned
        ELSE IF mine # {} \/ Cardinality(others) < NotesMax
             THEN (others \ mine) \cup {note} ELSE others
    BY DEF WithNote
  <2>2. others \subseteq Pruned /\ mine \subseteq others
    OBVIOUS
  <2> HIDE DEF others, mine, note
  <2>3. Fits(others) /\ Cardinality(others) \in Nat
    BY <1>3, <1>4, <2>2
  <2>4. Fits(others \ mine) /\ Cardinality(others \ mine) \in Nat
    BY <1>3, <2>3
  <2>5. /\ IsFiniteSet((others \ mine) \cup {note})
        /\ Cardinality((others \ mine) \cup {note}) <= Cardinality(others \ mine) + 1
    <3> DEFINE rest == others \ mine
    <3>1. IsFiniteSet(rest) /\ Cardinality(rest) \in Nat
      BY <2>4 DEF Fits
    <3> HIDE DEF rest
    <3>2. /\ IsFiniteSet(rest \cup {note})
          /\ Cardinality(rest \cup {note})
                = IF note \in rest THEN Cardinality(rest) ELSE Cardinality(rest) + 1
      BY <3>1, FS_AddElement
    <3>3. IsFiniteSet(rest \cup {note}) /\ Cardinality(rest \cup {note}) <= Cardinality(rest) + 1
      BY <3>1, <3>2
    <3> QED
      BY <3>3 DEF rest
  <2>6. Cardinality((others \ mine) \cup {note}) \in Nat
    BY <2>5, FS_CardinalityType
  <2>7. ASSUME mine # {}
        PROVE  Cardinality(others \ mine) < Cardinality(others)
    <3>1. Cardinality(others \ mine) <= Cardinality(others)
          /\ (Cardinality(others) = Cardinality(others \ mine) => others = others \ mine)
      BY <2>3, FS_Subset DEF Fits
    <3> QED
      BY <2>2, <2>3, <2>4, <2>7, <3>1
  <2>8. ASSUME mine = {}, Cardinality(others) < NotesMax
        PROVE  Cardinality(others \ mine) < NotesMax
    <3>1. others \ mine = others
      BY <2>8
    <3> QED
      BY <2>8, <3>1
  <2>9. ASSUME mine # {} \/ Cardinality(others) < NotesMax
        PROVE  Fits((others \ mine) \cup {note})
    <3>1. Cardinality(others \ mine) < NotesMax
      BY <1>0, <2>3, <2>4, <2>7, <2>8, <2>9 DEF Fits
    <3> QED
      BY <1>0, <2>4, <2>5, <2>6, <3>1 DEF Fits
  <2> QED
    BY <1>4, <2>1, <2>3, <2>9
<1> QED
  BY <1>1, <1>2, <1>4, <1>5

\* Every step leaves the table and the file with room.
LEMMA RoomStep ==
    ASSUME RoomInv, Next
    PROVE  RoomInv'
<1>1. ASSUME NEW ns, Fits(ns), Remember(ns) PROVE RoomInv'
  <2>1. notes' = ns /\ (file' = file \/ file'.notes = ns)
    BY <1>1 DEF Remember
  <2> QED
    BY <1>1, <2>1 DEF RoomInv, Fits
<1>2. ASSUME NEW p \in Pads, Matches(p) PROVE RoomInv'
  <2>1. Remember(Pruned) \/ \E c : Remember(WithNote(sess[p].node, c))
    BY <1>2 DEF Matches
  <2> QED
    BY <1>1, <2>1, NotesFit
<1>3. ASSUME NEW p \in Pads, Hears(p) PROVE RoomInv'
  <2>1. Remember(Pruned) \/ \E c : Remember(WithNote(sess[p].node, c))
    BY <1>3 DEF Hears
  <2> QED
    BY <1>1, <2>1, NotesFit
<1>4. ASSUME NEW p \in Pads, Listens(p) PROVE RoomInv'
  BY <1>1, <1>4, NotesFit DEF Listens
<1>5. ASSUME notes' = notes \/ notes' = {}, file' = file PROVE RoomInv'
  <2>1. Fits({})
    BY NotesFit
  <2> QED
    BY <1>5, <2>1 DEF RoomInv, Fits
<1>6. ASSUME NEW p \in Pads, PlugsIn(p) \/ Refused(p) \/ PlugsOut(p) \/ Reconnects(p) \/ SpeakerHeals(p)
      PROVE  RoomInv'
  BY <1>5, <1>6 DEF PlugsIn, Refused, PlugsOut, Reconnects, SpeakerHeals
<1>7. ASSUME NEW p \in Pads,
             MicOpens(p) \/ MicScans(p) \/ MicReads(p) \/ MicFails(p) \/ MicReopens(p)
      PROVE  RoomInv'
  BY <1>5, <1>7 DEF MicOpens, MicScans, MicReads, MicFails, MicReopens, MicUnchanged
<1>8. ASSUME NEW p \in Pads, CableIn(p) \/ CableOut(p) PROVE RoomInv'
  BY <1>5, <1>8 DEF CableIn, CableOut
<1>9. CASE AppRestarts \/ TvBoots
  <2>1. notes' = {} /\ file' = file
    BY <1>9 DEF AppRestarts, TvBoots, AppGone
  <2> QED
    BY <1>5, <2>1
<1> QED
  BY <1>2, <1>3, <1>4, <1>6, <1>7, <1>8, <1>9 DEF Next

\* The variables keep their types, and the table never has more notes than places,
\* whatever is read back from the file.
THEOREM TypeCorrect == Spec => []TypeOK
<1>1. Init => RoomInv
  <2>1. ASSUME Init PROVE notes = {} /\ file.notes = {}
    BY <2>1 DEF Init, NoFile
  <2>2. Fits({})
    BY BoundsAssumption, FS_EmptySet DEF Fits
  <2> QED
    BY <2>1, <2>2 DEF RoomInv
<1>2. RoomInv /\ [Next]_vars => RoomInv'
  <2>1. ASSUME RoomInv, UNCHANGED vars PROVE RoomInv'
    BY <2>1 DEF RoomInv, Fits, vars
  <2> QED
    BY <2>1, RoomStep
<1>3. IInv /\ RoomInv => TypeOK
  BY DEF IInv, RoomInv, Fits, TypeInv, TypeOK, Session, Mic, MicStages
<1>4. Spec => []RoomInv
  BY <1>1, <1>2, PTL DEF Spec
<1> QED
  BY <1>3, <1>4, Invariance, PTL
=============================================================================
