----------------------------- MODULE SoundCards -----------------------------
(***************************************************************************)
(* Which sound card is whose, when several cabled DualSenses look alike.   *)
(* A session finds its pad's card once, by a remembered note, by           *)
(* elimination or by muting the pad and listening for the card that falls  *)
(* silent (ctm_cardmatch.inl), and opens its speaker and its microphone    *)
(* there; without an answer they take the first free DualSense card.  A    *)
(* note is believed while its card is still the USB device it was written  *)
(* for (cardmatch_cache.inl).  A signal for a refused plug asks the same   *)
(* (ctm_signal_wired.inl).  Pads come and go, the app restarts, the TV     *)
(* boots again.                                                            *)
(***************************************************************************)
EXTENDS Integers, FiniteSets, FiniteSetsExt

CONSTANTS
    Pads,        \* cabled DualSenses
    NotesMax,    \* CARDMATCH_CACHE_MAX (4)
    RetriesMax,  \* MIC_RECOVER_RETRIES (5)
    MaxPlugs,    \* bounds the cables put in, fewer in a later boot
    MaxBoots,
    MicOn        \* whether the microphone is captured (the user's switch)

ASSUME BoundsAssumption ==
    /\ {NotesMax, RetriesMax, MaxPlugs, MaxBoots} \subseteq Nat \ {0}
    /\ MicOn \in BOOLEAN
Nobody == "nobody"
ASSUME PadsAssumption == IsFiniteSet(Pads) /\ Nobody \notin Pads

VARIABLES
    cabled,      \* what the kernel has made of each pad: a node, a card, a device number
    plugs,       \* device numbers given out in this boot
    boot,        \* the boot's id
    readable,    \* a card's device number can be read on this TV
    notes, loaded,  \* g_cardmatch_cache, and whether the file was read in this run
    file,        \* the file: a boot and its notes
    lock,        \* g_cardmatch_lock: Nobody, or the pad that listens
    listens,     \* the cards it holds open to listen to
    sess,        \* the sessions
    mic,         \* their microphones' threads
    \* history
    guessed,     \* a speaker or a microphone took the first free card, or a card was
                 \* matched or opened for a pad whose cable was out by then
    matched      \* the pads whose card was matched since they were cabled

vars == <<cabled, plugs, boot, readable, notes, loaded, file, lock, listens,
          sess, mic, guessed, matched>>

None == -1
Away == [node |-> None, card |-> None, dev |-> None]
NoFile == [boot |-> 0, notes |-> {}]
NoSession == [at |-> "none", node |-> None, dev |-> None, card |-> None,
              fresh |-> FALSE, spk |-> None]
NoMic == [at |-> "off", card |-> None, on |-> None, streak |-> 0]

\* The session's pad is not on the cable that it was bridged on.
Gone(p) == sess[p].dev # cabled[p].dev

Numbers == 0..(Cardinality(Pads) - 1)
In(p) == cabled[p] # Away
Cards == {cabled[p].card : p \in {q \in Pads : In(q)}}
\* The device behind a card, as its usbbus says; None when the card is gone.
DevOf(c) == IF c \in Cards THEN cabled[CHOOSE p \in Pads : cabled[p].card = c].dev ELSE None
\* A handle holds a card for as long as the card is the device it was opened on.
HeldMics == {mic[p].on : p \in Pads} \cup listens
FreeMic(c) == c \in Cards /\ DevOf(c) \notin HeldMics
FreeSpeaker(c) == c \in Cards /\ \A p \in Pads : sess[p].spk # DevOf(c)

Init ==
    /\ cabled = [p \in Pads |-> Away]
    /\ plugs = 0 /\ boot = 1
    /\ readable \in BOOLEAN
    /\ notes = {} /\ loaded = FALSE /\ file = NoFile
    /\ lock = Nobody /\ listens = {}
    /\ sess = [p \in Pads |-> NoSession]
    /\ mic = [p \in Pads |-> NoMic]
    /\ guessed = FALSE /\ matched = {}

-----------------------------------------------------------------------------
(* The notes. *)

StillTrue(n) == readable /\ DevOf(n.card) = n.dev

\* Slip: the file is read whichever boot left it.
LoadedOfAnyBoot == IF loaded THEN notes ELSE file.notes
\* cardmatch_cache_load, once in a run of the app.
Loaded ==
    IF loaded THEN notes ELSE IF file.boot = boot THEN file.notes ELSE {}

\* cardmatch_cache_prune: a note whose card is another device by now is dropped.
Pruned == {n \in Loaded : StillTrue(n)}
Known(node) == {n.card : n \in {m \in Pruned : m.node = node}}

Remember(ns) ==
    /\ notes' = ns /\ loaded' = TRUE
    /\ file' = IF ns # Loaded THEN [boot |-> boot, notes |-> ns] ELSE file

\* cardmatch_cache_put: the note takes the card from any other node's; it is not
\* written when the table is full.
WithNote(node, card) ==
    LET others == {n \in Pruned : n.card # card \/ n.node = node}
        mine == {n \in others : n.node = node}
        note == [node |-> node, card |-> card, dev |-> DevOf(card)]
    IN  IF ~readable THEN Pruned
        ELSE IF mine # {} \/ Cardinality(others) < NotesMax
             THEN (others \ mine) \cup {note} ELSE others

-----------------------------------------------------------------------------
(* The match, under the lock. *)

Claimed(node) == {n.card : n \in {m \in Pruned : m.node # node}}
Open == {c \in Cards : FreeMic(c)}
Unclaimed(node) == Open \ Claimed(node)

\* What is opened when the answer is in: the speaker, on the card or on the first
\* free one; one that is open moves when it can.
Speaker(s, card) ==
    IF card # None THEN
        IF DevOf(card) = s.spk \/ ~FreeSpeaker(card) THEN s.spk ELSE DevOf(card)
    ELSE IF s.spk = None /\ \E c \in Cards : FreeSpeaker(c)
         THEN DevOf(Min({c \in Cards : FreeSpeaker(c)}))
         ELSE s.spk

\* The answer goes to the session, and its sound is opened; a refused plug has
\* no session, and only the note stays.
Answered(p, card, fresh) ==
    LET s == sess[p]
        spk == Speaker(s, card)
    IN  IF s.at = "refused" THEN
            /\ sess' = [sess EXCEPT ![p] = NoSession]
            /\ guessed' = (guessed \/ Gone(p))
            /\ UNCHANGED mic
        ELSE
            /\ sess' = [sess EXCEPT ![p] =
                    [s EXCEPT !.at = "serving", !.card = card, !.fresh = fresh, !.spk = spk]]
            /\ mic' = IF MicOn /\ mic[p].at = "off"
                      THEN [mic EXCEPT ![p] = [NoMic EXCEPT !.at = "opening", !.card = card]]
                      ELSE mic
            /\ guessed' = (guessed \/ Gone(p) \/ (card = None /\ spk # s.spk))

\* The answer is at hand: a note, or the one card that no other node's note
\* claims, or no card to listen to.
Matches(p) ==
    /\ lock = Nobody /\ sess[p].at \in {"plugged", "refused"} /\ sess[p].card = None
    /\ LET s == sess[p]
           known == Known(s.node)
           only == Unclaimed(s.node)
       IN  \/ /\ known # {}
              /\ Remember(Pruned)
              /\ \E c \in known : Answered(p, c, FALSE)
              /\ UNCHANGED matched
           \/ /\ known = {} /\ Cardinality(only) = 1
              /\ \E c \in only :
                    /\ Remember(WithNote(s.node, c))
                    /\ Answered(p, c, TRUE)
              /\ matched' = matched \cup {p}
           \/ /\ known = {} /\ Open = {}
              /\ Remember(Pruned)
              /\ Answered(p, None, TRUE)
              /\ UNCHANGED matched
    /\ UNCHANGED <<cabled, plugs, boot, readable, lock, listens>>

\* Otherwise every free card is held open, to be listened to twice.
Listens(p) ==
    /\ lock = Nobody /\ sess[p].at \in {"plugged", "refused"} /\ sess[p].card = None
    /\ Known(sess[p].node) = {} /\ Open # {} /\ Cardinality(Unclaimed(sess[p].node)) # 1
    /\ Remember(Pruned)
    /\ lock' = p
    /\ listens' = {DevOf(c) : c \in Open}
    /\ UNCHANGED <<cabled, plugs, boot, readable, sess, mic, guessed, matched>>

\* The pad that the mute reaches: a session writes to its own, a refused plug to
\* whatever is on the node by then.
Muted(p) ==
    {q \in Pads : In(q) /\ IF sess[p].at = "refused" THEN cabled[q].node = sess[p].node
                          ELSE q = p /\ ~Gone(p)}

\* What is read of each card, before the mute and under it: nothing, silence or a
\* sound.  A muted pad gives no sound and a pulled cable nothing; another pad's
\* microphone is not muted meanwhile.
Readings(p) ==
    {r \in [listens -> [live : {None, 0, 1}, muted : {None, 0, 1}]] :
        \A d \in listens :
            /\ d \in {cabled[q].dev : q \in Muted(p)} => r[d].muted # 1
            /\ d \notin {cabled[q].dev : q \in Muted(p)} => ~(r[d].live = 1 /\ r[d].muted = 0)
            /\ d \notin {cabled[q].dev : q \in Pads} => r[d].muted = None}

\* Slip: a card of which nothing was read counts as silent.
FellSilentOrAway(r) == {d \in DOMAIN r : r[d].live > 0 /\ r[d].muted <= 0}
\* Live, then silent.
FellSilent(r) == {d \in DOMAIN r : r[d].live > 0 /\ r[d].muted = 0}

\* The one card that fell silent is the muted pad's; none or several are no answer.
Hears(p) ==
    /\ lock = p
    /\ lock' = Nobody /\ listens' = {}
    /\ \E r \in Readings(p) :
        \/ /\ Cardinality(FellSilent(r)) = 1
           /\ \E q \in {q \in Pads : cabled[q].dev \in FellSilent(r)} :
                /\ Remember(WithNote(sess[p].node, cabled[q].card))
                /\ Answered(p, cabled[q].card, TRUE)
                /\ matched' = matched \cup {q}
        \/ /\ Cardinality(FellSilent(r)) # 1
           /\ Remember(Pruned)
           /\ Answered(p, None, TRUE)
           /\ UNCHANGED matched
    /\ UNCHANGED <<cabled, plugs, boot, readable>>

\* A reconnect keeps the card, and asks again only when it had no answer.
Reconnects(p) ==
    /\ sess[p].at = "serving"
    /\ LET s == sess[p]
       IN  sess' = [sess EXCEPT ![p] =
               IF s.card = None THEN [s EXCEPT !.at = "plugged"]
               ELSE IF s.spk = None /\ FreeSpeaker(s.card) THEN [s EXCEPT !.spk = DevOf(s.card)]
               ELSE s]
    /\ guessed' = (guessed \/ (Gone(p) /\ sess'[p] # sess[p]))
    /\ UNCHANGED <<cabled, plugs, boot, readable, notes, loaded, file, lock,
                   listens, mic, matched>>

\* The speaker gives trouble, and is opened again: on the card, or on the first
\* free one when none was matched.
SpeakerHeals(p) ==
    /\ sess[p].spk # None
    /\ LET shut == [sess[p] EXCEPT !.spk = None]
           free(c) == c \in Cards /\ \A q \in Pads \ {p} : sess[q].spk # DevOf(c)
           wants == IF shut.card # None THEN {shut.card} ELSE Cards
           can == {c \in wants : free(c)}
       IN  /\ sess' = [sess EXCEPT ![p].spk = IF can = {} THEN None ELSE DevOf(Min(can))]
           /\ guessed' = (guessed \/ (can # {} /\ (Gone(p) \/ shut.card = None)))
    /\ UNCHANGED <<cabled, plugs, boot, readable, notes, loaded, file, lock,
                   listens, mic, matched>>

-----------------------------------------------------------------------------
(* The microphone's thread. *)

MicUnchanged == UNCHANGED <<cabled, plugs, boot, readable, notes, loaded, file,
                            lock, listens, sess, matched>>

\* Opened by identity, or it goes on to the scan.
MicOpens(p) ==
    /\ mic[p].at = "opening"
    /\ mic' = [mic EXCEPT ![p] =
            IF mic[p].card # None /\ FreeMic(mic[p].card)
            THEN [@ EXCEPT !.at = "running", !.on = DevOf(mic[p].card)]
            ELSE [@ EXCEPT !.at = "scanning", !.card = None]]
    /\ guessed' = (guessed \/ (Gone(p) /\ mic'[p].at = "running"))
    /\ MicUnchanged

MicScans(p) ==
    /\ mic[p].at = "scanning"
    /\ mic' = [mic EXCEPT ![p] =
            IF Open = {} THEN [@ EXCEPT !.at = "ended"]
            ELSE [@ EXCEPT !.at = "running", !.card = Min(Open), !.on = DevOf(Min(Open))]]
    /\ guessed' = (guessed \/ Open # {})
    /\ MicUnchanged

Live(p) == mic[p].on \in {DevOf(c) : c \in Cards}

\* A read ends a run of errors.
MicReads(p) ==
    /\ mic[p].at = "running" /\ Live(p)
    /\ mic' = [mic EXCEPT ![p].streak = 0]
    /\ MicUnchanged /\ UNCHANGED guessed

\* Slip: an error of the poll is not counted.
MicFailsUncounted(p) ==
    /\ mic[p].at = "running"
    /\ mic' = [mic EXCEPT ![p] = IF Live(p) THEN [@ EXCEPT !.at = "reopening", !.on = None] ELSE @]
    /\ MicUnchanged /\ UNCHANGED guessed

\* mic_recover_error: an overrun, nothing to read or an error of the poll is tried
\* again, and after so many in a row the card is opened afresh; a device that is
\* gone, at once.
MicRecoverError(m, kind) ==
    IF kind = "gone" \/ m.streak + 1 >= RetriesMax
    THEN [m EXCEPT !.at = "reopening", !.on = None]
    ELSE [m EXCEPT !.streak = @ + 1]

\* A pulled cable fails every time.
MicFails(p) ==
    /\ mic[p].at = "running"
    /\ \E kind \in {"overrun", "again", "poll", "gone"} :
            mic' = [mic EXCEPT ![p] = MicRecoverError(@, kind)]
    /\ MicUnchanged /\ UNCHANGED guessed

\* Opened afresh on the same card, or the thread ends.
MicReopens(p) ==
    /\ mic[p].at = "reopening"
    /\ mic' = [mic EXCEPT ![p] =
            IF FreeMic(mic[p].card)
            THEN [@ EXCEPT !.at = "running", !.on = DevOf(mic[p].card), !.streak = 0]
            ELSE [NoMic EXCEPT !.at = "ended"]]
    /\ guessed' = (guessed \/ (Gone(p) /\ mic'[p].at = "running"))
    /\ MicUnchanged

-----------------------------------------------------------------------------
(* Sessions, cables, the app and the TV. *)

Plugged(at, p) ==
    sess' = [sess EXCEPT ![p] =
        [NoSession EXCEPT !.at = at, !.node = cabled[p].node, !.dev = cabled[p].dev]]

PlugsIn(p) ==
    /\ sess[p].at = "none" /\ In(p)
    /\ Plugged("plugged", p)
    /\ UNCHANGED <<cabled, plugs, boot, readable, notes, loaded, file, lock,
                   listens, mic, guessed, matched>>

\* A plug the PC refuses; its signal asks for the card.
Refused(p) ==
    /\ sess[p].at = "none" /\ In(p)
    /\ Plugged("refused", p)
    /\ UNCHANGED <<cabled, plugs, boot, readable, notes, loaded, file, lock,
                   listens, mic, guessed, matched>>

\* The threads are joined and the speaker closed.
PlugsOut(p) ==
    /\ sess[p].at \in {"plugged", "serving"} /\ lock # p
    /\ sess' = [sess EXCEPT ![p] = NoSession]
    /\ mic' = [mic EXCEPT ![p] = NoMic]
    /\ UNCHANGED <<cabled, plugs, boot, readable, notes, loaded, file, lock,
                   listens, guessed, matched>>

\* The kernel gives the lowest free numbers, and a device number of its own.
CableIn(p) ==
    /\ ~In(p) /\ plugs + boot <= MaxPlugs
    /\ LET lowest(taken) == Min(Numbers \ taken)
       IN  cabled' = [cabled EXCEPT ![p] =
               [node |-> lowest({cabled[q].node : q \in Pads}),
                card |-> lowest(Cards), dev |-> plugs + 1]]
    /\ plugs' = plugs + 1
    /\ matched' = matched \ {p}
    /\ UNCHANGED <<boot, readable, notes, loaded, file, lock, listens, sess, mic, guessed>>

CableOut(p) ==
    /\ In(p)
    /\ cabled' = [cabled EXCEPT ![p] = Away]
    /\ matched' = matched \ {p}
    /\ UNCHANGED <<plugs, boot, readable, notes, loaded, file, lock, listens,
                   sess, mic, guessed>>

AppGone ==
    /\ notes' = {} /\ loaded' = FALSE
    /\ lock' = Nobody /\ listens' = {}
    /\ sess' = [p \in Pads |-> NoSession]
    /\ mic' = [p \in Pads |-> NoMic]

AppRestarts ==
    /\ AppGone
    /\ UNCHANGED <<cabled, plugs, boot, readable, file, guessed, matched>>

\* The pads are found again, their nodes and their cards in any order.
TvBoots ==
    /\ boot < MaxBoots
    /\ boot' = boot + 1
    /\ AppGone
    /\ LET in == {p \in Pads : In(p)}
           n == Cardinality(in)
           orders == {f \in [in -> 0..(n - 1)] : \A p, q \in in : p # q => f[p] # f[q]}
       IN  /\ \E nodes, cards \in orders :
                cabled' = [p \in Pads |->
                    IF p \in in THEN [node |-> nodes[p], card |-> cards[p], dev |-> cards[p] + 1]
                    ELSE Away]
           /\ plugs' = n
    /\ guessed' = FALSE /\ matched' = {}
    /\ UNCHANGED <<readable, file>>

Next ==
    \/ \E p \in Pads :
        \/ PlugsIn(p) \/ Refused(p) \/ PlugsOut(p)
        \/ Matches(p) \/ Listens(p) \/ Hears(p) \/ Reconnects(p) \/ SpeakerHeals(p)
        \/ MicOpens(p) \/ MicScans(p) \/ MicReads(p) \/ MicFails(p) \/ MicReopens(p)
        \/ CableIn(p) \/ CableOut(p)
    \/ AppRestarts \/ TvBoots

\* The microphone's thread runs.
Fairness ==
    \A p \in Pads : WF_vars(MicOpens(p) \/ MicScans(p) \/ MicFails(p) \/ MicReopens(p))

Spec == Init /\ [][Next]_vars /\ Fairness

-----------------------------------------------------------------------------
TypeOK ==
    /\ Cardinality(notes) <= NotesMax
    /\ \A p \in Pads :
        /\ sess[p].at \in {"none", "refused", "plugged", "serving"}
        /\ mic[p].at \in {"off", "opening", "scanning", "running", "reopening", "ended"}

\* A session whose pad has stayed on its cable.
Serves(p) == sess[p].at \in {"plugged", "serving"} /\ ~Gone(p)

\* The comment on the match: the last free card is not this pad's, it is whatever
\* nobody else grabbed (ctm_cardmatch.inl 388-402).  So a session's card is its
\* pad's own, whoever holds what.
CardIsOwn == \A p \in Pads : Serves(p) => sess[p].card \in {None, cabled[p].card}

\* "Use the card the probe identified ..., and fall back to the scan only when it could
\* not answer" (mic_capture_thread): a microphone that knows its card finds it free.
IdentifiedIsFree ==
    \A p \in Pads : Serves(p) /\ mic[p].at = "opening" /\ mic[p].card # None =>
        FreeMic(mic[p].card)

\* It is so, and the speaker and the microphone are on it, for as long as nothing
\* has been opened on the first free card, and nothing for a pad that is gone:
\* through replugged cables, reconnects,
\* restarts, reopened speakers and microphones, two sessions at once, and on a
\* TV where no note is ever written (cardmatch_identify, mic_capture_thread).
SoundIsOwn ==
    ~guessed => \A p \in Pads : Serves(p) =>
        /\ sess[p].card \in {None, cabled[p].card}
        /\ {sess[p].spk, mic[p].on} \subseteq {None, cabled[p].dev}

\* A note that would be believed is of the pad that is on its node now, names its
\* card, and was written since its cable went in: a session skips the second play
\* of its tone only for a pad that was matched before (cardmatch_cache_get,
\* card_fresh).
NotesAreTrue ==
    ~guessed =>
        /\ \A n \in Pruned : \E p \in matched : cabled[p].node = n.node /\ cabled[p].card = n.card
        /\ \A p \in Pads : Serves(p) /\ sess[p].at = "serving" /\ ~sess[p].fresh => p \in matched

\* A pulled cable ends the capture: its errors are counted, and the thread does
\* not go on with a device that is gone (mic_recover_error).
PulledCableEndsCapture ==
    \A p \in Pads : (mic[p].at = "running" /\ ~Live(p)) ~> ~(mic[p].at = "running" /\ ~Live(p))
=============================================================================
