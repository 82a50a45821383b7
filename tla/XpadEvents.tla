----------------------------- MODULE XpadEvents -----------------------------
(***************************************************************************)
(* A cabled Xbox pad, read through the kernel's events                     *)
(* (src/src/controllers/controller_xpad.c).  The kernel keeps so many      *)
(* events for a reader; when one more does not fit it drops what it kept   *)
(* and says so, and the code then passes over the rest of the packet and   *)
(* reads the pad's whole state afresh, one ioctl after another, while the  *)
(* person goes on.  It reads it in the same way when it opens the pad.     *)
(***************************************************************************)
EXTENDS XpadStates, Sequences

CONSTANTS
    Moved,     \* the codes a person moves
    Values,    \* the values of a stick or a trigger
    QueueCap   \* events the kernel keeps for a reader

ASSUME XpadAssumption ==
    /\ Moved \subseteq Codes
    /\ Values \subseteq Int
    /\ QueueCap \in Nat \ {0, 1}

VARIABLES
    hatKeys,   \* the pad's directions come as keys, not as a hat
    held,      \* what the driver holds for each code
    queue,     \* the events the kernel keeps
    st,        \* what the code takes the pad's state to be
    resync,    \* events were dropped, and the state is to be read afresh
    at,        \* what is being read: events, or the state's axes, or its keys
    hat        \* xpad_read_state's hat_x and hat_y

xeVars == <<hatKeys, held, queue, st, resync, at, hat>>

\* "A pad reports its d-pad one way only" (xpad_report.inl).
PadMoves == Moved \ (IF hatKeys THEN Hats ELSE Directions)
ValuesOf(c) ==
    IF c \in Keys THEN {0, 1} ELSE IF c \in Hats THEN {-1, 0, 1} ELSE Values

\* The pad is opened, with nothing kept for the reader yet.
XEInit ==
    /\ hatKeys \in BOOLEAN
    /\ held = [c \in Codes |-> 0]
    /\ queue = <<>> /\ st = Resting
    /\ resync = FALSE /\ at = "axes" /\ hat = <<0, 0>>

\* The kernel keeps what fits, and once it does not, the last packet behind
\* the word that some were dropped.
KernelKeeps(packet) ==
    IF Len(queue) + Len(packet) <= QueueCap THEN queue \o packet
    ELSE <<Dropped>> \o packet

Move(c, v) ==
    /\ held[c] # v
    /\ held' = [held EXCEPT ![c] = v]
    /\ queue' = KernelKeeps(<<[code |-> c, value |-> v], Syn>>)
    /\ UNCHANGED <<hatKeys, st, resync, at, hat>>

\* One event, in the order the kernel kept them: an ordinary one goes into the
\* state, a dropped one starts a resync, and from then everything up to the
\* end of a packet is passed over.
ReadEvent ==
    /\ at = "events" /\ queue # <<>>
    /\ LET e == Head(queue)
       IN  /\ resync' = (resync \/ e = Dropped)
           /\ st' = IF resync THEN st ELSE ApplyEvent(st, e)
           /\ at' = IF resync /\ e = Syn THEN "axes" ELSE "events"
    /\ queue' = Tail(queue)
    /\ UNCHANGED <<hatKeys, held, hat>>

\* xpad_read_state: the axes and the hat.
ReadAxes ==
    /\ at = "axes"
    /\ st' = [st EXCEPT !.axis = [a \in AbsAxes |-> held[a]]]
    /\ hat' = <<held["HAT0X"], held["HAT0Y"]>>
    /\ at' = "keys"
    /\ UNCHANGED <<hatKeys, held, queue, resync>>

\* A mutation of ReadKeys: the hat, then the four keys on top of it (as the code
\* did once: "the read applied the hat and then the four buttons").
ReadKeysOverHat ==
    /\ at = "keys"
    /\ st' = [st EXCEPT !.on = {KeyBit[k] : k \in {c \in Keys : held[c] # 0}}]
    /\ resync' = FALSE /\ at' = "events" /\ hat' = <<0, 0>>
    /\ UNCHANGED <<hatKeys, held, queue>>

\* And the keys, with which the directions are put together.
ReadKeys ==
    /\ at = "keys"
    /\ st' = WholeState({k \in Keys : held[k] # 0}, hat[1], hat[2], st.axis)
    /\ resync' = FALSE /\ at' = "events" /\ hat' = <<0, 0>>
    /\ UNCHANGED <<hatKeys, held, queue>>

XENext ==
    \/ \E c \in PadMoves : \E v \in ValuesOf(c) : Move(c, v)
    \/ ReadEvent \/ ReadAxes \/ ReadKeys

XESpec == XEInit /\ [][XENext]_xeVars

-----------------------------------------------------------------------------
\* The values the variables take.
XETypeOK ==
    /\ hatKeys \in BOOLEAN /\ resync \in BOOLEAN
    /\ held \in [Codes -> Int]
    /\ queue \in Seq([code : Codes \cup {"REPORT", "DROPPED"}, value : Int])
    /\ Len(queue) <= QueueCap + 1
    /\ st \in [on : SUBSET {KeyBit[k] : k \in Keys}, axis : [AbsAxes -> Int]]
    /\ at \in {"events", "axes", "keys"}
    /\ hat \in Int \X Int

\* The state that goes with what the driver holds.
Settled ==
    WholeState({k \in Keys : held[k] # 0}, held["HAT0X"], held["HAT0Y"], [a \in AbsAxes |-> held[a]])

\* Events the kernel drops are never missed for good: when the reader has
\* caught up, the state its reports are made of is the pad's, however the
\* moves fell between the drop, the axes and the keys (xpad_read_input,
\* xpad_read_state).
DropsHeal == queue = <<>> /\ at = "events" /\ ~resync => st = Settled
=============================================================================
