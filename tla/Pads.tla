-------------------------------- MODULE Pads --------------------------------
(***************************************************************************)
(* A pad, what a person does to it, and what the core makes of its report. *)
(* A DualSense, a DualShock 4 and an Xbox pad over Bluetooth send reports  *)
(* of their own.  A cabled Xbox pad's is built of its events: while they   *)
(* are read (XpadEvents), and here of those that have all been read.  Any  *)
(* other device is one that its descriptor describes (DescribedPads).      *)
(***************************************************************************)
EXTENDS DescribedPads, XpadEvents

CONSTANTS
    Kinds,       \* the pads to look at: "ds5usb", "ds5bt", "ds4usb", "ds4bt", "xbox", "xpad", "events", "described"
    Inputs,      \* the inputs a person presses on a pad that sends reports
    XpadInputs   \* and on one that is read through events

ASSUME KindsAssumption ==
    Kinds \subseteq {"ds5usb", "ds5bt", "ds4usb", "ds4bt", "xbox", "xpad", "events", "described"}

VARIABLES
    kind,        \* the pad's kind
    down         \* the inputs that are down

vars == <<kind, down, xeVars, devVars>>

Cabled == kind = "xpad"
Known == kind \notin {"events", "described"}
Touchpad == {"click", "finger1", "finger2"}
OwnInputs ==
    IF Cabled THEN XpadInputs
    ELSE IF ~Known THEN {}
    ELSE IF kind = "xbox" THEN Inputs \ Touchpad ELSE Inputs
On(i) == i \in down
If(i, a, b) == IF On(i) THEN a ELSE b

-----------------------------------------------------------------------------
(* The pads' own reports. *)

\* A DualSense's bytes, before the shift of its transport.
Ds5Sends(o) ==
    [i \in 0..77 |->
        CASE i = 0 -> IF o = 0 THEN 1 ELSE 49
          [] i - o = 2 -> If("left", 0, 131)
          [] i - o = 4 -> If("right", 0, 126)
          [] i - o \in {1, 3} -> 128
          [] i - o = 5 -> If("l2", 255, 0)
          [] i - o = 8 -> If("up", 0, 8) + If("south", 32, 0) + If("east", 64, 0)
          [] i - o = 9 -> If("r3", 128, 0)
          [] i - o = 10 -> If("ps", 1, 0) + If("click", 2, 0)
          [] i - o \in {33, 37} -> If(IF i - o = 33 THEN "finger1" ELSE "finger2", 0, 128) + i - o
          [] i - o \in {34, 38} -> 200
          [] i - o \in {35, 39} -> 83
          [] i - o \in {36, 40} -> 33
          [] i - o \in {6} -> 0
          [] OTHER -> 77]

\* A DualShock 4's.  The packets behind the first repeat it.
Ds4Sends(o) ==
    [i \in 0..77 |->
        CASE i = 0 -> IF o = 0 THEN 1 ELSE 17
          [] i - o = 2 -> If("left", 0, 131)
          [] i - o = 4 -> If("right", 0, 126)
          [] i - o \in {1, 3} -> 128
          [] i - o = 5 -> If("up", 0, 8) + If("south", 32, 0) + If("east", 64, 0)
          [] i - o = 6 -> If("r3", 128, 0)
          [] i - o = 7 -> 60 + If("ps", 1, 0) + If("click", 2, 0)
          [] i - o = 8 -> If("l2", 255, 0)
          [] i - o = 9 -> 0
          [] i - o \in {35, 44, 53, 62} -> If("finger1", 0, 128) + 5
          [] i - o \in {39, 48, 57, 66} -> If("finger2", 0, 128) + 6
          [] OTHER -> 77]

XboxSends ==
    [i \in 0..16 |->
        CASE i = 0 -> 1
          [] i = 4 -> If("left", 0, 128)
          [] i = 8 -> If("right", 0, 128)
          [] i \in {2, 6} -> 128
          [] i = 10 -> If("l2", 3, 0)
          [] i = 13 -> If("up", 1, 0)
          [] i = 14 -> If("south", 1, 0) + If("east", 2, 0)
          [] i = 15 -> If("r3", 64, 0) + If("ps", 16, 0)
          [] OTHER -> 0]

Whole(n, b) == [len |-> n, b |-> [i \in 0..(n - 1) |-> b[i]]]

-----------------------------------------------------------------------------
(* A cabled Xbox pad: the state that its inputs' events make. *)

InputOf ==
    [BTN_A |-> "south", BTN_B |-> "east", THUMBR |-> "r3", HAPPY3 |-> "up", HAPPY4 |-> "down"]
XpadState ==
    WholeState({k \in DOMAIN InputOf : On(InputOf[k]) /\ (hatKeys \/ k \notin Directions)},
               0, IF hatKeys THEN 0 ELSE If("up", -1, If("down", 1, 0)),
               [a \in AbsAxes |-> CASE a = "RY" -> If("right", -32768, 0)
                                 [] a = "Y" -> If("left", -32768, 0)
                                 [] a = "Z" -> If("l2", 1023, 0)
                                 [] OTHER -> 0])

-----------------------------------------------------------------------------
Report ==
    CASE kind = "ds5usb" -> Whole(64, Ds5Sends(0))
      [] kind = "ds5bt" -> Whole(78, Ds5Sends(1))
      [] kind = "ds4usb" -> Whole(64, Ds4Sends(0))
      [] kind = "ds4bt" -> Whole(78, Ds4Sends(2))
      [] kind = "xbox" -> Whole(17, XboxSends)
      [] kind = "xpad" -> Whole(17, XpadReport(XpadState))

Ds5 == kind \in {"ds5usb", "ds5bt"}
Ds4 == kind \in {"ds4usb", "ds4bt"}

Blank(r) == IF Ds5 THEN Ds5Blank(r) ELSE IF Ds4 THEN Ds4Blank(r) ELSE XboxBlank(r)
Switch == IF Ds5 THEN Ds5Switch ELSE IF Ds4 THEN Ds4Switch ELSE XboxSwitch
Stick(r) == IF Ds5 THEN Ds5Stick(r) ELSE IF Ds4 THEN Ds4Stick(r) ELSE XboxStick(r)
Nav(r) == IF Ds5 THEN Ds5Nav(r) ELSE IF Ds4 THEN Ds4Nav(r) ELSE XboxNav(r)
Chord(r) == IF Ds5 THEN Ds5Chord(r) ELSE IF Ds4 THEN Ds4Chord(r) ELSE FALSE

Init ==
    /\ kind \in Kinds
    /\ down = {}
    /\ XEInit /\ (kind \in {"xpad", "events"} \/ ~hatKeys)
    /\ IF kind = "described" THEN DevInit ELSE device = NoDevice /\ pressed = {}

Press ==
    /\ \E i \in OwnInputs \ down :
        /\ ~({"up", "down"} \subseteq down \cup {i})
        /\ down' = down \cup {i}
    /\ UNCHANGED <<kind, xeVars, devVars>>

LetGo ==
    /\ \E i \in down :
        /\ down' = down \ {i}
    /\ UNCHANGED <<kind, xeVars, devVars>>

DescribedStep == kind = "described" /\ DevNext /\ UNCHANGED <<kind, down, xeVars>>
EventsStep == kind = "events" /\ XENext /\ UNCHANGED <<kind, down, devVars>>

Next == Press \/ LetGo \/ DescribedStep \/ EventsStep

Spec == Init /\ [][Next]_vars

-----------------------------------------------------------------------------
TypeOK ==
    /\ kind \in Kinds
    /\ XETypeOK
    /\ down \subseteq (Inputs \cup XpadInputs)

\* What the app is told of a held pad is what the person does: the stick and
\* its click, the directions and the two buttons, the fingers, the chord, for
\* every pad and both transports (held_stick_*, held_nav_*, held_touch_ds5,
\* ds5_chord_held, ds4_chord_held).
ReadersSeeThePad ==
    Known =>
        LET r == Report
            s == Stick(r)
            n == Nav(r)
        IN  /\ (s.y < -16000) = On("right") /\ s.click = On("r3")
            /\ n.keys = down \cap {"up", "down", "south", "east"}
            /\ (n.ly < 64) = On("left")
            /\ Chord(r) = (Touchpad \subseteq down)
            /\ kind = "ds5usb" =>
                 LET t == Ds5Touch(r)
                 IN  /\ t.fingers = Cardinality(down \cap {"finger1", "finger2"})
                     /\ t.click = On("click")
                     /\ t.fingers > 0 => /\ t.x = 968 /\ t.y = 533
                                          /\ t.id = IF On("finger1") THEN 33 ELSE 37

\* A report blanked for a hold says nothing: every input that a hold over the
\* switch follows is at its rest, none of the readers sees anything, and the
\* bytes that are not inputs are as the pad sent them.  The five tables are
\* written by hand in five places and have to agree byte by byte.
BlankedSaysNothing ==
    Known =>
    LET r == Report
        q == Blank(r)
        fields == {f \in Switch : FieldIn(f, r)}
        inputs == UNION {{(f.bit + k) \div 8 : k \in {0, f.size - 1}} : f \in fields}
    IN  /\ fields # {}
        /\ \A f \in fields : AtRest(f, FieldValue(f, q))
        /\ Stick(q) = HeldStick(0, FALSE) /\ Nav(q).keys = {} /\ ~Chord(q)
        /\ kind = "ds5usb" => Ds5Touch(q).fingers = 0
        /\ \A i \in DOMAIN r.b \ inputs : q.b[i] = r.b[i]

\* So the tables agree: on what the person does, and on what it is to do nothing.
TablesAgree == ReadersSeeThePad /\ BlankedSaysNothing

\* And the walks of a descriptor find what the device has (DescribedPads).
DescriptorsAreRead == kind = "described" => WalksFindControls
=============================================================================
