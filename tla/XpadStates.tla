----------------------------- MODULE XpadStates -----------------------------
(***************************************************************************)
(* What the core makes of a cabled Xbox pad's events                       *)
(* (src/src/controllers/xpad_report.inl): a state that it feeds one event  *)
(* at a time or reads whole, and the Bluetooth report it builds of that.   *)
(***************************************************************************)
EXTENDS Integers, FiniteSets, FiniteSetsExt

\* The codes the pad's driver has: keys, axes, and the directions, which a pad
\* reports as a hat's two axes or as four keys.
AbsAxes == {"X", "Y", "RX", "RY", "Z", "RZ"}
Hats == {"HAT0X", "HAT0Y"}
Directions == {"HAPPY1", "HAPPY2", "HAPPY3", "HAPPY4"}

\* Where the code puts a key: one of its two bytes of buttons, or the
\* directions, and a bit.
KeyBit ==
    [BTN_A |-> <<"13", 1>>, BTN_B |-> <<"13", 2>>, BTN_X |-> <<"13", 8>>, BTN_Y |-> <<"13", 16>>,
     TL |-> <<"13", 64>>, TR |-> <<"13", 128>>,
     SELECT |-> <<"14", 4>>, START |-> <<"14", 8>>, THUMBL |-> <<"14", 32>>, THUMBR |-> <<"14", 64>>,
     HAPPY1 |-> <<"dpad", 8>>, HAPPY2 |-> <<"dpad", 2>>,
     HAPPY3 |-> <<"dpad", 1>>, HAPPY4 |-> <<"dpad", 4>>]
Keys == DOMAIN KeyBit
Codes == Keys \cup AbsAxes \cup Hats

Syn == [code |-> "REPORT", value |-> 0]
Dropped == [code |-> "DROPPED", value |-> 0]

\* The bits that are set, and the sticks and triggers.
Resting == [on |-> {}, axis |-> [a \in AbsAxes |-> 0]]

Key(s, bit, pressed) ==
    [s EXCEPT !.on = IF pressed THEN @ \cup {bit} ELSE @ \ {bit}]

\* The bits of one axis of the hat, and a hat's axis in the state.
HatBits(negative, positive, v) ==
    IF v < 0 THEN {<<"dpad", negative>>} ELSE IF v > 0 THEN {<<"dpad", positive>>} ELSE {}
DpadAxis(s, negative, positive, v) ==
    [s EXCEPT !.on = (@ \ {<<"dpad", negative>>, <<"dpad", positive>>})
                        \cup HatBits(negative, positive, v)]

ApplyEvent(s, e) ==
    CASE e.code \in Keys -> Key(s, KeyBit[e.code], e.value # 0)
      [] e.code \in AbsAxes -> [s EXCEPT !.axis[e.code] = e.value]
      [] e.code = "HAT0X" -> DpadAxis(s, 8, 2, e.value)
      [] e.code = "HAT0Y" -> DpadAxis(s, 1, 4, e.value)
      [] OTHER -> s

\* What is read whole: the keys that are down, and the directions of the hat and
\* of the keys at once ("either one held is held").
WholeState(keys, hatX, hatY, axis) ==
    [on |-> {KeyBit[k] : k \in keys} \cup HatBits(8, 2, hatX) \cup HatBits(1, 4, hatY),
     axis |-> axis]

-----------------------------------------------------------------------------
(* The report. *)

HatOrdinal(dpad) ==
    LET on(m, other) == m \in dpad /\ other \notin dpad
        up == on(1, 4)
        dn == on(4, 1)
        right == on(2, 8)
        left == on(8, 2)
    IN  CASE up /\ right -> 2 [] dn /\ right -> 4 [] dn /\ left -> 6 [] up /\ left -> 8
          [] up /\ ~right /\ ~left -> 1
          [] right /\ ~up /\ ~dn -> 3
          [] dn /\ ~right /\ ~left -> 5
          [] left /\ ~up /\ ~dn -> 7
          [] OTHER -> 0

Scale(v, min, max, out) ==
    LET w == IF v < min THEN min ELSE IF v > max THEN max ELSE v
    IN  IF max <= min THEN 0 ELSE ((w - min) * out) \div (max - min)

Masks(s, byte) == {m \in {1, 2, 4, 8, 16, 32, 64, 128} : <<byte, m>> \in s.on}

XpadReport(s) ==
    LET stick(a) == Scale(s.axis[a], -32768, 32767, 65535)
        trigger(a) == Scale(s.axis[a], 0, 1023, 1023)
        word == <<stick("X"), stick("Y"), stick("RX"), stick("RY"), trigger("Z"), trigger("RZ")>>
    IN  [i \in 0..16 |->
            CASE i = 0 -> 1
              [] i = 13 -> HatOrdinal(Masks(s, "dpad"))
              [] i = 14 -> SumSet(Masks(s, "13"))
              [] i = 15 -> SumSet(Masks(s, "14"))
              [] i = 16 -> 0
              [] OTHER -> IF i % 2 = 1 THEN word[(i + 1) \div 2] % 256
                          ELSE word[i \div 2] \div 256]
=============================================================================
