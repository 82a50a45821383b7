----------------------------- MODULE PadLayouts -----------------------------
(***************************************************************************)
(* The byte layouts of the known pads' input reports, as the code writes   *)
(* them down five times: to blank a report (the input is held for the      *)
(* app), to follow what was held as a bridge started, to read the stick,   *)
(* the touchpad and the directions for the app, and to see the chord that  *)
(* asks for a release.  A report is a length and its bytes.                *)
(***************************************************************************)
EXTENDS Integers, FiniteSets, FiniteSetsExt, Sequences

Bit(v, k) == (v \div 2^k) % 2 = 1

\* The report with the bytes of `rest` (offsets shifted by o) in their place.
Overlay(r, o, rest) ==
    [r EXCEPT !.b = [i \in DOMAIN r.b |->
        IF i - o \in DOMAIN rest THEN rest[i - o] ELSE r.b[i]]]

(* DualSense: report 1 on a cable, 0x31 over Bluetooth, one byte later. *)
Ds5Off(r) == IF r.b[0] = 1 THEN 0 ELSE IF r.b[0] = 49 THEN 1 ELSE -1
Ds5Whole(r) == Ds5Off(r) >= 0 /\ r.len >= 41 + Ds5Off(r)

Ds5Rest ==
    [i \in (1..6) \cup (8..10) \cup {33, 37} |->
        CASE i \in (1..4) \cup {33, 37} -> 128 [] i = 8 -> 8 [] OTHER -> 0]

Ds5Blank(r) == IF Ds5Whole(r) THEN Overlay(r, Ds5Off(r), Ds5Rest) ELSE r

Ds5Chord(r) ==
    /\ Ds5Whole(r)
    /\ LET o == Ds5Off(r)
       IN  Bit(r.b[10 + o], 1) /\ ~Bit(r.b[33 + o], 7) /\ ~Bit(r.b[37 + o], 7)

(* DualShock 4: report 1 on a cable, 0x11 over Bluetooth, two bytes later. *)
Ds4Off(r) ==
    IF r.b[0] = 1 /\ r.len >= 64 THEN 0
    ELSE IF r.b[0] = 17 /\ r.len >= 78 THEN 2 ELSE -1

\* Slip: the fourth packet of a Bluetooth report is left as it came.
Ds4UsbPackets(r) == 3

\* Touch packets in a report, the newest first.
Ds4Packets(r) == IF Ds4Off(r) = 0 THEN 3 ELSE 4

Ds4Fingers(packets) ==
    {34 + 9 * p + f : p \in 0..(packets - 1), f \in {1, 5}}

Ds4Blank(r) ==
    IF Ds4Off(r) < 0 THEN r
    ELSE LET o == Ds4Off(r)
             ps == r.b[7 + o]
         IN  Overlay(r, o,
               [i \in (1..9) \cup Ds4Fingers(Ds4Packets(r)) |->
                   CASE i \in 1..4 -> 128
                     [] i = 5 -> 8
                     [] i = 7 -> 4 * (ps \div 4)
                     [] i \in {6, 8, 9} -> 0
                     [] OTHER -> 128])

Ds4Chord(r) ==
    /\ Ds4Off(r) >= 0
    /\ LET o == Ds4Off(r)
       IN  Bit(r.b[7 + o], 1) /\ ~Bit(r.b[35 + o], 7) /\ ~Bit(r.b[39 + o], 7)

(* Xbox over Bluetooth, and the same report made of evdev events. *)
XboxWhole(r) == r.len >= 17 /\ r.b[0] = 1

XboxBlank(r) ==
    IF XboxWhole(r)
    THEN Overlay(r, 0, [i \in 1..16 |-> IF i \in {2, 4, 6, 8} THEN 128 ELSE 0])
    ELSE r

(* What a hold over a bridge's start follows: fields of bits with a rest   *)
(* and a slack.                                                            *)
Field(id, min, bit, size, rest, slack) ==
    [id |-> id, min |-> min, bit |-> bit, size |-> size, rest |-> rest, slack |-> slack]

Bits(id, min, byte, low, high) ==
    {Field(id, min, 8 * byte + k, 1, 0, 0) : k \in low..high}

Ds5Fields(id, o, min) ==
    {Field(id, min, 8 * (s + o), 8, 128, 24) : s \in 1..4} \cup
    {Field(id, min, 8 * (t + o), 8, 0, 8) : t \in {5, 6}} \cup
    {Field(id, min, 8 * (8 + o), 4, 8, 0)} \cup
    Bits(id, min, 8 + o, 4, 7) \cup Bits(id, min, 9 + o, 0, 7) \cup
    Bits(id, min, 10 + o, 0, 7) \cup
    {Field(id, min, 8 * (f + o) + 7, 1, 1, 0) : f \in {33, 37}}
Ds5Switch == Ds5Fields(1, 0, 64) \cup Ds5Fields(49, 1, 78)

Ds4Fields(id, o, min, packets) ==
    {Field(id, min, 8 * (s + o), 8, 128, 24) : s \in 1..4} \cup
    {Field(id, min, 8 * (5 + o), 4, 8, 0)} \cup
    Bits(id, min, 5 + o, 4, 7) \cup Bits(id, min, 6 + o, 0, 7) \cup
    Bits(id, min, 7 + o, 0, 1) \cup
    {Field(id, min, 8 * (t + o), 8, 0, 8) : t \in {8, 9}} \cup
    {Field(id, min, 8 * (f + o) + 7, 1, 1, 0) : f \in Ds4Fingers(packets)}
Ds4Switch == Ds4Fields(1, 0, 64, 3) \cup Ds4Fields(17, 2, 78, 4)

XboxSwitch ==
    {Field(1, 17, 8 * (1 + 2 * s), 16, 32768, 6144) : s \in 0..3} \cup
    {Field(1, 17, 8 * t, 16, 0, 32) : t \in {9, 11}} \cup
    {Field(1, 17, 8 * 13, 8, 0, 0)} \cup
    Bits(1, 17, 14, 0, 7) \cup Bits(1, 17, 15, 0, 7) \cup Bits(1, 17, 16, 0, 7)

FieldIn(f, r) ==
    /\ r.len >= f.min
    /\ f.id = -1 \/ r.b[0] = f.id
    /\ (f.bit + f.size + 7) \div 8 <= r.len

\* A field never straddles more than the bytes it is laid out in, so its
\* value is that of its bytes, lowest first, from its first bit on.
FieldValue(f, r) ==
    LET at(k) == Bit(r.b[(f.bit + k) \div 8], (f.bit + k) % 8)
    IN  SumSet({IF at(k) THEN 2^k ELSE 0 : k \in 0..(f.size - 1)})

AtRest(f, v) == v - f.rest <= f.slack /\ f.rest - v <= f.slack

(* What the app reads while it holds the input. *)
HeldStick(y, click) == [y |-> y, click |-> click]
Signed(v) == (v - 128) * 256

Ds5Stick(r) ==
    LET o == IF r.b[0] = 1 /\ r.len >= 64 THEN 0 ELSE 1
    IN  HeldStick(Signed(r.b[4 + o]), Bit(r.b[9 + o], 7))
Ds4Stick(r) == LET o == Ds4Off(r) IN HeldStick(Signed(r.b[4 + o]), Bit(r.b[6 + o], 7))
XboxStick(r) == HeldStick(r.b[7] + 256 * r.b[8] - 32768, Bit(r.b[15], 6))

NavDirs(fromUp) ==
    IF fromUp \in 0..7
    THEN <<{"up"}, {"up", "right"}, {"right"}, {"down", "right"}, {"down"},
           {"down", "left"}, {"left"}, {"up", "left"}>>[fromUp + 1]
    ELSE {}
NavPs(b) ==
    NavDirs(b % 16) \cup (IF Bit(b, 5) THEN {"south"} ELSE {})
                    \cup (IF Bit(b, 6) THEN {"east"} ELSE {})

NavXbox(r) ==
    (IF r.b[13] \in 1..8 THEN NavDirs(r.b[13] - 1) ELSE {})
        \cup (IF Bit(r.b[14], 0) THEN {"south"} ELSE {})
        \cup (IF Bit(r.b[14], 1) THEN {"east"} ELSE {})

HeldNav(keys, lx, ly) == [keys |-> keys, lx |-> lx, ly |-> ly]
Ds5Nav(r) ==
    LET o == IF r.b[0] = 1 /\ r.len >= 64 THEN 0 ELSE 1
    IN  HeldNav(NavPs(r.b[8 + o]), r.b[1 + o], r.b[2 + o])
Ds4Nav(r) == LET o == Ds4Off(r) IN HeldNav(NavPs(r.b[5 + o]), r.b[1 + o], r.b[2 + o])
XboxNav(r) == HeldNav(NavXbox(r), r.b[2], r.b[4])

TouchPoint(r, at) ==
    [x |-> r.b[at + 1] + 256 * (r.b[at + 2] % 16),
     y |-> (r.b[at + 2] \div 16) + 16 * r.b[at + 3],
     id |-> r.b[at] % 128]

\* The word the app gets: the first finger that is down, how many are, the
\* click.  A position takes eleven bits of it.
Ds5Touch(r) ==
    LET f1 == ~Bit(r.b[33], 7)
        f2 == ~Bit(r.b[37], 7)
        none == [x |-> 0, y |-> 0, id |-> 0]
        p == IF f1 THEN TouchPoint(r, 33) ELSE IF f2 THEN TouchPoint(r, 37) ELSE none
        fingers == (IF f1 THEN 1 ELSE 0) + (IF f2 THEN 1 ELSE 0)
    IN  [x |-> p.x % 2048, y |-> p.y % 2048, id |-> p.id, fingers |-> fingers,
         click |-> Bit(r.b[10], 1)]
=============================================================================
