---------------------------- MODULE DescribedPads ----------------------------
(***************************************************************************)
(* Devices the core knows from their report descriptor alone: gamepads it  *)
(* has no table for, mice and keyboards.  A device is a sequence of parts, *)
(* each with the controls it has and what they send at rest and pressed;   *)
(* its descriptor is written from its parts the way a maker may write it,  *)
(* and its reports from what is pressed.                                   *)
(***************************************************************************)
EXTENDS Descriptors

CONSTANTS
    PartNames,   \* the parts to build devices of
    MostParts,   \* parts of a device
    Styles       \* how descriptors are written: "lean", "pushed", "wide"

ASSUME StylesAssumption == Styles \subseteq {"lean", "pushed", "wide"}
ASSUME PartsAssumption == MostParts \in Nat

VARIABLES
    device,      \* the device: its parts, the ids of its reports, its style
    pressed      \* the parts that are pressed, or moved

devVars == <<device, pressed>>

-----------------------------------------------------------------------------
\* A part: the application it is in, its page and usages (a list, or a range),
\* its fields' size and number, the input item's flags, its range, and what
\* its fields send at rest and pressed.
P(app, page, usages, range, size, count, flags, min, max, rest, press) ==
    [app |-> app, page |-> page, usages |-> usages, range |-> range, size |-> size,
     count |-> count, flags |-> flags, min |-> min, max |-> max, rest |-> rest, press |-> press]

Pad == 5
Mouse == 2
Keyboard == 6

\* A stick rests a little off its centre, a trigger a little above its end.
Parts ==
    [buttons |-> P(Pad, 9, <<>>, <<1, 2>>, 1, 2, 2, Item("min", 0, 1), Item("max", 1, 1), <<0, 0>>, <<1, 1>>),
     padding |-> P(Pad, 9, <<>>, <<>>, 6, 1, 3, Item("min", 0, 1), Item("max", 1, 1), <<41>>, <<41>>),
     sticks  |-> P(Pad, 1, <<48, 49>>, <<>>, 8, 2, 2, Item("min", 0, 1), Item("max", 255, 1), <<131, 126>>, <<0, 255>>),
     fine    |-> P(Pad, 1, <<48>>, <<>>, 16, 1, 2, Item("min", 0, 1), Item("max", 65535, 2), <<32999>>, <<0>>),
     signed  |-> P(Pad, 1, <<50, 53>>, <<>>, 8, 2, 2, Item("min", 129, 1), Item("max", 127, 1), <<253, 2>>, <<129, 127>>),
     trigger |-> P(Pad, 2, <<196>>, <<>>, 8, 1, 2, Item("min", 0, 1), Item("max", 255, 2), <<3>>, <<255>>),
     hat     |-> P(Pad, 1, <<57>>, <<>>, 4, 1, 66, Item("min", 0, 1), Item("max", 7, 1), <<8>>, <<0>>),
     hat1    |-> P(Pad, 1, <<57>>, <<>>, 4, 1, 66, Item("min", 1, 1), Item("max", 8, 1), <<0>>, <<3>>),
     vendor  |-> P(Pad, 65280, <<>>, <<1, 1>>, 8, 1, 2, Item("min", 0, 1), Item("max", 255, 2), <<77>>, <<77>>),
     wheel   |-> P(Pad, 1, <<56>>, <<>>, 8, 1, 6, Item("min", 129, 1), Item("max", 127, 1), <<0>>, <<255>>),
     array   |-> P(Pad, 9, <<>>, <<1, 8>>, 8, 2, 0, Item("min", 0, 1), Item("max", 8, 1), <<0, 0>>, <<3, 5>>),
     home    |-> P(Pad, 12, <<547>>, <<>>, 1, 1, 2, Item("min", 0, 1), Item("max", 1, 1), <<0>>, <<1>>),
     click   |-> P(Mouse, 9, <<>>, <<1, 3>>, 1, 3, 2, Item("min", 0, 1), Item("max", 1, 1), <<0, 0, 0>>, <<1, 0, 1>>),
     motion  |-> P(Mouse, 1, <<48, 49>>, <<>>, 8, 2, 6, Item("min", 129, 1), Item("max", 127, 1), <<0, 0>>, <<5, 250>>),
     point   |-> P(Mouse, 1, <<>>, <<48, 49>>, 8, 2, 2, Item("min", 0, 1), Item("max", 255, 2), <<90, 91>>, <<95, 90>>),
     mods    |-> P(Keyboard, 7, <<>>, <<224, 231>>, 1, 8, 2, Item("min", 0, 1), Item("max", 1, 1),
                   [k \in 1..8 |-> 0], [k \in 1..8 |-> IF k = 2 THEN 1 ELSE 0]),
     keys    |-> P(Keyboard, 7, <<>>, <<0, 101>>, 8, 2, 0, Item("min", 0, 1), Item("max", 101, 1), <<0, 0>>, <<4, 22>>)]

PartAt(i) == Parts[device.parts[i]]
Places == DOMAIN device.parts

\* A device with ids has a report for each application, and one for its home
\* button.  A Pro Controller's descriptor gives its full report to the pad.
ReportId(name) ==
    CASE ~device.ids -> 0
      [] name = "home" -> 4
      [] Parts[name].app = Mouse -> 2
      [] Parts[name].app = Keyboard -> 3
      [] OTHER -> IF device.pro THEN 48 ELSE 1

-----------------------------------------------------------------------------
(* The descriptor. *)

Wants(name) ==
    LET p == Parts[name]
        all == <<Item("page", p.page, 1), p.min, p.max, Item("size", p.size, 1),
                 Item("count", p.count, 1), Item("id", ReportId(name), 1)>>
    IN  SelectSeq(all, LAMBDA it : /\ it.t = "id" => device.ids
                                   /\ it.t = "page" => device.style # "wide" \/ p.usages = <<>>)

\* A usage of a list may carry its page.
UsageItem(page, u) ==
    IF device.style = "wide" THEN Item("usage", 65536 * page + u, 4) ELSE Item("usage", u, 2)

UsagesOf(p) ==
    IF p.range # <<>> THEN <<Item("umin", p.range[1], 1), Item("umax", p.range[2], 1)>>
    ELSE [k \in DOMAIN p.usages |-> UsageItem(p.page, p.usages[k])]

\* Only the globals that are not already what they are to be.
Changed(g, wants) == SelectSeq(wants, LAMBDA it : g[it.t] # it)

AfterItems(g, items) ==
    [t \in Globals |-> LET those == SelectSeq(items, LAMBDA it : it.t = t)
                       IN  IF those = <<>> THEN g[t] ELSE Last(those)]

WritePart(w, i) ==
    LET name == device.parts[i]
        p == Parts[name]
        opens == i = 1 \/ PartAt(i - 1).app # p.app
        closes == i = Len(device.parts) \/ PartAt(i + 1).app # p.app
        desktop == IF i = 1 \/ (opens /\ device.style # "wide") THEN <<Item("page", 1, 1)>> ELSE <<>>
        before == Changed(w.g, desktop)
        inner == AfterItems(w.g, before)
        wants == Changed(inner, Wants(name))
        pushed == device.style = "pushed"
        input == Item("input", p.flags, 1)
        none(t) == IF pushed THEN <<Item(t, 0, 0)>> ELSE <<>>
    IN  [g |-> IF pushed THEN inner ELSE AfterItems(inner, wants),
         d |-> w.d \o before
                 \o (IF opens THEN <<UsageItem(1, p.app), Item("collection", 1, 1)>> ELSE <<>>)
                 \o none("push") \o wants \o UsagesOf(p) \o <<input>> \o none("pop")
                 \o (IF closes THEN <<Item("end", 0, 0)>> ELSE <<>>)]

Descriptor ==
    FoldLeft(WritePart, [g |-> [t \in Globals |-> Item(t, 0, 0)], d |-> <<>>],
             [i \in Places |-> i]).d

-----------------------------------------------------------------------------
(* The reports. *)

Before(i) ==
    FoldLeft(LAMBDA n, j : n + PartAt(j).size * PartAt(j).count, 0,
                SelectSeq([j \in 1..(i - 1) |-> j],
                          LAMBDA j : ReportId(device.parts[j]) = ReportId(device.parts[i])))

\* Where the fields of the parts are.
Fields ==
    UNION {{[at |-> i, k |-> k, id |-> ReportId(device.parts[i]), size |-> PartAt(i).size,
             bit |-> Base(device.ids) + Before(i) + (k - 1) * PartAt(i).size] :
                k \in 1..PartAt(i).count} : i \in Places}

Sends(f) == IF f.at \in pressed THEN PartAt(f.at).press[f.k] ELSE PartAt(f.at).rest[f.k]

Length(id) ==
    LET ends == {f.bit + f.size : f \in {g \in Fields : g.id = id}} IN (Max(ends) + 7) \div 8

IsFull(id) == device.pro /\ id = 48

\* A Pro Controller's full report: buttons, and two sticks in three bytes each.
ProReport ==
    LET held == pressed # {}
    IN  [len |-> 16,
         b |-> [i \in 0..15 |->
             CASE i = 0 -> 48
               [] i = 3 -> IF held THEN 8 ELSE 0
               [] i = 4 -> IF held THEN 129 ELSE 128
               [] i = 5 -> IF held THEN 64 ELSE 0
               [] i = 6 -> IF held THEN 0 ELSE 240 [] i = 7 -> IF held THEN 240 ELSE 7
               [] i = 8 -> IF held THEN 255 ELSE 129
               [] i = 9 -> 16 [] i = 10 -> 8 [] i = 11 -> 127
               [] OTHER -> 77]]

ReportOf(id) ==
    IF IsFull(id) THEN ProReport
    ELSE LET on == UNION {{f.bit + b : b \in {c \in 0..(f.size - 1) : Bit(Sends(f), c)}} :
                            f \in {g \in Fields : g.id = id}}
         IN  [len |-> Length(id),
              b |-> [j \in 0..(Length(id) - 1) |->
                        IF device.ids /\ j = 0 THEN id
                        ELSE SumSet({2^k : k \in {c \in 0..7 : 8 * j + c \in on}})]]

ReportIds == {f.id : f \in Fields}

ValueAt(f, r) == FieldValue([bit |-> f.bit, size |-> f.size], r)

\* What a field may say of a control nobody touches.
Calm(f, v) ==
    LET name == device.parts[f.at]
        near(a, b) == v \in a..b
    IN  CASE name = "sticks" -> near(112, 144)
          [] name = "fine" -> near(28672, 36864)
          [] name = "signed" -> v \in (0..16) \cup (240..255)
          [] name = "trigger" -> near(0, 15)
          [] name = "hat" -> v >= 8
          [] OTHER -> v = 0

\* Controls that are held or let go, and those that only move.
Moves(f) == Bit(PartAt(f.at).flags, 2)
Held(f) == device.parts[f.at] \notin {"padding", "vendor", "point"} /\ ~Moves(f)
InPad(f) == PartAt(f.at).app = Pad

-----------------------------------------------------------------------------
Devices == [parts : {<<>>}, ids : BOOLEAN, style : Styles, pro : {FALSE}]
             \cup [parts : {<<>>}, ids : {TRUE}, style : {"lean"}, pro : {TRUE}]

NoDevice == [parts |-> <<>>, ids |-> FALSE, style |-> "lean", pro |-> FALSE]

DevInit == device \in Devices /\ pressed = {}

\* One more part of a device that is being made up, an application's parts
\* together.
Grow ==
    /\ pressed = {} /\ Len(device.parts) < MostParts
    /\ \E name \in PartNames \ ToSet(device.parts) :
        /\ \A i \in Places : PartAt(i).app = Parts[name].app =>
              PartAt(Len(device.parts)).app = Parts[name].app
        /\ device' = [device EXCEPT !.parts = Append(@, name)]
    /\ UNCHANGED pressed

Pressable == {i \in Places : PartAt(i).rest # PartAt(i).press}

PressParts ==
    /\ pressed = {} /\ Pressable # {}
    /\ pressed' = Pressable
    /\ UNCHANGED device

ReleaseParts == pressed # {} /\ pressed' = {} /\ UNCHANGED device

DevNext == Grow \/ PressParts \/ ReleaseParts

-----------------------------------------------------------------------------
HoldFields ==
    LET d == Descriptor
        k == KeyboardLayout(d)
    IN  IF IsGamepad(d) THEN HoldFromPlan(PadPlan(d, device.pro))
        ELSE IF k.present THEN {} ELSE MouseHold(d)

Following(fields, f, r) == {h \in fields : h.bit = f.bit /\ h.size = f.size /\ FieldIn(h, r)}

\* A gamepad's blank leaves each of its own controls at rest, whatever was
\* pressed, and every other bit as it came.
BlankIsCalm(p) ==
    \A id \in {i \in ReportIds : ~IsFull(i)} :
        LET r == ReportOf(id)
            q == PlanBlank(p, r)
            own == {f \in Fields : f.id = id /\ InPad(f) /\ (Held(f) \/ Moves(f))}
            bits == UNION {f.bit..(f.bit + f.size - 1) : f \in own}
        IN  /\ \A f \in own : Calm(f, ValueAt(f, q))
            /\ \A i \in DOMAIN r.b : \A k \in 0..7 :
                  8 * i + k \notin bits => Bit(q.b[i], k) = Bit(r.b[i], k)

\* A Pro Controller's full report is blanked by its own layout, though its
\* descriptor tells of another.
ProIsCalm(p) ==
    device.pro /\ 48 \in ReportIds =>
        LET q == PlanBlank(p, ReportOf(48))
        IN  /\ \A f \in ProFields(48) : FieldIn(f, q) /\ AtRest(f, FieldValue(f, q))
            /\ q.b[4] = 128 /\ \A i \in {1, 2, 12, 15} : q.b[i] = 77
            /\ (pressed = {}) = \A f \in ProFields(48) : AtRest(f, FieldValue(f, ReportOf(48)))

\* The hold over the switch follows exactly what can be held, and finds held
\* what is pressed.
HoldFindsPressed(p) ==
    LET fields == HoldFromPlan(p)
    IN  \A id \in {i \in ReportIds : ~IsFull(i)} :
            LET r == ReportOf(id)
            IN  \A f \in {g \in Fields : g.id = id} :
                    LET hs == Following(fields, f, r)
                    IN  /\ (InPad(f) /\ Held(f)) = (hs # {})
                        /\ f.at \in pressed => \A h \in hs : ~AtRest(h, FieldValue(h, r))

\* What is sent for a still pad says that nothing is pressed before its first
\* report, and after it what is held, and moves nothing.
StillPadIsStill(p) ==
    LET rest == RestReport(p)
        again == SentAgain(p, ReportOf(p.restId))
    IN  p.restLen > 0 =>
        /\ rest.len = Length(p.restId)
        /\ \A f \in Fields : f.id = p.restId =>
             /\ (InPad(f) /\ Held(f)) \/ Moves(f) => Calm(f, ValueAt(f, rest))
             /\ ValueAt(f, again) = IF Moves(f) THEN 0 ELSE Sends(f)

First(set) == CHOOSE i \in set : \A j \in set : i <= j

\* A mouse: its released report is as long as its own, lets every button go
\* and moves nothing; an absolute pointer has none.
MouseIsReleased(d) ==
    LET l == PointerLayout(d)
        mouse == {i \in Places : PartAt(i).app = Mouse}
        r == PointerReleased(l)
        fields == MouseHold(d)
    IN  /\ l.present = (mouse # {})
        /\ mouse # {} =>
             LET id == ReportId(device.parts[First(mouse)])
                 sent == ReportOf(id)
                 here == {f \in Fields : f.id = id}
             IN  /\ l.id = id /\ l.len = sent.len
                 /\ l.relative = (\A i \in mouse : device.parts[i] # "point")
                 /\ l.relative => \A f \in here : f.at \in mouse => ValueAt(f, r) = 0
                 /\ mouse \cap pressed # {} => PointerActive(l, sent)
                 /\ ~KeyboardLayout(d).present =>
                       \A f \in here :
                           (device.parts[f.at] = "click") = (Following(fields, f, sent) # {})

\* A keyboard's keys are where its reports have them.  (The walk knows no
\* stack, so a descriptor that pushes is not claimed for.)
KeysAreFound(d) ==
    LET l == KeyboardLayout(d)
        aligned(name) == {i \in Places : device.parts[i] = name /\ Before(i) % 8 = 0}
        m == aligned("mods")
        k == aligned("keys")
        byte(i) == (Before(i) + Base(device.ids)) \div 8
    IN  /\ l.present = (m # {} /\ k # {})
        /\ l.present => /\ l.mods = byte(First(m)) /\ l.keys = byte(First(k))
                        /\ l.count = 2 /\ l.len = Length(l.id)

\* Whatever a descriptor is made of, and however it is written, each of the
\* four walks finds the controls where the device has them
\* (pad_blank_from_descriptor, swh_layout_from_pad_blank,
\* swh_layout_buttons_from_descriptor, ptr_layout_from_descriptor,
\* kbd_layout_from_descriptor): a blanked pad does nothing, what was held is
\* followed, a still pad is told of as it is, a mouse and a keyboard are let go.
WalksFindControls ==
    device.parts # <<>> =>
        LET d == Descriptor
            p == PadPlan(d, device.pro)
        IN  IF IsGamepad(d)
            THEN BlankIsCalm(p) /\ ProIsCalm(p) /\ HoldFindsPressed(p) /\ StillPadIsStill(p)
            ELSE MouseIsReleased(d) /\ (device.style # "pushed" => KeysAreFound(d))

\* A pad that nobody touches holds nothing, its sticks a little off their
\* centre as sticks are (switch_hold.inl says that a field's slack is how far
\* from rest still counts as at rest, a stick's dead zone).
UntouchedHoldsNothing ==
    pressed = {} =>
        LET fields == HoldFields
        IN  \A id \in {i \in ReportIds : ~IsFull(i)} :
                LET r == ReportOf(id)
                IN  \A h \in fields : FieldIn(h, r) => AtRest(h, FieldValue(h, r))
=============================================================================
