----------------------------- MODULE Descriptors -----------------------------
(***************************************************************************)
(* What the core reads out of a device's HID report descriptor.  Four      *)
(* functions each walk the same items with a loop of their own: the blank  *)
(* and the hold of a gamepad it does not know (pad_blank.inl), a mouse's   *)
(* buttons for the hold (switch_hold.inl), a mouse's released report       *)
(* (pointer_layout.inl) and a keyboard's keys (kbd_chord.inl).             *)
(* An item is its tag, its data as an unsigned number and their bytes.     *)
(***************************************************************************)
EXTENDS PadLayouts, SequencesExt

MaxFields == 96
MaxUsages == 32
MaxStack == 4
KeepMax == 128
MaxRelative == 16

Item(t, v, n) == [t |-> t, v |-> v, n |-> n]

Globals == {"page", "min", "max", "size", "count", "id"}
Locals == {"usage", "umin", "umax"}

\* An item's data as the signed number a range is.
SignedData(it) ==
    IF it.n \in {1, 2, 4} /\ it.v >= 2^(8 * it.n - 1) THEN it.v - 2^(8 * it.n) ELSE it.v

\* A walk's state: the globals and those pushed, the usages since the last
\* main item, the nesting and where the wanted collection began, the bits of
\* each report so far, and what has been found.
Walk(found) ==
    [g |-> [t \in Globals |-> Item(t, 0, 0)], stack |-> <<>>,
     usages |-> <<>>, umin |-> -1, umax |-> -1, xy |-> FALSE,
     depth |-> 0, inside |-> 0, bits |-> [id \in 0..255 |-> 0], ids |-> FALSE,
     found |-> found]

Of(s, t) == s.g[t].v
PageOf(s, u) == IF u > 65535 THEN u \div 65536 ELSE Of(s, "page")
UsageId(u) == u % 65536
LogicalMin(s) == SignedData(s.g["min"])
\* The maximum is signed only when the minimum is negative.
LogicalMax(s) == IF LogicalMin(s) < 0 THEN SignedData(s.g["max"]) ELSE Of(s, "max")

Constant(it) == Bit(it.v, 0)
Variable(it) == Bit(it.v, 1)
Relative(it) == Bit(it.v, 2)

TakeGlobal(s, it) == [s EXCEPT !.g[it.t] = it, !.ids = @ \/ it.t = "id"]

TakeStack(s, it) ==
    IF it.t = "push"
    THEN IF Len(s.stack) < MaxStack THEN [s EXCEPT !.stack = Append(s.stack, s.g)] ELSE s
    ELSE IF s.stack # <<>> THEN [s EXCEPT !.g = Last(s.stack), !.stack = Front(s.stack)] ELSE s

TakeLocal(s, it) ==
    IF it.t # "usage" THEN [s EXCEPT ![it.t] = it.v]
    ELSE [s EXCEPT !.usages = IF Len(@) < MaxUsages THEN Append(@, it.v) ELSE @,
                   !.xy = @ \/ (PageOf(s, it.v) = 1 /\ UsageId(it.v) \in {48, 49})]

\* A collection opens: the wanted one when its usage is one of apps.
Opens(s, it, apps, u) ==
    [s EXCEPT !.depth = @ + 1,
              !.inside = IF /\ s.inside = 0 /\ it.v = 1 /\ s.usages # <<>>
                            /\ PageOf(s, u) = 1 /\ UsageId(u) \in apps
                         THEN s.depth + 1 ELSE @]

Closes(s) ==
    [s EXCEPT !.inside = IF @ = s.depth THEN 0 ELSE @,
              !.depth = IF @ > 0 THEN @ - 1 ELSE 0]

InputBits(s) == Of(s, "size") * Of(s, "count")

\* Slip: the usages of one main item stay for the next.
KeepsLocals(s) == s

\* Every main item ends the local items that went before it.
EndsLocals(s) == [s EXCEPT !.usages = <<>>, !.umin = -1, !.umax = -1, !.xy = FALSE]

\* One item that is not an input; a collection's usage is u.
Takes(s, it, stacked, apps, u) ==
    CASE it.t \in Globals -> TakeGlobal(s, it)
      [] it.t \in {"push", "pop"} -> IF stacked THEN TakeStack(s, it) ELSE s
      [] it.t \in Locals -> TakeLocal(s, it)
      [] it.t = "collection" -> EndsLocals(Opens(s, it, apps, u))
      [] it.t = "end" -> EndsLocals(Closes(s))

\* The walk over a descriptor, Of1 of the usages a collection's, In an input item's finds.
Walked(d, start, stacked, apps, Of1(_), In(_, _)) ==
    FoldLeft(LAMBDA s, it :
                IF it.t = "input"
                THEN EndsLocals([s EXCEPT !.found = In(s, it),
                                          !.bits[Of(s, "id")] = @ + InputBits(s)])
                ELSE Takes(s, it, stacked, apps, IF s.usages = <<>> THEN 0 ELSE Of1(s.usages)),
             start, d)

\* The whole report in bytes, the id counted.
ReportLength(s, id) == (s.bits[id] + 7) \div 8 + (IF s.ids THEN 1 ELSE 0)

-----------------------------------------------------------------------------
(* A gamepad's blank. *)

Axes == 48..53
Sliders == 54..56
Hat == 57
Pedals == {196, 197}

\* The value a field rests at, if it is one to blank: a set of none or one.
RestOf(page, id, relative, min, max, size) ==
    CASE page = 9 -> {0}
      [] page = 1 /\ id \in Axes ->
           IF relative THEN {0} ELSE IF max < min THEN {} ELSE {min + (max - min + 1) \div 2}
      [] (page = 1 /\ id \in Sliders) \/ (page = 2 /\ id \in Pedals) ->
           IF relative THEN {0} ELSE {min}
      [] page = 1 /\ id = Hat ->
           IF min >= 1 THEN {0} ELSE IF max + 1 <= 2^size - 1 THEN {max + 1} ELSE {}
      [] page = 1 /\ id \in (61..62) \cup (129..141) \cup (144..147) /\ size = 1 -> {0}
      [] page \in {7, 12} /\ size = 1 -> {0}
      [] OTHER -> {}

\* How far from rest still counts as rest.
SlackOf(page, id, relative, min, max) ==
    LET span == max - min + 1
    IN  CASE relative \/ max < min -> 0
          [] page = 1 /\ id \in Axes -> span \div 8
          [] (page = 1 /\ id \in Sliders) \/ (page = 2 /\ id \in Pedals) -> span \div 16
          [] OTHER -> 0

PlanField(id, bit, size, value, slack, relative) ==
    [id |-> id, bit |-> bit, size |-> size, value |-> value % 2^size, slack |-> slack,
     relative |-> relative]

SwitchReport(id) == id = 33 \/ id \in 48..51

\* The usage of an input's k-th control, if it has one.
UsageAt(s, k) ==
    IF s.usages # <<>> THEN {s.usages[IF k <= Len(s.usages) THEN k ELSE Len(s.usages)]}
    ELSE IF s.umin < 0 THEN {}
    ELSE {IF s.umax >= 0 /\ s.umin + k - 1 > s.umax THEN s.umax ELSE s.umin + k - 1}

\* The fields one input item gives, in their order.
PlannedBy(s, it) ==
    LET size == Of(s, "size")
        min == LogicalMin(s)
        max == LogicalMax(s)
        rel == Relative(it)
        at(k) == s.bits[Of(s, "id")] + (k - 1) * size
        variable(k) ==
            {PlanField(Of(s, "id"), at(k), size, v,
                       SlackOf(PageOf(s, u), UsageId(u), rel, min, max), rel) :
                <<u, v>> \in UNION {{<<u, v>> : v \in RestOf(PageOf(s, u), UsageId(u), rel, min, max, size)} :
                                       u \in UsageAt(s, k)}}
        array(k) ==
            IF Of(s, "page") \in {9, 7, 12}
            THEN {PlanField(Of(s, "id"), at(k), size, 0, 0, FALSE)} ELSE {}
    IN  IF s.inside = 0 \/ Constant(it) \/ size \notin 1..32 THEN <<>>
        ELSE FlattenSeq([k \in 1..Of(s, "count") |->
                            SetToSeq(IF Variable(it) THEN variable(k) ELSE array(k))])

PlanIn(switch, s, it) ==
    LET planned == SelectSeq(PlannedBy(s, it), LAMBDA f : ~(switch /\ SwitchReport(f.id)))
        all == s.found.fields \o planned
        relative == [k \in 1..Of(s, "count") |->
                        [id |-> Of(s, "id"), size |-> Of(s, "size"),
                         bit |-> s.bits[Of(s, "id")] + (k - 1) * Of(s, "size")]]
        moves == ~Constant(it) /\ Variable(it) /\ Relative(it)
    IN  [fields |-> SubSeq(all, 1, IF Len(all) < MaxFields THEN Len(all) ELSE MaxFields),
         rel |-> IF moves THEN s.found.rel \o relative ELSE s.found.rel]

\* pad_blank_from_descriptor: a Pro Controller's full reports go by their own
\* layout, and it has no report to send again.
PadPlan(d, switch) ==
    LET s == Walked(d, Walk([fields |-> <<>>, rel |-> <<>>]), TRUE, {4, 5, 8}, Head,
                    LAMBDA w, it : PlanIn(switch, w, it))
        fields == s.found.fields
        first == IF fields = <<>> THEN 0 ELSE fields[1].id
        length == ReportLength(s, first)
    IN  [fields |-> fields, rel |-> s.found.rel, ids |-> s.ids, switch |-> switch,
         present |-> fields # <<>> \/ switch,
         restId |-> first,
         restLen |-> IF /\ fields # <<>> /\ ~switch /\ length <= KeepMax
                        /\ Len(s.found.rel) <= MaxRelative
                     THEN length ELSE 0]

Base(ids) == IF ids THEN 8 ELSE 0

\* A report with some bits given: `put` says which, and their values.
WithBits(r, put) ==
    [r EXCEPT !.b = [i \in DOMAIN r.b |->
        LET bit(k) == IF 8 * i + k \in DOMAIN put THEN put[8 * i + k] = 1 ELSE Bit(r.b[i], k)
        IN  IF \E k \in 0..7 : 8 * i + k \in DOMAIN put
            THEN SumSet({IF bit(k) THEN 2^k ELSE 0 : k \in 0..7}) ELSE r.b[i]]]

\* The bits of some fields, each with the value it is to have.
PutBits(fields, base, id) ==
    LET mine == {f \in fields : f.id = id}
        at == UNION {(base + f.bit)..(base + f.bit + f.size - 1) : f \in mine}
        over(p) == CHOOSE f \in mine : p - base \in f.bit..(f.bit + f.size - 1)
    IN  [p \in at |-> (over(p).value \div 2^(p - base - over(p).bit)) % 2]

SwitchBlank(r) ==
    IF r.len < 12 THEN r
    ELSE Overlay(r, 0,
            [i \in 3..11 |->
                CASE i = 4 -> 128 * (r.b[4] \div 128)
                  [] i \in {7, 10} -> 8 [] i \in {8, 11} -> 128 [] OTHER -> 0])

\* The id a report goes by.
IdOf(ids, r) == IF ids THEN r.b[0] ELSE 0

PlanBlank(p, r) ==
    IF ~p.present THEN r
    ELSE IF p.switch /\ SwitchReport(r.b[0]) THEN SwitchBlank(r)
    ELSE WithBits(r, PutBits(ToSet(p.fields), Base(p.ids), IdOf(p.ids, r)))

\* A still pad's report: with nothing pressed until it has sent one, and then
\* its own, which is not to move again what it moved.
RestReport(p) ==
    PlanBlank(p, [len |-> p.restLen,
                  b |-> [i \in 0..(p.restLen - 1) |-> IF i = 0 /\ p.ids THEN p.restId ELSE 0]])

SentAgain(p, r) ==
    LET rel == {[id |-> f.id, bit |-> f.bit, size |-> f.size, value |-> 0] : f \in ToSet(p.rel)}
    IN  WithBits(r, PutBits(rel, Base(p.ids), p.restId))

-----------------------------------------------------------------------------
(* What a hold over the switch follows. *)

\* A device's reports open with an id, or are all alike.
AnyId == -1
HeldField(ids, id, bit, size, rest, slack) ==
    Field(IF ids THEN id ELSE AnyId, 0, Base(ids) + bit, size, rest, slack)

ProFields(id) ==
    Bits(id, 12, 3, 0, 7) \cup Bits(id, 12, 4, 0, 6) \cup Bits(id, 12, 5, 0, 7) \cup
    {Field(id, 12, b, 12, 2048, 512) : b \in {48, 60, 72, 84}}

HoldFromPlan(p) ==
    IF ~p.present THEN {}
    ELSE (IF p.switch THEN ProFields(33) \cup ProFields(48) ELSE {}) \cup
         {HeldField(p.ids \/ p.switch, f.id, f.bit - (IF p.switch /\ ~p.ids THEN 8 ELSE 0),
                    f.size, f.value, f.slack) : f \in {g \in ToSet(p.fields) : ~g.relative}}

ButtonsIn(s, it) ==
    IF /\ s.inside # 0 /\ ~Constant(it) /\ Variable(it)
       /\ Of(s, "page") = 9 /\ Of(s, "size") = 1 /\ Of(s, "count") <= 32
    THEN s.found \cup {[id |-> Of(s, "id"), bit |-> s.bits[Of(s, "id")] + k] :
                          k \in 0..(Of(s, "count") - 1)}
    ELSE s.found

MouseHold(d) ==
    LET s == Walked(d, Walk({}), TRUE, {1, 2}, Head, ButtonsIn)
    IN  {HeldField(s.ids, b.id, b.bit, 1, 0, 0) : b \in s.found}

-----------------------------------------------------------------------------
(* A mouse's released report, and whether it has one. *)

PointerIn(s, it) ==
    LET mine == s.found.id = -1 \/ s.found.id = Of(s, "id")
        ranged == /\ s.umin >= 0 /\ s.umax >= 0 /\ PageOf(s, s.umin) = 1
                  /\ UsageId(s.umin) <= 49 /\ UsageId(s.umax) >= 48
    IN  IF s.inside = 0 \/ Constant(it) \/ ~mine THEN s.found
        ELSE [id |-> Of(s, "id"),
              absolute |-> s.found.absolute \/ ((s.xy \/ ranged) /\ ~Relative(it))]

PointerLayout(d) ==
    LET s == Walked(d, Walk([id |-> -1, absolute |-> FALSE]), TRUE, {1, 2}, Head, PointerIn)
        present == s.found.id >= 0
    IN  [present |-> present, relative |-> present /\ ~s.found.absolute,
         id |-> IF present /\ s.ids THEN s.found.id ELSE 0,
         len |-> IF present THEN ReportLength(s, s.found.id) ELSE 0]

PointerReleased(l) ==
    IF ~l.present \/ ~l.relative THEN [len |-> 0, b |-> <<>>]
    ELSE [len |-> l.len, b |-> [i \in 0..(l.len - 1) |-> IF i = 0 THEN l.id ELSE 0]]

\* A report that says something: the mouse's own, with a byte that is not zero.
PointerActive(l, r) ==
    LET lead == IF l.id # 0 THEN 1 ELSE 0
    IN  /\ l.present
        /\ l.id # 0 => r.b[0] = l.id
        /\ \E i \in lead..(r.len - 1) : r.b[i] # 0

-----------------------------------------------------------------------------
(* A keyboard's keys: eight modifier bits and an array, in one report.  This *)
(* walk takes the last usage of a collection and knows no stack.             *)

NoKeys == [id |-> -1, byte |-> 0, count |-> 0]

KeysIn(s, it) ==
    LET at == s.bits[Of(s, "id")]
        here == [id |-> Of(s, "id"), byte |-> at \div 8, count |-> Of(s, "count")]
        mods == /\ s.found.mods = NoKeys /\ Variable(it)
                /\ Of(s, "size") = 1 /\ Of(s, "count") = 8 /\ s.umin = 224 /\ s.umax = 231
        keys == /\ s.found.keys = NoKeys /\ ~Variable(it)
                /\ Of(s, "size") = 8 /\ Of(s, "count") \in 1..32
    IN  IF s.inside = 0 \/ Constant(it) \/ Of(s, "page") # 7 \/ at % 8 # 0 THEN s.found
        ELSE IF mods THEN [s.found EXCEPT !.mods = here]
        ELSE IF keys THEN [s.found EXCEPT !.keys = here]
        ELSE s.found

KeyboardLayout(d) ==
    LET s == Walked(d, Walk([mods |-> NoKeys, keys |-> NoKeys]), FALSE, {6}, Last, KeysIn)
        m == s.found.mods
        k == s.found.keys
        lead == IF s.ids THEN 1 ELSE 0
    IN  IF m = NoKeys \/ k = NoKeys \/ m.id # k.id THEN [present |-> FALSE]
        ELSE [present |-> TRUE, id |-> IF s.ids THEN m.id ELSE 0,
              mods |-> m.byte + lead, keys |-> k.byte + lead, count |-> k.count,
              len |-> ReportLength(s, m.id)]

-----------------------------------------------------------------------------
(* Which of them is asked: by the descriptor's first page and first usage.  *)

FirstOf(d, t) ==
    LET those == SelectSeq(d, LAMBDA it : it.t = t) IN IF those = <<>> THEN 0 ELSE Head(those).v

IsGamepad(d) == FirstOf(d, "page") = 1 /\ FirstOf(d, "usage") % 65536 \in {4, 5, 8}
=============================================================================
