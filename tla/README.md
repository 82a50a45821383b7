# CTM Bridge for webOS: the core, specified, checked and proved

The core in `src/src/` runs inside a TV app.  It opens the game controllers
plugged into the TV, relays each over TCP to a listener on a PC, and plays
signals (light, rumble, tone) on the pad to say what happened.  This directory
holds TLA+ modules of that core, the TLC configurations that check them, and
TLAPS proofs.  Paths below are relative to the repository's root
with `src/` in front (`src/src/app/ui_bridge.c` is the repository's
`src/app/ui_bridge.c`).

To check a run, `tlc -config MCX.cfg MCX` (section 3); to check a
proof module, `tlapm XProofs.tla` (section 4).

## 1. Inventory

### 1.1 Threads

| thread | where | lives |
|---|---|---|
| the app's (plug, release, settings, end of a stream) | `ui_bridge.c` entry points | as long as the app |
| agent probe | `ctm_gesture_worker.inl`, `agent_probe_thread` | as long as the app; parked outside a stream |
| gesture worker | `ctm_gesture_worker.inl`, `gesture_worker` | a stream: started by a plug, leaves when `g_running` is false |
| stop-sniff worker | `ui_bridge.c` | a worker with a condition variable that keeps Bluetooth links awake |
| session thread, one per bridged pad | `controller_common.c`, `session_main` | plug to plug-out |
| input thread, one per connection | `controller_common.c`, `input_thread_main` | a connection |
| signal thread, detached | `controller_ds4.c`, `ctm_feedback.inl` | one signal |
| microphone thread | `controller_common.c` | plug to plug-out of a pad with one |
| host mouse session thread | `ctm_hostmouse.c` | plug to unplug of the TV pointer |

### 1.2 Components

**Session table and bridge lifecycle** (`ui_bridge.c`, `ctm_state.c`).
State: `g_sessions[]`, `g_session_count`, the `stopping` mark of an entry, all
under `g_sessions_mutex`; the condition an ended release signals; the sessions
the listener has.  Operations: `plug_in_item` and `plug_in_scan_index` (check
the key, `BRIDGE_START`, create, plug in, record), `stop_session` (claim, plug
out, destroy, `BRIDGE_STOP`, remove), `release_local_sessions_on_exit`.
Interacts with the controllers (create, plug in, plug out, destroy), the
listener (one-line commands over TCP) and the gesture worker.  Hard: three
paths take the same controller apart, and each holds the mutex only at both
ends of seconds of work.  Correct when: a controller is torn down once; a
controller read through the table is alive; a stopping entry always leaves;
no session stays on the PC as a phantom pad; the end of a stream returns with
nothing under way.

**Gesture worker** (`ctm_gesture_worker.inl`).  State:
`g_gesture_worker_running`, `g_gesture_pending` and its condition.
Operations: start on a plug, wait (three seconds at most), copy the keys that
ask, stop each, leave.  Requests come from input threads.  Hard: requests and
streams that begin and end while it is elsewhere.  Correct when: one worker at
most, no request taken and dropped, none left after the last stream.

**Agent probe, listener address and verdict** (`ctm_gesture_worker.inl`,
`ui_bridge.c`, `agent_endpoint.inl`, `protocol_level.inl`, `agent_reply.inl`,
`agent_address.inl`, `agent_proof.inl`).  State: the address,
`g_agent_online`, `g_agent_probed`, `g_agent_compat`, `g_agent_locked`,
`g_probe_parked`, `g_probe_now`: plain shared variables.  Operations: the
probe's `STATUS`, a plug's `STATUS` and `BRIDGE_START`, the app's address and
park.  Hard: a reading is asked for, up to a second passes, and it is written
in several stores that others interleave with.  Correct when: the reading
settles to the truth, and is of the PC it is shown for.

**Signal hold** (`controller_common.c`, `controller_ds4.c`,
`controller_ds5.c`, `ctm_feedback.inl`).  State, under the controller's
`signal_mutex`: `signal_running`, `signal_closed`, `signal_motors_done`, the
colour kept, the colour owed.  Operations: begin, motors done, end, close; the
PC's reports withheld while a signal plays; the colour put back.  Hard: the
session thread, a detached signal thread and plug-out share one pad.  Correct
when: one signal at a time, nothing touches a closed pad, the pulse is
stopped, the PC's colour and rumble survive, plug-out's wait ends.

**Bridge session** (`controller_common.c` `session_main`, `run_session`,
`input_thread_main`, plug-out; `link_trouble.inl`, `input_wait.inl`).  State:
`stop`, `st_connected`, `st_device_gone`, `st_host_gone`, the trouble clock,
`link_send_failed`, the wake pipe, the transport.  Operations: connect with a
deadline, greeting, relay both ways, reconnect, give up, plug-out from any
point.  Hard: blocking calls that another thread has to cut short, timeouts
that race late answers.  Correct when: a session that ends says why; a silent
PC is given up in bounded time; plug-out returns.

**Session transport** (`ctm_transport.c`, `wait_readable.inl`).  State: the
socket, the send mutex, the ready flag.  Operations: connect within, send,
send when ready, try send, receive, disconnect.  Hard: a blocked send against
a disconnect; a socket number that is reused.

**TV pointer as a host mouse** (`ctm_hostmouse.c`, `ui_bridge.c`).  State: its
own transport and thread, what was last sent, the keys down.  Operations:
plug, unplug, feed, feed key.  Hard: unplug against a thread that connects or
waits for an answer; feeds that straddle a reconnect.  Correct when: what is
remembered as sent is what the PC shows; no attempt outlasts the give-up; an
unplug comes back.

**Ready light, paced reports, own card's volume** (`controller_common.c`,
`own_card.inl`).  A ring of paced reports that drops its oldest; a light painted on
a tick; the volume of a DualShock 4's own card, set when the jack or the user's choice
changes it.

**Holds on a bridged pad's input** (`switch_hold.inl`, `held_stick.inl`,
`held_touch.inl`, `held_nav.inl`, `pad_blank.inl`, `controller_common.c`
`input_thread_main`).  State: for each device what was held as the bridge
started and is not let go (`swh`), the last report for the keepalive, whether
the app holds the input, whether a keyboard or a mouse is back with the TV.
Operations, for each report: note and mask what was held, blank it while the
app's overlay is open and read from it the stick, the touch and the directions
for the app, send it, or send the last one again when the pad is quiet.  Hard:
four steps between the kernel's queue and the PC, with the app's hold, a
reconnect and a full queue at any of them; and where a control is in a report is
written by hand five times for the known pads, and worked out by four separate
walks of the descriptor for the others.  Correct when: what was held is not
shown before it is let go; nothing stays down that is not down; a blanked report
says nothing; the tables and the walks agree.

**Chords** (`ctm_gesture_chord.inl`, `kbd_chord.inl`, `controller_ds4.c`,
`controller_ds5.c`).  State: the time since the chord was first seen, whether
it has fired; a keyboard's shortcut and the key that goes with it.  Correct
when: a chord held long enough asks once, and none is missed; a keyboard is left
with no key down.

**Feature memory** (`feature_memory.inl`, `handle_message` in
`controller_common.c`).  The PC asks a pad for feature reports; the kernel holds
one lock over every hidraw node while a pad answers, or does not.  State: a
bridge's set of unanswered reports, a table of eight pads' unanswered reports, a
table of eight DualSenses' kept answers.  Correct when: a pad's silence is met
once; what is replied without asking is what the pad said; a DualSense is always
asked.

**Sound card match and cache** (`ctm_cardmatch.inl`, `cardmatch_cache.inl`,
`ctm_signal_wired.inl`).  Which ALSA card is which pad's, when several
alike are cabled.  State: a table of notes (node, card, the card's USB device),
a file that keeps them over a restart of the app but not of the TV, the lock
held while one pad is muted and every card listened to, each session's card and
speaker.  Hard: cables, restarts, sessions and refused plugs in any order
against a remembered answer.  Correct when: a session's sound is on its own pad's
card, and a note that is believed is true.

**Microphone** (`mic_recover.inl`, `ctm_mic_safety.inl`,
`controller_common.c` `mic_capture_thread`).  State: the capture's card, the
streak of errors.  Operations: open by identity or by scan, read, recover,
reopen, the sends (`BridgeSession`), the safety sweep.  Correct when: it captures
its own pad, and a pulled cable ends it.

**Signals as sound** (`ctm_bt_signal.inl`, `btsig_build.inl`, `ds4_signal.inl`,
`ctm_signal_wired.inl`, `ctm_feedback.inl`, `speaker_tone.inl`, data tables).
State: the frame played, the light taken over, the pads primed, the card's
buffer, whether a cable is fresh (its first stream is not heard).  Operations:
connect, release and refuse on each of four ways a pad is reached; a release
cuts a connect short.  Correct when: an uncut signal is heard, felt and seen
whole; a cut one leaves its notes whole or not begun; the pad is left quiet; the
release waits a bounded time.

**Controller types and translation** (`controller_*.c`, `ds4_report.inl`,
`xpad_report.inl`, `xbox_bt_report.inl`, `pointer_layout.inl`).  Byte layouts, and
for a cabled Xbox pad a state built up from the kernel's events, read afresh
when their queue has overflowed.

**Device enumeration and identity** (`ui_devices.c`, `device_identity.inl`,
`session_name.inl`, `name_list.inl`, `ctm_hid.c`).  Nodes grouped into
devices, logical keys.

**Settings store and logs** (`ui_bridge.c`, `ctm_settings.h`,
`log_path.inl`).  A table of 64 records.

**The listener and the embedding app** are outside the repository.  The models
let the listener answer in every way the core tells apart, and let the app
make every call it may make.

### 1.3 Hazards

`PROJECT.json` lists forty hazards, each with its line and the properties that
would catch it.  Six have none, and say why: five of them do go wrong, and are
in section 6 (the gesture worker's stale keys, a DualSense's colour over a
reconnect, the signed axis at a bridge's start, a refusal remembered as a silence, a
microphone whose card is being listened to); and a pad that asks to be released before its session is recorded
is out of what `AskedGoes` claims.  Two more are covered but for a part that does go
wrong, which their notes name: a worker that leaves as a plug looks at its flag
(section 6), and a feed to a PC that does not read (2.5).

## 2. Modules

| module | models | state and actions |
|---|---|---|
| `ControllerOwnership` | what the table promises: every controller has one owner | one variable, `owner`; make, record, replace, claim, destroy |
| `SessionTable` | the table, the plug, `stop_session`, the worker's stops, the end of a stream | below |
| `SessionTableProofs` | theorems about `SessionTable`, and that it implements `ControllerOwnership` | |
| `GestureWorker` | the worker's thread | `running`, `flag`, `pending` are `g_running`, `g_gesture_worker_running`, `g_gesture_pending`; one action per look, wait, store |
| `AgentProbe` | the reading of the listener | the flags under their own names |
| `SignalHold` | signals and the PC's reports on one pad | below |
| `BridgeSession` | the session's thread, the input and microphone's threads, plug-out | below |
| `HostMouse` | the TV pointer: the app's calls, its session thread, the listener's device | below |
| `PadLayouts` | the known pads' byte layouts, once for each place where the code has them | operators on reports: blank, hold, stick, touch, directions, chord |
| `Descriptors` | the four walks of a HID report descriptor | folds over its items |
| `DescribedPads` | devices made of parts, the descriptors a maker may write of them, their reports | `device`, `pressed` |
| `XpadStates` | a cabled Xbox pad's state, fed by events or read whole, and the report built of it | operators |
| `XpadEvents` | the kernel's queue of its events, the overflow and the read afresh; composes `XpadStates` | below |
| `Pads` | a person at a pad, every kind of it; composes `PadLayouts`, `Descriptors`, `DescribedPads`, `XpadEvents` | below |
| `InputHold` | an input thread, from the kernel's queue to the PC | below |
| `SoundCards` | which card is whose: match, notes, speaker, microphone | below |
| `ToneSignals` | the notes, the pulse and the light of a signal, frame by frame, on four ways to a pad | below |
| `FeatureMemory` | the PC's feature requests and what is remembered of them | below |
| `MC*` | model values and symmetry for TLC | |
| `ThreadProofs` | theorems about `GestureWorker` (whose specification's names begin with `GW`, so that the two can be used together) and `BridgeSession` | |
| `PadMemoryProofs` | theorems about `FeatureMemory` and `XpadEvents` (`XE`): what is remembered of a pad | |
| `SignalHoldProofs`, `HostMouseProofs`, `InputHoldProofs`, `SoundCardsProofs`, `ToneSignalsProofs` | theorems about the module each is named for (section 4) | |

Operators whose comment begins "Slip:" (or "A mutation of") are wrong forms of
the definition that follows them.  No specification uses them.  Put in that
definition's place they break a property, which is how each property of the
runs was tested: `PROJECT.json` lists, for each, the slip that breaks it.

### 2.1 SessionTable

What the code does in one hold of `g_sessions_mutex` is one action; every
exchange with the listener, every plug-out and every destroy is another.

- A plug call is numbered.  The number stands for the busid it makes and for
  the controller it allocates, since a call makes at most one of each.
  `entry[k]` is the number of the controller in the entry of key `k`; the
  order of entries in the array is left out, because every lookup is by key.
- `ctl` and `outs` are ghosts of a controller's life.  Plug-out and destroy do
  what they are told to any controller, so a path that did it twice would
  show in them.
- `live` is what the listener has.  A `BRIDGE_START` that got no answer may
  have started a session or not; one that was refused has not.  The listener
  answers the commands it gets in order.
- `Exit` claims every entry that nobody else has, tears them down one by one,
  removes them, and waits for the others.  Its five seconds are the action
  `ExitTimesOut`, which may come at any time while it waits.
- Left out: the ways out of a plug before its key check, the choice of a port
  and its retry, the DualShock 4's tone setup, the pointer's unplug on exit.
- A controller's input thread may ask to be unplugged as soon as it runs.  A
  request raised before the session is recorded finds nothing to stop and is
  lost (a hazard with no property: `AskedGoes` is stated of recorded
  controllers).

### 2.2 SignalHold

One pad, its session thread, the signals of its connections (each a thread of
its own) and plug-out.  `running`, `closed`, `motorsDone`, `kept` and `owed`
are the fields of the controller; `light` and `motors` are what the pad shows
(the report last written).  `kind`, chosen initially from `Kinds`, is
`"ds4"`, whose signals drive light and
motors in reports and whose signal thread puts the PC's colour back, or
`"ds5"`, whose light alone travels in reports and whose colour is owed and put
back by the session's tick.  Light and rumble signals are switched on.

The session thread judges a report (may it pass, in whole or in part) and
writes it later; the two are separate actions, because a signal can begin or
end between them.  `failed` records that a write failed: properties that
depend on a write reaching the pad are claimed until then.

Left out: tones and rumble that travel as audio, the Bluetooth DualShock 4
(its light rides the tone), the release frames' own failures, a second plug-in
of the same controller, the paced queue's drops.

### 2.3 GestureWorker and AgentProbe

`GestureWorker` gives every worker thread a number and uses it once.  The app
is one thread: a stream ends between two plugs.  The stops themselves are one
step here (`Serve`), and the subject of `SessionTable`.

`AgentProbe` splits the probe and a plug at every store that another thread
can see.  A listener is down, mute, too new, locked or ready, and may change
at any time.  The pairing proof is part of "answers".  A `STATUS` answered
with `ERR`, and the effect of a `BRIDGE_STOP` on the flags, are not modelled.

### 2.4 BridgeSession

One pad's session from plug to plug-out.  `sess` is where the session's thread
is in `session_main` and `run_session`, `inp`, `mic` and `plug` where the
other three are; `stop`, `deviceGone`, `hostGone`, `answered`, `sendFailed`
and `ready` are the flags of the controller and its transport, `age` is the
trouble clock of `link_trouble.inl`.

- The three senders (session, input, microphone) share `send_mutex`: `holder`
  has it in a send.  `room` is what is left in the socket's buffer; a send to a
  PC that does not read waits with the mutex (`Stuck`) until the link breaks,
  and `Unready`, `Disconnect` and `PlugCloses` wait for the mutex as the code
  does.  `WakeSend` is the shutdown that `ctm_transport_disconnect` uses to
  wake a busy send.
- A microphone may come with either handshake: a DualSense's waits for `HOST_CONFIG`,
  a cabled DualShock 4's does not.
- `net` is what the PC does: it answers, takes connections and stays silent,
  refuses, or drops what it is sent.  It may change at any time.
- A tick is a second, and passes only while the session's thread waits.  A
  connection that has been answered is not timed.  `quiet` is a history
  variable: the time waited since an answered connection ended, which `age`
  ought to follow.
- Left out: the second node of composite pads, the contents of messages and
  partial ones, grabs of the evdev nodes, the time taken to find a sound card,
  `try_send`, a descriptor's number reused after a close, a second plug-in of
  the same controller, poll errors in the input thread other than the pad's
  hang-up, and a plug-out before the wake pipe exists.

### 2.5 HostMouse

`app` is where the app's thread is in a plug, an unplug or a feed (they are
all on one thread), `sess` where the pointer's session thread is in
`hm_session_main`.  `stop`, `connected`, `hostGone`, `last` and `keys` are
fields of `g_hm`; `last` stands for the position and buttons last sent, and
`Nowhere` for the value that forces the next feed out.  `held` is what the
remote has down, and `pc` the listener's side: whether it has the bridge, was
greeted on this connection, and what its device shows.  A feed is three steps:
the look at `connected`, the note under `state_mutex`, the send.

- A greeting makes the listener's device anew, with nothing down, and a report
  before it shows nothing.  A `BRIDGE_STOP` arrives.
- A send may wait only where the PC does not read and has been sent more than
  a greeting (`Stuck`).  Nothing ends such a wait but the link's end.  When it
  is the app's, the app's loop waits with it: the code has no limit there, and
  no property claims one.
- `gone` and `timer` are the times since `lost_at` and since an attempt began;
  `quiet` is a history variable, as in `BridgeSession`.
- Left out: the wheel, the scaling of coordinates, a name that resolves to
  several addresses, the choice of a port.

### 2.6 Pads, XpadEvents, PadLayouts, Descriptors, DescribedPads

`kind` is the pad.  A known pad's report is computed from `down`, the inputs that
are down, with sticks a little off their centre; the report goes through each
table of `PadLayouts`.  A cabled Xbox pad has no report of its own: the code builds
one of a state (`XpadReport`), and `Pads` takes the state that goes with what is down.

That the code has that state is the subject of `XpadEvents`, the kind "events": `queue` is the kernel's,
`held` what the driver holds, `st` the code's state.  `ReadEvent` takes one event;
an overflow makes the code pass over the rest of a packet and ask for the axes
(`ReadAxes`) and then the keys (`ReadKeys`), between which the person goes on
(`Move`), and it opens the pad by the same read.  `Settled` is the state that goes with
what the driver holds, and `DropsHeal` says that whoever has caught up has it.

A described device is a sequence of `Parts`, each a control with its page, its
usages, its size and its range; `Descriptor` writes it in one of three styles
("lean" states a global only when it changes, "pushed" goes through push and pop,
"wide" has each usage carry its page), and `ReportOf` what it then sends.  `PadPlan`,
`HoldFromPlan`, `MouseHold`, `PointerLayout` and `KeyboardLayout` are the walks of
`pad_blank.inl`, `switch_hold.inl`, `pointer_layout.inl` and `kbd_chord.inl`.  The
definitions on both sides are independent of each other: the device knows where
its controls are from the parts, the walks only from the descriptor's items.

Left out: motion, battery, output reports; that each axis has an ioctl of its own, that
one may fail, and what the kernel takes out of its queue when the keys are asked for; the walks' caps (96 fields, a count of
1024, sizes over 16 bits); a hat with no value for rest, which cannot be blanked;
the mouse buttons of one descriptor that also has a keyboard, which the hold does
not follow; the keyboard's walk of a descriptor that pushes, which it does not
support.

### 2.7 InputHold

A report is the set of inputs down in it, and `queue` the node's.  `Takes`,
`Judges` and `Sends` are the three parts of one turn of `input_thread_main`: the
hand-back and the shortcut; the note of what was held, the one look at whether the
app holds the input, the copy that is masked and blanked; the send and the type's
own reader, which is not shown a report whose send failed.  `Idles` and
`Keepalive` are the turns in which nothing is to be read.  `swh`, `keep`,
`handedBack`, `chord` are the thread's and the controller's; `pc` is what the PC's
device shows.  `due`, `since` and `first` are history.

The kinds are what the code tells apart: pads that report all the time, a
DualShock 4 with its chord and the short reports that it mixes in, generic pads
and Bluetooth Xbox pads with the keepalive (the two keep the last report at
different places), keyboards and mice with the hand-back.

Left out: an absolute pointer's hand-back (it has no released report), sibling
interfaces, a keyboard's grab.

### 2.8 SoundCards

`cabled` is the kernel's: the lowest free node and card number, and a USB device
number never used before in this boot.  `notes` is `g_cardmatch_cache`, read from
`file` once in a run (`loaded`) and only of this boot.  `Matches` answers at once;
`Listens` and `Hears` are the two ends of a probe, under the lock, with every free
card held open and cables coming and going in between.  A refused plug asks too,
and mutes whatever is on its node by then.  `sess[p].spk` and `mic[p].on` are the
device a handle is on: it goes on naming that device when the number is given to
another.

`guessed` becomes true when the code takes the first free card, which it does
only without an answer, or acts for a pad whose cable is out.  Nothing is claimed
after that, and `BeforeAnyGuess` stops the search there.

Left out: samples, mixers, the USB trace's fallback names, the volume.  Assumed:
nobody mutes or unmutes another pad's microphone during a probe.

### 2.9 ToneSignals

One signal after another on one pad, on one of four ways: a Bluetooth DualSense
(a report for each 10 ms frame), a Bluetooth DualShock 4 (two 4 ms frames to a
report), a cabled DualSense with a card, and one without.  `play` is the player:
which signal, which stage, which frame.  `pad` is what has been heard, felt and
seen of it.  `queue` is what a card still holds; a step of the card's way is
10 ms.  `life` is the session around: the connect signal has a thread, the release
waits for it (`Asks`, `Releases`), a refusal comes without a session.  `fresh` and
`pad.deaf` are the two sides of a cable's first stream, which is not heard:
what the code believes and what is.

Left out: bytes, checksums and report numbers; the full table of primed pads with
two pads at once (a full one is in, with one); a card that refuses the buffer
size; the DualShock 4's tone lock and the gap it keeps; the volume.

### 2.10 FeatureMemory

`Enters` is the kernel's lock: one pad is asked at a time.  `ask[p].long` says
that the request has by now waited as long as the platform's wait, its own or
behind another's: the code's clock starts before the lock.  `pads` and `answers`
are the tables, `unanswered` the bridge's set; a set says which reports, since
nothing else of an entry is looked at.  `left` and `said` are history: what the
pad really left unanswered, and where the last reply came from.

Any request may be answered, turned down, or over Bluetooth left unanswered.
Left out: eight places (one is enough for a full table), what an answer holds.

## 3. Runs

All twelve pass.

| run | instance | checks |
|---|---|---|
| `session_table` | 2 devices, 1 plugger, 1 releaser, worker, exit, room for 2, 3 plugs | `TornDownOnce`, `StoppingIsClaimed`, `NoPhantomSession`, `ExitReturnsQuiet` |
| `session_table_race` | 2 pluggers, room for 1, 2 plugs, fairness | `TableHoldsRunning`, the refinement `ImplementsOwnership`, `ReleasesEnd` |
| `gesture_worker` | 2 devices, 3 streams, 3 workers, failing thread creation, fairness | `SingleWorker`, `RequestServed` |
| `agent_probe` | 2 addresses, with plugs, fairness | `ReadingSettles` |
| `signal_hold` | both pads, 2 connections, 3 reports, 2 colours, failing writes, fairness | `NothingTouchesAClosedPad`, `OneSignalAtATime`, `PulseAlwaysStops`, `HostColourShows` (of a DualSense while it has had one connection), `HostRumbleStays`, `PlugOutReturns` |
| `bridge_session` | both handshakes, give-up 3, answer 5, connect 2, redial 1 ticks, fairness | `SessionSaysWhy`, `PadIsServed`, `NoStraySends`, `GivesUpInTime`, `NotGivenUpEarly`, `PlugOutReturns` |
| `host_mouse` | 2 keys with room for 1, 1 place, give-up 3, connect 2, redial 1 ticks, fairness | `SentIsShown`, `NoLateKnock`, `OutIsOut`, `KnocksAndUnplugsEnd` |
| `pads` | 8 kinds; 11 inputs; a button, a stick and the directions as a hat or as keys, over a queue of 4 events; devices of up to 3 of 17 parts in 3 styles | `DropsHeal`, `TablesAgree`, `DescriptorsAreRead` |
| `input_hold` | 6 kinds, 2 inputs, a queue of 2, a chord of 2 ticks, 2 chords, fairness | `SwitchHeldStaysHidden`, `NothingLingers`, `AsksOncePerHold`, `HeldSettles` |
| `sound_cards` | 2 pads, 2 notes, 2 errors in a row, 3 cables put in, 2 boots, fairness | `SoundIsOwn`, `NotesAreTrue`, `PulledCableEndsCapture` |
| `tones` | 4 ways, buffers of 2 and 10, all switches, 1 lost report | `SignalEndsWell`, `CutInTime` |
| `feature_memory` | 3 pads on either bus, 2 reports, 3 lengths, room for 1, 4 requests, 3 bridges, 2 runs of the app | `SilentAskedOnce`, `UnaskedIsTrue` |

What they say of the program:

- *The table and the streams.*  A controller is taken apart once, by the path that
  claimed it, and whoever finds it in the table finds it running; every claim ends
  and every stream's end comes back with nothing under way; a session that the PC
  has is always somebody's to stop.  A request to be released is served, by the one
  worker there is.
- *A session.*  One that ends has said why; a connection that relays has its input
  thread; nothing is sent before the greeting or on a dead transport; a silent PC
  is given up after the give-up and before one more greeting's wait; plug-out comes
  back from anywhere, whatever is blocked.
- *Input.*  What a person does is what the PC sees, and what a hold hides stays
  hidden, whichever pad, transport or descriptor.
- *Sound, light and motors.*  A pad gives its own signals, whole, and is left quiet.
- *Memory.*  What is remembered of a pad, a card or a position sent is true of it.

The app plugs one device at a time, under a lock of its own.  `session_table`
follows that rule.  `session_table_race` drops it and shows what the table
guarantees by itself.  `NoPhantomSession` is not claimed there: a session that
`add_session` replaces gets no `BRIDGE_STOP`, and only two plugs at once reach
the replacement (`NoPhantoms` proves the rest).

### Bounds

- `MaxPlugs`: 3 lets a device be plugged, released and plugged again while
  another device is bridged.  `MaxSessions` is at the limit in the race run.
- Two devices, one releaser, the worker and the exit are all the paths there
  are; a path's second visit to a key is reached through another plug.
- `MaxWorkers`, `MaxStreams`: 3 give a worker of an old stream, one of the
  current, and one refused by the thread limit.
- `MaxConnects`, `MaxReports`: two connections let a signal of the first meet
  that of the second; three reports let the colour change before, during and
  after a signal.
- `BridgeSession` has no bound but the times: they are the code's
  (`CTM_HOST_GONE_MS`, `CTM_HOST_ANSWER_US`, `CTM_CONNECT_TIMEOUT_MS`) in
  seconds, with the half second between two attempts rounded up.  The counts
  of ticks stop at `Cap`, above every limit they are compared with.  Deadlock
  is checked: a session that nobody ends goes on for ever, and one that is
  over leaves the PC and the pad free to change.
- `AgentProbe`: with two addresses an answer may come from the one that is no longer
  set, to the probe or to a plug; a third tells nothing more apart.
- `HostMouse`: two keys with room for one reach the limit of the table of six;
  with one place a feed is either new to the link or a repetition, which is
  all its suppression tells apart.
- `Pads`: a queue of four holds two packets, so a third overflows it while the
  first is read, and every one after that again.  Eleven inputs in every mix of presses reach every byte of the
  tables; the parts are one of each kind of field that the walks tell apart, and
  three to a device meet each other on both sides of a byte's edge.
- `InputHold`: two inputs tell one that is held from one that is not; with a queue
  of two a report can be in hand, queued and lost.  Two chords, and two connections
  of a keyboard, show that the second is asked for afresh.
- `SoundCards`: with three cables in, a device number and a card number that a
  note names have come to mean another pad.  The full table's limit is reached by
  two notes.  `BeforeAnyGuess` is exact for the invariants, which claim nothing
  after a guess, and a guess is undone only by a boot, whose state (no sessions, a
  new boot id that makes the file's notes void) is reached without one too.
  `PulledCableEndsCapture` is checked of behaviours without a guess.
- `ToneSignals`: a note's frames, the pulse's and the light's are the code's own.
  Only stretches of equal frames (the wait, the prime, the idle card) are shorter.
  The buffers are the smallest and the largest that the card may take.
- `FeatureMemory`: three pads and one place make two of them find none.  Four
  requests let one be asked, left, asked of another and asked again.
- Checking for deadlock is off where a behaviour ends by design: the bounds of
  `GestureWorker` and `FeatureMemory` are used up, or in `SignalHold` and
  `ToneSignals` the pad is gone.

### Fairness

Threads inside a call run on (weak fairness of their steps): the waits in a
plug-out and the exchanges with the listener are bounded in the code, and the
probe's and the worker's waits end by themselves.  Nobody has to plug, release,
ask, end a stream or change a PC, and no timeout has to come.  In `SignalHold`
a signal's frames end with its time, so the steps that leave a stage are fair
and the frames are not.  In `BridgeSession` every
thread runs and time passes; nobody has to plug out, hang up or answer.
In `HostMouse` likewise, and a send that the PC does not take need not end.
In `InputHold` the thread runs, time passes, and `Reports` is strongly fair: a pad
that reports all the time gets a report into the queue again and again, since
the thread empties it.  In `SoundCards` the microphone's thread runs; its reads
need not fail, but a device that is gone makes each of them fail, and leaves no
other step.  `Pads`, `ToneSignals` and `FeatureMemory` have no liveness property.

## 4. Proofs

Each theorem holds for every value of the constants under the module's named
`ASSUME`s, and is proved from an inductive invariant: it holds initially, each
action keeps it (one lemma or one step for each), and it implies the property.

**SessionTable**, for any numbers of devices, threads, plugs and any table size
(`BoundsAssumption`; `ThreadsAssumption`: the roles are different threads).
`TypeCorrect`, `TeardownOnce` (`TornDownOnce`) and `TableReadsAreSafe`
(`TableHoldsRunning`).  `TornDownOnce` is not inductive: a path that is about to
plug a controller out may do so only because the controller still runs and
because nobody else is about to.  `IInv` says where a controller can be:

- `FreshInv`: a call that has not been made has left no trace, and threads work
  on calls that have been made.
- `KeyInv`: an entry holds a controller made for its key.
- `BusyInv`, `StageInv`: a thread works on an attempt exactly when it is inside
  a call, and the controller's state follows from the stage it is at.
- `ExclusiveInv`: no attempt is in two hands: two threads', a thread's and the
  table's, a thread's and the exit's list.
- `RunningInv`: what the table holds unclaimed, and what the exit has not
  reached yet, runs.
- `OutsInv`: the count of plug-outs follows from the controller's state.

Four results more stand on it.

- `TableImplementsOwnership`: the table, with every interleaving of its paths,
  implements `ControllerOwnership`.  `OwnedInv` (a controller that is alive is in
  the table or in one path's hands) joins `IInv`, so that the refinement mapping
  `OwnerOf` names the one owner; each action then is a make, a record, a
  replacement, a claim or a destroy of the abstract specification, or a stutter.
- `OneClaimant` (`StoppingIsClaimed`), from `ClaimInv`, which pairs the entries that
  are stopping with the paths that claimed them, both ways.
- `ExitIsQuiet` (`ExitReturnsQuiet`).  By `BatchInv` what the exit claimed it has not
  reached, is tearing down, or has destroyed, and destroyed is for good
  (`GoneStays`); so when it leaves its wait with nothing stopping, its own claims are
  done, and by `ClaimInv` no other path has one.
- `NoPhantoms` (`NoPhantomSession`), under `OnePlugger`: at most one thread plugs,
  which is the app's rule (section 3).  It is a hypothesis of this theorem and not an
  `ASSUME` of the module, since nothing else needs it.  `SerialInv`: a key that
  a plug found free stays free until it is recorded, so `add_session` replaces
  nothing; every other step hands the `BRIDGE_STOP` that is ahead to another path, the
  table or the exit's list.

**GestureWorker** (in `ThreadProofs`): `WorkerTypes` and `OneWorker` (`SingleWorker`), for any number of
streams and workers and any failures to make a thread.

**SignalHold**: `OneSignal` (`OneSignalAtATime`), `ClosedIsUntouched`
(`NothingTouchesAClosedPad`), `PulsesStop` (`PulseAlwaysStops`), `RumbleStays`
(`HostRumbleStays`), `ColourShows` (`HostColourShows`) and `TypeCorrect`, for any number
of connections, reports and colours.  `ClaimInv`: one claim, and it is one thread's, or about
to be.  `CloseInv`: the pad is closed from plug-out's first step on, and nobody has
the claim from its second.  `PulseInv`: only a DualShock 4 is driven by reports, and
whoever set its motors running has the stop ahead.  The colour needs one invariant for
each pad, and `ReportInv` for both: the report at hand has the PC's last colour.
`HeldInv`, a DualShock 4's: what is kept is that colour, and a signal that is over has
put on the pad what it took to give back, so the light is right once nobody holds it, or a
report on its way makes it so.  `OwedInv`, a DualSense's on its first connection: a
colour that a signal covers is owed from when it was taken until the tick puts it back.

**BridgeSession** (in `ThreadProofs`): `EndsAreSaid` (`SessionSaysWhy`), `RelayHasInput`
(`PadIsServed`), `SendsKeepToTheirLink` (`NoStraySends`), `GivenUpInTime`
(`GivesUpInTime`) and `GivenUpNoEarlier` (`NotGivenUpEarly`), for any lengths of the
waits such that an attempt to connect and the pause between two are no longer than
the wait for an answer (`SessionAssumption`; in the code 2 s and 0.5 s against 5 s).
`HolderInv` says who can have the send mutex, `PlugInv`, `InputInv` and `ReadyInv`
where a thread can be beside the others, `ClockInv` that the trouble clock is the
time without an answered connection but for the steps between the end of such a
connection and the clock's clearing, `TimeInv` that a wait is left before it is
longer than its limit.

**HostMouse**: `OutLeavesNothing` (`OutIsOut`), `KnocksInTime` (`NoLateKnock`) and
`NotedIsShown` (`SentIsShown`), for any keys, places and times.  `LinkInv` and
`OutInv` tie the flags to the session's stage, `ClockInv` bounds the attempt by the
give-up, `SentInv` follows a report that was noted on one connection and is sent
on the next.

**InputHold**: `HeldStaysHidden` (`SwitchHeldStaysHidden`), `NoneLinger`
(`NothingLingers`) and `NothingAsksTwice` (`AsksOncePerHold`), for any inputs, queue and
length of a chord.

- What was held: `SinceInv`: what was never let go is in every report still
  queued, in the one at hand, and in the first one to come; `HeldInv`: once a report
  was looked at, it is in the held set; `JobInv`: it is in no copy made for the PC.
- `OwnInv`: reports name what their device has.  `LingerInv`: of a device that reports
  only a change, the newest report there is says what is down, wherever it is (queued, in
  hand, with the PC and the keepalive), unless it was lost, and then the device
  reports again.
- A chord is seen later than it is made, so its asks can only be counted against the
  holds that made them.  `AskInv` dates every report not yet seen by the hold it was
  made in: dates rise along the queue, a report of the chord after one of its release
  has a later date, and what is being timed has a date that has not asked yet.  The
  dates are quantified in the invariant, and each step gives those of the next state:
  a read drops one, a report adds today's, a lost or a repeated one keeps them.

**SoundCards**: `SoundStaysOwn` (`SoundIsOwn`), `NotesStayTrue` (`NotesAreTrue`) and
`TypeCorrect` (with the table's limit), for any finite set of pads, any numbers of cables,
boots and errors, and any size of the table.  `KernelInv`: no two pads share a node, a card
or a device number, which needs that there is always a lowest free number
(`FreeNumber`, `MinIn`).  `LinkInv`: a session's device number is its pad's or nobody's by
now.  These hold always; until a guess there are also `OwnInv`, that whatever is open is on the
device the session was bridged on and whatever was answered is its pad's card, and
`MemoryInv`, that a note is of a device which, while it is in, has the note's node and
card and was matched on this cable.  The heart is that each of the three ways to an
answer is right: a note that is found (`KnownIsOwn`), the one card that is left
(`OnlyIsOwn`: the pad's own card is free, since whoever else has a microphone open has
it on a device of its own, and no other node's note names it), and the one card that fell
silent (`SilentIsOwn`).

**FeatureMemory** (in `PadMemoryProofs`): `SilenceIsMetOnce` (`SilentAskedOnce`) and `UnaskedRepliesAreTrue`
(`UnaskedIsTrue`), for any pads, reports, lengths and sizes of the tables.
`SilenceInv`: what a pad left unanswered is in the bridge's set, and in the table
where the pad is in it, and a full table stays full; `MemoryInv`: only answers given
over Bluetooth are kept, and recalled only over Bluetooth, to the same question.

**XpadEvents** (in `PadMemoryProofs`): `OverflowsHeal` (`DropsHeal`), `XpadInvariance` and
`XpadTypeCorrect`, for any set of codes that move, any values and any queue with room for
a packet (`XpadAssumption`).  `DropsHeal` speaks of the moment at which the reader has caught
up; the invariant says what holds on the way there.

- `Truthful`: the last event kept for a code has the value that the driver holds, since a
  move's packet is always kept, whatever else is dropped for it.
- `OneWay`: a pad's directions come by hat or by keys, and what it does not use is at
  rest.  Without it the four keys' bits would have two authors, and applying one after the
  other (`ReadKeysOverHat`, which the code once did) loses what is held.
- `EventsInv`: while events are read and none was dropped, the state shows the value of each
  code that no kept event is still to bring.
- `AxesInv`: the same of the axes and of the hat between `ReadAxes` and `ReadKeys`; a move in
  between is behind the read in the queue.

The lemmas of its first part say that no two keys share a bit and that the directions have
the hat's (`BitsApart`, `DirectionBits`), and that applying an event shows it and leaves
every other code of the pad as it was.

**ToneSignals**: `ReleaseIsNotKept` (`CutInTime`) and `Invariance`, for any sizes of the card's
buffer and any lengths of the wait, the prime and the idling (`BoundsAssumption`); the notes'
lengths are the code's.  That a wait is short is the sum of what each stage
adds, so `SoFar` bounds what a release may have waited by now stage by stage: in a stage that a
release cuts at once it has waited for nothing, and the voice, its drain, the card's sound, its
repeat and its breath have each added at most the steps that they have taken.  A card is written
until its sound is out, and `InPlace` (each step of the card's way leaves room for at least one
frame) is what makes every write take one, so that the writes are no more than the frames.

Only model-checked:

- `TablesAgree` and `DescriptorsAreRead` (`Pads`): computed from tables and from folds and
  recursive functions over a descriptor's items; the cases are finite, and all of them are
  checked.
- `SignalEndsWell` (`ToneSignals`): about the whole sequences that a signal builds with folds,
  and true for the bound that the model has on lost reports.
- The liveness properties (`ReadingSettles`, `RequestServed`, `ReleasesEnd`, `PlugOutReturns`,
  `KnocksAndUnplugsEnd`, `HeldSettles`, `PulledCableEndsCapture`): liveness under fairness is out of the
  prover's reach.

## 5. What is not modelled

- *Device enumeration*: reads sysfs once per call and keeps nothing.
- *Settings and logs*: a table of records that the app fills; what a setting
  switches is a constant or a choice at the start (`ToneSignals`, `SoundCards`).
- *The ready light's tick, the ring of paced reports, the own card's volume*.
- *Transport*: `try_send`, a message that arrives in parts, a socket's number that
  is given to another.
- *Composite devices*: the sibling interfaces of one pad.
- *The microphone's safety sweep*: writes one report to every node, keeps no state.
- *Output reports*: how a type rewrites the PC's bytes; checksums; samples.
- *Listener and app*: outside the repository.

`PROJECT.json` has each component's status and reason; "left out" in section 2 says
what each module drops of the code it does model.

## 6. Where code and comments differ

Found while modelling.  Where a definition is named, it states what the comment
says, and no run claims it.

- `GestureStopsAskers` (`ctm_gesture_worker.inl:119`): the worker copies keys and
  stops by key.  A device released by another path and bridged again before the
  worker gets to it is stopped though it never asked.
- `PluggedHasWorker` (`ctm_gesture_worker.inl:128`): a stream that begins and plugs while
  the last one's worker is past its loop finds the flag up and starts none; the worker
  then leaves, and there is none until the next plug.
- `HostColourStays` (`controller_common.c:2679`): over a reconnect of a DualSense the
  second connected signal covers the PC's colour and nothing puts it back, since
  it is not owed.
- `HungListenerGivenUp` (`controller_common.c:3910`): `link_trouble.inl` says that a
  listener which is hung but still takes connections gets the pad back after 5 to
  8 seconds.  The end of a connection takes the send mutex before it shuts the
  socket, so a send that such a listener has stopped reading keeps the session
  from giving up for as long as it lasts.
- `NoStuckKeys` (`ctm_hostmouse.c:392`): a key noted before a reconnect and sent after
  it is down on the PC and unknown to the table, so its release is not sent.
- `UntouchedHoldsNothing` (`switch_hold.inl:127-131`): a field's distance from rest is
  taken of the raw bits, so a signed axis a little below its centre counts as held,
  against the dead zone of the comment above it; it stays masked until it has been
  moved above it.
- `OnlyTheSilentRemembered` (`controller_common.c:3366`): the clock starts before the
  kernel's lock, so a report that a pad turned down at once, behind another pad's
  silence, is remembered as left unanswered.
- `CardIsOwn` (`ctm_cardmatch.inl:355`): elimination takes the one card that nobody's
  note names, which may be another's when a pad's cable is out by then; the comment
  on the match (388-402) rules that out.
- `IdentifiedIsFree` (`controller_common.c:1459`): a microphone whose card the probe
  identified falls back to the scan when that card is busy, and not only, as the comment
  above it says, when the probe could not answer; it is busy while another session's
  match listens to every free card, and the scan may then find another pad's.
- `ReleaseOnce` (`ctm_feedback.inl:384`): a release that is asked for before the
  connect thread has decided whether to play twice leaves the cable's first-stream
  flag up, and is itself played twice, which the comment there says it is not.
- `SwitchRule` (`controller_common.c:3179`): a keyboard's report with the shortcut is
  emptied before the hold has looked at it, so a key held since the bridge started
  then reaches the PC (`SwitchHeldStaysHidden` claims the rule up to that).
- `LastReportStands` (`controller_common.c:3254`): a Bluetooth Xbox pad's report whose
  send fails is not kept, so after the reconnect the keepalive sends the one before
  it (`NothingLingers` leaves that pad out).

And, with no definition: a `STATUS` in flight while the address changes writes the old
PC's reading as the new one's until the next probe (`ctm_gesture_worker.inl:248`;
`ReadingSettles` claims that it does not stay); `ctm_hostmouse.h` still says that a pointer gives up after
15 s without a link, the code's limit is three (`HM_HOST_GONE_MS`);
`own_card_volume_set` may fail and the volume counts as set
(`controller_common.c:739`); an absolute pointer that is handed back gets no
released report; a keyboard that is back with the TV has its reports passed over
before the hold sees what was let go.

## 7. Plan

Done: every component with threads or state of its own but those below, and the
proofs of section 4.  Next, in order:

1. The own card's volume, the paced queue and the ready light: a ring and a tick
   beside `SignalHold`.
2. `Transport` on its own: partial messages, `try_send`, a reused descriptor.
3. The settings table as an abstract map.
4. Proofs: the half of `SignalEndsWell` that needs no fold, that a pad is left quiet.
