# Claudial: a TLA+ verification of the usage dial

Claudial is a desk dial that shows the usage of a Claude subscription. A daemon
on a host (`src/claudial-host`) polls the usage once a minute and publishes it,
with the wall clock, over Bluetooth LE to the firmware of the dial
(`src/firmware`), which keeps the time in a battery-backed RTC, computes a pace
from the snapshots it receives and draws all of it on an AMOLED panel. Both
sides share the wire types and the pure logic of `src/claudial-icd`.

This directory holds the TLA+ modules of that system, the TLC configurations
that check them, and the proofs that TLAPS checks.

## 1. Inventory

| Component | Code | State it keeps | Operations | Talks to |
|---|---|---|---|---|
| Host session loop | `claudial-host/src/main.rs` | where the session is; the last clock sent | find, connect, publish clock and usage, sleep, retry | transport (calls), ergot stack (interface state, broadcasts), usage source |
| BLE transport | `claudial-host/src/transport.rs` | ergot interface state, outbound queue, three worker tasks per session | connect, mark_down, watch, read, write | BlueZ, session loop (through the interface state only) |
| Usage sources | `claudial-host/src/usage/*.rs`, `credentials.rs` | none (credentials are read again at each poll) | poll, convert to a snapshot | HTTP, KWallet, session loop |
| Wire types | `claudial-icd/src/lib.rs` | none | `minutes_until` | both sides |
| Pace window | `claudial-icd/src/pace.rs` | ring of samples, unchanged streak | record, rate, readiness | UI loop |
| Settings logic | `claudial-icd/src/settings.rs` | none | step, validate, encode, decode | UI loop, settings store |
| BLE peripheral | `firmware/src/ble.rs`, `transport.rs`, `ble_nus.rs` | connection, two bounded topic receivers, two signals | advertise, accept, receive, forward | host, UI loop (signals) |
| UI event loop | `firmware/src/bin/main.rs`, `events.rs`, `ui.rs` | connection, age of the data, brightness, idle deadline, settings | one handler per event | all firmware tasks (signals, channels) |
| RTC | `firmware/src/rtc.rs`, `tasks.rs` (`rtc_task`) | oscillator flag, calendar, offset byte | init, read, synchronize | UI loop, I2C bus |
| PMIC and power key | `firmware/src/pmic.rs`, `tasks.rs` (`pmic_task`) | latched key interrupts | poll | UI loop |
| Touch | `firmware/src/tasks.rs` (`touch_task`), `ui.rs` | finger down or up | poll, dispatch | UI loop (bounded channel) |
| Settings store | `firmware/src/settings_store.rs` | flash map, last saved value | load, save with read-back | UI loop |
| Panel driver | `firmware/src/co5300.rs` | band buffer, transfer in flight | draw line, flush band, commands | UI loop, SPI DMA |
| Diagnostics and glue | `firmware/src/frame_stats.rs`, `slint_platform.rs`, `board.rs`, `lib.rs`, build files | frame counters | log | none |

### What is hard

* **Workers that outlive their session.** `connect` aborts the tasks of the
  previous session but does not await them; the interface state is one cell that
  every worker of every session may set to Down.
* **Failures that only one party sees.** BlueZ may keep reporting a dead link,
  may leave the notification stream open, and a subscription may fail. The
  failing write is then the only evidence.
* **A queue that outlives the session.** Frames queued for a link that died are
  delivered first on the next one.
* **Bounded receivers and signals that overwrite.** A value is replaced before it
  is read, or dropped when the receiver is full.
* **Interrupted hardware sequences.** Time, offset and validity flag live in
  three places of the RTC and are written one after the other, each write able
  to fail or to be cut by a reset; settings are erased, written and read back.
* **Latched inputs.** A power-key press is latched in the PMIC until cleared;
  short and long presses share one read.
* **Timing.** The label on the data, the dimming and the clock's validity each
  depend on deadlines that race with events.

## 2. The modules

| Module | Models | Run | Proofs |
|---|---|---|---|
| `HostPromise` | what the host promises of the frames that it publishes | through `hostlink` and `usage` | `HostLink_proofs`, `UsageFeed_proofs` |
| `HostLink` | session loop, `find_device`, `connect`, the three workers, the outbound queue, BlueZ, the radio | `hostlink` | `HostLink_proofs` |
| `RtcSync` | `rtc_task`, `Rtc::init`, `read`, `synchronize` | `rtc`, `rtc_torn_probe` | `RtcSync_proofs` |
| `UsagePromise` | what the dial is promised of a snapshot's delivery, and the label it makes of it | through `usage` and `dial` | `UsageFeed_proofs` |
| `UsageFeed` | a snapshot's way from the poll to the label on the dial | `usage`, `usage_left_over` | `UsageFeed_proofs` |
| `UsageSources` | what the two usage sources make of every answer | through `dial` | `Dial_proofs` |
| `Dial` | usage, pace, summary and countdown, by the clock last heard of | `dial`, `dial_unknown` | `Dial_proofs` |
| `DisplaySettings` | the settings value: its controls, its stored form | through the two below | `SettingsStore_proofs`, `DisplayPower_proofs` |
| `SettingsStore` | load, erase, save, read-back; the loop's debounce | `settings` | `SettingsStore_proofs` |
| `DisplayPower` | the UI loop's handlers for power, brightness and the idle deadline | `display` | `DisplayPower_proofs` |
| `PaceWindow`, `PaceRing` | what the pace remembers, and the array it remembers it in | `pace` | `PaceRing_proofs` |
| `Inputs` | `touch_task`, `pmic_task`, what the loop makes of them | `inputs` | `DisplayPower_proofs` |
| `Co5300` | the upload of a frame, in bands and rectangles | `co5300` | `Co5300_proofs` |

Two abstract specifications join the modules of a frame's way from the host to the
screen. `HostPromise` is what `HostLink` implements and what `UsageFeed` takes for its
host: its queue, interface, pump and link are variables of the feed, its actions the
host half of the feed's. `UsagePromise` is what `UsageFeed` implements and what `Dial`
builds on: every step of `Dial` that the feed is about is one of the promise's. So
neither BlueZ and three workers need be multiplied with the device's queues, nor those
with the pace.

A frame of `HostPromise` is a record with `old`, and its user says what else it
carries: a topic in `HostLink`, an age in `UsageFeed`, whose frames are snapshots
only. The ages are no state of the code, and time makes them grow in the queue, so
that the feed is a `HostPromise` but for them (`SpecKeepsDelivery`). In the other
direction the feed hinders the promise nowhere: it takes each of its actions as it is,
`Links` while the device has its GATT server, and lets no time pass while the host or
the device has something to do (`Prompt`). `Dial` extends `UsageSources` and
instantiates `PaceWindow`, which `PaceRing` implements by a refinement mapping.
`DisplaySettings` is extended by `SettingsStore` (which adds the flash) and by
`DisplayPower` (which adds the panel). Every `MC` module gives the constants of one
module their values. An optional value (`Option<T>`, a `Signal`) is a set of at most
one element throughout.

A definition whose comment speaks of a mutant stands next to a variant of itself
with a plausible slip of the code (a forgotten reset, an off-by-one, a dropped
guard). The specifications do not use the variants: replacing the
definition by its variant makes the property that PROJECT.json names for it fail,
which shows that the property depends on that line of the code.

### HostLink

`pc` is the place in `main`'s retry loop and in `session`, one value per await.
`task[g]` holds the three workers of the session that used the slot `g`; each of
them is at one of its awaits, where `abort` can stop it, or is `exiting`: past its
last await and certain to call `mark_down`, at any later time. `connect` aborts
without awaiting, so that exiting workers of an old session live on beside the new
one. `iface` is the ergot interface state. `queue` holds frames, marked `old` as
soon as the session that queued them is over. `bluez` may say `up`, `stale` (it
still holds a link that is dead) or `none`, and `dev` says what the device holds: the
connection delivers only while both hold it (`Carries`). `air` holds the frames that
BlueZ has accepted and the device has not received: `write_without_response` returning
`Ok` says no more than that. `TxWrites` therefore only hands a frame over, and
`Delivers`, at any later time, sets the device's clock. A connection ends with all that
is in flight; when it is the device that leaves (`DeviceLeaves`), BlueZ goes on to
accept frames, which are lost, until its supervision timeout (`LinkTimesOut`). Faults
are failing BlueZ calls, lost connections, and a restart of the daemon.

* `OnePump`, `ActiveIsServed`, `ConnectFindsDown`: two sessions never drain one queue,
  an Active interface has somebody who drains it, and no path out of a session leads
  to "BLE interface is not Down".
* `ClockSentMeansSent`: `previous_clock_sync` is set when the clock's broadcast is
  accepted, long before its delivery. As long as the connection carries frames, a
  clock recorded as sent is the device's, or on its way, in the queue or in flight,
  behind every older one, or the session is about to end. Over a connection that has
  ended it may be lost while it counts as sent: the property says nothing then, and
  `DeadLinkNoticed` is what ends that session and has the clock sent again.
* `Implements`: however many workers linger on, the queue looks to the device as if it
  had one pump, attached to a connection that was made after the pump of the last one
  was gone; no frame leaves the queue but one that was written or whose write fails,
  or all with the daemon. Written is not delivered: what is in flight arrives in order
  or is lost with its connection. A frame may come twice, when a pump is aborted
  between its write and the release.
* `DeadLinkNoticed`, `Settles`: a dead link takes the interface down although the
  notification stream stays open and BlueZ accepts writes for a while; after the last
  fault the daemon is connected and the device's clock is right.

`hostlink` has two slots, a queue of two frames, one frame in flight
(`AirCap`; a second one waits in the queue) and one fault of any kind; two slots
are enough for one old and one current set of workers, the case that the comments
of `connect` are about. A second fault would only repeat the recovery from another
state, and the proofs of the invariants and of `Implements` bound neither faults nor
sessions.

### RtcSync

Every I2C transaction of `init`, `read` and `synchronize` is a step, so that a
reset or a failure can fall between any two. The calendar holds the request it was
set by, `ram` the offset byte as a marker and a number of units, `osf` the
oscillator flag. `saved` is the byte that `init`'s identity probe (toggle, read
back, restore) has to put back; the ghost `probeTorn` records that this was cut.

* `FailsClosedUnlessTorn`: the UI believes a calendar only with the offset of the
  same request, whatever was interrupted; `KeepsSync`: a synchronized clock is lost
  only to the next synchronization, a torn probe or the battery. `GetsClock`: the
  clock is right again after every fault, unless `init` failed, after which
  `rtc_task` ends for good.
* `rtc_torn_probe` shows what the exception is for (findings, below).

Three faults are enough for a torn `synchronize`, a torn `init` and one more; the
constants hold an offset that the byte cannot hold and a calendar of unknown origin.

### UsagePromise and UsageFeed

A snapshot is its age and whether its session is over. Time advances in units of
30 s, the period of the maintenance ticker, when nobody has anything left to do
(`Prompt`): events are handled, frames written and interfaces taken down in
milliseconds. Frames wait for longer only while there is no pump or no link. Ages
saturate at `MaxAge`, beyond the freshness limit.

`UsagePromise` is what is left of the delivery when its mechanism is forgotten: the
loop learns a snapshot, never one older than it knows, either as soon as it was polled
or left over from an earlier session; it hears of the connection; and each of these,
an RTC event and the maintenance ticker recompute the label. `UsageFeed` has the
mechanism: the queue of `HostPromise`, and receiver and signal as bounded as in the code,
each with its own way of losing a snapshot; the host, the device and its advertising
may restart. The host may hold a connection before its session is attached, write into
one that its interface no longer counts on or that has ended unnoticed, see a write fail
on a link that the device still has, and write a frame again; a frame that was accepted
arrives later, or is lost with its connection.

* `Implements`: every step of the feed is one of the promise or changes nothing that
  the promise knows.
* `LiveMeansRecent`: the label is recomputed only when something is handled, so
  LIVE may outlast the limit, but by less than one maintenance period. It is
  proved of the promise, and by `Implements` it holds of the feed.
* `LiveMeansCurrentOrLeftOver`, `NewestWins`, `GoesOffline`: what is LIVE was polled
  recently unless an earlier session had left it in the queue, no snapshot is
  replaced by an older one, and the last connection state gets through the signal
  that earlier states overwrite each other in.

Data is fresh for two units, the ticker's period is one and ages end at four, where the
code has five units of freshness: enough for a snapshot to arrive fresh, to outlast a
ticker and to become stale, and for a left-over one of any age, up to `MaxAge`, to be
taken for fresh. One frame is in flight at a time.
The proofs are for every number.

### UsageSources and Dial

`UsageSources` enumerates the answers of the Anthropic API and of the proxy: headers or
fields that are absent or do not parse, percentages above the limit, refusals. Each
becomes a snapshot or a failed poll. Percentages are steps, of which `Full` are 100 %.

In `Dial`, a snapshot that the promise delivers carries one of these readings. `usage`,
`toReset` and `clock` are `latest_usage`, its reset and `latest_rtc`; the pace is the
window's; `summary` and `countdown` are what `update_usage_state` last put on the
screen. Three ghosts say what the dial cannot see: whether the percentage was `told`,
what the pace counts that it should not (`taint`), and for how long the account has
been at its limit (`limitFor`). A source tells the truth about that limit as of its poll
(`Truthful`). That excludes a proxy whose own fetch fails and that answers with older
numbers: it only logs that, and nothing after it could know.

* `AlarmIsCurrent`: a red summary needs a connection, a recent reading and, for TOO
  FAST, a valid clock and a window that has not ended.
* `CountdownTrue`: the countdown never promises a reset before its time, nor one that is
  over by more than the reading of the clock and the ticker can be late, and it is
  blank only when there is nothing to count.
* `LimitNotHidden`: the API answers an account over its limit with an error, and
  `claude_code.rs` makes a failed poll of it. The dial then says STALE and not LIMIT
  REACHED, but it does not go on showing a pace.
* `NeverBridges`: no interval of the pace is shorter than the time between the polls
  of its readings. The exception is a left-over frame that a session's first poll
  follows at once: a spending of hours is then counted in seconds.
* `dial_unknown` shows that a percentage that was not told counts as 0 (findings).

The unit is half a minute, so that minutes are rounded; windows end in two units, an
interval spans at most one, two are kept and both are needed for a rate. This reaches
each summary, a stale and an expired clock, and a pace that is dropped and begun anew.

### DisplaySettings and SettingsStore

`DisplaySettings` has the controls (`BrightnessStep`, `DimBrightnessStep`,
`IdleTimeoutStep`, toggles) and `Encode`/`Decode` of the stored value. In
`SettingsStore`, `flash` is what a `load` would return, `lastSaved` the field that
`save` compares with, `pending` the debounce deadline and `status` what the page
says. A store that fails may have written its value; a power failure during one
leaves the old or the new value, during the boot's erase a flash without a map (`NoMap`),
which the next boot erases again.

* `SavedMeansStoredUnlessUnverified`: what the page calls saved is what a reboot
  brings back, unless a save failed after it had written (`unverified`).
  `EditsSettle`: no edit stays unsaved, whatever clears the deadline.

The run has percentages from 5 to 10, one timeout and every content of the flash,
another version's and invalid values included; two faults.

### DisplayPower

`awake`, `output` and `level` are the panel, `displayOn`, `dimmed`, `idle` the
firmware's view. Every handler of the loop that touches one of them is an action;
every command of a handler may be refused (`refused` records that a brightness was,
until one is accepted). Settings actions wait in the bounded channel and drop when
it is full: an open page keeps the panel bright, so a tap to close it that is dropped
leaves it bright until it is made again, and no property says more of that. A touch may
open or close the power menu, which long presses and the settings page open.

* `PowerTold`: `display_on` tells whether the panel is on. The exception is a sleep that
  was cut short (`cut`): its output is off, its sleep-in was refused, and the loop
  goes on drawing on a dark panel until the next sleep. `LevelTold`: the flags tell the
  level.
  `DimmedByPolicy`: no panel is left dimmed by a policy that no longer holds.
  `CountsDown`, `DimsAtLast`: no path forgets the countdown, and a panel that is
  left alone dims although telemetry comes in every ten seconds.

Percentages from 5 to 10 in steps of 5, with a default dim level that is no multiple
of the step (as the real one, 12), two timeouts and two refused commands.

### PaceWindow and PaceRing

`PaceWindow` is the promise: the newest intervals, at most `Capacity` of them, of one
continuous observation. A gap, or a second reading in the same second, begins another;
a drop of the usage does not, it is an interval that spends nothing. `PaceRing` has
the array with `head` and `len`, and the walks of `rate_per_hour` (`CoveredBy`,
`ScaledSpentBy`), `covered_seconds` (`CoveredSecondsBy`, with its own test for the
full window, `Stops`) and `unchanged_seconds`, each a recursive function of its own.
`Implements` is the refinement, checked and proved. `RateIsPace` compares the integer
arithmetic of the rate with the exact inequality. `ReadyMeansRate` compares the
countdown, which goes by the second walk, with the rate, which goes by the first, and
with the coverage of the window: it is over exactly when there is a rate, and until
then it is what is lacking. `StreakIsTrue` compares the streak with the window's.
Three segments and a window of five units make every interval be dropped, clipped and
wrapped around.

### Inputs

`touch_task` waits for an edge of the controller's interrupt, reads, sends into the
bounded channel; an edge during a read or a send is lost, and a task that believes a
finger down asks again after a silence. `pmic_task` polls a latched register, clears
what it read, and samples the USB supply when due. The loop takes keys before
touches before telemetry, and drops touches while the display is off.

* `OnlyReadIsCleared`: a press between the read and the acknowledgement stays
  latched. `PressAnswered`: every press is followed by an event of its own kind, except
  for those that the code drops (`lost`): a short press read together with a long one, an
  event that one of the other kind overwrites in the signal before the loop takes it, a
  press whose acknowledgement cleared it and failed. An event answers its own kind alone.
  Presses of one kind that are latched together, or overwrite each other's event, share
  the last event.
* `ButtonFollows`, `AsleepReleased`: Slint's button is not left down under no finger,
  nor behind a sleeping display. `UsbTold`: `usb_connected` becomes the supply.

A channel of one touch is the tightest one; the real one holds eight and blocks
less often. After a power-off nothing happens any more, so that the run does not
check for deadlock.

### Co5300

Slint hands the spans of the dirty region to `process_line` in order; the buffer
holds one band and is known by the line that each of its pixels is of, so that a
pixel read from another line's row shows. `Rectangles` is the merge of
`flush_band`, `Sendable` the conditions of `write_rectangle`. A flush ends at the
first rectangle that is refused.

* `ShownIsDrawn`: whatever Slint takes for drawn is shown, but for the regions of
  failed frames; `OnlyFaultsFail`: a frame fails for a refused transfer or too many
  spans, never for the shape of an aligned region.

A band of six lines is the smallest in which a column can pause and come back; the
panel has a full band, a partial band and three columns of blocks. `MaxSpans` is
small enough for a region of four blocks to exceed it, as the code's bound may be
one day (its comment wants that to be a recoverable error). Regions have up to four
blocks, of two certain ones (`LaterBlocks`) while the panel misses a failed frame.

## 3. Fairness

| Specification | Fair | Why |
|---|---|---|
| `HostLink` | session, each worker, `mark_down`, the hourly clock, the device's advertising, `Delivers`, `LinkTimesOut` | tokio polls every runnable task; timers fire; a connection delivers what it has accepted, and its supervision timeout fires at BlueZ's end too. Nothing is assumed of BlueZ noticing a link that it holds as `stale`, or of the notification stream ending. |
| | `QueueDrains` | on a working link a frame is written in milliseconds and published once a minute, so the queue is not full at every due clock |
| `RtcSync` | the task, the UI loop, the host's clock | embassy polls every woken task; the host repeats the clock every hour |
| `UsageFeed` | the device's tasks, the ticker, time | as above. Nothing is assumed of the host or the link. |
| `SettingsStore` | the loop and its deadline | as above. Nothing is assumed of the user. |
| `DisplayPower` | the loop, time | as above |
| `Dial` | nothing | its properties are safety properties |
| `Inputs` | both tasks, the loop; strongly, telemetry | the 250 ms and 10 s timers fire; a sample is due again and again |

All of it is weak fairness except for `ReadsVbus`, which is enabled only between
two polls of the key.

## 4. Proofs

TLAPS proves for every value of the constants, under the assumption that the module
names (`HostLinkAssumption`, and so on; they are listed below):

* **HostLink** (`SpecTypeOK`, `SpecOnePump`, `SpecActiveIsServed`,
  `SpecConnectFindsDown`, `SpecClockSentMeansSent`, `SpecImplements`,
  `SpecWriteAhead`). `OnePump` alone is not inductive: that the workers of one slot
  only are at an await follows from every such worker having its handle in the vector
  (`HandlesKept`) and the vector holding one generation (`HandlesCurrent`); an
  interface that is Active is so only inside the loop (`DownOutsideLoop`); a pump that
  writes holds a frame that the queue still has (`LoanFromQueue`). `ClockInv` adds
  that old frames precede new ones (`OldFirst`), in the queue and in flight, and that
  none is in flight over a connection that does not carry it, so that the fresh clock
  is the last one the device hears. The refinement needs, besides the invariant, that
  the abstract connection carries exactly while both ends hold it, whichever worker
  the abstract pump stands for, and that a new session's connection finds no pump of
  an old one (`NoHandlesNoPump`). `WriteAhead` is the safety half of
  `DeadLinkNoticed`: under an Active interface the loop goes on to publish, and the
  pump of the current session is alive and kept from the queue by nobody, unless a
  `mark_down` is coming.
* **RtcSync** (`SpecTypeOK`, `SpecFailsClosed`, `SpecKeepsSync`,
  `SpecReadBackAgrees`). The invariant says at each stage of `synchronize` and of the
  probe what byte and calendar may be together (`HonestChip`), and that events on
  their way are honest. `ReadBackAgrees` is the safety half of `GetsClock`: a request
  that was written without a failure passes the verification (`Progress` says what has
  been written at each stage).
* **UsagePromise** and **UsageFeed** (`UsageFeed_proofs`: `SpecTypeOK`,
  `SpecImplements`, `SpecLiveMeansRecent`, `SpecLiveMeansCurrentOrLeftOver`,
  `SpecNewestWins`, `SpecLinkTold`, `SpecKeepsDelivery`). Of the promise: LIVE leaves
  time for the ticker, that is, the age of the last arrival and the units until the
  ticker fires stay below the limit plus a period together, and a snapshot that was
  not left over is no older than its arrival. Of the feed: the invariant orders every
  snapshot on its way. Receiver and signal hold no older one than the loop knows, nor
  the queue than the receiver, and what is not left over, and has passed the link or
  waits in a queue that is pumped over one, is fresh (`Prompt` lets no time pass while
  it waits). A frame that is written and not released is the queue's head (`Lent`), so
  one that is written again is no older than what the loop knows. With it each step
  maps to one of the promise, and the promise's theorems carry over. `LinkTold` is the
  safety half of `GoesOffline`: the last state of the signal, taken or not, tells the
  link (`LinkInv`), so that once it is taken the label is OFFLINE exactly when there
  is no link. `KeepsDelivery` maps the feed's host half to `HostPromise`, step by
  step, with the ages left out of the queue.
* **Dial** (`SpecTypeOK`, `SpecIsFed`, `SpecAlarmIsCurrent`, `SpecCountdownTrue`,
  `SpecLimitNotHidden`, `SpecNeverBridges`). `SpecIsFed` makes the dial's steps steps
  of the promise, from which the age of what it shows comes. None of the four
  properties is inductive. `Recent` counts a verdict's age together with the ticker,
  as for LIVE; `Ahead`, `Counted` and `Over` speak of the alarm and the countdown by
  the time that the clock told when they were computed, which may be `lag` units
  behind the true one; `Truth` and `BelowLimit` relate how long the account has been
  at its limit to the age of the reading that did not know of it.
* **DisplaySettings** (in `SettingsStore_proofs`: `RoundTrip`, and the lemma
  `EditsKeepValid`). What a control makes of valid settings is valid, and decoding
  what was encoded gives it back.
* **SettingsStore** (`SpecTypeOK`, `SpecSavedMeansStored`, `SpecUnsavedIsDue`,
  `SpecOldOrNew`). `saved` means that `lastSaved` is the settings, and `lastSaved` is
  what a load returns unless `unverified`; the round trip of `Encode` and `Decode`
  carries the flash part. `SpecTypeOK` includes the assertion of `encode_settings`: no
  sequence of controls leads to a dim level above the brightness. `UnsavedIsDue` is
  the safety half of `EditsSettle`: what the page calls unsaved has a deadline or is
  being stored, because without a store the page says something else (`DueInv`).
  `OldOrNew` is crash consistency, an action property: what a load would return
  changes only to the settings that the loop has, whole, and is lost only while
  booting, to a failure.
* **DisplayPower** (`SpecTypeOK`, `SpecPowerTold`, `SpecCountsDown`, `SpecLevelTold`,
  `SpecDimmedByPolicy`). The four invariants need two more: a display that is taken
  for off has its output off (`OffIsDark`), also between the two commands of a sleep
  that failed; and no edit is on its way while the display is dimmed as told
  (`NoEditDue`), since an edit would set the level behind the flag.
  `RegisterTellsLevel` says that `brightness_register` tells any two percentages
  apart, in order and none as dark, so that the module's `level` can be a percentage.
* **Inputs** (in `DisplayPower_proofs`, the module of the loop that it feeds:
  `InputsTypeOK`, `InputsAsleepReleased`, `InputsOnlyReadIsCleared`,
  `InputsPressKept`, `InputsReleaseFollows`). `InputsAsleepReleased` and
  `InputsOnlyReadIsCleared` state the properties of that name of the run `inputs`,
  through the instance `In`; the last two are the safety halves of `PressAnswered` and
  `ButtonFollows`. Kind by kind, a press without an event yet is latched, or an event
  of its kind waits, or it is one of the `lost`, which are named above; this needs
  that what was read is latched still when it is acknowledged (`PressInv`). A button
  that is down has a task that asks again, a report to be sent or a release in the
  channel; this needs that the last touch in the channel says what the task believes
  (`TouchInv`).
* **PaceRing** (`SpecTypeOK`, `SpecImplements`, `SpecRateIsPace`,
  `SpecReadyMeansRate`, `SpecStreakIsTrue`, `SpecWalkFits`). The walk back from `head`
  after a record is the old walk shifted by one, with the new segment in front
  (`WalkShifts`), across the wrap-around. The readings are recursive functions over
  the ring. That such a function is the sum it is meant to be (`Sum`) is shown by
  induction over its finite domain; the sums then meet those of `PaceWindow`, the walk
  stops at the interval that the window cuts, and the error of its integer division
  stays below what rounding forgives. The walk of `covered_seconds` agrees with that of
  `rate_per_hour` at every segment (`WalksAgree`): in the module the one stops for good
  at the full window and the other goes on over segments that contribute nothing, which
  is what the `break` of its loop comes to. The invariant adds that no interval
  of the ring is empty (`Timed`), or the code would divide by zero. `WalkFits` is
  about the width of the walks' integers, none of which saturates: the window minus
  what either has covered never underflows, and for percentages up to `most` the spent
  sum, times an hour, stays within `Segments * most * Scale * Hour`, which is
  64 * 255 * 10^6 * 3600 < 2^64 in the code.
* **Co5300** (`SpecTypeOK`, `SpecShownIsDrawn`, `SpecOnlyFaultsFail`). Slint's walk
  over a region renders its spans in order (`NextSpanIs`), and `flush_band`'s merge, a
  recursive function over the spans of a band, covers exactly them, whatever it merges
  (`RectanglesCover`): what a frame has rendered is collected, on the panel, or known
  to be missed (`Accounted`), and what is collected is in the buffer under its own
  line (`Buffered`). That no frame fails for its shape needs more (`Whole`): a region
  that is aligned to blocks has each span twice, on the two lines of a pair, so a
  merged rectangle of odd height awaits the span that extends it (`Growing`), and a
  whole band has none left (`AllSendable`).

The library's induction theorems cannot be instantiated with the installed provers.
Where a proof needs induction it is over a finite domain and first-order: every set of
naturals that is not empty has a least element (`Least`, from the well-founded order
of finite sets), so a property that fails somewhere fails at a least place.

The assumptions are on constants. Besides positive capacities and periods, a valid
default of the settings and an encodable zero offset:

* `PaceRing`: `Hour <= MinCoverage * (Scale \div 2)`, the resolution of `SCALE` over
  any coverage that a rate is computed from (3600 <= 300 * 500000 in the code). With a
  coarser one the rate would be off by more than its rounding.
* `Dial` and `UsageFeed`: `MaxAge > FreshFor + MaintEvery`, or the bound on ages would
  hide a stale one.
* `Co5300`: an even panel and an even band, as the code's comments want them, and
  `LaterBlocks` among the blocks that there are. The spans per band, `MaxSpans`, may
  be any number.

Only model-checked: liveness (`DeadLinkNoticed`, `Settles`, `GetsClock`, `GoesOffline`,
`EditsSettle`, `DimsAtLast`, `ButtonFollows`, `UsbTold`, `PressAnswered`), which
needs `ENABLED` and fairness. Every safety property of a passing run is a theorem.

## 5. Findings

Each is a run that TLC ends with a counterexample.

* `rtc_torn_probe` (`FailsClosed`): `init` inverts the marker bit of the RAM byte and
  restores it two transactions later. The chip holds a foreign calendar (an older
  firmware's local time, say), its oscillator flag clear and its RAM byte 0, unmarked;
  the first boot is reset inside its probe and leaves `0x80`; the next boot saves and
  restores that faithfully, and its read decodes it as 0 units, UTC-12:00. The UI
  believes a calendar that no host has set. A failed restore instead of the reset
  does the same at the boot after it. `KeepsSync` has the opposite case: a valid
  marker is lost the same way. What `synchronize` itself promises, that an interrupted
  write fails closed, does hold (`FailsClosedUnlessTorn`).
* `usage_left_over` (`LiveMeansCurrent`): a snapshot has no time of its own, and the
  outbound queue survives a link loss; the first frame after a reconnection may be
  arbitrarily old and is shown as LIVE until the next poll.
* `dial_unknown` (`NoAlarmFromUnknown`): every snapshot's percentage is recorded in the
  pace and shown, also the 0 that stands for none. The next reading that has one counts
  as spending of all of it between two polls, and the dial warns TOO FAST.

Further disagreements have no run of their own. A save that fails after its value is in
flash leaves `last_saved` at the old value: going back to it is answered "saved"
without a write, and a reboot brings the other settings back (`unverified`, the
exception of `SavedMeansStoredUnlessUnverified`; `SavedMeansStored` is the property
without it). A refused sleep-in leaves a dark panel that is drawn on (`cut`).
`wake_display` clears `dimmed` although the panel may have refused the brightness,
so that touches no longer undim. A frame that could not be uploaded is "retried" by
a redraw that has nothing dirty. A short and a long press that are latched together,
or two presses before the loop takes one, are one event, although a comment of
`pmic_task` (`tasks.rs:153-156`) says that none is lost; `PressAnswered` counts the
press that has no event of its kind as lost, and says that nothing else is.

## 6. What is not modelled

* The usage sources' I/O: reading the credentials from KWallet or the environment and
  the HTTP exchange. They keep no state between polls, and all that can come of them
  is a failed poll. That a proxy's own fetch failed is only logged.
* The frame format of the link and the GATT server: library code (ergot, COBS,
  BlueZ, trouble) behind one worker each. A frame arrives whole or not at all.
* Texts, colours and layout of the UI, the minutes of a summary, the weekly window
  beyond its part in the status, battery and temperature readings.
* The panel's transfer in flight: it owns its buffer, a copy of what was rendered, and the
  driver waits for it before every command, so that a rectangle is as good as on the
  panel when it is accepted.
* Frame statistics, board pins, the Slint clock, build files.
* Time is abstracted to the units that the deadlines compare; the width of integers
  is not modelled where the code saturates or its inputs are bytes. Where it does
  neither, in the pace and in `brightness_register`, it is proved that nothing overflows.

## 7. Plan

Done: the modules above, in the order `HostLink`, `RtcSync`, `UsageFeed`, `PaceRing`,
`SettingsStore`, `DisplayPower`, `Inputs`, `Co5300`, `UsagePromise`, `UsageSources`,
`Dial`, `HostPromise`; the proofs in the order of section 4.

Left: the texts of `format_reset` and `format_usage_age` against the minutes they are
made of.
