# A TLA+ verification of uwb-apps

The repository holds firmware applications for Decawave ultra-wideband radios,
written for the Mynewt kernel: ten applications under `apps/` and two libraries
under `lib/`.  The radio driver, the TDMA scheduler, the clock synchronisation
(CCP), the ranging services and the kernel are other repositories; here they
are modelled only as far as the code under `src/` uses them.

## 1. Inventory

Every application has the same frame: `sysinit`, the registration of callbacks,
then `dpl_eventq_run(dpl_eventq_dflt_get())` for ever.  Code runs in three
kinds of context:

| context | code that runs in it |
|---|---|
| MAC callbacks | `rx_complete_cb`, `tx_complete_cb`, `rx_timeout_cb`, `complete_cb`: called by the radio driver when a frame has been received or sent; they run to completion before a task goes on |
| slot callbacks | the functions given to `tdma_assign_slot`, run by the TDMA task at the start of each slot; they may sleep on a semaphore until the radio is done |
| default event queue | the main task: message queues, callouts, configuration callbacks |

| component | state | operations | what is hard | what makes it correct |
|---|---|---|---|---|
| `lib/rtdoa_backhaul` | a pool of mbufs, the queue `rxpkt_q`, the semaphore `g_sem`, `g_to_dx_time`, the package heard last, two result packages | receive, local send and radio send, listen, drain | three contexts share pool and queue; a copy fails half way; event posted once for several packages; semaphore released from four places; timeout arithmetic | no block owned twice or lost; a queued package is complete and gets to the reader, once and in order; a listen ends at its deadline |
| `apps/rtdoa_tag` | sensor callout, IMU package, filtered battery voltage, deferred radio settings | sensor callout, slot callbacks, low battery mode, reboot | the throttle on the pool; the retry of a failing sensor; an event loop nested in an event | readings wait for room and are not forgotten; sensors go on; no event inside itself; the tag comes back once charged |
| `apps/rtdoa_node` | deferred radio settings | slot callbacks, ranging initiator | flag set in one task and cleared in another | each update is applied |
| `apps/twr_nranges_tdma` | same | slot callback, PAN callbacks | flag cleared before it is applied; receiver switched off after the look at CCP | each update is applied |
| `apps/twr_node_tdma` | deferred radio settings, kept timeout | slot callback, completion | the kept timeout survives one of the two ways to apply settings | the timeout belongs to the settings in the radio |
| `apps/twr_tag_tdma` | - | slot callback, completion, settings applied at once | little | the settings committed are those in the radio |
| `apps/tdoa_tag` | blink rate, callout, deferred settings | blink, commit of the rate | two places arm the callout | the tag blinks while its rate is positive |
| `apps/streaming` | index and counters, deferred radio settings | send timer, receive callback, slot callbacks | modular index, losses, short messages, restarts, no memory | each message counted once, losses counted; the stream goes on |
| `apps/listener` | pool, queue, packet layout in the chain, two receivers | receive callback, print, restart by callback, timeout, callout or settings | offsets, partial copies, receivers out of step | what is printed is what was received; no block lost; both receivers come back |
| `lib/bleprph` | connection flag, advertising | GAP events, reset and sync, stop | resets, late events, failed starts | discoverable when not connected; the flag tells the truth |
| `apps/twr_aloha` | a callout | callout, completion, timeout, settings | four places start the anchor's listen | the anchor always listens again |
| `apps/ota_uwb_master`, `apps/ota_uwb_slave` | a callout | send or listen | receiver left off | newtmgr requests are heard |
| python scripts, build files | - | - | - | not modelled |

`PROJECT.json` lists every component with its status and the hazards, each at
its line.

## 2. Plan

The order is that of importance.  The backhaul library is the part of the
repository with the most concurrency and the only one with state shared by
three contexts; the deferred change of the radio's settings is the protocol
that five applications repeat, each a little differently.

| step | modules | state |
|---|---|---|
| 1 | `RtdoaBackhaul` (the library), `BackhaulChannel` (what it promises), `BackhaulRefinement` (the first implements the second), `BackhaulRadio` (the listen against the device clock), `RtdoaBackhaulProofs` | done |
| 2 | `RadioConfig` (the protocol of deferred settings, for the six applications that follow it), `RadioConfigProofs` | done |
| 3 | `TdoaTag`, `TdoaTagProofs`; `Listener`, `ListenerProofs` | done |
| 4 | `RtdoaTag`: sensors, throttle, battery and the local side of the backhaul; `RtdoaTagProofs` | done |
| 5 | `Streaming`: the index in every message against losses, short messages, restarts and the counters; `StreamingProofs` | done |
| 6 | `ListenerReceivers`: the restart of two receivers; `ListenerReceiversProofs` | done |
| 7 | `Bleprph` (advertising and the connection flag), `BleprphProofs`; `BlinkingNode` (`TdoaTag` and `Bleprph` in one firmware) | done |
| - | `twr_aloha`, the OTA applications, ranging itself | not modelled: section 8 |

Abstract specifications: `BackhaulChannel`.  For the stream the receiver's
counters are compared with the numbers of the messages themselves, which the
program does not have (`CountsExactly`).

Every invariant, every action property and the safety part of the refinement
that a run checks is proved (section 7); what is left to TLC is liveness.

## 3. Modules and the code they model

### RtdoaBackhaul

`lib/rtdoa_backhaul/src/rtdoa_backhaul.c`.  The state is that of the file's
static variables plus, for each task, where it is (`pc`) and the package in its
local variable `om`.

| variable | code |
|---|---|
| `free` | `g_mbuf_pool` / `g_mbuf_mempool`, as the set of free blocks |
| `rxq`, `evq` | `rxpkt_q` and the default event queue's pending events |
| `last` | `last_address`, `last_seq_num` of `rx_complete_cb` |
| `sem`, `gTo`, `rxTo` | `g_sem`, `g_to_dx_time`, the timeout programmed last |
| `seq` | `head.seq_num` of `g_result_pkg` and `g_result_pkg_imu` |
| `role` | `g_role` |

Callbacks (`RxComplete`, `TxComplete`) are single steps, since the MAC runs
them to completion before a task goes on.  Each early return of
`rx_complete_cb` is a disjunct: another service's frame, a frame that is not
for this node, the package heard last, no block for the header, a copy that
fails half way, and success.  The two tasks interleave between kernel calls:
`rtdoa_local_send` is the steps `GetPkthdr`, `CopyExtend` (once per block),
`CopyDone` or `CopyFails`, `FreeChain`, `MqueueInsert`, `MqueueSignal`;
`rtdoa_backhaul_listen` is `ListenCall` to `ListenReturn`;
`process_rx_data_queue` is `DispatchRx`, `MqueueGet`, `ProcessPackage`,
`DrainEnd`.  A package is its source, its number and its length in blocks.

`BackhaulChannel` is the promise: a bounded first-in first-out channel that
may lose a package on entry, never afterwards, and filters out a package heard
twice in a row.  `BackhaulRefinement` maps `chan` to the package being printed
followed by `rxq`, and `heard` to `last`.

`BackhaulRadio` adds the device clock, the receiver and its timeout, and
restricts the library to a bridge that listens.

### RadioConfig

`config commit` writes `udev->config` in the main task and calls the
application's `uc_update`, which programs the radio at once if CCP holds its
semaphore and sets the flag `uwb_config_updated` otherwise; a slot callback
consumes the flag.  Six applications do this, and each has its own sequence of
calls, written down in the module as a record of two graphs: `main` for
`uc_update`, `slot` for the slot callback.  `TwrNranges` clears the flag before
it programs the radio (`main.c:151`), the others afterwards; `RtdoaTag` programs
before it looks at CCP; `RtdoaNode` and `RtdoaTag` also apply at once while CCP
is out of sync; `TwrTag` has no flag.  Each call (`uwb_mac_config`,
`uwb_txrf_config`, `uwb_set_autoack`, `uwb_phy_forcetrxoff`, `uwb_start_rx`) is
a step, and the other task, CCP and further commits come in between.

`rx` is the receiver as far as CCP's wait needs it.  `deaf` chooses between a
CCP that hears nothing unless the radio has the network's settings, and one
whose waits end by timeout.  `uwb_mac_config` is taken not to stop a reception
that is under way.  A board's second receiver is programmed right after the
first, which stands for both; what a slot is used for otherwise is one exchange.

### TdoaTag

`text` is the string the settings interface writes, `rate` the number
`uwb_conf_commit` makes of it, `callout` the state of `tdoa_callout`.  A
callout is idle, ticking, or its event is queued.

### Listener

What `rx_complete_cb` writes into a chain and what `process_rx_data_queue`
reads back.  A chain's contents are cells tagged with their origin (frame,
diagnostics or accumulator data, of which frame and which receiver), so that
an offset that is wrong shows as a cell of the wrong origin.  The static
buffers `diag_buffer` and `tmp_cir` keep their contents from line to line, as
in the code.

### ListenerReceivers

When the listener's two receivers are off and on.  `irq` is what each has to
report; `next` is the loop variable of "Restart receivers" in each of the three
tasks that run that loop, so that two of them can be in it at once.  After an
error the MAC is taken to restart the receiver itself, since `error_cb` does
nothing.

### RtdoaTag

`sensor_timer_ev_cb` from the expiry of its callout to the re-arming in the
end, with `at` the place in it and `fields` the fields of `g_result_pkg_imu`
that are set; `low_battery_mode`, which takes events of the main task from
inside one (`LowEvent`) until the battery is charged and the tag reboots; the
queue and pool of the backhaul, one block to a package, with the slot task and
the radio as they use it.  `lost` are the blocks the radio side leaks
(finding `backhaul_leak`): they count in `rtdoa_backhaul_queue_size`.

### Streaming

`stream_timer`, `stream_slot_cb` and `uwb_transport_cb`.  `number` is
`test[1]` without its wrap, by which the properties know the truth; the program
has only `index`.  A message that found one block instead of two is cut short,
and passes the checksum because the receiver completes it with what it received
before; its length gives it away.

### Bleprph

One action per GAP event.  `link` and `events` are the controller, which goes
on while its events wait for the host task; `silenced` is history that the
program does not keep: a failed start or `ble_stop` since the last start or the
last reset of the host; `at` and `resume` say where the
host task is between `bleprph_advertise` and the rest of the handler.  Of NimBLE
it is assumed that a host reset reports a connection's end while the host is
already out of sync, before it calls `bleprph_on_reset`, and that it goes out of
sync and in sync again by itself.

### BlinkingNode

`apps/tdoa_tag` built with Bluetooth: `main` calls `ble_init`, then
`init_timer`, and runs the event queue.  `TdoaTag` and `Bleprph` share no state;
a step of the firmware is a step of one of them, in any order, so that nothing
depends on the task NimBLE's host runs in.

In every module a definition that stands right before another one, with a
longer version of its name, and is used nowhere, is a faulty variant of it,
with the mistake a programmer might have made.  With the variant in the place
of the original, the property named in `PROJECT.json` (`mutants`) fails.

## 4. Runs

| run | question | answer |
|---|---|---|
| `backhaul_channel` | Can any interleaving of the callback and the two tasks hand out a block twice, queue an incomplete package, leave a package without an event, pile up tokens on `g_sem`, or lose a block elsewhere than in the failed copy of `rx_complete_cb`?  Does the library implement the channel, and does a fair scheduler deliver everything queued? | no; yes; yes |
| `backhaul_window` | Does the timeout that `rx_complete_cb` reprograms stay inside the listen, across the wrap of the device clock, and is it left alone outside a listen? | yes, but for the value zero, see section 8 |
| `backhaul_leak` | "Not enough memory to handle incoming packet, drop it": do the blocks go back? | no: finding |
| `radio_config` | Does an application that clears the flag first, or has none, forget an update, and does one that stays become active in it?  Is CCP left with the receiver off?  In which way does the kept timeout go stale?  Is a flag served? | no; yes, where CCP's waits end (`NeverForgets`); no, but for `twr_nranges_tdma`'s slot callback; by the workaround only; yes, but for the application of `config_stuck` and a CCP that hears nothing |
| `update_forgotten` | "config commit: make this change active": does it, in an application that clears the flag last (`twr_node_tdma`)? | not if it comes between the last call that programs the radio and the clearing: finding |
| `config_stuck` | Does the workaround cover a CCP that waits with the wrong settings? | not if it starts to wait just after the flag was set: finding |
| `blinking_node` | The firmware of `tdoa_tag`: does the tag blink whenever its rate is positive, and go on blinking, with commits at any moment?  Does Bluetooth's connection flag settle to the truth, is the node silent only after a failed start or `ble_stop`, and does a reset end that silence, whenever it began? | yes, for rates that are not negative; yes; yes; yes, unless the start fails |
| `listener_packets` | Are blocks kept, lines about their own packets, and the queue emptied, with a pool that runs out anywhere and settings that change between reception and printing? | yes |
| `listener_diagnostics` | Are the diagnostics on a line those of its packet? | no: finding |
| `listener_receivers` | Is a receiver ever left off, whatever the other one misses, and whoever stops the callout? | no |
| `streaming` | Are the receiver's counts the truth about the stream, and does the sender go on when memory runs out? | up to whole turns of the index and but for short messages, see below; yes |
| `rtdoa_tag` | What becomes of readings when the queue is full, does the sensors' event run inside itself, does a tag that waits for events have its callout armed and TDMA running, do the sensors go on, does the tag come back? | they wait; no; yes; yes, if they work and at most two blocks are lost; yes |

The four findings are in `PROJECT.json` with the lines of the code and of the
comment or document it disagrees with.

What else the models show about the code, without a document that promises
otherwise:

* `twr_node_tdma` ranges with a timeout calculated for earlier settings after
  the workaround has applied new ones (`StaleOnlyByWorkaround` names this as the
  only way).
* `twr_nranges_tdma`'s slot callback can leave a CCP that begins to wait after it
  was looked at with the receiver off (`WaitingHears` excepts it).
* The receiver of a stream expects the index 1 first, and the sender's first
  message has the index 2: one message is counted missed that never was.  After
  a restart of either node the gap is taken from indexes that have nothing to do
  with one another.  A message that comes in short counts neither for received
  nor for missed, and the messages missed right before it are not counted either
  (`CountsExactly` is about whole messages, and two from one run of both nodes).
* A sensor of the tag that cannot be read is read again without limit: the main
  task does nothing else until it recovers.  Three blocks lost to the leak
  silence the sensors for good, since the throttle counts them (`ImuFlows`
  assumes at most two, and that all sensors recover).
* `low_battery_mode` asks only the battery, not for power on USB, which would
  have kept the tag from entering it.
* The line of a packet received without accumulator data, printed after they have
  been asked for, shows as such its diagnostics and, where the chain ends,
  what the static `tmp_cir` held before (`CirIsOwn` is about the packets received
  with them).
* 256 or more messages of a stream lost in a row are counted modulo 256, since
  the index is one byte.
* An advertisement that cannot be started is not tried again before the next
  GAP event; with nobody connected there is none.

## 5. Bounds, and why they are enough

* `backhaul_channel`, `backhaul_leak`: two blocks and packages of one and two,
  so that a copy can run out half way, with one block left or none, in each of
  the three contexts, and two senders compete for the last block.  One peer and
  two sequence numbers give both outcomes of the duplicate filter.  Time plays
  no part here: one listen with a timeout of zero.  For larger pools there are
  the proofs.
* `backhaul_window`: a device clock of 16 units, 2 units to the microsecond,
  timeouts modulo 4, explored to time 22, past the wrap: listens start before,
  at and after it.  What matters is `Wrap` being a multiple of
  `Tick * TimeoutMod`, as 2^40 is of 2^32, which is an assumption of the module.
  `Lag` is from the time stamped on a frame to its callback.
* `radio_config`, `config_stuck`, `update_forgotten`: two settings.  A part of the radio is that of
  the settings in force or is not, and the network's settings are the same or
  are not; commits may go back and forth between two as often as they like.
* `blinking_node`: the rate 0, three rates below the tick rate of 128, and 300,
  above it, whose interval is rounded to zero; at most ten GAP events wait for
  the host task (`Pending`).
* `listener_packets`: three blocks of three cells; frames of one and two cells
  take one or two blocks with their diagnostics and with accumulator data two,
  so that the pool runs out at the header, in the diagnostics and in the
  accumulator data, with packets waiting.  Two receivers and accumulator data
  that are longer than the diagnostics: they overwrite all of them.
* `listener_diagnostics`: one packet at a time is enough, of one receiver and of
  two.
* `listener_receivers`: builds with and without `CIR_ENABLED`; nothing else is
  bounded.
* `streaming`: an index modulo 3 and counters modulo 6, so that losses pass a
  whole turn of the index and both counters wrap; bursts of two messages and
  three blocks, so that a message finds two blocks, one or none.  What matters
  is `CountMod` being a multiple of `IndexMod`, as 2^32 is of 256.
* `rtdoa_tag`: two sensors, one of them in every round, and a pool of five
  blocks: three in use stop the sensors, and there are two more that others can
  fill.

Deadlock is checked except in the two runs of `MCListener`: an
assertion that fails stops the firmware there.

## 6. Fairness

* `RtdoaBackhaul!FairSpec`: the main task and the slot task go on when they
  can (weak fairness of each): the kernel is preemptive, both are ready, and
  nothing of higher priority runs for ever.  Nothing is assumed of the radio:
  callbacks may never come.
* `RadioConfig!FairSpec`: weak fairness of both tasks; strong fairness of
  `SlotUpdate`: CCP occupies one slot of the frame, so slot callbacks come again
  and again while CCP is not busy, but not always; strong fairness of `CcpEnd`:
  a wait of CCP that could end again and again ends, since an operator's commits,
  each of which may switch the receiver off for a moment, are rare against it.
  A CCP that hears nothing (`deaf`) does not end by fairness.
* `BlinkingNode!FairNodeSpec` is the fairness of its two parts.
  `TdoaTag!TagFairness`: a running callout expires and its event is handled.
  `Bleprph!Fairness`: the host task goes on; nothing says that an advertisement
  can be started, or that a central ever comes.
* `Listener!FairSpec`: the main task goes on until an assertion stops it.
* `ListenerReceivers!FairSpec`: callbacks are run, the callout expires.  Strong
  fairness of the two events of the main task: the event queue is first in,
  first out, so that neither is put off for ever by the other.
* `RtdoaTag!FairSpec`: timers expire and both tasks go on; strong fairness of
  the sensors' event and the queue's, for the same reason, and of
  `LowCharged`: the battery is asked once in every turn of `low_battery_mode`'s
  loop, not only when no event waits.
* `Streaming!FairSpec`: timers expire, both tasks go on, slots come round, and
  the clock master is heard.  Nothing says that a message gets through.

## 7. What is proved

`RtdoaBackhaulProofs`, for any pool, peers, sequence modulus, package lengths
and listens that satisfy the module's assumptions (the names of tasks are not
addresses, the pool is finite, moduli and lengths are positive):

1. `TypeCorrect`, by the invariant `Shape`: types, which task can be at which
   place, and that a task has a package in hand exactly at the places where it
   fills, queues, frees or prints one.  The type invariant alone is not
   inductive: `MqueueInsert` appends `om[t]`, which must be a package.
2. `TokensCorrect` (at most two tokens on `g_sem`, one whenever no listen is in
   progress, and nobody asleep before the receiver was started), by `Tokens`,
   which says for each place of the listen what the count can be.
3. `WakeupCorrect` (no package without a pending event, a draining task or a
   task about to post): inductive with `Shape`.
4. `SingleOwnerCorrect` (no block has two owners): inductive with `Shape`; two
   lemmas about appending a chain and about exchanging blocks between a task
   and the pool carry the actions.
5. `CompleteCorrect` (a queued package has all its blocks), strengthened by
   the same fact about a package at the place `put`.
6. `LeakCorrect`: the action property that a block is lost only in
   `rx_complete_cb`'s failed copy, which takes the whole rest of the pool.  It
   needs `SingleOwner` and that a task about to take its first block holds
   none.
7. `NoLeakCorrect`: if every received package fits one block, no block is ever
   lost.
8. `TimeoutCorrect`: outside a listen no step of the library programs the
   receive timeout.  `rx_complete_cb` does so whenever `g_to_dx_time` is set, so
   the invariant is that it is set only while a listen is armed (`Armed`).
9. `ChannelCorrect`: the library implements `BackhaulChannel`, the safety part of
   the refinement.  Most steps leave the channel alone; an accepted frame is
   `Hear`, `MqueueInsert` is `PostLocal`, `ProcessPackage` is `Deliver`.  The invariant
   (`ChannelInv`) is the conjunction of `Shape`, `SingleOwner`,
   `CompletePackages`, its strengthening at the place `put`, and that a package of
   a task is of this node.  That the channel never overflows is a pigeonhole
   argument (`ChainsFit`): the packages inside have chains that are not empty and
   have no block in common, so there are no more of them than blocks.
10. `WindowCorrect`: of `RadioSpec`, for any width of the device time and of the
   timeout register, `WindowKept`; and `RadioTimeoutCorrect`, which is
   `TimeoutCorrect` against the clock.  `RadioInv` relates `g_to_dx_time` to the
   deadline of the listen that set it, modulo the wrap of the device time.
   `FrameInWindow` is the arithmetic of `rx_complete_cb`: the difference of two
   wrapped times, divided by the ticks of a microsecond and cut to the register,
   ends the receive no later than the deadline plus `Lag`; the turns of the clock
   cancel because one is a multiple of `Tick * TimeoutMod` (`WrapCancels`).

`RadioConfigProofs`, for any settings and all six applications:
`ConfigTypeCorrect`, `EveryUpdateAppliedCorrect` and `WaitingHearsCorrect`, by
one invariant (`IInv`) of three parts: types; a part of the radio that differs
from the settings is ahead of a task, or the flag is set (`Pending`, which is
inductive because the flag is cleared before the radio is programmed); and a
CCP that waits has its receiver on or is about to get it back (`Restarts`).
What is used of the applications are two facts about their sequences of calls
(`Graphs`, `Paths`), each checked against all six.  With them go two action
properties.  `ForgottenCorrect` confines the finding of `update_forgotten`: a step
that takes a part's update off its way into the radio (`OnItsWay`, which suffices
for `CommitMakesActive`) is the clearing of the flag.  One lemma (`WayKept`)
says that a task's step keeps what is on its way; it carries `Pending` as well.
`StaleCorrect` needs that only `twr_node_tdma` keeps a timeout, and that its slot
callback goes from the first call that programs the radio to the reset of the
timeout without a look at CCP in between (`OnlyNode`).

`TdoaTagProofs`: `TagTypeCorrect`; `BlinksCorrect`, for any set of rates none of
which is negative and any tick rate.

`StreamingProofs`, for any index and any counters whose range is a multiple of
the index's, any burst and any memory: `CountsMatchIndexCorrect`,
`CountsExactlyCorrect` and `StreamTypeCorrect`.  The first is inductive with types; the second needs that
a message's index, in the sender, in the queue and in the receiver, is that of
its number (`Numbered`).  The arithmetic rests on one lemma (`Wraps`): a count
or an index differs by a multiple of `IndexMod` from what it would be had it
never wrapped.  The types include that the queue fits the memory, which is
inductive as a count (`Fits`): one block for every message and a second one for
each that is whole.

`ListenerProofs`, for any number of receivers, any lengths and any pool:
`PrintsTheFrameCorrect`, `CirIsOwnCorrect`, `NoBlockLostCorrect` and
`SnifferTypeCorrect`.  The invariant says of the packets on the queue, and of
the one in hand, that their chains begin with their frame and, if samples were
asked for, go on with the accumulator data of every receiver (`Sniffed`); what
carries it is that `os_mbuf_copyinto` leaves alone what lies before its offset,
and that both copies are made at the end of the frame or later.  What is read
for one receiver after the other is defined by recursion over the receivers; the
proof gives the function it defines in closed form (`ReadEachIs`), and then
needs only that it satisfies its equation.  The blocks on `rxpkt_q` are counted
as the elements of one set, packet by packet (`Held`): a column of blocks is
added behind the last when a packet is put, and the first one taken away when it
is got, so that `NoBlockLost` needs no induction.  With it, that the main task
holds a packet exactly while it prints, and the ranges of the receivers that own
cells (`PlaceIn`), the types follow.  `PacketHasEventCorrect` is the
safety part of `GetsToPackets`, which no run checks on its own: a packet on
`rxpkt_q` has an event, or a `process_rx_data_queue` that will look again.

`ListenerReceiversProofs`, for builds with and without `CIR_ENABLED`:
`RestartComesCorrect`.  `RestartComes` needs little help: types, and that without
accumulator data no receiver is ever given a timeout, so that none goes off
(`AlwaysOn`).  One lemma says that a task which begins the loop "Restart
receivers" passes by every receiver, which carries the four ways to begin it.

`BleprphProofs`, for any number of events that wait for the host task
(`Pending`): `BleTypeCorrect`, `FlagTrueCorrect` and
`SilentOnlyByFailureCorrect`.  Both properties speak only of a host that has
nothing left to do; the invariant says what holds before.  The events that wait
follow from one another, the first from what the host knows and the
controller's state from the last (`Consistent`); a reset comes before all
others (`ResetFirst`) and leaves nothing behind, not even an excuse for silence
(`OutOfSync`); the flag differs
from the host's connection only inside a disconnect's handler (`FlagFollows`);
a controller that stopped advertising has said so (`StartDue`).

`RtdoaTagProofs`, for any number of sensors and any pool of more than two
blocks: `SensorTypeCorrect`, by which the queue and the lost blocks never exceed
the pool; `NeverNestedCorrect`, inductive by itself; `AwakeWhenIdleCorrect`, which
rests on it and lies behind `ImuFlows` and `RebootsWhenCharged`: a tag that waits for events has its sensors' callout armed and TDMA
running, since `low_battery_mode`, which stops TDMA (`StoppedInLow`), would go
back to the sensors only for an event it never finds; and the action property
`NoReadingForgottenCorrect`, by `Throttled`: where the IMU's package is sent at
most two of them wait, since only the main task adds any, so that a send that
finds no block proves that the others hold all the rest.

Only model-checked: liveness (`DeliversEverything`, `EventuallyActive`,
`FlagServed`, `NeverStuck`, `KeepsBlinking`, `GetsToPackets`,
`ReceiversComeBack`, `StreamGoesOn`, `ImuFlows`, `RebootsWhenCharged`,
`ResetRevives`), which is out of the prover's reach, and the counterexamples of
the findings, which are runs by nature.

## 8. What is not modelled, and why

* The radio driver, TDMA, CCP, PAN and ranging services, newtmgr, NimBLE and the
  kernel: other repositories.  What the code relies on is modelled and marked
  external in `PROJECT.json`.
* `twr_aloha`: the state that decides whether one of its four ways to listen
  again works, a semaphore, is inside uwb-core's ranging service.  A model of it
  would be a model of a guess.
* `ota_uwb_master`, `ota_uwb_slave`: a callout around newtmgr's transport, whose
  queue and receiver are not in the repository.
* Ranging itself: the slot callbacks hand it to uwb-core.  Of `rtdoa_node` this
  leaves a choice of initiator, `seq_num % 8`, by which an anchor with a
  `slot_id` of eight or more never initiates.
* A listen of the backhaul that hears nothing.  `g_cbs` has no `rx_timeout_cb`
  and no `rx_error_cb`, so nothing wakes the caller of `rtdoa_backhaul_listen`.
  Nothing under `src/` calls it.
* Text: JSON, console output, the parsing of numbers other than whether it
  succeeds.  The statistics and ranging results inside packages.
* A timeout of zero.  A frame stamped in the last microsecond of a listen makes
  `rx_complete_cb` program `(g_to_dx_time - rxtimestamp) >> 16`, which is 0 and
  means no timeout.  `WindowKept` excepts this value: whether the receive then
  goes on for ever depends on the driver, which is not in the repository.
* Negative blink rates.  `CONF_INT16` accepts one (`tdoa_tag` `main.c:100`); its
  interval is negative, which the kernel's callout refuses, so the tag stops, and
  a positive rate committed afterwards does not start it again, since line 104
  starts the blinking only if the rate was 0.  A rate of 0 in between, or a
  restart, does.  The run and the proofs are for rates that are not negative.
* The sleep between blinks of `tdoa_tag`, and its frame.
* Python scripts, build files, syscfg files: no behaviour of their own.
