# Specifications of the driver practice repository

The repository is a collection of Linux kernel modules: a PHY layer with an LED
that blinks when the link fails, two drivers for the DHT11 humidity sensor, a
hardware watchdog, and exercises with kernel threads, character devices, proc
files and clocks.  The TLA+ modules here describe the parts whose behaviour
depends on order: interrupts against workers against system calls, timeouts,
failing registers, loading and unloading.  Line numbers are those of the file
named; `PROJECT.json` maps every definition to the lines it stands for.

Run one check with `tlc -config X.cfg M`, one module of proofs with
`tlapm MProofs.tla`.

## Inventory

### PHY layer (`Ethernet_Failed_Led/phy.c`)

*State.*  `struct phy_device`: `state` (12 values), `irq` (a valid line,
`PHY_POLL` or `PHY_IGNORE_INTERRUPT`), `autoneg`, `link`, `link_timeout`,
`irq_disable`, the link settings (`speed`, `duplex`, `advertising`,
`supported`), two work items (`phy_queue`, `state_queue`), the carrier of the
attached net device, and the PHY's registers.

*Operations.*  The MAC driver connects, starts (983), stops (946) and
disconnects (740, 867) the PHY; ethtool changes its settings (425, 472) and
user space writes its registers (586).  The hard interrupt (776) disables the
line and queues `phy_change` (897), which acknowledges the PHY, marks a change
of link and triggers the state machine (1025).  A register failure ends in
`phy_error` (759).

*Interaction.*  `phydev->lock` guards `state`, but is dropped before
`phy_start_aneg`, `phy_suspend`, `phy_resume` and `phy_trigger_machine`;
`phy_change` reads `state` without it; `phy_mac_interrupt` writes `link` and
ethtool the link settings without it.  `cancel_delayed_work_sync` makes any
thread wait for the machine.

*What makes it correct.*  The shared interrupt line is disabled and enabled in
balance; a halted PHY stays halted; nothing runs after the disconnect; polling
never stops; link and carrier converge on what the cable says; a forced PHY has
a mode it supports, and phydev says what the PHY was told.

*The link report.*  `phy_print_status`, given a lost link, starts a kernel thread
that blinks an LED for five seconds (116-208).  The threads of several reports
share the LED, its GPIO and the static variable `end`, without a lock.  Correct:
no blink is cut short by another one, every thread ends, and the last one leaves
the LED dark.

*The rest of the file.*  MMD access and EEE (1235-1461) are register protocols;
the queries (526-572, 1480-1502) copy fields out.

### DHT11 as an IIO device (`Humid_Dht11/dht11.c`)

A read takes a mutex and, if the last values are older than two seconds, pulls
the line low, installs an edge interrupt, waits for a completion with a timeout
and decodes the edges that were recorded, trying up to three offsets.  State:
`num_edges` (-1 when idle), `edges`, `timestamp`, `temperature`, `humidity`, the
completion.  Hard: the interrupt races the timeout, edges are lost while the
interrupt is being requested, a completion may come late.  Correct: a
successful read returns what the sensor sent, the decoder reads only recorded
edges of its own transmission, every read ends and releases the mutex.

### DHT11 as a character device (`DHT11_RPI/dht11km/dht11km.c`, `AWS_DHT11.c`)

`open` runs the whole protocol, by timing pulses in the interrupt handler; a
counter `Device_Open` guards against a second opener without a lock; a failed
transmission is retried, five transmissions in all.  State: `started`,
`bitcount`, `bytecount`, `dht`, `lasttv`, the edge detection bits of the GPIO
controller, the message.  Hard: openers and closers race for the counter and
for the interrupt; static variables outlive a try; bits lost before the
interrupt is requested go unnoticed.  Correct: "OK" comes with the bytes that
were sent; one opener at a time; nothing is left enabled after the last close.
`AWS_DHT11.c`, present twice, is the same program with other names.

### Watchdog (`Dummy_Basic_Node/riowd.c`) and platform stub (`dummy.c`)

A misc device that writes a timer register through `riowd_device`, a global
that `probe` sets and `remove` leaves in place; `riowd_timeout` is a global
written by an ioctl and read for a call before the lock is taken.  Correct: an
open device has its registers; the watchdog does not trigger before the margin
that was asked for, and the register agrees with what was asked last.
`dummy.c` refuses every device: it demands a field of memory it has just zeroed.

### Kernel threads (`Thread/*.c`)

`kthread_should_stop.c` holds `kthreadd`, which creates threads on request, and
`kthread_stop`.  `thread.c` (and `thraed_run.c`) start three threads in `init`
and stop them in `exit`; `senddata_thraed_blink.c`, `hello_thread.c` and
`hello_thread_led.c` start one that is never stopped.  State: the request list,
each task's state, `should_stop` and the completion of its exit.  Correct: no
wake-up is lost, every request is answered once, and a module's code is not
freed under its threads.

### Memory device (`Basic_Ch/globalmem.c`)

A character device over a buffer, with `init` and `exit` in several steps, each
of which may fail.  State: the device number, the memory, the device, and the
position of each open file, which the kernel does not lock.  Hard: a device can
be opened as soon as it is added; two processes that share a file race for its
position; offsets and positions are cut to the width of an integer.  Correct: an
open file has its memory, an unloaded module holds nothing, no copy leaves the
memory.

### Small modules

Character devices (`Basic_Ch/ref.c`, `IOCTL_Ch/*.c`): open, read, write and ioctl
that keep nothing from one call to the next.  Proc files (`Proc/*.c`): a line
that sets two parameters.  Clocks (`Time/*.c`) and hello world
(`Hello_World/*.c`): straight-line code.

## The modules

Each module keeps the names of the code where it can.  A thread's position
between two steps is a label in `pc` (or `user`, `machine`, `thread`,
`module`); what runs under a lock is one step, and what the code does between
two lock sections is a step of its own.  Some definitions come in two versions,
the second named for a plausible mistake (`SmDoneUnlessHalted`, `TestLate`,
`WriteRegWide`); these are not part of the specification: `PROJECT.json` lists
which property each of them would break.

| Module | Code | Checked by | Proved in |
|---|---|---|---|
| `Phy` | `phy.c` 221-250, 425-520 (restart), 670-1232 | `MCPhy` | `PhyProofs` |
| `IrqLine`, `LinkService` | what `Phy` promises: abstract | `MCPhy` | `PhyProofs` |
| `PhySettings` | `phy.c` 271-521, 586-706 | `MCPhySettings` | `PhySettingsProofs` |
| `PhyLed` | `phy.c` 116-208 | `PhyLed` | `PhyLedProofs` |
| `Dht11Frame` | the decoder of `dht11.c` | `MCDht11` | `Dht11Proofs` |
| `Dht11` (extends `Dht11Frame`) | the rest of `dht11.c` | `MCDht11` | `Dht11Proofs` |
| `SensorReads` | what `Dht11` promises: abstract | `MCDht11` | `Dht11Proofs` |
| `Dht11km` | `dht11km.c` | `MCDht11km` | `Dht11kmProofs` |
| `Kthread` | `Thread/*.c` | `MCKthread` | `KthreadProofs` |
| `Riowd` | `riowd.c` | `MCRiowd` | `RiowdProofs` |
| `Globalmem` | `globalmem.c` | `MCGlobalmem` | `GlobalmemProofs` |

### Phy

Three threads, "user" (the MAC driver and ethtool, serialised by `rtnl_lock`),
"change" (the worker of `phy_queue`) and "machine" (the worker of
`state_queue`), with the hard interrupt, the cable and the end of a negotiation
as actions of their own.  `Connect`, `PhyStart`, `PhyStop`, `SetAutoneg`,
`Disconnect` are the driver's calls and `UserStep` what they do after their
lock section; `ChStart` ... `ChIgnore` are `phy_change`; each `case` of
`phy_state_machine` is an action `Sm...`, with `SmReadFails` for a failing
register.  `Halt`, `Cancel`, `Flush`, `Queue` are `phy_error` and
`phy_trigger_machine`, run by any thread: `Flush` waits for the machine, and
while somebody waits nobody can queue it, as in the kernel.  `irq_disable` is
the driver's counter and `depth` the kernel's for the line, so that their
agreement is a property.  `phy_mac_interrupt` runs in the MAC's own thread and
so stands beside "user".

### PhySettings

`settings` is the table (271-327) and `phy_find_setting`, `phy_find_valid`,
`Sanitized` the search.  A caller's stores to phydev are steps (`Store`), in
the order of the code, which differs between `phy_ethtool_sset` and
`phy_mii_ioctl`; `IoctlWrite` is the register write (637) with a reset (640-643),
`UserAneg` a caller's `phy_start_aneg`.  The machine may read the status
(`MachineRead`) or run `phy_start_aneg` at any time; its schedule is the subject of
`Phy`.  Since callers store without the lock, the machine's run is split at each
access they can fall between: the test of `autoneg` (`MachineAneg`), the store of
403-404 (`MachineSanitize`), the loads of speed and duplex mode in either order
(`MachineLoad`, `MachineFind`), the two stores, and `config_aneg` (`MachineConfig`).
The PHY driver is genphy (external): what it writes to the PHY is `Program` or
`Negotiate`, or it fails (`GiveUp`, 682), as the ioctl's write may.  History is
`overtaken` (the machine ran during the last call), `refused` (that call's
`config_aneg` failed), `failed` (the last write to the registers did, anybody's),
`direct` (an ioctl has written since a caller last configured the PHY), `mixed` (the
machine has configured it in the midst of a caller's stores, and nobody since) and
the last `cmd`.

### PhyLed

One thread per report; `Report` is `phy_print_status`, `Begin` ... `Free` the
statements of `gpio_blink` that touch something shared.  `do_gettimeofday(&end)`
is two steps, `Read` and `Store`, since a thread may be held up between them and
then set `end` back.  `Tick` is a second; the clock stops at `Horizon`, and no
report comes that could not be blinked to the end by then.  `reported` is history.

### Dht11Frame and Dht11

`Dht11Frame` is pure: `Wave` is what a sensor sends for a frame (external),
`Decode` and `Search` are `dht11_decode` with the loop at 263.  `Dht11` puts
readers around it: `Acquire` ... `Return` are the sections of
`dht11_read_raw`, `Edge` is an edge of the sensor with `dht11_handle_irq`,
which stores it if the store is armed; `TimedOut` and `Killed` end the wait
without a completion, between any two edges.  A sensor that stops in the middle
is one whose `Edge` comes no more.  `whole` is history: had the sensor sent its
last bit when the handler was removed?

### Dht11km

`Check`, `Load`, `Store` are the test and the increment of `Device_Open` (284
and 289), three steps because nothing makes them one; `Reset` ... `Reply` are one
transmission; `Drop`, `Toggle`, `Free` are close (and `retoggle`, `refree` the
clearing before a retry).  `Edge` is an edge with `irq_handler`, whose
thresholds (15, 40, 60, 80) are the code's; the pulses are a sensor's usual ones,
but for its start pulse, which is taken for 85 us where 80 is nominal (see the
bounds).  `Races` says how processes may meet: "none" (one at a time), "close" (an
open may begin while another process has the device open or closes it), "open" (no
limit).  `met` is history: has a process passed the test (284) while another was
between its own test and the store of its increment (289)?

### Kthread, Riowd and Globalmem

`Kthread`: `Top` ... `CreateKthread` are the loop of `kthreadd`; `Born` ...
`Exit` a thread's life, with the frame around the thread function external;
`Request`, `Kick`, `Created` the making of a thread, and `Stop` ... `Result`
`kthread_stop`.  A task sleeps in `schedule()` only if nobody has set it
"RUNNING" since it said it would.

`Riowd`: `Probe`, `Register`, `Deregister`, `Unmap` are the driver core's
calls, the others those of processes; the read of `riowd_timeout` (`Read`) and
the locked register write (`WriteReg`) are two steps.  `Tick` is a minute of
the watchdog.  What the watchdog makes of a value written over a countdown that
runs is left open: 31-34 say that the register must be set to zero first, and the
driver never does that (113, 135, 154).  `heeded` says whether the last write
restarted the countdown, as one from or to zero surely does.  It is history, as are
`raced` (calls overlapped), `pulled` (removed under an open file) and `early`
(triggered before its time).

`Globalmem`: `Insmod` ... `Setup` and `Rmmod` ... `Unregister` are the steps of
loading and unloading.  Processes share one open file.  A read or write takes a
copy of the position, transfers, and stores the copy back in a third step, as
the kernel does; a relative seek tests the sum (`SeekTest`) and computes it
again (`SeekAdd`).  `raced` is history: the position changed between the two.

## What the parts promise

Three abstract specifications say what a component owes its surroundings, in
their terms and without its inner steps.  The detailed module has a refinement
mapping to each (`INSTANCE ... WITH`), and the abstract specification is a
property of its run.

- `IrqLine` (`LineSpec` in `Phy`): what the other devices on a shared interrupt
  line see.  The driver disables and enables in balance, and lets go of the line
  only when it is enabled.  Proved.
- `LinkService` (`LinkSpec` in `Phy`): what a MAC driver sees.  Only its calls
  start a PHY, a halted one is not started by a worker that had made up its mind
  before, the carrier comes on only in a started PHY, and nothing happens after
  the disconnect.  Stated, and proved, for a PHY that is polled or has its own
  interrupt: with `PHY_IGNORE_INTERRUPT` the work that `phy_mac_interrupt` queues
  survives the disconnect: only `phy_stop_interrupts` cancels `phy_queue` (881),
  which is called for a valid interrupt only.
- `SensorReads` (`SensorSpec` in `Dht11`): what a process reading the sensor
  sees.  An answer is what the sensor sent last, if that is sound and came to its
  last bit, and no new measurement comes between a reader's answer and its return.
  Of a frame that is damaged, of neither sensor or cut short it names the answers
  there may be (`Taken`): its sum need not betray a frame read one bit too early.
  Proved.

## The runs

| Run | What it shows |
|---|---|
| `phy_irq` | With a valid interrupt, failing registers, a refused or shared line and negotiations restarted: the line is disabled as often as `irq_disable` says (`IrqBalanced`), no carrier is lost in PHY_RUNNING, the countdown never passes zero unnoticed, nothing is left after a disconnect, a started PHY is not left suspended unless `phy_suspend` overtook its start, and both abstract specifications are implemented. |
| `phy_live` | Without failures, polled, with an interrupt or with a MAC that watches the link (chosen in `Init`): a PHY at rest can interrupt (`IrqLive`), a halted PHY loses its carrier, state, link and carrier end up as the cable says. |
| `phy_halted_reenabled` | Violation, finding 1. |
| `phy_error_deadlock` | Violation, finding 2. |
| `dht11` | The decoder sees only edges of its own transmission, reads answer as `SensorReads` says, the mutex leaves nothing behind, every read ends; and from the edges a reader comes to decode it would have read every sound frame, or else the last bit is missing and nothing before it. |
| `km` | One opener at a time, closes that race with opens: "OK" is trustworthy when opens and closes do not meet, the bits of opens that do not meet fit into their bytes (`TypeOK`), the counter counts, nothing stays enabled after the last close, a healthy sensor is always read, every open returns. |
| `km_late` | Violation, finding 3. |
| `settings` | With register accesses that fail: what a forced PHY is given is sane, unless an ioctl or the machine gave it something in the midst of a caller's stores; phydev and the PHY agree, if the last write did not fail; and ethtool's selection becomes, and stays, the next best mode when neither the machine nor a failing register came between. |
| `kthread` | A thread is created once per request, requests and stops return, no stopped thread outlives its module. |
| `riowd` | An open device is usable, the watchdog never triggers when it is stopped, nor before its margin has passed since a write that restarted the countdown, and the register agrees with the last call. |
| `phy_led` | Three blinking threads: none stops too soon, each one ends, the last leaves the LED dark and the GPIO free. |
| `globalmem` | An open file has its memory, a module that is gone holds nothing, no copy leaves the memory; the position does only after a race. |

### Findings

1. `phy_change` tests PHY_HALTED (921) without the lock and enables the PHY's
   interrupts after it (922), so `phy_stop` in between is undone, against the
   comment at 967.
2. `phy_state_machine` calls `phy_error` (1209), which waits for the state
   machine: it waits for itself for ever and the carrier stays on, against
   754-755.
3. `dht11km.c` checks the sum of the bytes and never how many bits came; when
   the first bit is missed, because the interrupt was requested too late, all
   bytes are doubled and so is the sum, and the file says OK (320, against 281
   and 319).

### Other behaviour met while modelling

These follow from the code and are in the models, or stated as the exception of
a property; no run is about them.

- `phy_stop` with a valid interrupt leaves the carrier on until something else
  runs the machine, though 943 says "Bring down the PHY link"; and in PHY_AN the
  machine is not queued again, so the countdown counts interrupts.
- Settings chosen with ethtool are lost if the machine stores its own between
  (`overtaken`); with nothing suitable the search ends at 10/HALF whether or not
  it is supported (393).
- `phy_ethtool_sset` ignores what `phy_start_aneg` returns (466-468), and
  `phy_mii_ioctl` the result of its register write (637).  When `config_aneg` fails
  (682) the call reports success, phydev has the new settings and the PHY the old
  ones (`failed`); if the new ones are forced, the machine's next
  `phy_read_status` copies the PHY's old mode back, so that the selection is lost
  (`refused`).  The state does not become PHY_AN or PHY_FORCING either (685).
- The machine may program a mixture of old and new settings in the midst of a
  caller's stores (`mixed`); the caller's own `phy_start_aneg` puts that right, if it
  does not fail.
- `dht11.c` sets the timestamp before it refuses a frame of neither sensor (161),
  so old values are then fresh for two seconds.  82 edges are enough for it (255),
  whichever they are: if none was lost and the wait ran out, or the sensor stopped,
  before the last bit, the search tries only offset 0 (and 1, out of step), where it
  reads the frame one bit too early.  The sum usually betrays that, but not
  always: for two-bit bytes, 2 0 2 0 0 would be read as 3 0 1 0 0.  The same offset is
  tried of a whole frame that is damaged.
- `dht11km.c`: two processes that pass the test (284) before either has stored its
  increment (289) are both in, against 96 ("Used to prevent multiple access to
  device"): they transmit at once over the same variables, an increment or decrement
  may be lost, and `Device_Open` may then stay at another number than 0 when both
  have closed, so that every later open fails with -EBUSY (`met`).
- `dht11km.c`: `result` (281) is one byte too short for "BAD".  In the module
  built in the repository (`dht11km.ko`) the extra byte falls into padding and
  changes nothing, so the model has no step for it.  `setup_interrupts` may
  fail unnoticed, and `clear_interrupts` then turns the detection on instead of
  off (`IrqTaken`).  A start pulse measured at 80 us or less would be taken for a
  bit (151), which the theorems exclude by `LongStart`.
- `kthread_stop` is called on an error pointer if a thread could not be created
  ("oops"); the LED threads outlive their modules and count with a number on the
  stack of an `init` that has returned (`UnloadLed`, `Blink`).
- `riowd.c`: a module parameter of 256 minutes goes through the eight-bit
  argument of `riowd_writereg` as 0 and stops the watchdog; `remove` leaves
  `riowd_device` set, so the next `probe` fails, and unmaps the registers under
  an open file (`pulled`).  A ping writes the timeout over a register that was not
  cleared; if the hardware is as the driver's own comment says (31-34), that does
  not restart the countdown, and an application that pings in time is reset all
  the same.  Only WDIOS_DISABLECARD before WDIOC_SETTIMEOUT clears it.
- `gpio_blink` never requests the LED's GPIO, yet frees it (149): the first
  thread to end takes it from the others.  A thread whose `end` another one set
  back blinks longer than five seconds.
- `globalmem_write` passes the value of a byte where an address belongs (194), so
  the write faults or stops the process (`Oops`) and the bytes stay 0; a seek to a
  multiple of 4 GiB goes to 0; a relative seek that is overtaken takes the position
  out of the memory (`raced`).  A read past the end fails with -ENXIO or returns 0,
  by the size asked for.

## Bounds, and why they are enough

- `AnTimeout = ForceTimeout = 1` (10 in the code): the machine sees a countdown
  that is running, at zero and past it; a longer one repeats the first case.
- `ByteBits = 2`: a frame has 10 bits and 23 edges.  The code treats bits and
  bytes alike; the checksum's carry and the sign bit exist with two bits.
  `SoundFramesDecode` asks of every state in which a reader decodes what it would
  make of each frame that means something; the reads of `dht11` are of a frame
  for each way in which it, or what is read of it one bit too early, may be taken
  (`MCDht11`); those of `km` of frames with right and wrong sums.
- `Preambles = {85}`: a start pulse measured longer than the 80 us of 151, which
  is all that the code asks of its length.
- Two readers, two processes, two users: the locks and counters involved know
  "mine" and "somebody else's".  `Tries = 5` is the code's.
- `settings`: PHYs of two kinds, one of gigabit with gaps and without 10/HALF, and
  one of fixed speed that cannot negotiate; 100 and 1000 Mbit/s asked for, so that
  a request can be supported, next to a gap, or above everything there is.
- `km`: `Races` has "none" and "close".  Two transmissions at once over the same
  variables have more states than can be explored (over 100 million with bytes of
  one bit), and what the properties say of "open" ends where these begin (`met`); the
  theorems include it.
- `kthread`: two threads that are stopped and one that is not; a module is loaded
  again only when its last threads have ended.
- `riowd`: margins just below, at and just above a minute and two, and
  parameters that fit the register or do not.  `Late = 3` minutes: the time since a
  call is counted up to there, after which waits are all alike;
  `RiowdAssumption` says that no margin is longer, and no parameter that fits.
- `phy_led`: three threads, so that one can set `end` back while two others test
  it; a duration of one second and three seconds of clock, so that a late report
  meets an `end` from an earlier blink and a time set back.
- `globalmem`: two bytes of memory, sizes up to one more, an unsigned int of two
  bits; offsets on both sides of 0, of the end and of the width.  A position beyond
  `Limit` counts as `Limit`.

Symmetry is used in `riowd` only, which checks no liveness.  `phy_led` is the one
run that may stop: its clock does.

## Fairness

- `Phy`: a call once begun goes on, the workers run what is queued, the handler
  takes the interrupt, a negotiation ends.  `Cancel` is strongly fair:
  a thread may find another one cancelling again and again, but in the kernel
  those that wait for the cancellation are woken and tried in turn.  Nobody has
  to call or touch a cable.  The liveness runs have no failing registers
  (finding 2) and no negotiation restarted for ever.
- `Dht11`: a reader in the mutex goes on (the wait has a timeout), and the mutex
  is strongly fair, since it hands itself to the longest waiter.  The sensor owes
  nobody an edge.
- `Dht11km`: an open or close goes on, and so does a sensor that has begun; the
  delays are busy waits.
- `Kthread`: every task that can run does, and a sleep with a timeout ends;
  nobody has to load or unload.
- `PhyLed`: the threads are scheduled, their sleeps return, and time goes on.
- `PhySettings`, `Riowd`, `Globalmem`: no fairness, safety only.

## What is proved

The proofs hold for every value of the constants that satisfies the named
assumptions in their modules, which TLC evaluates in the runs.

`PhyProofs`: `IInv` is inductive, and gives `TypeOK`, `IrqBalanced`,
`TimeoutArmed`, `DetachedIsIdle`; `RunningHasCarrier` holds by itself, and so does
`HaltedIsSticky`, an action property that no run repeats: no step of
`phy_change` or of the machine leaves PHY_HALTED.  `IrqBalanced` is not inductive
alone: that `drain` (`phy_stop_interrupts`, 890) ends balanced needs that no
`phy_change` is under way then (`ChangeInv`), that needs the handler to be gone
before `cancel_work_sync` (`HandlerInv`), and that needs to know where the driver
is in each phase of its session (`SessionInv`, `Labels`).  `StopInv` says that
while the machine is being cancelled nobody queues it, the reason for
`DetachedIsIdle`.  `TimeoutInv` extends `TimeoutArmed` to a machine that has only
to queue itself.  There is one lemma per part, with a step per action.
On top of `IInv` stand three results.  `LineImplemented`: every step is one of
`IrqLine` or leaves its variables alone.  `LinkImplemented`: the same for
`LinkService`, with `DriverInv`, under the assumption that `IrqModes` has no
"IGNORE".  `InterruptsStayLive`: `IrqLive`, if no register access fails; `LiveInv`
says at each label of the worker and the driver who will still enable what is
disabled.  `StartedPowered` is about `WatchedSpec`, which adds the history
`overtaken` of `MCPhy`: a started PHY is without power only between the store of
the state and the `phy_resume` of its start, or after a `phy_suspend` that came
too late.

`PhySettingsProofs`, in three layers.  `ForcedIsSane`: the search returns an
entry that is supported or the last (`FindValid`); `Searched`, `HalfStored` and
`Stored` say what the machine's `phy_start_aneg` may rely on from one of its steps
to the next while no caller is under way, which is what the unlocked stores put
in doubt.  It holds while callers and machine are under way, too, and whichever
accesses fail, with two exceptions: an ioctl's own write, and what the machine gave
the PHY in the midst of a caller's stores.  `AgreementHolds`: `CallInv` says which
stores of a call are done, and that a call the machine has met is marked
`overtaken`; a failed write leaves phydev and the PHY apart until one succeeds.  `NextBestHolds`: the
table is sorted by speed (`TableSorted`), so the search finds the best entry
(`ChosenIsBest`), and searching again from what it found finds the same one
(`ChosenAgain`); `BestInv` carries that through the machine's later reads and
restarts, those that fail included.

`Dht11Proofs`, in four layers.

1. The reader inside is the mutex's holder (`MutexInv`), hence one reader inside
   (`OneReaderInside`); and with `HandlerInv`, `QuietWhenFree`.
2. `DecodesOwnEdges`: `EdgesInv` says that the edges stored are a window of the
   wave of the transmission under way, that at most its first two are missing,
   that a completion belongs to that transmission, and that the window reaches the
   last bit exactly if the sensor had sent it (`whole`); so neither an old edge nor
   an old completion can end a read.
3. `FrameRead`: whatever the size of a byte, `dht11_decode_byte` (118) returns the
   frame whose bits it is given.  The recursive function in `DecodeByte` is shown
   to exist and to be the only one (`Recurrence`, `RecurrenceUnique`), by
   induction over a set of numbers (`SetInduction`, from the least element of a
   set, `LeastNat`); powers of two are counted as numbers of subsets (`Doubling`),
   since the prover knows no exponent.  `SoundFound`, `WholeTaken` and `CutTaken` then
   walk through the offsets that the search tries on such a window: it finds the
   frame at its place, the shifted frame at offset 0 if no edge was lost
   (`ShiftedRead`), and nothing between (`OutOfStep`).  `SoundFramesFound` is the result
   for every reader that comes to decode.
4. `TypesHold`, and `SensorImplemented`, the refinement of `SensorReads`:
   `FreshInv` says that the values which may be used again are those of the last
   frame, as far as `SensorReads` lets them be; `Answered` what a search may return for
   any frame, whole or cut; `SensorStep` maps each step.

`Dht11kmProofs` starts from the count and the interrupt.  `OpensCounted` is about
every behaviour, "open" included: the count is right, and there is one opener at
most, until a process passes the test (284) between another's test and the store of
its increment (289) (`met`).  The code does not prevent that; the theorem says that it
is the only way in which the unlocked counter fails: opens that overlap otherwise, at
the test or in a transmission, and closes do no harm.  `Exclusive` and `Copies` carry
it: one process at most has passed the test, a closer's stale copy of the counter is
always 1, an opener's 0.  `IrqQuiet`, for behaviours in which one process comes after the other, if the
interrupt is nobody else's (`~IrqTaken`): `IrqInv` says at each step of an open or
close which of detection and handler is on, so that the exclusive or always turns
off what is on.

On that stands what is received.  `LongStart` is the assumption that the sensor's
start pulse is measured longer than 80 us, the code's own ("Start/spurious?
signal", 151): a shorter one would be taken for a bit.

- `TypesHold`.  `ReceivedInv`: what is missing of the current byte still fits into
  it, for any races.  `CountInv`: of the edges sent, the first three end no bit and
  each bit needs two more, so there is no 41st bit when opens do not meet.
- `OkIsTrue`: `Trustworthy`, if the interrupts are set up in time (`~Late`; `km_late`
  shows why).  `Tracking` says that the bits received are a prefix of the frame,
  as long as the edges sent account for; `TrustInv` that a try is `Tracking` or has
  received nothing, which is never valid.
- `HealthyAnswered`: `HealthyAnswer` for any number of processes and twice as many
  tries, for all `Races` until two have met as above.  A process that still closes can spoil two tries
  of the one that opens, by flipping the detection and by freeing the interrupt,
  and the first try may meet the handler of the one that closed before; `HealthInv`
  is the account: tries made, the present one if it is spoiled, and the steps of
  closing processes that are left never exceed twice the other processes, plus one.

`KthreadProofs`: `OneThreadEach`, `NoThreadLeft`, `TypeCorrect`.  `Requests` is
`kthreadd`'s side (who is listed or served has no thread and no answer), `Asked`
the module's (it waits for the one it asked for), `Stopped` what exit has seen
die.  `Listing` and `Delisting` are the facts about the queue.

`RiowdProofs`: `OpenIsUsable`, `RegisterFollows`, `InGoodTime`, `TypeCorrect`.
`Carried` says that a call that is alone carries the value it will leave in the
register; `TimeInv` that the minutes left cover what remains of the margin
promised, if the last write restarted the countdown, so that a trigger is never
early; and that none are left of a watchdog that was stopped, whatever was written
over what before.

`PhyLedProofs`: `BlinksLongEnough`, `LeftDark`.  Whatever is in `end` was read
from the clock in the past (`Times`), so nobody's overwriting can end a blink
early; who holds the LED or the GPIO is still blinking (`Lit`, `Held`).

`GlobalmemProofs`: `MemoryStays`, `PositionStays`.  `Held` says what the module
has at each stage, `Referred` that whoever is in the file keeps it loaded;
`PlaceInv` keeps positions in the memory, and copies in it without that.

## Only model-checked

Every liveness property: `HaltDropsCarrier`, `PolledLinkTracked`, `LinkTracked`,
`MacLinkTracked`, `EveryReadEnds`, `OpenReturns`, `CreateReturns`, `StopReturns`,
`EveryBlinkEnds`.  They rest on fairness, and ENABLED is beyond the prover.  The
three violations are TLC's too.  Every other property of the runs is proved.

## Not modelled

`PROJECT.json` lists each part with the reason.  In short:

- formatting and reports; what the proc files and the DHT11 character device
  print;
- MMD access, EEE and wake-on-LAN (1235-1478): sequences of register accesses by
  one caller, whose order matters to the PHY only; the ethtool queries;
- the example character devices (`ref.c`, `eg.c`, `dynamic_eg.c`) and proc files:
  no state relates one call to the next, and what follows from an `init` that
  ignores its errors is decided in tables of the kernel that this code never
  reads;
- `dummy.c`, whose probe cannot succeed; the clocks and hello world, which run
  from top to bottom alone;
- loading and unloading of the DHT11 character device, and the GPIO of the LED
  threads in `Thread/`.
- `AWS_DHT11.c`, twice in the repository, has the control of `dht11km.c` under
  other names: `Dht11km` describes it too.

## What could be added

How wrong an answer can be with a late sensor, or with two openers that have met at
the test, against what the comment at 96 of `dht11km.c` intends.  The loading and
reading of the DHT11 character device.
