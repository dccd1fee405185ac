# A TLA+ model of so101d

The repository drives a pair of SO-101 arms from a Raspberry Pi: a *leader* moved by
hand and a *follower* that copies it. The daemon `so101d` runs the control loop and a
safety supervisor; everything else is a client of its shared memory. This directory
holds TLA+ modules for the parts of the system whose correctness depends on order and
timing, the TLC configurations that check them on small instances, and TLAPS proofs of
the properties that matter most.

## The system

| Part | State | Operations | Hard because |
|---|---|---|---|
| control thread (`daemon/src/control.c`), 100 Hz | applied mode, torque flag, goal, hold pose, ramp mask, error streaks, retry times, both ports | read both arms, reopen dead ports, apply `mode_req`, move the goal, publish | runs against the supervisor with no lock; frames are lost; cables are pulled; must never jump |
| supervisor thread (`daemon/src/supervisor.c`), 50 Hz | last cycle and its time, alarm counts, lock timer | serve a command, check a snapshot, latch faults, force modes down, heartbeat, free a stuck mailbox | two-store updates of `faults` and `mode_req`; reads stale samples; turns of varying length |
| main thread (`daemon/src/so101d.c`) | last cycle and heartbeat seen | start-up, signals, systemd ping, shutdown | must notice that either thread stops |
| data path (`daemon/include/so101_shm.h`) | `seq`, sample | publish, read | lock-free, word by word, wraps |
| command path (same header, `so101ctl.c`, `so101.py`) | two semaphores, `cmd`, `ack` | lock, write, post, poll, release; take, serve, acknowledge | clients die, stop and time out at any step |
| driver (`driver/src/feetech.c`) | port, receive buffer | ping, read, write, SYNC_READ, SYNC_WRITE | late, lost and corrupt packets |
| start-up and restart (`so101d.c`, systemd unit) | ports, segment and its name, flock, semaphores and their names | create, lock, clear, validate, unlink | a process dies or fails at any step; the next one, or root's, comes while clients are attached |
| calibration (`daemon/src/calib.c`) | ranges and directions of the joints | normalise, unnormalise, load | two float conversions in a row, truncation, inverted joints |
| logger (`so101_log.c`), Python class (`so101.py`), ROS 2 bridge (`bridge_node.py`) | last cycle seen, mapping, semaphores once opened | poll, attach, forward commands | they outlive the daemon they are attached to |

The threads talk through four words: the supervisor writes `mode_req` and `faults`
(the control thread also sets and clears `TORQUE_REFUSED`), the control thread
publishes `sample` under the seqlock, the supervisor counts `sup_beat`, main clears
`run`. Clients reach the supervisor through the mailbox only.

What makes each part correct: a fault and a mode it forbids never stand together; the
emergency stop stays until RESET; torque goes off within two cycles of the request and
on the servos too; the goal of a powered arm moves in bounded steps and starts slowly;
a read of the segment is whole and current; a command is served once, as sent, and its
sender gets its answer; whatever stops is noticed; one daemon drives the arms, the names
in `/dev/shm` lead to it, and what a dead one has left neither stops the next nor misleads
a client; the follower goes where the leader is, within its own range.

## Modules

| Module | Models | Steps |
|---|---|---|
| `SharedMem` | the words the threads share | |
| `Control` | `control_thread` and the two arms | `Start`, `Sense`, `Transition` (`Refuse`, `Enable`, `Switch`, `Disable`, `Keep`), `Move`, `Seal`, `Leave`; `Unplug`, `Plug`, `Hang` |
| `Supervisor` | `supervisor_thread`, `serve_command`, `raise_fault` | `Tick`, `Serve`, `StoreMode`, `Check`, `GiveUp`, `Raise`, `ForceMode`, `Beat`, `Return` |
| `Daemon` | both threads, signals, clients, cables | interleaving of the above, `Signal` |
| `Watchdog` | `Daemon` and the loop of main | `Watch`, `WatchGivesUp` |
| `Arm` | `Control` under any sequence of requests | positions and motion |
| `Alarm` | `Supervisor` under any sequence of samples | alarm persistence |
| `Seqlock`, `AtomicSnapshot` | `so101_shm_publish`, `so101_shm_read`; what they promise | one step per access to shared memory |
| `Feetech` | the bus driver, byte by byte | `Call` (`Refuse`, `Send`, `SendFails`), `FillEcho`, `SwallowEcho`, `EchoFails`, `Receive` (`Accept`, `Foreign`, `Resync`, `FillAnswer`, `Expire`, `ReadFails`); `Vanish`, `Reopen` |
| `Mailbox` | `send_cmd`, `command()`, the supervisor's side | `Acquire` ... `Release`, `NoAnswer`, `Die`; `Take`, `Serve`, `Acknowledge`, `Tick`, `Return` |
| `Calib` | `calib_normalize`, `calib_unnormalize`, what `calib_load` accepts | pure operators on rounded floats |
| `Teleop` | `Arm` with the calibrations of both arms | `SenseBoth` and the steps of `Control` |
| `Logger` | `so101_log` as the reader of `Seqlock` | `Poll`, `Reading` (`Row`), `LeaveLoop`; `Publishes`, `DaemonStops` |
| `Lifecycle` | main of `so101d` from start to end, twice; `so101ctl`; the bridge and its Python class | `OpenBuses`, `OpenSegment`, `Lock`, `Clear`, `Header`, `CreateSems`, `Threads`, `Serve`, `Stop`, `DestroySems`, `Detach`, `Exit`, `Fail`, `Kill`; `Map`, `Verify`, `OnCmd`, `OpenSems`, `Send`, `Busy`, `ReadAck`, `NoAnswer`, `ReadStuck`, `Respawn` |
| `MC*` | instances for TLC | |
| `DaemonProofs`, `TorqueProofs`, `ArmProofs`, `AlarmProofs`, `SeqlockProofs`, `LoggerProofs`, `MailboxProofs`, `LifecycleProofs` | theorems | |

**Where the steps are cut.** A thread's step ends where it touches a word another
thread can change. A control cycle is four steps: everything up to the load of
`mode_req` (`Sense`), the transition, the goal and the first store of `seq` (`Move`),
the second store (`Seal`). A supervisor turn is cut between the store of `faults` and
the store of `mode_req`, for commands as well as for each fault. `PowerNeedsCleanSnapshot`
and the others are about what is visible between these stores.

**The arms.** A port is `open` or `dead`; pulling the cable kills the descriptor until
`reopen_bus` opens it again. `Arrives` says whether a frame comes through: always on a
healthy port, unless the arm is in `Noisy`, the set of arms whose wire loses frames, never on a
dead one. `servo_torque` and `servo_goal` are the
follower's own registers, which outlive the cable and the daemon. The leader is never
given torque, so its registers are not kept. What the leader's position becomes after
both calibrations is an arbitrary follower position (`leader_map`), except in `Teleop`, where
it is what the two conversions compute.

**Files.** In `Lifecycle` a segment and a pair of semaphores are called after the process that
created them and go on existing without a name, as long as somebody has them open. `Unlinked`
is the sticky bit of `/dev/shm`: the service's user cannot remove root's files. A client's
command is one step (`Send`), as `Mailbox` treats it in detail; opening, checking, sending and
waiting are steps of their own.

**Floats.** `Calib` counts a float in units of 2^-`FRAC_BITS` and rounds it to `MANT_BITS`
significant bits after each operation, to nearest and to even, as the hardware does with 24.

**Time.** The supervisor's clock is in ticks of 20 ms: a turn that ends by timeout takes
one, a turn a command cuts short takes none or one. `MaxLag` bounds how many control
cycles start between two snapshots of the supervisor (2 in the code: 20 ms at 100 Hz).
Counters that are only compared with "last seen" (`cycle`, `sup_beat`) are kept as the
outcome of the comparison.

**History variables** (`lag`, `cut`, `shown`, `caught`, `elapsed`, `cuts`, `served`, `late`, `lapse`,
`published`, `overtaken`, the field `to` of a client in `Lifecycle`) record what the properties
refer to; no guard of the code's steps uses them, with the exceptions named as bounds:
`lag < MaxLag`, `late < DELAY_TICKS` and `NoLap` (no reader sleeps through 2^32 stores of `seq`,
248 days at 100 Hz).

## Runs

| Run | Checks | Shows |
|---|---|---|
| `DaemonSafety` | `TypeOK`, `FaultsForceSafeMode`, `EstopLatched`, `PowerNeedsCleanSnapshot`, `PoweredMeansTorque`, `CutWithinTwoCycles`, `LimpUnlessLost` | the safety of both threads under all commands, with the follower unplugged at any time |
| `DaemonLive` | `StopsOnSignal`, `LossEndsPower`, `Reconnects` | a signal ends both threads; with the follower lost, the request for power and the torque flag of the daemon go down for good in spite of resets (the servos keep their registers: no frame reaches them); a cable put back is found, which with `LimpUnlessLost` makes the servos limp |
| `WatchdogHang` | `StallStops`, `HangEndsPings` | a stuck loop leads to ESTOP and to no more pings |
| `ArmMotion` | `NoJump`, `EnabledAtPose`, `SoftStart`, `HoldHolds` | the goal of a powered arm |
| `TeleopLive` | `HoldReached`, `SoftStartEnds`, `GoalInRange`, `FollowsLeader` | HOLD gets there; no joint is trapped in the ramp; the goal stays in the follower's range and settles where a resting leader is, proportionally |
| `AlarmTicks` | `AlarmPersists`, `AlarmNoticed` | alarms must last `PERSIST_TICKS` - 1 ticks, less one for every command in the meantime, and are noticed if they stay, with overruns in between |
| `LoggerReads` | `LogAccounts`, `NeverTorn`, `ImplementsSnapshot`, `ReadReturns` | whole and current reads across two wraps of `seq`, bounded retries, and a log whose rows and count of missed cycles add up |
| `FeetechCalls` | `OwnReadings`, `SoundCallSucceeds`, `DriverReturns` | no joint gets the value of another; a sound call succeeds after any failed one; every call returns |
| `MailboxCalls` | `OneWriter`, `ServedAsSent`, `OwnAnswerOnce`, `LockRecovered`, `CallReturns` | the mailbox protocol with clients that die, a supervisor that is late and a daemon that stops; the lock of a dead client comes back and no call gets stuck |
| `LifecycleRestart` | `OneInstance`, `Reachable`, `ComesUp`, `BridgeFollows`, `NoReplay`, `CallsAnswered` | two processes killed, stopped or failing at any step, one of them root's, in turn or side by side: one drives, clients find it, leftovers do not stop it, the bridge finds it, it serves a command once and answers it |

`MCTeleop` also evaluates, as an assumption, that the two conversions one after the other are
proportional within a tick and exact at both ends, for every pair of joints of the same kind
and every raw position with ticks 0 to 6.

**Bounds.** One joint with one position in the `Daemon` runs, as nothing there depends on
where the arm is; one joint and four or five positions in the `Arm` runs, so that a target
can be farther away than `max_step`, than `ramp_step` and than `ramp_done` (2, 1, 1). The
joints share no state but the mode and the torque, so one stands for all; the proofs cover
any number. `comm_streak` = 1, `MaxLag` = 1 and `REOPEN_AFTER` = 5 keep the one relation
that matters: `PoweredMeansTorque` needs `comm_streak + 2 * MaxLag + 1 < REOPEN_AFTER` (a
silent follower is noticed, IDLE is stored and obeyed before the port is reopened); in the
code it is 10 + 4 + 1 < 50. With `REOPEN_AFTER` = 4 TLC finds the thread in TELEOP with its torque flag
down. In the `Arm` runs, under any supervisor at all, that relation is not needed.
`PERSIST_TICKS` = 3 in the `Alarm` runs lets an alarm come, miss answers, go and come back before it is
a fault, with commands that shorten it by all, by some or by none of its ticks.
`SoftStartEnds` needs a leader that moves, in follower ticks, at most `ramp_done + ramp_step` in a
cycle (56 in the code); as truncation can make three follower ticks of two leader ticks,
`leader_speed` is 1 in `TeleopLive`. Its three calibrations differ in ends, span, direction and
kind. `MANT_BITS` = 10 and `FRAC_BITS` = 14 leave rounding errors far above those of 24 bits and
TLC's integers within 32 bits.
`Modulus` = 4 makes `seq` wrap after two publications; `MaxPub` = 5 gives two wraps. Readers
do not write to the segment, so one stands for all; the proofs cover any number.
`FeetechCalls` makes two calls (the second meets what the first left behind) to two servos, in
real bytes; their values have the bytes FF 0F, FF 80 and FF FF, which look like headers.
`FTS_MAX_PKT` = 14 and `FTS_RXBUF_SIZE` = 20 are small enough for a SYNC_WRITE to be refused
and for reads to be cut by the buffer's end. One answer may be lost, damaged, short or
preceded by a stray FF (`MaxFaults`), and any number late.
`WRITE_TICKS`, `POLL_TICKS`, `STUCK_TICKS` = 1, 2, 4 keep the order of 1 ms, 1 s, 2 s with
room for the sum of the first two. `DELAY_TICKS` = 2 lets the supervisor be late by as much as a
client polls: the exception of `ServedAsSent` and `OwnAnswerOnce` is reached.
`MaxStarts` = 2 with process 1 as root and process 2 as the service's user covers an old and a
new daemon, one beside the other, and a predecessor's files of either owner. Two daemons that drive
at once need a third process (the flock race below): with `MaxStarts` = 3 and no clients TLC
reaches that case, and `OneInstance`, `Reachable` and `ComesUp` hold for every choice of root's processes
(the first two are proved for any number). `MaxAsked` = 2 gives a stale command and a fresh one. `Prompt`
is the one assumption on time: a call does not stretch from before the death of a daemon to the
semaphores of the next (microseconds between the look at the magic number and `sem_open`, 1 s at
the lock, against `RestartSec` = 2 s).

**Fairness.** Weak fairness of each thread: the scheduler runs a thread that can run, and
the threads block only in calls with a timeout. Nothing is assumed of clients, cables or
signals. `WdSpec` adds that time passes (strong fairness of a turn that takes a tick): a
stream of commands does not stop the clock. In `Mailbox` and `Lifecycle` live clients go on, in
`Lifecycle` a process that runs does too, the bridge retries to attach every second
(`bridge_node.py:84`) and docker restarts it when it dies (`--restart unless-stopped`); nothing is
assumed about when a process starts, stops, fails or is killed. `Hang` is the
control thread that never runs again; it is excluded where `CanHang` is FALSE. Deadlock is not
checked in the runs with `Hang`, where everything may really stop.

## Where the code and its documents disagree

Two runs are expected to fail; each states what a comment or document says.

| Run | Says | Happens |
|---|---|---|
| `ArmLeaderLost` | "each joint moves at ramp_step ticks/cycle until IT reaches its target" (`control.c:10`) | on a healthy port, one leader answer missed in the cycle that enters TELEOP makes `target = goal`, the distance 0, and ends the ramp of every joint; in the next cycle the leader answers and the goal moves by `max_step` |
| `LifecycleDeaf` | when so101d "restarts (systemd watchdog, reboot), the node keeps running and re-attaches to the new shared-memory segment by itself" (`bridge_node.py:10`) | a killed daemon leaves its segment, the next one reuses it and its magic number is back before the bridge looks; the bridge reads the new samples but posts its commands to the unlinked semaphores of the dead one |

Also seen, without a run of their own:

- "temp/voltage must persist 100 ms" (`supervisor.c:27`), "durante 100 ms" (`daemon/README.md:62`): the
  first sample with an alarm already counts as one of the five, so the fault comes four ticks, 80 ms,
  after it; and a command ends a wait early while the turn counts all the same, so a burst of PINGs
  makes a fault of one bad sample. `AlarmPersists` states what holds instead. With
  `elapsed[a] > PERSIST_TICKS` (100 ms) in its place TLC finds the first without any command; with
  `elapsed[a] >= PERSIST_TICKS` it finds the second in `AlarmTicks`.
- "Holding the lock until the ack is read guarantees that neither `cmd` nor `ack` is overwritten"
  (`so101_shm.h:24`): a client whose poll times out releases the mailbox with its command
  unserved, and the next one overwrites it under a late supervisor. `ServedAsSent` and
  `OwnAnswerOnce` are stated for a supervisor that is late by less than a client polls (`OnTime`).
- "no other daemon exists" (`so101d.c:162`): a process that has opened the segment when the old daemon
  unlinks it, and takes the lock when that one closes it, runs on a segment without a name. No
  client reaches it, the next process creates a new one, and if either is root's, whom TIOCEXCL
  does not stop, two drive the arms. If it is root's it also unlinks, when it stops, the name of the
  daemon that was started beside it, and a third can start beside that one. `overtaken` marks such a
  process; that there is one is the exception of the `Lifecycle` properties. (The proof of `OneInstance` brought up the case
  of the third: the property first excused only the overtaken process itself, which TLC refutes with
  four starts.)
- A start that fails at the semaphores or the threads unlinks the segment and leaves its magic number
  (`so101d.c:273,315,328`): a bridge that has mapped it takes it for a daemon for ever, and its
  commands, written there but posted to the semaphores of the next daemon, make that one serve
  its own last command again (`Abandoned`). In the last of these paths the arm also runs for a moment without a
  supervisor.
- An outdated bridge (after `LifecycleDeaf`) writes its commands into the mailbox of the new daemon
  holding the lock of the old one: it can overwrite the command of another client, which then
  gets no answer (the exception `Outdated` of `CallsAnswered`).
- The node does not always "keep running": a daemon killed in the middle of a publication leaves `seq`
  odd and `read_raw` raises a TimeoutError nobody catches; a segment opened between `shm_open` and
  `ftruncate` has size 0 and raises a ValueError. docker starts the node again.
- `docs/INTERFACE.md:27` says `arm.alive()` is "False si so101d se detuvo"; after a crash it stays true.
- Semaphores that a daemon of root left keep the service's user from starting (`so101d.c:174` says how to
  help); it is the exception of `ComesUp`.
- A logger that outlives a crash goes on in the samples of the next daemon, whose cycles start at 1:
  the column is then neither in order nor complete (`so101_log.c:7`). `LogAccounts` is about one daemon.
- SYNC_WRITE is not acknowledged and nothing is repeated. When the goal frame before torque-on is
  lost (`control.c:171`), torque comes on with an old goal, where `daemon/README.md:37` promises
  "sin saltos"; when the torque-off frame is lost (`control.c:182`), IDLE is published over a
  powered arm. `ArmMotion` and `DaemonSafety` with the follower in `Noisy` show both.
- A control thread that stops between the two stores of `seq` leaves every reader without a
  snapshot; the supervisor then skips its checks (`supervisor.c:197`) and never raises STALL, where
  `daemon/README.md:59` promises ESTOP. The missing pings remain (`HangEndsPings`).
- With `echo` = 1, the echo of a READ that comes after its time limit is taken for the answer:
  it is a well-formed status packet of the servo asked. The daemon only uses SYNC_READ, whose
  echo carries the broadcast id.
- `docs/INTERFACE.md:54` refuses teleop with any fault active; OVERRUN and TORQUE_REFUSED do
  not block it (`supervisor.c:35`).
- The lock of a client that is merely stopped for two seconds is given away
  (`supervisor.c:189`), where `so101_shm.h:14` says "one writer at a time"; `MailboxCalls` with a
  client in `Stoppable` shows it.
- `supervisor.c:4` calls the supervisor the only writer of `faults`; `control.c:166,174` write it
  too. The proofs show that this does no harm.
- An ESTOP followed by RESET and TELEOP before the next control cycle leaves no trace on the arm.
- `so101d.h:27` says `|target-goal| < this` where the code has `<=`.

## Proofs

TLAPS proves the following for every value of the constants (any number of joints, positions,
readers, words, calls, processes; any limits; any set of commands; hanging threads, lost frames
and lost cables included unless said otherwise), from the named assumptions of the modules. These
say that the constants have the right types, with two exceptions that only `TeleopStaysInRange`
uses: `Calib!PowersAssumption` is plain arithmetic (a power of two divides the larger ones), stated
because the prover has no theory of `^`, and `Teleop!WidthAssumption` says that ticks and percents
are floats without rounding (4095 and 200 are below 2^24). TLC evaluates both in `TeleopLive`. What
a theorem assumes beyond that is in its own statement, and listed here.

| Theorem | Property | Assumes | Inductive invariant |
|---|---|---|---|
| `DaemonProofs!TypeCorrect` | `TypeOK` | | itself |
| `DaemonProofs!FaultsAlwaysForce`, `EstopAlwaysLatched` | `FaultsForceSafeMode`, `EstopLatched` | | `FaultInv` |
| `DaemonProofs!PowerAlwaysNeedsCleanSnapshot` | `PowerNeedsCleanSnapshot` | `~Preemptible`, `~CanHang` | `ShownInv` |
| `TorqueProofs!TorqueCutInTime` | `CutWithinTwoCycles` | | `CutInv` |
| `TorqueProofs!LimpOnCleanWire` | `LimpUnlessLost` | `"follower" \notin Noisy` | `LimpInv` |
| `TorqueProofs!FlagFollowsMode` | `PoweredMeansTorque` | `~Preemptible`, `comm_streak + 2 * MaxLag + 1 < REOPEN_AFTER` | `FlagInv` |
| `ArmProofs!FollowerNeverJumps`, `AlwaysEnabledAtPose` | `NoJump`, `EnabledAtPose` | `"follower" \notin Noisy` | `WireInv` |
| `ArmProofs!HoldAlwaysHolds` | `HoldHolds` | | `ArmTypeOK` |
| `ArmProofs!SoftStartKept` | `SoftStart` | `"leader" \notin Noisy \cup Unpluggable` | `RampInv` |
| `ArmProofs!TeleopStaysInRange` | `GoalInRange` | | `LeaderInv` |
| `AlarmProofs!AlarmAlwaysPersists` | `AlarmPersists` | | `AlarmInv` |
| `SeqlockProofs!ReadsNeverTorn`, `SeqlockImplementsSnapshot` | `NeverTorn`, `ImplementsSnapshot` | | `SeqInv` |
| `LoggerProofs!LogAlwaysAccounts` | `LogAccounts` | | `LogInv`, on `SeqInv` |
| `MailboxProofs!AlwaysOneWriter` | `OneWriter` | `Timeouts` | `MbInv` |
| `MailboxProofs!AlwaysServedAsSent`, `AlwaysOwnAnswerOnce` | `ServedAsSent`, `OwnAnswerOnce` | `Timeouts` | `AnswerInv`, on `MbInv` |
| `LifecycleProofs!AtMostOneInstance`, `AlwaysReachable` | `OneInstance`, `Reachable` | | `LifeInv` |
| `LifecycleProofs!NeverReplays`, `CallsAlwaysAnswered` | `NoReplay`, `CallsAnswered` | | `LinkInv`, on `LifeInv` |

Why each invariant is needed, and what carries the argument:

- `TypeCorrect`: the step that needs an argument is that a clipped step towards a position stays a
  position (`SteppedType`).
- `FaultInv`: both properties speak of the moments when the supervisor has settled; `FaultInv` adds
  what holds between its two stores: the mode about to be stored is compatible with the faults left
  behind, and the fault whose bit has just been set is the only one the mode is not compatible with
  yet. The control thread's writes to the fault word are harmless because they touch
  `TORQUE_REFUSED` only.
- `ShownInv`: RESET empties the fault word and not the buses, so the word does not say what the last
  snapshot said. A silent bus is followed through the turn: latched when the supervisor waits, the
  mode kept down while a command is served, latched or about to be after the snapshot. A turn
  without a snapshot breaks this: hence `~CanHang` and `~Preemptible` (no reader uses up its tries).
- `CutInv`: once one cycle has ended after the request, the next one loads a request that is not
  powered. `LimpOnCleanWire` needs a follower that is not in `Noisy`, as a lost torque-off frame is never repeated, and
  rests on a working descriptor implying a plugged cable.
- `FlagInv`: two clocks race, the streak that leads to reopening the port (which drops the torque
  flag in a powered mode) and the supervisor. `StreakInv` bounds the streak along the chain
  snapshot, mode asked for, request loaded, mode in force; each link costs at most `MaxLag` cycles.
  In the code the sum is 15 and `REOPEN_AFTER` 50.
- `WireInv`: with the port open, goal registers and `goal` agree while torque is on, and torque is
  off on the servos when the flag is down. `RampInv`: a joint out of the ramp has caught up. The
  steps themselves are bounded by `ClipBounds`. The four theorems that rest on these hold of
  `ArmSpec`, where the leader moves freely, and of `TeleopSpec`, where it is read through a
  calibration: both imply `FreeSpec`, which says nothing of the leader (`LeadersAreFree`).
- `LeaderInv`: the mapped position of a leader that has answered is in the range of the follower.
  The percent is clamped before the float arithmetic and the tick is not clamped after it, so the
  argument is about rounding: rounding to a float is monotone around whole numbers, because a whole number of
  that size is a float itself (`FloatBounds`; `FloatForm` finds the exponent, the least one that
  fits, by well-foundedness instead of induction). `NormalizeRange` and `UnnormalizeRange` follow
  the two conversions operation by operation. A clipped step towards a target in the range then
  neither leaves the range nor moves a joint found outside further out.
- `AlarmInv`: the supervisor counts turns, the property is about ticks; the count never gets ahead
  of the ticks and the commands since the alarm came (`elapsed` + `cuts`), and is behind them between
  the wait and the look at the snapshot.
- `SeqInv`: `TryInv` says that between its loads a reader's first value of `seq`, advanced by the
  stores made since, is `seq` modulo its width; an unmoved `seq` then means that no store was made.
- `LogInv`: `LoggerIsReader` shows that the logger's specification implements the seqlock's with one
  reader, so that a row is one whole publication; the difference between first and last cycle
  then accounts for rows and missed cycles.
- `MbInv`: the supervisor frees the lock by its clock (`zero`), a client is bounded by its own
  (`age`). `TimeInv` relates them: with no command pending, `zero` is at most `POLL_TICKS` plus the age of a
  client that writes, so it passes `STUCK_TICKS` only when the holder is dead. `Timeouts` says that
  no client is stopped and `WRITE_TICKS =< POLL_TICKS`, `WRITE_TICKS + POLL_TICKS =< STUCK_TICKS` (1 ms,
  1 s and 2 s in the code).
- `AnswerInv`: the command in the supervisor's hands has an `Owner`, the only client that may still
  be inside, who has not polled for longer than the supervisor was late and so has not given up.
- `LifeInv`: whoever has passed the flock owns its segment until it is gone (`Owns`); as long as
  nobody was overtaken, its segment is the one with the name (`NameInv`), and there is one name.
- `LinkInv`: a client maps the segment and opens the semaphores in separate steps, and a daemon can be
  replaced between them. `BaseInv` holds always: whose segment and semaphores are whose, who holds
  the lock, and that the id of a command not yet written is nowhere in memory. `CleanInv` holds until a process
  is overtaken or a segment is abandoned (`Spoiled`, which lasts: `SpoiledStays`): a valid header
  stands only in the segment with the name (`MagicInv`), so the semaphores a client opened after
  seeing one belong to the daemon of its segment (`AttachInv`); then a post not yet taken goes with a command
  not yet acknowledged (`PostInv`), which is still the caller's unless an outdated bridge has
  written over it (`CallInv`).

TLC accepts each of these invariants on the instance of its component's run (extend the proof module
and name the invariant in the cfg). The hypotheses of every theorem hold in the instances of the
runs that check its property.

Only model-checked:

- everything under fairness, which is beyond the prover: `StopsOnSignal`, `LossEndsPower`,
  `Reconnects`, `StallStops`, `HangEndsPings`, `HoldReached`, `SoftStartEnds`, `FollowsLeader`,
  `AlarmNoticed`, `DriverReturns`, `ReadReturns`, `LockRecovered`, `CallReturns`, `ComesUp`,
  `BridgeFollows`;
- the accuracy of the conversions (`ConversionsProportional`), evaluated for all joints on a few ticks;
- `OwnReadings` and `SoundCallSucceeds`: what the parser makes of a concatenation of packets is an
  induction over byte sequences, and neither holds for every constant: the bytes of a damaged packet
  can contain a sound one, and the checksum cannot tell; the run takes registers whose bytes look like headers.

## Not modelled, and the plan

Next:

1. The fixed time grid of the control thread, overruns and missed slots (after a long stop the grid
   is advanced slot by slot, `control.c:235`), and the overrun window of the supervisor, which is a
   free choice of the environment in `Supervisor`.

Left out because the modules' grain does not reach them: an exception that
leaves `command()` of the Python class between the post and the answer, which frees the lock with
the command pending (`so101.py:181`; clients of `Mailbox` run, die or stop, and poll for the default
of 1 s); the memory order of `read_raw`, which has no fences (`so101.py:109`; `Seqlock` is
sequentially consistent, as the fences of the C code make it). `Watchdog` hangs the control thread
only: the supervisor blocks in calls with a timeout.

Left out for good, as they keep no state that others depend on: logging, printing and plots; the
scan of the calibration files as text (note that it does not bound ranges to the servo's 0 to 4095);
`wait_new` of the Python class, a poll before a read; the conversion of samples to ROS messages and
the live parameters of the bridge; `StartLimitBurst` and the installation scripts; images and launch files; the
command-line bus tools and `fts_raw_ping`; the bus simulator; priorities and memory locking; the
id of a command as a number (two commands of the same id are excluded).
