# A verified model of the Connect/Bluetooth light

The program is the light of a switch-and-light demonstration: an EFR32 that is
a coordinator of a proprietary Connect network, over which switches send toggle
messages, and a Bluetooth LE peripheral, through which a mobile device reads,
toggles and follows the light. It runs on FreeRTOS through CMSIS-RTOS2. This
directory holds TLA+ modules of its own logic, TLC configurations that check
them on small instances, and proofs for every value of the constants.

## 1. The system

### Tasks, from the highest priority down

| task | source | what it does |
|---|---|---|
| Bluetooth link layer, Bluetooth stack | `sl_bt_rtos_adaptation.c` | runs the binary Bluetooth stack, executes BGAPI commands for other tasks, hands events to the handler |
| Bluetooth event handler | `sl_bt_rtos_adaptation.c`, `app_bluetooth.c` | calls `sl_bt_on_event()` |
| Connect stack | `cmsis-rtos-vncp-task.c` | runs the binary Connect stack, executes API calls of other tasks, queues callbacks |
| application framework (AF) | `cmsis-rtos-af-task.c`, `app_process.c` | runs the 100 ms tick and the Connect callbacks |
| command line (CLI) | `app_cli.c` | form, leave, reset, info, settings |

### Components, their state and what makes them right

| component | state | operations | interacts through | must hold |
|---|---|---|---|---|
| Light state machine and CLI (`app_process.c`, `app_cli.c`, `app_init.c`, `sl_light_switch.c`, `sl_simple_led.c`) | `state`, four request flags, `stack_status`, one message buffer and its flag, `light_state`, the LED | tick (`state_machine_handler`), status and message callbacks, toggle, form, leave, reset | flags set by the CLI task, callbacks from the Connect task, `toggle_light_state()` from the Bluetooth handler | toggles come from messages; light and LED agree; operation only on a network; a network that is up is operated |
| Indications (`app_bluetooth.c`) | queue of indications and its count, `indication_is_under_way`, settings, `direction` | eight events of `sl_bt_on_event()`, adding, sending, removing | the AF task adds and sends, the handler adds and removes; BGAPI commands | what is confirmed is removed; one indication at a time; what is queued is sent; the newest value is told |
| Connect IPC (`cmsis-stack-ipc/`) | command mutex, four event flags, one command buffer, handles of callback buffers in a heap that moves them, callback queue | blocking call, callback post and take, two task loops, start-up | mutexes, flags, message queue | each caller gets its own answer; callbacks once, unchanged and in order; no handle lost; no wake-up lost |
| Bluetooth RTOS adaptation (`sl_bt_rtos_adaptation.c`) | BGAPI mutex and recursion count, command globals, one event buffer, event flags, state flags, threads | lock, delegate, event hand-over, start, failed start, stop | mutex, event flags, threads | a command's answer is its own; an event is not overwritten while it is handled; a new start finds nothing of the last run; a stop ends |
| Sleep timer (`sl_sleeptimer.c`, `sl_sleeptimer_hal_sysrtc.c`) | the list of deltas, `last_delta_update_count`, each timer's handle, the counter, the compare channel and two interrupt flags | start once and periodic, in ticks and in milliseconds, stop, query, the interrupt handler | interrupts; callbacks that call back into the service; critical sections | the deltas tell the time; an alarm is set whenever a timer runs; callbacks neither early nor late; periods do not drift |
| Application framework, poll plugin, CSP, drivers, kernel, stacks, cryptography | see `PROJECT.json` | | | not modelled |

### What is hard here

* The Bluetooth handler preempts the AF task anywhere, and both write the light
  state, the LED, `direction`, the indication queue and its flag. No lock
  protects any of these.
* Both adaptations lead many tasks through one command buffer and one set of
  flags, which are set, looked at and cleared in separate steps by threads that
  may run between any two of them.
* Commands and events are asynchronous: the status callback of a form or a leave
  arrives later than its reply and may arrive after the next request; a
  confirmation may arrive before its indication is marked as under way.
* Failures: a refused indication, a failed form, a full callback queue, a lost
  connection, a reset with the network kept in NVM, a Bluetooth stack that fails
  to start after half of it has been created.
* Numbers: a counter that wraps around and goes on while the code computes with a
  reading of it, unsigned times with signed corrections.
* Liveness: one flag gates all indications; one callback ends `S_NETWORK`; one wait
  of the Bluetooth thread clears four flags.

`PROJECT.json` lists each hazard at its line.

## 2. Modules

### `LightControl`

The AF task, the CLI task, the Connect callbacks and the Bluetooth write as far
as the light goes. `Init` is a reset. Each case of `state_machine_handler()`
that changes anything is an action (`TickInit`, `TickForm`, `TickOperate`,
`TickFormed`, `TickQuiet`, `TickToggle`). Where the handler calls the stack and
waits, the action ends and another goes on (`FormReply`, `PermitReply`), for the
CLI task may run meanwhile. The toggle in the AF task is four actions, one per
access (`LoadForLed`, `DriveLed`, `Load`, `Store`), and `BleToggle` (the whole
handler) may come between any two. `cli_leave()` is two actions, its stack call
and its flag. `AfCallback` takes one callback from the queue, `Post` puts one
there or drops it when the queue is full. The environment is `Receive` and
`ReportOther`.

Three facts about scheduling are built in, each from the code. The CLI task,
whose priority is lower, runs only while the AF task waits (`CliRuns`). Each turn
of the AF task's loop runs the tick if it is due and then one callback, and the
tick is armed for 100 ms; callbacks that are pending at a tick are all handled
before the next one, and later ones may not be (`Armed`, `Ticks`). A handler is
one step of the AF task's view, since its priority is higher.

`error_detected` is never assigned, so `S_ERROR` cannot be reached and is left
out. A message is an endpoint and the toggle bit of its payload.

History variables: `handled` and `answered` count messages and the toggles made
for them, `preempted` says that a BLE write fell into the last AF toggle, `owed`
is the light state if no toggle were lost.

### `IndicationQueue`

`app_bluetooth.c`. The queue is the C structure: `count` and an array
`indication`. A slot is the characteristic that it is for, or blank; the data, their
size and `direction` are left out, for nothing the queue does depends on them. What
the AF task does to the queue is split at each access: the guards, each turn of the
duplicate search, the store of `count_of_indications++`, the write of the
characteristic to the new slot, the check before sending, the send command, the
setting of the flag. What the event handler does is one action per event, built from
the same operations as functions (`Add`, `Remove`, `Notify`).

The source names `count_of_indications` at each turn of the search, in the increment
and in the index of each field, but the variable is not volatile: the build may read
it again at any of these uses or go on with the copy in a register. `loaded` is the
copy, `AfReread` reads it again, and does so or does not at every use (`Uses`); what
the task stores, and where (`LastSlot`), goes by the copy. A confirmation may thus
come between the load of the count and the store of its increment, and between the
load of an index and the store through it: the AF task then writes behind the queue
and leaves a blank as its last slot. `AfWriteFields` stands for the rest of the
fields (`data_size`, `data`, `data_size`), three more uses of the count that
change nothing which is kept here.

The event handler is atomic in the AF task's eyes even where it waits: in the
write handler the response command may wait for the AF task's send command, which
touches nothing the handler has changed so far, so it commutes with the part
before. A failed `app_assert` stops everything (`while (1)` in a task above the
AF task).

The stack and the client are the environment: one connection at a time (a
connection ends advertising, which only the closed event begins again), one
request at a time, subscriptions forgotten with the connection, an indication
accepted only when connected, subscribed and none is outstanding (`Accepted`,
from `sl_bt_api.h`), events delivered in order. The settings table is the set of
enabled characteristics: with three characteristics it never fills.

### `IndicationOutbox`

The abstract outbox: a sequence of distinct characteristics that wait, and the one
that is in flight. Without preemption and with the connection kept
`IndicationQueue` implements it (`ImplementsOutbox`), its liveness included.

### `StackService`

What both adaptations to the RTOS promise: a call returns the answer to that call,
one is carried out at a time, and callbacks (events) are accepted into a mailbox
and delivered once, unchanged and in order. `Stop` is for the stack that may be
stopped. `ConnectIpc` implements it with `MayStop <- FALSE`, `BtRtosAdaptation`
with `MayStop <- TRUE`; the two mappings say where a call or a callback is while
it travels through flags and buffers. `LightControl` uses its callbacks: a bounded
queue that drops what finds it full.

### `ConnectIpc`

`cmsis-rtos-ipc-common.c`, `cmsis-rtos-vncp-task.c`, `cmsis-rtos-af-task.c` and
their support code. A blocking call goes through `acquire`, `format`, `post`,
`wake`, `pend`, `fetch`, `release`; the stack task consumes the wake-up and the
command flag in two steps, as the code does, serves the command, and answers into
the same buffer. A callback takes a handle and a buffer under the buffer-system
mutex, is copied and queued after it is released, and the AF task takes the handle
from the queue, locks, points, copies and frees. The stack moves buffers in its
heap (`Compact`) whenever it may. Both timeouts are actions of their own on which
nothing rests. Any task may run between any two accesses: priorities are not used.
Start-up is `Init`: it ends before the kernel starts.

### `BtRtosAdaptation`

`sl_bt_rtos_adaptation.c`, one action per access to what threads share. Callers are
the application's tasks, the event handler thread (from its handler) and a
Bluetooth thread that failed to start (from the application's handler of
`system_error`). The Bluetooth thread's loop follows the source in order:
command, response, stack, event, wait; its local copy of the flags is `local`. It
nests commands of its own while it serves one (`NestLock`, `NestDelegate`,
`NestUnlock`), sharing the recursion count of whoever has the mutex. Start on
demand is part of this build and may fail at each creation; a stop terminates the
other threads, deletes the objects and clears the flags in the source's order.

Assumed of code outside the file: commands look whether the stack is there after
they have taken the lock (the library does); the Bluetooth thread nests commands
only while it serves one; an application starts the stack when it knows that it is
not there, one start at a time. The model has one retired thread at a time.

### `SleepTimer`

The service over a free-running counter with one compare channel. `Tick` may come
between any two actions; a section with interrupts disabled is one action, but for
the writing of the compare register, which reads the counter again and is one of
its own (`Compare`). `Start`, `StartRunning`, `Stop` and `Query` may be called by a
task and by each callback; the interrupt handler is the steps `Interrupted`,
`Overflow`, `OverflowSet`, `Update`, `Ring` (three cases) and `Finish`. Times are
taken modulo `W`, as the code's unsigned arithmetic does, the mask of the counter
is `W - 1` and corrections are signed. `due` and `busy` are history: how long
until a callback is due, and for how long something has been under way.

Assumed: nobody starts a timer that another context is just starting (both would
insert it and the list would become a ring). A timer's period is 0 or its timeout, for
so all functions that start one call `create_timer()`.

### Proof and model-checking modules

`LightControlProofs`, `LightNetworkProofs`, `IndicationQueueProofs`,
`IndicationQuietProofs`, `IndicationOutboxProofs`, `ConnectIpcProofs`,
`BtRtosAdaptationProofs` and `SleepTimerProofs` hold the theorems, section 4. The `MC` modules
(`MCLightControl`, `MCIndicationQueue`, `MCConnectIpc`, `MCBtRtosAdaptation`,
`MCSleepTimer`) give names to the sets that the configurations use.

## 3. Runs

| run | bounds | shows |
|---|---|---|
| `light_preempted` | 3 callback slots, 2 messages after a reset, 2 endpoints, all commands, other statuses, preemption | `TypeOK`; `NoInventedToggle`; `ToggleSynchronises`: a toggle no BLE write interrupts leaves LED and light equal, even if they differed before |
| `light_network` | 6 slots (never full), 3 messages, all commands, other statuses, fairness | `AppKnowsNetwork`, `OperatesOnNetwork`: whatever the order of form, leave, reset, ticks and late callbacks, once all is handled the application neither mistakes the network's status nor operates without one; `OperatesUnlessLeft`: a network that is up comes to be operated, also after a reset with the network in NVM |
| `light_lost`, `light_stuck` | as small as shows it | violated, see findings |
| `indication_quiet` | 8 slots, all characteristics, no preemption, connection kept, fairness | `TypeOK`, `QueueWellFormed`, `FlagIsHonest`, `QueuedIsSent`, and the abstract outbox is implemented |
| `indication_race` | 10 slots, two characteristics, preemption between any two accesses, the count read again or kept, lost connections, unsubscribing | `SendsAfterConfirmation`, `ConfirmedIsFirst`, `WritesToSlot`: the races lose indications but never remove the wrong one, write in front of the queue or send twice; `QueueNeverFull`: they waste slots, but not all of them |
| `indication_dropped` | as small as shows it | violated, see findings |
| `connect_ipc` | 2 calling tasks, 2 handles, 3 places in the heap, 2 callbacks, all interleavings | `TypeOK`; `ServesTheCaller`, `AnswersTheCall`; `HandlesAccounted`, `PutSucceeds`; the abstract service is implemented |
| `connect_live` | 2 handles, 2 places, one callback, fairness | `CallReturns`, `CallbackArrives`: no wake-up is lost between flags that are set and cleared in separate steps |
| `bt_adaptation` | one task, the event handler and the retired thread, one command besides start and stop, 2 events, one pending, failures, fairness | `TypeOK`, `LockExcludes`, `AnswersTheCall`, `EventIntact`, `StartFindsNothing`, the abstract service; `CommandReturns`, `EventArrives`, `StopEnds` |
| `sleeptimer` | counter of 20, two timers, one tick of work, one tick between two readings | `TypeOK`, `DeltasTellTime`, `AlarmIsSet`, `NeverLate`, `NeverEarly`, `UrgentFirst` |
| `sleeptimer_skipped` | one periodic timer whose period is as long as the work on it may take | violated, see findings |

Why the bounds are enough. The light's interesting cases need two messages (one
waiting while one is processed), one status on its way while another is posted,
and a queue that can and cannot overflow. With two characteristics the races fill
nine slots of the indication queue, blanks and repetitions included, so that 10 are
enough and with 9 `QueueNeverFull` is violated. The code has 16 slots and three
characteristics; with three the interleavings are too many for TLC, and that 16 slots
are enough for them is neither checked nor proved here. `race` leaves out the light's
own characteristic, which differs from the other two only in its value. The other
properties of the run are proved for any length and all three. Two callers contend for each mutex, two handles
make the callback queue full and reorderable, three places let the heap move a
buffer while another is in use. The Bluetooth adaptation has three callers, and
two events of which one is handled while the other waits. The sleep timer's
counter wraps within a timer's time, its margin of 3 fits between two timers, and
one timer is started with a short, a long and a periodic time; with two ticks of
work (`MaxBusy`) the same properties hold. With two ticks between the two readings
in the section that writes the compare register (`MaxStall`) `AlarmIsSet` is
violated: that these sections are short is an assumption which the code makes.

`OperatesUnlessLeft` speaks of runs without a leave and without other statuses: an
unrelated status overwrites `stack_status`, so that `S_STANDBY` may miss the one
that it waits for. `NeverEarly` lets a periodic callback be early by the time that
the handler took, for the code rounds that way, and `NeverLate` by the margin and
the work.

`CHECK_DEADLOCK FALSE` stands where the program really stops: a failed
`app_assert` loops for ever (`indication_race`, `indication_dropped`), and the event
handler thread may be terminated with the BGAPI mutex (`bt_adaptation`).

Fairness. `LightControl`: the AF task's loop looks at the tick and at the
callbacks at every turn and the tick is armed again each time, hence strong
fairness for both (CLI steps and the other of the two may disable each for a
while); a task that is not waiting goes on, hence weak fairness for the rest.
Form, leave, reset, messages and writes need not ever happen. `IndicationQueue`:
the tick goes on for ever, the handler's priority is the highest (strong
fairness, for the runs without preemption keep it waiting while the AF task
works), and the client confirms what it receives. `ConnectIpc` and
`BtRtosAdaptation`: a thread that may go on does, and one that waits for a mutex
gets it some time, for mutexes queue their waiters and each thread waits for
something before it comes again (strong fairness); ticks and handlers end. No
timeout is fair: nothing rests on one. The Bluetooth stack sleeps some time,
executes what it is given and, being stopped, wakes its thread until it has
stopped.

Every passing property comes with a mutant: a definition in the module, marked
`Bug:`, with which TLC finds the property violated.

### Findings

* **A BLE toggle is lost** (`light_lost`): `toggle_light_state()` reads and then
  writes the light state, in two tasks.
* **Stuck in `S_NETWORK`** (`light_stuck`): a second form while the network is up
  waits for a callback that cannot come; form and leave are ignored there.
* **Silence after a reconnection** (`indication_dropped`): an indication is sent
  before the client has subscribed again; refused, it still sets the flag, which
  then blocks all others for ever.
* **A periodic timer sleeps for a wrap of the counter** (`sleeptimer_skipped`): a
  timer started in milliseconds that is late by exactly its period, when a tick of
  drift falls due, gets a timeout of -1, cast to the largest there is.

Plain in the code and not given a run. Light: entering `S_OPERATE` from `S_STANDBY`
sets the light state to off and leaves the LED on; a message on another endpoint
raises the flag and repeats the last toggle; of two messages between two ticks one
is lost; a leave request made in `S_STANDBY` is carried out much later.
Indications: a confirmation between the load and the store of the count, or between the
load of an index and the store through it, leaves a blank that blocks the queue; a value queued earlier keeps a newer one of the same
characteristic out; a lost connection fails the assertion on the response to a
write and halts the device; disabling indications enables them; a confirmation
handled before the flag is set leaves the flag set; writes to the trigger source or
the source address are never answered, which ends the client's transactions.
Connect IPC: a dropped callback leaks its command buffer; the assertions that
check its calls of the RTOS are compiled away with `NDEBUG`. Bluetooth: a stop
while the event handler thread has the BGAPI mutex leaves it owned for ever; an
application that starts Bluetooth again from its handler of a failed start has the
event it handles overwritten (the light does neither). Sleep timer: a start in
ticks that is refused because the timer runs clears that timer's conversion error.

## 4. Proofs

Each proof module proves its theorems from the component's `ConstantsAssumption`.
`EventStaysIntact`, the theorems of `LightNetworkProofs`, `IndicationQuietProofs` and
`IndicationOutboxProofs`, and those of `SleepTimerProofs` other than `TypeCorrect` have
one more hypothesis, which their statements name.
`LightControlProofs`:

* `TypeCorrect`: `Spec => []TypeOK`. The invariant is inductive as it stands; it is
  proved one part at a time (`TaskStep`, `FlagStep`, `NetworkStep`, `LightStep`,
  `HistoryStep`), the callback queue with `PostType` and `TakeType`.
* `NoToggleInvented`: `Spec => []NoInventedToggle`. The count of toggles made, plus
  the message in hand, plus the one waiting, never exceeds the messages delivered;
  each action shifts at most one unit to the right-hand side's favour.
* `ToggleProgresses`: the strengthening behind the next theorem, what an
  uninterrupted toggle knows after each of its accesses.
* `UninterruptedToggleSynchronises`: `Spec => ToggleSynchronises`, from
  `ToggleProgress` and types.

`LightNetworkProofs`:

* `ApplicationKnowsNetwork` and `LightOperatesOnNetwork`: `AppKnowsNetwork` and
  `OperatesOnNetwork` hold as long as the callback queue has room (`RoomLeft`).
  Neither is inductive, for both are about a queue that is empty. The invariant
  behind them, `NetworkInv`, says what the last callback on its way that tells
  something of the network says is true, and that what the application remembers
  is true when there is none (`NetworkKnown`); and that without a network such a
  callback is handled before the next tick, except during a form or a leave
  (`DecidedByTick`). The latter is where the code's order matters: `cli_leave()`
  raises its flag only after the AF task has handled what was on its way, or while
  it forms a network, after which the tick is armed behind the callback.

`IndicationQueueProofs`:

* `FlightIsKept`: `Spec => []IInv`, the inductive invariant behind the next three.
  None of them is inductive alone: that the first indication is the one in flight
  rests on there being one at a time (`Single`), that on the flag being set or
  about to be (`Marked`), and the AF task could still overwrite the first slot or
  lose it from the count if its copy of the count (`LoadedCovers`), however old, and
  the slot it writes to (`WritesBehind`), whether by the copy or by the count as it is
  read again, did not lie behind it. `SendsFirst` carries what the
  check saw to the send. The step is split into what happens to the types
  (`HandlerShapes` ... `ClientShapes`) and to the flight (`HandlerFlight` ...
  `ClientFlight`), over lemmas about the queue's operations (`AddKeeps`,
  `NotifyKeeps`, `RemoveKeeps`) and about what is in flight (`NothingNew`,
  `ConfirmationFollows`, `ConfirmationEnds`, `SendingStarts`).
* `SendsWhenFree`, `ConfirmationRemovesItsOwn`, `NeverInFront`: the invariants
  `SendsAfterConfirmation`, `ConfirmedIsFirst` and `WritesToSlot`, for a queue of
  any length, with both tasks preempting, lost connections and any client.

`IndicationQuietProofs`, when the handler does not interrupt the AF task and the
queue is longer than three (`Quiet`; the code's has 16 slots):

* `QuietQueueIsWellFormed` (`QueueWellFormed`) and `QuietTypes` (`TypeOK`). The
  property speaks of an idle AF task only; the invariant behind it, `WInv`, says that
  the queue is `Tidy` throughout, up to the slot which is counted and not yet written
  (`Settled`), and what the scan has seen so far (`Progress`). There are three
  characteristics, so no more than three wait (`AtMostThree`): no addition finds the
  queue full, and a removal, which moves all but the last slot up, leaves no gap.
* `QuietFlagIsHonest` (`FlagIsHonest`), when moreover connection and subscriptions are
  kept (`QuietLink`). A refused indication would set the flag with nothing in flight;
  `Sendable` says that none is refused, for nothing waits but what the client has
  subscribed to, and `Honest` that the flag is right but for the step between sending
  and marking.

`IndicationOutboxProofs`:

* `OutboxImplemented`: under `QuietLink`, the initial state is one of `IndicationOutbox`
  and each step is one of its steps or a stutter: the safety part of
  `ImplementsOutbox`. The abstract line is the tidy part of the queue (`GrownLine`),
  what flies is its head (`FlyingIsFirst`), an addition is an `Offer`, and the
  handler's removal of the first slot is the outbox's `Confirm`.

`ConnectIpcProofs`, for any tasks, arguments, callbacks, handles and places:

* `CallsKeepTheTurn`: the inductive invariant of calls. Whoever has the command
  mutex has exactly one `Turn`: its own step, the COMMAND flag, the stack's handler
  or the RESPONSE flag; with nobody inside, no flag is set. `AnswersBelong`
  (`AnswersTheCall`) and `ServesOnlyTheCaller` (`ServesTheCaller`) follow.
* `HandlesAreKept`: the inductive invariant of callbacks: the handles in use are those
  in the queue and in the two tasks' hands, distinct, and what a handle points to is
  what was raised. `HandlesNeverLost` (`HandlesAccounted`) follows, and
  `PutNeverFails` (`PutSucceeds`) with an argument about cardinalities.
* `TypeCorrect`, and `ServiceImplemented`: `Spec => ImplementsService`.

`BtRtosAdaptationProofs`, for any tasks, starters, stoppers, commands and events:

* `CommandsKeepTheLock`: the inductive invariant. `LifeInv` ties the objects, the
  threads and the state flags to the Bluetooth thread's place, so that a flag cannot
  outlive its run; `LockInv` gives the owner of the BGAPI mutex its `Turn`, one of
  five places where its command can be, or says that nothing is under way;
  `CountInv` ties the recursion count to the owner and to nested commands, without
  which `Unlock` could release too early; `Token` says that one of `EVT_HANDLED`,
  `EVT_WAITING` and the handler guards the event buffer; `StartInv` that one start is
  under way at most, and then no stack.
* `TypeCorrect`, `LockExcludesOthers` (`LockExcludes`), `AnswersBelong`
  (`AnswersTheCall`), `StartsClean` (`StartFindsNothing`) follow from it.
* `EventStaysIntact`: `EventIntact`, provided that the thread that failed to start
  does not start the stack again from its error event (`Retired \notin Starters`).
  Without the assumption it is false: the new run overwrites the event.
* `ServiceImplemented`: `Spec => ImplementsService`, the lemmas following who moves:
  `CallRefines`, `AnswerRefines`, `EventRefines`, `StopRefines`, `OthersRefine`.

`SleepTimerProofs`, for any timers, priorities and requests, and a counter of any width:

* `TypeCorrect`: `Spec => []TypeOK`. Its invariant, `TInv`, adds that no timer of the
  list has as much as a wrap of the counter to go (`Lists`) and who may be in which
  section of the code (`Turns`); both are needed for the subtractions of the list to
  stay in range.
* `DeltasCorrect`, `AlarmAlwaysSet`, `LatenessBounded` (`DeltasTellTime`, `AlarmIsSet`,
  `NeverLate`), and the action properties `EarlinessBounded` and `UrgentRingFirst`
  (`NeverEarly`, `UrgentFirst`), under `Punctual`: the counter is read twice in a section
  within one tick, all that may be late is less than half a wrap of the counter (the
  margin of 3, a tick, and the code's time twice), and no period that is corrected for
  drift is as short as that. Without the first TLC finds `AlarmIsSet` violated, without
  the last `NeverLate` (`sleeptimer_skipped`); the second is what telling the sign of a
  correction rests on.
* None of these is inductive, and they hold each other up. `PInv` says of every running
  timer, periodic or not, that the deltas up to it are the time to its callback, give
  or take the time that starting it took (`Deltas`), of a timer about to be inserted
  that its handle still says so (`Starting`), and of a periodic one that its expected
  count is when it is due, modulo the counter (`Follows`); of the list, that it is
  brought up to date often enough for the counter not to lap it (`Fresh`); of the
  peripheral, that its interrupt is pending or comes, for every timer, within the
  margin (`Armed`); and of each timer, how late it can be by now (`NotLate`). `Armed`
  bounds lateness while nothing is under way, the count of ticks at work does
  otherwise. `TickKeeps` is the step of the clock; the code's steps have a lemma for
  each part (`HandlesStep`, `StartingStep`, `FreshStep`, `DeltasStep`, `ArmedStep`,
  `NotLateStep`).
* Below are lemmas about the list. `UntilStep` says what the recursive sum of deltas
  computes; `UpdatedTimes`, `InsertedTimes` and `RemovedTimes` that bringing the list up
  to date takes the time that has passed off every timer, and that insertion and
  removal change no other timer's time. Sums are handled by induction, which
  the theorem of well-founded intervals gives for sets of numbers (`LeastNat`, `UpTo`).
  `MarginedAhead` says when the written compare value matches, mask and all.

Only model-checked: liveness, the outbox's fairness included, which is beyond this
prover, and `QueueNeverFull`. What the races leave behind, blanks, old contents and
repetitions of a characteristic, TLC counts for a small instance, but no characteristic
accounts for the blank that a stale index leaves, and no invariant was found from which
the bound would follow for every client. Every other invariant that a run checks is a
theorem too.

## 5. What is left

1. A composition of the light with the queue, so that a toggle is followed to the
   client: today both are modelled with the other as an environment that may do
   more than it does.
2. The power manager's requirement counting and sleep decision, and the parts of the
   sleep timer that serve it alone.
3. The polling plugin (`poll.c`), which this coordinator contains but never uses.
4. That the format of each CSP command is read back as it was written.

## 6. Not modelled

The repository is a firmware tree: most of its lines are vendored SDK headers,
register access, kernel, cryptography and radio, of which the light uses little.
The modules map the program's own sources, its two RTOS adaptations and the sleep
timer, and so a small share of all lines.

* Binary Connect and Bluetooth stacks: environment, from their headers and from how
  the application calls them.
* FreeRTOS and CMSIS-RTOS2: the models use what mutexes, event flags, queues and
  priorities promise.
* Drivers, services, NVM3, clocks, power manager, cryptography: register access and
  libraries without a state of this program's own.
* CSP commands and their format, generated code and configuration: marshalling of
  calls and callbacks, a record in the models; the constants that matter are
  constants of the modules.
* What an indication tells: its data, their size and `direction`. The races on them (a
  stale index may put one characteristic's data into another's slot, `direction` may
  change before it is copied) are out of the model; those on the queue are in it.
* PAN id, channel, options and security key: settings without a state machine. Log
  and CLI output.
* Of the Bluetooth adaptation: `sl_bt_bluetooth_pend()` and
  `sl_bt_bluetooth_post()`, a plain mutex that the light never takes, the event
  functions of a build without the event handler thread, and the timed wait.
* Of the sleep timer: its two flags for the power manager, the restore delay of deep
  sleep, the start-up channel of the oscillator, conversions, and the wall clock,
  which this build configures away.
