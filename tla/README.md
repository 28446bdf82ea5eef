# Verification of FiniteStateMachine

TLA+ models, model-checked instances and machine-checked proofs for the
FiniteStateMachine library: a state machine with a metronome that drives it, in
four ports (Java, C, Objective-C, JavaScript), and the C containers the C port is
built on. `PROJECT.json` lists the runs, the source lines behind every definition,
the hazards and the theorems.

    tlc -workers 2 -config base.cfg MCBaseMachine.tla     # one run
    tlapm AutoMachine_proofs.tla                          # one module's proofs

## 1. The system

| part | state | operations | interaction | what makes it correct |
|---|---|---|---|---|
| Java machine: `fsm/BaseMachine.java` | list of states, index `current`, `status` | `addState`, `start`, `stop`, `pause`, `resume`, `tick` | calls state callbacks, delegate and transitions in the middle of its methods; no lock | status, current state and the callbacks the user has seen agree |
| Java auto machine: `fsm/AutoMachine.java` | membership in the metronome's ticker set | `start`, `resume` add, `stop`, `pause` remove the ticker | around the inherited method, from any thread | a running machine is ticked |
| Java metronome: `threading/Metronome.java`, `threading/Daemon.java`, `skywalker/Runner.java` | `running`, `thread`, `lastTime`, `allTickers` | `start`, `stop`, `addTicker`, `removeTicker`, `process` | its own thread ticks every registered machine; clients restart it | one driving thread, start and stop are heeded, rounds keep the interval |
| C machine: `fsm-c/sm_machine.c`, `sm_state.c`, `sm_list.c` | the fields of the Java machine | the same five, without its status guards | callbacks are function pointers; no lock | as the Java machine |
| Objective-C machine: `fsm-objc/SMMachine.m`, `SMAutoMachine.m` | none beside the C machine | wraps each C method in `@synchronized (self)` | metronome as in Java, registration outside the lock | tick and stop do not cross |
| Objective-C threads: `fsm-objc/threading/` | `SMThread`'s status, runner flag | `start`, `cancel`, `run` | drives `SMMetronome` | as the Java metronome |
| JavaScript machine: `fsm-js/FSM/src/fsm/` | as Java | as Java, without its status guards | one thread; callbacks may call the machine again | as Java |
| JavaScript threads: `fsm-js/FSM/src/threading/`, `skywalker/` | `running`, stage of the runner, the timers | `start`, `stop`, `run` | a thread is a chain of `setTimeout` callbacks, which drives the metronome | chains end after a stop, calls return to the event loop, tickers are told |
| C queues: `ds-c/ds_queue.c` | ring of slots, `head`, `tail`, `capacity`; or a chain | `push`, `shift`, `clear`, `copy` | `shift` returns the address of a slot, or a node | first in, first out; the returned slot stays readable; both kinds agree |
| C chain table: `ds-c/ds_chain.c` | nodes, `head`, `tail` | `append`, `insert`, `remove`, `shift`, `sort`, `sort_insert`, `reverse`, `assign`, `erase`, `clear`, `copy` | `shift` hands a node to the client | head and tail are the ends of the chain, no node leaks, a copy shares nothing |
| C array: `ds-c/ds_array.c` | buffer, `count`, `capacity` | `assign`, `append`, `insert`, `remove`, `erase`, `clear`, `sort`, `sort_insert` | calls the quick sort | items are moved, never lost, and never out of the buffer |
| C sorting: `ds-c/ds_base.c` | the recursive calls, each with a key | `ds_qsort`, `ds_bsort` | works in the array's buffer | ends, sorted, in its range |
| C stacks: `ds-c/ds_stack.c` | an array, or a chain | `push`, `pop`, `clear` | on one of the above | last in, first out; both kinds agree |
| C list of states: `fsm-c/sm_list.c` | an array, or a chain | `add`, `set`, `get` | holds the C machine's states | both kinds agree at every index |
| Java `Duration`, `WeakSet`, `PrimeMetronome` | | arithmetic, a weak set, a singleton | | |

What is hard here:

* **Threads.** The Java machine takes no lock. A client's `stop` or `pause` crosses
  a `tick` of the metronome's thread at every access of `status` and `current`, of which
  `getCurrentState` makes two,
  and registration crosses the status.
* **Re-entrancy and exceptions.** Every method calls user code half-way; that code
  may call the machine again, or throw.
* **Restarts.** All threads of a metronome share one flag; a join may time out.
* **Time.** Late wake-ups, slow tickers, and a wall clock that is set back.
* **Boundaries.** Holes in the list of states, a ring that is full or cycled, a
  chain of one node, an array that is full, the ends of a range that is sorted.
* **Twins.** Stack, queue and list exist on a chain and on an array; which one a
  program gets is decided when it is compiled.

## 2. The modules

    BaseMachine  <-- AutoMachine <------ SMAutoMachine
         ^------- SMMachine <-----------------^
    Metronome     MetronomeClock     JSMetronome
    ItemSequence, QuickSort <-- DynArray
    CircularQueue -- implements --> FifoQueue
    Containers: ItemSequence and ChainTable with DynArray and CircularQueue,
                -- implements --> LifoStack

`MC*` modules give the constants of the runs, `*_proofs` modules hold the theorems:
AutoMachine_proofs those of BaseMachine and AutoMachine, SMAutoMachine_proofs,
Metronome_proofs, MetronomeClock_proofs, CircularQueue_proofs and DynArray_proofs (with
QuickSort) those of one module, ChainTable_proofs the lemmas about the chain from which
Containers_proofs has its theorems.

**BaseMachine** (`BaseMachine.java`). `states`, `current` and `status` are the
fields. A thread is a stack of frames in `stack[t]`: one for each method it has
called and that has not returned. `pc` is the next access of `status` or `current`,
or the callback that is running; `old` and `new` are the locals `current` and
`next` of `changeState`. So a stop in a callback, or on another thread, may come
between any two accesses. `Check` is the early return of each method and, for
`start`, the lookup of the default state; `Begin` reads the current state in
`pause`, `resume` and `tick`; `Transition` and `NoTransition` are the evaluation of
the state's transitions; `Change`, `ExitOld`, `SetCurrentState`, `NotifyChanged`,
`ChangeDone` are `changeState`; `Halt`, `SetRunning`, `SetPaused`, `SetResumed`
write the status. `Call` and `Return` push and pop a frame, `Throw` pops one where
it stands. Which transition fires is the user's choice and left open. `live` and
`threw` are history variables: the states whose `onEnter` has begun and whose
`onExit` has not, and whether user code has thrown.

**AutoMachine** (`AutoMachine.java`, with the loop of `Metronome.process`). `stop`
and `pause` remove the ticker on the way in (`AutoCall`), `start` and `resume` add
it on the way out (`AutoReturn`). `Snapshot` and `Drive` are the metronome's
thread: it copies the ticker set and ticks from the copy, which may be stale. The
removal is one step with the call of the inherited method, and the addition with
its return: `registered` is read by `Snapshot` alone, and nothing else happens on
that thread between the two. `getCurrentState` reads `current` twice. `ReadOnce` is the first
read of a thread that finds an index, which is then in `looked`; the second one is part of
the step that BaseMachine has for the read, and when it finds -1, `ReadFails`: the method
ends with the exception of the list. Other values at the second read need no step of their
own, since only the second is used. `torn` is history: a pause has failed that way.

**SMMachine** (`sm_machine.c`) takes BaseMachine's steps inside `changeState` and
around the callbacks, which are the same in C, and replaces what differs: `Enter`
has no status guard, `Proceed` (the reads of `pause`, `resume` and `tick`) tests the
status in `tick` only, `Fire` accepts a target that is not in the list.
`CapacityAssumption` keeps indexes in the slots that `calloc` has zeroed.

**SMAutoMachine** (`SMMachine.m`, `SMAutoMachine.m`, `SMMetronome.m`) composes
SMMachine and AutoMachine: a thread enters a C method only while no other thread is
in one (`Acquires`). The lock is recursive, and its owner can be read off the
stacks, so it is no variable. `SMAutoCall`, `SMAutoReturn`, `GetTickers` and
`TickAll` are those of AutoMachine, outside of the lock.

**Metronome** (`Metronome.java`, `Daemon.java`, `Runner.java`). `worker[w]` is where
thread `w` is in `Runner.run`, `client[c]` where a client is in `start` or `stop`.
Steps are single accesses of the two shared fields `running` and `thread`. `GiveUp`
is a join that times out after 1024 ms and may happen at any moment while the
thread is alive. `asked` and `gaveUp` are history variables.

**MetronomeClock** (`Metronome.process`, in time). `Wait` is the sleep with its
arithmetic, `Tick(k)` one ticker, `Update` the write of `lastTime`. The wall clock
moves with every sleep and ticker, a sleep ends up to `MaxDelay` late, and `SetBack`
turns it back at any moment.

**JSMetronome** (`thread.js`, `runner.js`, `metronome.js`). `timers` are the timers that are
set, in the order in which they are due; `loop` is what the event loop is at. `Start`
and `Fire` call `Run`, the thread; `Rest` and `BeginRound` are the two ways through
`process`, `Tick(k)` one ticker, which takes time, `EndRound` the write of the last time,
after which `handle` calls `process` again. What tickers do to the metronome comes
between the ticks; a ticker that starts it runs a round within the round, so `rounds` is a
stack, and `Caller` what a run returns to. Times are relative: `age` is `now - __last_time`, `spent` how long
a round has taken. A wall clock that is set back is left out.

**CircularQueue** (`ds_queue.c`). A queue is a record of `capacity`, `head`, `tail`
and `items`; the pure functions (`Pushed`, `Shifted`, `Expanded`, `Copied`) follow
the code, and `slot` remembers the address that `shift` returned. A slot that nobody
has written holds `Garbage`. **FifoQueue** is what `ds_queue.h` promises.

**ChainTable** (`ds_chain.c`). `next` and `data` are the heap, `allocated` what
`malloc` has given and `free` has not taken back; `copy` holds the ends of a second
chain, which `ChainCopy` makes by a row of appends (`Guests`, `Holding`, `Linked`: the
new nodes, their data, their links) and `CopyDestroy` frees. `Follow` goes from node to
node, at most as many times as there are nodes, which are finitely many; `Pass` and
`Sorted` are the two loops of the sort, which exchanges data and leaves the links.

**ItemSequence** is what `ds_chain.h` and `ds_array.h` promise of a call: the items after it,
from those before (`Assigned`, `Erased`, `Inserted`, `Removed` at an index, and `InOrder`, the
one sequence of the same items in ascending order).

**QuickSort** (`ds_base.c`). A call of `ds_qsort_b` is a frame in `frames`: its
arguments, `left`, `right`, `key`, and `pc`, the part of the function it is in.
`SeekRight` and `SeekLeft` are the two inner loops with the move that follows each,
`PutBack` the key, `SortLower` and `SortUpper` the recursive calls.

**DynArray** (`ds_array.c`). `items` is the buffer, `count` and `capacity` the fields.
`calloc` gives zeroes, `realloc` gives `Garbage` behind the items it keeps. `ArraySort`
pushes the first frame, `ArraySorting` is a step of QuickSort, and no other operation
takes place until the sort is over (`Idle`). `ArraySortInsert` compares the address of
an item, as the code does. `promised` is a history variable, the contents that the calls
so far have promised: `Next` pairs each call with its effect on it, taken from ItemSequence, so
that a call is held to its own promise, at its own index. A position that was skipped
holds what was in its slot. `sort_insert` cannot be held to its promise (section 4), only
to losing nothing.

**Containers** (`ds_stack.c`, the chain queue of `ds_queue.c`, `sm_list.c`). `use` says
what the program uses: a chain table as it is, or a stack, a queue, a list. Of
the last three both kinds are driven by the same calls, the chain of ChainTable
beside an instance of DynArray or CircularQueue; what a pop or a shift returns is
the item of the array, the chain's node goes to the client until `Destroy`. `ChainNext`
pairs the calls on a chain table with what they promise, as DynArray does; `Place` is
the position of the node that a call is given, `SortPlace` the one that the loop of
`sort_insert` finds, stated on the items.
**LifoStack** is what `ds_stack.h` promises.

## 3. The runs

| run | what it explores | bounds, and why they do | distinct states |
|---|---|---|---|
| `base` | one thread, re-entrancy, exceptions | 3 states at indexes 0, 1 and 3 (one hole), targets in, at the hole and out of range, 3 frames deep: a call in a callback of a call in a callback | 10 170 |
| `auto_driven` | one client and the metronome, exceptions, under fairness | 2 states; every crossing of two threads, between the two reads of the current state as well; any number of calls | 21 684 |
| `auto_stop_race` | one client and the metronome | the violation needs one client and one tick | violated |
| `sm_auto` | two clients, the metronome, the lock, re-entrancy, exceptions of `onEnter` | 2 states and a target that no state has, 2 frames: the inner call shows the lock taken twice | 963 251 |
| `metro` | one client, three threads, joins that time out, under fairness | three starts: one thread given up, one that replaces it, one more | 4 263 |
| `js_metro` | clients, tickers, timers, under fairness | interval 5 and delay 6, as 200 and 256 ms; two tickers of up to 1 each, and one round within another, together less than an interval; four timers: chains of several restarts | 191 924 |
| `clock` | two tickers, sleeps up to 4 late, clock back by up to 2 | interval 5, least sleep 1, up to time 20: several rounds, late and early, with rests between | 32 436 |
| `queue` | two items, capacities 1 and 3 | up to capacity 6 (1-2-4 and 3-6): expansions at every position of head and tail, cycled and not | 229 460 |
| `queue_copy` | as `queue` | one item is enough | violated |
| `containers` | a chain and its copy; stack, queue and list on a chain and on an array | four addresses, where first, last, inner and only node differ, and which are symmetric; two values beside the 0 of an erased or skipped item; an array of 2 slots and its expansion to 4, a ring of 2 and of 4; a state set at every index | 121 289 |
| `array` | every operation on an array, and every step of its sorts, under fairness | three values and garbage, capacities 1 (expanded twice, to 4) and 5: sorts of up to five items | 85 299 |
| `chain_remove` | a chain, with removal of the only node | | violated |

Properties, by what they are about:

* *Status and state.* `NotStoppedHasState`: a machine that is not stopped has a
  state, at every step and under any interleaving. `StoppedHasNoState`: the
  converse between calls. `PausedKeepsState` and
  `TicksOnlyRunning` restrict which step may change the current state.
* *Callbacks.* `OnlyCurrentIsLive`: no other state than the current one has been
  entered and not left, so `onEnter` and `onExit` alternate for each state; in
  C too, where nothing refuses a second start.
* *Driving.* `RunningIsDriven`; `NoLostTicker` (in `sm_auto`, where two clients cross between
  the registration and the write of the status); `AtMostOneDriver`, `NoOrphan`,
  `StartIsHeeded`, `StopIsHeeded`, `CallsReturn`.
* *Timers.* `HandleReturns` (the loop of the runner gives the event loop back),
  `ChainsEnd`, `KeepsTicking` (restarts do not starve the tickers).
* *Time.* `NeverEarly`, `NotInTheFuture`, `SleepsAtMostInterval`, `KeepsTheBeat`.
* *Containers.* `FifoSpec`, `ReturnedIntact`; `ListAsPromised` and `ItemsAsPromised`: each call
  on a chain and on an array leaves the items that it promises, so none is lost or
  doubled, and none moves that should not; `SortInsertKeepsOrder`; `NoLeak`, `CopyStays` and
  the ends of the chain in its `TypeOK`; the bounds of the buffer in the array's `TypeOK`;
  `StackSpec`; `KindsAgree`: the two kinds of a container hold the same after any calls. That
  holds the ring to its calls as well: FifoQueue alone would take a push that is lost for
  a step in which nothing happens, the chain beside it does not lose it.
* *Sorting.* `ReturnsSorted` (each call of the quick sort leaves its range in order;
  that the items are the same is part of `ItemsAsPromised`, that it stays between the ends of
  the array part of `TypeOK`), `SortEnds`.

What restricts the runs:

* In `base`, callbacks that run *before* the change (`evaluate`, `enterState`,
  `onExit`) do not call the machine, and no callback calls `start` or `tick`. With
  the former, a stop is undone by the change that goes on, and
  `StoppedHasNoState` fails; with the latter, a callback that starts and stops
  the machine leaves a running one with no state. No text of the repository
  allows or forbids either; both are in the list of hazards.
* Assertions are enabled in `base`, where transitions lead to holes; without them
  `NotStoppedHasState` speaks of machines whose targets are all in the list.
* `StoppedHasNoState`, and that the current state is live, hold until user code
  throws; what holds after that is in the other properties.
* `Settled` in `metro`: a client calls again when the thread it has made is past its
  `setup`. Before that, `setup` sets the flag again that `stop` has just cleared.
* `MayRemoveOnly = FALSE` in `containers`: removal of an only node breaks the chain, which
  is what `chain_remove` shows.
* A state may be set at any index below `MaxCapacity`. Where the array was expanded and the
  slot was not set, the array has garbage and the chain null: there the kinds part, and
  `SameAnswer`, the last part of `KindsAgree`, says that they part nowhere else. The models
  of the machine stay below that (`CapacityAssumption`).
* `StartIsHeeded` is about starts before a join has given up: a thread that was given up
  clears the flag when it ends, also that of a newer thread.
* `SortInsertKeepsOrder` is about items that are not less than the first one and less than the
  last: for others the code does not keep the order.
* `comparing` is one flag for `compare` and `assign`; clients that set one of the two
  sort nothing, like those that set neither.
* `clock` ends at `MaxTime`, so deadlock is not checked there.
* `HandleReturns` is about tickers that take less than an interval together, nested rounds
  included: when they take longer, the next round is due when one ends, and `handle` goes on
  for ever.
* `MaxNested` in `js_metro`: a ticker that starts the metronome whenever it is ticked would
  start round in round, until the JavaScript engine refuses the call; the machines, which are
  the tickers of the program, only add and remove themselves.

Fairness. `auto_driven`: every thread inside a method goes on, and the metronome's
loop repeats; both hold as the virtual machine schedules threads, user code
returns, and `Runner.handle` loops while `running`. Nothing forces a client to call.
`metro`: threads and calls go on, and `process` returns; a join is *not* forced to
time out, so `CallsReturn` means that the joined thread ends by itself. `array`: a sort
that has begun goes on, as its caller waits for it. `js_metro`: a call in the event loop
goes on, and the event loop gets to a timer that is due, and time passes, however often
clients call in between (strong fairness).

## 4. Where the code and its documents part

| run | what happens |
|---|---|
| `auto_stop_race` | A tick that has passed the status check sets the current state after `stop` has cleared it: the stopped machine keeps a state (`BaseMachine.java:181`: "set current state to null"). The window of `pause` is the same: with it `PausedKeepsState` fails. |
| `queue_copy` | The loop of `ds_circular_queue_copy` declares its item as data, gets an address, and pushes that. |
| `chain_remove` | `ds_chain_remove` of the only node leaves `tail` on freed memory; the next append is lost. |

Met, and not in a run of their own: in `sm_auto`, `on_enter` of the default state stops the
machine during `start`, which then writes `running` (`sm_protocol.h:236` says of it "Change
current state to 'default'"): the machine runs with no state;
`elapsed` counts from the last round, not, as `Ticker.java`
has it, from the ticker's own last tick; `ds_chain_sort_insert` looks at successors
only, so an item below the head goes second and the greatest goes first
(`ds_chain.h:126`: "to keep the chain sorted", which `SortInsertKeepsOrder` shows for the items in
between);
`ds_array_sort_insert` compares the address of each item, which its loop variable
holds, so it inserts at the front (`ds_array.h:118`: "to keep it sorted"); a `stop` of one thread
between the two reads in `getCurrentState` of another throws `IndexOutOfBoundsException` there;
if the other one is in `pause`, which has removed the ticker, and a `start` has crossed the
stop, the machine runs and is not ticked; `ds_array_find`
and `ds_array_copy` take the address for the item as the copy of a queue does;
`sm_create_delegate` clears 24 of 40 bytes.

## 5. What is proved

For every value of the constants, under the named assumptions of the modules:

* **AutoMachine_proofs**, the machine on its own. `MachineTypeCorrect`, for any threads:
  the invariant `MachineInv` adds to the types that a state a frame is *about* to make
  current is in the list at its own index (`Listed`), without which `SetCurrentState`
  could set an index out of range, and that only `start` and `resume` reach their last
  writes (`Shaped`). The lemmas `PushFacts`, `PopFacts`, `BecomeFacts` say what a step does
  to the stacks, for any number of threads and any depth.

  `NotStoppedKeepsState`, `StopLeavesState`, `EnterAndExitAlternate`, `PauseKeepsState`, for
  one thread whose callbacks call the machine in `LateCallbacks` only, when the method
  has nothing left to write but the status, and not to start it: the two hypotheses are
  the restrictions of the run `base`, and section 3 says what goes wrong without them.
  The invariant `CallInv` has three parts: every frame below the top is in a late
  callback, and while the outermost call is a start at work nothing that its callbacks
  call gets past its guard (`CallsOK`); what the frame at the top has read is still so
  (`Doing`: its `old` is the current state, its `new` is found where its index says); and
  the current state, for each status and each place of the calls (`StateOK`).
* **AutoMachine_proofs**, the driven machine. `TypeCorrect`, and `TickerNotLost`: if
  `onPause` and `onResume` do not throw (`SafeThrows`), a running machine is registered once
  all calls have returned, for any number of threads, any re-entrancy and any other
  exception, until (with several clients) a pause fails between its two reads of the
  current state (`torn`). Invariant: a running machine is registered, or some frame is
  *pending*, either to register it when it returns or to make it stop running. The lemmas on
  `AnyFrame` say which steps leave a frame of a kind somewhere on some stack.

  `DrivenKeepsState` (`NotStoppedHasState`), for one client (`Clients = {c}`) whose callbacks
  do not call the machine, with exceptions anywhere: a tick may have passed its guard long
  ago, so that it crosses a stop, and even the start after it. The invariant `DrivenInv` says of
  each frame what it relies on (`Placed`). A stop past its write finds the status stopped, a
  pause or a resume at work finds it not stopped, since only the client writes it; a
  start that has set the index keeps one, since a change of state that is not a stop's
  has a state to go to. That a tick sets an index in a machine already stopped is what
  the run `auto_stop_race` shows.
* **SMAutoMachine_proofs.** `SMStopLeavesState`, `SMEnterAndExitAlternate`, `SMTicksOnlyRunning`
  and `SMTickerNotLost`, for any number of threads, any depth and any exceptions (the last
  one needs `SafeThrows`), when callbacks call the machine after the last read of their
  method only (`SafeCallbacks`, those of the run `sm_auto`). The invariant `SMInv` says what
  the lock is for: at most one thread is inside the C methods (`LockOK`), the frames
  below its top have no use left for what they have read (`NestedOK`), so the frame at
  the top can rely on it (`DoingOK`), and a stopped machine with a state has a start or
  a stop at work (`SettledOK`). Registration is outside of the lock, and its argument is
  that of `TickerNotLost`.
* **Metronome_proofs.** `JoinsHaveThread`, for any number of clients: a call that stores or
  joins a thread has one. `OneDriver`, `DriverIsOwned`, for one client (a constant
  hypothesis, `Clients = {c}`; two that start at the same time leave two threads), any
  number of restarts, settled or not. The invariant says, for each place of the client,
  which thread may be alive: the stored one, the one it is joining, or the one it has
  just made.
* **MetronomeClock_proofs**, for all intervals, delays and corrections: `SleepsNotNegative`,
  `RoundsNeverEarly`, `TimesAreNotInTheFuture`, `SleepsBounded` and `BeatIsKept`.
  `SleepsBounded` needs `NotInTheFuture`, and that needs `NeverEarly` for the time of the
  round at hand; `KeepsTheBeat`, that late rounds do not add up, needs that between two
  rounds `lastTime` is what the tickers were given (`BeatInv`).
* **CircularQueue_proofs.** `QueueTypeCorrect`, `ShiftedItemStays`, and `QueueIsFifo`:
  each step of the ring is a step of FifoQueue on its contents, or a stutter. One
  lemma for each function says what it does to the contents; the case of the
  expansion is where part 2 of a cycled ring has to follow part 1.
* **DynArray_proofs**, for all capacities, values and depths of the sort. `ArrayInBounds`:
  no operation and no step of a sort is at a slot outside of the buffer. The invariant
  `Typed` adds to `TypeOK` that the two variables of every call of the sort stay between
  the ends of its range. `CallsReturnSorted`: the invariant `SortedBy` says of the call at
  work what is on either side of its variables, of each call that waits where its key is
  and which part its callee was given, and, of any two calls, that the inner one moves
  items on its side of the key of the outer (`Under`), without which a deep call could
  undo the order above it. `CallsKeepPromises`: the contents are those promised
  whenever no sort is going on. Most calls need one lemma on their effect; for the sort,
  `Kept` says that the items with the key put in the hole are a rearrangement of those it
  began with, and `OneOrder` that two rearrangements in ascending order are the same.
* **ChainTable_proofs** and **Containers_proofs**: `ChainIsWellFormed`, `NodesAreOwned`,
  `CopyIsKept`, for any nodes and data and for every use of the chain, `ChainIsList` (each call
  on a chain leaves what it promises), and `SortInsertIsInOrder`. The invariant `ChainInv` says that there are two
  sequences of nodes, without repetition or common nodes, along which `next` leads
  (`Links`) from the heads to the tails, and that what is allocated is on one of the two
  or shifted (`Heap`). Each operation has a lemma that names the two sequences after it, and
  what it does to the items, the loops of the sort included, one exchange at a time. What is counted there is a bounded loop, for which
  `CountUp`, from the least element of a set of numbers, stands in for induction. The
  hypothesis `MayRemoveOnly = FALSE` leaves out the removal of an only node, after which
  the tail is on freed memory, as `chain_remove` shows.

  `StackIsLifo`: the stack, with its twin on the chain, implements LifoStack. `ArrayInv`
  says that the capacity has room for the count and for the `Asked` items, and what slots
  hold.
  `ChainAndArrayAgree` (`KindsAgree`): the invariant `KindsInv` says, of each use, how the two
  kinds go together. The chain of a stack is the array from its end (`Mirrored`), that of a
  queue the contents of its ring (`Rings`, with the lemmas of CircularQueue_proofs by
  INSTANCE), and that of a list of states is the array item by item (`Alike`).
  The last is not inductive alone: a state may be set behind the count, so `Alike` speaks of
  all slots: behind the count they hold 0, as `calloc` has left the `Asked` ones, or, from
  there on, garbage. Neither theorem needs `MayRemoveOnly`, as only a program that uses a chain
  as such removes nodes. `ContainersAssumption` says that `NULL` and what `malloc` leaves in
  memory are not among the items, and that addresses are greater than items.

Model-checked only:

* liveness (`RunningIsDriven`, `StartIsHeeded`, `StopIsHeeded`, `CallsReturn`,
  `HandleReturns`, `ChainsEnd`, `KeepsTicking`, `SortEnds`), which is out of the prover's
  reach;
* the copy of a queue, whose loop is a fold over a sequence.

## 6. Not modelled

Objective-C threads: `SMThread` refuses a start while the task of the last one has
not ended, which the program never does, as `SMPrimeMetronome`
starts its one `SMThread` once. SMAutoMachine takes that for granted, as AutoMachine
does with `PrimeMetronome`. The JavaScript machine has the callbacks of BaseMachine and the
guards of SMMachine, on one thread; its `auto.js` is AutoMachine. `Duration` is a number of milliseconds with units; `WeakSet` forwards to a library class, and the garbage
collection of tickers is left out. `find` of the chain reads only; `find` and `copy` of the
array have the fault of the queue's copy, which `queue_copy` shows. The bubble sort of
`ds_base.c` is called by nothing; it is the double loop of `ds_chain_sort`. Assign and
erase functions set by clients, destruction of machines, and the JavaScript
distribution (generated) are left out.

## 7. Plan

Done: all modules of section 2, and the proofs of section 5. Every safety and action property
of the runs has a theorem. Next:

1. The hypotheses of the theorems about callbacks: `DrivenKeepsState` for callbacks that
   call the machine in `LateCallbacks`, as `NotStoppedKeepsState` has them.
2. `SMThread`: a start that is refused while the old task is in its run loop.
3. A history of what the calls on the ring promise, as DynArray and Containers have one, so that
   FifoQueue no longer needs the chain beside it to notice a push that is lost.
