# libep in TLA+

libep is an event loop in C header files: a poll engine (epoll, kqueue or
select), two task queues, timers on a skiplist, the loop that goes through them,
and functions that make sockets. These modules model it at the level at which it
can go wrong: the pointers of the lists and of the skiplist, the walks over them
that callbacks interrupt, the buffer of events between two waits, the order of a
round of the loop, and the error paths between the system calls. TLC checks them
on small instances. For the task queue, the timers, the poll engines and the
sockets the TLA+ proof system checks the safety invariants for every instance.

Paths such as `ep_timer.h:108` are below `src/src/`.

## The system

| part | state | operations | relies on |
|---|---|---|---|
| event loop, `ep.h` | `ep_state_t`: a poll engine, the nexttick and everytick queues, the timers | `ep_init`, `ep_fini`, `ep_add/mod/del`, `ep_iterate`, `ep_for_each`, `ep_settimeout`, `ep_setinterval`, `ep_clear*`, `ep_nexttick`, `ep_everytick`, `ep_cleartask` | all but sockets and `singly_list.h` |
| task queue, `ep_task_queue.h` | a list of `ep_callback_t` | `push`, `cancel`, `run` (unlink, call, free), `run_keep` (call), `run_once`, `fini` | `list.h`, `ep_callback.h` |
| intrusive list, `list.h` | `next` and `prev` of each head and entry | add, delete, move, splice, the `for_each` walks | |
| timers, `ep_timer.h` | a skiplist of `ep_timer_node_t`; `now`, the time read last | `updatetime`, `run_after`, `run_every`, `execute`, `nearest_diff`, `clear`, `fini` | `skiplist.h`, `gettimeofday` |
| skiplist, `skiplist.h` | `forward` pointers on up to 8 levels | insert, delete, `extract_lte`, `shift_lte`, `extract`, `shift`, `for_each_clear` | `random` |
| epoll engine, `ep_epoll.h` | epoll descriptor, buffer `ee`, `ready` | `init`, `fini`, `add`, `mod`, `del`, `wait`, `fetch` | the kernel |
| select engine, `ep_select.h` | descriptor sets, `maxfd`, `data`, buffer, `ready` | the same | `select` |
| kqueue engine, `ep_kqueue.h` | kqueue descriptor, buffer, `ready` | the same, with two filters per descriptor | the kernel |
| engine selection, `ep_pollapi.h`, `platform.h` | none (preprocessor) | `ep_pollapi_*` | the three engines |
| sockets, `ep_sock.h`; flags, `ep_fcntl.h` | none between calls | connects, servers, accepts, read, write, options | system calls |
| singly linked list, `singly_list.h` | `begin`, `end` | push, unshift, shift, splice | |

The loop runs in one thread. What makes it hard is that control comes back to
the client in the middle of its loops: a task or a timer callback runs while
`ep_task_queue_run`, `ep_task_queue_run_keep` or `ep_timer_execute` hold a
pointer into the structure they walk, and may push, cancel, set and clear; and
between two calls of `fetch` the client closes and reuses descriptors whose
events are still in the buffer. Time and the peers of the descriptors move on
beside it. The socket functions may be called in any thread, and share the
numbers of descriptors with all others. Nothing is persisted, so there is no
crash recovery to model.

One round (`ep_iterate` with an empty buffer, `ep_for_each` always) is: run the
nexttick queue, call the everytick queue, execute at most 128 due timers, wait
until the nearest timer or for the caller's waittime, fetch.

What makes each part correct:

* task queue: the list is one ring; nothing leaks and nothing is freed while it
  is linked; a pass never reads freed memory, calls each task it started with
  once, in order, and ends;
* lists: every operation does to the sequences what its name says, whichever of
  the nodes it is given are the same;
* skiplist: all levels agree, the list is ordered and first in first out among
  equal scores, and what is extracted is really cut off;
* timers: none runs early, none is called twice in a walk, none that is due is
  passed over, none is lost; a walk ends;
* engines: what `fetch` returns is an event of the last wait, of a descriptor
  that is still registered, and was asked for; every registered descriptor is
  polled; a call that fails half way leaves no more or less than it says;
* sockets: no error path loses a socket, closes another's, or returns one that is
  not what was asked for;
* loop: it does not sleep past a timer, hands out every event before it starts
  another round, and serves every task, timer and descriptor in the end.

The hazards are listed line by line in `PROJECT.json`.

## The modules

| module | models | builds on |
|---|---|---|
| `TaskQueue` | `ep_task_queue.h` and the part of `list.h` it uses, with pointers | |
| `FifoTasks` | what a task queue promises: a sequence and a cursor | |
| `TaskQueueFifo` | the refinement from `TaskQueue` to `FifoTasks` | both |
| `TaskQueueHistory` | a ghost: what a pass still owes | `TaskQueueFifo` |
| `MCTaskQueue` | the fairness of a pass, for TLC | `TaskQueueHistory` |
| `Deques` | what the list headers promise: a sequence for each head | |
| `List` | `list.h`, with pointers; refines `Deques` | `Deques` |
| `SinglyList` | `singly_list.h`, with pointers; refines `Deques` | `Deques` |
| `MCLists` | either of them, for TLC | both |
| `OrderedList` | what the skiplist promises: a sequence ordered by score | |
| `SkipList` | `skiplist.h`, with the forward pointers; refines `OrderedList` | `OrderedList` |
| `Timer` | `ep_timer.h` | `OrderedList` |
| `TimerHistory` | ghosts: real due times, what a walk owes and has called | `Timer` |
| `MCTimer` | the limits given to the walks | `TimerHistory` |
| `Epoll`, `Select`, `Kqueue` | `ep_epoll.h`, `ep_select.h`, `ep_kqueue.h`, each with the kernel as far as it is used | |
| `PollEngine` | what an engine promises to the loop | |
| `PollApi` | `ep_pollapi.h`: one of the three engines; refines `PollEngine` | all four |
| `MCPollApi` | what may be the case at a descriptor | `PollApi` |
| `EventLoop` | `ep.h`: `FifoTasks` twice, `Timer`, `Epoll` and the order of a round | those |
| `MCEventLoop` | the waittimes given to the loop | `EventLoop` |
| `Sock` | the connects, servers and accepts of `ep_sock.h` | |
| `TaskQueueProofs`, `ListProofs`, `TimerProofs`, `TimerHistoryProofs`, `SkipListProofs`, `PollApiProofs`, `SockProofs`, `EventLoopProofs` | the theorems | the modules they are named for |

The loop is composed of the abstract queue, not of the pointers, because
`TaskQueue` is shown to implement it; the timers use `OrderedList` because
`SkipList` is. The operators marked "fault" in a comment are no part of the
model: each is a definition with a plausible bug, and putting it in the place of
the right one makes a property fail, which shows that the property can.

### TaskQueue

`next`, `prev` are the fields of the list heads, `alloc` is what malloc has
handed out. A pass is several steps: `StartRun` and `StartKeep` are the
initialisation of the loop, `RunCall`/`KeepCall` go up to the call of a callback,
`RunReturn`/`KeepReturn` from its return to the next test, `Finish` leaves. `pos`
and `n` are the cursor of `list_for_each_safe`. `Push` and `Cancel` may happen
between call and return any number of times. malloc may return any address that
is not allocated, so a freed task's address comes back while a cursor may still
hold it; a push whose malloc fails changes nothing and is no step.

`MayCancel` is the contract the code imposes and nowhere states: a callback of
`ep_task_queue_run` must not cancel the task that is next, and one of
`ep_task_queue_run_keep` must not cancel the one that is running. With
`SafeCancels = TRUE` callbacks keep it; with `FALSE` they cancel any queued task.
After a cancel that breaks the contract the code reads freed memory, and the
model stops there. An id is used only while its task is queued.

### List, SinglyList

Each operation is the assignments of the C function in their order, over fields
indexed by node, so that an assignment may overwrite what a later one reads. In
`List` a client puts only what is not linked, and deletes and moves what is
linked or was initialised; `list_splice` leaves the head it empties pointing
into the other list (`stale`), and it must be initialised before it is used.

`singly_list.h` keeps, in `end`, the address of the pointer that the next push
writes. `shift` resets it when nodes are left instead of when none are, and
`splice` does not move it, so after either nothing may be pushed until the head is
initialised again or a node is unshifted to it empty: that is `MayAppend`, and
under it `SinglyList` implements `Deques`. The walking macros of that header name
a field the head does not have and do not compile.

### OrderedList, SkipList

A node's height is random in the code and any of 1..`Level` in the model.
`Insert` is `node_init` and `insert`; `ExtractLte` is `extract_lte` with the
initialisation of the `skiplist_shift_lte` loop, whose position is `node` and `n`.
`Abandon` is the `break` that `ep_timer_execute` leaves the loop with.

`skiplist_shift` cuts the header off from the upper levels of the nodes behind
the one it takes, whose own pointers stay. A search that starts at the header no
longer sees these levels, so a delete or an extraction would leave a pointer to
the node it removes. The contract the model states for it: after such a shift only
inserts and shifts, until the list is empty.

### Timer, TimerHistory

`cur`, `rest` are the walk of `ep_timer_execute`, `pc` whether its callback runs,
`left` the rest of `max_times`. The time of day is an argument of the actions
that read it and may go back. Scores are computed modulo `U64`, and
`nearest_diff` goes through a conversion to an int with `U32` values, so
wraparound and truncation happen in small instances. `MayClear` is the contract
for clearing: not the running timer and not one that the walk has already cut
off. `ep_timer_init` does not set `now`, so it starts with any value.

`TimerHistory` adds what the properties have to remember: when a timer is due
without wraparound, the time a walk was given, the timers it owes a call, how
often it has called each, and whether any walk was given more than its limit.

### Epoll, Select, Kqueue

The kernel's part (`open`, `interest`, `knote`, `io`, which descriptors a wait
reports) is external and level triggered. In `Epoll`, closing a descriptor
forgets its registration, a wait fills the buffer with up to `sz` triggered
descriptors in any order, or fails with a signal. In `Select`, `select` leaves
the bits of the descriptors that are ready, counts them, and fails with EBADF
when a watched descriptor is closed. The data attached to a descriptor is
represented by the descriptor it is indexed with.

In `Kqueue` a descriptor has a read filter, a write filter, both or neither.
`ep_kqueue_mod` and `ep_kqueue_del` are two system calls, the second of which may
fail after the first has done its work: `ModFails` and `DelFails` are the calls
that return -1 and have changed something. Disabling a filter that was never
added fails, and the second call of `mod` passes `data.ptr` for the timeout, which
with most data is a bad address. A call that fails at once changes nothing and is
no step. A descriptor may have two events in one batch.

### PollEngine, PollApi

`PollEngine` is what the loop above may rely on, whatever the engine: a wait
collects events that were asked for and are the case, misses no descriptor the
engine polls unless the buffer is full, and `fetch` hands these out, each once, the
last first. `PollApi` starts with one of the three engines and implements it for a
client that keeps these contracts:

* while events are left, the client changes only the descriptor it fetched last
  (`MayTouch` of each engine); with kqueue not even that if it has two filters,
  because the event of the second may be among those left;
* with select, only one event is asked for at each descriptor (`SelectMayAsk`),
  because it counts events and not descriptors (see `SelectEvents`);
* with select, `mod` and `del` are called only for a descriptor that was added
  (`MayChange`): `ep_select_mod` does not look, and would put another into the sets
  without moving `maxfd`; epoll and kqueue refuse such a call;
* with select, a descriptor closed without `ep_del` makes waits fail until it is
  deleted (`DeletedFirst`).

The descriptors that select polls are those up to `maxfd`, which are none after the
highest was deleted (see `SelectDel`): the promise of a complete wait is made for
the polled ones only. `asked` is what the client has asked for: what each call that returned 0 says, and
of the calls that fail half way the half they do.

### EventLoop

`pc` is where the loop is; `user` and `body` are the client's own code. Each
action moves the loop and the part whose turn it is. `until` is when the wait in
progress times out. Callbacks do not call the loop themselves, a call of
`ep_add` that fails changes nothing and is no step, and `clock` does not go back
here (it does in `Timer`).

### Sock

Every function that makes a socket is a table of steps (`TcpConnect`,
`UnixServer`, ...): what is done to the socket, and what the code does when that
fails: close it and return -1 (`err`), return -1 (`leave`), return it as it is
(`ret`), close it and return its number a moment later (`closed`: `CloseFirst` and
`ReturnClosed`, between which the number may become another thread's), or close it and
try the next address (`next`). `Done` and `Fails` work these tables off, `InProgress` is a
non-blocking connect that returns, `Socket` and `SocketFails` go through the
addresses that `Resolve` has yielded, `Accept`, `Interrupted` and `AcceptFails` are
the accept loop. `Opens` and `Closes` are other threads: a number that was closed
can be theirs a moment later. `sock` remembers for each open descriptor who made
it and what was done to it.

Four things the tables make visible, and the properties state as exceptions: the
servers return -1 without closing the socket when `setsockopt`, `bind` or `listen` fail;
a socket that could not be bound to its source address is returned unconnected;
`ep_unixconnect`, when it fails, and `ep_unixconnect_nb`, always, return the number of
the socket they have closed, which may be another thread's by then; and a server whose `getaddrinfo` fails frees an
uninitialised pointer and may crash.

## The runs

| run | shows | instance |
|---|---|---|
| `TaskQueue` | list sound, nothing leaks, cursor alive, passes complete, first in first out, passes end | 4 addresses: tasks before, at and behind the cursor, and one to reuse |
| `TaskQueueCancel` | a violation, see below | the same, without the contract |
| `Lists` | next and prev agree, entries taken off lead nowhere, both headers implement `Deques` | 2 heads, 3 entries: a splice into another list, on either side of an entry |
| `SkipList` | levels nested, extracted nodes cut off, refinement of `OrderedList` | 3 nodes, 2 levels, 2 scores: ties and every mix of heights |
| `Timer` | ordered, alive, never early, called once, none passed over, lost only at the limit, walks end | 2 timers, 4 time values, delays 0, 1 and one that wraps round, limits -1 to 2 |
| `PollApi` | buffer fresh, engines watch for what was asked, EBADF only for what was not deleted, refinement of `PollEngine` | each engine; 2 descriptors and one beyond FD_SETSIZE, 2 data values, a buffer of 2; nothing, data both ways, or a reset connection at each |
| `SelectEvents`, `SelectDel` | violations, see below | two kinds of event; no close without del |
| `LoopEvents` | each part works only when it is its turn; events not lost | 1 task of each queue, 1 timer, 2 descriptors |
| `LoopTimer` | the wait ends in time; every timer whose time comes is called or cleared | 2 timers, delays and periods 1 and 2, clock 0 to 2, 1 nexttick task, waittime -1 or 1; 2^31 ms is 4 |
| `LoopServes` | every ready descriptor is handed out; nexttick tasks are served with everytick callbacks posting them | 2 descriptors, 1 task of each queue, waittime -1 or 1 |
| `Sock` | no socket lost, none of another's closed, what is returned is fit, calls return | 2 descriptors, 2 addresses, all 16 calls |

The bounds are the addresses, nodes and ids (a client that never has more at
once), the time values (`U64`, `Clock`, `MaxClock`), the addresses that getaddrinfo
yields and the sets of delays, limits and waittimes. Two tasks besides the cursor
and its successor, two timers that are due together, two descriptors in one batch,
three entries (one and both its neighbours), a second address and a second
descriptor for another thread are where the code's loops and error paths first do
something that one alone does not. Where the clock stops at `MaxClock`, a wait with
a timeout still times out. In `LoopTimer` the clock goes to 2, so that an interval of
length 1 is called twice, a timer of 2 is reached by a sleep with no limit or by two
of the waittime 1, and a timer of 1 set at time 1 is reached by a later round; a timer
whose time is beyond the clock's end is never due and `TimerServed` does not ask for
it. `TimerServed` is about being called, not about being called in time: a loop that
takes a stale time and wakes late serves it too, and is caught by `SleepsInTime`.
`LoopTimer` has no everytick tasks and `LoopServes` no timers; `LoopEvents` has both. A
timer could only shorten the wait after which a nexttick task is called. In
`PollApi` the engines that have no FD_SETSIZE get no
descriptor beyond it.

Deadlock is checked in every run but `Sock`, where the process may crash.

### What the violations show

* `TaskQueueCancel`: "iterate over a list safe against removal of list entry"
  (`list.h:220`) is true only of the current entry; a callback that cancels the
  next task makes `ep_task_queue_run` go on in freed memory.
* `SelectEvents`: `ep_select_wait` takes the number of bits for the number of
  entries; a descriptor both readable and writable makes `fetch` return an entry
  that the wait did not write.
* `SelectDel`: `ep_select_del` looks for the new `maxfd` in a set that nobody
  fills, so deleting the highest descriptor stops the polling of all others.

More facts that no document of the repository contradicts outright, and that a
client should know: with the select engine, closing a descriptor without
`ep_del`, as the readme's example does, makes every later wait fail with EBADF; a
task that a timer or everytick callback gives to `ep_nexttick` is not considered
by `ep__waittime`, and with waittime -1 it may sleep as long as nothing else happens,
which is why `NextTickServed` has its first disjunct; an `ep_timer_execute` with more
due timers than its limit loses the rest for good; the contracts of kqueue, of
`skiplist_shift` and of `singly_list.h`, and the four exceptions of `Sock`, all above.

### Fairness

`TaskQueue` and `Timer`: weak fairness of the steps of the walk, since the walks
are straight-line code and callbacks return. `EventLoop`: weak fairness of the
loop's steps for the same reason (a wait ends when something is ready or the
time is up), of `Tick` since time goes on, and of the client calling the loop,
which is what `while (1)` around `ep_iterate` does. `Sock`: weak fairness of the
steps of a call, except those of an accept, which waits for a peer. Nothing is
assumed of callbacks that post again and again, of descriptors, of other threads
or of signals; liveness properties name what they need, such as "callbacks do
not post for ever".

## The proofs

Each proof has the same form: an inductive invariant `IInv`, a lemma for each
action that it keeps it, and the properties as its consequences. The assumptions
are the named `ASSUME` of each module and, where the code imposes a contract, that
the client keeps it.

`TaskQueueProofs`: for any set of addresses and under the contract
(`SafeCancels`, a hypothesis of each theorem), `TypeOK`, `ListSound`, `NoLeak`,
`CursorAlive` and `CursorOnRing`. None of the invariants but their conjunction is
inductive: that a cancel keeps the ring needs `ListSound`; that the loop's list
operations apply needs `CursorOnRing`; that the saved successor is alive needs
`NoLeak`, which equates what is allocated with what is linked; and `NoLeak` needs
that the running task is not linked. `IInv` adds where the cursor can be in each
mode (`CursorPlaced`). `ListAddTailSound` and `ListDelSound` say what the two list
operations do to a sound ring; `RingFacts` which neighbours they can meet.

Its second half: for any finite set of addresses (`TaskFinite`: memory is
finite, and the walk of `OrderOf` is cut off at as many steps), `RingWhole`,
`ImplementsFifo` and `PassServesAll`. `ListSound` alone would allow a second ring
beside the one of the head, and whether there is one is not a question about any
fixed number of links. The invariant `OneRing` therefore says that `Order`, the walk,
is a `Walk`: a sequence without repetitions of all that is linked, each linked to the
next. The steps are shown on walks, with the new one given: appended to by
`list_add_tail` (`AddTailWalk`), without one entry after `list_del` (`DelWalk`);
`OrderIs` then says that links have no walk but the one `OrderOf` finds. That is
the only induction: the prefixes of a walk satisfy the equation of the recursive
function in `OrderOf`, and a function that satisfies it too and differed would differ
for a least number of steps. `NextFifo` maps each step of the pointers to its step of
`FifoTasks`, with the cursor where the loop macros keep it. For `PassServesAll`, what
a pass owes lies ahead of its cursor (`Owing`): on a run pass it is queued, on a
keep pass it comes after the called task.

`ListProofs`: for any finite set of heads and entries (`ListAssumption`, which also
keeps the two and NULL apart), `BothWays`, `OffApart` and `ImplementsDeques`. A list's
contents are a walk along the pointers, and an operation on one list must be shown
to leave every other walk alone, which the pointers themselves do not say. The
invariant `Shape` therefore names the contents: a sequence for each head, the
fields of each live head a ring along its sequence, no entry at two places (`Apart`),
and what is off every list leading into none. Every operation comes down to three
changes of shape: a chain is linked in at a position (`ShapeInto`), the link at a position
is taken out (`ShapeOutOf`), a list loses its entries (`ShapeLoses`); a move is the
second and the first, a splice the third and the first with the whole list as the chain.
That nodes alias each other is where it gets close: the neighbours at the place may be
one node, or the head itself, and the assignments are shown to be right in each case
from the positions being apart. `WalkIs` says that a ring has no walk but its own
sequence, by a least counterexample, so that `Walk`, by which `Deques` is mapped, is that
sequence.

For `singly_list.h` it proves `SinglyListIsDeques` of `S!Spec`, the half of the run
`Lists` that uses it. Its invariant `Sound` names the contents too: every live head
leads along its entries to NULL (`Leads`), no entry is at two places, and the end of a
head that may be appended to is its last cell, a field of an entry or the head itself.
A push and a splice link a chain in at the end and an unshift at the front
(`ChainsInto`, with `LeadsInto` for the one list), a shift takes the first out
(`ChainsOutOf`). The cells a step writes must lie on no other list, which is why the
spliced head loses its entries first (`ApartLoses`, which both headers use); the walk
is again the sequence (`CellWalkIs`). What the theorem does not cover is what the model
excludes: an append to a head whose end `singly_list_shift` or a splice has left behind.

`SkipListProofs`: for any finite set of nodes, any number of levels and any heights,
`TypeOK`, `LevelsNested`, `ExtractedApart` and `ImplementsOrderedList`. Memory being finite
(`IsFiniteSet(Node)`) bounds the walk in `Along`; that the walk stops at a null
pointer before is shown, not assumed: `Leads(F, i, x, q)` says that the pointers of level
`i` lead from `x` along `q` to null and repeat nothing, and `AlongIs` that there is then
no path but `q`. `LevelsNested` is not inductive, because `shift` gives the header the
pointers of its first node: what the header reaches must be known of every node. The
invariant `Tower` therefore says that from each node on the list, not only from
the header, every level leads on along nodes that the level below leads along,
and that the lowest level is in order. Where the descents of `insert` and
`extract_lte` end is `LastLteIs`, where that of `delete` ends `BeforeIs`: both go level by
level from the top (`Downward`), and each needs that stopping on a level does not
overshoot on the one below. What the assignments do to the paths is shown for each
change: `LinkedTower` for insert, `UnlinkedTower` for delete, `PartedTower` for the cut,
`ShiftedTower` for shift. A delete unlinks a node from one predecessor on each level,
the one its descent finds; that there is no other (`OnlyOne`) holds of a list that was not
shifted, where a node has no pointer on a level the header does not reach (`Whole`).
This is where the contract for shift is needed. What the loop over the extracted
nodes has yet to reach is apart from all that is listed, so no insert or delete
of its body changes it (`RestSame`).

`TimerProofs`: for any set of timers, any clock and any width of scores, `Sorted`
and `BatchAlive`. The first half is about `OrderedList` alone: what insertion,
removal and extraction do to a sequence that is in order and repeats nothing
(`InsertedIs`, `RemovedIs`, `SubSeqIs`), and that `Upto`, a CHOOSE, has something to
choose (`UptoIs`, the least position with a greater score, by well-foundedness). The
point where the two invariants need each other: a callback's `Reinsert` changes
a score, which keeps the order of list and walk only because the timer is on
neither, and that is `BatchAlive`; `WalkPlaced` says that the walk leaves nothing
behind.

`TimerHistoryProofs`: `NeverEarly`, `OnceEach`, `DueServed`, `LostOnlyByOverrun`. What a
walk owes must be exactly what it has yet to reach (`OwedInBatch`), and a walk that
was not given too much must not be broken off before it has reached all: for
that `RoomLeft` relates the limit to the length of the walk at every step.
`NeverEarly` compares with a score that may have wrapped round, which
`DueIsScore` accounts for.

`PollApiProofs`: for any FD_SETSIZE, buffer, data and events, `TypeOK`, `AsAsked` and
`DeletedFirst`, with an invariant for each engine. That nothing stale is in the buffer
is not inductive: the contract lets the client change what it fetched last, so
nothing of that descriptor may be left in the buffer (`EpollGot`; for kqueue, `KqueueGot`,
with the filter). `WatchesAsAsked` assumes `NoExcept`, that nobody asks for
exceptional conditions, if the engine is kqueue, which does not have them.

Its second half: `FreshBuffer` and `ImplementsPollEngine`, for all three engines and
under the same assumption for kqueue (and that NULL is no event, `NullIsNoEvent`).
`FetchOne`, `FetchNone` and `WaitIs` reduce the refinement to what an engine has to
show: that its buffer leads to what `PollEngine` has pending. A wait hands over a
batch: for epoll and kqueue, a sequence without repetitions of what is ready that is as
long as that or fills the buffer, so that with room it has all of it (`BatchHasAll`).
Select's wait fills slot j with the j-th lowest descriptor that has a bit set, and
takes the number of bits for the number of slots. `BitsAreLow` makes the two equal,
by a bijection between bits and descriptors, from `SelectOne`: of each descriptor one
event is asked, which is the limit on clients of select stated above. That the pass
leaves no slot out and reaches every descriptor follows from the ranks of a finite
set of numbers, by counting (`RankRises`, `RankReachesAll`). `FillInv` keeps between
waits that the slots up to `ready` hold events of known descriptors, in ascending
order.

`SockProofs`: for any descriptors and number of addresses, `TypeOK`, `NothingLost` and
`HeldOpen`. That a socket left open by a failing step is a server's needs that the
steps in progress are those of the call's kind (`InSetup`), which is shown from
the step tables (`StepsFit`); that a close hits no descriptor of another thread
needs that `s` is reset whenever no socket is in progress (`Typed`).
`ReturnedFit` is on top of it: `Progress` says that the socket has
had done to it what the steps of its table before those left do; each table is
shown to be sound step by step, as the code builds it (`Extend`, `ExtendAsked`): a
step that may fail and still return the socket comes only where what it leaves
undone is one of the exceptions `ReturnedFit` names.

`EventLoopProofs`: for any tasks, timers, descriptors, waittimes, buffer and clock,
`TypeOK`, `SleepsInTime` and `EventsKept`, and `LoopIsComposed`: what the loop does to
each queue is a behaviour of `FifoTasks`, and to the timers one of `Timer`, so that the
theorems of `TimerProofs` hold in the loop (`TimersInLoop`). `SleepsInTime` needs
that no code of the client runs during the sleep (`Phases`, `ClientGone`), and that
the conversion to int keeps a distance below 2^31 (`RightDistance`); `EventsKept`
(the buffer neither shrinks nor changes unhanded) needs that `ep_iterate` does a round only with an empty buffer and comes to its wait
with it (`Drained`), although callbacks change the registrations meanwhile.

Only model-checked:

* liveness (`PassEnds`, `WalkEnds`, `NextTickServed`, `TimerServed`, `EventServed`,
  `CallEnds`), which the provers do not do under fairness.

## Not modelled

* `ep_sock.h`: `ep_read`, `ep_write` (a loop over one descriptor with no state
  between calls), the datagram calls, name and address conversions, and the
  functions that set one option; of `ep_fcntl.h`, `ep_block`, which has no caller.
* `skiplist_extract(min, max)`: no code and no test calls it, and nothing says what
  it is to return; it reads through a pointer it has not checked.
* callbacks that call the loop, use of an id after its task or timer is gone, and
  two threads in one loop: outside of what the code supports.
* failed allocations in `ep_init` and the engines' `init`, and calls of `ep_add` and the
  like that fail without having changed anything.
* which of more than `sz` ready descriptors the kernel reports first, so
  `EventServed` is checked only with a buffer that holds all of them.
* the test programs, which were read for how clients use the library.

## What is left

1. `EventLoop` over `PollEngine` instead of `Epoll`, now that all engines
   implement it.
2. `ep_read` and `ep_write` with short transfers and errors.
