# romio: a verification development in TLA+

romio is an asynchronous networking library: sockets whose operations are
polled by tasks of any executor, and a reactor thread that turns edge-triggered
kernel events into wakeups of those tasks. What is hard in it is the readiness
protocol between the kernel, the reactor thread and the tasks, the lock-free and
sharded data structures it runs on, and what futures that are cancelled, moved
and polled again make of it. That is what these modules model.

## The system

| part | source | state | operations |
|---|---|---|---|
| readiness masks | `reactor/mod.rs` (`Direction::mask`, `platform`) | none | the masks of dispatch, of registering, of polling and of clearing |
| `ScheduledIo`, `Reactor::dispatch` | `reactor/mod.rs` | readiness word, two `AtomicWaker`s per resource | `fetch_or`, take both wakers, wake them |
| reactor life cycle | `reactor/mod.rs`, `background.rs` | strong and weak references to `reactor::Inner` | `run`, `Inner::drop` (wakes everybody), `HandlePriv::inner` (upgrade) |
| `Registration` | `reactor/registration.rs` | state word (INIT, LOCKED plus node pointer, READY), `inner` (handle, token) | `register2`, `poll_ready`, `deregister`, drop |
| `PollEvented` | `raw/poll_evented.rs` | one readiness cache per direction | `poll_*_ready`, `clear_*_ready`, `poll_read`, `poll_write`, `poll_flush`, drop |
| sharded `RwLock` | `reactor/sharded_rwlock.rs` | one parking_lot lock per shard | `read`, `write`, drop of the guards |
| thread indices | `reactor/sharded_rwlock.rs` | `mapping`, `free_list`, `next_index`, a thread-local | initialiser and drop of `REGISTRATION` |
| slab and tokens | `reactor/mod.rs` | slab of `ScheduledIo`, ABA counter | `add_source`, `deregister_source`, `drop_source`, guard check |
| `Background` | `reactor/background.rs` | shutdown word, `shutdown_task` | `shutdown_now`, `Shutdown::poll`, `run`, drop, forget |
| fallback reactor | `reactor/mod.rs` | `HANDLE_FALLBACK` | `set_fallback`, `fallback`, `try_current` |
| sockets | `tcp/`, `udp.rs`, `uds/` | a `PollEvented` each; `ConnectFuture`'s state | poll, operate, clear on `WouldBlock`; connect; accept |

How they interact: a task polls a socket; `PollEvented` makes sure the resource
is registered (`Registration::register2`, which adds it to the slab under the
write lock), looks at its cache, and otherwise asks the registration, which
consumes bits of the readiness word under a read lock and registers the task's
waker if there are none. The reactor thread ors event bits into the same word
and takes the wakers, under a read lock too. When an operation blocks in spite
of the readiness, the cached bit is cleared and the registration polled again.
The reactor is referenced weakly from everywhere; while a task is inside a
registration it holds a strong reference, so that the last one to leave runs
`Inner::drop`.

Hard behaviours, each listed as a hazard with its line in `PROJECT.json`:
dispatch between a look at the readiness and the registration of the waker;
edges that are reported once only; two directions sharing one word; HUP, which
is never cleared; the reactor dying at any moment; two first polls racing to
register; a task that arrives while the other one registers; registrations that
fail while somebody waits for them; a lock taken shard by shard; thread
indices that are given back and used again; a shutdown that races the loop of
`run`, a `park` that returns for no reason, and who drops the last reference to a reactor; slots and descriptor
numbers that are used again while old events wait in a buffer; the race for the
fallback reactor, whose handle is out before its thread runs; futures that are
cancelled or change tasks; connections that end in the middle of a `connect`.

## The modules

- `Readiness` – the masks, as sets of bits, with `Hup` a constant: `{"hup"}` on
  unix, `{}` on windows. Extended by the next two.
- `PollEvented` – one registered resource, the reactor thread, a reading and a
  writing task. Every access to the readiness word and to the wakers is a step
  of its own (`PollReadyFetchAnd`, `PollReadyRegister`, `PollReadyRetry`;
  `DispatchFetchOr`, `DispatchTakeWriter`, `DispatchTakeReader`,
  `DispatchWake*`). The kernel is a set of readiness bits (`level`) and whether
  the descriptor is on epoll's ready list (`edge`): a bit that arrives makes an
  edge even if it was set already, and one `ReactorPoll` reports the current
  bits and uses the edge up. An operation may use its bit up or not; end of file
  stays readable. `clearing` tells the poll of `clear_*_ready` from an ordinary one.
- `NotifySpec` – the promise to the tasks in four variables: who could be served
  (`able`), who waits, to whom a wakeup is on its way (`due`), and the life of the
  reactor. While the reactor runs, nobody waits for what is there without being
  due (`Notice`, `Pend`), being due is never taken back except by the task's own
  leaving or the stop of the reactor, and `End` leaves nobody waiting.
  `PollEvented` and `Sockets` implement it (`Notify`, `ImplementsNotify`).
- `PollEventedProofs` – its proofs.
- `Registration` – how a registration comes into being: `register2` step by
  step, the state word and the node pushed on it, and the polls that race with
  it. Polls in state READY are coarser here than in `PollEvented`.
- `RegistrationProofs` – its proofs.
- `ShardedRwLock` – the lock shard by shard, with the registry of thread indices
  and threads that unregister (and use the lock as index 0 from then on), exit
  and are replaced. `RwLockSpec` is the abstract reader-writer lock it
  implements, under the mapping "threads inside `read`/`write` guards".
- `ShardedRwLockProofs` – its proofs.
- `Background` – the life of a reactor: `owner` is where the creator of the
  `Background` is in `new`, `forget` or `drop` (`shutdown_now`, then
  `Shutdown::poll` under `block_on`), `reactor` where the thread is in `run`,
  `strong` the set of those who hold an `Arc` of `reactor::Inner` (the thread,
  the owner inside `wakeup`, tasks inside `poll_ready`). The owner's `park` returns
  when its waker was woken (`Unpark`) and at any other moment too (`ParkReturns`:
  spuriously, on a token left over, or because `Inner::drop` wakes an older waker
  of the same thread); `block_on` then polls `Shutdown` again. A task's poll is two
  steps here, upgrade and the rest, since `PollEvented` has its detail. `run`'s
  branch for `SHUTDOWN_IDLE` is left out because nothing stores that value.
- `BackgroundProofs` – its proofs.
- `Reactor` – the table of resources. A resource is opened with a descriptor
  number the kernel is free to give out again, registered (`AddGuard`,
  `AddInsert`, with `AddRefused` and `AddFails`), and dropped in the three steps
  of `PollEvented::drop` (`Deregister`, `Close`, `DropSource`). Tokens carry
  `serial`, the number of the `add_source` call, of which the code keeps the part
  that `Guard` computes; the serial itself is there for the properties. `Poll`
  moves descriptors of the ready list into the buffer `events`, and `Dispatch`
  takes one of them, looks up the slot and compares the guards. `heard` records
  whose events a slot's readiness stands for.
- `ReactorProofs` – its proofs.
- `Fallback` – `HandlePriv::fallback` with `set_fallback` step by step. `weak`
  counts the weak references of each reactor, the raw one in `HANDLE_FALLBACK`
  included; `runner` says who owns the `Reactor`: the caller's stack, its thread
  or nobody. `Upgrade`, `Park` and `DropHandle` are what a registration does with
  its handle, and `Release` is `Inner::drop`.
- `FallbackProofs` – its proofs.
- `SocketTypes` – the asynchronous methods of the eight kinds of sockets and
  futures, as a table: which direction a method waits for, which call it makes,
  which results mean "not now" and which direction it then clears.
- `Sockets` – a socket of any of these types with a future in each direction:
  `Create`, `Cancel`, `Repoll` by the same or another task, and the poll itself
  (`Register`, `PollReady`, `Operate`, `ClearReady`, and `PollError` for the
  error a Unix connect starts with). The kernel has an inbox, room to send, and
  the state of the connection; FIN (`closed`) and RST (`reset`) are told apart.
  A `TcpStream` may start with its connection on its way, as the one made from an
  address by `TryFrom` does; it is used like any other, without a `ConnectFuture`.
  Registration and dispatch are one step each, since the modules above have
  their detail. A `ConnectFuture` that succeeds becomes a stream.
- `SocketsProofs` – its proofs.

Operators commented "Fault" are plausible mistakes, one step away from the
definition that follows them; no specification uses them. They are there to show that
each property notices the mistake (`mutants` in `PROJECT.json`).

### Modelling decisions

- Atomics are sequentially consistent. The one relaxed operation on shared
  memory, the `fetch_or` of dispatch, is a read-modify-write of the word the
  polls read-modify-write, and the `AtomicWaker`s order the rest.
- `AtomicWaker::register` and `take` are atomic; the waker kept is a Boolean,
  "would wake the task", so that two wakers of one task are not told apart.
- `Registration`'s contract is one reading and one writing task that poll
  concurrently (registration.rs:22-31), and the modules allow exactly that. The
  sockets of the crate allow less: all their polls but
  `PollEvented::poll_write_ready` take `Pin<&mut Self>`. What holds for the
  contract holds for them; the findings about `Registration` say where they
  depend on it.
- `Spurious` says whether a task may be polled without having been woken, as
  `join!` and `select!` do all the time. `PollEvented_stream` and
  `Registration_race` allow it, and so do the proofs.
- Nobody may poll a future after its completion, so a task that is `idle` starts
  a new operation. This leaves out one difference: after an error the TCP
  `ConnectFuture` is `Empty` and would panic if it were polled again, the Unix
  one is still `Waiting` and would not.
- What happens under the write lock of `io_dispatch` is one step of `Reactor`;
  that the lock excludes is what `ShardedRwLock` shows. The guard is drawn from
  an atomic before the lock is taken, so `AddGuard` is a step of its own.
- Of the slab the model assumes that `insert` takes some vacated slot if there is
  one and the next new one (`entries`) otherwise.
- In `Fallback` a caller stands for a thread that needs a reactor and may come
  back after it dropped its handle; each creates one reactor at most.
- `Sockets` leaves out error bits, which are in `PollEvented`. A connection that
  was refused, and one that was reset, is readable, writable and hung up; one
  whose peer sends no more is readable and hung up, writable while there is room.

- `getsockopt(SO_ERROR)` does not fail on an open socket, so the `?` on
  `take_error()` itself has no counterpart; the second half of `ConnectTruthful`
  relies on that.
- `Registration::poll_ready` without a context (`take_*_ready`) is called by
  `PollEvented` only while its cache holds a bit, which it got from a registration
  that was READY. Its early return in LOCKED is therefore not modelled.
- A thread gives its index back (`Unregister`) only outside `read`, `write` and
  their guards: the crate keeps no guard in a thread-local.

## The runs

| run | bounds | shows |
|---|---|---|
| `PollEvented_stream` | bits readable, writable, hup; spurious polls; reactor may die | `TypeOK`, `NoLostWakeup`, `ImplementsNotify` hold (2.5 million states) |
| `PollEvented_datagram` | bits readable, error; no spurious polls; reactor may die; fair | `Served`, `ClearedTaskRests` (152 thousand) |
| `Registration_race` | bits readable, writable, error, hup; spurious polls; registration may fail; reactor may die; fair | `TypeOK`, `OnlyHangUpMissed`, `LockProtects`, `InnerSetOnce`, `FailureReported` (72 thousand) |
| `Registration_panic` | spurious polls | violated: `unreachable!()` is reached |
| `Registration_waker` | the waker of a poll may be gone once it returned | violated: the waiting task is not notified |
| `Registration_hup` | with hang-ups | violated: a hang-up during the registration does not wake the waiting writer |
| `ShardedRwLock_threads` | 3 threads, 2 shards, any number of thread exits; fair | `TypeOK`, `IndicesKept`, `NoDeadlock`, `ImplementsRwLock`, `WriterGranted` (93 thousand) |
| `Background_life` | 2 tasks; a turn may fail, the spawn may fail, park may return at any time; fair | `TypeOK`, `NoOrphans`, `WakeupRemembered`, `ShutdownNotified`, `DropWaits`, `ShutdownAdvances`, `ShutdownEnds` (1148) |
| `Background_panic` | the same | violated: after a failed turn the drop waits for ever |
| `Reactor_slots` | 2 resources, 2 descriptors, 2 slots, 2 guards, 4 calls of `add_source`; fair | `TypeOK`, `OwnSlot`, `GuardSeparates`, `Armed`, `SlotsAccounted`, `EventKept`, `Delivered` (460 thousand) |
| `Fallback_race` | 3 callers; creation and spawn may fail, the thread may panic; fair | `TypeOK`, `WeakCounted`, `OneReactor`, `NobodyStranded`, `StartedOrDropped` (12 thousand) |
| `Sockets_futures` | 2 tasks, inbox and room of 1; fair | `TypeOK`, `NoStranded`, `ConnectTruthful`, `StillPollable`, `ConnectResolves`, `Settles` (719 thousand) |

Most state spaces are finite without further bounds: there is one resource, and
readiness, wakers and edges are sets or Booleans, so the histories are of any
length. Two directions and one resource are all a `Registration` has; resources
influence each other through the slab and its lock, which are modules of their own. With
three threads and two shards two threads share a shard, readers sit on
different shards while a writer is half way, and two writers meet; three
threads also make the free list longer than one. Two tasks make it possible that
one holds the reactor's last reference while the other is parked on it.

`Reactor` counts calls of `add_source`, which `MaxAdds` bounds. Four calls with
two guards and two slots are enough for a slot to be used a third time, hence
for the guards to go round, for an event to outlive its resource and its
descriptor number, and for slots lost to a failed `io.register` to fill the slab.
Three callers let one win, one lose and one come later. In `Sockets` an inbox and
room of one make every operation that succeeds the last one that does, so that
each drains its direction; that what is queued behind a failed `accept` is found
without a new edge is in the proof alone, which has no such bounds. The run does not check
for deadlock because a socket without a future may rest for ever.

The properties, in words:

- `NoLostWakeup` – a task that returned Pending is about to be woken, or its
  waker is registered with a living reactor and every readiness of its
  direction is one whose dispatch has yet to take the waker.
- `ImplementsNotify` – refinement of `NotifySpec`. A wakeup is on its way while the
  edge or the event that announces it is in the kernel or inside dispatch. Nobody
  reports an edge twice, so no cache, clear or other direction may have eaten it;
  and a wakeup that was on its way for a moment must still be so in the next.
- `OnlyHangUpMissed` – `NoLostWakeup` for `Registration` with the mask that
  `reactor::Inner::register` looks at after the drain: readiness may pass a
  waiting task by only if it is a hang-up, which `Registration_hup` shows it can.
- `Served` – a waiting task whose resource stays able, or whose reactor died,
  finishes its poll with a result or an error.
- `ClearedTaskRests` – what the comments of `clear_*_ready` say; it holds
  without hang-ups and fails with them.
- `LockProtects`, `InnerSetOnce` – one thread owns the registration from INIT to
  the end of the drain, `inner` is set once and read only when set.
- `FailureReported` – a task waiting for a registration that failed returns (or
  meets the panic of `Registration_panic`).
- `ImplementsRwLock` – refinement of `RwLockSpec`.
- `IndicesKept` – thread indices below `next_index` belong to one registered thread
  or are on the free list once, and there are not more of them than threads at a
  time.
- `NoDeadlock` – while a reader or writer is blocked, some other user of the lock
  can take its next step: no circle of threads that wait for each other's shards.
- `WriterGranted` – a writer gets all shards.
- `NoOrphans` – a parked task that was not woken has its waker with a reactor
  someone still references; so whoever drops the last reference woke the others.
- `WakeupRemembered`, `ShutdownNotified` – the two halves of a shutdown: the
  request is not lost on a reactor about to block, nor the answer on an owner
  about to park.
- `DropWaits`, `ShutdownEnds` – a drop returns after the thread has let go of the
  reactor, and it does return unless the thread panics. `DropReturns`, which
  fails, leaves out the last words.
- `ShutdownAdvances` – once shutdown is requested every step of the thread lowers
  the number of steps it has left: no I/O event or task lets it go round again.
  Once it has stored `SHUTDOWN` the same holds for the owner, whatever makes its
  `park` return: one more poll of `Shutdown` at most. In between the owner may be
  unparked and poll any number of times.
- `OwnSlot`, `SlotsAccounted` – a registered resource finds its own `ScheduledIo`
  under its key, which is not the wakeup's, and a slot in use belongs to a
  resource unless its `io.register` failed: those slots are lost for good.
- `GuardSeparates` – readiness in a slot comes from its own resource, or from one
  that registered at least `Guards` calls of `add_source` away.
- `Armed` – a resource in use is registered with epoll under its own token,
  though an earlier owner of its descriptor number is still being dropped.
- `EventKept`, `Delivered` – an event of a resource in use is not lost between the
  ready list, the buffer and its slot, nor there before its own `poll_ready`, and
  an edge does reach the slot.
- `WeakCounted` – the raw pointer in `HANDLE_FALLBACK` is made a handle, cloned and
  given back without upsetting the count.
- `OneReactor` – one reactor wins, what is turned into a handle is its pointer and
  not 0, and losers are destroyed before `fallback` goes on.
- `NobodyStranded`, `StartedOrDropped` – no task waits for a reactor that is gone,
  and none is left that has no thread and is not destroyed.
- `NoStranded` – a future that returned Pending has the waker of the task that
  polled it last registered, and if its call would get somewhere, its event is
  coming; for each type and method, whatever was cancelled or moved before.
- `ConnectTruthful`, `StillPollable`, `ConnectResolves` – `connect` says what
  happened, does not panic while it may be polled, and is not pending for ever.
- `Settles` – polls come to rest, but for a writer without room whose peer has
  closed its side: there HUP makes every `clear_write_ready` wake its own task.

### Fairness

Reactor thread and tasks are threads: a step that stays enabled is taken (weak
fairness). `epoll_wait` returns if there is an edge. A task that was woken is
polled by its executor; nothing else makes one run, and nothing makes data
arrive or the reactor die. For the lock, guards are dropped in the end (weak
fairness) and a lock that becomes available again and again is handed to each
thread that waits for it (strong fairness), which is parking_lot's documented
eventual fairness; that writers are not overtaken by readers comes from the
parked bit, which is in the model. That a *reader* is never starved depends on
how parking_lot hands over a lock, which is not modelled, and is not claimed.

For `Background` the thread and the owner are fair, but a `turn` only has to
return when the wakeup is readable, and a `park` when the waker of `Shutdown` was
woken: I/O events, failures, the polls of tasks and spurious returns may never
come, and the last may come for ever.

In `Reactor` the thread dispatches what it has fetched (weak fairness), and a
descriptor that is on the ready list again and again is fetched (strong fairness:
the list is a queue and `events` is filled from its head). In `Fallback` a caller
inside `fallback` goes on; threads need not panic nor handles be dropped. In
`Sockets` the reactor thread and a poll that has begun go on, a pending connection
ends one way or another (the kernel's timeout), and nothing has to arrive, be
created, cancelled or polled again without a wakeup.

`Served` is checked without spurious polls: with them two tasks that are polled
for ever, each poll beginning before the other's ends, keep the dead reactor's
`Inner` alive and never get their error. For the same reason `Fallback` claims
`NobodyStranded`, not that whoever waits for a dead reactor is told in the end:
holders of a strong reference that overlap for ever delay `Inner::drop` for ever.

## The proofs

TLAPS checks everything in the seven proof modules; nothing is assumed but the
`ASSUME`s of the modules: `Hup` is `{"hup"}` or empty, the kernel's bits are
bits of mio and a hang-up can make a resource readable, the constants that are
Booleans are, `NumShards` is a power of two, threads and callers are finitely
many, there is at least one slot, guard, place in the inbox and room to send,
and the names of the owner, of the reactor thread and of "nobody" are not names
of tasks or callers.

- `PollEventedProofs`: `Spec => []TypeOK`, `[]NoLostWakeup`, `[]NoStall` (while a
  task waits and the kernel is ready for it, there is an edge left or the event is
  inside dispatch) and `Spec => ImplementsNotify`, for any set of kernel bits, either platform and both values of `Spurious`. The
  inductive invariant adds to the types: what dispatch holds at each point
  (`DispatchInv`); what the caches hold (`CacheInv`: a waiting task has nothing
  consumed in hand and its own bit not cached); that from its registration on
  the waker of a poll is where a later readiness finds it, or the task was
  notified (`WakerInv`, which speaks of the polls between registering and
  looking again too); and that for every bit the kernel has set someone on the
  way to the task knows it: an edge, dispatch, the readiness word, the value
  just consumed, or the cache (`NewsInv`). `NoStall` alone is not inductive
  because the news passes through the hands of polls that do not wait yet. The
  refinement goes step by step (`Simulation`): a poll that returns Pending is
  `Pend`, whose condition is `NoStall` in the next state; a wakeup or a new poll is
  `Leave` (`LeaveStep`); the steps of the kernel and of dispatch are `Notice`,
  where what has to be shown is that they carry every event on (`NoticeStep`); the
  end of the reactor is `Stop`, and the drop of the last reference `End`.
- `RegistrationProofs`: `[]TypeOK`, `[]LockProtects`, `InnerSetOnce`, from an
  invariant that relates each task's position to the state word and to `inner`;
  `[]OnlyHangUpMissed` provided that wakers outlive their polls; and as a corollary
  `[]NoLostWakeup` if moreover the resource does not hang up. The conditions are
  needed: `Registration_waker` and `Registration_hup` are the counterexamples
  without them.
- `ShardedRwLockProofs`: `[]TypeOK`, `[]IndicesKept`, `[]NoDeadlock` and
  `Spec => ImplementsRwLock`, for any number of threads and shards. The
  invariant says which shards a writer at each point of its loops holds, and
  that a reader is counted in the shard of its guard; exclusion follows because
  a writer inside its guard holds all of them. For `NoDeadlock`, suppose that
  everybody who uses the lock is blocked. Then a shard that is not free is held by
  a writer parked further on (`HolderBusy`), since a reader inside its guard is not
  blocked. But of the parked writers one is at a shard as high as any other's
  (`HighestParked`, a minimum of a well-founded order), and no other is further on.
- `BackgroundProofs`: `[]TypeOK`, `[]NoOrphans`, `[]WakeupRemembered`,
  `[]ShutdownNotified`, `[]DropWaits`, `[]RunsUntilTold` (the loop ends only when
  told to, or by a panic), `ShutdownAdvances` and `[]NotStuck`, for any set of
  tasks. The invariant reads the holders of references off everybody's position
  (`StrongInv`: without it a `wakeup` might find no reactor while one is
  blocked) and relates the shutdown word to the positions of owner and thread
  (`ShutdownInv`: `SHUTDOWN` is there exactly once the loop is over, and an
  owner about to check has its waker in place or was woken). `ShutdownAdvances` and
  `NotStuck` are what the liveness property `ShutdownEnds` rests on, in two parts.
  From the request to `SHUTDOWN`, each step of the thread lowers a bounded number,
  and unless it panicked it can take one, or the owner in `wakeup` is about to
  enable it; from `SHUTDOWN` on the same holds of the owner, with the thread about
  to unpark it. Neither part counts on a spurious return of `park`, and none of
  them does harm. Only the appeal to fairness is left to TLC.
- `ReactorProofs`: `[]TypeOK`, `[]OwnSlot`, `[]GuardSeparates`, `[]Armed`,
  `[]SlotsAccounted` and `EventKept`, for any number of resources, descriptors, slots, guards and
  calls. `SerialInv` says that serials are drawn once and which ones can be in the
  slab, `FdInv` that open resources have descriptors of their own, `GuardInv` that
  what a slot heard has the guard of its owner; `GuardSeparates` follows with the
  arithmetic of `GuardDistance` (equal guards of different serials are `Guards`
  apart). That an insertion finds a slot below `MAX_SOURCES` needs the cardinality
  of the slots in use. `EventKept` needs `Armed` where the buffer is filled,
  `OwnSlot` where `dispatch` looks up the slot, and both `FdInv` and `SerialInv` to
  keep other resources from disturbing either.
- `FallbackProofs`: `[]TypeOK`, `[]WeakCounted`, `[]OneReactor`,
  `[]NobodyStranded`, and that the winner of the race stays (`WinnerStays`), for any
  number of callers. `PcInv` relates a caller's position to its handle, to the
  global and to its own reactor.
- `SocketsProofs`: `[]TypeOK`, `[]NoStranded`, `[]ConnectTruthful`,
  `[]StillPollable` and `Spec => ImplementsNotify`, for every type of socket, any set of tasks, either platform
  and any bounds. `NewsInv` is the counterpart of that of `PollEvented`: what the
  kernel could serve is known to an edge, the event, the readiness word or the
  cache. `PendingInv` says that a waiting future has none of the latter two;
  `ProgressInv` that nothing is heard of a connection under way, hence that
  `take_error` is not called too early; `ConnectInv` where the stream and the
  error of a `ConnectFuture` are. The methods enter by their shape alone
  (`MethodShapes`): the direction waited for is the one of the call and the one
  cleared. The refinement needs besides that a call takes nothing from the
  direction it is not for (`ResultsOf`), and that dispatch wakes everybody it
  consumes an event of. It has no run of its own.

Only model-checked: everything that says "eventually" (`Served`,
`ClearedTaskRests`, `FailureReported`, `WriterGranted`, `ShutdownEnds`,
`Delivered`, `StartedOrDropped`, `ConnectResolves`, `Settles`) – liveness under
fairness is out of the prover's reach – and the four violations.

## What the findings say

`PROJECT.json` quotes the lines. In short: the
`unreachable!()` of `poll_ready` is reachable under the contract of
`Registration`; the node on the state word points to a waker that may be gone;
and `reactor::Inner::register` overlooks HUP for writers. These three need
two threads inside one registration, hence `poll_write_ready(&self)` or a use of
`Registration` by its contract. And a failed turn panics the reactor thread, for
which the drop of its `Background` then waits for ever; the crate itself forgets
the only `Background` it creates.

Some observations have no run of their own. `clear_*_ready` says that polls
return NotReady until a new event; after a hang-up they do not, and a writer that
blocks then spins (the exception in `Settles`, and the reason why
`ClearedTaskRests` is checked on a resource without hang-ups). And an event with
nothing but the error bit is consumed and cached, but no poll answers to it: the
reader it woke sleeps on. `add_source` also loses its slot when `io.register`
fails (`leaked` in `Reactor`).

## Not modelled

Socket options, addresses, `bind`, `pair` and the other constructors,
`poll_close`, the `TakeError` implementations and `UCred` are single calls into
mio or the operating system, or nothing at all, and keep no state in this crate;
the public traits and the crate root are re-exports. That is why the components
of the sockets are marked "partly". `CURRENT_REACTOR` and `SHUTDOWN_IDLE` are
never set in the crate. Wakers that act inside `wake`, while a lock of
`io_dispatch` is held, depend on the executor and are a hazard without a
property. A first poll that fights for the registration is in `Registration`,
not in `Sockets`. The data read and written, the time `turn` may wait (always
`None` in this crate) and log output play no part in any property. Memory
reclamation of futures and wakers is Rust's.
