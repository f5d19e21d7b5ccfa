----------------------------- MODULE PollEvented -----------------------------
(***************************************************************************)
(* One registered I/O resource: a PollEvented whose Registration is READY, *)
(* the ScheduledIo the reactor keeps for it, the reactor thread, and the   *)
(* two tasks that may use it, one reading and one writing.  Every access   *)
(* to shared memory is a step of its own; the caches of a PollEvented are  *)
(* touched by the task of their direction only, so what a task does with   *)
(* them between two shared accesses belongs to the preceding step.         *)
(***************************************************************************)
EXTENDS Readiness

CONSTANTS
  KernelBits,   \* the bits the kernel can report for this resource
  Spurious      \* may a task that nothing woke be polled again?

ASSUME KernelBitsAssumption ==
  /\ KernelBits \subseteq AllReady
  /\ "hup" \in KernelBits => "readable" \in KernelBits

ASSUME SpuriousAssumption == Spurious \in BOOLEAN

VARIABLES
  level,      \* kernel: what poll(2) would report for the descriptor now
  edge,       \* kernel: the descriptor is on epoll's ready list
  reactor,    \* reactor thread: "poll" | "or" | "takeW" | "takeR" | "wakeR" |
              \* "wakeW" | "gone"
  event,      \* readiness of the event being dispatched, until its last use
  taken,      \* directions whose waker dispatch holds in rd, wr
  readiness,  \* ScheduledIo.readiness
  waker,      \* ScheduledIo.reader, .writer: holds the task's waker?
  cache,      \* PollEvented's read_readiness, write_readiness
  pc,         \* tasks: where in poll_read, poll_write
  ready,      \* tasks: what Registration::poll_ready has consumed
  clearing,   \* tasks: is this poll the one clear_*_ready makes?
  woken       \* executor: task to be polled again

kernelVars  == <<level, edge>>
reactorVars == <<reactor, event, taken>>
taskVars    == <<cache, pc, ready, clearing>>
vars        == <<kernelVars, reactorVars, readiness, waker, taskVars, woken>>

\* A task inside Registration's Inner::poll_ready owns a strong reference to
\* reactor::Inner; so does the reactor thread while it lives.
Holding == {"and1", "register", "and2", "return"}

TypeOK ==
  /\ level \in SUBSET KernelBits
  /\ edge \in BOOLEAN
  /\ reactor \in {"poll", "or", "takeW", "takeR", "wakeR", "wakeW", "gone"}
  /\ event \in SUBSET KernelBits
  /\ taken \in SUBSET Direction
  /\ readiness \in SUBSET KernelBits
  /\ waker \in [Direction -> BOOLEAN]
  /\ cache \in [Direction -> Ready]
  /\ \A d \in Direction : cache[d] \subseteq Mask(d)
  /\ pc \in [Direction -> {"idle", "parked", "upgrade", "op", "clear"} \cup Holding]
  /\ ready \in [Direction -> Ready]
  /\ clearing \in [Direction -> BOOLEAN]
  /\ woken \in [Direction -> BOOLEAN]

Init ==
  /\ level \in {l \in SUBSET KernelBits : "hup" \in l => "readable" \in l}
  /\ edge = TRUE
  /\ reactor = "poll"
  /\ event = {}
  /\ taken = {}
  /\ readiness = {}
  /\ waker = [d \in Direction |-> FALSE]
  /\ cache = [d \in Direction |-> {}]
  /\ pc = [d \in Direction |-> "idle"]
  /\ ready = [d \in Direction |-> {}]
  /\ clearing = [d \in Direction |-> FALSE]
  /\ woken = [d \in Direction |-> FALSE]

-----------------------------------------------------------------------------
(* The kernel. *)

\* Data, buffer space, the peer's hang-up (end of file, which is readable) or
\* a socket error arrives: an edge, whether or not the bit was already set.
Arrive(b) ==
  /\ level' = level \cup {b} \cup (IF b = "hup" THEN {"readable"} ELSE {})
  /\ edge' = TRUE
  /\ UNCHANGED <<reactorVars, readiness, waker, taskVars, woken>>

\* The resource would not return WouldBlock to direction d.
Able(d) == level \cap {Own(d), "error"} # {}

\* What an operation that does not block leaves: it reports the pending error,
\* or it uses some or all of the data or space; end of file stays readable.
LevelsAfter(d) ==
  IF "error" \in level
    THEN {level \ {"error"}}
    ELSE {level} \cup (IF d = "Read" /\ "hup" \in level THEN {} ELSE {level \ {Own(d)}})

-----------------------------------------------------------------------------
(* The reactor thread: Reactor::poll and Reactor::dispatch. *)

Wake(ds) == woken' = [d \in Direction |-> woken[d] \/ d \in ds]

\* epoll reports the current readiness of a descriptor that had an edge.
ReactorPoll ==
  /\ reactor = "poll"
  /\ edge
  /\ level # {}
  /\ reactor' = "or"
  /\ event' = level
  /\ edge' = FALSE
  /\ UNCHANGED <<level, taken, readiness, waker, taskVars, woken>>

DispatchFetchOr ==
  /\ reactor = "or"
  /\ reactor' = "takeW"
  /\ readiness' = readiness \cup event
  /\ UNCHANGED <<kernelVars, event, taken, waker, taskVars, woken>>

TakeWaker(d) ==
  /\ taken' = IF d \in DispatchTakes(event) /\ waker[d] THEN taken \cup {d} ELSE taken
  /\ waker' = [waker EXCEPT ![d] = @ /\ d \notin DispatchTakes(event)]

DispatchTakeWriter ==
  /\ reactor = "takeW"
  /\ reactor' = "takeR"
  /\ TakeWaker("Write")
  /\ UNCHANGED <<kernelVars, event, readiness, taskVars, woken>>

DispatchTakeReader ==
  /\ reactor = "takeR"
  /\ reactor' = "wakeR"
  /\ TakeWaker("Read")
  /\ event' = {}
  /\ UNCHANGED <<kernelVars, readiness, taskVars, woken>>

DispatchWakeReader ==
  /\ reactor = "wakeR"
  /\ reactor' = "wakeW"
  /\ Wake(taken \cap {"Read"})
  /\ taken' = taken \ {"Read"}
  /\ UNCHANGED <<kernelVars, event, readiness, waker, taskVars>>

DispatchWakeWriter ==
  /\ reactor = "wakeW"
  /\ reactor' = "poll"
  /\ Wake(taken)
  /\ taken' = {}
  /\ UNCHANGED <<kernelVars, event, readiness, waker, taskVars>>

\* Fault: only the writers are woken.
DropInnerWritersOnly ==
  /\ Wake({d \in {"Write"} : waker[d]})
  /\ waker' = [d \in Direction |-> FALSE]

\* reactor::Inner::drop: wakes every task that has a waker registered.
DropInner ==
  /\ Wake({d \in Direction : waker[d]})
  /\ waker' = [d \in Direction |-> FALSE]

\* The reactor thread leaves run, or panics on the error of a failed turn; it
\* drops its Arc<Inner>.
DropReactor ==
  /\ reactor = "poll"
  /\ reactor' = "gone"
  /\ IF \E d \in Direction : pc[d] \in Holding
       THEN UNCHANGED <<waker, woken>>
       ELSE DropInner
  /\ UNCHANGED <<kernelVars, event, taken, readiness, taskVars>>

-----------------------------------------------------------------------------
(* The tasks: poll_read, poll_write, and what they call. *)

\* HandlePriv::inner() succeeds.
Alive == reactor # "gone" \/ \E d \in Direction : pc[d] \in Holding

\* PollEvented::poll_*_ready found its bit cached: it only takes what is new
\* (take_*_ready) and does not ask to be notified.
Taking(d) == Own(d) \in cache[d]

\* The executor polls the task: it starts its next operation, was woken, or
\* shares its executor's task with another future that was.
Poll(d) ==
  /\ \/ pc[d] = "idle"
     \/ pc[d] = "parked" /\ (woken[d] \/ Spurious)
  /\ pc' = [pc EXCEPT ![d] = "upgrade"]
  /\ woken' = [woken EXCEPT ![d] = FALSE]
  /\ UNCHANGED <<kernelVars, reactorVars, readiness, waker, cache, ready, clearing>>

\* Weak::upgrade; without a reactor the poll returns an error.
PollReadyUpgrade(d) ==
  /\ pc[d] = "upgrade"
  /\ pc' = [pc EXCEPT ![d] = IF Alive THEN "and1" ELSE "idle"]
  /\ clearing' = [clearing EXCEPT ![d] = @ /\ Alive]
  /\ UNCHANGED <<kernelVars, reactorVars, readiness, waker, cache, ready, woken>>

\* Fault: the bits of the other direction are returned too.
ConsumeUnmasked(d) ==
  /\ ready' = [ready EXCEPT ![d] = readiness]
  /\ readiness' = readiness \ MaskNoHup(d)

\* mask & readiness.fetch_and(!mask_no_hup).
Consume(d) ==
  /\ ready' = [ready EXCEPT ![d] = readiness \cap Mask(d)]
  /\ readiness' = readiness \ MaskNoHup(d)

PollReadyFetchAnd(d) ==
  /\ pc[d] = "and1"
  /\ Consume(d)
  /\ pc' = [pc EXCEPT ![d] =
              IF readiness \cap Mask(d) = {} /\ ~Taking(d) THEN "register" ELSE "return"]
  /\ UNCHANGED <<kernelVars, reactorVars, waker, cache, clearing, woken>>

PollReadyRegister(d) ==
  /\ pc[d] = "register"
  /\ pc' = [pc EXCEPT ![d] = "and2"]
  /\ waker' = [waker EXCEPT ![d] = TRUE]
  /\ UNCHANGED <<kernelVars, reactorVars, readiness, cache, ready, clearing, woken>>

\* Fault: readiness is not looked at again after registering.
PollReadyNoRetry(d) ==
  /\ pc[d] = "and2"
  /\ pc' = [pc EXCEPT ![d] = "return"]
  /\ UNCHANGED <<kernelVars, reactorVars, readiness, waker, cache, ready, clearing, woken>>

PollReadyRetry(d) ==
  /\ pc[d] = "and2"
  /\ Consume(d)
  /\ pc' = [pc EXCEPT ![d] = "return"]
  /\ UNCHANGED <<kernelVars, reactorVars, waker, cache, clearing, woken>>

\* The end of PollEvented::poll_*_ready once Registration::poll_ready returned
\* ready[d]: Pending, once more round the loop, or Ready.  To clear_*_ready a
\* Ready means waking the current task, and Pending either way.
PollReadyOutcome(d) ==
  IF ready[d] \cap PollMask(d) = {} /\ ~Taking(d)
    THEN IF ready[d] = {} THEN "parked" ELSE "upgrade"
    ELSE IF clearing[d] THEN "wake" ELSE "op"

\* Registration::poll_ready drops its reference to reactor::Inner, perhaps the
\* last one, and returns to PollEvented, which updates its cache.
PollReadyReturn(d) ==
  LET outcome == PollReadyOutcome(d)
      last    == reactor = "gone" /\ \A e \in Direction \ {d} : pc[e] \notin Holding
      dropped == IF last THEN {e \in Direction : waker[e]} ELSE {}
  IN
  /\ pc[d] = "return"
  /\ waker' = [e \in Direction |-> waker[e] /\ e \notin dropped]
  /\ Wake(dropped \cup (IF outcome = "wake" THEN {d} ELSE {}))
  /\ cache' = [cache EXCEPT ![d] = @ \cup ready[d]]
  /\ ready' = [ready EXCEPT ![d] = {}]
  /\ pc' = [pc EXCEPT ![d] = IF outcome = "wake" THEN "parked" ELSE outcome]
  /\ clearing' = [clearing EXCEPT ![d] = @ /\ outcome = "upgrade"]
  /\ UNCHANGED <<kernelVars, reactorVars, readiness>>

\* The operation returns something other than WouldBlock, and the poll Ready.
OperationDone(d) ==
  /\ pc[d] = "op"
  /\ Able(d)
  /\ level' \in LevelsAfter(d)
  /\ pc' = [pc EXCEPT ![d] = "idle"]
  /\ UNCHANGED <<edge, reactorVars, readiness, waker, cache, ready, clearing, woken>>

OperationWouldBlock(d) ==
  /\ pc[d] = "op"
  /\ ~Able(d)
  /\ pc' = [pc EXCEPT ![d] = "clear"]
  /\ UNCHANGED <<kernelVars, reactorVars, readiness, waker, cache, ready, clearing, woken>>

\* The caller wanted the readiness only (AsyncReadReady, AsyncWriteReady) or to
\* flush, which never blocks.
ReturnReady(d) ==
  /\ pc[d] = "op"
  /\ pc' = [pc EXCEPT ![d] = "idle"]
  /\ UNCHANGED <<kernelVars, reactorVars, readiness, waker, cache, ready, clearing, woken>>

\* Fault: the cached bit survives.
ClearReadyKeepsBit(d) ==
  /\ pc[d] = "clear"
  /\ clearing' = [clearing EXCEPT ![d] = TRUE]
  /\ pc' = [pc EXCEPT ![d] = "upgrade"]
  /\ UNCHANGED <<kernelVars, reactorVars, readiness, waker, cache, ready, woken>>

\* clear_read_ready, clear_write_ready: forget the bit, then poll again.
ClearReady(d) ==
  /\ pc[d] = "clear"
  /\ cache' = [cache EXCEPT ![d] = @ \ {Own(d)}]
  /\ clearing' = [clearing EXCEPT ![d] = TRUE]
  /\ pc' = [pc EXCEPT ![d] = "upgrade"]
  /\ UNCHANGED <<kernelVars, reactorVars, readiness, waker, ready, woken>>

-----------------------------------------------------------------------------
ReactorStep ==
  \/ ReactorPoll
  \/ DispatchFetchOr
  \/ DispatchTakeWriter
  \/ DispatchTakeReader
  \/ DispatchWakeReader
  \/ DispatchWakeWriter

TaskStep(d) ==
  \/ PollReadyUpgrade(d)
  \/ PollReadyFetchAnd(d)
  \/ PollReadyRegister(d)
  \/ PollReadyRetry(d)
  \/ PollReadyReturn(d)
  \/ OperationDone(d)
  \/ OperationWouldBlock(d)
  \/ ReturnReady(d)
  \/ ClearReady(d)

Next ==
  \/ \E b \in KernelBits : Arrive(b)
  \/ ReactorStep
  \/ DropReactor
  \/ \E d \in Direction : Poll(d) \/ TaskStep(d)

Spec == Init /\ [][Next]_vars

\* The threads keep running, epoll_wait returns when there is an edge, and the
\* executor polls a task that was woken.  Nothing makes the kernel produce an
\* event, the reactor stop or an idle task start.
Fairness ==
  /\ WF_vars(ReactorStep)
  /\ \A d \in Direction : WF_vars(TaskStep(d))
  /\ \A d \in Direction : WF_vars(woken[d] /\ Poll(d))

FairSpec == Spec /\ Fairness
-----------------------------------------------------------------------------
(* Correctness. *)

\* The task returned Pending and nothing has woken it since.
Waiting(d) == pc[d] = "parked" /\ ~woken[d]

\* dispatch has yet to take, and will take, the waker of d for its event.
WillTake(d) ==
  /\ d \in DispatchTakes(event)
  /\ reactor \in IF d = "Read" THEN {"takeW", "takeR"} ELSE {"takeW"}

\* No lost wakeup: a task that returned Pending is about to be woken, or its
\* waker is registered with a reactor that still exists and every readiness
\* of its direction is one that dispatch, after its fetch_or, has yet to take
\* the waker for.  poll_ready registers and then looks again because dispatch
\* may come between its first look and the registration.
NoLostWakeup ==
  \A d \in Direction : Waiting(d) =>
    \/ d \in taken
    \/ waker[d] /\ Alive /\ (readiness \cap Mask(d) = {} \/ WillTake(d))

\* No stall: while a task waits and the resource is ready for it, the news is
\* on its way, as an edge in the kernel or inside the reactor's dispatch.
\* With edge-triggered events nobody reports it twice, so neither the caches,
\* nor clear_*_ready, nor the other direction may swallow it.
NoStall ==
  \A d \in Direction :
    Waiting(d) /\ reactor # "gone" /\ level \cap PollMask(d) # {} =>
      \/ edge
      \/ reactor = "or" /\ event \cap PollMask(d) # {}
      \/ WillTake(d)
      \/ d \in taken

\* The resource answers polls of direction d, if the news has reached it.
Answerable(d) == level \cap PollMask(d) # {}

\* The wakeup of d is on its way, from the kernel through dispatch.
OnItsWay(d) ==
  \/ edge /\ Answerable(d)
  \/ reactor = "or" /\ event \cap PollMask(d) # {}
  \/ WillTake(d)
  \/ d \in taken

\* Caches, clears, second looks and dispatch in five steps come to this: whoever
\* waits for what is there has a wakeup coming, which nothing takes back, and
\* nobody waits once the last reference to the reactor is gone.
Notify == INSTANCE NotifySpec WITH
  able    <- {d \in Direction : Answerable(d)},
  waiting <- {d \in Direction : Waiting(d)},
  due     <- {d \in Direction : Waiting(d) /\ reactor # "gone" /\ OnItsWay(d)},
  life    <- IF reactor # "gone" THEN "running" ELSE IF Alive THEN "ending" ELSE "ended"

ImplementsNotify == Notify!Spec

\* A task that waits for a resource that is ready, or on a reactor that has
\* gone, completes its operation or gets the error.
Served ==
  \A d \in Direction :
    (pc[d] = "parked" /\ (Own(d) \in level \/ reactor = "gone")) ~> pc[d] = "idle"

\* clear_*_ready: "After calling this function, poll_*_ready will return
\* NotReady until a new readiness event has been received", so a task whose
\* operation blocked comes to rest unless the operation becomes possible.
ClearedTaskRests ==
  \A d \in Direction :
    pc[d] = "clear" ~> Waiting(d) \/ pc[d] = "idle" \/ Able(d)
=============================================================================
