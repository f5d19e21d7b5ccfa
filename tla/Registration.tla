---------------------------- MODULE Registration ----------------------------
(***************************************************************************)
(* How a Registration comes into being: the two tasks of a resource, one   *)
(* reading and one writing, poll it for the first time, race to register   *)
(* it with the reactor (register2), and poll_ready must not lose the task  *)
(* that comes while the other one is at it.                                *)
(*                                                                         *)
(* poll_ready pushes its node only on the bare value LOCKED, so the stack  *)
(* in the state word holds one node at most.  What happens between the     *)
(* accesses of a poll in state READY is the subject of PollEvented; here   *)
(* such a poll drops its Arc<Inner> in the step of its last access.        *)
(***************************************************************************)
EXTENDS Readiness

CONSTANTS
  KernelBits,         \* the bits the kernel can report for this resource
  Spurious,           \* may a task that nothing woke be polled again?
  WakerOutlivesPoll   \* is a poll's &Waker still valid once the poll returned?

ASSUME ConstantsAssumption ==
  /\ KernelBits \subseteq AllReady
  /\ Spurious \in BOOLEAN
  /\ WakerOutlivesPoll \in BOOLEAN

VARIABLES
  state,      \* lifecycle bits of Registration.state
  node,       \* pointer bits: the direction of the node pushed, or "none"
  token,      \* Registration.inner: "None", a slab key ("key") or "ERROR"
  draining,   \* the node register2 took out of the state word, or "none"
  reactor,    \* reactor thread: "poll" | "take" | "gone"
  event,      \* readiness being dispatched
  readiness,  \* ScheduledIo.readiness
  waker,      \* ScheduledIo.reader, .writer: would wake the task?
  pc,         \* tasks: where in poll_*_ready
  woken       \* executor: task to be polled again

stateVars   == <<state, node, token, draining>>
reactorVars == <<reactor, event>>
vars        == <<stateVars, reactorVars, readiness, waker, pc, woken>>

\* Where a task owns a strong reference to reactor::Inner.
Holding == {"check", "and1", "register", "and2"}

\* The types; pointer bits go with LOCKED only.
TypeOK ==
  /\ state \in {"INIT", "LOCKED", "READY"}
  /\ node \in Direction \cup {"none"}
  /\ token \in {"None", "key", "ERROR"}
  /\ draining \in Direction \cup {"none"}
  /\ reactor \in {"poll", "take", "gone"}
  /\ event \in SUBSET KernelBits
  /\ readiness \in SUBSET KernelBits
  /\ waker \in [Direction -> BOOLEAN]
  /\ pc \in [Direction -> {"idle", "parked", "load", "cas", "new", "swap", "drain",
                           "poll", "push", "inner", "panic"} \cup Holding]
  /\ woken \in [Direction -> BOOLEAN]
  /\ node # "none" => state = "LOCKED"
  /\ draining # "none" => state = "READY"

Init ==
  /\ state = "INIT"
  /\ node = "none"
  /\ token = "None"
  /\ draining = "none"
  /\ reactor = "poll"
  /\ event = {}
  /\ readiness = {}
  /\ waker = [d \in Direction |-> FALSE]
  /\ pc = [d \in Direction |-> "idle"]
  /\ woken = [d \in Direction |-> FALSE]

Goto(d, l) == pc' = [pc EXCEPT ![d] = l]

Wake(ds) == woken' = [d \in Direction |-> woken[d] \/ d \in ds]

Alive == reactor # "gone" \/ \E d \in Direction : pc[d] \in Holding
-----------------------------------------------------------------------------
(* The reactor. *)

\* What mio reports: the end of file that comes with a hang-up is readable.
Events == {e \in SUBSET KernelBits \ {{}} : "hup" \in e => "readable" \in e}

\* Reactor::dispatch, up to its fetch_or.  add_source holds the write lock of
\* io_dispatch until the resource has its slot.
DispatchFetchOr ==
  /\ reactor = "poll"
  /\ token = "key"
  /\ event' \in Events
  /\ readiness' = readiness \cup event'
  /\ reactor' = "take"
  /\ UNCHANGED <<stateVars, waker, pc, woken>>

\* dispatch takes the wakers and wakes them.
DispatchTake ==
  /\ reactor = "take"
  /\ Wake({d \in DispatchTakes(event) : waker[d]})
  /\ waker' = [d \in Direction |-> waker[d] /\ d \notin DispatchTakes(event)]
  /\ reactor' = "poll"
  /\ event' = {}
  /\ UNCHANGED <<stateVars, readiness, pc>>

\* reactor::Inner::drop, when the reactor thread's reference was the last.
DropReactor ==
  /\ reactor = "poll"
  /\ reactor' = "gone"
  /\ IF \E d \in Direction : pc[d] \in Holding
       THEN UNCHANGED <<waker, woken>>
       ELSE /\ Wake({d \in Direction : waker[d]})
            /\ waker' = [d \in Direction |-> FALSE]
  /\ UNCHANGED <<stateVars, event, readiness, pc>>

\* A task drops its reference: the wakers in w, and then the tasks it wakes
\* besides ds if the reference was the last.
Drop(d, w, ds) ==
  IF reactor = "gone" /\ \A e \in Direction \ {d} : pc[e] \notin Holding
    THEN /\ Wake(ds \cup {e \in Direction : w[e]})
         /\ waker' = [e \in Direction |-> FALSE]
    ELSE /\ Wake(ds)
         /\ waker' = w
-----------------------------------------------------------------------------
(* Registration::register2. *)

Poll(d) ==
  /\ \/ pc[d] = "idle"
     \/ pc[d] = "parked" /\ (woken[d] \/ Spurious)
  /\ Goto(d, "load")
  /\ woken' = [woken EXCEPT ![d] = FALSE]
  /\ UNCHANGED <<stateVars, reactorVars, readiness, waker>>

\* The load of the state, and the handle for the first caller, which may be an
\* error: the poll returns it.
RegisterLoad(d) ==
  /\ pc[d] = "load"
  /\ IF state = "INIT" THEN Goto(d, "cas") \/ Goto(d, "idle") ELSE Goto(d, "poll")
  /\ UNCHANGED <<stateVars, reactorVars, readiness, waker, woken>>

\* Fault: the lock is taken without looking at the state.
RegisterStore(d) ==
  /\ pc[d] = "cas"
  /\ state' = "LOCKED"
  /\ Goto(d, "new")
  /\ UNCHANGED <<node, token, draining, reactorVars, readiness, waker, woken>>

\* Fault: there is no LOCKED state.
RegisterUnlocked(d) ==
  /\ pc[d] = "cas"
  /\ IF state = "INIT"
       THEN state' = "READY" /\ Goto(d, "new")
       ELSE UNCHANGED state /\ Goto(d, "poll")
  /\ UNCHANGED <<node, token, draining, reactorVars, readiness, waker, woken>>

\* compare_and_swap(INIT, LOCKED); whoever loses finds the state not INIT.
RegisterCas(d) ==
  /\ pc[d] = "cas"
  /\ IF state = "INIT"
       THEN state' = "LOCKED" /\ Goto(d, "new")
       ELSE UNCHANGED state /\ Goto(d, "poll")
  /\ UNCHANGED <<node, token, draining, reactorVars, readiness, waker, woken>>

\* Inner::new: there is no reactor any more, or add_source fails, or it works.
InnerNew(d) ==
  /\ pc[d] = "new"
  /\ token' \in {"ERROR"} \cup (IF Alive THEN {"key"} ELSE {})
  /\ Goto(d, "swap")
  /\ UNCHANGED <<state, node, draining, reactorVars, readiness, waker, woken>>

\* register2 returns to poll_*_ready: the error, or Ok(true).
RegisterReturn(d) == Goto(d, IF token = "ERROR" THEN "idle" ELSE "poll")

\* Fault: READY is or-ed into the state word, which keeps the pointer.
RegisterFetchOr(d) ==
  /\ pc[d] = "swap"
  /\ state' = "READY"
  /\ draining' = node
  /\ IF node = "none" THEN RegisterReturn(d) ELSE Goto(d, "drain")
  /\ UNCHANGED <<node, token, reactorVars, readiness, waker, woken>>

\* The swap that releases the lock and takes the node.
RegisterSwap(d) ==
  /\ pc[d] = "swap"
  /\ state' = "READY"
  /\ node' = "none"
  /\ draining' = node
  /\ IF node = "none" THEN RegisterReturn(d) ELSE Goto(d, "drain")
  /\ UNCHANGED <<token, reactorVars, readiness, waker, woken>>

\* What the node's raw pointer may point to when register2 follows it: the
\* waker, or, once the poll that pushed the node has returned and its waker is
\* gone, anything.
Pointee == IF WakerOutlivesPoll THEN {TRUE} ELSE BOOLEAN

\* Fault: a failed registration keeps quiet about it.
DrainSilent(d) ==
  /\ pc[d] = "drain"
  /\ token = "ERROR" \/ ~Alive
  /\ draining' = "none"
  /\ RegisterReturn(d)
  /\ UNCHANGED <<state, node, token, reactorVars, readiness, waker, woken>>

\* registration::Inner::register for the node, when there is nothing to
\* register with: the task is woken to see the error.
DrainError(d) ==
  /\ pc[d] = "drain"
  /\ token = "ERROR" \/ ~Alive
  /\ \E valid \in Pointee : Wake(IF valid THEN {draining} ELSE {})
  /\ draining' = "none"
  /\ RegisterReturn(d)
  /\ UNCHANGED <<state, node, token, reactorVars, readiness, waker>>

\* The same, and reactor::Inner::register, up to its register of the waker.
DrainRegister(d) ==
  /\ pc[d] = "drain"
  /\ token = "key" /\ Alive
  /\ \E valid \in Pointee : waker' = [waker EXCEPT ![draining] = valid]
  /\ Goto(d, "check")
  /\ UNCHANGED <<stateVars, reactorVars, readiness, woken>>

\* Fault: readiness is not looked at after registering.
DrainNoCheck(d) ==
  /\ pc[d] = "check"
  /\ Drop(d, waker, {})
  /\ draining' = "none"
  /\ RegisterReturn(d)
  /\ UNCHANGED <<state, node, token, reactorVars, readiness>>

\* The rest of reactor::Inner::register: wakes the task if there is readiness.
DrainCheck(d) ==
  LET n     == draining
      ready == readiness \cap RegisterMask(n) # {}
  IN
  /\ pc[d] = "check"
  /\ Drop(d, [waker EXCEPT ![n] = @ /\ ~ready], IF ready /\ waker[n] THEN {n} ELSE {})
  /\ draining' = "none"
  /\ RegisterReturn(d)
  /\ UNCHANGED <<state, node, token, reactorVars, readiness>>
-----------------------------------------------------------------------------
(* Registration::poll_ready. *)

\* Where the match on a value of the state word leads, for a poll with a context.
\* (One without, take_read_ready or take_write_ready, PollEvented only makes when
\* its cache is not empty, hence in READY.)
Match ==
  CASE state = "INIT"                     -> "idle"
    [] state = "READY"                    -> "inner"
    [] state = "LOCKED" /\ node = "none"  -> "push"
    [] state = "LOCKED" /\ node # "none"  -> "panic"

PollReadyLoad(d) ==
  /\ pc[d] = "poll"
  /\ Goto(d, Match)
  /\ UNCHANGED <<stateVars, reactorVars, readiness, waker, woken>>

\* The compare_and_swap that pushes the node; round the loop if it fails.
PollReadyPush(d) ==
  /\ pc[d] = "push"
  /\ IF Match = "push"
       THEN node' = d /\ Goto(d, "parked")
       ELSE UNCHANGED node /\ Goto(d, Match)
  /\ UNCHANGED <<state, token, draining, reactorVars, readiness, waker, woken>>

\* registration::Inner::poll_ready: the errors, and Weak::upgrade.
InnerPollReady(d) ==
  /\ pc[d] = "inner"
  /\ Goto(d, IF token = "ERROR" \/ ~Alive THEN "idle" ELSE "and1")
  /\ UNCHANGED <<stateVars, reactorVars, readiness, waker, woken>>

InnerFetchAnd(d) ==
  /\ pc[d] = "and1"
  /\ readiness' = readiness \ MaskNoHup(d)
  /\ IF readiness \cap Mask(d) = {}
       THEN Goto(d, "register") /\ UNCHANGED <<waker, woken>>
       ELSE Goto(d, "idle") /\ Drop(d, waker, {})
  /\ UNCHANGED <<stateVars, reactorVars>>

InnerRegister(d) ==
  /\ pc[d] = "register"
  /\ waker' = [waker EXCEPT ![d] = TRUE]
  /\ Goto(d, "and2")
  /\ UNCHANGED <<stateVars, reactorVars, readiness, woken>>

InnerRetry(d) ==
  /\ pc[d] = "and2"
  /\ readiness' = readiness \ MaskNoHup(d)
  /\ Goto(d, IF readiness \cap Mask(d) = {} THEN "parked" ELSE "idle")
  /\ Drop(d, waker, {})
  /\ UNCHANGED <<stateVars, reactorVars>>
-----------------------------------------------------------------------------
ReactorStep == DispatchFetchOr \/ DispatchTake \/ DropReactor

RegisterStep(d) ==
  \/ RegisterLoad(d)
  \/ RegisterCas(d)
  \/ InnerNew(d)
  \/ RegisterSwap(d)
  \/ DrainError(d)
  \/ DrainRegister(d)
  \/ DrainCheck(d)

PollReadyStep(d) ==
  \/ PollReadyLoad(d)
  \/ PollReadyPush(d)
  \/ InnerPollReady(d)
  \/ InnerFetchAnd(d)
  \/ InnerRegister(d)
  \/ InnerRetry(d)

TaskStep(d) == RegisterStep(d) \/ PollReadyStep(d)

Next == ReactorStep \/ \E d \in Direction : Poll(d) \/ TaskStep(d)

Spec == Init /\ [][Next]_vars

\* Threads keep running, and the executor polls a task that was woken.
Fairness ==
  /\ WF_vars(DispatchTake)
  /\ \A d \in Direction : WF_vars(TaskStep(d)) /\ WF_vars(woken[d] /\ Poll(d))

FairSpec == Spec /\ Fairness
-----------------------------------------------------------------------------
(* Correctness. *)

Waiting(d) == pc[d] = "parked" /\ ~woken[d]

\* Its node is in the state word, which a thread in register2 is going to swap,
\* or that thread is about to follow it.
InHand(d) ==
  \/ node = d /\ \E e \in Direction : pc[e] \in {"new", "swap"}
  \/ draining = d /\ \E e \in Direction : pc[e] = "drain"

\* Somebody who has seen, or will see, the readiness of d takes its waker.
WillWake(d) ==
  \/ reactor = "take" /\ d \in DispatchTakes(event)
  \/ /\ draining = d
     /\ \E e \in Direction : pc[e] = "check"
     /\ readiness \cap RegisterMask(d) # {}

\* "pointer to tasks that must be notified once the lock is released": no task
\* that returned Pending is forgotten, neither the one that came while the
\* other registered the resource nor any later, whatever events arrive between
\* add_source and the swap.
NoLostWakeup ==
  \A d \in Direction : Waiting(d) =>
    \/ InHand(d)
    \/ waker[d] /\ Alive /\ (readiness \cap Mask(d) = {} \/ WillWake(d))

\* With hang-ups, the check of reactor::Inner::register misses one bit for one
\* direction (HangUpReachesWriter).  Nothing else is missed: a task that waits
\* is woken for every bit that reactor::Inner::register looks at, which for a
\* reader are all of its direction, HUP included, and for a writer all but HUP.
OnlyHangUpMissed ==
  \A d \in Direction : Waiting(d) =>
    \/ InHand(d)
    \/ waker[d] /\ Alive /\ (readiness \cap RegisterMask(d) = {} \/ WillWake(d))

\* One thread at a time owns the registration from INIT to READY, poll_ready
\* reads inner only when it is set, and never finds INIT after register.
LockProtects ==
  /\ (\E d \in Direction : pc[d] \in {"new", "swap"}) <=> state = "LOCKED"
  /\ \A d, e \in Direction :
       /\ pc[d] \in {"new", "swap", "drain", "check"}
       /\ pc[e] \in {"new", "swap", "drain", "check"}
       => d = e
  /\ state = "READY" => token # "None"
  /\ \A d \in Direction : pc[d] \in {"poll", "push", "parked"} => state # "INIT"

\* "Once set, the value is not changed": the resource is added to the reactor
\* once, and what the first registration found stays.
InnerSetOnce == [][token # "None" => token' = token]_vars

\* Both tasks learn of a failed registration, the one that attempted it and the
\* one that waits for it (whose poll may panic instead, see NoPanic).
FailureReported ==
  \A d \in Direction : (pc[d] = "parked" /\ token = "ERROR") ~> pc[d] \in {"idle", "panic"}

\* The match of poll_ready says that no other value of the state word is
\* reachable.
NoPanic == \A d \in Direction : pc[d] # "panic"

\* "both the read AND the write directions need to be able to observe this
\* state": no writer waits once a hang-up has been dispatched.
HangUpReachesWriter ==
  ~ /\ Waiting("Write")
    /\ Hup \cap readiness # {}
    /\ reactor = "poll"
    /\ ~InHand("Write")
    /\ ~WillWake("Write")
    /\ \A e \in Direction : pc[e] # "check"
=============================================================================
