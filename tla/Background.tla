----------------------------- MODULE Background -----------------------------
(***************************************************************************)
(* The life of a reactor: Background runs it on a thread of its own, lets  *)
(* go of it (forget) or shuts it down and waits (drop), while tasks that   *)
(* hold weak handles come and go.  Nothing in the crate ever stores        *)
(* SHUTDOWN_IDLE, so run's branch for it is left out.                      *)
(***************************************************************************)
EXTENDS Integers

CONSTANT Tasks    \* tasks that wait for I/O of this reactor

ASSUME BackgroundAssumption == "reactor" \notin Tasks /\ "owner" \notin Tasks

VARIABLES
  owner,           \* who created the Background: where in new, forget or drop
  reactor,         \* the thread: where in run
  shutdown,        \* Shared.shutdown
  shutdown_task,   \* Shared.shutdown_task holds the owner's waker
  unparked,        \* the owner's block_on has been woken
  wakeup,          \* reactor::Inner.wakeup is readable
  strong,          \* who holds an Arc<reactor::Inner>
  task,            \* tasks: "idle" | "holding" | "parked"
  wakers,          \* tasks whose waker the reactor has
  woken            \* tasks to be polled again

sharedVars == <<shutdown, shutdown_task, unparked>>
ioVars     == <<task, wakers, woken>>
vars       == <<owner, reactor, sharedVars, wakeup, strong, ioVars>>

SHUTDOWN_NOW == 2
SHUTDOWN     == 3

TypeOK ==
  /\ owner \in {"new", "failed", "has", "forgot", "wakeup", "set", "register", "check",
                "parked", "returned"}
  /\ reactor \in {"none", "load", "turn", "clear", "drop", "store", "wake", "done", "panicked"}
  /\ shutdown \in {0, SHUTDOWN_NOW, SHUTDOWN}
  /\ shutdown_task \in BOOLEAN
  /\ unparked \in BOOLEAN
  /\ wakeup \in BOOLEAN
  /\ strong \subseteq {"reactor", "owner"} \cup Tasks
  /\ task \in [Tasks -> {"idle", "holding", "parked"}]
  /\ wakers \subseteq Tasks
  /\ woken \subseteq Tasks

Init ==
  /\ owner = "new"
  /\ reactor = "none"
  /\ shutdown = 0
  /\ shutdown_task = FALSE
  /\ unparked = FALSE
  /\ wakeup = FALSE
  /\ strong = {"reactor"}
  /\ task = [t \in Tasks |-> "idle"]
  /\ wakers = {}
  /\ woken = {}

\* Fault: only the reactor's own thread wakes the tasks.
ReleaseByReactor(h, ws) ==
  /\ strong' = strong \ {h}
  /\ IF h = "reactor"
       THEN woken' = woken \cup ws /\ wakers' = {}
       ELSE wakers' = ws /\ UNCHANGED woken

\* h drops its Arc<Inner>, with the wakers ws registered; whoever drops the last
\* one runs Inner::drop, which wakes all tasks.
Release(h, ws) ==
  /\ strong' = strong \ {h}
  /\ IF strong \subseteq {h}
       THEN woken' = woken \cup ws /\ wakers' = {}
       ELSE wakers' = ws /\ UNCHANGED woken
-----------------------------------------------------------------------------
(* The tasks. *)

\* The task is polled; its registration upgrades the handle, or the poll fails.
TaskPoll(t) ==
  /\ task[t] = "idle" \/ (task[t] = "parked" /\ t \in woken)
  /\ woken' = woken \ {t}
  /\ task' = [task EXCEPT ![t] = IF strong = {} THEN "idle" ELSE "holding"]
  /\ strong' = IF strong = {} THEN {} ELSE strong \cup {t}
  /\ UNCHANGED <<owner, reactor, sharedVars, wakeup, wakers>>

\* The poll finds readiness.
TaskReady(t) ==
  /\ task[t] = "holding"
  /\ task' = [task EXCEPT ![t] = "idle"]
  /\ Release(t, wakers)
  /\ UNCHANGED <<owner, reactor, sharedVars, wakeup>>

\* The poll registers the task's waker and returns Pending.
TaskPark(t) ==
  /\ task[t] = "holding"
  /\ task' = [task EXCEPT ![t] = "parked"]
  /\ Release(t, wakers \cup {t})
  /\ UNCHANGED <<owner, reactor, sharedVars, wakeup>>
-----------------------------------------------------------------------------
(* The owner: Background::new, forget and drop. *)

Spawn ==
  /\ owner = "new"
  /\ owner' = "has"
  /\ reactor' = "load"
  /\ UNCHANGED <<sharedVars, wakeup, strong, ioVars>>

\* The closure is dropped, and the reactor with it.
SpawnFails ==
  /\ owner = "new"
  /\ owner' = "failed"
  /\ Release("reactor", wakers)
  /\ UNCHANGED <<reactor, sharedVars, wakeup, task>>

Forget ==
  /\ owner = "has"
  /\ owner' = "forgot"
  /\ UNCHANGED <<reactor, sharedVars, wakeup, strong, ioVars>>

\* Fault: the next state is asked for instead of SHUTDOWN_NOW.
ShutdownNext ==
  /\ owner = "has"
  /\ shutdown' = shutdown + 1
  /\ owner' = "wakeup"
  /\ UNCHANGED <<reactor, shutdown_task, unparked, wakeup, strong, ioVars>>

\* Background::drop: shutdown_now, up to its compare_and_swap, which nobody
\* makes fail.
ShutdownNow ==
  /\ owner = "has"
  /\ IF shutdown >= SHUTDOWN_NOW
       THEN UNCHANGED shutdown /\ owner' = "register"
       ELSE shutdown' = SHUTDOWN_NOW /\ owner' = "wakeup"
  /\ UNCHANGED <<reactor, shutdown_task, unparked, wakeup, strong, ioVars>>

\* Handle::wakeup: upgrades the handle.
Wakeup ==
  /\ owner = "wakeup"
  /\ IF strong = {}
       THEN UNCHANGED strong /\ owner' = "register"
       ELSE strong' = strong \cup {"owner"} /\ owner' = "set"
  /\ UNCHANGED <<reactor, sharedVars, wakeup, ioVars>>

SetReadiness ==
  /\ owner = "set"
  /\ wakeup' = TRUE
  /\ Release("owner", wakers)
  /\ owner' = "register"
  /\ UNCHANGED <<reactor, sharedVars, task>>

\* Shutdown::poll under block_on.
ShutdownRegister ==
  /\ owner = "register"
  /\ shutdown_task' = TRUE
  /\ owner' = "check"
  /\ UNCHANGED <<reactor, shutdown, unparked, wakeup, strong, ioVars>>

ShutdownCheck ==
  /\ owner = "check"
  /\ owner' = IF shutdown = SHUTDOWN THEN "returned" ELSE "parked"
  /\ UNCHANGED <<reactor, sharedVars, wakeup, strong, ioVars>>

Unpark ==
  /\ owner = "parked"
  /\ unparked
  /\ unparked' = FALSE
  /\ owner' = "register"
  /\ UNCHANGED <<reactor, shutdown, shutdown_task, wakeup, strong, ioVars>>

\* block_on's thread::park returns for another reason: spuriously, on a token left
\* over, or because another waker of the owner's thread was woken.
ParkReturns ==
  /\ owner = "parked"
  /\ owner' = "register"
  /\ UNCHANGED <<reactor, sharedVars, wakeup, strong, ioVars>>
-----------------------------------------------------------------------------
(* The reactor thread: run. *)

\* Fault: a reactor that tasks still wait for goes on.
RunLoadBusy ==
  /\ reactor = "load"
  /\ reactor' = IF shutdown = SHUTDOWN_NOW /\ wakers = {} THEN "drop" ELSE "turn"
  /\ UNCHANGED <<owner, sharedVars, wakeup, strong, ioVars>>

\* Fault: SHUTDOWN is announced before the reactor is dropped.
RunLoadEarly ==
  /\ reactor = "load"
  /\ IF shutdown = SHUTDOWN_NOW
       THEN reactor' = "drop" /\ shutdown' = SHUTDOWN
       ELSE reactor' = "turn" /\ UNCHANGED shutdown
  /\ UNCHANGED <<owner, shutdown_task, unparked, wakeup, strong, ioVars>>

RunLoad ==
  /\ reactor = "load"
  /\ reactor' = IF shutdown = SHUTDOWN_NOW THEN "drop" ELSE "turn"
  /\ UNCHANGED <<owner, sharedVars, wakeup, strong, ioVars>>

\* The I/O events of a turn: tasks are woken for them.
Dispatch ==
  \E ws \in SUBSET wakers : woken' = woken \cup ws /\ wakers' = wakers \ ws

\* A turn with I/O events alone.
TurnIo ==
  /\ reactor = "turn"
  /\ Dispatch
  /\ reactor' = "load"
  /\ UNCHANGED <<owner, sharedVars, wakeup, strong, task>>

\* A turn with the event of TOKEN_WAKEUP, which is level-triggered, among others.
TurnWakeup ==
  /\ reactor = "turn"
  /\ wakeup
  /\ Dispatch
  /\ reactor' = "clear"
  /\ UNCHANGED <<owner, sharedVars, wakeup, strong, task>>

\* Fault: a turn that saw only the wakeup waits on.
TurnWaitsOn ==
  /\ reactor = "clear"
  /\ wakeup' = FALSE
  /\ reactor' = "turn"
  /\ UNCHANGED <<owner, sharedVars, strong, ioVars>>

\* The same turn resets the readiness.
TurnClear ==
  /\ reactor = "clear"
  /\ wakeup' = FALSE
  /\ reactor' = "load"
  /\ UNCHANGED <<owner, sharedVars, strong, ioVars>>

\* turn returns an error, and run panics on it; or the turn panics itself because
\* the readiness cannot be reset.
TurnFails ==
  /\ reactor \in {"turn", "clear"}
  /\ reactor' = "panicked"
  /\ Release("reactor", wakers)
  /\ UNCHANGED <<owner, sharedVars, wakeup, task>>

RunDrop ==
  /\ reactor = "drop"
  /\ Release("reactor", wakers)
  /\ reactor' = "store"
  /\ UNCHANGED <<owner, sharedVars, wakeup, task>>

\* Fault: the thread ends without waking the owner.
RunStoreSilently ==
  /\ reactor = "store"
  /\ shutdown' = SHUTDOWN
  /\ reactor' = "done"
  /\ UNCHANGED <<owner, shutdown_task, unparked, wakeup, strong, ioVars>>

RunStore ==
  /\ reactor = "store"
  /\ shutdown' = SHUTDOWN
  /\ reactor' = "wake"
  /\ UNCHANGED <<owner, shutdown_task, unparked, wakeup, strong, ioVars>>

RunWake ==
  /\ reactor = "wake"
  /\ unparked' = (unparked \/ shutdown_task)
  /\ shutdown_task' = FALSE
  /\ reactor' = "done"
  /\ UNCHANGED <<owner, shutdown, wakeup, strong, ioVars>>
-----------------------------------------------------------------------------
TaskStep(t) == TaskPoll(t) \/ TaskReady(t) \/ TaskPark(t)

DropStep ==
  Wakeup \/ SetReadiness \/ ShutdownRegister \/ ShutdownCheck \/ Unpark

OwnerStep == Spawn \/ SpawnFails \/ Forget \/ ShutdownNow \/ DropStep \/ ParkReturns

RunStep == RunLoad \/ TurnWakeup \/ TurnClear \/ RunDrop \/ RunStore \/ RunWake

Next == (\E t \in Tasks : TaskStep(t)) \/ OwnerStep \/ RunStep \/ TurnIo \/ TurnFails

Spec == Init /\ [][Next]_vars

\* Threads keep running, and a turn returns when the wakeup is readable; it need
\* not return for any other reason.  Nor need park: ParkReturns gets no fairness.
Fairness == WF_vars(DropStep) /\ WF_vars(RunStep)

FairSpec == Spec /\ Fairness
-----------------------------------------------------------------------------
(* Correctness. *)

\* Inner::drop: "When a reactor is dropped it needs to wake up all blocked tasks
\* as they'll never receive a notification".  No task stays parked without being
\* woken once the last reference is gone, whether a task, the reactor thread, a
\* panic, a failed spawn or the owner's wakeup held it.
NoOrphans ==
  \A t \in Tasks :
    task[t] = "parked" /\ t \notin woken => strong # {} /\ t \in wakers

\* Handle::wakeup: "If the reactor is not currently blocked in turn, then the
\* next call to turn will not block": a reactor does not block in turn once the
\* owner has asked for the shutdown, even if the request comes between run's
\* load and the turn, or while an earlier wakeup is being reset.
WakeupRemembered ==
  reactor = "turn" /\ shutdown = SHUTDOWN_NOW => wakeup \/ owner \in {"wakeup", "set"}

\* A Shutdown that waits will be woken: its waker is registered and the thread
\* has yet to wake it, or that has happened; unless the thread panicked.
ShutdownNotified ==
  owner = "parked" =>
    unparked \/ (shutdown_task /\ reactor # "done") \/ reactor = "panicked"

\* The drop of a Background returns after the thread has dropped the reactor.
DropWaits == owner = "returned" => "reactor" \notin strong

\* How far the thread is from the end of a shutdown, and how far the owner is once
\* the thread has announced it.
ReactorDistance(at) ==
  CASE at = "turn"  -> 6
    [] at = "clear" -> 5
    [] at = "load"  -> 4
    [] at = "drop"  -> 3
    [] at = "store" -> 2
    [] at = "wake"  -> 1
    [] OTHER        -> 0

OwnerDistance(at) ==
  CASE at = "wakeup"   -> 5
    [] at = "set"      -> 4
    [] at = "parked"   -> 3
    [] at = "register" -> 2
    [] at = "check"    -> 1
    [] OTHER           -> 0

\* From the request on, every step of the thread brings its end closer: it makes
\* no further round, whatever the tasks and their events do.  Once SHUTDOWN is
\* stored, every step of the owner brings the return of drop closer: Shutdown is
\* polled once more at most, whatever it was that made park return.  (Before
\* that, park may return and Shutdown be polled any number of times.)
ShutdownAdvances ==
  [][/\ shutdown # 0 /\ reactor' # reactor
          => ReactorDistance(reactor') < ReactorDistance(reactor)
     /\ shutdown = SHUTDOWN /\ owner' # owner
          => OwnerDistance(owner') < OwnerDistance(owner)]_vars

\* A shutdown comes to an end: the drop returns, unless a failed turn panics the
\* thread.
ShutdownEnds == owner = "wakeup" ~> owner = "returned" \/ reactor = "panicked"

\* "Future that resolves when the reactor thread has shutdown": the drop of a
\* Background returns.
DropReturns == owner = "wakeup" ~> owner = "returned"
=============================================================================
