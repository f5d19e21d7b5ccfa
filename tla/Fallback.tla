------------------------------ MODULE Fallback ------------------------------
(***************************************************************************)
(* HandlePriv::fallback: callers that need a reactor race to create the    *)
(* global one, whose handle is a raw Weak<Inner> in HANDLE_FALLBACK, and   *)
(* use it, perhaps before its thread runs or though its thread never will. *)
(***************************************************************************)
EXTENDS Integers, FiniteSets

CONSTANTS
  Callers,    \* of fallback; each creates one reactor at most, named after it
  NoReactor   \* the value 0 of HANDLE_FALLBACK

ASSUME CallersAssumption == IsFiniteSet(Callers) /\ NoReactor \notin Callers

VARIABLES
  HANDLE_FALLBACK,
  pc,         \* callers: where in fallback, or in the use of the handle
  fallback,   \* callers: the local variable
  handle,     \* callers: the HandlePriv that fallback returned
  runner,     \* reactors: where the Reactor is, which owns an Arc<Inner>
  weak        \* reactors: the Weak references to Inner that are counted

vars == <<HANDLE_FALLBACK, pc, fallback, handle, runner, weak>>

Handles == Callers \cup {NoReactor}

TypeOK ==
  /\ HANDLE_FALLBACK \in Handles
  /\ pc \in [Callers -> {"load", "new", "set", "ret", "spawn", "reload", "clone", "has",
                         "holds", "waits", "gone"}]
  /\ fallback \in [Callers -> Handles]
  /\ handle \in [Callers -> Handles]
  /\ runner \in [Callers -> {"none", "stack", "thread", "dropped"}]
  /\ weak \in [Callers -> Nat]

Init ==
  /\ HANDLE_FALLBACK = NoReactor
  /\ pc = [c \in Callers |-> "load"]
  /\ fallback = [c \in Callers |-> NoReactor]
  /\ handle = [c \in Callers |-> NoReactor]
  /\ runner = [c \in Callers |-> "none"]
  /\ weak = [c \in Callers |-> 0]

Goto(c, l) == pc' = [pc EXCEPT ![c] = l]

\* An Arc<Inner> exists: the Reactor has one, and so has a caller in the middle
\* of add_source or poll_ready.
AliveIn(r, p, run) ==
  run[r] \in {"stack", "thread"} \/ \E c \in Callers : p[c] = "holds" /\ handle[c] = r

Alive(r) == AliveIn(r, pc, runner)

\* Fault: the drop of the Reactor wakes them, whoever else has an Arc<Inner>.
ReleaseByReactor(p, run) ==
  /\ runner' = run
  /\ pc' = [c \in Callers |->
              IF p[c] = "waits" /\ run # runner /\ run[handle[c]] = "dropped"
              THEN "gone" ELSE p[c]]

\* With the last Arc<Inner> the readers and writers of its resources are woken;
\* they find no reactor.
Release(p, run) ==
  /\ runner' = run
  /\ pc' = [c \in Callers |->
              IF p[c] = "waits" /\ ~AliveIn(handle[c], p, run) THEN "gone" ELSE p[c]]
-----------------------------------------------------------------------------
(* HandlePriv::fallback *)

Load(c) ==
  /\ pc[c] = "load"
  /\ fallback' = [fallback EXCEPT ![c] = HANDLE_FALLBACK]
  /\ Goto(c, IF HANDLE_FALLBACK = NoReactor THEN "new" ELSE "clone")
  /\ UNCHANGED <<HANDLE_FALLBACK, handle, runner, weak>>

New(c) ==
  /\ pc[c] = "new"
  /\ runner' = [runner EXCEPT ![c] = "stack"]
  /\ Goto(c, "set")
  /\ UNCHANGED <<HANDLE_FALLBACK, fallback, handle, weak>>

\* "failed to create reactor"; the caller may try again.
NewFails(c) ==
  /\ pc[c] = "new"
  /\ Goto(c, "load")
  /\ UNCHANGED <<HANDLE_FALLBACK, fallback, handle, runner, weak>>

\* Fault: the last caller wins.
SetFallbackStore(c) ==
  /\ pc[c] = "set"
  /\ HANDLE_FALLBACK' = c
  /\ weak' = [weak EXCEPT ![c] = @ + 1]
  /\ Goto(c, "ret")
  /\ UNCHANGED <<fallback, handle, runner>>

\* Fault: the loser's handle is dropped twice.
SetFallbackDropsTwice(c) ==
  /\ pc[c] = "set"
  /\ IF HANDLE_FALLBACK = NoReactor
       THEN /\ HANDLE_FALLBACK' = c
            /\ weak' = [weak EXCEPT ![c] = @ + 1]
            /\ Goto(c, "ret")
       ELSE /\ weak' = [weak EXCEPT ![c] = @ - 1]
            /\ Goto(c, "reload")
            /\ UNCHANGED HANDLE_FALLBACK
  /\ UNCHANGED <<fallback, handle, runner>>

\* set_fallback: a handle goes into the global, or is dropped again.
SetFallback(c) ==
  /\ pc[c] = "set"
  /\ IF HANDLE_FALLBACK = NoReactor
       THEN /\ HANDLE_FALLBACK' = c
            /\ weak' = [weak EXCEPT ![c] = @ + 1]
            /\ Goto(c, "ret")
       ELSE Goto(c, "reload") /\ UNCHANGED <<HANDLE_FALLBACK, weak>>
  /\ UNCHANGED <<fallback, handle, runner>>

Ret(c) ==
  /\ pc[c] = "ret"
  /\ handle' = [handle EXCEPT ![c] = c]
  /\ weak' = [weak EXCEPT ![c] = @ + 1]
  /\ Goto(c, "spawn")
  /\ UNCHANGED <<HANDLE_FALLBACK, fallback, runner>>

\* reactor.background() and forget: the Background's own handle comes and goes.
Spawn(c) ==
  /\ pc[c] = "spawn"
  /\ runner' = [runner EXCEPT ![c] = "thread"]
  /\ Goto(c, "has")
  /\ UNCHANGED <<HANDLE_FALLBACK, fallback, handle, weak>>

\* Fault: the Reactor survives the closure that could not be started.
SpawnFailsQuietly(c) ==
  /\ pc[c] = "spawn"
  /\ Goto(c, "has")
  /\ UNCHANGED <<HANDLE_FALLBACK, fallback, handle, runner, weak>>

\* The thread cannot be created: the Reactor is dropped with its closure.
SpawnFails(c) ==
  /\ pc[c] = "spawn"
  /\ Release([pc EXCEPT ![c] = "has"], [runner EXCEPT ![c] = "dropped"])
  /\ UNCHANGED <<HANDLE_FALLBACK, fallback, handle, weak>>

\* The loser of the race reloads; its Reactor is dropped at the end of the block.
Reload(c) ==
  /\ pc[c] = "reload"
  /\ fallback' = [fallback EXCEPT ![c] = HANDLE_FALLBACK]
  /\ runner' = [runner EXCEPT ![c] = "dropped"]
  /\ Goto(c, "clone")
  /\ UNCHANGED <<HANDLE_FALLBACK, handle, weak>>

\* Fault: the handle that was made from the global is dropped.
CloneDropped(c) ==
  /\ pc[c] = "clone"
  /\ fallback[c] # NoReactor
  /\ handle' = [handle EXCEPT ![c] = fallback[c]]
  /\ Goto(c, "has")
  /\ UNCHANGED <<HANDLE_FALLBACK, fallback, runner, weak>>

\* assert!(fallback != 0); from_usize, clone, into_usize.
Clone(c) ==
  /\ pc[c] = "clone"
  /\ fallback[c] # NoReactor
  /\ handle' = [handle EXCEPT ![c] = fallback[c]]
  /\ weak' = [weak EXCEPT ![fallback[c]] = @ + 1]
  /\ Goto(c, "has")
  /\ UNCHANGED <<HANDLE_FALLBACK, fallback, runner>>
-----------------------------------------------------------------------------
(* The use of the handle: a registration and its polls. *)

\* handle.inner() of Inner::new or Inner::poll_ready.
Upgrade(c) ==
  /\ pc[c] \in {"has", "waits"}
  /\ Goto(c, IF Alive(handle[c]) THEN "holds" ELSE "gone")
  /\ UNCHANGED <<HANDLE_FALLBACK, fallback, handle, runner, weak>>

\* Registered, with a waker and without readiness.
Park(c) ==
  /\ pc[c] = "holds"
  /\ Release([pc EXCEPT ![c] = "waits"], runner)
  /\ UNCHANGED <<HANDLE_FALLBACK, fallback, handle, weak>>

\* The resource is dropped, and its handle with it; another one asks for the
\* reactor again.
DropHandle(c) ==
  /\ pc[c] \in {"has", "waits", "gone"}
  /\ weak' = [weak EXCEPT ![handle[c]] = @ - 1]
  /\ handle' = [handle EXCEPT ![c] = NoReactor]
  /\ Goto(c, "load")
  /\ UNCHANGED <<HANDLE_FALLBACK, fallback, runner>>

\* The thread panics in turn.
ThreadPanics(r) ==
  /\ runner[r] = "thread"
  /\ Release(pc, [runner EXCEPT ![r] = "dropped"])
  /\ UNCHANGED <<HANDLE_FALLBACK, fallback, handle, weak>>
-----------------------------------------------------------------------------
FallbackStep(c) ==
  \/ Load(c)
  \/ New(c)
  \/ NewFails(c)
  \/ SetFallback(c)
  \/ Ret(c)
  \/ Spawn(c)
  \/ SpawnFails(c)
  \/ Reload(c)
  \/ Clone(c)

Next ==
  \E c \in Callers :
    FallbackStep(c) \/ Upgrade(c) \/ Park(c) \/ DropHandle(c) \/ ThreadPanics(c)

Spec == Init /\ [][Next]_vars

\* A caller inside fallback goes on.
FairSpec == Spec /\ \A c \in Callers : WF_vars(FallbackStep(c))
-----------------------------------------------------------------------------
(* Correctness. *)

\* The count of weak references is that of the handles in use, with the global
\* one: nobody makes a handle of freed memory, and none is leaked.
WeakCounted ==
  \A r \in Callers :
    weak[r] = Cardinality({c \in Callers : handle[c] = r})
                + (IF HANDLE_FALLBACK = r THEN 1 ELSE 0)

\* The value that is turned into a handle is that of the global, which is set: the
\* assertion holds, and what was loaded is not stale.
LoadedIsGlobal ==
  \A c \in Callers :
    pc[c] = "clone" => fallback[c] # NoReactor /\ fallback[c] = HANDLE_FALLBACK

\* All handles lead to one reactor, and those that lost the race are destroyed
\* before their creators get the handle of the one that won.
HandlesAgree ==
  \A c \in Callers :
    /\ handle[c] \in {NoReactor, HANDLE_FALLBACK}
    /\ c # HANDLE_FALLBACK /\ Alive(c) => pc[c] \in {"set", "reload"}

\* However the race for HANDLE_FALLBACK ends, one reactor is left, and everybody
\* gets its handle: the losers, and those who found the global set.
OneReactor == LoadedIsGlobal /\ HandlesAgree

\* A task does not wait for a reactor that is gone, though the handle was given
\* out before the thread was started and the thread may fail to start.
NobodyStranded == \A c \in Callers : pc[c] = "waits" => Alive(handle[c])

\* A reactor that was created gets its thread or is destroyed: nobody is left
\* registered with one that nothing will ever poll.
StartedOrDropped == \A r \in Callers : runner[r] = "stack" ~> runner[r] # "stack"
=============================================================================
