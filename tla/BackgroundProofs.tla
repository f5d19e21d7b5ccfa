-------------------------- MODULE BackgroundProofs --------------------------
(***************************************************************************)
(* Proofs about Background: nobody who waits for the reactor, or for its    *)
(* end, is forgotten.                                                       *)
(***************************************************************************)
EXTENDS Background, TLAPS

\* Who holds an Arc<Inner>, read off everybody's position.
StrongInv ==
  /\ "reactor" \in strong <=> owner = "new" \/ reactor \in {"load", "turn", "clear", "drop"}
  /\ "owner" \in strong <=> owner = "set"
  /\ \A t \in Tasks : t \in strong <=> task[t] = "holding"

\* How far the shutdown is, for the owner and for the thread.
ShutdownInv ==
  /\ reactor = "none" <=> owner \in {"new", "failed"}
  /\ shutdown = 0 <=> owner \in {"new", "failed", "has", "forgot"}
  /\ shutdown = SHUTDOWN <=> reactor \in {"wake", "done"}
  /\ reactor \in {"drop", "store"} => shutdown = SHUTDOWN_NOW
  /\ owner = "check" => shutdown_task \/ unparked
  /\ owner = "returned" => shutdown = SHUTDOWN

\* The inductive invariant.
IInv ==
  TypeOK /\ StrongInv /\ ShutdownInv /\ NoOrphans /\ WakeupRemembered /\ ShutdownNotified

\* The invariant holds initially.
LEMMA InitInv == Init => IInv
<1> SUFFICES ASSUME Init  PROVE IInv
  OBVIOUS
<1> USE BackgroundAssumption DEF Init, SHUTDOWN, SHUTDOWN_NOW
<1>1. TypeOK
  BY DEF TypeOK
<1>2. StrongInv
  BY DEF StrongInv
<1>3. ShutdownInv /\ NoOrphans /\ WakeupRemembered /\ ShutdownNotified
  BY DEF ShutdownInv, NoOrphans, WakeupRemembered, ShutdownNotified
<1>4. QED
  BY <1>1, <1>2, <1>3 DEF IInv

\* Every step keeps the invariant.
LEMMA NextInv == IInv /\ [Next]_vars => IInv'
<1> SUFFICES ASSUME TypeOK, StrongInv, ShutdownInv, NoOrphans, WakeupRemembered,
                    ShutdownNotified, [Next]_vars
             PROVE  IInv'
  BY DEF IInv
<1> USE BackgroundAssumption DEF sharedVars, ioVars, SHUTDOWN, SHUTDOWN_NOW
<1>1. ASSUME NEW t \in Tasks, TaskPoll(t)
     PROVE  IInv'
  <2>1. TypeOK'
    <3>1. task' \in [Tasks -> {"idle", "holding", "parked"}]
      BY <1>1 DEF TaskPoll, TypeOK
    <3>2. strong' \subseteq {"reactor", "owner"} \cup Tasks /\ woken' \subseteq Tasks
      BY <1>1 DEF TaskPoll, TypeOK
    <3>3. QED  BY <1>1, <3>1, <3>2 DEF TaskPoll, TypeOK
  <2>2. StrongInv' /\ NoOrphans'
    BY <1>1 DEF TaskPoll, TypeOK, StrongInv, NoOrphans, ShutdownInv
  <2>3. ShutdownInv' /\ WakeupRemembered' /\ ShutdownNotified'
    BY <1>1 DEF TaskPoll, TypeOK, StrongInv, ShutdownInv, WakeupRemembered, ShutdownNotified
  <2>4. QED  BY <2>1, <2>2, <2>3 DEF IInv
<1>2. ASSUME NEW t \in Tasks, TaskReady(t)
     PROVE  IInv'
  <2>1. TypeOK'
    BY <1>2 DEF TaskReady, Release, TypeOK
  <2>2. StrongInv' /\ NoOrphans'
    BY <1>2 DEF TaskReady, Release, TypeOK, StrongInv, NoOrphans, ShutdownInv
  <2>3. ShutdownInv' /\ WakeupRemembered' /\ ShutdownNotified'
    BY <1>2
    DEF TaskReady, Release, TypeOK, StrongInv, ShutdownInv, WakeupRemembered,
        ShutdownNotified
  <2>4. QED  BY <2>1, <2>2, <2>3 DEF IInv
<1>3. ASSUME NEW t \in Tasks, TaskPark(t)
     PROVE  IInv'
  <2>1. TypeOK'
    BY <1>3 DEF TaskPark, Release, TypeOK
  <2>2. StrongInv' /\ NoOrphans'
    BY <1>3 DEF TaskPark, Release, TypeOK, StrongInv, NoOrphans, ShutdownInv
  <2>3. ShutdownInv' /\ WakeupRemembered' /\ ShutdownNotified'
    BY <1>3
    DEF TaskPark, Release, TypeOK, StrongInv, ShutdownInv, WakeupRemembered,
        ShutdownNotified
  <2>4. QED  BY <2>1, <2>2, <2>3 DEF IInv
<1>4. CASE Spawn
  <2>1. TypeOK'
    BY <1>4 DEF Spawn, TypeOK
  <2>2. StrongInv' /\ NoOrphans'
    BY <1>4 DEF Spawn, TypeOK, StrongInv, NoOrphans, ShutdownInv
  <2>3. ShutdownInv' /\ WakeupRemembered' /\ ShutdownNotified'
    BY <1>4 DEF Spawn, TypeOK, StrongInv, ShutdownInv, WakeupRemembered, ShutdownNotified
  <2>4. QED  BY <2>1, <2>2, <2>3 DEF IInv
<1>5. CASE SpawnFails
  <2>1. TypeOK'
    BY <1>5 DEF SpawnFails, Release, TypeOK
  <2>2. StrongInv' /\ NoOrphans'
    BY <1>5 DEF SpawnFails, Release, TypeOK, StrongInv, NoOrphans, ShutdownInv
  <2>3. ShutdownInv' /\ WakeupRemembered' /\ ShutdownNotified'
    BY <1>5
    DEF SpawnFails, Release, TypeOK, StrongInv, ShutdownInv, WakeupRemembered,
        ShutdownNotified
  <2>4. QED  BY <2>1, <2>2, <2>3 DEF IInv
<1>6. CASE Forget
  <2>1. TypeOK'
    BY <1>6 DEF Forget, TypeOK
  <2>2. StrongInv' /\ NoOrphans'
    BY <1>6 DEF Forget, TypeOK, StrongInv, NoOrphans, ShutdownInv
  <2>3. ShutdownInv' /\ WakeupRemembered' /\ ShutdownNotified'
    BY <1>6 DEF Forget, TypeOK, StrongInv, ShutdownInv, WakeupRemembered, ShutdownNotified
  <2>4. QED  BY <2>1, <2>2, <2>3 DEF IInv
<1>7. CASE ShutdownNow
  <2>1. TypeOK'
    BY <1>7 DEF ShutdownNow, TypeOK
  <2>2. StrongInv' /\ NoOrphans'
    BY <1>7 DEF ShutdownNow, TypeOK, StrongInv, NoOrphans, ShutdownInv
  <2>3. ShutdownInv' /\ WakeupRemembered' /\ ShutdownNotified'
    BY <1>7
    DEF ShutdownNow, TypeOK, StrongInv, ShutdownInv, WakeupRemembered, ShutdownNotified
  <2>4. QED  BY <2>1, <2>2, <2>3 DEF IInv
<1>8. CASE Wakeup
  <2>1. TypeOK'
    BY <1>8 DEF Wakeup, TypeOK
  <2>2. StrongInv' /\ NoOrphans'
    BY <1>8 DEF Wakeup, TypeOK, StrongInv, NoOrphans, ShutdownInv
  <2>3. ShutdownInv' /\ WakeupRemembered' /\ ShutdownNotified'
    BY <1>8 DEF Wakeup, TypeOK, StrongInv, ShutdownInv, WakeupRemembered, ShutdownNotified
  <2>4. QED  BY <2>1, <2>2, <2>3 DEF IInv
<1>9. CASE SetReadiness
  <2>1. TypeOK'
    BY <1>9 DEF SetReadiness, Release, TypeOK
  <2>2. StrongInv' /\ NoOrphans'
    BY <1>9 DEF SetReadiness, Release, TypeOK, StrongInv, NoOrphans, ShutdownInv
  <2>3. ShutdownInv' /\ WakeupRemembered' /\ ShutdownNotified'
    BY <1>9
    DEF SetReadiness, Release, TypeOK, StrongInv, ShutdownInv, WakeupRemembered,
        ShutdownNotified
  <2>4. QED  BY <2>1, <2>2, <2>3 DEF IInv
<1>10. CASE ShutdownRegister
  <2>1. TypeOK'
    BY <1>10 DEF ShutdownRegister, TypeOK
  <2>2. StrongInv' /\ NoOrphans'
    BY <1>10 DEF ShutdownRegister, TypeOK, StrongInv, NoOrphans, ShutdownInv
  <2>3. ShutdownInv' /\ WakeupRemembered' /\ ShutdownNotified'
    BY <1>10
    DEF ShutdownRegister, TypeOK, StrongInv, ShutdownInv, WakeupRemembered, ShutdownNotified
  <2>4. QED  BY <2>1, <2>2, <2>3 DEF IInv
<1>11. CASE ShutdownCheck
  <2>1. TypeOK'
    BY <1>11 DEF ShutdownCheck, TypeOK
  <2>2. StrongInv' /\ NoOrphans'
    BY <1>11 DEF ShutdownCheck, TypeOK, StrongInv, NoOrphans, ShutdownInv
  <2>3. ShutdownInv' /\ WakeupRemembered' /\ ShutdownNotified'
    BY <1>11
    DEF ShutdownCheck, TypeOK, StrongInv, ShutdownInv, WakeupRemembered, ShutdownNotified
  <2>4. QED  BY <2>1, <2>2, <2>3 DEF IInv
<1>12. CASE Unpark
  <2>1. TypeOK'
    BY <1>12 DEF Unpark, TypeOK
  <2>2. StrongInv' /\ NoOrphans'
    BY <1>12 DEF Unpark, TypeOK, StrongInv, NoOrphans, ShutdownInv
  <2>3. ShutdownInv' /\ WakeupRemembered' /\ ShutdownNotified'
    BY <1>12 DEF Unpark, TypeOK, StrongInv, ShutdownInv, WakeupRemembered, ShutdownNotified
  <2>4. QED  BY <2>1, <2>2, <2>3 DEF IInv
<1>13. CASE RunLoad
  <2>1. TypeOK'
    BY <1>13 DEF RunLoad, TypeOK
  <2>2. StrongInv' /\ NoOrphans'
    BY <1>13 DEF RunLoad, TypeOK, StrongInv, NoOrphans, ShutdownInv
  <2>3. ShutdownInv' /\ WakeupRemembered' /\ ShutdownNotified'
    BY <1>13 DEF RunLoad, TypeOK, StrongInv, ShutdownInv, WakeupRemembered, ShutdownNotified
  <2>4. QED  BY <2>1, <2>2, <2>3 DEF IInv
<1>14. CASE TurnIo
  <2>1. TypeOK'
    BY <1>14 DEF TurnIo, Dispatch, TypeOK
  <2>2. StrongInv' /\ NoOrphans'
    BY <1>14 DEF TurnIo, Dispatch, TypeOK, StrongInv, NoOrphans, ShutdownInv
  <2>3. ShutdownInv' /\ WakeupRemembered' /\ ShutdownNotified'
    BY <1>14
    DEF TurnIo, Dispatch, TypeOK, StrongInv, ShutdownInv, WakeupRemembered, ShutdownNotified
  <2>4. QED  BY <2>1, <2>2, <2>3 DEF IInv
<1>15. CASE TurnWakeup
  <2>1. TypeOK'
    BY <1>15 DEF TurnWakeup, Dispatch, TypeOK
  <2>2. StrongInv' /\ NoOrphans'
    BY <1>15 DEF TurnWakeup, Dispatch, TypeOK, StrongInv, NoOrphans, ShutdownInv
  <2>3. ShutdownInv' /\ WakeupRemembered' /\ ShutdownNotified'
    BY <1>15
    DEF TurnWakeup, Dispatch, TypeOK, StrongInv, ShutdownInv, WakeupRemembered,
        ShutdownNotified
  <2>4. QED  BY <2>1, <2>2, <2>3 DEF IInv
<1>16. CASE TurnClear
  <2>1. TypeOK'
    BY <1>16 DEF TurnClear, TypeOK
  <2>2. StrongInv' /\ NoOrphans'
    BY <1>16 DEF TurnClear, TypeOK, StrongInv, NoOrphans, ShutdownInv
  <2>3. ShutdownInv' /\ WakeupRemembered' /\ ShutdownNotified'
    BY <1>16
    DEF TurnClear, TypeOK, StrongInv, ShutdownInv, WakeupRemembered, ShutdownNotified
  <2>4. QED  BY <2>1, <2>2, <2>3 DEF IInv
<1>17. CASE TurnFails
  <2>1. TypeOK'
    BY <1>17 DEF TurnFails, Release, TypeOK
  <2>2. StrongInv' /\ NoOrphans'
    BY <1>17 DEF TurnFails, Release, TypeOK, StrongInv, NoOrphans, ShutdownInv
  <2>3. ShutdownInv' /\ WakeupRemembered' /\ ShutdownNotified'
    BY <1>17
    DEF TurnFails, Release, TypeOK, StrongInv, ShutdownInv, WakeupRemembered,
        ShutdownNotified
  <2>4. QED  BY <2>1, <2>2, <2>3 DEF IInv
<1>18. CASE RunDrop
  <2>1. TypeOK'
    BY <1>18 DEF RunDrop, Release, TypeOK
  <2>2. StrongInv' /\ NoOrphans'
    BY <1>18 DEF RunDrop, Release, TypeOK, StrongInv, NoOrphans, ShutdownInv
  <2>3. ShutdownInv' /\ WakeupRemembered' /\ ShutdownNotified'
    BY <1>18
    DEF RunDrop, Release, TypeOK, StrongInv, ShutdownInv, WakeupRemembered, ShutdownNotified
  <2>4. QED  BY <2>1, <2>2, <2>3 DEF IInv
<1>19. CASE RunStore
  <2>1. TypeOK'
    BY <1>19 DEF RunStore, TypeOK
  <2>2. StrongInv' /\ NoOrphans'
    BY <1>19 DEF RunStore, TypeOK, StrongInv, NoOrphans, ShutdownInv
  <2>3. ShutdownInv' /\ WakeupRemembered' /\ ShutdownNotified'
    BY <1>19
    DEF RunStore, TypeOK, StrongInv, ShutdownInv, WakeupRemembered, ShutdownNotified
  <2>4. QED  BY <2>1, <2>2, <2>3 DEF IInv
<1>20. CASE RunWake
  <2>1. TypeOK'
    BY <1>20 DEF RunWake, TypeOK
  <2>2. StrongInv' /\ NoOrphans'
    BY <1>20 DEF RunWake, TypeOK, StrongInv, NoOrphans, ShutdownInv
  <2>3. ShutdownInv' /\ WakeupRemembered' /\ ShutdownNotified'
    BY <1>20 DEF RunWake, TypeOK, StrongInv, ShutdownInv, WakeupRemembered, ShutdownNotified
  <2>4. QED  BY <2>1, <2>2, <2>3 DEF IInv
<1>21. CASE UNCHANGED vars
  BY <1>21
  DEF vars, IInv, TypeOK, StrongInv, ShutdownInv, NoOrphans, WakeupRemembered,
      ShutdownNotified
<1>22. CASE ParkReturns
  <2>1. TypeOK'
    BY <1>22 DEF ParkReturns, TypeOK
  <2>2. StrongInv' /\ NoOrphans'
    BY <1>22 DEF ParkReturns, TypeOK, StrongInv, NoOrphans, ShutdownInv
  <2>3. ShutdownInv' /\ WakeupRemembered' /\ ShutdownNotified'
    BY <1>22
    DEF ParkReturns, TypeOK, StrongInv, ShutdownInv, WakeupRemembered, ShutdownNotified
  <2>4. QED  BY <2>1, <2>2, <2>3 DEF IInv
<1>23. QED
  BY <1>1, <1>2, <1>3, <1>4, <1>5, <1>6, <1>7, <1>8, <1>9, <1>10, <1>11, <1>12, <1>13,
     <1>14, <1>15, <1>16, <1>17, <1>18, <1>19, <1>20, <1>21, <1>22
  DEF Next, TaskStep, OwnerStep, DropStep, RunStep

\* Every reachable state satisfies the invariant.
LEMMA InvHolds == Spec => []IInv
  BY InitInv, NextInv, PTL DEF Spec

\* Type correctness: in particular nobody ever stores SHUTDOWN_IDLE.
THEOREM TypeCorrect == Spec => []TypeOK
<1>1. IInv => TypeOK  BY DEF IInv
<1>2. QED  BY <1>1, InvHolds, PTL

\* However many tasks there are and whoever holds the last reference to the
\* reactor, its end wakes every task that waits.
THEOREM TasksNotOrphaned == Spec => []NoOrphans
<1>1. IInv => NoOrphans  BY DEF IInv
<1>2. QED  BY <1>1, InvHolds, PTL

\* shutdown_now gets through to a reactor that is about to block in turn.
THEOREM RequestGetsThrough == Spec => []WakeupRemembered
<1>1. IInv => WakeupRemembered  BY DEF IInv
<1>2. QED  BY <1>1, InvHolds, PTL

\* The end of the thread gets through to the Shutdown that waits for it.
THEOREM EndGetsThrough == Spec => []ShutdownNotified
<1>1. IInv => ShutdownNotified  BY DEF IInv
<1>2. QED  BY <1>1, InvHolds, PTL

\* The drop of a Background does not return before the thread has let go of the
\* reactor.
THEOREM DropOrdered == Spec => []DropWaits
<1>1. IInv => DropWaits
  BY DEF IInv, TypeOK, StrongInv, ShutdownInv, DropWaits, SHUTDOWN, SHUTDOWN_NOW
<1>2. QED  BY <1>1, InvHolds, PTL

\* A Background that is neither dropped nor was refused a thread, and a forgotten
\* one in particular ("until the process terminates"), keeps its reactor running.
RunsUntilTold ==
  owner \in {"has", "forgot"} => reactor \in {"load", "turn", "clear", "panicked"}

\* Nothing but a request, or a panic, ends the thread's loop.
THEOREM LoopGoesOn == Spec => []RunsUntilTold
<1>1. IInv => RunsUntilTold
  BY DEF IInv, TypeOK, StrongInv, ShutdownInv, RunsUntilTold, SHUTDOWN, SHUTDOWN_NOW
<1>2. QED  BY <1>1, InvHolds, PTL
-----------------------------------------------------------------------------
(* The safety half of ShutdownEnds, in two parts: until SHUTDOWN is stored the *)
(* thread comes closer to storing it, and from then on the owner comes closer  *)
(* to returning.                                                               *)

\* The distances, position by position.
LEMMA Distances ==
  /\ OwnerDistance("wakeup") = 5
  /\ OwnerDistance("set") = 4
  /\ OwnerDistance("parked") = 3
  /\ OwnerDistance("register") = 2
  /\ OwnerDistance("check") = 1
  /\ OwnerDistance("returned") = 0
  /\ ReactorDistance("turn") = 6
  /\ ReactorDistance("clear") = 5
  /\ ReactorDistance("load") = 4
  /\ ReactorDistance("drop") = 3
  /\ ReactorDistance("store") = 2
  /\ ReactorDistance("wake") = 1
  /\ ReactorDistance("done") = 0
  /\ ReactorDistance("panicked") = 0
  BY DEF OwnerDistance, ReactorDistance

\* Once a shutdown has been requested the owner and the thread are at positions
\* that lead to its end.
LEMMA Requested ==
  ASSUME TypeOK, ShutdownInv, shutdown # 0
  PROVE  /\ owner \in {"wakeup", "set", "register", "check", "parked", "returned"}
         /\ reactor \in {"load", "turn", "clear", "drop", "store", "wake", "done", "panicked"}
  BY DEF TypeOK, ShutdownInv

\* From the request on the thread only moves towards its end; from SHUTDOWN on
\* the owner only moves towards the return of drop, though park may return at any
\* time.
THEOREM EndComesCloser == Spec => ShutdownAdvances
<1> USE DEF sharedVars, ioVars, SHUTDOWN, SHUTDOWN_NOW
<1>1. ASSUME IInv, [Next]_vars, shutdown # 0, reactor' # reactor
      PROVE  ReactorDistance(reactor') < ReactorDistance(reactor)
  <2>0. TypeOK /\ ShutdownInv
    BY <1>1 DEF IInv
  <2>1. owner \in {"wakeup", "set", "register", "check", "parked", "returned"}
    BY <1>1, <2>0, Requested
  <2>2. CASE RunLoad
    BY <1>1, <2>0, <2>2, Distances DEF RunLoad, TypeOK, ShutdownInv
  <2>3. CASE TurnIo \/ TurnWakeup \/ TurnClear
    BY <2>3, Distances DEF TurnIo, TurnWakeup, TurnClear
  <2>4. CASE TurnFails
    BY <2>4, Distances DEF TurnFails
  <2>5. CASE RunDrop \/ RunStore \/ RunWake
    BY <2>5, Distances DEF RunDrop, RunStore, RunWake
  <2>6. QED
    BY <1>1, <2>1, <2>2, <2>3, <2>4, <2>5
    DEF Next, TaskStep, TaskPoll, TaskReady, TaskPark, OwnerStep, DropStep, RunStep, Spawn,
        SpawnFails, Forget, ShutdownNow, Wakeup, SetReadiness, ShutdownRegister,
        ShutdownCheck, Unpark, ParkReturns, vars
<1>2. ASSUME IInv, [Next]_vars, shutdown = SHUTDOWN, owner' # owner
      PROVE  OwnerDistance(owner') < OwnerDistance(owner)
  <2>1. owner \in {"wakeup", "set", "register", "check", "parked", "returned"}
    BY <1>2, Requested DEF IInv
  <2>2. CASE Wakeup \/ SetReadiness \/ ShutdownRegister
    BY <2>2, Distances DEF Wakeup, SetReadiness, ShutdownRegister
  <2>3. CASE ShutdownCheck
    BY <1>2, <2>3, Distances DEF ShutdownCheck
  <2>4. CASE Unpark \/ ParkReturns
    BY <2>4, Distances DEF Unpark, ParkReturns
  <2>5. QED
    BY <1>2, <2>1, <2>2, <2>3, <2>4
    DEF Next, TaskStep, TaskPoll, TaskReady, TaskPark, OwnerStep, DropStep, RunStep, Spawn,
        SpawnFails, Forget, ShutdownNow, RunLoad, TurnIo, TurnWakeup, TurnClear, TurnFails,
        RunDrop, RunStore, RunWake, vars
<1>3. IInv /\ [Next]_vars =>
        [/\ shutdown # 0 /\ reactor' # reactor
              => ReactorDistance(reactor') < ReactorDistance(reactor)
         /\ shutdown = SHUTDOWN /\ owner' # owner
              => OwnerDistance(owner') < OwnerDistance(owner)]_vars
  BY <1>1, <1>2
<1>4. QED  BY <1>3, InvHolds, PTL DEF Spec, ShutdownAdvances

\* The thread has a step to take that is not left to the arrival of I/O events,
\* or the owner has yet to give it one: the guards of RunStep and of the two steps
\* of Handle::wakeup.
ThreadMayAdvance ==
  \/ reactor \in {"load", "clear", "drop", "store"}
  \/ reactor = "turn" /\ wakeup
  \/ owner \in {"wakeup", "set"}

\* The owner has a step to take that is not left to a spurious return of park, or
\* the thread is about to unpark it: the guards of DropStep and RunWake.
OwnerMayAdvance ==
  \/ owner \in {"wakeup", "set", "register", "check"}
  \/ owner = "parked" /\ unparked
  \/ reactor = "wake"

\* A shutdown that has been requested is never stuck: unless the thread panics it
\* can go on until it has stored SHUTDOWN, and then the owner until drop returns.
NotStuck ==
  /\ shutdown = SHUTDOWN_NOW /\ reactor # "panicked" => ThreadMayAdvance
  /\ shutdown = SHUTDOWN /\ owner # "returned" => OwnerMayAdvance

\* The wakeup and the waker of Shutdown keep a shutdown going, with no help from
\* spurious returns of park.  By EndComesCloser each part takes boundedly many
\* steps.
THEOREM ShutdownNotStuck == Spec => []NotStuck
<1> USE DEF SHUTDOWN, SHUTDOWN_NOW
<1>1. ASSUME IInv, shutdown = SHUTDOWN_NOW, reactor # "panicked"
      PROVE  ThreadMayAdvance
  <2>1. reactor \in {"load", "turn", "clear", "drop", "store", "wake", "done"}
    BY <1>1, Requested DEF IInv
  <2>2. QED
    BY <1>1, <2>1 DEF IInv, ShutdownInv, WakeupRemembered, ThreadMayAdvance
<1>2. ASSUME IInv, shutdown = SHUTDOWN, owner # "returned"
      PROVE  OwnerMayAdvance
  <2>1. owner \in {"wakeup", "set", "register", "check", "parked"}
    BY <1>2, Requested DEF IInv
  <2>2. QED
    BY <1>2, <2>1 DEF IInv, ShutdownInv, ShutdownNotified, OwnerMayAdvance
<1>3. IInv => NotStuck
  BY <1>1, <1>2 DEF NotStuck
<1>4. QED  BY <1>3, InvHolds, PTL
=============================================================================
