----------------------------- MODULE NotifySpec -----------------------------
(***************************************************************************)
(* What a resource promises the tasks that wait for it, whatever happens   *)
(* between the kernel and them: a task waits for what is there only if a   *)
(* wakeup is on its way, a wakeup on its way is not called back, and the   *)
(* end of the reactor leaves nobody waiting.                               *)
(***************************************************************************)
CONSTANT Direction

VARIABLES
  able,      \* the directions whose operations would get somewhere
  waiting,   \* the directions whose task returned Pending and was not woken
  due,       \* those of them that a wakeup is on its way to
  life       \* the reactor is "running" | "ending" | "ended"

vars == <<able, waiting, due, life>>

Init ==
  /\ able \in SUBSET Direction
  /\ waiting = {}
  /\ due = {}
  /\ life = "running"

\* The resource changes, or a wakeup sets out.
Notice ==
  /\ able' \in SUBSET Direction
  /\ due \subseteq due'
  /\ due' \subseteq waiting
  /\ life = "running" => waiting \cap able' \subseteq due'
  /\ UNCHANGED <<waiting, life>>

\* A poll returns Pending.
Pend(d) ==
  /\ life # "ended"
  /\ d \notin waiting
  /\ waiting' = waiting \cup {d}
  /\ due' \in {due, due \cup {d}}
  /\ life = "running" /\ d \in able => d \in due'
  /\ UNCHANGED <<able, life>>

\* Tasks are woken, or polled for another reason, or give up.
Leave(ds) ==
  /\ waiting' = waiting \ ds
  /\ due' = due \ ds
  /\ UNCHANGED <<able, life>>

\* The reactor stops: no event will come, the tasks will be woken at its end.
Stop ==
  /\ life = "running"
  /\ life' = "ending"
  /\ due' = {}
  /\ UNCHANGED <<able, waiting>>

End ==
  /\ life # "ended"
  /\ life' = "ended"
  /\ waiting' = {}
  /\ due' = {}
  /\ UNCHANGED able

Next ==
  \/ Notice
  \/ \E d \in Direction : Pend(d)
  \/ \E ds \in SUBSET Direction : Leave(ds)
  \/ Stop
  \/ End

Spec == Init /\ [][Next]_vars
=============================================================================
