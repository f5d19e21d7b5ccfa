-------------------------- MODULE PollEventedProofs --------------------------
(***************************************************************************)
(* Proofs that PollEvented keeps its types, loses no wakeup and never      *)
(* stalls, for every set of kernel bits, with and without HUP and spurious *)
(* polls.                                                                  *)
(***************************************************************************)
EXTENDS PollEvented, TLAPS

\* What dispatch holds, and until when.
DispatchInv ==
  /\ "Read" \in taken => reactor = "wakeR"
  /\ "Write" \in taken => reactor \in {"takeR", "wakeR", "wakeW"}
  /\ event # {} => reactor \in {"or", "takeW", "takeR"}

\* A task keeps only bits of its direction, between consuming and returning
\* them, and does not wait with its own bit cached.
CacheInv ==
  \A d \in Direction :
    /\ ready[d] \subseteq Mask(d)
    /\ ready[d] # {} => pc[d] = "return"
    /\ Waiting(d) => Own(d) \notin cache[d]

Notified(d) == woken[d] \/ d \in taken

Registered(d) == waker[d] /\ (readiness \cap Mask(d) = {} \/ WillTake(d))

\* From the moment a poll has registered its waker, the waker stays where a
\* later readiness finds it, or the task has been notified.
WakerInv ==
  \A d \in Direction :
    /\ pc[d] = "and2" => Notified(d) \/ waker[d]
    /\ pc[d] = "return" /\ ready[d] = {} /\ ~Taking(d) => Notified(d) \/ Registered(d)
    /\ Waiting(d) => d \in taken \/ (Registered(d) /\ Alive)

\* While the kernel has a bit set, somebody on the way to the task knows.
NewsInv ==
  /\ \A d \in Direction :
       Own(d) \in level /\ reactor # "gone" =>
         \/ edge
         \/ reactor = "or" /\ Own(d) \in event
         \/ Own(d) \in readiness
         \/ Own(d) \in ready[d]
         \/ Own(d) \in cache[d] /\ pc[d] # "clear"
  /\ \A h \in Hup \cap level :
       \/ edge
       \/ reactor = "or" /\ h \in event
       \/ h \in readiness

\* The inductive invariant.
IInv == TypeOK /\ DispatchInv /\ CacheInv /\ WakerInv /\ NewsInv
-----------------------------------------------------------------------------

\* The masks of the two directions: each has its own bit and HUP, consuming
\* one takes neither HUP nor the bit of the other, and dispatch takes the
\* waker of every direction whose mask its event meets.
LEMMA MaskFacts ==
  /\ \A d \in Direction :
       /\ Own(d) \in Mask(d)
       /\ Hup \subseteq Mask(d)
       /\ Mask(d) \subseteq AllReady
       /\ MaskNoHup(d) \subseteq Mask(d)
       /\ MaskNoHup(d) \cap Hup = {}
       /\ PollMask(d) = {Own(d)} \cup Hup
  /\ \A d, e \in Direction : d # e => Own(d) \notin MaskNoHup(e)
  /\ \A d \in Direction, r \in Ready : r \cap Mask(d) # {} => d \in DispatchTakes(r)
<1>1. ASSUME NEW d \in Direction
      PROVE  /\ Own(d) \in Mask(d)
             /\ Hup \subseteq Mask(d)
             /\ Mask(d) \subseteq AllReady
             /\ MaskNoHup(d) \subseteq Mask(d)
             /\ MaskNoHup(d) \cap Hup = {}
             /\ PollMask(d) = {Own(d)} \cup Hup
  BY HupAssumption DEF Direction, Own, Mask, MaskNoHup, AllReady, PollMask
<1>2. ASSUME NEW d \in Direction, NEW e \in Direction, d # e
      PROVE  Own(d) \notin MaskNoHup(e)
  BY <1>2, HupAssumption DEF Direction, Own, Mask, MaskNoHup, AllReady
<1>3. ASSUME NEW d \in Direction, NEW r \in Ready, r \cap Mask(d) # {}
      PROVE  d \in DispatchTakes(r)
  BY <1>3, HupAssumption DEF Direction, Mask, Ready, AllReady, DispatchTakes
<1>4. QED  BY <1>1, <1>2, <1>3

\* An operation only takes from what the kernel has.
LEMMA LevelsAfterShrink ==
  ASSUME NEW d \in Direction, NEW l \in LevelsAfter(d)
  PROVE  l \subseteq level
  BY DEF LevelsAfter

\* A poll goes to sleep only if it consumed nothing and had nothing cached.
LEMMA OutcomeFacts ==
  ASSUME NEW d \in Direction
  PROVE  /\ PollReadyOutcome(d) \in {"parked", "upgrade", "wake", "op"}
         /\ PollReadyOutcome(d) = "parked" => ready[d] = {} /\ ~Taking(d)
  BY DEF PollReadyOutcome

\* The invariant holds initially.
LEMMA InitInv == Init => IInv
<1> SUFFICES ASSUME Init PROVE IInv
  OBVIOUS
<1>1. TypeOK
  BY HupAssumption, KernelBitsAssumption DEF Init, TypeOK, Ready, Mask, Direction
<1>2. DispatchInv /\ CacheInv /\ WakerInv
  BY DEF Init, DispatchInv, CacheInv, WakerInv, Waiting, Direction, Taking
<1>3. NewsInv
  BY DEF Init, NewsInv
<1>4. QED  BY <1>1, <1>2, <1>3 DEF IInv

\* Every step keeps the invariant.
LEMMA NextInv == IInv /\ [Next]_vars => IInv'
<1> SUFFICES ASSUME TypeOK, DispatchInv, CacheInv, WakerInv, NewsInv, [Next]_vars
             PROVE  IInv'
  BY DEF IInv
<1> USE DEF kernelVars, reactorVars, taskVars
<1>1. ASSUME NEW b \in KernelBits, Arrive(b)
     PROVE  IInv'
  <2>1. TypeOK'
    BY <1>1, MaskFacts, KernelBitsAssumption DEF Arrive, TypeOK, Ready
  <2>2. DispatchInv'
    BY <1>1 DEF Arrive, TypeOK, DispatchInv
  <2>3. CacheInv'
    BY <1>1, MaskFacts DEF Arrive, TypeOK, CacheInv, Waiting
  <2>4. WakerInv'
    BY <1>1, MaskFacts
    DEF Arrive, TypeOK, DispatchInv, WakerInv, Waiting, Notified, Registered, WillTake,
        Alive, Holding, Taking
  <2>5. NewsInv'
    BY <1>1, MaskFacts DEF Arrive, TypeOK, CacheInv, NewsInv
  <2>6. QED  BY <2>1, <2>2, <2>3, <2>4, <2>5 DEF IInv
<1>2. CASE ReactorPoll
  <2>1. TypeOK'
    BY <1>2, MaskFacts, KernelBitsAssumption DEF ReactorPoll, TypeOK, Ready
  <2>2. DispatchInv'
    BY <1>2 DEF ReactorPoll, TypeOK, DispatchInv
  <2>3. CacheInv'
    BY <1>2, MaskFacts DEF ReactorPoll, TypeOK, CacheInv, Waiting
  <2>4. WakerInv'
    BY <1>2, MaskFacts
    DEF ReactorPoll, TypeOK, DispatchInv, WakerInv, Waiting, Notified, Registered, WillTake,
        Alive, Holding, Taking
  <2>5. NewsInv'
    BY <1>2, MaskFacts DEF ReactorPoll, TypeOK, CacheInv, NewsInv
  <2>6. QED  BY <2>1, <2>2, <2>3, <2>4, <2>5 DEF IInv
<1>3. CASE DispatchFetchOr
  <2>1. TypeOK'
    BY <1>3, MaskFacts, KernelBitsAssumption DEF DispatchFetchOr, TypeOK, Ready
  <2>2. DispatchInv'
    BY <1>3 DEF DispatchFetchOr, TypeOK, DispatchInv
  <2>3. CacheInv'
    BY <1>3, MaskFacts DEF DispatchFetchOr, TypeOK, CacheInv, Waiting
  <2>4. WakerInv'
    BY <1>3, KernelBitsAssumption, MaskFacts
    DEF DispatchFetchOr, TypeOK, DispatchInv, WakerInv, Waiting, Notified, Registered,
        WillTake, Alive, Holding, Taking, Ready
  <2>5. NewsInv'
    BY <1>3, MaskFacts DEF DispatchFetchOr, TypeOK, CacheInv, NewsInv
  <2>6. QED  BY <2>1, <2>2, <2>3, <2>4, <2>5 DEF IInv
<1>4. CASE DispatchTakeWriter
  <2>1. TypeOK'
    BY <1>4, MaskFacts, KernelBitsAssumption
    DEF DispatchTakeWriter, TakeWaker, TypeOK, Ready, Direction
  <2>2. DispatchInv'
    BY <1>4 DEF DispatchTakeWriter, TakeWaker, TypeOK, DispatchInv
  <2>3. CacheInv'
    BY <1>4, MaskFacts DEF DispatchTakeWriter, TakeWaker, TypeOK, CacheInv, Waiting
  <2>4. WakerInv'
    BY <1>4, MaskFacts
    DEF DispatchTakeWriter, TakeWaker, TypeOK, DispatchInv, WakerInv, Waiting, Notified,
        Registered, WillTake, Alive, Holding, Taking, Direction
  <2>5. NewsInv'
    BY <1>4, MaskFacts DEF DispatchTakeWriter, TakeWaker, TypeOK, CacheInv, NewsInv
  <2>6. QED  BY <2>1, <2>2, <2>3, <2>4, <2>5 DEF IInv
<1>5. CASE DispatchTakeReader
  <2>1. TypeOK'
    BY <1>5, MaskFacts, KernelBitsAssumption
    DEF DispatchTakeReader, TakeWaker, TypeOK, Ready, Direction
  <2>2. DispatchInv'
    BY <1>5 DEF DispatchTakeReader, TakeWaker, TypeOK, DispatchInv
  <2>3. CacheInv'
    BY <1>5, MaskFacts DEF DispatchTakeReader, TakeWaker, TypeOK, CacheInv, Waiting
  <2>4. WakerInv'
    BY <1>5, MaskFacts
    DEF DispatchTakeReader, TakeWaker, TypeOK, DispatchInv, WakerInv, Waiting, Notified,
        Registered, WillTake, Alive, Holding, Taking
  <2>5. NewsInv'
    BY <1>5, MaskFacts DEF DispatchTakeReader, TakeWaker, TypeOK, CacheInv, NewsInv
  <2>6. QED  BY <2>1, <2>2, <2>3, <2>4, <2>5 DEF IInv
<1>6. CASE DispatchWakeReader
  <2>1. TypeOK'
    BY <1>6, MaskFacts, KernelBitsAssumption DEF DispatchWakeReader, Wake, TypeOK, Ready
  <2>2. DispatchInv'
    BY <1>6 DEF DispatchWakeReader, Wake, TypeOK, DispatchInv
  <2>3. CacheInv'
    BY <1>6, MaskFacts DEF DispatchWakeReader, Wake, TypeOK, CacheInv, Waiting
  <2>4. WakerInv'
    BY <1>6, MaskFacts
    DEF DispatchWakeReader, Wake, TypeOK, DispatchInv, WakerInv, Waiting, Notified,
        Registered, WillTake, Alive, Holding, Taking
  <2>5. NewsInv'
    BY <1>6, MaskFacts DEF DispatchWakeReader, Wake, TypeOK, CacheInv, NewsInv
  <2>6. QED  BY <2>1, <2>2, <2>3, <2>4, <2>5 DEF IInv
<1>7. CASE DispatchWakeWriter
  <2>1. TypeOK'
    BY <1>7, MaskFacts, KernelBitsAssumption DEF DispatchWakeWriter, Wake, TypeOK, Ready
  <2>2. DispatchInv'
    BY <1>7 DEF DispatchWakeWriter, Wake, TypeOK, DispatchInv
  <2>3. CacheInv'
    BY <1>7, MaskFacts DEF DispatchWakeWriter, Wake, TypeOK, CacheInv, Waiting
  <2>4. WakerInv'
    BY <1>7, MaskFacts
    DEF DispatchWakeWriter, Wake, TypeOK, DispatchInv, WakerInv, Waiting, Notified,
        Registered, WillTake, Alive, Holding, Taking
  <2>5. NewsInv'
    BY <1>7, MaskFacts DEF DispatchWakeWriter, Wake, TypeOK, CacheInv, NewsInv
  <2>6. QED  BY <2>1, <2>2, <2>3, <2>4, <2>5 DEF IInv
<1>8. CASE DropReactor
  <2>1. TypeOK'
    BY <1>8, MaskFacts, KernelBitsAssumption DEF DropReactor, DropInner, Wake, TypeOK, Ready
  <2>2. DispatchInv'
    BY <1>8 DEF DropReactor, DropInner, Wake, TypeOK, DispatchInv
  <2>3. CacheInv'
    BY <1>8, MaskFacts DEF DropReactor, DropInner, Wake, TypeOK, CacheInv, Waiting
  <2>4. WakerInv'
    BY <1>8, MaskFacts
    DEF DropReactor, DropInner, Wake, TypeOK, DispatchInv, WakerInv, Waiting, Notified,
        Registered, WillTake, Alive, Holding, Taking
  <2>5. NewsInv'
    BY <1>8, MaskFacts DEF DropReactor, DropInner, Wake, TypeOK, CacheInv, NewsInv
  <2>6. QED  BY <2>1, <2>2, <2>3, <2>4, <2>5 DEF IInv
<1>9. ASSUME NEW d \in Direction, Poll(d)
     PROVE  IInv'
  <2>1. TypeOK'
    BY <1>9, MaskFacts, KernelBitsAssumption DEF Poll, TypeOK, Ready
  <2>2. DispatchInv'
    BY <1>9 DEF Poll, TypeOK, DispatchInv
  <2>3. CacheInv'
    BY <1>9, MaskFacts DEF Poll, TypeOK, CacheInv, Waiting
  <2>4. WakerInv'
    BY <1>9, MaskFacts
    DEF Poll, TypeOK, DispatchInv, WakerInv, Waiting, Notified, Registered, WillTake, Alive,
        Holding, Taking
  <2>5. NewsInv'
    BY <1>9, MaskFacts DEF Poll, TypeOK, CacheInv, NewsInv
  <2>6. QED  BY <2>1, <2>2, <2>3, <2>4, <2>5 DEF IInv
<1>10. ASSUME NEW d \in Direction, PollReadyUpgrade(d)
     PROVE  IInv'
  <2>1. TypeOK'
    BY <1>10, MaskFacts, KernelBitsAssumption DEF PollReadyUpgrade, TypeOK, Ready, Holding
  <2>2. DispatchInv'
    BY <1>10 DEF PollReadyUpgrade, TypeOK, DispatchInv
  <2>3. CacheInv'
    BY <1>10, MaskFacts DEF PollReadyUpgrade, TypeOK, CacheInv, Waiting
  <2>4. WakerInv'
    BY <1>10, MaskFacts
    DEF PollReadyUpgrade, TypeOK, DispatchInv, WakerInv, Waiting, Notified, Registered,
        WillTake, Alive, Holding, Taking
  <2>5. NewsInv'
    BY <1>10, MaskFacts DEF PollReadyUpgrade, TypeOK, CacheInv, NewsInv
  <2>6. QED  BY <2>1, <2>2, <2>3, <2>4, <2>5 DEF IInv
<1>11. ASSUME NEW d \in Direction, PollReadyFetchAnd(d)
     PROVE  IInv'
  <2>1. TypeOK'
    BY <1>11, MaskFacts, KernelBitsAssumption
    DEF PollReadyFetchAnd, Consume, TypeOK, Ready, Holding
  <2>2. DispatchInv'
    BY <1>11 DEF PollReadyFetchAnd, Consume, TypeOK, DispatchInv
  <2>3. CacheInv'
    BY <1>11, MaskFacts DEF PollReadyFetchAnd, Consume, TypeOK, CacheInv, Waiting
  <2>4. WakerInv'
    BY <1>11, MaskFacts
    DEF PollReadyFetchAnd, Consume, TypeOK, DispatchInv, WakerInv, Waiting, Notified,
        Registered, WillTake, Alive, Holding, Taking
  <2>5. NewsInv'
    BY <1>11, MaskFacts DEF PollReadyFetchAnd, Consume, TypeOK, CacheInv, NewsInv
  <2>6. QED  BY <2>1, <2>2, <2>3, <2>4, <2>5 DEF IInv
<1>12. ASSUME NEW d \in Direction, PollReadyRegister(d)
     PROVE  IInv'
  <2>1. TypeOK'
    BY <1>12, MaskFacts, KernelBitsAssumption DEF PollReadyRegister, TypeOK, Ready, Holding
  <2>2. DispatchInv'
    BY <1>12 DEF PollReadyRegister, TypeOK, DispatchInv
  <2>3. CacheInv'
    BY <1>12, MaskFacts DEF PollReadyRegister, TypeOK, CacheInv, Waiting
  <2>4. WakerInv'
    BY <1>12, MaskFacts
    DEF PollReadyRegister, TypeOK, DispatchInv, WakerInv, Waiting, Notified, Registered,
        WillTake, Alive, Holding, Taking
  <2>5. NewsInv'
    BY <1>12, MaskFacts DEF PollReadyRegister, TypeOK, CacheInv, NewsInv
  <2>6. QED  BY <2>1, <2>2, <2>3, <2>4, <2>5 DEF IInv
<1>13. ASSUME NEW d \in Direction, PollReadyRetry(d)
     PROVE  IInv'
  <2>1. TypeOK'
    BY <1>13, MaskFacts, KernelBitsAssumption
    DEF PollReadyRetry, Consume, TypeOK, Ready, Holding
  <2>2. DispatchInv'
    BY <1>13 DEF PollReadyRetry, Consume, TypeOK, DispatchInv
  <2>3. CacheInv'
    BY <1>13, MaskFacts DEF PollReadyRetry, Consume, TypeOK, CacheInv, Waiting
  <2>4. WakerInv'
    BY <1>13, MaskFacts
    DEF PollReadyRetry, Consume, TypeOK, DispatchInv, WakerInv, Waiting, Notified,
        Registered, WillTake, Alive, Holding, Taking
  <2>5. NewsInv'
    BY <1>13, MaskFacts DEF PollReadyRetry, Consume, TypeOK, CacheInv, NewsInv
  <2>6. QED  BY <2>1, <2>2, <2>3, <2>4, <2>5 DEF IInv
<1>14. ASSUME NEW d \in Direction, PollReadyReturn(d)
     PROVE  IInv'
  <2> DEFINE outcome == PollReadyOutcome(d)
             last    == reactor = "gone" /\ \A e \in Direction \ {d} : pc[e] \notin Holding
             dropped == IF last THEN {e \in Direction : waker[e]} ELSE {}
  <2>0. /\ pc[d] = "return"
        /\ waker' = [e \in Direction |-> waker[e] /\ e \notin dropped]
        /\ woken' = [e \in Direction |->
                       woken[e] \/ e \in dropped \cup (IF outcome = "wake" THEN {d} ELSE {})]
        /\ cache' = [cache EXCEPT ![d] = @ \cup ready[d]]
        /\ ready' = [ready EXCEPT ![d] = {}]
        /\ pc' = [pc EXCEPT ![d] = IF outcome = "wake" THEN "parked" ELSE outcome]
        /\ clearing' = [clearing EXCEPT ![d] = @ /\ outcome = "upgrade"]
        /\ UNCHANGED <<level, edge, reactor, event, taken, readiness>>
    BY <1>14 DEF PollReadyReturn, Wake
  <2>00. /\ outcome \in {"parked", "upgrade", "wake", "op"}
         /\ outcome = "parked" => ready[d] = {} /\ Own(d) \notin cache[d]
    BY OutcomeFacts DEF Taking
  <2> HIDE DEF outcome
  <2>1. TypeOK'
    BY <2>0, <2>00, MaskFacts DEF TypeOK, CacheInv, Ready
  <2>2. DispatchInv'
    BY <2>0 DEF DispatchInv
  <2>3. CacheInv'
    BY <2>0, <2>00 DEF TypeOK, CacheInv, Waiting
  <2>4. WakerInv'
    BY <2>0, <2>00 DEF TypeOK, WakerInv, Waiting, Notified, Registered, WillTake,
                       Alive, Holding, Taking
  <2>5. NewsInv'
    BY <2>0, <2>00 DEF TypeOK, CacheInv, NewsInv
  <2>6. QED  BY <2>1, <2>2, <2>3, <2>4, <2>5 DEF IInv
<1>15. ASSUME NEW d \in Direction, OperationDone(d)
     PROVE  IInv'
  <2>1. TypeOK'
    BY <1>15, LevelsAfterShrink, MaskFacts, KernelBitsAssumption
    DEF OperationDone, TypeOK, Ready
  <2>2. DispatchInv'
    BY <1>15 DEF OperationDone, TypeOK, DispatchInv
  <2>3. CacheInv'
    BY <1>15, MaskFacts DEF OperationDone, TypeOK, CacheInv, Waiting
  <2>4. WakerInv'
    BY <1>15, MaskFacts
    DEF OperationDone, TypeOK, DispatchInv, WakerInv, Waiting, Notified, Registered,
        WillTake, Alive, Holding, Taking
  <2>5. NewsInv'
    BY <1>15, LevelsAfterShrink, MaskFacts DEF OperationDone, TypeOK, CacheInv, NewsInv
  <2>6. QED  BY <2>1, <2>2, <2>3, <2>4, <2>5 DEF IInv
<1>16. ASSUME NEW d \in Direction, OperationWouldBlock(d)
     PROVE  IInv'
  <2>1. TypeOK'
    BY <1>16, MaskFacts, KernelBitsAssumption DEF OperationWouldBlock, TypeOK, Ready
  <2>2. DispatchInv'
    BY <1>16 DEF OperationWouldBlock, TypeOK, DispatchInv
  <2>3. CacheInv'
    BY <1>16, MaskFacts DEF OperationWouldBlock, TypeOK, CacheInv, Waiting
  <2>4. WakerInv'
    BY <1>16, MaskFacts
    DEF OperationWouldBlock, TypeOK, DispatchInv, WakerInv, Waiting, Notified, Registered,
        WillTake, Alive, Holding, Taking
  <2>5. NewsInv'
    BY <1>16, MaskFacts DEF OperationWouldBlock, TypeOK, CacheInv, NewsInv, Able
  <2>6. QED  BY <2>1, <2>2, <2>3, <2>4, <2>5 DEF IInv
<1>17. ASSUME NEW d \in Direction, ReturnReady(d)
     PROVE  IInv'
  <2>1. TypeOK'
    BY <1>17, MaskFacts, KernelBitsAssumption DEF ReturnReady, TypeOK, Ready
  <2>2. DispatchInv'
    BY <1>17 DEF ReturnReady, TypeOK, DispatchInv
  <2>3. CacheInv'
    BY <1>17, MaskFacts DEF ReturnReady, TypeOK, CacheInv, Waiting
  <2>4. WakerInv'
    BY <1>17, MaskFacts
    DEF ReturnReady, TypeOK, DispatchInv, WakerInv, Waiting, Notified, Registered, WillTake,
        Alive, Holding, Taking
  <2>5. NewsInv'
    BY <1>17, MaskFacts DEF ReturnReady, TypeOK, CacheInv, NewsInv
  <2>6. QED  BY <2>1, <2>2, <2>3, <2>4, <2>5 DEF IInv
<1>18. ASSUME NEW d \in Direction, ClearReady(d)
     PROVE  IInv'
  <2>1. TypeOK'
    BY <1>18, MaskFacts, KernelBitsAssumption DEF ClearReady, TypeOK, Ready
  <2>2. DispatchInv'
    BY <1>18 DEF ClearReady, TypeOK, DispatchInv
  <2>3. CacheInv'
    BY <1>18, MaskFacts DEF ClearReady, TypeOK, CacheInv, Waiting
  <2>4. WakerInv'
    BY <1>18, MaskFacts
    DEF ClearReady, TypeOK, DispatchInv, WakerInv, Waiting, Notified, Registered, WillTake,
        Alive, Holding, Taking
  <2>5. NewsInv'
    BY <1>18, MaskFacts DEF ClearReady, TypeOK, CacheInv, NewsInv
  <2>6. QED  BY <2>1, <2>2, <2>3, <2>4, <2>5 DEF IInv
<1>19. CASE UNCHANGED vars
  BY <1>19 DEF vars, IInv, TypeOK, DispatchInv, CacheInv, WakerInv, NewsInv, Waiting,
       Notified, Registered, WillTake, Alive, Taking
<1>20. QED
  BY <1>1, <1>2, <1>3, <1>4, <1>5, <1>6, <1>7, <1>8, <1>9, <1>10, <1>11, <1>12, <1>13,
     <1>14, <1>15, <1>16, <1>17, <1>18, <1>19
  DEF Next, ReactorStep, TaskStep

\* Every reachable state satisfies the invariant.
LEMMA InvHolds == Spec => []IInv
  BY InitInv, NextInv, PTL DEF Spec

\* Type correctness: readiness bits never leave the masks of their direction,
\* whatever Registration::poll_ready, dispatch and the caches do.
THEOREM TypeCorrect == Spec => []TypeOK
<1>1. IInv => TypeOK  BY DEF IInv
<1>2. QED  BY <1>1, InvHolds, PTL

\* No interleaving of Registration::poll_ready with Reactor::dispatch, with the
\* other direction's task or with the drop of the reactor loses a wakeup.
THEOREM WakeupsNotLost == Spec => []NoLostWakeup
<1>1. IInv => NoLostWakeup  BY DEF IInv, WakerInv, Registered, NoLostWakeup
<1>2. QED  BY <1>1, InvHolds, PTL

\* While a task waits and the kernel has something for it, its wakeup is on the
\* way: what the invariant says of edges, caches and wakers, taken together.
LEMMA NoStallFromInv == IInv => NoStall
<1> SUFFICES ASSUME IInv, NEW d \in Direction, Waiting(d), reactor # "gone",
                    level \cap PollMask(d) # {}
             PROVE  \/ edge
                    \/ reactor = "or" /\ event \cap PollMask(d) # {}
                    \/ WillTake(d)
                    \/ d \in taken
  BY DEF NoStall
<1>1. ready[d] = {} /\ Own(d) \notin cache[d]
  BY DEF IInv, CacheInv, Waiting
<1>2. PICK b \in level \cap PollMask(d) : edge \/ (reactor = "or" /\ b \in event) \/ b \in readiness
  BY <1>1, MaskFacts DEF IInv, NewsInv
<1>3. CASE b \in readiness
  BY <1>3, MaskFacts DEF IInv, WakerInv, Registered
<1>4. QED  BY <1>2, <1>3

\* Edge-triggered readiness is never swallowed: a task does not sleep while the
\* kernel holds readiness for it that nobody is going to report.
THEOREM ReadinessNotSwallowed == Spec => []NoStall
  BY NoStallFromInv, InvHolds, PTL
-----------------------------------------------------------------------------
(* The refinement of NotifySpec. *)

\* A step after which the same tasks wait, with the wakeups that were on their
\* way still on it, is one in which the resource changes or a wakeup sets out.
LEMMA NoticeStep ==
  ASSUME NoStall', reactor' = "gone" <=> reactor = "gone", Alive' <=> Alive,
         \A d \in Direction :
           /\ Waiting(d)' <=> Waiting(d)
           /\ Waiting(d) /\ reactor # "gone" /\ OnItsWay(d) => OnItsWay(d)'
  PROVE  Notify!Notice
<1>1. \A d \in Direction : Waiting(d)' /\ reactor' # "gone" /\ Answerable(d)' => OnItsWay(d)'
  BY DEF NoStall, OnItsWay, Answerable
<1>2. QED  BY <1>1 DEF Notify!Notice

\* A step that only ends the wait of some tasks.
LEMMA LeaveStep ==
  ASSUME NEW ds \in SUBSET Direction,
         reactor' = "gone" <=> reactor = "gone", Alive' <=> Alive,
         \A d \in Direction :
           /\ Waiting(d)' <=> Waiting(d) /\ d \notin ds
           /\ Answerable(d)' <=> Answerable(d)
           /\ Waiting(d)' => (OnItsWay(d)' <=> OnItsWay(d))
  PROVE  Notify!Leave(ds)
  BY DEF Notify!Leave

\* Every step of the stack is a step of the promise, or none.
LEMMA Simulation ==
  ASSUME IInv, IInv', [Next]_vars
  PROVE  [Notify!Next]_(Notify!vars)
<1>0. NoStall' /\ TypeOK /\ DispatchInv /\ WakerInv
  BY NoStallFromInv, PTL DEF IInv
<1> USE DEF kernelVars, reactorVars, taskVars
<1>1. ASSUME NEW b \in KernelBits, Arrive(b)
      PROVE  Notify!Notice
  BY <1>0, <1>1, NoticeStep DEF Arrive, Alive, Waiting, OnItsWay, Answerable, WillTake
<1>2. ASSUME \/ ReactorPoll \/ DispatchFetchOr \/ DispatchTakeWriter \/ DispatchTakeReader
      PROVE  Notify!Notice
  <2>1. reactor' # "gone" /\ reactor # "gone" /\ Alive /\ Alive'
    BY <1>2 DEF ReactorPoll, DispatchFetchOr, DispatchTakeWriter, DispatchTakeReader, Alive
  <2>2. UNCHANGED <<pc, woken>>
    BY <1>2 DEF ReactorPoll, DispatchFetchOr, DispatchTakeWriter, DispatchTakeReader
  <2>3. ASSUME NEW d \in Direction, Waiting(d), OnItsWay(d)
        PROVE  OnItsWay(d)'
    <3>1. CASE ReactorPoll
      BY <1>0, <2>3, <3>1 DEF ReactorPoll, OnItsWay, Answerable, WillTake, DispatchInv
    <3>2. CASE DispatchFetchOr
      <4>1. event \in Ready /\ PollMask(d) \subseteq Mask(d)
        BY <1>0, MaskFacts, KernelBitsAssumption DEF TypeOK, Ready
      <4>2. event \cap PollMask(d) # {} => d \in DispatchTakes(event)
        BY <4>1, MaskFacts
      <4>3. QED
        BY <1>0, <2>3, <3>2, <4>2 DEF DispatchFetchOr, OnItsWay, Answerable, WillTake, DispatchInv
    <3>3. CASE DispatchTakeWriter
      BY <1>0, <2>3, <3>3
      DEF DispatchTakeWriter, TakeWaker, OnItsWay, Answerable, WillTake, WakerInv, Registered,
          Direction, TypeOK
    <3>4. CASE DispatchTakeReader
      BY <1>0, <2>3, <3>4
      DEF DispatchTakeReader, TakeWaker, OnItsWay, Answerable, WillTake, WakerInv, Registered,
          Direction, TypeOK
    <3>5. QED  BY <1>2, <3>1, <3>2, <3>3, <3>4
  <2>4. QED  BY <1>0, <2>1, <2>2, <2>3, NoticeStep DEF Waiting
<1>3. CASE DispatchWakeReader
  <2>1. Notify!Leave(taken \cap {"Read"})
    <3>1. reactor # "gone" /\ reactor' # "gone" /\ Alive /\ Alive'
      BY <1>3 DEF DispatchWakeReader, Alive
    <3>2. \A d \in Direction : /\ Waiting(d)' <=> Waiting(d) /\ d \notin taken \cap {"Read"}
                               /\ Answerable(d)' <=> Answerable(d)
      BY <1>0, <1>3 DEF DispatchWakeReader, Wake, Waiting, Answerable, TypeOK
    <3>3. \A d \in Direction : Waiting(d)' => (OnItsWay(d)' <=> OnItsWay(d))
      BY <1>3, <3>2 DEF DispatchWakeReader, OnItsWay, WillTake
    <3>4. taken \cap {"Read"} \in SUBSET Direction
      BY <1>0 DEF TypeOK
    <3>5. QED  BY <3>1, <3>2, <3>3, <3>4, LeaveStep
  <2>2. QED  BY <2>1, <1>0 DEF Notify!Next, TypeOK
<1>4. CASE DispatchWakeWriter
  <2>1. Notify!Leave(taken)
    <3>1. reactor # "gone" /\ reactor' # "gone" /\ Alive /\ Alive'
      BY <1>4 DEF DispatchWakeWriter, Alive
    <3>2. \A d \in Direction : /\ Waiting(d)' <=> Waiting(d) /\ d \notin taken
                               /\ Answerable(d)' <=> Answerable(d)
      BY <1>0, <1>4 DEF DispatchWakeWriter, Wake, Waiting, Answerable, TypeOK
    <3>3. \A d \in Direction : Waiting(d)' => (OnItsWay(d)' <=> OnItsWay(d))
      BY <1>4, <3>2 DEF DispatchWakeWriter, OnItsWay, WillTake
    <3>4. taken \in SUBSET Direction
      BY <1>0 DEF TypeOK
    <3>5. QED  BY <3>1, <3>2, <3>3, <3>4, LeaveStep
  <2>2. QED  BY <2>1, <1>0 DEF Notify!Next, TypeOK
<1>5. CASE DropReactor
  <2>1. CASE \E d \in Direction : pc[d] \in Holding
    <3>1. Alive' /\ reactor' = "gone" /\ reactor = "poll"
      BY <1>5, <2>1 DEF DropReactor, Alive
    <3>2. \A d \in Direction : (Waiting(d)' <=> Waiting(d)) /\ (Answerable(d)' <=> Answerable(d))
      BY <1>5, <2>1 DEF DropReactor, Waiting, Answerable
    <3>3. QED  BY <3>1, <3>2 DEF Notify!Stop, Notify!Next
  <2>2. CASE ~\E d \in Direction : pc[d] \in Holding
    <3>1. ~Alive' /\ reactor' = "gone" /\ reactor = "poll"
      BY <1>5, <2>2 DEF DropReactor, Alive
    <3>2. \A d \in Direction : ~Waiting(d)'
      BY <1>0, <1>5, <2>2
      DEF DropReactor, DropInner, Wake, Waiting, WakerInv, Registered, DispatchInv, TypeOK,
          Direction
    <3>3. \A d \in Direction : Answerable(d)' <=> Answerable(d)
      BY <1>5 DEF DropReactor, Answerable
    <3>4. QED  BY <3>1, <3>2, <3>3 DEF Notify!End, Notify!Next
  <2>3. QED  BY <2>1, <2>2
<1>6. ASSUME NEW d \in Direction, Poll(d)
      PROVE  Notify!Leave({d})
  BY <1>0, <1>6, LeaveStep
  DEF Poll, Alive, Waiting, OnItsWay, Answerable, WillTake, TypeOK, Holding
<1>7. ASSUME NEW d \in Direction,
             \/ PollReadyUpgrade(d) \/ PollReadyFetchAnd(d) \/ PollReadyRegister(d)
             \/ PollReadyRetry(d) \/ OperationWouldBlock(d) \/ ReturnReady(d) \/ ClearReady(d)
      PROVE  Notify!Leave({})
  <2>1. /\ Alive' <=> Alive
        /\ \A e \in Direction : Waiting(e)' <=> Waiting(e)
    BY <1>0, <1>7
    DEF PollReadyUpgrade, PollReadyFetchAnd, PollReadyRegister, PollReadyRetry,
        OperationWouldBlock, ReturnReady, ClearReady, Consume, Alive, Waiting, TypeOK, Holding
  <2>2. UNCHANGED <<level, edge, reactor, event, taken>>
    BY <1>7
    DEF PollReadyUpgrade, PollReadyFetchAnd, PollReadyRegister, PollReadyRetry,
        OperationWouldBlock, ReturnReady, ClearReady, Consume
  <2>3. QED  BY <2>1, <2>2, LeaveStep DEF OnItsWay, Answerable, WillTake
<1>8. ASSUME NEW d \in Direction, OperationDone(d)
      PROVE  Notify!Notice
  <2>1. \A e \in Direction : e # d /\ Answerable(e) => Answerable(e)'
    BY <1>0, <1>8, MaskFacts, HupAssumption
    DEF OperationDone, LevelsAfter, Answerable, Direction, Own, TypeOK
  <2>2. \A e \in Direction : (Waiting(e)' <=> Waiting(e)) /\ (Waiting(e) => e # d)
    BY <1>0, <1>8 DEF OperationDone, Waiting, TypeOK
  <2>3. (reactor' = "gone" <=> reactor = "gone") /\ (Alive' <=> Alive)
    BY <1>0, <1>8 DEF OperationDone, Alive, TypeOK, Holding
  <2>4. QED  BY <1>0, <1>8, <2>1, <2>2, <2>3, NoticeStep DEF OperationDone, OnItsWay, WillTake
<1>9. ASSUME NEW d \in Direction, PollReadyReturn(d)
      PROVE  [Notify!Next]_(Notify!vars)
  <2> DEFINE last  == reactor = "gone" /\ \A e \in Direction \ {d} : pc[e] \notin Holding
             sleep == PollReadyOutcome(d) = "parked" /\ ~woken[d]
  <2>0. /\ pc[d] = "return" /\ Alive
        /\ UNCHANGED <<level, edge, reactor, event, taken>>
    BY <1>9 DEF PollReadyReturn, Alive, Holding
  <2>1. \A e \in Direction : /\ Answerable(e)' <=> Answerable(e)
                             /\ OnItsWay(e)' <=> OnItsWay(e)
    BY <2>0 DEF OnItsWay, Answerable, WillTake
  <2>2. CASE last
    <3>1. reactor' = "gone" /\ ~Alive'
      BY <1>0, <1>9, <2>0, <2>2, OutcomeFacts DEF PollReadyReturn, Alive, Holding, TypeOK
    <3>2. ASSUME NEW e \in Direction, Waiting(e)'
          PROVE  FALSE
      <4>1. pc'[e] = "parked" /\ ~woken[e] /\ ~waker[e]
        BY <1>0, <1>9, <2>2, <3>2 DEF PollReadyReturn, Wake, Waiting, TypeOK
      <4>2. taken = {}
        BY <1>0, <2>2 DEF DispatchInv, TypeOK, Direction
      <4>3. CASE e = d
        <5>1. PollReadyOutcome(d) = "parked"
          BY <1>0, <1>9, <3>2, <4>1, <4>3, OutcomeFacts DEF PollReadyReturn, Wake, Waiting, TypeOK
        <5>2. QED
          BY <1>0, <2>0, <4>1, <4>2, <4>3, <5>1, OutcomeFacts DEF WakerInv, Notified, Registered
      <4>4. CASE e # d
        <5>1. pc[e] = "parked"
          BY <1>0, <1>9, <4>1, <4>4 DEF PollReadyReturn, TypeOK
        <5>2. QED  BY <1>0, <4>1, <4>2, <5>1 DEF WakerInv, Waiting, Registered
      <4>5. QED  BY <4>3, <4>4
    <3>3. QED  BY <2>0, <2>1, <2>2, <3>1, <3>2 DEF Notify!End, Notify!Next
  <2>3. CASE ~last
    <3>1. Alive' <=> Alive
      BY <1>0, <1>9, <2>0, <2>3 DEF PollReadyReturn, Alive, TypeOK
    <3>2. \A e \in Direction : Waiting(e)' <=> Waiting(e) \/ (e = d /\ sleep)
      BY <1>0, <1>9, <2>0, <2>3, OutcomeFacts DEF PollReadyReturn, Wake, Waiting, TypeOK
    <3>3. ~Waiting(d)
      BY <2>0 DEF Waiting
    <3>4. CASE sleep
      <4>1. Notify!Pend(d)
        BY <1>0, <2>0, <2>1, <3>1, <3>2, <3>3, <3>4
        DEF Notify!Pend, NoStall, OnItsWay, Answerable
      <4>2. QED  BY <4>1 DEF Notify!Next
    <3>5. CASE ~sleep
      BY <2>0, <2>1, <3>1, <3>2, <3>5 DEF Notify!vars
    <3>6. QED  BY <3>4, <3>5
  <2>4. QED  BY <2>2, <2>3
<1>10. CASE UNCHANGED vars
  BY <1>10 DEF vars, Notify!vars, Alive, Waiting, OnItsWay, Answerable, WillTake
<1>11. QED
  BY <1>1, <1>2, <1>3, <1>4, <1>5, <1>6, <1>7, <1>8, <1>9, <1>10
  DEF Next, ReactorStep, TaskStep, Notify!Next

\* The caches, the second look after registering and the five steps of dispatch
\* implement the promise of NotifySpec: readiness that a task waits for is
\* announced to it, and no step of the other task, of a spurious poll, of
\* clear_*_ready or of the reactor's end takes the announcement back.
THEOREM Implementation == Spec => ImplementsNotify
<1>1. Init => Notify!Init
  BY DEF Init, Notify!Init, Waiting, Direction
<1>2. IInv /\ IInv' /\ [Next]_vars => [Notify!Next]_(Notify!vars)
  BY Simulation
<1>3. QED  BY <1>1, <1>2, InvHolds, PTL DEF Spec, ImplementsNotify, Notify!Spec
=============================================================================
