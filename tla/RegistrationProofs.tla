------------------------- MODULE RegistrationProofs -------------------------
(***************************************************************************)
(* Proofs about Registration: one thread sets inner, once, and nobody reads *)
(* it before; and no task that waits for the registration is forgotten.     *)
(***************************************************************************)
EXTENDS Registration, TLAPS

\* How far inner is, whichever thread looks: it is set between the two steps of
\* the thread that holds LOCKED, and only that thread follows the node.
LockInv ==
  /\ state = "INIT" => token = "None"
  /\ draining # "none" => \E d \in Direction : pc[d] \in {"drain", "check"}
  /\ \A d \in Direction :
       /\ pc[d] = "new" => token = "None"
       /\ pc[d] = "swap" => token # "None"
       /\ pc[d] \in {"inner", "and1", "register", "and2", "drain", "check"} => state = "READY"
       /\ pc[d] \in {"drain", "check"} => draining # "none"

\* A poll that has registered its waker and is about to look again has it
\* registered still, or was woken.
WakerInv ==
  /\ \A d \in Direction : pc[d] = "and2" => waker[d] \/ woken[d]
  /\ OnlyHangUpMissed

\* The inductive invariant of the lock.
IInv == TypeOK /\ LockProtects /\ LockInv
-----------------------------------------------------------------------------
\* What a poll leaves of the readiness word is bits of the kernel still.
LEMMA MaskFacts ==
  \A d \in Direction, r \in SUBSET KernelBits : r \ MaskNoHup(d) \in SUBSET KernelBits
  OBVIOUS

\* Match goes where the state word says.
LEMMA MatchFacts ==
  ASSUME TypeOK
  PROVE  /\ Match \in {"idle", "inner", "push", "panic"}
         /\ Match = "idle" <=> state = "INIT"
         /\ Match = "inner" <=> state = "READY"
         /\ Match = "push" <=> state = "LOCKED" /\ node = "none"
<1>1. CASE state = "INIT"  BY <1>1, Zenon DEF TypeOK, Match
<1>2. CASE state = "READY"  BY <1>2, Zenon DEF TypeOK, Match
<1>3. CASE state = "LOCKED" /\ node = "none"  BY <1>3, Zenon DEF TypeOK, Match
<1>4. CASE state = "LOCKED" /\ node # "none"  BY <1>4, Zenon DEF TypeOK, Match
<1>5. QED  BY <1>1, <1>2, <1>3, <1>4 DEF TypeOK

\* The invariant holds initially.
LEMMA InitInv == Init => IInv
  BY DEF Init, IInv, TypeOK, LockProtects, LockInv

\* Every step keeps the invariant.
LEMMA NextInv == IInv /\ [Next]_vars => IInv'
<1> SUFFICES ASSUME TypeOK, LockProtects, LockInv, [Next]_vars
             PROVE  IInv'
  BY DEF IInv
<1> USE DEF stateVars, reactorVars, Goto
<1>1. CASE DispatchFetchOr
  <2>1. TypeOK'
    BY <1>1, MaskFacts DEF DispatchFetchOr, Events, TypeOK, LockProtects, LockInv, Holding
  <2>2. LockProtects'
    BY <1>1 DEF DispatchFetchOr, Events, TypeOK, LockProtects, LockInv
  <2>3. LockInv'
    BY <1>1 DEF DispatchFetchOr, Events, TypeOK, LockProtects, LockInv
  <2>4. QED  BY <2>1, <2>2, <2>3 DEF IInv
<1>2. CASE DispatchTake
  <2>1. TypeOK'
    BY <1>2, MaskFacts DEF DispatchTake, Wake, TypeOK, LockProtects, LockInv, Holding
  <2>2. LockProtects'
    BY <1>2 DEF DispatchTake, Wake, TypeOK, LockProtects, LockInv
  <2>3. LockInv'
    BY <1>2 DEF DispatchTake, Wake, TypeOK, LockProtects, LockInv
  <2>4. QED  BY <2>1, <2>2, <2>3 DEF IInv
<1>3. CASE DropReactor
  <2>1. TypeOK'
    BY <1>3, MaskFacts DEF DropReactor, Wake, TypeOK, LockProtects, LockInv, Holding
  <2>2. LockProtects'
    BY <1>3 DEF DropReactor, Wake, TypeOK, LockProtects, LockInv
  <2>3. LockInv'
    BY <1>3 DEF DropReactor, Wake, TypeOK, LockProtects, LockInv
  <2>4. QED  BY <2>1, <2>2, <2>3 DEF IInv
<1>4. ASSUME NEW d \in Direction, Poll(d)
     PROVE  IInv'
  <2>1. TypeOK'
    BY <1>4, MaskFacts DEF Poll, TypeOK, LockProtects, LockInv, Holding
  <2>2. LockProtects'
    BY <1>4 DEF Poll, TypeOK, LockProtects, LockInv
  <2>3. LockInv'
    BY <1>4 DEF Poll, TypeOK, LockProtects, LockInv
  <2>4. QED  BY <2>1, <2>2, <2>3 DEF IInv
<1>5. ASSUME NEW d \in Direction, RegisterLoad(d)
     PROVE  IInv'
  <2>1. TypeOK'
    BY <1>5, MaskFacts DEF RegisterLoad, TypeOK, LockProtects, LockInv, Holding
  <2>2. LockProtects'
    BY <1>5 DEF RegisterLoad, TypeOK, LockProtects, LockInv
  <2>3. LockInv'
    BY <1>5 DEF RegisterLoad, TypeOK, LockProtects, LockInv
  <2>4. QED  BY <2>1, <2>2, <2>3 DEF IInv
<1>6. ASSUME NEW d \in Direction, RegisterCas(d)
     PROVE  IInv'
  <2>1. TypeOK'
    BY <1>6, MaskFacts DEF RegisterCas, TypeOK, LockProtects, LockInv, Holding
  <2>2. LockProtects'
    BY <1>6 DEF RegisterCas, TypeOK, LockProtects, LockInv
  <2>3. LockInv'
    BY <1>6 DEF RegisterCas, TypeOK, LockProtects, LockInv
  <2>4. QED  BY <2>1, <2>2, <2>3 DEF IInv
<1>7. ASSUME NEW d \in Direction, InnerNew(d)
     PROVE  IInv'
  <2>1. TypeOK'
    BY <1>7, MaskFacts DEF InnerNew, TypeOK, LockProtects, LockInv, Holding
  <2>2. LockProtects'
    BY <1>7 DEF InnerNew, TypeOK, LockProtects, LockInv
  <2>3. LockInv'
    BY <1>7 DEF InnerNew, TypeOK, LockProtects, LockInv
  <2>4. QED  BY <2>1, <2>2, <2>3 DEF IInv
<1>8. ASSUME NEW d \in Direction, RegisterSwap(d)
     PROVE  IInv'
  <2>1. TypeOK'
    BY <1>8, MaskFacts
    DEF RegisterSwap, RegisterReturn, TypeOK, LockProtects, LockInv, Holding
  <2>2. LockProtects'
    BY <1>8 DEF RegisterSwap, RegisterReturn, TypeOK, LockProtects, LockInv
  <2>3. LockInv'
    BY <1>8 DEF RegisterSwap, RegisterReturn, TypeOK, LockProtects, LockInv
  <2>4. QED  BY <2>1, <2>2, <2>3 DEF IInv
<1>9. ASSUME NEW d \in Direction, DrainError(d)
     PROVE  IInv'
  <2>1. TypeOK'
    BY <1>9, MaskFacts
    DEF DrainError, RegisterReturn, Wake, Pointee, TypeOK, LockProtects, LockInv, Holding
  <2>2. LockProtects'
    BY <1>9 DEF DrainError, RegisterReturn, Wake, Pointee, TypeOK, LockProtects, LockInv
  <2>3. LockInv'
    BY <1>9 DEF DrainError, RegisterReturn, Wake, Pointee, TypeOK, LockProtects, LockInv
  <2>4. QED  BY <2>1, <2>2, <2>3 DEF IInv
<1>10. ASSUME NEW d \in Direction, DrainRegister(d)
     PROVE  IInv'
  <2>1. TypeOK'
    BY <1>10, MaskFacts DEF DrainRegister, Pointee, TypeOK, LockProtects, LockInv, Holding
  <2>2. LockProtects'
    BY <1>10 DEF DrainRegister, Pointee, TypeOK, LockProtects, LockInv
  <2>3. LockInv'
    BY <1>10 DEF DrainRegister, Pointee, TypeOK, LockProtects, LockInv
  <2>4. QED  BY <2>1, <2>2, <2>3 DEF IInv
<1>11. ASSUME NEW d \in Direction, DrainCheck(d)
     PROVE  IInv'
  <2>1. TypeOK'
    BY <1>11, MaskFacts
    DEF DrainCheck, RegisterReturn, Drop, Wake, TypeOK, LockProtects, LockInv, Holding
  <2>2. LockProtects'
    BY <1>11 DEF DrainCheck, RegisterReturn, Drop, Wake, TypeOK, LockProtects, LockInv
  <2>3. LockInv'
    BY <1>11 DEF DrainCheck, RegisterReturn, Drop, Wake, TypeOK, LockProtects, LockInv
  <2>4. QED  BY <2>1, <2>2, <2>3 DEF IInv
<1>12. ASSUME NEW d \in Direction, PollReadyLoad(d)
     PROVE  IInv'
  <2>1. TypeOK'
    BY <1>12, MaskFacts, MatchFacts
    DEF PollReadyLoad, TypeOK, LockProtects, LockInv, Holding
  <2>2. LockProtects'
    BY <1>12, MatchFacts DEF PollReadyLoad, TypeOK, LockProtects, LockInv
  <2>3. LockInv'
    BY <1>12, MatchFacts DEF PollReadyLoad, TypeOK, LockProtects, LockInv
  <2>4. QED  BY <2>1, <2>2, <2>3 DEF IInv
<1>13. ASSUME NEW d \in Direction, PollReadyPush(d)
     PROVE  IInv'
  <2>1. TypeOK'
    BY <1>13, MaskFacts, MatchFacts
    DEF PollReadyPush, TypeOK, LockProtects, LockInv, Holding
  <2>2. LockProtects'
    BY <1>13, MatchFacts DEF PollReadyPush, TypeOK, LockProtects, LockInv
  <2>3. LockInv'
    BY <1>13, MatchFacts DEF PollReadyPush, TypeOK, LockProtects, LockInv
  <2>4. QED  BY <2>1, <2>2, <2>3 DEF IInv
<1>14. ASSUME NEW d \in Direction, InnerPollReady(d)
     PROVE  IInv'
  <2>1. TypeOK'
    BY <1>14, MaskFacts DEF InnerPollReady, TypeOK, LockProtects, LockInv, Holding
  <2>2. LockProtects'
    BY <1>14 DEF InnerPollReady, TypeOK, LockProtects, LockInv
  <2>3. LockInv'
    BY <1>14 DEF InnerPollReady, TypeOK, LockProtects, LockInv
  <2>4. QED  BY <2>1, <2>2, <2>3 DEF IInv
<1>15. ASSUME NEW d \in Direction, InnerFetchAnd(d)
     PROVE  IInv'
  <2>1. TypeOK'
    <3>1. readiness' \in SUBSET KernelBits
      BY <1>15, MaskFacts DEF InnerFetchAnd, TypeOK
    <3>2. waker' \in [Direction -> BOOLEAN] /\ woken' \in [Direction -> BOOLEAN]
      BY <1>15 DEF InnerFetchAnd, Drop, Wake, TypeOK
    <3>3. pc' = [pc EXCEPT ![d] = "register"] \/ pc' = [pc EXCEPT ![d] = "idle"]
      BY <1>15 DEF InnerFetchAnd
    <3>4. QED  BY <1>15, <3>1, <3>2, <3>3 DEF InnerFetchAnd, TypeOK, Holding
  <2>2. LockProtects'
    BY <1>15 DEF InnerFetchAnd, Drop, Wake, TypeOK, LockProtects, LockInv
  <2>3. LockInv'
    BY <1>15 DEF InnerFetchAnd, Drop, Wake, TypeOK, LockProtects, LockInv
  <2>4. QED  BY <2>1, <2>2, <2>3 DEF IInv
<1>16. ASSUME NEW d \in Direction, InnerRegister(d)
     PROVE  IInv'
  <2>1. TypeOK'
    BY <1>16, MaskFacts DEF InnerRegister, TypeOK, LockProtects, LockInv, Holding
  <2>2. LockProtects'
    BY <1>16 DEF InnerRegister, TypeOK, LockProtects, LockInv
  <2>3. LockInv'
    BY <1>16 DEF InnerRegister, TypeOK, LockProtects, LockInv
  <2>4. QED  BY <2>1, <2>2, <2>3 DEF IInv
<1>17. ASSUME NEW d \in Direction, InnerRetry(d)
     PROVE  IInv'
  <2>1. TypeOK'
    BY <1>17, MaskFacts DEF InnerRetry, Drop, Wake, TypeOK, LockProtects, LockInv, Holding
  <2>2. LockProtects'
    BY <1>17 DEF InnerRetry, Drop, Wake, TypeOK, LockProtects, LockInv
  <2>3. LockInv'
    BY <1>17 DEF InnerRetry, Drop, Wake, TypeOK, LockProtects, LockInv
  <2>4. QED  BY <2>1, <2>2, <2>3 DEF IInv
<1>18. CASE UNCHANGED vars
  BY <1>18 DEF vars, IInv, TypeOK, LockProtects, LockInv
<1>19. QED
  BY <1>1, <1>2, <1>3, <1>4, <1>5, <1>6, <1>7, <1>8, <1>9, <1>10, <1>11, <1>12, <1>13,
     <1>14, <1>15, <1>16, <1>17, <1>18
  DEF Next, ReactorStep, TaskStep, RegisterStep, PollReadyStep

\* Every reachable state satisfies the invariant.
LEMMA InvHolds == Spec => []IInv
  BY InitInv, NextInv, PTL DEF Spec

\* Type correctness: in particular the state word has pointer bits only together
\* with LOCKED.
THEOREM TypeCorrect == Spec => []TypeOK
<1>1. IInv => TypeOK  BY DEF IInv
<1>2. QED  BY <1>1, InvHolds, PTL

\* Registration::inner is written by the one thread that holds LOCKED and read
\* only after READY, whatever the two tasks and the reactor do.
THEOREM InnerProtected == Spec => []LockProtects
<1>1. IInv => LockProtects  BY DEF IInv
<1>2. QED  BY <1>1, InvHolds, PTL

\* "Once set, the value is not changed": no interleaving of two register2 adds
\* the resource twice or replaces what the first one found.
THEOREM SetOnce == Spec => InnerSetOnce
<1>1. IInv /\ [Next]_vars => [token # "None" => token' = token]_vars
  <2> SUFFICES ASSUME LockInv, [Next]_vars, token # "None"
               PROVE  token' = token
    BY DEF IInv
  <2> USE DEF stateVars
  <2>1. ASSUME NEW d \in Direction, InnerNew(d)
        PROVE  token' = token
    BY <2>1 DEF InnerNew, LockInv
  <2>2. QED
    BY <2>1
    DEF Next, ReactorStep, TaskStep, RegisterStep, PollReadyStep, vars, DispatchFetchOr,
        DispatchTake, DropReactor, Poll, RegisterLoad, RegisterCas, RegisterSwap,
        DrainError, DrainRegister, DrainCheck, PollReadyLoad, PollReadyPush, InnerPollReady,
        InnerFetchAnd, InnerRegister, InnerRetry
<1>2. QED  BY <1>1, InvHolds, PTL DEF Spec, InnerSetOnce
-----------------------------------------------------------------------------
\* The bits for which reactor::Inner::register wakes a task are bits of its
\* direction, dispatch takes the waker for each of them, and consuming one
\* direction leaves those of the other alone.
LEMMA RegisterMaskFacts ==
  /\ \A d \in Direction, r \in SUBSET KernelBits :
       r \cap Mask(d) = {} => (r \ MaskNoHup(d)) \cap RegisterMask(d) = {}
  /\ \A d \in Direction, r \in SUBSET KernelBits :
       r \cap RegisterMask(d) # {} => d \in DispatchTakes(r)
  /\ \A d, e \in Direction, r \in SUBSET KernelBits :
       d # e => (r \ MaskNoHup(e)) \cap RegisterMask(d) = r \cap RegisterMask(d)
  BY HupAssumption, ConstantsAssumption
  DEF Direction, AllReady, Mask, MaskNoHup, RegisterMask, DispatchTakes

\* The waiting tasks' invariant is kept by every step, if wakers outlive polls.
LEMMA WakerNext ==
  ASSUME WakerOutlivesPoll, IInv, IInv', WakerInv, [Next]_vars
  PROVE  WakerInv'
<1> USE DEF stateVars, reactorVars, Goto
<1>1. CASE DispatchFetchOr
  <2>1. OnlyHangUpMissed'
    BY <1>1, RegisterMaskFacts
    DEF DispatchFetchOr, Events, IInv, TypeOK, LockProtects, LockInv, WakerInv,
        OnlyHangUpMissed, Waiting, InHand, WillWake, Alive, Holding
  <2>2. (\A e \in Direction : pc[e] = "and2" => waker[e] \/ woken[e])'
    BY <1>1 DEF DispatchFetchOr, Events, IInv, TypeOK, WakerInv
  <2>3. QED  BY <2>1, <2>2 DEF WakerInv
<1>2. CASE DispatchTake
  <2>1. OnlyHangUpMissed'
    BY <1>2, RegisterMaskFacts
    DEF DispatchTake, Wake, IInv, TypeOK, LockProtects, LockInv, WakerInv, OnlyHangUpMissed,
        Waiting, InHand, WillWake, Alive, Holding
  <2>2. (\A e \in Direction : pc[e] = "and2" => waker[e] \/ woken[e])'
    BY <1>2 DEF DispatchTake, Wake, IInv, TypeOK, WakerInv
  <2>3. QED  BY <2>1, <2>2 DEF WakerInv
<1>3. CASE DropReactor
  <2>1. OnlyHangUpMissed'
    BY <1>3, RegisterMaskFacts
    DEF DropReactor, Wake, IInv, TypeOK, LockProtects, LockInv, WakerInv, OnlyHangUpMissed,
        Waiting, InHand, WillWake, Alive, Holding
  <2>2. (\A e \in Direction : pc[e] = "and2" => waker[e] \/ woken[e])'
    BY <1>3 DEF DropReactor, Wake, IInv, TypeOK, WakerInv
  <2>3. QED  BY <2>1, <2>2 DEF WakerInv
<1>4. ASSUME NEW d \in Direction, Poll(d)
     PROVE  WakerInv'
  <2>1. OnlyHangUpMissed'
    BY <1>4, RegisterMaskFacts
    DEF Poll, IInv, TypeOK, LockProtects, LockInv, WakerInv, OnlyHangUpMissed, Waiting, InHand,
        WillWake, Alive, Holding
  <2>2. (\A e \in Direction : pc[e] = "and2" => waker[e] \/ woken[e])'
    BY <1>4 DEF Poll, IInv, TypeOK, WakerInv
  <2>3. QED  BY <2>1, <2>2 DEF WakerInv
<1>5. ASSUME NEW d \in Direction, RegisterLoad(d)
     PROVE  WakerInv'
  <2>1. OnlyHangUpMissed'
    BY <1>5, RegisterMaskFacts
    DEF RegisterLoad, IInv, TypeOK, LockProtects, LockInv, WakerInv, OnlyHangUpMissed, Waiting,
        InHand, WillWake, Alive, Holding
  <2>2. (\A e \in Direction : pc[e] = "and2" => waker[e] \/ woken[e])'
    BY <1>5 DEF RegisterLoad, IInv, TypeOK, WakerInv
  <2>3. QED  BY <2>1, <2>2 DEF WakerInv
<1>6. ASSUME NEW d \in Direction, RegisterCas(d)
     PROVE  WakerInv'
  <2>1. OnlyHangUpMissed'
    BY <1>6, RegisterMaskFacts
    DEF RegisterCas, IInv, TypeOK, LockProtects, LockInv, WakerInv, OnlyHangUpMissed, Waiting,
        InHand, WillWake, Alive, Holding
  <2>2. (\A e \in Direction : pc[e] = "and2" => waker[e] \/ woken[e])'
    BY <1>6 DEF RegisterCas, IInv, TypeOK, WakerInv
  <2>3. QED  BY <2>1, <2>2 DEF WakerInv
<1>7. ASSUME NEW d \in Direction, InnerNew(d)
     PROVE  WakerInv'
  <2>1. OnlyHangUpMissed'
    BY <1>7, RegisterMaskFacts
    DEF InnerNew, IInv, TypeOK, LockProtects, LockInv, WakerInv, OnlyHangUpMissed, Waiting,
        InHand, WillWake, Alive, Holding
  <2>2. (\A e \in Direction : pc[e] = "and2" => waker[e] \/ woken[e])'
    BY <1>7 DEF InnerNew, IInv, TypeOK, WakerInv
  <2>3. QED  BY <2>1, <2>2 DEF WakerInv
<1>8. ASSUME NEW d \in Direction, RegisterSwap(d)
     PROVE  WakerInv'
  <2>1. OnlyHangUpMissed'
    <3> SUFFICES ASSUME NEW e \in Direction, Waiting(e)'
                 PROVE  \/ InHand(e)'
                        \/ waker'[e] /\ Alive' /\ (readiness' \cap RegisterMask(e) = {} \/ WillWake(e)')
      BY DEF OnlyHangUpMissed
    <3>1. e # d /\ Waiting(e)
      BY <1>8 DEF RegisterSwap, RegisterReturn, IInv, TypeOK, Waiting
    <3>2. draining = "none" /\ \A f \in Direction : pc[f] \notin {"drain", "check"}
      BY <1>8 DEF RegisterSwap, IInv, LockProtects, LockInv
    <3>3. CASE InHand(e)
      BY <1>8, <3>1, <3>2, <3>3 DEF RegisterSwap, IInv, TypeOK, InHand, Direction
    <3>4. CASE ~InHand(e)
      BY <1>8, <3>1, <3>2, <3>4
      DEF RegisterSwap, RegisterReturn, IInv, TypeOK, WakerInv, OnlyHangUpMissed, WillWake,
          Alive, Holding
    <3>5. QED  BY <3>3, <3>4
  <2>2. (\A e \in Direction : pc[e] = "and2" => waker[e] \/ woken[e])'
    BY <1>8 DEF RegisterSwap, RegisterReturn, IInv, TypeOK, WakerInv
  <2>3. QED  BY <2>1, <2>2 DEF WakerInv
<1>9. ASSUME NEW d \in Direction, DrainError(d)
     PROVE  WakerInv'
  <2>1. OnlyHangUpMissed'
    <3> SUFFICES ASSUME NEW e \in Direction, Waiting(e)'
                 PROVE  \/ InHand(e)'
                        \/ waker'[e] /\ Alive' /\ (readiness' \cap RegisterMask(e) = {} \/ WillWake(e)')
      BY DEF OnlyHangUpMissed
    <3>1. woken' = [f \in Direction |-> woken[f] \/ f \in {draining}]
      BY <1>9 DEF DrainError, Pointee, Wake
    <3>2. e # d /\ Waiting(e) /\ e # draining
      BY <1>9, <3>1 DEF DrainError, RegisterReturn, IInv, TypeOK, Waiting
    <3>3. state = "READY" /\ node = "none"
      BY <1>9 DEF DrainError, IInv, TypeOK, LockInv
    <3>4. ~InHand(e)
      BY <3>2, <3>3 DEF InHand, Direction
    <3>5. waker[e] /\ Alive /\ (readiness \cap RegisterMask(e) = {} \/ WillWake(e))
      BY <3>2, <3>4 DEF WakerInv, OnlyHangUpMissed
    <3>6. QED
      BY <1>9, <3>2, <3>5
      DEF DrainError, RegisterReturn, IInv, TypeOK, WillWake, Alive, Holding
  <2>2. (\A e \in Direction : pc[e] = "and2" => waker[e] \/ woken[e])'
    BY <1>9 DEF DrainError, RegisterReturn, Wake, Pointee, IInv, TypeOK, WakerInv
  <2>3. QED  BY <2>1, <2>2 DEF WakerInv
<1>10. ASSUME NEW d \in Direction, DrainRegister(d)
     PROVE  WakerInv'
  <2>1. OnlyHangUpMissed'
    BY <1>10, RegisterMaskFacts
    DEF DrainRegister, Pointee, IInv, TypeOK, LockProtects, LockInv, WakerInv, OnlyHangUpMissed,
        Waiting, InHand, WillWake, Alive, Holding
  <2>2. (\A e \in Direction : pc[e] = "and2" => waker[e] \/ woken[e])'
    BY <1>10 DEF DrainRegister, Pointee, IInv, TypeOK, WakerInv
  <2>3. QED  BY <2>1, <2>2 DEF WakerInv
<1>11. ASSUME NEW d \in Direction, DrainCheck(d)
     PROVE  WakerInv'
  <2>1. OnlyHangUpMissed'
    BY <1>11, RegisterMaskFacts
    DEF DrainCheck, RegisterReturn, Drop, Wake, IInv, TypeOK, LockProtects, LockInv,
        WakerInv, OnlyHangUpMissed, Waiting, InHand, WillWake, Alive, Holding
  <2>2. (\A e \in Direction : pc[e] = "and2" => waker[e] \/ woken[e])'
    BY <1>11 DEF DrainCheck, RegisterReturn, Drop, Wake, IInv, TypeOK, WakerInv
  <2>3. QED  BY <2>1, <2>2 DEF WakerInv
<1>12. ASSUME NEW d \in Direction, PollReadyLoad(d)
     PROVE  WakerInv'
  <2>1. OnlyHangUpMissed'
    BY <1>12, RegisterMaskFacts, MatchFacts
    DEF PollReadyLoad, IInv, TypeOK, LockProtects, LockInv, WakerInv, OnlyHangUpMissed, Waiting,
        InHand, WillWake, Alive, Holding
  <2>2. (\A e \in Direction : pc[e] = "and2" => waker[e] \/ woken[e])'
    BY <1>12, MatchFacts DEF PollReadyLoad, IInv, TypeOK, WakerInv
  <2>3. QED  BY <2>1, <2>2 DEF WakerInv
<1>13. ASSUME NEW d \in Direction, PollReadyPush(d)
     PROVE  WakerInv'
  <2>1. OnlyHangUpMissed'
    <3> SUFFICES ASSUME NEW e \in Direction, Waiting(e)'
                 PROVE  \/ InHand(e)'
                        \/ waker'[e] /\ Alive' /\ (readiness' \cap RegisterMask(e) = {} \/ WillWake(e)')
      BY DEF OnlyHangUpMissed
    <3>1. CASE Match = "push"
      <4>1. /\ state = "LOCKED" /\ node = "none"
            /\ node' = d /\ pc' = [pc EXCEPT ![d] = "parked"]
        BY <1>13, <3>1, MatchFacts DEF PollReadyPush, IInv
      <4>2. PICK f \in Direction : pc[f] \in {"new", "swap"}
        BY <4>1 DEF IInv, LockProtects
      <4>3. f # d  BY <1>13, <4>2 DEF PollReadyPush
      <4>4. CASE e = d
        BY <4>1, <4>2, <4>3, <4>4 DEF IInv, TypeOK, InHand
      <4>5. CASE e # d
        BY <1>13, <4>1, <4>2, <4>3, <4>5
        DEF Direction, PollReadyPush, IInv, TypeOK, WakerInv, OnlyHangUpMissed, Waiting, InHand,
            WillWake, Alive, Holding
      <4>6. QED  BY <4>4, <4>5
    <3>2. CASE Match # "push"
      <4>1. node' = node /\ pc' = [pc EXCEPT ![d] = Match]
        BY <1>13, <3>2 DEF PollReadyPush
      <4>2. e # d /\ Waiting(e)
        BY <1>13, <4>1, MatchFacts DEF PollReadyPush, IInv, TypeOK, Waiting
      <4>3. QED
        BY <1>13, <4>1, <4>2, MatchFacts
        DEF PollReadyPush, IInv, TypeOK, WakerInv, OnlyHangUpMissed, InHand, WillWake, Alive,
            Holding
    <3>3. QED  BY <3>1, <3>2
  <2>2. (\A e \in Direction : pc[e] = "and2" => waker[e] \/ woken[e])'
    BY <1>13, MatchFacts DEF PollReadyPush, IInv, TypeOK, WakerInv
  <2>3. QED  BY <2>1, <2>2 DEF WakerInv
<1>14. ASSUME NEW d \in Direction, InnerPollReady(d)
     PROVE  WakerInv'
  <2>1. OnlyHangUpMissed'
    BY <1>14, RegisterMaskFacts
    DEF InnerPollReady, IInv, TypeOK, LockProtects, LockInv, WakerInv, OnlyHangUpMissed,
        Waiting, InHand, WillWake, Alive, Holding
  <2>2. (\A e \in Direction : pc[e] = "and2" => waker[e] \/ woken[e])'
    BY <1>14 DEF InnerPollReady, IInv, TypeOK, WakerInv
  <2>3. QED  BY <2>1, <2>2 DEF WakerInv
<1>15. ASSUME NEW d \in Direction, InnerFetchAnd(d)
     PROVE  WakerInv'
  <2>1. OnlyHangUpMissed'
    BY <1>15, RegisterMaskFacts
    DEF InnerFetchAnd, Drop, Wake, IInv, TypeOK, LockProtects, LockInv, WakerInv,
        OnlyHangUpMissed, Waiting, InHand, WillWake, Alive, Holding
  <2>2. (\A e \in Direction : pc[e] = "and2" => waker[e] \/ woken[e])'
    BY <1>15 DEF InnerFetchAnd, Drop, Wake, IInv, TypeOK, WakerInv
  <2>3. QED  BY <2>1, <2>2 DEF WakerInv
<1>16. ASSUME NEW d \in Direction, InnerRegister(d)
     PROVE  WakerInv'
  <2>1. OnlyHangUpMissed'
    BY <1>16, RegisterMaskFacts
    DEF InnerRegister, IInv, TypeOK, LockProtects, LockInv, WakerInv, OnlyHangUpMissed, Waiting,
        InHand, WillWake, Alive, Holding
  <2>2. (\A e \in Direction : pc[e] = "and2" => waker[e] \/ woken[e])'
    BY <1>16 DEF InnerRegister, IInv, TypeOK, WakerInv
  <2>3. QED  BY <2>1, <2>2 DEF WakerInv
<1>17. ASSUME NEW d \in Direction, InnerRetry(d)
     PROVE  WakerInv'
  <2>1. OnlyHangUpMissed'
    BY <1>17, RegisterMaskFacts
    DEF InnerRetry, Drop, Wake, IInv, TypeOK, LockProtects, LockInv, WakerInv, OnlyHangUpMissed,
        Waiting, InHand, WillWake, Alive, Holding
  <2>2. (\A e \in Direction : pc[e] = "and2" => waker[e] \/ woken[e])'
    BY <1>17 DEF InnerRetry, Drop, Wake, IInv, TypeOK, WakerInv
  <2>3. QED  BY <2>1, <2>2 DEF WakerInv
<1>18. CASE UNCHANGED vars
  BY <1>18 DEF vars, WakerInv, OnlyHangUpMissed, Waiting, InHand, WillWake, Alive, Holding
<1>19. QED
  BY <1>1, <1>2, <1>3, <1>4, <1>5, <1>6, <1>7, <1>8, <1>9, <1>10, <1>11, <1>12, <1>13,
     <1>14, <1>15, <1>16, <1>17, <1>18
  DEF Next, ReactorStep, TaskStep, RegisterStep, PollReadyStep

\* No task that returned Pending is forgotten, on any platform and with hang-ups,
\* except by a hang-up that comes while the task's node is being followed; the
\* waker of a poll has to stay valid after it, or the claim is false, as the run
\* Registration_waker shows.
THEOREM WaitersNotMissed ==
  ASSUME WakerOutlivesPoll
  PROVE  Spec => []OnlyHangUpMissed
<1>1. Init => WakerInv
  BY DEF Init, WakerInv, OnlyHangUpMissed, Waiting
<1>2. IInv /\ IInv' /\ WakerInv /\ [Next]_vars => WakerInv'
  BY WakerNext
<1>3. WakerInv => OnlyHangUpMissed  BY DEF WakerInv
<1>4. QED  BY <1>1, <1>2, <1>3, InvHolds, PTL DEF Spec

\* A resource that does not hang up forgets no task at all: without HUP the bits
\* of a direction are those that reactor::Inner::register looks at.
THEOREM WaitersNotForgotten ==
  ASSUME KernelBits \cap Hup = {}, WakerOutlivesPoll
  PROVE  Spec => []NoLostWakeup
<1>1. \A d \in Direction, r \in SUBSET KernelBits : r \cap Mask(d) = r \cap RegisterMask(d)
  BY HupAssumption, ConstantsAssumption DEF Direction, AllReady, Mask, RegisterMask
<1>2. IInv /\ OnlyHangUpMissed => NoLostWakeup
  BY <1>1 DEF IInv, TypeOK, OnlyHangUpMissed, NoLostWakeup
<1>3. QED  BY <1>2, InvHolds, WaitersNotMissed, PTL
=============================================================================
