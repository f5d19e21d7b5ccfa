---------------------------- MODULE SocketsProofs ----------------------------
(***************************************************************************)
(* Proofs about Sockets, for any set of tasks and any bounds.              *)
(***************************************************************************)
EXTENDS Sockets, TLAPS

\* What every method has: it clears the direction it waits for, and calls
\* something that this direction's readiness is about.
Shape(m) ==
  /\ m.wait \in Direction
  /\ m.clear = m.wait
  /\ m.blocks \subseteq {"wouldblock", "none"}
  /\ m.wait = "Read" => m.call \in {"nothing", "read", "recv_from", "accept"}
  /\ m.wait = "Write" => m.call \in {"nothing", "flush", "write", "send_to", "take_error"}

\* A ConnectFuture waits for Write and asks for the error.
ConnectShape(m) == m.wait = "Write" /\ m.call = "take_error" /\ m.blocks = {}

\* A future waits for its own direction, and has been registered once it has
\* seen readiness.
FutureInv ==
  /\ method = [d \in Direction |-> method[d]]
  /\ \A d \in Direction :
       /\ at[d] # "none" => method[d].wait = d
       /\ at[d] \in {"operate", "clear"} => reg = "ready"

\* A direction whose calls would get somewhere is known to be: the news is in
\* the kernel, in the event, in the readiness word or in a cache that is not
\* about to be cleared.
NewsInv ==
  reg = "ready" /\ alive =>
    \A d \in Direction :
      Able(d) => \/ edge
                 \/ Own(d) \in event
                 \/ Own(d) \in word
                 \/ d \in cache /\ at[d] # "clear"

\* A future that waits has left no news behind.
PendingInv ==
  \A d \in Direction :
    at[d] = "pending" =>
      /\ alive /\ reg = "ready"
      /\ waker[d] = task[d]
      /\ Own(d) \notin word
      /\ d \notin cache

\* Nothing is heard of a connection that is on its way.
ProgressInv ==
  conn = "progress" =>
    /\ inbox = 0 /\ space = 0
    /\ event = {} /\ word = {} /\ cache = {}
    /\ \A d \in Direction : at[d] # "operate"

\* A ConnectFuture that is not finished keeps its stream or its error; one that
\* is finished stays a ConnectFuture, which nobody polls, or is a stream.
ConnectInv ==
  /\ state = "Error" => conn = "refused"
  /\ outcome \in {"err", "dropped"} => kind \in Connects
  /\ kind \in Connects =>
       /\ outcome # "none" => \A d \in Direction : at[d] = "none"
       /\ (outcome = "none" /\ \A d \in Direction : at[d] # "operate") => state # "Empty"

\* The inductive invariant.
IInv ==
  /\ TypeOK /\ FutureInv /\ NewsInv /\ PendingInv
  /\ ProgressInv /\ ConnectInv /\ ConnectTruthful
-----------------------------------------------------------------------------
\* The socket types.
LEMMA KindNames ==
  Kinds = {"TcpStream", "UnixStream", "TcpConnect", "UnixConnect", "TcpListener",
           "UnixListener", "UdpSocket", "UnixDatagram"}
BY DEF Kinds, Methods

\* Every method of every type has the shape that the protocol relies on.
LEMMA MethodShapes ==
  ASSUME NEW k \in Kinds, NEW m \in Methods[k]
  PROVE  Shape(m) /\ (k \in Connects => ConnectShape(m))
<1> USE DEF Listed, Method, WouldBlock, Shape, ConnectShape, Direction, Connects, ReadReady,
            WriteReady, PollEventedIo
<1>1. CASE k = "TcpStream"
  BY <1>1 DEF Methods, TcpStream
<1>2. CASE k = "UnixStream"
  BY <1>2 DEF Methods, UnixStream
<1>3. CASE k = "TcpConnect"
  BY <1>3 DEF Methods, TcpConnect
<1>4. CASE k = "UnixConnect"
  BY <1>4 DEF Methods, UnixConnect
<1>5. CASE k = "TcpListener"
  BY <1>5 DEF Methods, TcpListener, TcpIncoming
<1>6. CASE k = "UnixListener"
  BY <1>6 DEF Methods, UnixListener, UnixIncoming
<1>7. CASE k = "UdpSocket"
  BY <1>7 DEF Methods, UdpSocket, UdpFutures
<1>8. CASE k = "UnixDatagram"
  BY <1>8 DEF Methods, UnixDatagram, UnixFutures
<1>9. QED
  BY <1>1, <1>2, <1>3, <1>4, <1>5, <1>6, <1>7, <1>8, KindNames

\* The method of a future has that shape, and only Write waits for a connection.
LEMMA FutureShapes ==
  ASSUME TypeOK, FutureInv, NEW d \in Direction, at[d] # "none"
  PROVE  /\ Shape(method[d])
         /\ method[d].wait = d
         /\ kind \in Connects => d = "Write" /\ ConnectShape(method[d])
BY MethodShapes DEF TypeOK, FutureInv, ConnectShape

\* Dispatch takes the waker of a direction whose bit is in the event.
LEMMA OwnTaken ==
  ASSUME NEW d \in Direction, NEW ready, Own(d) \in ready
  PROVE  d \in DispatchTakes(ready)
BY DEF Own, DispatchTakes, Direction

\* Polling a direction leaves the bit of the other one in the readiness word.
LEMMA OthersKept ==
  ASSUME NEW d \in Direction, NEW e \in Direction, d # e
  PROVE  Own(e) \notin MaskNoHup(d)
BY HupAssumption DEF Own, MaskNoHup, Mask, AllReady, Direction

\* A direction consumes its own bit.
LEMMA OwnConsumed ==
  ASSUME NEW d \in Direction
  PROVE  Own(d) \in MaskNoHup(d) /\ Own(d) \in PollMask(d)
BY HupAssumption DEF Own, MaskNoHup, Mask, PollMask, AllReady, Direction

\* The kernel reports bits of mio; nothing while the connection is on its way.
LEMMA Levels == Level \in Ready /\ (inbox = 0 /\ space = 0 /\ conn = "progress" => Level = {})
BY HupAssumption DEF Level, HungUp, Dead, Ready, AllReady

\* Able depends on the kernel only.
LEMMA AbleKernel == UNCHANGED kernelVars => \A d : Able(d)' = Able(d)
BY DEF Able, Level, HungUp, Dead, kernelVars

\* What Able says of the kernel.
LEMMA AbleMeans ==
  /\ Able("Read") <=> inbox > 0 \/ HungUp
  /\ Able("Write") <=> space > 0 \/ Dead
BY HupAssumption DEF Able, Level, Own

\* What the calls of a future return: a call that blocks was not able to do
\* anything, and a call never makes its socket able nor takes from the other
\* direction.
LEMMA ResultsOf ==
  ASSUME TypeOK, NEW d \in Direction, NEW m, Shape(m), m.wait = d, NEW r \in Results(m.call)
  PROVE  /\ r.inbox \in 0 .. inbox /\ r.space \in 0 .. space
         /\ IF d = "Read" THEN r.space = space ELSE r.inbox = inbox
         /\ r.res \in m.blocks => ~Able(d) /\ r.inbox = inbox /\ r.space = space
         /\ m.call = "take_error" => /\ r.res \in {"ok", "err"}
                                     /\ r.res = "ok" => conn # "refused"
                                     /\ r.res = "err" => Dead
<1> USE SocketsAssumption
<1>0. inbox \in Nat /\ space \in Nat
  BY DEF TypeOK
<1>1. CASE m.call \in {"nothing", "flush"}
  BY <1>0, <1>1 DEF Results, Result, Shape
<1>2. CASE m.call \in {"read", "recv_from"}
  <2>1. d = "Read"
    BY <1>2 DEF Shape, Direction
  <2>2. r \in Takes("wouldblock") \cup {Result("err", inbox, space)}
    BY <1>2 DEF Results
  <2>3. QED  BY <1>0, <1>2, <2>1, <2>2, AbleMeans DEF Result, Shape, Takes
<1>3. CASE m.call \in {"write", "send_to"}
  <2>1. d = "Write"
    BY <1>3 DEF Shape, Direction
  <2>2. r \in Sends \cup {Result("err", inbox, space)}
    BY <1>3 DEF Results
  <2>3. QED  BY <1>0, <1>3, <2>1, <2>2, AbleMeans DEF Result, Shape, Sends
<1>4. CASE m.call = "accept"
  <2>1. d = "Read"
    BY <1>4 DEF Shape, Direction
  <2>2. PICK b : r \in Accepts(b) \cup {Result("err", inbox, space)}
    BY <1>4 DEF Results
  <2>3. QED  BY <1>0, <1>4, <2>1, <2>2, AbleMeans DEF Result, Shape, Accepts, Takes
<1>5. CASE m.call = "take_error"
  BY <1>0, <1>5 DEF Results, Result, Shape, TakeError, Dead
<1>6. QED
  BY <1>1, <1>2, <1>3, <1>4, <1>5 DEF Shape, Direction

\* The end of a poll, whatever it returns, leaves the futures, and a ConnectFuture,
\* in order.
LEMMA FinishKeeps ==
  ASSUME TypeOK, FutureInv, ConnectInv, NEW d \in Direction, NEW res, Finish(d, res),
         at[d] # "none", kind \in Connects => res \in {"ok", "err"},
         reg' = reg \/ reg = "init", UNCHANGED conn
  PROVE  /\ kind' \in Kinds
         /\ at' = [at EXCEPT ![d] = "none"]
         /\ task' = [task EXCEPT ![d] = NoTask]
         /\ state' \in {"Waiting", "Error", "Empty"}
         /\ kind' \notin Connects => state' = "Empty"
         /\ outcome' \in {"none", "ok", "err", "dropped"}
         /\ \A e \in Direction :
              at'[e] # "none" => task'[e] \in Tasks /\ method'[e] \in Methods[kind']
         /\ FutureInv'
         /\ ConnectInv'
<1> USE DEF Goto
<1>1. kind \in Connects => \A e \in Direction : at[e] # "none" => e = d
  BY FutureShapes DEF TypeOK
<1>2. kind' \in Kinds /\ (kind' # kind => kind \in Connects)
  BY KindNames DEF Finish, TypeOK, Connects
<1>3. \A e \in Direction : at'[e] # "none" => e # d /\ at[e] # "none" /\ kind' = kind
  BY <1>1, <1>2 DEF Finish, TypeOK
<1>4. /\ state' \in {"Waiting", "Error", "Empty"}
      /\ kind' \notin Connects => state' = "Empty"
      /\ state' = "Error" => state = "Error"
  BY DEF Finish, TypeOK, Connects, TcpConnectDone, UnixConnectDone
<1>5. /\ outcome' \in {"none", "ok", "err", "dropped"}
      /\ kind \in Connects => outcome' \in {"ok", "err"}
      /\ kind \in Connects /\ outcome' = "err" => kind' = kind
      /\ kind \notin Connects => outcome' = outcome /\ kind' = kind
  BY DEF Finish, TypeOK, Connects
<1>6. \A e \in Direction :
        at'[e] # "none" => task'[e] \in Tasks /\ method'[e] \in Methods[kind']
  BY <1>3 DEF Finish, TypeOK, FutureInv
<1>7. FutureInv'
  <2>1. method' = [e \in Direction |-> method'[e]]
    BY DEF Finish, FutureInv
  <2>2. ASSUME NEW e \in Direction
        PROVE  /\ at'[e] # "none" => method'[e].wait = e
               /\ at'[e] \in {"operate", "clear"} => reg' = "ready"
    <3>1. CASE e = d
      BY <3>1 DEF Finish, TypeOK
    <3>2. CASE e # d
      BY <3>2 DEF Finish, TypeOK, FutureInv
    <3>3. QED  BY <3>1, <3>2
  <2>3. QED  BY <2>1, <2>2 DEF FutureInv
<1>8. ConnectInv'
  <2>1. CASE kind \in Connects
    <3>1. \A e \in Direction : at'[e] = "none"
      BY <1>1, <2>1 DEF Finish, TypeOK
    <3>2. QED  BY <1>4, <1>5, <2>1, <3>1 DEF ConnectInv
  <2>2. CASE kind \notin Connects
    BY <1>4, <1>5, <2>2 DEF ConnectInv
  <2>3. QED  BY <2>1, <2>2
<1>9. QED
  BY <1>2, <1>4, <1>5, <1>6, <1>7, <1>8 DEF Finish

\* The invariant holds initially.
LEMMA InitInv == Init => IInv
<1> SUFFICES ASSUME Init  PROVE IInv
  OBVIOUS
<1> USE SocketsAssumption
<1>1. TypeOK
  <2>1. /\ state \in {"Waiting", "Error", "Empty"} /\ (kind \notin Connects => state = "Empty")
        /\ conn \in {"progress", "up", "refused"}
    BY DEF Init, TcpConnectNew, UnixConnectNew, TcpStreamNew, Connects
  <2>2. inbox \in 0 .. MaxInbox /\ space \in 0 .. MaxSpace
    BY DEF Init
  <2>3. QED  BY <2>1, <2>2 DEF Init, TypeOK, Ready
<1>2. FutureInv /\ NewsInv /\ PendingInv
  BY DEF Init, FutureInv, NewsInv, PendingInv
<1>3. ProgressInv /\ ConnectInv /\ ConnectTruthful
  BY DEF Init, ProgressInv, ConnectInv, ConnectTruthful, TcpConnectNew, UnixConnectNew,
         TcpStreamNew, Connects, Streams
<1>4. QED
  BY <1>1, <1>2, <1>3 DEF IInv

\* Every step keeps the invariant.
LEMMA NextInv == IInv /\ [Next]_vars => IInv'
<1> SUFFICES ASSUME TypeOK, FutureInv, NewsInv, PendingInv, ProgressInv, ConnectInv,
                    ConnectTruthful, [Next]_vars
             PROVE  IInv'
  BY DEF IInv
<1> USE SocketsAssumption DEF Goto, kernelVars, connectVars, futureVars
<1>1. CASE Arrive
  <2>1. TypeOK'
    BY <1>1 DEF Arrive, TypeOK, Signal
  <2>2. FutureInv'
    BY <1>1 DEF Arrive, TypeOK, FutureInv
  <2>3. NewsInv'
    BY <1>1 DEF Arrive, TypeOK, NewsInv, Signal
  <2>4. PendingInv'
    BY <1>1 DEF Arrive, TypeOK, PendingInv
  <2>5. ProgressInv'
    BY <1>1 DEF Arrive, TypeOK, ProgressInv
  <2>6. ConnectInv'
    BY <1>1 DEF Arrive, TypeOK, ConnectInv
  <2>7. ConnectTruthful'
    BY <1>1 DEF Arrive, ConnectTruthful, ConnectInv, Dead
  <2>8. QED  BY <2>1, <2>2, <2>3, <2>4, <2>5, <2>6, <2>7 DEF IInv
<1>2. CASE MakeRoom
  <2>1. TypeOK'
    BY <1>2 DEF MakeRoom, TypeOK, Signal
  <2>2. FutureInv'
    BY <1>2 DEF MakeRoom, TypeOK, FutureInv
  <2>3. NewsInv'
    BY <1>2 DEF MakeRoom, TypeOK, NewsInv, Signal
  <2>4. PendingInv'
    BY <1>2 DEF MakeRoom, TypeOK, PendingInv
  <2>5. ProgressInv'
    BY <1>2 DEF MakeRoom, TypeOK, ProgressInv
  <2>6. ConnectInv'
    BY <1>2 DEF MakeRoom, TypeOK, ConnectInv
  <2>7. ConnectTruthful'
    BY <1>2 DEF MakeRoom, ConnectTruthful, ConnectInv, Dead
  <2>8. QED  BY <2>1, <2>2, <2>3, <2>4, <2>5, <2>6, <2>7 DEF IInv
<1>3. CASE ConnectEnds
  <2>1. TypeOK'
    BY <1>3 DEF ConnectEnds, TypeOK, Signal
  <2>2. FutureInv'
    BY <1>3 DEF ConnectEnds, TypeOK, FutureInv
  <2>3. NewsInv'
    BY <1>3 DEF ConnectEnds, TypeOK, NewsInv, Signal
  <2>4. PendingInv'
    BY <1>3 DEF ConnectEnds, TypeOK, PendingInv
  <2>5. ProgressInv'
    BY <1>3 DEF ConnectEnds, TypeOK, ProgressInv
  <2>6. ConnectInv'
    BY <1>3 DEF ConnectEnds, TypeOK, ConnectInv, Streams, Connects
  <2>7. ConnectTruthful'
    BY <1>3 DEF ConnectEnds, ConnectTruthful, ConnectInv, Dead
  <2>8. QED  BY <2>1, <2>2, <2>3, <2>4, <2>5, <2>6, <2>7 DEF IInv
<1>4. CASE PeerCloses
  <2>1. TypeOK'
    BY <1>4 DEF PeerCloses, TypeOK, Signal
  <2>2. FutureInv'
    BY <1>4 DEF PeerCloses, TypeOK, FutureInv
  <2>3. NewsInv'
    BY <1>4 DEF PeerCloses, TypeOK, NewsInv, Signal
  <2>4. PendingInv'
    BY <1>4 DEF PeerCloses, TypeOK, PendingInv
  <2>5. ProgressInv'
    BY <1>4 DEF PeerCloses, TypeOK, ProgressInv
  <2>6. ConnectInv'
    BY <1>4 DEF PeerCloses, TypeOK, ConnectInv
  <2>7. ConnectTruthful'
    BY <1>4 DEF PeerCloses, ConnectTruthful, ConnectInv, Dead
  <2>8. QED  BY <2>1, <2>2, <2>3, <2>4, <2>5, <2>6, <2>7 DEF IInv
<1>5. CASE ReactorPoll
  <2>1. TypeOK'
    BY <1>5, Levels DEF ReactorPoll, TypeOK
  <2>2. FutureInv'
    BY <1>5 DEF ReactorPoll, TypeOK, FutureInv
  <2>3. NewsInv'
    BY <1>5, AbleKernel DEF ReactorPoll, TypeOK, NewsInv, Able
  <2>4. PendingInv'
    BY <1>5 DEF ReactorPoll, TypeOK, PendingInv
  <2>5. ProgressInv'
    BY <1>5, Levels DEF ReactorPoll, TypeOK, ProgressInv
  <2>6. ConnectInv'
    BY <1>5 DEF ReactorPoll, TypeOK, ConnectInv
  <2>7. ConnectTruthful'
    BY <1>5 DEF ReactorPoll, ConnectTruthful, ConnectInv, Dead
  <2>8. QED  BY <2>1, <2>2, <2>3, <2>4, <2>5, <2>6, <2>7 DEF IInv
<1>6. CASE Dispatch
  <2>1. TypeOK'
    BY <1>6 DEF Dispatch, TypeOK, WakeAll, Ready
  <2>2. FutureInv'
    BY <1>6 DEF Dispatch, TypeOK, FutureInv, WakeAll
  <2>3. NewsInv'
    BY <1>6, AbleKernel DEF Dispatch, TypeOK, NewsInv, WakeAll
  <2>4. PendingInv'
    BY <1>6, OwnTaken DEF Dispatch, TypeOK, PendingInv, WakeAll
  <2>5. ProgressInv'
    BY <1>6 DEF Dispatch, TypeOK, ProgressInv, WakeAll
  <2>6. ConnectInv'
    BY <1>6 DEF Dispatch, TypeOK, ConnectInv, WakeAll
  <2>7. ConnectTruthful'
    BY <1>6 DEF Dispatch, ConnectTruthful, ConnectInv, Dead
  <2>8. QED  BY <2>1, <2>2, <2>3, <2>4, <2>5, <2>6, <2>7 DEF IInv
<1>7. CASE DropReactor
  <2>1. TypeOK'
    BY <1>7 DEF DropReactor, TypeOK, WakeAll, Ready
  <2>2. FutureInv'
    BY <1>7 DEF DropReactor, TypeOK, FutureInv, WakeAll
  <2>3. NewsInv'
    BY <1>7, AbleKernel DEF DropReactor, TypeOK, NewsInv
  <2>4. PendingInv'
    BY <1>7 DEF DropReactor, TypeOK, PendingInv, WakeAll
  <2>5. ProgressInv'
    BY <1>7 DEF DropReactor, TypeOK, ProgressInv, WakeAll
  <2>6. ConnectInv'
    BY <1>7 DEF DropReactor, TypeOK, ConnectInv, WakeAll
  <2>7. ConnectTruthful'
    BY <1>7 DEF DropReactor, ConnectTruthful, ConnectInv, Dead
  <2>8. QED  BY <2>1, <2>2, <2>3, <2>4, <2>5, <2>6, <2>7 DEF IInv
<1>8. ASSUME NEW d \in Direction, NEW t \in Tasks, NEW m \in Methods[kind], Create(d, t, m)
      PROVE  IInv'
  <2>1. TypeOK'
    BY <1>8 DEF Create, TypeOK, FutureInv
  <2>2. FutureInv'
    BY <1>8 DEF Create, TypeOK, FutureInv
  <2>3. NewsInv'
    BY <1>8, AbleKernel DEF Create, TypeOK, NewsInv
  <2>4. PendingInv'
    BY <1>8 DEF Create, TypeOK, PendingInv
  <2>5. ProgressInv'
    BY <1>8 DEF Create, TypeOK, ProgressInv
  <2>6. ConnectInv'
    BY <1>8 DEF Create, TypeOK, ConnectInv, FutureInv
  <2>7. ConnectTruthful'
    BY <1>8 DEF Create, ConnectTruthful, ConnectInv, Dead
  <2>8. QED  BY <2>1, <2>2, <2>3, <2>4, <2>5, <2>6, <2>7 DEF IInv
<1>9. ASSUME NEW d \in Direction, Cancel(d)
      PROVE  IInv'
  <2>1. TypeOK'
    BY <1>9 DEF Cancel, TypeOK
  <2>2. FutureInv'
    BY <1>9 DEF Cancel, TypeOK, FutureInv
  <2>3. NewsInv'
    BY <1>9, AbleKernel DEF Cancel, TypeOK, NewsInv
  <2>4. PendingInv'
    BY <1>9 DEF Cancel, TypeOK, PendingInv
  <2>5. ProgressInv'
    BY <1>9 DEF Cancel, TypeOK, ProgressInv
  <2>6. ConnectInv'
    BY <1>9, FutureShapes DEF Cancel, TypeOK, ConnectInv, FutureInv
  <2>7. ConnectTruthful'
    BY <1>9 DEF Cancel, ConnectTruthful, ConnectInv, Dead
  <2>8. QED  BY <2>1, <2>2, <2>3, <2>4, <2>5, <2>6, <2>7 DEF IInv
<1>10. ASSUME NEW d \in Direction, NEW t \in Tasks, Repoll(d, t)
      PROVE  IInv'
  <2>1. TypeOK'
    BY <1>10 DEF Repoll, TypeOK
  <2>2. FutureInv'
    BY <1>10 DEF Repoll, TypeOK, FutureInv
  <2>3. NewsInv'
    BY <1>10, AbleKernel DEF Repoll, TypeOK, NewsInv
  <2>4. PendingInv'
    BY <1>10 DEF Repoll, TypeOK, PendingInv
  <2>5. ProgressInv'
    BY <1>10 DEF Repoll, TypeOK, ProgressInv
  <2>6. ConnectInv'
    BY <1>10 DEF Repoll, TypeOK, ConnectInv
  <2>7. ConnectTruthful'
    BY <1>10 DEF Repoll, ConnectTruthful, ConnectInv, Dead
  <2>8. QED  BY <2>1, <2>2, <2>3, <2>4, <2>5, <2>6, <2>7 DEF IInv
<1>11. ASSUME NEW d \in Direction, PollError(d)
      PROVE  IInv'
  <2>0. /\ kind' \in Kinds
        /\ at' = [at EXCEPT ![d] = "none"]
        /\ task' = [task EXCEPT ![d] = NoTask]
        /\ state' \in {"Waiting", "Error", "Empty"}
        /\ kind' \notin Connects => state' = "Empty"
        /\ outcome' \in {"none", "ok", "err", "dropped"}
        /\ \A e \in Direction :
             at'[e] # "none" => task'[e] \in Tasks /\ method'[e] \in Methods[kind']
        /\ FutureInv'
        /\ ConnectInv'
    BY <1>11, FinishKeeps DEF PollError, Polling
  <2>1. TypeOK'
    BY <1>11, <2>0 DEF PollError, TypeOK
  <2>2. FutureInv'
    BY <2>0
  <2>3. NewsInv'
    BY <1>11, <2>0, AbleKernel DEF PollError, TypeOK, NewsInv, FutureInv, Polling
  <2>4. PendingInv'
    BY <1>11, <2>0 DEF PollError, TypeOK, PendingInv
  <2>5. ProgressInv'
    BY <1>11, <2>0 DEF PollError, TypeOK, ProgressInv
  <2>6. ConnectInv'
    BY <2>0
  <2>7. ConnectTruthful'
    BY <1>11, <2>0
    DEF PollError, Finish, ConnectTruthful, ConnectInv, Dead, Polling, FutureInv, TypeOK
  <2>8. QED  BY <2>1, <2>2, <2>3, <2>4, <2>5, <2>6, <2>7 DEF IInv
<1>12. ASSUME NEW d \in Direction, Register(d)
      PROVE  IInv'
  <2>1. TypeOK'
    BY <1>12 DEF Register, TypeOK
  <2>2. FutureInv'
    BY <1>12 DEF Register, TypeOK, FutureInv, Polling
  <2>3. NewsInv'
    BY <1>12, AbleKernel DEF Register, TypeOK, NewsInv, Able, Polling
  <2>4. PendingInv'
    BY <1>12 DEF Register, TypeOK, PendingInv, Polling
  <2>5. ProgressInv'
    BY <1>12, Levels DEF Register, TypeOK, ProgressInv
  <2>6. ConnectInv'
    BY <1>12 DEF Register, TypeOK, ConnectInv, Polling
  <2>7. ConnectTruthful'
    BY <1>12, FutureShapes DEF Register, ConnectTruthful, ConnectInv, Polling, TypeOK, Dead
  <2>8. QED  BY <2>1, <2>2, <2>3, <2>4, <2>5, <2>6, <2>7 DEF IInv
<1>13. ASSUME NEW d \in Direction, RegisterFails(d)
      PROVE  IInv'
  <2>0. /\ kind' \in Kinds
        /\ at' = [at EXCEPT ![d] = "none"]
        /\ task' = [task EXCEPT ![d] = NoTask]
        /\ state' \in {"Waiting", "Error", "Empty"}
        /\ kind' \notin Connects => state' = "Empty"
        /\ outcome' \in {"none", "ok", "err", "dropped"}
        /\ \A e \in Direction :
             at'[e] # "none" => task'[e] \in Tasks /\ method'[e] \in Methods[kind']
        /\ FutureInv'
        /\ ConnectInv'
    BY <1>13, FinishKeeps DEF RegisterFails, Polling
  <2>1. TypeOK'
    BY <1>13, <2>0 DEF RegisterFails, TypeOK
  <2>2. FutureInv'
    BY <2>0
  <2>3. NewsInv'
    BY <1>13, <2>0, AbleKernel DEF RegisterFails, TypeOK, NewsInv, FutureInv, Polling
  <2>4. PendingInv'
    BY <1>13, <2>0 DEF RegisterFails, TypeOK, PendingInv
  <2>5. ProgressInv'
    BY <1>13, <2>0 DEF RegisterFails, TypeOK, ProgressInv
  <2>6. ConnectInv'
    BY <2>0
  <2>7. ConnectTruthful'
    BY <1>13, <2>0
    DEF RegisterFails, Finish, ConnectTruthful, ConnectInv, Dead, Polling, FutureInv, TypeOK
  <2>8. QED  BY <2>1, <2>2, <2>3, <2>4, <2>5, <2>6, <2>7 DEF IInv
<1>14. ASSUME NEW d \in Direction, ReadyFails(d)
      PROVE  IInv'
  <2>0. /\ kind' \in Kinds
        /\ at' = [at EXCEPT ![d] = "none"]
        /\ task' = [task EXCEPT ![d] = NoTask]
        /\ state' \in {"Waiting", "Error", "Empty"}
        /\ kind' \notin Connects => state' = "Empty"
        /\ outcome' \in {"none", "ok", "err", "dropped"}
        /\ \A e \in Direction :
             at'[e] # "none" => task'[e] \in Tasks /\ method'[e] \in Methods[kind']
        /\ FutureInv'
        /\ ConnectInv'
    BY <1>14, FinishKeeps DEF ReadyFails, Polling
  <2>1. TypeOK'
    BY <1>14, <2>0 DEF ReadyFails, TypeOK
  <2>2. FutureInv'
    BY <2>0
  <2>3. NewsInv'
    BY <1>14, <2>0, AbleKernel DEF ReadyFails, TypeOK, NewsInv, FutureInv, Polling
  <2>4. PendingInv'
    BY <1>14, <2>0 DEF ReadyFails, TypeOK, PendingInv
  <2>5. ProgressInv'
    BY <1>14, <2>0 DEF ReadyFails, TypeOK, ProgressInv
  <2>6. ConnectInv'
    BY <2>0
  <2>7. ConnectTruthful'
    BY <1>14, <2>0
    DEF ReadyFails, Finish, ConnectTruthful, ConnectInv, Dead, Polling, FutureInv, TypeOK
  <2>8. QED  BY <2>1, <2>2, <2>3, <2>4, <2>5, <2>6, <2>7 DEF IInv
<1>15. ASSUME NEW d \in Direction, PollReady(d)
      PROVE  IInv'
  <2>1. TypeOK'
    BY <1>15
    DEF PollReady, TypeOK, TakeReadiness, Polling, PutBack, Ready, Connects, Direction
  <2>2. FutureInv'
    BY <1>15 DEF PollReady, TypeOK, FutureInv, Polling
  <2>3. NewsInv'
    BY <1>15, AbleKernel, OthersKept
    DEF PollReady, TypeOK, NewsInv, TakeReadiness, Polling, AnswersReady
  <2>4. PendingInv'
    BY <1>15, OthersKept, OwnConsumed
    DEF PollReady, TypeOK, PendingInv, TakeReadiness, AnswersReady, Polling
  <2>5. ProgressInv'
    BY <1>15 DEF PollReady, TypeOK, ProgressInv, TakeReadiness, AnswersReady, Polling
  <2>6. ConnectInv'
    BY <1>15, FutureShapes
    DEF PollReady, TypeOK, ConnectInv, Polling, PutBack, FutureInv, Connects, Direction
  <2>7. ConnectTruthful'
    BY <1>15 DEF PollReady, ConnectTruthful, ConnectInv, Dead
  <2>8. QED  BY <2>1, <2>2, <2>3, <2>4, <2>5, <2>6, <2>7 DEF IInv
<1>16. ASSUME NEW d \in Direction, Operate(d)
      PROVE  IInv'
  <2> PICK r \in Results(method[d].call) :
         /\ inbox' = r.inbox
         /\ space' = r.space
         /\ IF r.res \in method[d].blocks
              THEN Goto(d, "clear") /\ UNCHANGED <<task, method, connectVars>>
              ELSE Finish(d, r.res)
    BY <1>16 DEF Operate
  <2>a. /\ at[d] = "operate" /\ Shape(method[d]) /\ method[d].wait = d
        /\ UNCHANGED <<conn, edge, event, alive, reg, word, waker, cache>>
        /\ kind \in Connects => d = "Write" /\ ConnectShape(method[d])
    BY <1>16, FutureShapes DEF Operate
  <2>b. /\ r.inbox \in 0 .. inbox /\ r.space \in 0 .. space
        /\ r.res \in method[d].blocks => ~Able(d) /\ r.inbox = inbox /\ r.space = space
        /\ kind \in Connects => /\ r.res \in {"ok", "err"}
                                /\ r.res = "ok" => conn # "refused"
                                /\ r.res = "err" => Dead
    BY <2>a, ResultsOf DEF ConnectShape
  <2>c. \A e \in Direction : Able(e)' => Able(e)
    BY <2>a, <2>b DEF Able, Level, HungUp, Dead, TypeOK
  <2>d. conn # "progress"
    BY <2>a DEF ProgressInv
  <2>1. CASE r.res \in method[d].blocks
    <3>0. /\ at' = [at EXCEPT ![d] = "clear"] /\ ~Able(d)
          /\ UNCHANGED <<task, method, connectVars, inbox, space>>
          /\ kind \notin Connects
      BY <2>a, <2>b, <2>1 DEF ConnectShape
    <3>1. TypeOK'
      BY <2>a, <3>0 DEF TypeOK
    <3>2. FutureInv'
      BY <2>a, <3>0 DEF TypeOK, FutureInv
    <3>3. NewsInv'
      BY <2>a, <2>c, <3>0 DEF TypeOK, NewsInv
    <3>4. PendingInv'
      BY <2>a, <3>0 DEF TypeOK, PendingInv
    <3>5. ProgressInv'
      BY <2>a, <2>d DEF ProgressInv
    <3>6. ConnectInv'
      BY <2>a, <3>0 DEF ConnectInv
    <3>7. ConnectTruthful'
      BY <2>a, <3>0 DEF ConnectTruthful, Dead
    <3>8. QED  BY <3>1, <3>2, <3>3, <3>4, <3>5, <3>6, <3>7 DEF IInv
  <2>2. CASE r.res \notin method[d].blocks
    <3>0. /\ kind' \in Kinds
          /\ at' = [at EXCEPT ![d] = "none"]
          /\ task' = [task EXCEPT ![d] = NoTask]
          /\ state' \in {"Waiting", "Error", "Empty"}
          /\ kind' \notin Connects => state' = "Empty"
          /\ outcome' \in {"none", "ok", "err", "dropped"}
          /\ \A e \in Direction :
               at'[e] # "none" => task'[e] \in Tasks /\ method'[e] \in Methods[kind']
          /\ FutureInv'
          /\ ConnectInv'
      BY <2>a, <2>b, <2>2, FinishKeeps
    <3>1. TypeOK'
      <4>1. inbox' \in 0 .. MaxInbox /\ space' \in 0 .. MaxSpace
        BY <2>b, SocketsAssumption DEF TypeOK
      <4>2. at' \in [Direction -> {"none", "poll", "operate", "clear", "pending"}]
        BY <3>0 DEF TypeOK
      <4>3. task' \in [Direction -> Tasks \cup {NoTask}]
        BY <3>0 DEF TypeOK
      <4>4. QED  BY <2>a, <3>0, <4>1, <4>2, <4>3 DEF TypeOK
    <3>3. NewsInv'
      BY <2>a, <2>c, <3>0 DEF TypeOK, NewsInv
    <3>4. PendingInv'
      BY <2>a, <3>0 DEF TypeOK, PendingInv
    <3>5. ProgressInv'
      BY <2>a, <2>d DEF ProgressInv
    <3>7. ConnectTruthful'
      BY <2>a, <2>b, <2>d, <2>2 DEF Finish, ConnectTruthful, Dead, TypeOK
    <3>8. QED  BY <3>0, <3>1, <3>3, <3>4, <3>5, <3>7 DEF IInv
  <2>3. QED  BY <2>1, <2>2
<1>17. ASSUME NEW d \in Direction, ClearReady(d)
      PROVE  IInv'
  <2>0. /\ method[d].clear = d /\ at[d] = "clear" /\ reg = "ready"
    BY <1>17, FutureShapes DEF ClearReady, Shape, FutureInv
  <2>9. \A e \in Direction :
          /\ at'[e] # "clear" \/ (e # d /\ at[e] = "clear")
          /\ at'[e] = "operate" <=> at[e] = "operate"
          /\ at'[e] = "none" <=> at[e] = "none"
          /\ at'[e] = "pending" => e = d \/ at[e] = "pending"
    BY <1>17, <2>0 DEF ClearReady, WakeAll, TypeOK
  <2>1. TypeOK'
    BY <1>17, <2>0 DEF ClearReady, TypeOK, WakeAll, TakeReadiness, Ready
  <2>2. FutureInv'
    BY <1>17, <2>9 DEF ClearReady, TypeOK, FutureInv
  <2>3. NewsInv'
    <3> SUFFICES ASSUME alive, NEW e \in Direction, Able(e)
                 PROVE  \/ edge
                        \/ Own(e) \in event
                        \/ Own(e) \in word'
                        \/ e \in cache' /\ at'[e] # "clear"
      BY <1>17, AbleKernel DEF ClearReady, NewsInv
    <3>1. CASE e = d
      BY <1>17, <2>0, <2>9, <3>1 DEF ClearReady, TakeReadiness, NewsInv
    <3>2. CASE e # d
      BY <1>17, <2>0, <2>9, <3>2, OthersKept DEF ClearReady, TakeReadiness, NewsInv
    <3>3. QED  BY <3>1, <3>2
  <2>4. PendingInv'
    <3> SUFFICES ASSUME NEW e \in Direction, at'[e] = "pending"
                 PROVE  /\ alive /\ reg = "ready"
                        /\ waker'[e] = task[e]
                        /\ Own(e) \notin word'
                        /\ e \notin cache'
      BY <1>17 DEF ClearReady, PendingInv
    <3>1. CASE e = d
      <4>1. ~AnswersReady(d, cache \ {d})
        BY <1>17, <2>0, <3>1 DEF ClearReady, WakeAll, TypeOK
      <4>2. d \notin cache' /\ Own(d) \notin word'
        BY <1>17, <2>0, <4>1, OwnConsumed DEF ClearReady, TakeReadiness, AnswersReady
      <4>3. QED  BY <1>17, <2>0, <3>1, <4>1, <4>2 DEF ClearReady, TypeOK
    <3>2. CASE e # d
      <4>1. at[e] = "pending"
        BY <2>9, <3>2
      <4>2. QED
        BY <1>17, <2>0, <3>2, <4>1
        DEF ClearReady, TakeReadiness, PendingInv, TypeOK
    <3>3. QED  BY <3>1, <3>2
  <2>5. ProgressInv'
    BY <1>17, <2>0, <2>9 DEF ClearReady, TypeOK, ProgressInv, TakeReadiness
  <2>6. ConnectInv'
    BY <1>17, <2>9 DEF ClearReady, TypeOK, ConnectInv
  <2>7. ConnectTruthful'
    BY <1>17 DEF ClearReady, ConnectTruthful, ConnectInv, Dead
  <2>8. QED  BY <2>1, <2>2, <2>3, <2>4, <2>5, <2>6, <2>7 DEF IInv
<1>18. CASE UNCHANGED vars
  <2>1. TypeOK' /\ FutureInv' /\ PendingInv'
    BY <1>18 DEF vars, TypeOK, FutureInv, PendingInv
  <2>2. NewsInv'
    BY <1>18, AbleKernel DEF vars, NewsInv
  <2>3. ProgressInv' /\ ConnectInv' /\ ConnectTruthful'
    BY <1>18 DEF vars, ProgressInv, ConnectInv, ConnectTruthful, Dead
  <2>4. QED  BY <2>1, <2>2, <2>3 DEF IInv
<1>19. QED
  BY <1>1, <1>2, <1>3, <1>4, <1>5, <1>6, <1>7, <1>8, <1>9, <1>10, <1>11, <1>12, <1>13,
     <1>14, <1>15, <1>16, <1>17, <1>18
  DEF Next, KernelStep, ReactorStep, PollStep

\* The invariant always holds.
THEOREM InvHolds == Spec => []IInv
<1>1. QED
  BY InitInv, NextInv, PTL DEF Spec

\* The variables keep their types; a socket that is no ConnectFuture holds no
\* state of one.
THEOREM TypeCorrect == Spec => []TypeOK
<1>1. IInv => TypeOK
  BY DEF IInv
<1>2. QED
  BY <1>1, InvHolds, PTL

\* A future that waits, and could get somewhere, has its wakeup coming.
LEMMA NoStrandedFromInv == IInv => NoStranded
  BY OwnTaken DEF IInv, NewsInv, PendingInv, NoStranded

\* Whatever the type of the socket and the method, no future that waits is left
\* without a wakeup.
THEOREM FuturesNotStranded == Spec => []NoStranded
  BY NoStrandedFromInv, InvHolds, PTL

\* connect tells the truth.
THEOREM ConnectSound == Spec => []ConnectTruthful
<1>1. IInv => ConnectTruthful
  BY DEF IInv
<1>2. QED
  BY <1>1, InvHolds, PTL

\* A ConnectFuture is never polled without its stream.
THEOREM ConnectPollable == Spec => []StillPollable
<1>1. IInv => StillPollable
  <2>1. ASSUME IInv, NEW d \in Direction, at[d] \in {"poll", "pending"}, kind \in Connects
        PROVE  state # "Empty"
    <3>1. \A e \in Direction : at[e] # "none" => e = "Write"
      BY <2>1, FutureShapes DEF IInv
    <3>2. QED  BY <2>1, <3>1 DEF IInv, ConnectInv
  <2>2. QED  BY <2>1 DEF StillPollable
<1>2. QED
  BY <1>1, InvHolds, PTL
-----------------------------------------------------------------------------
(* The refinement of NotifySpec. *)

\* A step after which the same futures wait, with the wakeups that were on their
\* way still on it, is one in which the socket changes or a wakeup sets out.
LEMMA NoticeStep ==
  ASSUME NoStranded', UNCHANGED alive,
         \A d \in Direction :
           /\ at'[d] = "pending" <=> at[d] = "pending"
           /\ at[d] = "pending" /\ OnItsWay(d) => OnItsWay(d)'
  PROVE  Notify!Notice
<1>1. \A d \in Direction : at'[d] = "pending" /\ Able(d)' => OnItsWay(d)'
  BY DEF NoStranded, OnItsWay
<1>2. QED  BY <1>1 DEF Notify!Notice

\* A step that only ends the wait of some futures.
LEMMA LeaveStep ==
  ASSUME NEW ds \in SUBSET Direction, UNCHANGED <<kernelVars, alive>>,
         \A d \in Direction :
           /\ at'[d] = "pending" <=> at[d] = "pending" /\ d \notin ds
           /\ at'[d] = "pending" => (OnItsWay(d)' <=> OnItsWay(d))
  PROVE  Notify!Leave(ds)
  BY AbleKernel DEF Notify!Leave

\* A poll that returns Pending.
LEMMA PendStep ==
  ASSUME NoStranded', NEW d \in Direction, alive, UNCHANGED <<kernelVars, alive, edge, event>>,
         at[d] # "pending",
         \A e \in Direction : at'[e] = "pending" <=> at[e] = "pending" \/ e = d
  PROVE  Notify!Pend(d)
<1>1. \A e \in Direction : (Able(e)' <=> Able(e)) /\ (OnItsWay(e)' <=> OnItsWay(e))
  BY AbleKernel DEF OnItsWay
<1>2. Able(d) => OnItsWay(d)
  BY <1>1 DEF NoStranded, OnItsWay
<1>3. QED  BY <1>1, <1>2 DEF Notify!Pend

\* Every step of a socket is a step of the promise, or none.
LEMMA Simulation ==
  ASSUME IInv, IInv', [Next]_vars
  PROVE  [Notify!Next]_(Notify!vars)
<1>0. NoStranded' /\ TypeOK /\ FutureInv /\ PendingInv
  BY NoStrandedFromInv, PTL DEF IInv
<1> USE DEF Goto, kernelVars, connectVars, futureVars
<1>1. ASSUME KernelStep
      PROVE  Notify!Notice
  <2>1. UNCHANGED <<alive, reg, at, event>> /\ edge' = (reg = "ready")
    BY <1>1 DEF KernelStep, Arrive, MakeRoom, ConnectEnds, PeerCloses, Signal
  <2>2. \A d \in Direction : Able(d) => Able(d)'
    <3>1. /\ inbox > 0 => inbox' > 0
          /\ space > 0 => space' > 0
          /\ HungUp => HungUp'
          /\ Dead => Dead'
      BY <1>0, <1>1, SocketsAssumption
      DEF KernelStep, Arrive, MakeRoom, ConnectEnds, PeerCloses, TypeOK, HungUp, Dead
    <3>2. Level \subseteq Level'
      BY <3>1 DEF Level
    <3>3. QED  BY <3>2 DEF Able
  <2>3. \A d \in Direction : at[d] = "pending" /\ OnItsWay(d) => OnItsWay(d)'
    BY <1>0, <2>1, <2>2 DEF PendingInv, OnItsWay
  <2>4. QED  BY <1>0, <2>1, <2>3, NoticeStep
<1>2. ASSUME ReactorPoll
      PROVE  Notify!Notice
  <2>1. \A d \in Direction : OnItsWay(d) => OnItsWay(d)'
    BY <1>2, OwnTaken DEF ReactorPoll, OnItsWay, Able, DispatchTakes
  <2>2. QED  BY <1>0, <1>2, <2>1, NoticeStep DEF ReactorPoll
<1>3. CASE Dispatch
  <2>0. PICK woken \in SUBSET Direction :
          woken = {d \in Direction : task[d] \in {waker[e] : e \in DispatchTakes(event)}}
    OBVIOUS
  <2>1. \A d \in Direction : at'[d] = "pending" <=> at[d] = "pending" /\ d \notin woken
    BY <1>3, <2>0 DEF Dispatch, WakeAll
  <2>2. ASSUME NEW d \in Direction, at'[d] = "pending"
        PROVE  OnItsWay(d)' <=> OnItsWay(d)
    <3>1. d \notin DispatchTakes(event)
      BY <1>0, <2>0, <2>1, <2>2 DEF PendingInv
    <3>2. QED  BY <1>3, <3>1, AbleKernel DEF Dispatch, OnItsWay, DispatchTakes
  <2>3. Notify!Leave(woken)
    BY <1>3, <2>1, <2>2, LeaveStep DEF Dispatch
  <2>4. QED  BY <2>3 DEF Notify!Next
<1>4. CASE DropReactor
  <2>1. \A d \in Direction : at'[d] # "pending"
    BY <1>0, <1>4 DEF DropReactor, WakeAll, PendingInv
  <2>2. QED  BY <1>4, <2>1, AbleKernel DEF DropReactor, Notify!End, Notify!Next
<1>5. ASSUME NEW d \in Direction, Cancel(d) \/ (\E t \in Tasks : Repoll(d, t))
      PROVE  Notify!Leave({d})
  <2>1. UNCHANGED <<kernelVars, alive, edge, event>>
    BY <1>5 DEF Cancel, Repoll
  <2>2. \A e \in Direction : at'[e] = "pending" <=> at[e] = "pending" /\ e \notin {d}
    BY <1>0, <1>5 DEF Cancel, Repoll, TypeOK
  <2>3. QED  BY <2>1, <2>2, LeaveStep, AbleKernel DEF OnItsWay
<1>6. ASSUME NEW d \in Direction,
             \/ PollError(d) \/ RegisterFails(d) \/ ReadyFails(d)
             \/ \E t \in Tasks, m \in Methods[kind] : Create(d, t, m)
      PROVE  Notify!Leave({})
  <2>1. UNCHANGED <<kernelVars, alive, edge, event>>
    BY <1>6 DEF PollError, RegisterFails, ReadyFails, Create
  <2>2. \A e \in Direction : at'[e] = "pending" <=> at[e] = "pending" /\ e \notin {}
    BY <1>0, <1>6 DEF PollError, RegisterFails, ReadyFails, Create, Finish, Polling, TypeOK
  <2>3. QED  BY <2>1, <2>2, LeaveStep, AbleKernel DEF OnItsWay
<1>7. ASSUME NEW d \in Direction, Register(d)
      PROVE  Notify!Leave({})
  <2>1. \A e \in Direction : at[e] # "pending" /\ at'[e] # "pending"
    BY <1>0, <1>7 DEF Register, PendingInv
  <2>2. QED  BY <1>7, <2>1, LeaveStep DEF Register
<1>8. ASSUME NEW d \in Direction, PollReady(d)
      PROVE  Notify!Leave({}) \/ Notify!Pend(d)
  <2>1. UNCHANGED <<kernelVars, alive, edge, event>> /\ alive /\ at[d] = "poll"
    BY <1>8 DEF PollReady, Polling
  <2>2. CASE AnswersReady(d, cache)
    <3>1. \A e \in Direction : at'[e] = "pending" <=> at[e] = "pending" /\ e \notin {}
      BY <1>0, <1>8, <2>1, <2>2 DEF PollReady, TypeOK
    <3>2. QED  BY <2>1, <3>1, LeaveStep, AbleKernel DEF OnItsWay
  <2>3. CASE ~AnswersReady(d, cache)
    <3>1. \A e \in Direction : at'[e] = "pending" <=> at[e] = "pending" \/ e = d
      BY <1>0, <1>8, <2>3 DEF PollReady, TypeOK
    <3>2. QED  BY <1>0, <2>1, <3>1, PendStep
  <2>4. QED  BY <2>2, <2>3
<1>9. ASSUME NEW d \in Direction, Operate(d)
      PROVE  Notify!Notice
  <2>1. PICK r \in Results(method[d].call) :
          /\ inbox' = r.inbox
          /\ space' = r.space
          /\ IF r.res \in method[d].blocks
               THEN Goto(d, "clear") /\ UNCHANGED <<task, method, connectVars>>
               ELSE Finish(d, r.res)
    BY <1>9 DEF Operate
  <2>2. at[d] = "operate" /\ UNCHANGED <<conn, edge, event, alive>>
    BY <1>9 DEF Operate
  <2>3. IF d = "Read" THEN space' = space ELSE inbox' = inbox
    BY <1>0, <2>1, <2>2, FutureShapes, ResultsOf
  <2>4. \A e \in Direction : e # d /\ Able(e) => Able(e)'
    BY <2>2, <2>3, AbleMeans DEF Able, Level, Own, HungUp, Dead, Direction
  <2>5. \A e \in Direction : (at'[e] = "pending" <=> at[e] = "pending")
                             /\ (at[e] = "pending" => e # d)
    BY <1>0, <2>1, <2>2 DEF Finish, TypeOK
  <2>6. QED  BY <1>0, <2>2, <2>4, <2>5, NoticeStep DEF OnItsWay
<1>10. ASSUME NEW d \in Direction, ClearReady(d)
       PROVE  [Notify!Next]_(Notify!vars)
  <2>1. /\ UNCHANGED <<kernelVars, alive, edge, event>>
        /\ alive /\ at[d] = "clear" /\ method[d].clear = d
    BY <1>0, <1>10, FutureShapes DEF ClearReady, Shape
  <2>2. CASE AnswersReady(d, cache \ {d})
    <3>0. PICK woken \in SUBSET Direction : woken = {e \in Direction : task[e] = task[d]}
      OBVIOUS
    <3>1. \A e \in Direction : at'[e] = "pending" <=> at[e] = "pending" /\ e \notin woken
      BY <1>0, <1>10, <2>1, <2>2, <3>0 DEF ClearReady, WakeAll, TypeOK
    <3>2. Notify!Leave(woken)
      BY <2>1, <3>1, LeaveStep, AbleKernel DEF OnItsWay
    <3>3. QED  BY <3>2 DEF Notify!Next
  <2>3. CASE ~AnswersReady(d, cache \ {d})
    <3>1. \A e \in Direction : at'[e] = "pending" <=> at[e] = "pending" \/ e = d
      BY <1>0, <1>10, <2>1, <2>3 DEF ClearReady, TypeOK
    <3>2. Notify!Pend(d)
      BY <1>0, <2>1, <3>1, PendStep
    <3>3. QED  BY <3>2 DEF Notify!Next
  <2>4. QED  BY <2>2, <2>3
<1>11. CASE UNCHANGED vars
  BY <1>11, AbleKernel DEF vars, Notify!vars, OnItsWay
<1>12. QED
  BY <1>1, <1>2, <1>3, <1>4, <1>5, <1>6, <1>7, <1>8, <1>9, <1>10, <1>11
  DEF Next, ReactorStep, PollStep, Notify!Next

\* A socket of any type implements the promise of NotifySpec for its futures:
\* methods that share a direction, futures that are cancelled or move to another
\* task, and wakeups that one future gives its task do not take back the wakeup
\* of another.
THEOREM Implementation == Spec => ImplementsNotify
<1>1. Init => Notify!Init
  BY DEF Init, Notify!Init, Direction
<1>2. IInv /\ IInv' /\ [Next]_vars => [Notify!Next]_(Notify!vars)
  BY Simulation
<1>3. QED  BY <1>1, <1>2, InvHolds, PTL DEF Spec, ImplementsNotify, Notify!Spec
=============================================================================
