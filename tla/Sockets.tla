------------------------------ MODULE Sockets ------------------------------
(***************************************************************************)
(* A socket of any type, as its users see it: futures that are created,    *)
(* polled, cancelled and handed from task to task, one for each direction, *)
(* over a kernel and a reactor that act between the steps of a poll.       *)
(* Registration::poll_ready and Reactor::dispatch, which PollEvented takes *)
(* apart, are one step each.                                               *)
(***************************************************************************)
EXTENDS Integers, Readiness, SocketTypes

CONSTANTS
  Tasks,      \* of the executor
  NoTask,     \* an AtomicWaker without a waker
  MaxInbox,   \* bound: connections, datagrams or bytes that wait to be taken
  MaxSpace    \* bound: room for what is sent

ASSUME SocketsAssumption ==
  NoTask \notin Tasks /\ MaxInbox \in Nat \ {0} /\ MaxSpace \in Nat \ {0}

VARIABLES
  kind,      \* the type of the socket; a ConnectFuture becomes a stream
  conn,      \* kernel: "progress" | "up" | "refused" | "closed": the peer sends no
             \* more | "reset" by the peer
  inbox,     \* kernel: what waits to be taken
  space,     \* kernel: room for what is sent
  edge,      \* kernel: the descriptor is on epoll's ready list
  event,     \* reactor thread: the event it has fetched, {} for none
  alive,     \* the reactor exists
  reg,       \* Registration: "init" | "ready" | "error", an ERROR token
  word,      \* ScheduledIo.readiness
  waker,     \* ScheduledIo.reader and writer: the task of the waker
  cache,     \* PollEvented: the directions whose own bit is cached
  at,        \* futures, by direction: "none" | "poll" | "operate" | "clear" | "pending"
  task,      \* futures: the task that polls it
  method,    \* futures: what its poll calls
  state,     \* ConnectFuture: "Waiting" | "Error" | "Empty"
  outcome    \* of connecting: "none" yet | "ok": there is a connected stream | "err" and
             \* "dropped": of a ConnectFuture

kernelVars  == <<conn, inbox, space>>
connectVars == <<kind, state, outcome>>
futureVars  == <<at, task, method>>
vars == <<kernelVars, edge, event, alive, reg, word, waker, cache, futureVars, connectVars>>

TypeOK ==
  /\ kind \in Kinds
  /\ conn \in {"progress", "up", "refused", "closed", "reset"}
  /\ inbox \in 0 .. MaxInbox
  /\ space \in 0 .. MaxSpace
  /\ edge \in BOOLEAN
  /\ event \in Ready
  /\ alive \in BOOLEAN
  /\ reg \in {"init", "ready", "error"}
  /\ word \in Ready
  /\ waker \in [Direction -> Tasks \cup {NoTask}]
  /\ cache \subseteq Direction
  /\ at \in [Direction -> {"none", "poll", "operate", "clear", "pending"}]
  /\ task \in [Direction -> Tasks \cup {NoTask}]
  /\ \A d \in Direction : at[d] # "none" => task[d] \in Tasks /\ method[d] \in Methods[kind]
  /\ state \in {"Waiting", "Error", "Empty"}
  /\ kind \notin Connects => state = "Empty"
  /\ outcome \in {"none", "ok", "err", "dropped"}

\* TcpStream::connect: the connection is on its way, or failed at once.
TcpConnectNew == {<<"Waiting", "progress">>, <<"Error", "refused">>}

\* UnixStream::connect: made at once, or not at all.
UnixConnectNew == {<<"Waiting", "up">>, <<"Error", "refused">>}

\* A TcpStream: from a std stream, which is connected, or from an address, when the
\* connection is on its way.
TcpStreamNew == {<<"Empty", "up">>, <<"Empty", "progress">>}

\* What method says of a direction without a future.
NoMethod == Method("Read", "nothing", {})

\* PollEvented::new; nothing is registered.
Init ==
  /\ kind \in Kinds
  /\ \E new \in CASE kind = "TcpConnect"  -> TcpConnectNew
                  [] kind = "UnixConnect" -> UnixConnectNew
                  [] kind = "TcpStream"   -> TcpStreamNew
                  [] OTHER                -> {<<"Empty", "up">>} :
       state = new[1] /\ conn = new[2]
  /\ inbox = 0
  /\ space = IF conn = "up" THEN MaxSpace ELSE 0
  /\ edge = FALSE
  /\ event = {}
  /\ alive = TRUE
  /\ reg = "init"
  /\ word = {}
  /\ waker = [d \in Direction |-> NoTask]
  /\ cache = {}
  /\ at = [d \in Direction |-> "none"]
  /\ task = [d \in Direction |-> NoTask]
  /\ method = [d \in Direction |-> NoMethod]
  /\ outcome = IF kind \in Streams /\ conn = "up" THEN "ok" ELSE "none"
-----------------------------------------------------------------------------
(* The kernel. *)

Dead   == conn \in {"refused", "reset"}
HungUp == Dead \/ conn = "closed"

\* What poll(2) reports: a dead socket is ready for everything.
Level ==
  (IF inbox > 0 \/ HungUp THEN {"readable"} ELSE {})
    \cup (IF space > 0 \/ Dead THEN {"writable"} ELSE {})
    \cup (IF HungUp THEN Hup ELSE {})

\* Every change is an edge for a descriptor that is registered.
Signal == edge' = (reg = "ready")

Arrive ==
  /\ conn = "up"
  /\ inbox < MaxInbox
  /\ inbox' = inbox + 1
  /\ Signal
  /\ UNCHANGED <<conn, space, event, alive, reg, word, waker, cache, futureVars, connectVars>>

MakeRoom ==
  /\ conn \in {"up", "closed"}
  /\ space < MaxSpace
  /\ space' = space + 1
  /\ Signal
  /\ UNCHANGED <<conn, inbox, event, alive, reg, word, waker, cache, futureVars, connectVars>>

\* The connection is established or refused.  A stream made from an address is
\* connected then, without a future that says so.
ConnectEnds ==
  /\ conn = "progress"
  /\ conn' \in {"up", "refused"}
  /\ space' = IF conn' = "up" THEN MaxSpace ELSE space
  /\ outcome' = IF kind \in Streams /\ conn' = "up" THEN "ok" ELSE outcome
  /\ Signal
  /\ UNCHANGED <<inbox, event, alive, reg, word, waker, cache, futureVars, kind, state>>

PeerCloses ==
  /\ kind \in Streams \cup Connects
  /\ \/ conn = "up" /\ conn' = "closed"
     \/ conn \in {"up", "closed"} /\ conn' = "reset"
  /\ Signal
  /\ UNCHANGED <<inbox, space, event, alive, reg, word, waker, cache, futureVars, connectVars>>

\* The results of a call on the inner socket, with what it leaves to take and to
\* fill.  Any call may fail.
Result(r, i, s) == [res |-> r, inbox |-> i, space |-> s]

Takes(blocked) ==
  IF inbox > 0 THEN {Result("ok", inbox - 1, space)}
               ELSE {Result(IF HungUp THEN "ok" ELSE blocked, inbox, space)}

Sends ==
  CASE Dead                -> {}
    [] ~Dead /\ space > 0  -> {Result("ok", inbox, space - 1)}
    [] ~Dead /\ space = 0  -> {Result("wouldblock", inbox, space)}

\* A listener's poll_ready: the accepted connection may fail from_stream.
Accepts(blocked) ==
  Takes(blocked) \cup (IF inbox > 0 THEN {Result("err", inbox - 1, space)} ELSE {})

\* SO_ERROR, which the kernel does not refuse for a socket that is open.
TakeError ==
  {Result(r, inbox, space) : r \in CASE conn = "refused" -> {"err"}
                                     [] conn = "reset"   -> {"ok", "err"}
                                     [] OTHER            -> {"ok"}}

Results(call) ==
  LET failed == {Result("err", inbox, space)}
  IN  CASE call = "nothing"                -> {Result("ok", inbox, space)}
        [] call = "flush"                  -> {Result("ok", inbox, space)}
        [] call \in {"read", "recv_from"}  -> Takes("wouldblock") \cup failed
        [] call \in {"write", "send_to"}   -> Sends \cup failed
        [] call = "accept" ->
             Accepts(IF kind = "UnixListener" THEN "none" ELSE "wouldblock") \cup failed
        [] call = "take_error"             -> TakeError

\* The call of a future that waits for direction d would get somewhere.
Able(d) == Own(d) \in Level
-----------------------------------------------------------------------------
(* The reactor thread. *)

\* The futures of the tasks ts are polled again.
WakeAll(ts) ==
  [d \in Direction |-> IF at[d] = "pending" /\ task[d] \in ts THEN "poll" ELSE at[d]]

ReactorPoll ==
  /\ alive
  /\ edge
  /\ event = {}
  /\ Level # {}
  /\ event' = Level
  /\ edge' = FALSE
  /\ UNCHANGED <<kernelVars, alive, reg, word, waker, cache, futureVars, connectVars>>

Dispatch ==
  /\ alive
  /\ event # {}
  /\ event' = {}
  /\ word' = word \cup event
  /\ at' = WakeAll({waker[d] : d \in DispatchTakes(event)})
  /\ waker' = [d \in Direction |-> IF d \in DispatchTakes(event) THEN NoTask ELSE waker[d]]
  /\ UNCHANGED <<kernelVars, edge, alive, reg, cache, task, method, connectVars>>

\* The reactor goes away, and reactor::Inner::drop wakes whoever waits.
DropReactor ==
  /\ alive
  /\ alive' = FALSE
  /\ at' = WakeAll({waker[d] : d \in Direction})
  /\ waker' = [d \in Direction |-> NoTask]
  /\ event' = {}
  /\ UNCHANGED <<kernelVars, edge, reg, word, cache, task, method, connectVars>>
-----------------------------------------------------------------------------
(* The futures. *)

Goto(d, l) == at' = [at EXCEPT ![d] = l]

\* A task calls a method, or makes the future that does.
Create(d, t, m) ==
  /\ at[d] = "none"
  /\ m.wait = d
  /\ outcome = "none" \/ kind \notin Connects
  /\ task' = [task EXCEPT ![d] = t]
  /\ method' = [method EXCEPT ![d] = m]
  /\ Goto(d, "poll")
  /\ UNCHANGED <<kernelVars, edge, event, alive, reg, word, waker, cache, connectVars>>

\* A future that is not finished is dropped; what it registered stays.
Cancel(d) ==
  /\ at[d] \in {"poll", "pending"}
  /\ Goto(d, "none")
  /\ task' = [task EXCEPT ![d] = NoTask]
  /\ method' = [method EXCEPT ![d] = NoMethod]
  /\ outcome' = IF kind \in Connects THEN "dropped" ELSE outcome
  /\ UNCHANGED <<kernelVars, edge, event, alive, reg, word, waker, cache, kind, state>>

\* The future is polled although nothing woke its task, or goes to another task,
\* which polls it.
Repoll(d, t) ==
  /\ at[d] = "pending"
  /\ task' = [task EXCEPT ![d] = t]
  /\ Goto(d, "poll")
  /\ UNCHANGED <<kernelVars, edge, event, alive, reg, word, waker, cache, method, connectVars>>

\* Fault: the stream stays in the future that has handed it out.
UnixConnectDoneKeeps(res) == state

\* What the end of a poll leaves of a ConnectFuture: the TCP one has taken its
\* state out when it began, the Unix one takes it out when it succeeds.
TcpConnectDone(res)  == "Empty"
UnixConnectDone(res) == IF res = "ok" \/ state = "Error" THEN "Empty" ELSE state

\* The poll returns Ready: the future is finished.
Finish(d, res) ==
  /\ Goto(d, "none")
  /\ task' = [task EXCEPT ![d] = NoTask]
  /\ method' = [method EXCEPT ![d] = NoMethod]
  /\ outcome' = IF kind \in Connects THEN res ELSE outcome
  /\ state' = CASE kind = "TcpConnect"  -> TcpConnectDone(res)
                [] kind = "UnixConnect" -> UnixConnectDone(res)
                [] OTHER                -> state
  /\ kind' = CASE kind = "TcpConnect" /\ res = "ok"  -> "TcpStream"
               [] kind = "UnixConnect" /\ res = "ok" -> "UnixStream"
               [] OTHER                              -> kind

\* connect had failed: the error is handed out.
PollError(d) ==
  /\ at[d] = "poll"
  /\ kind \in Connects
  /\ state = "Error"
  /\ Finish(d, "err")
  /\ UNCHANGED <<kernelVars, edge, event, alive, reg, word, waker, cache>>

\* poll begins: a ConnectFuture without a stream panics.
Polling(d) ==
  /\ at[d] = "poll"
  /\ kind \in Connects => state = "Waiting"

\* PollEvented::register: the first poll registers the socket.  epoll reports
\* what is ready by then.
Register(d) ==
  /\ Polling(d)
  /\ reg = "init"
  /\ alive
  /\ reg' = "ready"
  /\ edge' = (Level # {})
  /\ UNCHANGED <<kernelVars, event, alive, word, waker, cache, futureVars, connectVars>>

\* There is no reactor to be had, or it does not take the socket.
RegisterFails(d) ==
  /\ Polling(d)
  /\ reg = "init"
  /\ reg' \in {"error"} \cup (IF alive THEN {"init"} ELSE {})
  /\ Finish(d, "err")
  /\ UNCHANGED <<kernelVars, edge, event, alive, word, waker, cache>>

\* poll_read_ready and poll_write_ready fail for want of a reactor.
ReadyFails(d) ==
  /\ Polling(d) \/ at[d] = "clear"
  /\ reg = "error" \/ (reg = "ready" /\ ~alive)
  /\ Finish(d, "err")
  /\ cache' = IF at[d] = "clear" THEN cache \ {method[d].clear} ELSE cache
  /\ UNCHANGED <<kernelVars, edge, event, alive, reg, word, waker>>

\* They answer Ready: the bit is cached, or the registration has news.
AnswersReady(d, cached) == d \in cached \/ word \cap PollMask(d) # {}

\* They consume the readiness of their direction.
TakeReadiness(d, cached) ==
  /\ word' = word \ MaskNoHup(d)
  /\ cache' = IF Own(d) \in word THEN cached \cup {d} ELSE cached

\* Fault: a ConnectFuture that has to wait loses its stream.
PutBackForgotten(pending) == IF kind = "TcpConnect" THEN "Empty" ELSE state

\* The TCP ConnectFuture puts its state back when it has to wait.
PutBack(pending) ==
  IF kind = "TcpConnect" THEN (IF pending THEN "Waiting" ELSE "Empty") ELSE state

PollReady(d) ==
  LET ready == AnswersReady(d, cache)
  IN
  /\ Polling(d)
  /\ reg = "ready"
  /\ alive
  /\ TakeReadiness(d, cache)
  /\ waker' = IF ready THEN waker ELSE [waker EXCEPT ![d] = task[d]]
  /\ Goto(d, IF ready THEN "operate" ELSE "pending")
  /\ state' = PutBack(~ready)
  /\ UNCHANGED <<kernelVars, edge, event, alive, reg, task, method, kind, outcome>>

\* The call is made; what it returns is handed out unless it stands for "not
\* now".
Operate(d) ==
  /\ at[d] = "operate"
  /\ \E r \in Results(method[d].call) :
       /\ inbox' = r.inbox
       /\ space' = r.space
       /\ IF r.res \in method[d].blocks
            THEN Goto(d, "clear") /\ UNCHANGED <<task, method, connectVars>>
            ELSE Finish(d, r.res)
  /\ UNCHANGED <<conn, edge, event, alive, reg, word, waker, cache>>

\* Fault: the bit stays in the cache.
ClearReadyKeepsBit(d) ==
  LET e     == method[d].clear
      ready == AnswersReady(e, cache)
  IN
  /\ at[d] = "clear"
  /\ alive
  /\ TakeReadiness(e, cache)
  /\ waker' = IF ready THEN waker ELSE [waker EXCEPT ![e] = task[d]]
  /\ at' = IF ready THEN [WakeAll({task[d]}) EXCEPT ![d] = "poll"]
                    ELSE [at EXCEPT ![d] = "pending"]
  /\ UNCHANGED <<kernelVars, edge, event, alive, reg, task, method, connectVars>>

\* clear_read_ready, clear_write_ready: the poll returns Pending, and wakes its
\* own task if there was news meanwhile.
ClearReady(d) ==
  LET e     == method[d].clear
      ready == AnswersReady(e, cache \ {e})
  IN
  /\ at[d] = "clear"
  /\ alive
  /\ TakeReadiness(e, cache \ {e})
  /\ waker' = IF ready THEN waker ELSE [waker EXCEPT ![e] = task[d]]
  /\ at' = IF ready THEN [WakeAll({task[d]}) EXCEPT ![d] = "poll"]
                    ELSE [at EXCEPT ![d] = "pending"]
  /\ UNCHANGED <<kernelVars, edge, event, alive, reg, task, method, connectVars>>
-----------------------------------------------------------------------------
KernelStep == Arrive \/ MakeRoom \/ ConnectEnds \/ PeerCloses

ReactorStep == ReactorPoll \/ Dispatch

PollStep(d) ==
  \/ PollError(d)
  \/ Register(d)
  \/ RegisterFails(d)
  \/ ReadyFails(d)
  \/ PollReady(d)
  \/ Operate(d)
  \/ ClearReady(d)

Next ==
  \/ KernelStep
  \/ ReactorStep
  \/ DropReactor
  \/ \E d \in Direction :
       \/ PollStep(d)
       \/ Cancel(d)
       \/ \E t \in Tasks : Repoll(d, t) \/ \E m \in Methods[kind] : Create(d, t, m)

Spec == Init /\ [][Next]_vars

\* Threads keep running, executors poll the tasks that were woken, and the kernel
\* ends the attempt to connect.
FairSpec ==
  /\ Spec
  /\ WF_vars(ReactorStep)
  /\ WF_vars(ConnectEnds)
  /\ \A d \in Direction : WF_vars(PollStep(d))
-----------------------------------------------------------------------------
(* Correctness. *)

\* Whatever the type of the socket and the method, and though futures that used
\* the direction before were cancelled or went to other tasks: a future that
\* returned Pending has its own task's waker registered with a reactor that
\* exists, and if its call would get somewhere the event is on its way.
NoStranded ==
  \A d \in Direction :
    at[d] = "pending" =>
      /\ alive /\ reg = "ready"
      /\ waker[d] = task[d]
      /\ Able(d) => edge \/ d \in DispatchTakes(event)

\* The wakeup of the future that waits for d is on its way.
OnItsWay(d) == (edge /\ Able(d)) \/ d \in DispatchTakes(event)

\* For its futures, of any type, on any task and cancelled at will, a socket
\* keeps the promise that PollEvented keeps for its two tasks.
Notify == INSTANCE NotifySpec WITH
  able    <- {d \in Direction : Able(d)},
  waiting <- {d \in Direction : at[d] = "pending"},
  due     <- {d \in Direction : at[d] = "pending" /\ OnItsWay(d)},
  life    <- IF alive THEN "running" ELSE "ended"

ImplementsNotify == Notify!Spec

\* connect succeeds only when the connection was made, and fails only when it
\* was not or could not be waited for.
ConnectTruthful ==
  /\ outcome = "ok" => conn \in {"up", "closed", "reset"}
  /\ outcome = "err" => Dead \/ reg # "ready" \/ ~alive

\* A ConnectFuture that an executor may still poll has not lost its stream: it
\* does not panic with "can't poll stream twice".
StillPollable ==
  \A d \in Direction : at[d] \in {"poll", "pending"} /\ kind \in Connects => state # "Empty"

\* No ConnectFuture is waited for for ever: the connection succeeds or fails, or
\* the future is dropped.
ConnectResolves == []<>(kind \in Connects => \A d \in Direction : at[d] = "none")

\* A poll comes to rest: stale readiness, a hang-up and the wakeups a future
\* gives itself do not keep its task busy for ever.  The exception is a writer
\* whose peer sends no more: HUP, which is never cleared, makes each
\* clear_write_ready wake it again until there is room.
Settles ==
  /\ []<>(at["Read"] \in {"pending", "none"})
  /\ []<>(at["Write"] \in {"pending", "none"} \/ (conn = "closed" /\ space = 0))
=============================================================================
