---------------------------- MODULE SocketTypes ----------------------------
(***************************************************************************)
(* The asynchronous methods of the socket types.  All have one shape: wait *)
(* for the readiness of a direction, make one non-blocking call, and, if   *)
(* it could not be served, clear the readiness and return Pending.         *)
(***************************************************************************)

\* wait: the direction whose readiness is polled first; call: the call on the
\* inner socket; blocks: the results that stand for "not now"; clear: the
\* direction that is cleared then.
Method(d, c, b) == [wait |-> d, call |-> c, blocks |-> b, clear |-> d]

\* PollEvented's is_wouldblock.
WouldBlock == {"wouldblock"}

\* AsyncReadReady and AsyncWriteReady pass on the readiness itself.
ReadReady  == Method("Read", "nothing", {})
WriteReady == Method("Write", "nothing", {})

\* AsyncRead and AsyncWrite of PollEvented; poll_close does nothing.
PollEventedIo ==
  [poll_read  |-> Method("Read", "read", WouldBlock),
   poll_write |-> Method("Write", "write", WouldBlock),
   poll_flush |-> Method("Write", "flush", WouldBlock)]

TcpStream ==
  [poll_read        |-> PollEventedIo.poll_read,
   poll_write       |-> PollEventedIo.poll_write,
   poll_flush       |-> PollEventedIo.poll_flush,
   poll_read_ready  |-> ReadReady,
   poll_write_ready |-> WriteReady]

UnixStream ==
  [poll_read        |-> PollEventedIo.poll_read,
   poll_write       |-> PollEventedIo.poll_write,
   poll_flush       |-> PollEventedIo.poll_flush,
   poll_read_ready  |-> ReadReady,
   poll_write_ready |-> WriteReady]

\* Fault: the future waits for the reading side.
TcpConnectReads == [poll |-> Method("Read", "take_error", {})]

\* Fault: it takes a stream that is writable for one that is connected.
TcpConnectUnchecked == [poll |-> Method("Write", "nothing", {})]

\* The two ConnectFutures wait for the stream to be writable, then ask for its
\* error.
TcpConnect == [poll |-> Method("Write", "take_error", {})]

UnixConnect == [poll |-> Method("Write", "take_error", {})]

TcpListener == [poll_accept_std |-> Method("Read", "accept", WouldBlock)]

\* accept_std of mio-uds says None for WouldBlock.
UnixListener == [poll_accept_std |-> Method("Read", "accept", WouldBlock \cup {"none"})]

\* Incoming::poll_next of either listener.
TcpIncoming  == [poll_next |-> TcpListener.poll_accept_std]
UnixIncoming == [poll_next |-> UnixListener.poll_accept_std]

UdpSocket ==
  [poll_send_to     |-> Method("Write", "send_to", WouldBlock),
   poll_recv_from   |-> Method("Read", "recv_from", WouldBlock),
   poll_read_ready  |-> ReadReady,
   poll_write_ready |-> WriteReady]

\* Fault: the wrong direction is cleared.
UnixDatagramClearsWrite ==
  [poll_send_to     |-> Method("Write", "send_to", WouldBlock),
   poll_recv_from   |-> [Method("Read", "recv_from", WouldBlock) EXCEPT !.clear = "Write"],
   poll_read_ready  |-> ReadReady,
   poll_write_ready |-> WriteReady]

UnixDatagram ==
  [poll_send_to     |-> Method("Write", "send_to", WouldBlock),
   poll_recv_from   |-> Method("Read", "recv_from", WouldBlock),
   poll_read_ready  |-> ReadReady,
   poll_write_ready |-> WriteReady]

\* The futures SendTo and RecvFrom of either datagram socket.
UdpFutures ==
  [SendTo |-> UdpSocket.poll_send_to, RecvFrom |-> UdpSocket.poll_recv_from]
UnixFutures ==
  [SendTo |-> UnixDatagram.poll_send_to, RecvFrom |-> UnixDatagram.poll_recv_from]

Listed(f) == {f[x] : x \in DOMAIN f}

\* What can be polled on a socket, by its type.
Methods ==
  [TcpStream    |-> Listed(TcpStream),
   UnixStream   |-> Listed(UnixStream),
   TcpConnect   |-> Listed(TcpConnect),
   UnixConnect  |-> Listed(UnixConnect),
   TcpListener  |-> Listed(TcpListener) \cup Listed(TcpIncoming),
   UnixListener |-> Listed(UnixListener) \cup Listed(UnixIncoming),
   UdpSocket    |-> Listed(UdpSocket) \cup Listed(UdpFutures),
   UnixDatagram |-> Listed(UnixDatagram) \cup Listed(UnixFutures)]

Kinds    == DOMAIN Methods
Connects == {"TcpConnect", "UnixConnect"}
Streams  == {"TcpStream", "UnixStream"}
=============================================================================
