---------------------------- MODULE PacketStream ----------------------------
(***************************************************************************)
(* erhe::net (src/erhe/net): a Server that broadcasts to the sockets of    *)
(* its clients, and a Client that connects, receives and reconnects.  A    *)
(* packet is a header, of a magic number and the length, and the payload;  *)
(* it goes through the send buffer, the operating system's stream and the  *)
(* receive buffer in pieces of any size.  What a Client sends takes the    *)
(* same code the other way and is left out.                                *)
(*                                                                         *)
(* Server::poll and Server::broadcast go through the sockets in a loop.    *)
(* agenda holds the calls they still have to make; every call of ::send or *)
(* ::recv is a step, and so is every packet that is processed.  Sockets    *)
(* are non-blocking, as net_windows.cpp makes them.  Each connect() gives  *)
(* the next connection.                                                    *)
(***************************************************************************)
EXTENDS Integers, Sequences, Lists

CONSTANTS LengthOf,        \* the length of each message, in cells
          BufferSize,      \* cells of m_send_buffer and m_receive_buffer
          PipeSize,        \* cells the operating system holds of a connection
          MaxConnections,  \* bound on the calls of connect()
          MaxBroadcasts    \* bound on the calls of broadcast()

ASSUME PacketStreamAssumption ==
  /\ LengthOf \in Seq(Nat)
  /\ BufferSize \in Nat \ {0} /\ PipeSize \in Nat \ {0}
  /\ MaxConnections \in Nat /\ MaxBroadcasts \in Nat

Messages    == DOMAIN LengthOf
Connections == 1 .. MaxConnections

(***************************************************************************)
(* Cells <<m, n>>: the magic number, the length and the payload of m.      *)
(***************************************************************************)
HeaderSize == 2
Packet(m)  == [n \in 1 .. HeaderSize + LengthOf[m] |-> <<m, n>>]
Payload(m) == SubSeq(Packet(m), HeaderSize + 1, HeaderSize + LengthOf[m])

INSTANCE RingBuffer WITH Unwritten <- <<0, 0>>

NoBuffer == NewBuffer(BufferSize)

VARIABLES
  listening,  \* the state of m_listen_socket,
  clients,    \* m_clients, by connection,
  agenda,     \* what poll() or broadcast() still has to do,
  fresh,      \* no broadcast() since the last poll()
  serverEnd,  \* the server's end of each connection
  sendBuffer, \* and its m_send_buffer
  pipe,       \* what the operating system holds
  client,     \* the Client: its state, its connection, what it is doing
  receiveBuffer,
  failed,     \* the ERHE_VERIFY that failed
  accepted,   \* history: the messages that send() took,
  delivered,  \* those the handler got,
  spoilt,     \* where a buffer was left full or empty that was not,
  broadcasts  \* and the number of calls of broadcast()

server  == <<listening, clients, agenda, fresh>>
history == <<accepted, delivered, spoilt, broadcasts>>
vars == <<server, serverEnd, sendBuffer, pipe, client, receiveBuffer, failed, history>>

Init ==
  /\ listening = TRUE /\ clients = <<>> /\ agenda = <<>> /\ fresh = TRUE
  /\ serverEnd = [i \in Connections |-> "none"]
  /\ sendBuffer = [i \in Connections |-> NoBuffer]
  /\ pipe = [i \in Connections |-> <<>>]
  /\ client = [state |-> "closed", conn |-> 0, doing |-> "nothing", again |-> FALSE]
  /\ receiveBuffer = NoBuffer
  /\ failed = "nothing"
  /\ accepted = [i \in Connections |-> <<>>] /\ delivered = [i \in Connections |-> <<>>]
  /\ spoilt = [i \in Connections |-> "nowhere"] /\ broadcasts = 0

Running       == failed = "nothing"
ClientIs(s)   == Running /\ client.state = s
ServerIdle    == Running /\ agenda = <<>>
HungUp(i)     == ~(client.state # "closed" /\ client.conn = i)

\* end_produce(0) and end_consume(0) where they change what is in a buffer.
Spoil(i, where, really) ==
  spoilt' = [spoilt EXCEPT ![i] = IF really /\ @ = "nowhere" THEN where ELSE @]
-----------------------------------------------------------------------------
(***************************************************************************)
(* Client.  connect() of a refused connection is tried again by poll().    *)
(***************************************************************************)
Connect ==
  /\ ClientIs("closed") /\ client.conn < MaxConnections
  /\ client' = [client EXCEPT !.state = "connecting", !.conn = @ + 1]
  /\ serverEnd' = [serverEnd EXCEPT
                     ![client.conn + 1] = IF listening THEN "queued" ELSE "refused"]
  /\ UNCHANGED <<server, sendBuffer, pipe, receiveBuffer, failed, history>>

\* Wrong: a smaller buffer than the other end's.
ConnectedSmall ==
  /\ ClientIs("connecting") /\ serverEnd[client.conn] \in {"queued", "connected"}
  /\ client' = [client EXCEPT !.state = "connected"]
  /\ receiveBuffer' = NewBuffer(BufferSize \div 2)
  /\ UNCHANGED <<server, serverEnd, sendBuffer, pipe, failed, history>>

Connected ==
  /\ ClientIs("connecting") /\ serverEnd[client.conn] \in {"queued", "connected"}
  /\ client' = [client EXCEPT !.state = "connected"]
  /\ receiveBuffer' = NoBuffer
  /\ UNCHANGED <<server, serverEnd, sendBuffer, pipe, failed, history>>

ConnectAgain ==
  /\ ClientIs("connecting") /\ serverEnd[client.conn] = "refused" /\ listening
  /\ serverEnd' = [serverEnd EXCEPT ![client.conn] = "queued"]
  /\ UNCHANGED <<server, sendBuffer, pipe, client, receiveBuffer, failed, history>>

\* close(): what was on its way is lost.
CloseClient ==
  /\ client' = [client EXCEPT !.state = "closed", !.doing = "nothing", !.again = FALSE]
  /\ pipe' = [pipe EXCEPT ![client.conn] = <<>>]
  /\ receiveBuffer' = NoBuffer

ConnectFails ==
  /\ ClientIs("connecting") /\ serverEnd[client.conn] \in {"refused", "closed"}
  /\ CloseClient
  /\ UNCHANGED <<server, serverEnd, sendBuffer, failed, history>>

Disconnect ==
  /\ Running /\ client.state # "closed" /\ client.doing = "nothing"
  /\ CloseClient
  /\ UNCHANGED <<server, serverEnd, sendBuffer, failed, history>>
-----------------------------------------------------------------------------
(***************************************************************************)
(* Socket::recv(), when select() has found the socket readable.            *)
(***************************************************************************)
Doing(what) == ClientIs("connected") /\ client.doing = what
Ended       == pipe[client.conn] = <<>> /\ serverEnd[client.conn] = "closed"

ReceiveBegins ==
  /\ Doing("nothing") /\ (pipe[client.conn] # <<>> \/ Ended)
  /\ client' = [client EXCEPT !.doing = "receiving"]
  /\ UNCHANGED <<server, serverEnd, sendBuffer, pipe, receiveBuffer, failed, history>>

ReceiveWhenFull ==
  /\ Doing("receiving") /\ receiveBuffer.full
  /\ client' = [client EXCEPT !.doing = "nothing"]
  /\ UNCHANGED <<server, serverEnd, sendBuffer, pipe, receiveBuffer, failed, history>>

ReceiveSome ==
  /\ Doing("receiving") /\ ~receiveBuffer.full
  /\ LET i == client.conn
         room == Writable(receiveBuffer)
     IN  \E k \in 1 .. Lesser(room, Len(pipe[i])) :
           /\ receiveBuffer' = EndProduce(Filled(receiveBuffer, SubSeq(pipe[i], 1, k)), k)
           /\ pipe' = [pipe EXCEPT ![i] = SubSeq(@, k + 1, Len(@))]
           /\ client' = [client EXCEPT !.doing = "processing",
                           !.again = k = room /\ WritesWrap(receiveBuffer)]
  /\ UNCHANGED <<server, serverEnd, sendBuffer, failed, history>>

ReceiveNothing ==
  /\ Doing("receiving") /\ ~receiveBuffer.full /\ pipe[client.conn] = <<>> /\ ~Ended
  /\ receiveBuffer' = EndProduce(receiveBuffer, 0)
  /\ Spoil(client.conn, "receive", IsEmpty(receiveBuffer))
  /\ client' = [client EXCEPT !.doing = "nothing"]
  /\ UNCHANGED <<server, serverEnd, sendBuffer, pipe, failed, accepted, delivered, broadcasts>>

\* ::recv returns 0, or fails.
ReceiveEnd ==
  /\ Doing("receiving") /\ ~receiveBuffer.full /\ serverEnd[client.conn] = "closed"
  /\ CloseClient
  /\ UNCHANGED <<server, serverEnd, sendBuffer, failed, history>>
-----------------------------------------------------------------------------
(***************************************************************************)
(* The packets that have arrived, one by one.  Cells that are no length    *)
(* are taken for a length that no buffer holds, unwritten ones for 0.      *)
(***************************************************************************)
Header   == Peek(receiveBuffer, HeaderSize)
IsMagic  == Header[1][2] = 1
HeaderLength ==
  LET c == Header[2]
  IN  IF c = <<0, 0>> THEN 0
      ELSE IF c[2] = 2 THEN LengthOf[c[1]] ELSE BufferSize

\* receive_packet_length(): 0 also stands for a header that is incomplete.
PacketLength == IF Len(Header) < HeaderSize THEN 0 ELSE HeaderLength
PacketSize   == HeaderSize + PacketLength

\* The message whose payload starts behind the header, 0 if it is none.
MessageAt(b) ==
  LET cells == SubSeq(b.cells, b.read + HeaderSize + 1, b.read + PacketSize)
      m     == cells[1][1]
  IN  IF m \in Messages /\ cells = Payload(m) THEN m ELSE 0

NoPacket == PacketLength = 0 \/ Size(receiveBuffer) < PacketSize

HeaderRefused ==
  /\ Doing("processing") /\ Len(Header) = HeaderSize /\ ~IsMagic
  /\ failed' = "magic"
  /\ UNCHANGED <<server, serverEnd, sendBuffer, pipe, client, receiveBuffer, history>>

ProcessEnds ==
  /\ Doing("processing") /\ NoPacket /\ (Len(Header) = HeaderSize => IsMagic)
  /\ receiveBuffer' = IF PacketLength = 0 THEN receiveBuffer ELSE EndConsume(receiveBuffer, 0)
  /\ Spoil(client.conn, "partial", PacketLength # 0 /\ receiveBuffer.full)
  /\ client' = [client EXCEPT !.doing = IF client.again THEN "receiving" ELSE "nothing",
                              !.again = FALSE]
  /\ UNCHANGED <<server, serverEnd, sendBuffer, pipe, failed, accepted, delivered, broadcasts>>

Unwrapped == IF Readable(receiveBuffer) < PacketSize
             THEN Rotated(EndConsume(receiveBuffer, 0)) ELSE receiveBuffer

\* Wrong: the header is not consumed with the payload.
ProcessPayload ==
  /\ Doing("processing") /\ ~NoPacket /\ IsMagic
  /\ Readable(Unwrapped) >= PacketSize
  /\ delivered' = [delivered EXCEPT ![client.conn] = Append(@, MessageAt(Unwrapped))]
  /\ receiveBuffer' = EndConsume(Unwrapped, PacketLength)
  /\ UNCHANGED <<server, serverEnd, sendBuffer, pipe, client, failed, accepted, spoilt, broadcasts>>

ProcessPacket ==
  /\ Doing("processing") /\ ~NoPacket /\ IsMagic
  /\ Readable(Unwrapped) >= PacketSize
  /\ delivered' = [delivered EXCEPT ![client.conn] = Append(@, MessageAt(Unwrapped))]
  /\ receiveBuffer' = EndConsume(Unwrapped, PacketSize)
  /\ UNCHANGED <<server, serverEnd, sendBuffer, pipe, client, failed, accepted, spoilt, broadcasts>>

WrapRefused ==
  /\ Doing("processing") /\ ~NoPacket /\ IsMagic
  /\ Readable(Unwrapped) < PacketSize
  /\ failed' = "wrap"
  /\ receiveBuffer' = Unwrapped
  /\ UNCHANGED <<server, serverEnd, sendBuffer, pipe, client, history>>
-----------------------------------------------------------------------------
(***************************************************************************)
(* Server.  A call that is still to be made, for a connection.             *)
(***************************************************************************)
ToDo(call, i, m) == [call |-> call, conn |-> i, message |-> m]
Todo(call)       == Running /\ agenda # <<>> /\ Head(agenda).call = call
Conn             == Head(agenda).conn

CloseServerEnd(i) ==
  /\ serverEnd' = [serverEnd EXCEPT ![i] = "closed"]
  /\ sendBuffer' = [sendBuffer EXCEPT ![i] = NoBuffer]

Listen ==
  /\ ~listening /\ ServerIdle
  /\ listening' = TRUE
  /\ UNCHANGED <<clients, agenda, fresh, serverEnd, sendBuffer, pipe, client,
                 receiveBuffer, failed, history>>

\* disconnect()
Stop ==
  /\ listening /\ ServerIdle
  /\ listening' = FALSE /\ clients' = <<>>
  /\ serverEnd' = [i \in Connections |->
                     IF serverEnd[i] \in {"queued", "connected"} THEN "closed"
                     ELSE serverEnd[i]]
  /\ sendBuffer' = [i \in Connections |-> NoBuffer]
  /\ UNCHANGED <<agenda, fresh, pipe, client, receiveBuffer, failed, history>>

(***************************************************************************)
(* poll(): what select() says is kept for the calls that follow, and the   *)
(* closed sockets are removed after them.                                  *)
(***************************************************************************)
SaysWritable(i) == ~IsEmpty(sendBuffer[i]) /\ (HungUp(i) \/ Len(pipe[i]) < PipeSize)
SaysReadable(i) == HungUp(i)
\* Wrong: what did not fit into the stream waits for the next broadcast.
CallsForReading(i) ==
  IF serverEnd[i] # "closed" /\ SaysReadable(i) THEN <<ToDo("receive", i, 0)>> ELSE <<>>

CallsFor(i) ==
  IF serverEnd[i] = "closed" THEN <<>>
  ELSE (IF SaysWritable(i) THEN <<ToDo("flush", i, 0)>> ELSE <<>>)
         \o (IF SaysReadable(i) THEN <<ToDo("receive", i, 0)>> ELSE <<>>)
CallsForAll == FlattenSeq([n \in DOMAIN clients |-> CallsFor(clients[n])])

Backlog     == {i \in Connections : serverEnd[i] = "queued"}
CallsAccept == IF Backlog = {} THEN <<>> ELSE <<ToDo("accept", Min(Backlog), 0)>>

\* Wrong: the closed sockets are removed before the calls.
PollSweepsFirst ==
  /\ listening /\ ServerIdle
  /\ agenda' = <<ToDo("sweep", 0, 0)>> \o CallsForAll \o CallsAccept
  /\ fresh' = TRUE
  /\ UNCHANGED <<listening, clients, serverEnd, sendBuffer, pipe, client,
                 receiveBuffer, failed, history>>

Poll ==
  /\ listening /\ ServerIdle
  /\ agenda' = CallsForAll \o <<ToDo("sweep", 0, 0)>> \o CallsAccept
  /\ fresh' = TRUE
  /\ UNCHANGED <<listening, clients, serverEnd, sendBuffer, pipe, client,
                 receiveBuffer, failed, history>>

\* The server has nothing to read before the client hangs up.
\* Wrong: takes the end of the stream for nothing to read.
ServerReceivesNothing ==
  /\ Todo("receive")
  /\ agenda' = Tail(agenda)
  /\ UNCHANGED <<listening, clients, fresh, serverEnd, sendBuffer, pipe, client,
                 receiveBuffer, failed, history>>

ServerReceivesEnd ==
  /\ Todo("receive")
  /\ CloseServerEnd(Conn)
  /\ agenda' = Tail(agenda)
  /\ UNCHANGED <<listening, clients, fresh, pipe, client, receiveBuffer, failed, history>>

Sweep ==
  /\ Todo("sweep")
  /\ clients' = EraseAll(clients, {i \in Connections : serverEnd[i] = "closed"})
  /\ agenda' = Tail(agenda)
  /\ UNCHANGED <<listening, fresh, serverEnd, sendBuffer, pipe, client,
                 receiveBuffer, failed, history>>

Accept ==
  /\ Todo("accept")
  /\ serverEnd' = [serverEnd EXCEPT ![Conn] = "connected"]
  /\ clients' = Append(clients, Conn)
  /\ agenda' = Tail(agenda)
  /\ UNCHANGED <<listening, fresh, sendBuffer, pipe, client, receiveBuffer, failed, history>>
-----------------------------------------------------------------------------
(***************************************************************************)
(* broadcast(): Socket::send() for every client.  Both users poll between  *)
(* two broadcasts (network_window.cpp:53, net_test.cpp:554).               *)
(***************************************************************************)
Broadcast(m) ==
  /\ ServerIdle /\ clients # <<>> /\ fresh /\ broadcasts < MaxBroadcasts
  /\ agenda' = [n \in DOMAIN clients |-> ToDo("send", clients[n], m)]
  /\ fresh' = FALSE
  /\ broadcasts' = broadcasts + 1
  /\ UNCHANGED <<listening, clients, serverEnd, sendBuffer, pipe, client,
                 receiveBuffer, failed, accepted, delivered, spoilt>>

Sending == Todo("send") \/ Todo("send_again")
Fits    == Free(sendBuffer[Conn]) >= Len(Packet(Head(agenda).message))

SendFlushes ==
  /\ Todo("send") /\ ~Fits
  /\ agenda' = <<ToDo("flush", Conn, 0),
                 ToDo("send_again", Conn, Head(agenda).message)>> \o Tail(agenda)
  /\ UNCHANGED <<listening, clients, fresh, serverEnd, sendBuffer, pipe, client,
                 receiveBuffer, failed, history>>

SendDropped ==
  /\ Todo("send_again") /\ ~Fits
  /\ sendBuffer' = [sendBuffer EXCEPT ![Conn] = EndProduce(@, 0)]
  /\ Spoil(Conn, "send", IsEmpty(sendBuffer[Conn]))
  /\ agenda' = Tail(agenda)
  /\ UNCHANGED <<listening, clients, fresh, serverEnd, pipe, client, receiveBuffer,
                 failed, accepted, delivered, broadcasts>>

SendWrites ==
  /\ Sending /\ Fits
  /\ LET m == Head(agenda).message IN
       /\ sendBuffer' = [sendBuffer EXCEPT ![Conn] = Written(@, Packet(m))]
       /\ accepted' = [accepted EXCEPT ![Conn] = Append(@, m)]
  /\ agenda' = <<ToDo("flush", Conn, 0)>> \o Tail(agenda)
  /\ UNCHANGED <<listening, clients, fresh, serverEnd, pipe, client, receiveBuffer,
                 failed, delivered, spoilt, broadcasts>>
-----------------------------------------------------------------------------
(***************************************************************************)
(* send_pending(), one call of ::send at a time.                           *)
(***************************************************************************)
FlushEnds ==
  /\ Todo("flush") /\ IsEmpty(sendBuffer[Conn])
  /\ agenda' = Tail(agenda)
  /\ UNCHANGED <<listening, clients, fresh, serverEnd, sendBuffer, pipe, client,
                 receiveBuffer, failed, history>>

Room(i) == IF HungUp(i) THEN BufferSize ELSE PipeSize - Len(pipe[i])

\* Wrong: takes all for sent when a part was.
FlushAll ==
  /\ Todo("flush") /\ ~IsEmpty(sendBuffer[Conn])
  /\ LET b == sendBuffer[Conn] IN
       \E k \in 1 .. Lesser(Readable(b), Room(Conn)) :
         /\ sendBuffer' = [sendBuffer EXCEPT ![Conn] = EndConsume(b, Readable(b))]
         /\ pipe' = IF HungUp(Conn) THEN pipe
                    ELSE [pipe EXCEPT ![Conn] = @ \o SubSeq(b.cells, b.read + 1, b.read + k)]
         /\ agenda' = IF k = Readable(b) /\ ReadsWrap(b) THEN agenda ELSE Tail(agenda)
  /\ UNCHANGED <<listening, clients, fresh, serverEnd, client, receiveBuffer, failed, history>>

FlushSome ==
  /\ Todo("flush") /\ ~IsEmpty(sendBuffer[Conn])
  /\ LET b == sendBuffer[Conn] IN
       \E k \in 1 .. Lesser(Readable(b), Room(Conn)) :
         /\ sendBuffer' = [sendBuffer EXCEPT ![Conn] = EndConsume(b, k)]
         /\ pipe' = IF HungUp(Conn) THEN pipe
                    ELSE [pipe EXCEPT ![Conn] = @ \o SubSeq(b.cells, b.read + 1, b.read + k)]
         /\ agenda' = IF k = Readable(b) /\ ReadsWrap(b) THEN agenda ELSE Tail(agenda)
  /\ UNCHANGED <<listening, clients, fresh, serverEnd, client, receiveBuffer, failed, history>>

FlushBlocks ==
  /\ Todo("flush") /\ ~IsEmpty(sendBuffer[Conn]) /\ Room(Conn) = 0
  /\ sendBuffer' = [sendBuffer EXCEPT ![Conn] = EndConsume(@, 0)]
  /\ Spoil(Conn, "flush", sendBuffer[Conn].full)
  /\ agenda' = Tail(agenda)
  /\ UNCHANGED <<listening, clients, fresh, serverEnd, pipe, client, receiveBuffer,
                 failed, accepted, delivered, broadcasts>>

\* ::send fails: the caller does nothing more with this socket.
FlushFails ==
  /\ Todo("flush") /\ ~IsEmpty(sendBuffer[Conn]) /\ HungUp(Conn)
  /\ CloseServerEnd(Conn)
  /\ agenda' = EraseAll(Tail(agenda), {c \in ToSet(agenda) : c.conn = Conn})
  /\ UNCHANGED <<listening, clients, fresh, pipe, client, receiveBuffer, failed, history>>
-----------------------------------------------------------------------------
ClientOpens    == Connect \/ Disconnect
ClientConnects == Connected \/ ConnectAgain \/ ConnectFails
ClientReceives ==
  ReceiveBegins \/ ReceiveWhenFull \/ ReceiveSome \/ ReceiveNothing \/ ReceiveEnd
    \/ HeaderRefused \/ ProcessEnds \/ ProcessPacket \/ WrapRefused
ServerGoesOn ==
  \/ ServerReceivesEnd \/ Sweep \/ Accept
  \/ SendFlushes \/ SendDropped \/ SendWrites
  \/ FlushEnds \/ FlushSome \/ FlushBlocks \/ FlushFails

Next ==
  \/ ClientOpens \/ ClientConnects \/ ClientReceives
  \/ Listen \/ Stop \/ Poll \/ ServerGoesOn
  \/ \E m \in Messages : Broadcast(m)

Spec == Init /\ [][Next]_vars

(***************************************************************************)
(* Both ends poll in every frame and finish what they do.                  *)
(***************************************************************************)
FairSpec ==
  /\ Spec
  /\ WF_vars(ClientConnects \/ ClientReceives)
  /\ WF_vars(ServerGoesOn) /\ WF_vars(Poll)
-----------------------------------------------------------------------------
Cells == {<<0, 0>>} \cup UNION {{Packet(m)[n] : n \in DOMAIN Packet(m)} : m \in Messages}
Calls == [call : {"send", "send_again", "flush", "receive", "sweep", "accept"},
          conn : 0 .. MaxConnections, message : {0} \cup Messages]

TypeOK ==
  /\ listening \in BOOLEAN /\ fresh \in BOOLEAN
  /\ clients \in Seq(Connections) /\ IsInjective(clients)
  /\ agenda \in Seq(Calls)
  /\ serverEnd \in [Connections -> {"none", "refused", "queued", "connected", "closed"}]
  /\ \A i \in Connections : IsBuffer(sendBuffer[i], BufferSize, Cells)
  /\ \A i \in Connections : pipe[i] \in Seq(Cells) /\ Len(pipe[i]) <= PipeSize
  /\ client \in [state : {"closed", "connecting", "connected"}, conn : 0 .. MaxConnections,
                 doing : {"nothing", "receiving", "processing"}, again : BOOLEAN]
  /\ IsBuffer(receiveBuffer, BufferSize, Cells)
  /\ failed \in {"nothing", "magic", "wrap"}
  /\ \A i \in Connections :
       accepted[i] \in Seq(Messages) /\ delivered[i] \in Seq({0} \cup Messages)
  /\ spoilt \in [Connections -> {"nowhere", "send", "flush", "receive", "partial"}]
  /\ broadcasts \in 0 .. MaxBroadcasts

Sound == {i \in Connections : spoilt[i] = "nowhere"}

Undelivered(i) ==
  FlattenSeq([n \in 1 .. Len(accepted[i]) - Len(delivered[i]) |->
                Packet(accepted[i][Len(delivered[i]) + n])])

NoGap ==
  Running => \A i \in Sound :
    serverEnd[i] = "connected" /\ ~HungUp(i) =>
      Contents(receiveBuffer) \o pipe[i] \o Contents(sendBuffer[i]) = Undelivered(i)

\* A header is only looked for where one is (socket.cpp:334), unless a buffer was
\* spoilt before.
HeadersFound == failed = "magic" => Connections # Sound

\* A buffer that waits for the rest of a packet is never full, so end_consume(0)
\* does not empty it (socket.cpp:384): both ends have buffers of the same size,
\* and what send() takes fits in one.
PartialPacketsKept == \A i \in Connections : spoilt[i] # "partial"

(***************************************************************************)
(* What send() took and the handler did not get is in the receive buffer,  *)
(* on its way, and in the send buffer, in this order and without a gap,    *)
(* however the buffers wrap and however little ::send and ::recv take at a *)
(* time (socket.cpp:246-284, 344-366); so headers are found where they are *)
(* looked for, and no partial packet is lost.                              *)
(***************************************************************************)
StreamIntact == TypeOK /\ NoGap /\ HeadersFound /\ PartialPacketsKept

(***************************************************************************)
(* The server sends to and receives from connected sockets only            *)
(* (socket.cpp:243, 290, 341), though a failed send leaves a closed one in *)
(* m_clients until the next poll.                                          *)
(***************************************************************************)
UsesConnectedSockets ==
  Sending \/ Todo("flush") \/ Todo("receive") => serverEnd[Conn] = "connected"

(***************************************************************************)
(* Each connection is a channel that keeps its promise until one of its    *)
(* buffers was spoilt.                                                     *)
(***************************************************************************)
Channel == INSTANCE MessageChannel WITH sound <- Sound
ImplementsChannel == Channel!Spec

(***************************************************************************)
(* What send() took arrives, unless the connection ends, a buffer was      *)
(* spoilt, a packet wrapped, or a message of length 0 went before it:      *)
(* receive_packet_length() returns 0 for that one too (socket.cpp:331-335, *)
(* 376).                                                                   *)
(***************************************************************************)
Broken(i) == i \notin Sound \/ HungUp(i) \/ serverEnd[i] = "closed" \/ ~Running
Stalls(i) == \E n \in DOMAIN accepted[i] : LengthOf[accepted[i][n]] = 0
Pending(i) == Len(delivered[i]) < Len(accepted[i])

MessagesArrive ==
  \A i \in Connections : Pending(i) ~> ~Pending(i) \/ Broken(i) \/ Stalls(i)

(***************************************************************************)
(* The server drops a connection that the client has closed, whether it    *)
(* learns it from ::send or from ::recv (server.cpp:62-76).                *)
(***************************************************************************)
Serves(i) == \E n \in DOMAIN clients : clients[n] = i

HungUpClientsGo ==
  \A i \in Connections : Serves(i) /\ HungUp(i) ~> ~Serves(i) \/ ~Running
=============================================================================
