---------------------------- MODULE Connection ----------------------------
(***************************************************************************)
(* One TCP connection between a football_client and the football_server:   *)
(* a net::connection object at each end (net/connection.hpp), the io       *)
(* context whose single thread runs its handlers, the client that sends    *)
(* requests (net/client.hpp) and the server that greets the client and     *)
(* answers (net/server.hpp, net/football_server.hpp).                      *)
(*                                                                         *)
(* Every asynchronous operation of the code is started in one handler and  *)
(* completed in another.  `posted' holds the handlers given to post(),     *)
(* `writes' and `reading' the reads and writes in progress; each action is *)
(* one handler, run to its end on its context's thread, or one call made   *)
(* by an application thread.  A message crosses the wire as two chunks of  *)
(* bytes, its header and, if it has one, its body.                         *)
(***************************************************************************)
EXTENDS Naturals, Sequences

CONSTANTS MaxRequest,   \* bound: how many requests the client sends
          Faults        \* what may go wrong: some of the set below

ASSUME ConnectionAssumption ==
  /\ MaxRequest \in Nat
  /\ Faults \subseteq {"connectFails", "clientLeaves", "serverDies"}

VARIABLES
  sock,      \* m_socket of each end
  fin,       \* has the end's socket gone away, as seen by its peer?
  ctx,       \* is the end's io_context being run?
  posted,    \* handlers posted to the context and not yet run
  out,       \* m_qMessagesOut
  writes,    \* async_writes in progress: the chunks, in the order started
  reading,   \* what the async_read in progress reads into, if there is one
  temp,      \* m_msgTemporaryIn
  wire,      \* chunks sent by an end and not yet read by its peer
  sent,      \* history: messages given to connection::send at each end
  got,       \* history: messages each end put into its m_qMessagesIn
  handled,   \* how many of got.server update() has given to on_message
  loop       \* where the server's main loop is: see below

session == <<sock, fin, ctx, posted, out, writes, reading, temp, wire, sent, got,
             handled>>

vars == <<session, loop>>

End == {"client", "server"}
Peer(e) == IF e = "client" THEN "server" ELSE "client"

-----------------------------------------------------------------------------
(* Messages *)

NoBody == 0
Request(n) == [id |-> "request", body |-> n]
Reply(m) == [id |-> "reply", body |-> m.body]
Accept == [id |-> "accept", body |-> NoBody]

Message == [id : {"request", "reply", "accept"}, body : 0 .. MaxRequest]
Chunk == [part : {"header", "body"}, msg : Message]
Header(m) == [part |-> "header", msg |-> m]
Body(m) == [part |-> "body", msg |-> m]

\* What post() is given: the handler of send, or that of disconnect.
Handler == [op : {"send"}, msg : Message] \cup [op : {"close"}]
SendHandler(m) == [op |-> "send", msg |-> m]
CloseHandler == [op |-> "close"]

-----------------------------------------------------------------------------
(* Sockets and contexts *)

\* is_connected(): the socket is open as soon as an asynchronous connect has
\* been started, and still is when that connect has failed.
IsConnected(e) == sock[e] # "closed"

\* connect() has been called: the client's socket is connecting and its context
\* is being run.  The server listens; it has no connection object yet.
Init ==
  /\ sock = [client |-> "connecting", server |-> "closed"]
  /\ fin = [e \in End |-> FALSE]
  /\ ctx = [e \in End |-> "running"]
  /\ posted = [e \in End |-> <<>>]
  /\ out = [e \in End |-> <<>>]
  /\ writes = [e \in End |-> <<>>]
  /\ reading = [e \in End |-> "none"]
  /\ temp = [e \in End |-> [id |-> "accept", body |-> NoBody]]
  /\ wire = [e \in End |-> <<>>]
  /\ sent = [e \in End |-> <<>>]
  /\ got = [e \in End |-> <<>>]
  /\ handled = 0
  /\ loop = "awake"

\* m_socket.close(): what is in progress is cancelled, and the handlers run
\* with an error only to close the socket again.  The peer of a socket that
\* never got through notices nothing.
CloseSocket(e) ==
  /\ sock' = [sock EXCEPT ![e] = "closed"]
  /\ fin' = [fin EXCEPT ![e] = @ \/ sock[e] # "failed"]
  /\ reading' = [reading EXCEPT ![e] = "none"]
  /\ writes' = [writes EXCEPT ![e] = <<>>]

\* io_context::run() returns when nothing is posted or in progress, and nothing
\* calls it again.  The server's always has an async_accept in progress.
RunContext(e) ==
  ctx' = IF /\ e = "client"
            /\ posted'[e] = <<>> /\ writes'[e] = <<>> /\ reading'[e] = "none"
            /\ sock'[e] # "connecting"
         THEN [ctx EXCEPT ![e] = "done"]
         ELSE ctx

Running(e) == ctx[e] = "running"

\* The client is in client_interface::disconnect.
Leaving == \E i \in DOMAIN posted["client"] : posted["client"][i] = CloseHandler

-----------------------------------------------------------------------------
(* Connecting *)

\* The server has accepted this client, or could.
Reachable == Running("server") \/ sent["server"] # <<>>

\* The handler of async_connect, without an error.
ConnectOk ==
  /\ Running("client")
  /\ sock["client"] = "connecting"
  /\ Reachable
  /\ sock' = [sock EXCEPT !["client"] = "open"]
  /\ reading' = [reading EXCEPT !["client"] = "header"]
  /\ UNCHANGED <<fin, ctx, posted, out, writes, temp, wire, sent, got, handled, loop>>

\* ... and with one: it does nothing.
ConnectFails ==
  /\ Running("client")
  /\ sock["client"] = "connecting"
  /\ \/ ~ Reachable
     \/ "connectFails" \in Faults /\ sent["server"] = <<>>
  /\ sock' = [sock EXCEPT !["client"] = "failed"]
  /\ UNCHANGED <<fin, posted, out, writes, reading, temp, wire, sent, got, handled, loop>>
  /\ RunContext("client")

\* The handler of async_accept: on_client_connect sends the greeting, then
\* connect_to_client starts to read.  The client may have left meanwhile.
AcceptClient ==
  /\ Running("server")
  /\ sock["server"] = "closed" /\ ~ fin["server"]
  /\ sock["client"] \in {"connecting", "open"} \/ fin["client"]
  /\ sock' = [sock EXCEPT !["server"] = "open"]
  /\ posted' = [posted EXCEPT !["server"] = Append(@, SendHandler(Accept))]
  /\ sent' = [sent EXCEPT !["server"] = Append(@, Accept)]
  /\ reading' = [reading EXCEPT !["server"] = "header"]
  /\ UNCHANGED <<fin, ctx, out, writes, temp, wire, got, handled, loop>>

-----------------------------------------------------------------------------
(* Application threads *)

\* client_interface::send, asked for the next request.
SendRequest ==
  /\ Len(sent["client"]) < MaxRequest
  /\ IsConnected("client") /\ ~ Leaving
  /\ LET m == Request(Len(sent["client"]) + 1) IN
       /\ posted' = [posted EXCEPT !["client"] = Append(@, SendHandler(m))]
       /\ sent' = [sent EXCEPT !["client"] = Append(@, m)]
  /\ UNCHANGED <<sock, fin, ctx, out, writes, reading, temp, wire, got, handled, loop>>

\* Mutant: the requests that are waiting are answered newest first.
OnNewestMessage ==
  /\ Running("server")
  /\ loop = "awake" /\ handled < Len(got["server"])
  /\ LET r == Reply(got["server"][Len(got["server"])]) IN
       /\ posted' = [posted EXCEPT !["server"] = Append(@, SendHandler(r))]
       /\ sent' = [sent EXCEPT !["server"] = Append(@, r)]
  /\ handled' = handled + 1
  /\ UNCHANGED <<sock, fin, ctx, out, writes, reading, temp, wire, got, loop>>

\* Mutant: the reply is the request's message, left as it came.
OnMessageEchoes ==
  /\ Running("server")
  /\ loop = "awake" /\ handled < Len(got["server"])
  /\ LET r == got["server"][handled + 1] IN
       /\ posted' = [posted EXCEPT !["server"] = Append(@, SendHandler(r))]
       /\ sent' = [sent EXCEPT !["server"] = Append(@, r)]
  /\ handled' = handled + 1
  /\ UNCHANGED <<sock, fin, ctx, out, writes, reading, temp, wire, got, loop>>

\* The loop of update() on the server's main thread, and on_message.  The reply
\* is sent whatever has become of the connection.
OnMessage ==
  /\ Running("server")
  /\ loop = "awake" /\ handled < Len(got["server"])
  /\ LET r == Reply(got["server"][handled + 1]) IN
       /\ posted' = [posted EXCEPT !["server"] = Append(@, SendHandler(r))]
       /\ sent' = [sent EXCEPT !["server"] = Append(@, r)]
  /\ handled' = handled + 1
  /\ UNCHANGED <<sock, fin, ctx, out, writes, reading, temp, wire, got, loop>>

\* update(-1, true) begins with wait().  Its loop tests empty() and only then
\* waits: a thread that has seen the queue empty is dozing, what is pushed now
\* notifies nobody, and the wait that follows has no predicate.
FindEmpty ==
  /\ Running("server")
  /\ loop = "awake" /\ handled = Len(got["server"])
  /\ loop' = "dozing"
  /\ UNCHANGED session

FallAsleep ==
  /\ Running("server")
  /\ loop = "dozing"
  /\ loop' = "asleep"
  /\ UNCHANGED session

\* A condition variable may wake its waiter for no reason.
SpuriousWakeup ==
  /\ Running("server")
  /\ loop = "asleep"
  /\ loop' = "awake"
  /\ UNCHANGED session

\* client_interface::disconnect, first half: connection::disconnect posts a
\* close.
Disconnect ==
  /\ "clientLeaves" \in Faults
  /\ Running("client")
  /\ IsConnected("client") /\ ~ Leaving
  /\ posted' = [posted EXCEPT !["client"] = Append(@, CloseHandler)]
  /\ UNCHANGED <<sock, fin, ctx, out, writes, reading, temp, wire, sent, got, handled, loop>>

\* ... second half: the context is stopped and what is posted never runs.  The
\* connection object is released, not deleted: its socket stays as it is.
StopContext ==
  /\ Leaving
  /\ Running("client")
  /\ ctx' = [ctx EXCEPT !["client"] = "done"]
  /\ UNCHANGED <<sock, fin, posted, out, writes, reading, temp, wire, sent, got, handled, loop>>

\* The server's process ends: a signal, an exception nobody catches (the handler
\* of async_accept asks for the remote endpoint of a client that may be gone).
ServerDies ==
  /\ "serverDies" \in Faults
  /\ Running("server")
  /\ ctx' = [ctx EXCEPT !["server"] = "done"]
  /\ CloseSocket("server")
  /\ UNCHANGED <<posted, out, temp, wire, sent, got, handled, loop>>

-----------------------------------------------------------------------------
(* Handlers of post() *)

\* Mutant: every send starts a write of its own.
RunSendAlwaysWrites(e) ==
  /\ Running(e)
  /\ posted[e] # <<>> /\ Head(posted[e]).op = "send"
  /\ posted' = [posted EXCEPT ![e] = Tail(@)]
  /\ out' = [out EXCEPT ![e] = Append(@, Head(posted[e]).msg)]
  /\ writes' = [writes EXCEPT ![e] = Append(@, Header(Head(out'[e])))]
  /\ UNCHANGED <<sock, fin, ctx, reading, temp, wire, sent, got, handled, loop>>

\* Mutant: the message jumps the queue.
RunSendInFront(e) ==
  /\ Running(e)
  /\ posted[e] # <<>> /\ Head(posted[e]).op = "send"
  /\ LET m == Head(posted[e]).msg IN
       /\ out' = [out EXCEPT ![e] = <<m>> \o @]
       /\ writes' = IF out[e] = <<>> THEN [writes EXCEPT ![e] = Append(@, Header(m))]
                                     ELSE writes
  /\ posted' = [posted EXCEPT ![e] = Tail(@)]
  /\ UNCHANGED <<sock, fin, reading, temp, wire, sent, got, handled, loop>>
  /\ RunContext(e)

\* The handler of send: it starts a write unless one is in progress, which it
\* takes from m_qMessagesOut not being empty.
RunSend(e) ==
  /\ Running(e)
  /\ posted[e] # <<>> /\ Head(posted[e]).op = "send"
  /\ LET m == Head(posted[e]).msg IN
       /\ out' = [out EXCEPT ![e] = Append(@, m)]
       /\ writes' = IF out[e] = <<>> THEN [writes EXCEPT ![e] = Append(@, Header(m))]
                                     ELSE writes
  /\ posted' = [posted EXCEPT ![e] = Tail(@)]
  /\ UNCHANGED <<sock, fin, reading, temp, wire, sent, got, handled, loop>>
  /\ RunContext(e)

\* The handler of disconnect.
RunClose(e) ==
  /\ Running(e)
  /\ posted[e] # <<>> /\ Head(posted[e]).op = "close"
  /\ posted' = [posted EXCEPT ![e] = Tail(@)]
  /\ CloseSocket(e)
  /\ UNCHANGED <<out, temp, wire, sent, got, handled, loop>>
  /\ RunContext(e)

-----------------------------------------------------------------------------
(* Writing *)

\* The oldest write in progress has put its chunk on the wire.  What is sent to
\* an end that is gone is lost, and the write still succeeds.
Transmit(e) ==
  wire' = IF fin[Peer(e)] THEN wire ELSE [wire EXCEPT ![e] = Append(@, Head(writes[e]))]

\* Mutant: the next write_header is called before pop_front.
WriteNextThenPop(e) ==
  /\ out' = [out EXCEPT ![e] = Tail(@)]
  /\ writes' = [writes EXCEPT ![e] =
                  Tail(@) \o (IF Tail(out[e]) = <<>> THEN <<>>
                              ELSE <<Header(Head(out[e]))>>)]

\* pop_front, then write_header again if there is another message.
PopAndWriteNext(e) ==
  /\ out' = [out EXCEPT ![e] = Tail(@)]
  /\ writes' = [writes EXCEPT ![e] =
                  Tail(@) \o (IF Tail(out[e]) = <<>> THEN <<>>
                              ELSE <<Header(Head(Tail(out[e])))>>)]

\* Mutant: the message is popped when its header is out, its body is not sent.
WriteHeaderPops(e) ==
  /\ Running(e)
  /\ sock[e] = "open"
  /\ writes[e] # <<>> /\ Head(writes[e]).part = "header"
  /\ Transmit(e)
  /\ PopAndWriteNext(e)
  /\ UNCHANGED <<sock, fin, posted, reading, temp, sent, got, handled, loop>>
  /\ RunContext(e)

\* The handler of write_header.
WriteHeader(e) ==
  /\ Running(e)
  /\ sock[e] = "open"
  /\ writes[e] # <<>> /\ Head(writes[e]).part = "header"
  /\ Transmit(e)
  /\ IF Head(out[e]).body # NoBody
     THEN /\ writes' = [writes EXCEPT ![e] = Append(Tail(@), Body(Head(out[e])))]
          /\ UNCHANGED out
     ELSE PopAndWriteNext(e)
  /\ UNCHANGED <<sock, fin, posted, reading, temp, sent, got, handled, loop>>
  /\ RunContext(e)

\* Mutant: the handler of write_body forgets the messages queued behind.
WriteBodyStops(e) ==
  /\ Running(e)
  /\ sock[e] = "open"
  /\ writes[e] # <<>> /\ Head(writes[e]).part = "body"
  /\ Transmit(e)
  /\ out' = [out EXCEPT ![e] = Tail(@)]
  /\ writes' = [writes EXCEPT ![e] = Tail(@)]
  /\ UNCHANGED <<sock, fin, posted, reading, temp, sent, got, handled, loop>>
  /\ RunContext(e)

\* The handler of write_body.
WriteBody(e) ==
  /\ Running(e)
  /\ sock[e] = "open"
  /\ writes[e] # <<>> /\ Head(writes[e]).part = "body"
  /\ Transmit(e)
  /\ PopAndWriteNext(e)
  /\ UNCHANGED <<sock, fin, posted, reading, temp, sent, got, handled, loop>>
  /\ RunContext(e)

\* Either handler with an error: the socket is closed or never connected, or
\* the peer is gone and has reset the connection.
WriteFails(e) ==
  /\ Running(e)
  /\ writes[e] # <<>>
  /\ \/ sock[e] \in {"closed", "failed"}
     \/ sock[e] = "open" /\ fin[Peer(e)]
  /\ CloseSocket(e)
  /\ UNCHANGED <<posted, out, temp, wire, sent, got, handled, loop>>
  /\ RunContext(e)

-----------------------------------------------------------------------------
(* Reading *)

\* add_to_incoming_message_queue, then read_header.  push_back notifies the
\* server's main thread if it is waiting, and is forgotten if it is not.
Deliver(e, m) ==
  /\ got' = [got EXCEPT ![e] = Append(@, m)]
  /\ loop' = IF e = "server" /\ loop = "asleep" THEN "awake" ELSE loop
  /\ reading' = [reading EXCEPT ![e] = "header"]

\* Mutant: a message without a body waits for one all the same.
ReadHeaderAlwaysBody(e) ==
  /\ Running(e)
  /\ reading[e] = "header" /\ wire[Peer(e)] # <<>>
  /\ LET h == Head(wire[Peer(e)]).msg IN
       temp' = [temp EXCEPT ![e].id = h.id]
  /\ reading' = [reading EXCEPT ![e] = "body"]
  /\ wire' = [wire EXCEPT ![Peer(e)] = Tail(@)]
  /\ UNCHANGED <<sock, fin, ctx, posted, out, writes, sent, got, handled, loop>>

\* The handler of read_header.  header.size decides; the body a message without
\* one is delivered with is whatever m_msgTemporaryIn.body still holds.
ReadHeader(e) ==
  /\ Running(e)
  /\ reading[e] = "header" /\ wire[Peer(e)] # <<>>
  /\ LET h == Head(wire[Peer(e)]).msg IN
       /\ temp' = [temp EXCEPT ![e].id = h.id]
       /\ IF h.body # NoBody
          THEN /\ reading' = [reading EXCEPT ![e] = "body"]
               /\ UNCHANGED <<got, loop>>
          ELSE Deliver(e, temp'[e])
  /\ wire' = [wire EXCEPT ![Peer(e)] = Tail(@)]
  /\ UNCHANGED <<sock, fin, ctx, posted, out, writes, sent, handled>>

\* The handler of read_body.
ReadBody(e) ==
  /\ Running(e)
  /\ reading[e] = "body" /\ wire[Peer(e)] # <<>>
  /\ temp' = [temp EXCEPT ![e].body = Head(wire[Peer(e)]).msg.body]
  /\ Deliver(e, temp'[e])
  /\ wire' = [wire EXCEPT ![Peer(e)] = Tail(@)]
  /\ UNCHANGED <<sock, fin, ctx, posted, out, writes, sent, handled>>

\* The handler of read_header at the end of the stream: it does nothing, so
\* nothing is read any more and the socket stays open.
ReadEof(e) ==
  /\ Running(e)
  /\ reading[e] = "header" /\ wire[Peer(e)] = <<>> /\ fin[Peer(e)]
  /\ reading' = [reading EXCEPT ![e] = "none"]
  /\ UNCHANGED <<sock, fin, posted, out, writes, temp, wire, sent, got, handled, loop>>
  /\ RunContext(e)

\* Either handler with another error, a stream that ends inside a message among
\* them.  A peer that is gone may reset the connection and lose what is in
\* transit.
ReadFails(e) ==
  /\ Running(e)
  /\ reading[e] # "none" /\ fin[Peer(e)]
  /\ CloseSocket(e)
  /\ UNCHANGED <<posted, out, temp, wire, sent, got, handled, loop>>
  /\ RunContext(e)

-----------------------------------------------------------------------------

AsioHandler(e) ==
  \/ RunSend(e) \/ RunClose(e)
  \/ WriteHeader(e) \/ WriteBody(e) \/ WriteFails(e)
  \/ ReadHeader(e) \/ ReadBody(e) \/ ReadEof(e) \/ ReadFails(e)

\* while (true) server.update(-1, true).
MainLoop == OnMessage \/ FindEmpty \/ FallAsleep

Next ==
  \/ ConnectOk \/ ConnectFails \/ AcceptClient
  \/ SendRequest \/ MainLoop \/ SpuriousWakeup
  \/ Disconnect \/ StopContext \/ ServerDies
  \/ \E e \in End : AsioHandler(e)

Spec == Init /\ [][Next]_vars

\* The two contexts' threads and the server's main thread run what is ready.
\* Nobody owes a request, a disconnect, a fault or a spurious wakeup.
Fairness ==
  /\ WF_vars(ConnectOk \/ ConnectFails)
  /\ WF_vars(AcceptClient) /\ WF_vars(MainLoop)
  /\ \A e \in End : WF_vars(AsioHandler(e))

FairSpec == Spec /\ Fairness

-----------------------------------------------------------------------------
(* Properties *)

\* The type of every variable.  Requests only travel to the server, greetings
\* and replies only to the client.
TypeOK ==
  /\ sock \in [End -> {"connecting", "failed", "open", "closed"}]
  /\ fin \in [End -> BOOLEAN]
  /\ ctx \in [End -> {"running", "done"}]
  /\ posted \in [End -> Seq(Handler)]
  /\ out \in [End -> Seq(Message)]
  /\ writes \in [End -> Seq(Chunk)]
  /\ reading \in [End -> {"none", "header", "body"}]
  /\ temp \in [End -> Message]
  /\ wire \in [End -> Seq(Chunk)]
  /\ sent \in [End -> Seq(Message)]
  /\ sent["client"] \in Seq([id : {"request"}, body : 1 .. MaxRequest])
  /\ sent["server"] \in Seq([id : {"reply", "accept"}, body : 0 .. MaxRequest])
  /\ got \in [End -> Seq(Message)]
  /\ handled \in 0 .. MaxRequest
  /\ loop \in {"awake", "dozing", "asleep"}

\* send decides whether to write by looking at m_qMessagesOut, not at the
\* writes: as long as the socket is open the two agree.  There is never a
\* second write in progress, and never a message that nobody is writing.
OneWriter ==
  \A e \in End : IsConnected(e) =>
    Len(writes[e]) = IF out[e] = <<>> THEN 0 ELSE 1

\* The handlers of a write look at m_qMessagesOut.front() again after the write:
\* it is still the message they wrote, though send has pushed meanwhile.
WritesFront ==
  \A e \in End : writes[e] # <<>> =>
    out[e] # <<>> /\ Head(writes[e]).msg = Head(out[e])

\* The next chunk to read is of the part the reader expects, and a body is that
\* of the header just read: no message is ever taken apart wrongly.
Framed ==
  \A e \in End : LET in == wire[Peer(e)] IN
    in # <<>> /\ reading[e] # "none" =>
      /\ Head(in).part = reading[e]
      /\ reading[e] = "body" => Head(in).msg.id = temp[e].id

\* In each direction the connection is a FIFO channel, whatever fails: what the
\* receiver puts into its queue is what the sender sent, bodies included, as
\* far as it got.
Upstream == INSTANCE FifoChannel
  WITH Item <- Message, sent <- sent["client"], received <- got["server"]
Downstream == INSTANCE FifoChannel
  WITH Item <- Message, sent <- sent["server"], received <- got["client"]
UpstreamFifo == Upstream!Spec
DownstreamFifo == Downstream!Spec

\* Where a message that e has sent is on its way to the peer's queue.  It is on
\* the wire when the last of its chunks is: until then its sender keeps it.
LastChunk(m) == IF m.body = NoBody THEN Header(m) ELSE Body(m)
Elements(s) == {s[i] : i \in DOMAIN s}
Place == {"posted", "out", "wire", "got"}
Places(e, m) ==
  {place \in Place :
     CASE place = "posted" -> SendHandler(m) \in Elements(posted[e])
       [] place = "out" -> m \in Elements(out[e])
       [] place = "wire" -> LastChunk(m) \in Elements(wire[e])
       [] place = "got" -> m \in Elements(got[Peer(e)])}

\* As long as neither end has closed its socket every message that was sent is at
\* one of these places, and only at one: not dropped between two handlers of the
\* sender, nor between the two reads of the receiver, nor written twice.
NothingMissing ==
  \A e \in End : IsConnected(e) /\ ~ fin[Peer(e)] =>
    \A i \in DOMAIN sent[e] : \E place \in Place : Places(e, sent[e][i]) = {place}

\* The first message a client gets is the greeting, and the n-th after it is
\* the reply to its n-th request.
RepliesInOrder ==
  \A i \in 1 .. Len(got["client"]) :
    got["client"][i] = IF i = 1 THEN Accept ELSE Reply(sent["client"][i - 1])

\* The main loop waits although the n-th request is in its queue: the notify came
\* between the test of empty() and the wait.
Missed(n) == loop = "asleep" /\ n \in handled + 1 .. Len(got["server"])

\* Every request is answered, unless a socket is closed, the client's context
\* has stopped, there was no connection to begin with, or the wakeup for it was
\* missed and nothing wakes the main loop any more: no later message, and no
\* spurious wakeup.
Answered ==
  \A n \in 1 .. MaxRequest :
    \/ Len(sent["client"]) >= n ~>
         \/ Len(got["client"]) >= n + 1
         \/ \E e \in End : sock[e] \in {"failed", "closed"}
         \/ ctx["client"] = "done"
    \/ <>[]Missed(n)

\* Every request is answered, or is_connected() becomes false: it is all that
\* the client's callers look at before they wait for a reply.
AnsweredOrDisconnected ==
  \A n \in 1 .. MaxRequest :
    Len(sent["client"]) >= n ~>
      Len(got["client"]) >= n + 1 \/ ~ IsConnected("client")
=============================================================================
