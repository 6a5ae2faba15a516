-------------------------- MODULE ConnectionProofs --------------------------
(***************************************************************************)
(* Proofs about one connection for any number of requests and any faults:  *)
(* one write at a time, a byte stream that is never taken apart wrongly,   *)
(* a FIFO channel in each direction, and replies in the order of the       *)
(* requests.                                                               *)
(*                                                                         *)
(* The messages an end sends are numbered by their bodies: the client's    *)
(* are 1, 2, ..., the server's 0 (the greeting), 1, 2, ....  So are the    *)
(* places of the stream that carries them: a chunk is at the place its     *)
(* message and its part give it, and the inductive invariant IInv says     *)
(* that each queue between send and m_qMessagesIn holds the run of numbers *)
(* that is due there, and the wire the run of places between the writer's  *)
(* and the reader's.                                                       *)
(***************************************************************************)
EXTENDS Connection, Integers, SequenceFacts, TLAPS

\* The number of the first message end e sends, and the message with number b.
First(e) == IF e = "client" THEN 1 ELSE 0
Numbered(e, b) ==
  [id |-> IF e = "client" THEN "request" ELSE IF b = 0 THEN "accept" ELSE "reply",
   body |-> b]

\* The places of its header and its body.  The greeting has no body.
HeaderAt(b) == IF b = 0 THEN 1 ELSE 2 * b
BodyAt(b) == 2 * b + 1

ChunkAt(e, k, chunk) ==
  /\ chunk.msg = Numbered(e, chunk.msg.body)
  /\ \/ chunk.part = "header" /\ k = HeaderAt(chunk.msg.body)
     \/ chunk.part = "body" /\ chunk.msg.body # NoBody /\ k = BodyAt(chunk.msg.body)

\* How many of what is posted are sends: a close is the last one.
Closing(e) == posted[e] # <<>> /\ posted[e][Len(posted[e])] = CloseHandler
Sends(e) == IF Closing(e) THEN Len(posted[e]) - 1 ELSE Len(posted[e])

\* The number one past the last message sent, of the message in front of
\* m_qMessagesOut, of the first one posted, and of the next to be received.
Last(e) == Len(sent[e]) + First(e)
Posted(e) == Last(e) - Sends(e)
Front(e) == Posted(e) - Len(out[e])
Due(e) == Len(got[Peer(e)]) + First(e)

\* The places of the next chunk to read, and to write.
ReadAt(e) == IF reading[Peer(e)] = "body" THEN BodyAt(Due(e)) ELSE HeaderAt(Due(e))
WriteAt(e) ==
  IF writes[e] # <<>> /\ Head(writes[e]).part = "body"
  THEN BodyAt(Front(e)) ELSE HeaderAt(Front(e))

Types ==
  /\ sock \in [End -> {"connecting", "failed", "open", "closed"}]
  /\ fin \in [End -> BOOLEAN]
  /\ ctx \in [End -> {"running", "done"}]
  /\ posted \in [End -> Seq(Handler)]
  /\ out \in [End -> Seq(Message)]
  /\ writes \in [End -> Seq(Chunk)]
  /\ reading \in [End -> {"none", "header", "body"}]
  /\ temp \in [End -> Message]
  /\ wire \in [End -> Seq(Chunk)]
  /\ sent \in [End -> Seq(Message)]
  /\ got \in [End -> Seq(Message)]
  /\ handled \in Nat

\* What an end sends, and what its peer has received of it.
HistoryInv(e) ==
  /\ \A i \in 1 .. Len(sent[e]) : sent[e][i] = Numbered(e, First(e) + i - 1)
  /\ \A i \in 1 .. Len(got[Peer(e)]) : got[Peer(e)][i] = Numbered(e, First(e) + i - 1)
  /\ Len(got[Peer(e)]) <= Len(sent[e])

\* What has been sent and not yet written.
QueueInv(e) ==
  /\ First(e) <= Front(e)
  /\ \A i \in 1 .. Len(out[e]) : out[e][i] = Numbered(e, Front(e) + i - 1)
  /\ \A i \in 1 .. Sends(e) : posted[e][i] = SendHandler(Numbered(e, Posted(e) + i - 1))
  /\ Closing(e) => e = "client"

\* The write in progress.
WriteInv(e) ==
  /\ writes[e] = <<>> \/ /\ out[e] # <<>>
                         /\ \/ writes[e] = <<Header(Head(out[e]))>>
                            \/ writes[e] = <<Body(Head(out[e]))>> /\ Head(out[e]).body # NoBody
  /\ IsConnected(e) => (writes[e] = <<>> <=> out[e] = <<>>)

\* What is on the wire, as long as there is somebody to read it.
StreamInv(e) ==
  ~ fin[Peer(e)] =>
    /\ \A i \in 1 .. Len(wire[e]) : /\ ChunkAt(e, ReadAt(e) + i - 1, wire[e][i])
                                    /\ wire[e][i].msg.body < Last(e)
    /\ IsConnected(e) => ReadAt(e) + Len(wire[e]) = WriteAt(e)

\* The reader of what e sends.
ReadInv(e) ==
  /\ reading[Peer(e)] # "none" => ~ fin[Peer(e)]
  /\ reading[Peer(e)] = "body" => /\ Due(e) # 0 /\ Due(e) < Last(e)
                                  /\ temp[Peer(e)].id = Numbered(e, Due(e)).id

\* The server before it has accepted the client, and after.
ServerInv ==
  /\ sock["server"] = "closed" /\ ~ fin["server"] => sent["server"] = <<>>
  /\ sent["server"] = <<>> =>
       /\ sock["server"] = "closed" /\ reading["server"] = "none"
       /\ posted["server"] = <<>> /\ out["server"] = <<>> /\ writes["server"] = <<>>
       /\ wire["server"] = <<>> /\ got["server"] = <<>>
  /\ Len(sent["server"]) = IF sent["server"] = <<>> THEN 0 ELSE handled + 1
  /\ handled <= Len(got["server"])
  /\ sock["server"] \notin {"connecting", "failed"}

\* m_msgTemporaryIn until the greeting has come, and the bound on requests.
ClientInv ==
  /\ got["client"] = <<>> => temp["client"].body = NoBody
  /\ Len(sent["client"]) <= MaxRequest
  /\ sock["client"] = "connecting" => reading["client"] = "none" /\ ~ fin["client"]
  /\ sock["client"] = "failed" => reading["client"] = "none"
  /\ fin["client"] => sock["client"] = "closed"

\* All there is to say about one direction.
DirectionInv(e) ==
  HistoryInv(e) /\ QueueInv(e) /\ WriteInv(e) /\ StreamInv(e) /\ ReadInv(e)

\* The inductive invariant.
IInv == Types /\ (\A e \in End : DirectionInv(e)) /\ ServerInv /\ ClientInv

-----------------------------------------------------------------------------
(* Ends and numbers *)

\* The two ends are each other's peers.
LEMMA Ends ==
  /\ \A e \in End : Peer(e) \in End /\ Peer(e) # e /\ Peer(Peer(e)) = e
  /\ Peer("client") = "server" /\ Peer("server") = "client"
  /\ \A e \in End : e = "client" \/ e = "server"
BY DEF End, Peer

\* What the two chunks of a message are.
LEMMA ChunkParts ==
  ASSUME NEW m
  PROVE  /\ Header(m).part = "header" /\ Header(m).msg = m
         /\ Body(m).part = "body" /\ Body(m).msg = m
BY DEF Header, Body

\* Every number of a direction is a number.
LEMMA Numbering ==
  ASSUME Types, NEW e \in End
  PROVE  /\ First(e) \in Nat /\ Last(e) \in Nat /\ Due(e) \in Nat
         /\ Sends(e) \in 0 .. Len(posted[e]) /\ Posted(e) \in Int /\ Front(e) \in Int
         /\ Len(out[e]) \in Nat /\ Len(sent[e]) \in Nat
<1>1. /\ posted[e] \in Seq(Handler) /\ out[e] \in Seq(Message) /\ sent[e] \in Seq(Message)
      /\ got[Peer(e)] \in Seq(Message)
  BY Ends DEF Types
<1>2. /\ Len(posted[e]) \in Nat /\ Len(out[e]) \in Nat /\ Len(sent[e]) \in Nat
      /\ Len(got[Peer(e)]) \in Nat
      /\ posted[e] # <<>> => Len(posted[e]) > 0
  BY <1>1
<1>3. First(e) \in Nat
  BY DEF First
<1>4. Sends(e) \in 0 .. Len(posted[e])
  BY <1>2 DEF Sends, Closing
<1>5. Last(e) \in Nat /\ Due(e) \in Nat
  BY <1>2, <1>3 DEF Last, Due
<1>6. Posted(e) \in Int
  BY <1>2, <1>4, <1>5 DEF Posted
<1>7. Front(e) \in Int
  BY <1>2, <1>6 DEF Front
<1> QED
  BY <1>2, <1>3, <1>4, <1>5, <1>6, <1>7

-----------------------------------------------------------------------------
(* One direction, and the steps of its sender and its receiver *)

\* Nothing happens to it, but that the socket has been connecting or the reader
\* starts or stops to wait for a header.
LEMMA DirectionKept ==
  ASSUME NEW e \in End, DirectionInv(e),
         UNCHANGED <<posted[e], out[e], writes[e], wire[e], sent[e]>>,
         UNCHANGED <<fin[Peer(e)], temp[Peer(e)], got[Peer(e)]>>,
         IsConnected(e)' = IsConnected(e),
         \/ reading'[Peer(e)] = reading[Peer(e)]
         \/ /\ reading[Peer(e)] # "body" /\ reading'[Peer(e)] # "body"
            /\ reading'[Peer(e)] # "none" => ~ fin[Peer(e)]
  PROVE  DirectionInv(e)'
<1>1. /\ Closing(e)' = Closing(e) /\ Sends(e)' = Sends(e) /\ Last(e)' = Last(e)
      /\ Posted(e)' = Posted(e) /\ Front(e)' = Front(e) /\ Due(e)' = Due(e)
      /\ ReadAt(e)' = ReadAt(e) /\ WriteAt(e)' = WriteAt(e)
  BY DEF Closing, Sends, Last, Posted, Front, Due, ReadAt, WriteAt
<1>2. HistoryInv(e)' /\ QueueInv(e)' /\ WriteInv(e)'
  BY <1>1 DEF DirectionInv, HistoryInv, QueueInv, WriteInv
<1>3. StreamInv(e)'
  BY <1>1 DEF DirectionInv, StreamInv
<1>4. ReadInv(e)'
  BY <1>1 DEF DirectionInv, ReadInv
<1> QED
  BY <1>2, <1>3, <1>4 DEF DirectionInv

\* connection::send
LEMMA SendKeeps ==
  ASSUME Types, NEW e \in End, DirectionInv(e), ~ Closing(e),
         NEW m \in Message, m = Numbered(e, Last(e)),
         posted'[e] = Append(posted[e], SendHandler(m)),
         sent'[e] = Append(sent[e], m),
         UNCHANGED <<out[e], writes[e], wire[e]>>,
         UNCHANGED <<fin[Peer(e)], reading[Peer(e)], temp[Peer(e)], got[Peer(e)]>>,
         sock'[e] = sock[e] \/ (writes[e] = <<>> /\ out[e] = <<>> /\ wire[e] = <<>>
                                /\ reading[Peer(e)] # "body" /\ sent[e] = <<>>)
  PROVE  DirectionInv(e)'
<1> DEFINE p == Peer(e)
<1>1. /\ posted[e] \in Seq(Handler) /\ out[e] \in Seq(Message) /\ sent[e] \in Seq(Message)
      /\ got[p] \in Seq(Message) /\ wire[e] \in Seq(Chunk) /\ SendHandler(m) \in Handler
  BY Ends DEF Types, Handler, SendHandler
<1>2. /\ First(e) \in Nat /\ Last(e) \in Nat /\ Due(e) \in Nat
      /\ Sends(e) = Len(posted[e]) /\ Posted(e) \in Int /\ Front(e) \in Int
      /\ Len(out[e]) \in Nat /\ Len(sent[e]) \in Nat /\ Len(posted[e]) \in Nat
  BY Numbering DEF Sends
<1>3. /\ Len(sent'[e]) = Len(sent[e]) + 1
      /\ \A i \in 1 .. Len(sent[e]) : sent'[e][i] = sent[e][i]
      /\ sent'[e][Len(sent[e]) + 1] = m
      /\ Len(posted'[e]) = Len(posted[e]) + 1
      /\ \A i \in 1 .. Len(posted[e]) : posted'[e][i] = posted[e][i]
      /\ posted'[e][Len(posted[e]) + 1] = SendHandler(m)
      /\ posted'[e] # <<>>
  <2>1. /\ Len(sent'[e]) = Len(sent[e]) + 1
        /\ \A i \in 1 .. Len(sent[e]) : sent'[e][i] = sent[e][i]
        /\ sent'[e][Len(sent[e]) + 1] = m
    BY <1>1, AppendFacts, SMTT(30)
  <2>2. /\ Len(posted'[e]) = Len(posted[e]) + 1
        /\ \A i \in 1 .. Len(posted[e]) : posted'[e][i] = posted[e][i]
        /\ posted'[e][Len(posted[e]) + 1] = SendHandler(m)
        /\ posted'[e] # <<>>
    BY <1>1, AppendFacts, SMTT(30)
  <2> QED
    BY <2>1, <2>2
<1>4. SendHandler(m) # CloseHandler
  BY DEF SendHandler, CloseHandler
<1>5. /\ ~ Closing(e)' /\ Sends(e)' = Sends(e) + 1 /\ Last(e)' = Last(e) + 1
      /\ Posted(e)' = Posted(e) /\ Front(e)' = Front(e)
      /\ Due(e)' = Due(e) /\ ReadAt(e)' = ReadAt(e) /\ WriteAt(e)' = WriteAt(e)
  <2>1. ~ Closing(e)' /\ Sends(e)' = Sends(e) + 1
    BY <1>2, <1>3, <1>4 DEF Closing, Sends
  <2>2. Last(e)' = Last(e) + 1
    BY <1>2, <1>3 DEF Last
  <2>3. Posted(e)' = Posted(e) /\ Front(e)' = Front(e)
    BY <1>2, <2>1, <2>2 DEF Posted, Front
  <2>4. Due(e)' = Due(e)
    BY DEF Due
  <2> QED
    BY <2>1, <2>2, <2>3, <2>4 DEF ReadAt, WriteAt
<1>6. HistoryInv(e)'
  <2>1. \A i \in 1 .. Len(sent'[e]) : sent'[e][i] = Numbered(e, First(e) + i - 1)
    <3> SUFFICES ASSUME NEW i \in 1 .. (Len(sent[e]) + 1)
                 PROVE  sent'[e][i] = Numbered(e, First(e) + i - 1)
      BY <1>3
    <3>1. CASE i \in 1 .. Len(sent[e])
      BY <1>3, <3>1 DEF DirectionInv, HistoryInv
    <3>2. CASE i = Len(sent[e]) + 1
      <4>1. Last(e) = First(e) + i - 1
        BY <1>2, <3>2 DEF Last
      <4> QED
        BY <1>3, <3>2, <4>1
    <3> QED
      BY <1>2, <3>1, <3>2
  <2>2. /\ \A i \in 1 .. Len(got[p]) : got[p][i] = Numbered(e, First(e) + i - 1)
        /\ Len(got[p]) <= Len(sent[e]) /\ Len(got[p]) \in Nat
    BY <1>1 DEF DirectionInv, HistoryInv
  <2>3. Len(got[p]) <= Len(sent'[e])
    BY <1>2, <1>3, <2>2
  <2> QED
    BY <2>1, <2>2, <2>3 DEF HistoryInv
<1>7. QueueInv(e)'
  <2>1. ASSUME NEW i \in 1 .. Sends(e)'
        PROVE  posted'[e][i] = SendHandler(Numbered(e, Posted(e) + i - 1))
    <3>1. CASE i \in 1 .. Sends(e)
      BY <1>2, <1>3, <3>1 DEF DirectionInv, QueueInv
    <3>2. CASE i = Sends(e) + 1
      <4>1. Last(e) = Posted(e) + i - 1
        BY <1>2, <3>2 DEF Posted
      <4> QED
        BY <1>2, <1>3, <3>2, <4>1
    <3> QED
      BY <1>2, <1>5, <3>1, <3>2, SMTT(30)
  <2> QED
    BY <1>5, <2>1 DEF DirectionInv, QueueInv
<1>8. WriteInv(e)'
  BY DEF DirectionInv, WriteInv, IsConnected
<1>9. StreamInv(e)'
  <2> SUFFICES ASSUME ~ fin[p] PROVE
         /\ \A i \in 1 .. Len(wire[e]) : /\ ChunkAt(e, ReadAt(e) + i - 1, wire[e][i])
                                         /\ wire[e][i].msg.body < Last(e) + 1
         /\ IsConnected(e)' => ReadAt(e) + Len(wire[e]) = WriteAt(e)
    BY <1>5 DEF StreamInv
  <2>1. ASSUME NEW i \in 1 .. Len(wire[e])
        PROVE  /\ ChunkAt(e, ReadAt(e) + i - 1, wire[e][i])
               /\ wire[e][i].msg.body < Last(e) + 1
    <3>1. wire[e][i] \in Chunk
      BY <1>1
    <3>2. wire[e][i].msg.body \in Nat
      BY <3>1, ConnectionAssumption DEF Chunk, Message
    <3>3. /\ ChunkAt(e, ReadAt(e) + i - 1, wire[e][i])
          /\ wire[e][i].msg.body < Last(e)
      BY DEF DirectionInv, StreamInv
    <3> QED
      BY <1>2, <3>2, <3>3, SMTT(30)
  <2>2. CASE sock'[e] = sock[e]
    BY <2>1, <2>2 DEF DirectionInv, StreamInv, IsConnected
  <2>3. CASE writes[e] = <<>> /\ out[e] = <<>> /\ wire[e] = <<>>
             /\ reading[p] # "body" /\ sent[e] = <<>>
    <3>1. Len(out[e]) = 0 /\ Len(sent[e]) = 0 /\ Len(wire[e]) = 0 /\ Len(got[p]) = 0
      BY <1>1, <2>3 DEF DirectionInv, HistoryInv
    <3>2. Due(e) = First(e) /\ Front(e) = First(e)
      BY <1>2, <3>1 DEF Due, Front, Posted, Last, DirectionInv, QueueInv
    <3>3. ReadAt(e) \in Int
      BY <1>2 DEF ReadAt, HeaderAt, BodyAt
    <3> QED
      BY <2>1, <2>3, <3>1, <3>2, <3>3 DEF ReadAt, WriteAt
  <2> QED
    BY <2>1, <2>2, <2>3
<1>10. ReadInv(e)'
  BY <1>2, <1>5 DEF DirectionInv, ReadInv
<1> QED
  BY <1>6, <1>7, <1>8, <1>9, <1>10 DEF DirectionInv

\* connection::disconnect
LEMMA PostCloseKeeps ==
  ASSUME Types, NEW e \in End, DirectionInv(e), ~ Closing(e), e = "client",
         posted'[e] = Append(posted[e], CloseHandler),
         UNCHANGED <<sock[e], out[e], writes[e], wire[e], sent[e]>>,
         UNCHANGED <<fin[Peer(e)], reading[Peer(e)], temp[Peer(e)], got[Peer(e)]>>
  PROVE  DirectionInv(e)'
<1>1. posted[e] \in Seq(Handler) /\ CloseHandler \in Handler
  BY DEF Types, Handler, CloseHandler
<1>2. /\ Len(posted'[e]) = Len(posted[e]) + 1
      /\ \A i \in 1 .. Len(posted[e]) : posted'[e][i] = posted[e][i]
      /\ posted'[e][Len(posted[e]) + 1] = CloseHandler
      /\ posted'[e] # <<>> /\ Len(posted[e]) \in Nat
  BY <1>1, AppendFacts
<1>3. Closing(e)' /\ Sends(e)' = Sends(e) /\ Sends(e) = Len(posted[e])
  BY <1>2 DEF Closing, Sends
<1>4. /\ Last(e)' = Last(e) /\ Posted(e)' = Posted(e) /\ Front(e)' = Front(e)
      /\ Due(e)' = Due(e) /\ ReadAt(e)' = ReadAt(e) /\ WriteAt(e)' = WriteAt(e)
  BY <1>3 DEF Last, Posted, Front, Due, ReadAt, WriteAt
<1>5. QueueInv(e)'
  BY <1>2, <1>3, <1>4 DEF DirectionInv, QueueInv
<1>6. HistoryInv(e)' /\ WriteInv(e)' /\ StreamInv(e)' /\ ReadInv(e)'
  BY <1>4 DEF DirectionInv, HistoryInv, WriteInv, StreamInv, ReadInv, IsConnected
<1> QED
  BY <1>5, <1>6 DEF DirectionInv

\* What is in front of the posted handlers.
LEMMA HeadPosted ==
  ASSUME Types, NEW e \in End, DirectionInv(e), posted[e] # <<>>
  PROVE  /\ Head(posted[e]).op = "send" =>
              /\ Sends(e) # 0
              /\ Head(posted[e]) = SendHandler(Numbered(e, Posted(e)))
              /\ Closing(e) <=> /\ Tail(posted[e]) # <<>>
                                /\ Tail(posted[e])[Len(Tail(posted[e]))] = CloseHandler
         /\ Head(posted[e]).op = "close" => Closing(e) /\ Tail(posted[e]) = <<>>
<1>1. /\ posted[e] \in Seq(Handler)
      /\ Sends(e) \in 0 .. Len(posted[e]) /\ Posted(e) \in Int
  BY Numbering DEF Types
<1>2. /\ Head(posted[e]) = posted[e][1]
      /\ Tail(posted[e]) \in Seq(Handler)
      /\ Len(posted[e]) \in Nat \ {0} /\ Len(Tail(posted[e])) = Len(posted[e]) - 1
      /\ \A i \in 1 .. Len(Tail(posted[e])) : Tail(posted[e])[i] = posted[e][i + 1]
      /\ Tail(posted[e]) = <<>> <=> Len(posted[e]) = 1
  BY <1>1, TailFacts
<1>3. \A m : SendHandler(m).op = "send" /\ CloseHandler.op = "close"
  BY DEF SendHandler, CloseHandler
<1>4. CASE Head(posted[e]).op = "send"
  <2>1. Sends(e) # 0
    <3>1. CASE Closing(e)
      <4>1. Len(posted[e]) # 1
        BY <1>2, <1>3, <1>4, <3>1 DEF Closing
      <4> QED
        BY <1>2, <3>1, <4>1 DEF Sends
    <3>2. CASE ~ Closing(e)
      BY <1>2, <3>2 DEF Sends
    <3> QED
      BY <3>1, <3>2
  <2>2. posted[e][1] = SendHandler(Numbered(e, Posted(e) + 1 - 1))
    BY <1>1, <2>1 DEF DirectionInv, QueueInv
  <2>3. Posted(e) + 1 - 1 = Posted(e)
    BY <1>1
  <2>4. Closing(e) <=> /\ Tail(posted[e]) # <<>>
                       /\ Tail(posted[e])[Len(Tail(posted[e]))] = CloseHandler
    <3>1. CASE Len(posted[e]) = 1
      BY <1>2, <1>3, <1>4, <3>1 DEF Closing
    <3>2. CASE Len(posted[e]) # 1
      <4>1. Tail(posted[e])[Len(Tail(posted[e]))] = posted[e][Len(posted[e])]
        BY <1>2, <3>2
      <4> QED
        BY <1>2, <3>2, <4>1 DEF Closing
    <3> QED
      BY <3>1, <3>2
  <2> QED
    BY <1>2, <1>3, <1>4, <2>1, <2>2, <2>3, <2>4
<1>5. CASE Head(posted[e]).op = "close"
  <2>1. Sends(e) = 0
    <3> SUFFICES ASSUME Sends(e) # 0 PROVE FALSE
      OBVIOUS
    <3>1. posted[e][1] = SendHandler(Numbered(e, Posted(e) + 1 - 1))
      BY <1>1 DEF DirectionInv, QueueInv
    <3> QED
      BY <1>2, <1>3, <1>5, <3>1
  <2> QED
    BY <1>2, <1>3, <1>5, <2>1 DEF Sends
<1> QED
  BY <1>3, <1>4, <1>5

\* The handler of send.
LEMMA RunSendKeeps ==
  ASSUME Types, NEW e \in End, DirectionInv(e),
         posted[e] # <<>>, Head(posted[e]).op = "send",
         posted'[e] = Tail(posted[e]),
         out'[e] = Append(out[e], Head(posted[e]).msg),
         writes'[e] = IF out[e] = <<>> THEN Append(writes[e], Header(Head(posted[e]).msg))
                                       ELSE writes[e],
         UNCHANGED <<sock[e], wire[e], sent[e]>>,
         UNCHANGED <<fin[Peer(e)], reading[Peer(e)], temp[Peer(e)], got[Peer(e)]>>
  PROVE  DirectionInv(e)'
<1> DEFINE m == Head(posted[e]).msg
<1>1. /\ posted[e] \in Seq(Handler) /\ out[e] \in Seq(Message) /\ writes[e] \in Seq(Chunk)
      /\ Head(posted[e]) \in Handler
  BY TailFacts DEF Types
<1>2. m \in Message
  BY <1>1 DEF Handler
<1>3. /\ Sends(e) # 0 /\ m = Numbered(e, Posted(e))
      /\ Closing(e)' = Closing(e)
  <2>1. /\ Sends(e) # 0 /\ Head(posted[e]) = SendHandler(Numbered(e, Posted(e)))
        /\ Closing(e) <=> /\ Tail(posted[e]) # <<>>
                          /\ Tail(posted[e])[Len(Tail(posted[e]))] = CloseHandler
    BY HeadPosted
  <2>2. m = Numbered(e, Posted(e))
    BY <2>1 DEF SendHandler
  <2>3. Closing(e)' = Closing(e)
    BY <2>1 DEF Closing
  <2> QED
    BY <2>1, <2>2, <2>3
<1>4. /\ Sends(e) \in 0 .. Len(posted[e]) /\ Posted(e) \in Int /\ Front(e) \in Int
      /\ Len(out[e]) \in Nat /\ Last(e) \in Nat
  BY Numbering
<1>5. /\ Len(posted[e]) \in Nat \ {0} /\ Len(posted'[e]) = Len(posted[e]) - 1
      /\ \A i \in 1 .. Len(posted'[e]) : posted'[e][i] = posted[e][i + 1]
      /\ Len(out'[e]) = Len(out[e]) + 1
      /\ \A i \in 1 .. Len(out[e]) : out'[e][i] = out[e][i]
      /\ out'[e][Len(out[e]) + 1] = m
      /\ out'[e] # <<>>
      /\ out[e] # <<>> => Head(out'[e]) = Head(out[e])
  BY <1>1, <1>2, TailFacts, AppendFacts
<1> HIDE DEF m
<1>6. Sends(e)' = Sends(e) - 1
  BY <1>3, <1>4, <1>5 DEF Sends
<1>7. Last(e)' = Last(e) /\ Posted(e)' = Posted(e) + 1 /\ Front(e)' = Front(e)
  <2>1. Last(e)' = Last(e)
    BY DEF Last
  <2>2. Posted(e)' = Posted(e) + 1
    BY <1>4, <1>6, <2>1 DEF Posted
  <2>3. Len(out'[e]) = Len(out[e]) + 1
    BY <1>5
  <2>4. Front(e)' = Front(e)
    BY <1>4, <2>2, <2>3 DEF Front
  <2> QED
    BY <2>1, <2>2, <2>4
<1>8. Due(e)' = Due(e) /\ ReadAt(e)' = ReadAt(e)
  BY DEF Due, ReadAt
<1>9. QueueInv(e)'
  <2>1. ASSUME NEW i \in 1 .. (Len(out[e]) + 1)
        PROVE  out'[e][i] = Numbered(e, Front(e) + i - 1)
    <3>1. CASE i \in 1 .. Len(out[e])
      BY <1>5, <3>1 DEF DirectionInv, QueueInv
    <3>2. CASE i = Len(out[e]) + 1
      <4>1. Posted(e) = Front(e) + i - 1
        BY <1>4, <3>2 DEF Front
      <4> QED
        BY <1>3, <1>5, <3>2, <4>1
    <3> QED
      BY <1>4, <3>1, <3>2
  <2>2. ASSUME NEW i \in 1 .. (Sends(e) - 1)
        PROVE  posted'[e][i] = SendHandler(Numbered(e, Posted(e) + 1 + i - 1))
    <3>1. i + 1 \in 1 .. Sends(e) /\ i \in 1 .. Len(posted'[e])
      BY <1>4, <1>5
    <3>2. Posted(e) + (i + 1) - 1 = Posted(e) + 1 + i - 1
      BY <1>4
    <3>3. posted[e][i + 1] = SendHandler(Numbered(e, Posted(e) + (i + 1) - 1))
      BY <3>1 DEF DirectionInv, QueueInv
    <3> QED
      BY <1>5, <3>1, <3>2, <3>3
  <2> QED
    BY <1>3, <1>5, <1>6, <1>7, <2>1, <2>2 DEF DirectionInv, QueueInv
<1>10. WriteInv(e)' /\ WriteAt(e)' = WriteAt(e)
  <2>1. CASE out[e] = <<>>
    <3>1. writes[e] = <<>>
      BY <2>1 DEF DirectionInv, WriteInv
    <3>2. out'[e] = <<m>> /\ writes'[e] = <<Header(m)>>
      BY <2>1, <3>1, OneFacts DEF m
    <3>3. Head(writes'[e]).part = "header"
      <4>1. Head(writes'[e]) = Header(m)
        BY <3>2, OneFacts
      <4>2. Header(m).part = "header"
        BY DEF Header
      <4> QED
        BY <4>1, <4>2
    <3>4. Head(out'[e]) = m
      BY <3>2, OneFacts
    <3> QED
      BY <1>5, <1>7, <3>1, <3>2, <3>3, <3>4 DEF WriteInv, WriteAt
  <2>2. CASE out[e] # <<>>
    BY <1>5, <1>7, <2>2 DEF DirectionInv, WriteInv, WriteAt, IsConnected
  <2> QED
    BY <2>1, <2>2
<1>11. HistoryInv(e)' /\ StreamInv(e)' /\ ReadInv(e)'
  BY <1>7, <1>8, <1>10 DEF DirectionInv, HistoryInv, StreamInv, ReadInv, IsConnected
<1> QED
  BY <1>9, <1>10, <1>11 DEF DirectionInv

\* The socket of the sender is closed, and perhaps that was what was posted.
LEMMA CloseKeeps ==
  ASSUME Types, NEW e \in End, DirectionInv(e),
         \/ posted'[e] = posted[e]
         \/ posted[e] # <<>> /\ Head(posted[e]).op = "close" /\ posted'[e] = Tail(posted[e]),
         sock'[e] = "closed", writes'[e] = <<>>,
         UNCHANGED <<out[e], wire[e], sent[e]>>,
         UNCHANGED <<fin[Peer(e)], reading[Peer(e)], temp[Peer(e)], got[Peer(e)]>>
  PROVE  DirectionInv(e)'
<1>1. /\ Sends(e)' = Sends(e) /\ (Closing(e)' => e = "client")
      /\ \A i \in 1 .. Sends(e) :
           posted'[e][i] = SendHandler(Numbered(e, Posted(e) + i - 1))
  <2>1. CASE posted'[e] = posted[e]
    BY <2>1 DEF Sends, Closing, DirectionInv, QueueInv
  <2>2. CASE posted[e] # <<>> /\ Head(posted[e]).op = "close" /\ posted'[e] = Tail(posted[e])
    <3>1. Closing(e) /\ posted'[e] = <<>> /\ posted[e] \in Seq(Handler)
      BY <2>2, HeadPosted DEF Types
    <3>2. Len(posted[e]) = 1 /\ Len(posted'[e]) = 0
      BY <2>2, <3>1, TailFacts
    <3>3. ~ Closing(e)' /\ Sends(e)' = 0 /\ Sends(e) = 0
      BY <3>1, <3>2 DEF Closing, Sends
    <3> QED
      BY <3>3
  <2> QED
    BY <2>1, <2>2
<1>2. /\ Last(e)' = Last(e) /\ Posted(e)' = Posted(e) /\ Front(e)' = Front(e)
      /\ Due(e)' = Due(e) /\ ReadAt(e)' = ReadAt(e)
  BY <1>1 DEF Last, Posted, Front, Due, ReadAt
<1>3. QueueInv(e)'
  BY <1>1, <1>2 DEF DirectionInv, QueueInv
<1>4. HistoryInv(e)' /\ WriteInv(e)' /\ StreamInv(e)' /\ ReadInv(e)'
  BY <1>2 DEF DirectionInv, HistoryInv, WriteInv, StreamInv, ReadInv, IsConnected
<1> QED
  BY <1>3, <1>4 DEF DirectionInv

\* The socket of the receiver is closed.
LEMMA ReceiverCloseKeeps ==
  ASSUME NEW e \in End, DirectionInv(e),
         UNCHANGED <<sock[e], posted[e], out[e], writes[e], sent[e]>>,
         fin'[Peer(e)], reading'[Peer(e)] = "none",
         UNCHANGED got[Peer(e)]
  PROVE  DirectionInv(e)'
<1>1. /\ Closing(e)' = Closing(e) /\ Sends(e)' = Sends(e) /\ Last(e)' = Last(e)
      /\ Posted(e)' = Posted(e) /\ Front(e)' = Front(e)
  BY DEF Closing, Sends, Last, Posted, Front
<1> QED
  BY <1>1 DEF DirectionInv, HistoryInv, QueueInv, WriteInv, StreamInv, ReadInv, IsConnected

\* What a write puts on the wire, and where.
LEMMA WrittenAt ==
  ASSUME Types, NEW e \in End, DirectionInv(e), writes[e] # <<>>
  PROVE  /\ ChunkAt(e, WriteAt(e), Head(writes[e]))
         /\ Head(writes[e]).msg = Head(out[e]) /\ Head(writes[e]).msg.body = Front(e)
         /\ Front(e) \in Nat /\ Front(e) < Last(e)
         /\ Head(writes[e]) \in Chunk /\ Tail(writes[e]) = <<>>
         /\ WriteAt(e) \in Nat
         /\ Head(writes[e]).part = "body" => Front(e) # 0
<1>1. out[e] \in Seq(Message) /\ writes[e] \in Seq(Chunk)
  BY DEF Types
<1>2. /\ out[e] # <<>>
      /\ \/ writes[e] = <<Header(Head(out[e]))>>
         \/ writes[e] = <<Body(Head(out[e]))>> /\ Head(out[e]).body # NoBody
  BY DEF DirectionInv, WriteInv
<1>3. Head(out[e]) = out[e][1] /\ Len(out[e]) \in Nat \ {0} /\ Head(writes[e]) \in Chunk
  BY <1>1, <1>2, TailFacts
<1>4. /\ First(e) \in Nat /\ Last(e) \in Nat /\ Posted(e) \in Int /\ Front(e) \in Int
      /\ Sends(e) \in Nat
  BY Numbering
<1>5. First(e) <= Front(e) /\ out[e][1] = Numbered(e, Front(e) + 1 - 1)
  BY <1>3 DEF DirectionInv, QueueInv
<1>6. Front(e) \in Nat /\ Head(out[e]) = Numbered(e, Front(e))
  BY <1>3, <1>4, <1>5
<1>7. Front(e) < Last(e)
  BY <1>3, <1>4 DEF Front, Posted
<1>8. Head(out[e]).body = Front(e)
  BY <1>6 DEF Numbered
<1>9. CASE writes[e] = <<Header(Head(out[e]))>>
  <2>1. Head(writes[e]) = Header(Head(out[e])) /\ Tail(writes[e]) = <<>>
    BY <1>9, OneFacts
  <2>2. /\ Head(writes[e]).part = "header" /\ Head(writes[e]).msg = Head(out[e])
    BY <2>1 DEF Header
  <2>3. WriteAt(e) = HeaderAt(Front(e))
    BY <2>2 DEF WriteAt
  <2>4. ChunkAt(e, WriteAt(e), Head(writes[e]))
    BY <1>6, <1>8, <2>2, <2>3 DEF ChunkAt
  <2> QED
    BY <1>3, <1>6, <1>7, <1>8, <2>1, <2>2, <2>3, <2>4 DEF HeaderAt
<1>10. CASE writes[e] = <<Body(Head(out[e]))>> /\ Head(out[e]).body # NoBody
  <2>1. Head(writes[e]) = Body(Head(out[e])) /\ Tail(writes[e]) = <<>>
    BY <1>10, OneFacts
  <2>2. /\ Head(writes[e]).part = "body" /\ Head(writes[e]).msg = Head(out[e])
    BY <2>1 DEF Body
  <2>3. WriteAt(e) = BodyAt(Front(e))
    BY <2>2 DEF WriteAt
  <2>4. ChunkAt(e, WriteAt(e), Head(writes[e]))
    BY <1>6, <1>8, <1>10, <2>2, <2>3 DEF ChunkAt
  <2> QED
    BY <1>3, <1>6, <1>7, <1>8, <1>10, <2>1, <2>2, <2>3, <2>4, SMTT(30) DEF BodyAt, NoBody
<1> QED
  BY <1>2, <1>9, <1>10

\* The next chunk has been written: the stream is one place longer.
LEMMA StreamWritten ==
  ASSUME Types, NEW e \in End, DirectionInv(e), writes[e] # <<>>, sock[e] = "open",
         Transmit(e),
         WriteAt(e)' = WriteAt(e) + 1,
         UNCHANGED <<sock[e], sent[e]>>,
         UNCHANGED <<fin[Peer(e)], reading[Peer(e)], got[Peer(e)]>>
  PROVE  StreamInv(e)'
<1> DEFINE chunk == Head(writes[e])
<1>1. /\ ChunkAt(e, WriteAt(e), chunk)
      /\ chunk.msg.body = Front(e) /\ Front(e) < Last(e)
      /\ chunk \in Chunk /\ WriteAt(e) \in Nat
  BY WrittenAt
<1> SUFFICES ASSUME ~ fin[Peer(e)] PROVE StreamInv(e)'
  BY DEF StreamInv
<1> HIDE DEF chunk
<1>2. wire[e] \in Seq(Chunk) /\ wire'[e] = Append(wire[e], chunk)
  BY DEF Types, Transmit, chunk
<1>3. /\ Len(wire'[e]) = Len(wire[e]) + 1 /\ Len(wire[e]) \in Nat
      /\ \A i \in 1 .. Len(wire[e]) : wire'[e][i] = wire[e][i]
      /\ wire'[e][Len(wire[e]) + 1] = chunk
  BY <1>1, <1>2, AppendFacts
<1>4. ReadAt(e)' = ReadAt(e) /\ Last(e)' = Last(e) /\ ReadAt(e) \in Int
  BY Numbering, SMTT(30) DEF ReadAt, Due, Last, HeaderAt, BodyAt
<1>5. ReadAt(e) + Len(wire[e]) = WriteAt(e)
  BY DEF DirectionInv, StreamInv, IsConnected
<1>6. ASSUME NEW i \in 1 .. (Len(wire[e]) + 1)
      PROVE  /\ ChunkAt(e, ReadAt(e) + i - 1, wire'[e][i])
             /\ wire'[e][i].msg.body < Last(e)
  <2>1. CASE i \in 1 .. Len(wire[e])
    BY <1>3, <2>1 DEF DirectionInv, StreamInv
  <2>2. CASE i = Len(wire[e]) + 1
    <3>1. ReadAt(e) + i - 1 = WriteAt(e)
      BY <1>3, <1>4, <1>5, <2>2
    <3> QED
      BY <1>1, <1>3, <2>2, <3>1
  <2> QED
    BY <1>3, <2>1, <2>2
<1>7. ReadAt(e) + (Len(wire[e]) + 1) = WriteAt(e) + 1
  BY <1>1, <1>3, <1>4, <1>5
<1> QED
  BY <1>3, <1>4, <1>6, <1>7 DEF StreamInv

\* The handler of write_header, for a message with a body.
LEMMA WriteHeaderKeeps ==
  ASSUME Types, NEW e \in End, DirectionInv(e), writes[e] # <<>>, sock[e] = "open",
         Head(writes[e]).part = "header", Head(out[e]).body # NoBody,
         Transmit(e),
         writes'[e] = Append(Tail(writes[e]), Body(Head(out[e]))),
         UNCHANGED <<sock[e], posted[e], out[e], sent[e]>>,
         UNCHANGED <<fin[Peer(e)], reading[Peer(e)], temp[Peer(e)], got[Peer(e)]>>
  PROVE  DirectionInv(e)'
<1>1. /\ Front(e) \in Nat /\ Head(out[e]).body = Front(e) /\ Tail(writes[e]) = <<>>
  BY WrittenAt
<1>2. writes'[e] = <<Body(Head(out[e]))>> /\ Head(writes'[e]) = Body(Head(out[e]))
      /\ writes'[e] # <<>>
  BY <1>1, OneFacts
<1>3. Head(writes'[e]).part = "body"
  <2>1. Body(Head(out[e])).part = "body"
    BY DEF Body
  <2> QED
    BY <1>2, <2>1
<1>4. /\ Closing(e)' = Closing(e) /\ Sends(e)' = Sends(e) /\ Last(e)' = Last(e)
      /\ Posted(e)' = Posted(e) /\ Front(e)' = Front(e) /\ Due(e)' = Due(e)
  BY DEF Closing, Sends, Last, Posted, Front, Due
<1>5. WriteAt(e)' = WriteAt(e) + 1
  BY <1>1, <1>2, <1>3, <1>4 DEF WriteAt, HeaderAt, BodyAt, NoBody
<1>6. StreamInv(e)'
  BY <1>5, StreamWritten
<1>7. WriteInv(e)'
  BY <1>2 DEF DirectionInv, WriteInv
<1>8. HistoryInv(e)' /\ QueueInv(e)' /\ ReadInv(e)'
  BY <1>4 DEF DirectionInv, HistoryInv, QueueInv, ReadInv
<1> QED
  BY <1>6, <1>7, <1>8 DEF DirectionInv

\* The handler that has written the end of a message.
LEMMA PopKeeps ==
  ASSUME Types, NEW e \in End, DirectionInv(e), writes[e] # <<>>, sock[e] = "open",
         Head(writes[e]).part = "body" \/ Head(out[e]).body = NoBody,
         Transmit(e), PopAndWriteNext(e),
         UNCHANGED <<sock[e], posted[e], sent[e]>>,
         UNCHANGED <<fin[Peer(e)], reading[Peer(e)], temp[Peer(e)], got[Peer(e)]>>
  PROVE  DirectionInv(e)'
<1>1. /\ Front(e) \in Nat /\ Head(out[e]).body = Front(e) /\ Tail(writes[e]) = <<>>
      /\ Head(writes[e]).part = "body" => Front(e) # 0
  BY WrittenAt
<1>2. out[e] \in Seq(Message) /\ out[e] # <<>>
  BY DEF Types, DirectionInv, WriteInv
<1>3. out'[e] = Tail(out[e])
  BY DEF PopAndWriteNext, Types
<1>4. writes'[e] = IF out'[e] = <<>> THEN <<>> ELSE <<Header(Head(out'[e]))>>
  <2> DEFINE next == IF out'[e] = <<>> THEN <<>> ELSE <<Header(Head(out'[e]))>>
  <2>1. writes'[e] = Tail(writes[e]) \o next
    BY <1>3 DEF PopAndWriteNext, Types
  <2>2. <<>> \o next = next
    OBVIOUS
  <2> QED
    BY <1>1, <2>1, <2>2
<1>5. /\ out'[e] \in Seq(Message)
      /\ Len(out[e]) \in Nat \ {0} /\ Len(out'[e]) = Len(out[e]) - 1
      /\ \A i \in 1 .. Len(out'[e]) : out'[e][i] = out[e][i + 1]
  BY <1>2, <1>3, TailFacts
<1>6. /\ Closing(e)' = Closing(e) /\ Sends(e)' = Sends(e) /\ Last(e)' = Last(e)
      /\ Posted(e)' = Posted(e) /\ Due(e)' = Due(e)
  BY DEF Closing, Sends, Last, Posted, Due
<1>7. Front(e)' = Front(e) + 1 /\ Posted(e) \in Int
  <2>1. Posted(e) \in Int /\ Len(out'[e]) = Len(out[e]) - 1 /\ Len(out[e]) \in Nat
    BY <1>5, Numbering
  <2> QED
    BY <1>6, <2>1 DEF Front
<1>8. writes'[e] = <<>> \/ Head(writes'[e]).part = "header"
  <2>1. CASE out'[e] # <<>>
    <3>1. Head(writes'[e]) = Header(Head(out'[e]))
      BY <1>4, <2>1, OneFacts
    <3> QED
      BY <3>1, ChunkParts
  <2> QED
    BY <1>4, <2>1
<1>9. WriteAt(e)' = WriteAt(e) + 1
  <2>1. WriteAt(e)' = HeaderAt(Front(e) + 1)
    BY <1>7, <1>8 DEF WriteAt
  <2>2. CASE Head(writes[e]).part = "body"
    <3>1. WriteAt(e) = 2 * Front(e) + 1
      BY <2>2 DEF WriteAt, BodyAt
    <3>2. HeaderAt(Front(e) + 1) = 2 * (Front(e) + 1)
      BY <1>1 DEF HeaderAt
    <3> QED
      BY <1>1, <2>1, <3>1, <3>2
  <2>3. CASE Head(writes[e]).part # "body"
    <3>1. Front(e) = 0
      BY <1>1, <2>3 DEF NoBody
    <3> QED
      BY <2>1, <2>3, <3>1 DEF WriteAt, HeaderAt
  <2> QED
    BY <2>2, <2>3
<1>10. StreamInv(e)'
  BY <1>9, StreamWritten
<1>11. WriteInv(e)'
  BY <1>4 DEF WriteInv
<1>12. QueueInv(e)'
  <2>1. ASSUME NEW i \in 1 .. Len(out'[e])
        PROVE  out'[e][i] = Numbered(e, (Front(e) + 1) + i - 1)
    <3>1. i + 1 \in 1 .. Len(out[e])
      BY <1>5
    <3>2. Front(e) + (i + 1) - 1 = (Front(e) + 1) + i - 1
      BY <1>1, <1>5
    <3>3. out[e][i + 1] = Numbered(e, Front(e) + (i + 1) - 1)
      BY <3>1 DEF DirectionInv, QueueInv
    <3> QED
      BY <1>5, <3>2, <3>3
  <2>2. First(e) \in Nat /\ First(e) <= Front(e)
    BY Numbering DEF DirectionInv, QueueInv
  <2> QED
    BY <1>1, <1>6, <1>7, <2>1, <2>2 DEF DirectionInv, QueueInv
<1>13. HistoryInv(e)' /\ ReadInv(e)'
  BY <1>6 DEF DirectionInv, HistoryInv, ReadInv
<1> QED
  BY <1>10, <1>11, <1>12, <1>13 DEF DirectionInv

\* What is next to be read.
LEMMA HeadOnWire ==
  ASSUME Types, NEW e \in End, DirectionInv(e), ~ fin[Peer(e)], wire[e] # <<>>
  PROVE  /\ Head(wire[e]) \in Chunk
         /\ Head(wire[e]).msg = Numbered(e, Due(e))
         /\ Head(wire[e]).part = IF reading[Peer(e)] = "body" THEN "body" ELSE "header"
         /\ Due(e) \in Nat /\ Due(e) < Last(e)
<1> DEFINE chunk == Head(wire[e])
           b == chunk.msg.body
<1>1. wire[e] \in Seq(Chunk) /\ Len(wire[e]) \in Nat \ {0} /\ chunk = wire[e][1]
      /\ chunk \in Chunk
  BY TailFacts DEF Types
<1>2. First(e) \in Nat /\ Due(e) \in Nat /\ Last(e) \in Nat /\ ReadAt(e) \in Nat
  BY Numbering DEF ReadAt, HeaderAt, BodyAt
<1>3. ChunkAt(e, ReadAt(e) + 1 - 1, chunk) /\ b < Last(e)
  BY <1>1 DEF DirectionInv, StreamInv
<1>4. b \in Nat
  <2>1. chunk.msg \in Message
    BY <1>1 DEF Chunk
  <2> QED
    BY <2>1, ConnectionAssumption DEF Message
<1> HIDE DEF b
<1>5. /\ chunk.msg = Numbered(e, b)
      /\ \/ chunk.part = "header" /\ ReadAt(e) = HeaderAt(b)
         \/ chunk.part = "body" /\ b # 0 /\ ReadAt(e) = BodyAt(b)
  BY <1>2, <1>3 DEF ChunkAt, b, NoBody
<1> HIDE DEF chunk
<1>6. CASE reading[Peer(e)] = "body"
  <2>1. ReadAt(e) = 2 * Due(e) + 1 /\ Due(e) # 0
    BY <1>6 DEF ReadAt, BodyAt, DirectionInv, ReadInv
  <2>2. b = Due(e) /\ chunk.part = "body"
    BY <1>2, <1>4, <1>5, <2>1 DEF HeaderAt, BodyAt
  <2> QED
    BY <1>1, <1>2, <1>3, <1>5, <1>6, <2>2 DEF chunk, b
<1>7. CASE reading[Peer(e)] # "body"
  <2>1. ReadAt(e) = HeaderAt(Due(e))
    BY <1>7 DEF ReadAt
  <2>2. b = Due(e) /\ chunk.part = "header"
    BY <1>2, <1>4, <1>5, <2>1 DEF HeaderAt, BodyAt
  <2> QED
    BY <1>1, <1>2, <1>3, <1>5, <1>7, <2>2 DEF chunk, b
<1> QED
  BY <1>6, <1>7

\* The next chunk has been read: the stream starts one place later.
LEMMA StreamRead ==
  ASSUME Types, NEW e \in End, DirectionInv(e), ~ fin[Peer(e)], wire[e] # <<>>,
         wire'[e] = Tail(wire[e]),
         ReadAt(e)' = ReadAt(e) + 1,
         UNCHANGED <<sock[e], posted[e], out[e], writes[e], sent[e]>>
  PROVE  StreamInv(e)'
<1>1. wire[e] \in Seq(Chunk)
  BY DEF Types
<1>2. /\ Len(wire[e]) \in Nat \ {0} /\ Len(wire'[e]) = Len(wire[e]) - 1
      /\ \A i \in 1 .. Len(wire'[e]) : wire'[e][i] = wire[e][i + 1]
  BY <1>1, TailFacts
<1>3. Last(e)' = Last(e) /\ WriteAt(e)' = WriteAt(e)
  BY DEF Last, WriteAt, Front, Posted, Sends, Closing
<1>4. ReadAt(e) \in Nat /\ WriteAt(e) \in Int
  BY Numbering, SMTT(30) DEF ReadAt, WriteAt, HeaderAt, BodyAt
<1>5. ASSUME NEW i \in 1 .. Len(wire'[e])
      PROVE  /\ ChunkAt(e, (ReadAt(e) + 1) + i - 1, wire'[e][i])
             /\ wire'[e][i].msg.body < Last(e)
  <2>1. i + 1 \in 1 .. Len(wire[e]) /\ ReadAt(e) + (i + 1) - 1 = (ReadAt(e) + 1) + i - 1
    BY <1>2, <1>4
  <2>2. /\ ChunkAt(e, ReadAt(e) + (i + 1) - 1, wire[e][i + 1])
        /\ wire[e][i + 1].msg.body < Last(e)
    BY <2>1 DEF DirectionInv, StreamInv
  <2> QED
    BY <1>2, <2>1, <2>2
<1>6. IsConnected(e)' => (ReadAt(e) + 1) + Len(wire'[e]) = WriteAt(e)
  <2>1. IsConnected(e) => ReadAt(e) + Len(wire[e]) = WriteAt(e)
    BY DEF DirectionInv, StreamInv
  <2> QED
    BY <1>2, <1>4, <2>1 DEF IsConnected
<1> QED
  BY <1>3, <1>5, <1>6 DEF StreamInv

\* The handler of read_header, for a message with a body.
LEMMA ReadHeaderKeeps ==
  ASSUME Types, NEW e \in End, DirectionInv(e), ~ fin[Peer(e)], wire[e] # <<>>,
         reading[Peer(e)] = "header", Head(wire[e]).msg.body # NoBody,
         wire'[e] = Tail(wire[e]),
         reading'[Peer(e)] = "body", temp'[Peer(e)].id = Head(wire[e]).msg.id,
         UNCHANGED <<sock[e], posted[e], out[e], writes[e], sent[e]>>,
         UNCHANGED <<fin[Peer(e)], got[Peer(e)]>>
  PROVE  DirectionInv(e)'
<1>1. /\ Head(wire[e]).msg = Numbered(e, Due(e))
      /\ Due(e) \in Nat /\ Due(e) < Last(e)
  BY HeadOnWire
<1>2. Due(e) # 0
  BY <1>1 DEF Numbered, NoBody
<1>3. /\ Closing(e)' = Closing(e) /\ Sends(e)' = Sends(e) /\ Last(e)' = Last(e)
      /\ Posted(e)' = Posted(e) /\ Front(e)' = Front(e) /\ Due(e)' = Due(e)
  BY DEF Closing, Sends, Last, Posted, Front, Due
<1>4. ReadAt(e)' = ReadAt(e) + 1
  BY <1>1, <1>2, <1>3 DEF ReadAt, HeaderAt, BodyAt
<1>5. StreamInv(e)'
  BY <1>4, StreamRead
<1>6. ReadInv(e)'
  BY <1>1, <1>2, <1>3 DEF ReadInv
<1>7. HistoryInv(e)' /\ QueueInv(e)' /\ WriteInv(e)'
  BY <1>3 DEF DirectionInv, HistoryInv, QueueInv, WriteInv, IsConnected
<1> QED
  BY <1>5, <1>6, <1>7 DEF DirectionInv

\* The handler that has read the end of a message.
LEMMA DeliverKeeps ==
  ASSUME Types, NEW e \in End, DirectionInv(e), ~ fin[Peer(e)], wire[e] # <<>>,
         reading[Peer(e)] = "body" \/ Head(wire[e]).msg.body = NoBody,
         NEW m, m = Numbered(e, Due(e)),
         wire'[e] = Tail(wire[e]),
         got'[Peer(e)] = Append(got[Peer(e)], m), m \in Message,
         reading'[Peer(e)] = "header",
         UNCHANGED <<sock[e], posted[e], out[e], writes[e], sent[e]>>,
         UNCHANGED fin[Peer(e)]
  PROVE  DirectionInv(e)'
<1> DEFINE p == Peer(e)
<1>1. /\ Head(wire[e]).msg = Numbered(e, Due(e))
      /\ Due(e) \in Nat /\ Due(e) < Last(e)
  BY HeadOnWire
<1>2. got[p] \in Seq(Message) /\ First(e) \in Nat /\ Len(sent[e]) \in Nat
  BY Ends, Numbering DEF Types
<1>3. /\ Len(got[p]) \in Nat /\ Len(got'[p]) = Len(got[p]) + 1
      /\ \A i \in 1 .. Len(got[p]) : got'[p][i] = got[p][i]
      /\ got'[p][Len(got[p]) + 1] = m
  BY <1>2, AppendFacts
<1>4. /\ Closing(e)' = Closing(e) /\ Sends(e)' = Sends(e) /\ Last(e)' = Last(e)
      /\ Posted(e)' = Posted(e) /\ Front(e)' = Front(e)
  BY DEF Closing, Sends, Last, Posted, Front
<1>5. Due(e)' = Due(e) + 1
  BY <1>2, <1>3 DEF Due
<1>6. ReadAt(e)' = ReadAt(e) + 1
  <2>1. ReadAt(e)' = 2 * (Due(e) + 1)
    BY <1>1, <1>5 DEF ReadAt, HeaderAt
  <2>2. CASE reading[p] = "body"
    BY <1>1, <2>1, <2>2 DEF ReadAt, BodyAt
  <2>3. CASE reading[p] # "body"
    <3>1. Due(e) = 0
      BY <1>1, <2>3 DEF Numbered, NoBody
    <3> QED
      BY <2>1, <2>3, <3>1 DEF ReadAt, HeaderAt
  <2> QED
    BY <2>2, <2>3
<1>7. StreamInv(e)'
  BY <1>6, StreamRead
<1>8. HistoryInv(e)'
  <2>1. ASSUME NEW i \in 1 .. (Len(got[p]) + 1)
        PROVE  got'[p][i] = Numbered(e, First(e) + i - 1)
    <3>1. CASE i \in 1 .. Len(got[p])
      BY <1>3, <3>1 DEF DirectionInv, HistoryInv
    <3>2. CASE i = Len(got[p]) + 1
      <4>1. Due(e) = First(e) + i - 1
        BY <1>2, <1>3, <3>2 DEF Due
      <4> QED
        BY <1>3, <3>2, <4>1
    <3> QED
      BY <1>3, <3>1, <3>2
  <2>2. Len(got[p]) + 1 <= Len(sent[e])
    BY <1>1, <1>2, <1>3 DEF Due, Last
  <2> QED
    BY <1>3, <2>1, <2>2 DEF DirectionInv, HistoryInv
<1>9. QueueInv(e)' /\ WriteInv(e)' /\ ReadInv(e)'
  BY <1>4 DEF DirectionInv, QueueInv, WriteInv, ReadInv, IsConnected
<1> QED
  BY <1>7, <1>8, <1>9 DEF DirectionInv

-----------------------------------------------------------------------------
(* The inductive invariant *)

\* The initial state has its types.
LEMMA TypesInit == Init => Types
<1> SUFFICES ASSUME Init PROVE Types
  OBVIOUS
<1>1. /\ \A S : <<>> \in Seq(S)
      /\ [id |-> "accept", body |-> NoBody] \in Message
  BY ConnectionAssumption DEF Message, NoBody
<1> QED
  BY <1>1 DEF Init, Types, End

\* Nothing is posted, queued, written or read to begin with.
LEMMA InitIInv == Init => IInv
<1> SUFFICES ASSUME Init PROVE IInv
  OBVIOUS
<1>1. Types
  BY TypesInit
<1>2. ASSUME NEW e \in End PROVE DirectionInv(e)
  <2>1. /\ posted[e] = <<>> /\ out[e] = <<>> /\ writes[e] = <<>> /\ wire[e] = <<>>
        /\ sent[e] = <<>> /\ got[Peer(e)] = <<>> /\ reading[Peer(e)] = "none"
    BY <1>2, Ends DEF Init
  <2>2. Len(<<>>) = 0
    OBVIOUS
  <2>3. First(e) \in Nat /\ Sends(e) = 0 /\ ~ Closing(e)
    BY <2>1, <2>2 DEF Sends, Closing, First
  <2>4. Last(e) = First(e) /\ Posted(e) = First(e) /\ Front(e) = First(e) /\ Due(e) = First(e)
    BY <2>1, <2>2, <2>3 DEF Last, Posted, Front, Due
  <2>5. ReadAt(e) = WriteAt(e) /\ WriteAt(e) \in Nat
    BY <2>1, <2>3, <2>4 DEF ReadAt, WriteAt, HeaderAt, BodyAt
  <2> QED
    BY <2>1, <2>2, <2>3, <2>4, <2>5
       DEF DirectionInv, HistoryInv, QueueInv, WriteInv, StreamInv, ReadInv
<1>3. ServerInv /\ ClientInv
  BY ConnectionAssumption DEF Init, ServerInv, ClientInv, NoBody, End
<1> QED
  BY <1>1, <1>2, <1>3 DEF IInv

\* connect_to_server, with or without success.
LEMMA ConnectInv ==
  ASSUME IInv, ConnectOk \/ ConnectFails
  PROVE  IInv'
<1>1. /\ Types /\ ServerInv /\ ClientInv /\ \A e \in End : DirectionInv(e)
      /\ sock["client"] = "connecting"
      /\ \/ /\ sock' = [sock EXCEPT !["client"] = "open"]
            /\ reading' = [reading EXCEPT !["client"] = "header"]
         \/ sock' = [sock EXCEPT !["client"] = "failed"] /\ reading' = reading
      /\ ctx' = ctx \/ ctx' = [ctx EXCEPT !["client"] = "done"]
      /\ UNCHANGED <<fin, posted, out, writes, temp, wire, sent, got, handled>>
  BY DEF IInv, ConnectOk, ConnectFails, RunContext
<1>2. Types'
  BY <1>1 DEF Types, End
<1>3. /\ reading["client"] = "none" /\ ~ fin["client"]
      /\ sock'["client"] # "closed" /\ sock'["server"] = sock["server"]
      /\ reading'["server"] = reading["server"]
      /\ reading'["client"] \in {"none", "header"}
      /\ sock'["client"] = "failed" => reading'["client"] = "none"
      /\ sock'["client"] # "connecting"
  BY <1>1 DEF ClientInv, Types, End
<1>4. ASSUME NEW e \in End PROVE DirectionInv(e)'
  <2>1. IsConnected(e)' = IsConnected(e)
    BY <1>1, <1>3, Ends DEF IsConnected
  <2> QED
    BY <1>1, <1>3, <2>1, Ends, DirectionKept
<1>5. ServerInv' /\ ClientInv'
  BY <1>1, <1>3 DEF ServerInv, ClientInv
<1> QED
  BY <1>2, <1>4, <1>5 DEF IInv

\* wait_for_client_connection: the greeting is the first message of its direction.
LEMMA AcceptClientInv ==
  ASSUME IInv, AcceptClient
  PROVE  IInv'
<1>1. /\ Types /\ ServerInv /\ ClientInv /\ \A e \in End : DirectionInv(e)
      /\ sock["server"] = "closed" /\ ~ fin["server"]
      /\ sock' = [sock EXCEPT !["server"] = "open"]
      /\ posted' = [posted EXCEPT !["server"] = Append(@, SendHandler(Accept))]
      /\ sent' = [sent EXCEPT !["server"] = Append(@, Accept)]
      /\ reading' = [reading EXCEPT !["server"] = "header"]
      /\ UNCHANGED <<fin, ctx, out, writes, temp, wire, got, handled>>
  BY DEF IInv, AcceptClient
<1>2. Accept \in Message /\ SendHandler(Accept) \in Handler
  BY ConnectionAssumption DEF Accept, Message, SendHandler, Handler, NoBody
<1>3. /\ posted'["server"] = Append(posted["server"], SendHandler(Accept))
      /\ sent'["server"] = Append(sent["server"], Accept)
      /\ sent'["client"] = sent["client"] /\ posted'["client"] = posted["client"]
      /\ sock'["server"] = "open" /\ sock'["client"] = sock["client"]
      /\ reading'["server"] = "header" /\ reading'["client"] = reading["client"]
  BY <1>1 DEF Types, End
<1>4. /\ posted["server"] \in Seq(Handler) /\ sent["server"] \in Seq(Message)
  BY <1>1 DEF Types, End
<1>5. /\ posted'["server"] \in Seq(Handler) /\ sent'["server"] \in Seq(Message)
      /\ sent'["server"] # <<>>
  BY <1>2, <1>3, <1>4, AppendFacts
<1>6. Types'
  BY <1>1, <1>5 DEF Types, End
<1>7. /\ sent["server"] = <<>> /\ reading["server"] = "none"
      /\ posted["server"] = <<>> /\ out["server"] = <<>> /\ writes["server"] = <<>>
      /\ wire["server"] = <<>> /\ got["server"] = <<>>
  BY <1>1 DEF ServerInv
<1>8. Len(sent'["server"]) = 1 /\ handled \in Nat /\ Len(<<>>) = 0
  BY <1>2, <1>3, <1>4, <1>7, AppendFacts, OneFacts, <1>1 DEF Types
<1>9. DirectionInv("server")'
  <2>1. "server" \in End /\ ~ Closing("server") /\ Peer("server") = "client"
    BY <1>7, Ends DEF Closing, End
  <2>2. Last("server") = 0
    BY <1>7, <1>8 DEF Last, First
  <2>3. Accept = Numbered("server", Last("server"))
    BY <2>2 DEF Accept, Numbered, NoBody
  <2>4. reading["client"] # "body"
    BY <1>1, <2>1, <2>2, Numbering DEF DirectionInv, ReadInv
  <2> QED
    BY <1>1, <1>2, <1>3, <1>7, <2>1, <2>3, <2>4, SendKeeps
<1>10. DirectionInv("client")'
  <2>1. "client" \in End /\ Peer("client") = "server"
    BY Ends DEF End
  <2>2. IsConnected("client")' = IsConnected("client")
    BY <1>3 DEF IsConnected
  <2> QED
    BY <1>1, <1>3, <1>7, <2>1, <2>2, DirectionKept
<1>11. ServerInv'
  <2>1. handled = 0
    BY <1>1, <1>7, <1>8 DEF ServerInv
  <2> QED
    BY <1>1, <1>3, <1>5, <1>7, <1>8, <2>1 DEF ServerInv
<1>12. ClientInv'
  BY <1>1, <1>3 DEF ClientInv
<1> QED
  BY <1>6, <1>9, <1>10, <1>11, <1>12, Ends DEF IInv

\* What an application thread sends on a connection.
LEMMA ApplicationSends ==
  ASSUME IInv, NEW e \in End, ~ Closing(e), NEW m \in Message, m = Numbered(e, Last(e)),
         posted' = [posted EXCEPT ![e] = Append(@, SendHandler(m))],
         sent' = [sent EXCEPT ![e] = Append(@, m)],
         UNCHANGED <<sock, fin, ctx, out, writes, reading, temp, wire, got>>,
         handled' \in Nat
  PROVE  /\ Types' /\ \A d \in End : DirectionInv(d)'
         /\ Len(sent'[e]) = Len(sent[e]) + 1 /\ sent'[e] # <<>>
         /\ sent'[Peer(e)] = sent[Peer(e)] /\ posted'[Peer(e)] = posted[Peer(e)]
<1>1. Types /\ \A d \in End : DirectionInv(d)
  BY DEF IInv
<1>2. SendHandler(m) \in Handler
  BY DEF SendHandler, Handler
<1>3. /\ posted[e] \in Seq(Handler) /\ sent[e] \in Seq(Message)
      /\ posted'[e] = Append(posted[e], SendHandler(m)) /\ sent'[e] = Append(sent[e], m)
      /\ sent'[Peer(e)] = sent[Peer(e)] /\ posted'[Peer(e)] = posted[Peer(e)]
  BY <1>1, Ends DEF Types
<1>4. /\ posted'[e] \in Seq(Handler) /\ sent'[e] \in Seq(Message)
      /\ Len(sent'[e]) = Len(sent[e]) + 1 /\ sent'[e] # <<>>
  BY <1>2, <1>3, AppendFacts
<1>5. Types'
  <2>1. posted' \in [End -> Seq(Handler)] /\ sent' \in [End -> Seq(Message)]
    BY <1>1, <1>3, <1>4 DEF Types
  <2> QED
    BY <1>1, <2>1 DEF Types
<1>6. DirectionInv(e)'
  BY <1>1, <1>3, SendKeeps
<1>7. DirectionInv(Peer(e))'
  <2>1. Peer(e) \in End /\ IsConnected(Peer(e))' = IsConnected(Peer(e))
    BY Ends DEF IsConnected
  <2> QED
    BY <1>1, <1>3, <2>1, DirectionKept
<1> QED
  BY <1>3, <1>4, <1>5, <1>6, <1>7, Ends

\* client_interface::send
LEMMA SendRequestInv ==
  ASSUME IInv, SendRequest
  PROVE  IInv'
<1> DEFINE m == Request(Len(sent["client"]) + 1)
<1>1. Types /\ ServerInv /\ ClientInv /\ "client" \in End
  BY DEF IInv, End
<1>2. sent["client"] \in Seq(Message) /\ posted["client"] \in Seq(Handler)
  BY <1>1 DEF Types
<1>3. Len(sent["client"]) \in Nat /\ Len(sent["client"]) < MaxRequest
  BY <1>2 DEF SendRequest
<1>4. m \in Message
  BY <1>3, ConnectionAssumption DEF Request, Message
<1>5. m = Numbered("client", Last("client"))
  BY DEF Request, Numbered, Last, First
<1>6. ~ Closing("client")
  <2>1. posted["client"] # <<>> => Len(posted["client"]) \in DOMAIN posted["client"]
    BY <1>2, TailFacts
  <2> QED
    BY <2>1 DEF SendRequest, Leaving, Closing
<1>7. /\ posted' = [posted EXCEPT !["client"] = Append(@, SendHandler(m))]
      /\ sent' = [sent EXCEPT !["client"] = Append(@, m)]
      /\ UNCHANGED <<sock, fin, ctx, out, writes, reading, temp, wire, got, handled>>
      /\ handled' \in Nat
  BY <1>1 DEF SendRequest, Types
<1> HIDE DEF m
<1>8. /\ Types' /\ \A d \in End : DirectionInv(d)'
      /\ Len(sent'["client"]) = Len(sent["client"]) + 1
      /\ sent'["server"] = sent["server"] /\ posted'["server"] = posted["server"]
  BY <1>1, <1>4, <1>5, <1>6, <1>7, Ends, ApplicationSends
<1>9. ServerInv'
  BY <1>1, <1>7, <1>8 DEF ServerInv
<1>10. ClientInv'
  BY <1>1, <1>3, <1>7, <1>8, ConnectionAssumption DEF ClientInv
<1> QED
  BY <1>8, <1>9, <1>10 DEF IInv

\* The reply has the number of the request that is next.
LEMMA OnMessageInv ==
  ASSUME IInv, OnMessage
  PROVE  IInv'
<1> DEFINE m == Reply(got["server"][handled + 1])
<1>1. /\ Types /\ ServerInv /\ ClientInv /\ "server" \in End /\ "client" \in End
      /\ DirectionInv("server") /\ DirectionInv("client")
  BY DEF IInv, End
<1>2. /\ got["server"] \in Seq(Message) /\ sent["server"] \in Seq(Message) /\ handled \in Nat
      /\ Peer("client") = "server"
  BY <1>1, Ends DEF Types
<1>3. handled < Len(got["server"]) /\ Len(got["server"]) \in Nat
      /\ handled + 1 \in 1 .. Len(got["server"])
  BY <1>2 DEF OnMessage
<1>4. got["server"][handled + 1] = Numbered("client", handled + 1)
      /\ got["server"][handled + 1] \in Message
  <2>1. got["server"][handled + 1] = Numbered("client", First("client") + (handled + 1) - 1)
    BY <1>1, <1>2, <1>3 DEF DirectionInv, HistoryInv
  <2>2. First("client") + (handled + 1) - 1 = handled + 1
    BY <1>2 DEF First
  <2> QED
    BY <1>2, <1>3, <2>1, <2>2
<1>5. sent["server"] # <<>> /\ Len(sent["server"]) = handled + 1
  <2>1. got["server"] # <<>>
    BY <1>2, <1>3, EmptyFacts
  <2> QED
    BY <1>1, <2>1 DEF ServerInv
<1>6. Last("server") = handled + 1
  BY <1>2, <1>5 DEF Last, First
<1>7. m \in Message /\ m = Numbered("server", Last("server"))
  <2>1. m = [id |-> "reply", body |-> handled + 1]
    BY <1>4 DEF Reply, Numbered
  <2>2. handled + 1 \in 0 .. MaxRequest
    BY <1>4 DEF Message, Numbered
  <2> QED
    BY <1>2, <1>6, <2>1, <2>2 DEF Numbered, Message
<1>8. ~ Closing("server")
  BY <1>1 DEF DirectionInv, QueueInv
<1>9. /\ posted' = [posted EXCEPT !["server"] = Append(@, SendHandler(m))]
      /\ sent' = [sent EXCEPT !["server"] = Append(@, m)]
      /\ handled' = handled + 1 /\ handled' \in Nat
      /\ UNCHANGED <<sock, fin, ctx, out, writes, reading, temp, wire, got>>
  BY <1>2 DEF OnMessage
<1> HIDE DEF m
<1>10. /\ Types' /\ \A d \in End : DirectionInv(d)'
       /\ Len(sent'["server"]) = Len(sent["server"]) + 1 /\ sent'["server"] # <<>>
       /\ sent'["client"] = sent["client"] /\ posted'["client"] = posted["client"]
  BY <1>1, <1>7, <1>8, <1>9, Ends, ApplicationSends
<1>11. ServerInv'
  BY <1>1, <1>2, <1>3, <1>5, <1>9, <1>10 DEF ServerInv
<1>12. ClientInv'
  BY <1>1, <1>9, <1>10 DEF ClientInv
<1> QED
  BY <1>10, <1>11, <1>12 DEF IInv

\* client_interface::disconnect posts a close as the last handler.
LEMMA DisconnectInv ==
  ASSUME IInv, Disconnect
  PROVE  IInv'
<1>1. /\ Types /\ ServerInv /\ ClientInv /\ \A d \in End : DirectionInv(d)
      /\ "client" \in End /\ "server" \in End
      /\ Peer("client") = "server" /\ Peer("server") = "client"
      /\ posted' = [posted EXCEPT !["client"] = Append(@, CloseHandler)]
      /\ UNCHANGED <<sock, fin, ctx, out, writes, reading, temp, wire, sent, got, handled>>
  BY Ends DEF IInv, Disconnect, End
<1>2. posted["client"] \in Seq(Handler) /\ CloseHandler \in Handler
  BY <1>1 DEF Types, CloseHandler, Handler
<1>3. ~ Closing("client")
  <2>1. posted["client"] # <<>> => Len(posted["client"]) \in DOMAIN posted["client"]
    BY <1>2, TailFacts
  <2> QED
    BY <2>1 DEF Disconnect, Leaving, Closing
<1>4. /\ posted'["client"] = Append(posted["client"], CloseHandler)
      /\ posted'["client"] \in Seq(Handler)
      /\ posted'["server"] = posted["server"]
      /\ posted' \in [End -> Seq(Handler)]
  <2>1. Append(posted["client"], CloseHandler) \in Seq(Handler)
    BY <1>2, AppendFacts
  <2> QED
    BY <1>1, <2>1 DEF Types, End
<1>5. Types'
  BY <1>1, <1>4 DEF Types
<1>6. DirectionInv("client")'
  BY <1>1, <1>3, <1>4, PostCloseKeeps
<1>7. DirectionInv("server")'
  BY <1>1, <1>4, DirectionKept DEF IsConnected
<1>8. ServerInv' /\ ClientInv'
  BY <1>1, <1>4 DEF ServerInv, ClientInv
<1> QED
  BY <1>5, <1>6, <1>7, <1>8, Ends DEF IInv

\* client_interface::disconnect stops the context.
LEMMA StopContextInv ==
  ASSUME IInv, StopContext
  PROVE  IInv'
<1>1. /\ Types /\ ServerInv /\ ClientInv /\ \A d \in End : DirectionInv(d)
      /\ ctx' = [ctx EXCEPT !["client"] = "done"]
      /\ UNCHANGED <<sock, fin, posted, out, writes, reading, temp, wire, sent, got, handled>>
  BY DEF IInv, StopContext
<1>2. Types'
  BY <1>1 DEF Types
<1>3. \A d \in End : DirectionInv(d)'
  BY <1>1, DirectionKept DEF IsConnected
<1>4. ServerInv' /\ ClientInv'
  BY <1>1 DEF ServerInv, ClientInv
<1> QED
  BY <1>2, <1>3, <1>4 DEF IInv

\* An end closes its socket, with an error or because it was asked to.
LEMMA CloseSocketInv ==
  ASSUME IInv, NEW e \in End, CloseSocket(e),
         \/ posted' = posted
         \/ /\ posted[e] # <<>> /\ Head(posted[e]).op = "close"
            /\ posted' = [posted EXCEPT ![e] = Tail(@)],
         ctx' \in [End -> {"running", "done"}],
         UNCHANGED <<out, temp, wire, sent, got, handled>>
  PROVE  IInv'
<1>1. /\ Types /\ ServerInv /\ ClientInv /\ \A d \in End : DirectionInv(d)
      /\ Peer(e) \in End /\ Peer(e) # e /\ Peer(Peer(e)) = e
  BY Ends DEF IInv
<1>2. /\ posted[e] \in Seq(Handler)
      /\ posted[e] # <<>> => Tail(posted[e]) \in Seq(Handler)
  BY <1>1, TailFacts DEF Types
<1>3. /\ posted' \in [End -> Seq(Handler)]
      /\ \/ posted'[e] = posted[e]
         \/ posted[e] # <<>> /\ Head(posted[e]).op = "close" /\ posted'[e] = Tail(posted[e])
      /\ posted'[Peer(e)] = posted[Peer(e)]
  BY <1>1, <1>2 DEF Types
<1>4. /\ sock'[e] = "closed" /\ sock'[Peer(e)] = sock[Peer(e)]
      /\ fin'[e] = (fin[e] \/ sock[e] # "failed") /\ fin'[Peer(e)] = fin[Peer(e)]
      /\ reading'[e] = "none" /\ reading'[Peer(e)] = reading[Peer(e)]
      /\ writes'[e] = <<>> /\ writes'[Peer(e)] = writes[Peer(e)]
  BY <1>1 DEF CloseSocket, Types
<1>5. Types'
  <2>1. <<>> \in Seq(Chunk)
    OBVIOUS
  <2>2. (fin[e] \/ sock[e] # "failed") \in BOOLEAN
    OBVIOUS
  <2>3. fin' \in [End -> BOOLEAN]
    BY <1>1, <2>2 DEF CloseSocket, Types
  <2> QED
    BY <1>1, <1>3, <2>1, <2>3 DEF CloseSocket, Types
<1>6. DirectionInv(e)'
  BY <1>1, <1>3, <1>4, CloseKeeps
<1>7. DirectionInv(Peer(e))'
  <2>1. CASE fin'[e]
    BY <1>1, <1>3, <1>4, <2>1, ReceiverCloseKeeps
  <2>2. CASE ~ fin'[e]
    <3>1. sock[e] = "failed" /\ ~ fin[e] /\ fin'[e] = fin[e]
      BY <1>1, <1>4, <2>2 DEF Types
    <3>2. reading[e] = "none"
      BY <1>1, <3>1, Ends DEF ServerInv, ClientInv
    <3> QED
      BY <1>1, <1>3, <1>4, <3>1, <3>2, DirectionKept DEF IsConnected
  <2> QED
    BY <2>1, <2>2
<1>8. ServerInv' /\ ClientInv'
  <2>1. CASE e = "client"
    <3>1. Peer(e) = "server"
      BY <2>1, Ends
    <3> QED
      BY <1>1, <1>3, <1>4, <2>1, <3>1 DEF ServerInv, ClientInv
  <2>2. CASE e = "server"
    <3>1. Peer(e) = "client" /\ fin'["server"]
      BY <1>1, <1>4, <2>2, Ends DEF ServerInv
    <3>2. ServerInv'
      BY <1>1, <1>3, <1>4, <2>2, <3>1 DEF ServerInv
    <3>3. ClientInv'
      BY <1>1, <1>3, <1>4, <2>2, <3>1 DEF ClientInv
    <3> QED
      BY <3>2, <3>3
  <2> QED
    BY <2>1, <2>2, Ends
<1> QED
  BY <1>5, <1>6, <1>7, <1>8, Ends DEF IInv

\* A context that has run out of work is done.
LEMMA ContextTyped ==
  ASSUME Types, NEW e \in End, RunContext(e)
  PROVE  ctx' \in [End -> {"running", "done"}]
BY DEF Types, RunContext

\* The handlers that close a socket.
LEMMA ClosingInv ==
  ASSUME IInv, NEW e \in End, ServerDies \/ RunClose(e) \/ WriteFails(e) \/ ReadFails(e)
  PROVE  IInv'
<1>1. Types
  BY DEF IInv
<1>2. CASE ServerDies
  <2>1. ctx' \in [End -> {"running", "done"}] /\ "server" \in End
    BY <1>1, <1>2 DEF ServerDies, Types, End
  <2> QED
    BY <1>2, <2>1, CloseSocketInv DEF ServerDies
<1>3. CASE RunClose(e)
  BY <1>1, <1>3, ContextTyped, CloseSocketInv DEF RunClose
<1>4. CASE WriteFails(e)
  BY <1>1, <1>4, ContextTyped, CloseSocketInv DEF WriteFails
<1>5. CASE ReadFails(e)
  BY <1>1, <1>5, ContextTyped, CloseSocketInv DEF ReadFails
<1> QED
  BY <1>2, <1>3, <1>4, <1>5

\* A step of a sender that leaves the sockets and its peer alone.
LEMMA SenderStep ==
  ASSUME IInv, NEW e \in End, DirectionInv(e)',
         posted' \in [End -> Seq(Handler)], out' \in [End -> Seq(Message)],
         writes' \in [End -> Seq(Chunk)], wire' \in [End -> Seq(Chunk)],
         ctx' \in [End -> {"running", "done"}],
         posted'[Peer(e)] = posted[Peer(e)], out'[Peer(e)] = out[Peer(e)],
         writes'[Peer(e)] = writes[Peer(e)], wire'[Peer(e)] = wire[Peer(e)],
         posted[e] # <<>> \/ writes[e] # <<>>,
         UNCHANGED <<sock, fin, reading, temp, sent, got, handled>>
  PROVE  IInv'
<1>1. /\ Types /\ ServerInv /\ ClientInv /\ \A d \in End : DirectionInv(d)
      /\ Peer(e) \in End /\ Peer(e) # e /\ Peer(Peer(e)) = e
  BY Ends DEF IInv
<1>2. Types'
  BY <1>1 DEF Types
<1>3. DirectionInv(Peer(e))'
  BY <1>1, DirectionKept DEF IsConnected
<1>4. ServerInv'
  <2>1. CASE e = "client"
    <3>1. Peer(e) = "server"
      BY <2>1, Ends
    <3> QED
      BY <1>1, <2>1, <3>1 DEF ServerInv
  <2>2. CASE e = "server"
    <3>1. sent["server"] # <<>>
      BY <1>1, <2>2 DEF ServerInv
    <3> QED
      BY <1>1, <2>2, <3>1 DEF ServerInv
  <2> QED
    BY <2>1, <2>2, Ends
<1>5. ClientInv'
  BY <1>1 DEF ClientInv
<1> QED
  BY <1>2, <1>3, <1>4, <1>5, Ends DEF IInv

\* The handler send has posted.
LEMMA RunSendInv ==
  ASSUME IInv, NEW e \in End, RunSend(e)
  PROVE  IInv'
<1> DEFINE m == Head(posted[e]).msg
<1>1. /\ Types /\ DirectionInv(e)
      /\ Peer(e) \in End /\ Peer(e) # e
      /\ posted[e] # <<>> /\ Head(posted[e]).op = "send"
      /\ posted' = [posted EXCEPT ![e] = Tail(@)]
      /\ out' = [out EXCEPT ![e] = Append(@, m)]
      /\ writes' = IF out[e] = <<>> THEN [writes EXCEPT ![e] = Append(@, Header(m))]
                                    ELSE writes
      /\ UNCHANGED <<sock, fin, reading, temp, wire, sent, got, handled>>
      /\ RunContext(e)
  BY Ends DEF IInv, RunSend
<1>2. posted[e] \in Seq(Handler) /\ out[e] \in Seq(Message) /\ writes[e] \in Seq(Chunk)
  BY <1>1 DEF Types
<1>3. /\ Tail(posted[e]) \in Seq(Handler) /\ Head(posted[e]) \in Handler
  BY <1>1, <1>2, TailFacts
<1>4. m \in Message /\ Header(m) \in Chunk
  BY <1>1, <1>3 DEF Handler, Header, Chunk
<1> HIDE DEF m
<1>5. Append(out[e], m) \in Seq(Message) /\ Append(writes[e], Header(m)) \in Seq(Chunk)
  BY <1>2, <1>4, AppendFacts
<1>6. /\ posted' \in [End -> Seq(Handler)] /\ out' \in [End -> Seq(Message)]
      /\ writes' \in [End -> Seq(Chunk)]
      /\ posted'[Peer(e)] = posted[Peer(e)] /\ out'[Peer(e)] = out[Peer(e)]
      /\ writes'[Peer(e)] = writes[Peer(e)]
      /\ posted'[e] = Tail(posted[e]) /\ out'[e] = Append(out[e], m)
      /\ writes'[e] = IF out[e] = <<>> THEN Append(writes[e], Header(m)) ELSE writes[e]
  BY <1>1, <1>3, <1>5 DEF Types
<1>7. DirectionInv(e)'
  BY <1>1, <1>6, RunSendKeeps DEF m
<1>8. ctx' \in [End -> {"running", "done"}] /\ wire' \in [End -> Seq(Chunk)]
  BY <1>1, ContextTyped DEF Types
<1> QED
  BY <1>1, <1>6, <1>7, <1>8, SenderStep

\* The handlers of write_header and write_body.
LEMMA WriteInvKept ==
  ASSUME IInv, NEW e \in End, WriteHeader(e) \/ WriteBody(e)
  PROVE  IInv'
<1>1. /\ Types /\ DirectionInv(e)
      /\ Peer(e) \in End /\ Peer(e) # e
      /\ sock[e] = "open" /\ writes[e] # <<>>
      /\ Transmit(e) /\ RunContext(e)
      /\ \/ /\ Head(writes[e]).part = "header" /\ Head(out[e]).body # NoBody
            /\ writes' = [writes EXCEPT ![e] = Append(Tail(@), Body(Head(out[e])))]
            /\ UNCHANGED out
         \/ /\ Head(writes[e]).part = "body" \/ Head(out[e]).body = NoBody
            /\ PopAndWriteNext(e)
      /\ UNCHANGED <<sock, fin, posted, reading, temp, sent, got, handled>>
  BY Ends DEF IInv, WriteHeader, WriteBody
<1>2. /\ out[e] \in Seq(Message) /\ writes[e] \in Seq(Chunk) /\ wire[e] \in Seq(Chunk)
      /\ out[e] # <<>>
  BY <1>1 DEF Types, DirectionInv, WriteInv
<1>3. /\ Head(out[e]) \in Message /\ Tail(out[e]) \in Seq(Message)
      /\ Head(writes[e]) \in Chunk /\ Tail(writes[e]) = <<>>
      /\ Tail(out[e]) # <<>> => Head(Tail(out[e])) \in Message
  BY <1>1, <1>2, TailFacts, WrittenAt
<1>4. \A m \in Message : Header(m) \in Chunk /\ Body(m) \in Chunk
  BY DEF Header, Body, Chunk
<1>5. wire' \in [End -> Seq(Chunk)] /\ wire'[Peer(e)] = wire[Peer(e)]
  <2>1. Append(wire[e], Head(writes[e])) \in Seq(Chunk)
    BY <1>2, <1>3, AppendFacts
  <2> QED
    BY <1>1, <2>1 DEF Transmit, Types
<1>6. ctx' \in [End -> {"running", "done"}]
  BY <1>1, ContextTyped
<1>7. CASE /\ Head(writes[e]).part = "header" /\ Head(out[e]).body # NoBody
           /\ writes' = [writes EXCEPT ![e] = Append(Tail(@), Body(Head(out[e])))]
           /\ UNCHANGED out
  <2>1. Append(Tail(writes[e]), Body(Head(out[e]))) \in Seq(Chunk)
    <3>1. Body(Head(out[e])) \in Chunk
      BY <1>3, <1>4
    <3>2. Append(<<>>, Body(Head(out[e]))) \in Seq(Chunk)
      BY <3>1, EmptySeq, AppendFacts
    <3> QED
      BY <1>3, <3>2
  <2>2. /\ writes' \in [End -> Seq(Chunk)] /\ writes'[Peer(e)] = writes[Peer(e)]
        /\ writes'[e] = Append(Tail(writes[e]), Body(Head(out[e])))
    BY <1>1, <1>7, <2>1 DEF Types
  <2>3. DirectionInv(e)'
    BY <1>1, <1>7, <2>2, WriteHeaderKeeps
  <2> QED
    BY <1>1, <1>5, <1>6, <1>7, <2>2, <2>3, SenderStep DEF Types
<1>8. CASE /\ Head(writes[e]).part = "body" \/ Head(out[e]).body = NoBody
           /\ PopAndWriteNext(e)
  <2> DEFINE next == IF Tail(out[e]) = <<>> THEN <<>> ELSE <<Header(Head(Tail(out[e])))>>
  <2>1. next \in Seq(Chunk)
    BY <1>3, <1>4
  <2>2. /\ out' = [out EXCEPT ![e] = Tail(@)]
        /\ writes' = [writes EXCEPT ![e] = Tail(@) \o next]
    BY <1>8 DEF PopAndWriteNext
  <2> HIDE DEF next
  <2>3. Tail(writes[e]) \o next \in Seq(Chunk)
    BY <1>3, <2>1, FrontFacts
  <2>4. /\ writes' \in [End -> Seq(Chunk)] /\ writes'[Peer(e)] = writes[Peer(e)]
        /\ out' \in [End -> Seq(Message)] /\ out'[Peer(e)] = out[Peer(e)]
    BY <1>1, <1>3, <2>2, <2>3 DEF Types
  <2>5. DirectionInv(e)'
    BY <1>1, <1>8, PopKeeps
  <2> QED
    BY <1>1, <1>5, <1>6, <2>4, <2>5, SenderStep DEF Types
<1> QED
  BY <1>1, <1>7, <1>8

\* A step of the receiver r that leaves the sockets and what it sends alone.
LEMMA ReceiverStep ==
  ASSUME IInv, NEW r \in End, DirectionInv(Peer(r))',
         reading[r] # "none",
         reading' \in [End -> {"none", "header", "body"}], temp' \in [End -> Message],
         wire' \in [End -> Seq(Chunk)], got' \in [End -> Seq(Message)],
         ctx' \in [End -> {"running", "done"}],
         reading'[Peer(r)] = reading[Peer(r)], temp'[Peer(r)] = temp[Peer(r)],
         wire'[r] = wire[r], got'[Peer(r)] = got[Peer(r)],
         \/ wire'[Peer(r)] = wire[Peer(r)]
         \/ wire[Peer(r)] # <<>>,
         Len(got[r]) <= Len(got'[r]),
         got'[r] = <<>> => got[r] = <<>> /\ temp'[r].body = temp[r].body,
         UNCHANGED <<sock, fin, posted, out, writes, sent, handled>>
  PROVE  IInv'
<1>1. /\ Types /\ ServerInv /\ ClientInv /\ \A d \in End : DirectionInv(d)
      /\ Peer(r) \in End /\ Peer(r) # r /\ Peer(Peer(r)) = r
  BY Ends DEF IInv
<1>2. Types'
  BY <1>1 DEF Types
<1>3. DirectionInv(r)'
  BY <1>1, DirectionKept DEF IsConnected
<1>4. ServerInv' /\ ClientInv'
  <2>1. CASE r = "client"
    <3>1. Peer(r) = "server"
      BY <2>1, Ends
    <3> QED
      BY <1>1, <2>1, <3>1 DEF ServerInv, ClientInv
  <2>2. CASE r = "server"
    <3>1. Peer(r) = "client"
      BY <2>2, Ends
    <3>2. sent["server"] # <<>>
      BY <1>1, <2>2 DEF ServerInv
    <3>3. handled <= Len(got'["server"])
      <4>1. /\ handled \in Nat /\ handled <= Len(got["server"])
            /\ Len(got["server"]) \in Nat /\ Len(got'["server"]) \in Nat
        BY <1>1, <1>2, <2>2 DEF ServerInv, Types
      <4> QED
        BY <2>2, <4>1
    <3> QED
      BY <1>1, <2>2, <3>1, <3>2, <3>3 DEF ServerInv, ClientInv
  <2> QED
    BY <2>1, <2>2, Ends
<1> QED
  BY <1>1, <1>2, <1>3, <1>4, Ends DEF IInv

\* The handler of read_header.
LEMMA ReadHeaderInv ==
  ASSUME IInv, NEW r \in End, ReadHeader(r)
  PROVE  IInv'
<1> DEFINE e == Peer(r)
           h == Head(wire[e]).msg
<1>1. /\ Types /\ DirectionInv(e) /\ ClientInv
      /\ e \in End /\ e # r /\ Peer(e) = r
      /\ reading[r] = "header" /\ wire[e] # <<>>
      /\ temp' = [temp EXCEPT ![r].id = h.id]
      /\ \/ h.body # NoBody /\ reading' = [reading EXCEPT ![r] = "body"] /\ UNCHANGED got
         \/ h.body = NoBody /\ Deliver(r, temp'[r])
      /\ wire' = [wire EXCEPT ![e] = Tail(@)]
      /\ UNCHANGED <<sock, fin, ctx, posted, out, writes, sent, handled>>
  BY Ends DEF IInv, ReadHeader
<1>2. ~ fin[r]
  BY <1>1 DEF DirectionInv, ReadInv
<1>3. /\ Head(wire[e]) \in Chunk /\ h = Numbered(e, Due(e))
      /\ Due(e) \in Nat /\ wire[e] \in Seq(Chunk) /\ Tail(wire[e]) \in Seq(Chunk)
  BY <1>1, <1>2, HeadOnWire, TailFacts DEF Types
<1>4. h \in Message /\ temp[r] \in Message /\ got[r] \in Seq(Message)
  BY <1>1, <1>3 DEF Chunk, Types
<1> HIDE DEF h, e
<1>5. /\ temp'[r] = [temp[r] EXCEPT !.id = h.id]
      /\ temp'[r].id = h.id /\ temp'[r].body = temp[r].body /\ temp'[r] \in Message
  BY <1>1, <1>4 DEF Types, Message
<1>6. /\ temp' \in [End -> Message] /\ temp'[e] = temp[e]
      /\ wire' \in [End -> Seq(Chunk)] /\ wire'[r] = wire[r] /\ wire'[e] = Tail(wire[e])
  <2>1. temp' \in [End -> Message]
    <3>1. temp' = [temp EXCEPT ![r] = temp'[r]]
      BY <1>1, <1>5 DEF Types
    <3> QED
      BY <1>1, <1>5, <3>1 DEF Types
  <2> QED
    BY <1>1, <1>3, <2>1 DEF Types
<1>7. ctx' \in [End -> {"running", "done"}]
  BY <1>1 DEF Types
<1>8. CASE h.body # NoBody /\ reading' = [reading EXCEPT ![r] = "body"] /\ UNCHANGED got
  <2>1. /\ reading' \in [End -> {"none", "header", "body"}]
        /\ reading'[r] = "body" /\ reading'[e] = reading[e]
        /\ got' \in [End -> Seq(Message)] /\ Len(got[r]) <= Len(got'[r])
    BY <1>1, <1>4, <1>8 DEF Types
  <2>2. DirectionInv(e)'
    BY <1>1, <1>2, <1>5, <1>6, <1>8, <2>1, ReadHeaderKeeps DEF h
  <2> QED
    BY <1>1, <1>5, <1>6, <1>7, <1>8, <2>1, <2>2, ReceiverStep DEF e
<1>9. CASE h.body = NoBody /\ Deliver(r, temp'[r])
  <2>1. Append(got[r], temp'[r]) \in Seq(Message) /\ Append(got[r], temp'[r]) # <<>>
        /\ Len(got[r]) <= Len(Append(got[r], temp'[r]))
    BY <1>4, <1>5, AppendFacts
  <2>2. /\ got' = [got EXCEPT ![r] = Append(@, temp'[r])]
        /\ reading' = [reading EXCEPT ![r] = "header"]
    BY <1>9 DEF Deliver
  <2>3. /\ reading' \in [End -> {"none", "header", "body"}]
        /\ reading'[r] = "header" /\ reading'[e] = reading[e]
        /\ got' \in [End -> Seq(Message)] /\ got'[e] = got[e]
        /\ got'[r] = Append(got[r], temp'[r])
    BY <1>1, <2>1, <2>2 DEF Types
  <2>4. Due(e) = 0
    BY <1>3, <1>9 DEF Numbered, NoBody
  <2>5. r = "client" /\ e = "server" /\ got[r] = <<>>
    <3>1. Len(got[r]) \in Nat
      BY <1>4
    <3>2. First(e) \in {0, 1} /\ (First(e) = 0 => e # "client")
      BY DEF First
    <3>3. Len(got[r]) + First(e) = 0
      BY <1>1, <2>4 DEF Due
    <3>4. Len(got[r]) = 0 /\ First(e) = 0
      BY <3>1, <3>2, <3>3
    <3> QED
      BY <1>1, <1>4, <3>2, <3>4, Ends, EmptyFacts
  <2>6. temp'[r] = Numbered(e, Due(e))
    <3>1. temp'[r].body = 0 /\ temp'[r].id = "accept"
      BY <1>1, <1>3, <1>5, <2>4, <2>5 DEF ClientInv, NoBody, Numbered
    <3> QED
      BY <1>5, <2>4, <2>5, <3>1 DEF Message, Numbered
  <2>7. DirectionInv(e)'
    BY <1>1, <1>2, <1>5, <1>6, <1>9, <2>3, <2>6, DeliverKeeps DEF h
  <2> QED
    BY <1>1, <1>5, <1>6, <1>7, <2>1, <2>3, <2>7, ReceiverStep DEF e
<1> QED
  BY <1>1, <1>8, <1>9

\* The handler of read_body.
LEMMA ReadBodyInv ==
  ASSUME IInv, NEW r \in End, ReadBody(r)
  PROVE  IInv'
<1> DEFINE e == Peer(r)
           h == Head(wire[e]).msg
<1>1. /\ Types /\ DirectionInv(e)
      /\ e \in End /\ e # r /\ Peer(e) = r
      /\ reading[r] = "body" /\ wire[e] # <<>>
      /\ temp' = [temp EXCEPT ![r].body = h.body]
      /\ got' = [got EXCEPT ![r] = Append(@, temp'[r])]
      /\ reading' = [reading EXCEPT ![r] = "header"]
      /\ wire' = [wire EXCEPT ![e] = Tail(@)]
      /\ UNCHANGED <<sock, fin, ctx, posted, out, writes, sent, handled>>
  BY Ends DEF IInv, ReadBody, Deliver
<1>2. ~ fin[r] /\ temp[r].id = Numbered(e, Due(e)).id
  BY <1>1 DEF DirectionInv, ReadInv
<1>3. /\ Head(wire[e]) \in Chunk /\ h = Numbered(e, Due(e))
      /\ wire[e] \in Seq(Chunk) /\ Tail(wire[e]) \in Seq(Chunk)
  BY <1>1, <1>2, HeadOnWire, TailFacts DEF Types
<1>4. h \in Message /\ temp[r] \in Message /\ got[r] \in Seq(Message)
  BY <1>1, <1>3 DEF Chunk, Types
<1> HIDE DEF h, e
<1>5. temp'[r] \in Message /\ temp'[r] = Numbered(e, Due(e))
  <2>1. temp'[r] = [temp[r] EXCEPT !.body = h.body]
    BY <1>1 DEF Types
  <2>2. temp'[r].id = h.id /\ temp'[r].body = h.body /\ temp'[r] \in Message
    BY <1>2, <1>3, <1>4, <2>1 DEF Message
  <2> QED
    BY <1>3, <1>4, <2>2 DEF Message
<1>6. /\ temp' \in [End -> Message] /\ temp'[e] = temp[e]
      /\ wire' \in [End -> Seq(Chunk)] /\ wire'[r] = wire[r] /\ wire'[e] = Tail(wire[e])
  <2>1. temp' = [temp EXCEPT ![r] = temp'[r]]
    BY <1>1, <1>5 DEF Types
  <2> QED
    BY <1>1, <1>3, <1>5, <2>1 DEF Types
<1>7. ctx' \in [End -> {"running", "done"}]
  BY <1>1 DEF Types
<1>8. Append(got[r], temp'[r]) \in Seq(Message) /\ Append(got[r], temp'[r]) # <<>>
      /\ Len(got[r]) <= Len(Append(got[r], temp'[r]))
  BY <1>4, <1>5, AppendFacts
<1>9. /\ reading' \in [End -> {"none", "header", "body"}]
      /\ reading'[r] = "header" /\ reading'[e] = reading[e]
      /\ got' \in [End -> Seq(Message)] /\ got'[e] = got[e]
      /\ got'[r] = Append(got[r], temp'[r])
  BY <1>1, <1>8 DEF Types
<1>10. DirectionInv(e)'
  BY <1>1, <1>2, <1>5, <1>6, <1>9, DeliverKeeps
<1> QED
  BY <1>1, <1>5, <1>6, <1>7, <1>8, <1>9, <1>10, ReceiverStep DEF e

\* The handler of read_header at the end of the stream.
LEMMA ReadEofInv ==
  ASSUME IInv, NEW r \in End, ReadEof(r)
  PROVE  IInv'
<1>1. /\ Types /\ DirectionInv(Peer(r))
      /\ Peer(r) \in End /\ Peer(r) # r /\ Peer(Peer(r)) = r
      /\ reading[r] = "header" /\ reading' = [reading EXCEPT ![r] = "none"]
      /\ RunContext(r)
      /\ UNCHANGED <<sock, fin, posted, out, writes, temp, wire, sent, got, handled>>
  BY Ends DEF IInv, ReadEof
<1>2. /\ reading' \in [End -> {"none", "header", "body"}]
      /\ reading'[r] = "none" /\ reading'[Peer(r)] = reading[Peer(r)]
  BY <1>1 DEF Types
<1>3. DirectionInv(Peer(r))'
  BY <1>1, <1>2, DirectionKept DEF IsConnected
<1>4. ctx' \in [End -> {"running", "done"}] /\ Len(got[r]) <= Len(got'[r])
  <2>1. Len(got[r]) \in Nat
    BY <1>1 DEF Types
  <2> QED
    BY <1>1, <2>1, ContextTyped
<1> QED
  BY <1>1, <1>2, <1>3, <1>4, ReceiverStep DEF Types

\* What the main loop does before it waits, and what wakes it.
LEMMA LoopTyped ==
  ASSUME loop \in {"awake", "dozing", "asleep"}, [Next]_vars
  PROVE  loop' \in {"awake", "dozing", "asleep"}
<1>1. CASE MainLoop \/ SpuriousWakeup
  BY <1>1 DEF MainLoop, OnMessage, FindEmpty, FallAsleep, SpuriousWakeup
<1>2. CASE \E e \in End : ReadHeader(e) \/ ReadBody(e)
  BY <1>2 DEF ReadHeader, ReadBody, Deliver
<1>3. CASE UNCHANGED loop
  BY <1>3
<1> QED
  BY <1>1, <1>2, <1>3
     DEF Next, vars, ConnectOk, ConnectFails, AcceptClient, SendRequest, Disconnect,
         StopContext, ServerDies, AsioHandler, RunSend, RunClose, WriteHeader, WriteBody,
         WriteFails, ReadEof, ReadFails

\* No step breaks the invariant.
LEMMA NextIInv == IInv /\ [Next]_vars => IInv'
<1> SUFFICES ASSUME IInv, [Next]_vars PROVE IInv'
  OBVIOUS
<1>1. CASE ConnectOk \/ ConnectFails \/ AcceptClient \/ SendRequest \/ OnMessage
           \/ Disconnect \/ StopContext
  BY <1>1, ConnectInv, AcceptClientInv, SendRequestInv, OnMessageInv, DisconnectInv,
     StopContextInv
<1>2. CASE ServerDies
  BY <1>2, ClosingInv DEF End
<1>3. ASSUME NEW e \in End, AsioHandler(e) PROVE IInv'
  BY <1>3, RunSendInv, ClosingInv, WriteInvKept, ReadHeaderInv, ReadBodyInv, ReadEofInv
     DEF AsioHandler
<1>4. CASE UNCHANGED session
  <2>1. /\ Types /\ ServerInv /\ ClientInv /\ \A d \in End : DirectionInv(d)
    BY DEF IInv
  <2>2. \A d \in End : DirectionInv(d)'
    BY <1>4, <2>1, DirectionKept DEF session, IsConnected
  <2> QED
    BY <1>4, <2>1, <2>2 DEF session, IInv, Types, ServerInv, ClientInv
<1> QED
  BY <1>1, <1>2, <1>3, <1>4 DEF Next, MainLoop, FindEmpty, FallAsleep, SpuriousWakeup, vars

\* IInv is an invariant of the connection, for any number of requests and
\* whatever fails.
THEOREM Invariance == Spec => []IInv
BY InitIInv, NextIInv, PTL DEF Spec

-----------------------------------------------------------------------------
(* What follows *)

\* Types hold throughout, and each end sends only what it may.
THEOREM TypeCorrect == Spec => []TypeOK
<1>1. ASSUME IInv, loop \in {"awake", "dozing", "asleep"} PROVE TypeOK
  <2>1. Types /\ ServerInv /\ ClientInv /\ DirectionInv("client") /\ DirectionInv("server")
        /\ "client" \in End /\ "server" \in End
        /\ Peer("client") = "server" /\ Peer("server") = "client"
    BY <1>1, Ends DEF IInv, End
  <2>2. /\ sent["client"] \in Seq(Message) /\ sent["server"] \in Seq(Message)
        /\ got["server"] \in Seq(Message) /\ handled \in Nat
    BY <2>1 DEF Types
  <2>3. sent["client"] \in Seq([id : {"request"}, body : 1 .. MaxRequest])
    <3>1. ASSUME NEW i \in 1 .. Len(sent["client"])
          PROVE  sent["client"][i] \in [id : {"request"}, body : 1 .. MaxRequest]
      <4>1. sent["client"][i] = Numbered("client", First("client") + i - 1)
        BY <2>1 DEF DirectionInv, HistoryInv
      <4>2. First("client") + i - 1 \in 1 .. MaxRequest
        BY <2>1, <2>2, ConnectionAssumption DEF First, ClientInv
      <4> QED
        BY <4>1, <4>2 DEF Numbered
    <3> QED
      BY <2>2, <3>1, ElementsIn
  <2>4. sent["server"] \in Seq([id : {"reply", "accept"}, body : 0 .. MaxRequest])
    <3>1. ASSUME NEW i \in 1 .. Len(sent["server"])
          PROVE  sent["server"][i] \in [id : {"reply", "accept"}, body : 0 .. MaxRequest]
      <4>1. sent["server"][i] = Numbered("server", First("server") + i - 1)
        BY <2>1 DEF DirectionInv, HistoryInv
      <4>2. sent["server"][i] \in Message
        BY <2>2
      <4> QED
        BY <4>1, <4>2 DEF Numbered, Message
    <3> QED
      BY <2>2, <3>1, ElementsIn
  <2>5. handled \in 0 .. MaxRequest
    <3>1. /\ handled <= Len(got["server"]) /\ Len(got["server"]) <= Len(sent["client"])
          /\ Len(sent["client"]) <= MaxRequest
      BY <2>1 DEF ServerInv, ClientInv, DirectionInv, HistoryInv
    <3> QED
      BY <2>2, <3>1, ConnectionAssumption
  <2> QED
    BY <1>1, <2>1, <2>3, <2>4, <2>5 DEF TypeOK, Types
<1>2. Init => loop \in {"awake", "dozing", "asleep"}
  BY DEF Init
<1>3. loop \in {"awake", "dozing", "asleep"} /\ [Next]_vars
        => (loop \in {"awake", "dozing", "asleep"})'
  BY LoopTyped
<1> QED
  BY <1>1, <1>2, <1>3, Invariance, PTL DEF Spec

\* While the socket is open there is one write in progress if there is a message
\* to write, and none otherwise: send never starts a second one.
THEOREM OneWriteAtATime == Spec => []OneWriter
<1>1. ASSUME IInv PROVE OneWriter
  <2> SUFFICES ASSUME NEW e \in End, IsConnected(e)
               PROVE  Len(writes[e]) = IF out[e] = <<>> THEN 0 ELSE 1
    BY DEF OneWriter
  <2>1. /\ writes[e] = <<>> <=> out[e] = <<>>
        /\ \/ writes[e] = <<>>
           \/ writes[e] = <<Header(Head(out[e]))>> \/ writes[e] = <<Body(Head(out[e]))>>
    BY <1>1 DEF IInv, DirectionInv, WriteInv
  <2>2. Len(<<>>) = 0 /\ \A x : Len(<<x>>) = 1
    OBVIOUS
  <2> QED
    BY <2>1, <2>2
<1> QED
  BY <1>1, Invariance, PTL

\* The handlers of a write find at the front of m_qMessagesOut what they wrote.
THEOREM FrontIsWritten == Spec => []WritesFront
<1>1. ASSUME IInv PROVE WritesFront
  <2> SUFFICES ASSUME NEW e \in End, writes[e] # <<>>
               PROVE  out[e] # <<>> /\ Head(writes[e]).msg = Head(out[e])
    BY DEF WritesFront
  <2>1. Types /\ DirectionInv(e)
    BY <1>1 DEF IInv
  <2> QED
    BY <2>1, WrittenAt DEF DirectionInv, WriteInv
<1> QED
  BY <1>1, Invariance, PTL

\* The reader takes no message apart wrongly.
THEOREM StreamIsFramed == Spec => []Framed
<1>1. ASSUME IInv PROVE Framed
  <2> SUFFICES ASSUME NEW r \in End, wire[Peer(r)] # <<>>, reading[r] # "none"
               PROVE  /\ Head(wire[Peer(r)]).part = reading[r]
                      /\ reading[r] = "body" => Head(wire[Peer(r)]).msg.id = temp[r].id
    BY DEF Framed
  <2>1. /\ Types /\ DirectionInv(Peer(r)) /\ Peer(r) \in End /\ Peer(Peer(r)) = r
        /\ reading[r] \in {"none", "header", "body"}
    BY <1>1, Ends DEF IInv, Types
  <2>2. ~ fin[r] /\ (reading[r] = "body" => temp[r].id = Numbered(Peer(r), Due(Peer(r))).id)
    BY <2>1 DEF DirectionInv, ReadInv
  <2>3. /\ Head(wire[Peer(r)]).msg = Numbered(Peer(r), Due(Peer(r)))
        /\ Head(wire[Peer(r)]).part = IF reading[r] = "body" THEN "body" ELSE "header"
    BY <2>1, <2>2, HeadOnWire
  <2> QED
    BY <2>1, <2>2, <2>3
<1> QED
  BY <1>1, Invariance, PTL

\* The n-th message after the greeting is the reply to the n-th request.
THEOREM RepliesFollowRequests == Spec => []RepliesInOrder
<1>1. ASSUME IInv PROVE RepliesInOrder
  <2> SUFFICES ASSUME NEW i \in 1 .. Len(got["client"])
               PROVE  got["client"][i] = IF i = 1 THEN Accept ELSE Reply(sent["client"][i - 1])
    BY DEF RepliesInOrder
  <2>1. Types /\ ServerInv /\ DirectionInv("client") /\ DirectionInv("server")
        /\ "client" \in End /\ "server" \in End
        /\ Peer("client") = "server" /\ Peer("server") = "client"
    BY <1>1, Ends DEF IInv, End
  <2>2. /\ Len(got["client"]) \in Nat /\ Len(sent["server"]) \in Nat
        /\ Len(got["server"]) \in Nat /\ Len(sent["client"]) \in Nat /\ handled \in Nat
    BY <2>1 DEF Types
  <2>3. got["client"][i] = Numbered("server", i - 1)
    <3>1. got["client"][i] = Numbered("server", First("server") + i - 1)
      BY <2>1 DEF DirectionInv, HistoryInv
    <3>2. First("server") + i - 1 = i - 1
      BY DEF First
    <3> QED
      BY <3>1, <3>2
  <2>4. CASE i = 1
    BY <2>3, <2>4 DEF Numbered, Accept, NoBody
  <2>5. CASE i # 1
    <3>1. /\ Len(got["client"]) <= Len(sent["server"])
          /\ Len(sent["server"]) <= handled + 1
          /\ handled <= Len(got["server"]) /\ Len(got["server"]) <= Len(sent["client"])
      BY <2>1, <2>2 DEF ServerInv, DirectionInv, HistoryInv
    <3>2. i - 1 \in 1 .. Len(sent["client"])
      BY <2>2, <2>5, <3>1
    <3>3. sent["client"][i - 1] = Numbered("client", First("client") + (i - 1) - 1)
      BY <2>1, <3>2 DEF DirectionInv, HistoryInv
    <3>4. First("client") + (i - 1) - 1 = i - 1 /\ i - 1 # 0
      BY <2>5 DEF First
    <3> QED
      BY <2>3, <2>5, <3>3, <3>4 DEF Numbered, Reply
  <2> QED
    BY <2>4, <2>5
<1> QED
  BY <1>1, Invariance, PTL

-----------------------------------------------------------------------------
(* Nothing is missing *)

\* The last chunk of a message is at its body's place, whether it has one or not.
LEMMA LastChunkAt ==
  ASSUME NEW e \in End, NEW b \in Nat, NEW k, NEW chunk \in Chunk,
         ChunkAt(e, k, chunk), chunk.msg.body \in Nat
  PROVE  chunk = LastChunk(Numbered(e, b)) <=> k = BodyAt(b)
<1> DEFINE m == Numbered(e, b)
           n == chunk.msg.body
<1>1. m.body = b
  BY DEF Numbered
<1>2. chunk = [part |-> chunk.part, msg |-> chunk.msg]
  BY DEF Chunk
<1>3. LastChunk(m) = [part |-> IF b = 0 THEN "header" ELSE "body", msg |-> m]
  BY <1>1 DEF LastChunk, Header, Body, NoBody
<1>4. /\ chunk.msg = Numbered(e, n) /\ n \in Nat
      /\ \/ chunk.part = "header" /\ k = HeaderAt(n)
         \/ chunk.part = "body" /\ n # 0 /\ k = BodyAt(n)
  BY DEF ChunkAt, NoBody
<1> HIDE DEF n, m
<1>5. ASSUME chunk = LastChunk(m) PROVE k = BodyAt(b)
  <2>1. chunk.msg = m /\ chunk.part = IF b = 0 THEN "header" ELSE "body"
    BY <1>3, <1>5
  <2>2. n = b
    BY <1>1, <2>1 DEF n
  <2> QED
    BY <1>4, <2>1, <2>2 DEF HeaderAt, BodyAt
<1>6. ASSUME k = BodyAt(b) PROVE chunk = LastChunk(m)
  <2>1. n = b /\ chunk.part = IF b = 0 THEN "header" ELSE "body"
    BY <1>4, <1>6 DEF HeaderAt, BodyAt
  <2>2. chunk.msg = m
    BY <1>4, <2>1 DEF m
  <2> QED
    BY <1>2, <1>3, <2>1, <2>2
<1> QED
  BY <1>5, <1>6 DEF m

\* While neither end has closed, the numbers of what was sent fall into four runs:
\* received, on the wire, in m_qMessagesOut and posted.
LEMMA Runs ==
  ASSUME Types, NEW e \in End, DirectionInv(e), IsConnected(e), ~ fin[Peer(e)]
  PROVE  Due(e) <= Front(e) /\ Front(e) <= Posted(e) /\ Posted(e) <= Last(e)
<1>1. /\ Due(e) \in Nat /\ Last(e) \in Nat /\ Sends(e) \in Nat /\ Posted(e) \in Int
      /\ Front(e) \in Int /\ Len(out[e]) \in Nat /\ First(e) \in Nat
  BY Numbering
<1>2. Front(e) <= Posted(e) /\ Posted(e) <= Last(e) /\ Front(e) \in Nat
  <2>1. First(e) <= Front(e)
    BY DEF DirectionInv, QueueInv
  <2> QED
    BY <1>1, <2>1 DEF Front, Posted
<1>3. ReadAt(e) <= WriteAt(e)
  <2>1. ReadAt(e) + Len(wire[e]) = WriteAt(e)
    BY DEF DirectionInv, StreamInv
  <2>2. Len(wire[e]) \in Nat
    BY DEF Types
  <2>3. ReadAt(e) \in Nat
    BY <1>1 DEF ReadAt, HeaderAt, BodyAt
  <2> QED
    BY <2>1, <2>2, <2>3
<1>4. ReadAt(e) \in {HeaderAt(Due(e)), BodyAt(Due(e))}
      /\ WriteAt(e) \in {HeaderAt(Front(e)), BodyAt(Front(e))}
  BY DEF ReadAt, WriteAt
<1>5. Due(e) <= Front(e)
  BY <1>1, <1>2, <1>3, <1>4 DEF HeaderAt, BodyAt
<1> QED
  BY <1>2, <1>5

\* The run on the wire: the messages whose last chunk is there.
LEMMA OnWire ==
  ASSUME Types, NEW e \in End, DirectionInv(e), IsConnected(e), ~ fin[Peer(e)],
         NEW b \in Nat
  PROVE  LastChunk(Numbered(e, b)) \in Elements(wire[e]) <=> Due(e) <= b /\ b < Front(e)
<1> DEFINE w == wire[e]
           last == LastChunk(Numbered(e, b))
<1>1. /\ Due(e) \in Nat /\ Front(e) \in Int /\ First(e) \in Nat /\ First(e) <= Front(e)
      /\ w \in Seq(Chunk) /\ Len(w) \in Nat /\ DOMAIN w = 1 .. Len(w)
  BY Numbering DEF DirectionInv, QueueInv, Types
<1>2. ASSUME NEW i \in 1 .. Len(w)
      PROVE  w[i] = last <=> ReadAt(e) + i - 1 = BodyAt(b)
  <2>1. w[i] \in Chunk /\ ChunkAt(e, ReadAt(e) + i - 1, w[i])
    BY <1>1 DEF DirectionInv, StreamInv
  <2>2. w[i].msg.body \in Nat
    BY <2>1, ConnectionAssumption DEF Chunk, Message
  <2> QED
    BY <2>1, <2>2, LastChunkAt
<1>3. ReadAt(e) + Len(w) = WriteAt(e) /\ ReadAt(e) \in Nat
  BY <1>1 DEF DirectionInv, StreamInv, ReadAt, HeaderAt, BodyAt
<1>4. last \in Elements(w) <=> \E i \in 1 .. Len(w) : w[i] = last
  BY <1>1 DEF Elements
<1> HIDE DEF w, last
<1>5. last \in Elements(w) <=> ReadAt(e) <= BodyAt(b) /\ BodyAt(b) < WriteAt(e)
  <2>1. BodyAt(b) \in Nat
    BY DEF BodyAt
  <2>2. ASSUME ReadAt(e) <= BodyAt(b), BodyAt(b) < WriteAt(e)
        PROVE  \E i \in 1 .. Len(w) : w[i] = last
    <3> DEFINE i == BodyAt(b) - ReadAt(e) + 1
    <3>1. i \in 1 .. Len(w) /\ ReadAt(e) + i - 1 = BodyAt(b)
      BY <1>1, <1>3, <2>1, <2>2
    <3> QED
      BY <1>2, <3>1
  <2>3. ASSUME NEW i \in 1 .. Len(w), w[i] = last
        PROVE  ReadAt(e) <= BodyAt(b) /\ BodyAt(b) < WriteAt(e)
    <3>1. ReadAt(e) + i - 1 = BodyAt(b)
      BY <1>2, <2>3
    <3> QED
      BY <1>1, <1>3, <2>1, <3>1
  <2> QED
    BY <1>4, <2>2, <2>3
<1>6. ReadAt(e) <= BodyAt(b) <=> Due(e) <= b
  <2>1. CASE reading[Peer(e)] = "body"
    BY <1>1, <2>1 DEF ReadAt, BodyAt
  <2>2. CASE reading[Peer(e)] # "body"
    BY <1>1, <2>2 DEF ReadAt, HeaderAt, BodyAt
  <2> QED
    BY <2>1, <2>2
<1>7. BodyAt(b) < WriteAt(e) <=> b < Front(e)
  <2>1. WriteAt(e) = HeaderAt(Front(e)) \/ WriteAt(e) = BodyAt(Front(e))
    BY DEF WriteAt
  <2> QED
    BY <1>1, <2>1 DEF HeaderAt, BodyAt
<1> QED
  BY <1>5, <1>6, <1>7 DEF w, last

\* The numbers of a run of n from f on.
LEMMA RunElements ==
  ASSUME NEW n \in Nat, NEW f \in Int, NEW b \in Int
  PROVE  (\E i \in 1 .. n : f + i - 1 = b) <=> f <= b /\ b < f + n
<1>1. ASSUME f <= b, b < f + n PROVE b - f + 1 \in 1 .. n /\ f + (b - f + 1) - 1 = b
  BY <1>1
<1> QED
  BY <1>1

\* The other three runs.
LEMMA InQueues ==
  ASSUME Types, NEW e \in End, DirectionInv(e), NEW b \in First(e) .. Last(e) - 1
  PROVE  /\ Numbered(e, b) \in Elements(got[Peer(e)]) <=> b < Due(e)
         /\ Numbered(e, b) \in Elements(out[e]) <=> Front(e) <= b /\ b < Posted(e)
         /\ SendHandler(Numbered(e, b)) \in Elements(posted[e]) <=> Posted(e) <= b
<1> DEFINE m == Numbered(e, b)
<1>1. /\ got[Peer(e)] \in Seq(Message) /\ out[e] \in Seq(Message)
      /\ posted[e] \in Seq(Handler)
      /\ First(e) \in Nat /\ Last(e) \in Nat /\ Due(e) \in Nat
      /\ Posted(e) \in Int /\ Front(e) \in Int /\ Sends(e) \in 0 .. Len(posted[e])
      /\ Len(got[Peer(e)]) \in Nat /\ Len(out[e]) \in Nat /\ Len(posted[e]) \in Nat
  BY Numbering, Ends DEF Types
<1>2. /\ First(e) + Len(got[Peer(e)]) = Due(e)
      /\ Front(e) + Len(out[e]) = Posted(e)
      /\ Posted(e) + Sends(e) = Last(e)
  <2>1. First(e) + Len(got[Peer(e)]) = Due(e)
    BY <1>1 DEF Due
  <2>2. Front(e) + Len(out[e]) = Posted(e)
    BY <1>1 DEF Front
  <2>3. Posted(e) + Sends(e) = Last(e)
    BY <1>1 DEF Posted
  <2> QED
    BY <2>1, <2>2, <2>3
<1>3. b \in Int /\ First(e) <= b /\ b < Last(e)
  BY <1>1
<1>4. \A n \in Int : Numbered(e, n) = m <=> n = b
  BY <1>3 DEF Numbered
<1>5. \A n \in Int : SendHandler(Numbered(e, n)) = SendHandler(m) <=> n = b
  BY <1>4 DEF SendHandler
<1> HIDE DEF m
<1>6. m \in Elements(got[Peer(e)]) <=> b < Due(e)
  <2>1. ASSUME NEW i \in 1 .. Len(got[Peer(e)])
        PROVE  got[Peer(e)][i] = m <=> First(e) + i - 1 = b
    <3>1. got[Peer(e)][i] = Numbered(e, First(e) + i - 1)
      BY DEF DirectionInv, HistoryInv
    <3>2. First(e) \in Int
      BY <1>1
    <3>3. First(e) + i - 1 \in Int
      BY <3>2
    <3> QED
      BY <1>4, <3>1, <3>3
  <2>2. m \in Elements(got[Peer(e)]) <=> \E i \in 1 .. Len(got[Peer(e)]) : got[Peer(e)][i] = m
    BY <1>1 DEF Elements
  <2>3. (\E i \in 1 .. Len(got[Peer(e)]) : First(e) + i - 1 = b)
        <=> First(e) <= b /\ b < First(e) + Len(got[Peer(e)])
    <3>1. First(e) \in Int
      BY <1>1
    <3> QED
      BY <1>1, <1>3, <3>1, RunElements
  <2> QED
    BY <1>2, <1>3, <2>1, <2>2, <2>3
<1>7. m \in Elements(out[e]) <=> Front(e) <= b /\ b < Posted(e)
  <2>1. ASSUME NEW i \in 1 .. Len(out[e])
        PROVE  out[e][i] = m <=> Front(e) + i - 1 = b
    <3>1. out[e][i] = Numbered(e, Front(e) + i - 1)
      BY DEF DirectionInv, QueueInv
    <3>2. Front(e) \in Int
      BY <1>1
    <3>3. Front(e) + i - 1 \in Int
      BY <3>2
    <3> QED
      BY <1>4, <3>1, <3>3
  <2>2. m \in Elements(out[e]) <=> \E i \in 1 .. Len(out[e]) : out[e][i] = m
    BY <1>1 DEF Elements
  <2>3. (\E i \in 1 .. Len(out[e]) : Front(e) + i - 1 = b)
        <=> Front(e) <= b /\ b < Front(e) + Len(out[e])
    <3>1. Front(e) \in Int /\ Len(out[e]) \in Nat
      BY <1>1
    <3> QED
      BY <1>3, <3>1, RunElements
  <2> QED
    BY <1>2, <2>1, <2>2, <2>3
<1>8. SendHandler(m) \in Elements(posted[e]) <=> Posted(e) <= b
  <2>1. ASSUME NEW i \in 1 .. Sends(e)
        PROVE  posted[e][i] = SendHandler(m) <=> Posted(e) + i - 1 = b
    <3>1. posted[e][i] = SendHandler(Numbered(e, Posted(e) + i - 1))
      BY DEF DirectionInv, QueueInv
    <3>2. Posted(e) \in Int
      BY <1>1
    <3>3. Posted(e) + i - 1 \in Int
      BY <3>2
    <3> QED
      BY <1>5, <3>1, <3>3
  <2>2. \A i \in 1 .. Len(posted[e]) : posted[e][i] = SendHandler(m) => i \in 1 .. Sends(e)
    <3>1. SendHandler(m) # CloseHandler
      BY DEF SendHandler, CloseHandler
    <3> QED
      BY <1>1, <3>1 DEF Sends, Closing
  <2>3. SendHandler(m) \in Elements(posted[e]) <=> \E i \in 1 .. Sends(e) : posted[e][i] = SendHandler(m)
    <3>1. 1 .. Sends(e) \subseteq 1 .. Len(posted[e])
      BY <1>1
    <3> QED
      BY <1>1, <2>2, <3>1 DEF Elements
  <2>4. (\E i \in 1 .. Sends(e) : Posted(e) + i - 1 = b)
        <=> Posted(e) <= b /\ b < Posted(e) + Sends(e)
    <3>1. Posted(e) \in Int /\ Sends(e) \in Nat
      BY <1>1
    <3> QED
      BY <1>3, <3>1, RunElements
  <2> QED
    BY <1>2, <1>3, <2>1, <2>3, <2>4
<1> QED
  BY <1>6, <1>7, <1>8 DEF m

\* As long as neither end has closed its socket, whatever was given to send is at
\* one place of the four, and at no other.
THEOREM NothingGoesMissing == Spec => []NothingMissing
<1>1. ASSUME IInv PROVE NothingMissing
  <2> SUFFICES ASSUME NEW e \in End, IsConnected(e), ~ fin[Peer(e)], NEW i \in DOMAIN sent[e]
               PROVE  \E place \in Place : Places(e, sent[e][i]) = {place}
    BY DEF NothingMissing
  <2> DEFINE b == First(e) + i - 1
             m == sent[e][i]
  <2>1. Types /\ DirectionInv(e)
    BY <1>1 DEF IInv
  <2>2. /\ First(e) \in Nat /\ Last(e) \in Nat /\ Due(e) \in Nat
        /\ Posted(e) \in Int /\ Front(e) \in Int /\ Len(sent[e]) \in Nat
        /\ DOMAIN sent[e] = 1 .. Len(sent[e])
    BY <2>1, Numbering DEF Types
  <2>3. m = Numbered(e, b) /\ b \in First(e) .. Last(e) - 1 /\ b \in Nat
    BY <2>1, <2>2 DEF DirectionInv, HistoryInv, Last
  <2> HIDE DEF b, m
  <2>4. Due(e) <= Front(e) /\ Front(e) <= Posted(e) /\ Posted(e) <= Last(e)
    BY <2>1, Runs
  <2>5. /\ m \in Elements(got[Peer(e)]) <=> b < Due(e)
        /\ LastChunk(m) \in Elements(wire[e]) <=> Due(e) <= b /\ b < Front(e)
        /\ m \in Elements(out[e]) <=> Front(e) <= b /\ b < Posted(e)
        /\ SendHandler(m) \in Elements(posted[e]) <=> Posted(e) <= b
    BY <2>1, <2>3, OnWire, InQueues
  <2>6. /\ "got" \in Places(e, m) <=> b < Due(e)
        /\ "wire" \in Places(e, m) <=> Due(e) <= b /\ b < Front(e)
        /\ "out" \in Places(e, m) <=> Front(e) <= b /\ b < Posted(e)
        /\ "posted" \in Places(e, m) <=> Posted(e) <= b
        /\ Places(e, m) \subseteq Place
    BY <2>5 DEF Places, Place
  <2>7. \E place \in Place : place \in Places(e, m) /\ \A p \in Place \ {place} : p \notin Places(e, m)
    BY <2>2, <2>3, <2>4, <2>6 DEF Place
  <2> QED
    BY <2>6, <2>7 DEF m
<1> QED
  BY <1>1, Invariance, PTL

-----------------------------------------------------------------------------
(* Each direction is a FIFO channel *)

\* A step hands something to the channel of e, takes the next message out of it,
\* or does nothing to it.
LEMMA ChannelStep ==
  ASSUME IInv, IInv', [Next]_vars, NEW e \in End
  PROVE  \/ (\E m \in Message : sent'[e] = Append(sent[e], m)) /\ got'[Peer(e)] = got[Peer(e)]
         \/ /\ Len(got[Peer(e)]) < Len(sent[e])
            /\ got'[Peer(e)] = Append(got[Peer(e)], sent[e][Len(got[Peer(e)]) + 1])
            /\ sent'[e] = sent[e]
         \/ UNCHANGED <<sent[e], got[Peer(e)]>>
<1> DEFINE p == Peer(e)
<1>1. /\ Types /\ HistoryInv(e) /\ HistoryInv(e)' /\ Types'
      /\ p \in End /\ p # e /\ Peer(p) = e
  BY Ends DEF IInv, DirectionInv
<1>2. /\ sent[e] \in Seq(Message) /\ sent'[e] \in Seq(Message)
      /\ got[p] \in Seq(Message) /\ got'[p] \in Seq(Message)
  BY <1>1 DEF Types
<1>3. \/ (\E m : sent'[e] = Append(sent[e], m)) /\ got'[p] = got[p]
      \/ (\E m : got'[p] = Append(got[p], m)) /\ sent'[e] = sent[e]
      \/ UNCHANGED <<sent[e], got[p]>>
  <2>1. CASE AcceptClient \/ SendRequest \/ OnMessage
    <3>1. /\ UNCHANGED got
          /\ \E s \in End : \E m : sent' = [sent EXCEPT ![s] = Append(@, m)]
      BY <2>1 DEF AcceptClient, SendRequest, OnMessage, End
    <3>2. PICK s \in End : \E m : sent' = [sent EXCEPT ![s] = Append(@, m)]
      BY <3>1
    <3>3. PICK m : sent' = [sent EXCEPT ![s] = Append(@, m)]
      BY <3>2
    <3>4. sent'[e] = IF s = e THEN Append(sent[e], m) ELSE sent[e]
      BY <1>1, <3>3 DEF Types
    <3> QED
      BY <3>1, <3>4
  <2>2. CASE \E r \in End : ReadHeader(r) \/ ReadBody(r)
    <3>1. UNCHANGED sent
      BY <2>2 DEF ReadHeader, ReadBody
    <3>2. \/ UNCHANGED got
          \/ \E r \in End : \E m : got' = [got EXCEPT ![r] = Append(@, m)]
      BY <2>2 DEF ReadHeader, ReadBody, Deliver
    <3>3. CASE UNCHANGED got
      BY <3>1, <3>3
    <3>4. ASSUME NEW r \in End, NEW m, got' = [got EXCEPT ![r] = Append(@, m)]
          PROVE  \/ (\E x : got'[p] = Append(got[p], x)) /\ sent'[e] = sent[e]
                 \/ UNCHANGED <<sent[e], got[p]>>
      <4>1. got'[p] = IF r = p THEN Append(got[p], m) ELSE got[p]
        BY <1>1, <3>4 DEF Types
      <4> QED
        BY <3>1, <4>1
    <3> QED
      BY <3>2, <3>3, <3>4
  <2>3. CASE UNCHANGED <<sent, got>>
    BY <2>3
  <2> QED
    BY <2>1, <2>2, <2>3
       DEF Next, vars, session, MainLoop, FindEmpty, FallAsleep, SpuriousWakeup,
           ConnectOk, ConnectFails, Disconnect, StopContext, ServerDies, AsioHandler,
           RunSend, RunClose, WriteHeader, WriteBody, WriteFails, ReadEof, ReadFails
<1>4. ASSUME NEW m, sent'[e] = Append(sent[e], m) PROVE m \in Message
  BY <1>2, <1>4, Appended
<1>5. ASSUME NEW m, got'[p] = Append(got[p], m), sent'[e] = sent[e]
      PROVE  Len(got[p]) < Len(sent[e]) /\ m = sent[e][Len(got[p]) + 1]
  <2>1. /\ Len(got'[p]) = Len(got[p]) + 1 /\ got'[p][Len(got[p]) + 1] = m
        /\ Len(got[p]) \in Nat /\ Len(sent[e]) \in Nat
    BY <1>2, <1>5, Appended
  <2>2. /\ \A i \in 1 .. Len(sent[e]) : sent[e][i] = Numbered(e, First(e) + i - 1)
        /\ \A i \in 1 .. Len(got'[p]) : got'[p][i] = Numbered(e, First(e) + i - 1)
        /\ Len(got'[p]) <= Len(sent[e])
    BY <1>1, <1>5 DEF HistoryInv
  <2> QED
    BY <2>1, <2>2, SMTT(30)
<1> QED
  BY <1>3, <1>4, <1>5

\* What the server puts into its queue of incoming messages is what the client
\* sent, in order, as far as it got.
THEOREM RequestsArriveInOrder == Spec => UpstreamFifo
<1>1. Init => Upstream!Init
  BY DEF Init, Upstream!Init, End
<1>2. IInv /\ IInv' /\ [Next]_vars => [Upstream!Next]_(Upstream!vars)
  <2> SUFFICES ASSUME IInv, IInv', [Next]_vars PROVE [Upstream!Next]_(Upstream!vars)
    OBVIOUS
  <2> QED
    BY ChannelStep, Ends
       DEF Upstream!Next, Upstream!Send, Upstream!Receive, Upstream!vars, End
<1> QED
  BY <1>1, <1>2, Invariance, PTL DEF Spec, UpstreamFifo, Upstream!Spec

\* What the client puts into its queue is what the server sent it.
THEOREM RepliesArriveInOrder == Spec => DownstreamFifo
<1>1. Init => Downstream!Init
  BY DEF Init, Downstream!Init, End
<1>2. IInv /\ IInv' /\ [Next]_vars => [Downstream!Next]_(Downstream!vars)
  <2> SUFFICES ASSUME IInv, IInv', [Next]_vars PROVE [Downstream!Next]_(Downstream!vars)
    OBVIOUS
  <2> QED
    BY ChannelStep, Ends
       DEF Downstream!Next, Downstream!Send, Downstream!Receive, Downstream!vars, End
<1> QED
  BY <1>1, <1>2, Invariance, PTL DEF Spec, DownstreamFifo, Downstream!Spec
=============================================================================
