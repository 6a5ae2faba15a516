--------------------------- MODULE FootballServer ---------------------------
(***************************************************************************)
(* The whole server (football.cpp): server_interface and football_server   *)
(* in front of the handlers and tables of FootballStore, with any number   *)
(* of clients.  Three threads meet here: a client's, the one of the        *)
(* server's io context, which accepts clients and puts what they send into *)
(* m_qMessagesIn, and the main thread, which takes messages out of it,     *)
(* executes them and answers whoever sent them.                            *)
(*                                                                         *)
(* A direction of a connection is used as the FIFO channel Connection      *)
(* shows it to be while it is up, and m_qMessagesIn as the one TsQueue is  *)
(* proved to be.  The server's own steps on the database are those of      *)
(* FootballStore, taken one at a time between the steps of the others.     *)
(***************************************************************************)
EXTENDS Naturals, Sequences, FiniteSets

CONSTANTS ChampionshipName, ClubName, Year, Country, Empty, KnownCountry,
          HomeClub, HomeCountry, Faults, MaxId, \* as in FootballStore
          Client,
          Requests,     \* what each client may send: some of Request
          Unreliable,   \* the clients that may go away or lose their link
          MaxRequest    \* bound: how many requests each client sends

VARIABLES
  championships, clubs, seasons, clubs_seasons, counter, phase, save, failed, reply,
  link,     \* the TCP connection of each client
  up, down, \* what is on its way to the server, and to the client
  accepted, \* m_deqConnections; the n-th has the id 10000 + n - 1
  inbox,    \* m_qMessagesIn
  current,  \* what on_message is busy with
  loop,     \* where the main thread is outside of on_message: see below
  sent,     \* history: what each client has sent
  handled,  \* history: what of it on_message was called with
  got       \* history: what each client has received

store == <<championships, clubs, seasons, clubs_seasons, counter, phase, save, failed,
           reply>>
histories == <<sent, handled, got>>
server == <<store, link, up, down, accepted, inbox, current, histories>>
vars == <<server, loop>>

Store == INSTANCE FootballStore

Ping == [type |-> "ping"]
Request ==
  {Ping}
  \cup [type : {"new_championship"}, name : ChampionshipName, country : Country]
  \cup [type : {"new_club"}, name : ClubName, country : Country]
  \cup [type : {"new_season"}, championship : Store!Id, year : Year]
  \cup [type : {"new_season_club"}, season : Store!Id, club : Store!Id]

ASSUME ServerAssumption ==
  /\ KnownCountry \subseteq Country
  /\ HomeClub \in ClubName \ {Empty}
  /\ HomeCountry \in Country
  /\ Empty \notin Country
  /\ Faults \subseteq {"crash", "fail"}
  /\ MaxId \in Nat \ {0}
  /\ Requests \in [Client -> SUBSET Request]
  /\ Unreliable \subseteq Client
  /\ MaxRequest \in [Client -> Nat]

\* A reply repeats the type of its request; a ping comes back as it was.
Reply(type, response) == [type |-> type, response |-> response]
Accept == Reply("accept", Store!NoResponse)
RequestType == {r.type : r \in Request}

NoMessage == [remote |-> {}, type |-> "none"]

\* The phases of FootballStore in which on_message is running.
Working == {"reload", "related", "reload_related", "replying"}

Init ==
  /\ Store!Init
  /\ link = [c \in Client |-> "none"]
  /\ up = [c \in Client |-> <<>>]
  /\ down = [c \in Client |-> <<>>]
  /\ accepted = <<>>
  /\ inbox = <<>>
  /\ current = NoMessage
  /\ loop = "awake"
  /\ sent = [c \in Client |-> <<>>]
  /\ handled = [c \in Client |-> <<>>]
  /\ got = [c \in Client |-> <<>>]

Approved == {accepted[i] : i \in DOMAIN accepted}

\* connection::send.  What is sent on a link that is gone is lost, and nobody
\* is told.
SendTo(c, m) ==
  down' = IF link[c] = "up" THEN [down EXCEPT ![c] = Append(@, m)] ELSE down

-----------------------------------------------------------------------------
(* The clients *)

\* The listening socket takes the connection; the server has yet to accept it.
Connect(c) ==
  /\ phase # "down"
  /\ link[c] = "none"
  /\ link' = [link EXCEPT ![c] = "up"]
  /\ UNCHANGED <<store, up, down, accepted, inbox, current, histories, loop>>

SendRequest(c) ==
  /\ link[c] = "up"
  /\ Len(sent[c]) < MaxRequest[c]
  /\ \E r \in Requests[c] :
       /\ up' = [up EXCEPT ![c] = Append(@, r)]
       /\ sent' = [sent EXCEPT ![c] = Append(@, r)]
  /\ UNCHANGED <<store, link, down, accepted, inbox, current, handled, got, loop>>

Receive(c) ==
  /\ down[c] # <<>>
  /\ down' = [down EXCEPT ![c] = Tail(@)]
  /\ got' = [got EXCEPT ![c] = Append(@, Head(down[c]))]
  /\ UNCHANGED <<store, link, up, accepted, inbox, current, sent, handled, loop>>

\* The client goes away or the network does.  What is in transit may still
\* arrive.
Break(c) ==
  /\ c \in Unreliable
  /\ link[c] = "up"
  /\ link' = [link EXCEPT ![c] = "broken"]
  /\ UNCHANGED <<store, up, down, accepted, inbox, current, histories, loop>>

-----------------------------------------------------------------------------
(* The io context's thread *)

\* The handler of async_accept.  The greeting is on its way before anything is
\* read from the client.
AcceptClient(c) ==
  /\ phase # "down"
  /\ link[c] \in {"up", "broken"} /\ c \notin Approved
  /\ SendTo(c, Accept)
  /\ accepted' = Append(accepted, c)
  /\ UNCHANGED <<store, link, up, inbox, current, histories, loop>>

\* add_to_incoming_message_queue.  push_back notifies the main thread if it is
\* waiting, and is forgotten if it is not.
Deliver(c) ==
  /\ c \in Approved
  /\ up[c] # <<>>
  /\ up' = [up EXCEPT ![c] = Tail(@)]
  /\ inbox' = Append(inbox, [remote |-> c, msg |-> Head(up[c])])
  /\ loop' = IF loop = "asleep" THEN "awake" ELSE loop
  /\ UNCHANGED <<store, link, down, accepted, current, histories>>

-----------------------------------------------------------------------------
(* The main thread *)

\* update(-1, true) begins with wait(), whose loop tests empty() and only then
\* waits: a thread that has seen the inbox empty is dozing, what is delivered now
\* notifies nobody, and the wait that follows has no predicate.
FindEmpty ==
  /\ phase = "waiting"
  /\ loop = "awake" /\ inbox = <<>>
  /\ loop' = "dozing"
  /\ UNCHANGED server

FallAsleep ==
  /\ loop = "dozing"
  /\ loop' = "asleep"
  /\ UNCHANGED server

\* A condition variable may wake its waiter for no reason.
SpuriousWakeup ==
  /\ loop = "asleep"
  /\ loop' = "awake"
  /\ UNCHANGED server

Execute(r) ==
  \/ r.type = "new_championship" /\ Store!NewChampionship(r.name, r.country)
  \/ r.type = "new_club" /\ Store!NewClub(r.name, r.country)
  \/ r.type = "new_season" /\ Store!NewSeason(r.championship, r.year)
  \/ r.type = "new_season_club" /\ Store!NewSeasonClub(r.season, r.club)

\* on_message with r from c.
OnMessage(c, r) ==
  /\ handled' = [handled EXCEPT ![c] = Append(@, r)]
  /\ \/ r = Ping /\ SendTo(c, Reply("ping", Store!NoResponse))
                 /\ UNCHANGED <<store, current>>
     \/ Execute(r) /\ current' = [remote |-> c, type |-> r.type]
                   /\ UNCHANGED down
  /\ UNCHANGED <<link, up, accepted, sent, got, loop>>

\* Mutant: pop_back instead of pop_front.
HandleNewest ==
  /\ phase = "waiting"
  /\ loop = "awake" /\ inbox # <<>>
  /\ inbox' = SubSeq(inbox, 1, Len(inbox) - 1)
  /\ OnMessage(inbox[Len(inbox)].remote, inbox[Len(inbox)].msg)

\* Mutant: a message whose client is gone is thrown away.
HandleDropsGone ==
  /\ phase = "waiting"
  /\ loop = "awake" /\ inbox # <<>>
  /\ inbox' = Tail(inbox)
  /\ IF link[Head(inbox).remote] = "up"
     THEN OnMessage(Head(inbox).remote, Head(inbox).msg)
     ELSE UNCHANGED <<store, link, up, down, accepted, current, histories, loop>>

\* Mutant: a message whose client is gone stays where it is.
HandleConnected ==
  /\ phase = "waiting"
  /\ loop = "awake" /\ inbox # <<>> /\ link[Head(inbox).remote] = "up"
  /\ inbox' = Tail(inbox)
  /\ OnMessage(Head(inbox).remote, Head(inbox).msg)

\* update(): the next message, whatever has become of its client.
Handle ==
  /\ phase = "waiting"
  /\ loop = "awake" /\ inbox # <<>>
  /\ inbox' = Tail(inbox)
  /\ OnMessage(Head(inbox).remote, Head(inbox).msg)

\* Mutant: the reply goes to the connection accepted last.
RespondToLast ==
  /\ Store!Respond
  /\ SendTo(accepted[Len(accepted)], Reply(current.type, reply))
  /\ current' = NoMessage
  /\ UNCHANGED <<link, up, accepted, inbox, histories, loop>>

\* Mutant: only a success is sent back.
RespondIfSuccess ==
  /\ Store!Respond
  /\ IF reply.success THEN SendTo(current.remote, Reply(current.type, reply))
                      ELSE UNCHANGED down
  /\ current' = NoMessage
  /\ UNCHANGED <<link, up, accepted, inbox, histories, loop>>

\* Mutant: success is what response starts with, and nobody changes it.
RespondSuccess ==
  /\ Store!Respond
  /\ SendTo(current.remote, Reply(current.type, [reply EXCEPT !.success = TRUE]))
  /\ current' = NoMessage
  /\ UNCHANGED <<link, up, accepted, inbox, histories, loop>>

\* Mutant: on_message keeps its client.
RespondKeeps ==
  /\ Store!Respond
  /\ SendTo(current.remote, Reply(current.type, reply))
  /\ UNCHANGED <<link, up, accepted, inbox, current, histories, loop>>

\* on_message sends what execute_action has made of the response.
Respond ==
  /\ Store!Respond
  /\ SendTo(current.remote, Reply(current.type, reply))
  /\ current' = NoMessage
  /\ UNCHANGED <<link, up, accepted, inbox, histories, loop>>

\* The rest of a save after its REPLACE.
Save ==
  /\ \/ Store!Reload \/ Store!ReloadRelated \/ Store!EndSave
     \/ \E i \in Store!Id : Store!SaveRelated(i)
  /\ UNCHANGED <<link, up, down, accepted, inbox, current, histories, loop>>

\* main() saves its club, then the server starts.
Start ==
  /\ Store!Start
  /\ UNCHANGED <<link, up, down, accepted, inbox, current, histories, loop>>

\* The process dies with all it has in memory and every connection.  Clients do
\* not connect again.
Crash ==
  /\ Store!Crash
  /\ link' = [c \in Client |-> IF link[c] = "none" THEN "none" ELSE "reset"]
  /\ up' = [c \in Client |-> <<>>]
  /\ accepted' = <<>>
  /\ inbox' = <<>>
  /\ current' = NoMessage
  /\ loop' = "awake"
  /\ UNCHANGED <<down, histories>>

-----------------------------------------------------------------------------

\* while (true) server.update(-1, true).
Main == FindEmpty \/ FallAsleep \/ Handle \/ Respond \/ Save

Next ==
  \/ \E c \in Client :
       \/ Connect(c) \/ SendRequest(c) \/ Receive(c) \/ Break(c)
       \/ AcceptClient(c) \/ Deliver(c)
  \/ Main \/ SpuriousWakeup
  \/ Start \/ Crash

Spec == Init /\ [][Next]_vars

\* The server's threads run, the context serves every connection, and a client
\* takes what arrives.  Nobody owes a request, a fault, a spurious
\* wakeup or a restart.
Fairness ==
  /\ WF_vars(Main)
  /\ \A c \in Client :
       /\ WF_vars(link[c] = "up" /\ AcceptClient(c))
       /\ WF_vars(link[c] = "up" /\ Deliver(c))
       /\ WF_vars(link[c] = "up" /\ Receive(c))

FairSpec == Spec /\ Fairness

-----------------------------------------------------------------------------
(* Properties *)

FromServer == [type : {"accept"} \cup RequestType, response : Store!Response]

\* The type of every variable.  on_message has a client exactly while a request
\* is being executed, and that client was accepted by this process.
TypeOK ==
  /\ Store!TypeOK
  /\ link \in [Client -> {"none", "up", "broken", "reset"}]
  /\ up \in [Client -> Seq(Request)]
  /\ down \in [Client -> Seq(FromServer)]
  /\ accepted \in Seq(Client)
  /\ inbox \in Seq([remote : Approved, msg : Request])
  /\ IF phase \in Working
     THEN current \in [remote : Approved, type : RequestType]
     ELSE current = NoMessage
  /\ sent \in [Client -> Seq(Request)]
  /\ handled \in [Client -> Seq(Request)]
  /\ loop \in {"awake", "dozing", "asleep"}
  /\ loop # "awake" => phase = "waiting"
  /\ got \in [Client -> Seq(FromServer)]

\* Though all clients share one inbox and one main thread, each client's requests
\* are executed in the order it sent them, each once, as far as it gets.
Stream(c) == INSTANCE FifoChannel
  WITH Item <- Request, sent <- sent[c], received <- handled[c]
RequestsFifo ==
  /\ \A c \in Client : Stream(c)!Init
  /\ [][\A c \in Client : [Stream(c)!Next]_(Stream(c)!vars)]_vars

InInbox(c) == {i \in DOMAIN inbox : inbox[i].remote = c}

\* 1 while a request of c is being executed.
Busy(c) == IF phase \in Working /\ current.remote = c THEN 1 ELSE 0

\* No request is lost or doubled on its way through the three threads, not even one
\* whose client has gone away: it is in transit, in the inbox that all share, or
\* handled, until the process dies.  And while its link is up a client gets the
\* greeting and one reply for every request that was handled: what it has and what is
\* on its way, and the one the main thread may still owe it, are all of them.
RequestsAccounted ==
  \A c \in Client :
    /\ link[c] # "reset" =>
         Len(sent[c]) = Len(handled[c]) + Cardinality(InInbox(c)) + Len(up[c])
    /\ link[c] = "up" /\ c \in Approved =>
         Len(got[c]) + Len(down[c]) + Busy(c) = Len(handled[c]) + 1

\* What a client receives is the greeting and then replies to its own requests,
\* in order, whatever the other clients do.
RepliesInOrder ==
  \A c \in Client : \A i \in DOMAIN got[c] :
    IF i = 1 THEN got[c][i] = Accept
    ELSE i - 1 \in DOMAIN sent[c] /\ got[c][i].type = sent[c][i - 1].type

\* A success can be relied on for good: the championship or season it gives an
\* id for is in the tables under that id, through later requests of every
\* client, crashes and failures of the database.  Clubs are left out: a namesake
\* replaces them.  Who gives no year may get any season of the championship.
Holds(r, id) ==
  /\ r.type = "new_championship" =>
       \E k \in championships : k.id = id /\ k.name = r.name
  /\ r.type = "new_season" =>
       \E s \in seasons : /\ s.id = id /\ s.championship = r.championship
                          /\ s.year = r.year \/ r.year = Empty
  /\ r.type = "new_season_club" => r.season = id /\ \E s \in seasons : s.id = id

AnswersHold ==
  \A c \in Client : \A i \in DOMAIN got[c] :
    got[c][i].response.success => Holds(sent[c][i - 1], got[c][i].response.id)

\* The n-th request of c lies in the inbox and the main thread waits all the same.
Missed(c, n) ==
  /\ loop = "asleep"
  /\ n > Len(handled[c]) /\ n <= Len(handled[c]) + Cardinality(InInbox(c))

\* Every request is answered unless its own link goes: other clients can neither
\* starve a client nor leave something behind that blocks the server.  It may wait
\* only where the wakeup for it was missed, until a message of any client or a
\* spurious wakeup ends that; if none does, it waits for ever.
Answered ==
  \A c \in Client : \A n \in 1 .. MaxRequest[c] :
    \/ Len(sent[c]) >= n ~> Len(got[c]) > n \/ link[c] # "up"
    \/ <>[]Missed(c, n)
=============================================================================
