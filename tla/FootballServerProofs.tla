------------------------- MODULE FootballServerProofs -------------------------
(***************************************************************************)
(* Proofs about FootballServer, for any number of clients and requests:    *)
(* requests are handled in the order each client sent them, replies come   *)
(* in that order, and a success can be relied on.                          *)
(*                                                                         *)
(* The inductive invariant follows a client's requests from sent through   *)
(* up, the inbox and on_message to handled, and the replies back: what is  *)
(* on its way up is the end of what was sent, what was handled its         *)
(* beginning, and the inbox holds what lies between, merged with what the  *)
(* others have sent.  What it says of the tables is that of FootballStore  *)
(* (StoreProofs!IInv): no step here touches them but FootballStore's own.  *)
(***************************************************************************)
EXTENDS FootballServer, SequenceFacts, FiniteSetTheorems, TLAPS

StoreProofs == INSTANCE FootballStoreProofs

Message == [remote : Client, msg : Request]

\* The types of what is not FootballStore's.  Whoever has something in the inbox,
\* or is being answered, was accepted by this process.
Types ==
  /\ link \in [Client -> {"none", "up", "broken", "reset"}]
  /\ up \in [Client -> Seq(Request)]
  /\ down \in [Client -> Seq(FromServer)]
  /\ accepted \in Seq(Client)
  /\ inbox \in Seq(Message)
  /\ \A i \in 1 .. Len(inbox) : inbox[i].remote \in Approved
  /\ phase \in Working => current \in [remote : Approved, type : RequestType]
  /\ phase \notin Working => current = NoMessage
  /\ sent \in [Client -> Seq(Request)]
  /\ handled \in [Client -> Seq(Request)]
  /\ got \in [Client -> Seq(FromServer)]

\* A client that has not connected has sent nothing; the connections the server
\* holds are of this process; a connection that went with a process brings
\* nothing more.
LinkInv(c) ==
  /\ link[c] = "none" => sent[c] = <<>> /\ up[c] = <<>>
  /\ link[c] = "reset" => up[c] = <<>>
  /\ c \in Approved => link[c] \in {"up", "broken"}
  /\ c \notin Approved /\ link[c] # "reset" =>
       down[c] = <<>> /\ handled[c] = <<>> /\ got[c] = <<>>

\* How many of c's requests have reached the inbox.
Arrived(c) == Len(sent[c]) - Len(up[c])

\* What is on its way up is the end of what has been sent, what has been handled
\* its beginning.
SentInv(c) ==
  /\ Len(handled[c]) <= Arrived(c)
  /\ \A k \in 1 .. Len(up[c]) : up[c][k] = sent[c][Arrived(c) + k]
  /\ \A k \in 1 .. Len(handled[c]) : handled[c][k] = sent[c][k]

\* m has its place at i among what c receives: the greeting comes first, then the
\* replies to its requests as they were handled.
Placed(c, i, m) ==
  IF i = 1 THEN m = Accept
  ELSE /\ i - 1 \in 1 .. Len(handled[c])
       /\ m.type = handled[c][i - 1].type
       /\ m.response.success => Holds(handled[c][i - 1], m.response.id)

\* Everything that has been received or is on its way has its place, and while the
\* link is up nothing is missing but the reply that is being prepared.
ReplyInv(c) ==
  /\ \A i \in 1 .. Len(got[c]) : Placed(c, i, got[c][i])
  /\ \A k \in 1 .. Len(down[c]) : Placed(c, Len(got[c]) + k, down[c][k])
  /\ link[c] = "up" /\ c \in Approved =>
       Len(got[c]) + Len(down[c]) + Busy(c) = Len(handled[c]) + 1

ClientInv(c) == LinkInv(c) /\ SentInv(c) /\ ReplyInv(c)

\* n numbers the messages of the inbox as their clients sent them: each client's
\* are there in order, and all those that have arrived and are not yet handled.
Numbered(n) ==
  /\ n \in Seq(Nat) /\ Len(n) = Len(inbox)
  /\ \A c \in Client : \A i \in 1 .. Len(inbox) : inbox[i].remote = c =>
       n[i] > Len(handled[c]) /\ n[i] <= Arrived(c) /\ inbox[i].msg = sent[c][n[i]]
  /\ \A i, j \in 1 .. Len(inbox) : i < j /\ inbox[i].remote = inbox[j].remote => n[i] < n[j]
  /\ \A c \in Client : link[c] # "reset" =>
       \A k \in Len(handled[c]) + 1 .. Arrived(c) :
         \E i \in 1 .. Len(inbox) : inbox[i].remote = c /\ n[i] = k

InboxInv == \E n : Numbered(n)

\* The request on_message is busy with, and what its save and its answer say.
LastHandled(c) == handled[c][Len(handled[c])]
CurrentInv ==
  phase \in Working =>
    /\ handled[current.remote] # <<>>
    /\ LastHandled(current.remote).type = current.type
    /\ phase # "replying" => Holds(LastHandled(current.remote), save.row)
    /\ phase = "replying" /\ reply.success => Holds(LastHandled(current.remote), reply.id)

\* The inductive invariant.
IInv ==
  /\ StoreProofs!IInv
  /\ Types
  /\ \A c \in Client : ClientInv(c)
  /\ InboxInv
  /\ CurrentInv

-----------------------------------------------------------------------------
(* What FootballStoreProofs says of the tables *)

\* FootballStoreProofs extends FootballStore, so its copy of the specification is
\* the same one.
LEMMA SameRequests ==
  /\ \A n, c : StoreProofs!NewChampionship(n, c) <=> Store!NewChampionship(n, c)
  /\ \A n, c : StoreProofs!NewClub(n, c) <=> Store!NewClub(n, c)
  /\ \A i, y : StoreProofs!NewSeason(i, y) <=> Store!NewSeason(i, y)
  /\ \A i, j : StoreProofs!NewSeasonClub(i, j) <=> Store!NewSeasonClub(i, j)
<1> USE DEF StoreProofs!tables, Store!tables, StoreProofs!Count, Store!Count,
            StoreProofs!Id, Store!Id, StoreProofs!NoId, Store!NoId,
            StoreProofs!Answer, Store!Answer, StoreProofs!NoSave, Store!NoSave,
            StoreProofs!NoRows, Store!NoRows, StoreProofs!StoredId, Store!StoredId,
            StoreProofs!Insert, Store!Insert, StoreProofs!Begun, Store!Begun,
            StoreProofs!Rows, Store!Rows, StoreProofs!CanFail, Store!CanFail,
            StoreProofs!First, Store!First, StoreProofs!Second, Store!Second
<1>1. \A n, c : StoreProofs!NewChampionship(n, c) <=> Store!NewChampionship(n, c)
  BY DEF StoreProofs!NewChampionship, Store!NewChampionship,
         StoreProofs!ChampionshipsFound, Store!ChampionshipsFound
<1>2. \A n, c : StoreProofs!NewClub(n, c) <=> Store!NewClub(n, c)
  BY DEF StoreProofs!NewClub, Store!NewClub, StoreProofs!ClubsFound, Store!ClubsFound,
         StoreProofs!SaveClub, Store!SaveClub,
         StoreProofs!ReplaceClub, Store!ReplaceClub
<1>3. \A i, y : StoreProofs!NewSeason(i, y) <=> Store!NewSeason(i, y)
  BY DEF StoreProofs!NewSeason, Store!NewSeason,
         StoreProofs!SeasonsFound, Store!SeasonsFound,
         StoreProofs!SeasonClubs, Store!SeasonClubs,
         StoreProofs!InsertSeason, Store!InsertSeason
<1>4. \A i, j : StoreProofs!NewSeasonClub(i, j) <=> Store!NewSeasonClub(i, j)
  BY DEF StoreProofs!NewSeasonClub, Store!NewSeasonClub,
         StoreProofs!SeasonsWithId, Store!SeasonsWithId,
         StoreProofs!SeasonClubs, Store!SeasonClubs,
         StoreProofs!InsertSeason, Store!InsertSeason
<1> QED
  BY <1>1, <1>2, <1>3, <1>4

LEMMA SameStore ==
  /\ StoreProofs!Init <=> Store!Init
  /\ StoreProofs!Next <=> Store!Next
  /\ StoreProofs!vars = Store!vars
<1> USE DEF StoreProofs!tables, Store!tables, StoreProofs!Count, Store!Count,
            StoreProofs!Id, Store!Id, StoreProofs!NoId, Store!NoId,
            StoreProofs!Answer, Store!Answer, StoreProofs!CanFail, Store!CanFail,
            StoreProofs!NoSave, Store!NoSave, StoreProofs!NoRows, Store!NoRows,
            StoreProofs!NoResponse, Store!NoResponse
<1>1. StoreProofs!Start <=> Store!Start
  BY DEF StoreProofs!Start, Store!Start, StoreProofs!ClubsFound, Store!ClubsFound,
         StoreProofs!First, Store!First, StoreProofs!Second, Store!Second,
         StoreProofs!StoredId, Store!StoredId, StoreProofs!SaveClub, Store!SaveClub,
         StoreProofs!ReplaceClub, Store!ReplaceClub
<1>2. /\ StoreProofs!Crash <=> Store!Crash
      /\ StoreProofs!Respond <=> Store!Respond
      /\ StoreProofs!Reload <=> Store!Reload
      /\ StoreProofs!ReloadRelated <=> Store!ReloadRelated
      /\ StoreProofs!EndSave <=> Store!EndSave
  BY DEF StoreProofs!Crash, Store!Crash, StoreProofs!Respond, Store!Respond,
         StoreProofs!Reload, Store!Reload, StoreProofs!ReloadRelated, Store!ReloadRelated,
         StoreProofs!EndSave, Store!EndSave
<1>3. \A i : StoreProofs!SaveRelated(i) <=> Store!SaveRelated(i)
  BY DEF StoreProofs!SaveRelated, Store!SaveRelated,
         StoreProofs!NextClubs, Store!NextClubs,
         StoreProofs!ClubSeason, Store!ClubSeason
<1>4. StoreProofs!Next <=> Store!Next
  BY <1>1, <1>2, <1>3, SameRequests
     DEF StoreProofs!Next, Store!Next, StoreProofs!Request, Store!Request
<1> QED
  BY <1>4 DEF StoreProofs!Init, Store!Init, StoreProofs!vars, Store!vars

LEMMA Assumed == StoreProofs!StoreAssumption
BY ServerAssumption DEF StoreProofs!StoreAssumption

\* A step of FootballStore keeps its invariant and every row of a championship
\* or a season.
LEMMA StoreKept ==
  ASSUME StoreProofs!IInv, [Store!Next]_(Store!vars)
  PROVE  /\ StoreProofs!IInv'
         /\ championships \subseteq championships' /\ seasons \subseteq seasons'
<1>1. [StoreProofs!Next]_(StoreProofs!vars)
  BY SameStore DEF StoreProofs!vars, Store!vars
<1> QED
  BY <1>1, Assumed, StoreProofs!NextIInv, StoreProofs!RowsStay

\* What FootballStore's invariant says of its types.
LEMMA StoreTypes ==
  ASSUME StoreProofs!IInv
  PROVE  /\ Store!TypeOK
         /\ phase \in {"down", "waiting"} \cup Working
         /\ reply \in Store!Response /\ save \in Store!TableSave
         /\ phase \in {"related", "reload_related"} => save.id = save.row
BY DEF StoreProofs!IInv, StoreProofs!TablesInv, StoreProofs!TableTypes,
       StoreProofs!ControlTypes, StoreProofs!Championship, StoreProofs!Club,
       StoreProofs!Season, StoreProofs!Membership, StoreProofs!Id, StoreProofs!NoId,
       StoreProofs!Response, StoreProofs!NoSave, StoreProofs!NoRows, StoreProofs!Saving,
       StoreProofs!TableSave, StoreProofs!SaveInv,
       Store!TypeOK, Store!Championship, Store!Club,
       Store!Season, Store!Membership, Store!Id, Store!NoId,
       Store!Response, Store!NoSave, Store!NoRows, Store!Saving, Store!TableSave, Working

\* What an answer says stays true as long as those rows do.
LEMMA HoldsKept ==
  ASSUME championships \subseteq championships', seasons \subseteq seasons'
  PROVE  \A r, id : Holds(r, id) => Holds(r, id)'
BY DEF Holds

-----------------------------------------------------------------------------
(* What keeps the parts of the invariant *)

\* The counts of a client are numbers.
LEMMA Counts ==
  ASSUME Types, NEW c \in Client
  PROVE  /\ up[c] \in Seq(Request) /\ sent[c] \in Seq(Request) /\ handled[c] \in Seq(Request)
         /\ down[c] \in Seq(FromServer) /\ got[c] \in Seq(FromServer)
         /\ Len(up[c]) \in Nat /\ Len(sent[c]) \in Nat /\ Len(handled[c]) \in Nat
         /\ Len(down[c]) \in Nat /\ Len(got[c]) \in Nat
         /\ Arrived(c) \in Int /\ Busy(c) \in {0, 1}
<1>1. /\ up[c] \in Seq(Request) /\ sent[c] \in Seq(Request) /\ handled[c] \in Seq(Request)
      /\ down[c] \in Seq(FromServer) /\ got[c] \in Seq(FromServer)
  BY DEF Types
<1>2. /\ Len(up[c]) \in Nat /\ Len(sent[c]) \in Nat /\ Len(handled[c]) \in Nat
      /\ Len(down[c]) \in Nat /\ Len(got[c]) \in Nat
  BY <1>1
<1>3. Arrived(c) \in Int
  BY <1>2 DEF Arrived
<1>4. Busy(c) \in {0, 1}
  BY DEF Busy
<1> QED
  BY <1>1, <1>2, <1>3, <1>4

\* What has been sent has arrived or is on its way.
LEMMA ArrivedBound ==
  ASSUME Types, NEW c \in Client
  PROVE  /\ Arrived(c) \in Int /\ Arrived(c) <= Len(sent[c])
         /\ Arrived(c) + Len(up[c]) = Len(sent[c])
<1>1. \A m, n \in Nat : m - n \in Int /\ m - n <= m /\ m - n + n = m
  OBVIOUS
<1> QED
  BY <1>1, Counts DEF Arrived

LEMMA ArrivedSame ==
  ASSUME Types, NEW c \in Client, sent'[c] = sent[c], up'[c] = up[c]
  PROVE  Arrived(c)' = Arrived(c) /\ Arrived(c) <= Len(sent[c])
BY ArrivedBound DEF Arrived

\* What a message of the inbox is.
LEMMA InboxFacts ==
  ASSUME Types, NEW i \in 1 .. Len(inbox)
  PROVE  /\ inbox \in Seq(Message) /\ inbox[i] \in Message
         /\ inbox[i].remote \in Client /\ inbox[i].msg \in Request
         /\ inbox[i].remote \in Approved
<1>1. inbox \in Seq(Message) /\ inbox[i].remote \in Approved
  BY DEF Types
<1>2. inbox[i] \in Message
  BY <1>1
<1> QED
  BY <1>1, <1>2 DEF Message

\* A reply keeps its place when more is handled and the rows stay.
LEMMA PlacedKept ==
  ASSUME Types, NEW c \in Client, NEW i, NEW m,
         \A r, id : Holds(r, id) => Holds(r, id)',
         Len(handled'[c]) \in Nat, Len(handled[c]) <= Len(handled'[c]),
         \A k \in 1 .. Len(handled[c]) : handled'[c][k] = handled[c][k],
         i \in Nat, Placed(c, i, m)
  PROVE  Placed(c, i, m)'
<1>1. CASE i = 1
  BY <1>1 DEF Placed, Accept
<1>2. CASE i # 1
  <2>1. i - 1 \in 1 .. Len(handled[c])
    BY <1>2 DEF Placed
  <2>2. i - 1 \in 1 .. Len(handled'[c])
    BY <2>1, Counts
  <2> QED
    BY <1>2, <2>1, <2>2 DEF Placed
<1> QED
  BY <1>1, <1>2

\* A client that nothing happens to.
LEMMA ClientSame ==
  ASSUME Types, NEW c \in Client, ClientInv(c),
         championships \subseteq championships', seasons \subseteq seasons',
         link'[c] = link[c], up'[c] = up[c], down'[c] = down[c],
         sent'[c] = sent[c], handled'[c] = handled[c], got'[c] = got[c],
         c \in Approved' <=> c \in Approved,
         link[c] = "up" /\ c \in Approved => Busy(c)' = Busy(c)
  PROVE  ClientInv(c)'
<1>1. LinkInv(c)'
  BY DEF ClientInv, LinkInv
<1>2. SentInv(c)'
  BY DEF ClientInv, SentInv, Arrived
<1>3. \A i \in Nat : \A m : Placed(c, i, m) => Placed(c, i, m)'
  BY HoldsKept, PlacedKept, Counts
<1>4. \A i \in 1 .. Len(got[c]) : Placed(c, i, got[c][i])'
  BY <1>3, Counts DEF ClientInv, ReplyInv
<1>5. \A k \in 1 .. Len(down[c]) : Placed(c, Len(got[c]) + k, down[c][k])'
  <2>1. \A k \in 1 .. Len(down[c]) : Len(got[c]) + k \in Nat
    BY Counts
  <2> QED
    BY <1>3, <2>1 DEF ClientInv, ReplyInv
<1>6. link[c] = "up" /\ c \in Approved =>
        Len(got[c]) + Len(down[c]) + Busy(c) = Len(handled[c]) + 1
  BY DEF ClientInv, ReplyInv
<1>7. ReplyInv(c)'
  BY <1>4, <1>5, <1>6 DEF ReplyInv, Placed, Accept
<1> QED
  BY <1>1, <1>2, <1>7 DEF ClientInv

\* An inbox that nothing happens to, whatever more is sent or is lost on its way.
LEMMA InboxSame ==
  ASSUME Types, InboxInv, inbox' = inbox, handled' = handled,
         \A c \in Client : /\ Arrived(c)' = Arrived(c)
                           /\ \A k \in 1 .. Len(sent[c]) : sent'[c][k] = sent[c][k]
                           /\ Arrived(c) <= Len(sent[c])
                           /\ link'[c] # "reset" => link[c] # "reset"
  PROVE  InboxInv'
<1>1. PICK n : Numbered(n)
  BY DEF InboxInv
<1>2. ASSUME NEW c \in Client, NEW i \in 1 .. Len(inbox), inbox[i].remote = c
      PROVE  n[i] > Len(handled[c]) /\ n[i] <= Arrived(c)' /\ inbox[i].msg = sent'[c][n[i]]
  <2>1. n[i] > Len(handled[c]) /\ n[i] <= Arrived(c) /\ inbox[i].msg = sent[c][n[i]]
    BY <1>1, <1>2 DEF Numbered
  <2>2. n[i] \in Nat
    BY <1>1, <1>2, ElementOfSeq DEF Numbered
  <2>3. n[i] \in 1 .. Len(sent[c])
    BY <1>2, <2>1, <2>2, Counts
  <2> QED
    BY <1>2, <2>1, <2>3
<1>3. \A i, j \in 1 .. Len(inbox) : i < j /\ inbox[i].remote = inbox[j].remote => n[i] < n[j]
  BY <1>1 DEF Numbered
<1>4. \A c \in Client : link'[c] # "reset" =>
        \A k \in Len(handled[c]) + 1 .. Arrived(c) :
          \E i \in 1 .. Len(inbox) : inbox[i].remote = c /\ n[i] = k
  BY <1>1 DEF Numbered
<1>5. \A c \in Client : Arrived(c)' = Arrived(c)
  OBVIOUS
<1>6. n \in Seq(Nat) /\ Len(n) = Len(inbox)
  BY <1>1 DEF Numbered
<1>7. Numbered(n)'
  BY <1>2, <1>3, <1>4, <1>5, <1>6 DEF Numbered
<1> QED
  BY <1>7 DEF InboxInv

\* The request that is being executed, when nothing happens to it.
LEMMA CurrentSame ==
  ASSUME CurrentInv, UNCHANGED store, current' = current, handled' = handled
  PROVE  CurrentInv'
BY DEF CurrentInv, LastHandled, store, Holds

\* The tables, when nothing happens to them.
LEMMA StoreSame ==
  ASSUME StoreProofs!IInv, UNCHANGED store
  PROVE  /\ StoreProofs!IInv'
         /\ championships \subseteq championships' /\ seasons \subseteq seasons'
         /\ phase' = phase
BY StoreKept DEF store, Store!vars

-----------------------------------------------------------------------------
(* The clients' steps *)

LEMMA ConnectInv ==
  ASSUME IInv, NEW d \in Client, Connect(d)
  PROVE  IInv'
<1>1. /\ Types /\ InboxInv /\ CurrentInv /\ StoreProofs!IInv
      /\ \A c \in Client : ClientInv(c)
  BY DEF IInv
<1>2. /\ UNCHANGED store /\ up' = up /\ down' = down /\ accepted' = accepted
      /\ inbox' = inbox /\ current' = current
      /\ sent' = sent /\ handled' = handled /\ got' = got
      /\ link[d] = "none" /\ link' = [link EXCEPT ![d] = "up"]
  BY DEF Connect, histories
<1>3. /\ link'[d] = "up" /\ \A c \in Client : c # d => link'[c] = link[c]
      /\ link' \in [Client -> {"none", "up", "broken", "reset"}]
  BY <1>1, <1>2 DEF Types
<1>4. /\ StoreProofs!IInv' /\ phase' = phase
      /\ championships \subseteq championships' /\ seasons \subseteq seasons'
  BY <1>1, <1>2, StoreSame
<1>5. Approved' = Approved
  BY <1>2 DEF Approved
<1>6. Types'
  BY <1>1, <1>2, <1>3, <1>4, <1>5 DEF Types
<1>7. ASSUME NEW c \in Client, c # d PROVE ClientInv(c)'
  <2>1. Busy(c)' = Busy(c)
    BY <1>2, <1>4 DEF Busy
  <2> QED
    BY <1>1, <1>2, <1>3, <1>4, <1>5, <1>7, <2>1, ClientSame
<1>8. ClientInv(d)'
  <2>1. LinkInv(d) /\ SentInv(d) /\ ReplyInv(d)
    BY <1>1 DEF ClientInv
  <2>2. d \notin Approved
    BY <1>2, <2>1 DEF LinkInv
  <2>3. LinkInv(d)'
    BY <1>2, <1>3, <1>5, <2>1, <2>2 DEF LinkInv
  <2>4. SentInv(d)'
    BY <1>2, <2>1 DEF SentInv, Arrived
  <2>5. got[d] = <<>> /\ down[d] = <<>>
    BY <1>2, <2>1, <2>2 DEF LinkInv
  <2>6. ReplyInv(d)'
    BY <1>2, <1>5, <2>2, <2>5 DEF ReplyInv
  <2> QED
    BY <2>3, <2>4, <2>6 DEF ClientInv
<1>9. InboxInv'
  <2>1. \A c \in Client : link'[c] # "reset" => link[c] # "reset"
    BY <1>2, <1>3
  <2> QED
    BY <1>1, <1>2, <2>1, ArrivedSame, InboxSame
<1>10. CurrentInv'
  BY <1>1, <1>2, CurrentSame
<1> QED
  BY <1>4, <1>6, <1>7, <1>8, <1>9, <1>10 DEF IInv

LEMMA SendRequestInv ==
  ASSUME IInv, NEW d \in Client, SendRequest(d)
  PROVE  IInv'
<1>1. /\ Types /\ InboxInv /\ CurrentInv /\ StoreProofs!IInv
      /\ \A c \in Client : ClientInv(c)
  BY DEF IInv
<1>2. PICK r \in Requests[d] : /\ up' = [up EXCEPT ![d] = Append(@, r)]
                               /\ sent' = [sent EXCEPT ![d] = Append(@, r)]
  BY DEF SendRequest
<1>3. /\ UNCHANGED store /\ link' = link /\ down' = down /\ accepted' = accepted
      /\ inbox' = inbox /\ current' = current
      /\ handled' = handled /\ got' = got
      /\ link[d] = "up"
  BY DEF SendRequest
<1>4. r \in Request
  BY ServerAssumption
<1> DEFINE u == up[d]
           s == sent[d]
<1>5. u \in Seq(Request) /\ s \in Seq(Request)
  BY <1>1, Counts
<1>6. /\ up'[d] = Append(u, r) /\ sent'[d] = Append(s, r)
      /\ \A c \in Client : c # d => up'[c] = up[c] /\ sent'[c] = sent[c]
  BY <1>1, <1>2 DEF Types
<1>7. up' \in [Client -> Seq(Request)] /\ sent' \in [Client -> Seq(Request)]
  <2>1. Append(u, r) \in Seq(Request) /\ Append(s, r) \in Seq(Request)
    BY <1>4, <1>5, AppendFacts
  <2> QED
    BY <1>1, <1>2, <2>1 DEF Types
<1>8. /\ StoreProofs!IInv' /\ phase' = phase
      /\ championships \subseteq championships' /\ seasons \subseteq seasons'
  BY <1>1, <1>3, StoreSame
<1>9. Approved' = Approved
  BY <1>3 DEF Approved
<1>10. Types'
  BY <1>1, <1>3, <1>7, <1>8, <1>9 DEF Types
<1>11. /\ Len(u) \in Nat /\ Len(s) \in Nat
       /\ Len(up'[d]) = Len(u) + 1 /\ Len(sent'[d]) = Len(s) + 1
       /\ up'[d][Len(u) + 1] = r /\ sent'[d][Len(s) + 1] = r
       /\ \A k \in 1 .. Len(u) : up'[d][k] = u[k]
       /\ \A k \in 1 .. Len(s) : sent'[d][k] = s[k]
  BY <1>4, <1>5, <1>6, AppendFacts
<1>12. ASSUME NEW c \in Client, c # d PROVE ClientInv(c)'
  <2>1. Busy(c)' = Busy(c)
    BY <1>3, <1>8 DEF Busy
  <2> QED
    BY <1>1, <1>3, <1>6, <1>8, <1>9, <1>12, <2>1, ClientSame
<1>13. Arrived(d)' = Arrived(d) /\ Arrived(d) + Len(u) = Len(s)
  BY <1>11 DEF Arrived
<1>14. ClientInv(d)'
  <2>1. LinkInv(d) /\ SentInv(d) /\ ReplyInv(d)
    BY <1>1 DEF ClientInv
  <2>2. LinkInv(d)'
    BY <1>3, <1>9, <2>1 DEF LinkInv
  <2>3. Len(handled[d]) \in Nat /\ Arrived(d) \in Int /\ Len(handled[d]) <= Arrived(d)
    BY <1>1, <2>1, Counts DEF SentInv
  <2>4. ASSUME NEW k \in 1 .. Len(up'[d]) PROVE up'[d][k] = sent'[d][Arrived(d) + k]
    <3>0. /\ k \in 1 .. Len(u) + 1 /\ Arrived(d) \in Nat
          /\ Arrived(d) + (Len(u) + 1) = Len(s) + 1
      <4>1. PICK a, h, x, y : /\ a = Arrived(d) /\ h = Len(handled[d])
                              /\ x = Len(u) /\ y = Len(s)
        OBVIOUS
      <4>2. x \in Nat /\ y \in Nat /\ k \in 1 .. x + 1
        BY <1>11, <4>1
      <4>3. a \in Int /\ h \in Nat /\ h <= a /\ a + x = y
        BY <1>13, <2>3, <4>1
      <4>4. a \in Nat /\ a + (x + 1) = y + 1
        BY <4>2, <4>3
      <4> QED
        BY <4>1, <4>2, <4>4
    <3>1. CASE k = Len(u) + 1
      BY <1>11, <3>0, <3>1
    <3>2. CASE k # Len(u) + 1
      <4>1. k \in 1 .. Len(u) /\ Arrived(d) + k \in 1 .. Len(s)
        <5>1. \A a, x, y \in Nat : \A j \in 1 .. x + 1 :
                a + (x + 1) = y + 1 /\ j # x + 1 => j \in 1 .. x /\ a + j \in 1 .. y
          OBVIOUS
        <5>2. Len(u) \in Nat /\ Len(s) \in Nat
          BY <1>11
        <5> QED
          BY <3>0, <3>2, <5>1, <5>2
      <4>2. u[k] = s[Arrived(d) + k]
        BY <2>1, <4>1 DEF SentInv
      <4> QED
        BY <1>11, <4>1, <4>2
    <3> QED
      BY <3>1, <3>2
  <2>5. ASSUME NEW k \in 1 .. Len(handled[d]) PROVE handled[d][k] = sent'[d][k]
    <3>1. k \in 1 .. Len(s)
      BY <1>11, <1>13, <2>3
    <3>2. handled[d][k] = s[k]
      BY <2>1 DEF SentInv
    <3> QED
      BY <1>11, <3>1, <3>2
  <2>6. SentInv(d)'
    BY <1>3, <1>13, <2>3, <2>4, <2>5 DEF SentInv
  <2>7. ReplyInv(d)'
    <3>1. \A i \in Nat : \A m : Placed(d, i, m) => Placed(d, i, m)'
      BY <1>1, <1>3, <1>8, <2>3, HoldsKept, PlacedKept
    <3>2. Busy(d)' = Busy(d)
      BY <1>3, <1>8 DEF Busy
    <3>3. \A k \in 1 .. Len(down[d]) : Len(got[d]) + k \in Nat
      BY <1>1, Counts
    <3>4. /\ \A i \in 1 .. Len(got[d]) : Placed(d, i, got[d][i])'
          /\ \A k \in 1 .. Len(down[d]) : Placed(d, Len(got[d]) + k, down[d][k])'
      BY <1>3, <2>1, <3>1, <3>3 DEF ReplyInv
    <3> QED
      BY <1>3, <1>9, <2>1, <3>2, <3>4 DEF ReplyInv, Placed, Accept
  <2> QED
    BY <2>2, <2>6, <2>7 DEF ClientInv
<1>15. InboxInv'
  <2>1. ASSUME NEW c \in Client
        PROVE  /\ Arrived(c)' = Arrived(c) /\ Arrived(c) <= Len(sent[c])
               /\ \A k \in 1 .. Len(sent[c]) : sent'[c][k] = sent[c][k]
    <3>1. CASE c = d
      BY <1>1, <1>11, <1>13, <3>1, ArrivedBound
    <3>2. CASE c # d
      BY <1>1, <1>6, <3>2, ArrivedSame
    <3> QED
      BY <3>1, <3>2
  <2> QED
    BY <1>1, <1>3, <2>1, InboxSame
<1>16. CurrentInv'
  BY <1>1, <1>3, CurrentSame
<1> QED
  BY <1>8, <1>10, <1>12, <1>14, <1>15, <1>16 DEF IInv

LEMMA ReceiveInv ==
  ASSUME IInv, NEW d \in Client, Receive(d)
  PROVE  IInv'
<1>1. /\ Types /\ InboxInv /\ CurrentInv /\ StoreProofs!IInv
      /\ \A c \in Client : ClientInv(c)
  BY DEF IInv
<1>2. /\ UNCHANGED store /\ link' = link /\ up' = up /\ accepted' = accepted
      /\ inbox' = inbox /\ current' = current
      /\ sent' = sent /\ handled' = handled
      /\ down[d] # <<>>
      /\ down' = [down EXCEPT ![d] = Tail(@)]
      /\ got' = [got EXCEPT ![d] = Append(@, Head(down[d]))]
  BY DEF Receive
<1> DEFINE w == down[d]
           g == got[d]
<1>3. w \in Seq(FromServer) /\ g \in Seq(FromServer) /\ Len(w) \in Nat /\ Len(g) \in Nat
  BY <1>1, Counts
<1>4. /\ Head(w) \in FromServer /\ Head(w) = w[1]
      /\ Tail(w) \in Seq(FromServer) /\ Len(w) \in Nat \ {0} /\ Len(Tail(w)) = Len(w) - 1
      /\ \A k \in 1 .. Len(Tail(w)) : Tail(w)[k] = w[k + 1]
  BY <1>2, <1>3, TailFacts
<1>5. /\ Append(g, Head(w)) \in Seq(FromServer)
      /\ Len(Append(g, Head(w))) = Len(g) + 1
      /\ \A k \in 1 .. Len(g) : Append(g, Head(w))[k] = g[k]
      /\ Append(g, Head(w))[Len(g) + 1] = Head(w)
  BY <1>3, <1>4, AppendFacts
<1>6. /\ down'[d] = Tail(w) /\ got'[d] = Append(g, Head(w))
      /\ \A c \in Client : c # d => down'[c] = down[c] /\ got'[c] = got[c]
  BY <1>1, <1>2 DEF Types
<1>7. down' \in [Client -> Seq(FromServer)] /\ got' \in [Client -> Seq(FromServer)]
  BY <1>1, <1>2, <1>4, <1>5 DEF Types
<1>8. /\ StoreProofs!IInv' /\ phase' = phase
      /\ championships \subseteq championships' /\ seasons \subseteq seasons'
  BY <1>1, <1>2, StoreSame
<1>9. Approved' = Approved
  BY <1>2 DEF Approved
<1>10. Types'
  BY <1>1, <1>2, <1>7, <1>8, <1>9 DEF Types
<1>11. \A c \in Client : Busy(c)' = Busy(c)
  BY <1>2, <1>8 DEF Busy
<1>12. ASSUME NEW c \in Client, c # d PROVE ClientInv(c)'
  BY <1>1, <1>2, <1>6, <1>8, <1>9, <1>11, <1>12, ClientSame
<1>13. ClientInv(d)'
  <2>1. LinkInv(d) /\ SentInv(d) /\ ReplyInv(d)
    BY <1>1 DEF ClientInv
  <2>2. LinkInv(d)'
    BY <1>2, <1>9, <2>1 DEF LinkInv
  <2>3. SentInv(d)'
    BY <1>2, <2>1 DEF SentInv, Arrived
  <2>4. Len(handled[d]) \in Nat
    BY <1>1, Counts
  <2>5. \A i \in Nat : \A m : Placed(d, i, m) => Placed(d, i, m)'
    BY <1>1, <1>2, <1>8, <2>4, HoldsKept, PlacedKept
  <2>6. \A k \in 1 .. Len(w) : Placed(d, Len(g) + k, w[k])
    BY <2>1 DEF ReplyInv
  <2>7. ASSUME NEW i \in 1 .. Len(g) + 1
        PROVE  Placed(d, i, Append(g, Head(w))[i])
    <3>1. CASE i = Len(g) + 1
      <4>1. 1 \in 1 .. Len(w)
        BY <1>4
      <4> QED
        BY <1>4, <1>5, <2>6, <3>1, <4>1
    <3>2. CASE i # Len(g) + 1
      <4>1. i \in 1 .. Len(g)
        BY <1>3, <3>2
      <4>2. Placed(d, i, g[i])
        BY <2>1, <4>1 DEF ReplyInv
      <4> QED
        BY <1>5, <4>1, <4>2
    <3> QED
      BY <3>1, <3>2
  <2>8. ASSUME NEW k \in 1 .. Len(Tail(w))
        PROVE  Placed(d, Len(g) + 1 + k, Tail(w)[k])
    <3>1. \A a, b \in Nat : \A j \in 1 .. a - 1 : j + 1 \in 1 .. a /\ b + 1 + j = b + (j + 1)
      OBVIOUS
    <3>2. k + 1 \in 1 .. Len(w) /\ Len(g) + 1 + k = Len(g) + (k + 1)
      BY <1>3, <1>4, <3>1
    <3> QED
      BY <1>4, <2>6, <3>2
  <2>9. /\ \A i \in 1 .. Len(got'[d]) : Placed(d, i, got'[d][i])
        /\ \A k \in 1 .. Len(down'[d]) : Placed(d, Len(got'[d]) + k, down'[d][k])
    BY <1>5, <1>6, <2>7, <2>8
  <2>10. Len(got'[d]) \in Nat /\ Len(down'[d]) \in Nat
    BY <1>3, <1>4, <1>5, <1>6
  <2>11. /\ \A i \in 1 .. Len(got'[d]) : Placed(d, i, got[d][i])'
         /\ \A k \in 1 .. Len(down'[d]) : Placed(d, Len(got[d]) + k, down[d][k])'
    <3>1. ASSUME NEW i \in 1 .. Len(got'[d]) PROVE Placed(d, i, got[d][i])'
      BY <2>5, <2>9, <2>10
    <3>2. ASSUME NEW k \in 1 .. Len(down'[d]) PROVE Placed(d, Len(got[d]) + k, down[d][k])'
      <4>1. Len(got'[d]) + k \in Nat
        BY <2>10
      <4> QED
        BY <2>5, <2>9, <4>1
    <3> QED
      BY <3>1, <3>2
  <2>12. Len(got'[d]) + Len(down'[d]) = Len(got[d]) + Len(down[d])
    <3>1. \A a, b \in Nat : (b + 1) + (a - 1) = b + a
      OBVIOUS
    <3>2. Len(got'[d]) = Len(got[d]) + 1 /\ Len(down'[d]) = Len(down[d]) - 1
      BY <1>4, <1>5, <1>6
    <3> QED
      BY <1>3, <3>1, <3>2
  <2>13. link[d] = "up" /\ d \in Approved =>
           Len(got'[d]) + Len(down'[d]) + Busy(d) = Len(handled[d]) + 1
    BY <2>1, <2>12 DEF ReplyInv
  <2>14. ReplyInv(d)'
    BY <1>2, <1>9, <1>11, <2>11, <2>13 DEF ReplyInv
  <2> QED
    BY <2>2, <2>3, <2>14 DEF ClientInv
<1>14. InboxInv'
  BY <1>1, <1>2, ArrivedSame, InboxSame
<1>15. CurrentInv'
  BY <1>1, <1>2, CurrentSame
<1> QED
  BY <1>8, <1>10, <1>12, <1>13, <1>14, <1>15 DEF IInv

LEMMA BreakInv ==
  ASSUME IInv, NEW d \in Client, Break(d)
  PROVE  IInv'
<1>1. /\ Types /\ InboxInv /\ CurrentInv /\ StoreProofs!IInv
      /\ \A c \in Client : ClientInv(c)
  BY DEF IInv
<1>2. /\ UNCHANGED store /\ up' = up /\ down' = down /\ accepted' = accepted
      /\ inbox' = inbox /\ current' = current
      /\ sent' = sent /\ handled' = handled /\ got' = got
      /\ link[d] = "up" /\ link' = [link EXCEPT ![d] = "broken"]
  BY DEF Break, histories
<1>3. /\ link'[d] = "broken" /\ \A c \in Client : c # d => link'[c] = link[c]
      /\ link' \in [Client -> {"none", "up", "broken", "reset"}]
  BY <1>1, <1>2 DEF Types
<1>4. /\ StoreProofs!IInv' /\ phase' = phase
      /\ championships \subseteq championships' /\ seasons \subseteq seasons'
  BY <1>1, <1>2, StoreSame
<1>5. Approved' = Approved
  BY <1>2 DEF Approved
<1>6. Types'
  BY <1>1, <1>2, <1>3, <1>4, <1>5 DEF Types
<1>7. ASSUME NEW c \in Client, c # d PROVE ClientInv(c)'
  <2>1. Busy(c)' = Busy(c)
    BY <1>2, <1>4 DEF Busy
  <2> QED
    BY <1>1, <1>2, <1>3, <1>4, <1>5, <1>7, <2>1, ClientSame
<1>8. ClientInv(d)'
  <2>1. LinkInv(d) /\ SentInv(d) /\ ReplyInv(d)
    BY <1>1 DEF ClientInv
  <2>2. LinkInv(d)'
    BY <1>2, <1>3, <1>5, <2>1 DEF LinkInv
  <2>3. SentInv(d)'
    BY <1>2, <2>1 DEF SentInv, Arrived
  <2>4. Len(handled[d]) \in Nat
    BY <1>1, Counts
  <2>5. \A i \in Nat : \A m : Placed(d, i, m) => Placed(d, i, m)'
    BY <1>1, <1>2, <1>4, <2>4, HoldsKept, PlacedKept
  <2>6. \A k \in 1 .. Len(down[d]) : Len(got[d]) + k \in Nat
    BY <1>1, Counts
  <2>7. /\ \A i \in 1 .. Len(got[d]) : Placed(d, i, got[d][i])'
        /\ \A k \in 1 .. Len(down[d]) : Placed(d, Len(got[d]) + k, down[d][k])'
    BY <1>2, <2>1, <2>5, <2>6 DEF ReplyInv
  <2>8. ReplyInv(d)'
    BY <1>2, <1>3, <2>7 DEF ReplyInv
  <2> QED
    BY <2>2, <2>3, <2>8 DEF ClientInv
<1>9. InboxInv'
  <2>1. \A c \in Client : link'[c] # "reset" => link[c] # "reset"
    BY <1>2, <1>3
  <2> QED
    BY <1>1, <1>2, <2>1, ArrivedSame, InboxSame
<1>10. CurrentInv'
  BY <1>1, <1>2, CurrentSame
<1> QED
  BY <1>4, <1>6, <1>7, <1>8, <1>9, <1>10 DEF IInv

-----------------------------------------------------------------------------
(* The io context's steps *)

\* What connection::send does to what is on its way.
LEMMA SendToFacts ==
  ASSUME Types, NEW d \in Client, NEW m \in FromServer, SendTo(d, m)
  PROVE  /\ down' \in [Client -> Seq(FromServer)]
         /\ \A c \in Client : c # d => down'[c] = down[c]
         /\ down'[d] = IF link[d] = "up" THEN Append(down[d], m) ELSE down[d]
<1>1. down \in [Client -> Seq(FromServer)] /\ down[d] \in Seq(FromServer)
  BY DEF Types
<1>2. Append(down[d], m) \in Seq(FromServer)
  BY <1>1, AppendFacts
<1> QED
  BY <1>1, <1>2 DEF SendTo

LEMMA ReplyTyped ==
  /\ Accept \in FromServer /\ Accept.type = "accept" /\ ~ Accept.response.success
  /\ \A t \in RequestType : \A r \in Store!Response :
       /\ Reply(t, r) \in FromServer
       /\ Reply(t, r).type = t /\ Reply(t, r).response = r
  /\ Store!NoResponse \in Store!Response /\ ~ Store!NoResponse.success
<1>1. Store!NoResponse \in Store!Response /\ ~ Store!NoResponse.success
  BY DEF Store!NoResponse, Store!Response, Store!NoId
<1> HIDE DEF Store!NoResponse
<1> QED
  BY <1>1 DEF Accept, Reply, FromServer

LEMMA AcceptClientInv ==
  ASSUME IInv, NEW d \in Client, AcceptClient(d)
  PROVE  IInv'
<1>1. /\ Types /\ InboxInv /\ CurrentInv /\ StoreProofs!IInv
      /\ \A c \in Client : ClientInv(c)
  BY DEF IInv
<1>2. /\ UNCHANGED store /\ link' = link /\ up' = up
      /\ inbox' = inbox /\ current' = current
      /\ sent' = sent /\ handled' = handled /\ got' = got
      /\ link[d] \in {"up", "broken"} /\ d \notin Approved
      /\ SendTo(d, Accept) /\ accepted' = Append(accepted, d)
  BY DEF AcceptClient, histories
<1>3. /\ down' \in [Client -> Seq(FromServer)]
      /\ \A c \in Client : c # d => down'[c] = down[c]
      /\ down'[d] = IF link[d] = "up" THEN Append(down[d], Accept) ELSE down[d]
  BY <1>1, <1>2, SendToFacts, ReplyTyped
<1>4. /\ StoreProofs!IInv' /\ phase' = phase
      /\ championships \subseteq championships' /\ seasons \subseteq seasons'
  BY <1>1, <1>2, StoreSame
<1>5. accepted' \in Seq(Client) /\ Approved' = Approved \cup {d}
  <2>1. accepted \in Seq(Client)
    BY <1>1 DEF Types
  <2>2. /\ Append(accepted, d) \in Seq(Client)
        /\ DOMAIN Append(accepted, d) = 1 .. Len(accepted) + 1
        /\ DOMAIN accepted = 1 .. Len(accepted)
        /\ \A i \in 1 .. Len(accepted) : Append(accepted, d)[i] = accepted[i]
        /\ Append(accepted, d)[Len(accepted) + 1] = d
        /\ Len(accepted) \in Nat
    BY <2>1
  <2>3. 1 .. Len(accepted) + 1 = 1 .. Len(accepted) \cup {Len(accepted) + 1}
    BY <2>2
  <2> QED
    BY <1>2, <2>2, <2>3 DEF Approved
<1>6. Types'
  BY <1>1, <1>2, <1>3, <1>4, <1>5 DEF Types
<1>7. ASSUME NEW c \in Client, c # d PROVE ClientInv(c)'
  <2>1. Busy(c)' = Busy(c)
    BY <1>2, <1>4 DEF Busy
  <2>2. c \in Approved' <=> c \in Approved
    BY <1>5, <1>7
  <2> QED
    BY <1>1, <1>2, <1>3, <1>4, <1>7, <2>1, <2>2, ClientSame
<1>8. ClientInv(d)'
  <2>1. LinkInv(d) /\ SentInv(d) /\ ReplyInv(d)
    BY <1>1 DEF ClientInv
  <2>2. d \in Approved'
    BY <1>5
  <2>3. LinkInv(d)'
    BY <1>2, <2>2 DEF LinkInv
  <2>4. SentInv(d)'
    BY <1>2, <2>1 DEF SentInv, Arrived
  <2>5. down[d] = <<>> /\ got[d] = <<>> /\ handled[d] = <<>>
    BY <1>2, <2>1 DEF LinkInv
  <2>6. Len(down[d]) = 0 /\ Len(got[d]) = 0 /\ Len(handled[d]) = 0
    BY <2>5
  <2>7. Busy(d)' = 0
    BY <1>1, <1>2, <1>4 DEF Busy, Types
  <2>8. CASE link[d] = "up"
    <3>1. down'[d] = Append(down[d], Accept)
      BY <1>3, <2>8
    <3>2. down[d] \in Seq(FromServer)
      BY <1>1, Counts
    <3>3. Len(down'[d]) = 1 /\ down'[d][1] = Accept
      BY <2>6, <3>1, <3>2, ReplyTyped, AppendFacts
    <3>4. \A k \in 1 .. 1 : k = 1
      OBVIOUS
    <3>5. \A k \in 1 .. Len(down'[d]) : Placed(d, Len(got[d]) + k, down[d][k])'
      BY <1>2, <2>6, <3>3, <3>4 DEF Placed, Accept
    <3>6. \A i \in 1 .. Len(got'[d]) : Placed(d, i, got[d][i])'
      BY <1>2, <2>6
    <3> QED
      BY <1>2, <2>3, <2>4, <2>6, <2>7, <3>3, <3>5, <3>6 DEF ClientInv, ReplyInv
  <2>9. CASE link[d] # "up"
    <3>1. Len(down'[d]) = 0
      BY <1>3, <2>6, <2>9
    <3> QED
      BY <1>2, <2>3, <2>4, <2>6, <2>9, <3>1 DEF ClientInv, ReplyInv
  <2> QED
    BY <2>8, <2>9
<1>9. InboxInv'
  BY <1>1, <1>2, ArrivedSame, InboxSame
<1>10. CurrentInv'
  BY <1>1, <1>2, CurrentSame
<1> QED
  BY <1>4, <1>6, <1>7, <1>8, <1>9, <1>10 DEF IInv

\* A message more in the inbox: it gets the number after the last that had arrived.
LEMMA InboxMore ==
  ASSUME Types, InboxInv, NEW d \in Client, NEW m \in Message,
         m.remote = d, m.msg = sent[d][Arrived(d) + 1],
         inbox' = Append(inbox, m),
         handled' = handled, sent' = sent, link' = link,
         Len(handled[d]) <= Arrived(d), Arrived(d)' = Arrived(d) + 1,
         \A c \in Client : c # d => Arrived(c)' = Arrived(c)
  PROVE  InboxInv'
<1> DEFINE a == Arrived(d)
           h == Len(handled[d])
           l == Len(inbox)
<1>1. PICK n : Numbered(n)
  BY DEF InboxInv
<1>2. a \in Nat /\ h \in Nat /\ l \in Nat /\ h <= a
  BY Counts DEF Types
<1>3. /\ Len(inbox') = l + 1 /\ inbox'[l + 1] = m
      /\ \A i \in 1 .. l : inbox'[i] = inbox[i]
  BY AppendFacts DEF Types
<1>4. n \in Seq(Nat) /\ Len(n) = l
  BY <1>1 DEF Numbered
<1> HIDE DEF a, h, l
<1>4a. PICK p : p = Append(n, a + 1)
  OBVIOUS
<1>5. /\ p \in Seq(Nat) /\ Len(p) = l + 1 /\ p[l + 1] = a + 1
      /\ \A i \in 1 .. l : p[i] = n[i]
  BY <1>2, <1>4, <1>4a, AppendFacts
<1>6. \A c \in Client : \A x \in Nat : x <= Arrived(c) => x <= Arrived(c)'
  <2>1. \A x \in Nat : x <= a => x <= a + 1
    BY <1>2
  <2> QED
    BY <2>1 DEF a
<1>7. ASSUME NEW c \in Client, NEW i \in 1 .. l + 1, inbox'[i].remote = c
      PROVE  p[i] > Len(handled[c]) /\ p[i] <= Arrived(c)' /\ inbox'[i].msg = sent[c][p[i]]
  <2>1. CASE i = l + 1
    <3>1. c = d /\ p[i] = a + 1 /\ inbox'[i].msg = sent[d][a + 1]
      BY <1>3, <1>5, <1>7, <2>1 DEF a
    <3>2. a + 1 > h /\ a + 1 <= a + 1
      BY <1>2
    <3> QED
      BY <3>1, <3>2 DEF a, h
  <2>2. CASE i # l + 1
    <3>1. i \in 1 .. l
      BY <1>2, <2>2
    <3>2. n[i] > Len(handled[c]) /\ n[i] <= Arrived(c) /\ inbox[i].msg = sent[c][n[i]]
      BY <1>1, <1>3, <1>7, <3>1 DEF Numbered, l
    <3>3. n[i] \in Nat
      BY <1>4, <3>1
    <3>4. n[i] <= Arrived(c)'
      BY <1>6, <3>2, <3>3
    <3> QED
      BY <1>3, <1>5, <3>1, <3>2, <3>4
  <2> QED
    BY <2>1, <2>2
<1>8. ASSUME NEW i \in 1 .. l + 1, NEW j \in 1 .. l + 1, i < j,
             inbox'[i].remote = inbox'[j].remote
      PROVE  p[i] < p[j]
  <2>1. i \in 1 .. l
    BY <1>2, <1>8
  <2>2. CASE j = l + 1
    <3>1. inbox[i].remote = d
      BY <1>3, <1>8, <2>1, <2>2
    <3>2. n[i] <= a /\ n[i] \in Nat
      BY <1>1, <1>4, <2>1, <3>1 DEF Numbered, l, a
    <3> QED
      BY <1>2, <1>5, <2>1, <2>2, <3>2
  <2>3. CASE j # l + 1
    <3>1. j \in 1 .. l
      BY <1>2, <2>3
    <3>2. inbox[i].remote = inbox[j].remote
      BY <1>3, <1>8, <2>1, <3>1
    <3>3. n[i] < n[j]
      BY <1>1, <1>8, <2>1, <3>1, <3>2 DEF Numbered, l
    <3> QED
      BY <1>5, <2>1, <3>1, <3>3
  <2> QED
    BY <2>2, <2>3
<1>9. ASSUME NEW c \in Client, link[c] # "reset",
             NEW k \in Len(handled[c]) + 1 .. Arrived(c)'
      PROVE  \E i \in 1 .. l + 1 : inbox'[i].remote = c /\ p[i] = k
  <2>1. CASE c = d /\ k = a + 1
    <3>1. l + 1 \in 1 .. l + 1
      BY <1>2
    <3> QED
      BY <1>3, <1>5, <2>1, <3>1
  <2>2. CASE ~ (c = d /\ k = a + 1)
    <3>1. k \in Len(handled[c]) + 1 .. Arrived(c)
      <4>1. CASE c = d
        BY <1>2, <2>2, <4>1 DEF a, h
      <4>2. CASE c # d
        BY <4>2
      <4> QED
        BY <4>1, <4>2
    <3>2. PICK i \in 1 .. l : inbox[i].remote = c /\ n[i] = k
      BY <1>1, <1>9, <3>1 DEF Numbered, l
    <3>3. i \in 1 .. l + 1
      BY <1>2
    <3> QED
      BY <1>3, <1>5, <3>2, <3>3
  <2> QED
    BY <2>1, <2>2
<1>10. Numbered(p)'
  <2>1. p \in Seq(Nat) /\ Len(p) = Len(inbox')
    BY <1>3, <1>5
  <2>2. \A c \in Client : link'[c] # "reset" =>
          \A k \in Len(handled'[c]) + 1 .. Arrived(c)' :
            \E i \in 1 .. Len(inbox') : inbox'[i].remote = c /\ p[i] = k
    BY <1>3, <1>9
  <2>3. \A c \in Client : \A i \in 1 .. Len(inbox') : inbox'[i].remote = c =>
          p[i] > Len(handled'[c]) /\ p[i] <= Arrived(c)' /\ inbox'[i].msg = sent'[c][p[i]]
    BY <1>3, <1>7
  <2>4. \A i, j \in 1 .. Len(inbox') :
          i < j /\ inbox'[i].remote = inbox'[j].remote => p[i] < p[j]
    BY <1>3, <1>8
  <2> QED
    BY <2>1, <2>2, <2>3, <2>4 DEF Numbered
<1> QED
  BY <1>10 DEF InboxInv

LEMMA DeliverInv ==
  ASSUME IInv, NEW d \in Client, Deliver(d)
  PROVE  IInv'
<1>1. /\ Types /\ InboxInv /\ CurrentInv /\ StoreProofs!IInv
      /\ \A c \in Client : ClientInv(c)
  BY DEF IInv
<1> DEFINE m == [remote |-> d, msg |-> Head(up[d])]
           u == up[d]
<1>2. /\ UNCHANGED store /\ link' = link /\ down' = down /\ accepted' = accepted
      /\ current' = current
      /\ sent' = sent /\ handled' = handled /\ got' = got
      /\ d \in Approved /\ up[d] # <<>>
      /\ up' = [up EXCEPT ![d] = Tail(@)]
      /\ inbox' = Append(inbox, m)
  BY DEF Deliver, histories
<1>3. u \in Seq(Request) /\ Len(u) \in Nat
  BY <1>1, Counts
<1>4. /\ Head(u) \in Request /\ Head(u) = u[1]
      /\ Tail(u) \in Seq(Request) /\ Len(u) \in Nat \ {0} /\ Len(Tail(u)) = Len(u) - 1
      /\ \A k \in 1 .. Len(Tail(u)) : Tail(u)[k] = u[k + 1]
  BY <1>2, <1>3, TailFacts
<1>5. up'[d] = Tail(u) /\ \A c \in Client : c # d => up'[c] = up[c]
  BY <1>1, <1>2 DEF Types
<1>6. up' \in [Client -> Seq(Request)]
  BY <1>1, <1>2, <1>4 DEF Types
<1>7. m \in Message /\ m.remote = d /\ m.msg = Head(u)
  BY <1>4 DEF Message
<1> HIDE DEF m
<1>8. /\ inbox' \in Seq(Message)
      /\ \A i \in 1 .. Len(inbox') : inbox'[i].remote \in Approved
  <2>1. inbox \in Seq(Message) /\ \A i \in 1 .. Len(inbox) : inbox[i].remote \in Approved
    BY <1>1 DEF Types
  <2>2. /\ Append(inbox, m) \in Seq(Message) /\ Len(inbox) \in Nat
        /\ Len(Append(inbox, m)) = Len(inbox) + 1
        /\ \A i \in 1 .. Len(inbox) : Append(inbox, m)[i] = inbox[i]
        /\ Append(inbox, m)[Len(inbox) + 1] = m
    BY <1>7, <2>1, AppendFacts
  <2>3. \A i \in 1 .. Len(inbox) + 1 : i \in 1 .. Len(inbox) \/ i = Len(inbox) + 1
    BY <2>2
  <2> QED
    BY <1>2, <1>7, <2>1, <2>2, <2>3
<1>9. /\ StoreProofs!IInv' /\ phase' = phase
      /\ championships \subseteq championships' /\ seasons \subseteq seasons'
  BY <1>1, <1>2, StoreSame
<1>10. Approved' = Approved
  BY <1>2 DEF Approved
<1>11. Types'
  BY <1>1, <1>2, <1>6, <1>8, <1>9, <1>10 DEF Types
<1>12. \A c \in Client : Busy(c)' = Busy(c)
  BY <1>2, <1>9 DEF Busy
<1>13. ASSUME NEW c \in Client, c # d PROVE ClientInv(c)'
  BY <1>1, <1>2, <1>5, <1>9, <1>10, <1>12, <1>13, ClientSame
<1>14. LinkInv(d) /\ SentInv(d) /\ ReplyInv(d)
  BY <1>1 DEF ClientInv
<1>15. Arrived(d)' = Arrived(d) + 1
  <2>1. Len(up'[d]) = Len(u) - 1
    BY <1>4, <1>5
  <2>2. \A a, b \in Nat : a - (b - 1) = (a - b) + 1
    OBVIOUS
  <2>3. Len(sent[d]) \in Nat
    BY <1>1, Counts
  <2> QED
    BY <1>2, <1>3, <2>1, <2>2, <2>3 DEF Arrived
<1>16. Len(handled[d]) \in Nat /\ Arrived(d) \in Int /\ Len(handled[d]) <= Arrived(d)
  BY <1>1, <1>14, Counts DEF SentInv
<1>17. ClientInv(d)'
  <2>1. LinkInv(d)'
    <3>1. link[d] \in {"up", "broken"}
      BY <1>2, <1>14 DEF LinkInv
    <3> QED
      BY <1>2, <1>10, <3>1 DEF LinkInv
  <2>2. ASSUME NEW k \in 1 .. Len(up'[d]) PROVE up'[d][k] = sent[d][Arrived(d) + 1 + k]
    <3>1. Tail(u)[k] = u[k + 1]
      BY <1>4, <1>5
    <3>2. \A b \in Nat : \A j \in 1 .. b - 1 : j + 1 \in 1 .. b
      OBVIOUS
    <3>3. k + 1 \in 1 .. Len(u)
      BY <1>3, <1>4, <1>5, <3>2
    <3>4. u[k + 1] = sent[d][Arrived(d) + (k + 1)]
      BY <1>14, <3>3 DEF SentInv
    <3>5. Arrived(d) + (k + 1) = Arrived(d) + 1 + k
      BY <1>3, <1>16, <3>3
    <3> QED
      BY <1>5, <3>1, <3>4, <3>5
  <2>3. SentInv(d)'
    <3>1. Len(handled[d]) <= Arrived(d) + 1
      BY <1>16
    <3> QED
      BY <1>2, <1>14, <1>15, <2>2, <3>1 DEF SentInv
  <2>4. \A i \in Nat : \A m1 : Placed(d, i, m1) => Placed(d, i, m1)'
    BY <1>1, <1>2, <1>9, <1>16, HoldsKept, PlacedKept
  <2>5. \A k \in 1 .. Len(down[d]) : Len(got[d]) + k \in Nat
    BY <1>1, Counts
  <2>6. /\ \A i \in 1 .. Len(got[d]) : Placed(d, i, got[d][i])'
        /\ \A k \in 1 .. Len(down[d]) : Placed(d, Len(got[d]) + k, down[d][k])'
    BY <1>2, <1>14, <2>4, <2>5 DEF ReplyInv
  <2>7. ReplyInv(d)'
    BY <1>2, <1>10, <1>12, <1>14, <2>6 DEF ReplyInv
  <2> QED
    BY <2>1, <2>3, <2>7 DEF ClientInv
<1>18. InboxInv'
  <2>1. m.msg = sent[d][Arrived(d) + 1]
    BY <1>4, <1>7, <1>14 DEF SentInv
  <2>2. \A c \in Client : c # d => Arrived(c)' = Arrived(c)
    BY <1>2, <1>5 DEF Arrived
  <2> QED
    BY <1>1, <1>2, <1>7, <1>15, <1>16, <2>1, <2>2, InboxMore
<1>19. CurrentInv'
  BY <1>1, <1>2, CurrentSame
<1> QED
  BY <1>9, <1>11, <1>13, <1>17, <1>18, <1>19 DEF IInv

-----------------------------------------------------------------------------
(* The main thread's steps *)

\* The message in front of the inbox is the next of its client's.
LEMMA InboxFront ==
  ASSUME Types, NEW n, Numbered(n), inbox # <<>>, NEW d \in Client, inbox[1].remote = d,
         Len(handled[d]) <= Arrived(d), link[d] # "reset"
  PROVE  /\ n[1] = Len(handled[d]) + 1 /\ n[1] <= Arrived(d)
         /\ inbox[1].msg = sent[d][Len(handled[d]) + 1]
<1> DEFINE h == Len(handled[d])
           l == Len(inbox)
<1>1. l \in Nat \ {0} /\ h \in Nat /\ Arrived(d) \in Int
  BY Counts DEF Types
<1>2. n \in Seq(Nat) /\ Len(n) = l
  BY DEF Numbered
<1>3. 1 \in 1 .. l /\ n[1] \in Nat
  BY <1>1, <1>2
<1>4. n[1] > h /\ n[1] <= Arrived(d) /\ inbox[1].msg = sent[d][n[1]]
  BY <1>3 DEF Numbered
<1>5. h + 1 \in h + 1 .. Arrived(d)
  BY <1>1, <1>3, <1>4
<1>6. PICK i \in 1 .. l : inbox[i].remote = d /\ n[i] = h + 1
  BY <1>5 DEF Numbered
<1>7. i = 1
  <2>1. CASE 1 < i
    <3>1. n[1] < n[i]
      BY <1>3, <1>6, <2>1 DEF Numbered
    <3> QED
      BY <1>1, <1>3, <1>4, <1>6, <3>1
  <2> QED
    BY <1>1, <2>1
<1> QED
  BY <1>4, <1>6, <1>7

\* An inbox without it.
LEMMA InboxLess ==
  ASSUME Types, InboxInv, inbox # <<>>, NEW d \in Client, Head(inbox).remote = d,
         Len(handled[d]) <= Arrived(d), link[d] # "reset",
         inbox' = Tail(inbox), link' = link, sent' = sent,
         Len(handled'[d]) = Len(handled[d]) + 1,
         \A c \in Client : c # d => handled'[c] = handled[c],
         \A c \in Client : Arrived(c)' = Arrived(c)
  PROVE  /\ InboxInv'
         /\ Head(inbox).msg = sent[d][Len(handled[d]) + 1]
         /\ Len(handled[d]) + 1 <= Arrived(d)
<1> DEFINE h == Len(handled[d])
           l == Len(inbox)
<1>1. PICK n : Numbered(n)
  BY DEF InboxInv
<1>2. /\ l \in Nat \ {0} /\ Len(inbox') = l - 1 /\ Head(inbox) = inbox[1]
      /\ \A i \in 1 .. l - 1 : inbox'[i] = inbox[i + 1]
  BY TailFacts DEF Types
<1>3. /\ n[1] = h + 1 /\ n[1] <= Arrived(d)
      /\ inbox[1].msg = sent[d][h + 1] /\ inbox[1].remote = d
  BY <1>1, <1>2, InboxFront
<1>4. n \in Seq(Nat) /\ Len(n) = l
  BY <1>1 DEF Numbered
<1>5. n # <<>> /\ h \in Nat
  BY <1>2, <1>4, Counts
<1>6. PICK p : p = Tail(n)
  OBVIOUS
<1>7. /\ p \in Seq(Nat) /\ Len(p) = l - 1
      /\ \A i \in 1 .. l - 1 : p[i] = n[i + 1]
  BY <1>4, <1>5, <1>6, TailFacts
<1> HIDE DEF l, h
<1>8. \A i \in 1 .. l - 1 : i + 1 \in 1 .. l /\ n[i + 1] \in Nat /\ 1 < i + 1
  BY <1>2, <1>4
<1>9. 1 \in 1 .. l
  BY <1>2
<1>10. ASSUME NEW c \in Client, NEW i \in 1 .. l - 1, inbox'[i].remote = c
       PROVE  p[i] > Len(handled'[c]) /\ p[i] <= Arrived(c)' /\ inbox'[i].msg = sent[c][p[i]]
  <2>1. inbox[i + 1].remote = c /\ p[i] = n[i + 1] /\ inbox'[i] = inbox[i + 1]
    BY <1>2, <1>7, <1>10
  <2>2. n[i + 1] > Len(handled[c]) /\ n[i + 1] <= Arrived(c) /\ inbox[i + 1].msg = sent[c][n[i + 1]]
    BY <1>1, <1>8, <2>1 DEF Numbered, l
  <2>3. CASE c # d
    BY <2>1, <2>2, <2>3
  <2>4. CASE c = d
    <3>1. n[1] < n[i + 1]
      BY <1>1, <1>3, <1>8, <1>9, <2>1, <2>4 DEF Numbered, l
    <3>2. n[i + 1] > Len(handled'[d])
      BY <1>3, <1>5, <1>8, <3>1 DEF h
    <3> QED
      BY <2>1, <2>2, <2>4, <3>2
  <2> QED
    BY <2>3, <2>4
<1>11. ASSUME NEW i \in 1 .. l - 1, NEW j \in 1 .. l - 1, i < j,
              inbox'[i].remote = inbox'[j].remote
       PROVE  p[i] < p[j]
  <2>1. i + 1 < j + 1
    BY <1>2, <1>11
  <2>2. inbox[i + 1].remote = inbox[j + 1].remote
    BY <1>2, <1>11
  <2>3. n[i + 1] < n[j + 1]
    BY <1>1, <1>8, <2>1, <2>2 DEF Numbered, l
  <2> QED
    BY <1>7, <2>3
<1>12. ASSUME NEW c \in Client, link[c] # "reset",
              NEW k \in Len(handled'[c]) + 1 .. Arrived(c)
       PROVE  \E i \in 1 .. l - 1 : inbox'[i].remote = c /\ p[i] = k
  <2>1. k \in Len(handled[c]) + 1 .. Arrived(c) /\ (c = d => k # h + 1)
    <3>1. CASE c = d
      BY <1>5, <3>1 DEF h
    <3>2. CASE c # d
      BY <3>2
    <3> QED
      BY <3>1, <3>2
  <2>2. PICK j \in 1 .. l : inbox[j].remote = c /\ n[j] = k
    BY <1>1, <1>12, <2>1 DEF Numbered, l
  <2>3. j # 1
    BY <1>3, <2>1, <2>2
  <2>4. j - 1 \in 1 .. l - 1 /\ (j - 1) + 1 = j
    BY <1>2, <2>3
  <2> QED
    BY <1>2, <1>7, <2>2, <2>4
<1>13. Numbered(p)'
  <2>1. p \in Seq(Nat) /\ Len(p) = Len(inbox')
    BY <1>2, <1>7
  <2>2. \A c \in Client : link'[c] # "reset" =>
          \A k \in Len(handled'[c]) + 1 .. Arrived(c)' :
            \E i \in 1 .. Len(inbox') : inbox'[i].remote = c /\ p[i] = k
    BY <1>2, <1>12
  <2>3. \A c \in Client : \A i \in 1 .. Len(inbox') : inbox'[i].remote = c =>
          p[i] > Len(handled'[c]) /\ p[i] <= Arrived(c)' /\ inbox'[i].msg = sent'[c][p[i]]
    BY <1>2, <1>10
  <2>4. \A i, j \in 1 .. Len(inbox') :
          i < j /\ inbox'[i].remote = inbox'[j].remote => p[i] < p[j]
    BY <1>2, <1>11
  <2> QED
    BY <2>1, <2>2, <2>3, <2>4 DEF Numbered
<1> QED
  BY <1>2, <1>3, <1>13 DEF InboxInv, h

LEMMA InsertFacts ==
  ASSUME NEW allowed, NEW row, NEW id, NEW related, NEW added,
         Store!InsertSeason(allowed, row, id, related, added)
  PROVE  \/ row \in seasons' /\ phase' = "reload" /\ save'.row = row.id
         \/ phase' = "replying" /\ ~ reply'.success
BY DEF Store!InsertSeason, Store!Insert, Store!Begun, Store!Answer

\* Executing a request is a step of FootballStore, and what has been written, or is
\* answered, is in the tables.
LEMMA ExecuteFacts ==
  ASSUME NEW r \in Request, Execute(r)
  PROVE  /\ Store!Next
         /\ \/ phase' = "reload" /\ Holds(r, save.row)'
            \/ phase' = "replying" /\ ~ reply'.success
<1>1. CASE r.type = "new_championship" /\ Store!NewChampionship(r.name, r.country)
  <2>1. r.name \in ChampionshipName /\ r.country \in Country
    BY <1>1 DEF Request, Ping
  <2>2. Store!Next
    BY <1>1, <2>1 DEF Store!Next, Store!Request
  <2> DEFINE found == Store!ChampionshipsFound(r.name)
             id == Store!StoredId(found, "championships")
             country == IF found = {} THEN r.country ELSE (CHOOSE c \in found : TRUE).country
             row == [id |-> id, name |-> r.name, country |-> country]
  <2>3. row.id = id /\ row.name = r.name
    OBVIOUS
  <2>4. \/ row \in championships' /\ phase' = "reload" /\ save'.row = id
        \/ phase' = "replying" /\ ~ reply'.success
    BY <1>1 DEF Store!NewChampionship, Store!Insert, Store!Begun, Store!Answer
  <2> HIDE DEF row, id
  <2> QED
    BY <1>1, <2>2, <2>3, <2>4 DEF Holds
<1>2. CASE r.type = "new_club" /\ Store!NewClub(r.name, r.country)
  <2>1. r.name \in ClubName /\ r.country \in Country
    BY <1>2 DEF Request, Ping
  <2>2. Store!Next
    BY <1>2, <2>1 DEF Store!Next, Store!Request
  <2>3. phase' = "reload" \/ (phase' = "replying" /\ ~ reply'.success)
    BY <1>2 DEF Store!NewClub, Store!Insert, Store!Answer
  <2> QED
    BY <1>2, <2>2, <2>3 DEF Holds
<1>3. CASE r.type = "new_season" /\ Store!NewSeason(r.championship, r.year)
  <2>1. r.championship \in Store!Id /\ r.year \in Year
    BY <1>3 DEF Request, Ping
  <2>2. Store!Next
    BY <1>3, <2>1 DEF Store!Next, Store!Request
  <2> DEFINE row == [id |-> Store!StoredId({}, "seasons"), championship |-> r.championship,
                     year |-> r.year]
  <2>3. row.championship = r.championship /\ row.year = r.year
    OBVIOUS
  <2>4. \E s, allowed, id, related, added :
          /\ s.championship = r.championship
          /\ s.year = r.year \/ r.year = Empty
          /\ Store!InsertSeason(allowed, s, id, related, added)
    <3>1. CASE \E allowed, id, related, added :
                 Store!InsertSeason(allowed, row, id, related, added)
      BY <2>3, <3>1
    <3>2. CASE \E s \in Store!SeasonsFound(r.championship, r.year) :
                 Store!InsertSeason(\E c \in championships : c.id = r.championship, s, s.id,
                                    Store!SeasonClubs(s.id), Store!NoId)
      BY <3>2 DEF Store!SeasonsFound, Store!Second
    <3> HIDE DEF row
    <3> QED
      BY <1>3, <3>1, <3>2 DEF Store!NewSeason, row
  <2>5. \/ \E s \in seasons' :
             /\ s.championship = r.championship
             /\ s.year = r.year \/ r.year = Empty
             /\ phase' = "reload" /\ save'.row = s.id
        \/ phase' = "replying" /\ ~ reply'.success
    BY <2>4, InsertFacts
  <2> QED
    BY <1>3, <2>2, <2>5 DEF Holds
<1>4. CASE r.type = "new_season_club" /\ Store!NewSeasonClub(r.season, r.club)
  <2>1. r.season \in Store!Id /\ r.club \in Store!Id
    BY <1>4 DEF Request, Ping
  <2>2. Store!Next
    BY <1>4, <2>1 DEF Store!Next, Store!Request
  <2>3. \/ \E s \in seasons' : /\ s.id = r.season
                               /\ phase' = "reload" /\ save'.row = s.id
        \/ phase' = "replying" /\ ~ reply'.success
    <3>1. CASE \E s \in Store!SeasonsWithId(r.season) :
                 Store!InsertSeason(TRUE, s, s.id, Store!SeasonClubs(s.id), r.club)
      BY <3>1, InsertFacts DEF Store!SeasonsWithId
    <3>2. CASE Store!Answer(r.season, FALSE)
      BY <3>2 DEF Store!Answer
    <3> QED
      BY <1>4, <3>1, <3>2 DEF Store!NewSeasonClub
  <2> QED
    BY <1>4, <2>2, <2>3 DEF Holds
<1> QED
  BY <1>1, <1>2, <1>3, <1>4 DEF Execute

\* A message is answered when it is a ping and executed when it is another.
LEMMA HandleFacts ==
  ASSUME IInv, Handle, NEW d, d = Head(inbox).remote, NEW r, r = Head(inbox).msg
  PROVE  /\ d \in Client /\ r \in Request /\ d \in Approved /\ inbox # <<>>
         /\ phase = "waiting" /\ inbox' = Tail(inbox)
         /\ handled' = [handled EXCEPT ![d] = Append(@, r)]
         /\ link' = link /\ up' = up /\ accepted' = accepted /\ sent' = sent /\ got' = got
         /\ \/ /\ r = Ping /\ SendTo(d, Reply("ping", Store!NoResponse))
               /\ UNCHANGED store /\ current' = current
            \/ /\ Execute(r) /\ current' = [remote |-> d, type |-> r.type]
               /\ down' = down
<1>1. Types /\ inbox # <<>>
  BY DEF IInv, Handle
<1>2. inbox \in Seq(Message)
  BY <1>1 DEF Types
<1>3. Head(inbox) = inbox[1] /\ 1 \in 1 .. Len(inbox)
  BY <1>1, <1>2
<1>4. d \in Client /\ r \in Request /\ d \in Approved
  BY <1>1, <1>3, InboxFacts
<1> QED
  BY <1>1, <1>4 DEF Handle, OnMessage

\* Any message: the tables, the types of what does not depend on it, the inbox, and
\* what has been handled.
LEMMA HandleAny ==
  ASSUME IInv, Handle, NEW d, d = Head(inbox).remote, NEW r, r = Head(inbox).msg
  PROVE  /\ handled' \in [Client -> Seq(Request)] /\ inbox' \in Seq(Message)
         /\ \A i \in 1 .. Len(inbox') : inbox'[i].remote \in Approved
         /\ InboxInv' /\ LinkInv(d)' /\ SentInv(d)'
         /\ Len(handled[d]) \in Nat /\ Len(handled'[d]) = Len(handled[d]) + 1
         /\ handled'[d][Len(handled[d]) + 1] = r
         /\ \A k \in 1 .. Len(handled[d]) : handled'[d][k] = handled[d][k]
         /\ \A c \in Client : c # d => handled'[c] = handled[c]
         /\ Len(handled[d]) < Len(sent[d]) /\ r = sent[d][Len(handled[d]) + 1]
<1>1. /\ Types /\ InboxInv /\ \A c \in Client : ClientInv(c)
  BY DEF IInv
<1>2. /\ d \in Client /\ r \in Request /\ d \in Approved /\ inbox # <<>>
      /\ inbox' = Tail(inbox)
      /\ handled' = [handled EXCEPT ![d] = Append(@, r)]
      /\ link' = link /\ up' = up /\ accepted' = accepted /\ sent' = sent /\ got' = got
  BY HandleFacts
<1> DEFINE h == handled[d]
<1>3. h \in Seq(Request) /\ Len(h) \in Nat
  BY <1>1, <1>2, Counts
<1>4. /\ Append(h, r) \in Seq(Request) /\ Len(Append(h, r)) = Len(h) + 1
      /\ Append(h, r)[Len(h) + 1] = r
      /\ \A k \in 1 .. Len(h) : Append(h, r)[k] = h[k]
  BY <1>2, <1>3, AppendFacts
<1>5. /\ handled'[d] = Append(h, r)
      /\ \A c \in Client : c # d => handled'[c] = handled[c]
  BY <1>1, <1>2 DEF Types
<1>6. handled' \in [Client -> Seq(Request)]
  BY <1>1, <1>2, <1>4 DEF Types
<1>7. LinkInv(d) /\ SentInv(d)
  BY <1>1, <1>2 DEF ClientInv
<1>8. Approved' = Approved /\ link[d] \in {"up", "broken"}
  BY <1>2, <1>7 DEF Approved, LinkInv
<1>9. LinkInv(d)'
  BY <1>2, <1>8 DEF LinkInv
<1>10. Arrived(d) \in Int /\ Len(h) <= Arrived(d)
  BY <1>1, <1>2, <1>7, Counts DEF SentInv
<1>11. \A c \in Client : Arrived(c)' = Arrived(c)
  BY <1>2 DEF Arrived
<1>12. /\ InboxInv' /\ r = sent[d][Len(h) + 1] /\ Len(h) + 1 <= Arrived(d)
  BY <1>1, <1>2, <1>4, <1>5, <1>8, <1>10, <1>11, InboxLess
<1>13. ASSUME NEW k \in 1 .. Len(h) + 1 PROVE handled'[d][k] = sent[d][k]
  <2>1. CASE k = Len(h) + 1
    BY <1>4, <1>5, <1>12, <2>1
  <2>2. CASE k # Len(h) + 1
    <3>1. k \in 1 .. Len(h)
      BY <1>3, <2>2
    <3>2. h[k] = sent[d][k]
      BY <1>7, <3>1 DEF SentInv
    <3> QED
      BY <1>4, <1>5, <3>1, <3>2
  <2> QED
    BY <2>1, <2>2
<1>14. SentInv(d)'
  <2>1. \A k \in 1 .. Len(up[d]) : up[d][k] = sent[d][Arrived(d) + k]
    BY <1>7 DEF SentInv
  <2>2. Len(handled'[d]) = Len(h) + 1
    BY <1>4, <1>5
  <2>3. Arrived(d)' = Arrived(d)
    BY <1>2, <1>11
  <2> QED
    BY <1>2, <1>12, <1>13, <2>1, <2>2, <2>3 DEF SentInv
<1>15. /\ inbox' \in Seq(Message)
       /\ \A i \in 1 .. Len(inbox') : inbox'[i].remote \in Approved
  <2>1. inbox \in Seq(Message) /\ \A i \in 1 .. Len(inbox) : inbox[i].remote \in Approved
    BY <1>1 DEF Types
  <2>2. /\ Tail(inbox) \in Seq(Message) /\ Len(inbox) \in Nat \ {0}
        /\ Len(Tail(inbox)) = Len(inbox) - 1
        /\ \A i \in 1 .. Len(Tail(inbox)) : Tail(inbox)[i] = inbox[i + 1]
    BY <1>2, <2>1, TailFacts
  <2>3. \A b \in Nat : \A j \in 1 .. b - 1 : j + 1 \in 1 .. b
    OBVIOUS
  <2>4. \A i \in 1 .. Len(Tail(inbox)) : i + 1 \in 1 .. Len(inbox)
    BY <2>2, <2>3
  <2> QED
    BY <1>2, <2>1, <2>2, <2>4
<1>16. Len(h) < Len(sent[d])
  <2>1. Arrived(d) <= Len(sent[d]) /\ Len(sent[d]) \in Nat
    BY <1>1, <1>2, ArrivedBound, Counts
  <2> QED
    BY <1>3, <1>10, <1>12, <2>1
<1> QED
  BY <1>3, <1>4, <1>5, <1>6, <1>9, <1>12, <1>14, <1>15, <1>16

\* A ping is answered at once, with the tables as they are.
LEMMA PingInv ==
  ASSUME IInv, Handle, NEW d, d = Head(inbox).remote,
         SendTo(d, Reply("ping", Store!NoResponse)), Head(inbox).msg = Ping,
         UNCHANGED store, current' = current
  PROVE  IInv'
<1> DEFINE m == Reply("ping", Store!NoResponse)
<1>1. /\ Types /\ StoreProofs!IInv /\ \A c \in Client : ClientInv(c)
  BY DEF IInv
<1>2. /\ d \in Client /\ Ping \in Request /\ d \in Approved /\ phase = "waiting"
      /\ link' = link /\ up' = up /\ accepted' = accepted /\ sent' = sent /\ got' = got
  BY HandleFacts
<1>3. /\ handled' \in [Client -> Seq(Request)] /\ inbox' \in Seq(Message)
      /\ \A i \in 1 .. Len(inbox') : inbox'[i].remote \in Approved
      /\ InboxInv' /\ LinkInv(d)' /\ SentInv(d)'
      /\ Len(handled[d]) \in Nat /\ Len(handled'[d]) = Len(handled[d]) + 1
      /\ handled'[d][Len(handled[d]) + 1] = Ping
      /\ \A k \in 1 .. Len(handled[d]) : handled'[d][k] = handled[d][k]
      /\ \A c \in Client : c # d => handled'[c] = handled[c]
  BY HandleAny
<1>4. m \in FromServer /\ m.type = "ping" /\ Ping.type = "ping" /\ ~ m.response.success
  <2>1. Ping.type = "ping"
    BY DEF Ping
  <2>2. "ping" \in RequestType
    BY <1>2, <2>1 DEF RequestType
  <2> QED
    BY <2>1, <2>2, ReplyTyped
<1> HIDE DEF m
<1>5. /\ down' \in [Client -> Seq(FromServer)]
      /\ \A c \in Client : c # d => down'[c] = down[c]
      /\ down'[d] = IF link[d] = "up" THEN Append(down[d], m) ELSE down[d]
  BY <1>1, <1>2, <1>4, SendToFacts DEF m
<1>6. /\ StoreProofs!IInv' /\ phase' = phase
      /\ championships \subseteq championships' /\ seasons \subseteq seasons'
  BY <1>1, StoreSame
<1>7. Approved' = Approved
  BY <1>2 DEF Approved
<1>8. Types'
  BY <1>1, <1>2, <1>3, <1>5, <1>6, <1>7 DEF Types
<1>9. \A c \in Client : Busy(c)' = Busy(c) /\ Busy(c) = 0
  BY <1>2, <1>6 DEF Busy, Working
<1>10. ASSUME NEW c \in Client, c # d PROVE ClientInv(c)'
  BY <1>1, <1>2, <1>3, <1>5, <1>6, <1>7, <1>9, <1>10, ClientSame
<1>11. ReplyInv(d)'
  <2>1. ReplyInv(d) /\ down[d] \in Seq(FromServer)
        /\ Len(got[d]) \in Nat /\ Len(down[d]) \in Nat
    BY <1>1, <1>2, Counts DEF ClientInv
  <2>2. Len(handled[d]) <= Len(handled'[d]) /\ Len(handled'[d]) \in Nat
    BY <1>3
  <2>3. \A i \in Nat : \A x : Placed(d, i, x) => Placed(d, i, x)'
    BY <1>1, <1>2, <1>3, <1>6, <2>2, HoldsKept, PlacedKept
  <2>4. \A i \in 1 .. Len(got[d]) : Placed(d, i, got[d][i])'
    BY <1>2, <2>1, <2>3 DEF ReplyInv
  <2>5. \A k \in 1 .. Len(down[d]) : Len(got[d]) + k \in Nat
    BY <2>1
  <2>6. \A k \in 1 .. Len(down[d]) : LET x == down[d][k] IN Placed(d, Len(got[d]) + k, x)
    BY <2>1 DEF ReplyInv
  <2>7. CASE link[d] # "up"
    <3>1. down'[d] = down[d]
      BY <1>5, <2>7
    <3>2. \A k \in 1 .. Len(down[d]) : Placed(d, Len(got[d]) + k, down[d][k])'
      BY <1>2, <2>3, <2>5, <2>6, <3>1
    <3> QED
      BY <1>2, <2>4, <2>7, <3>1, <3>2 DEF ReplyInv
  <2>8. CASE link[d] = "up"
    <3>1. /\ Len(down'[d]) = Len(down[d]) + 1
          /\ down'[d][Len(down[d]) + 1] = m
          /\ \A k \in 1 .. Len(down[d]) : down'[d][k] = down[d][k]
      BY <1>4, <1>5, <2>1, <2>8, AppendFacts
    <3>2. Len(got[d]) + Len(down[d]) + 0 = Len(handled[d]) + 1
      BY <1>2, <1>9, <2>1, <2>8 DEF ReplyInv
    <3>3. PICK g, w, h : g = Len(got[d]) /\ w = Len(down[d]) /\ h = Len(handled[d])
      OBVIOUS
    <3>4. /\ Len(got[d]) + (Len(down[d]) + 1) = Len(handled[d]) + 2
          /\ Len(got[d]) + (Len(down[d]) + 1) + 0 = (Len(handled[d]) + 1) + 1
      <4>1. g \in Nat /\ w \in Nat /\ h \in Nat
        BY <1>3, <2>1, <3>3
      <4>2. g + w + 0 = h + 1
        BY <3>2, <3>3
      <4>3. g + (w + 1) = h + 2 /\ g + (w + 1) + 0 = (h + 1) + 1
        BY <4>1, <4>2
      <4> QED
        BY <3>3, <4>3
    <3>5. ASSUME NEW k \in 1 .. Len(down[d]) + 1
          PROVE  Placed(d, Len(got[d]) + k, down[d][k])'
      <4>1. CASE k = Len(down[d]) + 1
        <5>1. Len(got[d]) + k = Len(handled[d]) + 2
          BY <3>4, <4>1
        <5>2. /\ Len(got[d]) + k # 1
              /\ (Len(got[d]) + k) - 1 = Len(handled[d]) + 1
              /\ (Len(got[d]) + k) - 1 \in 1 .. Len(handled'[d])
          <6>1. \A x, y \in Nat : x = y + 2 => x # 1 /\ x - 1 = y + 1 /\ x - 1 \in 1 .. y + 1
            OBVIOUS
          <6>2. Len(handled[d]) \in Nat /\ Len(handled'[d]) = Len(handled[d]) + 1
            BY <1>3
          <6>3. Len(got[d]) + k \in Nat
            BY <5>1, <6>2
          <6> QED
            BY <5>1, <6>1, <6>2, <6>3
        <5>3. down'[d][k] = m /\ handled'[d][(Len(got[d]) + k) - 1] = Ping
          BY <1>3, <3>1, <4>1, <5>2
        <5> QED
          BY <1>2, <1>4, <5>2, <5>3 DEF Placed
      <4>2. CASE k # Len(down[d]) + 1
        <5>1. k \in 1 .. Len(down[d])
          BY <2>1, <4>2
        <5> QED
          BY <1>2, <2>3, <2>5, <2>6, <3>1, <5>1
      <4> QED
        BY <4>1, <4>2
    <3>6. Len(got'[d]) + Len(down'[d]) + Busy(d)' = Len(handled'[d]) + 1
      <4>1. /\ Len(got'[d]) = Len(got[d]) /\ Len(down'[d]) = Len(down[d]) + 1
            /\ Busy(d)' = 0
        BY <1>2, <1>9, <3>1
      <4> QED
        BY <1>3, <3>4, <4>1
    <3> QED
      BY <1>2, <2>4, <3>1, <3>5, <3>6 DEF ReplyInv
  <2> QED
    BY <2>7, <2>8
<1>12. ClientInv(d)'
  BY <1>3, <1>11 DEF ClientInv
<1>13. CurrentInv'
  BY <1>2, <1>6 DEF CurrentInv, Working
<1> QED
  BY <1>3, <1>6, <1>8, <1>10, <1>12, <1>13 DEF IInv

\* Any other message: its client is owed a reply from now on.
LEMMA ExecuteInv ==
  ASSUME IInv, Handle, NEW d, d = Head(inbox).remote, NEW r, r = Head(inbox).msg,
         Execute(r), current' = [remote |-> d, type |-> r.type], down' = down
  PROVE  IInv'
<1>1. /\ Types /\ StoreProofs!IInv /\ \A c \in Client : ClientInv(c)
  BY DEF IInv
<1>2. /\ d \in Client /\ r \in Request /\ d \in Approved /\ phase = "waiting"
      /\ link' = link /\ up' = up /\ accepted' = accepted /\ sent' = sent /\ got' = got
  BY HandleFacts
<1>3. /\ handled' \in [Client -> Seq(Request)] /\ inbox' \in Seq(Message)
      /\ \A i \in 1 .. Len(inbox') : inbox'[i].remote \in Approved
      /\ InboxInv' /\ LinkInv(d)' /\ SentInv(d)'
      /\ Len(handled[d]) \in Nat /\ Len(handled'[d]) = Len(handled[d]) + 1
      /\ handled'[d][Len(handled[d]) + 1] = r
      /\ \A k \in 1 .. Len(handled[d]) : handled'[d][k] = handled[d][k]
      /\ \A c \in Client : c # d => handled'[c] = handled[c]
  BY HandleAny
<1>4. /\ Store!Next
      /\ \/ phase' = "reload" /\ Holds(r, save.row)'
         \/ phase' = "replying" /\ ~ reply'.success
      /\ phase' \in Working /\ phase \notin Working
  BY <1>2, ExecuteFacts DEF Working
<1>5. /\ StoreProofs!IInv'
      /\ championships \subseteq championships' /\ seasons \subseteq seasons'
  BY <1>1, <1>4, StoreKept
<1>6. Approved' = Approved
  BY <1>2 DEF Approved
<1>7. /\ current' \in [remote : Approved, type : RequestType]
      /\ current'.remote = d /\ current'.type = r.type
  BY <1>2 DEF RequestType
<1>8. Types'
  BY <1>1, <1>2, <1>3, <1>4, <1>6, <1>7 DEF Types
<1>9. /\ \A c \in Client : c # d => Busy(c)' = Busy(c)
      /\ Busy(d) = 0 /\ Busy(d)' = 1
  BY <1>2, <1>4, <1>7 DEF Busy
<1>10. ASSUME NEW c \in Client, c # d PROVE ClientInv(c)'
  BY <1>1, <1>2, <1>3, <1>5, <1>6, <1>9, <1>10, ClientSame
<1>11. ReplyInv(d)'
  <2>1. ReplyInv(d) /\ Len(got[d]) \in Nat /\ Len(down[d]) \in Nat
    BY <1>1, <1>2, Counts DEF ClientInv
  <2>2. Len(handled[d]) <= Len(handled'[d]) /\ Len(handled'[d]) \in Nat
    BY <1>3
  <2>3. \A i \in Nat : \A x : Placed(d, i, x) => Placed(d, i, x)'
    BY <1>1, <1>2, <1>3, <1>5, <2>2, HoldsKept, PlacedKept
  <2>4. \A k \in 1 .. Len(down[d]) : Len(got[d]) + k \in Nat
    BY <2>1
  <2>5. /\ \A i \in 1 .. Len(got[d]) : Placed(d, i, got[d][i])'
        /\ \A k \in 1 .. Len(down[d]) : Placed(d, Len(got[d]) + k, down[d][k])'
    BY <1>2, <2>1, <2>3, <2>4 DEF ReplyInv
  <2>6. \A g, w, h \in Nat : g + w + 0 = h + 1 => g + w + 1 = (h + 1) + 1
    OBVIOUS
  <2>7. link[d] = "up" => Len(got[d]) + Len(down[d]) + 0 = Len(handled[d]) + 1
    BY <1>2, <1>9, <2>1 DEF ReplyInv
  <2>8. link'[d] = "up" => Len(got'[d]) + Len(down'[d]) + Busy(d)' = Len(handled'[d]) + 1
    <3>1. link[d] = "up" => Len(got[d]) + Len(down[d]) + 1 = (Len(handled[d]) + 1) + 1
      BY <1>3, <2>1, <2>6, <2>7
    <3>2. /\ Len(got'[d]) = Len(got[d]) /\ Len(down'[d]) = Len(down[d]) /\ link'[d] = link[d]
          /\ Busy(d)' = 1 /\ Len(handled'[d]) = Len(handled[d]) + 1
      BY <1>2, <1>3, <1>9
    <3> QED
      BY <3>1, <3>2
  <2> QED
    BY <1>2, <2>5, <2>8 DEF ReplyInv
<1>12. ClientInv(d)'
  BY <1>3, <1>11 DEF ClientInv
<1>13. CurrentInv'
  <2>1. handled'[d] \in Seq(Request)
    BY <1>2, <1>3
  <2>2. handled'[d] # <<>> /\ LastHandled(d)' = r
    BY <1>3, <2>1, EmptyFacts DEF LastHandled
  <2>3. LastHandled(current.remote)' = r /\ handled'[current'.remote] # <<>>
    BY <1>7, <2>2 DEF LastHandled
  <2>4. /\ phase' # "replying" => Holds(LastHandled(current.remote), save.row)'
        /\ phase' = "replying" /\ reply'.success => Holds(LastHandled(current.remote), reply.id)'
    BY <1>4, <2>3 DEF Holds
  <2> QED
    BY <1>7, <2>3, <2>4 DEF CurrentInv
<1> QED
  BY <1>3, <1>5, <1>8, <1>10, <1>12, <1>13 DEF IInv

LEMMA HandleInv ==
  ASSUME IInv, Handle
  PROVE  IInv'
<1>1. PICK d, r : d = Head(inbox).remote /\ r = Head(inbox).msg
  OBVIOUS
<1> QED
  BY <1>1, HandleFacts, PingInv, ExecuteInv

\* The reply takes its place behind all that its client was sent before.
LEMMA RespondInv ==
  ASSUME IInv, Respond
  PROVE  IInv'
<1>1. /\ Types /\ StoreProofs!IInv /\ InboxInv /\ CurrentInv
      /\ \A c \in Client : ClientInv(c)
  BY DEF IInv
<1>2. PICK d : d = current.remote
  OBVIOUS
<1>3. PICK m : m = Reply(current.type, reply)
  OBVIOUS
<1>4. /\ Store!Respond /\ SendTo(d, m) /\ current' = NoMessage
      /\ link' = link /\ up' = up /\ accepted' = accepted /\ inbox' = inbox
      /\ sent' = sent /\ handled' = handled /\ got' = got
  BY <1>2, <1>3 DEF Respond, histories
<1>5. /\ phase = "replying" /\ phase' = "waiting" /\ Store!Next
      /\ reply \in Store!Response
      /\ phase \in Working /\ phase' \notin Working
  BY <1>1, <1>4, StoreTypes DEF Store!Respond, Store!Next, Working
<1>6. /\ StoreProofs!IInv'
      /\ championships \subseteq championships' /\ seasons \subseteq seasons'
  BY <1>1, <1>5, StoreKept
<1>7. d \in Approved /\ current.type \in RequestType
  BY <1>1, <1>2, <1>5 DEF Types
<1>8. d \in Client
  <2>1. accepted \in Seq(Client)
    BY <1>1 DEF Types
  <2> QED
    BY <1>7, <2>1 DEF Approved
<1>9. m \in FromServer /\ m.type = current.type /\ m.response = reply
  BY <1>3, <1>5, <1>7, ReplyTyped
<1>10. /\ down' \in [Client -> Seq(FromServer)]
       /\ \A c \in Client : c # d => down'[c] = down[c]
       /\ down'[d] = IF link[d] = "up" THEN Append(down[d], m) ELSE down[d]
  BY <1>1, <1>4, <1>8, <1>9, SendToFacts
<1>11. Approved' = Approved
  BY <1>4 DEF Approved
<1>12. Types'
  BY <1>1, <1>4, <1>5, <1>10, <1>11 DEF Types
<1>13. /\ \A c \in Client : c # d => Busy(c)' = Busy(c)
       /\ Busy(d) = 1 /\ Busy(d)' = 0
  BY <1>2, <1>5 DEF Busy
<1>14. ASSUME NEW c \in Client, c # d PROVE ClientInv(c)'
  BY <1>1, <1>4, <1>6, <1>10, <1>11, <1>13, <1>14, ClientSame
<1>15. LinkInv(d) /\ SentInv(d) /\ ReplyInv(d)
  BY <1>1, <1>8 DEF ClientInv
<1>16. LinkInv(d)' /\ SentInv(d)'
  BY <1>4, <1>7, <1>11, <1>15 DEF LinkInv, SentInv, Arrived
<1>17. ReplyInv(d)'
  <2>1. /\ down[d] \in Seq(FromServer)
        /\ Len(got[d]) \in Nat /\ Len(down[d]) \in Nat /\ Len(handled[d]) \in Nat
    BY <1>1, <1>8, Counts
  <2>2. \A i \in Nat : \A x : Placed(d, i, x) => Placed(d, i, x)'
    BY <1>1, <1>4, <1>6, <1>8, <2>1, HoldsKept, PlacedKept
  <2>3. \A i \in 1 .. Len(got[d]) : Placed(d, i, got[d][i])'
    BY <1>4, <1>15, <2>1, <2>2 DEF ReplyInv
  <2>4. \A k \in 1 .. Len(down[d]) : Len(got[d]) + k \in Nat
    BY <2>1
  <2>5. \A k \in 1 .. Len(down[d]) : LET x == down[d][k] IN Placed(d, Len(got[d]) + k, x)
    BY <1>15 DEF ReplyInv
  <2>6. CASE link[d] # "up"
    <3>1. down'[d] = down[d]
      BY <1>10, <2>6
    <3>2. \A k \in 1 .. Len(down[d]) : Placed(d, Len(got[d]) + k, down[d][k])'
      BY <1>4, <2>2, <2>4, <2>5, <3>1
    <3> QED
      BY <1>4, <2>3, <2>6, <3>1, <3>2 DEF ReplyInv
  <2>7. CASE link[d] = "up"
    <3>1. /\ Len(down'[d]) = Len(down[d]) + 1
          /\ down'[d][Len(down[d]) + 1] = m
          /\ \A k \in 1 .. Len(down[d]) : down'[d][k] = down[d][k]
      BY <1>9, <1>10, <2>1, <2>7, AppendFacts
    <3>2. Len(got[d]) + Len(down[d]) + 1 = Len(handled[d]) + 1
      BY <1>7, <1>13, <1>15, <2>7 DEF ReplyInv
    <3>3. \A g, w, h \in Nat : g + w + 1 = h + 1 =>
            g + (w + 1) = h + 1 /\ g + (w + 1) + 0 = h + 1
      OBVIOUS
    <3>4. /\ Len(got[d]) + (Len(down[d]) + 1) = Len(handled[d]) + 1
          /\ Len(got[d]) + (Len(down[d]) + 1) + 0 = Len(handled[d]) + 1
      BY <2>1, <3>2, <3>3
    <3>5. Placed(d, Len(handled[d]) + 1, m)'
      <4>1. /\ handled[d] # <<>> /\ handled[d][Len(handled[d])].type = m.type
            /\ reply.success => Holds(handled[d][Len(handled[d])], reply.id)
        BY <1>1, <1>2, <1>5, <1>9 DEF CurrentInv, LastHandled
      <4>2. Len(handled[d]) # 0
        BY <1>1, <1>8, <4>1, Counts, EmptyFacts
      <4>3. /\ Len(handled[d]) + 1 # 1 /\ (Len(handled[d]) + 1) - 1 = Len(handled[d])
            /\ Len(handled[d]) \in 1 .. Len(handled[d])
        BY <2>1, <4>2
      <4>4. PICK r : r = handled[d][Len(handled[d])]
        OBVIOUS
      <4>5. m.response.success => Holds(r, m.response.id)'
        BY <1>6, <1>9, <4>1, <4>4, HoldsKept
      <4>6. handled'[d] = handled[d]
        BY <1>4
      <4> QED
        BY <4>1, <4>3, <4>4, <4>5, <4>6 DEF Placed
    <3>6. ASSUME NEW k \in 1 .. Len(down[d]) + 1
          PROVE  Placed(d, Len(got[d]) + k, down[d][k])'
      <4>1. CASE k = Len(down[d]) + 1
        <5>1. Len(got'[d]) + k = Len(handled[d]) + 1 /\ down'[d][k] = m
          BY <1>4, <3>1, <3>4, <4>1
        <5> QED
          BY <1>4, <3>5, <5>1 DEF Placed
      <4>2. CASE k # Len(down[d]) + 1
        <5>1. k \in 1 .. Len(down[d])
          BY <2>1, <4>2
        <5> QED
          BY <1>4, <2>2, <2>4, <2>5, <3>1, <5>1
      <4> QED
        BY <4>1, <4>2
    <3>7. Len(got'[d]) + Len(down'[d]) + Busy(d)' = Len(handled'[d]) + 1
      <4>1. /\ Len(got'[d]) = Len(got[d]) /\ Len(down'[d]) = Len(down[d]) + 1
            /\ Busy(d)' = 0 /\ Len(handled'[d]) = Len(handled[d])
        BY <1>4, <1>13, <3>1
      <4> QED
        BY <3>4, <4>1
    <3> QED
      BY <1>4, <2>3, <3>1, <3>6, <3>7 DEF ReplyInv
  <2> QED
    BY <2>6, <2>7
<1>18. ClientInv(d)'
  BY <1>16, <1>17 DEF ClientInv
<1>19. InboxInv'
  BY <1>1, <1>4, ArrivedSame, InboxSame
<1>20. CurrentInv'
  BY <1>5 DEF CurrentInv
<1> QED
  BY <1>6, <1>12, <1>14, <1>18, <1>19, <1>20 DEF IInv

\* A save is of one row to its end, and its success gives that row's id.
LEMMA SaveFacts ==
  ASSUME StoreProofs!IInv,
         \/ Store!Reload \/ Store!ReloadRelated \/ Store!EndSave
         \/ \E i \in Store!Id : Store!SaveRelated(i)
  PROVE  /\ Store!Next /\ phase \in Working /\ phase # "replying" /\ phase' \in Working
         /\ \/ phase' # "replying" /\ save'.row = save.row
            \/ phase' = "replying" /\ (reply'.success => reply'.id = save.row)
<1>1. save \in Store!TableSave
  BY StoreTypes
<1>2. ASSUME NEW i \in Store!Id, Store!SaveRelated(i)
      PROVE  /\ phase = "related" /\ phase' \in {"related", "reload_related"}
             /\ save'.row = save.row
  BY <1>1, <1>2 DEF Store!SaveRelated, Store!TableSave
<1>3. ASSUME Store!Reload
      PROVE  /\ phase = "reload"
             /\ \/ phase' = "related" /\ save'.row = save.row
                \/ phase' = "replying" /\ ~ reply'.success
  BY <1>1, <1>3 DEF Store!Reload, Store!Answer, Store!TableSave
<1>4. ASSUME Store!ReloadRelated
      PROVE  phase = "reload_related" /\ phase' = "related" /\ save'.row = save.row
  BY <1>1, <1>4 DEF Store!ReloadRelated, Store!TableSave
<1>5. ASSUME Store!EndSave
      PROVE  phase = "related" /\ phase' = "replying" /\ reply'.id = save.row
  BY <1>5, StoreTypes DEF Store!EndSave, Store!Answer
<1> QED
  BY <1>2, <1>3, <1>4, <1>5 DEF Store!Next, Working

LEMMA SaveStepInv ==
  ASSUME IInv, Save
  PROVE  IInv'
<1>1. /\ Types /\ StoreProofs!IInv /\ InboxInv /\ CurrentInv
      /\ \A c \in Client : ClientInv(c)
  BY DEF IInv
<1>2. /\ \/ Store!Reload \/ Store!ReloadRelated \/ Store!EndSave
         \/ \E i \in Store!Id : Store!SaveRelated(i)
      /\ link' = link /\ up' = up /\ down' = down /\ accepted' = accepted /\ inbox' = inbox
      /\ current' = current /\ sent' = sent /\ handled' = handled /\ got' = got
  BY DEF Save, histories
<1>3. /\ Store!Next /\ phase \in Working /\ phase # "replying" /\ phase' \in Working
      /\ \/ phase' # "replying" /\ save'.row = save.row
         \/ phase' = "replying" /\ (reply'.success => reply'.id = save.row)
  BY <1>1, <1>2, SaveFacts
<1>4. /\ StoreProofs!IInv'
      /\ championships \subseteq championships' /\ seasons \subseteq seasons'
  BY <1>1, <1>3, StoreKept
<1>5. Approved' = Approved
  BY <1>2 DEF Approved
<1>6. Types'
  BY <1>1, <1>2, <1>3, <1>5 DEF Types
<1>7. \A c \in Client : Busy(c)' = Busy(c)
  BY <1>2, <1>3 DEF Busy
<1>8. \A c \in Client : ClientInv(c)'
  BY <1>1, <1>2, <1>4, <1>5, <1>7, ClientSame
<1>9. InboxInv'
  BY <1>1, <1>2, ArrivedSame, InboxSame
<1>10. CurrentInv'
  <2>1. PICK r : r = LastHandled(current.remote)
    OBVIOUS
  <2>2. /\ handled[current.remote] # <<>> /\ r.type = current.type
        /\ Holds(r, save.row)
    BY <1>1, <1>3, <2>1 DEF CurrentInv
  <2>3. PICK i : i = save.row
    OBVIOUS
  <2>4. Holds(r, i)'
    BY <1>4, <2>2, <2>3, HoldsKept
  <2>5. LastHandled(current.remote)' = r
    BY <1>2, <2>1 DEF LastHandled
  <2>6. /\ phase' # "replying" => Holds(r, save.row)'
        /\ phase' = "replying" /\ reply'.success => Holds(r, reply.id)'
    BY <1>3, <2>3, <2>4 DEF Holds
  <2> QED
    BY <1>2, <2>2, <2>5, <2>6 DEF CurrentInv
<1> QED
  BY <1>4, <1>6, <1>8, <1>9, <1>10 DEF IInv

\* The server starts with nothing in hand.
LEMMA StartInv ==
  ASSUME IInv, Start
  PROVE  IInv'
<1>1. /\ Types /\ StoreProofs!IInv /\ InboxInv
      /\ \A c \in Client : ClientInv(c)
  BY DEF IInv
<1>2. /\ Store!Start
      /\ link' = link /\ up' = up /\ down' = down /\ accepted' = accepted /\ inbox' = inbox
      /\ current' = current /\ sent' = sent /\ handled' = handled /\ got' = got
  BY DEF Start, histories
<1>3. /\ Store!Next /\ phase = "down" /\ phase' = "waiting"
      /\ phase \notin Working /\ phase' \notin Working
  BY <1>2 DEF Store!Next, Store!Start, Working
<1>4. /\ StoreProofs!IInv'
      /\ championships \subseteq championships' /\ seasons \subseteq seasons'
  BY <1>1, <1>3, StoreKept
<1>5. Approved' = Approved
  BY <1>2 DEF Approved
<1>6. Types'
  BY <1>1, <1>2, <1>3, <1>5 DEF Types
<1>7. \A c \in Client : Busy(c)' = Busy(c)
  BY <1>2, <1>3 DEF Busy
<1>8. \A c \in Client : ClientInv(c)'
  BY <1>1, <1>2, <1>4, <1>5, <1>7, ClientSame
<1>9. InboxInv'
  BY <1>1, <1>2, ArrivedSame, InboxSame
<1>10. CurrentInv'
  BY <1>3 DEF CurrentInv
<1> QED
  BY <1>4, <1>6, <1>8, <1>9, <1>10 DEF IInv

\* When the process dies nothing that was on its way to it will be handled; what it
\* has handled was sent, and what it has answered stays true.
LEMMA CrashInv ==
  ASSUME IInv, Crash
  PROVE  IInv'
<1>1. /\ Types /\ StoreProofs!IInv /\ \A c \in Client : ClientInv(c)
  BY DEF IInv
<1>2. /\ Store!Crash
      /\ link' = [c \in Client |-> IF link[c] = "none" THEN "none" ELSE "reset"]
      /\ up' = [c \in Client |-> <<>>]
      /\ accepted' = <<>> /\ inbox' = <<>> /\ current' = NoMessage
      /\ down' = down /\ sent' = sent /\ handled' = handled /\ got' = got
  BY DEF Crash, histories
<1>3. Store!Next /\ phase' = "down" /\ phase' \notin Working
  BY <1>2 DEF Store!Next, Store!Crash, Working
<1>4. /\ StoreProofs!IInv'
      /\ championships \subseteq championships' /\ seasons \subseteq seasons'
  BY <1>1, <1>3, StoreKept
<1>5. Approved' = {}
  BY <1>2 DEF Approved
<1>6. Types'
  <2>1. link' \in [Client -> {"none", "up", "broken", "reset"}]
    BY <1>2
  <2>2. <<>> \in Seq(Request) /\ <<>> \in Seq(Client) /\ <<>> \in Seq(Message)
    OBVIOUS
  <2>3. up' \in [Client -> Seq(Request)]
    BY <1>2, <2>2
  <2>4. \A i \in 1 .. Len(inbox') : inbox'[i].remote \in Approved'
    BY <1>2
  <2> QED
    BY <1>1, <1>2, <1>3, <2>1, <2>2, <2>3, <2>4 DEF Types
<1>7. ASSUME NEW c \in Client PROVE ClientInv(c)'
  <2>1. LinkInv(c) /\ SentInv(c) /\ ReplyInv(c)
    BY <1>1 DEF ClientInv
  <2>2. up'[c] = <<>> /\ link'[c] = IF link[c] = "none" THEN "none" ELSE "reset"
    BY <1>2
  <2>3. /\ Len(handled[c]) \in Nat /\ Len(sent[c]) \in Nat /\ Len(got[c]) \in Nat
        /\ Arrived(c) <= Len(sent[c]) /\ Arrived(c) \in Int
    BY <1>1, Counts, ArrivedBound
  <2>4. LinkInv(c)'
    BY <1>2, <1>5, <2>1, <2>2 DEF LinkInv
  <2>5. Arrived(c)' = Len(sent[c])
    <3>1. Len(up'[c]) = 0
      BY <2>2
    <3> QED
      BY <1>2, <2>3, <3>1 DEF Arrived
  <2>6. Len(handled[c]) <= Len(sent[c])
    BY <2>1, <2>3 DEF SentInv
  <2>7. SentInv(c)'
    BY <1>2, <2>1, <2>2, <2>5, <2>6 DEF SentInv
  <2>8. \A i \in Nat : \A m : Placed(c, i, m) => Placed(c, i, m)'
    BY <1>1, <1>2, <1>4, <2>3, HoldsKept, PlacedKept
  <2>9. \A k \in 1 .. Len(down[c]) : Len(got[c]) + k \in Nat
    BY <2>3
  <2>10. /\ \A i \in 1 .. Len(got[c]) : Placed(c, i, got[c][i])'
         /\ \A k \in 1 .. Len(down[c]) : Placed(c, Len(got[c]) + k, down[c][k])'
    BY <1>2, <2>1, <2>8, <2>9 DEF ReplyInv
  <2>11. ReplyInv(c)'
    BY <1>2, <2>2, <2>10 DEF ReplyInv
  <2> QED
    BY <2>4, <2>7, <2>11 DEF ClientInv
<1>8. InboxInv'
  <2>1. PICK n : n = <<>>
    OBVIOUS
  <2>2. n \in Seq(Nat) /\ Len(n) = 0 /\ Len(inbox') = 0
    BY <1>2, <2>1
  <2>3. \A c \in Client : link'[c] # "reset" =>
          \A k \in Len(handled'[c]) + 1 .. Arrived(c)' : FALSE
    <3>1. ASSUME NEW c \in Client, link'[c] # "reset",
                 NEW k \in Len(handled'[c]) + 1 .. Arrived(c)'
          PROVE  FALSE
      <4>1. link[c] = "none"
        BY <1>2, <3>1
      <4>2. Len(handled[c]) \in Nat /\ Len(sent[c]) \in Nat /\ sent[c] = <<>>
        BY <1>1, <4>1, Counts DEF ClientInv, LinkInv
      <4>3. Arrived(c)' = 0
        BY <1>2, <4>2 DEF Arrived
      <4> QED
        BY <1>2, <3>1, <4>2, <4>3
    <3> QED
      BY <3>1
  <2>4. Numbered(n)'
    BY <2>2, <2>3 DEF Numbered
  <2> QED
    BY <2>4 DEF InboxInv
<1>9. CurrentInv'
  BY <1>3 DEF CurrentInv
<1> QED
  BY <1>4, <1>6, <1>7, <1>8, <1>9 DEF IInv

-----------------------------------------------------------------------------
(* The invariant *)

LEMMA InitIInv == Init => IInv
<1> SUFFICES ASSUME Init PROVE IInv
  OBVIOUS
<1>1. StoreProofs!IInv /\ phase \notin Working
  <2>1. Store!Init
    BY DEF Init
  <2> QED
    BY <2>1, Assumed, SameStore, StoreProofs!InitIInv DEF Store!Init, Working
<1>2. /\ link = [c \in Client |-> "none"] /\ up = [c \in Client |-> <<>>]
      /\ down = [c \in Client |-> <<>>] /\ accepted = <<>> /\ inbox = <<>>
      /\ current = NoMessage
      /\ sent = [c \in Client |-> <<>>] /\ handled = [c \in Client |-> <<>>]
      /\ got = [c \in Client |-> <<>>]
  BY DEF Init
<1>3. Types
  <2>1. \A S : <<>> \in Seq(S)
    OBVIOUS
  <2> QED
    BY <1>1, <1>2, <2>1 DEF Types
<1>4. ASSUME NEW c \in Client
      PROVE  /\ link[c] = "none" /\ up[c] = <<>> /\ down[c] = <<>> /\ c \notin Approved
             /\ sent[c] = <<>> /\ handled[c] = <<>> /\ got[c] = <<>>
             /\ Len(up[c]) = 0 /\ Len(sent[c]) = 0 /\ Len(handled[c]) = 0
             /\ Len(down[c]) = 0 /\ Len(got[c]) = 0 /\ Arrived(c) = 0
  <2>1. /\ link[c] = "none" /\ up[c] = <<>> /\ down[c] = <<>>
        /\ sent[c] = <<>> /\ handled[c] = <<>> /\ got[c] = <<>>
    BY <1>2
  <2>2. c \notin Approved
    BY <1>2 DEF Approved
  <2>3. Len(<<>>) = 0
    OBVIOUS
  <2>4. Arrived(c) = 0
    BY <2>1, <2>3 DEF Arrived
  <2> QED
    BY <2>1, <2>2, <2>3, <2>4
<1>5. ASSUME NEW c \in Client PROVE ClientInv(c)
  <2>1. \A k \in 1 .. 0 : FALSE
    OBVIOUS
  <2>2. LinkInv(c)
    BY <1>4 DEF LinkInv
  <2>3. SentInv(c)
    BY <1>4, <2>1 DEF SentInv
  <2>4. ReplyInv(c)
    BY <1>4, <2>1 DEF ReplyInv
  <2> QED
    BY <2>2, <2>3, <2>4 DEF ClientInv
<1>6. InboxInv
  <2>1. <<>> \in Seq(Nat) /\ Len(<<>>) = 0 /\ Len(inbox) = 0
    BY <1>2
  <2>2. Numbered(<<>>)
    BY <1>4, <2>1 DEF Numbered
  <2> QED
    BY <2>2 DEF InboxInv
<1> QED
  BY <1>1, <1>3, <1>5, <1>6 DEF IInv, CurrentInv

LEMMA StutterInv ==
  ASSUME IInv, UNCHANGED server
  PROVE  IInv'
<1>1. /\ Types /\ StoreProofs!IInv /\ InboxInv /\ CurrentInv
      /\ \A c \in Client : ClientInv(c)
  BY DEF IInv
<1>2. /\ UNCHANGED store
      /\ link' = link /\ up' = up /\ down' = down /\ accepted' = accepted /\ inbox' = inbox
      /\ current' = current /\ sent' = sent /\ handled' = handled /\ got' = got
  BY DEF server, histories
<1>3. /\ StoreProofs!IInv' /\ phase' = phase
      /\ championships \subseteq championships' /\ seasons \subseteq seasons'
  BY <1>1, <1>2, StoreSame
<1>4. Approved' = Approved /\ \A c \in Client : Busy(c)' = Busy(c)
  BY <1>2, <1>3 DEF Approved, Busy
<1>5. Types'
  BY <1>1, <1>2, <1>3, <1>4 DEF Types
<1>6. \A c \in Client : ClientInv(c)'
  BY <1>1, <1>2, <1>3, <1>4, ClientSame
<1>7. InboxInv'
  BY <1>1, <1>2, ArrivedSame, InboxSame
<1>8. CurrentInv'
  BY <1>1, <1>2, CurrentSame
<1> QED
  BY <1>3, <1>5, <1>6, <1>7, <1>8 DEF IInv

LEMMA NextIInv == IInv /\ [Next]_vars => IInv'
<1> SUFFICES ASSUME IInv, [Next]_vars PROVE IInv'
  OBVIOUS
<1>1. ASSUME NEW c \in Client,
             \/ Connect(c) \/ SendRequest(c) \/ Receive(c) \/ Break(c)
             \/ AcceptClient(c) \/ Deliver(c)
      PROVE  IInv'
  BY <1>1, ConnectInv, SendRequestInv, ReceiveInv, BreakInv, AcceptClientInv, DeliverInv
<1>2. CASE Main
  BY <1>2, HandleInv, RespondInv, SaveStepInv, StutterInv DEF Main, FindEmpty, FallAsleep
<1>3. CASE Start \/ Crash
  BY <1>3, StartInv, CrashInv
<1>4. CASE SpuriousWakeup \/ UNCHANGED vars
  BY <1>4, StutterInv DEF SpuriousWakeup, vars
<1> QED
  BY <1>1, <1>2, <1>3, <1>4 DEF Next

\* IInv is an invariant of the server, for any clients, requests and faults.
THEOREM Invariance == Spec => []IInv
BY InitIInv, NextIInv, PTL DEF Spec

\* The main thread waits only outside of on_message.
LoopInv == loop \in {"awake", "dozing", "asleep"} /\ (loop # "awake" => phase = "waiting")

LEMMA LoopKept ==
  ASSUME LoopInv, [Next]_vars
  PROVE  LoopInv'
<1>1. CASE FindEmpty \/ FallAsleep \/ SpuriousWakeup
  BY <1>1 DEF FindEmpty, FallAsleep, SpuriousWakeup, server, store, LoopInv
<1>2. CASE Handle
  BY <1>2 DEF Handle, OnMessage, LoopInv
<1>3. CASE Respond \/ Save \/ Start \/ Crash
  BY <1>3 DEF Respond, Save, Start, Crash, LoopInv, Store!Respond, Store!Reload,
              Store!ReloadRelated, Store!EndSave, Store!SaveRelated, Store!Start
<1>4. ASSUME NEW c \in Client,
             \/ Connect(c) \/ SendRequest(c) \/ Receive(c) \/ Break(c)
             \/ AcceptClient(c) \/ Deliver(c)
      PROVE  LoopInv'
  BY <1>4 DEF Connect, SendRequest, Receive, Break, AcceptClient, Deliver, store, LoopInv
<1>5. CASE UNCHANGED vars
  BY <1>5 DEF vars, server, store, LoopInv
<1> QED
  BY <1>1, <1>2, <1>3, <1>4, <1>5 DEF Next, Main

\* Types hold throughout: on_message has a client exactly while a request is being
\* executed, and that client, like every sender in the inbox, was accepted by this
\* process.
THEOREM TypeCorrect == Spec => []TypeOK
<1>1. ASSUME IInv, LoopInv PROVE TypeOK
  <2>1. Types /\ Store!TypeOK
    BY <1>1, StoreTypes DEF IInv
  <2>2. inbox \in Seq([remote : Approved, msg : Request])
    <3>1. \A i \in 1 .. Len(inbox) : inbox[i] \in [remote : Approved, msg : Request]
      BY <2>1, InboxFacts DEF Message
    <3> QED
      BY <2>1, <3>1, ElementsIn DEF Types
  <2> QED
    BY <1>1, <2>1, <2>2 DEF Types, TypeOK, LoopInv
<1>2. Init => LoopInv
  BY DEF Init, LoopInv
<1>3. LoopInv /\ [Next]_vars => LoopInv'
  BY LoopKept
<1> QED
  BY <1>1, <1>2, <1>3, Invariance, PTL DEF Spec

\* The numbers of c's messages in the inbox are those of its requests that have
\* arrived and are not handled, each once.
LEMMA InboxCount ==
  ASSUME IInv, NEW c \in Client, link[c] # "reset"
  PROVE  Cardinality(InInbox(c)) = Arrived(c) - Len(handled[c])
<1>1. PICK n : Numbered(n)
  BY DEF IInv, InboxInv
<1>2. inbox \in Seq(Message) /\ DOMAIN inbox = 1 .. Len(inbox) /\ Len(inbox) \in Nat
  BY DEF IInv, Types
<1> DEFINE waiting == Len(handled[c]) + 1 .. Arrived(c)
           number == [i \in InInbox(c) |-> n[i]]
<1>3. Len(handled[c]) \in Nat /\ Arrived(c) \in Int /\ Len(handled[c]) <= Arrived(c)
  BY Counts DEF IInv, ClientInv, SentInv
<1>4. \A i \in InInbox(c) : n[i] \in waiting
  <2> SUFFICES ASSUME NEW i \in InInbox(c) PROVE n[i] \in waiting
    OBVIOUS
  <2>1. i \in 1 .. Len(inbox) /\ inbox[i].remote = c
    BY <1>2 DEF InInbox
  <2>2. n[i] \in Nat /\ n[i] > Len(handled[c]) /\ n[i] <= Arrived(c)
    BY <1>1, <2>1, ElementOfSeq DEF Numbered
  <2> QED
    BY <1>3, <2>2
<1>5. \A i, j \in InInbox(c) : n[i] = n[j] => i = j
  <2> SUFFICES ASSUME NEW i \in InInbox(c), NEW j \in InInbox(c), i < j
               PROVE  n[i] # n[j]
    BY <1>2 DEF InInbox
  <2>1. n[i] < n[j]
    BY <1>1, <1>2 DEF Numbered, InInbox
  <2>2. n[i] \in Int /\ n[j] \in Int
    BY <1>3, <1>4
  <2> QED
    BY <2>1, <2>2
<1>6. \A k \in waiting : \E i \in InInbox(c) : n[i] = k
  BY <1>1, <1>2 DEF Numbered, InInbox
<1> HIDE DEF waiting
<1>7. number \in Bijection(InInbox(c), waiting)
  <2>1. number \in [InInbox(c) -> waiting]
    BY <1>4
  <2>2. \A i, j \in InInbox(c) : number[i] = number[j] => i = j
    BY <1>5
  <2>3. \A k \in waiting : \E i \in InInbox(c) : number[i] = k
    BY <1>6
  <2> HIDE DEF number
  <2> QED
    BY <2>1, <2>2, <2>3 DEF Bijection, Injection, Surjection, IsInjective
<1>8. IsFiniteSet(InInbox(c))
  <2>1. InInbox(c) \in SUBSET (1 .. Len(inbox))
    BY <1>2 DEF InInbox
  <2>2. IsFiniteSet(1 .. Len(inbox))
    BY <1>2, FS_Interval
  <2> QED
    BY <2>1, <2>2, FS_Subset
<1>9. Cardinality(waiting) = Cardinality(InInbox(c))
  BY <1>7, <1>8, FS_Bijection DEF ExistsBijection
<1>10. Cardinality(waiting) = Arrived(c) - Len(handled[c])
  BY <1>3, FS_Interval DEF waiting
<1> QED
  BY <1>9, <1>10

\* Every request is on its way, in the inbox or handled, and at one of them only; and
\* every one that was handled has its reply: received, on its way, or being prepared.
THEOREM RequestsAreAccountedFor == Spec => []RequestsAccounted
<1>1. IInv => RequestsAccounted
  <2> SUFFICES ASSUME IInv, NEW c \in Client
               PROVE  /\ link[c] # "reset" =>
                           Len(sent[c]) = Len(handled[c]) + Cardinality(InInbox(c)) + Len(up[c])
                      /\ link[c] = "up" /\ c \in Approved =>
                           Len(got[c]) + Len(down[c]) + Busy(c) = Len(handled[c]) + 1
    BY DEF RequestsAccounted
  <2>1. Arrived(c) \in Int /\ Arrived(c) + Len(up[c]) = Len(sent[c])
    BY ArrivedBound DEF IInv
  <2>2. Len(handled[c]) \in Nat /\ Len(up[c]) \in Nat
    BY Counts DEF IInv
  <2>3. link[c] # "reset" =>
          Len(sent[c]) = Len(handled[c]) + Cardinality(InInbox(c)) + Len(up[c])
    BY <2>1, <2>2, InboxCount
  <2>4. link[c] = "up" /\ c \in Approved =>
          Len(got[c]) + Len(down[c]) + Busy(c) = Len(handled[c]) + 1
    BY DEF IInv, ClientInv, ReplyInv
  <2> QED
    BY <2>3, <2>4
<1> QED
  BY <1>1, Invariance, PTL

\* What a client has received is the greeting, then replies to its own requests, in
\* their order.
THEOREM RepliesAreInOrder == Spec => []RepliesInOrder
<1>1. ASSUME IInv PROVE RepliesInOrder
  <2> SUFFICES ASSUME NEW c \in Client, NEW i \in DOMAIN got[c]
               PROVE  IF i = 1 THEN got[c][i] = Accept
                      ELSE /\ i - 1 \in DOMAIN sent[c]
                           /\ got[c][i].type = sent[c][i - 1].type
    BY DEF RepliesInOrder
  <2>1. Types /\ SentInv(c) /\ ReplyInv(c)
    BY <1>1 DEF IInv, ClientInv
  <2>2. got[c] \in Seq(FromServer) /\ sent[c] \in Seq(Request)
    BY <2>1, Counts
  <2>3. DOMAIN got[c] = 1 .. Len(got[c]) /\ DOMAIN sent[c] = 1 .. Len(sent[c])
    BY <2>2
  <2>4. Placed(c, i, got[c][i])
    BY <2>1, <2>3 DEF ReplyInv
  <2>5. CASE i = 1
    BY <2>4, <2>5 DEF Placed
  <2>6. CASE i # 1
    <3>1. i - 1 \in 1 .. Len(handled[c]) /\ got[c][i].type = handled[c][i - 1].type
      BY <2>4, <2>6 DEF Placed
    <3>2. Len(handled[c]) \in Nat /\ Len(sent[c]) \in Nat /\ Arrived(c) \in Int
          /\ Arrived(c) <= Len(sent[c]) /\ Len(handled[c]) <= Arrived(c)
      BY <2>1, Counts, ArrivedBound DEF SentInv
    <3>3. Len(handled[c]) <= Len(sent[c])
      BY <3>2
    <3>4. i - 1 \in 1 .. Len(sent[c]) /\ handled[c][i - 1] = sent[c][i - 1]
      <4>1. PICK k : k = i - 1
        OBVIOUS
      <4>2. k \in 1 .. Len(sent[c])
        BY <3>1, <3>2, <3>3, <4>1
      <4> QED
        BY <2>1, <3>1, <4>1, <4>2 DEF SentInv
    <3> QED
      BY <2>3, <2>6, <3>1, <3>4
  <2> QED
    BY <2>5, <2>6
<1> QED
  BY <1>1, Invariance, PTL

\* A success a client has received is in the tables and stays there, whatever the
\* clients ask for later and however often the process dies.
THEOREM AnswersAreTrue == Spec => []AnswersHold
<1>1. ASSUME IInv PROVE AnswersHold
  <2> SUFFICES ASSUME NEW c \in Client, NEW i \in DOMAIN got[c], got[c][i].response.success
               PROVE  Holds(sent[c][i - 1], got[c][i].response.id)
    BY DEF AnswersHold
  <2>1. Types /\ SentInv(c) /\ ReplyInv(c)
    BY <1>1 DEF IInv, ClientInv
  <2>2. i \in 1 .. Len(got[c])
    BY <2>1, Counts
  <2>3. Placed(c, i, got[c][i])
    BY <2>1, <2>2 DEF ReplyInv
  <2>4. i # 1
    BY <2>3, ReplyTyped DEF Placed
  <2>5. /\ i - 1 \in 1 .. Len(handled[c])
        /\ Holds(handled[c][i - 1], got[c][i].response.id)
    BY <2>3, <2>4 DEF Placed
  <2>6. handled[c][i - 1] = sent[c][i - 1]
    BY <2>1, <2>5 DEF SentInv
  <2> QED
    BY <2>5, <2>6
<1> QED
  BY <1>1, Invariance, PTL

-----------------------------------------------------------------------------
(* The channel from a client to on_message *)

\* A step sends one request of the client, handles the one that is next, or does
\* neither.
LEMMA StreamStep ==
  ASSUME IInv, [Next]_vars, NEW c \in Client
  PROVE  [Stream(c)!Next]_(Stream(c)!vars)
<1>1. Types /\ SentInv(c) /\ LinkInv(c) /\ InboxInv
  BY DEF IInv, ClientInv
<1>2. CASE sent'[c] = sent[c] /\ handled'[c] = handled[c]
  BY <1>2 DEF Stream!vars
<1>3. ASSUME NEW d \in Client, SendRequest(d)
      PROVE  [Stream(c)!Next]_(Stream(c)!vars)
  <2>1. PICK r \in Requests[d] : sent' = [sent EXCEPT ![d] = Append(@, r)]
    BY <1>3 DEF SendRequest
  <2>2. r \in Request /\ handled' = handled
    BY <1>3, ServerAssumption DEF SendRequest
  <2>3. CASE c = d
    <3>1. sent'[c] = Append(sent[c], r)
      BY <1>1, <2>1, <2>3 DEF Types
    <3> QED
      BY <2>2, <3>1 DEF Stream!Next, Stream!Send
  <2>4. CASE c # d
    BY <1>1, <1>2, <2>1, <2>2, <2>4 DEF Types
  <2> QED
    BY <2>3, <2>4
<1>4. CASE Handle
  <2>1. PICK d, r : d = Head(inbox).remote /\ r = Head(inbox).msg
    OBVIOUS
  <2>2. /\ d \in Client /\ r \in Request /\ sent' = sent
        /\ handled' = [handled EXCEPT ![d] = Append(@, r)]
    BY <1>4, <2>1, HandleFacts
  <2>3. /\ Len(handled[d]) < Len(sent[d]) /\ r = sent[d][Len(handled[d]) + 1]
        /\ \A e \in Client : e # d => handled'[e] = handled[e]
    BY <1>4, <2>1, HandleAny
  <2>4. CASE c = d
    <3>1. handled'[c] = Append(handled[c], r)
      BY <1>1, <2>2, <2>4 DEF Types
    <3> QED
      BY <2>2, <2>3, <2>4, <3>1 DEF Stream!Next, Stream!Receive
  <2>5. CASE c # d
    BY <1>2, <2>2, <2>3, <2>5
  <2> QED
    BY <2>4, <2>5
<1>5. CASE Respond \/ Save \/ Start \/ Crash \/ UNCHANGED server
  BY <1>2, <1>5 DEF Respond, Save, Start, Crash, server, histories
<1>6. ASSUME NEW d \in Client,
             Connect(d) \/ Receive(d) \/ Break(d) \/ AcceptClient(d) \/ Deliver(d)
      PROVE  [Stream(c)!Next]_(Stream(c)!vars)
  BY <1>2, <1>6 DEF Connect, Receive, Break, AcceptClient, Deliver, histories
<1> QED
  BY <1>3, <1>4, <1>5, <1>6
     DEF Next, Main, FindEmpty, FallAsleep, SpuriousWakeup, vars

\* Each client's requests are handled in the order it sent them, each once, whatever
\* the others send and whenever the process dies.
THEOREM RequestsAreHandledInOrder == Spec => RequestsFifo
<1>1. Init => \A c \in Client : Stream(c)!Init
  BY DEF Init, Stream!Init
<1>2. IInv /\ [Next]_vars => [\A c \in Client : [Stream(c)!Next]_(Stream(c)!vars)]_vars
  BY StreamStep
<1> QED
  BY <1>1, <1>2, Invariance, PTL DEF Spec, RequestsFifo

-----------------------------------------------------------------------------
(* The tables behind the server *)

\* Whatever the clients and the network do, the tables see a server as FootballStore
\* describes it: what is proved of FootballStore holds of this one.
THEOREM ServerUsesStore == Spec => Store!Spec
<1>1. Init => Store!Init
  BY DEF Init
<1>2. ASSUME IInv, [Next]_vars PROVE [Store!Next]_(Store!vars)
  <2>1. CASE UNCHANGED store
    BY <2>1 DEF store, Store!vars
  <2>2. CASE Handle
    <3>1. PICK d, r : d = Head(inbox).remote /\ r = Head(inbox).msg
      OBVIOUS
    <3> QED
      BY <1>2, <2>1, <2>2, <3>1, HandleFacts, ExecuteFacts
  <2>3. CASE Save
    BY <1>2, <2>3, SaveFacts DEF Save, IInv
  <2>4. CASE Respond \/ Start \/ Crash
    BY <2>4 DEF Respond, Start, Crash, Store!Next
  <2>5. ASSUME NEW c \in Client,
               \/ Connect(c) \/ SendRequest(c) \/ Receive(c) \/ Break(c)
               \/ AcceptClient(c) \/ Deliver(c)
        PROVE  UNCHANGED store
    BY <2>5 DEF Connect, SendRequest, Receive, Break, AcceptClient, Deliver
  <2> QED
    BY <1>2, <2>1, <2>2, <2>3, <2>4, <2>5
       DEF Next, Main, FindEmpty, FallAsleep, SpuriousWakeup, vars, server
<1> QED
  BY <1>1, <1>2, Invariance, PTL DEF Spec, Store!Spec

-----------------------------------------------------------------------------
(* What FootballStore promises is kept for every client *)

\* The two copies of FootballStore promise the same.
LEMMA SamePromises ==
  /\ StoreProofs!RowsConsistent <=> Store!RowsConsistent
  /\ StoreProofs!Answered <=> Store!Answered
  /\ StoreProofs!SeasonIsWhole <=> Store!SeasonIsWhole
  /\ StoreProofs!SaveConfined <=> Store!SaveConfined
  /\ StoreProofs!Rows = Store!Rows
BY DEF StoreProofs!RowsConsistent, Store!RowsConsistent,
       StoreProofs!References, Store!References, StoreProofs!KeysUnique, Store!KeysUnique,
       StoreProofs!SaveConfined, Store!SaveConfined, StoreProofs!OfSaved, Store!OfSaved,
       StoreProofs!Rows, Store!Rows,
       StoreProofs!Answered, Store!Answered,
       StoreProofs!SeasonIsWhole, Store!SeasonIsWhole,
       StoreProofs!NoId, Store!NoId

\* Whatever several clients ask for and whenever they go away, the tables fit
\* together after every step, a save changes nothing but its own season's clubs, and
\* championships and seasons keep their rows; and unless the database has failed the
\* request, a season whose answer is success is whole, and a request answered without
\* success has changed nothing.
THEOREM StorePromisesKept ==
  Spec => /\ []Store!RowsConsistent /\ []Store!SaveConfined
          /\ Store!RowsKept /\ Store!SuccessIsWhole /\ Store!RejectedChangesNothing
<1>1. StoreProofs!StoreAssumption
  BY Assumed
<1>2. Store!Spec => StoreProofs!Spec
  <2>1. [Store!Next]_(Store!vars) => [StoreProofs!Next]_(StoreProofs!vars)
    BY SameStore DEF StoreProofs!vars, Store!vars
  <2> QED
    BY <2>1, SameStore, PTL DEF Store!Spec, StoreProofs!Spec
<1>3. StoreProofs!Spec => []StoreProofs!RowsConsistent
  BY <1>1, StoreProofs!TablesConsistent
<1>11. StoreProofs!Spec => []StoreProofs!SaveConfined
  BY <1>1, StoreProofs!SavesAreConfined
<1>4. StoreProofs!Spec => StoreProofs!RowsKept
  BY <1>1, StoreProofs!ChampionshipsAndSeasonsKept
<1>5. StoreProofs!Spec => StoreProofs!SuccessIsWhole
  BY <1>1, StoreProofs!SeasonAnswerIsTrue
<1>6. StoreProofs!Spec => StoreProofs!RejectedChangesNothing
  BY <1>1, StoreProofs!RejectionIsHarmless
<1>7. /\ StoreProofs!RowsConsistent => Store!RowsConsistent
      /\ StoreProofs!SaveConfined => Store!SaveConfined
  BY SamePromises
<1>8. StoreProofs!RowsKept => Store!RowsKept
  <2>1. [championships \subseteq championships' /\ seasons \subseteq seasons']_(StoreProofs!vars)
        => [championships \subseteq championships' /\ seasons \subseteq seasons']_(Store!vars)
    BY SameStore DEF StoreProofs!vars, Store!vars
  <2> QED
    BY <2>1, PTL DEF StoreProofs!RowsKept, Store!RowsKept
<1>9. StoreProofs!SuccessIsWhole => Store!SuccessIsWhole
  <2>1. [save.table = "seasons" /\ StoreProofs!Answered /\ reply'.success /\ ~ failed'
           => StoreProofs!SeasonIsWhole]_(StoreProofs!vars)
        => [save.table = "seasons" /\ Store!Answered /\ reply'.success /\ ~ failed'
              => Store!SeasonIsWhole]_(Store!vars)
    BY SameStore, SamePromises DEF StoreProofs!vars, Store!vars
  <2> QED
    BY <2>1, PTL DEF StoreProofs!SuccessIsWhole, Store!SuccessIsWhole
<1>10. StoreProofs!RejectedChangesNothing => Store!RejectedChangesNothing
  <2>1. [StoreProofs!Answered /\ ~ reply'.success /\ ~ failed'
           => StoreProofs!Rows' = IF phase = "waiting" THEN StoreProofs!Rows
                                                       ELSE save.before]_(StoreProofs!vars)
        => [Store!Answered /\ ~ reply'.success /\ ~ failed'
              => Store!Rows' = IF phase = "waiting" THEN Store!Rows
                                                    ELSE save.before]_(Store!vars)
    BY SameStore, SamePromises DEF StoreProofs!vars, Store!vars, StoreProofs!Rows, Store!Rows
  <2> QED
    BY <2>1, PTL DEF StoreProofs!RejectedChangesNothing, Store!RejectedChangesNothing
<1> QED
  BY <1>2, <1>3, <1>4, <1>5, <1>6, <1>7, <1>8, <1>9, <1>10, <1>11, ServerUsesStore, PTL
=============================================================================
