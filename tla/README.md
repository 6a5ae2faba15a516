# TLA+ models of football

Football is a small distributed program in C++20: a **server** (`football.cpp`) that
keeps championships, clubs and seasons in MySQL and answers binary requests over TCP; a
**radar** (`radar.cpp`) that polls a table of tasks, asks a publisher's web pages for what
they name and sends the results to the server; and a library of sockets, queues and
database objects that both use.  This directory models the parts that have state and
order, checks them with TLC on small instances and proves the safety of all but the searches
through web pages with TLAPS, for every value of the constants.

    tlc -workers 2 -config MCTsQueue.cfg MCTsQueue       # likewise for every MC*.cfg
    tlapm TsQueueProofs.tla                              # likewise for every *Proofs.tla, and SequenceFacts.tla

## The system

| part | state | operations | talks to |
|---|---|---|---|
| `net::tsqueue` (`net/tsqueue.hpp`) | deque, two mutexes, condition variable | `push_back`, `pop_front`, `empty`, `wait` | the threads at its ends |
| `net::connection` (`net/connection.hpp`) | socket, outgoing queue, message being read | `send`, `disconnect`, and the handlers of asio's reads and writes | its peer by TCP, its owner by a tsqueue |
| `client_interface`, `server_interface`, `football_server` | io context and its thread, connections, incoming queue | `connect`, `send`, `disconnect`; `start`, `update`, `on_client_connect`, `on_message` | connections, `event_action` |
| `event_action` and the objects `championship`, `club`, `season`, `club_season` | fields of one row, loaded and saved | constructor (look up), `save`, `add_club`, `remove` | `mysql::table` |
| `mysql::table`, `mysql::server` (`db/mysql.cpp`) | one connection, its last statement and result | `select`, `insert` (REPLACE INTO), `reload`, `prepare_execute` | MySQL, tables of `db/football.sql` |
| `scanner::scheduler` and the tasks (`scanner/`) | thread, `cancel_thread`, row of `tasks` | poll, run, store, push the result | publishers, `mysql`, result queue |
| `football_client::listen`, `radar.cpp` | - | pops results, sends them | result queue, client |
| publishers (`pub/`) | what the last search found | `get_championship`, `get_championship_clubs`, `get_new_championship` | the web, the tasks |
| `net::message` (`net/message.hpp`) | header, body as a stack of bytes | `<<`, `>>` | everything above |

What is hard in it: two locks in one queue and a condition variable between them;
asynchronous handlers that look again at a queue the application has written to; peers
that disappear; one statement and one result shared by every database object; a `save()`
that says false of a row it has written; a scheduler that dies between saving and announcing
a result; and a way of saving, REPLACE, that deletes what it writes and everything that
refers to it.
The list under `hazards` in PROJECT.json says where each of these bites.

What makes each part correct:

- queue: nothing lost, doubled or reordered, no pop of an empty deque, no cycle of locks,
  no sleeping consumer with work to do;
- connection: one write at a time, headers and bodies never mixed up, each direction a
  FIFO channel, the n-th reply for the n-th request, no request waiting for ever on a
  connection that looks alive (which the queue's lost wakeup and the ignored end of a stream
  both break);
- scheduler: no task run twice, no result without its record, every task settles;
- store: tables consistent, ids that stay valid, no row touched that was not asked for, and
  answers that are true as far as the server can know;
- statements: no object reads what another's statement has thrown away, and a request is
  one change of the tables and one answer, however many statements it takes;
- publisher: a name that is a heading's link, the first heading's where headings do not
  nest, and the clubs in the team's cells.

## Modules

| module | models |
|---|---|
| `FifoChannel` | abstract: what is received is a prefix of what is sent, one item at a time |
| `TsQueue` | the queue lock by lock, with its producers and the one loop that consumes |
| `TsQueueProofs` | proofs about it |
| `SequenceFacts` | lemmas about sequences that the proofs share |
| `Connection` | a client, the server and the TCP connection between them, handler by handler |
| `ConnectionProofs` | proofs about it |
| `Publisher` | the searches through a page, and what a task is told |
| `Radar` | the scheduler's thread, `listen`'s loop, the tasks table, crashes and restarts |
| `RadarProofs` | proofs about it |
| `FootballStore` | the server's handlers, its objects and its tables |
| `FootballStoreProofs` | proofs about it |
| `MysqlTable` | the same, one SQL statement at a time: constructors, the one shared result, `table::save` |
| `MysqlTableProofs` | proofs about it, with those about `FootballStore` |
| `FootballServer` | the whole server: several clients, their connections, the shared inbox, and `FootballStore` behind it |
| `FootballServerProofs` | proofs about it, with those about `FootballStore` |
| `MCTsQueue`, `MCConnection`, `MCRadar`, `MCFootballStore`, `MCMysqlTable`, `MCFootballServer` | the instances TLC checks |

`FifoChannel` is the joint between them: `TsQueue` and both directions of `Connection`
implement it (`IsFifo`, `UpstreamFifo`, `DownstreamFifo`), and `Radar` and `Connection`
use their queues (`queue`, `got`) as such channels.  What `Radar` puts into `sent` is what
`Connection` takes from there.  `FootballServer` composes: it has a pair of channels for
each client, the inbox as another, and an INSTANCE of `FootballStore` whose actions are the
only steps that touch the tables (`ServerUsesStore` is the theorem).  `MysqlTable` is the
level below: it implements `FootballStore` (`ImplementsStore`, checked and proved), so that
`FootballServer`, and the proofs about the store, may take a request as the few steps they
take it as.  `MCRadar` composes `Radar`
with `Publisher`: what a task's run may end with is what the search finds in some page.

Definitions introduced by the word *Mutant* in a comment are slips a
programmer could have made; each property is shown to notice one of them.  They take no
part in the specifications.

### TsQueue

`items`, `queueMutex`, `blockingMutex` are the members of the class; `pc` is where each
thread is.  A locked region is one step unless the thread takes a second lock in it:
`push_back` is `PushBack` (queue_mutex taken, item in) and `Notify` (blocking_mutex taken,
`notify_one`, both released); `wait` is `WaitCheck`, `WaitLock`, `WaitSleep`,
`WaitReturn`, with `SpuriousWakeup` beside them; `server_interface::update`'s loop is
`DrainCheck` and `PopFront`.  `Blocking` is update's `bWait`: the server's main loop
passes true, the tests and `listen` poll.

- Run `queue` (blocking consumer, two producers, four pushes): types, `PopSafe`,
  `LockOrder`, the refinement `IsFifo`, and `WakeDrains`: what is queued when
  the consumer wakes up is popped.
- Run `queue_lost_wakeup`: `EveryItemConsumed` is violated.  `wait` tests `empty()` under one
  mutex and sleeps under the other, without a predicate; a push and its notification in
  between wake nobody.  Two pushes are enough.

Two producers let one hold queue_mutex while the other wants it; four pushes let the queue
fill, drain and fill again.  Fairness: a thread that can run does (`Notify`, and the
consumer's steps).  Every step is a short critical section and a mutex is never held by a
thread that is waiting for work, so weak fairness of the threads is what the operating
system's scheduler gives.  Nobody owes a push or a spurious wakeup.

### Connection

Each end has a socket, a context, posted handlers, an outgoing queue, the writes and the
read in progress, and `temp`, the message being read.  Each action is one handler run to
its end on its context's thread (`RunSend`, `RunClose`, `WriteHeader`, `WriteBody`,
`WriteFails`, `ReadHeader`, `ReadBody`, `ReadEof`, `ReadFails`), or one call of an
application thread (`SendRequest`, `OnMessage`, `Disconnect`, `StopContext`).  TCP carries
chunks (headers and bodies) in order; a peer's end of stream is seen after what it sent.

`loop` is where the server's main thread is outside of `on_message`.  `update(-1, true)`
begins with `tsqueue::wait`, in its two steps: `FindEmpty` (`empty()` was true, the thread is
dozing) and `FallAsleep` (it waits, without a predicate).  What is delivered to a thread
that is asleep wakes it, what is delivered to one that is dozing does not: that is the lost
wakeup of the run `queue_lost_wakeup`, here with what it does to a client.  `OnMessage` needs
an awake thread.  (Nobody pops but this thread, so the locks of `TsQueue` need not be
repeated.)  A client may close its end before `AcceptClient` has run.

The handlers that asio runs with an error when a socket is closed do nothing but close it
again, and are folded into `CloseSocket`.  Writes on a socket that is still connecting
wait until it is connected, as the systems the program is built for do.

- Run `connection` (three requests; the connect may fail, the client may leave, the server
  may die): types, `OneWriter`, `WritesFront`, `Framed`, `RepliesInOrder`, both FIFO
  refinements; `NothingMissing` (while an end is connected and its peer has not closed,
  whatever it has sent is posted, in `out`, on the wire or with the peer, and at one of
  these only); and `Answered`: a request is answered unless a socket is closed or the
  client's context has stopped, or else, from some time on, the main thread sleeps for good
  while the request lies in its inbox.  That is all the code gives: the next message that is
  delivered, or a spurious wakeup, ends such a sleep, and nobody owes either.  The property
  says that there is no other way to wait for ever.  Three requests let one be written, one
  wait behind it and one be posted behind both, which is every case `send` distinguishes.
- Run `connection_eof`: `AnsweredOrDisconnected` is violated.  `read_header`'s handler
  ignores the end of the stream: the context runs out of work, the socket stays open,
  `is_connected()` says true and requests vanish.

CHECK_DEADLOCK is FALSE because a session is over after its last reply.  Fairness: each
context's thread runs what is ready, the server's main thread goes on unless it is asleep
(`MainLoop`), a connect ends one way or the other.  No fairness for requests, faults,
leaving or spurious wakeups.

### Radar

`row` is the status column of `tasks`, which survives the process; everything else is in
memory.  Scheduler's thread: `Poll`, `Take` (save running), `Run`, `Finish` (save
finished), `PushResult`, `Fail`, `EndBatch`, `Wake`; main thread: `Listen`, `SendResult`,
`DestroyResult`, `Leave`.  `Save` is `table::save`: it works; or it returns false, and the
row may have been written all the same (`insert` catches any exception, that of a lost
answer too, and `reload` may find nothing); or `reload` throws and takes the thread with
it.  `Kill` and `Restart` may come anywhere.
`faulty` is chosen once per behaviour, so that one run asks about safety under faults and about
progress without them.  `DestroyResult` is the double deletion of a result that
`util::New` and `t_result` both own: undefined behaviour, modelled as "goes on" or
"crashes".

- Run `radar` (two supported tasks, one of an unknown type, two restarts): types,
  `RunsOnce`, `ResultRecorded`, `ResultOnce`, `StatusPath`; `AbandonedForGood` (a task
  left running by a fault is never settled, taken up again or reported) and `ResultKept`
  (without a fault a task is recorded as finished only with a result that is about to be
  pushed, and with or without one such a result is pushed, queued or handed on as long as
  the process lives; a record whose save said false has no result, and the code has no way
  back to it); and `Settles` (without faults), `ResultLeaves`,
  `ShutsDown`.
- Run `radar_unconnected`: `FirstTaskSettles` is violated.  The poll uses
  `prepare_execute`, which does not connect; in `radar.cpp` nothing else has.

Two supported tasks let a batch hold one while another runs and let results queue; the third
is never picked up.  CHECK_DEADLOCK is FALSE because the process ends.  Fairness: both
threads run when they can; nobody owes a task, a fault or a restart.

What `Run` may end with is `Answer`: in `MCRadar` everything `Publisher` can return,
which is a failure (a task without a publisher), a success, or a name read where there is
none, after which the process goes on or ends.  Exceptions come with the faults.

### Publisher

A page is an ordered tree of nodes with a tag, numbered in document order, as gumbo
gives it.  `LocateChampionship` and `LocateClubs` are the two recursive searches, with the
result string that is passed by reference, the loop that always visits its first child and
breaks late, and the reads without a test (`Undefined`).  `GetNewChampionship` is
`pub/runner.cpp`: with a publisher it is always a success, with an empty name for a page
without a championship or one that could not be fetched.

Run `radar` compares both with the page itself (`PageSearched`, an invariant of the point
where a task is run), over all pages of up to five nodes, the least with two headings that have
a link each, or a team's link in a cell below a cell.  Where links start with a text, the
name is a link below a heading and empty only if there is none, and the clubs are links of
team cells, in order and once.  Where headings are not nested the name is that of the first
heading with a link, and where cells are not nested no team's link is missed.  Of two nested
headings, which one gives the name depends on what stands first in the outer one: a later
heading inside the first child overwrites a name already found.  The property promises
nothing about which; neither does anything in the repository.

### FootballStore

The tables are sets of rows.  A request is `event_action` in its statements that write or
decide: `NewChampionship`, `NewClub`, `NewSeason` and `NewSeasonClub` look up and send the
REPLACE (`Insert`), `Reload` is `table::reload`, `SaveRelated` and `ReloadRelated` put the
clubs of a season back one by one, the added one last, and `EndSave` answers; `Respond`
hands the answer on.  A season's REPLACE deletes its memberships, so there is a state
without them.  `Start` is `main()`, which saves its own club each time and does not look at
the result; `Crash` may come between any two statements.

`save()` returning false says little.  A REPLACE that a constraint forbids throws and has
changed nothing.  With the fault `fail` the database may throw instead of carrying the
REPLACE out, or after: `insert` catches every `SQLException` (mysql.cpp:423).  And `reload`
may find nothing.  In each case the answer is "no success", and in the last two the row is
written, and the memberships of a season are gone.  `failed` is history: the database has
failed the request that is being answered.  An exception in a SELECT is caught by nobody and
ends the process: that is `Crash`.

`Empty` is the empty string, which a client may send as a name or a year.  `table::start`
finds nothing for an empty first value and drops the condition on an empty second one
(mysql.cpp:294-303): a season without a year is any season of the championship, and a club
without a name is never found.  Whether an empty value may be stored is the schema's: a
column NOT NULL without a default refuses it (championship, year) under MySQL's strict mode,
its default since 5.7; `clubs.name` has a default.  One thread does all this.  Names that
MySQL's collation takes for equal (case, accents) are one name.

- Run `store`: `RowsConsistent`; `RowsKept` (championships and seasons keep row and id,
  though saving deletes and inserts them); `SaveConfined` (while a season is saved no other
  row differs from what the request found, and the season has no club it should not have: a
  save that is cut short, or rejected after it was carried out, can lose clubs of that one
  season and nothing else); and, unless the database has failed the request,
  `SuccessIsWhole` and `RejectedChangesNothing`.
- Run `store_masked`: `SuccessIsTrue` is violated: a club that could not be put back is
  masked by the next one that could.
- Run `store_club_again`: `MembershipKept` is violated: saving a known club again, as the
  server does with its own at every start, takes it out of all its seasons.  Saving a
  namesake of another country deletes the club outright, by the same statement.
- Run `store_championship_again`: `ChampionshipSavedAgain` is violated: a championship that has
  a season is referred to ON DELETE RESTRICT and cannot be replaced.

One championship with two seasons shows that saving one leaves the other alone; two clubs
and club ids up to 3 let a club be replaced by a namesake and two clubs be put back in
either order; one of two countries is unknown to the table `countries`.  `MaxId` bounds
AUTO_INCREMENT.

### MysqlTable

`pc` is where the server's thread is, `request` what it is busy with, `object` the
fields of the object it looks up and saves, `result` the rows `mysql::server` has still to
hand out, `ids` and `related` the two lists of `season::start_related`.  The constructors are
`FindChampionshipOfSeason`, `FindNamed`, `FindSeason`, `ListClubs`, `NextRow`, `LastRow`,
`LoadClub`, `Loaded`, `AddClub`; `table::save` is `Insert` or `InsertThrows` (carried out or
not), `Reload` (which may find nothing), and for a season `InsertRelated`, `ReloadRelated`
for each club and `EndSave`.  `Populated` is `populate()` with `table::set`, which ignores
empty values (`SetId`): `new_season_club` builds its season around an empty championship, and
the row keeps the one it has only because of that.  `Boot` is
main()'s own save, `Accept` a request from the inbox, `Respond` its answer.  Every SELECT
sets `result`, so whatever a loop has not read by then is gone.

- Run `statements`: `RowsAccounted` (rows to read, ids read and clubs constructed are
  together the season's clubs, each once) and `ImplementsStore` (the mapping lets a request
  happen when its REPLACE is sent, with the lookups before it, and shows the rest as it
  comes).

Bounds as for `store`: one championship, two seasons, the server's club and one without a
name, ids up to 3, so a season's two clubs are listed and put back in either order, a club
that is added may be there already, be new to the season, or not exist, and every value a
client can leave empty is left empty.  Both faults are possible at every statement: a
REPLACE that fails is caught, a SELECT that throws ends the process.  There is no liveness
here: the loops are over local lists that no statement changes.

### FootballServer

`link` is a client's TCP connection, `up` and `down` what travels on it, `accepted` is
`m_deqConnections` (which only grows, as in the code), `inbox` is `m_qMessagesIn`, and
`current` the request `on_message` is executing.  The io context's thread runs
`AcceptClient` (greet, keep, start to read) and `Deliver`; the main thread runs `Handle`
(pop the inbox, call `event_action`), `Save` (the steps of a save after its REPLACE),
`Respond`, and between messages `FindEmpty` and `FallAsleep`, `wait()` as in `Connection`;
each client runs `Connect`, `SendRequest`, `Receive` and, if it is in `Unreliable`,
`Break`.  `Crash` takes everything but the tables; `Start` comes after it.

- Run `server`: `RequestsFifo` (each client's requests are executed once and in order,
  stated as an implementation of `FifoChannel` per client), `RequestsAccounted` (what a
  client has sent is on its way, in the inbox or handled, even when the client is gone; and
  while its link is up each handled request has its reply, but for the one being prepared),
  `RepliesInOrder`, `AnswersHold`
  (an id that came with a success names its championship or season for good, whatever
  other clients, crashes, restarts and failures of the database do; a season asked for
  without a year is one of the championship's), and `Answered`: a request is answered while
  its client's link is up, whoever else goes or stays, except that it may wait while the main
  thread sleeps with the request in its inbox.  It waits for ever only if nobody sends
  anything more and no spurious wakeup comes.

A client that sends two requests and one that sends one and may go away, with six requests
to choose from: one makes the championship and its season, in either order, twice or not at
all; the other asks for a season without a year, which is or is not there, adds a club to
the season, saves the server's club again or only pings, with ids from the first one's
answers.  Both faults of `FootballStore` are possible at every statement.  `MaxId` is never
reached, so no request is cut off.  Fairness: the main thread, unless it is asleep, and the
io context for each connection that is up (asio serves every socket that is ready); a
client takes what arrives.  Nobody owes a spurious wakeup.  CHECK_DEADLOCK is FALSE because
clients have nothing more to say in the end.

## What is proved

With TLAPS, for any constants that satisfy the named assumptions (which only say what the
parameters are):

- **TsQueueProofs**: `TypeCorrect`, `PopIsSafe`, `LocksAreOrdered`,
  `QueueIsFifo` (`Spec => IsFifo`, for both kinds of consumer and any number of producers and
  pushes).  The inductive invariant is types, who holds which mutex, `PopSafe` and
  `pushed = popped \o items`: that a pop is safe rests on nobody but the consumer removing
  items, so it needs the `pc` of the consumer and not a lock.
- **ConnectionProofs**: `TypeCorrect`, `OneWriteAtATime`, `FrontIsWritten`,
  `StreamIsFramed`, `RepliesFollowRequests`, `NothingGoesMissing` (`NothingMissing`), and
  that each direction refines `FifoChannel` (`RequestsArriveInOrder`,
  `RepliesArriveInOrder`), for any number of requests and any faults.  The argument numbers
  things instead of concatenating them: an end's messages are numbered by their bodies, and
  the places of the byte stream after them (the header of message b is at 2b, its body
  at 2b + 1, the greeting, which has no body, at 1).  The inductive invariant then says for each
  direction that `sent`, what is posted, `out` and `got` are the runs of numbers due there
  (`HistoryInv`, `QueueInv`), that the write in progress is the front of `out` (`WriteInv`),
  and that the wire is the run of places from the one the reader is at to the one the writer
  is at (`StreamInv`, `ReadInv`).  Framing is then that the chunk in front of the reader is
  at its place.  An end that closes early only loses the rear of a run; nothing is claimed
  of a wire nobody can read any more. While neither end has closed the runs follow each
  other without a gap, and a message whose header is read and whose body is not is on the
  wire: nothing is missing.
- **FootballStoreProofs**: `TypeCorrect`, `TablesConsistent`, `ChampionshipsAndSeasonsKept`,
  `SavesAreConfined`, `SeasonAnswerIsTrue`, `RejectionIsHarmless`.  The inductive invariant
  adds two things to the consistency of the tables.  `IdsCounted`: AUTO_INCREMENT is ahead of
  every id, so a new row replaces nothing by its id.  `SaveInv`: while a season is saved, the
  memberships are those the request found, less some of its own clubs, plus the added one at
  most; and as long as the database has not failed the request exactly the clubs still to
  come are missing, and only the added one, which comes last, can be refused.  From this the
  answers follow: with an empty list and a result, the season is whole; without, it is as it
  was.  What is proved of answers is about requests the database has not failed; of the
  others `SavesAreConfined` is what remains true.
- **MysqlTableProofs**: `TypeCorrect`, `LoadingLosesNothing` (`RowsAccounted`) and
  `StatementsImplementStore` (`Spec => ImplementsStore`), for any rows and values and with
  any statement that fails, before or after it is carried out, or is cut off by a crash.
  Through the mapping the statements keep what `FootballStoreProofs` shows of the requests:
  consistent tables, rows that stay, saves that touch nothing else, and unless the database
  failed the request whole seasons and harmless rejections (`StatementsKeepPromises`).  The
  inductive invariant has two parts.  One is that of `FootballStoreProofs`, of the mapped
  variables: because every step is a step of `FootballStore` or shows nothing, it is kept
  for nothing, and gives the keys and counters.  The other, `ControlInv`, is what the thread
  has in hand at each place of its code: the object is the row it found, or what the
  constructor was given and no row has (`ObjectInv`), and the related clubs are the
  season's, each once, the added one last (`RelatedInv`).  That a REPLACE writes the row
  `FootballStore` chooses follows from the first, that the clubs are put back in an order it
  allows from the second.  The proof showed that the mapping's `Phase` had been written with
  overlapping cases, of which a CASE may choose any; its guards are disjoint now.
- **RadarProofs**: `TypeCorrect`, `RunAtMostOnce`, `ResultsAreRecorded`,
  `ResultsHandedOnOnce`, `StatusMovesForward`, `AbandonedStayAbandoned`
  (`AbandonedForGood`), `ResultsAreKept` (`ResultKept`), for any tasks, any number of
  restarts and any faults.  The inductive invariant says what the scheduler's place in its
  code means for the row of the task in hand (`TaskInv`: about to run it, the row is running
  and it has never been run; about to push, the row is finished and no result of it is on
  its way), that the tasks it has not come to are still new (`BatchInv`), that a new task
  has not been run (`RunsInv`) and that a task with a result on its way is finished
  (`ResultsInv`).  Runs are bounded because running is saved before the run and only new
  tasks are polled: neither a crash nor a save that says false leads back to new.  For the
  same reason what is abandoned stays so: it is in no batch and is not the task in hand.  A
  result is kept because a step moves it from the task in hand to the queue, and from the
  queue to what was sent or seen to be dropped (`AnnouncedStays`); and without a fault the
  save that records a task as finished is the one that goes on to push.
- **FootballServerProofs**: `TypeCorrect`, `RequestsAreHandledInOrder` (`RequestsFifo`),
  `RequestsAreAccountedFor`, `RepliesAreInOrder`, `AnswersAreTrue` (`AnswersHold`), and
  `ServerUsesStore`: with its clients, threads and connections the server behaves towards
  the tables as `FootballStore` does, so what is proved there holds here
  (`StorePromisesKept`).  The inductive invariant follows the requests of each client: `up`
  is the end of what was sent and `handled` its beginning (`SentInv`); the inbox can be
  numbered so that each client's messages have the numbers between, in order and without a
  gap (`InboxInv`), which makes the one in front the next of its client, and the numbering a
  bijection that counts them; what was received or is on its way has its place behind the
  greeting, and while the link is up the count is exact, less the reply being prepared
  (`ReplyInv`).  A success holds when it is prepared (`CurrentInv`) and afterwards because
  `FootballStoreProofs` shows that no step takes away the row of a championship or a season.
- **SequenceFacts**: what `Append`, `Tail` and concatenation do to the elements of a
  sequence, stated once for all of these.

Only model-checked: liveness (`WakeDrains`, `Answered`, `Settles`, `ResultLeaves`,
`ShutsDown`), which needs fairness; what the recursive searches of `Publisher`
compute (`PageSearched`), which needs induction over pages; and the properties the code does
not have.  Every safety property of the other passing runs is proved.  The steps between
the modules that use a part as something simpler (`FootballServer` takes a direction of a
connection as the channel that `Connection` is proved to be while it is up) are arguments
of this text, not theorems.

## What is not modelled, and why

- Vendored code: `util/json.hpp`, `util/toml.hpp` and `plog/` are 46 of the repository's 49
  thousand lines of C++.  They are libraries, as are asio, cpr, gumbo and the MySQL
  connector; what the program relies on in them is part of the actions that call them.
- Operations nobody calls: `push_front`, `pop_back`, `back`, `clear` of the queue, the
  `scramble` handshake, `message_client`, `message_all_clients`, `table::update`, the
  transactions of `mysql::server`.
- Operations only tests call: `remove()`, `remove_club`, the server's `stop()`, copies and
  moves of objects.  (`club`'s move assignment leaves the fields of its base class behind; a
  `remove()` after a `remove_club` would meet that.)
- Two threads on one `mysql::srv`: its `std::scoped_lock(server_mutex)` declares a variable
  and locks nothing, but each of the two programs has one database thread.
- Two radars on one database: each would run the tasks the other has just found.
- How many prepared statements the database allows: none is ever deleted, and when the
  limit is reached every statement throws, which is modelled as a fault.
- A client that hears nothing: neither end has a timeout or sends a request again.
- Data: a name with a quote, which `insert` does not escape (mysql.cpp:508), breaks its
  statement: that is the fault `fail`, but of a value and not by chance; and the name
  `NULL`, which is written as a null.  The bytes of a message (one value is pushed and one
  popped, by ends built from the same header), lengths of names (`task_result.hpp:38` copies
  them without a bound), `std::stoi` of ids beyond 2^31.
- Lifetime of connection objects: handlers capture `this`, and `m_deqConnections`, which
  never shrinks, keeps the object alive.
- The replies `listen` pops and prints; nothing depends on them.
- `game`, `goal`, `player`, `referee`, `score`, `stadium`, `team`, `manager`: structs
  nothing uses.  Configuration (`util/`) and logging.

## Plan

In this order; those marked done are in this directory.

1. done: `TsQueue`, `Connection`, `Radar`, `FootballStore` and `FootballServer` with their
   runs; proofs of `TsQueue`, `Radar` and `FootballStore`.
2. done: `MysqlTable` below `FootballStore`, and `Publisher` beside `Radar`.
3. done: proofs of `Connection`, `MysqlTable` and `FootballServer`.
4. done: where a message, a request or a result is between its sender and its receiver
   (`NothingMissing`, `RequestsAccounted`, `ResultKept`), the safety half of `Answered`;
   what a fault leaves behind (`AbandonedForGood`); and what `FootballStoreProofs` says of
   answers, restated of `MysqlTable`'s statements and of `FootballServer`.
5. done: what the code may do and the modules left out: the lost wakeup in `Connection` and
   `FootballServer`, a `save()` that is false of a row it has written in `Radar`,
   `FootballStore` and `MysqlTable`, and the values a client may leave empty.
