----------------------------- MODULE MysqlTable -----------------------------
(***************************************************************************)
(* The requests of FootballStore one SQL statement at a time: the          *)
(* constructors that look an object up (table::start), the loop over a     *)
(* list of rows (start_list, next), and table::save with its REPLACE, its  *)
(* reload and save_related.  Every statement of the process goes through   *)
(* mysql::srv, which has one result: a statement throws away the rows of   *)
(* the one before, read or not.                                            *)
(*                                                                         *)
(* One thread runs all this (on_message and main()); it may die between    *)
(* any two statements, or in a SELECT that throws, which nobody catches.   *)
(* FootballStore takes a request up to its REPLACE as one step, lookups and *)
(* the loading of a season with it; ImplementsStore says that it may.      *)
(***************************************************************************)
EXTENDS Naturals, Sequences, FiniteSets, Functions

CONSTANTS ChampionshipName, ClubName, Year, Country, Empty, KnownCountry,
          HomeClub, HomeCountry, Faults, MaxId \* as in FootballStore

ASSUME MysqlAssumption ==
  /\ KnownCountry \subseteq Country
  /\ HomeClub \in ClubName \ {Empty}
  /\ HomeCountry \in Country
  /\ Empty \notin Country
  /\ Faults \subseteq {"crash", "fail"}
  /\ MaxId \in Nat \ {0}

VARIABLES
  championships, clubs, seasons, clubs_seasons, counter, \* the tables
  pc,      \* where the server's thread is
  request, \* what it is busy with
  object,  \* fields_values of the object that is looked up and saved
  result,  \* server::result: the clubs in the rows next() has still to reach
  ids,     \* the clubs start_related has read from it, still to be constructed
  related, \* _clubs of the season; while they are saved, those still to be saved
  saved,   \* save_related's result
  added, before, failed, \* history for the mapping: as in FootballStore's save
  reply    \* the response being returned

tables == <<championships, clubs, seasons, clubs_seasons, counter>>
hand == <<request, object, result, ids, related, saved>>
history == <<added, before, failed>>
vars == <<tables, pc, hand, history, reply>>

IsClub == request.op \in {"home", "club"}
IsSeason == request.op \in {"season", "season_club"}

\* The rows with the key of the object that is saved: `SELECT * ... WHERE' of
\* table::reload.
RowsOfObject ==
  CASE request.op = "championship" -> {c \in championships : c.name = object.name}
    [] IsClub -> {c \in clubs : c.name = object.name /\ c.country = object.country}
    [] IsSeason -> {s \in seasons :
                      s.championship = object.championship /\ s.year = object.year}

Row == CHOOSE r \in RowsOfObject : TRUE

-----------------------------------------------------------------------------
(* The mapping to FootballStore, where a request shows when its REPLACE is   *)
(* sent.  The server's own club is saved before FootballStore's serves.      *)

Phase ==
  IF request.op = "home"
  THEN IF pc \in {"reload", "related"} THEN "waiting" ELSE "down"
  ELSE IF pc \in {"down", "reload", "related", "reload_related", "replying"}
       THEN pc ELSE "waiting"

Remaining == IF pc = "reload_related" THEN Tail(related) ELSE related

TableOfObject ==
  CASE request.op = "championship" -> "championships"
    [] IsClub -> "clubs"
    [] IsSeason -> "seasons"

NoRows == [championships |-> {}, clubs |-> {}, seasons |-> {}, clubs_seasons |-> {}]

SaveProgress ==
  IF Phase \notin {"reload", "related", "reload_related"}
  THEN [table |-> "none", row |-> 0, id |-> 0, todo |-> {}, added |-> 0,
        result |-> FALSE, before |-> NoRows]
  ELSE
    [table |-> TableOfObject,
     row |-> IF pc = "reload" THEN Row.id ELSE object.id,
     id |-> object.id,
     todo |-> {Remaining[i].id : i \in DOMAIN Remaining},
     added |-> added,
     result |-> pc # "related" \/ saved,
     before |-> before]

Store == INSTANCE FootballStore WITH phase <- Phase, save <- SaveProgress

-----------------------------------------------------------------------------

Id == Store!Id
NoId == Store!NoId

NoRequest == [op |-> "none"]
Home == [op |-> "home", name |-> HomeClub, country |-> HomeCountry]
Request ==
  [op : {"championship"}, name : ChampionshipName, country : Country]
  \cup [op : {"club"}, name : ClubName, country : Country]
  \cup [op : {"season"}, championship : Id, year : Year]
  \cup [op : {"season_club"}, season : Id, club : Id]

NoObject == [id |-> NoId]

Init ==
  /\ championships = {} /\ clubs = {} /\ seasons = {} /\ clubs_seasons = {}
  /\ counter = [championships |-> 0, clubs |-> 0, seasons |-> 0]
  /\ pc = "down"
  /\ request = NoRequest
  /\ object = NoObject
  /\ result = <<>>
  /\ ids = <<>>
  /\ related = <<>>
  /\ saved = FALSE
  /\ added = NoId /\ before = NoRows
  /\ failed = FALSE
  /\ reply = Store!NoResponse

-----------------------------------------------------------------------------
(* Mutants: plausible slips of the definitions below. *)

\* start_related constructs each club as it reads its row: the constructor's
\* SELECT throws the other rows away.
NextRowConstructs ==
  /\ pc = "next"
  /\ result # <<>>
  /\ related' = Append(related, CHOOSE c \in clubs : c.id = Head(result))
  /\ result' = <<>>
  /\ UNCHANGED <<tables, pc, request, object, ids, saved, history, reply>>

\* table::set takes an empty value too.
SetAlways(old, id) == id

\* The object keeps the id it had when it was constructed.
ReloadForgets == object

\* The object outlives its request.
IdleKeepsObject ==
  /\ request' = NoRequest
  /\ object' = object
  /\ added' = NoId /\ before' = NoRows
  /\ result' = <<>> /\ ids' = <<>> /\ related' = <<>>
  /\ saved' = FALSE

-----------------------------------------------------------------------------
(* Requests come and go *)

\* The thread has no request, or there is no thread.
Idle ==
  /\ request' = NoRequest
  /\ object' = NoObject
  /\ result' = <<>> /\ ids' = <<>> /\ related' = <<>>
  /\ saved' = FALSE
  /\ added' = NoId /\ before' = NoRows

\* The request is answered; `fails' says whether the database has failed it just
\* now.  main() does not look at what its own save returns.
Return(id, success, fails) ==
  /\ Idle
  /\ IF request.op = "home"
       THEN pc' = "waiting" /\ UNCHANGED <<failed, reply>>
       ELSE /\ pc' = "replying"
            /\ reply' = [id |-> id, success |-> success]
            /\ failed' = (failed \/ fails)

\* main() saves its own club before it serves.
Boot ==
  /\ pc = "down"
  /\ pc' = "find"
  /\ request' = Home
  /\ UNCHANGED <<tables, object, result, ids, related, saved, history, reply>>

\* on_message calls event_action.  A new season's championship is looked up first.
Accept(r) ==
  /\ pc = "waiting"
  /\ pc' = IF r.op = "season" THEN "find_championship" ELSE "find"
  /\ request' = r
  /\ UNCHANGED <<tables, object, result, ids, related, saved, history, reply>>

Respond ==
  /\ pc = "replying"
  /\ pc' = "waiting"
  /\ failed' = FALSE
  /\ reply' = Store!NoResponse
  /\ UNCHANGED <<tables, hand, added, before>>

\* Killed, or ended by a SELECT that throws.
Crash ==
  /\ "crash" \in Faults
  /\ pc # "down"
  /\ pc' = "down"
  /\ failed' = FALSE
  /\ reply' = Store!NoResponse
  /\ Idle
  /\ UNCHANGED tables

-----------------------------------------------------------------------------
(* The constructors *)

\* table::start: one of the rows that are found, otherwise the object has what it
\* was asked by.
Start(found, fields) ==
  /\ IF found = {} THEN object' = fields ELSE object' \in found
  /\ result' = <<>>

\* championship{id} has the id it is given, whether it is found or not.
FindChampionshipOfSeason ==
  /\ pc = "find_championship"
  /\ pc' = "find"
  /\ result' = <<>>
  /\ UNCHANGED <<tables, request, object, ids, related, saved, history, reply>>

\* championship{name, country} and club{name, country}
FindNamed ==
  LET fields == [id |-> NoId, name |-> request.name, country |-> request.country]
      found == IF IsClub THEN Store!ClubsFound(request.name, request.country)
                         ELSE Store!ChampionshipsFound(request.name)
  IN
    /\ pc = "find" /\ ~ IsSeason
    /\ pc' = "replace"
    /\ Start(found, fields)
    /\ UNCHANGED <<tables, request, ids, related, saved, history, reply>>

\* season{championship, year} and season{id, championship}.  The clubs are loaded
\* for a season that is found.
FindSeason ==
  LET isNew == request.op = "season"
      fields == IF isNew
        THEN [id |-> NoId, championship |-> request.championship, year |-> request.year]
        ELSE [id |-> request.season, championship |-> NoId, year |-> Empty]
      found == IF isNew THEN Store!SeasonsFound(request.championship, request.year)
                        ELSE Store!SeasonsWithId(request.season)
  IN
    /\ pc = "find" /\ IsSeason
    /\ pc' = IF found # {} THEN "list" ELSE IF isNew THEN "replace" ELSE "find_club"
    /\ Start(found, fields)
    /\ UNCHANGED <<tables, request, ids, related, saved, history, reply>>

\* club_season{season}: start_list
ListClubs ==
  /\ pc = "list"
  /\ pc' = "next"
  /\ LET listed == Store!SeasonClubs(object.id) IN
       result' \in Injection(1 .. Cardinality(listed), listed)
  /\ UNCHANGED <<tables, request, object, ids, related, saved, history, reply>>

\* start_related's first loop: next() and get_value("club")
NextRow ==
  /\ pc = "next"
  /\ result # <<>>
  /\ ids' = Append(ids, Head(result))
  /\ result' = Tail(result)
  /\ UNCHANGED <<tables, pc, request, object, related, saved, history, reply>>

LastRow ==
  /\ pc = "next"
  /\ result = <<>>
  /\ pc' = "load"
  /\ UNCHANGED <<tables, hand, history, reply>>

\* club{id}: without a row the object has its id and nothing else.
ClubById(id) ==
  LET found == {c \in clubs : c.id = id} IN
    IF found = {} THEN [id |-> id, name |-> Empty, country |-> Empty]
                  ELSE CHOOSE c \in found : TRUE

\* Its second loop: each club is constructed by its id.
LoadClub ==
  /\ pc = "load"
  /\ ids # <<>>
  /\ related' = Append(related, ClubById(Head(ids)))
  /\ ids' = Tail(ids)
  /\ result' = <<>>
  /\ UNCHANGED <<tables, pc, request, object, saved, history, reply>>

Loaded ==
  /\ pc = "load"
  /\ ids = <<>>
  /\ pc' = IF request.op = "season_club" THEN "find_club" ELSE "replace"
  /\ UNCHANGED <<tables, hand, history, reply>>

\* club{id} and season::add_club, which compares names and countries.
AddClub ==
  LET club == ClubById(request.club)
      known == \E i \in DOMAIN related : /\ related[i].name = club.name
                                         /\ related[i].country = club.country
  IN
    /\ pc = "find_club"
    /\ pc' = "replace"
    /\ related' = IF known THEN related ELSE Append(related, club)
    /\ added' = IF known THEN NoId ELSE club.id
    /\ result' = <<>>
    /\ UNCHANGED <<tables, request, object, ids, saved, before, failed, reply>>

-----------------------------------------------------------------------------
(* table::save *)

\* table::set ignores an empty value: an id that is empty is NoId here.
SetId(old, id) == IF id = NoId THEN old ELSE id

\* populate(): what the object of the class holds goes into fields_values.  The
\* championship that new_season_club builds its season around is empty.
Populated ==
  IF IsSeason
  THEN [object EXCEPT !.championship =
          SetId(@, IF request.op = "season" THEN request.championship ELSE NoId)]
  ELSE object

\* The row REPLACE stores, with the id the database gives it, and those it deletes:
\* those with the same id or unique key.
RowOf(table) ==
  [Populated EXCEPT !.id = IF @ = NoId THEN counter[table] + 1 ELSE @]

ChampionshipsReplaced ==
  {c \in championships : c.id = Populated.id \/ c.name = Populated.name}
SeasonsReplaced ==
  {s \in seasons :
     \/ s.id = Populated.id
     \/ s.championship = Populated.championship /\ s.year = Populated.year}

\* No season may refer to a championship that is deleted; a championship needs a
\* name and a country that exists, a season a championship that exists and a year.
\* A club may be without a name: football.sql has a default for it.
Allowed ==
  CASE request.op = "championship" ->
         /\ Populated.name # Empty /\ Populated.country \in KnownCountry
         /\ \A c \in ChampionshipsReplaced, s \in seasons : s.championship # c.id
    [] IsClub -> TRUE
    [] IsSeason -> /\ \E c \in championships : c.id = Populated.championship
                   /\ Populated.year # Empty

ReplaceChampionship ==
  /\ request.op = "championship"
  /\ RowOf("championships").id \in Id
  /\ championships' = (championships \ ChampionshipsReplaced) \cup {RowOf("championships")}
  /\ Store!Count("championships", RowOf("championships").id)
  /\ UNCHANGED <<clubs, seasons, clubs_seasons>>

ReplaceClub ==
  /\ IsClub
  /\ RowOf("clubs").id \in Id
  /\ Store!ReplaceClub(RowOf("clubs"))
  /\ Store!Count("clubs", RowOf("clubs").id)
  /\ UNCHANGED <<championships, seasons>>

\* The memberships go with the row that is deleted.
ReplaceSeason ==
  /\ IsSeason
  /\ RowOf("seasons").id \in Id
  /\ seasons' = (seasons \ SeasonsReplaced) \cup {RowOf("seasons")}
  /\ clubs_seasons' = {m \in clubs_seasons : \A s \in SeasonsReplaced : m.season # s.id}
  /\ Store!Count("seasons", RowOf("seasons").id)
  /\ UNCHANGED <<championships, clubs>>

Replace == ReplaceChampionship \/ ReplaceClub \/ ReplaceSeason

CanFail == "fail" \in Faults

\* insert() says that it worked; reload() comes next.
Insert ==
  /\ pc = "replace"
  /\ Allowed
  /\ Replace
  /\ pc' = "reload"
  /\ object' = Populated
  /\ before' = Store!Rows
  /\ result' = <<>>
  /\ UNCHANGED <<request, ids, related, saved, added, failed, reply>>

\* insert() has caught an exception: the statement breaks a constraint, or the
\* database has thrown, and may have carried it out before.
InsertThrows ==
  /\ pc = "replace"
  /\ \/ CanFail /\ Allowed /\ Replace
     \/ (CanFail \/ ~ Allowed) /\ UNCHANGED tables
  /\ Return(object.id, FALSE, Allowed)

\* The object after reload() and reset().
Reloaded == Row

\* reload() may find nothing.
Reload ==
  /\ pc = "reload"
  /\ \/ /\ pc' = "related"
        /\ object' = Reloaded
        /\ saved' = TRUE
        /\ result' = <<>>
        /\ UNCHANGED <<request, ids, related, history, reply>>
     \/ CanFail /\ Return(object.id, FALSE, TRUE)
  /\ UNCHANGED tables

\* One turn of save_related's loop is over.
Turn(result_of_save, fails) ==
  /\ pc' = "related"
  /\ related' = Tail(related)
  /\ saved' = result_of_save
  /\ failed' = (failed \/ fails)

\* save_related: club_season{club.id(), _id}.save() up to its REPLACE.
InsertRelated ==
  LET club == Head(related).id
      known == \E c \in clubs : c.id = club
  IN
    /\ pc = "related" /\ related # <<>>
    /\ result' = <<>>
    /\ \/ /\ known
          /\ clubs_seasons' = clubs_seasons \cup {Store!ClubSeason(club, object.id)}
          /\ \/ pc' = "reload_related" /\ UNCHANGED <<related, saved, failed>>
             \/ CanFail /\ Turn(FALSE, TRUE)
       \/ /\ ~ known \/ CanFail
          /\ Turn(FALSE, known)
          /\ UNCHANGED clubs_seasons
    /\ UNCHANGED <<championships, clubs, seasons, counter, request, object, ids, added,
                   before, reply>>

\* ... and its reload.
ReloadRelated ==
  /\ pc = "reload_related"
  /\ Turn(TRUE, FALSE) \/ (CanFail /\ Turn(FALSE, TRUE))
  /\ result' = <<>>
  /\ UNCHANGED <<tables, request, object, ids, added, before, reply>>

\* Only a season has had something to save after it.
EndSave ==
  /\ pc = "related" /\ related = <<>>
  /\ Return(object.id, saved, FALSE)
  /\ UNCHANGED tables

Next ==
  \/ Boot \/ Crash \/ (\E r \in Request : Accept(r)) \/ Respond
  \/ FindChampionshipOfSeason \/ FindNamed \/ FindSeason
  \/ ListClubs \/ NextRow \/ LastRow \/ LoadClub \/ Loaded \/ AddClub
  \/ Insert \/ InsertThrows \/ Reload
  \/ InsertRelated \/ ReloadRelated \/ EndSave

Spec == Init /\ [][Next]_vars

-----------------------------------------------------------------------------
(* Properties *)

Field == ChampionshipName \cup ClubName \cup {Empty}

\* The type of every variable.  A thread without a request has no object in hand.
TypeOK ==
  /\ championships \subseteq Store!Championship
  /\ clubs \subseteq Store!Club
  /\ seasons \subseteq Store!Season
  /\ clubs_seasons \subseteq Store!Membership
  /\ counter \in [{"championships", "clubs", "seasons"} -> Id \cup {NoId}]
  /\ pc \in {"down", "waiting", "find_championship", "find", "list", "next", "load",
             "find_club", "replace", "reload", "related", "reload_related", "replying"}
  /\ request \in Request \cup {Home, NoRequest}
  /\ object \in [id : Id \cup {NoId}, name : Field, country : Country]
               \cup [id : Id \cup {NoId}, championship : Id \cup {NoId},
                     year : Year \cup {Empty}]
               \cup {NoObject}
  /\ result \in Seq(Id)
  /\ ids \in Seq(Id)
  /\ related \in Seq([id : Id, name : Field, country : Country \cup {Empty}])
  /\ saved \in BOOLEAN
  /\ added \in Id \cup {NoId}
  /\ before \in [championships : SUBSET Store!Championship, clubs : SUBSET Store!Club,
                seasons : SUBSET Store!Season,
                clubs_seasons : SUBSET Store!Membership]
  /\ failed \in BOOLEAN
  /\ reply \in Store!Response
  /\ request = NoRequest <=> pc \in {"down", "waiting", "replying"}
  /\ request = NoRequest => object = NoObject /\ added = NoId /\ before = NoRows

\* While a season's clubs are loaded, the rows that next() has still to reach, the
\* ids read from them and the clubs constructed from those are together the
\* season's clubs, each once: no constructor's SELECT takes rows away that the
\* loop still wants.
RowsAccounted ==
  pc \in {"next", "load"} =>
    LET all == result \o ids \o [i \in DOMAIN related |-> related[i].id] IN
      /\ Range(all) = Store!SeasonClubs(object.id)
      /\ IsInjective(all)

\* Statement by statement, the server does what FootballStore says it does
\* request by request: same rows, same ids and same answers, whatever fails and
\* wherever it dies.
ImplementsStore == Store!Spec
=============================================================================
