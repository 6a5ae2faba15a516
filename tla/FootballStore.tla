--------------------------- MODULE FootballStore ---------------------------
(***************************************************************************)
(* The football server's database handlers: event_action on the thread     *)
(* that runs football.cpp's main loop, the mysql::table objects it makes   *)
(* (championship, club, season, club_season), and the tables of            *)
(* football.sql.  A table stays when the server dies.                      *)
(*                                                                         *)
(* mysql::table::save stores a row with REPLACE INTO: every row with the   *)
(* same id or the same unique key is deleted, and what refers to it is     *)
(* deleted too (ON DELETE CASCADE) or stops the statement (RESTRICT), then *)
(* the row is inserted.  It then reads the row back (reload), and a season *)
(* saves its clubs one by one (save_related).  Each statement commits by   *)
(* itself.  A request is one action up to its REPLACE, and one more for    *)
(* each statement after it.  A value a client leaves empty is Empty: no    *)
(* lookup is made by it and no field is set to it.  Names that MySQL's     *)
(* collation takes for equal are one name here.                            *)
(***************************************************************************)
EXTENDS Naturals, FiniteSets

CONSTANTS ChampionshipName, ClubName, Year, Country, \* what clients may send
          Empty,        \* the empty string, which may be a name or a year
          KnownCountry, \* the rows of table countries
          HomeClub, HomeCountry, \* the club main() saves before it serves
          Faults,       \* "crash": the process may die; "fail": a REPLACE may throw,
                        \* carried out or not, and a reload may find nothing
          MaxId         \* bound on AUTO_INCREMENT

ASSUME StoreAssumption ==
  /\ KnownCountry \subseteq Country
  /\ HomeClub \in ClubName \ {Empty}
  /\ HomeCountry \in Country
  /\ Empty \notin Country
  /\ Faults \subseteq {"crash", "fail"}
  /\ MaxId \in Nat \ {0}

VARIABLES
  championships, clubs, seasons, clubs_seasons, \* the tables
  counter,  \* the last AUTO_INCREMENT id of each table
  phase,    \* where the server is
  save,     \* the table::save in progress, from its REPLACE on
  failed,   \* history: has the database failed the request that is being answered?
  reply     \* the response being returned

tables == <<championships, clubs, seasons, clubs_seasons, counter>>
vars == <<championships, clubs, seasons, clubs_seasons, counter, phase, save, failed, reply>>

\* All the rows there are.
Rows == [championships |-> championships, clubs |-> clubs, seasons |-> seasons,
         clubs_seasons |-> clubs_seasons]

Id == 1 .. MaxId
NoId == 0 \* id_int() of an object without id

Championship == [id : Id, name : ChampionshipName \ {Empty}, country : KnownCountry]
Club == [id : Id, name : ClubName, country : Country]
Season == [id : Id, championship : Id, year : Year \ {Empty}]
Membership == [season : Id, club : Id]

Response == [id : Id \cup {NoId}, success : BOOLEAN]
NoResponse == [id |-> NoId, success |-> FALSE]

\* table, row: what was written; id: id_int() of the object; todo: the clubs
\* save_related has not come to; added: the one add_club put at the end of _clubs;
\* result: what save() returns if nothing more goes wrong.  For the properties,
\* before: the rows when the request came.
NoRows == [championships |-> {}, clubs |-> {}, seasons |-> {}, clubs_seasons |-> {}]
NoSave == [table |-> "none", row |-> NoId, id |-> NoId, todo |-> {}, added |-> NoId,
           result |-> FALSE, before |-> NoRows]

TableSave ==
  [table : {"none", "championships", "clubs", "seasons"},
   row : Id \cup {NoId}, id : Id \cup {NoId}, todo : SUBSET Id, added : Id \cup {NoId},
   result : BOOLEAN,
   before : [championships : SUBSET Championship, clubs : SUBSET Club,
             seasons : SUBSET Season, clubs_seasons : SUBSET Membership]]

Init ==
  /\ championships = {} /\ clubs = {} /\ seasons = {} /\ clubs_seasons = {}
  /\ counter = [championships |-> 0, clubs |-> 0, seasons |-> 0]
  /\ phase = "down"
  /\ save = NoSave
  /\ failed = FALSE
  /\ reply = NoResponse

-----------------------------------------------------------------------------
(* Mutants: plausible slips of the definitions below. *)

\* populate() forgets the id it was given.
StoredIdForgotten(found, table) == counter[table] + 1

\* clubs_seasons without its foreign key on clubs.
ReplaceClubNoCascade(row) ==
  /\ clubs' = {c \in clubs : c.id # row.id /\ c.name # row.name} \cup {row}
  /\ clubs_seasons' = clubs_seasons

\* start_related not called: the season starts without its clubs.
SeasonClubsEmpty(season) == {}

\* start_related's SELECT without its condition.
SeasonClubsOfAll(season) == {m.club : m \in clubs_seasons}

\* add_club puts the new club in front: a later club hides its failure.
NextClubsAddedFirst == IF save.added \in save.todo THEN {save.added} ELSE save.todo

\* save() keeps the list of the season it has saved.
EndSaveKeeps ==
  /\ phase = "related"
  /\ save.todo = {}
  /\ phase' = "replying"
  /\ reply' = [id |-> save.id, success |-> save.result]
  /\ UNCHANGED <<tables, save, failed>>

-----------------------------------------------------------------------------
(* mysql::table *)

\* The id of the row save() writes: the one the constructor found, or a new one.
StoredId(found, table) ==
  IF found = {} THEN counter[table] + 1 ELSE (CHOOSE r \in found : TRUE).id

\* LAST_INSERT_ID moves on when the row is new.
Count(table, id) ==
  counter' = [counter EXCEPT ![table] = IF id > @ THEN id ELSE @]

CanFail == "fail" \in Faults

Answer(id, success) ==
  /\ phase' = "replying"
  /\ reply' = [id |-> id, success |-> success]
  /\ save' = NoSave

\* insert(): `Write' is the REPLACE and what it does to the tables, `begun' the save
\* that goes on with reload().  A constraint may forbid the REPLACE.  The database
\* may throw instead of carrying it out, or after: insert() catches that, save() is
\* false, and the object has the id its constructor found.
Insert(allowed, Write, begun, id) ==
  \/ /\ allowed
     /\ Write
     /\ \/ phase' = "reload" /\ save' = begun /\ UNCHANGED <<failed, reply>>
        \/ CanFail /\ Answer(id, FALSE) /\ failed' = TRUE
  \/ /\ ~ allowed \/ CanFail
     /\ UNCHANGED tables
     /\ Answer(id, FALSE)
     /\ failed' = allowed

\* REPLACE INTO clubs.  The memberships of every row it deletes go with it.
ReplaceClub(row) ==
  LET gone == {c \in clubs : c.id = row.id \/ c.name = row.name} IN
    /\ clubs' = (clubs \ gone) \cup {row}
    /\ clubs_seasons' = {m \in clubs_seasons : \A c \in gone : m.club # c.id}

\* table::start: an empty first value finds nothing, an empty second one is no
\* condition.  A championship is looked up by its name alone, a club by name and
\* country, a season by championship and year; of several rows it takes any.  An id
\* is made from a number and is never empty.
First(value, field) == value # Empty /\ field = value
Second(value, field) == value = Empty \/ field = value

ChampionshipsFound(name) == {c \in championships : First(name, c.name)}
ClubsFound(name, country) ==
  {c \in clubs : First(name, c.name) /\ Second(country, c.country)}
SeasonsFound(championship, year) ==
  {s \in seasons : s.championship = championship /\ Second(year, s.year)}
SeasonsWithId(id) == {s \in seasons : s.id = id}

\* The row of a club_season: both its fields are its key.
ClubSeason(club, season) == [season |-> season, club |-> club]

\* The REPLACE of club{name, country}.save().
SaveClub(name, country, id) ==
  /\ id \in Id
  /\ ReplaceClub([id |-> id, name |-> name, country |-> country])
  /\ Count("clubs", id)
  /\ UNCHANGED <<championships, seasons>>

\* The clubs start_related loads.
SeasonClubs(season) == {m.club : m \in {r \in clubs_seasons : r.season = season}}

\* The clubs save_related may save next: those loaded, in the table's order,
\* then the one that was added.
NextClubs == IF save.todo = {save.added} THEN save.todo ELSE save.todo \ {save.added}

-----------------------------------------------------------------------------
(* The server's process *)

\* main() saves its club whatever it finds, and starts to serve.
Start ==
  LET id == StoredId(ClubsFound(HomeClub, HomeCountry), "clubs") IN
    /\ phase = "down"
    /\ phase' = "waiting"
    /\ \/ SaveClub(HomeClub, HomeCountry, id)
       \/ CanFail /\ UNCHANGED tables
    /\ UNCHANGED <<save, failed, reply>>

\* The process dies, for instance by an exception nobody catches.
Crash ==
  /\ "crash" \in Faults
  /\ phase # "down"
  /\ phase' = "down"
  /\ save' = NoSave
  /\ failed' = FALSE
  /\ reply' = NoResponse
  /\ UNCHANGED tables

\* on_message gives the response to connection::send.
Respond ==
  /\ phase = "replying"
  /\ phase' = "waiting"
  /\ failed' = FALSE
  /\ reply' = NoResponse
  /\ UNCHANGED <<tables, save>>

-----------------------------------------------------------------------------
(* The requests *)

Begun(table, row, id, todo, added) ==
  [table |-> table, row |-> row, id |-> id, todo |-> todo, added |-> added,
   result |-> TRUE, before |-> Rows]

\* A championship that is found takes its country from the table; a new one needs
\* a name and a known country.  REPLACE fails when a season refers to the row it
\* would delete.
NewChampionship(name, country) ==
  LET found == ChampionshipsFound(name)
      id == StoredId(found, "championships")
      known == IF found = {} THEN NoId ELSE id
      row == [id |-> id, name |-> name,
              country |-> IF found = {} THEN country ELSE (CHOOSE c \in found : TRUE).country]
      referred == \E s \in seasons : s.championship \in {c.id : c \in found}
      allowed == name # Empty /\ row.country \in KnownCountry /\ ~ referred
  IN
    /\ phase = "waiting"
    /\ Insert(allowed,
              /\ id \in Id
              /\ championships' = (championships \ found) \cup {row}
              /\ Count("championships", id)
              /\ UNCHANGED <<clubs, seasons, clubs_seasons>>,
              Begun("championships", id, known, {}, NoId), known)

\* A club is found by name and country; one of the same name and another country
\* is not found, and REPLACE deletes it.  A club may be stored without a name.
NewClub(name, country) ==
  LET found == ClubsFound(name, country)
      id == StoredId(found, "clubs")
      known == IF found = {} THEN NoId ELSE id
  IN
    /\ phase = "waiting"
    /\ Insert(TRUE, SaveClub(name, country, id), Begun("clubs", id, known, {}, NoId), known)

\* The season `row' with the clubs `related': REPLACE takes the season's memberships
\* with the old row, save_related is still to put them back.
InsertSeason(allowed, row, id, related, added) ==
  Insert(allowed,
         /\ row.id \in Id
         /\ seasons' = {s \in seasons : s.id # row.id} \cup {row}
         /\ clubs_seasons' = {m \in clubs_seasons : m.season # row.id}
         /\ Count("seasons", row.id)
         /\ UNCHANGED <<championships, clubs>>,
         Begun("seasons", row.id, id, related \cup ({added} \ {NoId}),
               IF added \in related THEN NoId ELSE added),
         id)

\* A season of the championship is saved with the clubs it has: the one of the year,
\* or any if no year is given, or else a new one, which needs a year.  The foreign
\* key refuses one of an unknown championship.
NewSeason(championship, year) ==
  LET found == SeasonsFound(championship, year)
      known == \E c \in championships : c.id = championship
      new == [id |-> StoredId({}, "seasons"), championship |-> championship, year |-> year]
  IN
    /\ phase = "waiting"
    /\ \/ found = {} /\ InsertSeason(known /\ year # Empty, new, NoId, {}, NoId)
       \/ \E s \in found : InsertSeason(known, s, s.id, SeasonClubs(s.id), NoId)

\* A season found by its id is saved with one club more.  The club need not
\* exist.  Without the season there is no championship to store: the REPLACE is
\* refused.
NewSeasonClub(season, club) ==
  /\ phase = "waiting"
  /\ \/ /\ SeasonsWithId(season) = {}
        /\ Answer(season, FALSE)
        /\ UNCHANGED <<tables, failed>>
     \/ \E s \in SeasonsWithId(season) : InsertSeason(TRUE, s, s.id, SeasonClubs(s.id), club)

\* reload() and reset(), which give the object its id.
Reload ==
  /\ phase = "reload"
  /\ \/ /\ phase' = "related"
        /\ save' = [save EXCEPT !.id = save.row]
        /\ UNCHANGED <<failed, reply>>
     \/ CanFail /\ Answer(save.id, FALSE) /\ failed' = TRUE
  /\ UNCHANGED tables

\* One turn of save_related's loop: club_season::save up to its REPLACE.  The foreign
\* key refuses an unknown club.  Only the result of the last turn is kept.
SaveRelated(club) ==
  LET known == \E c \in clubs : c.id = club
      Turn(next, result, fails) ==
        /\ phase' = next
        /\ save' = [save EXCEPT !.todo = @ \ {club}, !.result = result]
        /\ failed' = (failed \/ fails)
  IN
    /\ phase = "related"
    /\ club \in NextClubs
    /\ \/ /\ known
          /\ clubs_seasons' = clubs_seasons \cup {ClubSeason(club, save.row)}
          /\ Turn("reload_related", TRUE, FALSE) \/ (CanFail /\ Turn(phase, FALSE, TRUE))
       \/ /\ ~ known \/ CanFail
          /\ clubs_seasons' = clubs_seasons
          /\ Turn(phase, FALSE, known)
    /\ UNCHANGED <<championships, clubs, seasons, counter, reply>>

\* ... and its reload.
ReloadRelated ==
  /\ phase = "reload_related"
  /\ phase' = "related"
  /\ \/ UNCHANGED <<save, failed>>
     \/ CanFail /\ save' = [save EXCEPT !.result = FALSE] /\ failed' = TRUE
  /\ UNCHANGED <<tables, reply>>

\* save() returns what save_related returned.
EndSave ==
  /\ phase = "related"
  /\ save.todo = {}
  /\ Answer(save.id, save.result)
  /\ UNCHANGED <<tables, failed>>

Request ==
  \/ \E n \in ChampionshipName, c \in Country : NewChampionship(n, c)
  \/ \E n \in ClubName, c \in Country : NewClub(n, c)
  \/ \E i \in Id, y \in Year : NewSeason(i, y)
  \/ \E i, j \in Id : NewSeasonClub(i, j)

Next ==
  \/ Start \/ Crash \/ Respond
  \/ Request
  \/ Reload \/ (\E i \in Id : SaveRelated(i)) \/ ReloadRelated \/ EndSave

Spec == Init /\ [][Next]_vars

-----------------------------------------------------------------------------
(* Properties *)

\* Where the server is while table::save goes on after its REPLACE.
Saving == {"reload", "related", "reload_related"}

\* The type of every variable.  Something is being saved only while the server
\* does that, and only the request that is being answered can have been failed.
TypeOK ==
  /\ championships \subseteq Championship
  /\ clubs \subseteq Club
  /\ seasons \subseteq Season
  /\ clubs_seasons \subseteq Membership
  /\ counter \in [{"championships", "clubs", "seasons"} -> Id \cup {NoId}]
  /\ phase \in {"down", "waiting", "replying"} \cup Saving
  /\ save \in TableSave
  /\ failed \in BOOLEAN
  /\ reply \in Response
  /\ phase \notin Saving => save = NoSave
  /\ failed => phase \in Saving \cup {"replying"}

References ==
  /\ \A m \in clubs_seasons : /\ \E s \in seasons : s.id = m.season
                              /\ \E c \in clubs : c.id = m.club
  /\ \A s \in seasons : \E c \in championships : c.id = s.championship

KeysUnique ==
  /\ \A c, d \in championships : c.id = d.id \/ c.name = d.name => c = d
  /\ \A c, d \in clubs : c.id = d.id \/ c.name = d.name => c = d
  /\ \A s, t \in seasons :
       s.id = t.id \/ (s.championship = t.championship /\ s.year = t.year) => s = t

\* Whatever is replaced or fails, and wherever the server dies, the tables fit
\* together: every membership has its season and its club and every season its
\* championship, no id is used twice in a table and no name or season either.
RowsConsistent == References /\ KeysUnique

\* The memberships among `rows' of the season that is being saved.
OfSaved(rows) == {m \in rows : m.season = save.row}

\* While a season is being saved nothing else has changed, so that a crash in the
\* middle can only lose clubs of that season: no other row of any table differs from
\* what the request found, and the season has no club but those it had and the one
\* that was asked for.
SaveConfined ==
  save.table = "seasons" =>
    /\ championships = save.before.championships /\ clubs = save.before.clubs
    /\ \A s \in seasons \ save.before.seasons : s.id = save.row
    /\ clubs_seasons \ OfSaved(clubs_seasons)
         = save.before.clubs_seasons \ OfSaved(save.before.clubs_seasons)
    /\ \A m \in OfSaved(clubs_seasons) :
         m \in save.before.clubs_seasons \/ m.club = save.added

\* A championship or a season keeps its row, with the id its clients hold,
\* through every later request, failure and crash, though saving it deletes and
\* inserts it.
RowsKept == [][championships \subseteq championships' /\ seasons \subseteq seasons']_vars

Answered == phase # "replying" /\ phase' = "replying"

\* The season being saved has the clubs it had and the one that was asked for,
\* and no other season has changed.
SeasonIsWhole ==
  LET asked == {[season |-> save.row, club |-> save.added]} IN
    clubs_seasons' = save.before.clubs_seasons \cup (IF save.added = NoId THEN {} ELSE asked)

\* When the answer to a request for a season is success, the season is whole,
\* provided that the database did not fail the request.
SuccessIsWhole ==
  [][save.table = "seasons" /\ Answered /\ reply'.success /\ ~ failed' => SeasonIsWhole]_vars

\* When the answer is success the season is whole, whatever failed.
SuccessIsTrue ==
  [][save.table = "seasons" /\ Answered /\ reply'.success => SeasonIsWhole]_vars

\* A request answered without success, though the database did not fail it, has
\* changed nothing: by then the season's memberships have been deleted and put back.
RejectedChangesNothing ==
  [][Answered /\ ~ reply'.success /\ ~ failed' =>
       Rows' = IF phase = "waiting" THEN Rows ELSE save.before]_vars

\* A club stays in its season, except for the time that season is being saved.
MembershipKept ==
  [][\A m \in clubs_seasons \ clubs_seasons' :
       phase' = "reload" /\ save'.table = "seasons" /\ save'.row = m.season]_vars

\* A championship that is saved again is saved.
ChampionshipSavedAgain ==
  [][\A c \in championships, k \in Country :
       NewChampionship(c.name, k) => phase' # "replying" \/ reply'.success]_vars
=============================================================================
