------------------------ MODULE FootballStoreProofs ------------------------
(* Proofs about FootballStore: its types, the consistency of the tables, that *)
(* rows keep their ids, and that a season's answers are true.                 *)
EXTENDS FootballStore, TLAPS

\* AUTO_INCREMENT is ahead of every id in its table.
IdsCounted ==
  /\ \A c \in championships : c.id <= counter["championships"]
  /\ \A c \in clubs : c.id <= counter["clubs"]
  /\ \A s \in seasons : s.id <= counter["seasons"]

\* The membership a season_club request asks for.
Asked == [season |-> save.row, club |-> save.added]

\* While a season is saved its own memberships are somewhere between deleted and
\* put back; nothing else differs from what the request found.
SaveBounds ==
  /\ championships = save.before.championships /\ clubs = save.before.clubs
  /\ \A s \in seasons \ save.before.seasons : s.id = save.row
  /\ save.added # NoId => seasons = save.before.seasons
  /\ \E s \in seasons : s.id = save.row
  /\ Asked \notin save.before.clubs_seasons
  /\ \A m \in save.before.clubs_seasons : \E c \in clubs : c.id = m.club
  /\ \A m \in save.before.clubs_seasons : m.season # save.row => m \in clubs_seasons
  /\ \A m \in clubs_seasons : m \in save.before.clubs_seasons \/ m = Asked
  /\ \A i \in save.todo : [season |-> save.row, club |-> i] \in save.before.clubs_seasons
                          \/ i = save.added

\* As long as nothing has failed, what is not there yet is still to come, the
\* added club comes last, and only it can be refused.
SaveProgress ==
  /\ \A m \in save.before.clubs_seasons : m.season = save.row =>
       m.club \in save.todo \/ m \in clubs_seasons
  /\ save.added # NoId => save.added \in save.todo \/ save.todo = {}
  /\ save.added \in save.todo => save.result /\ Asked \notin clubs_seasons
  /\ ~ save.result => /\ save.added # NoId /\ save.todo = {}
                      /\ Asked \notin clubs_seasons
  /\ save.result /\ save.todo = {} /\ save.added # NoId => Asked \in clubs_seasons

SeasonInv == SaveBounds /\ (~ failed => SaveProgress)

\* A championship or a club has nothing to save after its row.
PlainInv == save.todo = {} /\ save.result /\ phase # "reload_related"

SaveInv ==
  phase \in Saving =>
    /\ save.table # "none"
    /\ phase # "reload" => save.id = save.row
    /\ IF save.table = "seasons" THEN SeasonInv ELSE PlainInv

TableTypes ==
  /\ championships \subseteq Championship
  /\ clubs \subseteq Club
  /\ seasons \subseteq Season
  /\ clubs_seasons \subseteq Membership
  /\ counter \in [{"championships", "clubs", "seasons"} -> Id \cup {NoId}]

\* What holds of the tables alone.
TablesInv == TableTypes /\ References /\ KeysUnique /\ IdsCounted

ControlTypes ==
  /\ phase \in {"down", "waiting", "replying"} \cup Saving
  /\ save \in TableSave
  /\ failed \in BOOLEAN
  /\ reply \in Response
  /\ phase \notin Saving => save = NoSave
  /\ failed => phase \in Saving \cup {"replying"}

\* The inductive invariant.
IInv == TablesInv /\ ControlTypes /\ SaveInv

-----------------------------------------------------------------------------
(* The row a save writes *)

\* A row that was found keeps its id.
LEMMA StoredIdFound ==
  ASSUME NEW found, NEW table, found # {}
  PROVE  \E r \in found : StoredId(found, table) = r.id
BY Zenon DEF StoredId

\* A row that was not found gets an id above all others.
LEMMA StoredIdNew ==
  ASSUME NEW table
  PROVE  StoredId({}, table) = counter[table] + 1
BY DEF StoredId

\* Counting an id keeps the counter ahead of it and of every id before it.
LEMMA Counted ==
  ASSUME TableTypes, NEW table \in {"championships", "clubs", "seasons"},
         NEW id \in Id, Count(table, id)
  PROVE  /\ counter' \in [{"championships", "clubs", "seasons"} -> Id \cup {NoId}]
         /\ id <= counter'[table]
         /\ counter[table] <= counter'[table]
         /\ \A t \in {"championships", "clubs", "seasons"} :
              t # table => counter'[t] = counter[t]
BY StoreAssumption DEF TableTypes, Count, Id, NoId

\* The rest of the state has no part in what holds of the tables.
LEMMA TablesUnchanged ==
  ASSUME TablesInv, UNCHANGED tables
  PROVE  TablesInv'
BY DEF tables, TablesInv, TableTypes, References, KeysUnique, IdsCounted

\* Replacing a club keeps the tables in order: the id is that of the club found,
\* or new, and the memberships of the rows that go are gone with them.
LEMMA SaveClubTables ==
  ASSUME TablesInv, NEW name \in ClubName, NEW country \in Country,
         SaveClub(name, country, StoredId(ClubsFound(name, country), "clubs"))
  PROVE  TablesInv'
<1> DEFINE found == ClubsFound(name, country)
           id == StoredId(found, "clubs")
           row == [id |-> id, name |-> name, country |-> country]
           gone == {c \in clubs : c.id = row.id \/ c.name = row.name}
<1>1. /\ id \in Id
      /\ clubs' = (clubs \ gone) \cup {row}
      /\ clubs_seasons' = {m \in clubs_seasons : \A c \in gone : m.club # c.id}
      /\ Count("clubs", id)
      /\ championships' = championships /\ seasons' = seasons
  BY DEF SaveClub, ReplaceClub
<1>2. TableTypes /\ References /\ KeysUnique /\ IdsCounted
  BY DEF TablesInv
<1>3. row \in Club
  BY <1>1 DEF Club
<1> HIDE DEF id
<1>4. TableTypes'
  BY <1>1, <1>2, <1>3, Counted DEF TableTypes
<1>5. References'
  BY <1>1, <1>2 DEF References
<1>6. KeysUnique'
  BY <1>1, <1>2 DEF KeysUnique
<1>7. IdsCounted'
  <2>1. \A c \in clubs : c.id \in Id
    BY <1>2 DEF TableTypes, Club
  <2>2. /\ id <= counter'["clubs"]
        /\ counter["clubs"] <= counter'["clubs"]
        /\ counter'["championships"] = counter["championships"]
        /\ counter'["seasons"] = counter["seasons"]
        /\ counter["clubs"] \in Nat /\ counter'["clubs"] \in Nat
    BY <1>1, <1>2, Counted, StoreAssumption DEF TableTypes, Id, NoId
  <2> QED
    BY <1>1, <1>2, <2>1, <2>2, StoreAssumption DEF IdsCounted, Id
<1> QED
  BY <1>4, <1>5, <1>6, <1>7 DEF TablesInv

\* Replacing a championship: no season refers to the row that goes.
LEMMA NewChampionshipTables ==
  ASSUME TablesInv, NEW name \in ChampionshipName, NEW country \in Country,
         NewChampionship(name, country)
  PROVE  TablesInv'
<1> DEFINE found == ChampionshipsFound(name)
           id == StoredId(found, "championships")
           row == [id |-> id, name |-> name,
                   country |-> IF found = {} THEN country
                               ELSE (CHOOSE c \in found : TRUE).country]
<1> USE DEF ChampionshipsFound, First
<1>1. CASE UNCHANGED tables
  BY <1>1 DEF tables, TablesInv, TableTypes, References, KeysUnique, IdsCounted
<1>2. CASE /\ name # Empty /\ row.country \in KnownCountry
           /\ ~ \E s \in seasons : s.championship \in {c.id : c \in found}
           /\ id \in Id
           /\ championships' = (championships \ found) \cup {row}
           /\ Count("championships", id)
           /\ UNCHANGED <<clubs, seasons, clubs_seasons>>
  <2>1. TableTypes /\ References /\ KeysUnique /\ IdsCounted
    BY DEF TablesInv
  <2>2. row \in Championship
    BY <1>2 DEF Championship
  <2>3. row.id = id /\ row.name = name
    OBVIOUS
  <2>4. \A c \in championships : c.id = id => c \in found
    <3>1. CASE found = {}
      <4>1. id = counter["championships"] + 1
        BY <3>1, StoredIdNew
      <4>2. counter["championships"] \in Nat
        BY <2>1, StoreAssumption DEF TableTypes, Id, NoId
      <4>3. \A c \in championships : c.id \in Nat /\ c.id <= counter["championships"]
        BY <2>1, StoreAssumption DEF TableTypes, IdsCounted, Championship, Id
      <4> HIDE DEF id
      <4> QED
        BY <4>1, <4>2, <4>3
    <3>2. CASE found # {}
      BY <3>2, <2>1, StoredIdFound DEF KeysUnique
    <3> QED
      BY <3>1, <3>2
  <2> HIDE DEF id, row
  <2>5. TableTypes'
    BY <1>2, <2>1, <2>2, Counted DEF TableTypes
  <2>6. References'
    BY <1>2, <2>1 DEF References
  <2>7. KeysUnique'
    BY <1>2, <2>1, <2>3, <2>4 DEF KeysUnique
  <2>8. IdsCounted'
    <3>1. \A c \in championships : c.id \in Id
      BY <2>1 DEF TableTypes, Championship
    <3>2. /\ id <= counter'["championships"]
          /\ counter["championships"] <= counter'["championships"]
          /\ counter'["clubs"] = counter["clubs"]
          /\ counter'["seasons"] = counter["seasons"]
          /\ counter["championships"] \in Nat /\ counter'["championships"] \in Nat
      BY <1>2, <2>1, Counted, StoreAssumption DEF TableTypes, Id, NoId
    <3> QED
      BY <1>2, <2>1, <2>3, <3>1, <3>2, StoreAssumption DEF IdsCounted, Id
  <2> QED
    BY <2>5, <2>6, <2>7, <2>8 DEF TablesInv
<1> QED
  BY <1>1, <1>2 DEF NewChampionship, Insert, tables

\* The REPLACE of a season, for a row with an existing championship that meets none
\* but its own row.
LEMMA InsertSeasonTables ==
  ASSUME TablesInv, NEW row \in Season, NEW allowed, NEW id, NEW related, NEW added,
         allowed => \E c \in championships : c.id = row.championship,
         \A s \in seasons :
           s.championship = row.championship /\ s.year = row.year => s.id = row.id,
         InsertSeason(allowed, row, id, related, added)
  PROVE  TablesInv'
<1>0. CASE UNCHANGED tables
  BY <1>0, TablesUnchanged
<1> SUFFICES ASSUME ~ UNCHANGED tables PROVE TablesInv'
  BY <1>0
<1>1. /\ seasons' = {s \in seasons : s.id # row.id} \cup {row}
      /\ clubs_seasons' = {m \in clubs_seasons : m.season # row.id}
      /\ Count("seasons", row.id)
      /\ championships' = championships /\ clubs' = clubs
      /\ row.id \in Id
      /\ allowed
  BY DEF InsertSeason, Insert, Season
<1>2. TableTypes /\ References /\ KeysUnique /\ IdsCounted
  BY DEF TablesInv
<1>3. TableTypes'
  BY <1>1, <1>2, Counted DEF TableTypes
<1>4. References'
  BY <1>1, <1>2 DEF References
<1>5. KeysUnique'
  BY <1>1, <1>2 DEF KeysUnique
<1>6. IdsCounted'
  <2>1. \A s \in seasons : s.id \in Id
    BY <1>2 DEF TableTypes, Season
  <2>2. /\ row.id <= counter'["seasons"]
        /\ counter["seasons"] <= counter'["seasons"]
        /\ counter'["championships"] = counter["championships"]
        /\ counter'["clubs"] = counter["clubs"]
        /\ counter["seasons"] \in Nat /\ counter'["seasons"] \in Nat
    BY <1>1, <1>2, Counted, StoreAssumption DEF TableTypes, Id, NoId
  <2> QED
    BY <1>1, <1>2, <2>1, <2>2, StoreAssumption DEF IdsCounted, Id
<1> QED
  BY <1>3, <1>4, <1>5, <1>6 DEF TablesInv

-----------------------------------------------------------------------------
(* Saves *)

\* What a save is when its REPLACE has been done.
LEMMA BegunTyped ==
  ASSUME TablesInv, NEW table \in {"championships", "clubs", "seasons"},
         NEW row \in Id, NEW id \in Id \cup {NoId}, NEW todo \in SUBSET Id,
         NEW added \in Id \cup {NoId}
  PROVE  Begun(table, row, id, todo, added) \in TableSave
<1>1. Rows \in [championships : SUBSET Championship, clubs : SUBSET Club,
                seasons : SUBSET Season, clubs_seasons : SUBSET Membership]
  BY DEF Rows, TablesInv, TableTypes
<1> QED
  BY <1>1 DEF TableSave, Begun

\* Outside of a save the tables are all there is to show.
LEMMA NotSaving ==
  ASSUME TablesInv', save' = NoSave, reply' \in Response,
         phase' \in {"down", "waiting", "replying"},
         failed' \in BOOLEAN, failed' => phase' = "replying"
  PROVE  IInv'
<1>1. NoSave \in TableSave
  BY DEF NoSave, NoRows, TableSave
<1>2. ControlTypes'
  BY <1>1 DEF ControlTypes, Saving
<1> QED
  BY <1>2 DEF IInv, SaveInv, Saving

\* An answer ends the request, whether it was failed or not.
LEMMA AnswerInv ==
  ASSUME TablesInv', NEW id \in Id \cup {NoId}, NEW success \in BOOLEAN,
         Answer(id, success), failed' \in BOOLEAN
  PROVE  IInv'
<1>1. reply' \in Response /\ phase' = "replying" /\ save' = NoSave
  BY DEF Answer, Response
<1> QED
  BY <1>1, NotSaving

\* So does a championship's or a club's row that was written: nothing comes after it.
LEMMA PlainBegun ==
  ASSUME IInv, TablesInv', NEW table \in {"championships", "clubs"},
         NEW row \in Id, NEW id \in Id \cup {NoId},
         phase' = "reload", save' = Begun(table, row, id, {}, NoId), UNCHANGED <<failed, reply>>
  PROVE  IInv'
<1>1. /\ save' \in TableSave
      /\ save'.table = table /\ save'.todo = {} /\ save'.result
  BY BegunTyped DEF IInv, Begun
<1>2. ControlTypes'
  BY <1>1 DEF IInv, ControlTypes, Saving
<1>3. SaveInv'
  BY <1>1 DEF SaveInv, PlainInv
<1> QED
  BY <1>2, <1>3 DEF IInv

\* The season's row is written, and all its clubs are still to be put back.
LEMMA SeasonBegun ==
  ASSUME IInv, TablesInv', NEW row \in Season, NEW id \in Id \cup {NoId},
         NEW added \in Id \cup {NoId}, NEW related, related = SeasonClubs(row.id),
         added # NoId => row \in seasons,
         ~ failed,
         seasons' = {s \in seasons : s.id # row.id} \cup {row},
         clubs_seasons' = {m \in clubs_seasons : m.season # row.id},
         UNCHANGED <<championships, clubs, failed, reply>>,
         phase' = "reload",
         save' = Begun("seasons", row.id, id, related \cup ({added} \ {NoId}),
                       IF added \in related THEN NoId ELSE added)
  PROVE  IInv'
<1> DEFINE new == IF added \in related THEN NoId ELSE added
<1>1. TablesInv /\ ControlTypes
  BY DEF IInv
<1>2. /\ clubs_seasons \subseteq Membership
      /\ \A i \in related : i \in Id /\ [season |-> row.id, club |-> i] \in clubs_seasons
      /\ \A m \in clubs_seasons : m.season = row.id => m.club \in related
      /\ NoId \notin Id
      /\ row.id \in Id
  BY <1>1, StoreAssumption
     DEF TablesInv, TableTypes, SeasonClubs, Membership, Season, Id, NoId
<1>4. save'.before = Rows
  BY DEF Begun
<1>5. /\ save'.table = "seasons" /\ save'.row = row.id
      /\ save'.todo = related \cup ({added} \ {NoId})
      /\ save'.added = new
      /\ save'.result = TRUE
      /\ save'.before.championships = championships
      /\ save'.before.clubs = clubs
      /\ save'.before.seasons = seasons
      /\ save'.before.clubs_seasons = clubs_seasons
  BY <1>4 DEF Begun, Rows
<1> HIDE DEF new
<1>6. new \in Id \cup {NoId} /\ new # NoId => added # NoId
  BY DEF new
<1>7. save' \in TableSave
  <2>1. /\ related \cup ({added} \ {NoId}) \in SUBSET Id
        /\ (IF added \in related THEN NoId ELSE added) \in Id \cup {NoId}
    BY <1>2
  <2> QED
    BY <1>1, <1>2, <2>1, BegunTyped
<1>8. ControlTypes'
  BY <1>1, <1>7 DEF ControlTypes, Saving
<1>9. Asked' = [season |-> row.id, club |-> new]
  BY <1>5 DEF Asked
<1>10. [season |-> row.id, club |-> new] \notin clubs_seasons
  BY <1>2 DEF Membership, new
<1>11. row \in seasons => seasons' = seasons
  BY <1>1 DEF TablesInv, KeysUnique
<1>12. SaveBounds'
  <2>1. /\ (championships = save.before.championships /\ clubs = save.before.clubs)'
        /\ (\A s \in seasons \ save.before.seasons : s.id = save.row)'
        /\ (save.added # NoId => seasons = save.before.seasons)'
        /\ (\E s \in seasons : s.id = save.row)'
    BY <1>5, <1>6, <1>11 DEF new
  <2>2. /\ (\A m \in save.before.clubs_seasons : \E c \in clubs : c.id = m.club)'
        /\ (\A m \in save.before.clubs_seasons : m.season # save.row => m \in clubs_seasons)'
    BY <1>1, <1>5 DEF TablesInv, References
  <2>3. /\ (Asked \notin save.before.clubs_seasons)'
        /\ (\A m \in clubs_seasons : m \in save.before.clubs_seasons \/ m = Asked)'
    BY <1>5, <1>9, <1>10
  <2>4. (\A i \in save.todo :
           [season |-> save.row, club |-> i] \in save.before.clubs_seasons \/ i = save.added)'
    BY <1>2, <1>5 DEF new
  <2> QED
    BY <2>1, <2>2, <2>3, <2>4 DEF SaveBounds
<1>13. SaveProgress'
  BY <1>2, <1>5, <1>9, <1>10 DEF SaveProgress, new
<1> QED
  BY <1>5, <1>8, <1>12, <1>13 DEF IInv, SaveInv, SeasonInv

\* Either way the season of an existing championship leaves things in order.
LEMMA InsertSeasonInv ==
  ASSUME IInv, phase = "waiting", NEW row \in Season, NEW id \in Id \cup {NoId},
         NEW added \in Id \cup {NoId}, NEW related, related = SeasonClubs(row.id),
         NEW allowed \in BOOLEAN,
         allowed => \E c \in championships : c.id = row.championship,
         \A s \in seasons :
           s.championship = row.championship /\ s.year = row.year => s.id = row.id,
         added # NoId => row \in seasons,
         InsertSeason(allowed, row, id, related, added)
  PROVE  IInv'
<1>1. TablesInv /\ ~ failed
  BY DEF IInv, ControlTypes, Saving
<1>2. TablesInv'
  BY <1>1, InsertSeasonTables
<1>3. CASE Answer(id, FALSE) /\ failed' \in BOOLEAN
  BY <1>2, <1>3, AnswerInv
<1>4. CASE ~ (Answer(id, FALSE) /\ failed' \in BOOLEAN)
  <2>1. /\ seasons' = {s \in seasons : s.id # row.id} \cup {row}
        /\ clubs_seasons' = {m \in clubs_seasons : m.season # row.id}
        /\ UNCHANGED <<championships, clubs, failed, reply>>
        /\ phase' = "reload"
        /\ save' = Begun("seasons", row.id, id, related \cup ({added} \ {NoId}),
                         IF added \in related THEN NoId ELSE added)
    BY <1>4 DEF InsertSeason, Insert
  <2> QED
    BY <1>1, <1>2, <2>1, SeasonBegun
<1> QED
  BY <1>3, <1>4

\* reload() gives the object its id, or the request fails.
LEMMA ReloadInv ==
  ASSUME IInv, Reload
  PROVE  IInv'
<1>1. TablesInv /\ TablesInv' /\ save \in TableSave /\ failed \in BOOLEAN /\ phase = "reload"
  BY TablesUnchanged DEF IInv, ControlTypes, Reload
<1>2. CASE Answer(save.id, FALSE) /\ failed' = TRUE
  <2>1. save.id \in Id \cup {NoId}
    BY <1>1 DEF TableSave
  <2> QED
    BY <1>1, <1>2, <2>1, AnswerInv
<1>3. CASE phase' = "related" /\ save' = [save EXCEPT !.id = save.row]
           /\ UNCHANGED <<failed, reply>>
  <2>1. /\ save' \in TableSave
        /\ save'.table = save.table /\ save'.row = save.row /\ save'.id = save.row
        /\ save'.todo = save.todo /\ save'.added = save.added
        /\ save'.result = save.result /\ save'.before = save.before
    BY <1>1, <1>3 DEF TableSave
  <2>2. UNCHANGED <<championships, clubs, seasons, clubs_seasons>>
    BY DEF Reload, tables
  <2>3. ControlTypes'
    BY <1>3, <2>1 DEF IInv, ControlTypes, Saving
  <2>4. SaveBounds => SaveBounds'
    BY <2>1, <2>2 DEF SaveBounds, Asked
  <2>5. SaveProgress => SaveProgress'
    BY <2>1, <2>2 DEF SaveProgress, Asked
  <2>6. SaveInv'
    BY <1>1, <1>3, <2>1, <2>4, <2>5 DEF IInv, SaveInv, SeasonInv, PlainInv, Saving
  <2> QED
    BY <1>1, <2>3, <2>6 DEF IInv
<1> QED
  BY <1>2, <1>3 DEF Reload

\* The reload of a membership leaves things as they are, or fails.
LEMMA ReloadRelatedInv ==
  ASSUME IInv, ReloadRelated
  PROVE  IInv'
<1>1. /\ TablesInv' /\ save \in TableSave /\ failed \in BOOLEAN
      /\ phase = "reload_related" /\ phase' = "related"
      /\ save.table = "seasons" /\ save.id = save.row /\ SeasonInv
  BY TablesUnchanged DEF IInv, ControlTypes, SaveInv, PlainInv, Saving, ReloadRelated
<1>2. /\ save' \in TableSave /\ failed' \in BOOLEAN
      /\ save'.table = save.table /\ save'.row = save.row /\ save'.id = save.id
      /\ save'.todo = save.todo /\ save'.added = save.added /\ save'.before = save.before
      /\ ~ failed' => ~ failed /\ save'.result = save.result
  BY <1>1 DEF TableSave, ReloadRelated
<1>3. UNCHANGED <<championships, clubs, seasons, clubs_seasons, reply>>
  BY DEF ReloadRelated, tables
<1>4. ControlTypes'
  BY <1>1, <1>2, <1>3 DEF IInv, ControlTypes, Saving
<1>5. SaveBounds'
  BY <1>1, <1>2, <1>3 DEF SeasonInv, SaveBounds, Asked
<1>6. ~ failed' => SaveProgress'
  BY <1>1, <1>2, <1>3 DEF SeasonInv, SaveProgress, Asked
<1> QED
  BY <1>1, <1>2, <1>4, <1>5, <1>6 DEF IInv, SaveInv, SeasonInv

\* One club more, put back, added, or refused.
LEMMA SaveRelatedInv ==
  ASSUME IInv, NEW club \in Id, SaveRelated(club)
  PROVE  IInv'
<1> DEFINE m0 == [season |-> save.row, club |-> club]
           known == \E c \in clubs : c.id = club
<1>1. /\ TablesInv /\ ControlTypes
      /\ phase = "related"
      /\ club \in NextClubs
      /\ UNCHANGED <<championships, clubs, seasons, counter, reply>>
  BY DEF IInv, SaveRelated
<1>2. /\ save \in TableSave
      /\ save.todo \subseteq Id
      /\ club \in save.todo
      /\ club = save.added => save.todo = {club}
      /\ NoId \notin Id
  BY <1>1, StoreAssumption DEF ControlTypes, TableSave, NextClubs, Id, NoId
<1>3. /\ save.table = "seasons" /\ save.id = save.row
      /\ SaveBounds
      /\ ~ failed => SaveProgress
  BY <1>1, <1>2 DEF IInv, SaveInv, PlainInv, SeasonInv, Saving
<1>4. /\ save.row \in Id
      /\ save.before.clubs_seasons \subseteq Membership
  BY <1>1, <1>2, <1>3 DEF SaveBounds, TablesInv, TableTypes, Season, TableSave
<1>5. PICK written \in BOOLEAN, ok \in BOOLEAN :
        /\ written => known
        /\ ok => written
        /\ clubs_seasons' = IF written THEN clubs_seasons \cup {m0} ELSE clubs_seasons
        /\ save' = [save EXCEPT !.todo = @ \ {club}, !.result = ok]
        /\ failed' = (failed \/ (known /\ ~ ok))
        /\ phase' \in {"related", "reload_related"}
  <2>1. CASE /\ known /\ clubs_seasons' = clubs_seasons \cup {m0}
             /\ save' = [save EXCEPT !.todo = @ \ {club}, !.result = TRUE]
             /\ failed' = (failed \/ FALSE) /\ phase' = "reload_related"
    BY <2>1
  <2>2. CASE /\ known /\ clubs_seasons' = clubs_seasons \cup {m0}
             /\ save' = [save EXCEPT !.todo = @ \ {club}, !.result = FALSE]
             /\ failed' = (failed \/ TRUE) /\ phase' = phase
    BY <1>1, <2>2
  <2>3. CASE /\ clubs_seasons' = clubs_seasons
             /\ save' = [save EXCEPT !.todo = @ \ {club}, !.result = FALSE]
             /\ failed' = (failed \/ known) /\ phase' = phase
    BY <1>1, <2>3
  <2> QED
    BY <2>1, <2>2, <2>3 DEF SaveRelated, ClubSeason
<1>6. /\ save' \in TableSave
      /\ save'.table = save.table /\ save'.row = save.row /\ save'.id = save.id
      /\ save'.added = save.added
      /\ save'.before = save.before
      /\ save'.todo = save.todo \ {club}
      /\ save'.result = ok
  BY <1>2, <1>5 DEF TableSave
<1>7. /\ m0 \in Membership
      /\ m0.season = save.row /\ m0.club = club
      /\ Asked' = Asked
      /\ Asked.season = save.row /\ Asked.club = save.added
      /\ club = save.added => m0 = Asked
      /\ club # save.added => m0 \in save.before.clubs_seasons /\ m0 # Asked
  BY <1>2, <1>3, <1>4, <1>6 DEF Membership, Asked, SaveBounds
<1>8. TablesInv'
  BY <1>1, <1>2, <1>3, <1>5, <1>7
     DEF TablesInv, TableTypes, References, KeysUnique, IdsCounted, SaveBounds
<1>9. ControlTypes'
  BY <1>1, <1>5, <1>6 DEF ControlTypes, Saving
<1>10. SaveBounds'
  BY <1>1, <1>3, <1>5, <1>6, <1>7 DEF SaveBounds
<1>11. ~ failed' => SaveProgress'
  <2> SUFFICES ASSUME ~ failed' PROVE SaveProgress'
    OBVIOUS
  <2>1. SaveProgress /\ (known => ok) /\ written = ok
    BY <1>3, <1>5
  <2>2. ~ ok => club = save.added
    BY <1>3, <1>5, <1>7, <2>1 DEF SaveBounds
  <2>3. \A m \in save.before.clubs_seasons : m.season = save.row /\ m.club = club => m = m0
    BY <1>4, <1>7 DEF Membership
  <2>4. \A m \in save.before.clubs_seasons : m.season = save.row =>
          m.club \in save'.todo \/ m \in clubs_seasons'
    BY <1>3, <1>5, <1>6, <1>7, <2>1, <2>2, <2>3 DEF SaveProgress, SaveBounds
  <2>5. /\ save.added # NoId => save.added \in save'.todo \/ save'.todo = {}
        /\ save.added \in save'.todo => ok /\ Asked \notin clubs_seasons'
    BY <1>2, <1>5, <1>6, <1>7, <2>1, <2>2 DEF SaveProgress
  <2>6. /\ ~ ok => /\ save.added # NoId /\ save'.todo = {}
                   /\ Asked \notin clubs_seasons'
        /\ ok /\ save'.todo = {} /\ save.added # NoId => Asked \in clubs_seasons'
    BY <1>2, <1>5, <1>6, <1>7, <2>1, <2>2 DEF SaveProgress
  <2> QED
    BY <1>6, <1>7, <2>4, <2>5, <2>6 DEF SaveProgress
<1> QED
  BY <1>3, <1>5, <1>6, <1>8, <1>9, <1>10, <1>11 DEF IInv, SaveInv, SeasonInv, Saving

-----------------------------------------------------------------------------
(* Every step *)

LEMMA InitIInv == Init => IInv
<1> SUFFICES ASSUME Init PROVE IInv
  OBVIOUS
<1>1. TablesInv
  BY StoreAssumption DEF Init, TablesInv, TableTypes, References, KeysUnique,
                         IdsCounted, Id, NoId
<1>2. NoSave \in TableSave /\ NoResponse \in Response
  BY DEF NoSave, NoRows, TableSave, NoResponse, Response
<1>3. ControlTypes
  BY <1>2 DEF Init, ControlTypes, Saving
<1> QED
  BY <1>1, <1>3 DEF IInv, SaveInv, Init, Saving

\* The ids a lookup or an insertion of a club gives have the type of an answer.
LEMMA ClubAnswer ==
  ASSUME TablesInv, NEW name, NEW country
  PROVE  (IF ClubsFound(name, country) = {} THEN NoId
          ELSE StoredId(ClubsFound(name, country), "clubs")) \in Id \cup {NoId}
BY StoredIdFound DEF TablesInv, TableTypes, Club, ClubsFound

LEMMA StartInv ==
  ASSUME IInv, Start
  PROVE  IInv'
<1>1. TablesInv /\ save = NoSave /\ reply \in Response /\ failed \in BOOLEAN /\ ~ failed
  BY DEF IInv, ControlTypes, Start, Saving
<1>2. TablesInv'
  <2>1. HomeClub \in ClubName /\ HomeCountry \in Country
    BY StoreAssumption
  <2>2. CASE SaveClub(HomeClub, HomeCountry,
                      StoredId(ClubsFound(HomeClub, HomeCountry), "clubs"))
    BY <1>1, <2>1, <2>2, SaveClubTables
  <2>3. CASE UNCHANGED tables
    BY <1>1, <2>3, TablesUnchanged
  <2> QED
    BY <2>2, <2>3 DEF Start
<1>3. /\ phase' = "waiting" /\ save' = NoSave /\ reply' \in Response
      /\ failed' \in BOOLEAN /\ ~ failed'
  BY <1>1 DEF Start
<1> QED
  BY <1>2, <1>3, NotSaving

LEMMA NewClubInv ==
  ASSUME IInv, NEW name \in ClubName, NEW country \in Country, NewClub(name, country)
  PROVE  IInv'
<1> DEFINE id == StoredId(ClubsFound(name, country), "clubs")
           known == IF ClubsFound(name, country) = {} THEN NoId ELSE id
<1>1. TablesInv
  BY DEF IInv
<1>2. TablesInv'
  BY <1>1, SaveClubTables, TablesUnchanged DEF NewClub, Insert
<1>3. known \in Id \cup {NoId}
  BY <1>1, ClubAnswer
<1>4. CASE Answer(known, FALSE) /\ failed' = TRUE
  BY <1>2, <1>3, <1>4, AnswerInv
<1>5. CASE /\ SaveClub(name, country, id)
           /\ phase' = "reload" /\ save' = Begun("clubs", id, known, {}, NoId)
           /\ UNCHANGED <<failed, reply>>
  <2>1. id \in Id
    BY <1>5 DEF SaveClub
  <2> HIDE DEF id, known
  <2> QED
    BY <1>2, <1>3, <1>5, <2>1, PlainBegun
<1> QED
  BY <1>4, <1>5 DEF NewClub, Insert

LEMMA NewChampionshipInv ==
  ASSUME IInv, NEW name \in ChampionshipName, NEW country \in Country,
         NewChampionship(name, country)
  PROVE  IInv'
<1> DEFINE found == ChampionshipsFound(name)
           id == StoredId(found, "championships")
           known == IF found = {} THEN NoId ELSE id
<1>1. TablesInv
  BY DEF IInv
<1>2. TablesInv'
  BY <1>1, NewChampionshipTables
<1>3. known \in Id \cup {NoId}
  BY <1>1, StoredIdFound DEF TablesInv, TableTypes, Championship, ChampionshipsFound
<1>4. CASE Answer(known, FALSE) /\ failed' \in BOOLEAN
  BY <1>2, <1>3, <1>4, AnswerInv
<1>5. CASE /\ id \in Id
           /\ phase' = "reload" /\ save' = Begun("championships", id, known, {}, NoId)
           /\ UNCHANGED <<failed, reply>>
  <2> HIDE DEF id, known
  <2> QED
    BY <1>2, <1>3, <1>5, PlainBegun
<1> QED
  BY <1>4, <1>5 DEF NewChampionship, Insert

\* The new season has no clubs, and a season that is found has those it has.
LEMMA NewSeasonInv ==
  ASSUME IInv, NEW championship \in Id, NEW year \in Year, NewSeason(championship, year)
  PROVE  IInv'
<1> DEFINE found == SeasonsFound(championship, year)
           known == \E c \in championships : c.id = championship
           new == [id |-> StoredId({}, "seasons"), championship |-> championship,
                   year |-> year]
<1>1. /\ TablesInv /\ phase = "waiting"
      /\ counter["seasons"] \in Nat /\ NoId \notin Id
  BY StoreAssumption DEF IInv, TablesInv, TableTypes, Id, NoId, NewSeason
<1>2. CASE found = {} /\ InsertSeason(known /\ year # Empty, new, NoId, {}, NoId)
  <2>1. CASE UNCHANGED tables /\ Answer(NoId, FALSE) /\ failed' \in BOOLEAN
    BY <1>1, <2>1, AnswerInv, TablesUnchanged
  <2>2. CASE ~ (UNCHANGED tables /\ Answer(NoId, FALSE) /\ failed' \in BOOLEAN)
    <3>1. known /\ year # Empty /\ new.id \in Id
      BY <1>2, <2>2 DEF InsertSeason, Insert
    <3>2. /\ new \in Season
          /\ new.id = counter["seasons"] + 1
          /\ new.championship = championship /\ new.year = year
      BY <3>1, StoredIdNew DEF Season
    <3>3. \A s \in seasons : s.id # new.id
      BY <1>1, <3>2, StoreAssumption DEF TablesInv, TableTypes, IdsCounted, Season, Id
    <3>4. SeasonClubs(new.id) = {}
      BY <1>1, <3>3 DEF SeasonClubs, TablesInv, References
    <3>5. \A s \in seasons : ~ (s.championship = championship /\ s.year = year)
      BY <1>2, <1>1, StoreAssumption DEF SeasonsFound, First, Second, TablesInv, TableTypes
    <3> HIDE DEF new
    <3> QED
      BY <1>1, <1>2, <3>1, <3>2, <3>4, <3>5, InsertSeasonInv
  <2> QED
    BY <2>1, <2>2
<1>3. CASE \E s \in found : InsertSeason(known, s, s.id, SeasonClubs(s.id), NoId)
  <2>1. PICK s \in found : InsertSeason(known, s, s.id, SeasonClubs(s.id), NoId)
    BY <1>3
  <2>2. /\ s \in Season /\ s \in seasons /\ s.id \in Id
        /\ s.championship = championship
        /\ \A t \in seasons : t.championship = s.championship /\ t.year = s.year => t.id = s.id
    BY <1>1, <2>1
       DEF SeasonsFound, First, TablesInv, TableTypes, KeysUnique, Season
  <2>3. known \in BOOLEAN
    OBVIOUS
  <2> QED
    BY <1>1, <2>1, <2>2, <2>3, InsertSeasonInv
<1> QED
  BY <1>2, <1>3 DEF NewSeason

LEMMA NewSeasonClubInv ==
  ASSUME IInv, NEW season \in Id, NEW club \in Id, NewSeasonClub(season, club)
  PROVE  IInv'
<1>1. TablesInv /\ phase = "waiting" /\ failed \in BOOLEAN
  BY DEF IInv, ControlTypes, NewSeasonClub
<1>2. CASE \E s \in SeasonsWithId(season) :
             InsertSeason(TRUE, s, s.id, SeasonClubs(s.id), club)
  <2>1. PICK s \in SeasonsWithId(season) :
               InsertSeason(TRUE, s, s.id, SeasonClubs(s.id), club)
    BY <1>2
  <2>2. /\ s \in Season /\ s \in seasons /\ s.id \in Id
        /\ \E c \in championships : c.id = s.championship
        /\ \A t \in seasons : t.championship = s.championship /\ t.year = s.year => t.id = s.id
    BY <1>1, <2>1
       DEF SeasonsWithId, TablesInv, TableTypes, References, KeysUnique, Season
  <2> QED
    BY <1>1, <2>1, <2>2, InsertSeasonInv
<1>3. CASE Answer(season, FALSE) /\ UNCHANGED <<tables, failed>>
  BY <1>1, <1>3, AnswerInv, TablesUnchanged
<1> QED
  BY <1>2, <1>3 DEF NewSeasonClub

LEMMA QuietInv ==
  ASSUME IInv, Crash \/ Respond \/ EndSave
  PROVE  IInv'
<1>1. TablesInv'
  BY TablesUnchanged DEF IInv, Crash, Respond, EndSave
<1>2. NoResponse \in Response
  BY DEF NoResponse, Response
<1>3. CASE Crash
  BY <1>1, <1>2, <1>3, NotSaving DEF Crash
<1>4. CASE Respond
  BY <1>1, <1>2, <1>4, NotSaving DEF Respond, IInv, ControlTypes, Saving
<1>5. CASE EndSave
  <2>1. save.id \in Id \cup {NoId} /\ save.result \in BOOLEAN /\ failed \in BOOLEAN
    BY DEF IInv, ControlTypes, TableSave
  <2> QED
    BY <1>1, <1>5, <2>1, AnswerInv DEF EndSave
<1> QED
  BY <1>3, <1>4, <1>5

LEMMA NextIInv == IInv /\ [Next]_vars => IInv'
<1> SUFFICES ASSUME IInv, [Next]_vars PROVE IInv'
  OBVIOUS
<1>1. CASE Request
  BY <1>1, NewChampionshipInv, NewClubInv, NewSeasonInv, NewSeasonClubInv DEF Request
<1>2. CASE Start \/ Crash \/ Respond \/ EndSave
  BY <1>2, StartInv, QuietInv
<1>3. CASE Reload \/ (\E i \in Id : SaveRelated(i)) \/ ReloadRelated
  BY <1>3, ReloadInv, SaveRelatedInv, ReloadRelatedInv
<1>4. CASE UNCHANGED vars
  BY <1>4 DEF vars, IInv, TablesInv, TableTypes, References, KeysUnique, IdsCounted,
              ControlTypes, SaveInv, SeasonInv, PlainInv, SaveBounds, SaveProgress, Asked
<1> QED
  BY <1>1, <1>2, <1>3, <1>4 DEF Next

\* IInv is an invariant of the server, for any names, any number of rows and
\* whatever fails.
THEOREM Invariance == Spec => []IInv
BY InitIInv, NextIInv, PTL DEF Spec

\* Types hold throughout.
THEOREM TypeCorrect == Spec => []TypeOK
<1>1. IInv => TypeOK
  BY DEF IInv, TablesInv, TableTypes, ControlTypes, TypeOK
<1> QED
  BY <1>1, Invariance, PTL

\* REPLACE, its cascades and a crash between two statements leave the tables
\* consistent.
THEOREM TablesConsistent == Spec => []RowsConsistent
<1>1. IInv => RowsConsistent
  BY DEF IInv, TablesInv, RowsConsistent
<1> QED
  BY <1>1, Invariance, PTL

-----------------------------------------------------------------------------
(* What a step may not do *)

\* What a save may not touch it has not touched.
THEOREM SavesAreConfined == Spec => []SaveConfined
<1>1. ASSUME IInv, save.table = "seasons"
      PROVE  SaveBounds
  BY <1>1 DEF IInv, ControlTypes, SaveInv, SeasonInv, NoSave
<1>2. ASSUME SaveBounds
      PROVE  /\ championships = save.before.championships /\ clubs = save.before.clubs
             /\ \A s \in seasons \ save.before.seasons : s.id = save.row
             /\ clubs_seasons \ OfSaved(clubs_seasons)
                  = save.before.clubs_seasons \ OfSaved(save.before.clubs_seasons)
             /\ \A m \in OfSaved(clubs_seasons) :
                  m \in save.before.clubs_seasons \/ m.club = save.added
  BY <1>2 DEF SaveBounds, Asked, OfSaved
<1>3. IInv => SaveConfined
  BY <1>1, <1>2 DEF SaveConfined
<1> QED
  BY <1>3, Invariance, PTL

\* The championship that is replaced is replaced by itself.
LEMMA NewChampionshipKeeps ==
  ASSUME IInv, NEW name \in ChampionshipName, NEW country \in Country,
         NewChampionship(name, country)
  PROVE  championships \subseteq championships'
<1> DEFINE found == ChampionshipsFound(name)
           id == StoredId(found, "championships")
           row == [id |-> id, name |-> name,
                   country |-> IF found = {} THEN country
                               ELSE (CHOOSE c \in found : TRUE).country]
<1> USE DEF ChampionshipsFound, First
<1>1. \/ championships' = (championships \ found) \cup {row}
      \/ championships' = championships
  BY DEF NewChampionship, Insert, tables
<1>2. ASSUME NEW c \in found PROVE c = row
  <2>1. \A d \in found : d = c
    BY DEF IInv, TablesInv, KeysUnique
  <2>2. id = c.id
    BY <2>1, StoredIdFound
  <2>3. (CHOOSE d \in found : TRUE) = c
    BY <2>1, Zenon
  <2>4. c \in Championship /\ c.name = name
    BY DEF IInv, TablesInv, TableTypes
  <2>5. row = [id |-> c.id, name |-> c.name, country |-> c.country]
    BY <2>2, <2>3, <2>4
  <2> QED
    BY <2>4, <2>5 DEF Championship
<1> HIDE DEF row
<1> QED
  BY <1>1, <1>2

\* So is the season, and the new one has a new id.
LEMMA InsertSeasonKeeps ==
  ASSUME IInv, NEW allowed, NEW row, NEW id, NEW related, NEW added,
         \A s \in seasons : s.id = row.id => s = row,
         InsertSeason(allowed, row, id, related, added)
  PROVE  championships' = championships /\ seasons \subseteq seasons'
BY DEF InsertSeason, Insert, tables

LEMMA NewSeasonKeeps ==
  ASSUME IInv, NEW championship \in Id, NEW year \in Year, NewSeason(championship, year)
  PROVE  championships' = championships /\ seasons \subseteq seasons'
<1> DEFINE found == SeasonsFound(championship, year)
           known == \E c \in championships : c.id = championship
           new == [id |-> StoredId({}, "seasons"), championship |-> championship,
                   year |-> year]
<1>1. TablesInv
  BY DEF IInv
<1>2. CASE InsertSeason(known /\ year # Empty, new, NoId, {}, NoId)
  <2>1. \A s \in seasons : s.id # new.id
    <3>1. new.id = counter["seasons"] + 1
      BY StoredIdNew
    <3>2. \A s \in seasons : s.id \in Nat /\ s.id <= counter["seasons"]
      BY <1>1, StoreAssumption DEF TablesInv, TableTypes, IdsCounted, Season, Id
    <3>3. counter["seasons"] \in Nat
      BY <1>1, StoreAssumption DEF TablesInv, TableTypes, Id, NoId
    <3> HIDE DEF new
    <3> QED
      BY <3>1, <3>2, <3>3
  <2> HIDE DEF new
  <2> QED
    BY <1>2, <2>1, InsertSeasonKeeps
<1>3. ASSUME NEW s \in found, InsertSeason(known, s, s.id, SeasonClubs(s.id), NoId)
      PROVE  championships' = championships /\ seasons \subseteq seasons'
  <2>1. \A t \in seasons : t.id = s.id => t = s
    BY <1>1 DEF TablesInv, KeysUnique, SeasonsFound
  <2> QED
    BY <1>3, <2>1, InsertSeasonKeeps
<1> QED
  BY <1>2, <1>3 DEF NewSeason

LEMMA NewSeasonClubKeeps ==
  ASSUME IInv, NEW season \in Id, NEW club \in Id, NewSeasonClub(season, club)
  PROVE  championships' = championships /\ seasons \subseteq seasons'
<1>1. CASE UNCHANGED tables
  BY <1>1 DEF tables
<1>2. ASSUME NEW s \in SeasonsWithId(season),
             InsertSeason(TRUE, s, s.id, SeasonClubs(s.id), club)
      PROVE  championships' = championships /\ seasons \subseteq seasons'
  <2>1. \A t \in seasons : t.id = s.id => t = s
    BY DEF IInv, TablesInv, KeysUnique, SeasonsWithId
  <2> QED
    BY <1>2, <2>1, InsertSeasonKeeps
<1> QED
  BY <1>1, <1>2 DEF NewSeasonClub

\* No step changes or removes the row of a championship or a season.
LEMMA RowsStay ==
  ASSUME IInv, [Next]_vars
  PROVE  championships \subseteq championships' /\ seasons \subseteq seasons'
<1>1. CASE Request
  <2>1. ASSUME NEW n \in ChampionshipName, NEW c \in Country, NewChampionship(n, c)
        PROVE  championships \subseteq championships' /\ seasons \subseteq seasons'
    <3>1. seasons' = seasons
      BY <2>1 DEF NewChampionship, Insert, tables
    <3> QED
      BY <2>1, <3>1, NewChampionshipKeeps
  <2>2. ASSUME NEW n \in ClubName, NEW c \in Country, NewClub(n, c)
        PROVE  championships \subseteq championships' /\ seasons \subseteq seasons'
    BY <2>2 DEF NewClub, Insert, SaveClub, tables
  <2> QED
    BY <1>1, <2>1, <2>2, NewSeasonKeeps, NewSeasonClubKeeps DEF Request
<1>2. CASE Start \/ Crash \/ Respond \/ Reload \/ ReloadRelated \/ EndSave \/ UNCHANGED vars
  BY <1>2 DEF Start, SaveClub, Crash, Respond, Reload, ReloadRelated, EndSave, tables, vars
<1>3. CASE \E i \in Id : SaveRelated(i)
  BY <1>3 DEF SaveRelated
<1> QED
  BY <1>1, <1>2, <1>3 DEF Next

\* No request, failure or crash changes or removes the row of a championship or
\* a season.
THEOREM ChampionshipsAndSeasonsKept == Spec => RowsKept
<1>1. IInv /\ [Next]_vars =>
        championships \subseteq championships' /\ seasons \subseteq seasons'
  BY RowsStay
<1> QED
  BY <1>1, Invariance, PTL DEF Spec, RowsKept

\* The only step that answers a request while something is being saved, unless the
\* database fails it.
LEMMA AnswersByEndSave ==
  ASSUME IInv, [Next]_vars, phase # "waiting", Answered, ~ failed'
  PROVE  EndSave
<1>1. ~ Reload
  BY DEF Reload, Answered
<1> QED
  BY <1>1 DEF Next, Request, NewChampionship, NewClub, NewSeason, NewSeasonClub, Start,
       Crash, Respond, SaveRelated, ReloadRelated, Answered, vars

\* At the end of a season's save that nothing has failed, the season has its clubs
\* and the added one, or, if that one was refused, exactly its clubs, and the rest
\* is as it was.
LEMMA EndOfSave ==
  ASSUME IInv, EndSave, save.table = "seasons", ~ failed
  PROVE  /\ save.result => SeasonIsWhole
         /\ ~ save.result => Rows' = save.before
         /\ reply'.success = save.result
<1>1. /\ SaveBounds /\ SaveProgress
      /\ save.todo = {} /\ save.result \in BOOLEAN /\ save \in TableSave
      /\ clubs_seasons \subseteq Membership
      /\ UNCHANGED <<championships, clubs, seasons, clubs_seasons>>
      /\ NoId \notin Id
  BY StoreAssumption
     DEF IInv, SaveInv, SeasonInv, Saving, EndSave, ControlTypes, TablesInv, TableTypes,
         TableSave, tables, Id, NoId
<1>2. save.added = NoId => Asked \notin clubs_seasons
  BY <1>1 DEF Asked, Membership
<1>3. /\ save.before.clubs_seasons \subseteq clubs_seasons
      /\ clubs_seasons \subseteq save.before.clubs_seasons \cup {Asked}
      /\ save.result /\ save.added # NoId => Asked \in clubs_seasons
      /\ ~ save.result => Asked \notin clubs_seasons
  BY <1>1 DEF SaveBounds, SaveProgress
<1>4. save.result => SeasonIsWhole
  BY <1>1, <1>2, <1>3 DEF SeasonIsWhole, Asked
<1>5. ~ save.result => Rows' = save.before
  <2> SUFFICES ASSUME ~ save.result PROVE Rows' = save.before
    OBVIOUS
  <2>1. clubs_seasons = save.before.clubs_seasons
    BY <1>1, <1>3
  <2>2. /\ championships = save.before.championships /\ clubs = save.before.clubs
        /\ seasons = save.before.seasons
    BY <1>1 DEF SaveBounds, SaveProgress
  <2>3. save.before = [championships |-> save.before.championships,
                       clubs |-> save.before.clubs, seasons |-> save.before.seasons,
                       clubs_seasons |-> save.before.clubs_seasons]
    BY <1>1 DEF TableSave
  <2> QED
    BY <1>1, <2>1, <2>2, <2>3 DEF Rows
<1> QED
  BY <1>4, <1>5 DEF EndSave, Answer

\* Success means that all the clubs of the season are there.
THEOREM SeasonAnswerIsTrue == Spec => SuccessIsWhole
<1>1. ASSUME IInv, [Next]_vars, save.table = "seasons", Answered, reply'.success, ~ failed'
      PROVE  SeasonIsWhole
  <2>1. EndSave
    BY <1>1, AnswersByEndSave DEF IInv, ControlTypes, Saving, NoSave
  <2>2. ~ failed
    BY <1>1, <2>1 DEF EndSave
  <2> QED
    BY <1>1, <2>1, <2>2, EndOfSave
<1>2. IInv /\ [Next]_vars =>
        (save.table = "seasons" /\ Answered /\ reply'.success /\ ~ failed' => SeasonIsWhole)
  BY <1>1
<1> QED
  BY <1>2, Invariance, PTL DEF Spec, SuccessIsWhole

\* A REPLACE that is answered at once, by nothing the database has done, is one that
\* a constraint forbids.
LEMMA InsertForbidden ==
  ASSUME NEW allowed, NEW row, NEW id, NEW related, NEW added,
         InsertSeason(allowed, row, id, related, added), phase' = "replying", ~ failed'
  PROVE  UNCHANGED tables
BY DEF InsertSeason, Insert

\* A request answered without success, though the database did not fail it, has left
\* the tables as they were when it came.
THEOREM RejectionIsHarmless == Spec => RejectedChangesNothing
<1> DEFINE Harmless == Rows' = IF phase = "waiting" THEN Rows ELSE save.before
<1>1. ASSUME IInv, [Next]_vars, Answered, ~ reply'.success, ~ failed'
      PROVE  Harmless
  <2>1. CASE phase # "waiting"
    <3>1. EndSave /\ ~ failed
      BY <1>1, <2>1, AnswersByEndSave DEF EndSave
    <3>2. save.table = "seasons"
      BY <1>1, <3>1 DEF IInv, SaveInv, PlainInv, Saving, EndSave, Answer
    <3> QED
      BY <1>1, <2>1, <3>1, <3>2, EndOfSave
  <2>2. CASE phase = "waiting"
    <3>1. Request
      BY <1>1, <2>2
         DEF Next, Start, Crash, Respond, Reload, SaveRelated, ReloadRelated, EndSave,
             Answered, vars
    <3>2. ASSUME NEW n \in ChampionshipName, NEW c \in Country, NewChampionship(n, c)
          PROVE  UNCHANGED tables
      BY <1>1, <3>2 DEF NewChampionship, Insert, Answered
    <3>3. ASSUME NEW n \in ClubName, NEW c \in Country, NewClub(n, c)
          PROVE  UNCHANGED tables
      BY <1>1, <3>3 DEF NewClub, Insert, Answered
    <3>4. ASSUME NEW i \in Id, NEW y \in Year, NewSeason(i, y)
          PROVE  UNCHANGED tables
      BY <1>1, <3>4, InsertForbidden DEF NewSeason, Answered
    <3>5. ASSUME NEW i \in Id, NEW j \in Id, NewSeasonClub(i, j)
          PROVE  UNCHANGED tables
      BY <1>1, <3>5, InsertForbidden DEF NewSeasonClub, Answered
    <3>6. UNCHANGED tables
      BY <3>1, <3>2, <3>3, <3>4, <3>5 DEF Request
    <3> QED
      BY <2>2, <3>6 DEF Rows, tables
  <2> QED
    BY <2>1, <2>2
<1>2. IInv /\ [Next]_vars => (Answered /\ ~ reply'.success /\ ~ failed' => Harmless)
  BY <1>1
<1> QED
  BY <1>2, Invariance, PTL DEF Spec, RejectedChangesNothing
=============================================================================
