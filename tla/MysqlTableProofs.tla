-------------------------- MODULE MysqlTableProofs --------------------------
(***************************************************************************)
(* Proofs about MysqlTable: for any names, any number of rows and any      *)
(* faults, the statements implement FootballStore, and the rows of a list  *)
(* are all accounted for while they are loaded.                            *)
(*                                                                         *)
(* The inductive invariant has two parts.  StoreProofs!IInv is that of     *)
(* FootballStore, of the mapped variables: it is kept because every step   *)
(* is one of FootballStore's or leaves them alone.  ControlInv says what   *)
(* the thread has in hand at each place of its code: the object is the row *)
(* it has looked up or what it was asked by, no row of which exists, and   *)
(* the related clubs are those of the season, each once, in front of the   *)
(* one that is added.                                                      *)
(***************************************************************************)
EXTENDS MysqlTable, SequenceFacts, FiniteSetTheorems, TLAPS

StoreProofs == INSTANCE FootballStoreProofs WITH
                 phase <- Phase, save <- SaveProgress

IdOrNone == Id \cup {NoId}
NamedObject == [id : IdOrNone, name : Field, country : Country]
SeasonObject == [id : IdOrNone, championship : IdOrNone, year : Year \cup {Empty}]
RelatedClub == [id : Id, name : Field, country : Country \cup {Empty}]

RowSets == [championships : SUBSET Store!Championship, clubs : SUBSET Store!Club,
            seasons : SUBSET Store!Season, clubs_seasons : SUBSET Store!Membership]

IdsOf(s) == [i \in DOMAIN s |-> s[i].id]

\* The thread's place, and the request it has there.
PcInv ==
  /\ pc \in {"down", "waiting", "find_championship", "find", "list", "next", "load",
             "find_club", "replace", "reload", "related", "reload_related", "replying"}
  /\ request \in Request \cup {Home, NoRequest}
  /\ request = NoRequest <=> pc \in {"down", "waiting", "replying"}
  /\ pc = "find_championship" => request.op = "season"
  /\ pc \in {"list", "next", "load", "reload_related"} => IsSeason
  /\ pc = "find_club" => request.op = "season_club"

\* The types of what it has in hand, and what it has not yet or no longer.
HandInv ==
  /\ object \in NamedObject \cup SeasonObject \cup {NoObject}
  /\ result \in Seq(Id) /\ ids \in Seq(Id) /\ related \in Seq(RelatedClub)
  /\ saved \in BOOLEAN
  /\ added \in IdOrNone /\ before \in RowSets
  /\ reply \in Store!Response
  /\ pc # "replying" => reply = Store!NoResponse
  /\ pc \in {"down", "waiting", "find_championship", "find", "replying"} => object = NoObject
  /\ pc # "next" => result = <<>>
  /\ pc \notin {"next", "load"} => ids = <<>>
  /\ pc \notin {"load", "find_club"} => IsSeason \/ related = <<>>
  /\ pc \in {"find_championship", "find", "list", "next"} => related = <<>>
  /\ pc \notin {"replace", "reload", "related", "reload_related"} \/ ~ IsSeason
       => added = NoId
  /\ pc \notin {"reload", "related", "reload_related"} => before = NoRows

\* The object is the row that was found, or what the constructor was given and no
\* row has.
ChampionshipInHand ==
  \/ object \in Store!ChampionshipsFound(request.name)
  \/ /\ object = [id |-> NoId, name |-> request.name, country |-> request.country]
     /\ Store!ChampionshipsFound(request.name) = {}

ClubInHand ==
  \/ object \in Store!ClubsFound(request.name, request.country)
  \/ /\ object = [id |-> NoId, name |-> request.name, country |-> request.country]
     /\ Store!ClubsFound(request.name, request.country) = {}

SeasonInHand ==
  IF request.op = "season"
  THEN \/ object \in Store!SeasonsFound(request.championship, request.year)
       \/ /\ object = [id |-> NoId, championship |-> request.championship,
                       year |-> request.year]
          /\ Store!SeasonsFound(request.championship, request.year) = {}
  ELSE \/ object \in seasons /\ object.id = request.season
       \/ /\ object = [id |-> request.season, championship |-> NoId, year |-> Empty]
          /\ Store!SeasonsWithId(request.season) = {}

ObjectInv ==
  /\ pc = "replace" /\ request.op = "championship" => ChampionshipInHand
  /\ pc = "replace" /\ IsClub => ClubInHand
  /\ pc \in {"list", "next", "load", "find_club"} \/ (pc = "replace" /\ IsSeason)
       => SeasonInHand
  /\ pc \in {"list", "next", "load", "related", "reload_related"} /\ IsSeason
       => object \in seasons
  /\ pc = "reload" => RowsOfObject # {}

\* a and b are together the ids in S, each once.
Shared(a, b, S) ==
  /\ Distinct(a) /\ Distinct(b)
  /\ \A t \in Id : t \in S <=> In(t, a) \/ In(t, b)
  /\ \A t \in Id : ~ (In(t, a) /\ In(t, b))

\* The club season_club asks to add, if the season does not have it.
Added ==
  IF request.op = "season" \/ request.club \in Store!SeasonClubs(object.id)
  THEN NoId ELSE request.club

\* The clubs in hand are those the season has in the table, then they are with the
\* added one what is still to be saved.
RelatedInv ==
  /\ pc = "next" => Shared(result, ids, Store!SeasonClubs(object.id))
  /\ pc = "load" => Shared(ids, IdsOf(related), Store!SeasonClubs(object.id))
  /\ pc \in {"load", "find_club"} => \A i \in DOMAIN related : related[i] \in clubs
  /\ pc \in {"find_club", "replace", "reload", "related", "reload_related"} =>
       Distinct(IdsOf(related))
  /\ pc = "find_club" => \A t \in Id : t \in Store!SeasonClubs(object.id) <=> In(t, IdsOf(related))
  /\ pc = "replace" /\ IsSeason =>
       /\ added = Added
       /\ \A t \in Id : In(t, IdsOf(related)) <=>
                   t \in Store!SeasonClubs(object.id) \/ (t = Added /\ t # NoId)
  /\ \A i \in DOMAIN related : related[i].id = added => i = Len(related)
  /\ pc = "reload_related" => related # <<>>

ControlInv == PcInv /\ HandInv /\ ObjectInv /\ RelatedInv

\* The inductive invariant.
IInv == StoreProofs!IInv /\ ControlInv

-----------------------------------------------------------------------------
(* What FootballStoreProofs says of the mapped variables *)

\* FootballStoreProofs extends FootballStore, so its copy of the specification is
\* the same one.
LEMMA SameRequests ==
  /\ \A n, c : StoreProofs!NewChampionship(n, c) <=> Store!NewChampionship(n, c)
  /\ \A n, c : StoreProofs!NewClub(n, c) <=> Store!NewClub(n, c)
  /\ \A i, y : StoreProofs!NewSeason(i, y) <=> Store!NewSeason(i, y)
  /\ \A i, j : StoreProofs!NewSeasonClub(i, j) <=> Store!NewSeasonClub(i, j)
<1> USE DEF StoreProofs!tables, Store!tables, StoreProofs!Count, Store!Count,
            StoreProofs!Id, Store!Id, StoreProofs!NoId, Store!NoId,
            StoreProofs!CanFail, Store!CanFail, StoreProofs!Answer, Store!Answer,
            StoreProofs!NoSave, Store!NoSave, StoreProofs!NoRows, Store!NoRows,
            StoreProofs!Rows, Store!Rows, StoreProofs!Begun, Store!Begun,
            StoreProofs!Insert, Store!Insert, StoreProofs!StoredId, Store!StoredId,
            StoreProofs!First, Store!First, StoreProofs!Second, Store!Second
<1>1. \A n, c : StoreProofs!NewChampionship(n, c) <=> Store!NewChampionship(n, c)
  BY DEF StoreProofs!NewChampionship, Store!NewChampionship,
         StoreProofs!ChampionshipsFound, Store!ChampionshipsFound
<1>2. \A n, c : StoreProofs!NewClub(n, c) <=> Store!NewClub(n, c)
  BY DEF StoreProofs!NewClub, Store!NewClub, StoreProofs!ClubsFound, Store!ClubsFound,
         StoreProofs!SaveClub, Store!SaveClub,
         StoreProofs!ReplaceClub, Store!ReplaceClub
<1>3. \A i, y : StoreProofs!NewSeason(i, y) <=> Store!NewSeason(i, y)
  BY DEF StoreProofs!NewSeason, Store!NewSeason,
         StoreProofs!SeasonsFound, Store!SeasonsFound,
         StoreProofs!SeasonClubs, Store!SeasonClubs,
         StoreProofs!InsertSeason, Store!InsertSeason
<1>4. \A i, j : StoreProofs!NewSeasonClub(i, j) <=> Store!NewSeasonClub(i, j)
  BY DEF StoreProofs!NewSeasonClub, Store!NewSeasonClub,
         StoreProofs!SeasonsWithId, Store!SeasonsWithId,
         StoreProofs!SeasonClubs, Store!SeasonClubs,
         StoreProofs!InsertSeason, Store!InsertSeason
<1> QED
  BY <1>1, <1>2, <1>3, <1>4

LEMMA SameStore ==
  /\ StoreProofs!Init <=> Store!Init
  /\ StoreProofs!Next <=> Store!Next
  /\ StoreProofs!vars = Store!vars
<1> USE DEF StoreProofs!tables, Store!tables, StoreProofs!Count, Store!Count,
            StoreProofs!Id, Store!Id, StoreProofs!NoId, Store!NoId,
            StoreProofs!CanFail, Store!CanFail, StoreProofs!Answer, Store!Answer,
            StoreProofs!NoSave, Store!NoSave, StoreProofs!NoRows, Store!NoRows,
            StoreProofs!NoResponse, Store!NoResponse
<1>1. StoreProofs!Start <=> Store!Start
  BY DEF StoreProofs!Start, Store!Start, StoreProofs!ClubsFound, Store!ClubsFound,
         StoreProofs!First, Store!First, StoreProofs!Second, Store!Second,
         StoreProofs!StoredId, Store!StoredId, StoreProofs!SaveClub, Store!SaveClub,
         StoreProofs!ReplaceClub, Store!ReplaceClub
<1>2. /\ StoreProofs!Crash <=> Store!Crash
      /\ StoreProofs!Respond <=> Store!Respond
      /\ StoreProofs!Reload <=> Store!Reload
      /\ StoreProofs!ReloadRelated <=> Store!ReloadRelated
      /\ StoreProofs!EndSave <=> Store!EndSave
  BY DEF StoreProofs!Crash, Store!Crash, StoreProofs!Respond, Store!Respond,
         StoreProofs!Reload, Store!Reload, StoreProofs!ReloadRelated, Store!ReloadRelated,
         StoreProofs!EndSave, Store!EndSave
<1>3. \A i : StoreProofs!SaveRelated(i) <=> Store!SaveRelated(i)
  BY DEF StoreProofs!SaveRelated, Store!SaveRelated,
         StoreProofs!NextClubs, Store!NextClubs,
         StoreProofs!ClubSeason, Store!ClubSeason
<1>4. StoreProofs!Next <=> Store!Next
  BY <1>1, <1>2, <1>3, SameRequests
     DEF StoreProofs!Next, Store!Next, StoreProofs!Request, Store!Request
<1> QED
  BY <1>4 DEF StoreProofs!Init, Store!Init, StoreProofs!vars, Store!vars

\* Its invariant is kept by the steps that are FootballStore's.
LEMMA StoreKept ==
  ASSUME StoreProofs!IInv, [Store!Next]_(Store!vars)
  PROVE  StoreProofs!IInv'
<1>1. StoreProofs!StoreAssumption
  BY MysqlAssumption DEF StoreProofs!StoreAssumption
<1>2. [StoreProofs!Next]_(StoreProofs!vars)
  BY SameStore DEF StoreProofs!vars, Store!vars
<1> QED
  BY <1>1, <1>2, StoreProofs!NextIInv

\* What it says of the tables.
LEMMA TableFacts ==
  ASSUME StoreProofs!IInv
  PROVE  /\ championships \subseteq
              [id : Id, name : ChampionshipName \ {Empty}, country : KnownCountry]
         /\ clubs \subseteq [id : Id, name : ClubName, country : Country]
         /\ seasons \subseteq [id : Id, championship : Id, year : Year \ {Empty}]
         /\ clubs_seasons \subseteq [season : Id, club : Id]
         /\ counter \in [{"championships", "clubs", "seasons"} -> IdOrNone]
         /\ \A m \in clubs_seasons : /\ \E s \in seasons : s.id = m.season
                                     /\ \E c \in clubs : c.id = m.club
         /\ \A s \in seasons : \E c \in championships : c.id = s.championship
         /\ \A c, d \in championships : c.id = d.id \/ c.name = d.name => c = d
         /\ \A c, d \in clubs : c.id = d.id \/ c.name = d.name => c = d
         /\ \A s, t \in seasons :
              s.id = t.id \/ (s.championship = t.championship /\ s.year = t.year) => s = t
         /\ \A c \in championships : c.id <= counter["championships"]
         /\ \A c \in clubs : c.id <= counter["clubs"]
         /\ \A s \in seasons : s.id <= counter["seasons"]
         /\ failed \in BOOLEAN
         /\ failed => Phase \in {"reload", "related", "reload_related", "replying"}
BY DEF StoreProofs!IInv, StoreProofs!ControlTypes, StoreProofs!Saving,
       StoreProofs!TablesInv, StoreProofs!TableTypes,
       StoreProofs!References, StoreProofs!KeysUnique, StoreProofs!IdsCounted,
       StoreProofs!Championship, StoreProofs!Club, StoreProofs!Season,
       StoreProofs!Membership, StoreProofs!Id, StoreProofs!NoId, IdOrNone, Id, NoId,
       Store!Id, Store!NoId

-----------------------------------------------------------------------------
(* The mapping of a step *)

LEMMA RequestFacts ==
  ASSUME ControlInv
  PROVE  /\ request.op = "championship" =>
              request.name \in ChampionshipName /\ request.country \in Country
         /\ IsClub => request.name \in ClubName /\ request.country \in Country
         /\ request.op = "season" => request.championship \in Id /\ request.year \in Year
         /\ request.op = "season_club" => request.season \in Id /\ request.club \in Id
         /\ request.op = "home" => request = Home
         /\ request # NoRequest =>
              request.op \in {"home", "championship", "club", "season", "season_club"}
         /\ request = NoRequest => request.op = "none"
BY MysqlAssumption
   DEF ControlInv, PcInv, Request, Home, NoRequest, IsClub

\* Where FootballStore is while the thread is at pc.
PhaseFacts ==
  /\ request.op = "home" => Phase = IF pc \in {"reload", "related"} THEN "waiting" ELSE "down"
  /\ request.op # "home" =>
       /\ pc \in {"down", "reload", "related", "reload_related", "replying"} => Phase = pc
       /\ pc \in {"waiting", "find_championship", "find", "list", "next", "load",
                  "find_club", "replace"} => Phase = "waiting"

LEMMA PhaseNow == PhaseFacts /\ PhaseFacts'
BY DEF PhaseFacts, Phase

\* A step that is none of FootballStore's.
LEMMA StoreUnchanged ==
  ASSUME UNCHANGED tables, Phase' = Phase, Phase \in {"down", "waiting", "replying"},
         failed' = failed, reply' = reply
  PROVE  UNCHANGED Store!vars
BY DEF tables, Store!vars, SaveProgress

\* Without a save in progress nothing of it shows.
LEMMA NothingSaved ==
  ASSUME Phase \in {"down", "waiting", "replying"}
  PROVE  SaveProgress = Store!NoSave
BY DEF SaveProgress, NoRows, Store!NoSave, Store!NoRows, Store!NoId

LEMMA NothingSavedThen ==
  ASSUME Phase' \in {"down", "waiting", "replying"}
  PROVE  SaveProgress' = Store!NoSave
BY DEF SaveProgress, NoRows, Store!NoSave, Store!NoRows, Store!NoId

Looking ==
  \/ FindChampionshipOfSeason \/ FindNamed \/ FindSeason
  \/ ListClubs \/ NextRow \/ LastRow \/ LoadClub \/ Loaded \/ AddClub

\* Until the object is saved nothing shows.
LEMMA LookingMaps ==
  ASSUME ControlInv, Boot \/ (\E r \in Request : Accept(r)) \/ Looking
  PROVE  UNCHANGED Store!vars
<1>1. UNCHANGED <<tables, failed, reply>>
  BY DEF Boot, Accept, Looking, FindChampionshipOfSeason, FindNamed, FindSeason,
         ListClubs, NextRow, LastRow, LoadClub, Loaded, AddClub, hand, history
<1>2. CASE Boot
  <2>1. pc = "down" /\ request = NoRequest /\ pc' = "find" /\ request' = Home
    BY <1>2 DEF Boot, ControlInv, PcInv
  <2>2. Phase = "down" /\ Phase' = "down"
    BY <2>1, PhaseNow DEF PhaseFacts, NoRequest, Home
  <2> QED
    BY <1>1, <2>2, StoreUnchanged
<1>3. ASSUME NEW r \in Request, Accept(r) PROVE UNCHANGED Store!vars
  <2>1. /\ pc = "waiting" /\ request = NoRequest
        /\ pc' \in {"find_championship", "find"} /\ request' = r
    BY <1>3 DEF Accept, ControlInv, PcInv
  <2>2. r.op # "home"
    BY DEF Request
  <2>3. Phase = "waiting" /\ Phase' = "waiting"
    BY <2>1, <2>2, PhaseNow DEF PhaseFacts, NoRequest
  <2> QED
    BY <1>1, <2>3, StoreUnchanged
<1>4. CASE Looking
  <2>1. /\ pc \in {"find_championship", "find", "list", "next", "load", "find_club"}
        /\ pc' \in {"find", "list", "next", "load", "find_club", "replace"}
        /\ request' = request
    BY <1>4 DEF Looking, FindChampionshipOfSeason, FindNamed, FindSeason,
         ListClubs, NextRow, LastRow, LoadClub, Loaded, AddClub, hand
  <2>2. Phase' = Phase /\ Phase \in {"down", "waiting"}
    BY <2>1, PhaseNow DEF PhaseFacts
  <2> QED
    BY <1>1, <2>2, StoreUnchanged
<1> QED
  BY <1>2, <1>3, <1>4

\* The clubs of the season in hand.
LEMMA SeasonClubsFacts ==
  ASSUME IInv
  PROVE  /\ Store!SeasonClubs(object.id) \subseteq Id
         /\ \A t \in Store!SeasonClubs(object.id) : \E c \in clubs : c.id = t
BY TableFacts DEF IInv, Store!SeasonClubs

\* populate() leaves the fields of an object that has been looked up as they are.
LEMMA PopulatedObject ==
  ASSUME IInv, pc = "replace"
  PROVE  Populated = object
<1>1. CASE ~ IsSeason
  BY <1>1 DEF Populated
<1>2. CASE IsSeason
  <2>1. SeasonInHand /\ seasons \subseteq [id : Id, championship : Id, year : Year \ {Empty}]
        /\ request.op \in {"season", "season_club"}
    BY <1>2, TableFacts DEF IInv, ControlInv, ObjectInv, IsSeason
  <2>2. \E i, c, y : object = [id |-> i, championship |-> c, year |-> y]
    BY <2>1 DEF SeasonInHand, Store!SeasonsFound
  <2>3. request.op = "season" => object.championship = request.championship
    BY <2>1 DEF SeasonInHand, Store!SeasonsFound
  <2>4. SetId(object.championship,
              IF request.op = "season" THEN request.championship ELSE NoId)
          = object.championship
    BY <2>3 DEF SetId
  <2>5. [object EXCEPT !.championship = object.championship] = object
    BY <2>2
  <2> QED
    BY <1>2, <2>4, <2>5 DEF Populated
<1> QED
  BY <1>1, <1>2

\* A request that sends a REPLACE, apart from its table.
LEMMA ReplaceAt ==
  ASSUME IInv, pc = "replace"
  PROVE  /\ request.op \in {"home", "championship", "club", "season", "season_club"}
         /\ StoreProofs!IInv /\ ControlInv
         /\ failed = FALSE /\ reply = Store!NoResponse
         /\ request.op = "home" => Phase = "down"
         /\ request.op # "home" => Phase = "waiting"
         /\ Replace /\ request.op = "championship" => ReplaceChampionship
         /\ Replace /\ IsClub => ReplaceClub
         /\ Replace /\ IsSeason => ReplaceSeason
<1>1. StoreProofs!IInv /\ ControlInv
  BY DEF IInv
<1>2. /\ request.op \in {"home", "championship", "club", "season", "season_club"}
      /\ reply = Store!NoResponse
  BY <1>1, RequestFacts DEF ControlInv, PcInv, HandInv
<1>3. /\ request.op = "home" => Phase = "down"
      /\ request.op # "home" => Phase = "waiting"
  BY PhaseNow DEF PhaseFacts
<1>4. failed = FALSE
  BY <1>1, <1>2, <1>3, TableFacts
<1> QED
  BY <1>1, <1>2, <1>3, <1>4
     DEF Replace, ReplaceChampionship, ReplaceClub, ReplaceSeason, IsClub, IsSeason

\* insert() has returned true: a save has begun.
LEMMA InsertBegins ==
  ASSUME IInv, Insert
  PROVE  /\ pc = "replace" /\ pc' = "reload" /\ Allowed /\ Replace
         /\ request' = request /\ object' = object /\ related' = related /\ added' = added
         /\ UNCHANGED <<failed, reply>>
         /\ request.op = "home" => Phase' = "waiting"
         /\ request.op # "home" =>
              /\ Phase' = "reload"
              /\ SaveProgress' =
                   Store!Begun(TableOfObject, Row'.id, object.id,
                               {related[i].id : i \in DOMAIN related}, added)
<1>1. /\ pc = "replace" /\ pc' = "reload" /\ Allowed /\ Replace
      /\ request' = request /\ object' = object /\ related' = related /\ added' = added
      /\ before' = Store!Rows
      /\ UNCHANGED <<failed, reply>>
  BY PopulatedObject DEF Insert
<1>2. /\ request.op = "home" => Phase' = "waiting"
      /\ request.op # "home" => Phase' = "reload"
  BY <1>1, PhaseNow DEF PhaseFacts
<1>3. /\ TableOfObject' = TableOfObject
      /\ Remaining' = related
  BY <1>1 DEF TableOfObject, IsClub, IsSeason, Remaining
<1>4. ASSUME Phase' = "reload"
      PROVE  SaveProgress' =
               Store!Begun(TableOfObject, Row'.id, object.id,
                           {related[i].id : i \in DOMAIN related}, added)
  BY <1>1, <1>3, <1>4 DEF SaveProgress, Store!Begun
<1> QED
  BY <1>1, <1>2, <1>4

\* insert() has caught an exception: the request is answered, or main() goes on.
LEMMA InsertEnds ==
  ASSUME IInv, InsertThrows, NEW allowed \in BOOLEAN, allowed <=> Allowed
  PROVE  /\ pc = "replace"
         /\ \/ CanFail /\ allowed /\ Replace
            \/ (~ allowed \/ CanFail) /\ UNCHANGED tables
         /\ request.op = "home" =>
              Phase' = "waiting" /\ UNCHANGED <<failed, reply>>
         /\ request.op # "home" => Store!Answer(object.id, FALSE) /\ failed' = allowed
<1>1. /\ pc = "replace"
      /\ \/ CanFail /\ allowed /\ Replace
         \/ (~ allowed \/ CanFail) /\ UNCHANGED tables
      /\ Return(object.id, FALSE, Allowed)
  BY DEF InsertThrows
<1>2. failed = FALSE
  BY <1>1, ReplaceAt
<1>3. CASE request.op = "home"
  <2>1. pc' = "waiting" /\ request' = NoRequest /\ UNCHANGED <<failed, reply>>
    BY <1>1, <1>3 DEF Return, Idle
  <2>2. Phase' = "waiting"
    BY <2>1, PhaseNow DEF PhaseFacts, NoRequest
  <2> QED
    BY <1>1, <1>3, <2>1, <2>2
<1>4. CASE request.op # "home"
  <2>1. /\ pc' = "replying" /\ request' = NoRequest
        /\ reply' = [id |-> object.id, success |-> FALSE]
        /\ failed' = (failed \/ Allowed)
    BY <1>1, <1>4 DEF Return, Idle
  <2>2. Phase' = "replying"
    BY <2>1, PhaseNow DEF PhaseFacts, NoRequest
  <2>3. SaveProgress' = Store!NoSave
    BY <2>2, NothingSavedThen
  <2>4. failed' = allowed
    BY <1>2, <2>1
  <2> QED
    BY <1>1, <1>4, <2>1, <2>2, <2>3, <2>4 DEF Store!Answer
<1> QED
  BY <1>3, <1>4

\* The championship in hand is the one NewChampionship finds or makes.
LEMMA ChampionshipHeld ==
  ASSUME IInv, pc = "replace", request.op = "championship"
  PROVE  LET found == Store!ChampionshipsFound(request.name)
             id == Store!StoredId(found, "championships")
             row == [id |-> id, name |-> request.name,
                     country |-> IF found = {} THEN request.country
                                 ELSE (CHOOSE c \in found : TRUE).country]
         IN  /\ found = ChampionshipsReplaced
             /\ RowOf("championships") = row
             /\ object.id = IF found = {} THEN NoId ELSE id
             /\ object.name = request.name
             /\ object.country = row.country
             /\ related = <<>> /\ added = NoId
             /\ Allowed <=> /\ request.name # Empty /\ row.country \in KnownCountry
                            /\ ~ \E s \in seasons : s.championship \in {c.id : c \in found}
<1> DEFINE found == Store!ChampionshipsFound(request.name)
           id == Store!StoredId(found, "championships")
           row == [id |-> id, name |-> request.name,
                   country |-> IF found = {} THEN request.country
                               ELSE (CHOOSE c \in found : TRUE).country]
<1>1. StoreProofs!IInv /\ ControlInv /\ Populated = object
  BY PopulatedObject DEF IInv
<1>2. /\ championships \subseteq
           [id : Id, name : ChampionshipName \ {Empty}, country : KnownCountry]
      /\ \A c, d \in championships : c.id = d.id \/ c.name = d.name => c = d
  BY <1>1, TableFacts
<1>3. NoId = 0 /\ NoId \notin Id
  BY MysqlAssumption DEF NoId, Id, Store!NoId, Store!Id
<1>4. /\ found = ChampionshipsReplaced
      /\ RowOf("championships") = row
      /\ object.id = IF found = {} THEN NoId ELSE id
      /\ object.name = request.name
      /\ object.country = row.country
  <2>1. CASE object \in found
    <3>1. object \in championships /\ object.name = request.name /\ request.name # Empty
      BY <2>1 DEF Store!ChampionshipsFound, Store!First
    <3>2. found = {object}
      BY <1>2, <3>1 DEF Store!ChampionshipsFound, Store!First
    <3>3. ChampionshipsReplaced = {object}
      BY <1>1, <1>2, <3>1 DEF ChampionshipsReplaced
    <3>4. id = object.id /\ (CHOOSE c \in found : TRUE) = object /\ found # {}
      BY <3>2 DEF Store!StoredId
    <3>5. object.id # NoId /\ object = [id |-> object.id, name |-> object.name,
                                        country |-> object.country]
      BY <1>2, <1>3, <3>1
    <3>6. RowOf("championships") = object
      BY <1>1, <3>5 DEF RowOf
    <3> QED
      BY <3>1, <3>2, <3>3, <3>4, <3>5, <3>6
  <2>2. CASE /\ object = [id |-> NoId, name |-> request.name, country |-> request.country]
             /\ found = {}
    <3>1. ChampionshipsReplaced = {}
      BY <1>1, <1>2, <1>3, <2>2
         DEF ChampionshipsReplaced, Store!ChampionshipsFound, Store!First
    <3>2. id = counter["championships"] + 1
      BY <2>2 DEF Store!StoredId
    <3>3. RowOf("championships") = [id |-> counter["championships"] + 1,
                                    name |-> request.name, country |-> request.country]
      BY <1>1, <2>2 DEF RowOf
    <3> QED
      BY <2>2, <3>1, <3>2, <3>3
  <2> QED
    BY <1>1, <2>1, <2>2 DEF ControlInv, ObjectInv, ChampionshipInHand
<1>5. related = <<>> /\ added = NoId
  BY <1>1 DEF ControlInv, HandInv, IsSeason
<1> HIDE DEF found, row
<1>6. Allowed <=> /\ request.name # Empty /\ row.country \in KnownCountry
                  /\ ~ \E s \in seasons : s.championship \in {c.id : c \in found}
  BY <1>1, <1>4 DEF Allowed, IsClub, IsSeason
<1> QED
  BY <1>4, <1>5, <1>6 DEF found, row

LEMMA ChampionshipWritten ==
  ASSUME IInv, pc = "replace", request.op = "championship", Replace
  PROVE  LET found == Store!ChampionshipsFound(request.name)
             id == Store!StoredId(found, "championships")
             row == [id |-> id, name |-> request.name,
                     country |-> IF found = {} THEN request.country
                                 ELSE (CHOOSE c \in found : TRUE).country]
         IN  /\ id \in Id
             /\ championships' = (championships \ found) \cup {row}
             /\ Store!Count("championships", id)
             /\ UNCHANGED <<clubs, seasons, clubs_seasons>>
<1> DEFINE found == Store!ChampionshipsFound(request.name)
           id == Store!StoredId(found, "championships")
           row == [id |-> id, name |-> request.name,
                   country |-> IF found = {} THEN request.country
                               ELSE (CHOOSE c \in found : TRUE).country]
<1>1. found = ChampionshipsReplaced /\ row = RowOf("championships")
  BY ChampionshipHeld
<1>2. row.id = id
  OBVIOUS
<1>3. ReplaceChampionship
  BY ReplaceAt
<1> HIDE DEF row, found
<1> QED
  BY <1>1, <1>2, <1>3 DEF ReplaceChampionship, row, found

LEMMA InsertChampionshipMaps ==
  ASSUME IInv, Insert \/ InsertThrows, request.op = "championship"
  PROVE  Store!NewChampionship(request.name, request.country)
<1> DEFINE found == Store!ChampionshipsFound(request.name)
           id == Store!StoredId(found, "championships")
           known == IF found = {} THEN NoId ELSE id
           row == [id |-> id, name |-> request.name,
                   country |-> IF found = {} THEN request.country
                               ELSE (CHOOSE c \in found : TRUE).country]
           allowed == /\ request.name # Empty /\ row.country \in KnownCountry
                      /\ ~ \E s \in seasons : s.championship \in {c.id : c \in found}
           Write == /\ id \in Id
                    /\ championships' = (championships \ found) \cup {row}
                    /\ Store!Count("championships", id)
                    /\ UNCHANGED <<clubs, seasons, clubs_seasons>>
           begun == Store!Begun("championships", id, known, {}, NoId)
<1>1. pc = "replace" /\ Phase = "waiting"
  BY ReplaceAt DEF Insert, InsertThrows
<1>2. /\ object.id = known /\ object.name = request.name
      /\ related = <<>> /\ added = NoId
      /\ Allowed <=> allowed
  BY <1>1, ChampionshipHeld
<1>3. Replace => Write
  BY <1>1, ChampionshipWritten
<1>4. row.id = id /\ row.name = request.name /\ allowed \in BOOLEAN
  OBVIOUS
<1>5. \A c \in found : c.name = request.name
  BY DEF Store!ChampionshipsFound, Store!First
<1>6. \A c \in championships : c.name = request.name /\ request.name # Empty => c \in found
  BY DEF Store!ChampionshipsFound, Store!First
<1>7. CASE Insert
  <2>1. /\ Allowed /\ Replace /\ object' = object /\ request' = request
        /\ UNCHANGED <<failed, reply>> /\ Phase' = "reload"
        /\ SaveProgress' = Store!Begun(TableOfObject, Row'.id, object.id,
                                       {related[i].id : i \in DOMAIN related}, added)
    BY <1>7, InsertBegins
  <2>2. Write /\ allowed
    BY <1>2, <1>3, <2>1
  <2> HIDE DEF row, found
  <2>3. RowsOfObject' = {c \in championships' : c.name = request.name}
    BY <1>2, <2>1 DEF RowsOfObject, IsClub, IsSeason
  <2>4. RowsOfObject' = {row}
    BY <1>4, <1>6, <2>2, <2>3
  <2>5. Row'.id = id
    BY <1>4, <2>4 DEF Row
  <2>6. TableOfObject = "championships"
    BY DEF TableOfObject, IsClub, IsSeason
  <2>7. {related[i].id : i \in DOMAIN related} = {}
    BY <1>2
  <2>8. SaveProgress' = begun
    BY <1>2, <2>1, <2>5, <2>6, <2>7
  <2> HIDE DEF begun, known, Write, allowed
  <2>9. Store!Insert(allowed, Write, begun, known)
    BY <2>1, <2>2, <2>8 DEF Store!Insert
  <2> QED
    BY <1>1, <2>9 DEF Store!NewChampionship, begun, known, Write, allowed, row, found, Id, NoId
<1>8. CASE InsertThrows
  <2> HIDE DEF Write, allowed, known
  <2>1. /\ \/ CanFail /\ allowed /\ Replace
           \/ (~ allowed \/ CanFail) /\ UNCHANGED tables
        /\ Store!Answer(object.id, FALSE) /\ failed' = allowed
    BY <1>2, <1>4, <1>8, InsertEnds DEF allowed
  <2>2. \/ allowed /\ Write /\ CanFail /\ failed' = TRUE
        \/ (~ allowed \/ CanFail) /\ UNCHANGED tables
    BY <1>3, <2>1
  <2> HIDE DEF begun
  <2>3. Store!Insert(allowed, Write, begun, known)
    BY <1>2, <2>1, <2>2 DEF Store!Insert, CanFail, Store!CanFail, tables, Store!tables
  <2> QED
    BY <1>1, <2>3 DEF Store!NewChampionship, begun, known, Write, allowed, Id, NoId
<1> QED
  BY <1>7, <1>8

\* So is the club in hand.
LEMMA ClubHeld ==
  ASSUME IInv, pc = "replace", IsClub
  PROVE  LET found == Store!ClubsFound(request.name, request.country)
             id == Store!StoredId(found, "clubs")
         IN  /\ RowOf("clubs") = [id |-> id, name |-> request.name,
                                  country |-> request.country]
             /\ object.id = IF found = {} THEN NoId ELSE id
             /\ object.name = request.name /\ object.country = request.country
             /\ related = <<>> /\ added = NoId /\ Allowed
<1> DEFINE found == Store!ClubsFound(request.name, request.country)
           id == Store!StoredId(found, "clubs")
<1>1. StoreProofs!IInv /\ ControlInv /\ Populated = object
  BY PopulatedObject DEF IInv
<1>2. /\ clubs \subseteq [id : Id, name : ClubName, country : Country]
      /\ \A c, d \in clubs : c.id = d.id \/ c.name = d.name => c = d
      /\ request.country # Empty
  BY <1>1, TableFacts, RequestFacts, MysqlAssumption
<1>3. NoId = 0 /\ NoId \notin Id
  BY MysqlAssumption DEF NoId, Id, Store!NoId, Store!Id
<1>4. CASE object \in found
  <2>1. object \in clubs /\ object.name = request.name /\ object.country = request.country
    BY <1>2, <1>4 DEF Store!ClubsFound, Store!First, Store!Second
  <2>2. found = {object}
    BY <1>2, <1>4, <2>1 DEF Store!ClubsFound, Store!First
  <2>3. id = object.id
    BY <2>2 DEF Store!StoredId
  <2>4. object.id # NoId /\ object = [id |-> object.id, name |-> object.name,
                                      country |-> object.country]
    BY <1>2, <1>3, <2>1
  <2>5. RowOf("clubs") = object
    BY <1>1, <2>4 DEF RowOf
  <2> QED
    BY <1>1, <1>4, <2>1, <2>2, <2>3, <2>4, <2>5
       DEF ControlInv, HandInv, Allowed, IsClub, IsSeason
<1>5. CASE /\ object = [id |-> NoId, name |-> request.name, country |-> request.country]
           /\ found = {}
  <2>1. id = counter["clubs"] + 1
    BY <1>5 DEF Store!StoredId
  <2>2. RowOf("clubs") = [id |-> counter["clubs"] + 1,
                          name |-> request.name, country |-> request.country]
    BY <1>1, <1>5 DEF RowOf
  <2> QED
    BY <1>1, <1>5, <2>1, <2>2 DEF ControlInv, HandInv, Allowed, IsClub, IsSeason
<1> QED
  BY <1>1, <1>4, <1>5 DEF ControlInv, ObjectInv, ClubInHand

\* A club is replaced alike for main() and for a request.
LEMMA ClubWritten ==
  ASSUME IInv, pc = "replace", IsClub, Replace
  PROVE  Store!SaveClub(request.name, request.country,
           Store!StoredId(Store!ClubsFound(request.name, request.country), "clubs"))
<1> DEFINE id == Store!StoredId(Store!ClubsFound(request.name, request.country), "clubs")
           row == [id |-> id, name |-> request.name, country |-> request.country]
<1>1. row = RowOf("clubs") /\ row.id = id
  BY ClubHeld
<1>2. ReplaceClub
  BY ReplaceAt
<1> HIDE DEF row
<1> QED
  BY <1>1, <1>2 DEF ReplaceClub, Store!SaveClub, row, Id

LEMMA InsertClubMaps ==
  ASSUME IInv, Insert \/ InsertThrows, request.op = "club"
  PROVE  Store!NewClub(request.name, request.country)
<1> DEFINE found == Store!ClubsFound(request.name, request.country)
           id == Store!StoredId(found, "clubs")
           known == IF found = {} THEN NoId ELSE id
           row == [id |-> id, name |-> request.name, country |-> request.country]
           Write == Store!SaveClub(request.name, request.country, id)
           begun == Store!Begun("clubs", id, known, {}, NoId)
<1>1. pc = "replace" /\ Phase = "waiting" /\ IsClub
  BY ReplaceAt DEF Insert, InsertThrows, IsClub
<1>2. /\ object.id = known /\ object.name = request.name /\ object.country = request.country
      /\ related = <<>> /\ added = NoId /\ Allowed
  BY <1>1, ClubHeld
<1>3. Replace => Write
  BY <1>1, ClubWritten
<1> HIDE DEF Write, known
<1>4. CASE Insert
  <2>1. /\ Replace /\ object' = object /\ request' = request
        /\ UNCHANGED <<failed, reply>> /\ Phase' = "reload"
        /\ SaveProgress' = Store!Begun(TableOfObject, Row'.id, object.id,
                                       {related[i].id : i \in DOMAIN related}, added)
    BY <1>4, InsertBegins
  <2>2. RowsOfObject' = {c \in clubs' : c.name = request.name /\ c.country = request.country}
    BY <1>1, <1>2, <2>1 DEF RowsOfObject, IsClub, IsSeason
  <2>3. row.id = id /\ row.name = request.name /\ row.country = request.country
    OBVIOUS
  <2>4. Store!ReplaceClub(row)
    BY <1>3, <2>1 DEF Store!SaveClub, Write
  <2> HIDE DEF row, id
  <2>5. RowsOfObject' = {row}
    BY <2>2, <2>3, <2>4 DEF Store!ReplaceClub
  <2>6. Row'.id = id
    BY <2>3, <2>5 DEF Row
  <2>7. TableOfObject = "clubs" /\ {related[i].id : i \in DOMAIN related} = {}
    BY <1>1, <1>2 DEF TableOfObject, IsClub, IsSeason
  <2>8. SaveProgress' = begun
    BY <1>2, <2>1, <2>6, <2>7
  <2> HIDE DEF begun
  <2>9. Store!Insert(TRUE, Write, begun, known)
    BY <1>3, <2>1, <2>8 DEF Store!Insert
  <2> QED
    BY <1>1, <2>9 DEF Store!NewClub, begun, known, Write, id, NoId
<1>5. CASE InsertThrows
  <2>1. /\ CanFail /\ (Replace \/ UNCHANGED tables)
        /\ Store!Answer(object.id, FALSE) /\ failed' = TRUE
    BY <1>1, <1>2, <1>5, InsertEnds
  <2> HIDE DEF begun
  <2>2. Store!Insert(TRUE, Write, begun, known)
    BY <1>2, <1>3, <2>1 DEF Store!Insert, CanFail, Store!CanFail, tables, Store!tables
  <2> QED
    BY <1>1, <2>2 DEF Store!NewClub, begun, known, Write, NoId
<1> QED
  BY <1>4, <1>5

\* main() saves its own club.
LEMMA InsertHomeMaps ==
  ASSUME IInv, Insert \/ InsertThrows, request.op = "home"
  PROVE  Store!Start
<1>1. pc = "replace" /\ Phase = "down" /\ IsClub /\ ControlInv
  BY ReplaceAt DEF Insert, InsertThrows, IsClub
<1>2. request.name = HomeClub /\ request.country = HomeCountry
  BY <1>1, RequestFacts DEF Home
<1>3. /\ Phase' = "waiting" /\ UNCHANGED <<failed, reply>>
      /\ Replace \/ (CanFail /\ UNCHANGED tables)
  <2>1. CASE Insert
    BY <2>1, InsertBegins
  <2>2. CASE InsertThrows
    BY <1>1, <2>2, ClubHeld, InsertEnds
  <2> QED
    BY <2>1, <2>2
<1>4. SaveProgress = Store!NoSave /\ SaveProgress' = Store!NoSave
  BY <1>1, <1>3, NothingSaved, NothingSavedThen
<1>5. Replace =>
        Store!SaveClub(HomeClub, HomeCountry,
                       Store!StoredId(Store!ClubsFound(HomeClub, HomeCountry), "clubs"))
  BY <1>1, <1>2, ClubWritten
<1> QED
  BY <1>1, <1>3, <1>4, <1>5 DEF Store!Start, CanFail, Store!CanFail, tables, Store!tables

\* The season in hand is the one that was found or a new one.
LEMMA SeasonHeld ==
  ASSUME IInv, pc = "replace", IsSeason
  PROVE  LET row == RowOf("seasons") IN
         /\ row = [id |-> row.id, championship |-> object.championship, year |-> object.year]
         /\ \/ /\ object \in seasons /\ row = object /\ SeasonsReplaced = {object}
               /\ object.year # Empty
               /\ request.op = "season" =>
                    object \in Store!SeasonsFound(request.championship, request.year)
               /\ request.op = "season_club" => object.id = request.season
            \/ /\ request.op = "season" /\ object \notin seasons
               /\ object.id = NoId /\ object.championship = request.championship
               /\ object.year = request.year
               /\ row.id = counter["seasons"] + 1
               /\ Store!SeasonsFound(request.championship, request.year) = {}
               /\ request.year # Empty => SeasonsReplaced = {}
            \/ /\ request.op = "season_club" /\ object.id = request.season
               /\ object.championship = NoId
               /\ Store!SeasonsWithId(request.season) = {}
<1> DEFINE row == RowOf("seasons")
<1>1. /\ StoreProofs!IInv /\ ControlInv /\ Populated = object
      /\ request.op \in {"season", "season_club"}
  BY PopulatedObject DEF IInv, IsSeason
<1>2. /\ seasons \subseteq [id : Id, championship : Id, year : Year \ {Empty}]
      /\ \A s, t \in seasons :
           s.id = t.id \/ (s.championship = t.championship /\ s.year = t.year) => s = t
  BY <1>1, TableFacts
<1>3. NoId = 0 /\ NoId \notin Id
  BY MysqlAssumption DEF NoId, Id, Store!NoId, Store!Id
<1>4. SeasonInHand
  BY <1>1 DEF ControlInv, ObjectInv
<1>5. CASE object \in seasons
  <2>1. object = [id |-> object.id, championship |-> object.championship,
                  year |-> object.year] /\ object.id # NoId /\ object.year # Empty
    BY <1>2, <1>3, <1>5
  <2>2. row = object
    BY <1>1, <2>1 DEF RowOf
  <2>3. SeasonsReplaced = {object}
    BY <1>1, <1>2, <1>5 DEF SeasonsReplaced
  <2>4. /\ request.op = "season" =>
             object \in Store!SeasonsFound(request.championship, request.year)
        /\ request.op = "season_club" => object.id = request.season
    BY <1>2, <1>3, <1>4, <1>5 DEF SeasonInHand, Store!SeasonsWithId
  <2> HIDE DEF row
  <2> QED
    BY <1>5, <2>1, <2>2, <2>3, <2>4 DEF row
<1>6. CASE object \notin seasons /\ request.op = "season"
  <2>1. /\ object = [id |-> NoId, championship |-> request.championship,
                     year |-> request.year]
        /\ Store!SeasonsFound(request.championship, request.year) = {}
    BY <1>4, <1>6 DEF SeasonInHand, Store!SeasonsFound
  <2>2. row = [id |-> counter["seasons"] + 1, championship |-> request.championship,
               year |-> request.year]
    BY <1>1, <2>1 DEF RowOf
  <2>3. request.year # Empty => SeasonsReplaced = {}
    BY <1>1, <1>2, <1>3, <2>1 DEF SeasonsReplaced, Store!SeasonsFound, Store!Second
  <2> QED
    BY <1>6, <2>1, <2>2, <2>3
<1>7. CASE object \notin seasons /\ request.op = "season_club"
  <2>1. /\ object = [id |-> request.season, championship |-> NoId, year |-> Empty]
        /\ Store!SeasonsWithId(request.season) = {}
    BY <1>4, <1>7 DEF SeasonInHand
  <2>2. row = [id |-> row.id, championship |-> NoId, year |-> Empty]
    BY <1>1, <2>1 DEF RowOf
  <2> HIDE DEF row
  <2> QED
    BY <1>7, <2>1, <2>2 DEF row
<1> QED
  BY <1>1, <1>5, <1>6, <1>7

\* What a season's REPLACE needs, and what it leaves.
LEMMA SeasonAllowed ==
  ASSUME pc = "replace", IsSeason, IInv
  PROVE  Allowed <=> (\E c \in championships : c.id = object.championship)
                     /\ object.year # Empty
BY PopulatedObject DEF Allowed, IsSeason, IsClub

LEMMA SeasonWritten ==
  ASSUME IInv, pc = "replace", IsSeason, Replace, Allowed
  PROVE  LET row == RowOf("seasons") IN
         /\ row.id \in Id
         /\ object \in seasons => row = object
         /\ seasons' = {s \in seasons : s.id # row.id} \cup {row}
         /\ clubs_seasons' = {m \in clubs_seasons : m.season # row.id}
         /\ Store!Count("seasons", row.id)
         /\ UNCHANGED <<championships, clubs>>
         /\ row.championship = object.championship /\ row.year = object.year
         /\ RowsOfObject' = IF request' = request /\ object' = object THEN {row}
                            ELSE RowsOfObject'
<1> DEFINE row == RowOf("seasons")
<1>1. /\ ReplaceSeason /\ StoreProofs!IInv /\ ControlInv
      /\ request.op \in {"season", "season_club"}
  BY ReplaceAt DEF IsSeason
<1>2. /\ row.id \in Id
      /\ seasons' = (seasons \ SeasonsReplaced) \cup {row}
      /\ clubs_seasons' = {m \in clubs_seasons : \A s \in SeasonsReplaced : m.season # s.id}
      /\ Store!Count("seasons", row.id)
      /\ UNCHANGED <<championships, clubs>>
  BY <1>1 DEF ReplaceSeason
<1>3. /\ championships \subseteq
           [id : Id, name : ChampionshipName \ {Empty}, country : KnownCountry]
      /\ seasons \subseteq [id : Id, championship : Id, year : Year \ {Empty}]
      /\ counter \in [{"championships", "clubs", "seasons"} -> IdOrNone]
      /\ \A m \in clubs_seasons : \E s \in seasons : s.id = m.season
      /\ \A s, t \in seasons :
           s.id = t.id \/ (s.championship = t.championship /\ s.year = t.year) => s = t
      /\ \A s \in seasons : s.id <= counter["seasons"]
  BY <1>1, TableFacts
<1>4. /\ NoId = 0 /\ NoId \notin Id /\ Id \subseteq Nat /\ counter["seasons"] \in Nat
      /\ \E c \in championships : c.id = object.championship
      /\ object.year # Empty
  BY <1>3, SeasonAllowed, MysqlAssumption DEF NoId, Id, Store!NoId, Store!Id, IdOrNone
<1>5. object.championship # NoId
  BY <1>3, <1>4
<1>6. row = [id |-> row.id, championship |-> object.championship, year |-> object.year]
  BY SeasonHeld
<1> HIDE DEF row
<1>7. row.championship = object.championship /\ row.year = object.year
  BY <1>6
<1>8. /\ seasons' = {s \in seasons : s.id # row.id} \cup {row}
      /\ clubs_seasons' = {m \in clubs_seasons : m.season # row.id}
      /\ {s \in seasons' : s.championship = object.championship /\ s.year = object.year} = {row}
      /\ object \in seasons => row = object
  <2>1. CASE object \in seasons /\ row = object /\ SeasonsReplaced = {object}
    BY <1>2, <1>3, <1>7, <2>1
  <2>2. CASE /\ request.op = "season" /\ object \notin seasons
             /\ object.championship = request.championship
             /\ object.year = request.year
             /\ row.id = counter["seasons"] + 1
             /\ Store!SeasonsFound(request.championship, request.year) = {}
             /\ SeasonsReplaced = {}
    <3>1. \A s \in seasons : s.id # row.id
      BY <1>3, <1>4, <2>2
    <3>2. \A s \in seasons : ~ (s.championship = object.championship /\ s.year = object.year)
      BY <2>2 DEF Store!SeasonsFound, Store!Second
    <3> QED
      BY <1>2, <1>3, <1>7, <2>2, <3>1, <3>2
  <2> QED
    BY <1>4, <1>5, <2>1, <2>2, SeasonHeld DEF row
<1>9. request' = request /\ object' = object => RowsOfObject' = {row}
  BY <1>1, <1>8 DEF RowsOfObject, IsClub, IsSeason
<1> QED
  BY <1>2, <1>7, <1>8, <1>9 DEF row

\* The clubs that are still to be saved then.
LEMMA SeasonTodo ==
  ASSUME IInv, pc = "replace", IsSeason
  PROVE  /\ {related[i].id : i \in DOMAIN related} =
              Store!SeasonClubs(object.id) \cup ({Added} \ {NoId})
         /\ added = Added
<1>1. /\ StoreProofs!IInv /\ ControlInv /\ added = Added
      /\ \A t \in Id : In(t, IdsOf(related)) <=>
                         t \in Store!SeasonClubs(object.id) \/ (t = Added /\ t # NoId)
  BY DEF IInv, ControlInv, RelatedInv
<1>2. related \in Seq(RelatedClub) /\ clubs_seasons \subseteq [season : Id, club : Id]
  BY <1>1, TableFacts DEF ControlInv, HandInv
<1>3. \A i \in DOMAIN related : related[i].id \in Id
  <2>1. \A i \in DOMAIN related : related[i] \in RelatedClub
    BY <1>2
  <2> QED
    BY <2>1 DEF RelatedClub
<1>4. Store!SeasonClubs(object.id) \subseteq Id
  BY <1>2 DEF Store!SeasonClubs
<1>5. Added \in Id \cup {NoId}
  BY <1>1, RequestFacts DEF Added, IsSeason
<1>6. \A t : In(t, IdsOf(related)) <=> t \in {related[i].id : i \in DOMAIN related}
  BY DEF In, IdsOf
<1> QED
  BY <1>1, <1>3, <1>4, <1>5, <1>6

\* Either way insert() ends, it is FootballStore's InsertSeason.
LEMMA InsertSeasonMaps ==
  ASSUME IInv, Insert \/ InsertThrows, IsSeason,
         NEW allowed \in BOOLEAN, allowed <=> Allowed,
         NEW asked, Added = IF asked \in Store!SeasonClubs(object.id) THEN NoId ELSE asked,
         NEW clubs_in, clubs_in = Store!SeasonClubs(object.id),
         clubs_in \cup ({asked} \ {NoId}) = clubs_in \cup ({Added} \ {NoId})
  PROVE  Store!InsertSeason(allowed, RowOf("seasons"), object.id, clubs_in, asked)
<1> DEFINE row == RowOf("seasons")
           Write == /\ row.id \in Id
                    /\ seasons' = {s \in seasons : s.id # row.id} \cup {row}
                    /\ clubs_seasons' = {m \in clubs_seasons : m.season # row.id}
                    /\ Store!Count("seasons", row.id)
                    /\ UNCHANGED <<championships, clubs>>
           begun == Store!Begun("seasons", row.id, object.id,
                                clubs_in \cup ({asked} \ {NoId}),
                                IF asked \in clubs_in THEN NoId ELSE asked)
<1>1. pc = "replace" /\ request.op # "home"
  BY DEF Insert, InsertThrows, IsSeason
<1>2. Replace /\ Allowed => Write
  BY <1>1, SeasonWritten
<1> HIDE DEF Write, row
<1>3. CASE Insert
  <2>1. /\ Allowed /\ Replace /\ object' = object /\ request' = request
        /\ UNCHANGED <<failed, reply>> /\ Phase' = "reload"
        /\ SaveProgress' = Store!Begun(TableOfObject, Row'.id, object.id,
                                       {related[i].id : i \in DOMAIN related}, added)
    BY <1>1, <1>3, InsertBegins
  <2>2. Row'.id = row.id
    <3>1. RowsOfObject' = {row}
      BY <1>1, <2>1, SeasonWritten DEF row
    <3> QED
      BY <3>1 DEF Row
  <2>3. TableOfObject = "seasons"
    BY DEF TableOfObject, IsSeason, IsClub
  <2>4. SaveProgress' = begun
    BY <1>1, <2>1, <2>2, <2>3, SeasonTodo
  <2> HIDE DEF begun
  <2>5. Store!Insert(allowed, Write, begun, object.id)
    BY <1>2, <2>1, <2>4 DEF Store!Insert
  <2> QED
    BY <2>5 DEF Store!InsertSeason, begun, Write, row, Id, NoId
<1>4. CASE InsertThrows
  <2>1. /\ \/ CanFail /\ allowed /\ Replace
           \/ (~ allowed \/ CanFail) /\ UNCHANGED tables
        /\ Store!Answer(object.id, FALSE) /\ failed' = allowed
    BY <1>1, <1>4, InsertEnds
  <2>2. \/ allowed /\ Write /\ CanFail /\ failed' = TRUE
        \/ (~ allowed \/ CanFail) /\ UNCHANGED tables
    BY <1>2, <2>1
  <2> HIDE DEF begun
  <2>3. Store!Insert(allowed, Write, begun, object.id)
    BY <2>1, <2>2 DEF Store!Insert, CanFail, Store!CanFail, tables, Store!tables
  <2> QED
    BY <2>3 DEF Store!InsertSeason, begun, Write, row, Id, NoId
<1> QED
  BY <1>3, <1>4

LEMMA InsertNewSeasonMaps ==
  ASSUME IInv, Insert \/ InsertThrows, request.op = "season"
  PROVE  Store!NewSeason(request.championship, request.year)
<1> DEFINE found == Store!SeasonsFound(request.championship, request.year)
           known == \E c \in championships : c.id = request.championship
           row == RowOf("seasons")
<1>1. pc = "replace" /\ Phase = "waiting" /\ IsSeason
  BY ReplaceAt DEF Insert, InsertThrows, IsSeason
<1>2. Added = NoId
  BY DEF Added
<1>3. CASE object \in found
  <2>1. /\ object \in seasons /\ object.championship = request.championship
    BY <1>3 DEF Store!SeasonsFound
  <2>2. row = object /\ object.year # Empty
    BY <1>1, <2>1, SeasonHeld, TableFacts DEF IInv
  <2>3. known \in BOOLEAN /\ (known <=> Allowed)
    BY <1>1, <2>1, <2>2, SeasonAllowed
  <2>4. NoId \notin Store!SeasonClubs(object.id)
    BY SeasonClubsFacts, MysqlAssumption DEF NoId, Id, Store!NoId, Store!Id
  <2> HIDE DEF known, row
  <2>5. Store!InsertSeason(known, row, object.id, Store!SeasonClubs(object.id), NoId)
    BY <1>1, <1>2, <2>3, <2>4, InsertSeasonMaps DEF row
  <2> QED
    BY <1>1, <1>3, <2>2, <2>5 DEF Store!NewSeason, known, NoId
<1>4. CASE object \notin found
  <2>1. /\ found = {} /\ object.id = NoId
        /\ row = [id |-> counter["seasons"] + 1, championship |-> request.championship,
                  year |-> request.year]
        /\ object.championship = request.championship /\ object.year = request.year
    BY <1>1, <1>4, SeasonHeld
  <2> DEFINE allowed == known /\ request.year # Empty
  <2>2. allowed \in BOOLEAN /\ (allowed <=> Allowed)
    BY <1>1, <2>1, SeasonAllowed
  <2>3. Store!SeasonClubs(object.id) = {}
    BY <2>1, TableFacts, MysqlAssumption DEF IInv, Store!SeasonClubs, NoId, Id, Store!NoId, Store!Id
  <2>4. row = [id |-> Store!StoredId({}, "seasons"), championship |-> request.championship,
               year |-> request.year]
    BY <2>1 DEF Store!StoredId
  <2> HIDE DEF known, row, allowed
  <2>5. Store!InsertSeason(allowed, row, NoId, {}, NoId)
    BY <1>1, <1>2, <2>1, <2>2, <2>3, InsertSeasonMaps DEF row
  <2> QED
    BY <1>1, <2>1, <2>4, <2>5 DEF Store!NewSeason, known, allowed, NoId
<1> QED
  BY <1>3, <1>4

LEMMA InsertSeasonClubMaps ==
  ASSUME IInv, Insert \/ InsertThrows, request.op = "season_club"
  PROVE  Store!NewSeasonClub(request.season, request.club)
<1>1. pc = "replace" /\ Phase = "waiting" /\ IsSeason /\ StoreProofs!IInv /\ ControlInv
  BY ReplaceAt DEF Insert, InsertThrows, IsSeason
<1>2. /\ request.club \in Id /\ NoId \notin Id
  BY <1>1, RequestFacts, MysqlAssumption DEF Id, NoId, Store!Id, Store!NoId
<1>3. CASE object \in seasons
  <2>1. /\ RowOf("seasons") = object /\ object.id = request.season /\ object.year # Empty
    BY <1>1, <1>2, <1>3, SeasonHeld, TableFacts
  <2>2. Allowed
    BY <1>1, <1>3, <2>1, SeasonAllowed, TableFacts
  <2>3. Added = IF request.club \in Store!SeasonClubs(object.id) THEN NoId ELSE request.club
    BY DEF Added
  <2>4. Store!SeasonClubs(object.id) \cup ({request.club} \ {NoId})
          = Store!SeasonClubs(object.id) \cup ({Added} \ {NoId})
    BY <1>2, <2>3
  <2>5. Store!InsertSeason(TRUE, RowOf("seasons"), object.id, Store!SeasonClubs(object.id),
                           request.club)
    BY <1>1, <2>2, <2>3, <2>4, InsertSeasonMaps
  <2>6. object \in Store!SeasonsWithId(request.season)
    BY <1>3, <2>1 DEF Store!SeasonsWithId
  <2> QED
    BY <1>1, <2>1, <2>5, <2>6 DEF Store!NewSeasonClub
<1>4. CASE object \notin seasons
  <2>1. /\ object.id = request.season /\ object.championship = NoId
        /\ Store!SeasonsWithId(request.season) = {}
    BY <1>1, <1>4, SeasonHeld
  <2>2. ~ Allowed
    BY <1>1, <1>2, <2>1, SeasonAllowed, TableFacts
  <2>3. ~ Insert
    BY <2>2 DEF Insert
  <2>4. UNCHANGED tables /\ Store!Answer(object.id, FALSE) /\ failed' = FALSE
    BY <1>1, <2>2, <2>3, InsertEnds
  <2>5. failed = FALSE
    BY <1>1, ReplaceAt
  <2> QED
    BY <1>1, <2>1, <2>4, <2>5 DEF Store!NewSeasonClub, tables, Store!tables
<1> QED
  BY <1>3, <1>4

LEMMA InsertMaps ==
  ASSUME IInv, Insert \/ InsertThrows
  PROVE  Store!Next
<1>1. /\ request.op \in {"home", "championship", "club", "season", "season_club"}
      /\ ControlInv
  BY ReplaceAt DEF Insert, InsertThrows
<1>2. CASE request.op = "home"
  BY <1>2, InsertHomeMaps DEF Store!Next
<1>3. CASE request.op = "championship"
  <2>1. request.name \in ChampionshipName /\ request.country \in Country
    BY <1>1, <1>3, RequestFacts
  <2> QED
    BY <1>3, <2>1, InsertChampionshipMaps DEF Store!Next, Store!Request
<1>4. CASE request.op = "club"
  <2>1. request.name \in ClubName /\ request.country \in Country
    BY <1>1, <1>4, RequestFacts DEF IsClub
  <2> QED
    BY <1>4, <2>1, InsertClubMaps DEF Store!Next, Store!Request
<1>5. CASE request.op = "season"
  <2>1. request.championship \in Id /\ request.year \in Year
    BY <1>1, <1>5, RequestFacts
  <2> QED
    BY <1>5, <2>1, InsertNewSeasonMaps DEF Store!Next, Store!Request, Id
<1>6. CASE request.op = "season_club"
  <2>1. request.season \in Id /\ request.club \in Id
    BY <1>1, <1>6, RequestFacts
  <2> QED
    BY <1>6, <2>1, InsertSeasonClubMaps DEF Store!Next, Store!Request, Id
<1> QED
  BY <1>1, <1>2, <1>3, <1>4, <1>5, <1>6

\* The ids of a sequence of clubs.
LEMMA IdsFacts ==
  ASSUME NEW s \in Seq(RelatedClub)
  PROVE  /\ IdsOf(s) \in Seq(Id)
         /\ s # <<>> => /\ IdsOf(s) # <<>> /\ Head(IdsOf(s)) = Head(s).id
                        /\ IdsOf(Tail(s)) = Tail(IdsOf(s))
         /\ \A x \in RelatedClub : IdsOf(Append(s, x)) = Append(IdsOf(s), x.id)
         /\ IdsOf(<<>>) = <<>>
<1>1. Len(s) \in Nat /\ DOMAIN s = 1 .. Len(s) /\ \A i \in 1 .. Len(s) : s[i] \in RelatedClub
  OBVIOUS
<1>2. \A x \in RelatedClub : x.id \in Id
  BY DEF RelatedClub
<1>3. IdsOf(s) = [i \in 1 .. Len(s) |-> s[i].id] /\ \A i \in 1 .. Len(s) : s[i].id \in Id
  BY <1>1, <1>2 DEF IdsOf
<1>4. IdsOf(s) \in Seq(Id) /\ Len(IdsOf(s)) = Len(s)
  BY <1>1, <1>3
<1>5. ASSUME s # <<>>
      PROVE  /\ IdsOf(s) # <<>> /\ Head(IdsOf(s)) = Head(s).id
             /\ IdsOf(Tail(s)) = Tail(IdsOf(s))
  <2>1. /\ Len(s) > 0 /\ Tail(s) \in Seq(RelatedClub) /\ Len(Tail(s)) = Len(s) - 1
        /\ DOMAIN Tail(s) = 1 .. (Len(s) - 1)
        /\ \A i \in 1 .. (Len(s) - 1) : Tail(s)[i] = s[i + 1]
    BY <1>5
  <2>2. IdsOf(Tail(s)) = [i \in 1 .. (Len(s) - 1) |-> s[i + 1].id]
    BY <2>1 DEF IdsOf
  <2>3. Head(s) = s[1] /\ 1 \in 1 .. Len(s)
    BY <1>1, <1>5, <2>1
  <2>4. IdsOf(s) # <<>> /\ Head(IdsOf(s)) = IdsOf(s)[1]
    BY <1>4, <2>1
  <2>5. /\ Tail(IdsOf(s)) \in Seq(Id) /\ DOMAIN Tail(IdsOf(s)) = 1 .. (Len(s) - 1)
        /\ \A i \in 1 .. (Len(s) - 1) : Tail(IdsOf(s))[i] = IdsOf(s)[i + 1]
    BY <1>4, <2>1, <2>4
  <2>6. \A i \in 1 .. (Len(s) - 1) : i + 1 \in 1 .. Len(s)
    BY <1>1
  <2>7. \A i \in 1 .. (Len(s) - 1) : IdsOf(Tail(s))[i] = Tail(IdsOf(s))[i]
    BY <1>3, <2>2, <2>5, <2>6
  <2>8. IdsOf(Tail(s)) = Tail(IdsOf(s))
    BY <2>2, <2>5, <2>7
  <2> QED
    BY <1>3, <2>3, <2>4, <2>8
<1>6. ASSUME NEW x \in RelatedClub
      PROVE  IdsOf(Append(s, x)) = Append(IdsOf(s), x.id)
  <2>1. /\ Append(s, x) \in Seq(RelatedClub) /\ Len(Append(s, x)) = Len(s) + 1
        /\ DOMAIN Append(s, x) = 1 .. (Len(s) + 1)
        /\ \A i \in 1 .. Len(s) : Append(s, x)[i] = s[i]
        /\ Append(s, x)[Len(s) + 1] = x
    BY <1>1
  <2>2. /\ Append(IdsOf(s), x.id) \in Seq(Id)
        /\ DOMAIN Append(IdsOf(s), x.id) = 1 .. (Len(s) + 1)
        /\ \A i \in 1 .. Len(s) : Append(IdsOf(s), x.id)[i] = s[i].id
        /\ Append(IdsOf(s), x.id)[Len(s) + 1] = x.id
    BY <1>2, <1>3, <1>4
  <2>3. IdsOf(Append(s, x)) = [i \in 1 .. (Len(s) + 1) |-> Append(s, x)[i].id]
    BY <2>1 DEF IdsOf
  <2>4. \A i \in 1 .. (Len(s) + 1) : i \in 1 .. Len(s) \/ i = Len(s) + 1
    BY <1>1
  <2>5. \A i \in 1 .. (Len(s) + 1) : IdsOf(Append(s, x))[i] = Append(IdsOf(s), x.id)[i]
    BY <2>1, <2>2, <2>3, <2>4
  <2> QED
    BY <2>2, <2>3, <2>5
<1>7. IdsOf(<<>>) = <<>>
  BY DEF IdsOf
<1> QED
  BY <1>4, <1>5, <1>6, <1>7

\* A save that goes on after its reload.
LEMMA SaveGoesOn ==
  ASSUME IInv, pc \in {"related", "reload_related"}
  PROVE  /\ request.op \in {"home", "championship", "club", "season", "season_club"}
         /\ related \in Seq(RelatedClub) /\ saved \in BOOLEAN /\ object.id \in IdOrNone
         /\ failed \in BOOLEAN
         /\ related # <<>> \/ pc = "reload_related" =>
              /\ request.op \in {"season", "season_club"}
              /\ related # <<>> /\ Distinct(IdsOf(related))
         /\ request.op # "home" => Phase = pc
         /\ request.op = "home" => Phase = "waiting" /\ pc = "related"
<1>1. StoreProofs!IInv /\ ControlInv
  BY DEF IInv
<1>2. /\ related \in Seq(RelatedClub) /\ saved \in BOOLEAN /\ object.id \in IdOrNone
  BY <1>1 DEF ControlInv, HandInv, NamedObject, SeasonObject, NoObject, IdOrNone
<1>3. failed \in BOOLEAN
  BY <1>1, TableFacts
<1>4. /\ request.op \in {"home", "championship", "club", "season", "season_club"}
      /\ pc = "reload_related" => IsSeason /\ related # <<>>
      /\ related # <<>> => IsSeason
      /\ Distinct(IdsOf(related))
  BY <1>1, RequestFacts DEF ControlInv, PcInv, HandInv, RelatedInv
<1>5. /\ request.op # "home" => Phase = pc
      /\ request.op = "home" /\ pc = "related" => Phase = "waiting"
  BY PhaseNow DEF PhaseFacts
<1> QED
  BY <1>2, <1>3, <1>4, <1>5 DEF IsSeason

\* A save as FootballStore sees it.
Progress(table, row, id, todo, new, success, rows) ==
  [table |-> table, row |-> row, id |-> id, todo |-> todo, added |-> new,
   result |-> success, before |-> rows]
SetTodo(s, x) == [s EXCEPT !.todo = x]
SetResult(s, x) == [s EXCEPT !.result = x]
SetRowId(s, x) == [s EXCEPT !.id = x]
Left(s, x, y) == [s EXCEPT !.todo = x, !.result = y]

LEMMA ProgressFields ==
  ASSUME NEW table, NEW row, NEW id, NEW todo, NEW new, NEW success, NEW rows, NEW x
  PROVE  LET s == Progress(table, row, id, todo, new, success, rows) IN
           /\ s.row = row /\ s.id = id /\ s.todo = todo /\ s.added = new
           /\ s.result = success
           /\ SetTodo(s, x) = Progress(table, row, id, x, new, success, rows)
           /\ SetResult(s, x) = Progress(table, row, id, todo, new, x, rows)
           /\ SetRowId(s, x) = Progress(table, row, x, todo, new, success, rows)
BY DEF Progress, SetTodo, SetResult, SetRowId

LEMMA Taken ==
  ASSUME NEW table, NEW row, NEW id, NEW todo, NEW new, NEW success, NEW rows, NEW x, NEW y
  PROVE  Left(Progress(table, row, id, todo, new, success, rows), x, y) =
           Progress(table, row, id, x, new, y, rows)
<1> DEFINE s == Progress(table, row, id, todo, new, success, rows)
<1> HIDE DEF s
<1>1. Left(s, x, y) = SetResult(SetTodo(s, x), y)
  BY DEF Left, SetTodo, SetResult
<1>2. SetTodo(s, x) = Progress(table, row, id, x, new, success, rows)
  BY ProgressFields DEF s
<1>3. SetResult(SetTodo(s, x), y) = Progress(table, row, id, x, new, y, rows)
  BY <1>2, ProgressFields
<1> QED
  BY <1>1, <1>3 DEF s

\* The request is answered, or main() goes on.
LEMMA ReturnMaps ==
  ASSUME ControlInv, request # NoRequest, NEW id, NEW success, NEW fails \in BOOLEAN,
         Return(id, success, fails), failed \in BOOLEAN
  PROVE  /\ request.op = "home" => Phase' = "waiting" /\ UNCHANGED <<failed, reply>>
         /\ request.op # "home" => Store!Answer(id, success) /\ failed' = (failed \/ fails)
<1>1. CASE request.op = "home"
  <2>1. pc' = "waiting" /\ request' = NoRequest /\ UNCHANGED <<failed, reply>>
    BY <1>1 DEF Return, Idle
  <2>2. Phase' = "waiting"
    BY <2>1, PhaseNow DEF PhaseFacts, NoRequest
  <2> QED
    BY <1>1, <2>1, <2>2
<1>2. CASE request.op # "home"
  <2>1. /\ pc' = "replying" /\ request' = NoRequest
        /\ reply' = [id |-> id, success |-> success]
        /\ failed' = (failed \/ fails)
    BY <1>2 DEF Return, Idle
  <2>2. Phase' = "replying"
    BY <2>1, PhaseNow DEF PhaseFacts, NoRequest
  <2>3. SaveProgress' = Store!NoSave
    BY <2>2, NothingSavedThen
  <2> QED
    BY <1>2, <2>1, <2>2, <2>3 DEF Store!Answer
<1> QED
  BY <1>1, <1>2

LEMMA ReloadMaps ==
  ASSUME IInv, Reload
  PROVE  [Store!Next]_(Store!vars)
<1>1. /\ pc = "reload" /\ UNCHANGED tables /\ ControlInv /\ request # NoRequest
      /\ request.op \in {"home", "championship", "club", "season", "season_club"}
      /\ failed \in BOOLEAN
  BY RequestFacts, TableFacts DEF Reload, IInv, ControlInv, PcInv
<1>2. /\ request.op = "home" => Phase = "waiting"
      /\ request.op # "home" => Phase = "reload"
  BY <1>1, PhaseNow DEF PhaseFacts
<1>3. CASE /\ pc' = "related" /\ object' = Row /\ saved' = TRUE
           /\ UNCHANGED <<request, ids, related, history, reply>>
  <2>1. /\ request.op = "home" => Phase' = "waiting"
        /\ request.op # "home" => Phase' = "related"
    BY <1>1, <1>3, PhaseNow DEF PhaseFacts
  <2>2. CASE request.op = "home"
    BY <1>1, <1>2, <1>3, <2>1, <2>2, StoreUnchanged DEF history
  <2>3. CASE request.op # "home"
    <3> DEFINE todo == {related[i].id : i \in DOMAIN related}
    <3>1. /\ TableOfObject' = TableOfObject /\ Remaining = related /\ Remaining' = related
          /\ added' = added /\ before' = before
      BY <1>1, <1>3 DEF TableOfObject, IsClub, IsSeason, Remaining, history
    <3>2. SaveProgress = Progress(TableOfObject, Row.id, object.id, todo, added, TRUE, before)
      BY <1>1, <1>2, <2>3, <3>1 DEF SaveProgress, Progress
    <3>3. SaveProgress' = Progress(TableOfObject, Row.id, Row.id, todo, added, TRUE, before)
      <4>1. /\ Remaining' = related /\ pc' = "related" /\ saved' = TRUE
            /\ Phase' = "related" /\ object' = Row
        BY <1>3, <2>1, <2>3, <3>1
      <4> QED
        BY <3>1, <4>1 DEF SaveProgress, Progress
    <3> DEFINE yes == TRUE
               s == Progress(TableOfObject, Row.id, object.id, todo, added, yes, before)
    <3> HIDE DEF todo, yes
    <3>4. s.row = Row.id /\ SetRowId(s, Row.id)
                              = Progress(TableOfObject, Row.id, Row.id, todo, added, yes, before)
      BY ProgressFields
    <3> HIDE DEF s
    <3>5. SaveProgress' = SetRowId(SaveProgress, SaveProgress.row)
      BY <3>2, <3>3, <3>4 DEF s, yes
    <3> QED
      BY <1>1, <1>2, <1>3, <2>1, <2>3, <3>5
         DEF Store!Next, Store!Reload, SetRowId, history, tables, Store!tables
  <2> QED
    BY <2>2, <2>3
<1>4. CASE CanFail /\ Return(object.id, FALSE, TRUE)
  <2>1. /\ request.op = "home" => Phase' = "waiting" /\ UNCHANGED <<failed, reply>>
        /\ request.op # "home" => Store!Answer(object.id, FALSE) /\ failed' = (failed \/ TRUE)
    BY <1>1, <1>4, ReturnMaps
  <2>2. CASE request.op = "home"
    BY <1>1, <1>2, <2>1, <2>2, StoreUnchanged
  <2>3. CASE request.op # "home"
    <3>1. SaveProgress.id = object.id
      BY <1>1, <1>2, <2>3 DEF SaveProgress
    <3> QED
      BY <1>1, <1>2, <1>4, <2>1, <2>3, <3>1
         DEF Store!Next, Store!Reload, CanFail, Store!CanFail, tables, Store!tables
  <2> QED
    BY <2>2, <2>3
<1> QED
  BY <1>1, <1>3, <1>4 DEF Reload, Reloaded

\* The clubs that are left when save_related has been through the first.
LEMMA FirstClubTaken ==
  ASSUME IInv, pc \in {"related", "reload_related"}, related # <<>>
  PROVE  LET club == Head(related).id
             todo == {related[i].id : i \in DOMAIN related}
         IN  /\ club \in Id /\ club \in todo
             /\ {Tail(related)[i].id : i \in DOMAIN Tail(related)} = todo \ {club}
             /\ club = added => todo = {club}
<1> DEFINE club == Head(related).id
           todo == {related[i].id : i \in DOMAIN related}
           rest == {Tail(related)[i].id : i \in DOMAIN Tail(related)}
<1>1. related \in Seq(RelatedClub) /\ Distinct(IdsOf(related))
  BY SaveGoesOn
<1>2. \A i \in DOMAIN related : related[i].id = added => i = Len(related)
  BY DEF IInv, ControlInv, RelatedInv
<1>3. /\ IdsOf(related) \in Seq(Id) /\ IdsOf(related) # <<>>
      /\ Head(IdsOf(related)) = club /\ IdsOf(Tail(related)) = Tail(IdsOf(related))
  BY <1>1, IdsFacts
<1>4. /\ club \in Id
      /\ \A t : In(t, IdsOf(related)) <=> In(t, IdsOf(Tail(related))) \/ t = club
      /\ ~ In(club, IdsOf(Tail(related)))
  <2>1. Head(related) \in RelatedClub
    BY <1>1
  <2>2. club \in Id
    BY <2>1 DEF RelatedClub
  <2> DEFINE s == IdsOf(related)
  <2>3. s \in Seq(Id) /\ s # <<>> /\ Distinct(s)
    BY <1>1, <1>3
  <2> HIDE DEF s
  <2>4. /\ \A t : In(t, s) <=> In(t, Tail(s)) \/ t = Head(s)
        /\ ~ In(Head(s), Tail(s))
    BY <2>3, DropHead
  <2> QED
    BY <1>3, <2>2, <2>4 DEF s
<1>5. \A s, t : In(t, IdsOf(s)) <=> t \in {s[i].id : i \in DOMAIN s}
  BY DEF In, IdsOf
<1>6. rest = todo \ {club} /\ club \in todo
  <2>1. \A t : t \in todo <=> In(t, IdsOf(related))
    BY <1>5
  <2>2. \A t : t \in rest <=> In(t, IdsOf(Tail(related)))
    BY <1>5
  <2> HIDE DEF todo, rest, club
  <2> QED
    BY <1>4, <2>1, <2>2
<1>7. club = added => todo = {club}
  <2>1. /\ Len(related) \in Nat \ {0} /\ club = related[1].id /\ 1 \in DOMAIN related
        /\ DOMAIN related = 1 .. Len(related)
    BY <1>1
  <2>2. ASSUME club = added PROVE DOMAIN related = {1}
    BY <1>2, <2>1, <2>2
  <2> QED
    BY <2>1, <2>2
<1> HIDE DEF club, todo, rest
<1> QED
  BY <1>4, <1>6, <1>7 DEF club, todo, rest

LEMMA InsertRelatedMaps ==
  ASSUME IInv, InsertRelated
  PROVE  Store!Next
<1> DEFINE club == Head(related).id
           known == \E c \in clubs : c.id = club
           todo == {related[i].id : i \in DOMAIN related}
           rest == {Tail(related)[i].id : i \in DOMAIN Tail(related)}
           Written == clubs_seasons' = clubs_seasons \cup {Store!ClubSeason(club, object.id)}
<1>1. /\ pc = "related" /\ related # <<>>
      /\ UNCHANGED <<championships, clubs, seasons, counter, request, object, added, before,
                     reply>>
      /\ \/ /\ known /\ Written
            /\ \/ pc' = "reload_related" /\ UNCHANGED <<related, saved, failed>>
               \/ CanFail /\ Turn(FALSE, TRUE)
         \/ /\ ~ known \/ CanFail
            /\ Turn(FALSE, known)
            /\ UNCHANGED clubs_seasons
  BY DEF InsertRelated
<1>2. /\ request.op \in {"season", "season_club"} /\ saved \in BOOLEAN
      /\ failed \in BOOLEAN /\ Phase = "related"
  BY <1>1, SaveGoesOn
<1>3. /\ club \in Id /\ club \in todo /\ rest = todo \ {club}
      /\ club = added => todo = {club}
  BY <1>1, FirstClubTaken
<1> HIDE DEF club, todo, rest, known, Written
<1>4. TableOfObject' = TableOfObject /\ Phase' = pc'
  <2>1. pc' \in {"related", "reload_related"}
    BY <1>1 DEF Turn
  <2> QED
    BY <1>1, <1>2, <2>1, PhaseNow DEF PhaseFacts, TableOfObject, IsClub, IsSeason
<1>5. SaveProgress = Progress(TableOfObject, object.id, object.id, todo, added, saved, before)
  <2>1. (pc # "related" \/ saved) = saved
    BY <1>1, <1>2
  <2>2. Remaining = related /\ todo = {Remaining[i].id : i \in DOMAIN Remaining}
    BY <1>1 DEF Remaining, todo
  <2> QED
    BY <1>1, <1>2, <2>1, <2>2 DEF SaveProgress, Progress
<1>6. /\ SaveProgress.row = object.id /\ SaveProgress.todo = todo /\ SaveProgress.added = added
      /\ \A x \in BOOLEAN :
           Left(SaveProgress, rest, x)
             = Progress(TableOfObject, object.id, object.id, rest, added, x, before)
  <2> DEFINE table == TableOfObject
             s == Progress(table, object.id, object.id, todo, added, saved, before)
  <2> HIDE DEF table
  <2>1. s.row = object.id /\ s.todo = todo /\ s.added = added
    BY ProgressFields
  <2>2. ASSUME NEW x \in BOOLEAN
        PROVE  Left(s, rest, x)
                 = Progress(table, object.id, object.id, rest, added, x, before)
    BY Taken
  <2> HIDE DEF s
  <2> QED
    BY <1>5, <2>1, <2>2 DEF s, table
<1>7. club \in Store!NextClubs
  BY <1>3, <1>6 DEF Store!NextClubs
<1>8. CASE pc' = "reload_related" /\ UNCHANGED <<related, saved, failed>> /\ known /\ Written
  <2>1. SaveProgress' = Progress(TableOfObject, object.id, object.id, rest, added, TRUE, before)
    BY <1>1, <1>4, <1>8 DEF SaveProgress, Remaining, rest, Progress
  <2>2. SaveProgress' = [SaveProgress EXCEPT !.todo = @ \ {club}, !.result = TRUE]
    <3>1. SaveProgress' = Left(SaveProgress, SaveProgress.todo \ {club}, TRUE)
      BY <1>3, <1>6, <2>1
    <3> QED
      BY <3>1 DEF Left
  <2>3. failed' = (failed \/ FALSE)
    BY <1>2, <1>8
  <2> QED
    BY <1>1, <1>2, <1>3, <1>4, <1>6, <1>7, <1>8, <2>2, <2>3
       DEF Store!Next, Store!SaveRelated, Id, known, Written
<1>9. ASSUME NEW fails \in BOOLEAN, Turn(FALSE, fails)
      PROVE  /\ SaveProgress' = [SaveProgress EXCEPT !.todo = @ \ {club}, !.result = FALSE]
             /\ Phase' = Phase /\ failed' = (failed \/ fails)
  <2>1. /\ pc' = "related" /\ related' = Tail(related) /\ saved' = FALSE
        /\ failed' = (failed \/ fails)
    BY <1>9 DEF Turn
  <2>2. SaveProgress' = Progress(TableOfObject, object.id, object.id, rest, added, FALSE, before)
    BY <1>1, <1>4, <2>1 DEF SaveProgress, Remaining, rest, Progress
  <2>3. SaveProgress' = Left(SaveProgress, SaveProgress.todo \ {club}, FALSE)
    BY <1>3, <1>6, <2>2
  <2> QED
    BY <1>2, <1>4, <2>1, <2>3 DEF Left
<1>10. CASE known /\ Written /\ CanFail /\ Turn(FALSE, TRUE)
  <2>1. /\ SaveProgress' = [SaveProgress EXCEPT !.todo = @ \ {club}, !.result = FALSE]
        /\ Phase' = Phase /\ failed' = (failed \/ TRUE)
    BY <1>9, <1>10
  <2> QED
    BY <1>1, <1>2, <1>3, <1>6, <1>7, <1>10, <2>1
       DEF Store!Next, Store!SaveRelated, Id, CanFail, Store!CanFail, known, Written
<1>11. CASE (~ known \/ CanFail) /\ Turn(FALSE, known) /\ UNCHANGED clubs_seasons
  <2>1. known \in BOOLEAN
    BY DEF known
  <2>2. /\ SaveProgress' = [SaveProgress EXCEPT !.todo = @ \ {club}, !.result = FALSE]
        /\ Phase' = Phase /\ failed' = (failed \/ known)
    BY <1>9, <1>11, <2>1
  <2> QED
    BY <1>1, <1>2, <1>3, <1>6, <1>7, <1>11, <2>2
       DEF Store!Next, Store!SaveRelated, Id, CanFail, Store!CanFail, known
<1> QED
  BY <1>1, <1>8, <1>10, <1>11

LEMMA ReloadRelatedMaps ==
  ASSUME IInv, ReloadRelated
  PROVE  Store!Next
<1> DEFINE rest == {Tail(related)[i].id : i \in DOMAIN Tail(related)}
<1>1. /\ pc = "reload_related"
      /\ Turn(TRUE, FALSE) \/ (CanFail /\ Turn(FALSE, TRUE))
      /\ UNCHANGED <<tables, request, object, added, before, reply>>
  BY DEF ReloadRelated
<1>2. /\ request.op \in {"season", "season_club"} /\ failed \in BOOLEAN
      /\ Phase = "reload_related"
  BY <1>1, SaveGoesOn
<1>3. pc' = "related" /\ related' = Tail(related)
  BY <1>1 DEF Turn
<1>4. TableOfObject' = TableOfObject /\ Phase' = "related"
  BY <1>1, <1>2, <1>3, PhaseNow DEF PhaseFacts, TableOfObject, IsClub, IsSeason
<1>5. SaveProgress = Progress(TableOfObject, object.id, object.id, rest, added, TRUE, before)
  BY <1>1, <1>2 DEF SaveProgress, Remaining, Progress
<1>6. ASSUME NEW success \in BOOLEAN, saved' = success
      PROVE  SaveProgress' = Progress(TableOfObject, object.id, object.id, rest, added, success,
                                      before)
  <2>1. (pc' # "related" \/ saved') = success /\ Remaining' = Tail(related)
    BY <1>3, <1>6 DEF Remaining
  <2> QED
    BY <1>1, <1>3, <1>4, <2>1 DEF SaveProgress, Progress
<1> HIDE DEF rest
<1>7. CASE Turn(TRUE, FALSE)
  <2>1. SaveProgress' = SaveProgress /\ failed' = failed
    BY <1>2, <1>5, <1>6, <1>7 DEF Turn
  <2> QED
    BY <1>1, <1>2, <1>4, <2>1
       DEF Store!Next, Store!ReloadRelated, tables, Store!tables
<1>8. CASE CanFail /\ Turn(FALSE, TRUE)
  <2>1. SaveProgress' = Progress(TableOfObject, object.id, object.id, rest, added, FALSE, before)
        /\ failed' = TRUE
    BY <1>6, <1>8 DEF Turn
  <2>2. SaveProgress' = SetResult(SaveProgress, FALSE)
    <3> DEFINE yes == TRUE
               no == FALSE
               table == TableOfObject
    <3> HIDE DEF yes, no, table
    <3>1. SetResult(Progress(table, object.id, object.id, rest, added, yes, before), no)
            = Progress(table, object.id, object.id, rest, added, no, before)
      BY ProgressFields
    <3> QED
      BY <1>5, <2>1, <3>1 DEF yes, no, table
  <2> QED
    BY <1>1, <1>2, <1>4, <1>8, <2>1, <2>2
       DEF Store!Next, Store!ReloadRelated, SetResult, CanFail, Store!CanFail,
           tables, Store!tables
<1> QED
  BY <1>1, <1>7, <1>8

LEMMA EndSaveMaps ==
  ASSUME IInv, EndSave
  PROVE  [Store!Next]_(Store!vars)
<1>1. /\ pc = "related" /\ related = <<>> /\ Return(object.id, saved, FALSE)
      /\ UNCHANGED tables
  BY DEF EndSave
<1>2. /\ request.op \in {"home", "championship", "club", "season", "season_club"}
      /\ saved \in BOOLEAN /\ failed \in BOOLEAN /\ ControlInv /\ request # NoRequest
      /\ request.op # "home" => Phase = "related"
      /\ request.op = "home" => Phase = "waiting"
  BY <1>1, SaveGoesOn DEF IInv, ControlInv, PcInv
<1>3. /\ request.op = "home" => Phase' = "waiting" /\ UNCHANGED <<failed, reply>>
      /\ request.op # "home" => Store!Answer(object.id, saved) /\ failed' = (failed \/ FALSE)
  BY <1>1, <1>2, ReturnMaps
<1>4. CASE request.op = "home"
  BY <1>1, <1>2, <1>3, <1>4, StoreUnchanged
<1>5. CASE request.op # "home"
  <2>1. (pc # "related" \/ saved) = saved /\ Remaining = <<>> /\ Phase = "related"
    BY <1>1, <1>2, <1>5 DEF Remaining
  <2>2. {Remaining[i].id : i \in DOMAIN Remaining} = {}
    BY <2>1
  <2>3. SaveProgress.id = object.id /\ SaveProgress.todo = {} /\ SaveProgress.result = saved
    BY <2>1, <2>2 DEF SaveProgress
  <2> QED
    BY <1>1, <1>2, <1>3, <1>5, <2>3
       DEF Store!Next, Store!EndSave, Store!tables, tables
<1> QED
  BY <1>4, <1>5

LEMMA RespondAndCrashMap ==
  ASSUME IInv, Respond \/ Crash
  PROVE  [Store!Next]_(Store!vars)
<1>1. CASE Respond
  <2>1. /\ pc = "replying" /\ request = NoRequest
        /\ pc' = "waiting" /\ request' = request /\ reply' = Store!NoResponse
        /\ failed' = FALSE /\ UNCHANGED tables
    BY <1>1 DEF Respond, IInv, ControlInv, PcInv, hand
  <2>2. Phase = "replying" /\ Phase' = "waiting"
    BY <2>1, PhaseNow DEF PhaseFacts, NoRequest
  <2>3. SaveProgress' = SaveProgress
    BY <2>2, NothingSaved, NothingSavedThen
  <2> QED
    BY <2>1, <2>2, <2>3 DEF Store!Next, Store!Respond, Store!tables, tables
<1>2. CASE Crash
  <2>1. /\ "crash" \in Faults /\ pc' = "down" /\ request' = NoRequest
        /\ reply' = Store!NoResponse /\ failed' = FALSE /\ UNCHANGED tables
    BY <1>2 DEF Crash, Idle
  <2>2. Phase' = "down"
    BY <2>1, PhaseNow DEF PhaseFacts, NoRequest
  <2>3. SaveProgress' = Store!NoSave
    BY <2>2, NothingSavedThen
  <2>4. CASE Phase = "down"
    <3>1. SaveProgress = Store!NoSave
      BY <2>4, NothingSaved
    <3>2. pc # "replying"
      BY <2>4, PhaseNow DEF PhaseFacts, IInv, ControlInv, PcInv, NoRequest
    <3>3. reply = Store!NoResponse
      BY <3>2 DEF IInv, ControlInv, HandInv
    <3>4. failed = FALSE
      BY <2>4, TableFacts DEF IInv
    <3> QED
      BY <2>1, <2>2, <2>3, <2>4, <3>1, <3>3, <3>4 DEF tables, Store!vars
  <2>5. CASE Phase # "down"
    BY <2>1, <2>2, <2>3, <2>5 DEF Store!Next, Store!Crash, Store!tables, tables
  <2> QED
    BY <2>4, <2>5
<1> QED
  BY <1>1, <1>2

\* Every step is one of FootballStore's or leaves its variables alone.
LEMMA NextMaps == IInv /\ [Next]_vars => [Store!Next]_(Store!vars)
<1> SUFFICES ASSUME IInv, [Next]_vars PROVE [Store!Next]_(Store!vars)
  OBVIOUS
<1>1. CASE UNCHANGED vars
  BY <1>1 DEF vars, tables, hand, history, Store!vars, Phase, SaveProgress, Remaining, Row,
              RowsOfObject, TableOfObject, NoRows, IsSeason, IsClub
<1>2. CASE Boot \/ (\E r \in Request : Accept(r)) \/ Looking
  BY <1>2, LookingMaps DEF IInv
<1>3. CASE Insert \/ InsertThrows \/ Reload \/ InsertRelated \/ ReloadRelated \/ EndSave
  BY <1>3, InsertMaps, ReloadMaps, InsertRelatedMaps, ReloadRelatedMaps, EndSaveMaps
<1>4. CASE Respond \/ Crash
  BY <1>4, RespondAndCrashMap
<1> QED
  BY <1>1, <1>2, <1>3, <1>4 DEF Next, Looking

-----------------------------------------------------------------------------
(* What the thread has in hand *)

\* It has an id, known or not.
LEMMA ObjectId ==
  ASSUME ControlInv
  PROVE  object.id \in IdOrNone
BY DEF ControlInv, HandInv, NamedObject, SeasonObject, NoObject, IdOrNone

LEMMA NoneFacts ==
  /\ NoId = 0 /\ NoId \notin Id /\ Id \subseteq Nat
  /\ Store!Response = [id : IdOrNone, success : BOOLEAN]
  /\ Store!NoResponse \in Store!Response
  /\ NoId \in IdOrNone /\ NoRows \in RowSets
BY MysqlAssumption
   DEF NoId, Id, Store!NoId, Store!Id, Store!Response, Store!NoResponse, IdOrNone, NoRows,
       RowSets

LEMMA IdsOfNothing == IdsOf(<<>>) = <<>> /\ Distinct(IdsOf(<<>>)) /\ \A t : ~ In(t, IdsOf(<<>>))
<1>1. IdsOf(<<>>) = <<>>
  BY DEF IdsOf
<1> QED
  BY <1>1, NothingIn

\* Without a request the thread has nothing.
LEMMA IdleControl ==
  ASSUME Idle, pc' \in {"down", "waiting", "replying"},
         reply' \in Store!Response, pc' # "replying" => reply' = Store!NoResponse
  PROVE  ControlInv'
<1>1. /\ request' = NoRequest /\ object' = NoObject
      /\ result' = <<>> /\ ids' = <<>> /\ related' = <<>>
      /\ saved' = FALSE /\ added' = NoId /\ before' = NoRows
      /\ ~ IsClub' /\ ~ IsSeason' /\ request'.op = "none"
  BY DEF Idle, NoRequest, IsClub, IsSeason
<1>2. PcInv'
  BY <1>1 DEF PcInv
<1>3. HandInv'
  <2>1. <<>> \in Seq(Id) /\ <<>> \in Seq(RelatedClub)
    OBVIOUS
  <2> QED
    BY <1>1, <2>1, NoneFacts DEF HandInv
<1>4. ObjectInv'
  BY <1>1 DEF ObjectInv
<1>5. RelatedInv'
  BY <1>1 DEF RelatedInv
<1> QED
  BY <1>2, <1>3, <1>4, <1>5 DEF ControlInv

LEMMA ReturnControl ==
  ASSUME ControlInv, pc # "replying", NEW id \in IdOrNone, NEW success \in BOOLEAN,
         NEW fails, Return(id, success, fails)
  PROVE  ControlInv'
<1>1. reply = Store!NoResponse
  BY DEF ControlInv, HandInv
<1> QED
  BY <1>1, IdleControl, NoneFacts DEF Return

\* A request comes, is answered or is lost.
LEMMA RequestControl ==
  ASSUME ControlInv, Boot \/ (\E r \in Request : Accept(r)) \/ Respond \/ Crash
  PROVE  ControlInv'
<1>1. CASE Crash
  BY <1>1, IdleControl, NoneFacts DEF Crash
<1>2. CASE Boot \/ (\E r \in Request : Accept(r)) \/ Respond
  <2>1. /\ pc \in {"down", "waiting", "replying"} /\ request = NoRequest
        /\ object = NoObject /\ added = NoId /\ before = NoRows
        /\ result = <<>> /\ ids = <<>> /\ related = <<>>
        /\ saved \in BOOLEAN /\ reply \in Store!Response
        /\ pc # "replying" => reply = Store!NoResponse
        /\ UNCHANGED <<object, result, ids, related, saved, added, before>>
    BY <1>2 DEF Boot, Accept, Respond, ControlInv, PcInv, HandInv, IsSeason, NoRequest,
                hand, history
  <2>2. /\ pc' \in {"waiting", "find_championship", "find"}
        /\ request' \in Request \cup {Home, NoRequest}
        /\ request' = NoRequest <=> pc' = "waiting"
        /\ pc' = "find_championship" => request'.op = "season"
        /\ reply' = Store!NoResponse
    <3>1. CASE Boot
      BY <2>1, <3>1 DEF Boot, Home, NoRequest
    <3>2. ASSUME NEW r \in Request, Accept(r)
          PROVE /\ pc' \in {"find_championship", "find"} /\ request' = r /\ r # NoRequest
                /\ pc' = "find_championship" => r.op = "season"
                /\ reply' = Store!NoResponse
      BY <2>1, <3>2 DEF Accept, Request, NoRequest
    <3>3. CASE Respond
      BY <2>1, <3>3 DEF Respond, hand
    <3> QED
      BY <1>2, <3>1, <3>2, <3>3
  <2>3. PcInv'
    BY <2>2 DEF PcInv
  <2>4. HandInv'
    BY <2>1, <2>2, NoneFacts DEF HandInv
  <2>5. ObjectInv'
    BY <2>2 DEF ObjectInv
  <2>6. RelatedInv'
    BY <2>1, <2>2 DEF RelatedInv
  <2> QED
    BY <2>3, <2>4, <2>5, <2>6 DEF ControlInv
<1> QED
  BY <1>1, <1>2

-----------------------------------------------------------------------------
(* The constructors *)

LEMMA FindChampionshipControl ==
  ASSUME ControlInv, FindChampionshipOfSeason
  PROVE  ControlInv'
<1>1. /\ pc = "find_championship" /\ pc' = "find" /\ result' = <<>>
      /\ UNCHANGED <<request, object, ids, related, saved, added, before, reply>>
      /\ request.op = "season" /\ IsSeason /\ ~ IsClub /\ IsSeason'
  BY DEF FindChampionshipOfSeason, history, ControlInv, PcInv, IsSeason, IsClub
<1>2. PcInv'
  BY <1>1 DEF ControlInv, PcInv
<1>3. HandInv'
  BY <1>1 DEF ControlInv, HandInv
<1>4. ObjectInv'
  BY <1>1 DEF ObjectInv
<1>5. RelatedInv'
  BY <1>1 DEF ControlInv, RelatedInv
<1> QED
  BY <1>2, <1>3, <1>4, <1>5 DEF ControlInv

LEMMA FindNamedControl ==
  ASSUME IInv, FindNamed
  PROVE  ControlInv'
<1> DEFINE fields == [id |-> NoId, name |-> request.name, country |-> request.country]
           found == IF IsClub THEN Store!ClubsFound(request.name, request.country)
                              ELSE Store!ChampionshipsFound(request.name)
<1>1. /\ pc = "find" /\ ~ IsSeason /\ pc' = "replace" /\ result' = <<>>
      /\ UNCHANGED <<tables, request, ids, related, saved, added, before, reply>>
      /\ IF found = {} THEN object' = fields ELSE object' \in found
  BY DEF FindNamed, Start, history
<1>2. /\ ControlInv /\ request # NoRequest /\ ~ IsSeason'
      /\ related = <<>> /\ ids = <<>> /\ added = NoId /\ before = NoRows
      /\ request.op \in {"home", "championship", "club"}
      /\ IsClub' = IsClub
  BY <1>1, RequestFacts DEF IInv, ControlInv, PcInv, HandInv, IsSeason, IsClub
<1>3. /\ championships \subseteq
           [id : Id, name : ChampionshipName \ {Empty}, country : KnownCountry]
      /\ clubs \subseteq [id : Id, name : ClubName, country : Country]
  BY TableFacts DEF IInv
<1>4. PcInv'
  BY <1>1, <1>2 DEF ControlInv, PcInv
<1>5. /\ request.name \in ChampionshipName \cup ClubName
      /\ request.country \in Country
  BY <1>2, RequestFacts DEF IsClub
<1>6. RelatedInv'
  BY <1>1, <1>2, IdsOfNothing DEF RelatedInv
<1>7. CASE found # {}
  <2>1. object' \in found
    BY <1>1, <1>7
  <2>2. object' \in IF IsClub THEN clubs ELSE championships
    BY <2>1 DEF Store!ClubsFound, Store!ChampionshipsFound
  <2>3. object' \in NamedObject
    BY <1>3, <2>2, MysqlAssumption DEF NamedObject, Field, IdOrNone
  <2>4. HandInv'
    BY <1>1, <1>2, <2>3 DEF ControlInv, HandInv
  <2>5. ObjectInv'
    BY <1>1, <1>2, <2>1 DEF ObjectInv, ChampionshipInHand, ClubInHand, tables, IsClub,
       Store!ClubsFound, Store!ChampionshipsFound, Store!First, Store!Second
  <2> QED
    BY <1>4, <1>6, <2>4, <2>5 DEF ControlInv
<1>8. CASE found = {}
  <2>1. object' = fields
    BY <1>1, <1>8
  <2>2. object' \in NamedObject
    BY <1>5, <2>1 DEF NamedObject, Field, IdOrNone
  <2>3. HandInv'
    BY <1>1, <1>2, <2>2 DEF ControlInv, HandInv
  <2>4. ObjectInv'
    BY <1>1, <1>2, <1>8, <2>1 DEF ObjectInv, ChampionshipInHand, ClubInHand, tables, IsClub,
       Store!ClubsFound, Store!ChampionshipsFound, Store!First, Store!Second
  <2> QED
    BY <1>4, <1>6, <2>3, <2>4 DEF ControlInv
<1> QED
  BY <1>7, <1>8

LEMMA FindSeasonControl ==
  ASSUME IInv, FindSeason
  PROVE  ControlInv'
<1> DEFINE isNew == request.op = "season"
           fields == IF isNew
             THEN [id |-> NoId, championship |-> request.championship, year |-> request.year]
             ELSE [id |-> request.season, championship |-> NoId, year |-> Empty]
           found == IF isNew THEN Store!SeasonsFound(request.championship, request.year)
                             ELSE Store!SeasonsWithId(request.season)
<1>1. /\ pc = "find" /\ IsSeason /\ result' = <<>>
      /\ pc' = IF found # {} THEN "list" ELSE IF isNew THEN "replace" ELSE "find_club"
      /\ UNCHANGED <<tables, request, ids, related, saved, added, before, reply>>
      /\ IF found = {} THEN object' = fields ELSE object' \in found
  BY DEF FindSeason, Start, history
<1>2. /\ ControlInv /\ IsSeason' /\ ~ IsClub' /\ request.op \in {"season", "season_club"}
      /\ related = <<>> /\ ids = <<>> /\ added = NoId /\ before = NoRows
  BY <1>1 DEF IInv, ControlInv, HandInv, IsSeason, IsClub
<1>3. /\ seasons \subseteq [id : Id, championship : Id, year : Year \ {Empty}]
      /\ clubs_seasons \subseteq [season : Id, club : Id]
      /\ \A m \in clubs_seasons : \E s \in seasons : s.id = m.season
  BY TableFacts DEF IInv
<1>4. PcInv'
  BY <1>1, <1>2 DEF ControlInv, PcInv
<1>5. /\ request.op = "season" => request.championship \in Id /\ request.year \in Year
      /\ request.op = "season_club" => request.season \in Id /\ request.club \in Id
  BY <1>2, RequestFacts
<1>6. CASE found # {}
  <2>1. object' \in found
    BY <1>1, <1>6
  <2>2. object' \in seasons /\ (~ isNew => object'.id = request.season)
    BY <2>1 DEF Store!SeasonsFound, Store!SeasonsWithId
  <2>3. object' \in SeasonObject
    BY <1>3, <2>2 DEF SeasonObject, IdOrNone
  <2>4. HandInv'
    BY <1>1, <1>2, <1>6, <2>3 DEF ControlInv, HandInv
  <2>5. ObjectInv'
    BY <1>1, <1>2, <1>6, <2>1, <2>2
       DEF ObjectInv, SeasonInHand, tables, Store!SeasonsFound, Store!Second
  <2>6. RelatedInv'
    BY <1>1, <1>2, <1>6 DEF RelatedInv
  <2> QED
    BY <1>4, <2>4, <2>5, <2>6 DEF ControlInv
<1>7. CASE found = {}
  <2>1. object' = fields /\ pc' = IF isNew THEN "replace" ELSE "find_club"
    BY <1>1, <1>7
  <2>2. object' \in SeasonObject
    BY <1>2, <1>5, <2>1 DEF SeasonObject, IdOrNone
  <2>3. HandInv'
    BY <1>1, <1>2, <2>1, <2>2 DEF ControlInv, HandInv
  <2>4. SeasonInHand'
    BY <1>1, <1>2, <1>7, <2>1 DEF SeasonInHand, tables, Store!SeasonsFound,
       Store!Second, Store!SeasonsWithId
  <2>5. ObjectInv'
    BY <1>1, <1>2, <2>1, <2>4 DEF ObjectInv
  <2>6. Store!SeasonClubs(object.id)' = {}
    <3>1. \A m \in clubs_seasons : m.season # object'.id
      BY <1>2, <1>3, <1>7, <2>1, NoneFacts DEF Store!SeasonsWithId
    <3> QED
      BY <1>1, <3>1 DEF Store!SeasonClubs, tables
  <2>7. isNew => added' = Added' /\ Added' = NoId
    BY <1>1, <1>2 DEF Added
  <2>8. RelatedInv'
    <3>1. /\ related' = <<>>
          /\ pc' = IF isNew THEN "replace" ELSE "find_club"
      BY <1>1, <1>2, <2>1
    <3>2. \A t \in Id : ~ (t = Added' /\ t # NoId) \/ pc' = "find_club"
      BY <2>7, <3>1
    <3>3. \A i \in DOMAIN related : FALSE
      BY <1>2
    <3>4. /\ Distinct(IdsOf(related)')
          /\ \A t : ~ In(t, IdsOf(related)')
      BY <3>1, IdsOfNothing
    <3> QED
      BY <1>1, <1>2, <2>6, <2>7, <3>1, <3>2, <3>3, <3>4 DEF RelatedInv
  <2> QED
    BY <1>4, <2>3, <2>5, <2>8 DEF ControlInv
<1> QED
  BY <1>6, <1>7

\* The list is the season's clubs, each once.
LEMMA ListControl ==
  ASSUME IInv, ListClubs
  PROVE  ControlInv'
<1> DEFINE listed == Store!SeasonClubs(object.id)
           n == Cardinality(listed)
<1>1. /\ pc = "list" /\ pc' = "next" /\ result' \in Injection(1 .. n, listed)
      /\ UNCHANGED <<tables, request, object, ids, related, saved, added, before, reply>>
  BY DEF ListClubs, history
<1>2. ControlInv /\ IsSeason /\ IsSeason' /\ ~ IsClub' /\ ids = <<>>
  BY <1>1 DEF IInv, ControlInv, PcInv, HandInv, IsSeason, IsClub
<1>3. listed \subseteq Id
  BY SeasonClubsFacts
<1>4. IsFiniteSet(listed) /\ n \in Nat
  <2>1. IsFiniteSet(Id)
    BY MysqlAssumption, FS_Interval DEF Id, Store!Id
  <2> QED
    BY <1>3, <2>1, FS_Subset, FS_CardinalityType
<1> HIDE DEF listed, n
<1>5. /\ result' \in [1 .. n -> listed]
      /\ \A i, j \in 1 .. n : result'[i] = result'[j] => i = j
  BY <1>1 DEF Injection, IsInjective
<1>6. \A t \in listed : \E i \in 1 .. n : result'[i] = t
  <2>1. IsFiniteSet(1 .. n) /\ Cardinality(1 .. n) = n
    BY <1>4, FS_Interval
  <2>2. result' \in Surjection(1 .. n, listed)
    BY <1>1, <1>4, <2>1, FS_Injection DEF n
  <2> QED
    BY <2>2 DEF Surjection
<1>7. /\ result' \in Seq(Id) /\ DOMAIN result' = 1 .. n
  BY <1>3, <1>4, <1>5
<1>8. /\ Distinct(result')
      /\ \A t : t \in listed <=> In(t, result')
  BY <1>5, <1>6, <1>7 DEF Distinct, In
<1>9. PcInv'
  BY <1>1, <1>2 DEF ControlInv, PcInv
<1>10. HandInv'
  BY <1>1, <1>2, <1>7 DEF ControlInv, HandInv
<1>11. ObjectInv'
  BY <1>1, <1>2 DEF ControlInv, ObjectInv, SeasonInHand, tables,
     Store!SeasonsFound, Store!Second, Store!SeasonsWithId
<1>12. RelatedInv'
  <2>1. Shared(result', ids', listed)
    BY <1>1, <1>2, <1>8, NothingIn DEF Shared
  <2>2. Store!SeasonClubs(object.id)' = listed
    BY <1>1 DEF Store!SeasonClubs, tables, listed
  <2> QED
    BY <1>1, <1>2, <2>1, <2>2 DEF ControlInv, RelatedInv
<1> QED
  BY <1>9, <1>10, <1>11, <1>12 DEF ControlInv

\* A step that leaves the tables, the request and the object alone, between the
\* places where a season is looked up.
LEMMA LoadingObject ==
  ASSUME ControlInv, pc \in {"next", "load", "find_club"},
         pc' \in {"next", "load", "find_club", "replace"},
         pc = "find_club" => pc' = "replace",
         UNCHANGED <<tables, request, object>>
  PROVE  /\ IsSeason' /\ ~ IsClub' /\ ObjectInv'
         /\ Store!SeasonClubs(object.id)' = Store!SeasonClubs(object.id)
<1>1. IsSeason /\ IsSeason' /\ ~ IsClub'
  BY DEF ControlInv, PcInv, IsSeason, IsClub
<1>2. SeasonInHand'
  BY DEF ControlInv, ObjectInv, SeasonInHand, tables, Store!SeasonsFound, Store!Second,
     Store!SeasonsWithId
<1>3. pc # "find_club" => object \in seasons
  BY <1>1 DEF ControlInv, ObjectInv
<1>4. ObjectInv'
  BY <1>1, <1>2, <1>3 DEF ObjectInv, tables, IsClub, IsSeason
<1> QED
  BY <1>1, <1>4 DEF Store!SeasonClubs, tables

\* A row is read: its club moves from the result to the ids.
LEMMA NextRowControl ==
  ASSUME IInv, NextRow
  PROVE  ControlInv'
<1>1. /\ pc = "next" /\ result # <<>> /\ pc' = pc
      /\ ids' = Append(ids, Head(result)) /\ result' = Tail(result)
      /\ UNCHANGED <<tables, request, object, related, saved, added, before, reply>>
  BY DEF NextRow, history
<1>2. ControlInv /\ result \in Seq(Id) /\ ids \in Seq(Id)
  BY DEF IInv, ControlInv, HandInv
<1> DEFINE listed == Store!SeasonClubs(object.id)
<1>3. /\ IsSeason' /\ ~ IsClub' /\ ObjectInv'
      /\ Store!SeasonClubs(object.id)' = listed
  BY <1>1, <1>2, LoadingObject
<1>4. Shared(result, ids, listed)
  BY <1>1, <1>2 DEF ControlInv, RelatedInv
<1> HIDE DEF listed
<1>5. /\ Head(result) \in Id /\ Tail(result) \in Seq(Id)
      /\ \A t : In(t, result) <=> In(t, Tail(result)) \/ t = Head(result)
      /\ Distinct(Tail(result)) /\ ~ In(Head(result), Tail(result))
  BY <1>1, <1>2, <1>4, DropHead DEF Shared
<1>6. /\ Append(ids, Head(result)) \in Seq(Id)
      /\ \A t : In(t, Append(ids, Head(result))) <=> In(t, ids) \/ t = Head(result)
      /\ ~ In(Head(result), ids) => Distinct(Append(ids, Head(result)))
  BY <1>2, <1>4, <1>5, AppendNew DEF Shared
<1>7. Shared(result', ids', listed)
  BY <1>1, <1>4, <1>5, <1>6 DEF Shared
<1>8. PcInv'
  BY <1>1, <1>2 DEF ControlInv, PcInv, IsSeason
<1>9. HandInv'
  BY <1>1, <1>2, <1>3, <1>5, <1>6 DEF ControlInv, HandInv
<1>10. RelatedInv'
  BY <1>1, <1>2, <1>3, <1>7 DEF ControlInv, RelatedInv
<1> QED
  BY <1>3, <1>8, <1>9, <1>10 DEF ControlInv

LEMMA LastRowControl ==
  ASSUME IInv, LastRow
  PROVE  ControlInv'
<1>1. /\ pc = "next" /\ result = <<>> /\ pc' = "load"
      /\ UNCHANGED <<tables, request, object, result, ids, related, saved, added, before, reply>>
  BY DEF LastRow, hand, history
<1>2. ControlInv /\ related = <<>>
  BY <1>1 DEF IInv, ControlInv, HandInv
<1> DEFINE listed == Store!SeasonClubs(object.id)
<1>3. /\ IsSeason' /\ ~ IsClub' /\ ObjectInv'
      /\ Store!SeasonClubs(object.id)' = listed
  BY <1>1, <1>2, LoadingObject
<1>4. Shared(result, ids, listed)
  BY <1>1, <1>2 DEF ControlInv, RelatedInv
<1> HIDE DEF listed
<1>5. Shared(ids, IdsOf(related), listed)
  BY <1>1, <1>2, <1>4, IdsOfNothing, NothingIn DEF Shared
<1>6. IdsOf(related)' = IdsOf(related)
  BY <1>1 DEF IdsOf
<1>7. PcInv'
  BY <1>1, <1>2 DEF ControlInv, PcInv, IsSeason
<1>8. HandInv'
  BY <1>1, <1>2, <1>3 DEF ControlInv, HandInv
<1>9. RelatedInv'
  BY <1>1, <1>2, <1>3, <1>5, <1>6 DEF ControlInv, RelatedInv
<1> QED
  BY <1>3, <1>7, <1>8, <1>9 DEF ControlInv

\* club{id}: the row with that id, or only the id.
LEMMA ClubByIdFacts ==
  ASSUME IInv, NEW i \in Id
  PROVE  /\ ClubById(i) \in RelatedClub /\ ClubById(i).id = i
         /\ (\E c \in clubs : c.id = i) => ClubById(i) \in clubs
         /\ \A c \in clubs : c.id = i => ClubById(i) = c
         /\ ClubById(i) \notin clubs => ClubById(i).country = Empty
<1> DEFINE found == {c \in clubs : c.id = i}
<1>1. /\ clubs \subseteq [id : Id, name : ClubName, country : Country]
      /\ \A c, d \in clubs : c.id = d.id => c = d
  BY TableFacts DEF IInv
<1>2. CASE found = {}
  <2>1. ClubById(i) = [id |-> i, name |-> Empty, country |-> Empty]
    BY <1>2 DEF ClubById
  <2> QED
    BY <1>2, <2>1 DEF RelatedClub, Field
<1>3. CASE found # {}
  <2>1. ClubById(i) \in found
    BY <1>3 DEF ClubById
  <2>2. ClubById(i) \in [id : Id, name : ClubName, country : Country]
    BY <1>1, <2>1
  <2>3. ClubById(i) \in RelatedClub
    BY <2>2 DEF RelatedClub, Field
  <2> QED
    BY <1>1, <2>1, <2>3
<1> QED
  BY <1>2, <1>3

\* A club is constructed: its id moves from the ids to the clubs in hand.
LEMMA LoadClubControl ==
  ASSUME IInv, LoadClub
  PROVE  ControlInv'
<1> DEFINE club == ClubById(Head(ids))
           listed == Store!SeasonClubs(object.id)
<1>1. /\ pc = "load" /\ ids # <<>> /\ pc' = pc
      /\ related' = Append(related, club) /\ ids' = Tail(ids) /\ result' = <<>>
      /\ UNCHANGED <<tables, request, object, saved, added, before, reply>>
  BY DEF LoadClub, history
<1>2. ControlInv /\ ids \in Seq(Id) /\ related \in Seq(RelatedClub) /\ added = NoId
  BY <1>1 DEF IInv, ControlInv, HandInv
<1>3. /\ IsSeason' /\ ~ IsClub' /\ ObjectInv'
      /\ Store!SeasonClubs(object.id)' = listed
  BY <1>1, <1>2, LoadingObject
<1>4. Shared(ids, IdsOf(related), listed)
  BY <1>1, <1>2 DEF ControlInv, RelatedInv
<1>5. \A t \in listed : \E c \in clubs : c.id = t
  BY SeasonClubsFacts
<1> HIDE DEF listed
<1>6. /\ Head(ids) \in Id /\ Tail(ids) \in Seq(Id)
      /\ \A t : In(t, ids) <=> In(t, Tail(ids)) \/ t = Head(ids)
      /\ Distinct(Tail(ids)) /\ ~ In(Head(ids), Tail(ids))
  BY <1>1, <1>2, <1>4, DropHead DEF Shared
<1>7. Head(ids) \in listed
  BY <1>4, <1>6 DEF Shared
<1>8. club \in RelatedClub /\ club.id = Head(ids) /\ club \in clubs
  BY <1>5, <1>6, <1>7, ClubByIdFacts
<1> HIDE DEF club
<1>9. IdsOf(related') = Append(IdsOf(related), Head(ids)) /\ IdsOf(related) \in Seq(Id)
  BY <1>1, <1>2, <1>8, IdsFacts
<1>10. /\ \A t : In(t, IdsOf(related')) <=> In(t, IdsOf(related)) \/ t = Head(ids)
       /\ ~ In(Head(ids), IdsOf(related)) => Distinct(IdsOf(related'))
  BY <1>4, <1>6, <1>9, AppendNew DEF Shared
<1>11. Shared(ids', IdsOf(related'), listed)
  BY <1>1, <1>4, <1>6, <1>10 DEF Shared
<1>12. /\ related' \in Seq(RelatedClub)
       /\ \A i \in DOMAIN related' : related'[i] \in clubs
  <2>1. \A i \in DOMAIN related : related[i] \in clubs
    BY <1>1, <1>2 DEF ControlInv, RelatedInv
  <2>2. /\ Append(related, club) \in Seq(RelatedClub) /\ Len(related) \in Nat
        /\ DOMAIN related = 1 .. Len(related)
        /\ DOMAIN Append(related, club) = 1 .. (Len(related) + 1)
        /\ \A i \in 1 .. Len(related) : Append(related, club)[i] = related[i]
        /\ Append(related, club)[Len(related) + 1] = club
    BY <1>2, <1>8
  <2>3. \A i \in 1 .. (Len(related) + 1) : i \in 1 .. Len(related) \/ i = Len(related) + 1
    BY <2>2
  <2> QED
    BY <1>1, <1>8, <2>1, <2>2, <2>3
<1>13. PcInv'
  BY <1>1, <1>2 DEF ControlInv, PcInv, IsSeason
<1>14. HandInv'
  BY <1>1, <1>2, <1>3, <1>6, <1>12 DEF ControlInv, HandInv
<1>15. RelatedInv'
  <2>1. \A i \in DOMAIN related' : related'[i].id # added'
    <3>1. \A i \in DOMAIN related' : related'[i] \in RelatedClub
      BY <1>12
    <3> QED
      BY <1>1, <1>2, <3>1, NoneFacts DEF RelatedClub
  <2> QED
    BY <1>1, <1>3, <1>11, <1>12, <2>1 DEF RelatedInv, tables
<1> QED
  BY <1>3, <1>13, <1>14, <1>15 DEF ControlInv

\* The clubs in hand are all of the season's.
LEMMA LoadedControl ==
  ASSUME IInv, Loaded
  PROVE  ControlInv'
<1> DEFINE listed == Store!SeasonClubs(object.id)
<1>1. /\ pc = "load" /\ ids = <<>>
      /\ pc' = IF request.op = "season_club" THEN "find_club" ELSE "replace"
      /\ UNCHANGED <<tables, request, object, result, ids, related, saved, added, before, reply>>
  BY DEF Loaded, hand, history
<1>2. ControlInv /\ IsSeason /\ added = NoId
  BY <1>1 DEF IInv, ControlInv, PcInv, HandInv
<1>3. /\ IsSeason' /\ ~ IsClub' /\ ObjectInv'
      /\ Store!SeasonClubs(object.id)' = listed
  BY <1>1, <1>2, LoadingObject
<1>4. Shared(ids, IdsOf(related), listed)
  BY <1>1, <1>2 DEF ControlInv, RelatedInv
<1> HIDE DEF listed
<1>5. /\ Distinct(IdsOf(related))
      /\ \A t \in Id : t \in listed <=> In(t, IdsOf(related))
  BY <1>1, <1>4, NothingIn DEF Shared
<1>6. IdsOf(related)' = IdsOf(related)
  BY <1>1 DEF IdsOf
<1>7. pc' = "replace" => added' = Added' /\ Added' = NoId
  BY <1>1, <1>2 DEF Added, IsSeason
<1>8. PcInv'
  BY <1>1, <1>2 DEF ControlInv, PcInv, IsSeason
<1>9. HandInv'
  BY <1>1, <1>2, <1>3 DEF ControlInv, HandInv
<1>10. RelatedInv'
  <2>1. /\ \A i \in DOMAIN related : related[i] \in clubs
        /\ \A i \in DOMAIN related : related[i].id = added => i = Len(related)
    BY <1>1, <1>2 DEF ControlInv, RelatedInv
  <2>2. pc' = "replace" => \A t \in Id : In(t, IdsOf(related)') <=>
                             t \in listed \/ (t = Added' /\ t # NoId)
    BY <1>5, <1>6, <1>7
  <2>3. /\ Distinct(IdsOf(related)')
        /\ \A t \in Id : t \in listed <=> In(t, IdsOf(related)')
    BY <1>5, <1>6
  <2>4. /\ \A i \in DOMAIN related' : related'[i] \in clubs'
        /\ \A i \in DOMAIN related' : related'[i].id = added' => i = Len(related')
    BY <1>1, <2>1 DEF tables
  <2>5. pc' \in {"find_club", "replace"}
    BY <1>1
  <2> QED
    BY <1>3, <1>7, <2>2, <2>3, <2>4, <2>5 DEF RelatedInv
<1> QED
  BY <1>3, <1>8, <1>9, <1>10 DEF ControlInv

\* add_club puts a club at the end unless the season has it: names and countries
\* tell the clubs apart that their ids do.
LEMMA AddClubControl ==
  ASSUME IInv, AddClub
  PROVE  ControlInv'
<1> DEFINE club == ClubById(request.club)
           known == \E i \in DOMAIN related : /\ related[i].name = club.name
                                              /\ related[i].country = club.country
           listed == Store!SeasonClubs(object.id)
<1>1. /\ pc = "find_club" /\ pc' = "replace" /\ result' = <<>>
      /\ related' = IF known THEN related ELSE Append(related, club)
      /\ added' = IF known THEN NoId ELSE club.id
      /\ UNCHANGED <<tables, request, object, ids, saved, before, reply>>
  BY DEF AddClub
<1>2. /\ ControlInv /\ request.op = "season_club"
      /\ related \in Seq(RelatedClub)
  BY <1>1 DEF IInv, ControlInv, PcInv, HandInv
<1>3. /\ IsSeason' /\ ~ IsClub' /\ ObjectInv'
      /\ Store!SeasonClubs(object.id)' = listed
  BY <1>1, <1>2, LoadingObject
<1>4. /\ \A i \in DOMAIN related : related[i] \in clubs
      /\ Distinct(IdsOf(related))
      /\ \A t \in Id : t \in listed <=> In(t, IdsOf(related))
  BY <1>1, <1>2 DEF ControlInv, RelatedInv
<1>5. request.club \in Id
  BY <1>2, RequestFacts
<1>6. /\ club \in RelatedClub /\ club.id = request.club
      /\ (\E c \in clubs : c.id = request.club) => club \in clubs
      /\ \A c \in clubs : c.id = request.club => club = c
      /\ club \notin clubs => club.country = Empty
  BY <1>5, ClubByIdFacts
<1> HIDE DEF listed, club
<1>7. /\ clubs \subseteq [id : Id, name : ClubName, country : Country]
      /\ \A c, d \in clubs : c.id = d.id \/ c.name = d.name => c = d
      /\ Empty \notin Country
  BY TableFacts, MysqlAssumption DEF IInv
<1>8. \A t : In(t, IdsOf(related)) <=> \E i \in DOMAIN related : related[i].id = t
  BY DEF In, IdsOf
<1>9. known <=> In(request.club, IdsOf(related))
  <2>1. ASSUME known PROVE In(request.club, IdsOf(related))
    <3>1. PICK i \in DOMAIN related : /\ related[i].name = club.name
                                      /\ related[i].country = club.country
      BY <2>1
    <3>2. related[i] \in clubs /\ related[i].country \in Country
      BY <1>4, <1>7
    <3>3. club \in clubs
      BY <1>6, <1>7, <3>1, <3>2
    <3>4. related[i].id = request.club
      BY <1>6, <1>7, <3>1, <3>2, <3>3
    <3> QED
      BY <1>8, <3>4
  <2>2. ASSUME In(request.club, IdsOf(related)) PROVE known
    <3>1. PICK i \in DOMAIN related : related[i].id = request.club
      BY <1>8, <2>2
    <3>2. related[i] = club
      BY <1>4, <1>6, <3>1
    <3> QED
      BY <3>2
  <2> QED
    BY <2>1, <2>2
<1> HIDE DEF known
<1>10. Added' = IF known THEN NoId ELSE request.club
  BY <1>1, <1>2, <1>3, <1>4, <1>5, <1>9 DEF Added
<1>11. added' = Added' /\ Added' \in IdOrNone
  BY <1>1, <1>5, <1>6, <1>10, NoneFacts DEF IdOrNone
<1>12. \A i \in DOMAIN related : related[i].id \in Id
  <2>1. \A i \in DOMAIN related : related[i] \in RelatedClub
    BY <1>2
  <2> QED
    BY <2>1 DEF RelatedClub
<1>13. /\ Distinct(IdsOf(related)')
       /\ \A t \in Id : In(t, IdsOf(related)') <=>
                          t \in listed \/ (t = Added' /\ t # NoId)
       /\ \A i \in DOMAIN related' : related'[i].id = added' => i = Len(related')
       /\ related' \in Seq(RelatedClub)
  <2>1. CASE known
    <3>1. /\ related' = related /\ added' = NoId
          /\ IdsOf(related)' = IdsOf(related)
      BY <1>1, <1>10, <1>11, <2>1 DEF IdsOf
    <3>2. /\ Distinct(IdsOf(related)')
          /\ \A t \in Id : In(t, IdsOf(related)') <=>
                             t \in listed \/ (t = Added' /\ t # NoId)
          /\ \A i \in DOMAIN related' : related'[i].id # added'
          /\ related' \in Seq(RelatedClub)
      BY <1>2, <1>4, <1>10, <1>12, <2>1, <3>1, NoneFacts
    <3> QED
      BY <3>2
  <2>2. CASE ~ known
    <3>1. related' = Append(related, club) /\ added' = request.club /\ Added' = request.club
      BY <1>1, <1>10, <1>11, <2>2
    <3>2. /\ IdsOf(related') = Append(IdsOf(related), request.club)
          /\ IdsOf(related) \in Seq(Id)
      BY <1>2, <1>6, <3>1, IdsFacts
    <3>3. /\ \A t : In(t, IdsOf(related')) <=> In(t, IdsOf(related)) \/ t = request.club
          /\ Distinct(IdsOf(related'))
      BY <1>4, <1>5, <1>9, <2>2, <3>2, AppendNew
    <3>4. \A i \in DOMAIN related : related[i].id # request.club
      BY <1>8, <1>9, <2>2
    <3>5. /\ Append(related, club) \in Seq(RelatedClub) /\ Len(related) \in Nat
          /\ DOMAIN related = 1 .. Len(related)
          /\ Len(Append(related, club)) = Len(related) + 1
          /\ DOMAIN Append(related, club) = 1 .. (Len(related) + 1)
          /\ \A i \in 1 .. Len(related) : Append(related, club)[i] = related[i]
      BY <1>2, <1>6
    <3>6. \A i \in 1 .. (Len(related) + 1) : i \in 1 .. Len(related) \/ i = Len(related) + 1
      BY <3>5
    <3>7. \A i \in DOMAIN related' : related'[i].id = added' => i = Len(related')
      BY <3>1, <3>4, <3>5, <3>6
    <3>8. \A t \in Id : In(t, IdsOf(related)') <=>
                          t \in listed \/ (t = Added' /\ t # NoId)
      BY <1>4, <3>1, <3>3, NoneFacts
    <3> QED
      BY <3>1, <3>3, <3>5, <3>7, <3>8
  <2> QED
    BY <2>1, <2>2
<1>14. PcInv'
  BY <1>1, <1>2 DEF ControlInv, PcInv
<1>15. HandInv'
  BY <1>1, <1>2, <1>3, <1>11, <1>13 DEF ControlInv, HandInv
<1>16. RelatedInv'
  BY <1>1, <1>3, <1>11, <1>13 DEF RelatedInv
<1> QED
  BY <1>3, <1>14, <1>15, <1>16 DEF ControlInv

-----------------------------------------------------------------------------
(* table::save *)

\* The row that has been written is found again.
LEMMA InsertControl ==
  ASSUME IInv, Insert
  PROVE  ControlInv'
<1>1. /\ ControlInv /\ pc = "replace" /\ pc' = "reload" /\ Allowed /\ Replace
      /\ request' = request /\ object' = object /\ related' = related /\ reply' = reply
      /\ result' = <<>> /\ ids' = ids /\ saved' = saved /\ added' = added
      /\ before' = Store!Rows
      /\ request.op \in {"home", "championship", "club", "season", "season_club"}
      /\ IsSeason' = IsSeason /\ IsClub' = IsClub
  BY InsertBegins, ReplaceAt DEF IInv, Insert, IsSeason, IsClub
<1>2. before' \in RowSets
  BY <1>1, TableFacts
     DEF IInv, Store!Rows, RowSets, Store!Championship, Store!Club, Store!Season,
         Store!Membership, Id
<1>3. (RowsOfObject # {})'
  <2>1. CASE request.op = "championship"
    <3> DEFINE row == RowOf("championships")
    <3>1. /\ row = [id |-> row.id, name |-> request.name, country |-> row.country]
          /\ object.name = request.name
      BY <1>1, <2>1, ChampionshipHeld
    <3>2. championships' = (championships \ ChampionshipsReplaced) \cup {row}
      BY <1>1, <2>1, ReplaceAt DEF ReplaceChampionship
    <3> HIDE DEF row
    <3>3. row \in championships' /\ row.name = object.name
      BY <3>1, <3>2
    <3> QED
      BY <1>1, <2>1, <3>3 DEF RowsOfObject, IsClub, IsSeason
  <2>2. CASE IsClub
    <3> DEFINE row == RowOf("clubs")
    <3>1. /\ row = [id |-> row.id, name |-> object.name, country |-> object.country]
      BY <1>1, <2>2, ClubHeld
    <3>2. row \in clubs'
      BY <1>1, <2>2, ReplaceAt DEF ReplaceClub, Store!ReplaceClub
    <3> HIDE DEF row
    <3>3. RowsOfObject' = {c \in clubs' : c.name = object.name /\ c.country = object.country}
      BY <1>1, <2>2 DEF RowsOfObject, IsClub, IsSeason
    <3>4. row.name = object.name /\ row.country = object.country
      BY <3>1
    <3> QED
      BY <3>2, <3>3, <3>4
  <2>3. CASE IsSeason
    BY <1>1, <2>3, SeasonWritten
  <2> QED
    BY <1>1, <2>1, <2>2, <2>3 DEF IsClub, IsSeason
<1>4. PcInv'
  BY <1>1 DEF ControlInv, PcInv
<1>5. HandInv'
  BY <1>1, <1>2 DEF ControlInv, HandInv
<1>6. ObjectInv'
  BY <1>1, <1>3 DEF ObjectInv
<1>7. RelatedInv'
  BY <1>1, <1>2 DEF ControlInv, RelatedInv, IdsOf
<1> QED
  BY <1>4, <1>5, <1>6, <1>7 DEF ControlInv

LEMMA InsertThrowsControl ==
  ASSUME IInv, InsertThrows
  PROVE  ControlInv'
BY ObjectId, ReturnControl DEF IInv, InsertThrows

LEMMA ReloadControl ==
  ASSUME IInv, Reload
  PROVE  ControlInv'
<1>1. /\ ControlInv /\ pc = "reload" /\ UNCHANGED tables /\ RowsOfObject # {}
      /\ request.op \in {"home", "championship", "club", "season", "season_club"}
  BY RequestFacts DEF Reload, IInv, ControlInv, PcInv, ObjectInv
<1>2. Row \in RowsOfObject
  BY <1>1 DEF Row
<1>3. /\ championships \subseteq
           [id : Id, name : ChampionshipName \ {Empty}, country : KnownCountry]
      /\ clubs \subseteq [id : Id, name : ClubName, country : Country]
      /\ seasons \subseteq [id : Id, championship : Id, year : Year \ {Empty}]
  BY TableFacts DEF IInv
<1>4. CASE /\ pc' = "related" /\ object' = Row /\ saved' = TRUE /\ result' = <<>>
           /\ UNCHANGED <<request, ids, related, history, reply>>
  <2>1. /\ IsSeason' = IsSeason /\ IsClub' = IsClub
        /\ UNCHANGED <<added, before>>
    BY <1>4 DEF IsSeason, IsClub, history
  <2>2. /\ IsSeason => Row \in seasons
        /\ ~ IsSeason => Row \in championships \cup clubs
    BY <1>1, <1>2 DEF RowsOfObject, IsSeason, IsClub
  <2>3. object' \in SeasonObject \cup NamedObject
    BY <1>3, <1>4, <2>2, MysqlAssumption DEF SeasonObject, NamedObject, Field, IdOrNone
  <2>4. PcInv'
    BY <1>1, <1>4, <2>1 DEF ControlInv, PcInv
  <2>5. HandInv'
    BY <1>1, <1>4, <2>1, <2>3 DEF ControlInv, HandInv
  <2>6. ObjectInv'
    BY <1>1, <1>4, <2>1, <2>2 DEF ObjectInv, tables
  <2>7. RelatedInv'
    BY <1>1, <1>4, <2>1 DEF ControlInv, RelatedInv, IdsOf
  <2> QED
    BY <2>4, <2>5, <2>6, <2>7 DEF ControlInv
<1>5. CASE Return(object.id, FALSE, TRUE)
  BY <1>1, <1>5, ObjectId, ReturnControl
<1> QED
  BY <1>4, <1>5 DEF Reload, Reloaded

\* The clubs that are left when the first has been saved or not.
LEMMA OneClubLess ==
  ASSUME ControlInv, related # <<>>
  PROVE  /\ Tail(related) \in Seq(RelatedClub)
         /\ Distinct(IdsOf(related)) => Distinct(IdsOf(Tail(related)))
         /\ \A i \in DOMAIN Tail(related) :
              Tail(related)[i].id = added => i = Len(Tail(related))
<1>1. related \in Seq(RelatedClub)
  BY DEF ControlInv, HandInv
<1>2. \A i \in DOMAIN related : related[i].id = added => i = Len(related)
  BY DEF ControlInv, RelatedInv
<1>3. /\ IdsOf(related) \in Seq(Id) /\ IdsOf(related) # <<>>
      /\ IdsOf(Tail(related)) = Tail(IdsOf(related))
  BY <1>1, IdsFacts
<1>4. Distinct(IdsOf(related)) => Distinct(IdsOf(Tail(related)))
  BY <1>3, DropHead
<1>5. /\ Tail(related) \in Seq(RelatedClub) /\ Len(related) \in Nat \ {0}
      /\ DOMAIN related = 1 .. Len(related)
      /\ Len(Tail(related)) = Len(related) - 1
      /\ DOMAIN Tail(related) = 1 .. (Len(related) - 1)
      /\ \A i \in 1 .. (Len(related) - 1) : Tail(related)[i] = related[i + 1]
  BY <1>1
<1>6. \A i \in 1 .. (Len(related) - 1) :
        i + 1 \in 1 .. Len(related) /\ (i + 1 = Len(related) => i = Len(related) - 1)
  <2>1. \A n \in Nat \ {0} : \A i \in 1 .. (n - 1) :
          i + 1 \in 1 .. n /\ (i + 1 = n => i = n - 1)
    OBVIOUS
  <2> QED
    BY <1>5, <2>1
<1> QED
  BY <1>2, <1>4, <1>5, <1>6

\* One turn of save_related's loop.
LEMMA TurnControl ==
  ASSUME IInv, pc \in {"related", "reload_related"}, related # <<>>,
         NEW success \in BOOLEAN, NEW fails, Turn(success, fails), result' = <<>>,
         UNCHANGED <<seasons, request, object, ids, added, before, reply>>
  PROVE  ControlInv'
<1>1. /\ ControlInv /\ IsSeason /\ IsSeason' /\ ~ IsClub' /\ Distinct(IdsOf(related))
  BY SaveGoesOn DEF IInv, IsSeason, IsClub
<1>2. pc' = "related" /\ related' = Tail(related) /\ saved' = success
  BY DEF Turn
<1>3. /\ related' \in Seq(RelatedClub) /\ Distinct(IdsOf(related)')
      /\ \A i \in DOMAIN related' : related'[i].id = added' => i = Len(related')
  BY <1>1, <1>2, OneClubLess
<1>4. PcInv'
  BY <1>1, <1>2 DEF ControlInv, PcInv
<1>5. HandInv'
  BY <1>1, <1>2, <1>3 DEF ControlInv, HandInv
<1>6. ObjectInv'
  BY <1>1, <1>2 DEF ControlInv, ObjectInv
<1>7. RelatedInv'
  BY <1>2, <1>3 DEF RelatedInv
<1> QED
  BY <1>4, <1>5, <1>6, <1>7 DEF ControlInv

LEMMA InsertRelatedControl ==
  ASSUME IInv, InsertRelated
  PROVE  ControlInv'
<1> DEFINE known == \E c \in clubs : c.id = Head(related).id
<1>1. /\ pc = "related" /\ related # <<>> /\ result' = <<>>
      /\ UNCHANGED <<seasons, request, object, ids, added, before, reply>>
      /\ \/ pc' = "reload_related" /\ UNCHANGED <<related, saved>>
         \/ Turn(FALSE, TRUE) \/ Turn(FALSE, known)
  BY DEF InsertRelated
<1> HIDE DEF known
<1>2. CASE Turn(FALSE, TRUE) \/ Turn(FALSE, known)
  BY <1>1, <1>2, TurnControl
<1>3. CASE pc' = "reload_related" /\ UNCHANGED <<related, saved>>
  <2>1. ControlInv /\ IsSeason /\ IsSeason' /\ ~ IsClub'
    BY <1>1, SaveGoesOn DEF IInv, IsSeason, IsClub
  <2>2. PcInv'
    BY <1>1, <1>3, <2>1 DEF ControlInv, PcInv
  <2>3. HandInv'
    BY <1>1, <1>3, <2>1 DEF ControlInv, HandInv
  <2>4. ObjectInv'
    BY <1>1, <1>3, <2>1 DEF ControlInv, ObjectInv
  <2>5. RelatedInv'
    BY <1>1, <1>3, <2>1 DEF ControlInv, RelatedInv, IdsOf
  <2> QED
    BY <2>2, <2>3, <2>4, <2>5 DEF ControlInv
<1> QED
  BY <1>1, <1>2, <1>3

LEMMA ReloadRelatedControl ==
  ASSUME IInv, ReloadRelated
  PROVE  ControlInv'
<1>1. /\ pc = "reload_related"
      /\ Turn(TRUE, FALSE) \/ Turn(FALSE, TRUE)
      /\ result' = <<>>
      /\ UNCHANGED <<seasons, request, object, ids, added, before, reply>>
  BY DEF ReloadRelated, tables
<1>2. related # <<>>
  BY <1>1, SaveGoesOn
<1> QED
  BY <1>1, <1>2, TurnControl

LEMMA EndSaveControl ==
  ASSUME IInv, EndSave
  PROVE  ControlInv'
<1>1. /\ ControlInv /\ pc = "related" /\ Return(object.id, saved, FALSE)
      /\ object.id \in IdOrNone /\ saved \in BOOLEAN
  BY ObjectId DEF IInv, EndSave, ControlInv, HandInv
<1> QED
  BY <1>1, ReturnControl

-----------------------------------------------------------------------------
(* The theorems *)

LEMMA InitMaps == Init => Store!Init
<1> SUFFICES ASSUME Init PROVE Store!Init
  OBVIOUS
<1>1. pc = "down" /\ request = NoRequest
  BY DEF Init
<1>2. Phase = "down"
  BY <1>1, PhaseNow DEF PhaseFacts, NoRequest
<1>3. SaveProgress = Store!NoSave
  BY <1>2, NothingSaved
<1> QED
  BY <1>2, <1>3 DEF Init, Store!Init

LEMMA InitIInv == Init => IInv
<1> SUFFICES ASSUME Init PROVE IInv
  OBVIOUS
<1>1. StoreProofs!IInv
  <2>1. StoreProofs!StoreAssumption
    BY MysqlAssumption DEF StoreProofs!StoreAssumption
  <2> QED
    BY <2>1, InitMaps, SameStore, StoreProofs!InitIInv
<1>2. /\ request = NoRequest /\ object = NoObject /\ pc = "down"
      /\ result = <<>> /\ ids = <<>> /\ related = <<>>
      /\ saved = FALSE /\ added = NoId /\ before = NoRows /\ reply = Store!NoResponse
      /\ ~ IsClub /\ ~ IsSeason /\ request.op = "none"
  BY DEF Init, NoRequest, IsClub, IsSeason
<1>3. PcInv
  BY <1>2 DEF PcInv
<1>4. HandInv
  <2>1. <<>> \in Seq(Id) /\ <<>> \in Seq(RelatedClub)
    OBVIOUS
  <2> QED
    BY <1>2, <2>1, NoneFacts DEF HandInv
<1>5. ObjectInv
  BY <1>2 DEF ObjectInv
<1>6. RelatedInv
  BY <1>2 DEF RelatedInv
<1> QED
  BY <1>1, <1>3, <1>4, <1>5, <1>6 DEF IInv, ControlInv

LEMMA UnchangedControl ==
  ASSUME ControlInv, UNCHANGED vars
  PROVE  ControlInv'
<1> USE DEF vars, tables, hand, history
<1>1. PcInv'
  BY DEF ControlInv, PcInv, IsSeason
<1>2. HandInv'
  BY DEF ControlInv, HandInv, IsSeason
<1>3. ObjectInv'
  BY DEF ControlInv, ObjectInv, IsClub, IsSeason, ChampionshipInHand, ClubInHand,
     SeasonInHand, RowsOfObject, Store!ChampionshipsFound, Store!ClubsFound,
     Store!SeasonsFound, Store!SeasonsWithId, Store!First, Store!Second
<1>4. RelatedInv'
  BY DEF ControlInv, RelatedInv, IsSeason, Added, Store!SeasonClubs
<1> QED
  BY <1>1, <1>2, <1>3, <1>4 DEF ControlInv

LEMMA NextIInv == IInv /\ [Next]_vars => IInv'
<1> SUFFICES ASSUME IInv, [Next]_vars PROVE IInv'
  OBVIOUS
<1>1. StoreProofs!IInv'
  <2>1. StoreProofs!IInv
    BY DEF IInv
  <2> QED
    BY <2>1, NextMaps, StoreKept
<1>2. CASE UNCHANGED vars
  BY <1>1, <1>2, UnchangedControl DEF IInv
<1>3. CASE Boot \/ (\E r \in Request : Accept(r)) \/ Respond \/ Crash
  BY <1>1, <1>3, RequestControl DEF IInv
<1>4. CASE FindChampionshipOfSeason \/ FindNamed \/ FindSeason
  BY <1>1, <1>4, FindChampionshipControl, FindNamedControl, FindSeasonControl DEF IInv
<1>5. CASE ListClubs \/ NextRow \/ LastRow \/ LoadClub \/ Loaded \/ AddClub
  BY <1>1, <1>5, ListControl, NextRowControl, LastRowControl, LoadClubControl,
     LoadedControl, AddClubControl DEF IInv
<1>6. CASE Insert \/ InsertThrows \/ Reload
  BY <1>1, <1>6, InsertControl, InsertThrowsControl, ReloadControl DEF IInv
<1>7. CASE InsertRelated \/ ReloadRelated \/ EndSave
  BY <1>1, <1>7, InsertRelatedControl, ReloadRelatedControl, EndSaveControl DEF IInv
<1> QED
  BY <1>2, <1>3, <1>4, <1>5, <1>6, <1>7 DEF Next

\* The inductive invariant is one: whatever the thread has in hand agrees with the
\* tables at every place of its code.
THEOREM Invariance == Spec => []IInv
<1>1. Init => IInv
  BY InitIInv
<1>2. IInv /\ [Next]_vars => IInv'
  BY NextIInv
<1> QED
  BY <1>1, <1>2, PTL DEF Spec

\* The variables have their types, and a thread without a request has no object in
\* hand: event_action's objects are gone when it returns.
THEOREM TypeCorrect == Spec => []TypeOK
<1>1. IInv => TypeOK
  <2> SUFFICES ASSUME IInv PROVE TypeOK
    OBVIOUS
  <2>1. /\ championships \subseteq Store!Championship /\ clubs \subseteq Store!Club
        /\ seasons \subseteq Store!Season /\ clubs_seasons \subseteq Store!Membership
        /\ counter \in [{"championships", "clubs", "seasons"} -> Id \cup {NoId}]
        /\ failed \in BOOLEAN
    BY TableFacts DEF IInv, Store!Championship, Store!Club, Store!Season, Store!Membership,
       Id, IdOrNone
  <2>2. PcInv /\ HandInv
    BY DEF IInv, ControlInv
  <2>3. request = NoRequest => object = NoObject /\ added = NoId /\ before = NoRows
    BY <2>2 DEF PcInv, HandInv
  <2> QED
    BY <2>1, <2>2, <2>3
       DEF TypeOK, PcInv, HandInv, NamedObject, SeasonObject, RelatedClub, IdOrNone,
           RowSets
<1> QED
  BY <1>1, Invariance, PTL

LEMMA SharedIsOnto ==
  ASSUME NEW S \in SUBSET Id, NEW a \in Seq(Id), NEW b \in Seq(Id), Shared(a, b, S)
  PROVE  Range(a \o b) = S /\ IsInjective(a \o b)
<1> DEFINE all == a \o b
<1>1. /\ all \in Seq(Id) /\ Distinct(all)
      /\ \A t : In(t, all) <=> In(t, a) \/ In(t, b)
  BY ConcatDistinct DEF Shared
<1> HIDE DEF all
<1>2. IsInjective(all)
  BY <1>1 DEF IsInjective, Distinct
<1>3. \A t : t \in Range(all) <=> In(t, all)
  BY DEF Range, In
<1>4. \A t \in Id : t \in S <=> t \in Range(all)
  BY <1>1, <1>3 DEF Shared
<1>5. Range(all) \subseteq Id
  BY <1>1 DEF Range
<1> QED
  BY <1>2, <1>4, <1>5 DEF all

\* While start_related loads a season's clubs, what its two loops have still to read
\* and to construct and what they have constructed are the season's clubs, each
\* once: no constructor's SELECT takes a row away that the loop still wants.
THEOREM LoadingLosesNothing == Spec => []RowsAccounted
<1>1. IInv => RowsAccounted
  <2> DEFINE listed == Store!SeasonClubs(object.id)
             all == result \o ids \o IdsOf(related)
  <2> SUFFICES ASSUME IInv, pc \in {"next", "load"}
               PROVE  Range(all) = listed /\ IsInjective(all)
    BY DEF RowsAccounted, IdsOf
  <2>1. /\ result \in Seq(Id) /\ ids \in Seq(Id) /\ related \in Seq(RelatedClub)
        /\ pc # "next" => result = <<>>
        /\ pc = "next" => related = <<>>
    BY DEF IInv, ControlInv, HandInv
  <2>2. IdsOf(related) \in Seq(Id)
    BY <2>1, IdsFacts
  <2>3. listed \subseteq Id
    BY SeasonClubsFacts
  <2> HIDE DEF listed
  <2>4. CASE pc = "next"
    <3>1. Shared(result, ids, listed)
      BY <2>4 DEF IInv, ControlInv, RelatedInv, listed
    <3>2. all = result \o ids
      BY <2>1, <2>4, IdsOfNothing
    <3> QED
      BY <2>1, <2>3, <3>1, <3>2, SharedIsOnto
  <2>5. CASE pc = "load"
    <3>1. Shared(ids, IdsOf(related), listed)
      BY <2>5 DEF IInv, ControlInv, RelatedInv, listed
    <3>2. all = ids \o IdsOf(related)
      BY <2>1, <2>2, <2>5
    <3> QED
      BY <2>1, <2>2, <2>3, <3>1, <3>2, SharedIsOnto
  <2> QED
    BY <2>4, <2>5
<1> QED
  BY <1>1, Invariance, PTL

\* The statements of table::save and of the constructors, with a crash between any
\* two of them and any REPLACE or reload failing, do what FootballStore's requests
\* do: every step is one of theirs or shows nothing.
THEOREM StatementsImplementStore == Spec => ImplementsStore
<1>1. Init => Store!Init
  BY InitMaps
<1>2. IInv /\ [Next]_vars => [Store!Next]_(Store!vars)
  BY NextMaps
<1> QED
  BY <1>1, <1>2, Invariance, PTL DEF Spec, ImplementsStore, Store!Spec

-----------------------------------------------------------------------------
(* What FootballStore promises is kept by the statements *)

\* The two copies of FootballStore promise the same.
LEMMA SamePromises ==
  /\ StoreProofs!RowsConsistent <=> Store!RowsConsistent
  /\ StoreProofs!SaveConfined <=> Store!SaveConfined
  /\ StoreProofs!Answered <=> Store!Answered
  /\ StoreProofs!SeasonIsWhole <=> Store!SeasonIsWhole
  /\ StoreProofs!Rows = Store!Rows
BY DEF StoreProofs!RowsConsistent, Store!RowsConsistent,
       StoreProofs!References, Store!References, StoreProofs!KeysUnique, Store!KeysUnique,
       StoreProofs!SaveConfined, Store!SaveConfined, StoreProofs!OfSaved, Store!OfSaved,
       StoreProofs!Answered, Store!Answered,
       StoreProofs!SeasonIsWhole, Store!SeasonIsWhole,
       StoreProofs!NoId, Store!NoId, StoreProofs!Rows, Store!Rows

\* With one statement at a time, any of which may fail, carried out or not, or be
\* the last, the tables are consistent between all of them, only the clubs of the
\* season being saved are ever missing, championships and seasons keep their rows, a
\* season whose answer is success is whole, and a request answered without success
\* has changed nothing unless the database failed it.
THEOREM StatementsKeepPromises ==
  Spec => /\ []Store!RowsConsistent /\ []Store!SaveConfined
          /\ Store!RowsKept /\ Store!SuccessIsWhole /\ Store!RejectedChangesNothing
<1>1. StoreProofs!StoreAssumption
  BY MysqlAssumption DEF StoreProofs!StoreAssumption
<1>2. Store!Spec => StoreProofs!Spec
  <2>1. [Store!Next]_(Store!vars) => [StoreProofs!Next]_(StoreProofs!vars)
    BY SameStore DEF StoreProofs!vars, Store!vars
  <2> QED
    BY <2>1, SameStore, PTL DEF Store!Spec, StoreProofs!Spec
<1>3. StoreProofs!Spec => []StoreProofs!RowsConsistent
  BY <1>1, StoreProofs!TablesConsistent
<1>4. StoreProofs!Spec => []StoreProofs!SaveConfined
  BY <1>1, StoreProofs!SavesAreConfined
<1>5. StoreProofs!Spec => StoreProofs!RowsKept
  BY <1>1, StoreProofs!ChampionshipsAndSeasonsKept
<1>6. StoreProofs!Spec => StoreProofs!SuccessIsWhole
  BY <1>1, StoreProofs!SeasonAnswerIsTrue
<1>7. StoreProofs!Spec => StoreProofs!RejectedChangesNothing
  BY <1>1, StoreProofs!RejectionIsHarmless
<1>8. /\ StoreProofs!RowsConsistent => Store!RowsConsistent
      /\ StoreProofs!SaveConfined => Store!SaveConfined
  BY SamePromises
<1>9. StoreProofs!RowsKept => Store!RowsKept
  <2>1. [championships \subseteq championships' /\ seasons \subseteq seasons']_(StoreProofs!vars)
        => [championships \subseteq championships' /\ seasons \subseteq seasons']_(Store!vars)
    BY SameStore DEF StoreProofs!vars, Store!vars
  <2> QED
    BY <2>1, PTL DEF StoreProofs!RowsKept, Store!RowsKept
<1>10. StoreProofs!SuccessIsWhole => Store!SuccessIsWhole
  <2>1. [SaveProgress.table = "seasons" /\ StoreProofs!Answered /\ reply'.success
           /\ ~ failed' => StoreProofs!SeasonIsWhole]_(StoreProofs!vars)
        => [SaveProgress.table = "seasons" /\ Store!Answered /\ reply'.success
              /\ ~ failed' => Store!SeasonIsWhole]_(Store!vars)
    BY SameStore, SamePromises DEF StoreProofs!vars, Store!vars
  <2> QED
    BY <2>1, PTL DEF StoreProofs!SuccessIsWhole, Store!SuccessIsWhole
<1>11. StoreProofs!RejectedChangesNothing => Store!RejectedChangesNothing
  <2>1. StoreProofs!Rows' = Store!Rows'
    BY DEF StoreProofs!Rows, Store!Rows
  <2>2. [StoreProofs!Answered /\ ~ reply'.success /\ ~ failed' =>
           StoreProofs!Rows' = IF Phase = "waiting" THEN StoreProofs!Rows
                               ELSE SaveProgress.before]_(StoreProofs!vars)
        => [Store!Answered /\ ~ reply'.success /\ ~ failed' =>
              Store!Rows' = IF Phase = "waiting" THEN Store!Rows
                            ELSE SaveProgress.before]_(Store!vars)
    BY <2>1, SameStore, SamePromises DEF StoreProofs!vars, Store!vars
  <2> QED
    BY <2>2, PTL DEF StoreProofs!RejectedChangesNothing, Store!RejectedChangesNothing
<1> QED
  BY <1>2, <1>3, <1>4, <1>5, <1>6, <1>7, <1>8, <1>9, <1>10, <1>11, StatementsImplementStore,
     PTL
     DEF ImplementsStore
=============================================================================
