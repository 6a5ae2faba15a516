----------------------------- MODULE Publisher -----------------------------
(***************************************************************************)
(* What a publisher (gazeta_esportiva) finds in a page: the search for the *)
(* name of a championship and for its clubs in the tree gumbo has made of  *)
(* the page, and get_new_championship, which a task of the radar calls.    *)
(*                                                                         *)
(* A page is an ordered tree.  Its nodes are numbered in document order,   *)
(* and a node is given by its tag and its parent; a text is a node that is *)
(* no element.  A link `a' starts with a text that is not shown: the link  *)
(* stands for it, so that what is found are nodes.  The searches read      *)
(* children.data[0] of a link and the class of a cell without a test: what *)
(* comes of a link that does not start with a text (broken), or of a cell  *)
(* without a class (bare_td), is Undefined.                                *)
(***************************************************************************)
EXTENDS Naturals, Sequences

LOCAL INSTANCE SequencesExt
LOCAL INSTANCE FiniteSetsExt

CONSTANT MaxNode \* bound on the nodes of a page

ASSUME PublisherAssumption == MaxNode \in Nat \ {0}

\* What matters to each search.  td: a cell of another class.
HeadingTag == {"div", "text", "h2", "a", "broken"}
CellTag == {"div", "td", "bare_td", "table__team", "team-link", "broken"}

\* The trees with n nodes: whatever comes between a node and its parent is below
\* the parent.
Tree(n) ==
  {parent \in [1 .. n -> 0 .. n - 1] :
     /\ \A i \in 1 .. n : parent[i] = 0 <=> i = 1
     /\ \A i \in 2 .. n : parent[i] < i /\ \A j \in parent[i] + 1 .. i : parent[j] >= parent[i]}

Page(tags) ==
  UNION {{page \in [tag : {t \in [1 .. n -> tags] : t[1] = "div"}, parent : Tree(n)] :
            \A i \in 2 .. n : page.tag[page.parent[i]] # "text"} : n \in 1 .. MaxNode}

Node(page) == DOMAIN page.tag
Kids(page, node) == {k \in Node(page) : page.parent[k] = node}
InOrder(nodes) == SetToSortSeq(nodes, <)
Tagged(page, tags) == {i \in Node(page) : page.tag[i] \in tags}

\* The node is children.data[0] of its parent.
IsFirst(page, node) == page.parent[node] = node - 1 /\ page.tag[node - 1] # "a"

Nothing == 0             \* an empty string
Undefined == MaxNode + 1 \* whatever an undefined read returns

\* The text of the last link directly below a heading: each overwrites the one
\* before.
LinkOf(page, heading) ==
  LET links == Kids(page, heading) \cap Tagged(page, {"a", "broken"}) IN
    IF links \cap Tagged(page, {"broken"}) # {} THEN Undefined
    ELSE IF links = {} THEN Nothing ELSE Max(links)

-----------------------------------------------------------------------------
(* Mutants: plausible slips of the definitions below. *)

\* The loop over the children has no break: a later heading wins.
LocateChampionshipLast(page) ==
  LET links == {LinkOf(page, h) : h \in Tagged(page, {"h2"})} IN Max(links \cup {Nothing})

\* The class of a cell is not compared.
LocateClubsAnyCell(page) ==
  InOrder({k \in Tagged(page, {"team-link"}) : page.tag[page.parent[k]] \in {"td", "table__team"}})

-----------------------------------------------------------------------------

\* locate_championship(root, url, result).  `result' is one string for the whole
\* recursion: a node's loop over its children visits the first whatever it holds,
\* and stops after the first that leaves it non-empty.
LocateChampionship(page) ==
  LET visit[node \in Node(page), result \in Nothing .. Undefined] ==
        LET link == IF page.tag[node] = "h2" THEN LinkOf(page, node) ELSE Nothing
            heading == IF link = Nothing \/ result = Undefined THEN result ELSE link
            turn(r, kid) == IF ~ IsFirst(page, kid) /\ r # Nothing THEN r ELSE visit[kid, r]
        IN FoldLeft(turn, heading, InOrder(Kids(page, node)))
  IN visit[1, Nothing]

\* locate_clubs(root, result): the links of each cell of class table__team.  What
\* is below a cell is not searched.
LocateClubs(page) ==
  LET links(cell) ==
        SelectSeq(InOrder(Kids(page, cell)),
                  LAMBDA k : page.tag[k] \in {"team-link", "broken"})
      visit[node \in Node(page)] ==
        LET kids == InOrder(Kids(page, node)) IN
          CASE page.tag[node] = "bare_td" -> <<Undefined>>
            [] page.tag[node] = "td" -> <<>>
            [] page.tag[node] = "table__team" ->
                 [i \in DOMAIN links(node) |->
                    IF page.tag[links(node)[i]] = "broken" THEN Undefined ELSE links(node)[i]]
            [] OTHER -> FlattenSeq([i \in DOMAIN kids |-> visit[kids[i]]])
  IN visit[1]

\* get_new_championship: no publisher, no success; and with one always success, a
\* page without a championship or one that could not be fetched included (it is an
\* empty page).  An exception would be caught and be a failure.
GetNewChampionship(publisher, page) ==
  IF publisher = "none" THEN [success |-> FALSE, name |-> Nothing]
  ELSE [success |-> TRUE, name |-> LocateChampionship(page)]

\* All that a call may return.
Found ==
  {GetNewChampionship(publisher, page) :
     publisher \in {"none", "gazeta_esportiva"}, page \in Page(HeadingTag)}

-----------------------------------------------------------------------------
(* Properties *)

Below(page, node, top) == top < node /\ \A j \in top + 1 .. node : page.parent[j] >= top
Nested(page, nodes) == \E m, n \in nodes : Below(page, n, m)

\* In a page whose links all start with a text, the name is a link below a heading,
\* and it is empty only if there is none.  Where no heading is inside another one it
\* is a link of the first heading that has one.  (Which of two nested headings gives
\* the name depends on what comes first in the outer one.)
ChampionshipLocated ==
  \A page \in {p \in Page(HeadingTag) : Tagged(p, {"broken"}) = {}} :
    LET name == LocateChampionship(page)
        headings == Tagged(page, {"h2"})
        titles == {h \in headings : Kids(page, h) \cap Tagged(page, {"a"}) # {}}
    IN IF titles = {} THEN name = Nothing
       ELSE /\ name \in Tagged(page, {"a"})
            /\ page.parent[name] \in titles
            /\ ~ Nested(page, headings) => page.parent[name] = Min(titles)

\* In a page whose cells have a class and whose links start with a text, the clubs are
\* links of cells of the class table__team, none twice and in the order of the page.
\* Where no cell is inside another one, they are all of these links.
ClubsLocated ==
  \A page \in {p \in Page(CellTag) : Tagged(p, {"bare_td", "broken"}) = {}} :
    LET clubs == LocateClubs(page)
        team == Tagged(page, {"table__team"})
        links == {k \in Tagged(page, {"team-link"}) : page.parent[k] \in team}
    IN /\ ToSet(clubs) \subseteq links
       /\ \A i, j \in DOMAIN clubs : i < j => clubs[i] < clubs[j]
       /\ ~ Nested(page, Tagged(page, {"td", "table__team"})) => ToSet(clubs) = links
=============================================================================
