----------------------------- MODULE ContentList -----------------------------
(***************************************************************************)
(* The filters of the Admin's content list (features/content:              *)
(* list-filters.tsx, list.tsx).  The address holds them; the query to the  *)
(* server, the controls shown, their count, the button that clears them    *)
(* and the text of an empty list are each computed from it on their own.   *)
(*                                                                         *)
(* Abstractions: a parameter is "" or one of a few values, "odd" for what  *)
(* is no number; how the text searched is debounced is left out.           *)
(***************************************************************************)
EXTENDS Naturals, FiniteSets

CONSTANTS
    Types,      \* the types of content
    Visited,    \* the addresses the list may be opened at: parameters that are not ""
    MaxGiven    \* bound on the parameters given at once

VARIABLE
    box    \* whether the user manages users; the address; whether filters are cleared

Keys ==
    {"q", "published", "sort", "state", "owner", "archived", "tag", "group", "language", "topic", "rating", "difficulty",
     "sourceLanguage", "filters"}

Advanced ==
    {"state", "owner", "archived", "tag", "group", "language", "topic", "rating", "difficulty", "sourceLanguage"}
OnlyCurated == {"topic", "rating", "difficulty", "sourceLanguage"}
ForManagers == {"owner", "archived"}
Numbers     == {"owner", "tag", "topic"}
NoText      == ""

NoAddress(type) == [type |-> type, at |-> [k \in Keys |-> NoText]]

Init ==
    \E manages \in BOOLEAN, type \in Types, given \in Visited :
        box = [manages |-> manages, cleared |-> FALSE, type |-> type,
               at |-> [k \in Keys |-> IF k \in DOMAIN given THEN given[k] ELSE NoText]]

-----------------------------------------------------------------------------
(* contentListQuery: what the server is asked to leave out.                 *)

OfType(k, type) ==
    /\ k = "tag" => type # "topic"
    /\ k = "group" => type = "note"
    /\ k \in OnlyCurated => type = "curated_article"

Narrows(b, k) ==
    /\ k \notin {"sort", "filters", "archived"} /\ OfType(k, b.type)
    /\ b.at[k] # NoText /\ (k \in Numbers => b.at[k] # "odd")

Query(b) == [type |-> b.type, narrowed |-> {<<k, b.at[k]>> : k \in {k \in Keys : Narrows(b, k)}},
             sort |-> IF b.at["sort"] = NoText THEN "updated_desc" ELSE b.at["sort"], archived |-> b.at["archived"] = "true"]

\* The text of an empty list: nothing matches, or there is nothing yet.
HasFilters(b) == Query(b).narrowed # {}
SaysNoMatch(b) == HasFilters(b) \/ Query(b).archived

-----------------------------------------------------------------------------
(* ContentListFilters.                                                      *)

Applicable(b) ==
    {k \in Advanced :
        /\ k \in ForManagers => b.manages
        /\ k \in OnlyCurated => b.type = "curated_article"
        /\ k = "group" => b.type = "note"
        /\ k = "tag" => b.type # "topic"}

Count(b)  == Cardinality({k \in Applicable(b) : b.at[k] \notin {NoText, "false"}})
Opened(b) == b.at["filters"] = "open" \/ (Count(b) > 0 /\ b.at["filters"] # "closed")
Active(b) == b.at["q"] # NoText \/ b.at["published"] # NoText \/ Count(b) > 0 \/ b.at["sort"] \notin {NoText, "updated_desc"}

\* The controls on the page.
Shown(b) ==
    {"q", "published", "sort"} \union
    (IF ~Opened(b) THEN {}
     ELSE {"state", "language"} \union (IF b.type # "topic" THEN {"tag"} ELSE {}) \union (IF b.type = "note" THEN {"group"} ELSE {})
          \union (IF b.type = "curated_article" THEN OnlyCurated ELSE {}) \union (IF b.manages THEN ForManagers ELSE {}))

Given(b) == Cardinality({k \in Keys : b.at[k] # NoText})

\* A control of the page is used; an empty value leaves the address.
Change ==
    \E k \in Shown(box) : \E value \in {NoText, IF k = "archived" THEN "true" ELSE "x"} :
        /\ value # NoText => Given(box) < MaxGiven
        /\ box' = [box EXCEPT !.at[k] = value, !.cleared = FALSE]

\* Filters of other types go with the type.
ChangeType ==
    \E type \in Types \ {box.type} :
        box' = [box EXCEPT !.type = type, !.cleared = FALSE,
                           !.at = [k \in Keys |-> IF k \in OnlyCurated \union {"tag", "group"} THEN NoText ELSE @[k]]]

Toggle == box' = [box EXCEPT !.at["filters"] = IF Opened(box) THEN "closed" ELSE "open"]

Clear ==
    /\ Active(box)
    /\ box' = [box EXCEPT !.at = [k \in Keys |-> NoText], !.cleared = TRUE]

Next == Change \/ ChangeType \/ Toggle \/ Clear

Spec == Init /\ [][Next]_box

-----------------------------------------------------------------------------
(* Properties.                                                              *)

\* No filter works unseen: what the server is asked to leave out or to add is what
\* the controls of the page show, one click away when they are folded, and is
\* counted; while any is in force the page offers to clear them, and clearing leaves
\* the list of the type; an empty list is said to be empty only when nothing is
\* left out.  Only an owner or the archive asked of someone who does not manage users
\* has no control, the server refusing the one and granting the other what is theirs
\* anyway (list-filters.tsx:27-65, 143-319; list.tsx:39-52, 209-224).
FiltersAreSeen ==
    LET asked == {k \in Keys : Narrows(box, k)} \union (IF Query(box).archived THEN {"archived"} ELSE {})
        own   == IF box.manages THEN {} ELSE ForManagers
    IN  /\ asked \ own \subseteq Shown([box EXCEPT !.at["filters"] = "open"])
        /\ Cardinality((asked \ own) \ {"q", "published"}) <= Count(box)
        /\ asked \ own # {} => Active(box)
        /\ box.cleared => Query(box) = Query(NoAddress(box.type)) /\ ~Active(box)
        /\ ~SaysNoMatch(box) => asked = {}
==============================================================================
