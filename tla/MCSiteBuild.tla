---------------------------- MODULE MCSiteBuild -----------------------------
(* Every snapshot of a small site, sound or with one defect, built once;    *)
(* and two generations built by two overlapping builds while objects are    *)
(* damaged, builds die and the CMS asks how far the site is.                *)
EXTENDS SiteBuild

CONSTANTS b1, b2

MCPageNames == <<"1", "2", "3", "4", "5", "6">>

Group(slug) == [slug |-> slug, order |-> 1]

Item(id, type, slug) ==
    [id |-> id, type |-> type, slug |-> slug, group |-> Group("g"), order |-> 0, title |-> 9 - id,
     author |-> 1, cover |-> 0, tags |-> {}, entries |-> {}, recommended |-> 0, english |-> "none",
     first |-> 1, last |-> (id % 3) + 1, featured |-> id = 3, sound |-> TRUE]

WithPath(item) == [path |-> PathOf(item)] @@ item

n1 == Item(1, "note", "x")
n2 == [Item(2, "note", "y") EXCEPT !.tags = {1}]
n3 == [Item(2, "note", "x") EXCEPT !.group = Group("h"), !.cover = 1]
n4 == [n2 EXCEPT !.group = [Group("g") EXCEPT !.order = 2]]
a1 == [Item(3, "curated_article", "x") EXCEPT !.tags = {1}]
a2 == [Item(4, "curated_article", "y") EXCEPT !.english = "sound"]
a3 == [Item(4, "curated_article", "y") EXCEPT !.english = "unsound"]
t1 == [Item(5, "topic", "x") EXCEPT !.entries = {[position |-> 1, target |-> 4], [position |-> 2, target |-> 3]},
                                    !.recommended = 1]
t2 == [Item(5, "topic", "x") EXCEPT !.entries = {[position |-> 1, target |-> 1]}]
p1 == [Item(6, "post", "x") EXCEPT !.author = 2]

\* Dated in the last year of four digits, after it, and beyond the calendar.
n5 == [n1 EXCEPT !.first = 4, !.last = 4]
n6 == [n1 EXCEPT !.first = 5, !.last = 5]
p2 == [p1 EXCEPT !.first = 5, !.last = 5]
p3 == [p1 EXCEPT !.first = 5, !.last = 6]

Contents ==
    {{WithPath(i) : i \in n \union a \union t \union p} :
        n \in {{}, {n1}, {n1, n2}, {n1, n3}, {n1, n4}, {n5}, {n6}}, a \in {{}, {a1}, {a1, a2}, {a1, a3}},
        t \in {{}, {t1}, {t2}}, p \in {{}, {p1}}}
    \union {{WithPath(p2)}, {WithPath(p3)}}

Canonicals1(content) == {[path |-> i.path, kind |-> "canonical", content |-> i.id] : i \in content}

\* Old addresses: of an article, of a note, of something that is gone, and one
\* that is an address of today.
OldAddresses == {{}, {[path |-> <<"articles", "old">>, kind |-> "redirect", content |-> 3],
                      [path |-> <<"notes", "g", "old">>, kind |-> "redirect", content |-> 1]},
                 {[path |-> <<"posts", "old">>, kind |-> "redirect", content |-> 7]},
                 {[path |-> <<"articles", "x">>, kind |-> "redirect", content |-> 4]}}

Exact(content, version, old) ==
    LET ids == {i.id : i \in content} IN
    [version |-> version, generation |-> 1, content |-> content,
     authors |-> {[id |-> i.author, slug |-> IF i.author = 1 THEN "ann" ELSE "bob"] : i \in content},
     tags    |-> {[id |-> 1, slug |-> "go"] : t \in UNION {i.tags : i \in content}},
     assets  |-> {[id |-> c] : c \in {i.cover : i \in content} \ {0}},
     groups  |-> IF version = 1 THEN {}
                 ELSE {[id |-> IF g = "g" THEN 1 ELSE 2, slug |-> g, order |-> 1] :
                          g \in {i.group.slug : i \in {i \in content : i.type = "note"}}},
     routes  |-> Canonicals1(content) \union {r \in old : r.content \in ids \union {7}}]

\* One thing too many or too few.
Defects(s) ==
    {s, [s EXCEPT !.authors = @ \ {[id |-> 1, slug |-> "ann"]}],
     [s EXCEPT !.tags = @ \union {[id |-> 2, slug |-> "rust"]}],
     [s EXCEPT !.tags = {}],
     [s EXCEPT !.groups = IF s.version = 1 THEN @ ELSE @ \union {[id |-> 3, slug |-> "empty", order |-> 0]}],
     [s EXCEPT !.assets = {}],
     [s EXCEPT !.routes = {r \in @ : r.content # 1}],
     [s EXCEPT !.content = {IF i.id = 1 THEN [i EXCEPT !.path = <<"notes", "g", "z">>] ELSE i : i \in @}]}

Small == UNION {Defects(Exact(content, version, old)) :
                   content \in Contents, version \in 1..3, old \in OldAddresses}

\* With version 1 and 2 there is no English edition.
Wire == {s \in Small : s.version # 3 => \A i \in s.content : i.english = "none"}

First  == Exact({WithPath(i) : i \in {n1, a1, a2, t1}}, 3, {})
Second == [Exact({WithPath(i) : i \in {n1, n2, a1}}, 3,
                 {[path |-> <<"articles", "old">>, kind |-> "redirect", content |-> 3]}) EXCEPT !.generation = 2]
Third  == [Exact({WithPath(i) : i \in {n1, p1}}, 2, {}) EXCEPT !.generation = 3]

MCScenarios ==
    {[history |-> <<s>>, fixture |-> TRUE, damage |-> {}, faults |-> 0, builds |-> {b1}, asks |-> FALSE] : s \in Wire}
    \union {[history |-> <<First, Second>>, fixture |-> FALSE, damage |-> {Third, [First EXCEPT !.tags = {}]}, faults |-> 1,
             builds |-> {b1, b2}, asks |-> TRUE]}
=============================================================================
