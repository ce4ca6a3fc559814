---------------------------- MODULE MCPeriphery -----------------------------
(***************************************************************************)
(* The parts around the CMS, each on a small instance of its own.          *)
(***************************************************************************)
EXTENDS Periphery

-----------------------------------------------------------------------------
(* Small values: the reader's page.                                         *)

MCFound == [t \in {"a", "b", "c"} |-> CASE t = "a" -> 3 [] t = "b" -> 1 [] OTHER -> 0]

MCRow(id, topics, tags, rating, words) ==
    [id |-> id, title |-> 7 - id, words |-> words, topics |-> topics, tags |-> tags, rating |-> rating,
     weight |-> IF rating = "S" THEN 1 ELSE 2, lang |-> IF id = 2 THEN "en" ELSE "zh",
     recommended |-> id = 3, featured |-> id = 1, added |-> IF id = 3 THEN 2 ELSE 1, sourceDate |-> id % 2]
MCRows == {MCRow(1, {"rt"}, {"go"}, "S", {"w"}), MCRow(2, {"rt"}, {}, "A", {}), MCRow(3, {"runtime"}, {"go", "db"}, "A", {"w"})}

MCNoAddress ==
    [q |-> "", topic |-> "", category |-> "", tags |-> {}, ratings |-> {}, lang |-> "", sort |-> "", page |-> 0]
MCVisited ==
    {MCNoAddress, [MCNoAddress EXCEPT !.page = 3],
     [MCNoAddress EXCEPT !.category = "runtime", !.sort = "title-asc"],
     [MCNoAddress EXCEPT !.tags = {"Go"}, !.page = 9],
     [MCNoAddress EXCEPT !.tags = {"gone"}, !.sort = "odd", !.topic = "gone"]}

\* The title of the first topic is the slug of the second.
MCTopicLabels == [t \in {"runtime", "Guide"} |-> IF t = "Guide" THEN "runtime" ELSE "rt"]
MCTagLabels   == [t \in {"Go", "Databases"} |-> IF t = "Go" THEN "go" ELSE "db"]

MCHeights == <<<<1, 1, 1>>, <<1, 3, 2>>>>

MCSamples ==
    [range \in {"7d", "30d"} |-> IF range = "7d" THEN [pageLoads |-> 2, visits |-> 2] ELSE [pageLoads |-> 3, visits |-> 0]]

MCSequences(values, lengths) == UNION {[1..n -> values] : n \in lengths}
MCRising == {xs \in MCSequences(0..7, 0..4) : \A i, j \in DOMAIN xs : i < j => xs[i] < xs[j]}
MCDay(date, loads, visits) == [date |-> date, pageLoads |-> loads, visits |-> visits]
MCInputs ==
    {[of |-> "scale", total |-> n] : n \in 0..60}
    \union {[of |-> "nearest", xs |-> xs, x |-> x] : xs \in MCRising, x \in {0, 2, 3, 7}}
    \union {[of |-> "tooltip", x |-> 10 * n, width |-> width, size |-> size, touch |-> touch] :
               n \in 0..20, width \in {20, 60, 90, 150}, size \in {100, 200}, touch \in BOOLEAN}
    \union {[of |-> "growth", points |-> [i \in DOMAIN xs |-> [date |-> xs[i], total |-> i * (i + k)]]] :
               xs \in MCRising \ {<<>>}, k \in {0, 1}}
    \union {[of |-> "traffic", daily |-> daily] : daily \in MCSequences({-1, 0, 2}, 0..6)}
    \union {[of |-> "answer", answer |-> [asked |-> 3, range |-> range, start |-> 1, end |-> end, daily |-> daily,
                                         coverage |-> {2, days}, shares |-> {0, share}]] :
               range \in {3, 4}, end \in {3, 4}, days \in {3, 4}, share \in {100, 101},
               daily \in MCSequences({MCDay(date, loads, visits) : date \in 1..3, loads \in {-1, 2}, visits \in {-1, 1}}, {3})}

-----------------------------------------------------------------------------
(* Small values: the Admin.                                                 *)

MCPost ==
    [type |-> "post", slug |-> "s", title |-> "t", titleEn |-> "", english |-> FALSE, language |-> "zh", byline |-> "u",
     cover |-> 0, tags |-> <<>>, entries |-> <<>>, payload |-> <<>>]
MCDrafts ==
    {MCPost, [MCPost EXCEPT !.slug = "", !.title = "", !.language = "", !.cover = 4, !.tags = <<1, 2>>, !.byline = "v"]}
    \union {[MCPost EXCEPT !.type = "note", !.slug = slug, !.payload = [group |-> g, groupSlug |-> h]] :
               slug \in {"", "s"}, g \in {"", "g"}, h \in {"", "s"}}
    \union {[MCPost EXCEPT !.type = "curated_article", !.slug = "", !.byline = "v", !.english = english, !.titleEn = title,
                           !.tags = <<2>>, !.payload = [sourceUrl |-> url, rating |-> rating, links |-> {"l"}]] :
               english \in BOOLEAN, title \in {"", "t"}, url \in {"", "web"}, rating \in {"", "A"}}
    \union {[MCPost EXCEPT !.type = "topic", !.english = english, !.title = "", !.entries = <<3, 2>>,
                           !.payload = [recommended |-> n]] : english \in BOOLEAN, n \in 0..2}

MCPages == {{1, 2}, {2, 3, 4}}
MCTexts == {<<>>, <<"w", "br">>}
MCHeld  == <<"a", "b">>

\* What an address may ask of the content list.
MCGiven ==
    {[k \in {} |-> ""], [k \in {"owner", "archived"} |-> IF k = "owner" THEN "x" ELSE "true"],
     [k \in {"tag", "topic", "sort"} |-> "odd"], [k \in {"group", "rating", "state"} |-> "x"],
     [k \in {"tag", "topic", "filters"} |-> IF k = "filters" THEN "closed" ELSE "x"],
     [k \in {"archived", "language", "q"} |-> IF k = "archived" THEN "false" ELSE "x"]}

-----------------------------------------------------------------------------
(* Small values: the checkout of the old site and the database it goes to.  *)

MCArticle(id, category, tags, at, images) == [id |-> id, category |-> category, tags |-> tags, at |-> at, images |-> images]
MCTopic(slug, reading, images) == [slug |-> slug, reading |-> reading, images |-> images]
MCNote(group, meta, slug, created, updated, images) ==
    [group |-> group, meta |-> meta, slug |-> slug, mapped |-> TRUE, created |-> created, updated |-> updated, images |-> images]
MCOld(articles, topics, notes) == [articles |-> articles, topics |-> topics, notes |-> notes]

MCSlugOf  == [n \in {"Go", "go", "DB"} |-> IF n = "DB" THEN "db" ELSE "go"]
MCBytesOf == [i \in {"x", "y", "bad"} |-> IF i = "x" THEN "h1" ELSE "h2"]

MCa1 == MCArticle("a", "t", <<"Go", "DB">>, 1, <<"x", "own">>)
MCa2 == MCArticle("b", "t", <<"Go">>, 2, <<"y">>)
MCa3 == MCArticle("c", "u", <<>>, 2, <<>>)
MCt1 == MCTopic("t", <<"c", "gone", "b", "c">>, <<>>)
MCt2 == MCTopic("u", <<>>, <<"x">>)
MCn1 == MCNote("g", "m", "n", 1, 2, <<"y">>)
MCn2 == MCNote("g", "m", "o", 1, 1, <<>>)

\* The whole, a small one, an empty one, and those that are refused for one reason each.
MCSources ==
    {MCOld(<<MCa1, MCa2, MCa3>>, <<MCt1, MCt2>>, <<MCn1, MCn2>>), MCOld(<<MCa3>>, <<MCt2>>, <<MCn1>>), MCOld(<<>>, <<>>, <<>>),
     MCOld(<<MCa1, [MCa2 EXCEPT !.id = "a"]>>, <<MCt1>>, <<>>), MCOld(<<MCa1, [MCa2 EXCEPT !.tags = <<"go">>]>>, <<>>, <<>>),
     MCOld(<<MCa3>>, <<MCt1, [MCt2 EXCEPT !.slug = "t"]>>, <<>>), MCOld(<<[MCa3 EXCEPT !.images = <<"bad">>]>>, <<>>, <<>>),
     MCOld(<<>>, <<>>, <<MCn1, [MCn2 EXCEPT !.meta = "other"]>>),
     MCOld(<<>>, <<>>, <<MCn1, [MCn2 EXCEPT !.group = "h", !.slug = "n"]>>)}
    \union {MCOld(<<>>, <<>>, <<note>>) : note \in
               {[MCn1 EXCEPT !.mapped = FALSE], [MCn1 EXCEPT !.created = 3], [MCn1 EXCEPT !.updated = 9]}}

MCRecord(type, slug, path, published) ==
    [type |-> type, slug |-> slug, path |-> path, images |-> <<>>, tags |-> {}, entries |-> <<>>, recommended |-> 0,
     dates |-> <<>>, published |-> published]
MCNew == [contents |-> <<>>, groups |-> {}, tags |-> {}, assets |-> {}, deleted |-> {}]
MCDatabases ==
    {MCNew, [MCNew EXCEPT !.groups = {<<"g", "other">>}], [MCNew EXCEPT !.groups = {<<"g", "m">>}, !.assets = {"h1"}],
     [MCNew EXCEPT !.tags = {"db"}], [MCNew EXCEPT !.deleted = {"h2"}],
     [MCNew EXCEPT !.contents = <<MCRecord("note", "n", <<"notes", "k", "n">>, FALSE), MCRecord("post", "b", <<"posts", "b">>, TRUE)>>],
     [MCNew EXCEPT !.contents = <<MCRecord("note", "z", <<"notes", "g", "n">>, TRUE)>>],
     [MCNew EXCEPT !.contents = [k \in 1..2 |-> MCRecord("post", "w", <<"posts", "w">>, FALSE)]]}
=============================================================================
